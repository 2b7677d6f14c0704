------------------------------ MODULE MCPanes ------------------------------
(***************************************************************************)
(* The two models of the panes, checked together: RemotePane, the remote   *)
(* listing and what is deleted from it, and PaneInput, the mouse in the    *)
(* panes and the local listing.  They share no state, so a behaviour       *)
(* follows one of them, whichever.                                         *)
(***************************************************************************)
EXTENDS RemotePane

CONSTANTS LocalFiles, TopOnly, Far

\* A file's name is an integer above those of "..", which is 0, and of the folder.
ASSUME LocalNamesAssumption == LocalFiles \subseteq Nat \ {0, 1} /\ IsFiniteSet(LocalFiles)

\* Directory 2 has a path longer than a request, and its beginning is directory 1's;
\* in directory 1 the path of the last file is, and its beginning is the first one's.
\* Below directory 2 nothing fits.
MCDirSent == [d \in Dirs |-> IF d = 2 THEN 1 ELSE d]
LastFile == CHOOSE f \in Files : \A g \in Files : g <= f
FirstFile == CHOOSE f \in Files : \A g \in Files : f <= g
MCFileSent == [d \in Dirs |-> [f \in Files |->
                 IF d = 2 THEN [dir |-> Garbled, file |-> f]
                 ELSE [dir |-> d, file |-> IF f = LastFile THEN FirstFile ELSE f]]]

VARIABLES part,
          disk, cwd, localRows, localSelected, lastClick, lastName,
          linked, shown, picked, menu, named, prompt,
          drag, held, dropped, left, edge, at, pc

Input == INSTANCE PaneInput WITH
           Files <- LocalFiles, rows <- localRows, selected <- localSelected

inputVars == <<disk, cwd, localRows, localSelected, lastClick, lastName,
               linked, shown, picked, menu, named, prompt,
               drag, held, dropped, left, edge, at, pc>>
panesVars == <<part, vars, inputVars>>

PanesInit == /\ part \in {"remote", "input"}
             /\ Init /\ Input!Init
             /\ part = "remote" => \A d \in DOMAIN disk : disk[d] = {}
             /\ part = "input" => \A d \in DOMAIN server : server[d] = {}


PanesNext == \/ part = "remote" /\ Next /\ UNCHANGED <<part, inputVars>>
             \/ part = "input" /\ Input!Next /\ UNCHANGED <<part, vars>>

PanesSpec == PanesInit /\ [][PanesNext]_panesVars

----------------------------------------------------------------------------
PanesTypeOK == TypeOK /\ Input!TypeOK

\* PaneInput's properties.
LocalDeletesWhatIsNamed == Input!DeletesWhatIsNamed
OpensWhatWasClicked == Input!OpensWhatWasClicked
=============================================================================
