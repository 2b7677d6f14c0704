---------------------------- MODULE PanesProofs ----------------------------
(***************************************************************************)
(* The mouse in the two panes and the local listing (PaneInput), for any   *)
(* local files and whatever the remote directory lists: its variables keep *)
(* their types, the delete dialog deletes only what it named, and a double *)
(* click opens the folder it was on.  With RemotePaneProofs this is what   *)
(* MCPanes checks on a small instance, but for the condition under which   *)
(* the remote pane shows its directory.                                    *)
(***************************************************************************)
EXTENDS MCPanes, RemotePaneProofs

----------------------------------------------------------------------------
(* The local listing: the n-th of its names exists and is one of them.     *)

LocalNames == LocalFiles \cup Input!Folders

\* The instance counts the elements of a set as this module does.
LEMMA SameCount == ASSUME NEW S PROVE Input!Cardinality(S) = Cardinality(S)
  BY DEF Input!Cardinality, Cardinality

LEMMA ListedFacts ==
  ASSUME NEW d \in Input!LocalDirs, NEW files \in SUBSET LocalFiles
  PROVE  /\ Input!Listed(d, files)
              \in [1 .. Cardinality(DOMAIN Input!Listed(d, files)) -> LocalNames]
         /\ 0 \notin DOMAIN Input!Listed(d, files)
  <1> DEFINE S == Input!Entries(d, files)
             f == [v \in S |-> v]
  <1>1. /\ IsFiniteSet(S) /\ S \subseteq LocalNames /\ f \in [S -> Nat]
        /\ \A v \in S : f[v] = v /\ v \in Nat
    <2>1. IsFiniteSet(files)
      BY LocalNamesAssumption, FS_Subset
    <2>2. /\ S = files \cup {IF d = "top" THEN Input!Folder ELSE Input!Up}
          /\ (IF d = "top" THEN Input!Folder ELSE Input!Up) \in {0, 1}
      BY DEF Input!Entries, Input!Folder, Input!Up
    <2>3. IsFiniteSet(S)
      BY <2>1, <2>2, FS_AddElement
    <2>4. S \subseteq LocalNames /\ S \subseteq Nat
      BY <2>2, LocalNamesAssumption DEF LocalNames, Input!Folders, Input!Folder, Input!Up
    <2> HIDE DEF S
    <2> QED
      BY <2>3, <2>4
  <1>2. Cardinality(S) \in Nat
    BY <1>1, FS_CardinalityType
  <1> DEFINE L == Input!Listed(d, files)
  <1>3. L = [n \in 1 .. Input!Cardinality(S) |->
               CHOOSE v \in S : Input!Cardinality({w \in S : w <= v}) = n]
    BY DEF Input!Listed
  <1> HIDE DEF S, L
  <1>4. Input!Cardinality(S) = Cardinality(S)
    BY SameCount
  <1>5. ASSUME NEW n \in 1 .. Cardinality(S) PROVE L[n] \in LocalNames
    <2>1. PICK i \in S : Before(S, f, f[i]) < n /\ n <= UpTo(S, f, f[i])
      BY <1>1, Nth
    <2>2. UpTo(S, f, f[i]) = Before(S, f, f[i]) + 1
      BY <1>1, OneMore
    <2>3. Before(S, f, f[i]) \in Nat /\ n \in Nat
      <3>1. n \in Nat
        BY <1>2
      <3> QED
        BY <1>1, <3>1, CountsAreNat
    <2>4. UpTo(S, f, f[i]) = n
      BY <2>1, <2>2, <2>3
    <2>5. {w \in S : w <= i} = {w \in S : f[w] <= f[i]}
      BY <1>1
    <2>6. Input!Cardinality({w \in S : w <= i}) = n
      BY <2>4, <2>5, SameCount DEF UpTo
    <2>7. (CHOOSE v \in S : Input!Cardinality({w \in S : w <= v}) = n) \in S
      BY <2>6
    <2> QED
      BY <1>1, <1>3, <1>4, <2>7
  <1>6. L \in [1 .. Cardinality(S) -> LocalNames]
    BY <1>3, <1>4, <1>5
  <1>7. Cardinality(DOMAIN L) = Cardinality(S)
    <2>1. DOMAIN L = 1 .. Cardinality(S)
      BY <1>6
    <2> QED
      BY <1>2, <2>1, FS_Interval
  <1>8. 0 \notin DOMAIN L
    BY <1>2, <1>6
  <1> QED
    BY <1>6, <1>7, <1>8 DEF L

----------------------------------------------------------------------------
(* The invariant.                                                          *)

RowsOK == localRows \in [1 .. Cardinality(DOMAIN localRows) -> LocalNames]

\* The open dialog names all that a click on its button would delete.
ChosenAreNamed == named # {} => Input!FilesAt(localSelected) \subseteq named

\* The click that a second one would make a double click was on what is listed now.  No
\* row has the number 0.
FirstClickIsKnown == /\ 0 \notin DOMAIN localRows
                     /\ lastClick # 0 => lastName = <<cwd, localRows[lastClick]>>

InputInv == Input!TypeOK /\ ChosenAreNamed /\ FirstClickIsKnown

\* The local pane is filled anew: nothing is selected and no click remembered.
Refilled == /\ cwd' \in Input!LocalDirs /\ RowsOK' /\ 0 \notin DOMAIN localRows'
            /\ localSelected' = {} /\ lastClick' = 0
            /\ lastName' \in Input!LocalDirs \X LocalNames

LEMMA ShowFacts ==
  ASSUME NEW d \in Input!LocalDirs, NEW files \in SUBSET LocalFiles, Input!Show(d, files)
  PROVE  Refilled /\ cwd' = d
  <1>1. /\ Input!Listed(d, files)
             \in [1 .. Cardinality(DOMAIN Input!Listed(d, files)) -> LocalNames]
        /\ 0 \notin DOMAIN Input!Listed(d, files)
    BY ListedFacts
  <1>2. localRows' = Input!Listed(d, files) /\ cwd' = d
        /\ localSelected' = {} /\ lastClick' = 0 /\ lastName' = Input!NoClick
    BY DEF Input!Show
  <1>3. RowsOK'
    BY <1>1, <1>2 DEF RowsOK
  <1>4. Input!NoClick \in Input!LocalDirs \X LocalNames
    BY DEF Input!NoClick, Input!LocalDirs, LocalNames, Input!Folders, Input!Up
  <1> QED
    BY <1>1, <1>2, <1>3, <1>4 DEF Refilled

\* The types, part by part.
LocalOK == /\ disk \in [Input!LocalDirs -> SUBSET LocalFiles] /\ cwd \in Input!LocalDirs
           /\ RowsOK /\ localSelected \subseteq DOMAIN localRows
           /\ lastClick \in DOMAIN localRows \cup {0}
           /\ lastName \in Input!LocalDirs \X LocalNames
RemoteOK == linked \in BOOLEAN /\ shown \subseteq Far /\ picked \subseteq shown
DialogsOK == menu \in BOOLEAN /\ prompt \in BOOLEAN
             /\ named \subseteq Input!LocalDirs \X LocalFiles
DragOK == /\ drag \in [active : BOOLEAN, dragging : BOOLEAN, from : Input!Panes]
          /\ held \in BOOLEAN
          /\ dropped \subseteq {"upload", "download"} \X (LocalNames \cup Far)
MouseOK == /\ left \in BOOLEAN /\ edge \in {"none", "press", "release", "right"}
           /\ at.pane \in Input!Panes \cup {"none"} /\ at.on \subseteq Input!Widgets
           /\ pc \in {"idle", "rows", "drag", "menu", "dialogs"}

LEMMA InputTypes == Input!TypeOK <=> LocalOK /\ RemoteOK /\ DialogsOK /\ DragOK /\ MouseOK
  <1>1. LocalFiles \cup Input!Folders \cup Far = LocalNames \cup Far
    BY DEF LocalNames
  <1> QED
    BY <1>1, SameCount
    DEF Input!TypeOK, LocalOK, RemoteOK, DialogsOK, DragOK, MouseOK, RowsOK, LocalNames

LEMMA Parts ==
  /\ LocalOK /\ UNCHANGED Input!local => LocalOK'
  /\ RemoteOK /\ UNCHANGED Input!remote => RemoteOK'
  /\ DialogsOK /\ UNCHANGED Input!dialogs => DialogsOK'
  /\ DragOK /\ UNCHANGED Input!dragging => DragOK'
  /\ ChosenAreNamed /\ UNCHANGED <<Input!local, named>> => ChosenAreNamed'
  /\ ChosenAreNamed /\ Refilled => ChosenAreNamed'
  /\ FirstClickIsKnown /\ UNCHANGED Input!local => FirstClickIsKnown'
  /\ Refilled => FirstClickIsKnown'
  /\ Refilled /\ LocalOK /\ disk' \in [Input!LocalDirs -> SUBSET LocalFiles] => LocalOK'
  <1>1. LocalOK /\ UNCHANGED Input!local => LocalOK'
    BY DEF LocalOK, Input!local, RowsOK
  <1>2. RemoteOK /\ UNCHANGED Input!remote => RemoteOK'
    BY DEF RemoteOK, Input!remote
  <1>3. DialogsOK /\ UNCHANGED Input!dialogs => DialogsOK'
    BY DEF DialogsOK, Input!dialogs
  <1>4. DragOK /\ UNCHANGED Input!dragging => DragOK'
    BY DEF DragOK, Input!dragging
  <1>5. ChosenAreNamed /\ UNCHANGED <<Input!local, named>> => ChosenAreNamed'
    BY DEF ChosenAreNamed, Input!local, Input!FilesAt
  <1>6. ChosenAreNamed /\ Refilled => ChosenAreNamed'
    BY DEF ChosenAreNamed, Refilled, Input!FilesAt
  <1>7. FirstClickIsKnown /\ UNCHANGED Input!local => FirstClickIsKnown'
    BY DEF FirstClickIsKnown, Input!local
  <1>8. Refilled => FirstClickIsKnown'
    BY DEF FirstClickIsKnown, Refilled
  <1>9. Refilled /\ LocalOK /\ disk' \in [Input!LocalDirs -> SUBSET LocalFiles] => LocalOK'
    BY DEF LocalOK, Refilled
  <1> QED
    BY <1>1, <1>2, <1>3, <1>4, <1>5, <1>6, <1>7, <1>8, <1>9

LEMMA InitInput == Input!Init => InputInv
  <1> SUFFICES ASSUME Input!Init PROVE InputInv
    OBVIOUS
  <1>1. "top" \in Input!LocalDirs /\ disk["top"] \in SUBSET LocalFiles
    BY DEF Input!Init, Input!LocalDirs
  <1>2. localRows = Input!Listed("top", disk["top"])
    BY DEF Input!Init
  <1>3. RowsOK /\ 0 \notin DOMAIN localRows
    BY <1>1, <1>2, ListedFacts DEF RowsOK
  <1>4. LocalOK
    BY <1>1, <1>3 DEF Input!Init, LocalOK, Input!NoClick, LocalNames, Input!Folders
  <1>5. RemoteOK /\ DialogsOK /\ DragOK /\ MouseOK
    BY DEF Input!Init, RemoteOK, DialogsOK, DragOK, MouseOK, Input!NoDrag, Input!Panes,
           Input!Nowhere, Input!Widgets
  <1>6. ChosenAreNamed /\ FirstClickIsKnown
    BY <1>3 DEF Input!Init, ChosenAreNamed, FirstClickIsKnown
  <1> QED
    BY <1>4, <1>5, <1>6, InputTypes DEF InputInv

\* What the other threads and the frame's start do between two frames.
LEMMA BetweenKeeps == InputInv /\ Input!Between => InputInv'
  <1> SUFFICES ASSUME InputInv, Input!Between PROVE InputInv'
    OBVIOUS
  <1>0. /\ LocalOK /\ RemoteOK /\ DialogsOK /\ DragOK /\ MouseOK
        /\ ChosenAreNamed /\ FirstClickIsKnown
    BY InputTypes DEF InputInv
  <1> SUFFICES /\ LocalOK' /\ RemoteOK' /\ DialogsOK' /\ DragOK' /\ MouseOK'
               /\ ChosenAreNamed' /\ FirstClickIsKnown'
    BY InputTypes, PTL DEF InputInv
  <1>1. ASSUME NEW d \in Input!LocalDirs, NEW f \in LocalFiles, Input!DownloadEnds(d, f)
        PROVE  /\ LocalOK' /\ RemoteOK' /\ DialogsOK' /\ DragOK' /\ MouseOK'
               /\ ChosenAreNamed' /\ FirstClickIsKnown'
    <2>1. disk' \in [Input!LocalDirs -> SUBSET LocalFiles]
      BY <1>0, <1>1 DEF Input!DownloadEnds, LocalOK
    <2>2. LocalOK' /\ ChosenAreNamed' /\ FirstClickIsKnown'
      <3>1. CASE d = cwd
        <4> SUFFICES ASSUME NEW files \in SUBSET LocalFiles, files = disk'[d]
                     PROVE  LocalOK' /\ ChosenAreNamed' /\ FirstClickIsKnown'
          BY <2>1
        <4>1. Input!Show(d, files)
          BY <1>1, <3>1 DEF Input!DownloadEnds
        <4>2. Refilled
          BY <4>1, ShowFacts
        <4> QED
          BY <1>0, <2>1, <4>2, Parts
      <3>2. CASE d # cwd
        <4>1. UNCHANGED <<cwd, localRows, localSelected, lastClick, lastName, named>>
          BY <1>1, <3>2 DEF Input!DownloadEnds, Input!dialogs
        <4> QED
          BY <1>0, <2>1, <4>1
          DEF LocalOK, RowsOK, ChosenAreNamed, FirstClickIsKnown, Input!FilesAt
      <3> QED
        BY <3>1, <3>2
    <2>3. UNCHANGED <<Input!remote, Input!dialogs, Input!dragging, Input!mouse, pc>>
      BY <1>1 DEF Input!DownloadEnds
    <2>4. MouseOK'
      BY <1>0, <2>3 DEF MouseOK, Input!mouse
    <2> QED
      BY <1>0, <2>2, <2>3, <2>4, Parts
  <1>2. ASSUME \/ \E up \in BOOLEAN : Input!Emptied(up)
               \/ Input!Filled \/ Input!Reconnect \/ Input!Prompt
        PROVE  /\ LocalOK' /\ RemoteOK' /\ DialogsOK' /\ DragOK' /\ MouseOK'
               /\ ChosenAreNamed' /\ FirstClickIsKnown'
    <2>1. UNCHANGED <<Input!local, Input!dragging, Input!mouse, pc, named, menu>>
      BY <1>2 DEF Input!Emptied, Input!Filled, Input!Reconnect, Input!Prompt, Input!dialogs
    <2>2. RemoteOK' /\ DialogsOK'
      BY <1>0, <1>2
      DEF Input!Emptied, Input!Filled, Input!Reconnect, Input!Prompt, Input!dialogs,
          Input!remote, RemoteOK, DialogsOK
    <2>3. MouseOK'
      BY <1>0, <2>1 DEF MouseOK, Input!mouse
    <2> QED
      BY <1>0, <2>1, <2>2, <2>3, Parts
  <1> QED
    BY <1>1, <1>2 DEF Input!Between

\* Clicks on the rows: none lands on a local row while the delete dialog is up.
LEMMA RowsKeep ==
  ASSUME InputInv,
         \/ \E i \in DOMAIN localRows : \/ \E ctrl, quick \in BOOLEAN : Input!ClickLocal(i, ctrl, quick)
                                        \/ Input!RightClickLocal(i)
         \/ \E f \in shown, ctrl \in BOOLEAN : Input!ClickRemote(f, ctrl)
         \/ Input!PassRows
  PROVE  InputInv'
  <1>0. /\ LocalOK /\ RemoteOK /\ DialogsOK /\ DragOK /\ MouseOK
        /\ ChosenAreNamed /\ FirstClickIsKnown
    BY InputTypes DEF InputInv
  <1> DEFINE InvKept == /\ LocalOK' /\ RemoteOK' /\ DialogsOK' /\ DragOK' /\ MouseOK'
                      /\ ChosenAreNamed' /\ FirstClickIsKnown'
  <1> SUFFICES InvKept
    BY InputTypes, PTL DEF InputInv
  <1>1. ASSUME NEW i \in DOMAIN localRows, NEW ctrl \in BOOLEAN, NEW quick \in BOOLEAN,
               Input!ClickLocal(i, ctrl, quick)
        PROVE  InvKept
    <2>1. UNCHANGED <<disk, Input!remote, Input!dialogs, Input!dragging, Input!mouse>>
          /\ pc' = "drag"
      BY <1>1 DEF Input!ClickLocal
    <2>2. MouseOK' /\ RemoteOK' /\ DialogsOK' /\ DragOK'
      BY <1>0, <2>1, Parts DEF MouseOK, Input!mouse
    <2>3. named = {} /\ named' = {}
      BY <1>1, <2>1 DEF Input!ClickLocal, Input!OnRow, Input!Gated, Input!dialogs
    <2>4. ChosenAreNamed'
      BY <2>3 DEF ChosenAreNamed
    <2>5. localRows[i] \in LocalNames
      BY <1>0 DEF LocalOK, RowsOK
    <2>6. CASE quick /\ lastClick = i /\ localRows[i] \in Input!Folders
      <3> SUFFICES ASSUME NEW d \in Input!LocalDirs, d = Input!Opened(localRows[i])
                   PROVE  InvKept
        BY DEF Input!Opened, Input!LocalDirs
      <3>1. disk[d] \in SUBSET LocalFiles
        BY <1>0 DEF LocalOK
      <3>2. Input!Show(d, disk[d])
        BY <1>1, <2>6 DEF Input!ClickLocal
      <3>3. Refilled
        BY <3>1, <3>2, ShowFacts
      <3> QED
        BY <1>0, <2>1, <2>2, <2>4, <3>3, Parts DEF LocalOK
    <2>7. CASE ~(quick /\ lastClick = i /\ localRows[i] \in Input!Folders)
      <3>1. /\ localSelected' = IF ctrl THEN Input!Toggled(localSelected, i)
                                ELSE Input!Collapsed(localSelected, i)
            /\ lastClick' = i /\ lastName' = <<cwd, localRows[i]>>
            /\ UNCHANGED <<cwd, localRows>>
        BY <1>1, <2>7 DEF Input!ClickLocal
      <3>2. localSelected' \subseteq DOMAIN localRows
        BY <1>0, <3>1 DEF LocalOK, Input!Toggled, Input!Collapsed
      <3>3. LocalOK'
        BY <1>0, <2>1, <2>5, <3>1, <3>2 DEF LocalOK, RowsOK
      <3>4. FirstClickIsKnown'
        BY <1>0, <3>1 DEF FirstClickIsKnown
      <3> QED
        BY <2>2, <2>4, <3>3, <3>4
    <2> QED
      BY <2>6, <2>7
  <1>2. ASSUME NEW i \in DOMAIN localRows, Input!RightClickLocal(i)
        PROVE  InvKept
    <2>1. /\ UNCHANGED <<disk, cwd, localRows, lastClick, lastName, Input!remote, named, prompt,
                         Input!dragging, Input!mouse>>
          /\ pc' = "drag" /\ menu' = TRUE /\ localSelected' = Input!Collapsed(localSelected, i)
      BY <1>2 DEF Input!RightClickLocal
    <2>2. MouseOK' /\ RemoteOK' /\ DialogsOK' /\ DragOK'
      BY <1>0, <2>1, Parts DEF MouseOK, Input!mouse, DialogsOK
    <2>3. named = {}
      BY <1>2 DEF Input!RightClickLocal, Input!OnRow, Input!Gated
    <2>4. ChosenAreNamed' /\ FirstClickIsKnown'
      BY <1>0, <2>1, <2>3 DEF ChosenAreNamed, FirstClickIsKnown
    <2>5. localSelected' \subseteq DOMAIN localRows
      BY <1>0, <2>1 DEF LocalOK, Input!Collapsed
    <2>6. LocalOK'
      BY <1>0, <2>1, <2>5 DEF LocalOK, RowsOK
    <2> QED
      BY <2>2, <2>4, <2>6
  <1>3. ASSUME NEW f \in shown, NEW ctrl \in BOOLEAN, Input!ClickRemote(f, ctrl)
        PROVE  InvKept
    <2>1. UNCHANGED <<Input!local, linked, shown, Input!dialogs, Input!dragging, Input!mouse>>
          /\ pc' = "drag" /\ named' = named
      BY <1>3 DEF Input!ClickRemote, Input!dialogs
    <2>2. picked' = IF ctrl THEN Input!Toggled(picked, f) ELSE Input!Collapsed(picked, f)
      BY <1>3 DEF Input!ClickRemote
    <2>3. RemoteOK'
      BY <1>0, <2>1, <2>2 DEF RemoteOK, Input!Toggled, Input!Collapsed
    <2>4. MouseOK'
      BY <1>0, <2>1 DEF MouseOK, Input!mouse
    <2> QED
      BY <1>0, <2>1, <2>3, <2>4, Parts
  <1>4. ASSUME Input!PassRows PROVE InvKept
    <2>1. UNCHANGED <<Input!local, Input!remote, Input!dialogs, Input!dragging, Input!mouse>>
          /\ pc' = "drag" /\ named' = named
      BY <1>4 DEF Input!PassRows, Input!dialogs
    <2>2. MouseOK'
      BY <1>0, <2>1 DEF MouseOK, Input!mouse
    <2> QED
      BY <1>0, <2>1, <2>2, Parts
  <1> QED
    BY <1>1, <1>2, <1>3, <1>4

\* A frame samples the mouse, drags, and presses the menu: the menu's item makes the
\* dialog name what is selected.
LEMMA MouseKeeps ==
  ASSUME InputInv,
         \/ \E e \in {"press", "release", "right"}, s \in Input!Spots : Input!Sample(e, s)
         \/ \E b \in BOOLEAN : Input!MoveDrag(b) \/ Input!Release(b)
         \/ Input!ArmDrag \/ Input!PassDrag \/ Input!PressMenu
  PROVE  InputInv'
  <1>0. /\ LocalOK /\ RemoteOK /\ DialogsOK /\ DragOK /\ MouseOK
        /\ ChosenAreNamed /\ FirstClickIsKnown
    BY InputTypes DEF InputInv
  <1> DEFINE InvKept == /\ LocalOK' /\ RemoteOK' /\ DialogsOK' /\ DragOK' /\ MouseOK'
                        /\ ChosenAreNamed' /\ FirstClickIsKnown'
  <1> SUFFICES InvKept
    BY InputTypes, PTL DEF InputInv
  <1>1. ASSUME NEW e \in {"press", "release", "right"}, NEW s \in Input!Spots,
               Input!Sample(e, s)
        PROVE  InvKept
    <2>1. UNCHANGED <<Input!local, Input!remote, Input!dialogs, Input!dragging, named>>
          /\ edge' = e /\ at' = s /\ pc' \in {"drag", "rows"} /\ left' \in BOOLEAN
      BY <1>0, <1>1 DEF Input!Sample, Input!dialogs, MouseOK
    <2>2. s.pane \in Input!Panes \cup {"none"} /\ s.on \subseteq Input!Widgets
      BY DEF Input!Spots, Input!Stacks, Input!Panes
    <2>3. MouseOK'
      BY <2>1, <2>2 DEF MouseOK
    <2> QED
      BY <1>0, <2>1, <2>3, Parts
  <1>2. ASSUME NEW b \in BOOLEAN, Input!MoveDrag(b) PROVE InvKept
    <2>1. UNCHANGED <<Input!local, Input!remote, Input!dialogs, held, dropped, Input!mouse, named>>
          /\ pc' = "menu" /\ drag' = [drag EXCEPT !.dragging = @ \/ b]
      BY <1>2 DEF Input!MoveDrag, Input!dialogs
    <2>2. (drag.dragging \/ b) \in BOOLEAN
      BY <1>0 DEF DragOK
    <2>3. DragOK' /\ MouseOK'
      BY <1>0, <2>1, <2>2 DEF DragOK, MouseOK, Input!mouse
    <2> QED
      BY <1>0, <2>1, <2>3, Parts
  <1>3. ASSUME NEW b \in BOOLEAN, Input!Release(b) PROVE InvKept
    <2>1. UNCHANGED <<Input!local, Input!remote, Input!dialogs, held, Input!mouse, named>>
          /\ pc' = "menu" /\ drag' = Input!NoDrag
          /\ (dropped' = Input!Cargo \/ dropped' = {})
      BY <1>3 DEF Input!Release, Input!dialogs
    <2>2. Input!Cargo \subseteq {"upload", "download"} \X (LocalNames \cup Far)
      <3>1. \A i \in localSelected : localRows[i] \in LocalNames
        BY <1>0 DEF LocalOK, RowsOK
      <3>2. picked \subseteq Far
        BY <1>0 DEF RemoteOK
      <3> QED
        BY <3>1, <3>2 DEF Input!Cargo
    <2>3. DragOK' /\ MouseOK'
      BY <1>0, <2>1, <2>2 DEF DragOK, MouseOK, Input!mouse, Input!NoDrag, Input!Panes
    <2> QED
      BY <1>0, <2>1, <2>3, Parts
  <1>4. ASSUME Input!ArmDrag PROVE InvKept
    <2>1. UNCHANGED <<Input!local, Input!remote, Input!dialogs, dropped, Input!mouse, named>>
          /\ pc' = "menu" /\ held' = TRUE /\ at.pane \in Input!Panes
          /\ drag' = [active |-> TRUE, dragging |-> FALSE, from |-> at.pane]
      BY <1>4 DEF Input!ArmDrag, Input!dialogs
    <2>2. DragOK' /\ MouseOK'
      BY <1>0, <2>1 DEF DragOK, MouseOK, Input!mouse
    <2> QED
      BY <1>0, <2>1, <2>2, Parts
  <1>5. ASSUME Input!PassDrag PROVE InvKept
    <2>1. UNCHANGED <<Input!local, Input!remote, Input!dialogs, Input!dragging, Input!mouse, named>>
          /\ pc' = "menu"
      BY <1>5 DEF Input!PassDrag, Input!dialogs
    <2>2. MouseOK'
      BY <1>0, <2>1 DEF MouseOK, Input!mouse
    <2> QED
      BY <1>0, <2>1, <2>2, Parts
  <1>6. ASSUME Input!PressMenu PROVE InvKept
    <2>1. UNCHANGED <<Input!local, Input!remote, prompt, Input!dragging, Input!mouse>>
          /\ pc' = "dialogs" /\ menu' \in BOOLEAN
          /\ (named' = named \/ named' = Input!FilesAt(localSelected))
      BY <1>0, <1>6 DEF Input!PressMenu, DialogsOK
    <2>2. Input!FilesAt(localSelected) \subseteq Input!LocalDirs \X LocalFiles
      BY <1>0 DEF LocalOK, Input!FilesAt
    <2>3. DialogsOK' /\ MouseOK'
      BY <1>0, <2>1, <2>2 DEF DialogsOK, MouseOK, Input!mouse
    <2>4. ChosenAreNamed'
      BY <1>0, <2>1 DEF ChosenAreNamed, Input!FilesAt, Input!local
    <2> QED
      BY <1>0, <2>1, <2>3, <2>4, Parts
  <1> QED
    BY <1>1, <1>2, <1>3, <1>4, <1>5, <1>6

\* The dialogs: only the delete dialog's button touches the pane, and it fills it anew.
LEMMA DialogsKeep ==
  ASSUME InputInv, Input!Dialogs
  PROVE  InputInv'
  <1>0. /\ LocalOK /\ RemoteOK /\ DialogsOK /\ DragOK /\ MouseOK
        /\ ChosenAreNamed /\ FirstClickIsKnown
    BY InputTypes DEF InputInv
  <1> DEFINE InvKept == /\ LocalOK' /\ RemoteOK' /\ DialogsOK' /\ DragOK' /\ MouseOK'
                        /\ ChosenAreNamed' /\ FirstClickIsKnown'
  <1> SUFFICES InvKept
    BY InputTypes, PTL DEF InputInv
  <1>1. DragOK' /\ MouseOK'
    <2>1. /\ held' = (held /\ left) /\ dropped' = {} /\ edge' = "none" /\ at' = Input!Nowhere
          /\ pc' = "idle" /\ UNCHANGED <<drag, left>>
      BY DEF Input!Dialogs
    <2>2. (held /\ left) \in BOOLEAN
      OBVIOUS
    <2> QED
      BY <1>0, <2>1, <2>2 DEF DragOK, MouseOK, Input!Nowhere
  <1>2. RemoteOK' /\ prompt' \in BOOLEAN /\ menu' = menu
    <2>1. UNCHANGED <<shown, picked, menu>>
      BY DEF Input!Dialogs
    <2>2. CASE \E trusted \in BOOLEAN : Input!Answer(trusted)
      BY <1>0, <2>1, <2>2 DEF Input!Answer, RemoteOK
    <2>3. CASE Input!NoAnswer
      BY <1>0, <2>1, <2>3 DEF Input!NoAnswer, RemoteOK, DialogsOK
    <2> QED
      BY <2>1, <2>2, <2>3 DEF Input!Dialogs
  <1>3. /\ LocalOK' /\ ChosenAreNamed' /\ FirstClickIsKnown'
        /\ named' \subseteq Input!LocalDirs \X LocalFiles
    <2>1. CASE Input!Confirm
      <3>1. named' = {} /\ Input!Show(cwd, disk'[cwd])
        BY <2>1 DEF Input!Confirm
      <3>2. disk' \in [Input!LocalDirs -> SUBSET LocalFiles]
        BY <1>0, <2>1 DEF Input!Confirm, LocalOK
      <3>3. Refilled
        <4> SUFFICES ASSUME NEW files, files = disk'[cwd] PROVE Refilled
          OBVIOUS
        <4>1. cwd \in Input!LocalDirs /\ files \in SUBSET LocalFiles /\ Input!Show(cwd, files)
          BY <1>0, <3>1, <3>2 DEF LocalOK
        <4> QED
          BY <4>1, ShowFacts
      <3> QED
        BY <1>0, <3>1, <3>2, <3>3, Parts
    <2>2. CASE Input!Cancel
      <3>1. named' = {} /\ UNCHANGED Input!local
        BY <2>2 DEF Input!Cancel
      <3>2. ChosenAreNamed'
        BY <3>1 DEF ChosenAreNamed
      <3> QED
        BY <1>0, <3>1, <3>2, Parts
    <2>3. CASE Input!NoDecision
      <3>1. UNCHANGED <<Input!local, named>>
        BY <2>3 DEF Input!NoDecision
      <3> QED
        BY <1>0, <3>1, Parts DEF DialogsOK
    <2> QED
      BY <2>1, <2>2, <2>3 DEF Input!Dialogs
  <1>4. DialogsOK'
    BY <1>0, <1>2, <1>3 DEF DialogsOK
  <1> QED
    BY <1>1, <1>2, <1>3, <1>4

LEMMA NextInput == InputInv /\ [Input!Next]_(Input!vars) => InputInv'
  <1> SUFFICES ASSUME InputInv, [Input!Next]_(Input!vars) PROVE InputInv'
    OBVIOUS
  <1>1. CASE UNCHANGED Input!vars
    <2>1. UNCHANGED <<Input!local, Input!remote, Input!dialogs, Input!dragging, Input!mouse, pc,
                      named>>
      BY <1>1 DEF Input!vars, Input!dialogs
    <2>2. MouseOK => MouseOK'
      BY <2>1 DEF MouseOK, Input!mouse
    <2> SUFFICES /\ LocalOK' /\ RemoteOK' /\ DialogsOK' /\ DragOK' /\ MouseOK'
                 /\ ChosenAreNamed' /\ FirstClickIsKnown'
      BY InputTypes, PTL DEF InputInv
    <2> QED
      BY <2>1, <2>2, InputTypes, Parts DEF InputInv
  <1> QED
    BY <1>1, BetweenKeeps, RowsKeep, MouseKeeps, DialogsKeep DEF Input!Next, Input!Frame

----------------------------------------------------------------------------
(* The two panes together.                                                 *)

LEMMA InputOfPanes == PanesInit => Input!Init
  BY DEF PanesInit

LEMMA InputSteps == [PanesNext]_panesVars => [Input!Next]_(Input!vars)
  BY DEF PanesNext, panesVars, inputVars, Input!vars, Input!local, Input!remote,
         Input!dialogs, Input!dragging, Input!mouse

LEMMA AlwaysInputInv == PanesSpec => []InputInv
  BY InitInput, NextInput, InputOfPanes, InputSteps, PTL DEF PanesSpec

LEMMA PanesRemote == PanesSpec => Spec
  <1>1. PanesInit => Init
    BY DEF PanesInit
  <1>2. [PanesNext]_panesVars => [Next]_vars
    BY DEF PanesNext, panesVars
  <1> QED
    BY <1>1, <1>2, PTL DEF PanesSpec, Spec

\* The variables of both panes keep their types: no selected index and no remembered click
\* of the local pane lies outside its listing, which is what keeps main.c from reading past
\* local_entries.
THEOREM PanesTypesCorrect == PanesSpec => []PanesTypeOK
  <1>1. InputInv => Input!TypeOK
    BY DEF InputInv
  <1>2. TypeOK /\ Input!TypeOK => PanesTypeOK
    BY DEF PanesTypeOK
  <1> QED
    BY <1>1, <1>2, AlwaysInputInv, PanesRemote, RemotePaneTypes, PTL

\* No local file is deleted that the dialog did not name when it opened (main.c's
\* local_delete_confirm): while it is up no click reaches the rows, and whatever lists the
\* pane anew leaves nothing selected.
THEOREM OnlyNamedLocalFilesGo == PanesSpec => LocalDeletesWhatIsNamed
  <1>1. InputInv /\ [Input!Next]_(Input!vars)
          => [\A d \in Input!LocalDirs : \A f \in disk[d] \ disk'[d] : <<d, f>> \in named]_(Input!vars)
    <2> SUFFICES ASSUME InputInv, Input!Next, NEW d \in Input!LocalDirs,
                        NEW f \in disk[d] \ disk'[d]
                 PROVE  <<d, f>> \in named
      OBVIOUS
    <2>0. LocalOK /\ ChosenAreNamed
      BY InputTypes DEF InputInv
    <2>1. disk' # disk
      OBVIOUS
    <2>2. ASSUME NEW c \in Input!LocalDirs, NEW g \in LocalFiles, Input!DownloadEnds(c, g)
          PROVE  FALSE
      <3>1. disk' = [disk EXCEPT ![c] = @ \cup {g}]
        BY <2>2 DEF Input!DownloadEnds
      <3> QED
        BY <2>0, <3>1 DEF LocalOK
    <2>3. ASSUME Input!Dialogs, Input!Confirm PROVE <<d, f>> \in named
      <3>1. PICK gone \in SUBSET Input!FilesAt(localSelected) :
              disk' = [disk EXCEPT ![cwd] = {g \in @ : <<cwd, g>> \notin gone}]
        BY <2>3 DEF Input!Confirm
      <3>2. named # {}
        BY <2>3 DEF Input!Confirm
      <3>3. d = cwd /\ <<cwd, f>> \in gone
        BY <2>0, <3>1 DEF LocalOK
      <3> QED
        BY <2>0, <3>2, <3>3 DEF ChosenAreNamed
    <2>4. \/ Input!Dialogs /\ Input!Confirm
          \/ \E c \in Input!LocalDirs, g \in LocalFiles : Input!DownloadEnds(c, g)
      BY <2>1
      DEF Input!Next, Input!Between, Input!Frame, Input!Emptied, Input!Filled, Input!Reconnect,
          Input!Prompt, Input!Sample, Input!ClickLocal, Input!RightClickLocal,
          Input!ClickRemote, Input!PassRows, Input!MoveDrag, Input!Release,
          Input!ArmDrag, Input!PassDrag, Input!PressMenu, Input!Dialogs, Input!Cancel,
          Input!NoDecision, Input!local
    <2> QED
      BY <2>2, <2>3, <2>4
  <1> QED
    BY <1>1, AlwaysInputInv, InputSteps, PTL
    DEF PanesSpec, LocalDeletesWhatIsNamed, Input!DeletesWhatIsNamed

\* A double click opens the folder that both of its clicks were on, although a download may
\* have listed the pane again between them (local_row_state.last_click_index of main.c).
THEOREM DoubleClicksAreMeant == PanesSpec => OpensWhatWasClicked
  <1>1. InputInv /\ [Input!Next]_(Input!vars)
          => [cwd' # cwd => lastName = <<cwd, localRows[at.row]>>]_(Input!vars)
    <2> SUFFICES ASSUME InputInv, Input!Next, cwd' # cwd
                 PROVE  lastName = <<cwd, localRows[at.row]>>
      OBVIOUS
    <2>0. LocalOK /\ FirstClickIsKnown
      BY InputTypes DEF InputInv
    <2>1. PICK i \in DOMAIN localRows, ctrl \in BOOLEAN, quick \in BOOLEAN :
            Input!ClickLocal(i, ctrl, quick)
      BY DEF Input!Next, Input!Between, Input!Frame, Input!DownloadEnds, Input!Show,
          Input!Emptied, Input!Filled, Input!Reconnect,
          Input!Prompt, Input!Sample, Input!RightClickLocal,
          Input!ClickRemote, Input!PassRows, Input!MoveDrag, Input!Release,
          Input!ArmDrag, Input!PassDrag, Input!PressMenu, Input!Dialogs, Input!Confirm,
          Input!Cancel, Input!NoDecision, Input!local
    <2>2. lastClick = i /\ at.row = i
      BY <2>1 DEF Input!ClickLocal, Input!OnRow
    <2>3. i # 0
      BY <2>0 DEF FirstClickIsKnown
    <2> QED
      BY <2>0, <2>2, <2>3 DEF FirstClickIsKnown
  <1> QED
    BY <1>1, AlwaysInputInv, InputSteps, PTL
    DEF PanesSpec, OpensWhatWasClicked, Input!OpensWhatWasClicked

============================================================================
