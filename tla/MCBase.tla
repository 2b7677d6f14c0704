------------------------------- MODULE MCBase -------------------------------
(***************************************************************************)
(* The parts everything else stands on, checked together: the ring between *)
(* threads, the arena, the scratch arenas of a thread, the text field and  *)
(* the glyph atlas.  They share no state, so a behaviour follows one of    *)
(* them, whichever, and the others stay as they began.                     *)
(***************************************************************************)
EXTENDS GuardedRing, Arena, Scratch, TextField, GlyphAtlas

CONSTANT FirstAddress  \* where the arena of the other parts is

VARIABLE part

baseVars == <<part, vars, arenaVars, scratchVars, fieldVars, atlasVars>>

MCTexts == {<<>>, <<"a", "b">>, <<"b", "a", "a", "b", "a", "b">>}

\* Glyphs from wide and low to narrow and high, and one without ink.
MCInk == [k \in 1 .. 6 |-> CASE k = 1 -> [w |-> 1, h |-> 1]
                             [] k = 2 -> [w |-> 2, h |-> 1]
                             [] k = 3 -> [w |-> 1, h |-> 3]
                             [] k = 4 -> [w |-> 3, h |-> 1]
                             [] k = 5 -> [w |-> 2, h |-> 2]
                             [] k = 6 -> [w |-> 0, h |-> 0]]

BaseInit == /\ part \in {"ring", "arena", "scratch", "field", "atlas"}
            /\ Init /\ ArenaInit /\ ScratchInit /\ FieldInit /\ AtlasInit
            /\ part # "arena" => chain[1].at = FirstAddress

OnRing(A) == /\ part = "ring" /\ A
             /\ UNCHANGED <<part, arenaVars, scratchVars, fieldVars, atlasVars>>

RingStep(t) == OnRing(Inside(t))
RingLock(t) == OnRing(Lock(t))
RingRead(r) == OnRing(\E p \in ReaderPatience : CallRead(r, p))

BaseNext ==
  \/ OnRing(Next)
  \/ /\ part = "arena" /\ ArenaNext
     /\ UNCHANGED <<part, vars, scratchVars, fieldVars, atlasVars>>
  \/ /\ part = "scratch" /\ ScratchNext
     /\ UNCHANGED <<part, vars, arenaVars, fieldVars, atlasVars>>
  \/ /\ part = "field" /\ FieldNext
     /\ UNCHANGED <<part, vars, arenaVars, scratchVars, atlasVars>>
  \/ /\ part = "atlas" /\ AtlasNext
     /\ UNCHANGED <<part, vars, arenaVars, scratchVars, fieldVars>>

\* The ring's fairness, where the ring is what a behaviour follows.
BaseFairness ==
  /\ \A t \in Threads : WF_baseVars(RingStep(t)) /\ SF_baseVars(RingLock(t))
  /\ \A r \in Readers : WF_baseVars(RingRead(r))

BaseSpec == BaseInit /\ [][BaseNext]_baseVars /\ BaseFairness
=============================================================================
