------------------------------ MODULE Scratch ------------------------------
(***************************************************************************)
(* base_thread_context.c: a thread's two scratch arenas, and the calls     *)
(* that use them.  A function opens a scratch scope for its own temporary  *)
(* memory; one that returns memory takes the arena for it as a parameter   *)
(* and, when it opens its scope, names that arena as a conflict.           *)
(*                                                                         *)
(* Scopes are numbered in the order in which they began, which is the      *)
(* order they end in, reversed.  A function's arena parameter is the       *)
(* number of the scope whose memory it is to fill, or 0 for none and for   *)
(* an arena that is no scratch arena.  An arena's position is the number   *)
(* of allocations in it (see Arena), and what is in it is whose they are.  *)
(***************************************************************************)
EXTENDS Integers, Sequences

CONSTANTS MaxFrames,  \* bound: calls at a time
          MaxScopes,  \* bound: scopes at a time
          MaxKept     \* bound: allocations in an arena

Slots == {0, 1}       \* TCTX.arenas

VARIABLES frames,     \* the arena parameter of each function that has not returned
          scopes,     \* the scopes: their arena, its position then, the function
          kept        \* for each arena, the scope each allocation in it is for

scratchVars == <<frames, scopes, kept>>

ASSUME ScratchAssumption == MaxFrames \in Nat /\ MaxScopes \in Nat /\ MaxKept \in Nat

\* The thread's first function, which fills nobody's arena.
ScratchInit == /\ frames = <<0>>
               /\ scopes = <<>>
               /\ kept = [a \in Slots |-> <<>>]

Depth == Len(frames)
Parameter == frames[Depth]
Newest == Len(scopes)
Own == Newest > 0 /\ scopes[Newest].frame = Depth

\* Seeded fault: conflicts are not looked at.
GetScratchFirst(conflicts) == 0

\* tctx_get_scratch: the first arena that is none of the conflicts.
GetScratch(conflicts) == IF 0 \in conflicts THEN 1 ELSE 0

Conflicts == IF Parameter = 0 THEN {} ELSE {scopes[Parameter].arena}

\* What a function may hand to one it calls: nothing, the arena it fills itself, or the
\* scope it opened last.
Call(into) ==
  /\ Depth < MaxFrames
  /\ into \in {0, Parameter} \cup {s \in {Newest} : Own}
  /\ frames' = Append(frames, into)
  /\ UNCHANGED <<scopes, kept>>

\* scratch_begin.
Begin ==
  LET a == GetScratch(Conflicts)
  IN  /\ Newest < MaxScopes
      /\ scopes' = Append(scopes, [arena |-> a, mark |-> Len(kept[a]), frame |-> Depth])
      /\ UNCHANGED <<frames, kept>>

\* A function allocates for its caller, or for itself.
PushTo(s) ==
  LET a == scopes[s].arena
  IN  /\ Len(kept[a]) < MaxKept
      /\ kept' = [kept EXCEPT ![a] = Append(@, s)]
      /\ UNCHANGED <<frames, scopes>>

PushResult == Parameter # 0 /\ PushTo(Parameter)
PushScratch == Own /\ PushTo(Newest)

\* scratch_end.
End ==
  LET a == scopes[Newest].arena
  IN  /\ Own
      /\ kept' = [kept EXCEPT ![a] = SubSeq(@, 1, scopes[Newest].mark)]
      /\ scopes' = SubSeq(scopes, 1, Newest - 1)
      /\ UNCHANGED frames

\* No function returns with a scope open.
Return ==
  /\ Depth > 1 /\ ~Own
  /\ frames' = SubSeq(frames, 1, Depth - 1)
  /\ UNCHANGED <<scopes, kept>>

ScratchNext == \/ \E into \in 0 .. MaxScopes : Call(into)
               \/ Begin \/ PushResult \/ PushScratch \/ End \/ Return

ScratchSpec == ScratchInit /\ [][ScratchNext]_scratchVars

----------------------------------------------------------------------------
ScopeRecord == [arena : Slots, mark : Nat, frame : Nat \ {0}]

ScratchTypeOK == /\ frames \in Seq(Nat) /\ frames # <<>>
                 /\ scopes \in Seq(ScopeRecord)
                 /\ kept \in [Slots -> Seq(Nat)]

\* What a scope drops when it ends was allocated for it: what a function returns in its
\* caller's arena is there when the caller reads it, whatever the functions in between
\* opened and closed in the other arena and in this one.
ResultsSurvive ==
  \A s \in DOMAIN scopes :
    LET t == scopes[s] IN
    /\ t.mark <= Len(kept[t.arena])
    /\ \A k \in t.mark + 1 .. Len(kept[t.arena]) : kept[t.arena][k] >= s
=============================================================================
