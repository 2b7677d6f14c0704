-------------------------- MODULE XferQueueProofs --------------------------
(***************************************************************************)
(* Proofs about the transfer queue, for every size of the array, of the    *)
(* rings and of the limits: its pointers, rings and joins, its limits, and *)
(* that it implements the ledger's steps.                                  *)
(***************************************************************************)
EXTENDS XferQueue, FiniteSetTheorems, SequenceTheorems, WellFoundedInduction, TLAPS

----------------------------------------------------------------------------
(* The books: what holds whatever the user removes.                        *)

\* Ids are handed out in order, so every operation in the array is known and
\* no thread was ever launched for one that is not.
LiveIdsAreOld == \A i \in Live : ops[i].id < nextId
NewIdsAreFree == \A id \in Ids : id >= nextId => th[id].pc = "none"

\* The UI thread joins a settled operation of the array.
UiInRange == ui.pc = "join" => ui.at < count /\ ops[ui.at].status \in Ended

\* Outside a run and its join an operation has no thread; a waiting one has no
\* cancel either.
IdleIsClean == \A i \in Live :
  /\ ops[i].status # "InProgress" /\ ~Joining(i) => th[ops[i].id].pc = "none"
  /\ ops[i].status = "Queued" => ~ops[i].cancel

Books == /\ TypeOK /\ UniqueIds
         /\ LiveIdsAreOld /\ NewIdsAreFree /\ UiInRange /\ IdleIsClean

\* Overwriting one field of an operation.
LEMMA OpUpdates ==
  ASSUME NEW op \in Ops
  PROVE  /\ \A s \in Statuses : [op EXCEPT !.status = s] \in Ops
         /\ \A r \in Seq(Msgs) : [op EXCEPT !.ring = r] \in Ops
         /\ \A c \in BOOLEAN : [op EXCEPT !.cancel = c] \in Ops
  BY DEF Ops

LEMMA InitBooks == Init => Books
  <1> SUFFICES ASSUME Init PROVE Books
    OBVIOUS
  <1> USE SizesAssumption DEF Init
  <1>1. ZeroOp \in Ops
    BY DEF ZeroOp, Ops, Statuses
  <1>2. NoThread \in ThreadRecs
    BY DEF NoThread, ThreadRecs, ThreadPcs, Slots
  <1>3. TypeOK
    <2>1. ui \in [pc : UiPcs, at : 0 .. MaxOps] /\ prev \in [Slots -> Statuses]
      BY DEF UiPcs, Statuses
    <2>2. ops \in [Slots -> Ops] /\ th \in [Ids -> ThreadRecs]
      BY <1>1, <1>2
    <2>3. count \in 0 .. MaxOps /\ nextId \in 0 .. MaxIds
      OBVIOUS
    <2>4. dropped \in BOOLEAN /\ limit \in [Kinds -> 1 .. HardCap]
      BY Zenon
    <2> QED
      BY <2>1, <2>2, <2>3, <2>4 DEF TypeOK
  <1>4. Live = {}
    BY DEF Live
  <1>5. NewIdsAreFree /\ UiInRange
    BY DEF NewIdsAreFree, UiInRange, NoThread
  <1> QED
    BY <1>3, <1>4, <1>5 DEF Books, UniqueIds, LiveIdsAreOld, IdleIsClean

LEMMA DispatchBooks == Books /\ Dispatch => Books'
  <1> SUFFICES ASSUME Books, Dispatch PROVE Books'
    OBVIOUS
  <1> USE SizesAssumption
  <1>1. Promoted \subseteq Live /\ Live \subseteq Slots /\ Live' = Live
    BY DEF Books, TypeOK, Promoted, Live, Slots, Dispatch
  <1>2. TypeOK'
    <2>1. ops' \in [Slots -> Ops]
      <3>1. \A i \in Slots : [ops[i] EXCEPT !.status = "InProgress"] \in Ops
        BY OpUpdates DEF Books, TypeOK, Statuses
      <3> QED
        BY <3>1 DEF Books, TypeOK, Dispatch
    <2>2. th' \in [Ids -> ThreadRecs]
      BY <1>1 DEF Books, TypeOK, Dispatch, ThreadRecs, ThreadPcs
    <2>3. ui' \in [pc : UiPcs, at : 0 .. MaxOps]
      BY DEF Dispatch, UiPcs
    <2>4. prev' \in [Slots -> Statuses]
      BY DEF Books, TypeOK, Ops, Dispatch
    <2> QED
      BY <2>1, <2>2, <2>3, <2>4 DEF Books, TypeOK, Dispatch
  <1>3. \A i \in Slots : /\ ops'[i].id = ops[i].id /\ ops'[i].cancel = ops[i].cancel
                         /\ ops'[i].status = IF i \in Promoted THEN "InProgress"
                                             ELSE ops[i].status
    BY DEF Books, TypeOK, Ops, Dispatch
  <1>4. UniqueIds' /\ LiveIdsAreOld'
    BY <1>1, <1>3 DEF Books, UniqueIds, LiveIdsAreOld, Dispatch
  <1>5. NewIdsAreFree'
    <2>1. \A id \in Ids : id >= nextId => th'[id] = th[id]
      BY <1>1 DEF Books, TypeOK, Ops, Ids, LiveIdsAreOld, Dispatch
    <2> QED
      BY <2>1 DEF Books, NewIdsAreFree, Dispatch
  <1>6. UiInRange'
    BY DEF UiInRange, Dispatch
  <1>7. IdleIsClean'
    <2> SUFFICES ASSUME NEW i \in Live
                 PROVE /\ ops'[i].status # "InProgress" => th'[ops'[i].id].pc = "none"
                       /\ ops'[i].status = "Queued" => ~ops'[i].cancel
      BY <1>1 DEF IdleIsClean
    <2>1. ~Joining(i)
      BY DEF Joining, Dispatch
    <2>2. ops[i].id \in Ids
      BY <1>1 DEF Books, TypeOK, Ops, LiveIdsAreOld, Ids
    <2>3. ASSUME ops'[i].status # "InProgress" PROVE th'[ops'[i].id].pc = "none"
      <3>1. i \notin Promoted /\ ops[i].status # "InProgress"
        BY <1>1, <1>3, <2>3
      <3>2. ~\E j \in Promoted : ops[j].id = ops[i].id
        BY <1>1, <3>1 DEF Books, UniqueIds
      <3>3. th'[ops[i].id] = th[ops[i].id]
        BY <2>2, <3>2 DEF Dispatch
      <3> QED
        BY <1>1, <1>3, <2>1, <3>1, <3>3 DEF Books, IdleIsClean
    <2> QED
      BY <1>1, <1>3, <2>3 DEF Books, IdleIsClean
  <1> QED
    BY <1>2, <1>4, <1>5, <1>6, <1>7 DEF Books

LEMMA DrainBooks == Books /\ (DrainMsg \/ DrainNext) => Books'
  <1> USE SizesAssumption
  <1>1. ASSUME Books, DrainMsg PROVE Books'
    <2> DEFINE msg == Head(ops[ui.at].ring)
    <2>1. /\ ui.at \in Live /\ ui.at \in Slots /\ Live' = Live
          /\ ops[ui.at] \in Ops /\ ops[ui.at].ring \in Seq(Msgs)
      BY <1>1 DEF Books, TypeOK, DrainMsg, Live, Slots, Ops
    <2>2. msg \in Msgs /\ Tail(ops[ui.at].ring) \in Seq(Msgs)
      BY <1>1, <2>1 DEF DrainMsg
    <2>3. msg.kind \in Ended => msg.kind \in Statuses
      BY DEF Ended, Statuses
    <2>4. /\ ops' \in [Slots -> Ops]
          /\ \A i \in Slots : /\ ops'[i].id = ops[i].id /\ ops'[i].cancel = ops[i].cancel
                              /\ i # ui.at => ops'[i] = ops[i]
          /\ ops'[ui.at].status = IF msg.kind \in Ended THEN msg.kind ELSE "InProgress"
      <3> DEFINE op == ops[ui.at]
                 new == [op EXCEPT !.ring = Tail(op.ring),
                                   !.status = IF msg.kind \in Ended THEN msg.kind
                                              ELSE op.status]
      <3>1. ops' = [ops EXCEPT ![ui.at] = new]
        BY <1>1 DEF DrainMsg
      <3>2. new \in Ops /\ new.id = op.id /\ new.cancel = op.cancel
        BY <2>1, <2>2, <2>3 DEF Ops
      <3>3. new.status = IF msg.kind \in Ended THEN msg.kind ELSE "InProgress"
        BY <1>1, <2>1 DEF DrainMsg, Ops
      <3>4. ops \in [Slots -> Ops]
        BY <1>1 DEF Books, TypeOK
      <3> HIDE DEF new
      <3> QED
        BY <2>1, <3>1, <3>2, <3>3, <3>4
    <2>5. TypeOK'
      BY <1>1, <2>4 DEF Books, TypeOK, DrainMsg, UiPcs
    <2>6. UniqueIds' /\ LiveIdsAreOld' /\ NewIdsAreFree'
      <3>1. th' = th /\ count' = count /\ nextId' = nextId
        BY <1>1 DEF DrainMsg
      <3>2. \A i \in Live : i \in Slots /\ ops'[i].id = ops[i].id
        BY <1>1, <2>4 DEF Books, TypeOK, Live, Slots
      <3> QED
        BY <1>1, <2>1, <3>1, <3>2 DEF Books, UniqueIds, LiveIdsAreOld, NewIdsAreFree
    <2>7. UiInRange'
      <3>1. /\ count' = count /\ ui.at < count /\ ui.pc = "drain"
            /\ ui' = [ui EXCEPT !.pc = IF msg.kind \in Ended THEN "join" ELSE @]
        BY <1>1 DEF DrainMsg
      <3>2. ui'.at = ui.at /\ (ui'.pc = "join" => msg.kind \in Ended)
        BY <1>1, <3>1 DEF Books, TypeOK
      <3> HIDE DEF msg
      <3> QED
        BY <2>4, <3>1, <3>2 DEF UiInRange
    <2>8. IdleIsClean'
      <3>1. \A i \in Live : i # ui.at => ops'[i] = ops[i]
        BY <1>1, <2>4 DEF Books, TypeOK, Live, Slots
      <3>2. ui' = [ui EXCEPT !.pc = IF msg.kind \in Ended THEN "join" ELSE @] /\ th' = th
        BY <1>1 DEF DrainMsg
      <3>3. ui \in [pc : UiPcs, at : 0 .. MaxOps] /\ ui.pc = "drain"
        BY <1>1 DEF Books, TypeOK, DrainMsg
      <3>4. \A i \in Live : ~Joining(i)
        BY <3>3 DEF Joining
      <3>5. msg.kind \in Ended => Joining(ui.at)'
        BY <3>2, <3>3 DEF Joining
      <3> QED
        BY <1>1, <2>1, <2>4, <3>1, <3>2, <3>4, <3>5 DEF Books, IdleIsClean, Ended
    <2> QED
      BY <2>5, <2>6, <2>7, <2>8 DEF Books
  <1>2. ASSUME Books, DrainNext PROVE Books'
    <2>1. ui' \in [pc : UiPcs, at : 0 .. MaxOps] /\ ui'.pc # "join" /\ ui.pc # "join"
      BY <1>2 DEF Books, TypeOK, DrainNext, UiPcs
    <2> QED
      BY <1>2, <2>1 DEF Books, TypeOK, UniqueIds, LiveIdsAreOld, NewIdsAreFree, UiInRange,
                        IdleIsClean, Joining, DrainNext, Live
  <1> QED
    BY <1>1, <1>2

LEMMA FrameBooks == Books /\ (Join \/ Refresh \/ EndFrame) => Books'
  <1> USE SizesAssumption
  <1>1. ASSUME Books, Join PROVE Books'
    <2> DEFINE id == ops[ui.at].id
    <2>1. ui.at \in Live /\ Live \subseteq Slots /\ Live' = Live
      BY <1>1 DEF Books, TypeOK, UiInRange, Join, Live, Slots
    <2>2. NoThread \in ThreadRecs /\ NoThread.pc = "none"
      BY DEF NoThread, ThreadRecs, ThreadPcs, Slots
    <2>3. /\ th' \in [Ids -> ThreadRecs]
          /\ \A j \in Ids : j # id => th'[j] = th[j]
          /\ \A j \in Ids : th[j].pc = "none" => th'[j].pc = "none"
          /\ id \in Ids => th'[id].pc = "none"
      BY <1>1, <2>2 DEF Join, Books, TypeOK
    <2>4. ui' \in [pc : UiPcs, at : 0 .. MaxOps]
      BY <1>1, <2>1 DEF Join, UiPcs, Books, TypeOK, Live
    <2>5. TypeOK'
      BY <1>1, <2>3, <2>4 DEF Join, Books, TypeOK
    <2>6. UniqueIds' /\ LiveIdsAreOld' /\ NewIdsAreFree' /\ UiInRange'
      BY <1>1, <2>1, <2>3 DEF Join, Books, UniqueIds, LiveIdsAreOld, NewIdsAreFree, UiInRange
    <2>7. \A i \in Live : ops[i].id \in Ids
      BY <1>1, <2>1 DEF Books, TypeOK, Ops, LiveIdsAreOld, Ids
    <2>8. IdleIsClean'
      BY <1>1, <2>1, <2>3, <2>7 DEF Join, Books, UniqueIds, IdleIsClean, Joining
    <2> QED
      BY <2>5, <2>6, <2>8 DEF Books
  <1>2. ASSUME Books, Refresh \/ EndFrame PROVE Books'
    <2>1. ui' \in [pc : UiPcs, at : 0 .. MaxOps] /\ ui'.pc # "join" /\ ui.pc # "join"
      BY <1>2 DEF Books, TypeOK, Refresh, EndFrame, UiPcs
    <2>2. prev' \in [Slots -> Statuses]
      BY <1>2 DEF Books, TypeOK, Refresh, EndFrame, Statuses
    <2> QED
      BY <1>2, <2>1, <2>2 DEF Books, TypeOK, UniqueIds, LiveIdsAreOld, NewIdsAreFree,
                        UiInRange, IdleIsClean, Joining, Refresh, EndFrame, Live
  <1> QED
    BY <1>1, <1>2

LEMMA UserBooks == Books /\ UserStep => Books'
  <1> USE SizesAssumption, KindsAssumption
  <1>1. ASSUME Books, NEW k \in Kinds, Enqueue(k), count < MaxOps PROVE Books'
    <2> DEFINE new == [ZeroOp EXCEPT !.id = nextId, !.kind = k]
    <2>1. ops' = [ops EXCEPT ![count] = new] /\ count' = count + 1 /\ nextId' = nextId + 1
      BY <1>1 DEF Books, TypeOK, Enqueue, Push
    <2>2. /\ new \in Ops /\ new.id = nextId /\ new.status = "Queued" /\ ~new.cancel
      <3>1. ZeroOp \in Ops /\ ZeroOp.status = "Queued" /\ ~ZeroOp.cancel
        BY DEF ZeroOp, Ops, Statuses
      <3>2. nextId \in Nat /\ k \in {"Download", "Upload"}
        BY <1>1 DEF Books, TypeOK
      <3> QED
        BY <3>1, <3>2 DEF Ops
    <2>3. nextId \in Ids /\ count \in Slots /\ Live' = Live \cup {count} /\ count \notin Live
      BY <1>1, <2>1, SMTT(30) DEF Books, TypeOK, Enqueue, Ids, Slots, Live
    <2>4. th' = th /\ ui' = ui /\ ui.pc = "input"
      BY <1>1 DEF Enqueue
    <2> HIDE DEF new
    <2>5. /\ ops' \in [Slots -> Ops] /\ ops'[count] = new
          /\ \A i \in Live : ops'[i] = ops[i] /\ ops'[i].id < nextId
      BY <1>1, <2>1, <2>2, <2>3 DEF Books, TypeOK, LiveIdsAreOld, Live, Slots
    <2>6. TypeOK'
      BY <1>1, <2>1, <2>3, <2>4, <2>5 DEF Books, TypeOK, Enqueue, Ids, Slots
    <2>7. LiveIdsAreOld' /\ NewIdsAreFree'
      <3>1. nextId \in Nat /\ \A i \in Live' : ops'[i].id \in Nat /\ ops'[i].id <= nextId
        <4>1. nextId \in Nat /\ \A i \in Live' : ops'[i] \in Ops
          BY <1>1, <2>3, <2>5, SMTT(30) DEF Books, TypeOK, Live, Slots
        <4>2. \A i \in Live' : ops'[i].id \in Nat
          BY <4>1 DEF Ops
        <4> QED
          BY <2>2, <2>3, <2>5, <4>1, <4>2
      <3>2. LiveIdsAreOld'
        BY <2>1, <3>1 DEF LiveIdsAreOld
      <3>3. NewIdsAreFree'
        BY <1>1, <2>1, <2>4, <3>1 DEF Books, NewIdsAreFree, Ids
      <3> QED
        BY <3>2, <3>3
    <2>8. UniqueIds'
      BY <1>1, <2>2, <2>3, <2>5 DEF Books, TypeOK, UniqueIds
    <2>9. IdleIsClean' /\ UiInRange'
      BY <1>1, <2>2, <2>3, <2>4, <2>5 DEF Books, TypeOK, IdleIsClean, NewIdsAreFree,
                                          UiInRange, Joining
    <2> QED
      BY <2>6, <2>7, <2>8, <2>9 DEF Books
  <1>2. ASSUME Books, NEW k \in Kinds, Enqueue(k), ~(count < MaxOps) PROVE Books'
    <2>1. dropped' = TRUE /\ UNCHANGED <<ops, count, nextId, limit, th, ui, prev>>
      BY <1>2 DEF Books, TypeOK, Enqueue
    <2> QED
      BY <1>2, <2>1 DEF Books, TypeOK, UniqueIds, LiveIdsAreOld, NewIdsAreFree, UiInRange,
                        IdleIsClean, Joining, Live
  <1>3. ASSUME Books, NEW i \in Slots, Remove(i) PROVE Books'
    <2>1. /\ count' = count - 1 /\ count > 0
          /\ Live' \subseteq Live /\ Live \subseteq Slots
      BY <1>3 DEF Books, TypeOK, Remove, Shift, Live, Slots
    <2>2. \A j \in Live' : ops'[j] = ops[IF i <= j THEN j + 1 ELSE j]
      BY <1>3, <2>1 DEF Books, TypeOK, Remove, Shift, Live, Slots
    <2>3. \A j \in Live' : (IF i <= j THEN j + 1 ELSE j) \in Live
      BY <1>3, <2>1 DEF Books, TypeOK, Live, Slots
    <2>4. TypeOK'
      <3>1. ops' \in [Slots -> Ops]
        BY <1>3 DEF Books, TypeOK, Remove, Shift, Slots
      <3> QED
        BY <1>3, <2>1, <3>1 DEF Books, TypeOK, Remove
    <2>5. UniqueIds' /\ LiveIdsAreOld'
      <3>1. \A j, l \in Live' : (IF i <= j THEN j + 1 ELSE j) = (IF i <= l THEN l + 1 ELSE l)
                                => j = l
        BY <1>3, <2>1 DEF Books, TypeOK, Live, Slots
      <3> QED
        BY <1>3, <2>2, <2>3, <3>1 DEF Books, UniqueIds, LiveIdsAreOld, Remove
    <2>6. NewIdsAreFree' /\ UiInRange'
      BY <1>3 DEF Books, NewIdsAreFree, UiInRange, Remove
    <2>7. IdleIsClean'
      BY <1>3, <2>2, <2>3 DEF Books, IdleIsClean, Joining, Remove
    <2> QED
      BY <2>4, <2>5, <2>6, <2>7 DEF Books
  <1>4. ASSUME Books, NEW i \in Slots, Cancel(i) \/ Resume(i) PROVE Books'
    <2> DEFINE new == IF ops[i].status = "InProgress"
                      THEN [ops[i] EXCEPT !.cancel = TRUE]
                      ELSE [ops[i] EXCEPT !.status = "Queued", !.cancel = FALSE]
    <2>1. /\ ops' = [ops EXCEPT ![i] = new]
          /\ UNCHANGED <<count, nextId, dropped, limit, th, ui, prev>>
          /\ ui.pc = "input" /\ i \in Live /\ ops[i].status \in {"InProgress", "Failed"}
      BY <1>4 DEF Cancel, Resume
    <2>2. /\ new \in Ops /\ new.id = ops[i].id
          /\ new.status = "InProgress" => ops[i].status = "InProgress"
          /\ new.status # "InProgress" => ops[i].status # "InProgress"
          /\ new.status = "Queued" => ~new.cancel
      <3>1. ops[i] \in Ops
        BY <1>4 DEF Books, TypeOK
      <3>2. CASE ops[i].status = "InProgress"
        BY <3>1, <3>2 DEF Ops, Statuses
      <3>3. CASE ops[i].status = "Failed"
        <4>1. new = [ops[i] EXCEPT !.status = "Queued", !.cancel = FALSE]
          BY <3>3
        <4> HIDE DEF new
        <4> QED
          BY <3>1, <3>3, <4>1 DEF Ops, Statuses
      <3> QED
        BY <2>1, <3>2, <3>3
    <2> HIDE DEF new
    <2>3. /\ ops' \in [Slots -> Ops] /\ ops'[i] = new
          /\ \A j \in Live : (j # i => ops'[j] = ops[j]) /\ ops'[j].id = ops[j].id
      BY <1>4, <2>1, <2>2 DEF Books, TypeOK, Live, Slots
    <2>4. TypeOK'
      BY <1>4, <2>1, <2>3 DEF Books, TypeOK
    <2>5. UniqueIds' /\ LiveIdsAreOld' /\ NewIdsAreFree' /\ UiInRange'
      BY <1>4, <2>1, <2>3 DEF Books, UniqueIds, LiveIdsAreOld, NewIdsAreFree, UiInRange, Live
    <2>6. IdleIsClean'
      BY <1>4, <2>1, <2>2, <2>3 DEF Books, IdleIsClean, Joining, Live
    <2> QED
      BY <2>4, <2>5, <2>6 DEF Books
  <1>5. ASSUME Books, NEW k \in Kinds, NEW n \in 1 .. HardCap, SetLimit(k, n) PROVE Books'
    <2>1. limit' \in [Kinds -> 1 .. HardCap]
      BY <1>5 DEF Books, TypeOK, SetLimit
    <2> QED
      BY <1>5, <2>1 DEF SetLimit, Books, TypeOK, UniqueIds, LiveIdsAreOld, NewIdsAreFree,
                        UiInRange, IdleIsClean, Joining, Live
  <1> QED
    BY <1>1, <1>2, <1>3, <1>4, <1>5 DEF UserStep

\* What any step of a transfer thread does: it changes one ring at most, its own
\* control state, and nothing else.  A thread that is gone takes no step.
ThreadEffect(id) ==
  /\ ops' \in [Slots -> Ops]
  /\ \A i \in Slots : /\ ops'[i].id = ops[i].id
                      /\ ops'[i].kind = ops[i].kind
                      /\ ops'[i].status = ops[i].status
                      /\ ops'[i].cancel = ops[i].cancel
  /\ th' \in [Ids -> ThreadRecs]
  /\ \A j \in Ids : j # id => th'[j] = th[j]
  /\ th[id].pc # "none" /\ th'[id].pc # "none" /\ th'[id].slot = th[id].slot
  /\ UNCHANGED <<count, nextId, dropped, limit, ui, prev>>

LEMMA ThreadStepEffect ==
  ASSUME TypeOK, NEW id \in Ids, ThreadStep(id)
  PROVE  ThreadEffect(id)
  <1> USE SizesAssumption
  <1>1. th[id] \in ThreadRecs /\ th[id].slot \in Slots /\ ops[th[id].slot] \in Ops
    BY DEF TypeOK, ThreadRecs
  <1>2. ASSUME NEW pc \in ThreadPcs \ {"none"}, ThreadGoes(id, pc), th[id].pc # "none"
        PROVE  /\ th' \in [Ids -> ThreadRecs]
               /\ \A j \in Ids : j # id => th'[j] = th[j]
               /\ th'[id].pc # "none" /\ th'[id].slot = th[id].slot
    BY <1>1, <1>2 DEF ThreadGoes, TypeOK, ThreadRecs
  <1>3. ASSUME NEW kind \in MsgKinds, Send(id, kind)
        PROVE  /\ ops' \in [Slots -> Ops]
               /\ \A i \in Slots : /\ ops'[i].id = ops[i].id
                                   /\ ops'[i].kind = ops[i].kind
                                   /\ ops'[i].status = ops[i].status
                                   /\ ops'[i].cancel = ops[i].cancel
    <2> DEFINE s == th[id].slot
               ring == Append(ops[s].ring, [kind |-> kind, from |-> id])
    <2>1. ring \in Seq(Msgs)
      BY <1>1, <1>3 DEF Ops, Msgs
    <2>2. ops' = [ops EXCEPT ![s] = [ops[s] EXCEPT !.ring = ring]]
      BY <1>3 DEF Send
    <2>3. [ops[s] EXCEPT !.ring = ring] \in Ops
      BY <1>1, <2>1, OpUpdates
    <2> HIDE DEF ring
    <2> QED
      BY <1>1, <2>2, <2>3 DEF TypeOK, Ops
  <1>4. UNCHANGED ops => /\ ops' \in [Slots -> Ops]
                         /\ \A i \in Slots : ops'[i] = ops[i]
    BY DEF TypeOK
  <1>5. CASE SendStart(id) \/ Report(id) \/ SendTerminal(id)
    BY <1>2, <1>3, <1>5 DEF ThreadEffect, SendStart, Report, SendTerminal, ThreadPcs, MsgKinds
  <1>6. CASE Connect(id) \/ StopOnCancel(id) \/ LeaveLoop(id) \/ Close(id)
    BY <1>2, <1>4, <1>6 DEF ThreadEffect, Connect, StopOnCancel, LeaveLoop, Close, ThreadPcs
  <1>7. CASE MoveChunk(id)
    <2>1. PICK pc \in {"loop", "report"} :
            th' = [th EXCEPT ![id] = [th[id] EXCEPT !.pc = pc, !.chunks = th[id].chunks + 1]]
      BY <1>7, <1>1 DEF MoveChunk, TypeOK, ThreadRecs
    <2>2. [th[id] EXCEPT !.pc = pc, !.chunks = th[id].chunks + 1] \in ThreadRecs
      <3>1. pc \in ThreadPcs /\ th[id].chunks + 1 \in 0 .. MaxChunks
        BY <1>1, <1>7 DEF MoveChunk, ThreadRecs, ThreadPcs
      <3> QED
        BY <1>1, <3>1 DEF ThreadRecs
    <2> QED
      BY <1>1, <1>4, <1>7, <2>1, <2>2 DEF ThreadEffect, MoveChunk, TypeOK, ThreadRecs
  <1> QED
    BY <1>5, <1>6, <1>7 DEF ThreadStep

LEMMA NextBooks == Books /\ [Next]_vars => Books'
  <1>1. ASSUME Books, NEW id \in Ids, ThreadStep(id) PROVE Books'
    <2>1. ThreadEffect(id)
      BY <1>1, ThreadStepEffect DEF Books
    <2>2. Live' = Live /\ Live \subseteq Slots /\ \A i \in Live : ops[i].id \in Ids
      BY <1>1, <2>1, SizesAssumption, SMTT(30) DEF ThreadEffect, Live, Slots, Books, TypeOK, Ops,
                                         LiveIdsAreOld, Ids
    <2>3. TypeOK'
      BY <1>1, <2>1 DEF ThreadEffect, Books, TypeOK
    <2>4. UniqueIds' /\ LiveIdsAreOld' /\ NewIdsAreFree'
      BY <1>1, <2>1, <2>2 DEF ThreadEffect, Books, UniqueIds, LiveIdsAreOld, NewIdsAreFree
    <2>5. UiInRange'
      BY <1>1, <2>1, SizesAssumption DEF ThreadEffect, Books, TypeOK, UiInRange, Slots
    <2>6. IdleIsClean'
      BY <1>1, <2>1, <2>2 DEF ThreadEffect, Books, IdleIsClean, Joining
    <2> QED
      BY <2>3, <2>4, <2>5, <2>6 DEF Books
  <1>2. ASSUME Books, UNCHANGED vars PROVE Books'
    BY <1>2 DEF vars, Books, TypeOK, UniqueIds, LiveIdsAreOld, NewIdsAreFree, UiInRange,
                IdleIsClean, Joining, Live
  <1> QED
    BY <1>1, <1>2, DispatchBooks, DrainBooks, FrameBooks, UserBooks DEF Next, UiStep

LEMMA BooksHold == Spec => []Books
  BY InitBooks, NextBooks, PTL DEF Spec

\* Whatever the user removes, every variable keeps its type: no index leaves the
\* array and no count its bound.
THEOREM TypeCorrect == Spec => []TypeOK
  <1>1. Books => TypeOK
    BY DEF Books
  <1> QED
    BY <1>1, BooksHold, PTL

\* Whatever the user removes, an id names one operation for ever (xfer.h on
\* XFER_Op::id), so cancelling by id cannot stop another transfer; and a resumed
\* transfer starts clean: the thread of its earlier attempt is gone and the cancel
\* that ended it is forgotten.
THEOREM AttemptsStayApart == Spec => []AttemptsAreApart
  <1>1. Books => UniqueIds
    BY DEF Books
  <1>2. Books => QueuedIsClean
    BY DEF Books, UiInRange, IdleIsClean, QueuedIsClean, Joining, Ended
  <1> QED
    BY <1>1, <1>2, BooksHold, PTL DEF AttemptsAreApart

----------------------------------------------------------------------------
(* Threads and operations, as long as nothing is removed ahead of a        *)
(* running one.                                                            *)

Pairing == ThreadOwnsSlot /\ RunningHasThread /\ RingIsOwn /\ JoinIsShort

LEMMA InitPairing == Init => Pairing
  BY SizesAssumption DEF Init, Pairing, ThreadOwnsSlot, RunningHasThread, RingIsOwn,
                         JoinIsShort, NoThread, Live, Joining

\* The facts about the array that every step below starts from.
LEMMA ArrayFacts ==
  ASSUME Books
  PROVE  /\ Live \subseteq Slots
         /\ \A i \in Live : /\ ops[i] \in Ops /\ ops[i].id \in Ids
                            /\ ops[i].ring \in Seq(Msgs)
         /\ \A id \in Ids : th[id] \in ThreadRecs
  BY SizesAssumption, SMTT(30) DEF Books, TypeOK, Live, Slots, Ops, LiveIdsAreOld, Ids

LEMMA HeadAndTail ==
  ASSUME NEW S, NEW q \in Seq(S), q # <<>>
  PROVE  /\ Head(q) = q[1] /\ Len(q) \in Nat \ {0}
         /\ Tail(q) \in Seq(S) /\ Len(Tail(q)) = Len(q) - 1
         /\ \A n \in 1 .. Len(Tail(q)) : Tail(q)[n] = q[n + 1] /\ n + 1 \in 1 .. Len(q)
         /\ Len(q) = 1 => Tail(q) = <<>>
  <1>1. /\ Head(q) = q[1] /\ Len(q) \in Nat \ {0}
        /\ Tail(q) \in Seq(S) /\ Len(Tail(q)) = Len(q) - 1
        /\ \A n \in 1 .. Len(Tail(q)) : Tail(q)[n] = q[n + 1] /\ n + 1 \in 1 .. Len(q)
    OBVIOUS
  <1>2. ASSUME NEW r \in Seq(S), Len(r) = 0 PROVE r = <<>>
    BY <1>2
  <1> QED
    BY <1>1, <1>2

LEMMA DispatchPairing == Books /\ Pairing /\ Dispatch => Pairing'
  <1> SUFFICES ASSUME Books, Pairing, Dispatch PROVE Pairing'
    OBVIOUS
  <1>1. /\ Live' = Live /\ Live \subseteq Slots /\ Promoted \subseteq Live
        /\ ~\E i \in Live : Joining(i) \/ Joining(i)'
    BY ArrayFacts DEF Dispatch, Live, Promoted, Joining
  <1>2. \A i \in Live :
          /\ ops'[i].id = ops[i].id /\ ops'[i].ring = ops[i].ring
          /\ i \in Promoted => ops'[i].status = "InProgress" /\ ops[i].status = "Queued"
          /\ i \notin Promoted => ops'[i].status = ops[i].status
    BY <1>1, ArrayFacts DEF Dispatch, Ops, Promoted
  <1>3. \A id \in Ids : \/ \E i \in Promoted : /\ ops[i].id = id /\ th'[id].slot = i
                                              /\ th'[id].pc = "connect"
                        \/ th'[id] = th[id] /\ ~\E i \in Promoted : ops[i].id = id
    BY DEF Dispatch
  <1>4. ThreadOwnsSlot'
    <2> SUFFICES ASSUME NEW id \in Ids, th'[id].pc # "none"
                 PROVE  LET s == th'[id].slot
                        IN  s \in Live /\ ops'[s].id = id /\ ops'[s].status = "InProgress"
      BY <1>1 DEF ThreadOwnsSlot
    <2> QED
      BY <1>1, <1>2, <1>3 DEF Pairing, ThreadOwnsSlot
  <1>5. RunningHasThread'
    <2> SUFFICES ASSUME NEW i \in Live, ops'[i].status = "InProgress"
                 PROVE  th'[ops'[i].id].pc # "none"
      BY <1>1 DEF RunningHasThread
    <2> QED
      BY <1>1, <1>2, <1>3, ArrayFacts DEF Pairing, RunningHasThread
  <1>6. RingIsOwn'
    <2> SUFFICES ASSUME NEW i \in Live
                 PROVE  LET ring == ops[i].ring
                        IN  /\ \A n \in 1 .. Len(ring) :
                                 /\ ring[n].from = ops[i].id
                                 /\ ring[n].kind \in Ended =>
                                      n = Len(ring) /\ th'[ops[i].id].pc \in {"close", "exited"}
                            /\ ops'[i].status # "InProgress" => ring = <<>>
      BY <1>1, <1>2 DEF RingIsOwn
    <2>1. CASE i \in Promoted
      BY <1>1, <1>2, <2>1 DEF Pairing, RingIsOwn
    <2>2. CASE i \notin Promoted
      <3>1. th'[ops[i].id] = th[ops[i].id]
        BY <1>1, <1>3, <2>2, ArrayFacts DEF Books, UniqueIds
      <3> QED
        BY <1>1, <1>2, <2>2, <3>1 DEF Pairing, RingIsOwn
    <2> QED
      BY <2>1, <2>2
  <1>7. JoinIsShort'
    BY DEF JoinIsShort, Dispatch
  <1> QED
    BY <1>4, <1>5, <1>6, <1>7 DEF Pairing

LEMMA FramePairing ==
  Books /\ Pairing /\ (DrainMsg \/ DrainNext \/ Join \/ Refresh \/ EndFrame) => Pairing'
  <1>1. ASSUME Books, Pairing, DrainMsg PROVE Pairing'
    <2> DEFINE at == ui.at
               ring == ops[at].ring
               msg == Head(ring)
               rest == Tail(ring)
    <2>1. at \in Live /\ ring \in Seq(Msgs) /\ ring # <<>> /\ Live' = Live /\ th' = th
      BY <1>1, ArrayFacts, SizesAssumption DEF DrainMsg, Live, Books, TypeOK
    <2>2. /\ \A i \in Live : i # at => ops'[i] = ops[i]
          /\ ops'[at].id = ops[at].id /\ ops'[at].ring = rest
          /\ ops'[at].status = IF msg.kind \in Ended THEN msg.kind ELSE "InProgress"
      BY <1>1, <2>1, ArrayFacts DEF DrainMsg, Ops, Books, TypeOK
    <2>3. /\ ~\E i \in Live : Joining(i)
          /\ \A i \in Live : Joining(i)' <=> msg.kind \in Ended /\ i = at
      BY <1>1 DEF DrainMsg, Joining, Books, TypeOK
    <2>4. /\ msg = ring[1] /\ Len(ring) \in Nat \ {0} /\ Len(rest) = Len(ring) - 1
          /\ \A n \in 1 .. Len(rest) : rest[n] = ring[n + 1] /\ n + 1 \in 1 .. Len(ring)
          /\ Len(ring) = 1 => rest = <<>>
      BY <2>1, HeadAndTail
    <2>5. /\ \A n \in 1 .. Len(ring) :
               /\ ring[n].from = ops[at].id
               /\ ring[n].kind \in Ended =>
                    n = Len(ring) /\ th[ops[at].id].pc \in {"close", "exited"}
          /\ \A i \in Live : ops[i].status # "InProgress" => ops[i].ring = <<>>
      BY <1>1, <2>1 DEF Pairing, RingIsOwn
    <2>6. msg.kind \in Ended => rest = <<>> /\ th[ops[at].id].pc \in {"close", "exited"}
      <3> HIDE DEF ring, msg, rest
      <3>1. 1 \in 1 .. Len(ring)
        BY <2>4
      <3> QED
        BY <2>4, <2>5, <3>1
    <2> HIDE DEF ring, msg, rest
    <2>7. ThreadOwnsSlot'
      <3> SUFFICES ASSUME NEW id \in Ids, th[id].pc # "none"
                   PROVE  LET s == th[id].slot
                          IN  /\ s \in Live /\ ops'[s].id = id
                              /\ ops'[s].status = "InProgress" \/ Joining(s)'
        BY <2>1 DEF ThreadOwnsSlot
      <3> DEFINE s == th[id].slot
      <3>1. s \in Live /\ ops[s].id = id /\ ops[s].status = "InProgress"
        BY <1>1, <2>3 DEF Pairing, ThreadOwnsSlot
      <3>2. CASE s = at
        BY <2>1, <2>2, <2>3, <3>1, <3>2
      <3>3. CASE s # at
        BY <2>2, <3>1, <3>3
      <3> QED
        BY <3>2, <3>3
    <2>8. RunningHasThread'
      <3> SUFFICES ASSUME NEW i \in Live, ops'[i].status = "InProgress" \/ Joining(i)'
                   PROVE  th[ops'[i].id].pc # "none"
        BY <2>1 DEF RunningHasThread
      <3>1. ops[i].status = "InProgress" /\ ops'[i].id = ops[i].id
        BY <1>1, <2>1, <2>2, <2>3 DEF DrainMsg
      <3> QED
        BY <1>1, <3>1 DEF Pairing, RunningHasThread
    <2>9. RingIsOwn'
      <3> SUFFICES ASSUME NEW i \in Live
                   PROVE  /\ \A n \in 1 .. Len(ops'[i].ring) :
                               /\ ops'[i].ring[n].from = ops'[i].id
                               /\ ops'[i].ring[n].kind \in Ended =>
                                    /\ n = Len(ops'[i].ring)
                                    /\ th[ops'[i].id].pc \in {"close", "exited"}
                          /\ ops'[i].status # "InProgress" => ops'[i].ring = <<>>
        BY <2>1 DEF RingIsOwn
      <3>1. CASE i # at
        BY <1>1, <2>2, <3>1 DEF Pairing, RingIsOwn
      <3>2. CASE i = at
        <4>1. \A n \in 1 .. Len(rest) :
                /\ rest[n].from = ops[at].id
                /\ rest[n].kind \in Ended =>
                     n = Len(rest) /\ th[ops[at].id].pc \in {"close", "exited"}
          <5> TAKE n \in 1 .. Len(rest)
          <5>1. rest[n] = ring[n + 1] /\ n + 1 \in 1 .. Len(ring)
            BY <2>4
          <5>2. n + 1 = Len(ring) => n = Len(rest)
            BY <2>4
          <5> QED
            BY <2>5, <5>1, <5>2
        <4>2. ops'[at].status # "InProgress" => rest = <<>>
          BY <2>2, <2>6
        <4> QED
          BY <2>2, <3>2, <4>1, <4>2
      <3> QED
        BY <3>1, <3>2
    <2>10. JoinIsShort'
      <3>1. ui'.pc = "join" => msg.kind \in Ended
        BY <1>1 DEF DrainMsg, Books, TypeOK, msg, ring
      <3>2. ui'.at = at
        BY <1>1 DEF DrainMsg, Books, TypeOK
      <3> QED
        BY <2>1, <2>2, <2>6, <3>1, <3>2 DEF JoinIsShort
    <2> QED
      BY <2>7, <2>8, <2>9, <2>10 DEF Pairing
  <1>2. ASSUME Books, Pairing, Join PROVE Pairing'
    <2> DEFINE at == ui.at
               id == ops[at].id
    <2>1. /\ at \in Live /\ id \in Ids /\ ops[at].status \in Ended
          /\ Live' = Live /\ ops' = ops
      BY <1>2, ArrayFacts, SizesAssumption DEF Join, Books, TypeOK, UiInRange, Live
    <2>2. /\ th'[id].pc = "none" /\ \A j \in Ids : j # id => th'[j] = th[j]
          /\ \A i \in Live : Joining(i) <=> i = at
          /\ ~\E i \in Live : Joining(i)'
      BY <1>2, <2>1 DEF Join, Books, TypeOK, NoThread, Joining
    <2>3. \A i \in Live : i # at => ops[i].id \in Ids /\ ops[i].id # id
      BY <1>2, <2>1, ArrayFacts DEF Books, UniqueIds
    <2> HIDE DEF id
    <2>4. ThreadOwnsSlot'
      BY <1>2, <2>1, <2>2, <2>3 DEF Pairing, ThreadOwnsSlot, id
    <2>5. RunningHasThread'
      BY <1>2, <2>1, <2>2, <2>3 DEF Pairing, RunningHasThread, Ended
    <2>6. RingIsOwn'
      <3>1. ops[at].ring = <<>>
        BY <1>2, <2>1 DEF Pairing, RingIsOwn, Ended
      <3> QED
        BY <1>2, <2>1, <2>2, <2>3, <3>1 DEF Pairing, RingIsOwn
    <2>7. JoinIsShort'
      BY <1>2 DEF JoinIsShort, Join
    <2> QED
      BY <2>4, <2>5, <2>6, <2>7 DEF Pairing
  <1>3. ASSUME Books, Pairing, DrainNext \/ Refresh \/ EndFrame PROVE Pairing'
    <2>1. UNCHANGED <<ops, count, th>> /\ ui.pc # "join" /\ ui'.pc # "join"
      BY <1>3 DEF DrainNext, Refresh, EndFrame, Books, TypeOK
    <2> QED
      BY <1>3, <2>1 DEF Pairing, ThreadOwnsSlot, RunningHasThread, RingIsOwn, JoinIsShort,
                        Joining, Live
  <1> QED
    BY <1>1, <1>2, <1>3

LEMMA UserPairing ==
  ASSUME RemoveAhead = FALSE
  PROVE  Books /\ Pairing /\ UserStep => Pairing'
  <1> SUFFICES ASSUME Books, Pairing, UserStep PROVE Pairing'
    OBVIOUS
  <1>1. /\ UNCHANGED <<th, ui>> /\ ui.pc = "input"
        /\ \A i : ~Joining(i) /\ ~Joining(i)'
    BY DEF UserStep, Enqueue, Remove, Cancel, Resume, SetLimit, Joining
  <1>2. JoinIsShort'
    BY <1>1 DEF JoinIsShort
  <1>3. ASSUME NEW k \in Kinds, Enqueue(k) PROVE Pairing'
    <2>1. CASE count >= MaxOps
      BY <1>1, <1>2, <1>3, <2>1 DEF Enqueue, Pairing, ThreadOwnsSlot, RunningHasThread,
                                     RingIsOwn, Live
    <2>2. CASE ~(count >= MaxOps)
      <3>1. /\ Live' = Live \cup {count} /\ count \notin Live /\ count \in Slots
            /\ \A i \in Live : ops'[i] = ops[i]
        BY <1>3, <2>2, SizesAssumption, SMTT(30) DEF Enqueue, Push, Books, TypeOK, Live, Slots
      <3>2. ops'[count].status = "Queued" /\ ops'[count].ring = <<>>
        BY <1>3, <2>2, <3>1 DEF Enqueue, Push, ZeroOp, Books, TypeOK
      <3>3. ThreadOwnsSlot' /\ RunningHasThread'
        BY <1>1, <3>1, <3>2 DEF Pairing, ThreadOwnsSlot, RunningHasThread
      <3>4. RingIsOwn'
        BY <1>1, <3>1, <3>2 DEF Pairing, RingIsOwn
      <3> QED
        BY <1>2, <3>3, <3>4 DEF Pairing
    <2> QED
      BY <2>1, <2>2
  <1>4. ASSUME NEW i \in Slots, Remove(i) PROVE Pairing'
    <2> DEFINE from(j) == IF i <= j THEN j + 1 ELSE j
    <2>1. /\ \A j \in Live' : from(j) \in Live /\ ops'[j] = ops[from(j)]
          /\ \A j \in Live : j < i => j \in Live' /\ from(j) = j
      BY <1>4, SizesAssumption DEF Books, TypeOK, Remove, Shift, Live, Slots
    <2>2. \A j \in Live : ops[j].status = "InProgress" => j < i
      BY <1>4 DEF Remove, Books, TypeOK, Live, Slots
    <2> HIDE DEF from
    <2>3. ThreadOwnsSlot'
      <3> SUFFICES ASSUME NEW id \in Ids, th[id].pc # "none"
                   PROVE  LET s == th[id].slot
                          IN  s \in Live' /\ ops'[s].id = id /\ ops'[s].status = "InProgress"
        BY <1>1 DEF ThreadOwnsSlot
      <3>1. LET s == th[id].slot
            IN  s \in Live /\ ops[s].id = id /\ ops[s].status = "InProgress"
        BY <1>1 DEF Pairing, ThreadOwnsSlot
      <3> QED
        BY <2>1, <2>2, <3>1
    <2>4. RunningHasThread' /\ RingIsOwn'
      BY <1>1, <2>1 DEF Pairing, RunningHasThread, RingIsOwn
    <2> QED
      BY <1>2, <2>3, <2>4 DEF Pairing
  <1>5. ASSUME NEW i \in Slots, Cancel(i) \/ Resume(i) PROVE Pairing'
    <2>1. /\ Live' = Live /\ i \in Live
          /\ \A j \in Live : /\ j # i => ops'[j] = ops[j]
                            /\ ops'[j].id = ops[j].id /\ ops'[j].ring = ops[j].ring
          /\ \/ ops[i].status = "InProgress" /\ ops'[i].status = "InProgress"
             \/ ops[i].status = "Failed" /\ ops'[i].status = "Queued"
      <3>1. /\ Live' = Live /\ i \in Live /\ ops[i] \in Ops
            /\ ops \in [Slots -> Ops] /\ Live \subseteq Slots
        BY <1>5, ArrayFacts DEF Cancel, Resume, Live, Books, TypeOK
      <3>2. CASE Cancel(i)
        <4>1. ops' = [ops EXCEPT ![i] = [ops[i] EXCEPT !.cancel = TRUE]]
          BY <3>2 DEF Cancel
        <4> QED
          BY <3>1, <3>2, <4>1 DEF Cancel, Ops
      <3>3. CASE Resume(i)
        BY <3>1, <3>3 DEF Resume, Ops
      <3> QED
        BY <1>5, <3>2, <3>3
    <2>2. ThreadOwnsSlot' /\ RunningHasThread'
      BY <1>1, <2>1 DEF Pairing, ThreadOwnsSlot, RunningHasThread
    <2>3. RingIsOwn'
      BY <1>1, <2>1 DEF Pairing, RingIsOwn
    <2> QED
      BY <1>2, <2>2, <2>3 DEF Pairing
  <1>6. ASSUME NEW k \in Kinds, NEW n \in 1 .. HardCap, SetLimit(k, n) PROVE Pairing'
    BY <1>1, <1>2, <1>6 DEF SetLimit, Pairing, ThreadOwnsSlot, RunningHasThread,
                             RingIsOwn, Live
  <1> QED
    BY <1>3, <1>4, <1>5, <1>6 DEF UserStep

LEMMA ThreadPairing ==
  ASSUME Books, Pairing, NEW id \in Ids, ThreadStep(id)
  PROVE  Pairing'
  <1> DEFINE s == th[id].slot
  <1>1. ThreadEffect(id)
    BY ThreadStepEffect DEF Books
  <1>2. /\ Live' = Live /\ Live \subseteq Slots /\ \A i : Joining(i)' = Joining(i)
        /\ \A j \in Ids : th'[j].slot = th[j].slot /\ (th'[j].pc = "none" <=> th[j].pc = "none")
    BY <1>1, ArrayFacts DEF ThreadEffect, Live, Joining
  <1>3. s \in Live /\ ops[s].id = id /\ \A i \in Live : i # s => ops[i].id # id
    BY <1>1 DEF ThreadEffect, Pairing, ThreadOwnsSlot, Books, UniqueIds
  <1>4. /\ th[id].pc \in {"close", "exited"} => th[id].pc = "close" /\ th'[id].pc = "exited"
        /\ th'[id].pc \in {"close", "exited"} \/ th[id].pc \notin {"close", "exited"}
    <2>1. th \in [Ids -> ThreadRecs] /\ th[id] \in ThreadRecs
      BY DEF Books, TypeOK
    <2>2. CASE Close(id)
      BY <2>1, <2>2 DEF Close, ThreadGoes, ThreadRecs
    <2>3. CASE ~Close(id)
      BY <2>3 DEF ThreadStep, Connect, SendStart, StopOnCancel, MoveChunk, LeaveLoop,
                  Report, SendTerminal
    <2> QED
      BY <2>2, <2>3
  <1>5. ThreadOwnsSlot' /\ RunningHasThread'
    <2>1. ThreadOwnsSlot'
      BY <1>1, <1>2 DEF ThreadEffect, Pairing, ThreadOwnsSlot
    <2>2. RunningHasThread'
      BY <1>1, <1>2, ArrayFacts DEF ThreadEffect, Pairing, RunningHasThread
    <2> QED
      BY <2>1, <2>2
  <1>6. JoinIsShort'
    <2> SUFFICES ASSUME ui.pc = "join" PROVE th'[ops[ui.at].id].pc \in {"close", "exited"}
      BY <1>1, SizesAssumption DEF JoinIsShort, ThreadEffect, Books, TypeOK, UiInRange, Slots
    <2>1. ops[ui.at].id \in Ids /\ th[ops[ui.at].id].pc \in {"close", "exited"}
      BY ArrayFacts, SizesAssumption DEF Pairing, JoinIsShort, Books, TypeOK, UiInRange, Live
    <2> QED
      BY <1>1, <1>4, <2>1 DEF ThreadEffect
  <1>7. RingIsOwn'
    <2>1. ASSUME NEW i \in Live, i # s
          PROVE  ops'[i] = ops[i] /\ ops[i].id \in Ids /\ th'[ops[i].id] = th[ops[i].id]
      <3>1. ops'[i] = ops[i]
        BY <1>2, <1>3, <2>1 DEF ThreadStep, Connect, SendStart, StopOnCancel, MoveChunk,
                                LeaveLoop, Report, SendTerminal, Close, Send, Books, TypeOK
      <3> QED
        BY <1>1, <1>3, <2>1, <3>1, ArrayFacts DEF ThreadEffect
    <2>2. \/ ops'[s].ring = ops[s].ring
          \/ /\ th[id].pc \notin {"close", "exited"}
             /\ \E kind \in MsgKinds :
                  /\ ops'[s].ring = Append(ops[s].ring, [kind |-> kind, from |-> id])
                  /\ kind \in Ended => th'[id].pc = "close"
      <3>1. th[id] \in ThreadRecs /\ ops[s] \in Ops /\ s \in Slots
        BY <1>2, <1>3, ArrayFacts
      <3>2. ASSUME NEW kind \in MsgKinds, Send(id, kind)
            PROVE  ops'[s].ring = Append(ops[s].ring, [kind |-> kind, from |-> id])
        BY <3>1, <3>2 DEF Send, Books, TypeOK, Ops
      <3>3. CASE SendStart(id) \/ Report(id)
        BY <3>2, <3>3 DEF SendStart, Report, MsgKinds, Ended
      <3>4. CASE SendTerminal(id)
        <4>1. th'[id].pc = "close"
          BY <3>1, <3>4 DEF SendTerminal, ThreadGoes, Books, TypeOK, ThreadRecs
        <4> QED
          BY <3>2, <3>4, <4>1 DEF SendTerminal, MsgKinds
      <3>5. CASE UNCHANGED ops
        BY <3>5
      <3> QED
        BY <3>3, <3>4, <3>5 DEF ThreadStep, Connect, StopOnCancel, MoveChunk, LeaveLoop, Close
    <2>3. /\ \A n \in 1 .. Len(ops[s].ring) :
               /\ ops[s].ring[n].from = id
               /\ ops[s].ring[n].kind \in Ended =>
                    n = Len(ops[s].ring) /\ th[id].pc \in {"close", "exited"}
          /\ ops[s].status # "InProgress" => ops[s].ring = <<>>
      BY <1>3 DEF Pairing, RingIsOwn
    <2>4. th[id].pc \notin {"close", "exited"} => ops[s].status = "InProgress"
      BY <1>1, <1>3 DEF ThreadEffect, Pairing, ThreadOwnsSlot, JoinIsShort, Joining
    <2>5. /\ \A n \in 1 .. Len(ops'[s].ring) :
               /\ ops'[s].ring[n].from = id
               /\ ops'[s].ring[n].kind \in Ended =>
                    n = Len(ops'[s].ring) /\ th'[id].pc \in {"close", "exited"}
          /\ ops'[s].status # "InProgress" => ops'[s].ring = <<>>
      <3>1. CASE ops'[s].ring = ops[s].ring
        <4>1. ops'[s].status = ops[s].status
          BY <1>1, <1>2, <1>3 DEF ThreadEffect
        <4>2. \A n : n \in 1 .. Len(ops'[s].ring) <=> n \in 1 .. Len(ops[s].ring)
          BY <3>1
        <4> QED
          BY <1>4, <2>3, <3>1, <4>1, <4>2
      <3>2. CASE ops'[s].ring # ops[s].ring
        <4> DEFINE ring == ops[s].ring
        <4>1. PICK kind \in MsgKinds :
                /\ ops'[s].ring = Append(ring, [kind |-> kind, from |-> id])
                /\ kind \in Ended => th'[id].pc = "close"
                /\ th[id].pc \notin {"close", "exited"}
          BY <2>2, <3>2
        <4> DEFINE msg == [kind |-> kind, from |-> id]
                   longer == Append(ring, msg)
        <4>2. ring \in Seq(Msgs) /\ msg.kind = kind /\ msg.from = id
          BY <1>3, ArrayFacts
        <4>3. /\ Len(ring) \in Nat /\ Len(longer) = Len(ring) + 1
              /\ longer[Len(ring) + 1] = msg
              /\ \A n \in 1 .. Len(ring) : longer[n] = ring[n]
          <5>1. ring \in Seq(Msgs) /\ msg \in Msgs
            BY <4>2, Zenon DEF Msgs, Ids
          <5> HIDE DEF msg, ring
          <5> QED
            BY ONLY <5>1, AppendProperties DEF longer
        <4>4. ops'[s].ring = longer /\ ops'[s].status = "InProgress"
          BY <1>1, <1>2, <1>3, <2>4, <4>1 DEF ThreadEffect
        <4> HIDE DEF longer, msg
        <4>5. ASSUME NEW n \in 1 .. Len(longer)
              PROVE  /\ longer[n].from = id
                     /\ longer[n].kind \in Ended => n = Len(longer) /\ th'[id].pc = "close"
          <5>1. CASE n \in 1 .. Len(ring)
            BY <2>3, <4>1, <4>3, <5>1
          <5>2. CASE n = Len(ring) + 1
            BY <4>1, <4>2, <4>3, <5>2
          <5> QED
            BY <4>3, <5>1, <5>2, SMTT(30)
        <4> QED
          BY <4>4, <4>5
      <3> QED
        BY <3>1, <3>2
    <2> QED
      <3> SUFFICES ASSUME NEW i \in Live
                   PROVE  /\ \A n \in 1 .. Len(ops'[i].ring) :
                               /\ ops'[i].ring[n].from = ops'[i].id
                               /\ ops'[i].ring[n].kind \in Ended =>
                                    /\ n = Len(ops'[i].ring)
                                    /\ th'[ops'[i].id].pc \in {"close", "exited"}
                          /\ ops'[i].status # "InProgress" => ops'[i].ring = <<>>
        BY <1>2 DEF RingIsOwn
      <3>1. CASE i = s
        BY <1>1, <1>2, <1>3, <2>5, <3>1 DEF ThreadEffect
      <3>2. CASE i # s
        BY <2>1, <3>2 DEF Pairing, RingIsOwn
      <3> QED
        BY <3>1, <3>2
  <1> QED
    BY <1>5, <1>6, <1>7 DEF Pairing

LEMMA NextPairing ==
  ASSUME RemoveAhead = FALSE
  PROVE  Books /\ Pairing /\ [Next]_vars => Pairing'
  <1>1. ASSUME Pairing, UNCHANGED vars PROVE Pairing'
    BY <1>1 DEF vars, Pairing, ThreadOwnsSlot, RunningHasThread, RingIsOwn, JoinIsShort,
                Joining, Live
  <1> QED
    BY <1>1, DispatchPairing, FramePairing, UserPairing, ThreadPairing DEF Next, UiStep

LEMMA PairingHolds ==
  ASSUME RemoveAhead = FALSE
  PROVE  Spec => []Pairing
  BY InitPairing, NextPairing, BooksHold, PTL DEF Spec

\* As long as nothing is removed ahead of a running transfer, every thread works
\* on the operation it was launched for, although it only holds a raw pointer.
THEOREM PointersStayGood ==
  ASSUME RemoveAhead = FALSE
  PROVE  Spec => []ThreadOwnsSlot
  <1>1. Pairing => ThreadOwnsSlot
    BY DEF Pairing
  <1> QED
    BY <1>1, PairingHolds, PTL

\* Under the same condition no message reaches the ring of another operation and
\* none is left in it for the next attempt.
THEOREM RingsStayOwn ==
  ASSUME RemoveAhead = FALSE
  PROVE  Spec => []RingIsOwn
  <1>1. Pairing => RingIsOwn
    BY DEF Pairing
  <1> QED
    BY <1>1, PairingHolds, PTL

\* Under the same condition the thread_join in xfer_drain_progress waits for a
\* thread that needs nothing from the UI thread any more.
THEOREM JoinsAreShort ==
  ASSUME RemoveAhead = FALSE
  PROVE  Spec => []JoinIsShort
  <1>1. Pairing => JoinIsShort
    BY DEF Pairing
  <1> QED
    BY <1>1, PairingHolds, PTL

----------------------------------------------------------------------------
(* The limits.                                                             *)

\* A non-empty set of slots has a last one.
LEMMA LastSlot ==
  ASSUME NEW P \in SUBSET Slots, P # {}
  PROVE  \E m \in P : \A i \in P : i <= m
  <1> USE SizesAssumption
  <1> DEFINE T == {MaxOps - i : i \in P}
  <1>1. T \in SUBSET Nat /\ T # {}
    <2>1. \A i \in P : MaxOps - i \in Nat
      BY DEF Slots
    <2> QED
      BY <2>1
  <1>2. PICK x \in T : \A y \in T : ~ (<<y, x>> \in OpToRel(<, Nat))
    <2> HIDE DEF T
    <2> QED
      BY <1>1, WFMin, NatLessThanWellFounded
  <1>3. PICK m \in P : x = MaxOps - m
    OBVIOUS
  <1>4. ASSUME NEW i \in P, ~(i <= m) PROVE FALSE
    <2>1. MaxOps - i \in T /\ MaxOps - i \in Nat /\ x \in Nat /\ MaxOps - i < x
      BY <1>1, <1>3, <1>4 DEF Slots
    <2> HIDE DEF T
    <2>2. <<MaxOps - i, x>> \in OpToRel(<, Nat)
      BY <2>1 DEF OpToRel
    <2> QED
      BY <1>2, <2>1, <2>2
  <1> QED
    BY <1>4

LEMMA FiniteParts ==
  ASSUME Books
  PROVE  \A S \in SUBSET Live : IsFiniteSet(S) /\ Cardinality(S) \in Nat
  <1>1. IsFiniteSet(Live)
    <2>1. 0 \in Int /\ count - 1 \in Int
      BY DEF Books, TypeOK
    <2> QED
      BY <2>1, FS_Interval DEF Live
  <1> QED
    BY <1>1, FS_Subset, FS_CardinalityType

\* Of the operations one dispatch starts, the last still found room.
LEMMA DispatchWithinLimit ==
  ASSUME Books, Dispatch, NEW k \in Kinds
  PROVE  \/ Cardinality(Running(k)') <= Cardinality(Running(k))
         \/ Cardinality(Running(k)') <= limit[k]
  <1> USE SizesAssumption
  <1> DEFINE R == Running(k)
             P == {i \in Promoted : ops[i].kind = k}
  <1>1. Live \subseteq Slots /\ Promoted \subseteq Live /\ Live' = Live
    BY ArrayFacts DEF Promoted, Dispatch, Live
  <1>2. Running(k)' = R \cup P
    <2>1. \A i \in Live : /\ ops'[i].kind = ops[i].kind
                          /\ ops'[i].status = IF i \in Promoted THEN "InProgress"
                                              ELSE ops[i].status
      BY <1>1, ArrayFacts DEF Dispatch, Ops
    <2> QED
      BY <1>1, <2>1 DEF Running
  <1>3. R \in SUBSET Live /\ P \in SUBSET Live /\ P \in SUBSET Slots
    BY <1>1 DEF Running
  <1>4. IsFiniteSet(R) /\ Cardinality(R) \in Nat /\ IsFiniteSet(P)
    <2> HIDE DEF R, P
    <2> QED
      BY <1>3, FiniteParts
  <1>5. CASE P = {}
    <2>1. Running(k)' = Running(k)
      BY <1>2, <1>5
    <2> QED
      BY <1>4, <2>1
  <1>6. CASE P # {}
    <2>1. PICK m \in P : \A i \in P : i <= m
      <3> HIDE DEF P
      <3> QED
        BY <1>3, <1>6, LastSlot
    <2> DEFINE W == {j \in Waiting(k) : j < m}
    <2>2. P \ {m} \in SUBSET W
      <3> SUFFICES ASSUME NEW i \in P, i # m PROVE i \in W
        OBVIOUS
      <3>1. i <= m /\ i \in Nat /\ m \in Nat
        BY <1>3, <2>1 DEF Slots
      <3>2. i \in Waiting(k)
        BY DEF Promoted, Waiting
      <3> QED
        BY <3>1, <3>2
    <2>3. Cardinality(R) + Cardinality(W) < limit[k]
      BY DEF Promoted
    <2>4. W \in SUBSET Live
      BY DEF Waiting
    <2>5. limit[k] \in Nat
      BY DEF Books, TypeOK
    <2> HIDE DEF R, P, W
    <2>6. IsFiniteSet(W) /\ Cardinality(W) \in Nat
      BY <2>4, FiniteParts
    <2>7. IsFiniteSet(P \ {m}) /\ Cardinality(P \ {m}) = Cardinality(P) - 1
      BY <1>4, FS_RemoveElement
    <2>8. Cardinality(P \ {m}) <= Cardinality(W)
      BY <2>2, <2>6, FS_Subset
    <2>9. Cardinality(P) \in Nat
      BY <1>4, FS_CardinalityType
    <2>10. /\ Cardinality(R \cup P) = Cardinality(R) + Cardinality(P) - Cardinality(R \cap P)
           /\ IsFiniteSet(R \cup P) /\ Cardinality(R \cap P) \in Nat
      <3>1. R \cap P \in SUBSET R
        OBVIOUS
      <3>2. IsFiniteSet(R \cap P)
        BY <1>4, <3>1, FS_Subset
      <3> QED
        BY <1>4, <3>2, FS_Union, FS_CardinalityType
    <2>11. Cardinality(R \cup P) <= limit[k]
      BY ONLY <1>4, <2>3, <2>5, <2>6, <2>7, <2>8, <2>9, <2>10
    <2> QED
      BY <1>2, <2>11
  <1> QED
    BY <1>5, <1>6

\* The array's shift moves what runs, and starts nothing.
LEMMA RemoveStartsNothing ==
  ASSUME Books, NEW r \in Slots, Remove(r), NEW k \in Kinds
  PROVE  Cardinality(Running(k)') <= Cardinality(Running(k))
  <1> USE SizesAssumption
  <1> DEFINE R == Running(k)
             S == Running(k)'
             f == [j \in S |-> IF j < r THEN j ELSE j + 1]
  <1>1. /\ Live' = 0 .. count - 2 /\ count \in 1 .. MaxOps /\ r \in Nat /\ r < count
        /\ \A j \in Live' : ops'[j] = IF j < r THEN ops[j] ELSE ops[j + 1]
    BY DEF Remove, Shift, Live, Slots, Books, TypeOK
  <1>2. \A j \in S : j \in Nat /\ (IF j < r THEN j ELSE j + 1) \in R
    <2> SUFFICES ASSUME NEW j \in S PROVE j \in Nat /\ (IF j < r THEN j ELSE j + 1) \in R
      OBVIOUS
    <2>1. j \in Live' /\ ops'[j].status = "InProgress" /\ ops'[j].kind = k
      BY DEF Running
    <2>2. j \in Nat /\ j \in Live /\ j + 1 \in Live
      <3>1. j \in 0 .. count - 2 /\ count \in Nat
        BY <1>1, <2>1
      <3> QED
        BY ONLY <3>1 DEF Live
    <2>3. CASE j < r
      BY <1>1, <2>1, <2>2, <2>3 DEF Running
    <2>4. CASE ~(j < r)
      BY <1>1, <2>1, <2>2, <2>4 DEF Running
    <2> QED
      BY <2>2, <2>3, <2>4
  <1>3. f \in Injection(S, R)
    <2>1. f \in [S -> R]
      BY <1>2
    <2>2. \A a, b \in S : f[a] = f[b] => a = b
      BY <1>1, <1>2
    <2> HIDE DEF f, S, R
    <2> QED
      BY <2>1, <2>2 DEF Injection, IsInjective
  <1>4. IsFiniteSet(R)
    BY FiniteParts DEF Running
  <1> HIDE DEF f, S, R
  <1>5. Cardinality(S) <= Cardinality(R)
    BY <1>3, <1>4, FS_Injection
  <1> QED
    BY <1>5 DEF R, S

\* Only a dispatch makes more transfers run than before.
LEMMA OthersStartNothing ==
  ASSUME Books, Next, ~Dispatch, NEW k \in Kinds
  PROVE  Cardinality(Running(k)') <= Cardinality(Running(k))
  <1> USE SizesAssumption
  <1>1. ASSUME /\ \A i \in Live' : /\ i \in Live \/ ops'[i].status # "InProgress"
                                   /\ ops'[i].status = "InProgress" =>
                                        ops[i].status = "InProgress" /\ ops'[i].kind = ops[i].kind
        PROVE  Cardinality(Running(k)') <= Cardinality(Running(k))
    <2> DEFINE R == Running(k)
               S == Running(k)'
    <2>1. S \in SUBSET R /\ R \in SUBSET Live
      BY <1>1 DEF Running
    <2> HIDE DEF R, S
    <2>2. Cardinality(S) <= Cardinality(R)
      BY <2>1, FiniteParts, FS_Subset
    <2> QED
      BY <2>2 DEF R, S
  <1>2. Live \subseteq Slots /\ \A i \in Live : ops[i] \in Ops
    BY ArrayFacts
  <1>3. CASE DrainMsg
    <2>1. Live' = Live /\ ui.at \in Live
      BY <1>3 DEF DrainMsg, Live, Books, TypeOK
    <2>2. \A i \in Live : /\ ops'[i].kind = ops[i].kind
                          /\ ops'[i].status = "InProgress" => ops[i].status = "InProgress"
      BY <1>2, <1>3, <2>1 DEF DrainMsg, Books, TypeOK, Ops
    <2> QED
      BY <1>1, <2>1, <2>2
  <1>4. CASE DrainNext \/ Join \/ Refresh \/ EndFrame
    <2>1. UNCHANGED <<ops, count>>
      BY <1>4 DEF DrainNext, Join, Refresh, EndFrame
    <2> QED
      BY <1>1, <2>1 DEF Live
  <1>5. CASE \E j \in Kinds : Enqueue(j)
    <2>1. PICK j \in Kinds : Enqueue(j)
      BY <1>5
    <2>2. CASE UNCHANGED <<ops, count>>
      BY <1>1, <2>2 DEF Live
    <2>3. CASE Push(j, nextId)
      <3>1. /\ count \in Nat /\ count' = count + 1 /\ count < MaxOps
            /\ count' # count
        BY <2>1, <2>3 DEF Push, Enqueue, Books, TypeOK
      <3>2. ops'[count].status = "Queued" /\ \A i \in Live : ops'[i] = ops[i]
        BY <2>3, <3>1 DEF Push, ZeroOp, Slots, Live, Books, TypeOK
      <3>3. \A i \in Live' : i \in Live \/ i = count
        BY <3>1 DEF Live
      <3> QED
        BY <1>1, <3>2, <3>3
    <2> QED
      BY <2>1, <2>2, <2>3 DEF Enqueue
  <1>6. CASE \E r \in Slots : Remove(r)
    BY <1>6, RemoveStartsNothing
  <1>7. CASE \E r \in Slots : Cancel(r) \/ Resume(r)
    <2>1. Live' = Live
      BY <1>7 DEF Cancel, Resume, Live
    <2>2. \A i \in Live : /\ ops'[i].kind = ops[i].kind
                          /\ ops'[i].status = "InProgress" => ops[i].status = "InProgress"
      <3>1. PICK r \in Live : /\ r \in Slots /\ ops[r].status \in {"InProgress", "Failed"}
                              /\ \/ ops' = [ops EXCEPT ![r] = [ops[r] EXCEPT !.cancel = TRUE]]
                                 \/ ops' = [ops EXCEPT ![r] =
                                      [ops[r] EXCEPT !.status = "Queued", !.cancel = FALSE]]
        BY <1>7 DEF Cancel, Resume
      <3>2. ops \in [Slots -> Ops] /\ ops[r] \in Ops
        BY <1>2, <3>1 DEF Books, TypeOK
      <3>3. \A i \in Live : i # r => ops'[i] = ops[i]
        BY <1>2, <3>1, <3>2
      <3>4. \/ ops'[r] = [ops[r] EXCEPT !.cancel = TRUE]
            \/ ops'[r] = [ops[r] EXCEPT !.status = "Queued", !.cancel = FALSE]
        BY <3>1, <3>2
      <3>5. /\ ops'[r].kind = ops[r].kind
            /\ ops'[r].status = "InProgress" => ops[r].status = "InProgress"
        BY <3>2, <3>4 DEF Ops
      <3> QED
        BY <3>3, <3>5
    <2> QED
      BY <1>1, <2>1, <2>2
  <1>8. CASE \E j \in Kinds, n \in 1 .. HardCap : SetLimit(j, n)
    <2>1. UNCHANGED <<ops, count>>
      BY <1>8 DEF SetLimit
    <2> QED
      BY <1>1, <2>1 DEF Live
  <1>9. CASE \E id \in Ids : ThreadStep(id)
    <2>1. Live' = Live
      BY <1>9, ThreadStepEffect DEF ThreadEffect, Live, Books
    <2>2. \A i \in Live : ops'[i].status = ops[i].status /\ ops'[i].kind = ops[i].kind
      BY <1>2, <1>9, ThreadStepEffect DEF ThreadEffect, Books
    <2> QED
      BY <1>1, <2>1, <2>2
  <1> QED
    BY <1>3, <1>4, <1>5, <1>6, <1>7, <1>8, <1>9 DEF Next, UiStep, UserStep

\* No visit of the queue starts a transfer beyond the limit that is set
\* (xfer_dispatch), also when the limit was lowered below what runs; and nothing
\* but such a visit starts one.
THEOREM LimitsAreKept == Spec => StartsWithinLimit
  <1>1. Books /\ [Next]_vars =>
          [\A k \in Kinds : Cardinality(Running(k)') > Cardinality(Running(k))
                              => Cardinality(Running(k)') <= limit[k]]_vars
    <2> SUFFICES ASSUME Books, Next, NEW k \in Kinds,
                        Cardinality(Running(k)') > Cardinality(Running(k))
                 PROVE  Cardinality(Running(k)') <= limit[k]
      BY DEF vars
    <2>1. Cardinality(Running(k)) \in Nat /\ Cardinality(Running(k)') \in Nat
      <3>1. Running(k) \in SUBSET Live /\ Running(k)' \in SUBSET Live'
        BY DEF Running
      <3>2. Books'
        BY NextBooks
      <3>3. \A S \in SUBSET Live' : IsFiniteSet(S) /\ Cardinality(S) \in Nat
        <4>1. IsFiniteSet(Live')
          <5>1. 0 \in Int /\ count' - 1 \in Int
            BY <3>2 DEF Books, TypeOK
          <5> QED
            BY <5>1, FS_Interval DEF Live
        <4> QED
          BY <4>1, FS_Subset, FS_CardinalityType
      <3> QED
        BY <3>1, <3>3, FiniteParts
    <2>2. Cardinality(Running(k)') <= Cardinality(Running(k))
            \/ Cardinality(Running(k)') <= limit[k]
      BY DispatchWithinLimit, OthersStartNothing
    <2> QED
      BY ONLY <2>1, <2>2, Cardinality(Running(k)') > Cardinality(Running(k))
  <1> QED
    BY <1>1, BooksHold, PTL DEF Spec, StartsWithinLimit

----------------------------------------------------------------------------
(* The ledger: the queue's steps are the abstract specification's, as long *)
(* as nothing is removed ahead of a running transfer.                      *)

\* What an operation's attempt has come to, read off its own slot and thread.
Says(ring, kind) == \E n \in 1 .. Len(ring) : ring[n].kind = kind
Outcome(op, pc) ==
  IF op.status \in Ended THEN op.status
  ELSE IF op.status = "Queued" THEN "None"
  ELSE IF pc = "done" \/ Says(op.ring, "Done") THEN "Done"
  ELSE IF pc = "fail" \/ Says(op.ring, "Failed") THEN "Failed"
  ELSE "None"

Absent(id) == \A i \in Live : ops[i].id # id

\* The refinement mapping, without its choices.
Agrees ==
  /\ \A i \in Live : /\ StandingOf(ops[i].id) = ops[i].status
                     /\ VerdictOf(ops[i].id) = Outcome(ops[i], th[ops[i].id].pc)
  /\ \A id \in Ids : Absent(id) =>
       /\ StandingOf(id) = IF id >= nextId THEN "Unborn" ELSE "Removed"
       /\ VerdictOf(id) = "None"

LEMMA MappingAgrees == Books /\ Pairing => Agrees
  <1> SUFFICES ASSUME Books, Pairing PROVE Agrees
    OBVIOUS
  <1>1. ASSUME NEW i \in Live PROVE StandingOf(ops[i].id) = ops[i].status
    <2>1. ~(ops[i].id >= nextId)
      BY ArrayFacts DEF Books, TypeOK, LiveIdsAreOld, Ids
    <2>2. \A j \in Live : ops[j].id = ops[i].id => j = i
      BY DEF Books, UniqueIds
    <2> QED
      BY <2>1, <2>2 DEF StandingOf
  <1>2. ASSUME NEW i \in Live
        PROVE  VerdictOf(ops[i].id) = Outcome(ops[i], th[ops[i].id].pc)
    <2> DEFINE id == ops[i].id
    <2>1. StandingOf(id) = ops[i].status
      BY <1>1
    <2>2. \A kind \in Ended :
            (\E j \in Live : \E n \in 1 .. Len(ops[j].ring) :
               ops[j].ring[n] = [kind |-> kind, from |-> id])
              <=> Says(ops[i].ring, kind)
      <3> TAKE kind \in Ended
      <3>1. ASSUME NEW j \in Live, NEW n \in 1 .. Len(ops[j].ring),
                   ops[j].ring[n] = [kind |-> kind, from |-> id]
            PROVE  Says(ops[i].ring, kind)
        <4>1. ops[j].ring[n].from = id /\ ops[j].ring[n].kind = kind
          BY <3>1
        <4>2. ops[j].ring[n].from = ops[j].id
          BY DEF Pairing, RingIsOwn
        <4>3. j = i
          BY <4>1, <4>2 DEF Books, UniqueIds
        <4> QED
          BY <4>1, <4>3 DEF Says
      <3>2. ASSUME NEW n \in 1 .. Len(ops[i].ring), ops[i].ring[n].kind = kind
            PROVE  ops[i].ring[n] = [kind |-> kind, from |-> id]
        <4>1. ops[i].ring[n] \in Msgs
          BY ArrayFacts
        <4>2. ops[i].ring[n].from = id
          BY DEF Pairing, RingIsOwn
        <4> QED
          BY <3>2, <4>1, <4>2 DEF Msgs
      <3> QED
        BY <3>1, <3>2 DEF Says
    <2>3. ops[i].status \in Statuses
      BY ArrayFacts DEF Ops
    <2>4. "Done" \in Ended /\ "Failed" \in Ended /\ "None" \notin Ended
      BY DEF Ended
    <2> DEFINE sent == {kind \in Ended : \E j \in Live : \E n \in 1 .. Len(ops[j].ring) :
                         ops[j].ring[n] = [kind |-> kind, from |-> id]}
    <2>5. /\ "Done" \in sent <=> Says(ops[i].ring, "Done")
          /\ "Failed" \in sent <=> Says(ops[i].ring, "Failed")
      BY <2>2, <2>4
    <2>6. VerdictOf(id) = CASE StandingOf(id) \in Ended -> StandingOf(id)
                            [] StandingOf(id) \notin Ended \cup {"InProgress"} -> "None"
                            [] OTHER -> IF th[id].pc = "done" \/ "Done" \in sent THEN "Done"
                                        ELSE IF th[id].pc = "fail" \/ "Failed" \in sent
                                        THEN "Failed" ELSE "None"
      BY DEF VerdictOf
    <2> HIDE DEF id, sent
    <2>7. ASSUME ops[i].status = "InProgress"
          PROVE  VerdictOf(id) = Outcome(ops[i], th[id].pc)
      <3>1. StandingOf(id) = "InProgress" /\ StandingOf(id) \notin Ended
        BY <2>1, <2>7 DEF Ended
      <3>2. VerdictOf(id) = IF th[id].pc = "done" \/ "Done" \in sent THEN "Done"
                            ELSE IF th[id].pc = "fail" \/ "Failed" \in sent
                            THEN "Failed" ELSE "None"
        BY <2>6, <3>1
      <3>3. /\ ops[i].status \notin Ended /\ ops[i].status # "Queued"
        BY <2>7 DEF Ended
      <3>4. Outcome(ops[i], th[id].pc) =
              IF th[id].pc = "done" \/ Says(ops[i].ring, "Done") THEN "Done"
              ELSE IF th[id].pc = "fail" \/ Says(ops[i].ring, "Failed") THEN "Failed"
              ELSE "None"
        BY <3>3 DEF Outcome
      <3>5. CASE th[id].pc = "done" \/ Says(ops[i].ring, "Done")
        BY <2>5, <3>2, <3>4, <3>5
      <3>6. CASE /\ ~(th[id].pc = "done" \/ Says(ops[i].ring, "Done"))
                 /\ th[id].pc = "fail" \/ Says(ops[i].ring, "Failed")
        BY <2>5, <3>2, <3>4, <3>6
      <3>7. CASE /\ ~(th[id].pc = "done" \/ Says(ops[i].ring, "Done"))
                 /\ ~(th[id].pc = "fail" \/ Says(ops[i].ring, "Failed"))
        BY <2>5, <3>2, <3>4, <3>7
      <3> QED
        BY <3>5, <3>6, <3>7
    <2>8. ASSUME ops[i].status # "InProgress"
          PROVE  VerdictOf(id) = Outcome(ops[i], th[id].pc)
      <3>1. CASE ops[i].status \in Ended
        <4>1. VerdictOf(id) = ops[i].status
          BY <2>1, <2>6, <3>1
        <4> QED
          BY <3>1, <4>1 DEF Outcome
      <3>2. CASE ops[i].status \notin Ended
        <4>1. VerdictOf(id) = "None"
          BY <2>1, <2>6, <2>8, <3>2
        <4>2. ops[i].status = "Queued"
          BY <2>3, <2>8, <3>2 DEF Statuses, Ended
        <4> QED
          BY <3>2, <4>1, <4>2 DEF Outcome
      <3> QED
        BY <3>1, <3>2
    <2> QED
      BY <2>7, <2>8 DEF id
  <1>3. ASSUME NEW id \in Ids, Absent(id)
        PROVE  /\ StandingOf(id) = IF id >= nextId THEN "Unborn" ELSE "Removed"
               /\ VerdictOf(id) = "None"
    <2>1. StandingOf(id) = IF id >= nextId THEN "Unborn" ELSE "Removed"
      BY <1>3 DEF StandingOf, Absent
    <2> QED
      BY <2>1 DEF VerdictOf, Ended
  <1> QED
    BY <1>1, <1>2, <1>3 DEF Agrees

LEMMA InitLedger == Init => Ledger!Init
  <1> SUFFICES ASSUME Init PROVE Ledger!Init
    OBVIOUS
  <1>1. \A id \in Ids : StandingOf(id) = "Unborn"
    BY DEF Init, StandingOf, Ids
  <1>2. \A id \in Ids : VerdictOf(id) = "None"
    BY <1>1 DEF VerdictOf, Ended
  <1> QED
    BY <1>1, <1>2 DEF Ledger!Init

Both == Books /\ Pairing /\ Agrees
BothSides == Both /\ Both'
Kept(id) == StandingOf(id)' = StandingOf(id) /\ VerdictOf(id)' = VerdictOf(id)
LedgerStep == [Ledger!Next]_(Ledger!ledgerVars)

\* Nothing happens to any transfer's standing or verdict.
LEMMA LedgerStutters == (\A id \in Ids : Kept(id)) => LedgerStep
  BY DEF Kept, LedgerStep, Ledger!ledgerVars

\* One transfer moves to another standing and keeps its verdict.
LEMMA LedgerMoves ==
  ASSUME NEW id \in Ids, \A j \in Ids \ {id} : Kept(j),
         VerdictOf(id)' = VerdictOf(id),
         \/ StandingOf(id) = "Unborn" /\ StandingOf(id)' = "Queued"
         \/ StandingOf(id) = "Queued" /\ StandingOf(id)' = "Removed"
         \/ /\ StandingOf(id) = "InProgress" /\ VerdictOf(id) # "None"
            /\ StandingOf(id)' = VerdictOf(id)
  PROVE  LedgerStep
  <1> DEFINE st == [j \in Ids |-> StandingOf(j)]
             ve == [j \in Ids |-> VerdictOf(j)]
  <1>1. ve' = ve
    BY DEF Kept
  <1>2. \A s : StandingOf(id)' = s => st' = [st EXCEPT ![id] = s]
    BY DEF Kept
  <1>3. ASSUME StandingOf(id) = "Unborn", StandingOf(id)' = "Queued"
        PROVE  Ledger!Enqueue(id)
    BY <1>1, <1>2, <1>3 DEF Ledger!Enqueue, Ledger!Move
  <1>4. ASSUME StandingOf(id) = "Queued", StandingOf(id)' = "Removed"
        PROVE  Ledger!Remove(id)
    BY <1>1, <1>2, <1>4 DEF Ledger!Remove, Ledger!Move
  <1>5. ASSUME StandingOf(id) = "InProgress", VerdictOf(id) # "None",
               StandingOf(id)' = VerdictOf(id)
        PROVE  Ledger!Settle(id)
    BY <1>1, <1>2, <1>5 DEF Ledger!Settle, Ledger!Move
  <1>6. Ledger!Enqueue(id) \/ Ledger!Remove(id) \/ Ledger!Settle(id) => LedgerStep
    BY DEF LedgerStep, Ledger!Next
  <1> QED
    BY <1>3, <1>4, <1>5, <1>6

\* Where every operation keeps its slot and its id, a transfer whose status and
\* whose attempt's outcome stay the same is kept.
LEMMA KeptInPlace ==
  ASSUME BothSides, UNCHANGED <<count, nextId>>, \A i \in Live : ops'[i].id = ops[i].id,
         NEW id \in Ids,
         \A i \in Live : ops[i].id = id =>
           /\ ops'[i].status = ops[i].status
           /\ Outcome(ops'[i], th'[id].pc) = Outcome(ops[i], th[id].pc)
  PROVE  Kept(id)
  <1>1. Live' = Live
    BY DEF Live
  <1>2. CASE Absent(id)
    <2>1. Absent(id)'
      BY <1>1, <1>2 DEF Absent
    <2> QED
      BY <1>2, <2>1 DEF BothSides, Both, Agrees, Kept
  <1>3. CASE ~Absent(id)
    <2>1. PICK i \in Live : ops[i].id = id
      BY <1>3 DEF Absent
    <2>2. StandingOf(id) = ops[i].status /\ VerdictOf(id) = Outcome(ops[i], th[id].pc)
      BY <2>1 DEF BothSides, Both, Agrees
    <2>3. StandingOf(id)' = ops'[i].status /\ VerdictOf(id)' = Outcome(ops'[i], th'[id].pc)
      BY <1>1, <2>1 DEF BothSides, Both, Agrees
    <2> QED
      BY <2>1, <2>2, <2>3 DEF Kept
  <1> QED
    BY <1>2, <1>3

\* Steps that touch nothing the ledger shows.
LEMMA QuietSteps ==
  ASSUME BothSides,
         \/ DrainNext \/ Join \/ Refresh \/ EndFrame
         \/ \E i \in Slots : Cancel(i)
         \/ \E k \in Kinds, n \in 1 .. HardCap : SetLimit(k, n)
  PROVE  LedgerStep
  <1> USE SizesAssumption
  <1> SUFFICES ASSUME NEW id \in Ids PROVE Kept(id)
    BY LedgerStutters
  <1>1. /\ Live \subseteq Slots
        /\ \A i \in Live : ops[i] \in Ops /\ ops[i].id \in Ids
    BY ArrayFacts DEF BothSides, Both
  <1>2. ASSUME UNCHANGED <<ops, count, nextId, th>> PROVE Kept(id)
    BY <1>2, KeptInPlace
  <1>3. CASE DrainNext \/ Refresh \/ EndFrame
             \/ \E k \in Kinds, n \in 1 .. HardCap : SetLimit(k, n)
    BY <1>2, <1>3 DEF DrainNext, Refresh, EndFrame, SetLimit
  <1>4. CASE Join
    <2>1. /\ UNCHANGED <<ops, count, nextId>> /\ ui.pc = "join"
          /\ \A j \in Ids : j # ops[ui.at].id => th'[j] = th[j]
      BY <1>4 DEF Join, BothSides, Both, Books, TypeOK
    <2>2. ui.at \in Live /\ ops[ui.at].status \in Ended
      BY <2>1 DEF BothSides, Both, Books, UiInRange, TypeOK, Live
    <2>3. \A i \in Live : ops[i].id = ops[ui.at].id => i = ui.at
      BY <2>2 DEF BothSides, Both, Books, UniqueIds
    <2>4. \A i \in Live : ops[i].id = id =>
            Outcome(ops'[i], th'[id].pc) = Outcome(ops[i], th[id].pc)
      <3> SUFFICES ASSUME NEW i \in Live, ops[i].id = id
                   PROVE  Outcome(ops[i], th'[id].pc) = Outcome(ops[i], th[id].pc)
        BY <2>1
      <3>1. CASE i = ui.at
        BY <2>2, <3>1 DEF Outcome
      <3>2. CASE i # ui.at
        BY <2>1, <2>2, <2>3, <3>2 DEF Outcome
      <3> QED
        BY <3>1, <3>2
    <2> QED
      BY <2>1, <2>4, KeptInPlace
  <1>5. CASE \E i \in Slots : Cancel(i)
    <2>1. PICK i \in Slots : Cancel(i)
      BY <1>5
    <2>2. /\ UNCHANGED <<count, nextId, th>> /\ i \in Live
          /\ ops' = [ops EXCEPT ![i] = [ops[i] EXCEPT !.cancel = TRUE]]
      BY <2>1 DEF Cancel
    <2>3. \A j \in Live : /\ ops'[j].id = ops[j].id /\ ops'[j].status = ops[j].status
                          /\ ops'[j].ring = ops[j].ring
      BY <1>1, <2>2, SMTT(30) DEF BothSides, Both, Books, TypeOK, Ops
    <2>4. \A j \in Live : Outcome(ops'[j], th'[id].pc) = Outcome(ops[j], th[id].pc)
      BY <2>2, <2>3 DEF Outcome
    <2>5. UNCHANGED <<count, nextId>> /\ \A j \in Live : ops'[j].id = ops[j].id
      BY <2>2, <2>3
    <2>6. \A j \in Live : ops[j].id = id =>
            /\ ops'[j].status = ops[j].status
            /\ Outcome(ops'[j], th'[id].pc) = Outcome(ops[j], th[id].pc)
      BY <2>3, <2>4
    <2> QED
      BY <2>5, <2>6, KeptInPlace
  <1> QED
    BY <1>3, <1>4, <1>5

LEMMA DispatchLedger == ASSUME BothSides, Dispatch PROVE LedgerStep
  <1> USE SizesAssumption
  <1>1. /\ Live \subseteq Slots /\ Live' = Live /\ Promoted \subseteq Live
        /\ \A i \in Live : ops[i] \in Ops /\ ops[i].id \in Ids
    BY ArrayFacts DEF BothSides, Both, Dispatch, Live, Promoted
  <1>2. \A i \in Live :
          /\ ops'[i].id = ops[i].id /\ ops'[i].ring = ops[i].ring
          /\ i \in Promoted => ops'[i].status = "InProgress" /\ ops[i].status = "Queued"
          /\ i \notin Promoted => ops'[i] = ops[i]
    BY <1>1 DEF Dispatch, Ops, Promoted
  <1>3. \A id \in Ids : \/ \E i \in Promoted : ops[i].id = id /\ th'[id].pc = "connect"
                        \/ th'[id] = th[id] /\ ~\E i \in Promoted : ops[i].id = id
    BY DEF Dispatch
  <1>4. \A i, j \in Live : ops[i].id = ops[j].id => i = j
    BY DEF BothSides, Both, Books, UniqueIds
  <1> DEFINE S == {ops[i].id : i \in Promoted}
  <1>5. S \in SUBSET Ids
    BY <1>1
  <1>6. ASSUME NEW id \in Ids \ S PROVE Kept(id)
    <2>1. \A i \in Live : ops[i].id = id => i \notin Promoted
      OBVIOUS
    <2>2. th'[id] = th[id]
      BY <1>3
    <2>3. UNCHANGED <<count, nextId>>
      BY DEF Dispatch
    <2> QED
      BY <1>1, <1>2, <2>1, <2>2, <2>3, KeptInPlace
  <1>7. ASSUME NEW id \in S
        PROVE  /\ StandingOf(id) = "Queued" /\ StandingOf(id)' = "InProgress"
               /\ VerdictOf(id) = "None" /\ VerdictOf(id)' = "None"
    <2>1. PICK i \in Promoted : ops[i].id = id
      OBVIOUS
    <2>2. i \in Live /\ i \in Live' /\ ops[i].status = "Queued"
          /\ ops'[i].status = "InProgress" /\ ops'[i].id = id
      BY <1>1, <1>2, <2>1
    <2>3. StandingOf(id) = ops[i].status /\ VerdictOf(id) = Outcome(ops[i], th[id].pc)
      BY <2>1, <2>2 DEF BothSides, Both, Agrees
    <2>4. StandingOf(id)' = ops'[i].status /\ VerdictOf(id)' = Outcome(ops'[i], th'[id].pc)
      BY <2>2 DEF BothSides, Both, Agrees
    <2>5. ops'[i].ring = <<>>
      BY <1>2, <2>2 DEF BothSides, Both, Pairing, RingIsOwn
    <2>6. th'[id].pc = "connect"
      BY <1>1, <1>3, <2>1
    <2>7. \A kind : ~Says(<<>>, kind)
      BY DEF Says
    <2>8. Outcome(ops[i], th[id].pc) = "None"
      BY <2>2 DEF Outcome, Ended
    <2>9. Outcome(ops'[i], th'[id].pc) = "None"
      BY <2>2, <2>5, <2>6, <2>7 DEF Outcome, Ended
    <2> QED
      BY <2>2, <2>3, <2>4, <2>8, <2>9
  <1> HIDE DEF S
  <1>8. CASE S = {}
    BY <1>6, <1>8, LedgerStutters
  <1>9. CASE S # {}
    <2>1. Ledger!Start(S)
      BY <1>5, <1>6, <1>7, <1>9 DEF Ledger!Start, Kept
    <2> QED
      BY <1>5, <2>1 DEF LedgerStep, Ledger!Next
  <1> QED
    BY <1>8, <1>9

\* Reading a progress message shows nothing; reading the last one settles the
\* transfer as its attempt has concluded.
LEMMA DrainLedger == ASSUME BothSides, DrainMsg PROVE LedgerStep
  <1> USE SizesAssumption
  <1> SUFFICES ASSUME NEW at, at = ui.at, NEW id, id = ops[at].id PROVE LedgerStep
    OBVIOUS
  <1> DEFINE msg == Head(ops[at].ring)
  <1>1. /\ at \in Live /\ at \in Slots /\ ops[at].status = "InProgress"
        /\ ops[at].ring # <<>> /\ UNCHANGED <<count, nextId, th>>
    BY ArrayFacts DEF DrainMsg, Live, BothSides, Both, Books, TypeOK
  <1>2. /\ Live' = Live /\ Live \subseteq Slots
        /\ \A i \in Live : ops[i] \in Ops /\ ops[i].id \in Ids /\ ops[i].ring \in Seq(Msgs)
    BY <1>1, ArrayFacts DEF Live, BothSides, Both
  <1>3. /\ \A i \in Live : i # at => ops'[i] = ops[i]
        /\ ops'[at].id = id /\ ops'[at].ring = Tail(ops[at].ring)
        /\ ops'[at].status = IF msg.kind \in Ended THEN msg.kind ELSE ops[at].status
    <2>1. ops \in [Slots -> Ops]
      BY DEF BothSides, Both, Books, TypeOK
    <2>2. ops' = [ops EXCEPT ![at] = [ops[at] EXCEPT !.ring = Tail(ops[at].ring),
                     !.status = IF msg.kind \in Ended THEN msg.kind ELSE ops[at].status]]
      BY DEF DrainMsg
    <2>3. ops'[at] = [ops[at] EXCEPT !.ring = Tail(ops[at].ring),
                     !.status = IF msg.kind \in Ended THEN msg.kind ELSE ops[at].status]
      BY <1>1, <2>1, <2>2
    <2>4. ops[at] \in Ops
      BY <1>1, <2>1
    <2>5. \A i \in Live : i # at => ops'[i] = ops[i]
      BY <1>2, <2>1, <2>2
    <2> HIDE DEF msg
    <2> QED
      BY <2>3, <2>4, <2>5 DEF Ops
  <1>4. \A i \in Live : ops[i].id = id => i = at
    BY <1>1 DEF BothSides, Both, Books, UniqueIds
  <1>5. id \in Ids /\ \A i \in Live : ops'[i].id = ops[i].id
    BY <1>1, <1>2, <1>3
  <1>6. ASSUME NEW j \in Ids \ {id} PROVE Kept(j)
    <2>1. \A i \in Live : ops[i].id = j => ops'[i] = ops[i]
      BY <1>3
    <2> QED
      BY <1>1, <1>5, <2>1, KeptInPlace
  <1>7. LET q == ops[at].ring
        IN  /\ msg = q[1] /\ 1 \in 1 .. Len(q) /\ Len(q) \in Nat
            /\ \A n \in 1 .. Len(Tail(q)) : Tail(q)[n] = q[n + 1] /\ n + 1 \in 1 .. Len(q)
            /\ Len(Tail(q)) = Len(q) - 1
    BY <1>1, <1>2, HeadAndTail
  <1>8. ASSUME msg.kind \notin Ended PROVE Kept(id)
    <2>1. \A kind \in Ended : Says(Tail(ops[at].ring), kind) <=> Says(ops[at].ring, kind)
      <3> TAKE kind \in Ended
      <3>1. ASSUME NEW n \in 1 .. Len(ops[at].ring), ops[at].ring[n].kind = kind
            PROVE  n - 1 \in 1 .. Len(Tail(ops[at].ring)) /\ Tail(ops[at].ring)[n - 1].kind = kind
        <4>1. n # 1
          BY <1>7, <1>8, <3>1
        <4>2. n - 1 \in 1 .. Len(Tail(ops[at].ring)) /\ (n - 1) + 1 = n
          BY <1>7, <4>1
        <4> QED
          BY <1>7, <3>1, <4>2
      <3>2. ASSUME NEW n \in 1 .. Len(Tail(ops[at].ring)), Tail(ops[at].ring)[n].kind = kind
            PROVE  n + 1 \in 1 .. Len(ops[at].ring) /\ ops[at].ring[n + 1].kind = kind
        BY <1>7, <3>2
      <3> QED
        BY <3>1, <3>2 DEF Says
    <2>2. "Done" \in Ended /\ "Failed" \in Ended
      BY DEF Ended
    <2>3. ops'[at].status = ops[at].status
      BY <1>3, <1>8
    <2>4. Outcome(ops'[at], th[id].pc) = Outcome(ops[at], th[id].pc)
      <3> DEFINE q == ops[at].ring
      <3>1. /\ Says(ops'[at].ring, "Done") <=> Says(q, "Done")
            /\ Says(ops'[at].ring, "Failed") <=> Says(q, "Failed")
        BY <1>3, <2>1, <2>2
      <3> HIDE DEF q
      <3>2. CASE Says(q, "Done")
        BY <1>1, <2>3, <3>1, <3>2 DEF Outcome, Ended, q
      <3>3. CASE ~Says(q, "Done") /\ Says(q, "Failed")
        BY <1>1, <2>3, <3>1, <3>3 DEF Outcome, Ended, q
      <3>4. CASE ~Says(q, "Done") /\ ~Says(q, "Failed")
        BY <1>1, <2>3, <3>1, <3>4 DEF Outcome, Ended, q
      <3> QED
        BY <3>2, <3>3, <3>4
    <2>5. \A i \in Live : ops[i].id = id =>
            /\ ops'[i].status = ops[i].status
            /\ Outcome(ops'[i], th'[id].pc) = Outcome(ops[i], th[id].pc)
      BY <1>1, <1>4, <2>3, <2>4
    <2> QED
      BY <1>1, <1>5, <2>5, KeptInPlace
  <1>9. ASSUME msg.kind \in Ended
        PROVE  /\ StandingOf(id) = "InProgress" /\ VerdictOf(id) = msg.kind
               /\ StandingOf(id)' = msg.kind /\ VerdictOf(id)' = msg.kind
    <2>1. StandingOf(id) = ops[at].status /\ VerdictOf(id) = Outcome(ops[at], th[id].pc)
      BY <1>1 DEF BothSides, Both, Agrees
    <2>2. StandingOf(id)' = ops'[at].status /\ VerdictOf(id)' = Outcome(ops'[at], th'[id].pc)
      BY <1>1, <1>2, <1>3 DEF BothSides, Both, Agrees
    <2>3. 1 = Len(ops[at].ring) /\ th[id].pc \in {"close", "exited"}
      BY <1>1, <1>7, <1>9 DEF BothSides, Both, Pairing, RingIsOwn
    <2>4. \A kind : Says(ops[at].ring, kind) <=> kind = msg.kind
      BY <1>7, <2>3 DEF Says
    <2>5. Outcome(ops[at], th[id].pc) = msg.kind
      <3> HIDE DEF msg
      <3>1. CASE msg.kind = "Done"
        BY <1>1, <2>3, <2>4, <3>1 DEF Outcome, Ended
      <3>2. CASE msg.kind = "Failed"
        BY <1>1, <2>3, <2>4, <3>2 DEF Outcome, Ended
      <3> QED
        BY <1>9, <3>1, <3>2 DEF Ended
    <2>6. ops'[at].status = msg.kind
      BY <1>3, <1>9
    <2>7. Outcome(ops'[at], th'[id].pc) = msg.kind
      BY <1>9, <2>6 DEF Outcome
    <2> QED
      BY <1>1, <2>1, <2>2, <2>5, <2>6, <2>7
  <1> HIDE DEF msg
  <1>10. CASE msg.kind \notin Ended
    BY <1>6, <1>8, <1>10, LedgerStutters
  <1>11. CASE msg.kind \in Ended
    <2>1. VerdictOf(id) # "None"
      BY <1>9, <1>11 DEF Ended
    <2> QED
      BY <1>5, <1>6, <1>9, <1>11, <2>1, LedgerMoves
  <1> QED
    BY <1>10, <1>11

LEMMA EnqueueLedger == ASSUME BothSides, NEW k \in Kinds, Enqueue(k) PROVE LedgerStep
  <1> USE SizesAssumption
  <1>1. CASE UNCHANGED <<ops, count, nextId>>
    <2>1. th' = th
      BY DEF Enqueue
    <2>2. \A id \in Ids : Kept(id)
      BY <1>1, <2>1, KeptInPlace
    <2> QED
      BY <2>2, LedgerStutters
  <1>2. CASE ~UNCHANGED <<ops, count, nextId>>
    <2> SUFFICES ASSUME NEW new, new = nextId, NEW last, last = count PROVE LedgerStep
      OBVIOUS
    <2>1. /\ count < MaxOps /\ nextId < MaxIds /\ count \in Nat /\ nextId \in Nat
          /\ th' = th /\ count' = count + 1 /\ nextId' = nextId + 1
          /\ ops' = [ops EXCEPT ![count] = [ZeroOp EXCEPT !.id = nextId, !.kind = k]]
      BY <1>2 DEF Enqueue, Push, BothSides, Both, Books, TypeOK
    <2>2. \A i \in Live : ops'[i] = ops[i] /\ ops[i].id < nextId /\ ops[i].id \in Ids
      <3>1. \A i \in Live : i \in Slots /\ i # count
        BY <2>1 DEF Live, Slots
      <3> QED
        BY <2>1, <3>1, ArrayFacts DEF BothSides, Both, Books, TypeOK, LiveIdsAreOld
    <2>3. /\ \A i : i \in Live' <=> i \in Live \/ i = count
          /\ nextId \in Ids /\ count \in Slots
      BY <2>1 DEF Live, Ids, Slots
    <2>4. ops'[last].id = new /\ ops'[last].status = "Queued"
      BY <2>1, <2>3 DEF BothSides, Both, Books, TypeOK, ZeroOp
    <2>5. ASSUME NEW j \in Ids \ {new} PROVE Kept(j)
      <3>1. CASE Absent(j)
        <4>1. Absent(j)'
          BY <2>2, <2>3, <2>4, <3>1 DEF Absent
        <4>2. j >= nextId <=> j >= nextId'
          BY <2>1 DEF Ids
        <4> QED
          BY <3>1, <4>1, <4>2 DEF BothSides, Both, Agrees, Kept
      <3>2. CASE ~Absent(j)
        <4>1. PICK i \in Live : ops[i].id = j
          BY <3>2 DEF Absent
        <4>2. i \in Live' /\ ops'[i] = ops[i]
          BY <2>2, <2>3
        <4> QED
          BY <2>1, <4>1, <4>2 DEF BothSides, Both, Agrees, Kept
      <3> QED
        BY <3>1, <3>2
    <2>6. StandingOf(new) = "Unborn" /\ VerdictOf(new) = "None"
      <3>1. Absent(new)
        BY <2>1, <2>2 DEF Absent
      <3>2. new >= nextId
        BY <2>1
      <3> QED
        BY <2>3, <3>1, <3>2 DEF BothSides, Both, Agrees
    <2>7. StandingOf(new)' = "Queued" /\ VerdictOf(new)' = "None"
      <3>1. last \in Live'
        BY <2>3
      <3>2. /\ StandingOf(new)' = ops'[last].status
            /\ VerdictOf(new)' = Outcome(ops'[last], th'[new].pc)
        BY <2>4, <3>1 DEF BothSides, Both, Agrees
      <3> QED
        BY <2>4, <3>2 DEF Outcome, Ended
    <2> QED
      BY <2>3, <2>5, <2>6, <2>7, LedgerMoves
  <1> QED
    BY <1>1, <1>2

\* The shift loses one waiting transfer and no other.
LEMMA RemoveLedger == ASSUME BothSides, NEW r \in Slots, Remove(r) PROVE LedgerStep
  <1> USE SizesAssumption
  <1> SUFFICES ASSUME NEW id, id = ops[r].id PROVE LedgerStep
    OBVIOUS
  <1>1. /\ count \in Nat /\ count' = count - 1 /\ r \in Nat /\ r < count
        /\ r \in Live /\ ops[r].status = "Queued" /\ UNCHANGED <<th, nextId>>
    BY DEF Remove, Shift, Live, Slots, BothSides, Both, Books, TypeOK
  <1>2. \A j \in Slots : ops'[j] = IF r <= j /\ j + 1 < count THEN ops[j + 1] ELSE ops[j]
    BY DEF Remove, Shift
  <1>3. /\ Live \subseteq Slots
        /\ \A i \in Live : ops[i].id \in Ids /\ ops[i].id < nextId
        /\ \A i, j \in Live : ops[i].id = ops[j].id => i = j
    BY ArrayFacts DEF BothSides, Both, Books, LiveIdsAreOld, UniqueIds
  <1>4. ASSUME NEW j \in Live'
        PROVE  \E i \in Live : i # r /\ ops'[j] = ops[i]
    <2>1. j \in Nat /\ j < count - 1
      BY <1>1, <1>4 DEF Live
    <2>2. j \in Live /\ j + 1 \in Live
      BY <1>1, <2>1 DEF Live
    <2>3. CASE j < r
      BY <1>1, <1>2, <1>3, <2>1, <2>2, <2>3
    <2>4. CASE ~(j < r)
      <3>1. ops'[j] = ops[j + 1] /\ j + 1 # r
        BY <1>1, <1>2, <1>3, <2>1, <2>2, <2>4
      <3> QED
        BY <2>2, <3>1
    <2> QED
      BY <2>3, <2>4
  <1>5. ASSUME NEW i \in Live, i # r
        PROVE  \E j \in Live' : ops'[j] = ops[i]
    <2>1. i \in Nat /\ i < count
      BY <1>1, <1>5 DEF Live
    <2>2. CASE i < r
      <3>1. i \in Live' /\ ops'[i] = ops[i]
        BY <1>1, <1>2, <1>3, <2>1, <2>2 DEF Live
      <3> QED
        BY <3>1
    <2>3. CASE ~(i < r)
      <3>1. i - 1 \in Nat /\ r <= i - 1 /\ (i - 1) + 1 = i /\ i - 1 < count - 1
        BY <1>1, <1>5, <2>1, <2>3
      <3>2. i - 1 \in Live' /\ i - 1 \in Live
        BY <1>1, <3>1 DEF Live
      <3>3. ops'[i - 1] = ops[i]
        BY <1>1, <1>2, <1>3, <2>1, <3>1, <3>2
      <3> QED
        BY <3>2, <3>3
    <2> QED
      BY <2>2, <2>3
  <1>6. ASSUME NEW j \in Ids \ {id} PROVE Kept(j)
    <2>1. CASE Absent(j)
      <3>1. Absent(j)'
        BY <1>4, <2>1 DEF Absent
      <3> QED
        BY <1>1, <2>1, <3>1 DEF BothSides, Both, Agrees, Kept
    <2>2. CASE ~Absent(j)
      <3>1. PICK i \in Live : ops[i].id = j
        BY <2>2 DEF Absent
      <3>2. PICK n \in Live' : ops'[n] = ops[i]
        BY <1>5, <3>1
      <3>3. StandingOf(j) = ops[i].status /\ VerdictOf(j) = Outcome(ops[i], th[j].pc)
        BY <3>1 DEF BothSides, Both, Agrees
      <3>4. StandingOf(j)' = ops'[n].status /\ VerdictOf(j)' = Outcome(ops'[n], th'[j].pc)
        BY <3>1, <3>2 DEF BothSides, Both, Agrees
      <3> QED
        BY <1>1, <3>2, <3>3, <3>4 DEF Kept
    <2> QED
      BY <2>1, <2>2
  <1>7. id \in Ids /\ StandingOf(id) = "Queued" /\ VerdictOf(id) = "None"
    <2>1. StandingOf(id) = ops[r].status /\ VerdictOf(id) = Outcome(ops[r], th[id].pc)
      BY <1>1 DEF BothSides, Both, Agrees
    <2> QED
      BY <1>1, <1>3, <2>1 DEF Outcome, Ended
  <1>8. StandingOf(id)' = "Removed" /\ VerdictOf(id)' = "None"
    <2>1. Absent(id)'
      BY <1>1, <1>3, <1>4 DEF Absent
    <2>2. ~(id >= nextId')
      BY <1>1, <1>3 DEF Ids, BothSides, Both, Books, TypeOK
    <2> QED
      BY <1>7, <2>1, <2>2 DEF BothSides, Both, Agrees
  <1> QED
    BY <1>6, <1>7, <1>8, LedgerMoves

LEMMA ResumeLedger == ASSUME BothSides, NEW r \in Slots, Resume(r) PROVE LedgerStep
  <1> USE SizesAssumption
  <1> SUFFICES ASSUME NEW id, id = ops[r].id PROVE LedgerStep
    OBVIOUS
  <1>1. /\ r \in Live /\ ops[r].status = "Failed" /\ UNCHANGED <<count, nextId, th>>
        /\ Live' = Live
        /\ ops' = [ops EXCEPT ![r] = [ops[r] EXCEPT !.status = "Queued", !.cancel = FALSE]]
    BY DEF Resume, Live
  <1>2. /\ ops \in [Slots -> Ops] /\ Live \subseteq Slots
        /\ \A i \in Live : ops[i] \in Ops /\ ops[i].id \in Ids
    BY ArrayFacts DEF BothSides, Both, Books, TypeOK
  <1>3. /\ \A i \in Live : i # r => ops'[i] = ops[i]
        /\ ops'[r].id = id /\ ops'[r].status = "Queued"
    BY <1>1, <1>2 DEF Ops
  <1>4. \A i \in Live : ops[i].id = id => i = r
    BY <1>1 DEF BothSides, Both, Books, UniqueIds
  <1>5. ASSUME NEW j \in Ids \ {id} PROVE Kept(j)
    <2>1. \A i \in Live : ops[i].id = j => ops'[i] = ops[i]
      BY <1>3
    <2>2. \A i \in Live : ops'[i].id = ops[i].id
      BY <1>3
    <2> QED
      BY <1>1, <2>1, <2>2, KeptInPlace
  <1>6. StandingOf(id) = "Failed"
    BY <1>1 DEF BothSides, Both, Agrees
  <1>7. StandingOf(id)' = "Queued" /\ VerdictOf(id)' = "None"
    <2>1. StandingOf(id)' = ops'[r].status /\ VerdictOf(id)' = Outcome(ops'[r], th'[id].pc)
      BY <1>1, <1>3 DEF BothSides, Both, Agrees
    <2> QED
      BY <1>3, <2>1 DEF Outcome, Ended
  <1>8. id \in Ids
    BY <1>1, <1>2
  <1>9. Ledger!Resume(id)
    BY <1>5, <1>6, <1>7, <1>8 DEF Ledger!Resume, Ledger!Move, Kept
  <1> QED
    BY <1>8, <1>9 DEF LedgerStep, Ledger!Next

\* A thread's step concludes its own attempt or shows nothing.
LEMMA ThreadLedger == ASSUME BothSides, NEW id \in Ids, ThreadStep(id) PROVE LedgerStep
  <1> USE SizesAssumption
  <1> SUFFICES ASSUME NEW s, s = th[id].slot PROVE LedgerStep
    OBVIOUS
  <1>1. ThreadEffect(id)
    BY ThreadStepEffect DEF BothSides, Both, Books
  <1>2. /\ s \in Live /\ ops[s].id = id
        /\ ops[s].status = "InProgress" \/ Joining(s)
        /\ ops'[s].id = id /\ ops'[s].status = ops[s].status /\ Live' = Live
        /\ s \in Slots /\ ops[s].ring \in Seq(Msgs) /\ ops[s] \in Ops
    <2>1. s \in Live /\ ops[s].id = id
          /\ (ops[s].status = "InProgress" \/ Joining(s))
      BY <1>1 DEF ThreadEffect, BothSides, Both, Pairing, ThreadOwnsSlot
    <2> QED
      BY <1>1, <2>1, ArrayFacts DEF ThreadEffect, Live, BothSides, Both
  <1>3. \A i \in Live : ops[i].id = id => i = s
    BY <1>2 DEF BothSides, Both, Books, UniqueIds
  <1>4. th[id].pc \notin {"close", "exited"} =>
          /\ ops[s].status = "InProgress"
          /\ \A kind \in Ended : ~Says(ops[s].ring, kind)
    <2> SUFFICES ASSUME th[id].pc \notin {"close", "exited"}
                 PROVE  /\ ops[s].status = "InProgress"
                        /\ \A kind \in Ended : ~Says(ops[s].ring, kind)
      OBVIOUS
    <2>1. ~Joining(s)
      BY <1>2 DEF Joining, BothSides, Both, Pairing, JoinIsShort
    <2> QED
      BY <1>2, <2>1 DEF Says, BothSides, Both, Pairing, RingIsOwn
  <1>5. \/ UNCHANGED ops
        \/ \E kind \in MsgKinds : Send(id, kind)
    BY DEF ThreadStep, Connect, SendStart, StopOnCancel, MoveChunk, LeaveLoop, Report,
           SendTerminal, Close, MsgKinds
  <1>6. \A i \in Live : i # s => ops'[i] = ops[i]
    BY <1>2, <1>5, ArrayFacts DEF Send, BothSides, Both, Books, TypeOK
  <1>7. ASSUME NEW j \in Ids \ {id} PROVE Kept(j)
    <2>1. \A i \in Live : ops[i].id = j => ops'[i] = ops[i]
      BY <1>2, <1>6
    <2>2. \A i \in Live : ops'[i].id = ops[i].id
      BY <1>2, <1>6
    <2>3. th'[j] = th[j] /\ UNCHANGED <<count, nextId>>
      BY <1>1 DEF ThreadEffect
    <2> QED
      BY <2>1, <2>2, <2>3, KeptInPlace
  <1>8. StandingOf(id) = ops[s].status /\ VerdictOf(id) = Outcome(ops[s], th[id].pc)
    BY <1>2 DEF BothSides, Both, Agrees
  <1>9. StandingOf(id)' = ops[s].status /\ VerdictOf(id)' = Outcome(ops'[s], th'[id].pc)
    <2>1. StandingOf(id)' = ops'[s].status /\ VerdictOf(id)' = Outcome(ops'[s], th'[id].pc)
      BY <1>2 DEF BothSides, Both, Agrees
    <2> QED
      BY <1>2, <2>1
  <1>10. ASSUME VerdictOf(id)' = VerdictOf(id) PROVE LedgerStep
    <2>1. Kept(id)
      BY <1>8, <1>9, <1>10 DEF Kept
    <2> QED
      BY <1>7, <2>1, LedgerStutters
  <1>11. ASSUME StandingOf(id) = "InProgress", VerdictOf(id) = "None",
                VerdictOf(id)' \in Ended
         PROVE  LedgerStep
    <2>1. Ledger!Conclude(id)
      BY <1>7, <1>8, <1>9, <1>11 DEF Ledger!Conclude, Ledger!Verdicts, Ended, Kept
    <2> QED
      BY <2>1 DEF LedgerStep, Ledger!Next
  <1>12. ASSUME NEW kind \in MsgKinds, Send(id, kind)
         PROVE  \A k : Says(ops'[s].ring, k) <=> Says(ops[s].ring, k) \/ k = kind
    <2> DEFINE q == ops[s].ring
               m == [kind |-> kind, from |-> id]
    <2>1. ops'[s].ring = Append(q, m)
      BY <1>2, <1>12 DEF Send, BothSides, Both, Books, TypeOK, Ops
    <2>2. q \in Seq(Msgs) /\ m \in Msgs /\ m.kind = kind
      BY <1>2 DEF Msgs
    <2> HIDE DEF q, m
    <2>3. /\ Len(Append(q, m)) = Len(q) + 1 /\ Len(q) \in Nat
          /\ \A n \in 1 .. Len(q) : Append(q, m)[n] = q[n]
          /\ Append(q, m)[Len(q) + 1] = m
      BY <2>2
    <2>4. \A k : Says(Append(q, m), k) <=> Says(q, k) \/ k = kind
      BY <2>2, <2>3 DEF Says
    <2> QED
      BY <2>1, <2>4 DEF q
  <1>13. \A op, pc : op.status = "InProgress" =>
           /\ pc = "done" => Outcome(op, pc) = "Done"
           /\ pc = "fail" /\ ~Says(op.ring, "Done") => Outcome(op, pc) = "Failed"
           /\ pc \notin {"done", "fail"} =>
                /\ Says(op.ring, "Done") => Outcome(op, pc) = "Done"
                /\ ~Says(op.ring, "Done") /\ Says(op.ring, "Failed")
                     => Outcome(op, pc) = "Failed"
                /\ ~Says(op.ring, "Done") /\ ~Says(op.ring, "Failed")
                     => Outcome(op, pc) = "None"
    BY DEF Outcome, Ended
  <1>14. "Done" \in Ended /\ "Failed" \in Ended /\ "Progress" \notin Ended
         /\ "Progress" \in MsgKinds /\ "Done" \in MsgKinds /\ "Failed" \in MsgKinds
    BY DEF Ended, MsgKinds
  <1>15. \A pc : ThreadGoes(id, pc) => th'[id].pc = pc
    BY ArrayFacts DEF ThreadGoes, ThreadRecs, BothSides, Both, Books, TypeOK
  <1>16. CASE Connect(id) \/ StopOnCancel(id) \/ LeaveLoop(id)
    <2>1. /\ ops' = ops /\ th[id].pc \in {"connect", "loop"}
          /\ th'[id].pc \in {"start", "done", "fail"}
      BY <1>15, <1>16 DEF Connect, StopOnCancel, LeaveLoop
    <2>2. VerdictOf(id) = "None" /\ StandingOf(id) = "InProgress"
      BY <1>4, <1>8, <1>13, <1>14, <2>1
    <2>3. VerdictOf(id)' \in Ended \cup {"None"}
      BY <1>4, <1>9, <1>13, <1>14, <2>1
    <2> QED
      BY <1>10, <1>11, <2>2, <2>3
  <1>17. CASE MoveChunk(id)
    <2>1. /\ ops' = ops /\ th[id].pc = "loop" /\ th'[id].pc \in {"loop", "report"}
      BY <1>17, ArrayFacts DEF MoveChunk, ThreadRecs, BothSides, Both, Books, TypeOK
    <2> QED
      BY <1>4, <1>8, <1>9, <1>10, <1>13, <1>14, <2>1
  <1>18. CASE SendStart(id) \/ Report(id)
    <2>1. /\ Send(id, "Progress") /\ th[id].pc \in {"start", "report"}
          /\ th'[id].pc = "loop"
      BY <1>15, <1>18 DEF SendStart, Report
    <2>2. ~Says(ops'[s].ring, "Done") /\ ~Says(ops'[s].ring, "Failed")
      BY <1>4, <1>12, <1>14, <2>1
    <2>3. VerdictOf(id) = "None"
      BY <1>4, <1>8, <1>13, <1>14, <2>1
    <2>4. VerdictOf(id)' = "None"
      BY <1>2, <1>4, <1>9, <1>13, <2>1, <2>2
    <2> QED
      BY <1>10, <2>3, <2>4
  <1>19. CASE SendTerminal(id)
    <2>1. /\ Send(id, IF th[id].pc = "done" THEN "Done" ELSE "Failed")
          /\ th[id].pc \in {"done", "fail"} /\ th'[id].pc = "close"
      BY <1>15, <1>19 DEF SendTerminal
    <2>2. ops'[s].status = "InProgress"
      BY <1>2, <1>4, <2>1
    <2>3. CASE th[id].pc = "done"
      <3>1. VerdictOf(id) = "Done"
        BY <1>4, <1>8, <1>13, <2>3
      <3>2. Says(ops'[s].ring, "Done")
        BY <1>12, <1>14, <2>1, <2>3
      <3>3. VerdictOf(id)' = "Done"
        BY <1>9, <1>13, <2>1, <2>2, <3>2
      <3> QED
        BY <1>10, <3>1, <3>3
    <2>4. CASE th[id].pc = "fail"
      <3>1. VerdictOf(id) = "Failed"
        BY <1>4, <1>8, <1>13, <1>14, <2>4
      <3>2. Says(ops'[s].ring, "Failed") /\ ~Says(ops'[s].ring, "Done")
        BY <1>4, <1>12, <1>14, <2>1, <2>4
      <3>3. VerdictOf(id)' = "Failed"
        BY <1>9, <1>13, <2>1, <2>2, <3>2
      <3> QED
        BY <1>10, <3>1, <3>3
    <2> QED
      BY <2>1, <2>3, <2>4
  <1>20. CASE Close(id)
    <2>1. ops' = ops /\ th[id].pc = "close" /\ th'[id].pc = "exited"
      BY <1>15, <1>20 DEF Close
    <2>2. Outcome(ops[s], "close") = Outcome(ops[s], "exited")
      BY DEF Outcome
    <2> QED
      BY <1>8, <1>9, <1>10, <2>1, <2>2
  <1> QED
    BY <1>16, <1>17, <1>18, <1>19, <1>20 DEF ThreadStep

\* What the user is told of a transfer is what the ledger allows: every step of
\* the frame, of a click and of a thread starts waiting transfers, concludes or
\* settles a running one with its own verdict, queues or removes one, or shows
\* nothing (xfer_dispatch, xfer_drain_progress, xfer_cancel, xfer_resume).  The
\* ledger's liveness is left to TLC.
THEOREM KeepsTheLedger ==
  ASSUME RemoveAhead = FALSE
  PROVE  Spec => Ledger!Init /\ [][Ledger!Next]_(Ledger!ledgerVars)
  <1>1. Spec => [](Books /\ Pairing)
    BY BooksHold, PairingHolds, PTL
  <1>2. Books /\ Pairing /\ (Books /\ Pairing)' => BothSides
    <2>1. Agrees /\ Books /\ Pairing /\ (Agrees /\ Books /\ Pairing)' => BothSides
      BY DEF BothSides, Both
    <2> QED
      BY <2>1, MappingAgrees, PTL
  <1>3. BothSides /\ [Next]_vars => LedgerStep
    <2>1. BothSides /\ UNCHANGED vars => LedgerStep
      <3> SUFFICES ASSUME BothSides, UNCHANGED vars, NEW id \in Ids PROVE Kept(id)
        BY LedgerStutters
      <3> QED
        BY KeptInPlace DEF vars
    <2> QED
      BY <2>1, QuietSteps, DispatchLedger, DrainLedger, EnqueueLedger, RemoveLedger,
         ResumeLedger, ThreadLedger DEF Next, UiStep, UserStep
  <1>4. Spec => [][Ledger!Next]_(Ledger!ledgerVars)
    BY <1>1, <1>2, <1>3, PTL DEF Spec, LedgerStep
  <1> QED
    BY <1>4, InitLedger, PTL DEF Spec

============================================================================
