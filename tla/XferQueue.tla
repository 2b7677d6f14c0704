----------------------------- MODULE XferQueue -----------------------------
(***************************************************************************)
(* The transfer queue of src/xfer/xfer.c: a fixed array of operations that *)
(* only the UI thread changes, one OS thread per running operation, and a  *)
(* bounded progress ring inside every operation.  The UI thread visits the *)
(* queue once per frame (main.c): xfer_dispatch, xfer_drain_progress, the  *)
(* refresh test, then the user's clicks.                                   *)
(*                                                                         *)
(* A transfer thread holds a raw pointer to its operation, that is, an     *)
(* index into ops[], for its whole life; the model keeps that index in     *)
(* th[id].slot and lets the thread touch whatever stands there.            *)
(*                                                                         *)
(* Abstracted: paths, credentials, byte counts, speeds and error texts     *)
(* (XferResume is about the bytes); the handle op->thread travels with its *)
(* operation, so th is indexed by operation id; thread_joined is true      *)
(* outside InProgress and is only read where control flow already says so. *)
(***************************************************************************)
EXTENDS Integers, Sequences, FiniteSets

CONSTANTS MaxOps,       \* XFER_MAX_OPS: the length of ops[]
          RingCap,      \* messages that fit a progress ring (14 in the code)
          HardCap,      \* XFER_SETTINGS_HARD_CAP
          Kinds,        \* the transfer kinds in use
          MaxIds,       \* bound: operations ever enqueued
          MaxChunks,    \* bound: chunks one attempt moves before end of file
          RemoveAhead   \* may the user remove an operation that stands ahead
                        \* of a running one?  The UI lets him.

ASSUME SizesAssumption == /\ MaxOps \in Nat \ {0}
                          /\ RingCap \in Nat \ {0}
                          /\ HardCap \in Nat \ {0}
                          /\ MaxIds \in Nat
                          /\ MaxChunks \in Nat
ASSUME KindsAssumption == Kinds \subseteq {"Download", "Upload"}
ASSUME RemoveAheadAssumption == RemoveAhead \in BOOLEAN

VARIABLES ops,      \* the array, the slots past count included
          count,    \* op_count
          nextId,   \* next_id
          dropped,  \* drop_count > 0: the user sees the warning
          limit,    \* XFER_Settings: concurrent transfers allowed per kind
          th,       \* the thread last launched for each operation id
          ui,       \* where the UI thread is in its frame
          prev      \* xfer_prev_status, a local of the frame

vars == <<ops, count, nextId, dropped, limit, th, ui, prev>>

Slots == 0 .. MaxOps - 1
Ids == 0 .. MaxIds - 1
Statuses == {"Queued", "InProgress", "Done", "Failed"}
Ended == {"Done", "Failed"}
\* A message remembers the operation whose thread sent it; the code's does not.
MsgKinds == {"Progress", "Done", "Failed"}
Msgs == [kind : MsgKinds, from : Ids]
Ops == [id : Nat, kind : {"Download", "Upload"}, status : Statuses,
        ring : Seq(Msgs), cancel : BOOLEAN]
ThreadPcs == {"none", "connect", "start", "loop", "report",
              "done", "fail", "close", "exited"}
ThreadRecs == [pc : ThreadPcs, slot : Slots, chunks : 0 .. MaxChunks]
UiPcs == {"dispatch", "drain", "join", "refresh", "input"}

\* A zeroed slot: status 0 is Queued, kind 0 is Download.
ZeroOp == [id |-> 0, kind |-> "Download", status |-> "Queued",
           ring |-> <<>>, cancel |-> FALSE]
NoThread == [pc |-> "none", slot |-> 0, chunks |-> 0]

Live == 0 .. count - 1
Running(k) == {i \in Live : ops[i].status = "InProgress" /\ ops[i].kind = k}
Waiting(k) == {i \in Live : ops[i].status = "Queued" /\ ops[i].kind = k}

----------------------------------------------------------------------------
Init == /\ ops = [i \in Slots |-> ZeroOp]
        /\ count = 0
        /\ nextId = 0
        /\ dropped = FALSE
        /\ limit \in [Kinds -> 1 .. HardCap]
        /\ th = [id \in Ids |-> NoThread]
        /\ ui = [pc |-> "dispatch", at |-> 0]
        /\ prev = [i \in Slots |-> "Queued"]

----------------------------------------------------------------------------
(* The UI thread's frame.                                                  *)

\* Seeded fault: the transfers that already run are not counted.
PromotedIgnoringRunning ==
  {i \in Live : /\ ops[i].status = "Queued"
                /\ Cardinality({j \in Waiting(ops[i].kind) : j < i}) < limit[ops[i].kind]}

\* Seeded fault: the limit is one too low.
PromotedBelowLimit ==
  {i \in Live : LET k == ops[i].kind
                IN  /\ ops[i].status = "Queued"
                    /\ Cardinality(Running(k)) + Cardinality({j \in Waiting(k) : j < i})
                         < limit[k] - 1}

\* xfer_dispatch walks the array once, so of every kind it starts the first
\* waiting operations, as many as the limit leaves room for.
Promoted == {i \in Live :
               /\ ops[i].status = "Queued"
               /\ LET k == ops[i].kind
                  IN  Cardinality(Running(k)) + Cardinality({j \in Waiting(k) : j < i})
                        < limit[k]}

Dispatch ==
  /\ ui.pc = "dispatch"
  /\ prev' = [i \in Slots |-> ops[i].status]
  /\ ops' = [i \in Slots |-> IF i \in Promoted
                             THEN [ops[i] EXCEPT !.status = "InProgress"]
                             ELSE ops[i]]
  /\ th' = [id \in Ids |->
              IF \E i \in Promoted : ops[i].id = id
              THEN [pc |-> "connect", chunks |-> 0,
                    slot |-> CHOOSE i \in Promoted : ops[i].id = id]
              ELSE th[id]]
  /\ ui' = [pc |-> "drain", at |-> 0]
  /\ UNCHANGED <<count, nextId, dropped, limit>>

\* Seeded fault: the Done case lacks its break and falls through to Failed.
DrainMsgFallsThrough ==
  /\ ui.pc = "drain" /\ ui.at < count
  /\ ops[ui.at].status = "InProgress" /\ ops[ui.at].ring # <<>>
  /\ LET op == ops[ui.at]
         ends == Head(op.ring).kind \in Ended
     IN  /\ ops' = [ops EXCEPT ![ui.at] =
                     [op EXCEPT !.ring = Tail(op.ring),
                                !.status = IF ends THEN "Failed" ELSE op.status]]
         /\ ui' = [ui EXCEPT !.pc = IF ends THEN "join" ELSE @]
  /\ UNCHANGED <<count, nextId, dropped, limit, th, prev>>

\* One message of the ring of the operation being drained.  A terminal one
\* settles the operation and sends the UI thread into thread_join.
DrainMsg ==
  /\ ui.pc = "drain" /\ ui.at < count
  /\ ops[ui.at].status = "InProgress"
  /\ ops[ui.at].ring # <<>>
  /\ LET op == ops[ui.at]
         msg == Head(op.ring)
     IN  /\ ops' = [ops EXCEPT ![ui.at] =
                     [op EXCEPT !.ring = Tail(op.ring),
                                !.status = IF msg.kind \in Ended THEN msg.kind
                                           ELSE op.status]]
         /\ ui' = [ui EXCEPT !.pc = IF msg.kind \in Ended THEN "join" ELSE @]
  /\ UNCHANGED <<count, nextId, dropped, limit, th, prev>>

\* Nothing to read here: the next operation, or the refresh test after the last.
DrainNext ==
  /\ ui.pc = "drain"
  /\ ui.at < count => \/ ops[ui.at].status # "InProgress"
                      \/ ops[ui.at].ring = <<>>
  /\ ui' = IF ui.at < count THEN [ui EXCEPT !.at = @ + 1]
                            ELSE [pc |-> "refresh", at |-> 0]
  /\ UNCHANGED <<ops, count, nextId, dropped, limit, th, prev>>

\* thread_join(op->thread, max_U64) returns once the thread has exited.
Join ==
  /\ ui.pc = "join"
  /\ th[ops[ui.at].id].pc = "exited"
  /\ th' = [th EXCEPT ![ops[ui.at].id] = NoThread]
  /\ ui' = [pc |-> "drain", at |-> ui.at + 1]
  /\ UNCHANGED <<ops, count, nextId, dropped, limit, prev>>

\* The operations whose pane is listed again: seen to start or to end.
Started == {i \in Live : prev[i] = "Queued" /\ ops[i].status = "InProgress"}
JustEnded == {i \in Live : prev[i] = "InProgress" /\ ops[i].status \in Ended}

\* prev goes out of scope with the frame.
Refresh ==
  /\ ui.pc = "refresh"
  /\ ui' = [ui EXCEPT !.pc = "input"]
  /\ prev' = [i \in Slots |-> "Queued"]
  /\ UNCHANGED <<ops, count, nextId, dropped, limit, th>>

EndFrame ==
  /\ ui.pc = "input"
  /\ ui' = [ui EXCEPT !.pc = "dispatch"]
  /\ UNCHANGED <<ops, count, nextId, dropped, limit, th, prev>>

----------------------------------------------------------------------------
(* The user's clicks, between two visits of the queue.                     *)

Push(k, id) == /\ ops' = [ops EXCEPT ![count] = [ZeroOp EXCEPT !.id = id, !.kind = k]]
                  /\ count' = count + 1
                  /\ nextId' = nextId + 1

\* Seeded fault: the array is found full one operation too late.
EnqueueOneTooMany(k) ==
  /\ ui.pc = "input" /\ count <= MaxOps /\ nextId < MaxIds
  /\ Push(k, nextId)
  /\ UNCHANGED <<dropped, limit, th, ui, prev>>

Enqueue(k) ==
  /\ ui.pc = "input"
  /\ IF count >= MaxOps
     THEN /\ dropped' = TRUE
          /\ UNCHANGED <<ops, count, nextId>>
     ELSE /\ nextId < MaxIds
          /\ Push(k, nextId)
          /\ UNCHANGED dropped
  /\ UNCHANGED <<limit, th, ui, prev>>

Shift(i) == /\ ops' = [j \in Slots |-> IF i <= j /\ j + 1 < count THEN ops[j + 1] ELSE ops[j]]
            /\ count' = count - 1

\* Seeded fault: an operation that has started meanwhile is removed as well.
RemoveWithoutTest(i) ==
  /\ ui.pc = "input" /\ i \in Live
  /\ RemoveAhead \/ \A j \in Live : j > i => ops[j].status # "InProgress"
  /\ Shift(i)
  /\ UNCHANGED <<nextId, dropped, limit, th, ui, prev>>

\* Removing a Queued operation copies every later one down by a slot.  The
\* last slot keeps its old contents, out of the array's count.
Remove(i) ==
  /\ ui.pc = "input"
  /\ i \in Live /\ ops[i].status = "Queued"
  /\ RemoveAhead \/ \A j \in Live : j > i => ops[j].status # "InProgress"
  /\ Shift(i)
  /\ UNCHANGED <<nextId, dropped, limit, th, ui, prev>>

\* The other half of xfer_cancel; on a Queued operation it is Remove.
Cancel(i) ==
  /\ ui.pc = "input"
  /\ i \in Live /\ ops[i].status = "InProgress"
  /\ ops' = [ops EXCEPT ![i].cancel = TRUE]
  /\ UNCHANGED <<count, nextId, dropped, limit, th, ui, prev>>

\* Seeded fault: the cancel that ended the last attempt is left set.
ResumeKeepsCancel(i) ==
  /\ ui.pc = "input"
  /\ i \in Live /\ ops[i].status = "Failed"
  /\ ops' = [ops EXCEPT ![i].status = "Queued"]
  /\ UNCHANGED <<count, nextId, dropped, limit, th, ui, prev>>

Resume(i) ==
  /\ ui.pc = "input"
  /\ i \in Live /\ ops[i].status = "Failed"
  /\ ops' = [ops EXCEPT ![i] = [@ EXCEPT !.status = "Queued", !.cancel = FALSE]]
  /\ UNCHANGED <<count, nextId, dropped, limit, th, ui, prev>>

SetLimit(k, n) ==
  /\ ui.pc = "input"
  /\ n # limit[k]
  /\ limit' = [limit EXCEPT ![k] = n]
  /\ UNCHANGED <<ops, count, nextId, dropped, th, ui, prev>>

----------------------------------------------------------------------------
(* A transfer thread, launched for operation id.                           *)

ThreadGoes(id, pc) == th' = [th EXCEPT ![id].pc = pc]

\* A blocking write into the ring of whatever the thread's pointer points at.
Send(id, kind) ==
  /\ Len(ops[th[id].slot].ring) < RingCap
  /\ ops' = [ops EXCEPT ![th[id].slot].ring = Append(@, [kind |-> kind, from |-> id])]

\* Connect, handshake, check the host key, log in, open both files: every one
\* of them can fail, and the first that does decides.
Connect(id) ==
  /\ th[id].pc = "connect"
  /\ \E pc \in {"start", "fail"} : ThreadGoes(id, pc)
  /\ UNCHANGED <<ops, count, nextId, dropped, limit, ui, prev>>

SendStart(id) ==
  /\ th[id].pc = "start"
  /\ Send(id, "Progress")
  /\ ThreadGoes(id, "loop")
  /\ UNCHANGED <<count, nextId, dropped, limit, ui, prev>>

StopOnCancel(id) ==
  /\ th[id].pc = "loop"
  /\ ops[th[id].slot].cancel
  /\ ThreadGoes(id, "fail")
  /\ UNCHANGED <<ops, count, nextId, dropped, limit, ui, prev>>

\* One chunk, reported when 64 KB or 250 ms have passed since the last report.
MoveChunk(id) ==
  /\ th[id].pc = "loop"
  /\ ~ops[th[id].slot].cancel
  /\ th[id].chunks < MaxChunks
  /\ \E pc \in {"loop", "report"} :
       th' = [th EXCEPT ![id].pc = pc, ![id].chunks = @ + 1]
  /\ UNCHANGED <<ops, count, nextId, dropped, limit, ui, prev>>

\* The chunk could not be read or written, or the file has ended.
LeaveLoop(id) ==
  /\ th[id].pc = "loop"
  /\ ~ops[th[id].slot].cancel
  /\ \E pc \in {"done", "fail"} : ThreadGoes(id, pc)
  /\ UNCHANGED <<ops, count, nextId, dropped, limit, ui, prev>>

\* Seeded fault: a report of the last byte is sent as the end of the transfer.
ReportAsDone(id) ==
  /\ th[id].pc = "report"
  /\ \E kind \in {"Progress", "Done"} : Send(id, kind)
  /\ ThreadGoes(id, "loop")
  /\ UNCHANGED <<count, nextId, dropped, limit, ui, prev>>

Report(id) ==
  /\ th[id].pc = "report"
  /\ Send(id, "Progress")
  /\ ThreadGoes(id, "loop")
  /\ UNCHANGED <<count, nextId, dropped, limit, ui, prev>>

\* Seeded fault: a transfer that ended well also sends the failure message.
SendTerminalTwice(id) ==
  /\ th[id].pc \in {"done", "fail"}
  /\ Send(id, IF th[id].pc = "done" THEN "Done" ELSE "Failed")
  /\ ThreadGoes(id, IF th[id].pc = "done" THEN "fail" ELSE "close")
  /\ UNCHANGED <<count, nextId, dropped, limit, ui, prev>>

\* Seeded fault: a transfer that fails just ends.
SendTerminalIfDone(id) ==
  /\ th[id].pc \in {"done", "fail"}
  /\ IF th[id].pc = "done" THEN Send(id, "Done") ELSE UNCHANGED ops
  /\ ThreadGoes(id, "close")
  /\ UNCHANGED <<count, nextId, dropped, limit, ui, prev>>

SendTerminal(id) ==
  /\ th[id].pc \in {"done", "fail"}
  /\ Send(id, IF th[id].pc = "done" THEN "Done" ELSE "Failed")
  /\ ThreadGoes(id, "close")
  /\ UNCHANGED <<count, nextId, dropped, limit, ui, prev>>

\* Seeded fault: the session has no timeout, and the server stopped answering.
CloseHangs(id) == th[id].pc = "close" /\ UNCHANGED vars

\* Closes the files and shuts the session down, after the terminal message.
Close(id) ==
  /\ th[id].pc = "close"
  /\ ThreadGoes(id, "exited")
  /\ UNCHANGED <<ops, count, nextId, dropped, limit, ui, prev>>

----------------------------------------------------------------------------
UiStep == Dispatch \/ DrainMsg \/ DrainNext \/ Join \/ Refresh \/ EndFrame

UserStep == \/ \E k \in Kinds : Enqueue(k)
            \/ \E i \in Slots : Remove(i) \/ Cancel(i) \/ Resume(i)
            \/ \E k \in Kinds, n \in 1 .. HardCap : SetLimit(k, n)

ThreadStep(id) == \/ Connect(id) \/ SendStart(id) \/ StopOnCancel(id)
                  \/ MoveChunk(id) \/ LeaveLoop(id) \/ Report(id)
                  \/ SendTerminal(id) \/ Close(id)

Next == UiStep \/ UserStep \/ \E id \in Ids : ThreadStep(id)

\* The frame loop always runs on; a user need never click; every blocking call
\* of a transfer thread has a timeout (SFTP_SESSION_TIMEOUT_MS), so it returns.
Fairness == WF_vars(UiStep) /\ \A id \in Ids : WF_vars(ThreadStep(id))

Spec == Init /\ [][Next]_vars /\ Fairness

----------------------------------------------------------------------------
(* What must hold.                                                         *)

TypeOK ==
  /\ ops \in [Slots -> Ops]
  /\ count \in 0 .. MaxOps
  /\ nextId \in 0 .. MaxIds
  /\ dropped \in BOOLEAN
  /\ limit \in [Kinds -> 1 .. HardCap]
  /\ th \in [Ids -> ThreadRecs]
  /\ ui \in [pc : UiPcs, at : 0 .. MaxOps]
  /\ prev \in [Slots -> Statuses]

Joining(i) == ui.pc = "join" /\ ui.at = i

\* No two operations of the array share an id, whatever was removed between
\* them: xfer_cancel_by_id finds the one the user meant.
UniqueIds == \A i, j \in Live : ops[i].id = ops[j].id => i = j

\* A thread's pointer still points at the operation it was launched for, which
\* is running or is the one the UI thread is joining.
ThreadOwnsSlot ==
  \A id \in Ids : th[id].pc # "none" =>
    LET s == th[id].slot
    IN  /\ s \in Live /\ ops[s].id = id
        /\ ops[s].status = "InProgress" \/ Joining(s)

\* A running operation has a thread to settle it.
RunningHasThread ==
  \A i \in Live : ops[i].status = "InProgress" \/ Joining(i) => th[ops[i].id].pc # "none"

\* A Queued operation is clean, also when it was resumed: no thread of an
\* earlier attempt still lives, and no cancel of that attempt is left over.
QueuedIsClean ==
  \A i \in Live : ops[i].status = "Queued" =>
    th[ops[i].id].pc = "none" /\ ~ops[i].cancel

\* An id names one operation, and an operation has one attempt at a time.
AttemptsAreApart == UniqueIds /\ QueuedIsClean

\* A ring holds messages of its own operation only, nothing after a terminal
\* one, and nothing at all once the operation is settled or waits again.
RingIsOwn ==
  \A i \in Live : LET ring == ops[i].ring
                  IN  /\ \A n \in 1 .. Len(ring) :
                           /\ ring[n].from = ops[i].id
                           /\ ring[n].kind \in Ended =>
                                n = Len(ring) /\ th[ops[i].id].pc \in {"close", "exited"}
                      /\ ops[i].status # "InProgress" => ring = <<>>

\* The UI thread waits only for a thread that has sent its last message, so
\* never for one that is itself waiting for the UI thread to empty a ring.
JoinIsShort ==
  ui.pc = "join" => th[ops[ui.at].id].pc \in {"close", "exited"}

\* xfer_dispatch starts no transfer beyond the limit in force, also when the
\* limit was lowered below what is already running.
StartsWithinLimit ==
  [][\A k \in Kinds : Cardinality(Running(k)') > Cardinality(Running(k))
                         => Cardinality(Running(k)') <= limit[k]]_vars

Standing(id, status) == \E i \in Live : ops[i].id = id /\ ops[i].status = status

\* A transfer the user cancelled stops running (xfer.h on xfer_cancel).
CancelSettles ==
  \A id \in Ids : (\E i \in Live : ops[i].id = id /\ ops[i].cancel)
                    ~> ~Standing(id, "InProgress")

\* Every running transfer is settled.
RunningSettles == \A id \in Ids : Standing(id, "InProgress") ~> ~Standing(id, "InProgress")

\* The UI thread always gets back to the user's input.
UiComesBack == []<>(ui.pc = "input")

\* Once the user stops resuming failed transfers, which may jump the queue
\* for ever, every waiting transfer gets its turn.
QueueDrains ==
  <>[][\A i \in Slots : ~Resume(i)]_vars
    => \A id \in Ids : Standing(id, "Queued") ~> ~Standing(id, "Queued")

\* A pane whose directory a transfer wrote to is listed again when it ends
\* (main.c: the snapshot detects "exactly the two transitions that matter").
EveryEndIsSeen ==
  ui.pc = "refresh" =>
    \A i \in Live : ops[i].status \in Ended /\ prev[i] \notin Ended => i \in JustEnded

----------------------------------------------------------------------------
(* The queue keeps the ledger's promise.                                   *)

StandingOf(id) ==
  IF id >= nextId THEN "Unborn"
  ELSE IF \E i \in Live : ops[i].id = id
       THEN ops[CHOOSE i \in Live : ops[i].id = id].status
       ELSE "Removed"

\* The verdict is out once the thread has left its loop; it travels in the
\* ring until the UI thread reads it.
VerdictOf(id) ==
  CASE StandingOf(id) \in Ended -> StandingOf(id)
    [] StandingOf(id) \notin Ended \cup {"InProgress"} -> "None"
    [] OTHER ->
        LET sent == {kind \in Ended : \E i \in Live : \E n \in 1 .. Len(ops[i].ring) :
                       ops[i].ring[n] = [kind |-> kind, from |-> id]}
        IN  IF th[id].pc = "done" \/ "Done" \in sent THEN "Done"
            ELSE IF th[id].pc = "fail" \/ "Failed" \in sent THEN "Failed"
            ELSE "None"

Ledger == INSTANCE XferLedger WITH standing <- [id \in Ids |-> StandingOf(id)],
                                   verdict <- [id \in Ids |-> VerdictOf(id)]
LedgerSpec == Ledger!Spec

============================================================================
