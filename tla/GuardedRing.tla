---------------------------- MODULE GuardedRing ----------------------------
(***************************************************************************)
(* src/base/base_ring.c: the only way threads of this program talk to each *)
(* other.  A byte ring with free-running 64-bit positions, one mutex and   *)
(* one condition variable for both directions, and a deadline per call.    *)
(*                                                                         *)
(* All messages of a ring are one struct of MsgSize bytes, which need not  *)
(* divide the ring's size, so a message may wrap around its end.  A byte   *)
(* is modelled by the message and the offset it comes from.  The mutex and *)
(* the condition variable are os_core_win32.c's CRITICAL_SECTION and       *)
(* CONDITION_VARIABLE, which may also wake a sleeper for no reason.        *)
(***************************************************************************)
EXTENDS Integers, Sequences

CONSTANTS Writers, Readers,
          Messages,
          RingSize,  \* bytes
          MsgSize,   \* bytes
          PosMod,    \* positions wrap at PosMod, 2^64 in the code
          WriterPatience, ReaderPatience,  \* the deadlines callers pass
          None

Threads == Writers \cup Readers
\* "poll": already past; "deadline": some time ahead; "forever": max_U64.
Patiences == {"poll", "deadline", "forever"}

ASSUME SizesAssumption == /\ RingSize \in Nat \ {0}
                          /\ MsgSize \in 1 .. RingSize
                          /\ PosMod \in Nat \ {0}
                          /\ RingSize < PosMod /\ PosMod % RingSize = 0
ASSUME ThreadsAssumption == Writers \cap Readers = {}
ASSUME PatienceAssumption == /\ WriterPatience \subseteq Patiences
                             /\ ReaderPatience \subseteq Patiences
ASSUME NoneAssumption == None \notin Messages \cup Threads

VARIABLES base,              \* the bytes
          writePos, readPos,
          owner,             \* the thread in the mutex, or None
          sleeping,          \* the threads on the condition variable
          pc, patience,
          msg                \* a writer's message, or what a reader has copied

vars == <<base, writePos, readPos, owner, sleeping, pc, patience, msg>>

Cells == 0 .. RingSize - 1
Pcs == {"idle", "lock", "try", "publish", "asleep", "late", "unlock"}

TypeOK == /\ base \in [Cells -> (Messages \X (0 .. MsgSize - 1)) \cup {None}]
          /\ writePos \in 0 .. PosMod - 1 /\ readPos \in 0 .. PosMod - 1
          /\ owner \in Threads \cup {None}
          /\ sleeping \subseteq Threads
          /\ pc \in [Threads -> Pcs]
          /\ patience \in [Threads -> Patiences]
          /\ msg \in [Threads -> Messages \cup {None}]

\* bytes_unconsumed and bytes_available, in unsigned arithmetic.
Used == (writePos - readPos) % PosMod
Free == (RingSize - Used) % PosMod

\* Seeded fault: the room is measured up to the byte, one byte short.
PossibleOffByOne(t) == IF t \in Writers THEN Free >= MsgSize - 1 ELSE Used >= MsgSize

\* ring_try_write and ring_try_read succeed when this holds.
Possible(t) == IF t \in Writers THEN Free >= MsgSize ELSE Used >= MsgSize

\* ring__wrapped_write: two copies, the second one empty unless the message
\* reaches past the ring's end.
WrappedWrite(pos, m) ==
  LET at == pos % RingSize
      first == IF MsgSize < RingSize - at THEN MsgSize ELSE RingSize - at
  IN  [c \in Cells |-> IF c \in at .. at + first - 1 THEN <<m, c - at>>
                       ELSE IF c < MsgSize - first THEN <<m, first + c>>
                       ELSE base[c]]

\* ring__wrapped_read, and the struct the bytes make, if they make one.
WrappedRead(pos) ==
  LET at == pos % RingSize
      first == IF MsgSize < RingSize - at THEN MsgSize ELSE RingSize - at
  IN  [j \in 0 .. MsgSize - 1 |-> IF j < first THEN base[at + j] ELSE base[j - first]]

AsMessage(bytes) ==
  IF \E m \in Messages : \A j \in 0 .. MsgSize - 1 : bytes[j] = <<m, j>>
  THEN CHOOSE m \in Messages : \A j \in 0 .. MsgSize - 1 : bytes[j] = <<m, j>>
  ELSE None

----------------------------------------------------------------------------
Init == /\ base = [c \in Cells |-> None]
        /\ writePos = 0 /\ readPos = 0
        /\ owner = None /\ sleeping = {}
        /\ pc = [t \in Threads |-> "idle"]
        /\ patience = [t \in Threads |-> "poll"]
        /\ msg = [t \in Threads |-> None]

Goto(t, l) == pc' = [pc EXCEPT ![t] = l]

CallWrite(w, m, p) ==
  /\ pc[w] = "idle"
  /\ Goto(w, "lock")
  /\ patience' = [patience EXCEPT ![w] = p]
  /\ msg' = [msg EXCEPT ![w] = m]
  /\ UNCHANGED <<base, writePos, readPos, owner, sleeping>>

\* The caller's struct starts out zeroed.
CallRead(r, p) ==
  /\ pc[r] = "idle"
  /\ Goto(r, "lock")
  /\ patience' = [patience EXCEPT ![r] = p]
  /\ msg' = [msg EXCEPT ![r] = None]
  /\ UNCHANGED <<base, writePos, readPos, owner, sleeping>>

\* Taking the mutex, at the start or again after a sleep.  A sleeper whose
\* time is up has only the mutex to drop.
Lock(t) ==
  /\ pc[t] \in {"lock", "late"} /\ owner = None
  /\ owner' = t
  /\ Goto(t, IF pc[t] = "lock" THEN "try" ELSE "unlock")
  /\ UNCHANGED <<base, writePos, readPos, sleeping, patience, msg>>

Copy(t) ==
  /\ pc[t] = "try" /\ Possible(t)
  /\ IF t \in Writers
     THEN base' = WrappedWrite(writePos, msg[t]) /\ UNCHANGED msg
     ELSE msg' = [msg EXCEPT ![t] = AsMessage(WrappedRead(readPos))] /\ UNCHANGED base
  /\ Goto(t, "publish")
  /\ UNCHANGED <<writePos, readPos, owner, sleeping, patience>>

\* Seeded fault: a read frees room and wakes nobody.
PublishReadSilent(t) ==
  /\ pc[t] = "publish"
  /\ IF t \in Writers
     THEN writePos' = (writePos + MsgSize) % PosMod /\ sleeping' = {} /\ UNCHANGED readPos
     ELSE readPos' = (readPos + MsgSize) % PosMod /\ UNCHANGED <<writePos, sleeping>>
  /\ pc' = [u \in Threads |-> IF u = t THEN "unlock"
                              ELSE IF u \in sleeping \ sleeping' THEN "lock" ELSE pc[u]]
  /\ msg' = IF t \in Writers THEN [msg EXCEPT ![t] = None] ELSE msg
  /\ UNCHANGED <<base, owner, patience>>

\* The position moves on and every sleeper is woken, of either direction.
Publish(t) ==
  /\ pc[t] = "publish"
  /\ IF t \in Writers
     THEN writePos' = (writePos + MsgSize) % PosMod /\ UNCHANGED readPos
     ELSE readPos' = (readPos + MsgSize) % PosMod /\ UNCHANGED writePos
  /\ sleeping' = {}
  /\ pc' = [u \in Threads |-> IF u = t THEN "unlock"
                              ELSE IF u \in sleeping THEN "lock" ELSE pc[u]]
  /\ msg' = IF t \in Writers THEN [msg EXCEPT ![t] = None] ELSE msg
  /\ UNCHANGED <<base, owner, patience>>

\* The deadline has passed before the first sleep or since the last one.
GiveUp(t) ==
  /\ pc[t] = "try" /\ ~Possible(t) /\ patience[t] # "forever"
  /\ Goto(t, "unlock")
  /\ UNCHANGED <<base, writePos, readPos, owner, sleeping, patience, msg>>

\* cond_var_wait drops the mutex and falls asleep in one step.
Sleep(t) ==
  /\ pc[t] = "try" /\ ~Possible(t) /\ patience[t] # "poll"
  /\ sleeping' = sleeping \cup {t}
  /\ owner' = None
  /\ Goto(t, "asleep")
  /\ UNCHANGED <<base, writePos, readPos, patience, msg>>

\* A timeout or a wake-up out of nothing.
Wake(t) ==
  /\ pc[t] = "asleep" /\ t \in sleeping
  /\ sleeping' = sleeping \ {t}
  /\ \/ Goto(t, "lock")
     \/ patience[t] = "deadline" /\ Goto(t, "late")
  /\ UNCHANGED <<base, writePos, readPos, owner, patience, msg>>

\* A write that failed is forgotten by the ring.
Unlock(t) ==
  /\ pc[t] = "unlock"
  /\ owner' = None
  /\ Goto(t, "idle")
  /\ msg' = IF t \in Writers THEN [msg EXCEPT ![t] = None] ELSE msg
  /\ UNCHANGED <<base, writePos, readPos, sleeping, patience>>

Inside(t) == Copy(t) \/ Publish(t) \/ GiveUp(t) \/ Sleep(t) \/ Unlock(t)

Next == \/ \E w \in Writers, m \in Messages, p \in WriterPatience : CallWrite(w, m, p)
        \/ \E r \in Readers, p \in ReaderPatience : CallRead(r, p)
        \/ \E t \in Threads : Lock(t) \/ Inside(t) \/ Wake(t)

\* Readers come back for more (the frame loop polls every ring; the control
\* thread loops on its requests), and the mutex starves nobody for ever.
Fairness == /\ \A t \in Threads : WF_vars(Inside(t)) /\ SF_vars(Lock(t))
            /\ \A r \in Readers : WF_vars(\E p \in ReaderPatience : CallRead(r, p))

Spec == Init /\ [][Next]_vars /\ Fairness

----------------------------------------------------------------------------
\* The mutex is held by exactly the thread between taking and dropping it.
OneInside ==
  \A t \in Threads : pc[t] \in {"try", "publish", "unlock"} <=> owner = t

\* No wake-up is lost: who sleeps could not go on if it were awake.
NoLostWakeUp ==
  /\ \A t \in Threads : pc[t] = "asleep" <=> t \in sleeping
  /\ \A t \in sleeping : ~Possible(t)

\* A writer with no deadline is not left asleep while readers keep reading.
WritersGetThrough == \A w \in Writers : pc[w] = "asleep" ~> pc[w] = "idle"

----------------------------------------------------------------------------
(* The ring is a bounded queue of whole messages.                          *)

Queued == [k \in 1 .. Used \div MsgSize |->
             AsMessage(WrappedRead((readPos + (k - 1) * MsgSize) % PosMod))]

Channel == INSTANCE MessageChannel WITH
  Capacity <- RingSize \div MsgSize,
  queue <- Queued,
  offered <- [w \in Writers |-> msg[w]],
  taken <- [r \in Readers |-> IF pc[r] = "publish" THEN None ELSE msg[r]]

ChannelSpec == Channel!Spec

============================================================================
