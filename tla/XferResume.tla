----------------------------- MODULE XferResume -----------------------------
(***************************************************************************)
(* The bytes of one transfer: what xfer_thread_entry (src/xfer/xfer.c)     *)
(* reads, writes and reports over as many attempts as the user makes of    *)
(* it.  A failed attempt is queued again by xfer_resume; the next one goes *)
(* on from what it finds at the destination.                               *)
(*                                                                         *)
(* The source is blocks 1, 2, ..., size; Old is a block the destination    *)
(* held before.  A download and an upload differ in which of their calls   *)
(* can fail; the source's file is the server's for one and local for the   *)
(* other.  XferQueue is about threads, rings and the array; here there is  *)
(* one operation, and its messages are read as soon as they are sent.      *)
(***************************************************************************)
EXTENDS Integers, Sequences

CONSTANTS Kinds,
          MaxSize,      \* bound: blocks of the source, and of an old destination
          ChunkSize,    \* XFER_CHUNK_SIZE, in blocks
          MaxAttempts,  \* bound: attempts
          None, Old,
          OldMayStay,   \* may the first attempt fail before it has opened a
                        \* destination that held a file?  The code lets it.
          ReadErrors    \* may reading a local file fail?  fs_file_read then
                        \* answers as at the end of the file.

ASSUME BoundsAssumption == /\ Kinds \subseteq {"Download", "Upload"}
                           /\ MaxSize \in Nat
                           /\ ChunkSize \in Nat \ {0}
                           /\ MaxAttempts \in Nat \ {0}
ASSUME ContentsAssumption == None \notin Seq(Nat \cup {Old})
ASSUME HazardsAssumption == OldMayStay \in BOOLEAN /\ ReadErrors \in BOOLEAN

VARIABLES kind, size,  \* the source has this many blocks
          dst,         \* the destination's blocks, or None
          status,
          resume,      \* resume_requested
          cancel,      \* cancel_requested
          reported,    \* bytes_done, as last reported
          pc, done,    \* the thread, and its total_done
          ours,        \* history: an attempt has opened the destination
          attempts

op == <<status, resume, cancel, reported>>
thread == <<pc, done>>
vars == <<kind, size, dst, op, thread, ours, attempts>>

Statuses == {"Queued", "InProgress", "Done", "Failed"}
Smaller(a, b) == IF a < b THEN a ELSE b
Larger(a, b) == IF a < b THEN b ELSE a

\* File f once n blocks of the source have been written to it from block at on.
Put(f, at, n) == [i \in 1 .. Larger(Len(f), at + n) |->
                    IF at < i /\ i <= at + n THEN i ELSE f[i]]

Init == /\ kind \in Kinds
        /\ size \in 0 .. MaxSize
        /\ dst \in {None} \cup {[i \in 1 .. n |-> Old] : n \in 0 .. MaxSize}
        /\ status = "Queued" /\ resume = FALSE /\ cancel = FALSE /\ reported = 0
        /\ pc = "none" /\ done = 0
        /\ ours = FALSE /\ attempts = 0

----------------------------------------------------------------------------
(* The UI thread.                                                          *)

Dispatch ==
  /\ status = "Queued" /\ attempts < MaxAttempts
  /\ status' = "InProgress"
  /\ pc' = "open" /\ done' = 0
  /\ attempts' = attempts + 1
  /\ UNCHANGED <<kind, size, dst, resume, cancel, reported, ours>>

Cancel ==
  /\ status = "InProgress" /\ ~cancel
  /\ cancel' = TRUE
  /\ UNCHANGED <<kind, size, dst, status, resume, reported, thread, ours, attempts>>

\* Seeded fault: the next attempt is not told that it resumes one.
ResumeFromScratch ==
  /\ status = "Failed"
  /\ status' = "Queued"
  /\ cancel' = FALSE
  /\ UNCHANGED <<kind, size, dst, resume, reported, thread, ours, attempts>>

Resume ==
  /\ status = "Failed"
  /\ status' = "Queued"
  /\ resume' = TRUE /\ cancel' = FALSE
  /\ UNCHANGED <<kind, size, dst, reported, thread, ours, attempts>>

----------------------------------------------------------------------------
(* The thread.                                                             *)

\* The terminal message.
End(as) == status' = as /\ pc' = "none"

\* The login, or opening either file, fails.  Nothing was written.
FailToOpen ==
  /\ pc = "open"
  /\ OldMayStay \/ ours \/ dst = None
  /\ End("Failed")
  /\ UNCHANGED <<kind, size, dst, resume, cancel, reported, done, ours, attempts>>

\* Seeded fault: a first attempt does not cut an old file short either.
OpenKeepsAll ==
  /\ pc = "open"
  /\ LET there == IF dst = None THEN <<>> ELSE dst
     IN  /\ dst' = there
         /\ \E known \in BOOLEAN :
              done' = IF resume /\ known THEN Smaller(Len(there), size) ELSE 0
         /\ reported' = done'
  /\ pc' = "loop"
  /\ ours' = TRUE
  /\ UNCHANGED <<kind, size, status, resume, cancel, attempts>>

\* Both files are open, and the first progress message is sent.  A resumed
\* attempt keeps what is there and goes on behind it, as far as the source
\* goes; if either size cannot be had, from the beginning.
Open ==
  /\ pc = "open"
  /\ LET there == IF resume /\ dst # None THEN dst ELSE <<>>
     IN  /\ dst' = there
         /\ \E known \in BOOLEAN :
              done' = IF known THEN Smaller(Len(there), size) ELSE 0
         /\ reported' = done'
  /\ pc' = "loop"
  /\ ours' = TRUE
  /\ UNCHANGED <<kind, size, status, resume, cancel, attempts>>

StopOnCancel ==
  /\ pc = "loop" /\ cancel
  /\ End("Failed")
  /\ UNCHANGED <<kind, size, dst, resume, cancel, reported, done, ours, attempts>>

\* How many blocks one chunk gets; none ends the loop as the end of the file.
Got == {Smaller(ChunkSize, size - done)}
       \cup IF kind = "Upload" /\ ReadErrors THEN {0} ELSE {}

\* Seeded fault: a write that took less than it was given is not repeated.
MoveChunkShort ==
  /\ pc = "loop" /\ ~cancel
  /\ \E n \in Got \ {0} :
       /\ dst' = Put(dst, done, n - 1)
       /\ done' = done + n
       /\ reported' \in {reported, done'}
  /\ UNCHANGED <<kind, size, status, resume, cancel, pc, ours, attempts>>

\* A whole chunk is read and written; it may be time for a report.
MoveChunk ==
  /\ pc = "loop" /\ ~cancel
  /\ \E n \in Got \ {0} :
       /\ dst' = Put(dst, done, n)
       /\ done' = done + n
       /\ reported' \in {reported, done'}
  /\ UNCHANGED <<kind, size, status, resume, cancel, pc, ours, attempts>>

\* Reading the server's file, or writing, fails; a part of the chunk may have
\* been written by then.
FailInChunk ==
  /\ pc = "loop" /\ ~cancel
  /\ \E n \in Got : \E k \in 0 .. n : dst' = Put(dst, done, k)
  /\ End("Failed")
  /\ UNCHANGED <<kind, size, resume, cancel, reported, done, ours, attempts>>

\* Nothing was read: the transfer is done.
Finish ==
  /\ pc = "loop" /\ ~cancel
  /\ 0 \in Got
  /\ End("Done")
  /\ reported' = done
  /\ UNCHANGED <<kind, size, dst, resume, cancel, done, ours, attempts>>

----------------------------------------------------------------------------
ThreadStep == FailToOpen \/ Open \/ StopOnCancel \/ MoveChunk \/ FailInChunk \/ Finish

Next == Dispatch \/ Cancel \/ Resume \/ ThreadStep

Spec == Init /\ [][Next]_vars

----------------------------------------------------------------------------
(* What must hold.                                                         *)

Source == [i \in 1 .. size |-> i]

TypeOK ==
  /\ kind \in Kinds /\ size \in 0 .. MaxSize
  /\ dst = None \/ dst \in Seq(1 .. MaxSize \cup {Old})
  /\ status \in Statuses
  /\ resume \in BOOLEAN /\ cancel \in BOOLEAN
  /\ reported \in 0 .. size
  /\ pc \in {"none", "open", "loop"} /\ done \in 0 .. size
  /\ ours \in BOOLEAN
  /\ attempts \in 0 .. MaxAttempts

\* A transfer that is done has copied its source, whatever stood at the
\* destination, and however often it failed and was resumed.
DoneMeansCopied == status = "Done" => dst = Source

\* "The real resume offset is determined by the transfer thread itself from
\* the destination's actual current size" (xfer.h): what a resumed attempt
\* finds and skips is the beginning of its source.
SkipsOnlyItsOwn ==
  pc = "loop" => /\ dst # None /\ done <= Len(dst)
                 /\ \A i \in 1 .. done : dst[i] = i

\* No report runs ahead of what has reached the destination.
ReportsAreReal == ours => reported <= Len(dst)

\* Once an attempt has opened the destination, none cuts it short again: what
\* was moved stays moved.
NothingMovedIsLost == [][ours => Len(dst') >= Len(dst)]_vars

=============================================================================
