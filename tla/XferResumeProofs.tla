-------------------------- MODULE XferResumeProofs --------------------------
(***************************************************************************)
(* Whatever its length, however often it fails and is resumed, a transfer  *)
(* that ends well has copied its source, if no old file can outlive the    *)
(* first attempt and local files can be read.  The induction goes through  *)
(* Faithful: what our attempts have left at the destination is always the  *)
(* beginning of the source, at least as far as the thread has counted.     *)
(* Without any condition, what was moved stays moved.                      *)
(***************************************************************************)
EXTENDS XferResume, TLAPS

\* f is the beginning of the source.
IsBeginning(f) == /\ f \in Seq(Nat) /\ Len(f) <= size
                  /\ \A i \in 1 .. Len(f) : f[i] = i

\* The destination is ours and right, or it is as we found it.
Faithful ==
  /\ ours => dst # None /\ IsBeginning(dst) /\ reported <= Len(dst)
  /\ ~ours => (resume \/ status = "Failed" => dst = None)
  /\ pc = "loop" => ours /\ done <= Len(dst)
  /\ status = "InProgress" <=> pc # "none"
  /\ status = "Done" => ours /\ Len(dst) = size

Inv == TypeOK /\ Faithful

\* A function on an initial stretch of the naturals is a sequence.
LEMMA FunctionIsSeq ==
  ASSUME NEW S, NEW m \in Nat, NEW g \in [1 .. m -> S]
  PROVE  g \in Seq(S) /\ Len(g) = m
OBVIOUS

\* Writing the source's next n blocks behind the first d, all of them copied
\* before, leaves a beginning of the source that is no shorter.
LEMMA PutKeepsBeginning ==
  ASSUME size \in Nat, NEW f, IsBeginning(f), NEW d \in Nat, d <= Len(f),
         NEW n \in Nat, d + n <= size
  PROVE  /\ IsBeginning(Put(f, d, n))
         /\ Len(Put(f, d, n)) >= Len(f)
         /\ d + n <= Len(Put(f, d, n))
         /\ Put(f, d, n) \in Seq(1 .. size)
<1> DEFINE m == Larger(Len(f), d + n)
           g == [i \in 1 .. m |-> IF d < i /\ i <= d + n THEN i ELSE f[i]]
<1>1. Len(f) \in Nat /\ f \in Seq(Nat)
  BY DEF IsBeginning
<1>2. m \in Nat /\ m <= size /\ m >= Len(f) /\ m >= d + n
  BY <1>1 DEF Larger, IsBeginning
<1>3. \A i \in 1 .. m : g[i] = i
  BY <1>1, <1>2 DEF Larger, IsBeginning
<1>4. g \in Seq(1 .. size) /\ g \in Seq(Nat) /\ Len(g) = m
  <2>1. \A i \in 1 .. m : (IF d < i /\ i <= d + n THEN i ELSE f[i]) \in 1 .. size
    BY <1>2, <1>3
  <2>2. g \in [1 .. m -> 1 .. size] /\ g \in [1 .. m -> Nat]
    BY <2>1, <1>2
  <2> HIDE DEF m, g
  <2> QED BY <2>2, <1>2, FunctionIsSeq
<1>5. Put(f, d, n) = g
  BY DEF Put
<1> HIDE DEF m, g
<1> QED BY <1>2, <1>3, <1>4, <1>5 DEF IsBeginning

LEMMA InitInv == Init => Inv
<1> SUFFICES ASSUME Init PROVE Inv
  OBVIOUS
<1>1. dst = None \/ dst \in Seq(1 .. MaxSize \cup {Old})
  <2>1. \A n \in 0 .. MaxSize : [i \in 1 .. n |-> Old] \in Seq(1 .. MaxSize \cup {Old})
    <3> TAKE n \in 0 .. MaxSize
    <3>1. [i \in 1 .. n |-> Old] \in [1 .. n -> 1 .. MaxSize \cup {Old}]
      OBVIOUS
    <3> QED BY <3>1, BoundsAssumption
  <2> QED BY <2>1 DEF Init
<1>2. /\ kind \in Kinds /\ size \in 0 .. MaxSize /\ status = "Queued"
      /\ resume = FALSE /\ cancel = FALSE /\ reported = 0 /\ pc = "none" /\ done = 0
      /\ ours = FALSE /\ attempts = 0
  BY DEF Init
<1>3. TypeOK
  <2>1. 0 \in 0 .. size /\ 0 \in 0 .. MaxAttempts
    BY <1>2, BoundsAssumption
  <2>2. status \in Statuses /\ pc \in {"none", "open", "loop"}
    BY <1>2 DEF Statuses
  <2> QED BY <1>1, <1>2, <2>1, <2>2 DEF TypeOK
<1>4. Faithful
  BY <1>2 DEF Faithful
<1> QED BY <1>3, <1>4 DEF Inv

\* The UI thread's steps leave the bytes alone.
LEMMA UiInv == Inv /\ (Dispatch \/ Cancel \/ Resume) => Inv'
<1> SUFFICES ASSUME Inv, Dispatch \/ Cancel \/ Resume PROVE Inv'
  OBVIOUS
<1> USE BoundsAssumption DEF Inv, TypeOK, Faithful, Statuses, IsBeginning
<1>1. CASE Dispatch BY <1>1 DEF Dispatch, op, thread
<1>2. CASE Cancel BY <1>2 DEF Cancel, op, thread
<1>3. CASE Resume BY <1>3 DEF Resume, op, thread
<1> QED BY <1>1, <1>2, <1>3

LEMMA OpeningInv == ~OldMayStay /\ Inv /\ (FailToOpen \/ Open) => Inv'
<1> SUFFICES ASSUME ~OldMayStay, Inv, FailToOpen \/ Open PROVE Inv'
  OBVIOUS
<1> USE BoundsAssumption DEF Inv, TypeOK, Statuses
<1>1. CASE FailToOpen
  BY <1>1 DEF FailToOpen, End, Faithful, IsBeginning
<1>2. CASE Open
  <2> DEFINE there == IF resume /\ dst # None THEN dst ELSE <<>>
  <2>1. there \in Seq(1 .. MaxSize \cup {Old}) /\ IsBeginning(there)
    BY DEF Faithful, IsBeginning
  <2>2. there # None
    <3>1. Seq(1 .. MaxSize \cup {Old}) \subseteq Seq(Nat \cup {Old})
      OBVIOUS
    <3> HIDE DEF there
    <3> QED BY <2>1, <3>1, ContentsAssumption
  <2>3. /\ dst' = there /\ ours' = TRUE /\ pc' = "loop" /\ reported' = done'
        /\ done' \in 0 .. size /\ done' <= Len(there)
    BY <1>2, <2>1 DEF Open, Smaller, IsBeginning
  <2>4. TypeOK'
    BY <1>2, <2>1, <2>3 DEF Open
  <2>5. Faithful'
    <3>1. status' = "InProgress"
      BY <1>2 DEF Open, Faithful
    <3>2. IsBeginning(dst)'
      BY <1>2, <2>1, <2>3 DEF Open, IsBeginning
    <3> QED BY <2>2, <2>3, <3>1, <3>2 DEF Faithful
  <2> QED BY <2>4, <2>5
<1> QED BY <1>1, <1>2

LEMMA LoopInv ==
  ~ReadErrors /\ Inv /\ (StopOnCancel \/ MoveChunk \/ FailInChunk \/ Finish) => Inv'
<1> SUFFICES ASSUME ~ReadErrors, Inv,
                    StopOnCancel \/ MoveChunk \/ FailInChunk \/ Finish
             PROVE  Inv'
  OBVIOUS
<1> USE BoundsAssumption DEF Inv, TypeOK, Statuses
<1>1. /\ pc = "loop" /\ ours /\ dst # None /\ IsBeginning(dst)
      /\ done <= Len(dst) /\ reported <= Len(dst) /\ status = "InProgress"
  BY DEF StopOnCancel, MoveChunk, FailInChunk, Finish, Faithful
<1>2. \A n \in Got : n \in Nat /\ done + n <= size /\ (n = 0 => done = size)
  BY DEF Got, Smaller
<1>3. ASSUME NEW n \in Nat, done + n <= size, dst' = Put(dst, done, n), size' = size
      PROVE  /\ dst' # None /\ dst' \in Seq(1 .. MaxSize \cup {Old})
             /\ IsBeginning(dst)' /\ Len(dst') >= Len(dst) /\ done + n <= Len(dst')
  <2>1. /\ IsBeginning(dst') /\ Len(dst') >= Len(dst) /\ done + n <= Len(dst')
        /\ dst' \in Seq(1 .. size)
    BY <1>1, <1>3, PutKeepsBeginning
  <2>2. Seq(1 .. size) \subseteq Seq(1 .. MaxSize \cup {Old})
    OBVIOUS
  <2>3. dst' # None
    <3>1. Seq(1 .. size) \subseteq Seq(Nat \cup {Old})
      OBVIOUS
    <3> QED BY <2>1, <3>1, ContentsAssumption
  <2> QED BY <1>3, <2>1, <2>2, <2>3 DEF IsBeginning
<1>4. CASE StopOnCancel
  BY <1>1, <1>4 DEF StopOnCancel, End, Faithful, IsBeginning
<1>5. CASE MoveChunk
  <2>1. PICK n \in Got : /\ dst' = Put(dst, done, n) /\ done' = done + n
                         /\ reported' \in {reported, done'}
    BY <1>5 DEF MoveChunk
  <2>2. n \in Nat /\ done + n <= size
    BY <1>2
  <2>3. size' = size /\ UNCHANGED <<kind, status, resume, cancel, pc, ours, attempts>>
    BY <1>5 DEF MoveChunk
  <2>4. /\ dst' # None /\ dst' \in Seq(1 .. MaxSize \cup {Old})
        /\ IsBeginning(dst)' /\ Len(dst') >= Len(dst) /\ done + n <= Len(dst')
    BY <1>3, <2>1, <2>2, <2>3
  <2>5. Len(dst) \in Nat /\ Len(dst') \in Nat
    BY <1>1, <2>4 DEF IsBeginning
  <2> QED BY <1>1, <2>1, <2>2, <2>3, <2>4, <2>5 DEF Faithful
<1>6. CASE FailInChunk
  <2>1. PICK n \in Got : \E k \in 0 .. n : dst' = Put(dst, done, k)
    BY <1>6 DEF FailInChunk
  <2>2. PICK k \in 0 .. n : dst' = Put(dst, done, k)
    BY <2>1
  <2>3. k \in Nat /\ done + k <= size
    BY <1>2
  <2>4. /\ size' = size /\ status' = "Failed" /\ pc' = "none"
        /\ UNCHANGED <<kind, resume, cancel, reported, done, ours, attempts>>
    BY <1>6 DEF FailInChunk, End
  <2>5. /\ dst' # None /\ dst' \in Seq(1 .. MaxSize \cup {Old})
        /\ IsBeginning(dst)' /\ Len(dst') >= Len(dst)
    BY <1>3, <2>2, <2>3, <2>4
  <2>6. Len(dst) \in Nat /\ Len(dst') \in Nat
    BY <1>1, <2>5 DEF IsBeginning
  <2> QED BY <1>1, <2>4, <2>5, <2>6 DEF Faithful
<1>7. CASE Finish
  <2>1. done = size
    BY <1>2, <1>7 DEF Finish
  <2>2. Len(dst) = size
    BY <1>1, <2>1 DEF IsBeginning
  <2> QED BY <1>1, <1>7, <2>1, <2>2 DEF Finish, End, Faithful, IsBeginning
<1> QED BY <1>4, <1>5, <1>6, <1>7

LEMMA NextInv ==
  ASSUME ~OldMayStay, ~ReadErrors
  PROVE  Inv /\ [Next]_vars => Inv'
<1> SUFFICES ASSUME Inv, [Next]_vars PROVE Inv'
  OBVIOUS
<1>1. CASE UNCHANGED vars
  BY <1>1 DEF vars, op, thread, Inv, TypeOK, Faithful, IsBeginning
<1> QED BY <1>1, UiInv, OpeningInv, LoopInv DEF Next, ThreadStep

LEMMA InvHolds ==
  ASSUME ~OldMayStay, ~ReadErrors
  PROVE  Spec => []Inv
  BY InitInv, NextInv, PTL DEF Spec

\* A transfer that is done has copied its source (xfer_thread_entry's loop
\* and its resume offsets), after any number of failures.
THEOREM DoneIsCopied ==
  ASSUME ~OldMayStay, ~ReadErrors
  PROVE  Spec => []DoneMeansCopied
<1>1. Inv => DoneMeansCopied
  <2> SUFFICES ASSUME Inv, status = "Done" PROVE dst = Source
    BY DEF DoneMeansCopied
  <2>1. IsBeginning(dst) /\ Len(dst) = size /\ size \in Nat
    BY BoundsAssumption DEF Inv, Faithful, TypeOK
  <2>2. dst = [i \in 1 .. size |-> dst[i]]
    BY <2>1 DEF IsBeginning
  <2>3. \A i \in 1 .. size : dst[i] = i
    BY <2>1 DEF IsBeginning
  <2> QED BY <2>2, <2>3 DEF Source
<1> QED BY <1>1, InvHolds, PTL

\* What a resumed attempt skips is the beginning of its own source.
THEOREM OwnBytesAreSkipped ==
  ASSUME ~OldMayStay, ~ReadErrors
  PROVE  Spec => []SkipsOnlyItsOwn
<1>1. Inv => SkipsOnlyItsOwn
  BY DEF Inv, Faithful, TypeOK, IsBeginning, SkipsOnlyItsOwn
<1> QED BY <1>1, InvHolds, PTL

----------------------------------------------------------------------------
(* What holds whatever fails: also where the first attempt never reached   *)
(* an old file, and where a read error looks like the end of the file.     *)

\* The thread counts no further than the destination goes, and an attempt that
\* is to open what an earlier one of ours has opened is told that it resumes it.
Grown ==
  /\ ours => dst # None /\ reported <= Len(dst)
  /\ pc = "loop" => ours /\ done <= Len(dst)
  /\ status = "InProgress" <=> pc # "none"
  /\ ours /\ (status = "Queued" \/ pc = "open") => resume

Shape == TypeOK /\ Grown

Blocks == 1 .. MaxSize \cup {Old}

\* Overwriting from inside a file, or from its end, does not shorten it.
LEMMA PutGrows ==
  ASSUME NEW f \in Seq(Blocks), NEW d \in Nat, d <= Len(f),
         NEW n \in Nat, d + n <= MaxSize
  PROVE  /\ Put(f, d, n) \in Seq(Blocks) /\ Put(f, d, n) # None
         /\ Len(Put(f, d, n)) >= Len(f) /\ Len(Put(f, d, n)) >= d + n
<1> DEFINE m == Larger(Len(f), d + n)
           g == [i \in 1 .. m |-> IF d < i /\ i <= d + n THEN i ELSE f[i]]
<1>1. m \in Nat /\ m >= Len(f) /\ m >= d + n
  BY DEF Larger
<1>2. \A i \in 1 .. m : (IF d < i /\ i <= d + n THEN i ELSE f[i]) \in Blocks
  <2> TAKE i \in 1 .. m
  <2>1. CASE d < i /\ i <= d + n
    BY <1>1, <2>1, BoundsAssumption DEF Blocks
  <2>2. CASE ~(d < i /\ i <= d + n)
    <3>1. i \in 1 .. Len(f)
      BY <1>1, <2>2 DEF Larger
    <3> QED BY <2>2, <3>1
  <2> QED BY <2>1, <2>2
<1>3. g \in [1 .. m -> Blocks]
  BY <1>2
<1>4. Put(f, d, n) = g
  BY DEF Put
<1> HIDE DEF m, g
<1>5. g \in Seq(Blocks) /\ Len(g) = m
  BY <1>1, <1>3, FunctionIsSeq
<1>6. Seq(Blocks) \subseteq Seq(Nat \cup {Old})
  BY DEF Blocks
<1> QED BY <1>1, <1>4, <1>5, <1>6, ContentsAssumption

LEMMA InitShape == Init => Shape
  BY InitInv DEF Inv, Init, Shape, Grown

LEMMA UiShape == Shape /\ (Dispatch \/ Cancel \/ Resume) => Shape'
<1> SUFFICES ASSUME Shape, Dispatch \/ Cancel \/ Resume PROVE Shape'
  OBVIOUS
<1> USE BoundsAssumption DEF Shape, TypeOK, Grown, Statuses
<1>1. CASE Dispatch BY <1>1 DEF Dispatch, op, thread
<1>2. CASE Cancel BY <1>2 DEF Cancel, op, thread
<1>3. CASE Resume BY <1>3 DEF Resume, op, thread
<1> QED BY <1>1, <1>2, <1>3

\* A step of the thread keeps the shape, and shortens no file of ours.
LEMMA ThreadShape == Shape /\ ThreadStep => Shape' /\ (ours => Len(dst') >= Len(dst))
<1> SUFFICES ASSUME Shape, ThreadStep
             PROVE  Shape' /\ (ours => Len(dst') >= Len(dst))
  OBVIOUS
<1> USE BoundsAssumption DEF Shape, TypeOK, Statuses
<1>1. dst # None => dst \in Seq(Blocks) /\ Len(dst) \in Nat
  BY DEF Blocks
<1>2. CASE FailToOpen
  BY <1>1, <1>2 DEF FailToOpen, End, Grown
<1>3. CASE Open
  <2> DEFINE there == IF resume /\ dst # None THEN dst ELSE <<>>
  <2>1. there \in Seq(Blocks) /\ (ours => there = dst)
    BY <1>1, <1>3 DEF Open, Grown
  <2>2. /\ dst' = there /\ ours' = TRUE /\ pc' = "loop" /\ reported' = done'
        /\ done' \in 0 .. size /\ done' <= Len(there)
    BY <1>3, <2>1 DEF Open, Smaller
  <2>3. status' = "InProgress" /\ UNCHANGED <<kind, size, resume, cancel, attempts>>
    BY <1>3 DEF Open, Grown
  <2>4. Seq(Blocks) \subseteq Seq(Nat \cup {Old})
    BY DEF Blocks
  <2> HIDE DEF there
  <2>5. dst' # None
    BY <2>1, <2>2, <2>4, ContentsAssumption
  <2> QED BY <1>1, <2>1, <2>2, <2>3, <2>5 DEF Grown, Blocks
<1>4. CASE StopOnCancel
  BY <1>1, <1>4 DEF StopOnCancel, End, Grown
<1>5. \A n \in Got : n \in Nat /\ done + n <= size
  BY DEF Got, Smaller
<1>6. ASSUME pc = "loop", NEW n \in Nat, done + n <= size, dst' = Put(dst, done, n)
      PROVE  /\ dst' \in Seq(Blocks) /\ dst' # None
             /\ Len(dst') >= Len(dst) /\ Len(dst') >= done + n
             /\ Len(dst) \in Nat /\ Len(dst') \in Nat
  <2>1. /\ dst \in Seq(Blocks) /\ done \in Nat /\ done <= Len(dst)
        /\ done + n <= MaxSize
    BY <1>1, <1>6 DEF Grown
  <2>2. /\ dst' \in Seq(Blocks) /\ dst' # None
        /\ Len(dst') >= Len(dst) /\ Len(dst') >= done + n
    BY <1>6, <2>1, PutGrows
  <2> QED BY <2>1, <2>2
<1>7. CASE MoveChunk
  <2>1. PICK n \in Got : /\ dst' = Put(dst, done, n) /\ done' = done + n
                         /\ reported' \in {reported, done'}
    BY <1>7 DEF MoveChunk
  <2>2. n \in Nat /\ done + n <= size
    BY <1>5
  <2>3. pc = "loop" /\ UNCHANGED <<kind, size, status, resume, cancel, pc, ours, attempts>>
    BY <1>7 DEF MoveChunk
  <2>4. /\ dst' \in Seq(Blocks) /\ dst' # None
        /\ Len(dst') >= Len(dst) /\ Len(dst') >= done + n
        /\ Len(dst) \in Nat /\ Len(dst') \in Nat
    BY <1>6, <2>1, <2>2, <2>3
  <2> QED BY <2>1, <2>2, <2>3, <2>4 DEF Grown, Blocks
<1>8. CASE FailInChunk
  <2>1. PICK n \in Got : \E k \in 0 .. n : dst' = Put(dst, done, k)
    BY <1>8 DEF FailInChunk
  <2>2. PICK k \in 0 .. n : dst' = Put(dst, done, k)
    BY <2>1
  <2>3. k \in Nat /\ done + k <= size
    BY <1>5
  <2>4. /\ pc = "loop" /\ status' = "Failed" /\ pc' = "none"
        /\ UNCHANGED <<kind, size, resume, cancel, reported, done, ours, attempts>>
    BY <1>8 DEF FailInChunk, End
  <2>5. /\ dst' \in Seq(Blocks) /\ dst' # None /\ Len(dst') >= Len(dst)
        /\ Len(dst) \in Nat /\ Len(dst') \in Nat
    BY <1>6, <2>2, <2>3, <2>4
  <2> QED BY <2>4, <2>5 DEF Grown, Blocks
<1>9. CASE Finish
  BY <1>1, <1>9 DEF Finish, End, Grown
<1> QED BY <1>2, <1>3, <1>4, <1>7, <1>8, <1>9 DEF ThreadStep

LEMMA ShapeHolds == Spec => []Shape
<1>1. Shape /\ UNCHANGED vars => Shape'
  BY DEF vars, op, thread, Shape, TypeOK, Grown
<1> QED BY <1>1, InitShape, UiShape, ThreadShape, PTL DEF Spec, Next

\* Types, for files of any length and chunks of any size.
THEOREM TypeCorrect == Spec => []TypeOK
<1>1. Shape => TypeOK
  BY DEF Shape
<1> QED BY <1>1, ShapeHolds, PTL

\* No report runs ahead of what has reached the destination: bytes_done is only
\* ever sent behind the write it counts.
THEOREM ReportsAreTrue == Spec => []ReportsAreReal
<1>1. Shape => ReportsAreReal
  BY DEF Shape, Grown, ReportsAreReal
<1> QED BY <1>1, ShapeHolds, PTL

\* Once an attempt has opened the destination, no later one cuts it short: every
\* attempt after the first is told that it resumes (xfer_resume), and writes only
\* behind what it has counted.
THEOREM WhatWasMovedStays == Spec => NothingMovedIsLost
<1>1. Shape /\ [Next]_vars => [ours => Len(dst') >= Len(dst)]_vars
  <2> SUFFICES ASSUME Shape, Next PROVE ours => Len(dst') >= Len(dst)
    BY DEF vars
  <2>1. CASE Dispatch \/ Cancel \/ Resume
    <3>1. dst' = dst /\ (ours => dst \in Seq(Blocks))
      BY <2>1 DEF Dispatch, Cancel, Resume, Shape, TypeOK, Grown, Blocks
    <3> QED BY <3>1
  <2>2. CASE ThreadStep
    BY <2>2, ThreadShape
  <2> QED BY <2>1, <2>2 DEF Next
<1> QED BY <1>1, ShapeHolds, PTL DEF Spec, NothingMovedIsLost

=============================================================================
