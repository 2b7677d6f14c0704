---------------------------- MODULE BaseProofs ----------------------------
(***************************************************************************)
(* Proofs about the parts everything else stands on: the ring between      *)
(* threads, the arena, the scratch arenas of a thread, the glyph atlas and *)
(* the text field; and, last, that the ring is the channel and the field   *)
(* the editor that they are used as.                                       *)
(***************************************************************************)
EXTENDS GuardedRing, Arena, Scratch, TextField, GlyphAtlas, SequenceTheorems, TLAPS

----------------------------------------------------------------------------
(* Sequences.                                                              *)

LEMMA AppendFacts ==
  ASSUME NEW S, NEW q \in Seq(S), NEW e \in S
  PROVE  /\ Append(q, e) \in Seq(S) /\ Append(q, e) # <<>>
         /\ DOMAIN q = 1 .. Len(q) /\ Len(q) \in Nat
         /\ DOMAIN Append(q, e) = 1 .. Len(q) + 1 /\ Len(Append(q, e)) = Len(q) + 1
         /\ \A i \in 1 .. Len(q) : Append(q, e)[i] = q[i]
         /\ Append(q, e)[Len(q) + 1] = e
  BY AppendProperties

----------------------------------------------------------------------------
(***************************************************************************)
(* The ring: the mutex and the condition variable, for any number of       *)
(* threads, any sizes and any deadlines.                                   *)
(***************************************************************************)

MutexTypes == /\ pc \in [Threads -> Pcs]
              /\ owner \in Threads \cup {None}
              /\ sleeping \subseteq Threads

\* The inductive invariant: waking all sleepers moves nobody who is inside.
Monitor == MutexTypes /\ OneInside /\ NoLostWakeUp

LEMMA InitMonitor == Init => Monitor
  BY NoneAssumption, ThreadsAssumption
  DEF Init, Monitor, MutexTypes, OneInside, NoLostWakeUp, Pcs, Threads

LEMMA NextMonitor == Monitor /\ [Next]_vars => Monitor'
  <1> SUFFICES ASSUME Monitor, [Next]_vars PROVE Monitor'
    OBVIOUS
  <1> USE NoneAssumption DEF Monitor, MutexTypes, OneInside, NoLostWakeUp, Pcs, Goto
  <1>0. Writers \subseteq Threads /\ Readers \subseteq Threads /\ None \notin Threads
    BY DEF Threads
  <1> DEFINE Same == writePos' = writePos /\ readPos' = readPos
  <1>1. Same => \A t \in Threads : Possible(t)' = Possible(t)
    BY DEF Possible, Used, Free
  <1> HIDE DEF Same
  <1>2. ASSUME NEW w \in Writers, NEW m \in Messages, NEW p \in WriterPatience,
               CallWrite(w, m, p)
        PROVE  Monitor'
    <2>1. Same
      BY <1>2 DEF CallWrite, Same
    <2> QED
      BY <1>0, <1>1, <1>2, <2>1 DEF CallWrite
  <1>3. ASSUME NEW r \in Readers, NEW p \in ReaderPatience, CallRead(r, p)
        PROVE  Monitor'
    <2>1. Same
      BY <1>3 DEF CallRead, Same
    <2> QED
      BY <1>0, <1>1, <1>3, <2>1 DEF CallRead
  <1>4. ASSUME NEW t \in Threads, Lock(t) PROVE Monitor'
    <2>1. Same
      BY <1>4 DEF Lock, Same
    <2> QED
      BY <1>0, <1>1, <1>4, <2>1 DEF Lock
  <1>5. ASSUME NEW t \in Threads, Copy(t) PROVE Monitor'
    <2>1. Same
      BY <1>5 DEF Copy, Same
    <2> QED
      BY <1>0, <1>1, <1>5, <2>1 DEF Copy
  <1>6. ASSUME NEW t \in Threads, Publish(t) PROVE Monitor'
    BY <1>0, <1>6 DEF Publish
  <1>7. ASSUME NEW t \in Threads, GiveUp(t) PROVE Monitor'
    <2>1. Same
      BY <1>7 DEF GiveUp, Same
    <2> QED
      BY <1>0, <1>1, <1>7, <2>1 DEF GiveUp
  <1>8. ASSUME NEW t \in Threads, Sleep(t) PROVE Monitor'
    <2>1. Same
      BY <1>8 DEF Sleep, Same
    <2> QED
      BY <1>0, <1>1, <1>8, <2>1 DEF Sleep
  <1>9. ASSUME NEW t \in Threads, Wake(t) PROVE Monitor'
    <2>1. Same
      BY <1>9 DEF Wake, Same
    <2> QED
      BY <1>0, <1>1, <1>9, <2>1 DEF Wake
  <1>10. ASSUME NEW t \in Threads, Unlock(t) PROVE Monitor'
    <2>1. Same
      BY <1>10 DEF Unlock, Same
    <2> QED
      BY <1>0, <1>1, <1>10, <2>1 DEF Unlock
  <1>11. CASE UNCHANGED vars
    <2>1. Same
      BY <1>11 DEF vars, Same
    <2> QED
      BY <1>1, <1>11, <2>1 DEF vars
  <1> QED
    BY <1>2, <1>3, <1>4, <1>5, <1>6, <1>7, <1>8, <1>9, <1>10, <1>11 DEF Next, Inside

LEMMA AlwaysMonitor == Spec => []Monitor
  BY InitMonitor, NextMonitor, PTL DEF Spec

\* At most one thread is between mutex_lock and mutex_unlock of a ring, and
\* the mutex is held exactly then, through every sleep and wake-up
\* (guarded_ring_write_or_wait, guarded_ring_read_or_wait).
THEOREM MutexHolds == Spec => []OneInside
  <1>1. Monitor => OneInside
    BY DEF Monitor
  <1> QED
    BY AlwaysMonitor, <1>1, PTL

\* One condition variable for both directions loses no wake-up: a thread that
\* sleeps in cond_var_wait could not go on, whatever the sizes and deadlines.
THEOREM NoWakeUpIsLost == Spec => []NoLostWakeUp
  <1>1. Monitor => NoLostWakeUp
    BY DEF Monitor
  <1> QED
    BY AlwaysMonitor, <1>1, PTL

----------------------------------------------------------------------------
(***************************************************************************)
(* The arena.  Allocations stay apart and scopes can end, for any sizes of *)
(* blocks and requests.  The inductive invariant keeps everything in the   *)
(* order of absolute positions: blocks by base, allocations and scopes by  *)
(* the order in which they began.                                          *)
(***************************************************************************)

ChainInv ==
  /\ chain \in Seq(Block) /\ chain # <<>>
  /\ chain[1].base = 0
  /\ \A i \in DOMAIN chain : /\ Header <= chain[i].pos /\ chain[i].pos <= chain[i].cmt
                             /\ chain[i].cmt <= chain[i].res
  /\ \A i, j \in DOMAIN chain :
       i < j => /\ chain[i].base + chain[i].res <= chain[j].base
                /\ chain[i].at # chain[j].at

LiveInv ==
  /\ live \in Seq(Allocation)
  /\ \A n \in DOMAIN live : \E i \in DOMAIN chain : LiesIn(live[n], chain[i])
  /\ \A m, n \in DOMAIN live : m < n => live[m].hi <= live[n].lo

\* Position p is one that block i has had.
Within(p, i) == chain[i].base + Header <= p /\ p <= chain[i].base + chain[i].pos

TempsInv ==
  /\ temps \in Seq(Scope)
  /\ \A k \in DOMAIN temps :
       /\ \E i \in DOMAIN chain : Within(temps[k].pos, i)
       /\ temps[k].count <= Len(live)
       /\ \A n \in 1 .. temps[k].count : live[n].hi <= temps[k].pos
  /\ \A k, l \in DOMAIN temps :
       k < l => temps[k].pos <= temps[l].pos /\ temps[k].count <= temps[l].count

ArenaInv == ChainInv /\ LiveInv /\ TempsInv

----------------------------------------------------------------------------
LEMMA AlignUpFacts ==
  ASSUME NEW x \in Nat, NEW a \in Nat \ {0}
  PROVE  AlignUp(x, a) \in Nat /\ x <= AlignUp(x, a)
  BY DEF AlignUp

\* A fresh block: its header fits what is committed.
LEMMA NewBlockFacts ==
  ASSUME NEW at \in Addresses, NEW start \in Nat
  PROVE  LET b == NewBlock(at, start, ResSize, CmtSize)
         IN  /\ b \in Block /\ b.at = at /\ b.base = start /\ b.pos = Header
             /\ b.cmt = CmtSize /\ b.res = ResSize
  BY ArenaAssumption DEF NewBlock, AlignUp, Block

LEMMA ChainedBlockFacts ==
  ASSUME ChainInv, NEW at \in Addresses, NEW size \in Sizes, NEW align \in Aligns
  PROVE  LET b == ChainedBlock(at, size, align)
         IN  /\ b \in Block /\ b.at = at /\ b.base = Top.base + Top.res /\ b.pos = Header
             /\ Header <= b.cmt /\ b.cmt <= b.res /\ Header + size <= b.res
  <1> DEFINE need == AlignUp(size + Header, align)
             start == Top.base + Top.res
  <1>1. Top \in Block
    BY DEF ChainInv, Top
  <1>2. start \in Nat /\ size \in Nat /\ align \in Nat \ {0} /\ Header \in Nat
    BY <1>1, ArenaAssumption DEF Block
  <1>3. CASE ~Oversized(size)
    <2>1. ChainedBlock(at, size, align) = NewBlock(at, start, ResSize, CmtSize)
      BY <1>3 DEF ChainedBlock
    <2> QED
      BY <1>2, <1>3, <2>1, NewBlockFacts, ArenaAssumption DEF Oversized
  <1>4. CASE Oversized(size)
    <2>0. size + Header \in Nat
      BY <1>2
    <2>1. need \in Nat /\ size + Header <= need
      BY ONLY <1>2, <2>0, AlignUpFacts
    <2>2. need # 0
      BY <1>2, <2>1, ArenaAssumption
    <2>3. AlignUp(need, Page) \in Nat /\ need <= AlignUp(need, Page)
      BY <2>1, AlignUpFacts, ArenaAssumption
    <2>4. ChainedBlock(at, size, align) = NewBlock(at, start, need, need)
      BY <1>4 DEF ChainedBlock
    <2> HIDE DEF need
    <2> QED
      BY <1>2, <2>1, <2>2, <2>3, <2>4 DEF NewBlock, Block
  <1> QED
    BY <1>3, <1>4

\* What Taken makes of a block that has room.
LEMMA TakenFacts ==
  ASSUME NEW b \in Block, NEW post \in Nat,
         b.pos <= post, post <= b.res, b.pos <= b.cmt, b.cmt <= b.res
  PROVE  LET t == Taken(b, post)
         IN  /\ t \in Block /\ t.at = b.at /\ t.base = b.base /\ t.res = b.res /\ t.pos = post
             /\ post <= t.cmt /\ t.cmt <= b.res /\ b.cmt <= t.cmt
  <1>1. AlignUp(post, b.step) \in Nat /\ post <= AlignUp(post, b.step)
    BY AlignUpFacts DEF Block
  <1>2. LET c == Committed(b, post)
        IN  /\ c \in Block /\ c.at = b.at /\ c.base = b.base /\ c.res = b.res
            /\ post <= c.cmt /\ c.cmt <= b.res /\ b.cmt <= c.cmt
    BY <1>1 DEF Committed, Smaller, Block
  <1> QED
    BY <1>2 DEF Taken, Block

LEMMA ChainFacts ==
  ASSUME ChainInv, NEW i \in DOMAIN chain
  PROVE  /\ i \in Nat /\ 1 <= i /\ i <= Len(chain) /\ Len(chain) \in Nat
         /\ chain[i] \in Block
         /\ chain[i].base \in Nat /\ chain[i].pos \in Nat
         /\ chain[i].cmt \in Nat /\ chain[i].res \in Nat
         /\ Header <= chain[i].pos /\ chain[i].pos <= chain[i].cmt
         /\ chain[i].cmt <= chain[i].res
  <1>1. chain[i] \in Block /\ i \in Nat /\ 1 <= i /\ i <= Len(chain) /\ Len(chain) \in Nat
    BY DEF ChainInv
  <1>2. /\ chain[i].base \in Nat /\ chain[i].pos \in Nat
        /\ chain[i].cmt \in Nat /\ chain[i].res \in Nat
    BY <1>1 DEF Block
  <1>3. /\ Header <= chain[i].pos /\ chain[i].pos <= chain[i].cmt
        /\ chain[i].cmt <= chain[i].res
    BY DEF ChainInv
  <1> QED
    BY <1>1, <1>2, <1>3

LEMMA ChainOrder ==
  ASSUME ChainInv, NEW i \in DOMAIN chain, NEW j \in DOMAIN chain, i < j
  PROVE  /\ chain[i].base + chain[i].res <= chain[j].base
         /\ chain[i].at # chain[j].at
  BY DEF ChainInv

----------------------------------------------------------------------------
\* A position that block i has had is found in block i again.
LEMMA FoundAgain ==
  ASSUME ChainInv, NEW i \in DOMAIN chain, NEW p \in Nat, Within(p, i)
  PROVE  LastKept(p) = i /\ PosLeft(p) = p - chain[i].base
  <1>1. Header \in Nat \ {0}
    BY ArenaAssumption
  <1>2. /\ i \in Nat /\ 1 <= i /\ chain[i].base \in Nat /\ chain[i].pos \in Nat
        /\ chain[i].res \in Nat /\ chain[i].pos <= chain[i].res
    BY ChainFacts
  <1>3. chain[i].base + Header <= p /\ p <= chain[i].base + chain[i].pos
    BY DEF Within
  <1>4. Larger(Header, p) = p /\ chain[i].base < p
    BY <1>1, <1>2, <1>3 DEF Larger
  <1>5. Kept(i, p)
    BY <1>4 DEF Kept
  <1>6. ASSUME NEW j \in DOMAIN chain, j > i PROVE ~Kept(j, p)
    <2>1. j \in Nat /\ chain[j].base \in Nat
      BY ChainFacts
    <2>2. chain[i].base + chain[i].res <= chain[j].base
      BY <1>2, <1>6, <2>1, ChainOrder
    <2> QED
      BY <1>2, <1>3, <1>4, <1>6, <2>1, <2>2 DEF Kept
  <1>7. ASSUME NEW k \in DOMAIN chain, Kept(k, p), \A j \in DOMAIN chain : j > k => ~Kept(j, p)
        PROVE  k = i
    <2>1. k \in Nat
      BY ChainFacts
    <2> QED
      BY <1>2, <1>5, <1>6, <1>7, <2>1
  <1>8. LastKept(p) = i
    BY <1>5, <1>6, <1>7 DEF LastKept
  <1> QED
    BY <1>4, <1>8 DEF PosLeft

LEMMA PosSet ==
  ASSUME NEW b \in Block, NEW x \in Nat
  PROVE  LET c == [b EXCEPT !.pos = x]
         IN  /\ c \in Block /\ c.pos = x
             /\ c.at = b.at /\ c.base = b.base /\ c.cmt = b.cmt /\ c.res = b.res
  BY DEF Block

\* Going back to a position leaves the blocks below it as they are.
\* What arena_pop_to leaves of the chain if p is a position of block i.
Popped(i, p) == [SubSeq(chain, 1, i) EXCEPT ![i].pos = p - chain[i].base]

LEMMA PopFacts ==
  ASSUME ChainInv, NEW i \in DOMAIN chain, NEW p \in Nat,
         chain[i].base + Header <= p, p <= chain[i].base + chain[i].pos,
         chain' = Popped(i, p)
  PROVE  /\ ChainInv'
         /\ DOMAIN chain' = 1 .. i
         /\ \A j \in 1 .. i : /\ chain'[j].at = chain[j].at /\ chain'[j].base = chain[j].base
                              /\ j < i => chain'[j] = chain[j]
         /\ chain'[i].pos = p - chain[i].base
         /\ chain'[i].cmt = chain[i].cmt
  <1> DEFINE s == SubSeq(chain, 1, i)
             b == [chain[i] EXCEPT !.pos = p - chain[i].base]
  <1>1. /\ \A j \in DOMAIN chain : chain[j] \in Block
        /\ i \in 1 .. Len(chain) /\ Len(chain) \in Nat
        /\ Header \in Nat \ {0}
    BY ArenaAssumption DEF ChainInv
  <1>2. /\ s \in Seq(Block) /\ Len(s) = i
        /\ \A j \in 1 .. i : s[j] = chain[j]
    BY <1>1 DEF ChainInv
  <1>0. p - chain[i].base \in Nat
    BY <1>1 DEF Block
  <1>3. /\ b \in Block /\ b.pos = p - chain[i].base
        /\ b.at = chain[i].at /\ b.base = chain[i].base /\ b.cmt = chain[i].cmt /\ b.res = chain[i].res
    BY <1>0, <1>1, PosSet
  <1>4. chain' = [s EXCEPT ![i] = b]
    <2>1. s[i] = chain[i]
      BY <1>1, <1>2
    <2>2. chain' = [s EXCEPT ![i] = [s[i] EXCEPT !.pos = p - chain[i].base]]
      BY DEF Popped
    <2> QED
      BY <2>1, <2>2
  <1> HIDE DEF s, b
  <1>5. /\ chain' \in Seq(Block) /\ Len(chain') = i
        /\ \A j \in 1 .. i : chain'[j] = IF j = i THEN b ELSE chain[j]
    <2>1. i \in 1 .. Len(s) /\ Len(s) = i
      BY <1>1, <1>2
    <2>2. /\ [s EXCEPT ![i] = b] \in Seq(Block)
          /\ Len([s EXCEPT ![i] = b]) = Len(s)
          /\ \A j \in 1 .. Len(s) : [s EXCEPT ![i] = b][j] = IF j = i THEN b ELSE s[j]
      BY ONLY <1>2, <1>3, <2>1, ExceptSeq
    <2> QED
      BY <1>2, <1>4, <2>1, <2>2
  <1>6. DOMAIN chain' = 1 .. i
    BY <1>1, <1>5
  <1>7. ASSUME NEW j \in 1 .. i
        PROVE  /\ chain'[j].at = chain[j].at /\ chain'[j].base = chain[j].base
               /\ chain'[j].cmt = chain[j].cmt /\ chain'[j].res = chain[j].res
               /\ Header <= chain'[j].pos /\ chain'[j].pos <= chain'[j].cmt
    <2>1. j \in DOMAIN chain
      BY <1>1 DEF ChainInv
    <2>2. /\ Header <= chain[j].pos /\ chain[j].pos <= chain[j].cmt
      BY <2>1, ChainFacts
    <2>3. chain[i].base \in Nat /\ chain[i].pos \in Nat /\ chain[i].cmt \in Nat /\ chain[i].pos <= chain[i].cmt
      BY ChainFacts
    <2>4. CASE j = i
      <3>1. chain'[j] = b
        BY <1>5, <2>4
      <3>2. chain[i].base + Header <= p /\ p <= chain[i].base + chain[i].pos /\ p \in Nat
        OBVIOUS
      <3>3. Header <= b.pos /\ b.pos <= b.cmt
        BY ONLY <1>1, <1>3, <2>3, <3>2, SMTT(30)
      <3> QED
        BY ONLY <1>3, <2>4, <3>1, <3>3
    <2>5. CASE j # i
      BY <1>5, <2>2, <2>5
    <2> QED
      BY <2>4, <2>5
  <1>8. ChainInv'
    <2>1. chain' # <<>> /\ chain'[1].base = 0
      <3>1. 1 \in 1 .. i /\ i > 0
        BY <1>1
      <3>2. chain'[1].base = chain[1].base
        BY <1>7, <3>1
      <3> QED
        BY <1>5, <3>1, <3>2 DEF ChainInv
    <2>2. ASSUME NEW j \in 1 .. i
          PROVE  chain'[j].cmt <= chain'[j].res
      <3>1. j \in DOMAIN chain
        BY <1>1 DEF ChainInv
      <3> QED
        BY <1>7, <3>1, ChainFacts
    <2>3. ASSUME NEW j \in 1 .. i, NEW k \in 1 .. i, j < k
          PROVE  /\ chain'[j].base + chain'[j].res <= chain'[k].base
                 /\ chain'[j].at # chain'[k].at
      <3>1. j \in DOMAIN chain /\ k \in DOMAIN chain
        BY <1>1 DEF ChainInv
      <3> QED
        BY <1>7, <2>3, <3>1, ChainOrder
    <2> QED
      BY ONLY <1>5, <1>6, <1>7, <2>1, <2>2, <2>3 DEF ChainInv
  <1> QED
    BY <1>1, <1>3, <1>5, <1>6, <1>7, <1>8

----------------------------------------------------------------------------
LEMMA LiveFacts ==
  ASSUME LiveInv, NEW n \in DOMAIN live
  PROVE  /\ n \in Nat /\ 1 <= n /\ n <= Len(live)
         /\ live[n] \in Allocation /\ live[n].lo \in Nat /\ live[n].hi \in Nat
  <1>1. n \in Nat /\ 1 <= n /\ n <= Len(live) /\ live[n] \in Allocation
    BY DEF LiveInv
  <1> QED
    BY <1>1 DEF Allocation

LEMMA TempsFacts ==
  ASSUME TempsInv, NEW k \in DOMAIN temps
  PROVE  /\ k \in Nat /\ 1 <= k /\ k <= Len(temps)
         /\ temps[k].pos \in Nat /\ temps[k].count \in Nat
  <1>1. k \in Nat /\ 1 <= k /\ k <= Len(temps) /\ temps[k] \in Scope
    BY DEF TempsInv
  <1> QED
    BY <1>1 DEF Scope

\* Everything lies below the current position.
LEMMA AllBelowTop ==
  ASSUME ArenaInv
  PROVE  /\ TopPos \in Nat
         /\ \A n \in DOMAIN live : live[n].hi <= TopPos
         /\ \A k \in DOMAIN temps : temps[k].pos <= TopPos
  <1>1. ChainInv /\ LiveInv /\ TempsInv /\ Header \in Nat
    BY ArenaAssumption DEF ArenaInv
  <1>2. Len(chain) \in DOMAIN chain
    BY <1>1 DEF ChainInv
  <1>3. TopPos = chain[Len(chain)].base + chain[Len(chain)].pos
    BY DEF TopPos, Top
  <1>4. ASSUME NEW i \in DOMAIN chain
        PROVE  /\ chain[i].base \in Nat /\ chain[i].pos \in Nat
               /\ chain[i].base + chain[i].pos <= TopPos
    <2>1. /\ chain[i].base \in Nat /\ chain[i].pos \in Nat /\ chain[i].cmt \in Nat
          /\ chain[i].res \in Nat /\ chain[i].pos <= chain[i].cmt /\ chain[i].cmt <= chain[i].res
          /\ i \in Nat /\ i <= Len(chain) /\ Len(chain) \in Nat
      BY <1>1, ChainFacts
    <2>2. chain[Len(chain)].base \in Nat /\ chain[Len(chain)].pos \in Nat
      BY <1>1, <1>2, ChainFacts
    <2>3. CASE i < Len(chain)
      <3>1. chain[i].base + chain[i].res <= chain[Len(chain)].base
        BY <1>1, <1>2, <2>3, ChainOrder
      <3> QED
        BY <1>3, <2>1, <2>2, <3>1, SMTT(30)
    <2> QED
      BY <1>3, <2>1, <2>2, <2>3
  <1>5. TopPos \in Nat
    BY <1>2, <1>3, <1>4
  <1>6. ASSUME NEW n \in DOMAIN live PROVE live[n].hi <= TopPos
    <2>1. PICK i \in DOMAIN chain : LiesIn(live[n], chain[i])
      BY <1>1 DEF LiveInv
    <2>2. live[n].hi \in Nat
      BY <1>1, LiveFacts
    <2> QED
      BY <1>4, <1>5, <2>1, <2>2 DEF LiesIn
  <1>7. ASSUME NEW k \in DOMAIN temps PROVE temps[k].pos <= TopPos
    <2>1. PICK i \in DOMAIN chain : Within(temps[k].pos, i)
      BY <1>1 DEF TempsInv
    <2>2. temps[k].pos \in Nat
      BY <1>1, TempsFacts
    <2> QED
      BY <1>4, <1>5, <2>1, <2>2 DEF Within
  <1> QED
    BY <1>5, <1>6, <1>7

\* The blocks that were there are still there, with no less in use.
Keeps == \A i \in DOMAIN chain :
           /\ i \in DOMAIN chain'
           /\ chain'[i].at = chain[i].at /\ chain'[i].base = chain[i].base
           /\ chain[i].pos <= chain'[i].pos /\ chain[i].cmt <= chain'[i].cmt

\* An allocation above everything else that lies in some block.
LEMMA PushKeepsInv ==
  ASSUME ArenaInv, ChainInv', Keeps, NEW a \in Allocation, TopPos <= a.lo, a.lo <= a.hi,
         NEW t \in DOMAIN chain', LiesIn(a, chain'[t]),
         live' = Append(live, a), UNCHANGED temps
  PROVE  ArenaInv'
  <1>1. ChainInv /\ LiveInv /\ TempsInv /\ Header \in Nat
    BY ArenaAssumption DEF ArenaInv
  <1>2. /\ live' \in Seq(Allocation) /\ Len(live') = Len(live) + 1 /\ Len(live) \in Nat
        /\ DOMAIN live = 1 .. Len(live) /\ DOMAIN live' = 1 .. Len(live) + 1
        /\ \A n \in DOMAIN live : live'[n] = live[n]
        /\ live'[Len(live) + 1] = a
    BY <1>1 DEF LiveInv
  <1>3. ASSUME NEW i \in DOMAIN chain
        PROVE  /\ chain[i].base \in Nat /\ chain[i].pos \in Nat /\ chain[i].cmt \in Nat
               /\ i \in DOMAIN chain' /\ chain'[i].pos \in Nat /\ chain'[i].cmt \in Nat
               /\ chain'[i].at = chain[i].at /\ chain'[i].base = chain[i].base
               /\ chain[i].pos <= chain'[i].pos /\ chain[i].cmt <= chain'[i].cmt
    <2>1. chain[i].base \in Nat /\ chain[i].pos \in Nat /\ chain[i].cmt \in Nat
      BY <1>1, ChainFacts
    <2>2. /\ i \in DOMAIN chain'
          /\ chain'[i].at = chain[i].at /\ chain'[i].base = chain[i].base
          /\ chain[i].pos <= chain'[i].pos /\ chain[i].cmt <= chain'[i].cmt
      BY DEF Keeps
    <2>3. chain'[i] \in Block
      BY <2>2 DEF ChainInv
    <2>4. chain'[i].pos \in Nat /\ chain'[i].cmt \in Nat
      BY <2>3 DEF Block
    <2> QED
      BY <2>1, <2>2, <2>4
  <1>4. LiveInv'
    <2>1. ASSUME NEW n \in DOMAIN live' PROVE \E i \in DOMAIN chain' : LiesIn(live'[n], chain'[i])
      <3>1. CASE n = Len(live) + 1
        BY <1>2, <3>1
      <3>2. CASE n \in DOMAIN live
        <4>1. PICK i \in DOMAIN chain : LiesIn(live[n], chain[i])
          BY <1>1, <3>2 DEF LiveInv
        <4>2. live[n].hi \in Nat
          BY <1>1, <3>2, LiveFacts
        <4>3. LiesIn(live[n], chain'[i])
          BY <1>3, <4>1, <4>2, SMTT(30) DEF LiesIn
        <4> QED
          BY <1>2, <1>3, <3>2, <4>3
      <3> QED
        BY <1>2, <3>1, <3>2
    <2>2. ASSUME NEW m \in DOMAIN live', NEW n \in DOMAIN live', m < n
          PROVE  live'[m].hi <= live'[n].lo
      <3>1. m \in DOMAIN live
        BY <1>2, <2>2
      <3>2. CASE n = Len(live) + 1
        <4>1. live[m].hi <= TopPos /\ TopPos \in Nat /\ live[m].hi \in Nat
          BY <1>1, <3>1, AllBelowTop, LiveFacts
        <4>2. a.lo \in Nat
          BY DEF Allocation
        <4> QED
          BY <1>2, <3>1, <3>2, <4>1, <4>2
      <3>3. CASE n \in DOMAIN live
        BY <1>1, <1>2, <2>2, <3>1, <3>3 DEF LiveInv
      <3> QED
        BY <1>2, <3>2, <3>3
    <2> QED
      BY <1>2, <2>1, <2>2 DEF LiveInv
  <1>5. TempsInv'
    <2>1. ASSUME NEW k \in DOMAIN temps
          PROVE  /\ \E i \in DOMAIN chain' : Within(temps[k].pos, i)'
                 /\ temps[k].count <= Len(live')
                 /\ \A n \in 1 .. temps[k].count : live'[n].hi <= temps[k].pos
      <3>1. temps[k].pos \in Nat /\ temps[k].count \in Nat
        BY <1>1, TempsFacts
      <3>2. PICK i \in DOMAIN chain : Within(temps[k].pos, i)
        BY <1>1 DEF TempsInv
      <3>3. Within(temps[k].pos, i)'
        BY <1>1, <1>3, <3>1, <3>2 DEF Within
      <3>4. /\ temps[k].count <= Len(live)
            /\ \A n \in 1 .. temps[k].count : live[n].hi <= temps[k].pos
        BY <1>1 DEF TempsInv
      <3> QED
        BY <1>2, <1>3, <3>1, <3>3, <3>4
    <2> QED
      BY <1>1, <2>1 DEF TempsInv
  <1> QED
    BY <1>4, <1>5 DEF ArenaInv

----------------------------------------------------------------------------
LEMMA InitArenaInv == ArenaInit => ArenaInv
  <1> SUFFICES ASSUME ArenaInit PROVE ArenaInv
    OBVIOUS
  <1>1. PICK at \in Addresses : chain = <<NewBlock(at, 0, ResSize, CmtSize)>>
    BY DEF ArenaInit
  <1>2. ChainInv
    <2> DEFINE b == NewBlock(at, 0, ResSize, CmtSize)
    <2>1. b \in Block /\ b.base = 0 /\ b.pos = Header /\ b.cmt = CmtSize /\ b.res = ResSize
      BY NewBlockFacts
    <2> HIDE DEF b
    <2> QED
      BY <1>1, <2>1, ArenaAssumption DEF ChainInv, b
  <1>3. LiveInv /\ TempsInv
    BY DEF ArenaInit, LiveInv, TempsInv
  <1> QED
    BY <1>2, <1>3 DEF ArenaInv

LEMMA PushHereKeeps ==
  ASSUME ArenaInv, NEW size \in Sizes, NEW align \in Aligns, PushHere(size, align)
  PROVE  ArenaInv'
  <1> DEFINE n == Len(chain)
             pre == AlignUp(Top.pos, align)
             b == Taken(Top, pre + size)
             a == Given(Top, size, align)
  <1>1. /\ ChainInv /\ n \in DOMAIN chain /\ n \in 1 .. Len(chain) /\ Top = chain[n]
        /\ Header \in Nat /\ chain \in Seq(Block) /\ DOMAIN chain = 1 .. n
    BY ArenaAssumption DEF ArenaInv, ChainInv, Top
  <1>2. /\ Top \in Block /\ Top.base \in Nat /\ Top.pos \in Nat /\ Top.cmt \in Nat /\ Top.res \in Nat
        /\ Header <= Top.pos /\ Top.pos <= Top.cmt /\ Top.cmt <= Top.res
    BY <1>1, ChainFacts
  <1>3. pre \in Nat /\ Top.pos <= pre /\ size \in Nat
    BY <1>2, AlignUpFacts, ArenaAssumption
  <1>4. pre + size <= Top.res
    BY DEF PushHere, Fits
  <1> HIDE DEF pre
  <1>5. /\ b \in Block /\ b.at = Top.at /\ b.base = Top.base /\ b.res = Top.res
        /\ b.pos = pre + size /\ pre + size <= b.cmt /\ b.cmt <= Top.res /\ Top.cmt <= b.cmt
    <2>1. pre + size \in Nat /\ Top.pos <= pre + size
      BY <1>2, <1>3
    <2> QED
      BY <1>2, <1>4, <2>1, TakenFacts
  <1>6. a \in Allocation /\ a.at = Top.at /\ a.lo = Top.base + pre /\ a.hi = Top.base + pre + size
    BY <1>2, <1>3 DEF Given, Allocation, Block, pre
  <1>7. chain' = [chain EXCEPT ![n] = b] /\ live' = Append(live, a) /\ UNCHANGED temps
    BY DEF PushHere, pre, Top
  <1>0. n = Len(chain)
    OBVIOUS
  <1> HIDE DEF n, b, a
  <1>8. /\ chain' \in Seq(Block) /\ Len(chain') = n /\ DOMAIN chain' = 1 .. n
        /\ \A j \in 1 .. n : chain'[j] = IF j = n THEN b ELSE chain[j]
    <2>1. /\ [chain EXCEPT ![n] = b] \in Seq(Block)
          /\ Len([chain EXCEPT ![n] = b]) = Len(chain)
          /\ \A j \in 1 .. Len(chain) : [chain EXCEPT ![n] = b][j] = IF j = n THEN b ELSE chain[j]
      BY ONLY <1>0, <1>1, <1>5, ExceptSeq
    <2> QED
      BY <1>0, <1>1, <1>7, <2>1
  <1>9. ASSUME NEW j \in 1 .. n
        PROVE  /\ chain'[j].at = chain[j].at /\ chain'[j].base = chain[j].base
               /\ chain'[j].res = chain[j].res
               /\ chain[j].pos <= chain'[j].pos /\ chain[j].cmt <= chain'[j].cmt
               /\ Header <= chain'[j].pos /\ chain'[j].pos <= chain'[j].cmt
               /\ chain'[j].cmt <= chain'[j].res
    <2>1. /\ chain[j].pos \in Nat /\ chain[j].cmt \in Nat
          /\ Header <= chain[j].pos /\ chain[j].pos <= chain[j].cmt /\ chain[j].cmt <= chain[j].res
      BY <1>1, ChainFacts
    <2>2. CASE j = n
      <3>1. chain'[j] = b /\ chain[j] = Top
        BY <1>1, <1>8, <2>2
      <3>2. Top.pos <= b.pos /\ Header <= b.pos /\ b.pos <= b.cmt /\ b.cmt <= b.res
        BY ONLY <1>1, <1>2, <1>3, <1>5
      <3> QED
        BY ONLY <1>5, <3>1, <3>2
    <2>3. CASE j # n
      <3>1. chain'[j] = chain[j]
        BY <1>8, <2>3
      <3> QED
        BY ONLY <2>1, <3>1
    <2> QED
      BY <2>2, <2>3
  <1>10. ChainInv'
    <2>1. chain' # <<>> /\ chain'[1].base = 0
      <3>1. 1 \in 1 .. n
        BY <1>1
      <3>2. chain'[1].base = chain[1].base
        BY <1>9, <3>1
      <3> QED
        BY <1>1, <1>8, <3>1, <3>2 DEF ChainInv
    <2>2. ASSUME NEW i \in 1 .. n, NEW j \in 1 .. n, i < j
          PROVE  /\ chain'[i].base + chain'[i].res <= chain'[j].base
                 /\ chain'[i].at # chain'[j].at
      BY <1>1, <1>9, <2>2, ChainOrder
    <2> QED
      BY ONLY <1>8, <1>9, <2>1, <2>2 DEF ChainInv
  <1>11. Keeps
    BY <1>1, <1>8, <1>9 DEF Keeps
  <1>12. TopPos <= a.lo /\ a.lo <= a.hi /\ LiesIn(a, chain'[n]) /\ n \in DOMAIN chain'
    <2>1. chain'[n] = b
      BY <1>1, <1>8
    <2>2. TopPos <= a.lo /\ a.lo <= a.hi
      BY <1>2, <1>3, <1>6 DEF TopPos
    <2>3. b.cmt \in Nat
      BY <1>5 DEF Block
    <2>4. /\ a.at = b.at /\ b.base + Header <= a.lo
          /\ a.hi <= b.base + b.pos /\ a.hi <= b.base + b.cmt
      BY ONLY <1>1, <1>2, <1>3, <1>5, <1>6, <2>3, SMTT(30)
    <2> QED
      BY <1>1, <1>8, <2>1, <2>2, <2>4 DEF LiesIn
  <1> QED
    BY <1>6, <1>7, <1>10, <1>11, <1>12, PushKeepsInv

LEMMA PushChainedKeeps ==
  ASSUME ArenaInv, NEW size \in Sizes, NEW align \in Aligns, PushChained(size, align)
  PROVE  ArenaInv'
  <1>1. PICK at \in Vacant :
          LET b == ChainedBlock(at, size, align)
          IN  /\ chain' = Append(chain, Taken(b, AlignUp(b.pos, align) + size))
              /\ live' = Append(live, Given(b, size, align))
    BY DEF PushChained
  <1> DEFINE n == Len(chain)
             b == ChainedBlock(at, size, align)
             t == Taken(b, Header + size)
             a == Given(b, size, align)
  <1>2. /\ ChainInv /\ n \in DOMAIN chain /\ n \in 1 .. n /\ Top = chain[n] /\ at \in Addresses
        /\ Header \in Nat /\ chain \in Seq(Block) /\ DOMAIN chain = 1 .. n /\ n \in Nat
        /\ \A i \in DOMAIN chain : chain[i].at # at
    BY ArenaAssumption DEF ArenaInv, ChainInv, Top, Vacant
  <1>3. /\ Top.base \in Nat /\ Top.pos \in Nat /\ Top.cmt \in Nat /\ Top.res \in Nat
        /\ Top.pos <= Top.cmt /\ Top.cmt <= Top.res
    BY <1>2, ChainFacts
  <1>4. /\ b \in Block /\ b.at = at /\ b.base = Top.base + Top.res /\ b.pos = Header
        /\ Header <= b.cmt /\ b.cmt <= b.res /\ Header + size <= b.res
    BY <1>2, ChainedBlockFacts
  <1>5. AlignUp(b.pos, align) = Header /\ size \in Nat
    BY <1>4, ArenaAssumption DEF AlignUp
  <1>6. chain' = Append(chain, t) /\ live' = Append(live, a) /\ UNCHANGED temps
    BY <1>1, <1>5 DEF PushChained
  <1>7. a.at = at /\ a.lo = b.base + Header /\ a.hi = b.base + Header + size
    BY <1>4, <1>5 DEF Given
  <1>8. a \in Allocation
    <2>1. b.base + Header \in Nat /\ b.base + Header + size \in Nat
      BY <1>2, <1>3, <1>4, <1>5
    <2> QED
      BY <1>2, <1>4, <1>5, <2>1 DEF Given, Allocation
  <1>9. n = Len(chain)
    OBVIOUS
  <1> HIDE DEF b, a
  <1>10. /\ t \in Block /\ t.at = at /\ t.base = b.base /\ t.res = b.res /\ t.pos = Header + size
         /\ Header + size <= t.cmt /\ t.cmt <= t.res
    <2>1. Header + size \in Nat /\ b.pos <= Header + size
      BY <1>2, <1>4, <1>5
    <2> QED
      BY <1>4, <2>1, TakenFacts
  <1> HIDE DEF n, t
  <1>11. /\ chain' \in Seq(Block) /\ Len(chain') = n + 1 /\ DOMAIN chain' = 1 .. n + 1
         /\ \A j \in 1 .. n : chain'[j] = chain[j]
         /\ chain'[n + 1] = t
    BY ONLY <1>2, <1>6, <1>9, <1>10, AppendProperties
  <1>12. ASSUME NEW j \in 1 .. n
         PROVE  /\ chain[j].base \in Nat /\ chain[j].res \in Nat
                /\ chain[j].base + chain[j].res <= t.base
    <2>1. /\ chain[j].base \in Nat /\ chain[j].res \in Nat
      BY <1>2, ChainFacts
    <2>2. CASE j = n
      <3>1. chain[j] = Top
        BY <1>2, <2>2
      <3>2. t.base = Top.base + Top.res
        BY <1>4, <1>10
      <3>3. chain[j].base + chain[j].res <= t.base
        BY ONLY <1>3, <3>1, <3>2
      <3> QED
        BY <2>1, <3>3
    <2>3. CASE j # n
      <3>1. chain[j].base + chain[j].res <= chain[n].base
        BY <1>2, <2>3, ChainOrder
      <3> QED
        BY <1>2, <1>3, <1>4, <1>10, <2>1, <3>1
    <2> QED
      BY <2>1, <2>2, <2>3
  <1>13. ChainInv'
    <2>1. chain' # <<>> /\ chain'[1].base = 0
      BY <1>2, <1>11 DEF ChainInv
    <2>2. ASSUME NEW j \in 1 .. n + 1
          PROVE  /\ Header <= chain'[j].pos /\ chain'[j].pos <= chain'[j].cmt
                 /\ chain'[j].cmt <= chain'[j].res
      <3>1. CASE j = n + 1
        BY <1>2, <1>5, <1>10, <1>11, <3>1
      <3>2. CASE j \in 1 .. n
        BY <1>2, <1>11, <3>2, ChainFacts
      <3> QED
        BY <1>2, <3>1, <3>2
    <2>3. ASSUME NEW i \in 1 .. n + 1, NEW j \in 1 .. n + 1, i < j
          PROVE  /\ chain'[i].base + chain'[i].res <= chain'[j].base
                 /\ chain'[i].at # chain'[j].at
      <3>1. i \in 1 .. n
        BY <1>2, <2>3
      <3>2. CASE j = n + 1
        BY <1>2, <1>10, <1>11, <1>12, <3>1, <3>2
      <3>3. CASE j \in 1 .. n
        BY <1>2, <1>11, <2>3, <3>1, <3>3, ChainOrder
      <3> QED
        BY <1>2, <3>2, <3>3
    <2> QED
      BY ONLY <1>11, <2>1, <2>2, <2>3 DEF ChainInv
  <1>14. Keeps
    <2> SUFFICES ASSUME NEW j \in DOMAIN chain
                 PROVE  /\ j \in DOMAIN chain' /\ chain'[j] = chain[j]
                        /\ chain[j].pos \in Nat /\ chain[j].cmt \in Nat
      BY DEF Keeps
    <2> QED
      BY <1>2, <1>11, ChainFacts
  <1>15. TopPos <= a.lo /\ a.lo <= a.hi /\ LiesIn(a, chain'[n + 1]) /\ n + 1 \in DOMAIN chain'
    <2>1. TopPos <= a.lo /\ a.lo <= a.hi
      BY <1>2, <1>3, <1>4, <1>5, <1>7, SMTT(30) DEF TopPos
    <2>2. t.cmt \in Nat /\ t.base \in Nat
      BY <1>10 DEF Block
    <2>3. /\ a.at = t.at /\ t.base + Header <= a.lo
          /\ a.hi <= t.base + t.pos /\ a.hi <= t.base + t.cmt
      BY ONLY <1>2, <1>5, <1>7, <1>10, <2>2
    <2> QED
      BY <1>2, <1>11, <2>1, <2>3 DEF LiesIn
  <1> QED
    BY <1>6, <1>8, <1>13, <1>14, <1>15, PushKeepsInv

----------------------------------------------------------------------------
\* What a pop to position p keeps of the history, if all of it lies below p.
LEMMA PopKeepsInv ==
  ASSUME ArenaInv, NEW i \in DOMAIN chain, NEW p \in Nat, Within(p, i),
         chain' = Popped(i, p),
         NEW c \in 0 .. Len(live), live' = SubSeq(live, 1, c),
         \A n \in 1 .. c : live[n].hi <= p,
         NEW d \in 0 .. Len(temps), temps' = SubSeq(temps, 1, d),
         \A k \in 1 .. d : temps[k].pos <= p /\ temps[k].count <= c
  PROVE  ArenaInv'
  <1>1. ChainInv /\ LiveInv /\ TempsInv /\ Header \in Nat \ {0}
    BY ArenaAssumption DEF ArenaInv
  <1>2. chain[i].base + Header <= p /\ p <= chain[i].base + chain[i].pos
    BY DEF Within
  <1>3. /\ ChainInv' /\ DOMAIN chain' = 1 .. i
        /\ \A j \in 1 .. i : /\ chain'[j].at = chain[j].at /\ chain'[j].base = chain[j].base
                             /\ j < i => chain'[j] = chain[j]
        /\ chain'[i].pos = p - chain[i].base
        /\ chain'[i].cmt = chain[i].cmt
    <2>1. i \in DOMAIN chain /\ p \in Nat /\ chain' = Popped(i, p)
      OBVIOUS
    <2> QED
      BY ONLY <1>1, <1>2, <2>1, PopFacts
  <1>4. ASSUME NEW j \in DOMAIN chain
        PROVE  /\ j \in Nat /\ 1 <= j /\ chain[j].base \in Nat /\ chain[j].pos \in Nat
               /\ chain[j].cmt \in Nat /\ chain[j].res \in Nat
               /\ chain[j].pos <= chain[j].cmt /\ chain[j].cmt <= chain[j].res
    BY <1>1, ChainFacts
  <1>10. /\ i \in Nat /\ 1 <= i /\ chain[i].base \in Nat
         /\ chain[i].pos \in Nat /\ chain[i].res \in Nat /\ chain[i].pos <= chain[i].res
    BY <1>4
  <1>5. /\ live' \in Seq(Allocation) /\ DOMAIN live' = 1 .. c /\ Len(live') = c
        /\ \A n \in 1 .. c : n \in DOMAIN live /\ live'[n] = live[n]
    BY <1>1 DEF LiveInv
  <1>6. /\ temps' \in Seq(Scope) /\ DOMAIN temps' = 1 .. d
        /\ \A k \in 1 .. d : k \in DOMAIN temps /\ temps'[k] = temps[k]
    BY <1>1 DEF TempsInv
  <1>7. ASSUME NEW j \in DOMAIN chain, NEW x \in Nat, chain[j].base + Header <= x, x <= p
        PROVE  j \in 1 .. i
    <2>1. CASE i < j
      <3>1. chain[i].base + chain[i].res <= chain[j].base
        BY <1>1, <2>1, ChainOrder
      <3> QED
        <4>1. chain[j].base \in Nat /\ x \in Nat /\ Header \in Nat \ {0}
          BY <1>1, <1>4
        <4>2. p <= chain[i].base + chain[i].res
          BY <1>2, <1>10
        <4>3. p <= chain[j].base
          BY <1>10, <3>1, <4>1, <4>2
        <4>4. chain[j].base + Header <= p
          BY <1>7, <4>1
        <4> QED
          BY ONLY <4>1, <4>3, <4>4, p \in Nat
    <2>2. CASE ~(i < j)
      BY <1>4, <1>10, <2>2
    <2> QED
      BY <2>1, <2>2
  <1>8. LiveInv'
    <2>1. ASSUME NEW n \in 1 .. c PROVE \E j \in DOMAIN chain' : LiesIn(live'[n], chain'[j])
      <3>1. PICK j \in DOMAIN chain : LiesIn(live[n], chain[j])
        BY <1>1, <1>5 DEF LiveInv
      <3>2. live[n].lo \in Nat /\ live[n].hi \in Nat /\ live[n].hi <= p
        BY <1>1, <1>5, LiveFacts
      <3>3. /\ live[n].at = chain[j].at
            /\ chain[j].base + Header <= live[n].lo /\ live[n].lo <= live[n].hi
            /\ live[n].hi <= chain[j].base + chain[j].pos
            /\ live[n].hi <= chain[j].base + chain[j].cmt
        BY <3>1 DEF LiesIn
      <3>4. live[n].lo <= p
        BY <3>2, <3>3
      <3>5. j \in 1 .. i
        BY <1>7, <3>2, <3>3, <3>4
      <3>6. CASE j = i
        <4>1. live[n].hi <= chain[i].base + (p - chain[i].base)
          BY <1>10, <3>2
        <4>2. LiesIn(live[n], chain'[i])
          <5>1. i \in 1 .. i
            BY <1>10
          <5> QED
            BY <1>3, <3>3, <3>6, <4>1, <5>1 DEF LiesIn
        <4> QED
          BY <1>3, <1>5, <3>5, <3>6, <4>2
      <3>7. CASE j < i
        BY <1>3, <1>5, <3>1, <3>5, <3>7
      <3> QED
        BY <1>4, <3>5, <3>6, <3>7
    <2>2. ASSUME NEW m \in 1 .. c, NEW n \in 1 .. c, m < n
          PROVE  live'[m].hi <= live'[n].lo
      BY <1>1, <1>5, <2>2 DEF LiveInv
    <2> QED
      BY <1>5, <2>1, <2>2 DEF LiveInv
  <1>9. TempsInv'
    <2>1. ASSUME NEW k \in 1 .. d
          PROVE  /\ \E j \in DOMAIN chain' : /\ chain'[j].base + Header <= temps'[k].pos
                                             /\ temps'[k].pos <= chain'[j].base + chain'[j].pos
                 /\ temps'[k].count <= c
                 /\ \A n \in 1 .. temps'[k].count : live'[n].hi <= temps'[k].pos
      <3>1. /\ temps[k].pos \in Nat /\ temps[k].count \in Nat /\ temps[k].pos <= p
            /\ temps[k].count <= c /\ temps'[k] = temps[k]
        BY <1>1, <1>6, TempsFacts
      <3>2. PICK j \in DOMAIN chain : Within(temps[k].pos, j)
        BY <1>1, <1>6 DEF TempsInv
      <3>3. /\ chain[j].base + Header <= temps[k].pos
            /\ temps[k].pos <= chain[j].base + chain[j].pos
        BY <3>2 DEF Within
      <3>4. j \in 1 .. i
        BY <1>7, <3>1, <3>3
      <3>5. chain'[j].base + Header <= temps[k].pos /\ temps[k].pos <= chain'[j].base + chain'[j].pos
        <4>1. CASE j = i
          <5>1. i \in 1 .. i
            BY ONLY <1>10
          <5>2. chain'[i].base = chain[i].base /\ chain'[i].pos = p - chain[i].base
            BY ONLY <1>3, <5>1
          <5>3. temps[k].pos <= chain[i].base + (p - chain[i].base)
            BY <1>10, <3>1
          <5> QED
            BY <3>3, <4>1, <5>2, <5>3
        <4>2. CASE j < i
          BY <1>3, <3>3, <3>4, <4>2
        <4> QED
          BY <1>4, <3>4, <4>1, <4>2
      <3>6. \A n \in 1 .. temps[k].count : live[n].hi <= temps[k].pos
        BY <1>1, <1>6 DEF TempsInv
      <3>7. \A n \in 1 .. temps[k].count : live'[n].hi <= temps[k].pos
        <4> TAKE n \in 1 .. temps[k].count
        <4>1. n \in 1 .. c
          BY <3>1
        <4>2. live'[n] = live[n] /\ live[n].hi <= temps[k].pos
          BY <1>5, <3>6, <4>1
        <4> QED
          BY ONLY <4>2
      <3> QED
        BY <1>3, <3>1, <3>4, <3>5, <3>7
    <2>2. ASSUME NEW k \in 1 .. d, NEW l \in 1 .. d, k < l
          PROVE  temps'[k].pos <= temps'[l].pos /\ temps'[k].count <= temps'[l].count
      BY <1>1, <1>6, <2>2 DEF TempsInv
    <2> QED
      BY <1>5, <1>6, <2>1, <2>2 DEF TempsInv, Within
  <1> QED
    BY <1>3, <1>8, <1>9 DEF ArenaInv

LEMMA TempEndKeeps ==
  ASSUME ArenaInv, TempEnd
  PROVE  ArenaInv'
  <1> DEFINE l == Len(temps)
  <1>1. ChainInv /\ LiveInv /\ TempsInv
    BY DEF ArenaInv
  <1>2. l \in DOMAIN temps /\ l \in Nat /\ Temp = temps[l] /\ DOMAIN temps = 1 .. l
    BY <1>1 DEF TempEnd, Temp, TempsInv
  <1>3. Temp.pos \in Nat /\ Temp.count \in Nat
    BY <1>1, <1>2, TempsFacts
  <1>4. PICK i \in DOMAIN chain : Within(Temp.pos, i)
    BY <1>1, <1>2 DEF TempsInv
  <1>5. LastKept(Temp.pos) = i /\ PosLeft(Temp.pos) = Temp.pos - chain[i].base
    BY <1>1, <1>3, <1>4, FoundAgain
  <1>6. chain' = Popped(i, Temp.pos)
    BY <1>5 DEF TempEnd, PopTo, Popped
  <1>7. /\ Temp.count \in 0 .. Len(live)
        /\ \A n \in 1 .. Temp.count : live[n].hi <= Temp.pos
    BY <1>1, <1>2, <1>3 DEF TempsInv, LiveInv
  <1>8. ASSUME NEW k \in 1 .. l - 1
        PROVE  temps[k].pos <= Temp.pos /\ temps[k].count <= Temp.count
    <2>1. k \in DOMAIN temps /\ k < l
      BY <1>2
    <2> QED
      BY <1>1, <1>2, <2>1 DEF TempsInv
  <1>9. /\ live' = SubSeq(live, 1, Temp.count)
        /\ l - 1 \in 0 .. Len(temps) /\ temps' = SubSeq(temps, 1, l - 1)
    BY <1>2 DEF TempEnd
  <1> HIDE DEF l
  <1> QED
    BY <1>3, <1>4, <1>6, <1>7, <1>8, <1>9, PopKeepsInv

LEMMA ClearKeeps ==
  ASSUME ArenaInv, Clear
  PROVE  ArenaInv'
  <1>1. ChainInv /\ LiveInv /\ TempsInv /\ Header \in Nat
    BY ArenaAssumption DEF ArenaInv
  <1>2. 1 \in DOMAIN chain
    BY <1>1 DEF ChainInv
  <1>3. chain[1].base = 0 /\ chain[1].pos \in Nat /\ Header <= chain[1].pos
    BY <1>1, <1>2, ChainFacts DEF ChainInv
  <1>4. Within(Header, 1)
    BY <1>1, <1>3 DEF Within
  <1>5. Larger(Header, 0) = Header /\ Larger(Header, Header) = Header
    BY <1>1 DEF Larger
  <1>6. LastKept(0) = LastKept(Header) /\ PosLeft(0) = PosLeft(Header)
    BY <1>5 DEF LastKept, Kept, PosLeft
  <1>7. LastKept(Header) = 1 /\ PosLeft(Header) = Header - chain[1].base
    BY <1>1, <1>2, <1>4, FoundAgain
  <1>8. chain' = Popped(1, Header)
    BY <1>6, <1>7 DEF Clear, PopTo, Popped
  <1>9. live' = SubSeq(live, 1, 0) /\ temps' = SubSeq(temps, 1, 0)
    BY <1>1 DEF Clear, LiveInv, TempsInv
  <1>10. 0 \in 0 .. Len(live) /\ 0 \in 0 .. Len(temps)
    BY <1>1 DEF LiveInv, TempsInv
  <1> QED
    BY <1>1, <1>2, <1>4, <1>8, <1>9, <1>10, PopKeepsInv

LEMMA TempBeginKeeps ==
  ASSUME ArenaInv, TempBegin
  PROVE  ArenaInv'
  <1> DEFINE l == Len(temps)
             t == [pos |-> TopPos, count |-> Len(live)]
  <1>1. ChainInv /\ LiveInv /\ TempsInv /\ Header \in Nat
    BY ArenaAssumption DEF ArenaInv
  <1>2. chain' = chain /\ live' = live /\ temps' = Append(temps, t)
    BY DEF TempBegin
  <1>3. TopPos \in Nat /\ Len(live) \in Nat
    BY <1>1, AllBelowTop DEF LiveInv
  <1>4. t \in Scope /\ t.pos = TopPos /\ t.count = Len(live)
    BY <1>3 DEF Scope
  <1>5. /\ temps \in Seq(Scope) /\ l \in Nat /\ DOMAIN temps = 1 .. l
        /\ temps' \in Seq(Scope) /\ DOMAIN temps' = 1 .. l + 1
        /\ \A k \in 1 .. l : temps'[k] = temps[k]
        /\ temps'[l + 1] = t
    BY <1>1, <1>2, <1>4 DEF TempsInv
  <1> HIDE DEF t
  <1>6. Len(chain) \in DOMAIN chain /\ Within(TopPos, Len(chain))
    <2>1. Len(chain) \in DOMAIN chain
      BY <1>1 DEF ChainInv
    <2>2. /\ chain[Len(chain)].base \in Nat /\ chain[Len(chain)].pos \in Nat
          /\ Header <= chain[Len(chain)].pos
      BY <1>1, <2>1, ChainFacts
    <2> QED
      BY <1>1, <2>1, <2>2 DEF Within, TopPos, Top
  <1>7. ASSUME NEW k \in 1 .. l + 1
        PROVE  /\ \E i \in DOMAIN chain : Within(temps'[k].pos, i)
               /\ temps'[k].count <= Len(live)
               /\ \A n \in 1 .. temps'[k].count : live[n].hi <= temps'[k].pos
    <2>1. CASE k = l + 1
      <3>1. DOMAIN live = 1 .. Len(live)
        BY <1>1 DEF LiveInv
      <3> QED
        BY <1>3, <1>4, <1>5, <1>6, <2>1, <3>1, AllBelowTop
    <2>2. CASE k \in 1 .. l
      BY <1>1, <1>5, <2>2 DEF TempsInv
    <2> QED
      BY <1>5, <2>1, <2>2
  <1>8. ASSUME NEW k \in 1 .. l + 1, NEW m \in 1 .. l + 1, k < m
        PROVE  temps'[k].pos <= temps'[m].pos /\ temps'[k].count <= temps'[m].count
    <2>1. k \in 1 .. l /\ k \in DOMAIN temps
      BY <1>5, <1>8
    <2>2. CASE m = l + 1
      <3>1. temps[k].pos <= TopPos
        BY <2>1, AllBelowTop
      <3>2. temps[k].count <= Len(live)
        BY <1>1, <2>1 DEF TempsInv
      <3> QED
        BY <1>4, <1>5, <2>1, <2>2, <3>1, <3>2
    <2>3. CASE m \in 1 .. l
      BY <1>1, <1>5, <1>8, <2>1, <2>3 DEF TempsInv
    <2> QED
      BY <1>5, <2>2, <2>3
  <1>9. ChainInv' /\ LiveInv'
    BY <1>1, <1>2 DEF ChainInv, LiveInv, LiesIn
  <1>10. TempsInv'
    BY <1>2, <1>5, <1>7, <1>8 DEF TempsInv, Within
  <1> QED
    BY <1>9, <1>10 DEF ArenaInv

LEMMA NextArenaInv == ArenaInv /\ [ArenaNext]_arenaVars => ArenaInv'
  <1> SUFFICES ASSUME ArenaInv, [ArenaNext]_arenaVars PROVE ArenaInv'
    OBVIOUS
  <1>1. ASSUME NEW size \in Sizes, NEW align \in Aligns, PushHere(size, align)
        PROVE  ArenaInv'
    BY <1>1, PushHereKeeps
  <1>2. ASSUME NEW size \in Sizes, NEW align \in Aligns, PushChained(size, align)
        PROVE  ArenaInv'
    BY <1>2, PushChainedKeeps
  <1>3. CASE TempBegin
    BY <1>3, TempBeginKeeps
  <1>4. CASE TempEnd
    BY <1>4, TempEndKeeps
  <1>5. CASE Clear
    BY <1>5, ClearKeeps
  <1>6. CASE Renew
    <2>1. ArenaInit'
      <3>1. live' = <<>> /\ temps' = <<>>
            /\ \E at \in Addresses : chain' = <<NewBlock(at, 0, ResSize, CmtSize)>>
        BY <1>6 DEF Renew
      <3> QED
        BY <3>1 DEF ArenaInit, NewBlock
    <2> QED
      BY <2>1, InitArenaInv, PTL
  <1>7. CASE UNCHANGED arenaVars
    BY <1>7 DEF arenaVars, ArenaInv, ChainInv, LiveInv, TempsInv, LiesIn, Within
  <1> QED
    BY <1>1, <1>2, <1>3, <1>4, <1>5, <1>6, <1>7 DEF ArenaNext

LEMMA ArenaInvariant == ArenaSpec => []ArenaInv
  BY InitArenaInv, NextArenaInv, PTL DEF ArenaSpec

----------------------------------------------------------------------------
\* The arena's chain, and the history of what it has given out, keep their shapes
\* (base_arena.h's Arena, Temp).
THEOREM ArenaTypeCorrect == ArenaSpec => []ArenaTypeOK
  <1>1. ArenaInv => ArenaTypeOK
    BY DEF ArenaInv, ChainInv, LiveInv, TempsInv, ArenaTypeOK
  <1> QED
    BY <1>1, ArenaInvariant, PTL

\* Whatever has been allocated and not been given back lies in a reserved block and
\* apart from everything else that has, for any sizes of blocks and of requests
\* (arena_push, arena_pop_to).
THEOREM AllocationsStayApart == ArenaSpec => []AllocationsApart
  <1>1. ASSUME ArenaInv PROVE AllocationsApart
    <2>1. ChainInv /\ LiveInv
      BY <1>1 DEF ArenaInv
    <2>2. ASSUME NEW i \in DOMAIN chain, NEW j \in DOMAIN chain, chain[i].at = chain[j].at
          PROVE  i = j
      <3>1. i \in Nat /\ j \in Nat
        BY <2>1, ChainFacts
      <3>2. CASE i < j
        BY <2>1, <2>2, <3>2, ChainOrder
      <3>3. CASE j < i
        BY <2>1, <2>2, <3>3, ChainOrder
      <3> QED
        BY <3>1, <3>2, <3>3
    <2> QED
      BY <2>1, <2>2 DEF LiveInv, AllocationsApart
  <1> QED
    BY <1>1, ArenaInvariant, PTL

\* A scope can always end: arena_pop_to's AssertAlways never fires, whatever blocks
\* were chained in between.
THEOREM ScopesAlwaysEnd == ArenaSpec => []ScopesCanEnd
  <1>1. ASSUME ArenaInv PROVE ScopesCanEnd
    <2> SUFFICES ASSUME temps # <<>>
                 PROVE  PosLeft(Temp.pos) \in Header .. chain[LastKept(Temp.pos)].pos
      BY DEF ScopesCanEnd
    <2>1. ChainInv /\ TempsInv /\ Header \in Nat
      BY <1>1, ArenaAssumption DEF ArenaInv
    <2>2. Len(temps) \in DOMAIN temps /\ Temp = temps[Len(temps)]
      BY <2>1 DEF Temp, TempsInv
    <2>3. Temp.pos \in Nat
      BY <2>1, <2>2, TempsFacts
    <2>4. PICK i \in DOMAIN chain : Within(Temp.pos, i)
      BY <2>1, <2>2 DEF TempsInv
    <2>5. LastKept(Temp.pos) = i /\ PosLeft(Temp.pos) = Temp.pos - chain[i].base
      BY <2>1, <2>3, <2>4, FoundAgain
    <2>6. chain[i].base \in Nat /\ chain[i].pos \in Nat
      BY <2>1, ChainFacts
    <2> QED
      BY <2>1, <2>3, <2>4, <2>5, <2>6 DEF Within
  <1> QED
    BY <1>1, ArenaInvariant, PTL

----------------------------------------------------------------------------
(***************************************************************************)
(* The scratch arenas.  What a function returns in its caller's scratch    *)
(* arena survives, for calls of any depth and any number of scopes and     *)
(* allocations.  A function fills an arena in which no scope is younger    *)
(* than the one it fills, except scopes that end before it goes on: that   *)
(* is the invariant.                                                       *)
(***************************************************************************)

Open == DOMAIN scopes

\* Functions open scopes in the order of their calls, and an arena's position is where
\* the next scope in it begins.
ScopesInv ==
  /\ \A s \in Open : scopes[s].frame <= Depth
  /\ \A s, t \in Open : s < t => /\ scopes[s].frame <= scopes[t].frame
                                 /\ scopes[s].arena = scopes[t].arena
                                      => scopes[s].mark <= scopes[t].mark

\* A function's parameter is an older function's scope, and neither the function nor
\* those before it have opened a scope above that one in the same arena.
FramesInv ==
  \A d \in DOMAIN frames :
    /\ frames[d] <= Newest
    /\ frames[d] # 0 =>
         /\ scopes[frames[d]].frame < d
         /\ \A s \in Open : s > frames[d] /\ scopes[s].frame <= d
                              => scopes[s].arena # scopes[frames[d]].arena

ScratchInv == ScratchTypeOK /\ ScopesInv /\ FramesInv /\ ResultsSurvive

----------------------------------------------------------------------------
LEMMA CutFacts ==
  ASSUME NEW S, NEW q \in Seq(S), NEW n \in 0 .. Len(q)
  PROVE  /\ SubSeq(q, 1, n) \in Seq(S)
         /\ DOMAIN SubSeq(q, 1, n) = 1 .. n /\ Len(SubSeq(q, 1, n)) = n
         /\ \A i \in 1 .. n : SubSeq(q, 1, n)[i] = q[i]
  <1>1. \A i \in 1 .. n : q[i] \in S
    OBVIOUS
  <1>2. /\ SubSeq(q, 1, n) \in Seq(S) /\ Len(SubSeq(q, 1, n)) = n
        /\ \A i \in 1 .. n : SubSeq(q, 1, n)[i] = q[i]
    BY <1>1, SubSeqProperties
  <1> QED
    BY <1>2

\* What the type invariant says of the elements.
LEMMA TypeFacts ==
  ASSUME ScratchTypeOK
  PROVE  /\ Depth \in Nat \ {0} /\ DOMAIN frames = 1 .. Depth
         /\ \A d \in 1 .. Depth : frames[d] \in Nat
         /\ Newest \in Nat /\ Open = 1 .. Newest
         /\ \A s \in 1 .. Newest : /\ scopes[s].arena \in Slots /\ scopes[s].mark \in Nat
                                   /\ scopes[s].frame \in Nat \ {0}
         /\ \A a \in Slots : /\ kept[a] \in Seq(Nat) /\ Len(kept[a]) \in Nat
                             /\ \A k \in 1 .. Len(kept[a]) : kept[a][k] \in Nat
  <1>1. /\ Depth \in Nat \ {0} /\ DOMAIN frames = 1 .. Depth
        /\ \A d \in 1 .. Depth : frames[d] \in Nat
    BY DEF ScratchTypeOK, Depth
  <1>2. /\ Newest \in Nat /\ Open = 1 .. Newest
        /\ \A s \in 1 .. Newest : scopes[s] \in ScopeRecord
    BY DEF ScratchTypeOK, Newest, Open
  <1>3. \A s \in 1 .. Newest : /\ scopes[s].arena \in Slots /\ scopes[s].mark \in Nat
                               /\ scopes[s].frame \in Nat \ {0}
    BY <1>2 DEF ScopeRecord
  <1>4. ASSUME NEW a \in Slots
        PROVE  /\ kept[a] \in Seq(Nat) /\ Len(kept[a]) \in Nat
               /\ \A k \in 1 .. Len(kept[a]) : kept[a][k] \in Nat
    <2>1. kept[a] \in Seq(Nat)
      BY DEF ScratchTypeOK
    <2> QED
      BY <2>1
  <1> QED
    BY <1>1, <1>2, <1>3, <1>4

\* The order of scopes, over their numbers.
LEMMA ScopesOrder ==
  ASSUME ScratchInv, NEW s \in 1 .. Newest, NEW t \in 1 .. Newest, s < t
  PROVE  /\ scopes[s].frame <= scopes[t].frame
         /\ scopes[s].arena = scopes[t].arena => scopes[s].mark <= scopes[t].mark
  <1>1. s \in Open /\ t \in Open
    BY TypeFacts DEF ScratchInv
  <1> QED
    BY <1>1 DEF ScratchInv, ScopesInv

LEMMA ScopesFacts ==
  ASSUME ScratchInv, NEW s \in 1 .. Newest
  PROVE  /\ scopes[s].frame <= Depth
         /\ scopes[s].mark <= Len(kept[scopes[s].arena])
         /\ \A k \in scopes[s].mark + 1 .. Len(kept[scopes[s].arena]) :
              kept[scopes[s].arena][k] >= s
  <1>1. Open = 1 .. Newest
    BY TypeFacts DEF ScratchInv
  <1> QED
    BY <1>1 DEF ScratchInv, ScopesInv, ResultsSurvive, Open

\* What a function's parameter is.
LEMMA FramesFacts ==
  ASSUME ScratchInv, NEW d \in 1 .. Depth
  PROVE  /\ frames[d] \in Nat /\ frames[d] <= Newest
         /\ frames[d] # 0 =>
              /\ frames[d] \in 1 .. Newest /\ scopes[frames[d]].frame < d
              /\ \A s \in 1 .. Newest : s > frames[d] /\ scopes[s].frame <= d
                                          => scopes[s].arena # scopes[frames[d]].arena
  <1>1. /\ Open = 1 .. Newest /\ Newest \in Nat
        /\ DOMAIN frames = 1 .. Depth /\ frames[d] \in Nat
    BY TypeFacts DEF ScratchInv
  <1>2. /\ frames[d] <= Newest
        /\ frames[d] # 0 =>
             /\ scopes[frames[d]].frame < d
             /\ \A s \in 1 .. Newest : s > frames[d] /\ scopes[s].frame <= d
                                         => scopes[s].arena # scopes[frames[d]].arena
    BY <1>1 DEF ScratchInv, FramesInv
  <1> QED
    BY <1>1, <1>2

LEMMA InitScratchInv == ScratchInit => ScratchInv
  <1> SUFFICES ASSUME ScratchInit PROVE ScratchInv
    OBVIOUS
  <1>1. /\ frames = <<0>> /\ scopes = <<>> /\ kept = [a \in Slots |-> <<>>]
        /\ Len(frames) = 1 /\ DOMAIN frames = {1} /\ frames[1] = 0
        /\ Len(scopes) = 0 /\ DOMAIN scopes = {}
    BY DEF ScratchInit
  <1>2. ScratchTypeOK
    <2>1. <<0>> \in Seq(Nat) /\ <<0>> # <<>>
      OBVIOUS
    <2>2. <<>> \in Seq(ScopeRecord) /\ <<>> \in Seq(Nat)
      OBVIOUS
    <2> QED
      BY <1>1, <2>1, <2>2 DEF ScratchTypeOK
  <1> QED
    BY <1>1, <1>2
    DEF ScratchInv, ScopesInv, FramesInv, ResultsSurvive, Open, Depth, Newest

LEMMA CallKeeps ==
  ASSUME ScratchInv, NEW into \in 0 .. MaxScopes, Call(into)
  PROVE  ScratchInv'
  <1>1. ScratchTypeOK
    BY DEF ScratchInv
  <1>2. /\ frames' = Append(frames, into)
        /\ scopes' = scopes /\ kept' = kept
        /\ into \in Nat
    BY ScratchAssumption DEF Call
  <1>3. /\ frames' \in Seq(Nat) /\ frames' # <<>>
        /\ Depth' = Depth + 1 /\ DOMAIN frames' = 1 .. Depth + 1
        /\ \A d \in 1 .. Depth : frames'[d] = frames[d]
        /\ frames'[Depth + 1] = into
    BY <1>1, <1>2, AppendFacts DEF ScratchTypeOK, Depth
  <1>4. ScratchTypeOK'
    BY <1>1, <1>2, <1>3 DEF ScratchTypeOK
  <1>5. ScopesInv'
    BY <1>1, <1>2, <1>3, TypeFacts DEF ScratchInv, ScopesInv, Open
  <1>6. \/ into = 0
        \/ into = Parameter /\ Parameter # 0
        \/ into = Newest /\ Newest > 0 /\ scopes[Newest].frame = Depth
    BY DEF Call, Own
  <1>7. /\ into <= Newest
        /\ into # 0 => /\ scopes[into].frame < Depth + 1
                       /\ \A s \in Open : s > into
                            => scopes[s].arena # scopes[into].arena
    <2>1. CASE into = 0
      BY <1>1, <2>1, TypeFacts
    <2>2. CASE into = Parameter /\ Parameter # 0
      BY <1>1, <2>2, TypeFacts DEF ScratchInv, FramesInv, ScopesInv, Parameter, Open
    <2>3. CASE into = Newest /\ Newest > 0 /\ scopes[Newest].frame = Depth
      BY <1>1, <2>3, TypeFacts
    <2> QED
      BY <1>6, <2>1, <2>2, <2>3
  <1>8. FramesInv'
    BY <1>1, <1>2, <1>3, <1>7, TypeFacts DEF ScratchInv, FramesInv, Open, Newest
  <1>9. ResultsSurvive'
    BY <1>2 DEF ScratchInv, ResultsSurvive
  <1> QED
    BY <1>4, <1>5, <1>8, <1>9 DEF ScratchInv

LEMMA BeginKeeps == ASSUME ScratchInv, Begin PROVE ScratchInv'
  <1> DEFINE a == GetScratch(Conflicts)
             r == [arena |-> a, mark |-> Len(kept[a]), frame |-> Depth]
  <1>1. ScratchTypeOK
    BY DEF ScratchInv
  <1>2. scopes' = Append(scopes, r) /\ frames' = frames /\ kept' = kept
    BY DEF Begin
  <1>3. a \in Slots
    BY DEF GetScratch, Slots
  <1>4. Parameter # 0 => a # scopes[Parameter].arena
    <2>1. Parameter # 0 => scopes[Parameter].arena \in {0, 1}
      BY <1>1, TypeFacts DEF ScratchInv, FramesInv, Parameter, Slots
    <2> QED
      BY <2>1 DEF GetScratch, Conflicts
  <1>5. r \in ScopeRecord
    BY <1>1, <1>3, TypeFacts DEF ScopeRecord
  <1>6. r.arena = a /\ r.mark = Len(kept[a]) /\ r.frame = Depth
    OBVIOUS
  <1> HIDE DEF r
  <1>7. /\ scopes' \in Seq(ScopeRecord)
        /\ Newest' = Newest + 1 /\ Open' = 1 .. Newest + 1
        /\ \A s \in 1 .. Newest : scopes'[s] = scopes[s]
        /\ scopes'[Newest + 1] = r
    BY <1>1, <1>2, <1>5, AppendFacts DEF ScratchTypeOK, Newest, Open
  <1> HIDE DEF a
  <1>8. ScratchTypeOK'
    BY <1>1, <1>2, <1>7 DEF ScratchTypeOK
  <1>9. Depth' = Depth
    BY <1>2 DEF Depth
  <1>10. ScopesInv'
    <2>1. Newest \in Nat /\ Depth \in Nat
      BY <1>1, TypeFacts
    <2>2. \A s \in 1 .. Newest : /\ scopes[s].frame <= Depth
                                 /\ scopes[s].arena = a => scopes[s].mark <= Len(kept[a])
      BY ScopesFacts
    <2>3. \A s \in 1 .. Newest + 1 : scopes'[s].frame <= Depth
      BY <1>6, <1>7, <2>1, <2>2
    <2>4. ASSUME NEW s \in 1 .. Newest + 1, NEW t \in 1 .. Newest + 1, s < t
          PROVE  /\ scopes'[s].frame <= scopes'[t].frame
                 /\ scopes'[s].arena = scopes'[t].arena => scopes'[s].mark <= scopes'[t].mark
      <3>1. s \in 1 .. Newest /\ scopes'[s] = scopes[s]
        BY <1>7, <2>1, <2>4
      <3>2. CASE t = Newest + 1
        BY <1>6, <1>7, <2>2, <3>1, <3>2
      <3>3. CASE t \in 1 .. Newest
        BY <1>7, <2>4, <3>1, <3>3, ScopesOrder
      <3> QED
        BY <2>1, <3>2, <3>3
    <2> QED
      BY <1>7, <1>9, <2>3, <2>4 DEF ScopesInv
  <1>11. FramesInv'
    <2> SUFFICES ASSUME NEW d \in DOMAIN frames'
                 PROVE  /\ frames'[d] <= Newest'
                        /\ frames'[d] # 0 =>
                             /\ scopes'[frames'[d]].frame < d
                             /\ \A s \in Open' :
                                  s > frames'[d] /\ scopes'[s].frame <= d
                                    => scopes'[s].arena # scopes'[frames'[d]].arena
      BY DEF FramesInv
    <2>5. Newest' = Newest + 1 /\ Open' = 1 .. Newest + 1 /\ DOMAIN frames' = 1 .. Depth
      BY <1>1, <1>2, <1>7, TypeFacts
    <2>6. d \in 1 .. Depth
      BY ONLY <2>5
    <2>1. Newest \in Nat /\ Depth \in Nat
      BY <1>1, TypeFacts
    <2>2. frames[d] \in Nat /\ frames[d] <= Newest
      BY <2>6, FramesFacts
    <2>3. ASSUME frames[d] # 0
          PROVE  /\ frames[d] \in 1 .. Newest /\ scopes'[frames[d]] = scopes[frames[d]]
                 /\ scopes[frames[d]].frame < d
      BY <1>7, <2>3, <2>6, FramesFacts
    <2>4. ASSUME frames[d] # 0, NEW s \in 1 .. Newest + 1, s > frames[d],
                 scopes'[s].frame <= d
          PROVE  scopes'[s].arena # scopes[frames[d]].arena
      <3>1. CASE s \in 1 .. Newest
        BY <1>7, <2>4, <2>6, <3>1, FramesFacts
      <3>2. CASE s = Newest + 1
        <4>1. d = Depth
          BY <1>6, <1>7, <2>1, <2>4, <2>6, <3>2
        <4> QED
          BY <1>4, <1>6, <1>7, <2>4, <3>2, <4>1 DEF Parameter
      <3> QED
        BY <2>1, <3>1, <3>2
    <2>7. /\ frames[d] <= Newest + 1
          /\ frames[d] # 0 =>
               /\ scopes'[frames[d]].frame < d
               /\ \A s \in 1 .. Newest + 1 :
                    s > frames[d] /\ scopes'[s].frame <= d
                      => scopes'[s].arena # scopes'[frames[d]].arena
      BY <2>1, <2>2, <2>3, <2>4
    <2> QED
      BY ONLY <1>2, <2>5, <2>7
  <1>12. ResultsSurvive'
    BY <1>1, <1>2, <1>3, <1>6, <1>7, TypeFacts DEF ScratchInv, ResultsSurvive, Open
  <1> QED
    BY <1>8, <1>10, <1>11, <1>12 DEF ScratchInv

LEMMA PushKeeps ==
  ASSUME ScratchInv, NEW p \in Open, PushTo(p),
         \A s \in Open : s > p => scopes[s].arena # scopes[p].arena
  PROVE  ScratchInv'
  <1> DEFINE a == scopes[p].arena
             k == Append(kept[a], p)
  <1>1. ScratchTypeOK
    BY DEF ScratchInv
  <1>2. a \in Slots /\ p \in Nat /\ kept[a] \in Seq(Nat)
    BY <1>1, TypeFacts
  <1>3. frames' = frames /\ scopes' = scopes /\ kept' = [kept EXCEPT ![a] = k]
    BY DEF PushTo
  <1>4. /\ k \in Seq(Nat) /\ Len(k) = Len(kept[a]) + 1
        /\ \A i \in 1 .. Len(kept[a]) : k[i] = kept[a][i]
        /\ k[Len(kept[a]) + 1] = p
    BY <1>2, AppendFacts
  <1>5. kept'[a] = k /\ \A b \in Slots \ {a} : kept'[b] = kept[b]
    BY <1>1, <1>2, <1>3 DEF ScratchTypeOK
  <1> HIDE DEF k
  <1>6. ScratchTypeOK'
    BY <1>1, <1>2, <1>3, <1>4 DEF ScratchTypeOK
  <1>7. ScopesInv' /\ FramesInv'
    BY <1>3 DEF ScratchInv, ScopesInv, FramesInv, Open, Depth, Newest
  <1>8. ResultsSurvive'
    <2> SUFFICES ASSUME NEW s \in 1 .. Newest
                 PROVE  /\ scopes[s].mark <= Len(kept'[scopes[s].arena])
                        /\ \A i \in scopes[s].mark + 1 .. Len(kept'[scopes[s].arena]) :
                             kept'[scopes[s].arena][i] >= s
      BY <1>1, <1>3, TypeFacts DEF ResultsSurvive, Open
    <2>1. /\ scopes[s].mark \in Nat /\ scopes[s].arena \in Slots
          /\ scopes[s].mark <= Len(kept[scopes[s].arena])
          /\ \A i \in scopes[s].mark + 1 .. Len(kept[scopes[s].arena]) :
               kept[scopes[s].arena][i] >= s
      BY <1>1, TypeFacts DEF ScratchInv, ResultsSurvive, Open
    <2>2. CASE scopes[s].arena # a
      BY <1>5, <2>1, <2>2
    <2>3. CASE scopes[s].arena = a
      <3>1. p >= s
        BY <1>1, <1>2, <2>3, TypeFacts
      <3>2. Len(kept[a]) \in Nat
        BY <1>1, <1>2, TypeFacts
      <3>3. \A i \in scopes[s].mark + 1 .. Len(kept[a]) : kept[a][i] >= s
        BY <2>1, <2>3
      <3>4. ASSUME NEW i \in scopes[s].mark + 1 .. Len(k) PROVE k[i] >= s
        <4>1. i \in 1 .. Len(kept[a]) + 1
          BY <1>4, <2>1, <3>2
        <4>2. CASE i = Len(kept[a]) + 1
          BY <1>4, <3>1, <4>2
        <4>3. CASE i \in 1 .. Len(kept[a])
          <5>1. i \in scopes[s].mark + 1 .. Len(kept[a])
            BY <2>1, <3>2, <4>3
          <5>2. k[i] = kept[a][i]
            BY <1>4, <4>3
          <5> QED
            BY <3>3, <5>1, <5>2
        <4> QED
          BY <3>2, <4>1, <4>2, <4>3
      <3>5. scopes[s].mark <= Len(k)
        <4>1. scopes[s].mark <= Len(kept[a])
          BY <2>1, <2>3
        <4> QED
          BY <1>4, <2>1, <3>2, <4>1
      <3>6. kept'[scopes[s].arena] = k
        BY <1>5, <2>3
      <3> QED
        BY <3>4, <3>5, <3>6
    <2> QED
      BY <2>2, <2>3
  <1> QED
    BY <1>6, <1>7, <1>8 DEF ScratchInv

LEMMA EndKeeps == ASSUME ScratchInv, End PROVE ScratchInv'
  <1> DEFINE n == Newest
             a == scopes[n].arena
             m == scopes[n].mark
             k == SubSeq(kept[a], 1, m)
  <1>1. ScratchTypeOK
    BY DEF ScratchInv
  <1>2. /\ n > 0 /\ scopes[n].frame = Depth
        /\ frames' = frames /\ scopes' = SubSeq(scopes, 1, n - 1)
        /\ kept' = [kept EXCEPT ![a] = k]
    BY DEF End, Own
  <1>3. /\ n \in 1 .. Newest /\ a \in Slots /\ kept[a] \in Seq(Nat)
        /\ m \in 0 .. Len(kept[a])
    <2>1. n \in 1 .. Newest
      BY <1>1, <1>2, TypeFacts
    <2> HIDE DEF n
    <2> QED
      BY <1>1, <2>1, TypeFacts, SMTT(30) DEF ScratchInv, ResultsSurvive, Open
  <1>4. /\ k \in Seq(Nat) /\ Len(k) = m
        /\ \A i \in 1 .. m : k[i] = kept[a][i]
    <2> HIDE DEF m, a
    <2> QED
      BY <1>3, CutFacts
  <1>5. kept'[a] = k /\ \A b \in Slots \ {a} : kept'[b] = kept[b]
    BY <1>1, <1>2, <1>3 DEF ScratchTypeOK
  <1>6. /\ scopes' \in Seq(ScopeRecord) /\ Newest' = n - 1 /\ Open' = 1 .. n - 1
        /\ \A s \in 1 .. n - 1 : scopes'[s] = scopes[s]
    <2>1. n - 1 \in 0 .. Len(scopes)
      BY <1>1, <1>3, TypeFacts DEF Newest
    <2> HIDE DEF n
    <2> QED
      BY <1>1, <1>2, <2>1, CutFacts DEF ScratchTypeOK, Newest, Open
  <1> HIDE DEF k
  <1>7. ScratchTypeOK'
    BY <1>1, <1>2, <1>3, <1>4, <1>6 DEF ScratchTypeOK
  <1>8. Depth' = Depth
    BY <1>2 DEF Depth
  <1>9. ScopesInv'
    <2>1. \A s \in 1 .. n - 1 : s \in 1 .. Newest
      BY <1>1, TypeFacts
    <2> HIDE DEF n
    <2>2. \A s \in 1 .. n - 1 : scopes'[s].frame <= Depth
      BY <1>6, <2>1, ScopesFacts
    <2>3. \A s, t \in 1 .. n - 1 : s < t =>
             /\ scopes'[s].frame <= scopes'[t].frame
             /\ scopes'[s].arena = scopes'[t].arena => scopes'[s].mark <= scopes'[t].mark
      BY <1>6, <2>1, ScopesOrder
    <2> QED
      BY <1>6, <1>8, <2>2, <2>3 DEF ScopesInv
  <1>10. FramesInv'
    <2> SUFFICES ASSUME NEW d \in 1 .. Depth
                 PROVE  /\ frames[d] <= n - 1
                        /\ frames[d] # 0 =>
                             /\ scopes'[frames[d]].frame < d
                             /\ \A s \in 1 .. n - 1 :
                                  s > frames[d] /\ scopes'[s].frame <= d
                                    => scopes'[s].arena # scopes'[frames[d]].arena
      BY <1>1, <1>2, <1>6, TypeFacts DEF FramesInv
    <2>1. /\ frames[d] \in Nat /\ frames[d] <= n
          /\ frames[d] # 0 =>
               /\ frames[d] \in 1 .. n /\ scopes[frames[d]].frame < d
               /\ \A s \in 1 .. n : s > frames[d] /\ scopes[s].frame <= d
                                    => scopes[s].arena # scopes[frames[d]].arena
      BY FramesFacts
    <2>2. n \in Nat /\ Depth \in Nat
      BY <1>1, TypeFacts
    <2> HIDE DEF n
    <2>3. frames[d] # 0 => scopes[frames[d]].frame # Depth
      <3>1. ASSUME frames[d] # 0 PROVE scopes[frames[d]].frame \in Nat
        BY <1>1, <2>1, <3>1, TypeFacts DEF n
      <3> QED
        BY <2>1, <2>2, <3>1
    <2>4. frames[d] # n
      BY <1>2, <2>2, <2>3
    <2>5. frames[d] # 0 => frames[d] \in 1 .. n - 1
      BY <2>1, <2>2, <2>4
    <2>6. \A s \in 1 .. n - 1 : s \in 1 .. n
      BY <2>2
    <2> QED
      BY <1>2, <1>6, <2>1, <2>2, <2>4, <2>5, <2>6
  <1>11. ResultsSurvive'
    <2> SUFFICES ASSUME NEW s \in 1 .. n - 1
                 PROVE  /\ scopes[s].mark <= Len(kept'[scopes[s].arena])
                        /\ \A i \in scopes[s].mark + 1 .. Len(kept'[scopes[s].arena]) :
                             kept'[scopes[s].arena][i] >= s
      BY <1>6 DEF ResultsSurvive, Open
    <2>1. /\ scopes[s].mark \in Nat /\ scopes[s].arena \in Slots
          /\ scopes[s].mark <= Len(kept[scopes[s].arena])
          /\ \A i \in scopes[s].mark + 1 .. Len(kept[scopes[s].arena]) :
               kept[scopes[s].arena][i] >= s
      <3>1. s \in 1 .. Newest /\ s \in DOMAIN scopes
        BY <1>1, <1>3, TypeFacts DEF Open
      <3>2. scopes[s].mark \in Nat /\ scopes[s].arena \in Slots
        BY <1>1, <3>1, TypeFacts
      <3> QED
        BY <3>1, <3>2 DEF ScratchInv, ResultsSurvive
    <2>2. CASE scopes[s].arena # a
      BY <1>5, <2>1, <2>2
    <2>3. CASE scopes[s].arena = a
      <3>1. scopes[s].mark <= m
        <4>1. n \in 1 .. Newest /\ s \in 1 .. Newest /\ s < n
          BY <1>1, <1>3, TypeFacts
        <4> QED
          BY <2>3, <4>1, ScopesOrder
      <3>2. m \in Nat /\ m <= Len(kept[a]) /\ Len(kept[a]) \in Nat
        BY <1>1, <1>3, TypeFacts
      <3> HIDE DEF m, a, n
      <3>3. \A i \in scopes[s].mark + 1 .. m : i \in 1 .. m /\ kept[a][i] >= s
        BY <2>1, <2>3, <3>1, <3>2
      <3> QED
        BY <1>4, <1>5, <2>1, <2>3, <3>1, <3>3
    <2> QED
      BY <2>2, <2>3
  <1> QED
    BY <1>7, <1>9, <1>10, <1>11 DEF ScratchInv

LEMMA ReturnKeeps == ASSUME ScratchInv, Return PROVE ScratchInv'
  <1>1. ScratchTypeOK
    BY DEF ScratchInv
  <1>2. /\ Depth > 1 /\ ~Own
        /\ frames' = SubSeq(frames, 1, Depth - 1) /\ scopes' = scopes /\ kept' = kept
    BY DEF Return
  <1>3. /\ frames' \in Seq(Nat) /\ DOMAIN frames' = 1 .. Depth - 1 /\ Depth' = Depth - 1
        /\ \A d \in 1 .. Depth - 1 : frames'[d] = frames[d]
    <2>1. Depth - 1 \in 0 .. Len(frames)
      BY <1>1, <1>2, TypeFacts DEF Depth
    <2> QED
      BY <1>1, <1>2, <2>1, CutFacts DEF ScratchTypeOK, Depth
  <1>4. frames' # <<>>
    <2>1. Depth \in Nat
      BY <1>1, TypeFacts
    <2> QED
      <3>1. Depth' # 0
        BY <1>2, <1>3, <2>1
      <3>2. frames' = <<>> => Depth' = 0
        BY DEF Depth
      <3> QED
        BY <3>1, <3>2
  <1>5. ScratchTypeOK'
    BY <1>1, <1>2, <1>3, <1>4 DEF ScratchTypeOK
  <1>6. \A s \in 1 .. Newest : scopes[s].frame <= Depth - 1
    <2> SUFFICES ASSUME NEW s \in 1 .. Newest PROVE scopes[s].frame <= Depth - 1
      OBVIOUS
    <2>1. /\ Newest \in 1 .. Newest /\ scopes[Newest].frame # Depth
          /\ scopes[Newest].frame <= Depth
      BY <1>1, <1>2, TypeFacts DEF ScratchInv, ScopesInv, Own
    <2>2. s = Newest \/ scopes[s].frame <= scopes[Newest].frame
      <3>1. s \in Nat /\ Newest \in Nat /\ s <= Newest
        BY <1>1, TypeFacts
      <3> QED
        BY <2>1, <3>1, ScopesOrder
    <2> QED
      BY <1>1, <2>1, <2>2, TypeFacts
  <1>7. ScopesInv'
    BY <1>1, <1>2, <1>3, <1>6, TypeFacts DEF ScratchInv, ScopesInv, Open
  <1>8. FramesInv'
    BY <1>1, <1>2, <1>3, TypeFacts DEF ScratchInv, FramesInv, Open, Newest
  <1>9. ResultsSurvive'
    BY <1>2 DEF ScratchInv, ResultsSurvive
  <1> QED
    BY <1>5, <1>7, <1>8, <1>9 DEF ScratchInv

LEMMA NextScratchInv == ScratchInv /\ [ScratchNext]_scratchVars => ScratchInv'
  <1> SUFFICES ASSUME ScratchInv, [ScratchNext]_scratchVars PROVE ScratchInv'
    OBVIOUS
  <1>0. ScratchTypeOK
    BY DEF ScratchInv
  <1>1. CASE \E into \in 0 .. MaxScopes : Call(into)
    BY <1>1, CallKeeps
  <1>2. CASE Begin
    BY <1>2, BeginKeeps
  <1>3. CASE PushResult
    <2>1. /\ Parameter \in Open
          /\ \A s \in Open : s > Parameter => scopes[s].arena # scopes[Parameter].arena
      <3>1. Depth \in 1 .. Depth /\ Open = 1 .. Newest
        BY <1>0, TypeFacts
      <3>2. frames[Depth] # 0
        BY <1>3 DEF PushResult, Parameter
      <3>3. /\ frames[Depth] \in 1 .. Newest
            /\ \A s \in 1 .. Newest : s > frames[Depth] /\ scopes[s].frame <= Depth
                                        => scopes[s].arena # scopes[frames[Depth]].arena
        BY <3>1, <3>2, FramesFacts
      <3>4. \A s \in 1 .. Newest : scopes[s].frame <= Depth
        BY ScopesFacts
      <3> QED
        BY <3>1, <3>3, <3>4 DEF Parameter
    <2> QED
      BY <1>3, <2>1, PushKeeps DEF PushResult
  <1>4. CASE PushScratch
    <2>1. Newest \in Open /\ \A s \in Open : ~(s > Newest)
      BY <1>0, <1>4, TypeFacts DEF PushScratch, Own
    <2> QED
      BY <1>4, <2>1, PushKeeps DEF PushScratch
  <1>5. CASE End
    BY <1>5, EndKeeps
  <1>6. CASE Return
    BY <1>6, ReturnKeeps
  <1>7. CASE UNCHANGED scratchVars
    BY <1>7 DEF scratchVars, ScratchInv, ScratchTypeOK, ScopesInv, FramesInv, ResultsSurvive,
                Open, Depth, Newest
  <1> QED
    BY <1>1, <1>2, <1>3, <1>4, <1>5, <1>6, <1>7 DEF ScratchNext

LEMMA ScratchInvariant == ScratchSpec => []ScratchInv
  BY InitScratchInv, NextScratchInv, PTL DEF ScratchSpec

----------------------------------------------------------------------------
\* Calls, scopes and what is allocated keep their shapes (base_thread_context.h's TCTX).
THEOREM ScratchTypeCorrect == ScratchSpec => []ScratchTypeOK
  <1>1. ScratchInv => ScratchTypeOK
    BY DEF ScratchInv
  <1> QED
    BY <1>1, ScratchInvariant, PTL

\* The end of a scope drops only what was allocated for it, whatever functions call one
\* another and whatever they allocate for their callers (tctx_get_scratch's conflicts).
THEOREM ResultsAreKept == ScratchSpec => []ResultsSurvive
  <1>1. ScratchInv => ResultsSurvive
    BY DEF ScratchInv
  <1> QED
    BY <1>1, ScratchInvariant, PTL

----------------------------------------------------------------------------
(***************************************************************************)
(* The glyph atlas.  Bitmaps keep their gutters, for any sizes of the      *)
(* texture and of the glyphs, and any order.  A bitmap lies either above   *)
(* the current shelf, or on it and left of its end: that is the invariant. *)
(***************************************************************************)

InAtlas(a) == a.x + a.w + 1 <= AtlasSize /\ a.y + a.h + 1 <= AtlasSize

\* Bitmap a has been left behind by shelf s.
Behind(a, s) == \/ a.y + a.h + 1 <= s.y
                \/ a.y = s.y /\ a.x + a.w + 1 <= s.x /\ a.h + 1 <= s.h

AtlasInv == /\ AtlasTypeOK
            /\ \A i \in DOMAIN packed : InAtlas(packed[i]) /\ Behind(packed[i], shelf)
            /\ \A i, j \in DOMAIN packed : i < j => Apart(packed[i], packed[j])

----------------------------------------------------------------------------
\* The shelf that is left behind ends above the next one, and a bitmap that fits goes
\* behind everything that is packed.
LEMMA RowFacts ==
  ASSUME AtlasTypeOK, NEW w \in 0 .. AtlasSize - 1
  PROVE  /\ Row(w) \in [x : Nat, y : Nat, h : Nat]
         /\ Row(w).x + w + 1 <= AtlasSize
         /\ \A a \in Rectangle : Behind(a, shelf) => Behind(a, Row(w))
  <1>1. /\ shelf \in [x : Nat, y : Nat, h : Nat]
        /\ shelf.x \in Nat /\ shelf.y \in Nat /\ shelf.h \in Nat /\ AtlasSize \in Nat
    BY AtlasAssumption DEF AtlasTypeOK
  <1>2. \A a \in Rectangle : a.x \in Nat /\ a.y \in Nat /\ a.w \in Nat /\ a.h \in Nat
    BY DEF Rectangle
  <1>3. CASE shelf.x + w + 1 > AtlasSize
    <2>1. Row(w) = [x |-> 0, y |-> shelf.y + shelf.h, h |-> 0]
      BY <1>3 DEF Row
    <2> QED
      BY <1>1, <1>2, <2>1 DEF Behind
  <1>4. CASE ~(shelf.x + w + 1 > AtlasSize)
    <2>1. Row(w) = shelf
      BY <1>4 DEF Row
    <2> QED
      BY <1>1, <1>4, <2>1
  <1> QED
    BY <1>3, <1>4

LEMMA PackKeeps ==
  ASSUME AtlasInv, NEW w \in 0 .. AtlasSize - 1, NEW h \in Nat, Pack(w, h),
         glyphs' \in Seq([key : GlyphKeys, rect : Nat])
  PROVE  AtlasInv'
  <1> DEFINE r == Row(w)
             e == [x |-> r.x, y |-> r.y, w |-> w, h |-> h]
             s == [x |-> r.x + w + 1, y |-> r.y, h |-> IF r.h >= h + 1 THEN r.h ELSE h + 1]
             n == Len(packed)
  <1>1. AtlasTypeOK
    BY DEF AtlasInv
  <1>2. /\ r.x \in Nat /\ r.y \in Nat /\ r.h \in Nat /\ w \in Nat /\ AtlasSize \in Nat
        /\ r.x + w + 1 <= AtlasSize
    BY <1>1, RowFacts, AtlasAssumption
  <1>3. r.y + h + 1 <= AtlasSize /\ packed' = Append(packed, e) /\ shelf' = s
    BY DEF Pack
  <1>4. e \in Rectangle /\ e.x = r.x /\ e.y = r.y /\ e.w = w /\ e.h = h
    BY <1>2 DEF Rectangle
  <1>5. /\ s \in [x : Nat, y : Nat, h : Nat]
        /\ s.x = r.x + w + 1 /\ s.y = r.y /\ s.h \in Nat /\ s.h >= r.h /\ s.h >= h + 1
    BY <1>2
  <1>6. \A a \in Rectangle : a.x \in Nat /\ a.y \in Nat /\ a.w \in Nat /\ a.h \in Nat
    BY DEF Rectangle
  <1>7. InAtlas(e) /\ Behind(e, s)
    BY <1>2, <1>3, <1>4, <1>5 DEF InAtlas, Behind
  <1>8. ASSUME NEW a \in Rectangle, Behind(a, shelf)
        PROVE  Behind(a, s) /\ Apart(a, e)
    <2>1. Behind(a, r)
      BY <1>1, <1>8, RowFacts
    <2> HIDE DEF r, e, s
    <2>2. a.x \in Nat /\ a.y \in Nat /\ a.w \in Nat /\ a.h \in Nat
      BY <1>6
    <2>3. CASE a.y + a.h + 1 <= r.y
      BY <1>4, <1>5, <2>3 DEF Behind, Apart
    <2>4. CASE a.y = r.y /\ a.x + a.w + 1 <= r.x /\ a.h + 1 <= r.h
      <3>1. a.x + a.w + 1 <= s.x
        <4>1. a.x + a.w + 1 \in Nat /\ r.x \in Nat /\ w \in Nat
          BY <1>2, <2>2, SMTT(30)
        <4>2. a.x + a.w + 1 <= r.x
          BY <2>4
        <4>3. r.x <= r.x + w + 1
          BY <4>1
        <4>4. s.x = r.x + w + 1
          BY <1>5
        <4>5. a.x + a.w + 1 <= r.x + w + 1
          BY <4>1, <4>2, <4>3
        <4> QED
          BY <4>4, <4>5
      <3>2. a.h + 1 <= s.h
        BY <1>2, <1>5, <2>2, <2>4
      <3> QED
        BY <1>4, <1>5, <2>4, <3>1, <3>2 DEF Behind, Apart
    <2> QED
      BY <2>1, <2>3, <2>4 DEF Behind
  <1> HIDE DEF r, e, s
  <1>9. /\ packed' \in Seq(Rectangle)
        /\ n \in Nat /\ DOMAIN packed = 1 .. n /\ DOMAIN packed' = 1 .. n + 1
        /\ \A i \in 1 .. n : packed'[i] = packed[i]
        /\ packed'[n + 1] = e
    BY <1>1, <1>3, <1>4, AppendFacts DEF AtlasTypeOK
  <1>10. \A i \in 1 .. n : /\ packed[i] \in Rectangle
                           /\ InAtlas(packed[i]) /\ Behind(packed[i], shelf)
    <2>1. \A i \in DOMAIN packed : packed[i] \in Rectangle
      BY <1>1 DEF AtlasTypeOK
    <2> QED
      BY <1>9, <2>1 DEF AtlasInv
  <1> HIDE DEF n
  <1>11. AtlasTypeOK'
    BY <1>3, <1>5, <1>9 DEF AtlasTypeOK
  <1>12. \A i \in DOMAIN packed' : InAtlas(packed'[i]) /\ Behind(packed'[i], shelf')
    <2> SUFFICES ASSUME NEW i \in 1 .. n + 1
                 PROVE  InAtlas(packed'[i]) /\ Behind(packed'[i], s)
      BY <1>3, <1>9
    <2>1. CASE i = n + 1
      BY <1>7, <1>9, <2>1
    <2>2. CASE i \in 1 .. n
      BY <1>8, <1>9, <1>10, <2>2
    <2> QED
      BY <1>9, <2>1, <2>2
  <1>13. \A i, j \in DOMAIN packed' : i < j => Apart(packed'[i], packed'[j])
    <2> SUFFICES ASSUME NEW i \in 1 .. n + 1, NEW j \in 1 .. n + 1, i < j
                 PROVE  Apart(packed'[i], packed'[j])
      BY <1>9
    <2>1. i \in 1 .. n
      BY <1>9
    <2>2. CASE j = n + 1
      BY <1>8, <1>9, <1>10, <2>1, <2>2
    <2>3. CASE j \in 1 .. n
      <3>1. Apart(packed[i], packed[j])
        BY <1>9, <2>1, <2>3 DEF AtlasInv
      <3> QED
        BY <1>9, <2>1, <2>3, <3>1
    <2> QED
      BY <1>9, <2>2, <2>3
  <1>14. /\ (\A i \in DOMAIN packed : InAtlas(packed[i]) /\ Behind(packed[i], shelf))'
         /\ (\A i, j \in DOMAIN packed : i < j => Apart(packed[i], packed[j]))'
    BY <1>12, <1>13 DEF InAtlas, Behind, Apart
  <1> QED
    BY <1>11, <1>14 DEF AtlasInv

LEMMA InitAtlasInv == AtlasInit => AtlasInv
  BY DEF AtlasInit, AtlasInv, AtlasTypeOK

LEMMA NextAtlasInv == AtlasInv /\ [AtlasNext]_atlasVars => AtlasInv'
  <1> SUFFICES ASSUME AtlasInv, [AtlasNext]_atlasVars PROVE AtlasInv'
    OBVIOUS
  <1>0. AtlasTypeOK
    BY DEF AtlasInv
  <1>1. CASE PackIcon
    <2>1. Pack(IconDim, IconDim) /\ glyphs' = glyphs
      BY <1>1 DEF PackIcon
    <2>2. IconDim \in 0 .. AtlasSize - 1 /\ IconDim \in Nat
      BY AtlasAssumption
    <2>3. glyphs' \in Seq([key : GlyphKeys, rect : Nat])
      BY <1>0, <2>1 DEF AtlasTypeOK
    <2> QED
      BY <2>1, <2>2, <2>3, PackKeeps
  <1>2. ASSUME NEW k \in GlyphKeys, Insert(k) PROVE AtlasInv'
    <2>1. /\ Ink[k].w \in 0 .. AtlasSize - 1 /\ Ink[k].h \in 0 .. AtlasSize - 1
          /\ Ink[k].h \in Nat
      BY AtlasAssumption
    <2>2. ASSUME NEW i \in Nat, glyphs' = Append(glyphs, [key |-> k, rect |-> i])
          PROVE  glyphs' \in Seq([key : GlyphKeys, rect : Nat])
      BY <1>0, <2>2, AppendProperties DEF AtlasTypeOK
    <2>3. CASE Ink[k].w > 0 /\ Ink[k].h > 0
      <3>1. /\ Pack(Ink[k].w, Ink[k].h)
            /\ glyphs' = Append(glyphs, [key |-> k, rect |-> Len(packed) + 1])
        BY <1>2, <2>3 DEF Insert
      <3>2. Len(packed) + 1 \in Nat
        BY <1>0 DEF AtlasTypeOK
      <3> QED
        BY <2>1, <2>2, <3>1, <3>2, PackKeeps
    <2>4. CASE ~(Ink[k].w > 0 /\ Ink[k].h > 0)
      <3>1. /\ glyphs' = Append(glyphs, [key |-> k, rect |-> 0])
            /\ shelf' = shelf /\ packed' = packed
        BY <1>2, <2>4 DEF Insert
      <3>2. glyphs' \in Seq([key : GlyphKeys, rect : Nat])
        BY <2>2, <3>1
      <3> QED
        BY <3>1, <3>2 DEF AtlasInv, AtlasTypeOK, InAtlas, Behind, Apart
    <2> QED
      BY <2>3, <2>4
  <1>3. CASE UNCHANGED atlasVars
    BY <1>3 DEF atlasVars, AtlasInv, AtlasTypeOK, InAtlas, Behind, Apart
  <1> QED
    BY <1>1, <1>2, <1>3 DEF AtlasNext

LEMMA AtlasInvariant == AtlasSpec => []AtlasInv
  BY InitAtlasInv, NextAtlasInv, PTL DEF AtlasSpec

----------------------------------------------------------------------------
\* The atlas and its table keep their shapes (fnt_cache.c's fnt_g).
THEOREM AtlasTypeCorrect == AtlasSpec => []AtlasTypeOK
  <1>1. AtlasInv => AtlasTypeOK
    BY DEF AtlasInv
  <1> QED
    BY <1>1, AtlasInvariant, PTL

\* No bitmap lies over another one or in its gutter, whatever the sizes of glyphs and
\* the order in which they come up (fnt__atlas_pack).
THEOREM RectanglesStayApart == AtlasSpec => []RectanglesApart
  <1>1. ASSUME AtlasInv PROVE RectanglesApart
    <2>1. DOMAIN packed = 1 .. Len(packed) /\ Len(packed) \in Nat
      BY <1>1 DEF AtlasInv, AtlasTypeOK
    <2>2. ASSUME NEW i \in DOMAIN packed, NEW j \in DOMAIN packed, i # j
          PROVE  Apart(packed[i], packed[j])
      <3>1. CASE i < j
        BY <1>1, <3>1 DEF AtlasInv
      <3>2. CASE j < i
        <4>1. Apart(packed[j], packed[i])
          BY <1>1, <3>2 DEF AtlasInv
        <4> QED
          BY <4>1 DEF Apart
      <3> QED
        BY <2>1, <2>2, <3>1, <3>2
    <2> QED
      BY <1>1, <2>2 DEF AtlasInv, RectanglesApart, InAtlas
  <1> QED
    BY <1>1, AtlasInvariant, PTL

----------------------------------------------------------------------------
(***************************************************************************)
(* The text field: a buffer and a cursor do what a line editor does, for   *)
(* any size of the buffer and any texts.                                   *)
(***************************************************************************)

Stored == Bytes \cup {Zero}
TextBefore == [i \in 1 .. cursor |-> buffer[i - 1]]
TextAfter == [i \in 1 .. len - cursor |-> buffer[cursor + i - 1]]

\* The two halves as sequences.
Halves ==
  /\ cursor \in Nat /\ len - cursor \in Nat
  /\ TextBefore \in Seq(Stored) /\ Len(TextBefore) = cursor
  /\ \A i \in 1 .. cursor : TextBefore[i] = buffer[i - 1]
  /\ TextAfter \in Seq(Stored) /\ Len(TextAfter) = len - cursor
  /\ \A i \in 1 .. len - cursor : TextAfter[i] = buffer[cursor + i - 1]

LEMMA SequenceOf ==
  ASSUME NEW S, NEW n \in Nat, NEW g \in [1 .. n -> S]
  PROVE  g \in Seq(S) /\ Len(g) = n
  OBVIOUS

LEMMA HalvesOfField == FieldTypeOK => Halves
  <1> SUFFICES ASSUME FieldTypeOK PROVE Halves
    OBVIOUS
  <1> USE TextFieldAssumption
  <1>1. cursor \in Nat /\ len - cursor \in Nat /\ cursor <= len /\ len < Cap /\ len \in Nat
    BY DEF FieldTypeOK
  <1>2. TextBefore \in [1 .. cursor -> Stored]
    <2>1. \A i \in 1 .. cursor : buffer[i - 1] \in Stored
      BY <1>1 DEF FieldTypeOK, Places, Stored
    <2> QED
      BY <2>1 DEF TextBefore
  <1>3. TextAfter \in [1 .. len - cursor -> Stored]
    <2>1. \A i \in 1 .. len - cursor : buffer[cursor + i - 1] \in Stored
      BY <1>1 DEF FieldTypeOK, Places, Stored
    <2> QED
      BY <2>1 DEF TextAfter
  <1>4. TextBefore \in Seq(Stored) /\ Len(TextBefore) = cursor
    BY <1>1, <1>2, SequenceOf
  <1>5. TextAfter \in Seq(Stored) /\ Len(TextAfter) = len - cursor
    BY <1>1, <1>3, SequenceOf
  <1> QED
    BY <1>1, <1>4, <1>5 DEF Halves, TextBefore, TextAfter

\* r is b with the first n bytes of t copied to where at is.
FillOf(r, b, at, t, n) ==
  /\ r \in [Places -> Stored]
  /\ \A i \in Places : r[i] = IF at <= i /\ i < at + n THEN t[i - at + 1] ELSE b[i]

\* That is what Filled makes, as long as there are n bytes and they fit.
LEMMA FilledFacts ==
  ASSUME NEW b \in [Places -> Stored], NEW t \in Seq(Stored), NEW at \in Nat, NEW n \in Nat,
         n <= Len(t), at + n <= Cap
  PROVE  FillOf(Filled(b, at, t, n), b, at, t, n)
  <1> USE TextFieldAssumption
  <1>1. \A i \in Places : i \in at .. at + n - 1 => i - at + 1 \in 1 .. Len(t)
    BY DEF Places
  <1>2. \A i \in Places : (IF i \in at .. at + n - 1 THEN t[i - at + 1] ELSE b[i]) \in Stored
    BY <1>1
  <1>3. \A i \in Places : i \in at .. at + n - 1 <=> at <= i /\ i < at + n
    BY DEF Places
  <1> QED
    BY <1>2, <1>3 DEF Filled, FillOf

LEMMA MovedFacts ==
  ASSUME FieldTypeOK, NEW to \in Nat, NEW from \in Nat, NEW n \in Nat,
         from + n <= Cap, to + n <= Cap
  PROVE  /\ Moved(to, from, n) \in [Places -> Stored]
         /\ \A i \in Places :
              Moved(to, from, n)[i] = IF to <= i /\ i < to + n THEN buffer[from + i - to]
                                      ELSE buffer[i]
  <1> USE TextFieldAssumption
  <1>1. \A i \in Places : i \in to .. to + n - 1 => from + i - to \in Places
    BY DEF Places
  <1>2. \A i \in Places :
          (IF i \in to .. to + n - 1 THEN buffer[from + i - to] ELSE buffer[i]) \in Stored
    BY <1>1 DEF FieldTypeOK, Stored
  <1>3. \A i \in Places : i \in to .. to + n - 1 <=> to <= i /\ i < to + n
    BY DEF Places
  <1> QED
    BY <1>2, <1>3 DEF Moved

\* Typing and pasting put the beginning of a text between the two halves.
Inserted(t, n) ==
  /\ buffer' = Filled(Opened(n), cursor, t, n)
  /\ len' = len + n /\ cursor' = cursor + n

LEMMA InsertedFacts ==
  ASSUME FieldTypeOK, NEW t \in Seq(Bytes), NEW n \in Nat \ {0},
         n = Lesser(Len(t), Cap - 1 - len), Inserted(t, n)
  PROVE  FieldTypeOK' /\ Editor!Insert(t)
  <1> USE TextFieldAssumption
  <1>1. /\ cursor \in Nat /\ len \in Nat /\ cursor <= len /\ Len(t) \in Nat
        /\ n <= Len(t) /\ len + n < Cap /\ Cap \in Nat
    BY DEF FieldTypeOK, Lesser
  <1>2. t \in Seq(Stored)
    BY DEF Stored
  <1> DEFINE o == Opened(n)
  <1>3. /\ o \in [Places -> Stored]
        /\ \A i \in Places : o[i] = IF cursor + n <= i /\ i < len + n THEN buffer[i - n]
                                    ELSE buffer[i]
    <2>1. /\ FieldTypeOK /\ cursor \in Nat /\ len - cursor \in Nat /\ cursor + n \in Nat
          /\ cursor + (len - cursor) <= Cap /\ (cursor + n) + (len - cursor) <= Cap
      BY <1>1
    <2>2. /\ o \in [Places -> Stored]
          /\ \A i \in Places :
               o[i] = IF cursor + n <= i /\ i < (cursor + n) + (len - cursor)
                      THEN buffer[cursor + i - (cursor + n)] ELSE buffer[i]
      BY ONLY <2>1, MovedFacts DEF Opened
    <2>3. \A i \in Places : /\ i \in Int /\ cursor + i - (cursor + n) = i - n
                            /\ (cursor + n) + (len - cursor) = len + n
      BY <1>1 DEF Places
    <2> HIDE DEF o
    <2> QED
      BY <2>2, <2>3
  <1> HIDE DEF o
  <1>4. /\ buffer' \in [Places -> Stored]
        /\ \A i \in Places :
             buffer'[i] = IF cursor <= i /\ i < cursor + n THEN t[i - cursor + 1] ELSE o[i]
    <2>1. cursor + n <= Cap /\ buffer' = Filled(o, cursor, t, n)
      BY <1>1 DEF Inserted, o
    <2>2. cursor \in Nat /\ n \in Nat /\ n <= Len(t)
      BY <1>1
    <2>3. o \in [Places -> Stored]
      BY <1>3
    <2>4. FillOf(Filled(o, cursor, t, n), o, cursor, t, n)
      BY ONLY <1>2, <2>1, <2>2, <2>3, FilledFacts
    <2> QED
      BY ONLY <2>1, <2>4 DEF FillOf
  <1>5. FieldTypeOK' /\ cursor' = cursor + n /\ len' = len + n
    BY <1>1, <1>4 DEF FieldTypeOK, Inserted, Stored
  <1>6. Halves /\ Halves'
    BY <1>5, HalvesOfField, PTL
  <1> DEFINE t1 == SubSeq(t, 1, n)
  <1>7. t1 \in Seq(Stored) /\ Len(t1) = n /\ \A i \in 1 .. n : t1[i] = t[i]
    <2>1. \A i \in 1 .. n : t[i] \in Stored
      BY <1>1, <1>2
    <2>2. /\ t1 \in Seq(Stored) /\ Len(t1) = (IF 1 <= n THEN n - 1 + 1 ELSE 0)
          /\ \A i \in 1 .. n - 1 + 1 : t1[i] = t[1 + i - 1]
      BY <2>1, SubSeqProperties
    <2>3. n - 1 + 1 = n /\ \A i \in 1 .. n : 1 + i - 1 = i
      OBVIOUS
    <2> HIDE DEF t1
    <2> QED
      BY <2>2, <2>3
  <1>8. t1 = Editor!Beginning(t, Cap - 1 - len)
    BY <1>1 DEF Editor!Beginning, Lesser
  <1> HIDE DEF t1
  <1>9. TextBefore' = TextBefore \o t1
    <2> DEFINE c == TextBefore \o t1
    <2>1. /\ c \in Seq(Stored) /\ Len(c) = cursor + n
          /\ \A i \in 1 .. cursor + n : c[i] = IF i <= cursor THEN TextBefore[i]
                                               ELSE t1[i - cursor]
      <3>1. TextBefore \in Seq(Stored) /\ Len(TextBefore) = cursor
        BY <1>6 DEF Halves
      <3>2. t1 \in Seq(Stored) /\ Len(t1) = n
        BY <1>7
      <3>3. /\ c \in Seq(Stored)
            /\ Len(c) = Len(TextBefore) + Len(t1)
            /\ \A i \in 1 .. Len(TextBefore) + Len(t1) :
                 c[i] = IF i <= Len(TextBefore) THEN TextBefore[i]
                        ELSE t1[i - Len(TextBefore)]
        BY <3>1, <3>2, ConcatProperties
      <3> HIDE DEF c
      <3> QED
        BY <3>1, <3>2, <3>3
    <2> HIDE DEF c
    <2>2. ASSUME NEW i \in 1 .. cursor + n PROVE TextBefore'[i] = c[i]
      <3>1. TextBefore'[i] = buffer'[i - 1] /\ i - 1 \in Places
        <4>1. \A k \in 1 .. cursor' : TextBefore'[k] = buffer'[k - 1]
          BY <1>6 DEF Halves
        <4>2. i - 1 \in Places
          BY <1>1 DEF Places
        <4> QED
          BY <1>5, <4>1, <4>2
      <3>2. CASE i <= cursor
        <4>1. buffer'[i - 1] = buffer[i - 1]
          BY <1>1, <1>3, <1>4, <3>1, <3>2
        <4>2. i \in 1 .. cursor
          BY <1>1, <3>2
        <4>3. TextBefore[i] = buffer[i - 1]
          BY <1>6, <4>2 DEF Halves
        <4>4. c[i] = TextBefore[i]
          BY <2>1, <3>2
        <4> QED
          BY <3>1, <4>1, <4>3, <4>4
      <3>3. CASE ~(i <= cursor)
        <4>1. buffer'[i - 1] = t[i - cursor] /\ i - cursor \in 1 .. n
          <5>1. /\ (i - 1) - cursor + 1 = i - cursor /\ i - cursor \in 1 .. n
                /\ cursor <= i - 1 /\ i - 1 < cursor + n
            BY <1>1, <3>3
          <5>2. buffer'[i - 1] = t[(i - 1) - cursor + 1]
            BY <1>4, <3>1, <5>1
          <5> QED
            BY <5>1, <5>2
        <4> QED
          BY <1>7, <2>1, <3>1, <3>3, <4>1
      <3> QED
        BY <3>2, <3>3
    <2>3. TextBefore' \in Seq(Stored) /\ Len(TextBefore') = cursor + n
      BY <1>5, <1>6 DEF Halves
    <2> QED
      BY <2>1, <2>2, <2>3, SeqEqual DEF c
  <1>10. TextAfter' = TextAfter
    <2>1. ASSUME NEW i \in 1 .. len - cursor PROVE TextAfter'[i] = TextAfter[i]
      <3> DEFINE p == cursor' + i - 1
      <3>1. TextAfter'[i] = buffer'[p] /\ p \in Places /\ p - n = cursor + i - 1
            /\ cursor + n <= p /\ p < len + n
        <4>1. \A k \in 1 .. len' - cursor' : TextAfter'[k] = buffer'[cursor' + k - 1]
          BY <1>6 DEF Halves
        <4>2. len' - cursor' = len - cursor
          BY <1>1, <1>5
        <4>3. TextAfter'[i] = buffer'[p]
          BY <4>1, <4>2
        <4>4. /\ p \in Places /\ p - n = cursor + i - 1
              /\ cursor + n <= p /\ p < len + n
          BY <1>1, <1>5, SMTT(30) DEF Places
        <4> QED
          BY <4>3, <4>4
      <3> HIDE DEF p
      <3>2. buffer'[p] = buffer[p - n]
        <4>1. ~(p < cursor + n) /\ p < len + n
          BY <1>1, <3>1 DEF Places
        <4>2. buffer'[p] = o[p]
          BY <1>4, <3>1, <4>1
        <4>3. o[p] = buffer[p - n]
          BY <1>3, <3>1
        <4> QED
          BY <4>2, <4>3
      <3>3. TextAfter[i] = buffer[cursor + i - 1]
        BY <1>6 DEF Halves
      <3> QED
        BY <3>1, <3>2, <3>3
    <2>2. /\ TextAfter' \in Seq(Stored) /\ Len(TextAfter') = len - cursor
          /\ TextAfter \in Seq(Stored) /\ Len(TextAfter) = len - cursor
      BY <1>1, <1>5, <1>6 DEF Halves
    <2> QED
      BY <2>1, <2>2, SeqEqual
  <1>11. Editor!Room = Cap - 1 - len
    <2>1. (Cap - 1) - Len(TextBefore) - Len(TextAfter) = Cap - 1 - len
      BY <1>1, <1>6 DEF Halves
    <2> QED
      BY <2>1 DEF Editor!Room, TextBefore, TextAfter
  <1>12. Editor!Insert(t)
    BY <1>8, <1>9, <1>10, <1>11 DEF Editor!Insert, TextBefore, TextAfter
  <1> QED
    BY <1>5, <1>12

LEMMA BackFacts == ASSUME FieldTypeOK, Back PROVE FieldTypeOK' /\ Editor!Backspace
  <1> USE TextFieldAssumption
  <1>1. /\ cursor \in Nat \ {0} /\ len \in Nat /\ cursor <= len /\ len < Cap /\ Cap \in Nat
        /\ cursor' = cursor - 1 /\ len' = len - 1
    BY DEF FieldTypeOK, Back
  <1>2. /\ buffer' \in [Places -> Stored]
        /\ \A i \in Places : buffer'[i] = IF cursor - 1 <= i /\ i < len - 1 THEN buffer[i + 1]
                                          ELSE buffer[i]
    <2>1. /\ cursor - 1 \in Nat /\ cursor \in Nat /\ len - cursor \in Nat
          /\ (cursor - 1) + (len - cursor) <= Cap /\ cursor + (len - cursor) <= Cap
      BY <1>1
    <2> DEFINE m == Moved(cursor - 1, cursor, len - cursor)
    <2>2. /\ m \in [Places -> Stored]
          /\ \A i \in Places :
               m[i] = IF cursor - 1 <= i /\ i < (cursor - 1) + (len - cursor)
                      THEN buffer[cursor + i - (cursor - 1)] ELSE buffer[i]
      BY <2>1, MovedFacts
    <2>3. /\ (cursor - 1) + (len - cursor) = len - 1
          /\ \A i \in Places : cursor + i - (cursor - 1) = i + 1
      BY <1>1 DEF Places
    <2>4. buffer' = m
      BY DEF Back
    <2> HIDE DEF m
    <2> QED
      BY <2>2, <2>3, <2>4
  <1>3. FieldTypeOK'
    BY <1>1, <1>2 DEF FieldTypeOK, Stored
  <1>4. Halves /\ Halves'
    BY <1>3, HalvesOfField, PTL
  <1>5. TextBefore # <<>>
    BY <1>1, <1>4 DEF Halves
  <1>6. TextBefore' = SubSeq(TextBefore, 1, Len(TextBefore) - 1)
    <2> DEFINE c == SubSeq(TextBefore, 1, cursor - 1)
    <2>1. /\ c \in Seq(Stored) /\ Len(c) = cursor - 1
          /\ \A i \in 1 .. cursor - 1 : c[i] = TextBefore[i]
      <3>1. \A i \in 1 .. cursor - 1 : TextBefore[i] \in Stored
        BY <1>1, <1>4 DEF Halves
      <3>2. 1 \in Int /\ cursor - 1 \in Int
        BY <1>1
      <3>3. /\ c \in Seq(Stored)
            /\ Len(c) = (IF 1 <= cursor - 1 THEN (cursor - 1) - 1 + 1 ELSE 0)
            /\ \A i \in 1 .. (cursor - 1) - 1 + 1 : c[i] = TextBefore[1 + i - 1]
        BY <3>1, <3>2, SubSeqProperties
      <3>4. (cursor - 1) - 1 + 1 = cursor - 1 /\ \A i \in 1 .. cursor - 1 : 1 + i - 1 = i
        BY <1>1
      <3> HIDE DEF c
      <3> QED
        BY <1>1, <3>3, <3>4
    <2> HIDE DEF c
    <2>2. ASSUME NEW i \in 1 .. cursor - 1 PROVE TextBefore'[i] = c[i]
      <3>1. TextBefore'[i] = buffer'[i - 1]
        BY <1>1, <1>4 DEF Halves
      <3>2. i - 1 \in Places /\ ~(cursor - 1 <= i - 1) /\ i \in 1 .. cursor
        BY <1>1 DEF Places
      <3>3. TextBefore[i] = buffer[i - 1]
        BY <1>4, <3>2 DEF Halves
      <3>4. buffer'[i - 1] = buffer[i - 1]
        BY <1>2, <3>2
      <3> QED
        BY <2>1, <3>1, <3>3, <3>4
    <2>3. TextBefore' \in Seq(Stored) /\ Len(TextBefore') = cursor - 1
      BY <1>1, <1>4 DEF Halves
    <2>4. TextBefore' = c
      BY <2>1, <2>2, <2>3, SeqEqual
    <2> QED
      BY <1>4, <2>4 DEF c, Halves
  <1>7. TextAfter' = TextAfter
    <2>1. ASSUME NEW i \in 1 .. len - cursor PROVE TextAfter'[i] = TextAfter[i]
      <3>1. len' - cursor' = len - cursor
        BY <1>1
      <3>2. TextAfter'[i] = buffer'[cursor' + i - 1]
        BY <1>4, <3>1 DEF Halves
      <3>3. /\ cursor' + i - 1 \in Places /\ cursor - 1 <= cursor' + i - 1
            /\ cursor' + i - 1 < len - 1 /\ (cursor' + i - 1) + 1 = cursor + i - 1
        BY <1>1 DEF Places
      <3>4. buffer'[cursor' + i - 1] = buffer[cursor + i - 1]
        BY <1>2, <3>3
      <3>5. TextAfter[i] = buffer[cursor + i - 1]
        BY <1>4 DEF Halves
      <3> QED
        BY <3>2, <3>4, <3>5
    <2>2. len' - cursor' = len - cursor
      BY <1>1
    <2>3. /\ TextAfter' \in Seq(Stored) /\ Len(TextAfter') = len - cursor
          /\ TextAfter \in Seq(Stored) /\ Len(TextAfter) = len - cursor
      BY <1>4, <2>2 DEF Halves
    <2> QED
      BY <2>1, <2>3, SeqEqual
  <1>8. Editor!Backspace
    BY <1>5, <1>6, <1>7 DEF Editor!Backspace, TextBefore, TextAfter
  <1> QED
    BY <1>3, <1>8

LEMMA DeleteFacts == ASSUME FieldTypeOK, Delete PROVE FieldTypeOK' /\ Editor!Delete
  <1> USE TextFieldAssumption
  <1>1. /\ cursor \in Nat /\ len \in Nat \ {0} /\ cursor < len /\ len < Cap /\ Cap \in Nat
        /\ cursor' = cursor /\ len' = len - 1
    BY DEF FieldTypeOK, Delete
  <1>2. /\ buffer' \in [Places -> Stored]
        /\ \A i \in Places : buffer'[i] = IF cursor <= i /\ i < len - 1 THEN buffer[i + 1]
                                          ELSE buffer[i]
    <2>1. /\ cursor + 1 \in Nat /\ cursor \in Nat /\ len - cursor - 1 \in Nat
          /\ cursor + (len - cursor - 1) <= Cap /\ (cursor + 1) + (len - cursor - 1) <= Cap
      BY <1>1
    <2> DEFINE m == Moved(cursor, cursor + 1, len - cursor - 1)
    <2>2. /\ m \in [Places -> Stored]
          /\ \A i \in Places :
               m[i] = IF cursor <= i /\ i < cursor + (len - cursor - 1)
                      THEN buffer[(cursor + 1) + i - cursor] ELSE buffer[i]
      BY <2>1, MovedFacts
    <2>3. /\ cursor + (len - cursor - 1) = len - 1
          /\ \A i \in Places : (cursor + 1) + i - cursor = i + 1
      BY <1>1 DEF Places
    <2>4. buffer' = m
      BY DEF Delete
    <2> HIDE DEF m
    <2> QED
      BY <2>2, <2>3, <2>4
  <1>3. FieldTypeOK'
    BY <1>1, <1>2 DEF FieldTypeOK, Stored
  <1>4. Halves /\ Halves'
    BY <1>3, HalvesOfField, PTL
  <1>5. TextAfter # <<>>
    BY <1>1, <1>4 DEF Halves
  <1>6. TextBefore' = TextBefore
    <2>1. ASSUME NEW i \in 1 .. cursor PROVE TextBefore'[i] = TextBefore[i]
      <3>1. TextBefore'[i] = buffer'[i - 1] /\ TextBefore[i] = buffer[i - 1]
        BY <1>1, <1>4 DEF Halves
      <3>2. i - 1 \in Places /\ ~(cursor <= i - 1)
        BY <1>1 DEF Places
      <3> QED
        BY <1>2, <3>1, <3>2
    <2>2. /\ TextBefore' \in Seq(Stored) /\ Len(TextBefore') = cursor
          /\ TextBefore \in Seq(Stored) /\ Len(TextBefore) = cursor
      BY <1>1, <1>4 DEF Halves
    <2> QED
      BY <2>1, <2>2, SeqEqual
  <1>7. TextAfter' = Tail(TextAfter)
    <2> DEFINE c == Tail(TextAfter)
    <2>1. /\ c \in Seq(Stored) /\ Len(c) = len - cursor - 1
          /\ \A i \in 1 .. len - cursor - 1 : c[i] = TextAfter[i + 1]
      <3>1. TextAfter \in Seq(Stored) /\ Len(TextAfter) = len - cursor
        BY <1>4 DEF Halves
      <3>2. /\ c \in Seq(Stored) /\ Len(c) = Len(TextAfter) - 1
            /\ \A i \in 1 .. Len(c) : c[i] = TextAfter[i + 1]
        BY <1>5, <3>1, HeadTailProperties
      <3> HIDE DEF c
      <3> QED
        BY <3>1, <3>2
    <2> HIDE DEF c
    <2>2. len' - cursor' = len - cursor - 1
      BY <1>1
    <2>3. ASSUME NEW i \in 1 .. len - cursor - 1 PROVE TextAfter'[i] = c[i]
      <3>1. TextAfter'[i] = buffer'[cursor' + i - 1]
        BY <1>4, <2>2 DEF Halves
      <3>2. /\ cursor + i - 1 \in Places /\ cursor <= cursor + i - 1
            /\ cursor + i - 1 < len - 1 /\ (cursor + i - 1) + 1 = cursor + (i + 1) - 1
            /\ i + 1 \in 1 .. len - cursor
        BY <1>1 DEF Places
      <3>3. buffer'[cursor + i - 1] = buffer[cursor + (i + 1) - 1]
        BY <1>2, <3>2
      <3>4. TextAfter[i + 1] = buffer[cursor + (i + 1) - 1]
        BY <1>4, <3>2 DEF Halves
      <3> QED
        BY <1>1, <2>1, <3>1, <3>3, <3>4
    <2>4. TextAfter' \in Seq(Stored) /\ Len(TextAfter') = len - cursor - 1
      BY <1>4, <2>2 DEF Halves
    <2>5. TextAfter' = c
      BY <2>1, <2>3, <2>4, SeqEqual
    <2> QED
      BY <2>5 DEF c
  <1>8. Editor!Delete
    BY <1>5, <1>6, <1>7 DEF Editor!Delete, TextBefore, TextAfter
  <1> QED
    BY <1>3, <1>8

LEMMA SetFacts ==
  ASSUME FieldTypeOK, NEW t \in Seq(Bytes), Set(t)
  PROVE  FieldTypeOK' /\ Editor!Set(t)
  <1> USE TextFieldAssumption
  <1> DEFINE n == Lesser(Len(t), Cap - 1)
             b == Filled(buffer, 0, t, n)
             t1 == SubSeq(t, 1, n)
  <1>1. n \in Nat /\ n <= Len(t) /\ n < Cap /\ Cap \in Nat /\ Len(t) \in Nat
    BY DEF Lesser
  <1>2. buffer' = b /\ len' = n /\ cursor' = n
    BY DEF Set
  <1>3. t1 = Editor!Beginning(t, Cap - 1)
    BY <1>1 DEF Editor!Beginning, Lesser
  <1>4. t1 \in Seq(Stored) /\ Len(t1) = n /\ \A i \in 1 .. n : t1[i] = t[i]
    <2> HIDE DEF n
    <2>1. \A i \in 1 .. n : t[i] \in Stored
      BY <1>1 DEF Stored
    <2>2. 1 \in Int /\ n \in Int
      BY <1>1
    <2>3. /\ t1 \in Seq(Stored) /\ Len(t1) = (IF 1 <= n THEN n - 1 + 1 ELSE 0)
          /\ \A i \in 1 .. n - 1 + 1 : t1[i] = t[1 + i - 1]
      BY <2>1, <2>2, SubSeqProperties
    <2>4. n - 1 + 1 = n /\ \A i \in 1 .. n : 1 + i - 1 = i
      BY <1>1
    <2> HIDE DEF t1
    <2> QED
      BY <1>1, <2>3, <2>4
  <1>5. /\ b \in [Places -> Stored]
        /\ \A i \in Places : b[i] = IF 0 <= i /\ i < 0 + n THEN t[i - 0 + 1] ELSE buffer[i]
    <2> HIDE DEF n
    <2>1. buffer \in [Places -> Stored] /\ t \in Seq(Stored) /\ 0 \in Nat /\ 0 + n <= Cap
      BY <1>1 DEF FieldTypeOK, Stored
    <2> QED
      <3>1. FillOf(b, buffer, 0, t, n)
        BY ONLY <1>1, <2>1, FilledFacts
      <3> QED
        BY ONLY <3>1 DEF FillOf
  <1> HIDE DEF n, b, t1
  <1>6. FieldTypeOK'
    BY <1>1, <1>2, <1>5 DEF FieldTypeOK, Stored
  <1>7. Halves'
    BY <1>6, HalvesOfField, PTL
  <1>8. TextBefore' = t1
    <2>1. ASSUME NEW i \in 1 .. n PROVE TextBefore'[i] = t1[i]
      <3>1. TextBefore'[i] = buffer'[i - 1]
        BY <1>2, <1>7 DEF Halves
      <3>2. i - 1 \in Places /\ 0 <= i - 1 /\ i - 1 < 0 + n /\ (i - 1) - 0 + 1 = i
        BY <1>1 DEF Places
      <3>3. b[i - 1] = t[(i - 1) - 0 + 1]
        BY <1>5, <3>2
      <3> QED
        BY <1>2, <1>4, <3>1, <3>2, <3>3
    <2>2. TextBefore' \in Seq(Stored) /\ Len(TextBefore') = n
      BY <1>2, <1>7 DEF Halves
    <2> QED
      BY <1>4, <2>1, <2>2, SeqEqual
  <1>9. TextAfter' = <<>>
    <2>1. TextAfter' \in Seq(Stored) /\ Len(TextAfter') = 0
      BY <1>1, <1>2, <1>7 DEF Halves
    <2> QED
      BY <2>1, EmptySeq
  <1> QED
    BY <1>3, <1>6, <1>8, <1>9 DEF Editor!Set, TextBefore, TextAfter

\* Moving the cursor cuts the same text elsewhere.
LEMMA MoveFacts ==
  ASSUME FieldTypeOK, NEW n \in 0 .. len, cursor' = n, UNCHANGED <<buffer, len>>
  PROVE  FieldTypeOK' /\ Editor!Move(n)
  <1> USE TextFieldAssumption
  <1>1. /\ cursor \in Nat /\ len \in Nat /\ cursor <= len /\ len < Cap /\ Cap \in Nat
        /\ n \in Nat /\ n <= len
    BY DEF FieldTypeOK
  <1>2. FieldTypeOK'
    BY <1>1 DEF FieldTypeOK
  <1>3. Halves /\ Halves'
    BY <1>2, HalvesOfField, PTL
  <1> DEFINE text == TextBefore \o TextAfter
  <1>4. /\ text \in Seq(Stored) /\ Len(text) = len
        /\ \A i \in 1 .. len : text[i] = buffer[i - 1]
    <2>1. /\ TextBefore \in Seq(Stored) /\ Len(TextBefore) = cursor
          /\ TextAfter \in Seq(Stored) /\ Len(TextAfter) = len - cursor
      BY <1>3 DEF Halves
    <2>2. /\ text \in Seq(Stored) /\ Len(text) = Len(TextBefore) + Len(TextAfter)
          /\ \A i \in 1 .. Len(TextBefore) + Len(TextAfter) :
               text[i] = IF i <= Len(TextBefore) THEN TextBefore[i]
                         ELSE TextAfter[i - Len(TextBefore)]
      BY <2>1, ConcatProperties
    <2> HIDE DEF text
    <2>3. Len(text) = len /\ Len(TextBefore) + Len(TextAfter) = len
      BY <1>1, <2>1, <2>2
    <2>4. ASSUME NEW i \in 1 .. len PROVE text[i] = buffer[i - 1]
      <3>1. CASE i <= cursor
        <4>1. i \in 1 .. cursor
          BY <1>1, <3>1
        <4>2. TextBefore[i] = buffer[i - 1]
          BY <1>3, <4>1 DEF Halves
        <4> QED
          BY <2>1, <2>2, <2>3, <3>1, <4>2
      <3>2. CASE ~(i <= cursor)
        <4>1. i - cursor \in 1 .. len - cursor /\ cursor + (i - cursor) - 1 = i - 1
          BY <1>1, <3>2
        <4>2. TextAfter[i - cursor] = buffer[cursor + (i - cursor) - 1]
          BY <1>3, <4>1 DEF Halves
        <4> QED
          BY <2>1, <2>2, <2>3, <3>2, <4>1, <4>2
      <3> QED
        BY <3>1, <3>2
    <2> QED
      BY <2>2, <2>3, <2>4
  <1> HIDE DEF text
  <1>5. TextBefore' = SubSeq(text, 1, n)
    <2> DEFINE c == SubSeq(text, 1, n)
    <2>1. /\ c \in Seq(Stored) /\ Len(c) = n /\ \A i \in 1 .. n : c[i] = text[i]
      <3>1. \A i \in 1 .. n : text[i] \in Stored
        BY <1>1, <1>4
      <3>2. 1 \in Int /\ n \in Int
        BY <1>1
      <3>3. /\ c \in Seq(Stored) /\ Len(c) = (IF 1 <= n THEN n - 1 + 1 ELSE 0)
            /\ \A i \in 1 .. n - 1 + 1 : c[i] = text[1 + i - 1]
        BY <3>1, <3>2, SubSeqProperties
      <3>4. n - 1 + 1 = n /\ \A i \in 1 .. n : 1 + i - 1 = i
        BY <1>1
      <3> HIDE DEF c
      <3>5. Len(c) = n
        BY <1>1, <3>3, <3>4
      <3>6. \A i \in 1 .. n : c[i] = text[i]
        BY ONLY <1>1, <3>3, <3>4
      <3> QED
        BY <3>3, <3>5, <3>6
    <2> HIDE DEF c
    <2>2. \A i \in 1 .. n : TextBefore'[i] = buffer[i - 1]
      BY <1>3 DEF Halves
    <2>3. TextBefore' \in Seq(Stored) /\ Len(TextBefore') = n
      BY <1>3 DEF Halves
    <2>4. \A i \in 1 .. n : TextBefore'[i] = c[i]
      BY <1>1, <1>4, <2>1, <2>2
    <2>5. TextBefore' = c
      BY <2>1, <2>3, <2>4, SeqEqual
    <2> QED
      BY <2>5 DEF c
  <1>6. TextAfter' = SubSeq(text, n + 1, Len(text))
    <2> DEFINE c == SubSeq(text, n + 1, len)
    <2>1. /\ c \in Seq(Stored) /\ Len(c) = len - n
          /\ \A i \in 1 .. len - n : c[i] = text[n + i]
      <3>1. \A i \in n + 1 .. len : text[i] \in Stored
        BY <1>1, <1>4
      <3>2. n + 1 \in Int /\ len \in Int
        BY <1>1
      <3>3. /\ c \in Seq(Stored)
            /\ Len(c) = (IF n + 1 <= len THEN len - (n + 1) + 1 ELSE 0)
            /\ \A i \in 1 .. len - (n + 1) + 1 : c[i] = text[(n + 1) + i - 1]
        BY <3>1, <3>2, SubSeqProperties
      <3>4. len - (n + 1) + 1 = len - n /\ \A i \in 1 .. len - n : (n + 1) + i - 1 = n + i
        BY <1>1
      <3> HIDE DEF c
      <3> QED
        BY <1>1, <3>3, <3>4
    <2> HIDE DEF c
    <2>2. \A i \in 1 .. len - n : TextAfter'[i] = buffer[n + i - 1]
      BY <1>3 DEF Halves
    <2>3. TextAfter' \in Seq(Stored) /\ Len(TextAfter') = len - n
      BY <1>3 DEF Halves
    <2>4. ASSUME NEW i \in 1 .. len - n PROVE TextAfter'[i] = c[i]
      <3>1. n + i \in 1 .. len
        BY <1>1
      <3> QED
        BY <1>4, <2>1, <2>2, <3>1, SMTT(30)
    <2>5. TextAfter' = c
      BY <2>1, <2>3, <2>4, SeqEqual
    <2> QED
      BY <1>4, <2>5 DEF c
  <1> QED
    BY <1>2, <1>5, <1>6 DEF Editor!Move, TextBefore, TextAfter, text

LEMMA CursorFacts ==
  ASSUME FieldTypeOK, MoveCursor
  PROVE  FieldTypeOK' /\ (Editor!Left \/ Editor!Right \/ Editor!Home \/ Editor!End)
  <1> USE TextFieldAssumption
  <1>1. /\ cursor \in Nat /\ len \in Nat /\ cursor <= len /\ len < Cap /\ Cap \in Nat
        /\ UNCHANGED <<buffer, len>>
    BY DEF FieldTypeOK, MoveCursor
  <1>2. Halves
    BY HalvesOfField
  <1>3. Len(TextBefore) = cursor /\ Len(TextAfter) = len - cursor
    BY <1>2 DEF Halves
  <1>4. ASSUME NEW n \in 0 .. len, cursor' = n PROVE FieldTypeOK' /\ Editor!Move(n)
    BY <1>1, <1>4, MoveFacts
  <1>5. CASE cursor > 0 /\ cursor' = cursor - 1
    <2> SUFFICES ASSUME NEW n, n = cursor - 1
                 PROVE  FieldTypeOK' /\ Editor!Left
      BY <1>5
    <2>1. n \in 0 .. len /\ cursor' = n /\ n = Len(TextBefore) - 1
      BY <1>1, <1>3, <1>5
    <2>2. FieldTypeOK' /\ Editor!Move(n)
      BY <1>4, <2>1
    <2>3. TextBefore # <<>>
      BY <1>2, <1>3, <1>5 DEF Halves
    <2> QED
      BY <2>1, <2>2, <2>3 DEF Editor!Left, Editor!Move, TextBefore
  <1>6. CASE cursor < len /\ cursor' = cursor + 1
    <2> SUFFICES ASSUME NEW n, n = cursor + 1
                 PROVE  FieldTypeOK' /\ Editor!Right
      BY <1>6
    <2>1. n \in 0 .. len /\ cursor' = n /\ n = Len(TextBefore) + 1
      BY <1>1, <1>3, <1>6
    <2>2. FieldTypeOK' /\ Editor!Move(n)
      BY <1>4, <2>1
    <2>3. TextAfter # <<>>
      BY <1>1, <1>2, <1>3, <1>6 DEF Halves
    <2> QED
      BY <2>1, <2>2, <2>3 DEF Editor!Right, Editor!Move, TextBefore, TextAfter
  <1>7. CASE cursor' = 0
    <2>1. 0 \in 0 .. len
      BY <1>1
    <2>2. FieldTypeOK' /\ Editor!Move(0)
      BY <1>4, <1>7, <2>1
    <2> QED
      BY <2>2 DEF Editor!Home
  <1>8. CASE cursor' = len
    <2> SUFFICES ASSUME NEW n, n = len
                 PROVE  FieldTypeOK' /\ Editor!End
      BY <1>8
    <2>1. n \in 0 .. len /\ cursor' = n /\ n = Len(TextBefore) + Len(TextAfter)
      BY <1>1, <1>3, <1>8
    <2>2. FieldTypeOK' /\ Editor!Move(n)
      BY <1>4, <2>1
    <2> QED
      BY <2>1, <2>2 DEF Editor!End, Editor!Move, TextBefore, TextAfter
  <1> QED
    BY <1>5, <1>6, <1>7, <1>8 DEF MoveCursor

LEMMA FieldStep ==
  FieldTypeOK /\ [FieldNext]_fieldVars => FieldTypeOK' /\ [Editor!Next]_(Editor!editorVars)
  <1> SUFFICES ASSUME FieldTypeOK, [FieldNext]_fieldVars
               PROVE  FieldTypeOK' /\ [Editor!Next]_(Editor!editorVars)
    OBVIOUS
  <1> USE TextFieldAssumption
  <1>1. /\ \A t \in Texts : Editor!Set(t) \/ Editor!Insert(t) => Editor!Next
        /\ \A b \in Bytes : Editor!Insert(<<b>>) => Editor!Next
        /\ Editor!Backspace \/ Editor!Delete => Editor!Next
        /\ Editor!Left \/ Editor!Right \/ Editor!Home \/ Editor!End => Editor!Next
    BY DEF Editor!Next
  <1>2. CASE UNCHANGED fieldVars
    BY <1>2 DEF fieldVars, FieldTypeOK, Editor!editorVars
  <1>3. CASE \E t \in Texts : Set(t)
    BY <1>1, <1>3, SetFacts
  <1>4. CASE \E t \in Texts : Paste(t)
    <2>1. PICK t \in Texts : Paste(t)
      BY <1>4
    <2> DEFINE n == Lesser(Len(t), Cap - 1 - len)
    <2>2. t \in Seq(Bytes) /\ n > 0 /\ Inserted(t, n)
      BY <2>1 DEF Paste, Inserted
    <2>3. n \in Nat \ {0}
      BY <2>2 DEF Lesser, FieldTypeOK
    <2> HIDE DEF n
    <2>4. FieldTypeOK' /\ Editor!Insert(t)
      BY <2>2, <2>3, InsertedFacts DEF n
    <2> QED
      BY <1>1, <2>4
  <1>5. CASE \E c \in Bytes : Char(c)
    <2>1. PICK c \in Bytes : Char(c)
      BY <1>5
    <2>2. <<c>> \in Seq(Bytes) /\ 1 = Lesser(Len(<<c>>), Cap - 1 - len) /\ 1 \in Nat \ {0}
      BY <2>1 DEF Char, Lesser, FieldTypeOK
    <2>3. Inserted(<<c>>, 1)
      BY <2>1 DEF Char, Inserted
    <2>4. FieldTypeOK' /\ Editor!Insert(<<c>>)
      BY <2>2, <2>3, InsertedFacts
    <2> QED
      BY <1>1, <2>4
  <1> QED
    BY <1>1, <1>2, <1>3, <1>4, <1>5, BackFacts, DeleteFacts, CursorFacts DEF FieldNext

LEMMA FieldStart == FieldInit => FieldTypeOK /\ Editor!Init
  <1> SUFFICES ASSUME FieldInit PROVE FieldTypeOK /\ Editor!Init
    OBVIOUS
  <1>1. FieldTypeOK
    BY TextFieldAssumption DEF FieldInit, FieldTypeOK
  <1>2. Len(TextBefore) = 0 /\ Len(TextAfter) = 0
        /\ TextBefore \in Seq(Stored) /\ TextAfter \in Seq(Stored)
    BY <1>1, HalvesOfField DEF Halves, FieldInit
  <1>3. TextBefore = <<>> /\ TextAfter = <<>>
    BY <1>2, EmptySeq
  <1> QED
    BY <1>1, <1>3 DEF Editor!Init, TextBefore, TextAfter

\* The text stays within its buffer, with room for the byte that ends it.
THEOREM FieldTypeCorrect == FieldSpec => []FieldTypeOK
  BY FieldStart, FieldStep, PTL DEF FieldSpec

\* Every key, paste and reset of a field is a step of a line editor of Cap - 1 bytes
\* (ui_text_edit, ui_text_edit_set, ui_text_edit_set_u16): what is typed or pasted
\* arrives where the cursor is, and nothing else of the text is lost, moved or doubled.
THEOREM FieldsEdit == FieldSpec => TextSpec
  BY FieldStart, FieldStep, FieldTypeCorrect, PTL DEF FieldSpec, TextSpec, Editor!Spec

----------------------------------------------------------------------------
(* Division by a number that is not known.                                 *)

LEMMA ModParts ==
  ASSUME NEW a \in Int, NEW r \in Nat \ {0}
  PROVE  /\ a % r \in 0 .. r - 1 /\ a \div r \in Int
         /\ a = (a \div r) * r + (a % r)
  OBVIOUS

LEMMA ModUnique ==
  ASSUME NEW r \in Nat \ {0}, NEW q \in Int, NEW x \in 0 .. r - 1
  PROVE  (q * r + x) % r = x /\ (q * r + x) \div r = q
  OBVIOUS

LEMMA ModShift ==
  ASSUME NEW r \in Nat \ {0}, NEW n \in Int, NEW x \in Int
  PROVE  (n * r + x) % r = x % r
  <1> DEFINE q == x \div r
             y == x % r
  <1>1. q \in Int /\ y \in 0 .. r - 1 /\ x = q * r + y
    BY ModParts
  <1> HIDE DEF q, y
  <1>2. n * r + x = (n + q) * r + y
    BY <1>1
  <1>3. n + q \in Int
    BY <1>1
  <1>4. ((n + q) * r + y) % r = y
    BY <1>1, <1>3, ModUnique
  <1> QED
    BY <1>2, <1>4 DEF y

\* A remainder by p may be taken first where r divides p.
LEMMA ModNested ==
  ASSUME NEW r \in Nat \ {0}, NEW p \in Nat \ {0}, p % r = 0, NEW a \in Int, NEW d \in Int
  PROVE  ((a % p) + d) % r = (a + d) % r
  <1> DEFINE q == a \div p
             y == a % p
             k == p \div r
  <1>1. q \in Int /\ y \in Int /\ a = q * p + y
    BY ModParts
  <1>2. k \in Int /\ p = k * r
    <2>1. p = k * r + (p % r) /\ k \in Int
      BY ModParts
    <2> HIDE DEF k
    <2> QED
      BY <2>1
  <1> HIDE DEF q, y, k
  <1>3. a + d = (q * k) * r + (y + d)
    BY <1>1, <1>2
  <1>4. q * k \in Int /\ y + d \in Int
    BY <1>1, <1>2
  <1>5. ((q * k) * r + (y + d)) % r = (y + d) % r
    BY <1>4, ModShift
  <1> QED
    BY <1>3, <1>5 DEF y

\* Going on from a place wraps around at most once.
LEMMA ModWraps ==
  ASSUME NEW r \in Nat \ {0}, NEW x \in Int, NEW j \in 0 .. r - 1
  PROVE  (x + j) % r = IF (x % r) + j < r THEN (x % r) + j ELSE (x % r) + j - r
  <1> DEFINE q == x \div r
             y == x % r
  <1>1. q \in Int /\ y \in 0 .. r - 1 /\ x = q * r + y
    BY ModParts
  <1> HIDE DEF q, y
  <1>2. CASE y + j < r
    <2>1. x + j = q * r + (y + j) /\ y + j \in 0 .. r - 1
      BY <1>1, <1>2
    <2>2. (q * r + (y + j)) % r = y + j
      BY <1>1, <2>1, ModUnique
    <2> QED
      BY <1>2, <2>1, <2>2 DEF y
  <1>3. CASE ~(y + j < r)
    <2>1. x + j = (q + 1) * r + (y + j - r) /\ y + j - r \in 0 .. r - 1 /\ q + 1 \in Int
      BY <1>1, <1>3
    <2>2. ((q + 1) * r + (y + j - r)) % r = y + j - r
      BY <2>1, ModUnique
    <2> QED
      BY <1>3, <2>1, <2>2 DEF y
  <1> QED
    BY <1>2, <1>3

\* Numbers less than r apart have different remainders.
LEMMA ModApart ==
  ASSUME NEW r \in Nat \ {0}, NEW x \in Int, NEW y \in Int, x < y, y < x + r
  PROVE  x % r # y % r
  <1> SUFFICES ASSUME x % r = y % r PROVE FALSE
    OBVIOUS
  <1> DEFINE a == x \div r
             b == y \div r
             m == x % r
  <1>1. a \in Int /\ b \in Int /\ m \in Int /\ x = a * r + m /\ y = b * r + m
    BY ModParts
  <1> HIDE DEF a, b, m
  <1>2. y - x = (b - a) * r
    BY <1>1
  <1>3. (b - a) * r > 0 /\ (b - a) * r < r
    BY <1>2
  <1> QED
    BY <1>1, <1>3

LEMMA Multiples ==
  ASSUME NEW m \in Nat, NEW n \in Nat
  PROVE  /\ n * m \in Nat /\ (n + 1) * m = n * m + m /\ (n - 1) * m = n * m - m
         /\ \A k \in 1 .. n : (k - 1) * m \in Nat /\ (k - 1) * m + m <= n * m
  <1>1. ASSUME NEW k \in 1 .. n PROVE (k - 1) * m \in Nat /\ (k - 1) * m + m <= n * m
    OBVIOUS
  <1>2. n * m \in Nat /\ (n + 1) * m = n * m + m /\ (n - 1) * m = n * m - m
    OBVIOUS
  <1> QED
    BY <1>1, <1>2

----------------------------------------------------------------------------
(***************************************************************************)
(* The ring as a bounded queue of whole messages, for any number of        *)
(* threads, any sizes, also those where messages wrap around the ring's    *)
(* end, and positions that wrap around the range of their type.            *)
(***************************************************************************)

\* The cell of the byte d bytes behind the read position.
Cell(d) == (readPos + d) % RingSize

\* The bytes from there on are those of message m.
Holds(d, m) == \A j \in 0 .. MsgSize - 1 : base[Cell(d + j)] = <<m, j>>

Positions == writePos \in 0 .. PosMod - 1 /\ readPos \in 0 .. PosMod - 1

LEMMA CellFacts ==
  ASSUME Positions
  PROVE  /\ \A d \in Nat : Cell(d) \in Cells
         /\ \A d, e \in Nat : d < e /\ e < d + RingSize => Cell(d) # Cell(e)
  <1> USE SizesAssumption
  <1>1. ASSUME NEW d \in Nat PROVE Cell(d) \in Cells
    <2>1. readPos + d \in Int /\ RingSize \in Nat \ {0}
      BY DEF Positions
    <2> QED
      BY <2>1, ModParts DEF Cell, Cells
  <1>2. ASSUME NEW d \in Nat, NEW e \in Nat, d < e, e < d + RingSize
        PROVE  Cell(d) # Cell(e)
    <2>1. /\ readPos + d \in Int /\ readPos + e \in Int /\ RingSize \in Nat \ {0}
          /\ readPos + d < readPos + e /\ readPos + e < (readPos + d) + RingSize
      BY <1>2 DEF Positions
    <2> QED
      BY <2>1, ModApart DEF Cell
  <1> QED
    BY <1>1, <1>2

\* The positions and the number of bytes between them.
LEMMA UsedFacts ==
  ASSUME Positions
  PROVE  /\ Used \in 0 .. PosMod - 1
         /\ writePos = (readPos + Used) % PosMod
         /\ Used <= RingSize => Free = RingSize - Used
  <1> USE SizesAssumption
  <1>1. /\ writePos - readPos \in Int /\ PosMod \in Nat \ {0} /\ readPos \in Int
        /\ writePos \in 0 .. PosMod - 1
    BY DEF Positions
  <1> DEFINE q == (writePos - readPos) \div PosMod
             u == (writePos - readPos) % PosMod
  <1>2. q \in Int /\ u \in 0 .. PosMod - 1 /\ writePos - readPos = q * PosMod + u
    BY <1>1, ModParts
  <1>3. u = Used
    BY DEF Used
  <1> HIDE DEF q, u
  <1>4. readPos + u = (-q) * PosMod + writePos /\ -q \in Int
    BY <1>1, <1>2
  <1>5. ((-q) * PosMod + writePos) % PosMod = writePos
    BY <1>1, <1>4, ModUnique
  <1>6. ASSUME u <= RingSize PROVE (RingSize - u) % PosMod = RingSize - u
    <2> SUFFICES ASSUME NEW x, x = RingSize - u PROVE x % PosMod = x
      OBVIOUS
    <2>1. x \in 0 .. PosMod - 1 /\ 0 \in Int /\ x = 0 * PosMod + x
      BY <1>2, <1>6
    <2>2. (0 * PosMod + x) % PosMod = x
      BY <1>1, <2>1, ModUnique
    <2> QED
      BY <2>1, <2>2
  <1> QED
    BY <1>2, <1>3, <1>4, <1>5, <1>6 DEF Free

\* Reading from d bytes behind the read position, across the ring's end or not.
LEMMA ReadFacts ==
  ASSUME Positions, NEW d \in Nat, NEW j \in 0 .. MsgSize - 1
  PROVE  WrappedRead((readPos + d) % PosMod)[j] = base[Cell(d + j)]
  <1> USE SizesAssumption
  <1> DEFINE pos == (readPos + d) % PosMod
             at == pos % RingSize
  <1>1. /\ readPos + d \in Int /\ PosMod \in Nat \ {0} /\ RingSize \in Nat \ {0}
        /\ PosMod % RingSize = 0 /\ j \in Int /\ j \in 0 .. RingSize - 1 /\ j < MsgSize
        /\ MsgSize \in Nat
    BY DEF Positions
  <1>2. pos \in Int
    BY <1>1, ModParts
  <1>3. (pos + j) % RingSize = Cell(d + j)
    <2>1. (pos + j) % RingSize = ((readPos + d) + j) % RingSize
      BY <1>1, ModNested
    <2>2. (readPos + d) + j = readPos + (d + j)
      BY <1>1 DEF Positions
    <2> QED
      BY <2>1, <2>2 DEF Cell
  <1>4. WrappedRead(pos)[j] = IF j < (IF MsgSize < RingSize - at THEN MsgSize ELSE RingSize - at)
                              THEN base[at + j]
                              ELSE base[j - (IF MsgSize < RingSize - at THEN MsgSize
                                             ELSE RingSize - at)]
    BY DEF WrappedRead
  <1> HIDE DEF pos
  <1>5. (pos + j) % RingSize = IF at + j < RingSize THEN at + j ELSE at + j - RingSize
    BY <1>1, <1>2, ModWraps
  <1>6. at \in 0 .. RingSize - 1
    BY <1>1, <1>2, ModParts
  <1> HIDE DEF at
  <1>7. WrappedRead(pos)[j] = base[IF at + j < RingSize THEN at + j ELSE at + j - RingSize]
    <2>1. CASE at + j < RingSize
      BY <1>1, <1>4, <1>6, <2>1
    <2>2. CASE ~(at + j < RingSize)
      <3>1. ~(MsgSize < RingSize - at) /\ ~(j < RingSize - at)
            /\ j - (RingSize - at) = at + j - RingSize
        BY <1>1, <1>6, <2>2
      <3> QED
        BY <1>4, <2>2, <3>1
    <2> QED
      BY <2>1, <2>2
  <1> QED
    BY <1>3, <1>5, <1>7 DEF pos

\* Writing at a position puts the message's bytes into the cells from there on,
\* across the ring's end or not, and into no other.
LEMMA WriteFacts ==
  ASSUME NEW pos \in Nat, NEW m
  PROVE  /\ \A j \in 0 .. MsgSize - 1 : WrappedWrite(pos, m)[(pos + j) % RingSize] = <<m, j>>
         /\ \A c \in Cells : (\A j \in 0 .. MsgSize - 1 : c # (pos + j) % RingSize)
                               => WrappedWrite(pos, m)[c] = base[c]
  <1> USE SizesAssumption
  <1> DEFINE at == pos % RingSize
             first == IF MsgSize < RingSize - at THEN MsgSize ELSE RingSize - at
  <1>1. /\ RingSize \in Nat \ {0} /\ MsgSize \in Nat \ {0} /\ MsgSize <= RingSize
        /\ pos \in Int
    OBVIOUS
  <1>2. at \in 0 .. RingSize - 1
    BY <1>1, ModParts
  <1>3. \A j \in 0 .. MsgSize - 1 :
          (pos + j) % RingSize = IF at + j < RingSize THEN at + j ELSE at + j - RingSize
    <2> TAKE j \in 0 .. MsgSize - 1
    <2>1. j \in 0 .. RingSize - 1
      BY <1>1
    <2> QED
      BY <1>1, <2>1, ModWraps
  <1>4. \A c \in Cells : WrappedWrite(pos, m)[c] =
          IF c \in at .. at + first - 1 THEN <<m, c - at>>
          ELSE IF c < MsgSize - first THEN <<m, first + c>>
          ELSE base[c]
    BY DEF WrappedWrite
  <1> HIDE DEF at
  <1>5. ASSUME NEW j \in 0 .. MsgSize - 1
        PROVE  WrappedWrite(pos, m)[(pos + j) % RingSize] = <<m, j>>
    <2>1. CASE at + j < RingSize
      <3>1. at + j \in Cells /\ at + j \in at .. at + first - 1 /\ (at + j) - at = j
        BY <1>1, <1>2, <2>1 DEF Cells
      <3> HIDE DEF first
      <3> QED
        BY <1>3, <1>4, <2>1, <3>1
    <2>2. CASE ~(at + j < RingSize)
      <3> DEFINE c == at + j - RingSize
      <3>1. /\ c \in Cells /\ c \notin at .. at + first - 1
            /\ c < MsgSize - first /\ first + c = j
        BY <1>1, <1>2, <2>2 DEF Cells
      <3>2. (pos + j) % RingSize = c
        BY <1>3, <2>2
      <3> HIDE DEF first, c
      <3> QED
        BY <1>4, <3>1, <3>2
    <2> QED
      BY <2>1, <2>2
  <1>6. ASSUME NEW c \in Cells, \A j \in 0 .. MsgSize - 1 : c # (pos + j) % RingSize
        PROVE  WrappedWrite(pos, m)[c] = base[c]
    <2>1. c \in 0 .. RingSize - 1
      BY DEF Cells
    <2>2. c \notin at .. at + first - 1
      <3> SUFFICES ASSUME c \in at .. at + first - 1 PROVE FALSE
        OBVIOUS
      <3>1. c - at \in 0 .. MsgSize - 1 /\ at + (c - at) = c /\ at + (c - at) < RingSize
        BY <1>1, <1>2, <2>1
      <3> QED
        BY <1>3, <1>6, <3>1
    <2>3. ~(c < MsgSize - first)
      <3> SUFFICES ASSUME c < MsgSize - first PROVE FALSE
        OBVIOUS
      <3>1. /\ first + c \in 0 .. MsgSize - 1 /\ ~(at + (first + c) < RingSize)
            /\ at + (first + c) - RingSize = c
        BY <1>1, <1>2, <2>1
      <3> HIDE DEF first
      <3> QED
        BY <1>3, <1>6, <3>1
    <2> HIDE DEF first
    <2> QED
      BY <1>4, <2>2, <2>3
  <1> QED
    BY <1>5, <1>6

\* A difference of positions does not depend on where they wrapped around.
LEMMA ModDifference ==
  ASSUME NEW p \in Nat \ {0}, NEW a \in Int, NEW b \in Int
  PROVE  ((a % p) - b) % p = (a - b) % p /\ (a - (b % p)) % p = (a - b) % p
  <1>1. ((a % p) - b) % p = (a - b) % p
    <2> DEFINE q == a \div p
               y == a % p
    <2>1. q \in Int /\ y \in Int /\ a = q * p + y
      BY ModParts
    <2> HIDE DEF q, y
    <2>2. a - b = q * p + (y - b) /\ y - b \in Int
      BY <2>1
    <2>3. (q * p + (y - b)) % p = (y - b) % p
      BY <2>1, <2>2, ModShift
    <2> QED
      BY <2>2, <2>3 DEF y
  <1>2. (a - (b % p)) % p = (a - b) % p
    <2> DEFINE q == b \div p
               y == b % p
    <2>1. q \in Int /\ y \in Int /\ b = q * p + y
      BY ModParts
    <2> HIDE DEF q, y
    <2>2. a - y = q * p + (a - b) /\ a - b \in Int
      BY <2>1
    <2>3. (q * p + (a - b)) % p = (a - b) % p
      BY <2>1, <2>2, ModShift
    <2> QED
      BY <2>2, <2>3 DEF y
  <1> QED
    BY <1>1, <1>2

\* Moving the write position on by n, or the read position back by as much.
LEMMA Distance ==
  ASSUME Positions, NEW n \in Int, Used + n \in 0 .. PosMod - 1
  PROVE  ((writePos + n) - readPos) % PosMod = Used + n
  <1> USE SizesAssumption
  <1> DEFINE q == (writePos - readPos) \div PosMod
  <1> SUFFICES ASSUME NEW u, u = Used PROVE ((writePos + n) - readPos) % PosMod = u + n
    OBVIOUS
  <1>1. PosMod \in Nat \ {0} /\ writePos - readPos \in Int /\ writePos \in Int /\ readPos \in Int
    BY DEF Positions
  <1>2. q \in Int /\ u \in Int /\ writePos - readPos = q * PosMod + u
    BY <1>1, ModParts DEF Used
  <1> HIDE DEF q
  <1>3. (writePos + n) - readPos = q * PosMod + (u + n)
    BY <1>1, <1>2
  <1>4. (q * PosMod + (u + n)) % PosMod = u + n
    BY <1>1, <1>2, ModUnique
  <1> QED
    BY <1>3, <1>4

----------------------------------------------------------------------------
(* The messages in the ring, oldest first.                                 *)

Contains(s) == /\ s \in Seq(Messages)
               /\ Len(s) * MsgSize = Used
               /\ \A k \in 1 .. Len(s) : Holds((k - 1) * MsgSize, s[k])

\* Which message some bytes are can be told from the first.
LEMMA MessageFacts ==
  /\ \A bytes : AsMessage(bytes) \in Messages \cup {None}
  /\ \A bytes : \A m \in Messages :
       (\A j \in 0 .. MsgSize - 1 : bytes[j] = <<m, j>>) => AsMessage(bytes) = m
  <1>1. ASSUME NEW bytes PROVE AsMessage(bytes) \in Messages \cup {None}
    BY DEF AsMessage
  <1>2. ASSUME NEW bytes, NEW m \in Messages, \A j \in 0 .. MsgSize - 1 : bytes[j] = <<m, j>>
        PROVE  AsMessage(bytes) = m
    <2>1. 0 \in 0 .. MsgSize - 1
      BY SizesAssumption
    <2>2. ASSUME NEW n \in Messages, \A j \in 0 .. MsgSize - 1 : bytes[j] = <<n, j>>
          PROVE  n = m
      BY <1>2, <2>1, <2>2
    <2> QED
      BY <1>2, <2>2 DEF AsMessage
  <1> QED
    BY <1>1, <1>2

Decoded == \A s : Contains(s) => Queued = s

LEMMA QueueFacts == Positions => Decoded
  <1> SUFFICES ASSUME Positions, NEW s, Contains(s) PROVE Queued = s
    BY DEF Decoded
  <1> USE SizesAssumption
  <1>1. /\ s \in Seq(Messages) /\ Len(s) \in Nat /\ DOMAIN s = 1 .. Len(s)
        /\ Len(s) * MsgSize = Used
        /\ \A k \in 1 .. Len(s) : s[k] \in Messages /\ Holds((k - 1) * MsgSize, s[k])
    BY ElementOfSeq, LenProperties DEF Contains
  <1>2. Used \div MsgSize = Len(s)
    <2>1. MsgSize \in Nat \ {0} /\ 0 \in 0 .. MsgSize - 1 /\ Len(s) \in Int
      BY <1>1
    <2>2. (Len(s) * MsgSize + 0) \div MsgSize = Len(s)
      BY <2>1, ModUnique
    <2>3. Len(s) * MsgSize + 0 = Used
      BY <1>1, UsedFacts
    <2> QED
      BY <2>2, <2>3
  <1>3. ASSUME NEW k \in 1 .. Len(s)
        PROVE  AsMessage(WrappedRead((readPos + (k - 1) * MsgSize) % PosMod)) = s[k]
    <2> SUFFICES ASSUME NEW d, d = (k - 1) * MsgSize
                 PROVE  AsMessage(WrappedRead((readPos + d) % PosMod)) = s[k]
      OBVIOUS
    <2>1. d \in Nat
      BY <1>1, Multiples
    <2>2. s[k] \in Messages /\ \A j \in 0 .. MsgSize - 1 : base[Cell(d + j)] = <<s[k], j>>
      BY <1>1 DEF Holds
    <2>3. \A j \in 0 .. MsgSize - 1 :
            WrappedRead((readPos + d) % PosMod)[j] = <<s[k], j>>
      BY <2>1, <2>2, ReadFacts
    <2> QED
      BY <2>2, <2>3, MessageFacts
  <1> QED
    BY <1>1, <1>2, <1>3 DEF Queued

\* Copying a message in disturbs none that is there.
LEMMA PutFacts ==
  ASSUME Positions, NEW m, NEW u, u = Used, u + MsgSize <= RingSize,
         base' = WrappedWrite(writePos, m), readPos' = readPos
  PROVE  /\ Holds(u, m)'
         /\ \A d \in Nat : \A n : d + MsgSize <= u /\ Holds(d, n) => Holds(d, n)'
  <1> USE SizesAssumption
  <1>1. /\ u \in Nat /\ readPos + u \in Int /\ RingSize \in Nat \ {0} /\ PosMod \in Nat \ {0}
        /\ MsgSize \in Nat /\ PosMod % RingSize = 0 /\ writePos \in Nat
        /\ writePos = (readPos + u) % PosMod
    BY UsedFacts DEF Positions
  <1>2. ASSUME NEW j \in 0 .. MsgSize - 1
        PROVE  (writePos + j) % RingSize = Cell(u + j) /\ Cell(u + j) \in Cells
    <2>1. j \in Int /\ u + j \in Nat /\ (readPos + u) + j = readPos + (u + j)
      BY <1>1 DEF Positions
    <2>2. (((readPos + u) % PosMod) + j) % RingSize = ((readPos + u) + j) % RingSize
      BY <1>1, <2>1, ModNested
    <2>3. Cell(u + j) \in Cells
      BY <2>1, CellFacts
    <2> QED
      BY <1>1, <2>1, <2>2, <2>3 DEF Cell
  <1>3. \A d : Cell(d)' = Cell(d)
    BY DEF Cell
  <1>4. ASSUME NEW j \in 0 .. MsgSize - 1 PROVE base'[Cell(u + j)'] = <<m, j>>
    <2>1. WrappedWrite(writePos, m)[(writePos + j) % RingSize] = <<m, j>>
      BY <1>1, WriteFacts, ZenonT(30)
    <2> QED
      BY <1>2, <1>3, <2>1
  <1>5. ASSUME NEW d \in Nat, NEW n, d + MsgSize <= u, Holds(d, n)
        PROVE  Holds(d, n)'
    <2>1. ASSUME NEW j \in 0 .. MsgSize - 1 PROVE base'[Cell(d + j)'] = <<n, j>>
      <3> SUFFICES ASSUME NEW c, c = Cell(d + j) PROVE base'[c] = <<n, j>>
        BY <1>3
      <3>1. d + j \in Nat
        OBVIOUS
      <3>2. c \in Cells
        BY <3>1, CellFacts
      <3>3. ASSUME NEW i \in 0 .. MsgSize - 1 PROVE c # (writePos + i) % RingSize
        <4>1. u + i \in Nat /\ d + j < u + i /\ u + i < d + j + RingSize
          BY <1>1, <1>5
        <4>2. Cell(d + j) # Cell(u + i)
          BY <3>1, <4>1, CellFacts
        <4> QED
          BY <1>2, <4>2
      <3>4. WrappedWrite(writePos, m)[c] = base[c]
        <4>1. writePos \in Nat /\ \A i \in 0 .. MsgSize - 1 : c # (writePos + i) % RingSize
          BY <1>1, <3>3
        <4> QED
          BY ONLY <3>2, <4>1, WriteFacts
      <3>5. base[c] = <<n, j>>
        BY <1>5 DEF Holds
      <3> QED
        BY <3>4, <3>5
    <2> QED
      BY <2>1 DEF Holds
  <1>6. Holds(u, m)'
    BY <1>4 DEF Holds
  <1> QED
    BY <1>5, <1>6

\* A message more, or the oldest one less, and the bytes stay what they are.
LEMMA PublishedFacts ==
  ASSUME Positions, base' = base, NEW u, u = Used
  PROVE  /\ u + MsgSize <= RingSize /\ writePos' = (writePos + MsgSize) % PosMod
            /\ readPos' = readPos
              => Positions' /\ Used' = u + MsgSize /\ \A d, n : Holds(d, n)' <=> Holds(d, n)
         /\ u >= MsgSize /\ u <= RingSize /\ readPos' = (readPos + MsgSize) % PosMod
            /\ writePos' = writePos
              => /\ Positions' /\ Used' = u - MsgSize
                 /\ \A d \in Nat : \A n : Holds(MsgSize + d, n) <=> Holds(d, n)'
  <1> USE SizesAssumption
  <1>1. /\ u \in 0 .. PosMod - 1 /\ RingSize \in Nat \ {0} /\ PosMod \in Nat \ {0}
        /\ MsgSize \in Nat /\ PosMod % RingSize = 0 /\ writePos \in Int /\ readPos \in Int
    BY UsedFacts DEF Positions
  <1>2. ASSUME u + MsgSize <= RingSize, writePos' = (writePos + MsgSize) % PosMod,
               readPos' = readPos
        PROVE  Positions' /\ Used' = u + MsgSize /\ \A d, n : Holds(d, n)' <=> Holds(d, n)
    <2>1. writePos + MsgSize \in Int /\ u + MsgSize \in 0 .. PosMod - 1 /\ MsgSize \in Int
      BY <1>1, <1>2
    <2>2. Positions'
      <3>1. (writePos + MsgSize) % PosMod \in 0 .. PosMod - 1
        BY <1>1, <2>1, ModParts
      <3> QED
        BY <1>2, <3>1 DEF Positions
    <2>3. ((writePos + MsgSize) - readPos) % PosMod = u + MsgSize
      BY <2>1, Distance
    <2>4. (((writePos + MsgSize) % PosMod) - readPos) % PosMod
            = ((writePos + MsgSize) - readPos) % PosMod
      <3> DEFINE a == writePos + MsgSize
      <3>1. a \in Int
        BY <2>1
      <3> HIDE DEF a
      <3>2. ((a % PosMod) - readPos) % PosMod = (a - readPos) % PosMod
        BY <1>1, <3>1, ModDifference
      <3> QED
        BY <3>2 DEF a
    <2>5. Used' = u + MsgSize
      BY <1>2, <2>3, <2>4 DEF Used
    <2>6. \A d, n : Holds(d, n)' <=> Holds(d, n)
      BY <1>2 DEF Holds, Cell
    <2> QED
      BY <2>2, <2>5, <2>6
  <1>3. ASSUME u >= MsgSize, u <= RingSize, readPos' = (readPos + MsgSize) % PosMod,
               writePos' = writePos
        PROVE  /\ Positions' /\ Used' = u - MsgSize
               /\ \A d \in Nat : \A n : Holds(MsgSize + d, n) <=> Holds(d, n)'
    <2>1. /\ readPos + MsgSize \in Int /\ u + (-MsgSize) \in 0 .. PosMod - 1
          /\ -MsgSize \in Int
      BY <1>1, <1>3
    <2>2. Positions'
      <3>1. (readPos + MsgSize) % PosMod \in 0 .. PosMod - 1
        BY <1>1, <2>1, ModParts
      <3> QED
        BY <1>3, <3>1 DEF Positions
    <2>3. ((writePos + (-MsgSize)) - readPos) % PosMod = u + (-MsgSize)
      BY <2>1, Distance
    <2>4. (writePos - ((readPos + MsgSize) % PosMod)) % PosMod
            = (writePos - (readPos + MsgSize)) % PosMod
      BY <1>1, <2>1, ModDifference
    <2>5. writePos - (readPos + MsgSize) = (writePos + (-MsgSize)) - readPos
          /\ u + (-MsgSize) = u - MsgSize
      BY <1>1
    <2>6. Used' = u - MsgSize
      BY <1>3, <2>3, <2>4, <2>5 DEF Used
    <2>7. ASSUME NEW d \in Int PROVE Cell(d)' = Cell(MsgSize + d)
      <3>1. (((readPos + MsgSize) % PosMod) + d) % RingSize = ((readPos + MsgSize) + d) % RingSize
        BY <1>1, <2>1, ModNested, ZenonT(30)
      <3>2. (readPos + MsgSize) + d = readPos + (MsgSize + d)
        BY <1>1
      <3> QED
        BY <1>3, <3>1, <3>2 DEF Cell
    <2>8. ASSUME NEW d \in Nat, NEW n PROVE Holds(MsgSize + d, n) <=> Holds(d, n)'
      <3>1. \A j \in 0 .. MsgSize - 1 : Cell(d + j)' = Cell((MsgSize + d) + j)
        <4> TAKE j \in 0 .. MsgSize - 1
        <4>1. d + j \in Int /\ MsgSize + (d + j) = (MsgSize + d) + j
          BY <1>1
        <4> QED
          BY <2>7, <4>1
      <3> QED
        BY <3>1 DEF Holds
    <2> QED
      BY <2>2, <2>6, <2>8
  <1> QED
    BY <1>2, <1>3

----------------------------------------------------------------------------
(* The inductive invariant of the ring's bytes: what lies between the      *)
(* positions are whole messages, and who is about to publish has copied    *)
(* one whole message to the place, or from the place, that it publishes.   *)

Calls ==
  /\ \A w \in Writers : /\ pc[w] \in {"lock", "try", "publish", "asleep"} => msg[w] \in Messages
                        /\ pc[w] = "idle" => msg[w] = None
  /\ \A r \in Readers : pc[r] \in {"lock", "try", "asleep", "late"} => msg[r] = None

WritersPublish == \A w \in Writers : pc[w] = "publish" =>
                    Used + MsgSize <= RingSize /\ Holds(Used, msg[w])

ReadersPublish == \A r \in Readers : pc[r] = "publish" =>
                    Used >= MsgSize /\ msg[r] \in Messages /\ Holds(0, msg[r])

WholeMessages == Used <= RingSize /\ \E s : Contains(s)

RingInv == Monitor /\ TypeOK /\ Calls /\ WholeMessages /\ WritersPublish /\ ReadersPublish

LEMMA WrittenCells ==
  ASSUME TypeOK, NEW pos \in Nat, NEW m \in Messages
  PROVE  WrappedWrite(pos, m) \in [Cells -> (Messages \X (0 .. MsgSize - 1)) \cup {None}]
  <1> USE SizesAssumption
  <1> DEFINE at == pos % RingSize
             first == IF MsgSize < RingSize - at THEN MsgSize ELSE RingSize - at
  <1>1. RingSize \in Nat \ {0} /\ pos \in Int /\ MsgSize \in Nat
    OBVIOUS
  <1>2. at \in 0 .. RingSize - 1
    BY <1>1, ModParts
  <1>3. first \in 0 .. MsgSize
    BY <1>1, <1>2
  <1>4. \A c \in Cells : base[c] \in (Messages \X (0 .. MsgSize - 1)) \cup {None}
    BY DEF TypeOK
  <1>5. WrappedWrite(pos, m) =
          [c \in Cells |-> IF c \in at .. at + first - 1 THEN <<m, c - at>>
                           ELSE IF c < MsgSize - first THEN <<m, first + c>>
                           ELSE base[c]]
    BY DEF WrappedWrite
  <1> HIDE DEF at, first
  <1>6. ASSUME NEW c \in Cells
        PROVE  /\ c \in at .. at + first - 1 => c - at \in 0 .. MsgSize - 1
               /\ c < MsgSize - first => first + c \in 0 .. MsgSize - 1
    BY <1>1, <1>2, <1>3 DEF Cells
  <1> QED
    BY <1>4, <1>5, <1>6

LEMMA InitRingInv == Init => RingInv
  <1> SUFFICES ASSUME Init PROVE RingInv
    OBVIOUS
  <1> USE SizesAssumption, NoneAssumption, ThreadsAssumption
  <1>1. TypeOK /\ Calls /\ WritersPublish /\ ReadersPublish
    BY DEF Init, TypeOK, Calls, WritersPublish, ReadersPublish, Threads, Pcs, Patiences
  <1>2. Positions /\ writePos = 0 /\ readPos = 0
    BY <1>1 DEF TypeOK, Positions, Init
  <1>3. Used = 0
    <2>1. 0 \in 0 .. PosMod - 1 /\ 0 \in Int /\ PosMod \in Nat \ {0} /\ 0 * PosMod + 0 = 0
      OBVIOUS
    <2>2. (0 * PosMod + 0) % PosMod = 0
      BY <2>1, ModUnique
    <2> QED
      BY <1>2, <2>1, <2>2 DEF Used
  <1>4. Contains(<<>>)
    <2>1. <<>> \in Seq(Messages) /\ Len(<<>>) = 0 /\ 0 * MsgSize = 0
      BY EmptySeq
    <2> QED
      BY <1>3, <2>1 DEF Contains
  <1> QED
    BY <1>1, <1>3, <1>4, InitMonitor DEF RingInv, WholeMessages

\* What every step keeps of the types and of what each call is about.
LEMMA CallsKeep == ASSUME RingInv, [Next]_vars PROVE TypeOK' /\ Calls'
  <1> USE SizesAssumption, NoneAssumption, ThreadsAssumption, PatienceAssumption
  <1>1. TypeOK /\ Calls /\ Monitor
    BY DEF RingInv
  <1>2. ASSUME NEW w \in Writers, NEW m \in Messages, NEW p \in WriterPatience,
               CallWrite(w, m, p)
        PROVE  TypeOK' /\ Calls'
    BY <1>1, <1>2 DEF CallWrite, Goto, TypeOK, Calls, Threads, Pcs
  <1>3. ASSUME NEW r \in Readers, NEW p \in ReaderPatience, CallRead(r, p)
        PROVE  TypeOK' /\ Calls'
    BY <1>1, <1>3 DEF CallRead, Goto, TypeOK, Calls, Threads, Pcs
  <1>4. ASSUME NEW t \in Threads, Lock(t) PROVE TypeOK' /\ Calls'
    BY <1>1, <1>4 DEF Lock, Goto, TypeOK, Calls, Threads, Pcs
  <1>5. ASSUME NEW t \in Threads, Copy(t) PROVE TypeOK' /\ Calls'
    <2>1. CASE t \in Writers
      <3>1. msg[t] \in Messages /\ writePos \in Nat
        BY <1>1, <1>5, <2>1 DEF Copy, Calls, TypeOK
      <3>2. base' \in [Cells -> (Messages \X (0 .. MsgSize - 1)) \cup {None}]
        BY <1>1, <1>5, <2>1, <3>1, WrittenCells DEF Copy
      <3> QED
        BY <1>1, <1>5, <2>1, <3>1, <3>2 DEF Copy, Goto, TypeOK, Calls, Threads, Pcs
    <2>2. CASE t \notin Writers
      <3>1. AsMessage(WrappedRead(readPos)) \in Messages \cup {None}
        BY MessageFacts
      <3> QED
        BY <1>1, <1>5, <2>2, <3>1 DEF Copy, Goto, TypeOK, Calls, Threads, Pcs
    <2> QED
      BY <2>1, <2>2
  <1>6. ASSUME NEW t \in Threads, Publish(t) PROVE TypeOK' /\ Calls'
    <2>1. /\ writePos' \in 0 .. PosMod - 1 /\ readPos' \in 0 .. PosMod - 1
      <3>1. /\ writePos + MsgSize \in Int /\ readPos + MsgSize \in Int
            /\ PosMod \in Nat \ {0}
        BY <1>1 DEF TypeOK
      <3>2. /\ (writePos + MsgSize) % PosMod \in 0 .. PosMod - 1
            /\ (readPos + MsgSize) % PosMod \in 0 .. PosMod - 1
        BY <3>1, ModParts
      <3> QED
        BY <1>1, <1>6, <3>2 DEF Publish, TypeOK
    <2>2. /\ pc' \in [Threads -> Pcs] /\ sleeping' = {} /\ msg' \in [Threads -> Messages \cup {None}]
      BY <1>1, <1>6 DEF Publish, TypeOK, Pcs
    <2>3. TypeOK'
      BY <1>1, <1>6, <2>1, <2>2 DEF Publish, TypeOK
    <2>4. \A u \in sleeping : pc[u] = "asleep"
      BY <1>1 DEF Monitor, MutexTypes, NoLostWakeUp
    <2>5. \A u \in Threads : /\ u = t => pc'[u] = "unlock"
                             /\ u # t /\ u \in sleeping => pc'[u] = "lock" /\ msg'[u] = msg[u]
                             /\ u # t /\ u \notin sleeping => pc'[u] = pc[u] /\ msg'[u] = msg[u]
      BY <1>1, <1>6 DEF Publish, TypeOK
    <2>6. Calls'
      BY <1>1, <2>4, <2>5 DEF Calls, Threads
    <2> QED
      BY <2>3, <2>6
  <1>7. ASSUME NEW t \in Threads, GiveUp(t) PROVE TypeOK' /\ Calls'
    BY <1>1, <1>7 DEF GiveUp, Goto, TypeOK, Calls, Threads, Pcs
  <1>8. ASSUME NEW t \in Threads, Sleep(t) PROVE TypeOK' /\ Calls'
    BY <1>1, <1>8 DEF Sleep, Goto, TypeOK, Calls, Threads, Pcs
  <1>9. ASSUME NEW t \in Threads, Wake(t) PROVE TypeOK' /\ Calls'
    BY <1>1, <1>9 DEF Wake, Goto, TypeOK, Calls, Threads, Pcs
  <1>10. ASSUME NEW t \in Threads, Unlock(t) PROVE TypeOK' /\ Calls'
    BY <1>1, <1>10 DEF Unlock, Goto, TypeOK, Calls, Threads, Pcs
  <1>11. CASE UNCHANGED vars
    BY <1>1, <1>11 DEF vars, TypeOK, Calls
  <1> QED
    BY <1>2, <1>3, <1>4, <1>5, <1>6, <1>7, <1>8, <1>9, <1>10, <1>11 DEF Next, Inside

\* A step that leaves the bytes and the positions alone.
LEMMA QuietKeeps ==
  ASSUME WholeMessages, WritersPublish, ReadersPublish, UNCHANGED <<base, writePos, readPos>>,
         \A w \in Writers : pc'[w] = "publish" => pc[w] = "publish" /\ msg'[w] = msg[w],
         \A r \in Readers : pc'[r] = "publish" => pc[r] = "publish" /\ msg'[r] = msg[r]
  PROVE  WholeMessages' /\ WritersPublish' /\ ReadersPublish'
  <1>1. Used' = Used
    BY DEF Used
  <1>2. \A s : Contains(s) => Contains(s)'
    BY <1>1 DEF Contains, Holds, Cell
  <1>3. WholeMessages'
    BY <1>1, <1>2 DEF WholeMessages
  <1>4. WritersPublish'
    BY <1>1 DEF WritersPublish, Holds, Cell
  <1>5. ReadersPublish'
    BY <1>1 DEF ReadersPublish, Holds, Cell
  <1> QED
    BY <1>3, <1>4, <1>5

\* Who is inside is alone there.
LEMMA Alone ==
  ASSUME Monitor, NEW t \in Threads, pc[t] \in {"try", "publish", "unlock"}
  PROVE  \A u \in Threads : pc[u] \in {"try", "publish", "unlock"} => u = t
  BY DEF Monitor, OneInside

\* The oldest message is what the cells from the read position on hold.
LEMMA OldestFacts ==
  ASSUME WholeMessages, Positions, Used >= MsgSize
  PROVE  \E s : /\ Contains(s) /\ s # <<>> /\ s[1] \in Messages /\ Holds(0, s[1])
  <1> USE SizesAssumption
  <1>1. PICK s : Contains(s)
    BY DEF WholeMessages
  <1>2. s \in Seq(Messages) /\ Len(s) \in Nat /\ Len(s) * MsgSize = Used
    BY <1>1, LenProperties DEF Contains
  <1>3. Len(s) # 0
    BY <1>2
  <1>4. 1 \in 1 .. Len(s) /\ (1 - 1) * MsgSize = 0 /\ s # <<>>
    BY <1>2, <1>3
  <1>5. s[1] \in Messages
    BY <1>2, <1>4, ElementOfSeq
  <1>6. Holds((1 - 1) * MsgSize, s[1])
    BY <1>1, <1>4 DEF Contains
  <1> QED
    BY <1>1, <1>4, <1>5, <1>6

LEMMA CopyKeeps ==
  ASSUME RingInv, NEW t \in Threads, Copy(t)
  PROVE  WholeMessages' /\ WritersPublish' /\ ReadersPublish'
  <1> USE SizesAssumption, ThreadsAssumption
  <1>1. Monitor /\ TypeOK /\ Calls /\ WholeMessages /\ Positions
    BY DEF RingInv, TypeOK, Positions
  <1>2. \A u \in Threads : pc[u] # "publish"
    BY <1>1, Alone DEF Copy
  <1>3. pc' = [pc EXCEPT ![t] = "publish"] /\ pc \in [Threads -> Pcs]
    BY <1>1 DEF Copy, Goto, TypeOK
  <1>4. \A u \in Threads : pc'[u] = "publish" => u = t
    BY <1>2, <1>3
  <1>5. Used' = Used /\ readPos' = readPos /\ writePos' = writePos
    BY DEF Copy, Used
  <1>6. CASE t \in Writers
    <2> SUFFICES ASSUME NEW u, u = Used, NEW m, m = msg[t]
                 PROVE  WholeMessages' /\ WritersPublish' /\ ReadersPublish'
      OBVIOUS
    <2>1. base' = WrappedWrite(writePos, m) /\ msg'[t] = m /\ Free >= MsgSize
      BY <1>6 DEF Copy, Possible
    <2>2. u \in Nat /\ u + MsgSize <= RingSize
      BY <1>1, <2>1, UsedFacts DEF WholeMessages
    <2>3. /\ Holds(u, m)'
          /\ \A d \in Nat : \A n : d + MsgSize <= u /\ Holds(d, n) => Holds(d, n)'
      BY <1>1, <1>5, <2>1, <2>2, PutFacts
    <2>4. ASSUME NEW s, Contains(s) PROVE Contains(s)'
      <3>1. s \in Seq(Messages) /\ Len(s) \in Nat /\ Len(s) * MsgSize = u
        BY <2>4, LenProperties DEF Contains
      <3>2. ASSUME NEW k \in 1 .. Len(s), NEW d, d = (k - 1) * MsgSize PROVE Holds(d, s[k])'
        <4>1. d \in Nat /\ d + MsgSize <= Len(s) * MsgSize
          BY <3>1, <3>2, Multiples
        <4>2. Holds(d, s[k])
          BY <2>4, <3>2 DEF Contains
        <4> QED
          BY <2>3, <3>1, <4>1, <4>2
      <3>3. \A k \in 1 .. Len(s) : Holds((k - 1) * MsgSize, s[k])'
        BY <3>2
      <3> QED
        BY <1>5, <3>1, <3>3 DEF Contains
    <2>5. WholeMessages'
      BY <1>1, <1>5, <2>4 DEF WholeMessages
    <2>6. Holds(Used, msg[t])'
      BY <1>5, <2>1, <2>3 DEF Holds, Cell
    <2>7. WritersPublish'
      BY <1>4, <1>5, <2>2, <2>6 DEF WritersPublish, Threads
    <2>8. ReadersPublish'
      BY <1>4, <1>6 DEF ReadersPublish, Threads
    <2> QED
      BY <2>5, <2>7, <2>8
  <1>7. CASE t \notin Writers
    <2>1. /\ base' = base /\ msg' = [msg EXCEPT ![t] = AsMessage(WrappedRead(readPos))]
          /\ Used >= MsgSize
      BY <1>7 DEF Copy, Possible
    <2>2. PICK s : Contains(s) /\ s # <<>> /\ s[1] \in Messages /\ Holds(0, s[1])
      BY <1>1, <2>1, OldestFacts
    <2> DEFINE m == s[1]
    <2>3. \A j \in 0 .. MsgSize - 1 : WrappedRead(readPos)[j] = <<m, j>>
      <3>1. (readPos + 0) % PosMod = readPos
        <4>1. PosMod \in Nat \ {0} /\ 0 \in Int /\ readPos \in 0 .. PosMod - 1
          BY <1>1 DEF Positions
        <4>2. (0 * PosMod + readPos) % PosMod = readPos
          BY <4>1, ModUnique
        <4>3. 0 * PosMod + readPos = readPos + 0
          BY <4>1
        <4> QED
          BY <4>2, <4>3
      <3>2. \A j \in 0 .. MsgSize - 1 :
              WrappedRead((readPos + 0) % PosMod)[j] = base[Cell(0 + j)]
        BY <1>1, ReadFacts
      <3>3. \A j \in 0 .. MsgSize - 1 : base[Cell(0 + j)] = <<m, j>>
        BY <2>2 DEF Holds
      <3> QED
        BY <3>1, <3>2, <3>3
    <2>4. AsMessage(WrappedRead(readPos)) = m
      BY <2>2, <2>3, MessageFacts
    <2> HIDE DEF m
    <2>5. msg'[t] = m
      BY <1>1, <2>1, <2>4 DEF TypeOK
    <2>6. Contains(s)'
      BY <1>5, <2>1, <2>2 DEF Contains, Holds, Cell
    <2>7. WholeMessages'
      BY <1>1, <1>5, <2>6 DEF WholeMessages
    <2>8. WritersPublish'
      BY <1>4, <1>7 DEF WritersPublish, Threads
    <2>9. Holds(0, m)'
      BY <1>5, <2>1, <2>2 DEF Holds, Cell, m
    <2>10. Holds(0, msg[t])'
      BY <2>5, <2>9 DEF Holds, Cell
    <2>11. Used' >= MsgSize /\ msg'[t] \in Messages
      BY <1>5, <2>1, <2>2, <2>5 DEF m
    <2>12. ReadersPublish'
      BY <1>4, <2>10, <2>11 DEF ReadersPublish, Threads
    <2> QED
      BY <2>7, <2>8, <2>12
  <1> QED
    BY <1>6, <1>7

\* What publishing does to the messages in the ring.
LEMMA PublishFacts ==
  ASSUME RingInv, NEW t \in Threads, Publish(t), NEW s, Contains(s), NEW u, u = Used,
         NEW m, m = msg[t]
  PROVE  /\ t \in Writers => /\ \A q : q = Append(s, m) => Contains(q)'
                             /\ Used' <= RingSize
                             /\ m \in Messages /\ (Len(s) + 1) * MsgSize <= RingSize
         /\ t \notin Writers => /\ \A q : q = Tail(s) => Contains(q)'
                                /\ Used' <= RingSize
                                /\ s # <<>> /\ m = Head(s)
  <1> USE SizesAssumption, ThreadsAssumption
  <1>1. Monitor /\ TypeOK /\ Calls /\ WritersPublish /\ ReadersPublish /\ Positions
        /\ base' = base /\ u <= RingSize /\ u \in Nat /\ MsgSize \in Nat
    BY UsedFacts DEF RingInv, TypeOK, Positions, Publish, WholeMessages
  <1>2. /\ s \in Seq(Messages) /\ Len(s) \in Nat /\ Len(s) * MsgSize = u
        /\ \A k \in 1 .. Len(s) : s[k] \in Messages /\ Holds((k - 1) * MsgSize, s[k])
    BY LenProperties, ElementOfSeq DEF Contains
  <1>3. CASE t \in Writers
    <2>1. writePos' = (writePos + MsgSize) % PosMod /\ readPos' = readPos /\ pc[t] = "publish"
      BY <1>3 DEF Publish
    <2>2. u + MsgSize <= RingSize /\ m \in Messages
      BY <1>1, <1>3, <2>1 DEF WritersPublish, Calls
    <2>3. Holds(u, m)
      BY <1>1, <1>3, <2>1 DEF WritersPublish, Holds, Cell
    <2>4. Used' = u + MsgSize /\ \A d, n : Holds(d, n)' <=> Holds(d, n)
      BY <1>1, <2>1, <2>2, PublishedFacts
    <2>0. (Len(s) + 1) * MsgSize = u + MsgSize
      <3>1. (Len(s) + 1) * MsgSize = Len(s) * MsgSize + MsgSize
        BY <1>1, <1>2, Multiples
      <3> QED
        BY <1>2, <3>1
    <2> SUFFICES ASSUME NEW q, q = Append(s, m) PROVE Contains(q)'
      BY <1>1, <1>3, <2>0, <2>2, <2>4
    <2>5. /\ q \in Seq(Messages) /\ Len(q) = Len(s) + 1
          /\ \A k \in 1 .. Len(s) : q[k] = s[k]
          /\ q[Len(s) + 1] = m
      BY <1>2, <2>2, AppendFacts
    <2>6. Len(q) * MsgSize = u + MsgSize
      BY <2>0, <2>5
    <2>7. ASSUME NEW k \in 1 .. Len(q), NEW d, d = (k - 1) * MsgSize PROVE Holds(d, q[k])'
      <3>1. CASE k = Len(s) + 1
        <4>1. d = u
          BY <1>2, <2>7, <3>1
        <4> QED
          BY <2>3, <2>4, <2>5, <3>1, <4>1
      <3>2. CASE k # Len(s) + 1
        <4>1. k \in 1 .. Len(s)
          BY <1>2, <2>5, <3>2
        <4>2. Holds(d, s[k])
          BY <1>2, <2>7, <4>1
        <4> QED
          BY <2>4, <2>5, <4>1, <4>2
      <3> QED
        BY <3>1, <3>2
    <2>8. \A k \in 1 .. Len(q) : Holds((k - 1) * MsgSize, q[k])'
      BY <2>7
    <2> QED
      BY <2>4, <2>5, <2>6, <2>8 DEF Contains
  <1>4. CASE t \notin Writers
    <2>1. readPos' = (readPos + MsgSize) % PosMod /\ writePos' = writePos /\ pc[t] = "publish"
          /\ t \in Readers
      BY <1>4 DEF Publish, Threads
    <2>2. u >= MsgSize /\ m \in Messages
      BY <1>1, <2>1 DEF ReadersPublish
    <2>3. Holds(0, m)
      BY <1>1, <2>1 DEF ReadersPublish, Holds, Cell
    <2>4. Used' = u - MsgSize /\ \A d \in Nat : \A n : Holds(MsgSize + d, n) <=> Holds(d, n)'
      BY <1>1, <2>1, <2>2, PublishedFacts
    <2>5. Len(s) # 0
      BY <1>2, <2>2
    <2>6. 1 \in 1 .. Len(s) /\ (1 - 1) * MsgSize = 0
      BY <1>2, <2>5
    <2>7. m = s[1]
      <3>1. Holds(0, s[1])
        BY <1>2, <2>6
      <3>2. 0 \in 0 .. MsgSize - 1
        OBVIOUS
      <3>3. base[Cell(0 + 0)] = <<m, 0>>
        BY <2>3, <3>2 DEF Holds
      <3>4. base[Cell(0 + 0)] = <<s[1], 0>>
        BY <3>1, <3>2 DEF Holds
      <3> QED
        BY <3>3, <3>4
    <2>8. s # <<>> /\ Head(s) = s[1]
      BY <1>2, <2>5, HeadTailProperties
    <2> SUFFICES ASSUME NEW q, q = Tail(s) PROVE Contains(q)'
      BY <1>1, <1>4, <2>2, <2>4, <2>7, <2>8
    <2>9. /\ q \in Seq(Messages) /\ Len(q) = Len(s) - 1
          /\ \A k \in 1 .. Len(q) : q[k] = s[k + 1]
      BY <1>2, <2>8, HeadTailProperties
    <2>10. Len(q) * MsgSize = u - MsgSize
      BY <1>1, <1>2, <2>9, Multiples
    <2>11. ASSUME NEW k \in 1 .. Len(q), NEW d, d = (k - 1) * MsgSize PROVE Holds(d, q[k])'
      <3>1. k + 1 \in 1 .. Len(s) /\ k - 1 \in Nat /\ (k + 1) - 1 = (k - 1) + 1
        BY <1>2, <2>9
      <3>2. d \in Nat /\ ((k - 1) + 1) * MsgSize = MsgSize + d
        BY <1>1, <2>11, <3>1, Multiples
      <3>3. Holds(MsgSize + d, s[k + 1])
        BY <1>2, <3>1, <3>2
      <3> QED
        BY <2>4, <2>9, <3>2, <3>3
    <2>12. \A k \in 1 .. Len(q) : Holds((k - 1) * MsgSize, q[k])'
      BY <2>11
    <2> QED
      BY <2>4, <2>9, <2>10, <2>12 DEF Contains
  <1> QED
    BY <1>3, <1>4

LEMMA PublishKeeps ==
  ASSUME RingInv, NEW t \in Threads, Publish(t)
  PROVE  WholeMessages' /\ WritersPublish' /\ ReadersPublish'
  <1> USE ThreadsAssumption
  <1>1. Monitor /\ WholeMessages
    BY DEF RingInv
  <1>2. PICK s : Contains(s)
    BY <1>1 DEF WholeMessages
  <1>3. WholeMessages'
    <2> SUFFICES ASSUME NEW q, q = IF t \in Writers THEN Append(s, msg[t]) ELSE Tail(s)
                 PROVE  WholeMessages'
      OBVIOUS
    <2>1. Contains(q)' /\ Used' <= RingSize
      <3>1. CASE t \in Writers
        BY <1>2, <3>1, PublishFacts
      <3>2. CASE t \notin Writers
        BY <1>2, <3>2, PublishFacts
      <3> QED
        BY <3>1, <3>2
    <2> QED
      BY <2>1 DEF WholeMessages
  <1>4. \A u \in Threads : u # t => pc[u] # "publish"
    BY <1>1, Alone DEF Publish
  <1>5. \A u \in Threads : pc'[u] # "publish"
    BY <1>4 DEF Publish
  <1> QED
    BY <1>3, <1>5 DEF WritersPublish, ReadersPublish, Threads

LEMMA NextRingInv == RingInv /\ [Next]_vars => RingInv'
  <1> SUFFICES ASSUME RingInv, [Next]_vars PROVE RingInv'
    OBVIOUS
  <1> USE ThreadsAssumption
  <1>0. TypeOK /\ WholeMessages /\ WritersPublish /\ ReadersPublish /\ pc \in [Threads -> Pcs]
    BY DEF RingInv, TypeOK
  <1>1. Monitor' /\ TypeOK' /\ Calls'
    BY CallsKeep, NextMonitor DEF RingInv
  <1> DEFINE BytesKept == WholeMessages' /\ WritersPublish' /\ ReadersPublish'
  <1>2. ASSUME NEW w \in Writers, NEW m \in Messages, NEW p \in WriterPatience,
               CallWrite(w, m, p)
        PROVE  BytesKept
    <2>1. /\ \A u \in Threads : pc'[u] = "publish" => pc[u] = "publish" /\ msg'[u] = msg[u]
          /\ UNCHANGED <<base, writePos, readPos>>
      BY <1>0, <1>2 DEF CallWrite, Goto, TypeOK, Threads
    <2> QED
      BY <1>0, <2>1, QuietKeeps DEF Threads
  <1>3. ASSUME NEW r \in Readers, NEW p \in ReaderPatience, CallRead(r, p)
        PROVE  BytesKept
    <2>1. /\ \A u \in Threads : pc'[u] = "publish" => pc[u] = "publish" /\ msg'[u] = msg[u]
          /\ UNCHANGED <<base, writePos, readPos>>
      BY <1>0, <1>3 DEF CallRead, Goto, TypeOK, Threads
    <2> QED
      BY <1>0, <2>1, QuietKeeps DEF Threads
  <1>4. ASSUME NEW t \in Threads, Lock(t) \/ GiveUp(t) \/ Sleep(t) \/ Wake(t) \/ Unlock(t)
        PROVE  BytesKept
    <2>1. /\ \A u \in Threads : pc'[u] = "publish" => pc[u] = "publish" /\ msg'[u] = msg[u]
          /\ UNCHANGED <<base, writePos, readPos>>
      BY <1>0, <1>4 DEF Lock, GiveUp, Sleep, Wake, Unlock, Goto, TypeOK
    <2> QED
      BY <1>0, <2>1, QuietKeeps DEF Threads
  <1>5. ASSUME NEW t \in Threads, Copy(t) PROVE BytesKept
    BY <1>5, CopyKeeps
  <1>6. ASSUME NEW t \in Threads, Publish(t) PROVE BytesKept
    BY <1>6, PublishKeeps
  <1>7. ASSUME UNCHANGED vars PROVE BytesKept
    <2>1. UNCHANGED <<base, writePos, readPos, pc, msg>>
      BY <1>7 DEF vars
    <2> QED
      BY <1>0, <2>1, QuietKeeps
  <1>8. BytesKept
    <2> HIDE DEF BytesKept
    <2> QED
      BY <1>2, <1>3, <1>4, <1>5, <1>6, <1>7 DEF Next, Inside
  <1> QED
    BY <1>1, <1>8 DEF RingInv

LEMMA AlwaysRingInv == Spec => []RingInv
  BY InitRingInv, NextRingInv, PTL DEF Spec

\* Positions, bytes and calls of every ring keep their types (base_ring.c).
THEOREM RingTypeCorrect == Spec => []TypeOK
  <1>1. RingInv => TypeOK
    BY DEF RingInv
  <1> QED
    BY AlwaysRingInv, <1>1, PTL

LEMMA RingPositions == RingInv => Positions
  BY DEF RingInv, TypeOK, Positions

LEMMA ChannelStart == Init => Channel!Init
  <1> SUFFICES ASSUME Init PROVE Channel!Init
    OBVIOUS
  <1>1. RingInv /\ Positions
    BY InitRingInv, RingPositions
  <1>2. Contains(<<>>)
    <2>1. Used = 0
      <3>1. 0 \in 0 .. PosMod - 1 /\ 0 \in Int /\ PosMod \in Nat \ {0} /\ 0 * PosMod + 0 = 0
        BY SizesAssumption
      <3>2. (0 * PosMod + 0) % PosMod = 0
        BY <3>1, ModUnique
      <3> QED
        BY <3>1, <3>2 DEF Used, Init
    <2>2. <<>> \in Seq(Messages) /\ Len(<<>>) = 0 /\ 0 * MsgSize = 0
      BY SizesAssumption, EmptySeq
    <2> QED
      BY <2>1, <2>2 DEF Contains
  <1>3. Queued = <<>>
    BY <1>1, <1>2, QueueFacts DEF Decoded
  <1> QED
    BY <1>3 DEF Channel!Init, Init, Threads

\* What the writers offer and what the readers got, as MessageChannel has it.
Offers == [w \in Writers |-> msg[w]]
Answers == [r \in Readers |-> IF pc[r] = "publish" THEN None ELSE msg[r]]

LEMMA QueueStays ==
  ASSUME RingInv, RingInv', UNCHANGED <<writePos, readPos>>,
         \A s : Contains(s) => Contains(s)'
  PROVE  Queued' = Queued
  <1>1. Positions /\ (Positions => Decoded)'
    BY RingPositions, QueueFacts, PTL
  <1>2. Decoded /\ Decoded'
    <2>1. Positions'
      BY <1>1 DEF Positions
    <2> QED
      BY <1>1, <2>1, QueueFacts
  <1>3. PICK s : Contains(s)
    BY DEF RingInv, WholeMessages
  <1> QED
    BY <1>2, <1>3 DEF Decoded

LEMMA QuietQueue ==
  ASSUME RingInv, RingInv', UNCHANGED <<base, writePos, readPos>>
  PROVE  Queued' = Queued
  <1>1. \A s : Contains(s) => Contains(s)'
    BY DEF Contains, Holds, Cell, Used
  <1> QED
    BY <1>1, QueueStays

LEMMA PublishedQueue ==
  ASSUME RingInv, RingInv', NEW t \in Threads, Publish(t)
  PROVE  /\ t \in Writers => /\ Queued' = Append(Queued, msg[t]) /\ msg[t] # None
                             /\ Len(Queued) < RingSize \div MsgSize
         /\ t \notin Writers => /\ Queued # <<>> /\ Queued' = Tail(Queued)
                                /\ msg[t] = Head(Queued)
  <1> USE SizesAssumption
  <1>1. Positions /\ (RingInv => Positions)' /\ (Positions => Decoded)'
    BY RingPositions, QueueFacts, PTL
  <1>2. Decoded /\ Decoded'
    BY <1>1, QueueFacts
  <1>3. PICK s : Contains(s)
    BY DEF RingInv, WholeMessages
  <1>4. Queued = s
    BY <1>2, <1>3 DEF Decoded
  <1>5. CASE t \in Writers
    <2>1. /\ \A q : q = Append(s, msg[t]) => Contains(q)'
          /\ msg[t] \in Messages /\ (Len(s) + 1) * MsgSize <= RingSize
      BY <1>3, <1>5, PublishFacts
    <2>2. \A q : Contains(q)' => Queued' = q
      BY <1>2 DEF Decoded
    <2>3. Queued' = Append(s, msg[t])
      BY <2>1, <2>2
    <2>4. Len(s) < RingSize \div MsgSize
      <3> DEFINE q == RingSize \div MsgSize
                 x == RingSize % MsgSize
      <3>1. /\ q \in Int /\ x \in 0 .. MsgSize - 1 /\ RingSize = q * MsgSize + x
        BY ModParts
      <3> HIDE DEF q, x
      <3>2. Len(s) \in Nat
        BY <1>3, LenProperties DEF Contains
      <3> SUFFICES ASSUME NEW n \in Nat, n = Len(s), ~(n < q) PROVE FALSE
        BY <3>2 DEF q
      <3>3. n + 1 - q >= 1 /\ (n + 1 - q) * MsgSize >= MsgSize
        BY <3>1
      <3>4. (n + 1) * MsgSize = q * MsgSize + (n + 1 - q) * MsgSize
        BY <3>1
      <3>5. (n + 1) * MsgSize <= RingSize
        BY <2>1
      <3> QED
        BY <3>1, <3>3, <3>4, <3>5
    <2> QED
      BY <1>4, <1>5, <2>1, <2>3, <2>4, NoneAssumption
  <1>6. CASE t \notin Writers
    <2>1. /\ \A q : q = Tail(s) => Contains(q)'
          /\ s # <<>> /\ msg[t] = Head(s)
      BY <1>3, <1>6, PublishFacts
    <2>2. \A q : Contains(q)' => Queued' = q
      BY <1>2 DEF Decoded
    <2> QED
      BY <1>4, <1>6, <2>1, <2>2
  <1> QED
    BY <1>5, <1>6

ChannelStutters == UNCHANGED <<Queued, Offers, Answers>>
ChannelMoves == Channel!Next \/ ChannelStutters

LEMMA ChannelOfCalls ==
  ASSUME RingInv, RingInv'
  PROVE  /\ \A w \in Writers, m \in Messages, p \in WriterPatience :
              CallWrite(w, m, p) => ChannelMoves
         /\ \A r \in Readers, p \in ReaderPatience : CallRead(r, p) => ChannelMoves
  <1> USE ThreadsAssumption, NoneAssumption
  <1>0. TypeOK /\ Calls
    BY DEF RingInv
  <1>1. ASSUME NEW w \in Writers, NEW m \in Messages, NEW p \in WriterPatience,
               CallWrite(w, m, p)
        PROVE  ChannelMoves
    <2>1. Queued' = Queued
      BY <1>1, QuietQueue DEF CallWrite
    <2>2. Offers[w] = None /\ Offers' = [Offers EXCEPT ![w] = m]
      BY <1>0, <1>1 DEF CallWrite, Calls, TypeOK, Offers, Threads
    <2>3. Answers' = Answers
      BY <1>0, <1>1 DEF CallWrite, Goto, TypeOK, Answers, Threads
    <2>4. Channel!Offer(w)
      BY <2>1, <2>2, <2>3 DEF Channel!Offer, Offers, Answers
    <2> QED
      BY <2>4 DEF ChannelMoves, Channel!Next
  <1>2. ASSUME NEW r \in Readers, NEW p \in ReaderPatience, CallRead(r, p)
        PROVE  ChannelMoves
    <2>1. Queued' = Queued
      BY <1>2, QuietQueue DEF CallRead
    <2>2. Offers' = Offers
      BY <1>0, <1>2 DEF CallRead, TypeOK, Offers, Threads
    <2>3. Answers' = [Answers EXCEPT ![r] = None]
      BY <1>0, <1>2 DEF CallRead, Goto, TypeOK, Answers, Threads
    <2>4. CASE Answers[r] # None
      <3>1. Channel!Consume(r)
        BY <2>1, <2>2, <2>3, <2>4 DEF Channel!Consume, Offers, Answers
      <3> QED
        BY <3>1 DEF ChannelMoves, Channel!Next
    <2>5. CASE Answers[r] = None
      <3>1. Answers' = Answers
        BY <2>3, <2>5 DEF Answers
      <3> QED
        BY <2>1, <2>2, <3>1 DEF ChannelMoves, ChannelStutters
    <2> QED
      BY <2>4, <2>5
  <1> QED
    BY <1>1, <1>2

\* Taking the mutex, waiting, and the copying of bytes show nothing.
LEMMA ChannelOfWaits ==
  ASSUME RingInv, RingInv', NEW t \in Threads, Lock(t) \/ GiveUp(t) \/ Sleep(t) \/ Wake(t)
  PROVE  ChannelMoves
  <1> USE ThreadsAssumption, NoneAssumption
  <1>1. UNCHANGED <<base, writePos, readPos, msg>>
    BY DEF Lock, GiveUp, Sleep, Wake
  <1>2. \A u \in Threads : pc'[u] = "publish" <=> pc[u] = "publish"
    BY DEF Lock, GiveUp, Sleep, Wake, Goto, RingInv, TypeOK
  <1>3. Queued' = Queued
    BY <1>1, QuietQueue
  <1>4. Offers' = Offers /\ Answers' = Answers
    BY <1>1, <1>2 DEF Offers, Answers, Threads
  <1> QED
    BY <1>3, <1>4 DEF ChannelMoves, ChannelStutters

LEMMA ChannelOfCopy ==
  ASSUME RingInv, RingInv', NEW t \in Threads, Copy(t)
  PROVE  ChannelMoves
  <1> USE ThreadsAssumption, NoneAssumption
  <1>0. TypeOK /\ Calls /\ Positions
    BY RingPositions DEF RingInv
  <1>1. Queued' = Queued
    <2>1. CASE t \notin Writers
      BY <2>1, QuietQueue DEF Copy
    <2>2. CASE t \in Writers
      <3>1. base' = WrappedWrite(writePos, msg[t]) /\ Free >= MsgSize
            /\ readPos' = readPos /\ writePos' = writePos
        BY <2>2 DEF Copy, Possible
      <3>2. Used \in Nat /\ Used + MsgSize <= RingSize
        BY <1>0, <3>1, UsedFacts, SizesAssumption DEF RingInv, WholeMessages
      <3>3. \A d \in Nat : \A n : d + MsgSize <= Used /\ Holds(d, n) => Holds(d, n)'
        BY <1>0, <3>1, <3>2, PutFacts
      <3>4. ASSUME NEW s, Contains(s) PROVE Contains(s)'
        <4>1. s \in Seq(Messages) /\ Len(s) \in Nat /\ Len(s) * MsgSize = Used
          BY <3>4, LenProperties DEF Contains
        <4>2. ASSUME NEW k \in 1 .. Len(s), NEW d, d = (k - 1) * MsgSize
              PROVE  Holds(d, s[k])'
          <5>1. d \in Nat /\ d + MsgSize <= Len(s) * MsgSize
            BY <4>1, <4>2, Multiples, SizesAssumption
          <5>2. Holds(d, s[k])
            BY <3>4, <4>2 DEF Contains
          <5> QED
            BY <3>3, <4>1, <5>1, <5>2
        <4>3. \A k \in 1 .. Len(s) : Holds((k - 1) * MsgSize, s[k])'
          BY <4>2
        <4>4. Used' = Used
          BY <3>1 DEF Used
        <4> QED
          BY <4>1, <4>3, <4>4 DEF Contains
      <3> QED
        BY <3>1, <3>4, QueueStays
    <2> QED
      BY <2>1, <2>2
  <1>2. pc[t] = "try" /\ pc' = [pc EXCEPT ![t] = "publish"]
    BY DEF Copy, Goto
  <1>3. \A w \in Writers : msg'[w] = msg[w]
    BY <1>0 DEF Copy, TypeOK, Threads
  <1>4. \A r \in Readers : r # t => msg'[r] = msg[r]
    BY <1>0 DEF Copy, TypeOK, Threads
  <1>5. \A r \in Readers : r = t => msg[r] = None
    BY <1>0, <1>2 DEF Calls
  <1>6. Offers' = Offers
    BY <1>3 DEF Offers
  <1>7. Answers' = Answers
    <2>1. \A r \in Readers : (IF pc'[r] = "publish" THEN None ELSE msg'[r])
                               = (IF pc[r] = "publish" THEN None ELSE msg[r])
      BY <1>0, <1>2, <1>4, <1>5 DEF TypeOK, Threads
    <2> QED
      BY <2>1 DEF Answers
  <1> QED
    BY <1>1, <1>6, <1>7 DEF ChannelMoves, ChannelStutters

\* The channel moves where a position does.
LEMMA ChannelOfPublish ==
  ASSUME RingInv, RingInv', NEW t \in Threads, Publish(t)
  PROVE  ChannelMoves
  <1> USE ThreadsAssumption, NoneAssumption
  <1>0. TypeOK /\ Monitor /\ pc[t] = "publish"
    BY DEF RingInv, Publish
  <1>1. \A u \in sleeping : pc[u] = "asleep"
    BY <1>0 DEF Monitor, MutexTypes, NoLostWakeUp
  <1>2. \A u \in Threads : u # t => (pc'[u] = "publish" <=> pc[u] = "publish")
    BY <1>0, <1>1 DEF Publish
  <1>3. pc'[t] = "unlock"
    BY DEF Publish
  <1>4. CASE t \in Writers
    <2>1. msg' = [msg EXCEPT ![t] = None]
      BY <1>4 DEF Publish
    <2>2. Offers[t] = msg[t] /\ Offers' = [Offers EXCEPT ![t] = None]
      BY <1>0, <1>4, <2>1 DEF Offers, TypeOK, Threads
    <2>3. Answers' = Answers
      BY <1>0, <1>2, <1>4, <2>1 DEF Answers, TypeOK, Threads
    <2>4. /\ Queued' = Append(Queued, msg[t]) /\ msg[t] # None
          /\ Len(Queued) < RingSize \div MsgSize
      BY <1>4, PublishedQueue
    <2>5. Channel!Accept(t)
      BY <1>4, <2>2, <2>3, <2>4 DEF Channel!Accept, Offers, Answers
    <2> QED
      BY <1>4, <2>5 DEF ChannelMoves, Channel!Next
  <1>5. CASE t \notin Writers
    <2>1. msg' = msg /\ t \in Readers
      BY <1>5 DEF Publish, Threads
    <2>2. Offers' = Offers
      BY <2>1 DEF Offers
    <2>3. Answers[t] = None /\ Answers' = [Answers EXCEPT ![t] = msg[t]]
      BY <1>0, <1>2, <1>3, <2>1 DEF Answers, Threads
    <2>4. Queued # <<>> /\ Queued' = Tail(Queued) /\ msg[t] = Head(Queued)
      BY <1>5, PublishedQueue
    <2>5. Channel!Take(t)
      BY <2>1, <2>2, <2>3, <2>4 DEF Channel!Take, Offers, Answers
    <2> QED
      BY <2>1, <2>5 DEF ChannelMoves, Channel!Next
  <1> QED
    BY <1>4, <1>5

LEMMA ChannelOfUnlock ==
  ASSUME RingInv, RingInv', NEW t \in Threads, Unlock(t)
  PROVE  ChannelMoves
  <1> USE ThreadsAssumption, NoneAssumption
  <1>0. TypeOK /\ pc[t] = "unlock" /\ pc' = [pc EXCEPT ![t] = "idle"]
    BY DEF RingInv, Unlock, Goto
  <1>1. Queued' = Queued
    BY QuietQueue DEF Unlock
  <1>2. \A r \in Readers : msg'[r] = msg[r]
    BY <1>0 DEF Unlock, TypeOK, Threads
  <1>3. Answers' = Answers
    BY <1>0, <1>2 DEF Answers, TypeOK, Threads
  <1>4. CASE t \in Writers /\ msg[t] # None
    <2>1. Offers[t] # None /\ Offers' = [Offers EXCEPT ![t] = None]
      BY <1>0, <1>4 DEF Unlock, Offers, TypeOK, Threads
    <2>2. Channel!Refuse(t)
      BY <1>1, <1>3, <2>1 DEF Channel!Refuse, Offers, Answers
    <2> QED
      BY <1>4, <2>2 DEF ChannelMoves, Channel!Next
  <1>5. CASE ~(t \in Writers /\ msg[t] # None)
    <2>1. \A w \in Writers : msg'[w] = msg[w]
      BY <1>0, <1>5 DEF Unlock, TypeOK, Threads
    <2>2. Offers' = Offers
      BY <2>1 DEF Offers
    <2> QED
      BY <1>1, <1>3, <2>2 DEF ChannelMoves, ChannelStutters
  <1> QED
    BY <1>4, <1>5

LEMMA ChannelStep ==
  RingInv /\ RingInv' /\ [Next]_vars => [Channel!Next]_(Channel!chanVars)
  <1> SUFFICES ASSUME RingInv, RingInv', [Next]_vars
               PROVE  [Channel!Next]_(Channel!chanVars)
    OBVIOUS
  <1>1. ChannelMoves
    <2>1. ASSUME UNCHANGED vars PROVE ChannelMoves
      <3>1. UNCHANGED <<base, writePos, readPos, pc, msg>>
        BY <2>1 DEF vars
      <3>2. Queued' = Queued
        BY <3>1, QuietQueue
      <3> QED
        BY <3>1, <3>2 DEF ChannelMoves, ChannelStutters, Offers, Answers
    <2> QED
      BY <2>1, ChannelOfCalls, ChannelOfWaits, ChannelOfCopy, ChannelOfPublish,
         ChannelOfUnlock
      DEF Next, Inside
  <1> QED
    BY <1>1 DEF ChannelMoves, ChannelStutters, Channel!chanVars, Offers, Answers

\* A ring is a bounded queue of whole messages between its threads (ring_write and
\* ring_read of base_ring.c): what a write puts in arrives once, whole and in order, a
\* write that fails leaves no trace, and a read never returns part of a message or
\* parts of two, wherever in the ring it lies and however often the positions wrap.
THEOREM RingsAreChannels == Spec => ChannelSpec
  BY InitRingInv, ChannelStart, ChannelStep, AlwaysRingInv, PTL
  DEF Spec, ChannelSpec, Channel!Spec

============================================================================
