------------------------------- MODULE Arena -------------------------------
(***************************************************************************)
(* base_arena.c: an arena is a chain of reserved blocks of memory, whose   *)
(* pages are committed as they are needed.  Allocation moves a position    *)
(* up; a temporary scope remembers the position where it began and sets it *)
(* back when it ends, releasing the blocks above.                          *)
(*                                                                         *)
(* A block's address is a model value: the system may give a released      *)
(* block's address to the next reservation.  Positions are absolute: a     *)
(* block's base_pos and an offset in it.  If the system has no memory left *)
(* the program aborts: here it takes no step.                              *)
(***************************************************************************)
EXTENDS Integers, Sequences

CONSTANTS Addresses,  \* where the system may reserve a block
          Page,       \* get_system_info()->page_size
          Header,     \* ARENA_HEADER_SIZE
          ResSize, CmtSize,  \* arena_default_reserve_size, arena_default_commit_size
          Sizes, Aligns,     \* what callers ask for
          MaxLive,    \* bound: allocations at a time
          MaxTemps    \* bound: temporary scopes at a time

\* AlignPow2.
AlignUp(x, a) == IF x % a = 0 THEN x ELSE x + a - (x % a)

ASSUME ArenaAssumption ==
  /\ Page \in Nat \ {0} /\ Header \in Nat \ {0}
  /\ ResSize \in Nat /\ CmtSize \in Nat \ {0} /\ CmtSize <= ResSize
  /\ ResSize % Page = 0 /\ CmtSize % Page = 0
  /\ Header <= CmtSize
  /\ Sizes \subseteq Nat
  /\ Aligns \subseteq Nat \ {0}
  /\ \A a \in Aligns : Header % a = 0
  /\ MaxLive \in Nat /\ MaxTemps \in Nat

VARIABLES chain,      \* the blocks, the first one's header being the Arena itself
          live,       \* history: what has been allocated and not been given back
          temps       \* the open Temps: pos, and a history of how much was live

arenaVars == <<chain, live, temps>>

Block == [at : Addresses, base : Nat, pos : Nat, cmt : Nat, res : Nat, step : Nat \ {0}]
Allocation == [at : Addresses, lo : Nat, hi : Nat]
Scope == [pos : Nat, count : Nat]

\* arena_alloc: step is the block's cmt_size.
NewBlock(at, base, res, cmt) ==
  [at |-> at, base |-> base, pos |-> Header,
   cmt |-> AlignUp(cmt, Page), res |-> AlignUp(res, Page), step |-> cmt]

ArenaInit == /\ \E at \in Addresses : chain = <<NewBlock(at, 0, ResSize, CmtSize)>>
             /\ live = <<>> /\ temps = <<>>

Top == chain[Len(chain)]
Vacant == Addresses \ {chain[i].at : i \in DOMAIN chain}
TopPos == Top.base + Top.pos    \* arena_pos

Smaller(x, y) == IF x <= y THEN x ELSE y
Larger(x, y) == IF x >= y THEN x ELSE y

\* Block b with the pages committed that hold its first post bytes: whole steps, as far
\* as the block reaches.
Committed(b, post) ==
  [b EXCEPT !.cmt = IF @ < post THEN Smaller(AlignUp(post, b.step), b.res) ELSE @]

Taken(b, post) == [Committed(b, post) EXCEPT !.pos = post]

\* Seeded fault: the room is judged before the position is aligned.
FitsUnaligned(b, size, align) == b.pos + size <= b.res

\* Can the block take size more bytes?
Fits(b, size, align) == AlignUp(b.pos, align) + size <= b.res

Given(b, size, align) ==
  [at |-> b.at, lo |-> b.base + AlignUp(b.pos, align),
   hi |-> b.base + AlignUp(b.pos, align) + size]

\* arena_push into the current block ...
PushHere(size, align) ==
  /\ Len(live) < MaxLive
  /\ Fits(Top, size, align)
  /\ chain' = [chain EXCEPT ![Len(chain)] = Taken(@, AlignUp(Top.pos, align) + size)]
  /\ live' = Append(live, Given(Top, size, align))
  /\ UNCHANGED temps

\* ... or into a new one, of its own size if no default one would do.
Oversized(size) == size + Header > ResSize

ChainedBlock(at, size, align) ==
  LET need == AlignUp(size + Header, align)
      base == Top.base + Top.res
  IN  IF Oversized(size) THEN NewBlock(at, base, need, need)
      ELSE NewBlock(at, base, ResSize, CmtSize)

PushChained(size, align) ==
  /\ Len(live) < MaxLive
  /\ ~Fits(Top, size, align)
  /\ \E at \in Vacant :
       LET b == ChainedBlock(at, size, align)
       IN  /\ chain' = Append(chain, Taken(b, AlignUp(b.pos, align) + size))
           /\ live' = Append(live, Given(b, size, align))
  /\ UNCHANGED temps

\* Seeded fault: a block that begins where the position to go back to ends is kept.
KeptOneMore(i, pos) == i = 1 \/ chain[i].base <= Larger(Header, pos)

\* Does arena_pop_to(pos) keep block i?
Kept(i, pos) == i = 1 \/ chain[i].base < Larger(Header, pos)

\* arena_pop_to: releases from the top down to the first block that is kept.
LastKept(pos) ==
  CHOOSE i \in DOMAIN chain :
    Kept(i, pos) /\ \A j \in DOMAIN chain : j > i => ~Kept(j, pos)

PosLeft(pos) == Larger(Header, pos) - chain[LastKept(pos)].base

PopTo(pos) ==
  LET i == LastKept(pos)
  IN  /\ PosLeft(pos) <= chain[i].pos   \* AssertAlways
      /\ chain' = [SubSeq(chain, 1, i) EXCEPT ![i].pos = PosLeft(pos)]

TempBegin ==
  /\ Len(temps) < MaxTemps
  /\ temps' = Append(temps, [pos |-> TopPos, count |-> Len(live)])
  /\ UNCHANGED <<chain, live>>

\* Scopes end in the reverse order: the last one that began.
Temp == temps[Len(temps)]
TempEnd ==
  /\ temps # <<>>
  /\ PopTo(Temp.pos)
  /\ live' = SubSeq(live, 1, Temp.count)
  /\ temps' = SubSeq(temps, 1, Len(temps) - 1)

\* arena_clear, of an arena that nobody has a scope in.
Clear ==
  /\ temps = <<>>
  /\ PopTo(0)
  /\ live' = <<>>
  /\ UNCHANGED temps

\* arena_release, and an arena_alloc that may get an address back.
Renew ==
  /\ temps = <<>>
  /\ \E at \in Addresses : chain' = <<NewBlock(at, 0, ResSize, CmtSize)>>
  /\ live' = <<>>
  /\ UNCHANGED temps

ArenaNext == \/ \E size \in Sizes, align \in Aligns : PushHere(size, align) \/ PushChained(size, align)
             \/ TempBegin \/ TempEnd \/ Clear \/ Renew

ArenaSpec == ArenaInit /\ [][ArenaNext]_arenaVars

----------------------------------------------------------------------------
ArenaTypeOK ==
  /\ chain \in Seq(Block) /\ chain # <<>>
  /\ live \in Seq(Allocation)
  /\ temps \in Seq(Scope)

\* An allocation lies in block b: behind its header, below its position, and in
\* committed pages.
LiesIn(a, b) == /\ a.at = b.at
                /\ b.base + Header <= a.lo /\ a.lo <= a.hi
                /\ a.hi <= b.base + b.pos /\ a.hi <= b.base + b.cmt

\* Whatever has been allocated and not been given back lies in a block that is still
\* reserved and apart from everything else that has, however scopes began and ended
\* over the blocks' boundaries (base_arena.c's arena_push and arena_pop_to).
AllocationsApart ==
  /\ \A n \in DOMAIN live : \E i \in DOMAIN chain : LiesIn(live[n], chain[i])
  /\ \A m, n \in DOMAIN live : m < n /\ live[m].at = live[n].at => live[m].hi <= live[n].lo
  /\ \A i, j \in DOMAIN chain : chain[i].at = chain[j].at => i = j

\* A scope can always end: arena_pop_to's AssertAlways does not fire.
ScopesCanEnd ==
  temps # <<>> => PosLeft(Temp.pos) \in Header .. chain[LastKept(Temp.pos)].pos
=============================================================================
