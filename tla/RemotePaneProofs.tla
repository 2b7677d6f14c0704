------------------------- MODULE RemotePaneProofs -------------------------
(***************************************************************************)
(* The remote pane, for any names, rows and rings: its variables keep      *)
(* their types whoever touches it and when; and if nobody touches it       *)
(* before it has settled, what it then shows is the directory it names, in *)
(* order, as far as the server has listed it, and the delete dialog        *)
(* deletes only what it named.  RemotePane's violations are what becomes   *)
(* of the two without that condition.                                      *)
(***************************************************************************)
EXTENDS RemotePane, SequenceTheorems, FiniteSetTheorems, TLAPS

----------------------------------------------------------------------------
(* The n-th of finitely many, in the order of their numbers.               *)

LEMMA Least ==
  ASSUME NEW T \in SUBSET Nat, T # {}
  PROVE  \E x \in T : \A y \in T : x <= y
  <1>1. PICK x \in T : \A y \in T : ~ (<<y, x>> \in OpToRel(<, Nat))
    BY WFMin, NatLessThanWellFounded
  <1>2. ASSUME NEW y \in T PROVE x <= y
    <2>1. ~ (y < x)
      BY <1>1, <1>2 DEF OpToRel
    <2>2. x \in Nat /\ y \in Nat
      OBVIOUS
    <2> QED
      BY ONLY <2>1, <2>2
  <1> QED
    BY <1>2

\* How many of S have a number up to v, and below it.
UpTo(S, f, v) == Cardinality({j \in S : f[j] <= v})
Before(S, f, v) == Cardinality({j \in S : f[j] < v})

LEMMA CountsAreNat ==
  ASSUME NEW S, IsFiniteSet(S), NEW f, NEW v
  PROVE  /\ Cardinality(S) \in Nat
         /\ UpTo(S, f, v) \in Nat /\ UpTo(S, f, v) <= Cardinality(S)
         /\ Before(S, f, v) \in Nat /\ Before(S, f, v) <= Cardinality(S)
         /\ IsFiniteSet({j \in S : f[j] <= v}) /\ IsFiniteSet({j \in S : f[j] < v})
  <1>1. {j \in S : f[j] <= v} \in SUBSET S /\ {j \in S : f[j] < v} \in SUBSET S
    OBVIOUS
  <1>2. IsFiniteSet({j \in S : f[j] <= v}) /\ UpTo(S, f, v) <= Cardinality(S)
    BY <1>1, FS_Subset DEF UpTo
  <1>3. IsFiniteSet({j \in S : f[j] < v}) /\ Before(S, f, v) <= Cardinality(S)
    BY <1>1, FS_Subset DEF Before
  <1>4. Cardinality(S) \in Nat
    BY FS_CardinalityType
  <1>5. UpTo(S, f, v) \in Nat
    BY <1>2, FS_CardinalityType DEF UpTo
  <1>6. Before(S, f, v) \in Nat
    BY <1>3, FS_CardinalityType DEF Before
  <1> QED
    BY <1>2, <1>3, <1>4, <1>5, <1>6

\* One of them is the last.
LEMMA Greatest ==
  ASSUME NEW S, IsFiniteSet(S), S # {}, NEW f \in [S -> Nat]
  PROVE  \E i \in S : \A j \in S : f[j] <= f[i]
  <1> DEFINE N == Cardinality(S)
             c(i) == UpTo(S, f, f[i])
             T == {N - c(i) : i \in S}
  <1>1. \A i \in S : c(i) \in Nat /\ c(i) <= N /\ N \in Nat
    BY CountsAreNat
  <1>2. T \in SUBSET Nat /\ T # {}
    <2> HIDE DEF c, N
    <2> QED
      BY <1>1
  <1>3. PICK m \in T : \A y \in T : m <= y
    <2> HIDE DEF T
    <2> QED
      BY <1>2, Least
  <1>4. PICK i \in S : m = N - c(i)
    OBVIOUS
  <1>5. ASSUME NEW j \in S, ~(f[j] <= f[i]) PROVE FALSE
    <2> DEFINE A == {k \in S : f[k] <= f[i]}
               B == {k \in S : f[k] <= f[j]}
    <2>1. f[i] \in Nat /\ f[j] \in Nat /\ f[i] < f[j]
      BY <1>5
    <2>2. A \in SUBSET B /\ j \in B /\ j \notin A
      BY <1>5, <2>1
    <2>3. IsFiniteSet(B) /\ c(i) = Cardinality(A) /\ c(j) = Cardinality(B)
      BY CountsAreNat, ZenonT(30) DEF UpTo
    <2> HIDE DEF A, B, c, N
    <2>4. c(i) <= c(j) /\ c(i) # c(j)
      BY <2>2, <2>3, FS_Subset
    <2>5. N - c(j) \in T
      OBVIOUS
    <2>6. N - c(i) <= N - c(j)
      BY <1>3, <1>4, <2>5
    <2> QED
      BY <1>1, <2>4, <2>6
  <1> QED
    BY <1>5

LEMMA Nth ==
  ASSUME NEW S, IsFiniteSet(S), NEW f \in [S -> Nat], NEW n \in 1 .. Cardinality(S)
  PROVE  \E i \in S : Before(S, f, f[i]) < n /\ n <= UpTo(S, f, f[i])
  <1> DEFINE N == Cardinality(S)
             A == {i \in S : n <= UpTo(S, f, f[i])}
             V == {f[i] : i \in A}
  <1>1. N \in Nat /\ n \in Nat /\ n <= N /\ 1 <= n
    BY FS_CardinalityType
  <1>2. S # {}
    BY <1>1, FS_EmptySet
  <1>3. PICK t \in S : \A j \in S : f[j] <= f[t]
    BY <1>2, Greatest
  <1>4. t \in A
    <2>1. {j \in S : f[j] <= f[t]} = S
      BY <1>3
    <2> QED
      BY <1>1, <2>1 DEF UpTo
  <1>5. V \in SUBSET Nat /\ V # {}
    BY <1>4
  <1>6. PICK v \in V : \A y \in V : v <= y
    <2> HIDE DEF V
    <2> QED
      BY <1>5, Least
  <1>7. PICK i \in A : v = f[i]
    OBVIOUS
  <1> DEFINE P == {j \in S : f[j] < f[i]}
  <1>8. Cardinality(P) < n
    <2>1. CASE P = {}
      BY <1>1, <2>1, FS_EmptySet
    <2>2. CASE P # {}
      <3> DEFINE g == [j \in P |-> f[j]]
      <3>1. IsFiniteSet(P) /\ g \in [P -> Nat]
        <4>1. IsFiniteSet(P)
          <5>1. P \in SUBSET S
            OBVIOUS
          <5> HIDE DEF P
          <5> QED
            BY <5>1, FS_Subset
        <4>2. \A j \in P : f[j] \in Nat
          OBVIOUS
        <4> HIDE DEF P
        <4> QED
          BY <4>1, <4>2
      <3> HIDE DEF P
      <3>2. PICK w \in P : \A j \in P : g[j] <= g[w]
        BY <2>2, <3>1, Greatest
      <3>3. w \in S /\ f[w] \in Nat /\ f[i] \in Nat /\ f[w] < f[i] /\ \A j \in P : f[j] <= f[w]
        BY <3>2 DEF P
      <3>4. {j \in S : f[j] <= f[w]} = P
        <4>1. ASSUME NEW j \in S, f[j] <= f[w] PROVE f[j] < f[i]
          <5>1. f[j] \in Nat
            OBVIOUS
          <5> QED
            BY <3>3, <4>1, <5>1
        <4>2. \A j \in P : j \in S
          BY DEF P
        <4> QED
          BY <3>3, <4>1, <4>2 DEF P
      <3>5. w \notin A
        <4>1. ASSUME w \in A PROVE FALSE
          <5>1. f[i] <= f[w]
            BY <1>6, <1>7, <4>1
          <5> QED
            BY <3>3, <5>1
        <4> QED
          BY <4>1
      <3>6. UpTo(S, f, f[w]) \in Nat /\ UpTo(S, f, f[w]) = Cardinality(P)
        <4>1. UpTo(S, f, f[w]) \in Nat
          BY CountsAreNat
        <4> QED
          BY <3>4, <4>1 DEF UpTo
      <3> QED
        BY <1>1, <3>3, <3>5, <3>6
    <2> QED
      BY <2>1, <2>2
  <1> QED
    BY <1>7, <1>8 DEF Before

\* When no two have the same number, one more is up to it than before it.
LEMMA OneMore ==
  ASSUME NEW S, IsFiniteSet(S), NEW f \in [S -> Nat], NEW i \in S,
         \A j \in S : f[j] = f[i] => j = i
  PROVE  UpTo(S, f, f[i]) = Before(S, f, f[i]) + 1
  <1> DEFINE P == {j \in S : f[j] < f[i]}
             Q == {j \in S : f[j] <= f[i]}
  <1>1. \A j \in S : f[j] \in Nat
    OBVIOUS
  <1>2. Q = P \cup {i} /\ i \notin P
    BY <1>1
  <1>3. IsFiniteSet(P)
    BY CountsAreNat, ZenonT(30)
  <1> HIDE DEF P, Q
  <1>4. Cardinality(Q) = Cardinality(P) + 1
    BY <1>2, <1>3, FS_AddElement
  <1> QED
    BY <1>4 DEF P, Q, UpTo, Before

LEMMA FunctionIsSeq ==
  ASSUME NEW S, NEW n \in Nat, NEW f \in [1 .. n -> S]
  PROVE  f \in Seq(S) /\ Len(f) = n
  <1>1. f \in Seq(S)
    BY SeqDef
  <1>2. DOMAIN f = 1 .. n /\ DOMAIN f = 1 .. Len(f) /\ Len(f) \in Nat
    BY <1>1, LenProperties
  <1> QED
    BY <1>1, <1>2

----------------------------------------------------------------------------
(* The rows that qsort leaves, and the deletions that are asked for.       *)

Shown == {rows[i] : i \in Indices}

\* Row n of the sorted pane has fewer than n of the names before it, and n up to it.
LEMMA RowsInOrder ==
  ASSUME rows \in Seq(Names)
  PROVE  /\ InOrder \in Seq(Names) /\ Len(InOrder) = Len(rows)
         /\ \A n \in Indices : /\ InOrder[n] \in Shown
                               /\ Before(Indices, rows, InOrder[n]) < n
                               /\ n <= UpTo(Indices, rows, InOrder[n])
  <1>1. /\ Len(rows) \in Nat /\ rows \in [Indices -> Names] /\ Names \subseteq Nat
        /\ rows \in [Indices -> Nat]
    <2>1. Len(rows) \in Nat /\ rows \in [Indices -> Names]
      BY LenProperties DEF Indices
    <2>2. Names \subseteq Nat
      BY NamesAssumption DEF Names
    <2> QED
      BY <2>1, <2>2
  <1>2. IsFiniteSet(Indices) /\ Cardinality(Indices) = Len(rows)
    BY <1>1, FS_Interval DEF Indices
  <1>3. ASSUME NEW n \in Indices
        PROVE  /\ InOrder[n] \in Shown
               /\ Before(Indices, rows, InOrder[n]) < n
               /\ n <= UpTo(Indices, rows, InOrder[n])
    <2>1. n \in 1 .. Cardinality(Indices)
      BY <1>2, <1>3 DEF Indices
    <2>2. PICK i \in Indices : Before(Indices, rows, rows[i]) < n /\ n <= UpTo(Indices, rows, rows[i])
      BY <1>1, <1>2, <2>1, Nth
    <2>3. /\ Before(Indices, rows, rows[i]) \in Nat /\ UpTo(Indices, rows, rows[i]) \in Nat
      BY <1>2, CountsAreNat
    <2> DEFINE Fits(v) == Before(Indices, rows, v) < n /\ UpTo(Indices, rows, v) >= n
    <2>4. \E v \in Shown : Fits(v)
      BY <1>1, <2>2, <2>3 DEF Shown, Indices
    <2>5. InOrder[n] = CHOOSE v \in Shown : Fits(v)
      BY DEF InOrder, Shown, Before, UpTo
    <2>6. InOrder[n] \in Shown /\ Fits(InOrder[n])
      <3> HIDE DEF Fits
      <3> QED
        BY <2>4, <2>5
    <2>7. UpTo(Indices, rows, InOrder[n]) \in Nat /\ n \in Nat
      <3>1. n \in Nat
        BY <1>1, <1>3 DEF Indices
      <3> QED
        BY <1>2, <3>1, CountsAreNat
    <2> QED
      BY <2>6, <2>7
  <1>4. InOrder \in [1 .. Len(rows) -> Names]
    <2>1. Shown \subseteq Names
      BY <1>1 DEF Shown
    <2>2. \A n \in Indices : InOrder[n] \in Names
      BY <1>3, <2>1
    <2> QED
      BY <2>2 DEF InOrder, Indices
  <1> QED
    BY <1>1, <1>3, <1>4, FunctionIsSeq

\* A request to delete, whatever is left of the path.
LEMMA DeleteReq ==
  ASSUME NEW p \in Paths, NEW f \in Files
  PROVE  Delete(p, f) \in Reqs /\ Delete(p, f).kind = "Delete"
  <1> DEFINE to == IF p \in Dirs THEN FileSent[p][f] ELSE [dir |-> p, file |-> f]
  <1>1. to \in Places
    BY SentAssumption DEF Places
  <1>2. to.dir \in Paths /\ to.file \in Files
    BY <1>1 DEF Places
  <1>3. Delete(p, f) = [kind |-> "Delete", dir |-> to.dir, file |-> to.file]
    BY DEF Delete
  <1> HIDE DEF to
  <1> QED
    BY <1>2, <1>3 DEF Reqs

\* Each names a file that is in a selected row.
LEMMA DeletionsType ==
  ASSUME TypeOK
  PROVE  /\ Deletions \in Seq(Reqs)
         /\ \A n \in 1 .. Len(Deletions) : Deletions[n].kind = "Delete"
  <1>1. rows \in Seq(Names) /\ Len(rows) \in Nat /\ path \in Paths
    BY DEF TypeOK
  <1>2. IsFiniteSet(Indices) /\ Doomed \in SUBSET Indices /\ Indices \subseteq Nat
    BY <1>1, FS_Interval, SMTT(30) DEF Indices, Doomed
  <1>3. IsFiniteSet(Doomed) /\ Cardinality(Doomed) \in Nat
    BY <1>2, FS_Subset, FS_CardinalityType
  <1> DEFINE f == [i \in Doomed |-> i]
             At(n) == CHOOSE i \in Doomed : Cardinality({j \in Doomed : j <= i}) = n
  <1>4. ASSUME NEW n \in 1 .. Cardinality(Doomed) PROVE At(n) \in Doomed
    <2>1. f \in [Doomed -> Nat]
      BY <1>2
    <2>2. PICK i \in Doomed : Before(Doomed, f, f[i]) < n /\ n <= UpTo(Doomed, f, f[i])
      <3> HIDE DEF f
      <3> QED
        BY <1>3, <2>1, Nth
    <2>3. UpTo(Doomed, f, f[i]) = Before(Doomed, f, f[i]) + 1
      <3>1. \A j \in Doomed : f[j] = f[i] => j = i
        OBVIOUS
      <3> HIDE DEF f
      <3> QED
        BY <1>3, <2>1, <3>1, OneMore
    <2>4. Before(Doomed, f, f[i]) \in Nat /\ n \in Nat
      <3>1. n \in Nat
        BY <1>3
      <3> HIDE DEF f
      <3> QED
        BY <1>3, <3>1, CountsAreNat
    <2>5. UpTo(Doomed, f, f[i]) = n
      BY ONLY <2>2, <2>3, <2>4
    <2>6. {j \in Doomed : f[j] <= f[i]} = {j \in Doomed : j <= i}
      OBVIOUS
    <2>7. Cardinality({j \in Doomed : j <= i}) = n
      BY <2>5, <2>6 DEF UpTo
    <2> QED
      BY <2>7
  <1> DEFINE req(n) == Delete(path, rows[At(n)])
  <1>5. Deletions = [n \in 1 .. Cardinality(Doomed) |-> req(n)]
    BY DEF Deletions
  <1>6. \A n \in 1 .. Cardinality(Doomed) : req(n) \in Reqs /\ req(n).kind = "Delete"
    <2> TAKE n \in 1 .. Cardinality(Doomed)
    <2>1. rows[At(n)] \in Files
      BY <1>4 DEF Doomed
    <2> QED
      BY <1>1, <2>1, DeleteReq
  <1> HIDE DEF req
  <1>7. Deletions \in [1 .. Cardinality(Doomed) -> Reqs]
    BY <1>5, <1>6
  <1> QED
    BY <1>3, <1>5, <1>6, <1>7, FunctionIsSeq

----------------------------------------------------------------------------
(* Types.                                                                  *)

ServerOK == /\ server \in [Dirs -> SUBSET Files] /\ landed \subseteq Dirs
            /\ uploads \in 0 .. MaxUploads /\ losses \in 0 .. MaxLosses
PaneOK == /\ path \in Paths /\ pathFreed \in BOOLEAN
          /\ rows \in Seq(Names) /\ Len(rows) <= MaxRows
          /\ sorted \in BOOLEAN /\ selected \subseteq Indices
DialogOK == dialog \subseteq Paths \X Files
Controls == [pc : ControlPcs, left : SUBSET Names, dir : Paths, whole : BOOLEAN]
InOK == inRing \in Seq(Reqs) /\ Len(inRing) <= InCap
OutOK == outRing \in Seq(OutMsgs) /\ Len(outRing) <= OutCap

LEMMA TypeParts ==
  /\ TypeOK => ServerOK /\ PaneOK /\ DialogOK /\ control \in Controls /\ InOK /\ OutOK
  /\ ServerOK /\ PaneOK /\ DialogOK /\ control \in Controls /\ InOK /\ OutOK => TypeOK
  /\ ServerOK' /\ PaneOK' /\ DialogOK' /\ control' \in Controls /\ InOK' /\ OutOK' => TypeOK'
  BY DEF TypeOK, ServerOK, PaneOK, DialogOK, Controls, InOK, OutOK

\* What a step leaves alone keeps its type.
LEMMA SameServer == ServerOK /\ UNCHANGED server_vars => ServerOK'
  BY DEF ServerOK, server_vars
LEMMA SamePane == PaneOK /\ UNCHANGED pane => PaneOK'
  BY DEF PaneOK, pane, Indices
LEMMA SameDialog == DialogOK /\ (UNCHANGED dialog \/ dialog' = {}) => DialogOK'
  BY DEF DialogOK
LEMMA SameIn == InOK /\ UNCHANGED inRing => InOK'
  BY DEF InOK
LEMMA SameOut == OutOK /\ UNCHANGED outRing => OutOK'
  BY DEF OutOK
LEMMA EmptyRings == /\ inRing' = <<>> => InOK'
                    /\ outRing' = <<>> => OutOK'
  <1>1. <<>> \in Seq(Reqs) /\ <<>> \in Seq(OutMsgs)
    OBVIOUS
  <1>2. Len(<<>>) <= InCap /\ Len(<<>>) <= OutCap
    BY EmptySeq, PaneSizesAssumption
  <1> QED
    BY <1>1, <1>2 DEF InOK, OutOK

LEMMA RootIsPath == Root \in Paths /\ Garbled \in Paths /\ Dirs \subseteq Paths
  BY NamesAssumption DEF Paths

LEMMA EmptyPane == Empty /\ path' \in Paths /\ pathFreed' \in BOOLEAN => PaneOK'
  <1>1. <<>> \in Seq(Names) /\ Len(<<>>) <= MaxRows
    BY EmptySeq, PaneSizesAssumption
  <1> QED
    BY <1>1 DEF Empty, PaneOK, Indices

LEMMA ShowDirType == ASSUME NEW p \in Paths, ShowDir(p) PROVE PaneOK'
  BY EmptyPane DEF ShowDir

LEMMA AskType ==
  ASSUME InOK, NEW reqs \in Seq(Reqs), Ask(reqs)
  PROVE  InOK'
  BY ConcatProperties DEF InOK, Ask

LEMMA ListDirReq == ASSUME NEW p \in Paths PROVE ListDir(p) \in Reqs /\ <<ListDir(p)>> \in Seq(Reqs)
  <1>1. ListDir(p) \in Reqs
    BY SentAssumption DEF ListDir, Reqs
  <1> QED
    BY <1>1

LEMMA SayType ==
  ASSUME OutOK, NEW m \in OutMsgs, Say(m)
  PROVE  OutOK' /\ outRing' # <<>> /\ Len(outRing') = Len(outRing) + 1 /\ Len(outRing) \in Nat
         /\ outRing'[Len(outRing) + 1] = m
         /\ \A i \in 1 .. Len(outRing) : outRing'[i] = outRing[i]
  <1>1. /\ Append(outRing, m) \in Seq(OutMsgs) /\ Len(Append(outRing, m)) = Len(outRing) + 1
        /\ Len(outRing) \in Nat /\ Len(outRing) < OutCap
        /\ Append(outRing, m) # <<>> /\ Append(outRing, m)[Len(outRing) + 1] = m
        /\ \A i \in 1 .. Len(outRing) : Append(outRing, m)[i] = outRing[i]
    BY AppendProperties DEF OutOK, Say
  <1>2. outRing' = Append(outRing, m)
    BY DEF Say
  <1> QED
    BY <1>1, <1>2, PaneSizesAssumption DEF OutOK

LEMMA OutTail ==
  ASSUME OutOK, outRing # <<>>
  PROVE  /\ Head(outRing) = outRing[1] /\ outRing[1] \in OutMsgs /\ 1 \in 1 .. Len(outRing)
         /\ Tail(outRing) \in Seq(OutMsgs) /\ Len(outRing) \in Nat \ {0}
         /\ Len(Tail(outRing)) = Len(outRing) - 1
         /\ \A i \in 1 .. Len(outRing) - 1 : Tail(outRing)[i] = outRing[i + 1]
         /\ outRing' = Tail(outRing) => OutOK'
  <1>1. /\ Head(outRing) = outRing[1] /\ outRing[1] \in OutMsgs
        /\ Tail(outRing) \in Seq(OutMsgs) /\ Len(outRing) \in Nat \ {0}
        /\ Len(Tail(outRing)) = Len(outRing) - 1
        /\ \A i \in 1 .. Len(outRing) - 1 : Tail(outRing)[i] = outRing[i + 1]
    BY HeadTailProperties, EmptySeq DEF OutOK
  <1>2. 1 \in 1 .. Len(outRing) /\ Len(Tail(outRing)) <= OutCap
    BY <1>1, PaneSizesAssumption DEF OutOK
  <1> QED
    BY <1>1, <1>2 DEF OutOK

LEMMA InTail ==
  ASSUME InOK, inRing # <<>>
  PROVE  /\ Head(inRing) = inRing[1] /\ inRing[1] \in Reqs /\ 1 \in 1 .. Len(inRing)
         /\ Tail(inRing) \in Seq(Reqs) /\ Len(inRing) \in Nat \ {0}
         /\ Len(Tail(inRing)) = Len(inRing) - 1
         /\ \A i \in 1 .. Len(inRing) - 1 : Tail(inRing)[i] = inRing[i + 1]
         /\ inRing' = Tail(inRing) => InOK'
  <1>1. /\ Head(inRing) = inRing[1] /\ inRing[1] \in Reqs
        /\ Tail(inRing) \in Seq(Reqs) /\ Len(inRing) \in Nat \ {0}
        /\ Len(Tail(inRing)) = Len(inRing) - 1
        /\ \A i \in 1 .. Len(inRing) - 1 : Tail(inRing)[i] = inRing[i + 1]
    BY HeadTailProperties, EmptySeq DEF InOK
  <1>2. 1 \in 1 .. Len(inRing) /\ Len(Tail(inRing)) <= InCap
    BY <1>1, PaneSizesAssumption DEF InOK
  <1> QED
    BY <1>1, <1>2 DEF InOK

LEMMA ContentsType == ServerOK => \A d \in Dirs : Contents(d) \in SUBSET Names
  BY DEF ServerOK, Contents, Names

\* What the control thread does.
LEMMA ThreadTypes == TypeOK /\ ThreadStep => TypeOK'
  <1> SUFFICES ASSUME TypeOK, ThreadStep PROVE TypeOK'
    OBVIOUS
  <1>1. ServerOK /\ PaneOK /\ DialogOK /\ control \in Controls /\ InOK /\ OutOK
    BY TypeParts
  <1>2. PaneOK' /\ DialogOK'
    <2>1. UNCHANGED pane /\ UNCHANGED dialog
      BY DEF ThreadStep, LoggedIn, SendEntry, ReadFails, SendDone, Serve, Lose
    <2> QED
      BY <1>1, <2>1, SamePane, SameDialog
  <1>3. ASSUME NEW d \in Paths, OpenDir(d) PROVE control' \in Controls
    <2>1. \E S \in SUBSET Names, w \in BOOLEAN :
            control' = [pc |-> "list", left |-> S, dir |-> d, whole |-> w]
      <3>1. d \in Dirs => Contents(d) \in SUBSET Names
        BY <1>1, ContentsType
      <3> HIDE DEF Contents
      <3> QED
        BY <1>3, <3>1, Zenon DEF OpenDir
    <2> QED
      BY <2>1 DEF Controls, ControlPcs
  <1>4. CASE LoggedIn
    <2>1. control' \in Controls
      BY <1>1, <1>3, <1>4 DEF LoggedIn, Controls
    <2> QED
      BY <1>1, <1>2, <1>4, <2>1, SameServer, SameIn, SameOut, TypeParts DEF LoggedIn
  <1>5. ASSUME NEW n \in Names, SendEntry(n) PROVE TypeOK'
    <2>1. control' \in Controls
      BY <1>1, <1>5 DEF SendEntry, Controls
    <2>2. Entry(n) \in OutMsgs
      BY DEF Entry, OutMsgs
    <2>3. OutOK'
      BY <1>1, <1>5, <2>2, SayType DEF SendEntry
    <2> QED
      BY <1>1, <1>2, <1>5, <2>1, <2>3, SameServer, SameIn, TypeParts DEF SendEntry
  <1>6. CASE SendDone
    <2>1. control' \in Controls
      BY <1>1, <1>6 DEF SendDone, Controls, ControlPcs
    <2>2. OutOK'
      <3>1. [kind |-> "Done"] \in OutMsgs
        BY DEF OutMsgs
      <3> QED
        BY <1>1, <1>6, <3>1, SayType DEF SendDone
    <2> QED
      BY <1>1, <1>2, <1>6, <2>1, <2>2, SameServer, SameIn, TypeParts DEF SendDone
  <1>7. CASE Serve
    <2>1. /\ UNCHANGED <<landed, uploads, losses, outRing>> /\ inRing # <<>>
          /\ inRing' = Tail(inRing)
      BY <1>7 DEF Serve
    <2>2. InOK' /\ OutOK' /\ Head(inRing) \in Reqs
      BY <1>1, <2>1, InTail, SameOut
    <2> DEFINE req == Head(inRing)
    <2>3. CASE /\ req.kind = "ListDir" /\ OpenDir(req.dir) /\ UNCHANGED server
      <3>1. req.dir \in Paths
        BY <2>2 DEF Reqs
      <3>2. control' \in Controls
        BY <1>3, <2>3, <3>1
      <3> QED
        BY <1>1, <1>2, <2>1, <2>2, <2>3, <3>2, TypeParts DEF ServerOK
    <2>4. CASE /\ req.kind = "Delete" /\ req.dir \in Dirs
               /\ server' = [server EXCEPT ![req.dir] = @ \ {req.file}] /\ UNCHANGED control
      <3>1. ServerOK'
        BY <1>1, <2>1, <2>4 DEF ServerOK
      <3> QED
        BY <1>1, <1>2, <2>2, <2>4, <3>1, TypeParts
    <2>5. CASE req.kind = "Delete" /\ UNCHANGED <<server, control>>
      BY <1>1, <1>2, <2>1, <2>2, <2>5, TypeParts DEF ServerOK
    <2> QED
      BY <1>7, <2>3, <2>4, <2>5 DEF Serve
  <1>8. CASE Lose
    <2>1. control' \in Controls
      BY <1>8, RootIsPath DEF Lose, Start, Controls, ControlPcs
    <2>2. OutOK'
      <3>1. [kind |-> "Disconnected"] \in OutMsgs
        BY DEF OutMsgs
      <3> QED
        BY <1>1, <1>8, <3>1, SayType DEF Lose
    <2>3. ServerOK'
      BY <1>1, <1>8, PaneSizesAssumption DEF Lose, ServerOK
    <2> QED
      BY <1>1, <1>2, <1>8, <2>1, <2>2, <2>3, SameIn, TypeParts DEF Lose
  <1>9. CASE ReadFails
    <2>1. control' \in Controls
      BY <1>1, <1>9 DEF ReadFails, Controls
    <2> QED
      BY <1>1, <1>2, <1>9, <2>1, SameServer, SameIn, SameOut, TypeParts DEF ReadFails
  <1> QED
    BY <1>4, <1>5, <1>6, <1>7, <1>8, <1>9 DEF ThreadStep

\* What draining the out ring does, and starting anew.
LEMMA UiTypes == TypeOK /\ UiStep => TypeOK'
  <1> SUFFICES ASSUME TypeOK, UiStep PROVE TypeOK'
    OBVIOUS
  <1>1. ServerOK /\ PaneOK /\ DialogOK /\ control \in Controls /\ InOK /\ OutOK
    BY TypeParts
  <1>2. ServerOK' /\ DialogOK'
    <2>1. UNCHANGED server_vars /\ UNCHANGED dialog
      BY DEF UiStep, DrainEntry, DrainDone, DrainDisconnected, Reconnect
    <2> QED
      BY <1>1, <2>1, SameServer, SameDialog
  <1>3. CASE DrainEntry
    <2>1. /\ outRing # <<>> /\ outRing' = Tail(outRing) /\ Head(outRing).kind = "Entry"
          /\ UNCHANGED <<sorted, selected, control, inRing>>
      BY <1>3 DEF DrainEntry
    <2>2. OutOK' /\ InOK' /\ control' \in Controls /\ Head(outRing) \in OutMsgs
      BY <1>1, <2>1, OutTail, SameIn
    <2>3. Head(outRing).name \in Names
      BY <2>1, <2>2 DEF OutMsgs
    <2>4. PaneOK'
      <3>1. CASE Len(rows) < MaxRows
        <4>1. rows' = Append(rows, Head(outRing).name) /\ Overwrite
          BY <1>3, <3>1 DEF DrainEntry
        <4>2. path' \in Paths /\ pathFreed' \in BOOLEAN
          BY <1>1, <4>1, RootIsPath DEF Overwrite, PaneOK
        <4>3. rows' \in Seq(Names) /\ Len(rows') = Len(rows) + 1 /\ Len(rows) \in Nat
          BY <1>1, <2>3, <4>1, AppendProperties DEF PaneOK
        <4>4. Len(rows') <= MaxRows /\ 1 .. Len(rows) \subseteq 1 .. Len(rows')
          BY <3>1, <4>3, PaneSizesAssumption
        <4> QED
          BY <1>1, <2>1, <4>2, <4>3, <4>4 DEF PaneOK, Indices
      <3>2. CASE ~(Len(rows) < MaxRows)
        BY <1>1, <1>3, <3>2, SamePane DEF DrainEntry, pane
      <3> QED
        BY <3>1, <3>2
    <2> QED
      BY <1>2, <2>2, <2>4, TypeParts
  <1>4. CASE DrainDone
    <2>1. /\ outRing # <<>> /\ outRing' = Tail(outRing)
          /\ rows' = IF sorted THEN rows ELSE InOrder
          /\ sorted' = TRUE /\ UNCHANGED <<path, pathFreed, selected, control, inRing>>
      BY <1>4 DEF DrainDone
    <2>2. OutOK' /\ InOK' /\ control' \in Controls
      BY <1>1, <2>1, OutTail, SameIn
    <2>3. rows' \in Seq(Names) /\ Len(rows') = Len(rows)
      BY <1>1, <2>1, RowsInOrder DEF PaneOK
    <2>4. PaneOK'
      BY <1>1, <2>1, <2>3 DEF PaneOK, Indices
    <2> QED
      BY <1>2, <2>2, <2>4, TypeParts
  <1>5. CASE DrainDisconnected
    <2>1. /\ outRing' = <<>> /\ inRing' = <<>> /\ control' = [control EXCEPT !.pc = "gap"]
          /\ Empty /\ pathFreed' = TRUE /\ path' = path
      BY <1>5 DEF DrainDisconnected
    <2>2. control' \in Controls
      BY <1>1, <2>1 DEF Controls, ControlPcs
    <2>3. PaneOK'
      BY <1>1, <2>1, EmptyPane DEF PaneOK
    <2> QED
      BY <1>2, <2>1, <2>2, <2>3, EmptyRings, TypeParts
  <1>6. CASE Reconnect
    <2>1. control' \in Controls
      BY <1>1, <1>6 DEF Reconnect, Start, Controls, ControlPcs, PaneOK
    <2> QED
      BY <1>1, <1>2, <1>6, <2>1, SamePane, SameIn, SameOut, TypeParts DEF Reconnect
  <1> QED
    BY <1>3, <1>4, <1>5, <1>6 DEF UiStep

LEMMA SelectTypes ==
  ASSUME TypeOK, NEW to \in SUBSET Indices, Select(to)
  PROVE  TypeOK'
  <1>1. ServerOK /\ PaneOK /\ DialogOK /\ control \in Controls /\ InOK /\ OutOK
    BY TypeParts
  <1>2. PaneOK'
    BY <1>1 DEF Select, PaneOK, Indices
  <1> QED
    BY <1>1, <1>2, SameServer, SameDialog, SameIn, SameOut, TypeParts DEF Select, session

\* What the user does.
LEMMA UserTypes == TypeOK /\ UserStep => TypeOK'
  <1> SUFFICES ASSUME TypeOK, UserStep PROVE TypeOK'
    OBVIOUS
  <1>1. ServerOK /\ PaneOK /\ DialogOK /\ control \in Controls /\ InOK /\ OutOK
    BY TypeParts
  <1>2. ASSUME NEW i \in 1 .. MaxRows, Navigate(i) PROVE TypeOK'
    <2>1. PICK p \in Joined(rows[i]) : ShowDir(p) /\ Ask(<<ListDir(p)>>)
      BY <1>2 DEF Navigate
    <2>2. p \in Paths
      BY <1>2, RootIsPath DEF Navigate, Joined
    <2>3. InOK' /\ PaneOK'
      BY <1>1, <2>1, <2>2, ListDirReq, AskType, ShowDirType
    <2> QED
      BY <1>1, <1>2, <2>3, SameServer, SameDialog, SameOut, TypeParts DEF Navigate
  <1>3. ASSUME NEW i \in 1 .. MaxRows, Click(i) \/ CtrlClick(i) PROVE TypeOK'
    <2>1. selected \subseteq Indices
      BY <1>1 DEF PaneOK
    <2> QED
      BY <1>3, <2>1, SelectTypes DEF Click, CtrlClick
  <1>4. ASSUME NEW lo \in 1 .. MaxRows, NEW hi \in 1 .. MaxRows, ShiftClick(lo, hi)
        PROVE  TypeOK'
    <2>1. lo .. hi \subseteq Indices
      <3>1. Len(rows) \in Nat
        BY <1>1 DEF PaneOK
      <3> QED
        BY <1>4, <3>1 DEF ShiftClick, Indices
    <2> QED
      BY <1>4, <2>1, SelectTypes DEF ShiftClick
  <1>5. CASE OpenDelete
    <2>1. DialogOK'
      BY <1>1, <1>5 DEF OpenDelete, DialogOK, Chosen, Doomed, PaneOK
    <2> QED
      BY <1>1, <1>5, <2>1, SameServer, SamePane, SameIn, SameOut, TypeParts DEF OpenDelete, session
  <1>6. CASE CancelDelete
    BY <1>1, <1>6, SameServer, SamePane, SameDialog, SameIn, SameOut, TypeParts
       DEF CancelDelete, session
  <1>7. CASE ConfirmDelete
    <2>1. UNCHANGED <<server_vars, control, outRing>> /\ dialog' = {}
      BY <1>7 DEF ConfirmDelete
    <2>2. PaneOK' /\ InOK'
      <3>1. CASE Connected
        <4>1. ShowDir(path) /\ Ask(Append(Deletions, ListDir(path)))
          BY <1>7, <3>1 DEF ConfirmDelete
        <4>2. path \in Paths
          BY <1>1 DEF PaneOK
        <4>3. Append(Deletions, ListDir(path)) \in Seq(Reqs)
          BY <4>2, DeletionsType, ListDirReq, AppendProperties
        <4> QED
          BY <1>1, <4>1, <4>2, <4>3, ShowDirType, AskType
      <3>2. CASE ~Connected
        BY <1>1, <1>7, <3>2, SamePane, SameIn DEF ConfirmDelete
      <3> QED
        BY <3>1, <3>2
    <2> QED
      BY <1>1, <2>1, <2>2, SameServer, SameDialog, SameOut, TypeParts
  <1>8. CASE ConnectTo
    <2>1. control' \in Controls /\ PaneOK'
      BY <1>8, RootIsPath, ShowDirType DEF ConnectTo, Start, Controls, ControlPcs
    <2> QED
      BY <1>1, <1>8, <2>1, SameServer, SameDialog, EmptyRings, TypeParts DEF ConnectTo
  <1> QED
    BY <1>2, <1>3, <1>4, <1>5, <1>6, <1>7, <1>8 DEF UserStep

\* What uploads do.
LEMMA UploadTypes == TypeOK /\ UploadStep => TypeOK'
  <1> SUFFICES ASSUME TypeOK, UploadStep PROVE TypeOK'
    OBVIOUS
  <1>1. ServerOK /\ PaneOK /\ DialogOK /\ control \in Controls /\ InOK /\ OutOK
    BY TypeParts
  <1>2. ASSUME NEW d \in Dirs, NEW f \in Files, UploadLands(d, f) PROVE TypeOK'
    <2>1. ServerOK'
      BY <1>1, <1>2, PaneSizesAssumption DEF UploadLands, ServerOK
    <2> QED
      BY <1>1, <1>2, <2>1, SamePane, SameDialog, SameIn, SameOut, TypeParts
         DEF UploadLands, session
  <1>3. ASSUME NEW d \in Dirs, UploadEnds(d) PROVE TypeOK'
    <2>1. ServerOK'
      BY <1>1, <1>3 DEF UploadEnds, ServerOK
    <2>2. PaneOK' /\ InOK'
      <3>1. CASE RefreshListing
        <4>1. path \in Paths
          BY <1>1 DEF PaneOK
        <4> QED
          BY <1>1, <3>1, <4>1, ShowDirType, AskType, ListDirReq DEF RefreshListing
      <3>2. CASE UNCHANGED <<pane, inRing>>
        BY <1>1, <3>2, SamePane, SameIn
      <3> QED
        BY <1>3, <3>1, <3>2 DEF UploadEnds
    <2> QED
      BY <1>1, <1>3, <2>1, <2>2, SameDialog, SameOut, TypeParts DEF UploadEnds
  <1> QED
    BY <1>2, <1>3 DEF UploadStep

LEMMA NextTypes == TypeOK /\ [Next]_vars => TypeOK'
  <1>1. TypeOK /\ UNCHANGED vars => TypeOK'
    BY TypeParts, SameServer, SamePane, SameDialog, SameIn, SameOut DEF vars, session
  <1> QED
    BY <1>1, ThreadTypes, UiTypes, UserTypes, UploadTypes DEF Next

LEMMA InitTypes == Init => TypeOK
  <1> SUFFICES ASSUME Init PROVE TypeOK
    OBVIOUS
  <1>1. ServerOK
    BY PaneSizesAssumption DEF Init, ServerOK
  <1>2. <<>> \in Seq(Names) /\ <<>> \in Seq(Reqs) /\ <<>> \in Seq(OutMsgs)
    OBVIOUS
  <1>3. Len(<<>>) <= MaxRows /\ Len(<<>>) <= InCap /\ Len(<<>>) <= OutCap
    BY EmptySeq, PaneSizesAssumption
  <1>4. PaneOK /\ DialogOK /\ InOK /\ OutOK
    BY <1>2, <1>3, RootIsPath DEF Init, PaneOK, DialogOK, InOK, OutOK
  <1>5. control \in Controls
    BY RootIsPath DEF Init, Start, Controls, ControlPcs
  <1> QED
    BY <1>1, <1>4, <1>5, TypeParts

\* Every variable of the remote pane has its type and the pane no more rows than it has
\* room for, in whatever order the listing, the user and the uploads touch it.
THEOREM RemotePaneTypes == Spec => []TypeOK
  BY InitTypes, NextTypes, PTL DEF Spec

----------------------------------------------------------------------------
(* What holds when nobody touches the pane before it has settled.          *)

\* The names that are on their way to the pane.
Coming == {n \in Names : \E i \in 1 .. Len(outRing) : outRing[i] = Entry(n)}

\* No name is there twice, be it in the pane, on its way or still to be listed.
NamedOnce ==
  /\ \A i, j \in Indices : rows[i] = rows[j] => i = j
  /\ \A i, j \in 1 .. Len(outRing) :
       outRing[i].kind = "Entry" /\ outRing[i] = outRing[j] => i = j
  /\ Shown \cap Coming = {}
  /\ control.left \cap (Shown \cup Coming) = {}

\* A listing ends with Done, and nothing follows a loss; who waits for the pane
\* to settle sees neither of them while the rings hold anything else.
Stream ==
  /\ \A i, j \in 1 .. Len(outRing) :
       i < j => outRing[i].kind = "Entry" \/ outRing[j].kind = "Disconnected"
  /\ control.pc = "list" => \A i \in 1 .. Len(outRing) : outRing[i].kind = "Entry"
  /\ control.pc = "serve" =>
       \A i \in 1 .. Len(outRing) : outRing[i].kind = "Done" <=> i = Len(outRing)
  /\ control.pc # "exited" => \A i \in 1 .. Len(outRing) : outRing[i].kind # "Disconnected"

\* Deletions, then one ListDir of the directory that the pane shows.
Asked ==
  \A i \in 1 .. Len(inRing) :
    IF i = Len(inRing) THEN inRing[i] = ListDir(path) ELSE inRing[i].kind = "Delete"

Phases ==
  /\ control.pc \in {"gap", "connect"} => rows = <<>> /\ inRing = <<>> /\ outRing = <<>>
  /\ control.pc = "connect" => control.dir = path
  /\ control.pc = "list" => inRing = <<>>
  /\ control.pc = "serve" => inRing = <<>> \/ (rows = <<>> /\ outRing = <<>> /\ Asked)
  /\ control.pc # "list" => control.left = {}

\* Rows are selected only when they are all there, and in their order.
Unselected ==
  /\ ~sorted => selected = {}
  /\ control.pc \in {"gap", "connect", "list"} => ~sorted
  /\ control.pc = "serve" => (sorted <=> Settled)
  /\ \A i \in 1 .. Len(outRing) : outRing[i].kind # "Disconnected" => ~sorted

\* Listing: what is shown, coming and left is what the directory holds; when the
\* pane is full, what it shows is part of it, and so it is when the listing broke off.
Listing ==
  (control.pc = "list" \/ (control.pc = "serve" /\ outRing # <<>>))
  /\ path \in Dirs \ landed /\ control.dir = path =>
    /\ Shown \cup Coming \cup control.left \subseteq Contents(path)
    /\ control.whole /\ Len(rows) < MaxRows =>
         Contents(path) \subseteq Shown \cup Coming \cup control.left

\* What the thread lists is what the pane shows, if the path fits a request.
Aimed ==
  (control.pc = "list" \/ (control.pc = "serve" /\ inRing = <<>>))
  /\ path \in Dirs /\ DirSent[path] = path => control.dir = path

Orderly == /\ NamedOnce /\ Stream /\ Phases /\ Unselected /\ Listing /\ Aimed
           /\ PaneShowsPath /\ DeletesWhatIsNamed
PaneInv == TypeOK /\ Orderly

\* The pane, its selection included, and what is on its way to it.
picture == <<path, rows, sorted, selected, control, inRing, outRing>>

LEMMA SamePicture ==
  ASSUME Orderly, UNCHANGED picture, DeletesWhatIsNamed',
         control.pc \in {"list", "serve"} /\ path \in Dirs \ landed' =>
           path \notin landed /\ Contents(path)' = Contents(path)
  PROVE  Orderly'
  <1>1. /\ path' = path /\ rows' = rows /\ sorted' = sorted /\ selected' = selected
        /\ control' = control /\ inRing' = inRing /\ outRing' = outRing
    BY DEF picture
  <1>2. Indices' = Indices /\ Shown' = Shown /\ Coming' = Coming /\ Contents(path') = Contents(path)
    BY <1>1 DEF Indices, Shown, Coming, Entry
  <1>3. Settled' = Settled
    BY <1>1 DEF Settled
  <1>4. NamedOnce' /\ Stream'
    BY <1>1, <1>2 DEF Orderly, NamedOnce, Stream
  <1>5. Phases' /\ Unselected'
    BY <1>1, <1>3 DEF Orderly, Phases, Unselected, Asked, ListDir
  <1>6. Listing' /\ Aimed'
    BY <1>1, <1>2 DEF Orderly, Listing, Aimed
  <1>7. PaneShowsPath'
    BY <1>1, <1>2, <1>3 DEF Orderly, PaneShowsPath, Settled
  <1> QED
    BY <1>4, <1>5, <1>6, <1>7 DEF Orderly

\* The pane has been emptied, and either there is no session yet or a listing has been
\* asked for.
LEMMA EmptiedPane ==
  ASSUME Empty, outRing' = <<>>, control'.left = {},
         \/ control'.pc = "gap" /\ inRing' = <<>>
         \/ control'.pc = "connect" /\ inRing' = <<>> /\ control'.dir = path'
         \/ control'.pc = "serve" /\ inRing' # <<>> /\ Asked'
  PROVE  Orderly'
  <1>1. /\ rows' = <<>> /\ sorted' = FALSE /\ selected' = {} /\ 1 .. Len(<<>>) = {}
    BY DEF Empty
  <1>2. Indices' = {} /\ Shown' = {} /\ Coming' = {} /\ ~Settled' /\ 1 .. Len(outRing') = {}
    BY <1>1 DEF Indices, Shown, Coming, Settled
  <1>3. NamedOnce' /\ Stream'
    BY <1>1, <1>2 DEF NamedOnce, Stream
  <1>4. Phases' /\ Unselected'
    BY <1>1, <1>2 DEF Phases, Unselected
  <1>5. Listing' /\ Aimed' /\ PaneShowsPath'
    BY <1>1, <1>2 DEF Listing, Aimed, PaneShowsPath
  <1>6. DeletesWhatIsNamed'
    BY <1>1 DEF DeletesWhatIsNamed, Chosen, Doomed
  <1> QED
    BY <1>3, <1>4, <1>5, <1>6 DEF Orderly

\* A directory is opened for an empty pane: the pane's, or what its path was cut to.
LEMMA ListingStarts ==
  ASSUME rows = <<>>, outRing = <<>>, ~sorted, selected = {}, inRing' = <<>>,
         NEW d, OpenDir(d), path \in Dirs /\ DirSent[path] = path => d = path,
         UNCHANGED <<server, landed, path, rows, sorted, selected, outRing>>
  PROVE  Orderly'
  <1>1. /\ rows' = <<>> /\ sorted' = sorted /\ selected' = {} /\ outRing' = <<>>
        /\ path' = path /\ 1 .. Len(<<>>) = {}
    OBVIOUS
  <1>2. Indices' = {} /\ Shown' = {} /\ Coming' = {} /\ 1 .. Len(outRing') = {}
    BY <1>1 DEF Indices, Shown, Coming
  <1>3. /\ control'.pc = "list" /\ control'.dir = d
        /\ \/ control'.left = Contents(d)
           \/ control'.left = {} /\ ~control'.whole
    BY DEF OpenDir
  <1>4. Contents(d)' = Contents(d)
    BY DEF Contents
  <1>5. NamedOnce' /\ Stream'
    BY <1>1, <1>2 DEF NamedOnce, Stream
  <1>6. Phases' /\ Unselected' /\ Aimed'
    BY <1>1, <1>2, <1>3 DEF Phases, Unselected, Aimed
  <1>7. Listing'
    <2> SUFFICES ASSUME path = d
                 PROVE  /\ control'.left \subseteq Contents(d)
                        /\ control'.whole => Contents(d) \subseteq control'.left
      BY <1>1, <1>2, <1>3, <1>4 DEF Listing
    <2> QED
      BY <1>3
  <1>8. PaneShowsPath'
    BY <1>3 DEF PaneShowsPath, Settled
  <1>9. DeletesWhatIsNamed'
    BY <1>1 DEF DeletesWhatIsNamed, Chosen, Doomed
  <1> QED
    BY <1>5, <1>6, <1>7, <1>8, <1>9 DEF Orderly

----------------------------------------------------------------------------
(* The control thread.                                                     *)

LEMMA LoggedInKeeps == PaneInv /\ LoggedIn => Orderly'
  <1> SUFFICES ASSUME PaneInv, LoggedIn PROVE Orderly'
    OBVIOUS
  <1>1. /\ control.pc = "connect" /\ rows = <<>> /\ outRing = <<>> /\ inRing = <<>>
        /\ control.dir = path /\ ~sorted /\ selected = {}
    BY DEF PaneInv, Orderly, LoggedIn, Phases, Unselected
  <1> QED
    BY <1>1, ListingStarts DEF LoggedIn, server_vars, pane

LEMMA ServeKeeps == PaneInv /\ Serve => Orderly'
  <1> SUFFICES ASSUME PaneInv, Serve PROVE Orderly'
    OBVIOUS
  <1>1. /\ control.pc = "serve" /\ inRing # <<>> /\ inRing' = Tail(inRing)
        /\ UNCHANGED <<landed, path, rows, sorted, selected, outRing>>
    BY DEF Serve, pane
  <1>2. rows = <<>> /\ outRing = <<>> /\ Asked /\ ~sorted /\ selected = {} /\ control.left = {}
    BY <1>1 DEF PaneInv, Orderly, Phases, Unselected, Settled
  <1>3. /\ Head(inRing) = inRing[1] /\ 1 \in 1 .. Len(inRing) /\ Len(inRing) \in Nat \ {0}
        /\ Tail(inRing) \in Seq(Reqs) /\ Len(Tail(inRing)) = Len(inRing) - 1
        /\ \A i \in 1 .. Len(inRing) - 1 : Tail(inRing)[i] = inRing[i + 1]
    BY <1>1, InTail, TypeParts DEF PaneInv
  <1>4. CASE Head(inRing).kind = "ListDir"
    <2>1. Len(inRing) = 1
      BY <1>2, <1>3, <1>4 DEF Asked
    <2>2. path \in Dirs /\ DirSent[path] = path => Head(inRing).dir = path
      BY <1>2, <1>3, <2>1 DEF Asked, ListDir
    <2>3. inRing' = <<>>
      BY <1>1, <1>3, <2>1, EmptySeq
    <2>4. OpenDir(Head(inRing).dir) /\ UNCHANGED server
      BY <1>4 DEF Serve
    <2> QED
      BY <1>1, <1>2, <2>2, <2>3, <2>4, ListingStarts
  <1>5. CASE Head(inRing).kind = "Delete"
    <2>1. ASSUME Len(inRing) = 1 PROVE FALSE
      <3>1. inRing[1] = ListDir(path)
        BY <1>2, <1>3, <2>1 DEF Asked
      <3> QED
        BY <1>3, <1>5, <3>1 DEF ListDir
    <2>2. \A i \in 1 .. Len(Tail(inRing)) : /\ i + 1 \in 1 .. Len(inRing)
                                            /\ i = Len(Tail(inRing)) <=> i + 1 = Len(inRing)
      BY <1>3
    <2>3. inRing' # <<>> /\ Asked'
      <3>1. Len(Tail(inRing)) # 0
        BY <1>3, <2>1
      <3>2. inRing' # <<>>
        BY <1>1, <3>1, EmptySeq
      <3> QED
        BY <1>1, <1>2, <1>3, <2>2, <3>2, ZenonT(30) DEF Asked, ListDir
    <2>4. control' = control /\ Empty
      BY <1>1, <1>2, <1>5 DEF Serve, Empty
    <2> QED
      BY <1>1, <1>2, <2>3, <2>4, EmptiedPane
  <1>6. Head(inRing).kind \in {"ListDir", "Delete"}
    BY DEF Serve
  <1> QED
    BY <1>4, <1>5, <1>6

LEMMA SendEntryKeeps ==
  ASSUME PaneInv, NEW n \in Names, SendEntry(n)
  PROVE  Orderly'
  <1>1. /\ control.pc = "list" /\ n \in control.left /\ Say(Entry(n))
        /\ control' = [control EXCEPT !.left = @ \ {n}]
        /\ UNCHANGED <<server, landed, path, rows, sorted, selected, dialog, inRing>>
    BY DEF SendEntry, server_vars, pane
  <1>2. /\ outRing' # <<>> /\ Len(outRing') = Len(outRing) + 1 /\ Len(outRing) \in Nat
        /\ outRing'[Len(outRing) + 1] = Entry(n) /\ Entry(n).kind = "Entry"
        /\ \A i \in 1 .. Len(outRing) : outRing'[i] = outRing[i]
    <2>1. Entry(n) \in OutMsgs /\ Entry(n).kind = "Entry"
      BY DEF Entry, OutMsgs
    <2> QED
      BY <1>1, <2>1, SayType, TypeParts DEF PaneInv
  <1>3. \A i \in 1 .. Len(outRing') : i = Len(outRing) + 1 \/ i \in 1 .. Len(outRing)
    BY <1>2
  <1>4. Coming' = Coming \cup {n}
    <2>1. \A m \in Names : Entry(m) = Entry(n) => m = n
      BY DEF Entry
    <2>2. \A m \in Names : (\E i \in 1 .. Len(outRing') : outRing'[i] = Entry(m))
                             <=> m = n \/ \E i \in 1 .. Len(outRing) : outRing[i] = Entry(m)
      <3>1. /\ Len(outRing) + 1 \in 1 .. Len(outRing')
            /\ \A i \in 1 .. Len(outRing) : i \in 1 .. Len(outRing')
        BY <1>2
      <3> QED
        BY <1>2, <1>3, <2>1, <3>1
    <2> QED
      BY <2>2 DEF Coming, Entry
  <1>5. /\ control'.pc = "list" /\ control'.left = control.left \ {n}
        /\ control'.dir = control.dir /\ control'.whole = control.whole
    BY <1>1, TypeParts DEF PaneInv, Controls
  <1>6. Indices' = Indices /\ Shown' = Shown /\ Contents(path)' = Contents(path)
    BY <1>1 DEF Indices, Shown, Contents
  <1>7. n \notin Shown /\ n \notin Coming
    BY <1>1 DEF PaneInv, Orderly, NamedOnce
  <1>8. \A i \in 1 .. Len(outRing) : outRing[i].kind = "Entry" /\ outRing[i] # Entry(n)
    BY <1>1, <1>7 DEF PaneInv, Orderly, Stream, Coming
  <1>9. NamedOnce'
    <2>1. \A i, j \in Indices' : rows'[i] = rows'[j] => i = j
      BY <1>1, <1>6 DEF PaneInv, Orderly, NamedOnce
    <2>2. \A i, j \in 1 .. Len(outRing') :
            outRing'[i].kind = "Entry" /\ outRing'[i] = outRing'[j] => i = j
      BY <1>2, <1>3, <1>8 DEF PaneInv, Orderly, NamedOnce
    <2>3. Shown' \cap Coming' = {} /\ control'.left \cap (Shown' \cup Coming') = {}
      BY <1>4, <1>5, <1>6, <1>7 DEF PaneInv, Orderly, NamedOnce
    <2> QED
      BY <2>1, <2>2, <2>3 DEF NamedOnce
  <1>10. Stream'
    <2>1. \A i \in 1 .. Len(outRing') : outRing'[i].kind = "Entry"
      BY <1>2, <1>3, <1>8
    <2> QED
      BY <1>5, <2>1 DEF Stream
  <1>11. Phases' /\ Unselected'
    BY <1>1, <1>5 DEF PaneInv, Orderly, Phases, Unselected
  <1>12. Listing'
    <2>1. Shown' \cup Coming' \cup control'.left = Shown \cup Coming \cup control.left
      BY <1>1, <1>4, <1>5, <1>6
    <2> QED
      BY <1>1, <1>5, <1>6, <2>1 DEF PaneInv, Orderly, Listing
  <1>13. Aimed' /\ PaneShowsPath'
    BY <1>1, <1>5 DEF PaneInv, Orderly, Aimed, PaneShowsPath, Settled
  <1>14. DeletesWhatIsNamed'
    BY <1>1 DEF PaneInv, Orderly, DeletesWhatIsNamed, Chosen, Doomed, Indices
  <1> QED
    BY <1>9, <1>10, <1>11, <1>12, <1>13, <1>14 DEF Orderly

\* The listing breaks off: what has been told stands, and nothing more will come.
LEMMA ReadFailsKeeps == PaneInv /\ ReadFails => Orderly'
  <1> SUFFICES ASSUME PaneInv, ReadFails PROVE Orderly'
    OBVIOUS
  <1>1. /\ control.pc = "list"
        /\ UNCHANGED <<server, landed, path, rows, sorted, selected, dialog, inRing, outRing>>
    BY DEF ReadFails, server_vars, pane
  <1>2. /\ control'.pc = "list" /\ control'.left = {} /\ control'.dir = control.dir
        /\ ~control'.whole
    BY <1>1, TypeParts DEF PaneInv, Controls, ReadFails
  <1>3. Indices' = Indices /\ Shown' = Shown /\ Coming' = Coming /\ Contents(path)' = Contents(path)
    BY <1>1 DEF Indices, Shown, Coming, Contents, Entry
  <1>4. NamedOnce' /\ Stream'
    BY <1>1, <1>2, <1>3 DEF PaneInv, Orderly, NamedOnce, Stream
  <1>5. Phases' /\ Unselected' /\ Aimed'
    BY <1>1, <1>2 DEF PaneInv, Orderly, Phases, Unselected, Aimed
  <1>6. Listing'
    BY <1>1, <1>2, <1>3 DEF PaneInv, Orderly, Listing
  <1>7. PaneShowsPath'
    BY <1>2 DEF PaneShowsPath, Settled
  <1>8. DeletesWhatIsNamed'
    BY <1>1 DEF PaneInv, Orderly, DeletesWhatIsNamed, Chosen, Doomed, Indices
  <1> QED
    BY <1>4, <1>5, <1>6, <1>7, <1>8 DEF Orderly

\* A message that names no entry goes out, and nothing of the listing is left.
LEMMA SayLast ==
  ASSUME PaneInv, NEW m \in OutMsgs, m.kind # "Entry", Say(m),
         UNCHANGED <<server, landed, path, rows, sorted, selected, dialog, inRing>>,
         control'.left = {}, \A i \in 1 .. Len(outRing) : outRing[i].kind # "Disconnected",
         \/ /\ m.kind = "Done" /\ control.pc = "list" /\ control.left = {}
            /\ control'.pc = "serve" /\ control'.dir = control.dir /\ control'.whole = control.whole
         \/ m.kind = "Disconnected" /\ control'.pc = "exited"
  PROVE  Orderly'
  <1>1. /\ outRing' # <<>> /\ Len(outRing') = Len(outRing) + 1 /\ Len(outRing) \in Nat
        /\ outRing'[Len(outRing) + 1] = m
        /\ \A i \in 1 .. Len(outRing) : outRing'[i] = outRing[i]
    BY SayType, TypeParts DEF PaneInv
  <1>2. \A i \in 1 .. Len(outRing') : i = Len(outRing) + 1 \/ i \in 1 .. Len(outRing)
    BY <1>1
  <1>3. /\ Len(outRing) + 1 \in 1 .. Len(outRing')
        /\ \A i \in 1 .. Len(outRing) : i \in 1 .. Len(outRing') /\ i # Len(outRing')
        /\ \A i, j \in 1 .. Len(outRing') : i < j => i \in 1 .. Len(outRing)
    BY <1>1
  <1>4. Coming' = Coming
    <2>1. \A x \in Names : m # Entry(x)
      BY DEF Entry
    <2>2. \A x \in Names : (\E i \in 1 .. Len(outRing') : outRing'[i] = Entry(x))
                             <=> \E i \in 1 .. Len(outRing) : outRing[i] = Entry(x)
      BY <1>1, <1>2, <1>3, <2>1
    <2> QED
      BY <2>2 DEF Coming, Entry
  <1>5. Indices' = Indices /\ Shown' = Shown /\ Contents(path)' = Contents(path)
    BY DEF Indices, Shown, Contents
  <1>6. NamedOnce'
    <2>1. \A i, j \in Indices' : rows'[i] = rows'[j] => i = j
      BY <1>5 DEF PaneInv, Orderly, NamedOnce
    <2>2. \A i, j \in 1 .. Len(outRing') :
            outRing'[i].kind = "Entry" /\ outRing'[i] = outRing'[j] => i = j
      BY <1>1, <1>2 DEF PaneInv, Orderly, NamedOnce
    <2>3. Shown' \cap Coming' = {} /\ control'.left \cap (Shown' \cup Coming') = {}
      BY <1>4, <1>5 DEF PaneInv, Orderly, NamedOnce
    <2> QED
      BY <2>1, <2>2, <2>3 DEF NamedOnce
  <1>7. CASE /\ m.kind = "Done" /\ control.pc = "list" /\ control.left = {}
             /\ control'.pc = "serve" /\ control'.dir = control.dir /\ control'.whole = control.whole
    <2>1. \A i \in 1 .. Len(outRing) : outRing[i].kind = "Entry"
      BY <1>7 DEF PaneInv, Orderly, Stream
    <2>2. Stream'
      BY <1>1, <1>2, <1>3, <1>7, <2>1 DEF Stream
    <2>3. Phases' /\ Unselected'
      BY <1>1, <1>7 DEF PaneInv, Orderly, Phases, Unselected, Settled
    <2>4. Listing'
      BY <1>1, <1>4, <1>5, <1>7 DEF PaneInv, Orderly, Listing
    <2>6. Aimed' /\ PaneShowsPath'
      BY <1>1, <1>7 DEF PaneInv, Orderly, Aimed, PaneShowsPath, Settled
    <2>5. DeletesWhatIsNamed'
      BY DEF PaneInv, Orderly, DeletesWhatIsNamed, Chosen, Doomed, Indices
    <2> QED
      BY <1>6, <2>2, <2>3, <2>4, <2>5, <2>6 DEF Orderly
  <1>8. CASE m.kind = "Disconnected" /\ control'.pc = "exited"
    <2>1. Stream'
      <3>1. ASSUME NEW i \in 1 .. Len(outRing'), NEW j \in 1 .. Len(outRing'), i < j
            PROVE  outRing'[i].kind = "Entry" \/ outRing'[j].kind = "Disconnected"
        <4>1. i \in 1 .. Len(outRing)
          BY <1>3, <3>1
        <4>2. CASE j = Len(outRing) + 1
          BY <1>1, <1>8, <4>2
        <4>3. CASE j \in 1 .. Len(outRing)
          BY <1>1, <3>1, <4>1, <4>3 DEF PaneInv, Orderly, Stream
        <4> QED
          BY <1>2, <4>2, <4>3
      <3> QED
        BY <1>8, <3>1 DEF Stream
    <2>2. Phases'
      BY <1>8 DEF Phases
    <2>3. Unselected'
      <3>1. ~sorted' => selected' = {}
        BY DEF PaneInv, Orderly, Unselected
      <3>2. ASSUME NEW i \in 1 .. Len(outRing'), outRing'[i].kind # "Disconnected" PROVE ~sorted'
        <4>1. i \in 1 .. Len(outRing)
          BY <1>1, <1>2, <1>8, <3>2
        <4> QED
          BY <1>1, <3>2, <4>1 DEF PaneInv, Orderly, Unselected
      <3> QED
        BY <1>8, <3>1, <3>2 DEF Unselected
    <2>4. Listing' /\ Aimed' /\ PaneShowsPath'
      BY <1>8 DEF Listing, Aimed, PaneShowsPath, Settled
    <2>5. DeletesWhatIsNamed'
      BY DEF PaneInv, Orderly, DeletesWhatIsNamed, Chosen, Doomed, Indices
    <2> QED
      BY <1>6, <2>1, <2>2, <2>3, <2>4, <2>5 DEF Orderly
  <1> QED
    BY <1>7, <1>8

LEMMA SendDoneKeeps == PaneInv /\ SendDone => Orderly'
  <1> SUFFICES ASSUME PaneInv, SendDone PROVE Orderly'
    OBVIOUS
  <1> DEFINE m == [kind |-> "Done"]
  <1>1. m \in OutMsgs /\ m.kind = "Done"
    BY DEF OutMsgs
  <1>2. /\ control'.left = {} /\ control'.pc = "serve" /\ control.pc = "list" /\ control.left = {}
        /\ control'.dir = control.dir /\ control'.whole = control.whole
    BY TypeParts DEF PaneInv, Controls, SendDone
  <1>3. \A i \in 1 .. Len(outRing) : outRing[i].kind # "Disconnected"
    BY <1>2 DEF PaneInv, Orderly, Stream
  <1> HIDE DEF m
  <1>4. Say(m) /\ UNCHANGED <<server, landed, path, rows, sorted, selected, dialog, inRing>>
    BY DEF SendDone, m, server_vars, pane
  <1> QED
    BY <1>1, <1>2, <1>3, <1>4, SayLast

LEMMA LoseKeeps == PaneInv /\ Lose => Orderly'
  <1> SUFFICES ASSUME PaneInv, Lose PROVE Orderly'
    OBVIOUS
  <1> DEFINE m == [kind |-> "Disconnected"]
  <1>1. m \in OutMsgs /\ m.kind = "Disconnected"
    BY DEF OutMsgs
  <1>2. control'.left = {} /\ control'.pc = "exited" /\ control.pc # "exited"
    BY DEF Lose, Start
  <1>3. \A i \in 1 .. Len(outRing) : outRing[i].kind # "Disconnected"
    BY <1>2 DEF PaneInv, Orderly, Stream
  <1> HIDE DEF m
  <1>4. Say(m) /\ UNCHANGED <<server, landed, path, rows, sorted, selected, dialog, inRing>>
    BY DEF Lose, m, server_vars, pane
  <1> QED
    BY <1>1, <1>2, <1>3, <1>4, SayLast

----------------------------------------------------------------------------
(* The UI thread drains.                                                   *)

\* The first message has gone: what is left of the ring.
LEMMA RestOfRing ==
  ASSUME PaneInv, outRing # <<>>, outRing' = Tail(outRing)
  PROVE  /\ Len(outRing) \in Nat \ {0} /\ Len(outRing') = Len(outRing) - 1
         /\ 1 \in 1 .. Len(outRing) /\ Head(outRing) = outRing[1] /\ outRing[1] \in OutMsgs
         /\ \A i \in 1 .. Len(outRing') : /\ i + 1 \in 1 .. Len(outRing) /\ 1 < i + 1
                                          /\ outRing'[i] = outRing[i + 1]
                                          /\ i = Len(outRing') <=> i + 1 = Len(outRing)
         /\ \A i, j \in 1 .. Len(outRing') : i + 1 = j + 1 => i = j
         /\ Coming' \subseteq Coming
         /\ Coming \subseteq Coming' \cup {n \in Names : outRing[1] = Entry(n)}
  <1>1. /\ Head(outRing) = outRing[1] /\ 1 \in 1 .. Len(outRing) /\ outRing[1] \in OutMsgs
        /\ Len(outRing) \in Nat \ {0} /\ Len(Tail(outRing)) = Len(outRing) - 1
        /\ \A i \in 1 .. Len(outRing) - 1 : Tail(outRing)[i] = outRing[i + 1]
    BY OutTail, TypeParts DEF PaneInv
  <1>2. \A i \in 1 .. Len(outRing') : /\ i + 1 \in 1 .. Len(outRing) /\ 1 < i + 1
                                      /\ outRing'[i] = outRing[i + 1]
                                      /\ i = Len(outRing') <=> i + 1 = Len(outRing)
    BY <1>1
  <1>3. \A i, j \in 1 .. Len(outRing') : i + 1 = j + 1 => i = j
    BY <1>1
  <1>4. Coming' \subseteq Coming
    BY <1>2 DEF Coming, Entry
  <1>5. \A i \in 1 .. Len(outRing) : i = 1 \/ (i - 1 \in 1 .. Len(outRing') /\ outRing'[i - 1] = outRing[i])
    BY <1>1
  <1>6. Coming \subseteq Coming' \cup {n \in Names : outRing[1] = Entry(n)}
    BY <1>5, ZenonT(30) DEF Coming, Entry
  <1> QED
    BY <1>1, <1>2, <1>3, <1>4, <1>6

\* What it says of the stream does not depend on what is done with the message.
LEMMA RestOfStream ==
  ASSUME PaneInv, outRing # <<>>, outRing' = Tail(outRing), control' = control
  PROVE  /\ Stream'
         /\ \A i, j \in 1 .. Len(outRing') :
              outRing'[i].kind = "Entry" /\ outRing'[i] = outRing'[j] => i = j
  <1>1. /\ \A i \in 1 .. Len(outRing') : /\ i + 1 \in 1 .. Len(outRing) /\ 1 < i + 1
                                         /\ outRing'[i] = outRing[i + 1]
                                         /\ i = Len(outRing') <=> i + 1 = Len(outRing)
        /\ \A i, j \in 1 .. Len(outRing') : i + 1 = j + 1 => i = j
    BY RestOfRing
  <1>2. \A i, j \in 1 .. Len(outRing') :
          outRing'[i].kind = "Entry" /\ outRing'[i] = outRing'[j] => i = j
    BY <1>1 DEF PaneInv, Orderly, NamedOnce
  <1>3. \A i, j \in 1 .. Len(outRing') :
          i < j => outRing'[i].kind = "Entry" \/ outRing'[j].kind = "Disconnected"
    <2>1. \A i, j \in 1 .. Len(outRing') : i < j => i + 1 < j + 1
      BY RestOfRing
    <2> QED
      BY <1>1, <2>1 DEF PaneInv, Orderly, Stream
  <1>4. control.pc = "list" => \A i \in 1 .. Len(outRing') : outRing'[i].kind = "Entry"
    BY <1>1 DEF PaneInv, Orderly, Stream
  <1>5. control.pc = "serve" =>
          \A i \in 1 .. Len(outRing') : outRing'[i].kind = "Done" <=> i = Len(outRing')
    BY <1>1 DEF PaneInv, Orderly, Stream
  <1>6. control.pc # "exited" => \A i \in 1 .. Len(outRing') : outRing'[i].kind # "Disconnected"
    BY <1>1 DEF PaneInv, Orderly, Stream
  <1> QED
    BY <1>2, <1>3, <1>4, <1>5, <1>6 DEF Stream

LEMMA DrainEntryKeeps == PaneInv /\ DrainEntry => Orderly'
  <1> SUFFICES ASSUME PaneInv, DrainEntry, NEW n, n = Head(outRing).name PROVE Orderly'
    OBVIOUS
  <1>1. /\ outRing # <<>> /\ outRing' = Tail(outRing) /\ Head(outRing).kind = "Entry"
        /\ UNCHANGED <<server, landed, sorted, selected, dialog, control, inRing>>
    BY DEF DrainEntry, server_vars
  <1>2. /\ Len(outRing) \in Nat \ {0} /\ Len(outRing') = Len(outRing) - 1
        /\ 1 \in 1 .. Len(outRing) /\ Head(outRing) = outRing[1] /\ outRing[1] \in OutMsgs
        /\ \A i \in 1 .. Len(outRing') : /\ i + 1 \in 1 .. Len(outRing) /\ 1 < i + 1
                                         /\ outRing'[i] = outRing[i + 1]
                                         /\ i = Len(outRing') <=> i + 1 = Len(outRing)
        /\ Coming' \subseteq Coming
        /\ Coming \subseteq Coming' \cup {m \in Names : outRing[1] = Entry(m)}
    BY <1>1, RestOfRing
  <1>3. n \in Names /\ outRing[1] = Entry(n) /\ n \in Coming
    <2>1. n \in Names /\ outRing[1] = Entry(n)
      BY <1>1, <1>2 DEF OutMsgs, Entry
    <2> QED
      BY <1>2, <2>1 DEF Coming
  <1>4. Coming \subseteq Coming' \cup {n}
    <2>1. {m \in Names : outRing[1] = Entry(m)} = {n}
      BY <1>3 DEF Entry
    <2> QED
      BY <1>2, <2>1
  <1>5. n \notin Coming' /\ n \notin Shown /\ n \notin control.left
    <2>1. ASSUME NEW i \in 1 .. Len(outRing'), outRing'[i] = Entry(n) PROVE FALSE
      <3>1. outRing[1].kind = "Entry" /\ outRing[1] = outRing[i + 1]
        BY <1>1, <1>2, <1>3, <2>1
      <3>2. 1 = i + 1
        BY <1>2, <3>1 DEF PaneInv, Orderly, NamedOnce
      <3> QED
        BY <1>2, <3>2
    <2>2. n \notin Coming'
      BY <2>1 DEF Coming, Entry
    <2> QED
      BY <1>3, <2>2 DEF PaneInv, Orderly, NamedOnce
  <1>6. ~sorted /\ selected = {}
    BY <1>1, <1>2 DEF PaneInv, Orderly, Unselected
  <1>7. /\ control.pc \notin {"gap", "connect"}
        /\ inRing' = <<>> \/ control.pc = "exited"
    BY <1>1, TypeParts DEF PaneInv, Orderly, Phases, Controls, ControlPcs
  <1>8. control.pc = "serve" => outRing' # <<>>
    <2>1. control.pc = "serve" => Len(outRing) # 1
      BY <1>1, <1>2 DEF PaneInv, Orderly, Stream
    <2>2. outRing' = <<>> => Len(outRing') = 0
      BY EmptySeq
    <2> QED
      BY <1>2, <2>1, <2>2
  <1>9. /\ path' \in {path, Garbled}
        /\ \A i, j \in Indices' : rows'[i] = rows'[j] => i = j
        /\ Shown' \subseteq Shown \cup {n}
        /\ Len(rows') < MaxRows => Shown' = Shown \cup {n} /\ Len(rows) < MaxRows
    <2>1. /\ rows \in Seq(Names) /\ Len(rows) \in Nat /\ Len(rows) <= MaxRows /\ MaxRows \in Nat
          /\ \A i, j \in Indices : rows[i] = rows[j] => i = j
      BY PaneSizesAssumption DEF PaneInv, TypeOK, Orderly, NamedOnce
    <2>2. CASE Len(rows) < MaxRows
      <3>1. rows' = Append(rows, n) /\ path' \in {path, Garbled}
        BY <2>2 DEF DrainEntry, Overwrite
      <3>2. /\ Len(rows') = Len(rows) + 1 /\ rows'[Len(rows) + 1] = n
            /\ \A i \in 1 .. Len(rows) : rows'[i] = rows[i]
        BY <1>3, <2>1, <3>1, AppendProperties
      <3>3. /\ \A i \in Indices' : i = Len(rows) + 1 \/ i \in Indices
            /\ Len(rows) + 1 \in Indices' /\ \A i \in Indices : i \in Indices'
        BY <2>1, <3>2 DEF Indices
      <3>4. \A i \in Indices : rows'[i] = rows[i] /\ rows[i] # n
        BY <1>5, <3>2 DEF Indices, Shown
      <3>5. \A i, j \in Indices' : rows'[i] = rows'[j] => i = j
        BY <2>1, <3>2, <3>3, <3>4
      <3>6. Shown' = Shown \cup {n}
        <4>1. Shown' \subseteq Shown \cup {n}
          BY <3>2, <3>3, <3>4 DEF Shown
        <4>2. Shown \subseteq Shown'
          BY <3>3, <3>4 DEF Shown
        <4>3. n \in Shown'
          BY <3>2, <3>3 DEF Shown
        <4> QED
          BY <4>1, <4>2, <4>3
      <3> QED
        BY <2>2, <3>1, <3>5, <3>6
    <2>3. CASE ~(Len(rows) < MaxRows)
      <3>1. rows' = rows /\ path' = path
        BY <2>3 DEF DrainEntry
      <3>2. Indices' = Indices /\ Shown' = Shown
        BY <3>1 DEF Indices, Shown
      <3> QED
        BY <2>1, <2>3, <3>1, <3>2
    <2> QED
      BY <2>2, <2>3
  <1>10. NamedOnce'
    <2>1. Shown' \cap Coming' = {} /\ control'.left \cap (Shown' \cup Coming') = {}
      BY <1>1, <1>2, <1>5, <1>9 DEF PaneInv, Orderly, NamedOnce
    <2>2. \A i, j \in 1 .. Len(outRing') :
            outRing'[i].kind = "Entry" /\ outRing'[i] = outRing'[j] => i = j
      BY <1>1, RestOfStream
    <2> QED
      BY <1>9, <2>1, <2>2 DEF NamedOnce
  <1>11. Stream'
    BY <1>1, RestOfStream
  <1>12. Phases'
    BY <1>1, <1>7 DEF PaneInv, Orderly, Phases
  <1>13. Unselected'
    BY <1>1, <1>6, <1>8 DEF Unselected, Settled
  <1>14. Listing'
    <2> SUFFICES ASSUME control.pc = "list" \/ control.pc = "serve", path' \in Dirs \ landed,
                        control.dir = path
                 PROVE  /\ Shown' \cup Coming' \cup control.left \subseteq Contents(path)
                        /\ control.whole /\ Len(rows') < MaxRows =>
                             Contents(path) \subseteq Shown' \cup Coming' \cup control.left
      <3>1. path' \in Dirs => path' = path
        BY <1>9, NamesAssumption
      <3>2. path' = path => Contents(path)' = Contents(path)
        BY <1>1 DEF Contents
      <3> QED
        BY <1>1, <3>1, <3>2 DEF Listing
    <2>1. path \in Dirs \ landed
      BY <1>9, NamesAssumption
    <2>2. /\ Shown \cup Coming \cup control.left \subseteq Contents(path)
          /\ control.whole /\ Len(rows) < MaxRows =>
               Contents(path) \subseteq Shown \cup Coming \cup control.left
      BY <1>1, <2>1 DEF PaneInv, Orderly, Listing
    <2> QED
      BY <1>2, <1>3, <1>4, <1>9, <2>2
  <1>15. Aimed' /\ PaneShowsPath'
    <2>1. path' \in Dirs => path' = path
      BY <1>9, NamesAssumption
    <2>2. Aimed'
      BY <1>1, <2>1 DEF PaneInv, Orderly, Aimed
    <2> QED
      BY <1>1, <1>8, <2>2 DEF PaneShowsPath, Settled
  <1>16. DeletesWhatIsNamed'
    BY <1>1, <1>6 DEF DeletesWhatIsNamed, Chosen, Doomed
  <1> QED
    BY <1>10, <1>11, <1>12, <1>13, <1>14, <1>15, <1>16 DEF Orderly

\* When no name is there twice, the sorted rows ascend.
LEMMA SortedRows ==
  ASSUME rows \in Seq(Names), \A i, j \in Indices : rows[i] = rows[j] => i = j
  PROVE  /\ \A i, j \in Indices : i < j => InOrder[i] < InOrder[j]
         /\ Cardinality(Shown) = Len(rows)
  <1>1. Len(rows) \in Nat /\ rows \in [Indices -> Nat] /\ \A v \in Shown : v \in Nat
    <2>1. Len(rows) \in Nat /\ rows \in [Indices -> Names]
      BY LenProperties DEF Indices
    <2>2. Names \subseteq Nat
      BY NamesAssumption DEF Names
    <2> QED
      BY <2>1, <2>2 DEF Shown
  <1>2. IsFiniteSet(Indices) /\ Cardinality(Indices) = Len(rows)
    BY <1>1, FS_Interval DEF Indices
  <1>3. ASSUME NEW n \in Indices
        PROVE  /\ InOrder[n] \in Shown /\ InOrder[n] \in Nat
               /\ Before(Indices, rows, InOrder[n]) = n - 1
    <2>1. /\ InOrder[n] \in Shown
          /\ Before(Indices, rows, InOrder[n]) < n /\ n <= UpTo(Indices, rows, InOrder[n])
      BY RowsInOrder
    <2>2. PICK i \in Indices : InOrder[n] = rows[i]
      BY <2>1 DEF Shown
    <2>3. UpTo(Indices, rows, rows[i]) = Before(Indices, rows, rows[i]) + 1
      BY <1>1, <1>2, OneMore
    <2>4. Before(Indices, rows, rows[i]) \in Nat
      BY <1>2, CountsAreNat
    <2>5. n \in Nat
      BY <1>1, <1>3 DEF Indices
    <2>6. Before(Indices, rows, rows[i]) = n - 1
      BY ONLY <2>1, <2>2, <2>3, <2>4, <2>5
    <2> QED
      BY <1>1, <2>1, <2>2, <2>6
  <1>4. ASSUME NEW i \in Indices, NEW j \in Indices, i < j PROVE InOrder[i] < InOrder[j]
    <2> DEFINE A == {k \in Indices : rows[k] < InOrder[i]}
               B == {k \in Indices : rows[k] < InOrder[j]}
    <2>1. ASSUME InOrder[j] <= InOrder[i] PROVE FALSE
      <3>1. InOrder[i] \in Nat /\ InOrder[j] \in Nat
        BY <1>3
      <3>2. B \in SUBSET A
        BY <1>1, <2>1, <3>1
      <3>3. IsFiniteSet(A) /\ IsFiniteSet(B)
        <4>1. A \in SUBSET Indices /\ B \in SUBSET Indices
          OBVIOUS
        <4> HIDE DEF A, B
        <4> QED
          BY <1>2, <4>1, FS_Subset
      <3>4. Cardinality(A) = i - 1 /\ Cardinality(B) = j - 1
        BY <1>3 DEF Before
      <3> HIDE DEF A, B
      <3>5. Cardinality(B) <= Cardinality(A)
        BY <3>2, <3>3, FS_Subset
      <3>6. i \in Nat /\ j \in Nat
        BY <1>1 DEF Indices
      <3> QED
        BY <1>4, <3>4, <3>5, <3>6
    <2>2. InOrder[i] \in Nat /\ InOrder[j] \in Nat
      BY <1>3
    <2> QED
      BY <2>1, <2>2
  <1>5. Cardinality(Shown) = Len(rows)
    <2>1. rows \in Injection(Indices, Shown)
      BY <1>1 DEF Shown, Injection, IsInjective
    <2>2. rows \in Surjection(Indices, Shown)
      BY <1>1 DEF Shown, Surjection
    <2>3. rows \in Bijection(1 .. Len(rows), Shown)
      BY <2>1, <2>2 DEF Bijection, Indices
    <2> QED
      BY <1>1, <2>3, FS_CountingElements DEF ExistsBijection
  <1> QED
    BY <1>4, <1>5

LEMMA DrainDoneKeeps == PaneInv /\ DrainDone => Orderly'
  <1> SUFFICES ASSUME PaneInv, DrainDone PROVE Orderly'
    OBVIOUS
  <1>1. /\ outRing # <<>> /\ outRing' = Tail(outRing) /\ Head(outRing).kind = "Done"
        /\ sorted' = TRUE /\ rows' = IF sorted THEN rows ELSE InOrder
        /\ UNCHANGED <<server, landed, path, selected, dialog, control, inRing>>
    BY DEF DrainDone, server_vars
  <1>2. /\ Len(outRing) \in Nat \ {0} /\ Len(outRing') = Len(outRing) - 1
        /\ 1 \in 1 .. Len(outRing) /\ Head(outRing) = outRing[1]
        /\ \A i \in 1 .. Len(outRing') : /\ i + 1 \in 1 .. Len(outRing) /\ 1 < i + 1
                                         /\ outRing'[i] = outRing[i + 1]
        /\ Coming' \subseteq Coming
    BY <1>1, RestOfRing
  <1>3. control.pc \in {"serve", "exited"} /\ control.left = {}
    BY <1>1, <1>2, TypeParts DEF PaneInv, Orderly, Phases, Stream, Controls, ControlPcs
  <1>4. ~sorted /\ selected = {} /\ rows' = InOrder
    BY <1>1, <1>2 DEF PaneInv, Orderly, Unselected
  <1>5. rows \in Seq(Names) /\ \A i, j \in Indices : rows[i] = rows[j] => i = j
    BY DEF PaneInv, TypeOK, Orderly, NamedOnce
  <1>6. /\ Len(rows') = Len(rows) /\ Indices' = Indices
        /\ \A i \in Indices : rows'[i] \in Shown
        /\ \A i, j \in Indices : i < j => rows'[i] < rows'[j]
        /\ Cardinality(Shown) = Len(rows)
    <2>1. Len(InOrder) = Len(rows) /\ \A i \in Indices : InOrder[i] \in Shown
      BY <1>5, RowsInOrder
    <2>2. /\ \A i, j \in Indices : i < j => InOrder[i] < InOrder[j]
          /\ Cardinality(Shown) = Len(rows)
      BY <1>5, SortedRows
    <2> QED
      BY <1>4, <2>1, <2>2 DEF Indices
  <1>7. NamedOnce'
    <2>1. ASSUME NEW i \in Indices, NEW j \in Indices, rows'[i] = rows'[j] PROVE i = j
      <3>1. i \in Nat /\ j \in Nat
        BY <1>5 DEF Indices
      <3>3. rows'[i] \in Nat
        <4>1. rows'[i] \in Shown
          BY <1>6
        <4>2. Shown \subseteq Names
          BY <1>5, ElementOfSeq DEF Shown, Indices
        <4> QED
          BY <4>1, <4>2, NamesAssumption DEF Names
      <3>2. ~(i < j) /\ ~(j < i)
        BY <1>6, <2>1, <3>3
      <3> QED
        BY <3>1, <3>2
    <2>2. Shown' \subseteq Shown
      BY <1>6 DEF Shown
    <2>3. Shown' \cap Coming' = {} /\ control'.left \cap (Shown' \cup Coming') = {}
      BY <1>1, <1>2, <1>3, <2>2 DEF PaneInv, Orderly, NamedOnce
    <2>4. \A i, j \in 1 .. Len(outRing') :
            outRing'[i].kind = "Entry" /\ outRing'[i] = outRing'[j] => i = j
      BY <1>1, RestOfStream
    <2> QED
      BY <1>6, <2>1, <2>3, <2>4 DEF NamedOnce
  <1>8. Stream'
    BY <1>1, RestOfStream
  <1>9. control.pc = "serve" => Len(outRing) = 1 /\ outRing' = <<>> /\ inRing = <<>>
    <2>1. control.pc = "serve" => Len(outRing) = 1 /\ inRing = <<>>
      BY <1>1, <1>2 DEF PaneInv, Orderly, Stream, Phases
    <2>2. outRing' \in Seq(OutMsgs)
      BY <1>1, OutTail, TypeParts DEF PaneInv, OutOK
    <2>3. Len(outRing') = 0 => outRing' = <<>>
      BY <2>2, EmptySeq
    <2> QED
      BY <1>2, <2>1, <2>3
  <1>10. Phases'
    BY <1>1, <1>3, <1>9 DEF Phases
  <1>11. Unselected'
    <2>1. \A i \in 1 .. Len(outRing') : outRing'[i].kind = "Disconnected"
      BY <1>1, <1>2, ZenonT(30) DEF PaneInv, Orderly, Stream
    <2> QED
      BY <1>1, <1>3, <1>9, <2>1 DEF Unselected, Settled
  <1>12. Listing'
    BY <1>1, <1>3, <1>9 DEF Listing
  <1>13. PaneShowsPath'
    <2> SUFFICES ASSUME control.pc = "serve", path \in Dirs \ landed,
                        DirSent[path] = path \/ control.dir = path
                 PROVE  /\ Shown \subseteq Contents(path)
                        /\ control.whole => Len(rows) = MaxRows \/ Shown = Contents(path)
      <3>1. Contents(path)' = Contents(path)
        BY <1>1 DEF Contents
      <3> QED
        BY <1>1, <1>6, <3>1 DEF PaneShowsPath, Settled
    <2>4. control.dir = path
      BY <1>9 DEF PaneInv, Orderly, Aimed
    <2>1. /\ Shown \cup Coming \cup control.left \subseteq Contents(path)
          /\ control.whole /\ Len(rows) < MaxRows =>
               Contents(path) \subseteq Shown \cup Coming \cup control.left
      BY <1>1, <2>4 DEF PaneInv, Orderly, Listing
    <2>2. Coming = {}
      <3>1. \A i \in 1 .. Len(outRing) : i = 1
        <4>1. Len(outRing) = 1
          BY <1>9
        <4> QED
          BY <4>1
      <3> QED
        BY <1>1, <1>2, <3>1 DEF Coming, Entry
    <2>3. Len(rows) < MaxRows \/ Len(rows) = MaxRows
      BY PaneSizesAssumption DEF PaneInv, TypeOK
    <2> QED
      BY <1>3, <2>1, <2>2, <2>3
  <1>14. DeletesWhatIsNamed'
    BY <1>1, <1>4 DEF DeletesWhatIsNamed, Chosen, Doomed
  <1>15. Aimed'
    BY <1>1 DEF PaneInv, Orderly, Aimed
  <1> QED
    BY <1>7, <1>8, <1>10, <1>11, <1>12, <1>13, <1>14, <1>15 DEF Orderly

LEMMA DrainDisconnectedKeeps == PaneInv /\ DrainDisconnected => Orderly'
  <1> SUFFICES ASSUME PaneInv, DrainDisconnected PROVE Orderly'
    OBVIOUS
  <1>1. /\ outRing # <<>> /\ Head(outRing).kind = "Disconnected"
        /\ outRing' = <<>> /\ inRing' = <<>> /\ control' = [control EXCEPT !.pc = "gap"] /\ Empty
    BY DEF DrainDisconnected
  <1>2. Head(outRing) = outRing[1] /\ 1 \in 1 .. Len(outRing)
    BY <1>1, OutTail, TypeParts DEF PaneInv
  <1>3. control.pc = "exited" /\ control.left = {}
    BY <1>1, <1>2 DEF PaneInv, Orderly, Stream, Phases
  <1>4. control'.pc = "gap" /\ control'.left = {}
    BY <1>1, <1>3, TypeParts DEF PaneInv, Controls
  <1> QED
    BY <1>1, <1>4, EmptiedPane

LEMMA ReconnectKeeps == PaneInv /\ Reconnect => Orderly'
  <1> SUFFICES ASSUME PaneInv, Reconnect PROVE Orderly'
    OBVIOUS
  <1>1. rows = <<>> /\ inRing = <<>> /\ outRing = <<>> /\ ~sorted /\ selected = {}
    BY DEF PaneInv, Orderly, Reconnect, Phases, Unselected
  <1>2. sorted \in BOOLEAN
    BY DEF PaneInv, TypeOK
  <1>3. /\ Empty /\ outRing' = <<>> /\ inRing' = <<>> /\ path' = path
        /\ control'.pc = "connect" /\ control'.dir = path /\ control'.left = {}
    BY <1>1, <1>2 DEF Reconnect, Start, Empty, pane
  <1> QED
    BY <1>3, EmptiedPane

----------------------------------------------------------------------------
(* The user and the uploads.                                               *)

\* Who waits for the pane to settle finds it so, or finds no session.
LEMMA CalmPane ==
  ASSUME PaneInv, Calm, OneAtATime
  PROVE  /\ control.left = {} /\ outRing = <<>> /\ inRing = <<>>
         /\ Connected => control.pc = "serve"
         /\ ~Connected => control.pc = "gap" /\ rows = <<>>
         /\ rows # <<>> => sorted
  BY DEF PaneInv, Orderly, Calm, Connected, Settled, Phases, Unselected

\* A request for a listing, possibly behind deletions.
LEMMA ListingAsked ==
  ASSUME PaneInv, Calm, OneAtATime, Connected, NEW p \in Paths, NEW dels \in Seq(Reqs),
         \A i \in 1 .. Len(dels) : dels[i].kind = "Delete",
         ShowDir(p), Ask(Append(dels, ListDir(p))), UNCHANGED <<control, outRing>>
  PROVE  Orderly'
  <1>1. /\ control.left = {} /\ outRing = <<>> /\ inRing = <<>> /\ control.pc = "serve"
    BY CalmPane
  <1>2. path' = p /\ Empty
    BY DEF ShowDir
  <1> DEFINE a == Append(dels, ListDir(p))
  <1>3. /\ a \in Seq(Reqs) /\ a # <<>> /\ Len(a) = Len(dels) + 1 /\ Len(dels) \in Nat
        /\ a[Len(dels) + 1] = ListDir(p) /\ \A i \in 1 .. Len(dels) : a[i] = dels[i]
    BY ListDirReq, AppendProperties
  <1> HIDE DEF a
  <1>4. inRing' = a
    <2>1. inRing' = <<>> \o a
      BY <1>1 DEF Ask, a
    <2> QED
      BY <1>3, <2>1, ConcatEmptySeq
  <1>5. \A i \in 1 .. Len(a) : i = Len(a) \/ i \in 1 .. Len(dels)
    BY <1>3
  <1>6. Asked'
    BY <1>2, <1>3, <1>4, <1>5 DEF Asked, ListDir
  <1> QED
    BY <1>1, <1>2, <1>3, <1>4, <1>6, EmptiedPane

\* The same without deletions.
LEMMA OneListingAsked ==
  ASSUME PaneInv, Calm, OneAtATime, Connected, NEW p \in Paths,
         ShowDir(p), Ask(<<ListDir(p)>>), UNCHANGED <<control, outRing>>
  PROVE  Orderly'
  <1>1. <<>> \in Seq(Reqs) /\ 1 .. Len(<<>>) = {}
    OBVIOUS
  <1>2. Append(<<>>, ListDir(p)) = <<ListDir(p)>>
    OBVIOUS
  <1>3. \A i \in 1 .. Len(<<>>) : <<>>[i].kind = "Delete"
    BY <1>1
  <1>4. Ask(Append(<<>>, ListDir(p)))
    BY <1>2
  <1> QED
    BY <1>1, <1>3, <1>4, ListingAsked

LEMMA NavigateKeeps ==
  ASSUME PaneInv, OneAtATime, NEW i, Navigate(i)
  PROVE  Orderly'
  <1>1. PICK p \in Joined(rows[i]) : ShowDir(p) /\ Ask(<<ListDir(p)>>)
    BY DEF Navigate
  <1>2. p \in Paths /\ Calm /\ Connected /\ UNCHANGED <<control, outRing>>
    BY RootIsPath DEF Navigate, Joined
  <1> QED
    BY <1>1, <1>2, OneListingAsked

LEMMA SelectKeeps ==
  ASSUME PaneInv, OneAtATime, NEW to, Indices # {}, Select(to)
  PROVE  Orderly'
  <1>1. /\ Calm /\ dialog = {} /\ dialog' = {}
        /\ UNCHANGED <<server, landed, path, rows, sorted, control, inRing, outRing>>
    BY DEF Select, session, server_vars
  <1>2. rows # <<>>
    BY DEF Indices
  <1>3. sorted /\ control.pc = "serve"
    BY <1>1, <1>2, CalmPane
  <1>4. Indices' = Indices /\ Shown' = Shown /\ Coming' = Coming /\ Contents(path)' = Contents(path)
    BY <1>1 DEF Indices, Shown, Coming, Contents, Entry
  <1>5. Settled' = Settled
    BY <1>1 DEF Settled
  <1>6. NamedOnce' /\ Stream'
    BY <1>1, <1>4 DEF PaneInv, Orderly, NamedOnce, Stream
  <1>7. Phases' /\ Unselected'
    BY <1>1, <1>3, <1>5 DEF PaneInv, Orderly, Phases, Unselected, Asked, ListDir
  <1>8. Listing' /\ Aimed' /\ PaneShowsPath'
    BY <1>1, <1>4, <1>5 DEF PaneInv, Orderly, Listing, Aimed, PaneShowsPath
  <1>9. DeletesWhatIsNamed'
    BY <1>1 DEF DeletesWhatIsNamed
  <1> QED
    BY <1>6, <1>7, <1>8, <1>9 DEF Orderly

LEMMA ClicksKeep ==
  ASSUME PaneInv, OneAtATime, NEW i, NEW lo, NEW hi, Click(i) \/ CtrlClick(i) \/ ShiftClick(lo, hi)
  PROVE  Orderly'
  <1>1. CASE Click(i)
    BY <1>1, SelectKeeps DEF Click
  <1>2. CASE CtrlClick(i)
    BY <1>2, SelectKeeps DEF CtrlClick
  <1>3. CASE ShiftClick(lo, hi)
    BY <1>3, SelectKeeps DEF ShiftClick
  <1> QED
    BY <1>1, <1>2, <1>3

LEMMA DialogKeeps ==
  ASSUME PaneInv, OneAtATime, OpenDelete \/ CancelDelete \/ ConfirmDelete
  PROVE  Orderly'
  <1>1. CASE ConfirmDelete /\ Connected
    <2>1. /\ Calm /\ ShowDir(path) /\ Ask(Append(Deletions, ListDir(path)))
          /\ UNCHANGED <<control, outRing>> /\ path \in Paths /\ TypeOK
      BY <1>1 DEF ConfirmDelete, PaneInv, TypeOK
    <2> QED
      BY <1>1, <2>1, DeletionsType, ListingAsked
  <1>2. CASE ~(ConfirmDelete /\ Connected)
    <2>1. UNCHANGED <<server, landed, path, rows, sorted, selected, control, inRing, outRing>>
      BY <1>2 DEF OpenDelete, CancelDelete, ConfirmDelete, server_vars, pane, session
    <2>2. dialog' \in {{}, Chosen}
      BY <1>2 DEF OpenDelete, CancelDelete, ConfirmDelete
    <2>3. DeletesWhatIsNamed'
      <3>1. Chosen' = Chosen
        BY <2>1 DEF Chosen, Doomed, Indices
      <3> QED
        BY <2>2, <3>1 DEF DeletesWhatIsNamed
    <2>4. Contents(path)' = Contents(path)
      BY <2>1 DEF Contents
    <2> QED
      BY <2>1, <2>3, <2>4, SamePicture DEF PaneInv, picture
  <1> QED
    BY <1>1, <1>2

LEMMA ConnectToKeeps ==
  ASSUME ConnectTo
  PROVE  Orderly'
  <1>1. /\ Empty /\ path' = Root /\ inRing' = <<>> /\ outRing' = <<>>
        /\ control'.pc = "connect" /\ control'.dir = Root /\ control'.left = {}
    BY DEF ConnectTo, Start, ShowDir
  <1> QED
    BY <1>1, EmptiedPane

LEMMA UploadLandsKeeps ==
  ASSUME PaneInv, NEW d \in Dirs, NEW f \in Files, UploadLands(d, f)
  PROVE  Orderly'
  <1>1. /\ UNCHANGED <<path, rows, sorted, selected, dialog, control, inRing, outRing>>
        /\ server' = [server EXCEPT ![d] = @ \cup {f}] /\ landed' = landed \cup {d}
    BY DEF UploadLands, pane, session
  <1>2. ASSUME path \in Dirs \ landed' PROVE path \notin landed /\ Contents(path)' = Contents(path)
    <2>1. path # d /\ path \notin landed /\ path # Garbled
      BY <1>1, <1>2, NamesAssumption
    <2>2. server'[path] = server[path]
      BY <1>1, <1>2, <2>1 DEF PaneInv, TypeOK
    <2> QED
      BY <1>1, <2>1, <2>2 DEF Contents
  <1>3. DeletesWhatIsNamed'
    BY <1>1 DEF PaneInv, Orderly, DeletesWhatIsNamed, Chosen, Doomed, Indices
  <1> QED
    BY <1>1, <1>2, <1>3, SamePicture DEF PaneInv, picture

LEMMA UploadEndsKeeps ==
  ASSUME PaneInv, OneAtATime, NEW d \in Dirs, UploadEnds(d)
  PROVE  Orderly'
  <1>1. /\ Calm /\ landed' = landed \ {d} /\ UNCHANGED <<server, dialog, control, outRing>>
        /\ path \in Paths
    BY DEF UploadEnds, PaneInv, TypeOK
  <1>2. CASE d = path /\ Connected
    BY <1>1, <1>2, OneListingAsked DEF UploadEnds, RefreshListing
  <1>3. CASE ~(d = path /\ Connected)
    <2>1. UNCHANGED <<path, rows, sorted, selected, inRing>>
      BY <1>3 DEF UploadEnds, pane
    <2>2. control.pc \in {"list", "serve"} => d # path
      BY <1>3 DEF Connected
    <2>3. Contents(path)' = Contents(path)
      BY <1>1, <2>1 DEF Contents
    <2>4. DeletesWhatIsNamed'
      BY <1>1, <2>1 DEF PaneInv, Orderly, DeletesWhatIsNamed, Chosen, Doomed, Indices
    <2> QED
      BY <1>1, <2>1, <2>2, <2>3, <2>4, SamePicture DEF PaneInv, picture
  <1> QED
    BY <1>2, <1>3

LEMMA NextPaneInv == OneAtATime /\ PaneInv /\ [Next]_vars => PaneInv'
  <1> SUFFICES ASSUME OneAtATime, PaneInv, [Next]_vars PROVE Orderly'
    BY NextTypes DEF PaneInv
  <1>1. CASE UiStep
    BY <1>1, DrainEntryKeeps, DrainDoneKeeps, DrainDisconnectedKeeps, ReconnectKeeps DEF UiStep
  <1>2. CASE ThreadStep
    BY <1>2, LoggedInKeeps, SendEntryKeeps, ReadFailsKeeps, SendDoneKeeps, ServeKeeps, LoseKeeps DEF ThreadStep
  <1>3. CASE UserStep
    BY <1>3, NavigateKeeps, ClicksKeep, DialogKeeps, ConnectToKeeps DEF UserStep
  <1>4. CASE UploadStep
    BY <1>4, UploadLandsKeeps, UploadEndsKeeps DEF UploadStep
  <1>5. CASE UNCHANGED vars
    <2>1. UNCHANGED <<server, landed, dialog, path, rows, sorted, selected, control, inRing, outRing>>
      BY <1>5 DEF vars, server_vars, pane, session
    <2>2. Contents(path)' = Contents(path)
      BY <2>1 DEF Contents
    <2>3. DeletesWhatIsNamed'
      BY <2>1 DEF PaneInv, Orderly, DeletesWhatIsNamed, Chosen, Doomed, Indices
    <2> QED
      BY <2>1, <2>2, <2>3, SamePicture DEF PaneInv, picture
  <1> QED
    BY <1>1, <1>2, <1>3, <1>4, <1>5 DEF Next

LEMMA InitPaneInv == Init => PaneInv
  <1> SUFFICES ASSUME Init PROVE PaneInv
    OBVIOUS
  <1>1. /\ rows = <<>> /\ sorted = FALSE /\ selected = {} /\ dialog = {}
        /\ inRing = <<>> /\ outRing = <<>> /\ 1 .. Len(<<>>) = {}
        /\ control.pc = "connect" /\ control.dir = path /\ control.left = {}
    BY DEF Init, Start
  <1>2. Indices = {} /\ Shown = {} /\ Coming = {} /\ 1 .. Len(outRing) = {}
    BY <1>1 DEF Indices, Shown, Coming
  <1>3. NamedOnce /\ Stream
    BY <1>1, <1>2 DEF NamedOnce, Stream
  <1>4. Phases /\ Unselected
    BY <1>1, <1>2 DEF Phases, Unselected
  <1>5. Listing /\ Aimed /\ PaneShowsPath /\ DeletesWhatIsNamed
    BY <1>1 DEF Listing, Aimed, PaneShowsPath, Settled, DeletesWhatIsNamed
  <1> QED
    BY <1>3, <1>4, <1>5, InitTypes DEF PaneInv, Orderly

LEMMA AlwaysPaneInv == OneAtATime => (Spec => []PaneInv)
  <1> SUFFICES ASSUME OneAtATime PROVE Spec => []PaneInv
    OBVIOUS
  <1>1. PaneInv /\ [Next]_vars => PaneInv'
    BY NextPaneInv
  <1> QED
    BY <1>1, InitPaneInv, PTL DEF Spec

\* If whoever touches the pane (the user, and the refresh after an upload) waits until its
\* listing is in, the pane then shows the directory that remote_path names: DrainDone's
\* qsort leaves every row that came, each once and in order, and all of them unless
\* MAX_REMOTE_ENTRIES cut the listing short or the server refused it or broke it off, which
\* the Done that follows does not tell; deletions, losses and reconnections included.  A
\* directory whose path a request cuts is shown by the thread that was started with it.
THEOREM PaneIsItsDirectory == OneAtATime => (Spec => []PaneShowsPath)
  <1>1. PaneInv => PaneShowsPath
    BY DEF PaneInv, Orderly
  <1> QED
    BY <1>1, AlwaysPaneInv, PTL

\* Under the same condition confirming the dialog deletes no file but those it named: rows
\* come and are sorted only while none is selected, and whatever else changes the rows
\* clears the selection.
THEOREM OnlyNamedAreDeleted == OneAtATime => (Spec => []DeletesWhatIsNamed)
  <1>1. PaneInv => DeletesWhatIsNamed
    BY DEF PaneInv, Orderly
  <1> QED
    BY <1>1, AlwaysPaneInv, PTL
============================================================================
