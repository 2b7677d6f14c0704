------------------------- MODULE FolderScanProofs -------------------------
(***************************************************************************)
(* A scan that says complete has handed over every file below its folder,  *)
(* for any number of slots and scans, and slots and rings are quiet when   *)
(* they are given back.  What is accounted for is what has been handed     *)
(* over, what is in the ring, and what can be reached from the entries the *)
(* walk still has to tell; no step of the walk changes the sum.  Nothing   *)
(* of this uses PathsAssumption: directories may be reached on several     *)
(* ways, and loop.  Only that no file is told twice rests on it, in the    *)
(* second half: there the parts of the sum have no file in common.  The    *)
(* sums are of files; the last part goes from them to the paths that are   *)
(* enqueued, which rel_path may cut.                                       *)
(***************************************************************************)
EXTENDS FolderScan, SequenceTheorems, FiniteSetTheorems, TLAPS

Below(e) == {f \in Files \ Unsafe : Reaches(e, f)}
Under(E) == {f \in Files \ Unsafe : \E e \in E \ Unsafe : Reaches(e, f)}

\* What the walk w still has to tell, and what the ring q holds.
Left(w) == UNION {w[i] : i \in 1 .. Len(w)}
IsFile(m, f) == m.kind = "File" /\ m.file = f
FilesIn(q) == {f \in Files : \E i \in 1 .. Len(q) : IsFile(q[i], f)}

\* The files that thread t has yet to report.
Ahead(t, root) == Under(Left(t.walk)) \cup IF t.pc = "connect" THEN Below(root)
                                           ELSE IF t.pc \in {"opendir", "send"}
                                           THEN Below(t.at) ELSE {}
Content(q, t, root) == FilesIn(q) \cup Ahead(t, root)

Walking == {"connect", "opendir", "read", "send", "done", "fail"}
Leaving == {"close", "exited"}
\* So far nothing has gone wrong.
Promised(q, t) == \/ t.pc \in Walking \ {"fail"}
                  \/ \E i \in 1 .. Len(q) : q[i].kind = "Done"

Shape(q, t) ==
  /\ t.pc \in Walking => \A i \in 1 .. Len(q) : q[i].kind = "File"
  /\ t.pc = "opendir" => t.at \in Dirs
  /\ t.pc = "send" => t.at \in Files \ Unsafe
  /\ t.pc \notin {"opendir", "read", "send"} => t.walk = <<>>
  /\ t.pc \in {"read", "send"} => t.walk # <<>>

\* The terminal message is the last one.
Closed(q) == q # <<>> /\ \A i \in 1 .. Len(q) : q[i].kind = "File" <=> i # Len(q)

Joining(s) == ui.pc = "join" /\ ui.at = s

SlotSafe(s) ==
  LET q == scans[s].ring
      t == th[s]
      i == scans[s].no
  IN  /\ Shape(q, t)
      /\ ~scans[s].inUse => t.pc = "none"
      /\ scans[s].inUse => t.pc # "none" /\ i \in 1 .. Len(log) /\ log[i].root = scans[s].root
      /\ scans[s].inUse /\ ~Joining(s) => log[i].is = "scanning"
      /\ Joining(s) => scans[s].inUse /\ q = <<>> /\ t.pc \in Leaving
      /\ t.pc \in Leaving /\ ~Joining(s) => Closed(q)

\* The files whose paths scan i has given xfer_enqueue.
Given(i) == {handed[i][j] : j \in 1 .. Len(handed[i])}

Accounted(s) ==
  LET all == Given(scans[s].no) \cup Content(scans[s].ring, th[s], scans[s].root)
  IN  scans[s].inUse =>
        /\ all \subseteq FilesBelow[scans[s].root]
        /\ Promised(scans[s].ring, th[s]) => FilesBelow[scans[s].root] \subseteq all

\* Slots in use have scans of their own.
OwnScans == \A s, t \in Slots :
              scans[s].inUse /\ scans[t].inUse /\ s # t => scans[s].no # scans[t].no

GivenIsBelow == \A i \in 1 .. Len(log) : Given(i) \subseteq FilesBelow[log[i].root]

AllGiven ==
  \A i \in 1 .. Len(log) : log[i].is = "complete" => Given(i) = FilesBelow[log[i].root]

ScanInv == /\ TypeOK
           /\ \A s \in Slots : SlotSafe(s) /\ Accounted(s)
           /\ OwnScans /\ GivenIsBelow /\ AllGiven

----------------------------------------------------------------------------
(* Below a directory lies what its entries lead to.                        *)

LEMMA BelowFiles == ASSUME NEW d \in Dirs PROVE Below(d) = FilesBelow[d]
  BY DEF Below, FilesBelow, Reaches

LEMMA BelowFile == ASSUME NEW f \in Files \ Unsafe PROVE Below(f) = {f}
  <1>1. f \in Below(f)
    BY DEF Below, Reaches
  <1>2. ASSUME NEW g, Reaches(f, g) PROVE g = f
    <2>1. {f} \in SUBSET Entries /\ Dirs \cap {f} = {}
      BY TreeAssumption DEF Entries
    <2> QED
      BY <1>2, <2>1 DEF Reaches
  <1> QED
    BY <1>1, <1>2 DEF Below

LEMMA BelowDir == ASSUME NEW d \in Dirs PROVE Below(d) = Under(Tree[d])
  <1>1. Tree[d] \subseteq Entries /\ d \in Entries
    BY TreeAssumption DEF Entries
  <1>2. ASSUME NEW e \in Tree[d] \ Unsafe, NEW f, Reaches(e, f) PROVE Reaches(d, f)
    BY <1>2 DEF Reaches
  <1>3. ASSUME NEW f \in Files, Reaches(d, f) PROVE \E e \in Tree[d] \ Unsafe : Reaches(e, f)
    <2> DEFINE R == {x \in Entries : x = d \/ \E e \in Tree[d] \ Unsafe : Reaches(e, x)}
    <2>1. d \in R /\ R \in SUBSET Entries
      BY <1>1
    <2>2. ASSUME NEW c \in Dirs \cap R, NEW y \in Tree[c] \ Unsafe PROVE y \in R
      <3>1. y \in Entries
        BY TreeAssumption
      <3>2. CASE c = d
        <4>1. Reaches(y, y)
          BY DEF Reaches
        <4> QED
          BY <2>2, <3>1, <3>2, <4>1
      <3>3. CASE c # d
        <4>1. PICK e \in Tree[d] \ Unsafe : Reaches(e, c)
          BY <3>3
        <4>2. Reaches(e, y)
          BY <2>2, <4>1 DEF Reaches
        <4> QED
          BY <3>1, <4>2
      <3> QED
        BY <3>2, <3>3
    <2> HIDE DEF R
    <2>3. f \in R
      BY <1>3, <2>1, <2>2 DEF Reaches
    <2>4. f # d
      BY TreeAssumption
    <2> QED
      BY <2>3, <2>4 DEF R
  <1> QED
    BY <1>2, <1>3 DEF Below, Under

----------------------------------------------------------------------------
(* Walks and rings.                                                        *)

LEMMA UnderUnion == ASSUME NEW A, NEW B PROVE Under(A \cup B) = Under(A) \cup Under(B)
  BY DEF Under

LEMMA LeftEmpty == Left(<<>>) = {} /\ Under(Left(<<>>)) = {}
  BY DEF Left, Under

LEMMA LeftCons ==
  ASSUME NEW S, NEW F \in S, NEW w \in Seq(S)
  PROVE  /\ <<F>> \o w \in Seq(S) /\ <<F>> \o w # <<>>
         /\ Left(<<F>> \o w) = F \cup Left(w)
  <1> DEFINE v == <<F>> \o w
  <1>1. /\ v \in Seq(S) /\ Len(v) = Len(w) + 1 /\ Len(w) \in Nat
        /\ v[1] = F /\ \A i \in 1 .. Len(w) : v[i + 1] = w[i]
    <2>1. <<F>> \in Seq(S) /\ Len(<<F>>) = 1
      OBVIOUS
    <2> QED
      BY <2>1
  <1>2. Len(<<>>) = 0
    OBVIOUS
  <1> HIDE DEF v
  <1>3. \A i \in 1 .. Len(v) : i = 1 \/ (i - 1 \in 1 .. Len(w) /\ v[i] = w[i - 1])
    BY <1>1
  <1>4. v # <<>>
    BY <1>1, <1>2
  <1>5. Left(v) \subseteq F \cup Left(w)
    BY <1>1, <1>3 DEF Left
  <1>6. 1 \in 1 .. Len(v) /\ \A i \in 1 .. Len(w) : i + 1 \in 1 .. Len(v)
    BY <1>1
  <1>7. F \cup Left(w) \subseteq Left(v)
    BY <1>1, <1>6 DEF Left
  <1> QED
    BY <1>1, <1>4, <1>5, <1>7 DEF v

LEMMA LeftTail ==
  ASSUME NEW S, NEW w \in Seq(S), w # <<>>
  PROVE  /\ Tail(w) \in Seq(S) /\ w[1] \in S /\ Len(w) \in Nat \ {0}
         /\ Len(w) = 1 <=> Tail(w) = <<>>
         /\ Left(w) = w[1] \cup Left(Tail(w))
  <1>1. /\ Tail(w) \in Seq(S) /\ w[1] \in S /\ Len(w) \in Nat \ {0}
        /\ Len(Tail(w)) = Len(w) - 1
        /\ \A i \in 1 .. Len(w) - 1 : Tail(w)[i] = w[i + 1]
    BY HeadTailProperties, EmptySeq
  <1>2. Tail(w) = <<>> <=> Len(Tail(w)) = 0
    BY <1>1, EmptySeq
  <1>3. Len(w) = 1 <=> Tail(w) = <<>>
    BY <1>1, <1>2
  <1>4. \A i \in 1 .. Len(w) : i = 1 \/ (i - 1 \in 1 .. Len(w) - 1 /\ w[i] = Tail(w)[i - 1])
    BY <1>1
  <1>5. Left(w) \subseteq w[1] \cup Left(Tail(w))
    BY <1>1, <1>4 DEF Left
  <1>6. 1 \in 1 .. Len(w) /\ \A i \in 1 .. Len(w) - 1 : i + 1 \in 1 .. Len(w)
    BY <1>1
  <1>7. w[1] \cup Left(Tail(w)) \subseteq Left(w)
    BY <1>1, <1>6 DEF Left
  <1> QED
    BY <1>1, <1>3, <1>5, <1>7

LEMMA RingAppend ==
  ASSUME NEW q \in Seq(Msgs), NEW m \in Msgs
  PROVE  /\ Append(q, m) \in Seq(Msgs) /\ Len(Append(q, m)) = Len(q) + 1 /\ Len(q) \in Nat
         /\ Append(q, m) # <<>>
         /\ Append(q, m)[Len(q) + 1] = m /\ \A i \in 1 .. Len(q) : Append(q, m)[i] = q[i]
         /\ FilesIn(Append(q, m)) = FilesIn(q) \cup {f \in Files : IsFile(m, f)}
  <1>1. /\ Append(q, m) \in Seq(Msgs) /\ Len(Append(q, m)) = Len(q) + 1 /\ Len(q) \in Nat
        /\ \A i \in 1 .. Len(q) : Append(q, m)[i] = q[i]
        /\ Append(q, m)[Len(q) + 1] = m
    BY AppendProperties
  <1>2. Append(q, m) # <<>>
    BY <1>1, EmptySeq
  <1> QED
    BY <1>1, <1>2 DEF FilesIn

LEMMA RingTail ==
  ASSUME NEW q \in Seq(Msgs), q # <<>>
  PROVE  /\ Tail(q) \in Seq(Msgs) /\ Head(q) = q[1] /\ q[1] \in Msgs
         /\ Len(q) \in Nat \ {0} /\ Len(Tail(q)) = Len(q) - 1
         /\ \A i \in 1 .. Len(q) - 1 : Tail(q)[i] = q[i + 1]
         /\ Tail(q) = <<>> <=> Len(q) = 1
         /\ FilesIn(q) = FilesIn(Tail(q)) \cup {f \in Files : IsFile(q[1], f)}
  <1>1. /\ Tail(q) \in Seq(Msgs) /\ Head(q) = q[1] /\ q[1] \in Msgs
        /\ Len(q) \in Nat \ {0} /\ Len(Tail(q)) = Len(q) - 1
        /\ \A i \in 1 .. Len(q) - 1 : Tail(q)[i] = q[i + 1]
    BY HeadTailProperties, EmptySeq
  <1>2. Tail(q) = <<>> <=> Len(Tail(q)) = 0
    BY <1>1, EmptySeq
  <1>3. Tail(q) = <<>> <=> Len(q) = 1
    BY <1>1, <1>2
  <1>4. \A i \in 1 .. Len(q) : i = 1 \/ (i - 1 \in 1 .. Len(q) - 1 /\ q[i] = Tail(q)[i - 1])
    BY <1>1
  <1>5. 1 \in 1 .. Len(q) /\ \A i \in 1 .. Len(q) - 1 : i + 1 \in 1 .. Len(q)
    BY <1>1
  <1>6. FilesIn(q) \subseteq FilesIn(Tail(q)) \cup {f \in Files : IsFile(q[1], f)}
    BY <1>1, <1>4 DEF FilesIn
  <1>7. FilesIn(Tail(q)) \cup {f \in Files : IsFile(q[1], f)} \subseteq FilesIn(q)
    BY <1>1, <1>5 DEF FilesIn
  <1> QED
    BY <1>1, <1>3, <1>6, <1>7

----------------------------------------------------------------------------
(* The scan thread: nothing it has to tell is lost or made up.             *)

ThRecs == [pc : ThreadPcs, walk : Seq(Frames), at : Entries]

\* With ring r and thread u instead of q and t.
Tells(q, t, root, r, u) ==
  /\ Shape(r, u) /\ t.pc # "none" /\ u.pc # "none"
  /\ Content(r, u, root) \subseteq Content(q, t, root)
  /\ Ahead(u, root) \subseteq Ahead(t, root)
  /\ Promised(r, u) => Promised(q, t) /\ Content(q, t, root) \subseteq Content(r, u, root)
  /\ t.pc \in Leaving => u.pc \in Leaving /\ r = q
  /\ t.pc \notin Leaving /\ u.pc \in Leaving => Closed(r)

\* It writes nothing, and goes on or gives up.
LEMMA QuietTells ==
  ASSUME NEW q, NEW root, NEW t, NEW u, Shape(q, t), Shape(q, u),
         t.pc \in Walking /\ u.pc \in Walking,
         \/ t.pc # "fail" /\ Ahead(u, root) = Ahead(t, root)
         \/ u.pc = "fail" /\ Ahead(u, root) \subseteq Ahead(t, root)
  PROVE  Tells(q, t, root, q, u)
  <1>1. t.pc \notin Leaving /\ u.pc \notin Leaving /\ t.pc # "none" /\ u.pc # "none"
    BY DEF Walking, Leaving
  <1>2. \A i \in 1 .. Len(q) : q[i].kind # "Done"
    BY DEF Shape
  <1>3. Content(q, u, root) \subseteq Content(q, t, root)
    BY DEF Content
  <1>4. Promised(q, u) => Promised(q, t) /\ Content(q, t, root) \subseteq Content(q, u, root)
    BY <1>2 DEF Promised, Content
  <1> QED
    BY <1>1, <1>3, <1>4 DEF Tells

\* A failure forgets what was still to be told.
LEMMA FailTells ==
  ASSUME NEW q, NEW root, NEW t, Shape(q, t), t.pc \in Walking
  PROVE  Tells(q, t, root, q, [pc |-> "fail", walk |-> <<>>, at |-> NoRoot])
  <1> DEFINE u == [pc |-> "fail", walk |-> <<>>, at |-> NoRoot]
  <1>1. u.pc = "fail" /\ u.walk = <<>>
    OBVIOUS
  <1> HIDE DEF u
  <1>2. Ahead(u, root) = {}
    BY <1>1, LeftEmpty DEF Ahead
  <1>3. Shape(q, u)
    BY <1>1 DEF Shape, Walking
  <1>4. u.pc \in Walking
    BY <1>1 DEF Walking
  <1>5. Tells(q, t, root, q, u)
    BY <1>1, <1>2, <1>3, <1>4, QuietTells
  <1> QED
    BY <1>5 DEF u

LEMMA ConnectTells ==
  ASSUME NEW q, NEW root \in Dirs, NEW t, Shape(q, t), t.pc = "connect"
  PROVE  Tells(q, t, root, q, [pc |-> "opendir", walk |-> <<>>, at |-> root])
  <1> DEFINE u == [pc |-> "opendir", walk |-> <<>>, at |-> root]
  <1>1. u.pc = "opendir" /\ u.walk = <<>> /\ u.at = root /\ t.walk = <<>>
    BY DEF Shape
  <1> HIDE DEF u
  <1>2. Ahead(u, root) = Ahead(t, root)
    BY <1>1 DEF Ahead
  <1>3. t.pc \in Walking /\ u.pc \in Walking
    BY <1>1 DEF Walking
  <1>4. Shape(q, u)
    BY <1>1, <1>3 DEF Shape
  <1>5. Tells(q, t, root, q, u)
    BY <1>2, <1>3, <1>4, QuietTells
  <1> QED
    BY <1>5 DEF u

LEMMA OpenDirTells ==
  ASSUME NEW q, NEW root, NEW t \in ThRecs, Shape(q, t), t.pc = "opendir"
  PROVE  LET w == <<Tree[t.at]>> \o t.walk
         IN  /\ w \in Seq(Frames)
             /\ Tells(q, t, root, q, [pc |-> "read", walk |-> w, at |-> NoRoot])
  <1> DEFINE w == <<Tree[t.at]>> \o t.walk
             u == [pc |-> "read", walk |-> w, at |-> NoRoot]
  <1>1. t.at \in Dirs /\ t.walk \in Seq(Frames) /\ Tree[t.at] \in Frames
    BY TreeAssumption DEF Shape, ThRecs, Frames
  <1>2. w \in Seq(Frames) /\ w # <<>> /\ Left(w) = Tree[t.at] \cup Left(t.walk)
    BY <1>1, LeftCons
  <1> HIDE DEF w
  <1>3. u.pc = "read" /\ u.walk = w
    OBVIOUS
  <1> HIDE DEF u
  <1>4. Ahead(u, root) = Ahead(t, root)
    <2>1. Ahead(u, root) = Under(Tree[t.at]) \cup Under(Left(t.walk))
      BY <1>2, <1>3, UnderUnion DEF Ahead
    <2> QED
      BY <1>1, <2>1, BelowDir DEF Ahead
  <1>5. t.pc \in Walking /\ u.pc \in Walking
    BY <1>3 DEF Walking
  <1>6. Shape(q, u)
    BY <1>2, <1>3, <1>5 DEF Shape
  <1>7. Tells(q, t, root, q, u)
    BY <1>4, <1>5, <1>6, QuietTells
  <1> QED
    BY <1>2, <1>7 DEF u, w

\* An entry is taken out of the walk's first directory, and is skipped, opened or sent.
LEMMA EntryTells ==
  ASSUME NEW q, NEW root, NEW t \in ThRecs, Shape(q, t), t.pc = "read",
         NEW e \in t.walk[1], NEW p, NEW a,
         \/ e \in Unsafe /\ p = "read"
         \/ e \in Dirs \ Unsafe /\ p = "opendir" /\ a = e
         \/ e \in Files \ Unsafe /\ p = "send" /\ a = e
  PROVE  LET w == <<t.walk[1] \ {e}>> \o Tail(t.walk)
         IN  /\ w \in Seq(Frames)
             /\ Tells(q, t, root, q, [pc |-> p, walk |-> w, at |-> a])
  <1> DEFINE F == t.walk[1] \ {e}
             w == <<F>> \o Tail(t.walk)
             u == [pc |-> p, walk |-> w, at |-> a]
  <1>1. /\ Tail(t.walk) \in Seq(Frames) /\ t.walk[1] \in Frames
        /\ Left(t.walk) = t.walk[1] \cup Left(Tail(t.walk))
    BY LeftTail DEF Shape, ThRecs
  <1>2. w \in Seq(Frames) /\ w # <<>> /\ Left(w) = F \cup Left(Tail(t.walk))
    <2>1. F \in Frames
      BY <1>1 DEF Frames
    <2> HIDE DEF F
    <2> DEFINE v == Tail(t.walk)
    <2>2. v \in Seq(Frames)
      BY <1>1
    <2> HIDE DEF v
    <2>3. <<F>> \o v \in Seq(Frames) /\ <<F>> \o v # <<>> /\ Left(<<F>> \o v) = F \cup Left(v)
      BY <2>1, <2>2, LeftCons
    <2> QED
      BY <2>3 DEF v
  <1>3. Left(t.walk) = {e} \cup Left(w)
    BY <1>1, <1>2
  <1> HIDE DEF w, F
  <1>4. u.pc = p /\ u.walk = w /\ u.at = a
    OBVIOUS
  <1> HIDE DEF u
  <1>5. Under({e}) = IF e \in Unsafe THEN {} ELSE Below(e)
    BY DEF Under, Below
  <1>6. Under(Left(t.walk)) = Under({e}) \cup Under(Left(w))
    BY <1>3, UnderUnion
  <1>7. Ahead(u, root) = Ahead(t, root)
    <2>1. Ahead(t, root) = Under({e}) \cup Under(Left(w))
      BY <1>6 DEF Ahead
    <2>2. Ahead(u, root) = Under(Left(w)) \cup IF e \in Unsafe THEN {} ELSE Below(e)
      BY <1>4 DEF Ahead
    <2> QED
      BY <1>5, <2>1, <2>2
  <1>8. t.pc \in Walking /\ u.pc \in Walking
    BY <1>4 DEF Walking
  <1>9. Shape(q, u)
    BY <1>2, <1>4, <1>8 DEF Shape
  <1>10. Tells(q, t, root, q, u)
    BY <1>7, <1>8, <1>9, QuietTells
  <1> QED
    BY <1>2, <1>10 DEF u, w, F

LEMMA EndDirTells ==
  ASSUME NEW q, NEW root, NEW t \in ThRecs, Shape(q, t), t.pc = "read", t.walk[1] = {}
  PROVE  LET p == IF Len(t.walk) = 1 THEN "done" ELSE "read"
         IN  /\ Tail(t.walk) \in Seq(Frames)
             /\ Tells(q, t, root, q, [pc |-> p, walk |-> Tail(t.walk), at |-> NoRoot])
  <1> DEFINE p == IF Len(t.walk) = 1 THEN "done" ELSE "read"
             u == [pc |-> p, walk |-> Tail(t.walk), at |-> NoRoot]
  <1>1. /\ Tail(t.walk) \in Seq(Frames) /\ Left(t.walk) = Left(Tail(t.walk))
        /\ Len(t.walk) = 1 <=> Tail(t.walk) = <<>>
    <2> DEFINE w == t.walk
    <2>1. w \in Seq(Frames) /\ w # <<>> /\ w[1] = {}
      BY DEF Shape, ThRecs
    <2> HIDE DEF w
    <2>2. /\ Tail(w) \in Seq(Frames) /\ Left(w) = w[1] \cup Left(Tail(w))
          /\ Len(w) = 1 <=> Tail(w) = <<>>
      BY <2>1, LeftTail
    <2>3. Left(w) = Left(Tail(w))
      BY <2>1, <2>2
    <2> QED
      BY <2>2, <2>3 DEF w
  <1>2. /\ p \in {"done", "read"} /\ u.pc = p /\ u.walk = Tail(t.walk)
        /\ p = "done" <=> Tail(t.walk) = <<>>
    BY <1>1
  <1> HIDE DEF u, p
  <1>3. Ahead(u, root) = Ahead(t, root)
    BY <1>1, <1>2 DEF Ahead
  <1>4. t.pc \in Walking /\ u.pc \in Walking
    BY <1>2 DEF Walking
  <1>5. Shape(q, u)
    BY <1>2, <1>4 DEF Shape
  <1>6. Tells(q, t, root, q, u)
    BY <1>3, <1>4, <1>5, QuietTells
  <1> QED
    BY <1>1, <1>6 DEF u, p

\* What a scan sends of a file is a message about that file.
LEMMA FileMsgType ==
  ASSUME NEW s, scans[s].root \in Dirs, NEW f \in Files
  PROVE  FileMsg(s, f) \in Msgs /\ IsFile(FileMsg(s, f), f)
  <1>1. Cut[scans[s].root][f] \in Paths
    BY CutAssumption
  <1> QED
    BY <1>1 DEF FileMsg, Msgs, IsFile

LEMMA SendFileTells ==
  ASSUME NEW q \in Seq(Msgs), NEW root, NEW t \in ThRecs, Shape(q, t), t.pc = "send",
         NEW m \in Msgs, IsFile(m, t.at)
  PROVE  Tells(q, t, root, Append(q, m), [pc |-> "read", walk |-> t.walk, at |-> NoRoot])
  <1> DEFINE r == Append(q, m)
             u == [pc |-> "read", walk |-> t.walk, at |-> NoRoot]
  <1>1. t.at \in Files \ Unsafe /\ t.walk # <<>>
    BY DEF Shape
  <1>2. /\ Len(r) = Len(q) + 1 /\ Len(q) \in Nat
        /\ r[Len(q) + 1] = m /\ \A i \in 1 .. Len(q) : r[i] = q[i]
        /\ FilesIn(r) = FilesIn(q) \cup {f \in Files : IsFile(m, f)}
    BY RingAppend
  <1>3. {f \in Files : IsFile(m, f)} = {t.at}
    BY <1>1 DEF IsFile
  <1>4. u.pc = "read" /\ u.walk = t.walk
    OBVIOUS
  <1> HIDE DEF r, u
  <1>5. \A i \in 1 .. Len(q) : q[i].kind = "File"
    BY DEF Shape, Walking
  <1>6. \A i \in 1 .. Len(r) : r[i].kind = "File"
    <2>1. m.kind = "File"
      BY DEF IsFile
    <2> QED
      BY <1>2, <1>5, <2>1
  <1>7. Shape(r, u)
    BY <1>1, <1>4, <1>6 DEF Shape
  <1>8. Content(r, u, root) = Content(q, t, root)
    BY <1>1, <1>2, <1>3, <1>4, BelowFile DEF Content, Ahead
  <1>9. Promised(q, t)
    BY DEF Promised, Walking
  <1>10. Ahead(u, root) \subseteq Ahead(t, root)
    BY <1>4 DEF Ahead
  <1>11. Tells(q, t, root, r, u)
    BY <1>4, <1>7, <1>8, <1>9, <1>10 DEF Tells, Leaving
  <1> QED
    BY <1>1, <1>11 DEF r, u

LEMMA SendTerminalTells ==
  ASSUME NEW q \in Seq(Msgs), NEW root, NEW t \in ThRecs, Shape(q, t), t.pc \in {"done", "fail"}
  PROVE  LET m == [kind |-> IF t.pc = "done" THEN "Done" ELSE "Failed"]
         IN  /\ m \in Msgs
             /\ Tells(q, t, root, Append(q, m), [pc |-> "close", walk |-> <<>>, at |-> NoRoot])
  <1> DEFINE m == [kind |-> IF t.pc = "done" THEN "Done" ELSE "Failed"]
             r == Append(q, m)
             u == [pc |-> "close", walk |-> <<>>, at |-> NoRoot]
  <1>1. /\ m \in Msgs /\ m.kind \in {"Done", "Failed"}
        /\ m.kind = "Done" <=> t.pc = "done"
    BY DEF Msgs
  <1>2. ASSUME NEW f PROVE ~IsFile(m, f)
    BY <1>1 DEF IsFile
  <1> HIDE DEF m
  <1>3. /\ Len(r) = Len(q) + 1 /\ Len(q) \in Nat /\ r # <<>>
        /\ r[Len(q) + 1] = m /\ \A i \in 1 .. Len(q) : r[i] = q[i]
        /\ FilesIn(r) = FilesIn(q) \cup {f \in Files : IsFile(m, f)}
    BY <1>1, RingAppend
  <1>4. u.pc = "close" /\ u.walk = <<>> /\ t.walk = <<>>
    BY DEF Shape
  <1> HIDE DEF r, u
  <1>5. \A i \in 1 .. Len(q) : q[i].kind = "File"
    BY DEF Shape, Walking
  <1>6. Closed(r)
    BY <1>1, <1>3, <1>5 DEF Closed
  <1>7. Shape(r, u)
    BY <1>4 DEF Shape, Walking
  <1>8. Content(r, u, root) = Content(q, t, root) /\ Ahead(u, root) = {}
    <2>1. Ahead(t, root) = {} /\ Ahead(u, root) = {}
      BY <1>4, LeftEmpty DEF Ahead
    <2> QED
      BY <1>2, <1>3, <2>1 DEF Content
  <1>9. Promised(r, u) => Promised(q, t)
    <2>1. Promised(r, u) => m.kind = "Done"
      BY <1>3, <1>4, <1>5 DEF Promised, Walking
    <2> QED
      BY <1>1, <2>1 DEF Promised, Walking
  <1>10. Tells(q, t, root, r, u)
    BY <1>4, <1>6, <1>7, <1>8, <1>9 DEF Tells, Leaving
  <1> QED
    BY <1>1, <1>10 DEF r, u, m

LEMMA CloseTells ==
  ASSUME NEW q, NEW root, NEW t, Shape(q, t), t.pc = "close"
  PROVE  Tells(q, t, root, q, [pc |-> "exited", walk |-> <<>>, at |-> NoRoot])
  <1> DEFINE u == [pc |-> "exited", walk |-> <<>>, at |-> NoRoot]
  <1>1. u.pc = "exited" /\ u.walk = <<>> /\ t.walk = <<>>
    BY DEF Shape
  <1> HIDE DEF u
  <1>2. Content(q, u, root) = Content(q, t, root) /\ Ahead(u, root) = Ahead(t, root)
    BY <1>1 DEF Content, Ahead
  <1>3. Shape(q, u) /\ (Promised(q, u) => Promised(q, t))
    BY <1>1 DEF Shape, Promised, Walking
  <1>4. Tells(q, t, root, q, u)
    BY <1>1, <1>2, <1>3 DEF Tells, Leaving
  <1> QED
    BY <1>4 DEF u

ScanRecs == [inUse : BOOLEAN, root : Dirs, no : 0 .. MaxStarts, ring : Seq(Msgs)]

LEMMA ThreadSteps ==
  ASSUME TypeOK, NEW s \in Slots, ThreadStep(s), Shape(scans[s].ring, th[s])
  PROVE  /\ Stays
         /\ th' \in [Slots -> ThRecs] /\ scans' \in [Slots -> ScanRecs]
         /\ \A t \in Slots \ {s} : th'[t] = th[t] /\ scans'[t] = scans[t]
         /\ Len(scans'[s].ring) <= RingCap
         /\ scans'[s].inUse = scans[s].inUse /\ scans'[s].no = scans[s].no
         /\ scans'[s].root = scans[s].root
         /\ Tells(scans[s].ring, th[s], scans[s].root, scans'[s].ring, th'[s])
  <1> DEFINE q == scans[s].ring
             t == th[s]
             root == scans[s].root
             Good == /\ Stays
                     /\ th' \in [Slots -> ThRecs] /\ scans' \in [Slots -> ScanRecs]
                     /\ \A r \in Slots \ {s} : th'[r] = th[r] /\ scans'[r] = scans[r]
                     /\ Len(scans'[s].ring) <= RingCap
                     /\ scans'[s].inUse = scans[s].inUse /\ scans'[s].no = scans[s].no
                     /\ scans'[s].root = scans[s].root
                     /\ Tells(q, t, root, scans'[s].ring, th'[s])
  <1>1. /\ th \in [Slots -> ThRecs] /\ scans \in [Slots -> ScanRecs]
        /\ t \in ThRecs /\ q \in Seq(Msgs) /\ root \in Dirs /\ Len(q) <= RingCap
        /\ t.walk \in Seq(Frames) /\ Shape(q, t)
    BY DEF TypeOK, ThRecs, ScanRecs
  <1>2. NoRoot \in Entries /\ Dirs \subseteq Entries /\ <<>> \in Seq(Frames)
    BY TreeAssumption DEF NoRoot, Entries
  <1>3. ASSUME NEW p \in ThreadPcs, NEW w \in Seq(Frames), NEW a \in Entries,
               Goes(s, p, w, a), scans' = scans, Stays,
               Tells(q, t, root, q, [pc |-> p, walk |-> w, at |-> a])
        PROVE  Good
    <2> DEFINE u == [pc |-> p, walk |-> w, at |-> a]
    <2>1. u \in ThRecs
      BY DEF ThRecs
    <2>2. th' = [th EXCEPT ![s] = u]
      BY <1>3 DEF Goes
    <2> HIDE DEF u
    <2>3. th' \in [Slots -> ThRecs] /\ th'[s] = u /\ \A r \in Slots \ {s} : th'[r] = th[r]
      BY <1>1, <2>1, <2>2
    <2> QED
      BY <1>1, <1>3, <2>3 DEF u
  <1>4. ASSUME NEW p \in ThreadPcs, NEW w \in Seq(Frames), NEW a \in Entries, NEW m \in Msgs,
               Goes(s, p, w, a), Write(s, m), Stays,
               Tells(q, t, root, Append(q, m), [pc |-> p, walk |-> w, at |-> a])
        PROVE  Good
    <2> DEFINE u == [pc |-> p, walk |-> w, at |-> a]
               r == [scans[s] EXCEPT !.ring = Append(q, m)]
    <2>1. u \in ThRecs
      BY DEF ThRecs
    <2>2. th' = [th EXCEPT ![s] = u]
      BY <1>4 DEF Goes
    <2> HIDE DEF u
    <2>3. th' \in [Slots -> ThRecs] /\ th'[s] = u /\ \A v \in Slots \ {s} : th'[v] = th[v]
      BY <1>1, <2>1, <2>2
    <2>4. /\ Append(q, m) \in Seq(Msgs) /\ Len(Append(q, m)) = Len(q) + 1
          /\ Len(q) \in Nat
      BY <1>1, RingAppend
    <2>5. /\ r \in ScanRecs /\ r.ring = Append(q, m) /\ r.inUse = scans[s].inUse
          /\ r.no = scans[s].no /\ r.root = scans[s].root
      BY <1>1, <2>4 DEF ScanRecs
    <2>6. Len(q) < RingCap /\ scans' = [scans EXCEPT ![s] = r]
      BY <1>4 DEF Write
    <2>7. Len(Append(q, m)) <= RingCap
      BY <2>4, <2>6, SizesAssumption
    <2> HIDE DEF r
    <2>8. /\ scans' \in [Slots -> ScanRecs] /\ scans'[s] = r
          /\ \A v \in Slots \ {s} : scans'[v] = scans[v]
      BY <1>1, <2>5, <2>6
    <2> QED
      BY <1>4, <2>3, <2>5, <2>7, <2>8 DEF u
  <1> SUFFICES Good
    OBVIOUS
  <1> HIDE DEF Good
  <1>5. CASE Connect(s)
    <2>1. t.pc = "connect" /\ scans' = scans /\ Stays
      BY <1>5 DEF Connect
    <2>2. CASE Goes(s, "opendir", <<>>, root)
      BY <1>1, <1>2, <1>3, <2>1, <2>2, ConnectTells DEF ThreadPcs
    <2>3. CASE Goes(s, "fail", <<>>, NoRoot)
      BY <1>1, <1>2, <1>3, <2>1, <2>3, FailTells DEF ThreadPcs, Walking
    <2> QED
      BY <1>5, <2>2, <2>3 DEF Connect
  <1>6. CASE OpenDir(s)
    <2>1. t.pc = "opendir" /\ scans' = scans /\ Stays
      BY <1>6 DEF OpenDir
    <2>2. CASE Goes(s, "read", <<Tree[th[s].at]>> \o th[s].walk, NoRoot)
      <3>1. /\ <<Tree[t.at]>> \o t.walk \in Seq(Frames)
            /\ Tells(q, t, root, q, [pc |-> "read", walk |-> <<Tree[t.at]>> \o t.walk,
                                    at |-> NoRoot])
        BY <1>1, <2>1, OpenDirTells
      <3> QED
        BY <1>2, <1>3, <2>1, <2>2, <3>1 DEF ThreadPcs
    <2>3. CASE Goes(s, "fail", <<>>, NoRoot)
      BY <1>1, <1>2, <1>3, <2>1, <2>3, FailTells DEF ThreadPcs, Walking
    <2> QED
      BY <1>6, <2>2, <2>3 DEF OpenDir
  <1>7. CASE ReadEntry(s)
    <2>1. t.pc = "read" /\ scans' = scans /\ Stays
      BY <1>7 DEF ReadEntry
    <2> DEFINE rest(e) == <<t.walk[1] \ {e}>> \o Tail(t.walk)
    <2>2. PICK e \in t.walk[1] : \/ e \in Unsafe /\ Goes(s, "read", rest(e), NoRoot)
                                 \/ e \in Dirs \ Unsafe /\ Goes(s, "opendir", rest(e), e)
                                 \/ e \in Files \ Unsafe /\ Goes(s, "send", rest(e), e)
      BY <1>7 DEF ReadEntry
    <2>3. ASSUME NEW p, NEW a,
                 \/ e \in Unsafe /\ p = "read"
                 \/ e \in Dirs \ Unsafe /\ p = "opendir" /\ a = e
                 \/ e \in Files \ Unsafe /\ p = "send" /\ a = e
          PROVE  /\ rest(e) \in Seq(Frames)
                 /\ Tells(q, t, root, q, [pc |-> p, walk |-> rest(e), at |-> a])
      BY <1>1, <2>1, <2>3, EntryTells
    <2> HIDE DEF rest
    <2>4. CASE e \in Unsafe /\ Goes(s, "read", rest(e), NoRoot)
      BY <1>2, <1>3, <2>1, <2>3, <2>4 DEF ThreadPcs
    <2>5. CASE e \in Dirs \ Unsafe /\ Goes(s, "opendir", rest(e), e)
      BY <1>2, <1>3, <2>1, <2>3, <2>5 DEF ThreadPcs
    <2>6. CASE e \in Files \ Unsafe /\ Goes(s, "send", rest(e), e)
      BY <1>2, <1>3, <2>1, <2>3, <2>6 DEF ThreadPcs, Entries
    <2> QED
      BY <2>2, <2>4, <2>5, <2>6
  <1>8. CASE ReadError(s)
    BY <1>1, <1>2, <1>3, <1>8, FailTells DEF ReadError, ThreadPcs, Walking
  <1>9. CASE EndDir(s)
    <2> DEFINE p == IF Len(t.walk) = 1 THEN "done" ELSE "read"
    <2>1. /\ t.pc = "read" /\ t.walk[1] = {} /\ scans' = scans /\ Stays
          /\ Goes(s, p, Tail(t.walk), NoRoot) /\ p \in ThreadPcs
      BY <1>9 DEF EndDir, ThreadPcs
    <2>2. /\ Tail(t.walk) \in Seq(Frames)
          /\ Tells(q, t, root, q, [pc |-> p, walk |-> Tail(t.walk), at |-> NoRoot])
      BY <1>1, <2>1, EndDirTells
    <2> HIDE DEF p
    <2> QED
      BY <1>2, <1>3, <2>1, <2>2
  <1>10. CASE SendFile(s)
    <2> DEFINE m == FileMsg(s, t.at)
    <2>1. /\ t.pc = "send" /\ Write(s, m) /\ Stays
          /\ Goes(s, "read", t.walk, NoRoot) /\ "read" \in ThreadPcs
      BY <1>10 DEF SendFile, ThreadPcs
    <2>2. m \in Msgs /\ IsFile(m, t.at)
      BY <1>1, <2>1, FileMsgType DEF Shape
    <2> HIDE DEF m
    <2>3. Tells(q, t, root, Append(q, m), [pc |-> "read", walk |-> t.walk, at |-> NoRoot])
      BY <1>1, <2>1, <2>2, SendFileTells
    <2> QED
      BY <1>1, <1>2, <1>4, <2>1, <2>2, <2>3
  <1>11. CASE SendTerminal(s)
    <2> DEFINE m == [kind |-> IF t.pc = "done" THEN "Done" ELSE "Failed"]
    <2>1. /\ t.pc \in {"done", "fail"} /\ Write(s, m) /\ Stays
          /\ Goes(s, "close", <<>>, NoRoot) /\ "close" \in ThreadPcs
      BY <1>11 DEF SendTerminal, ThreadPcs
    <2>2. m \in Msgs /\ Tells(q, t, root, Append(q, m),
                              [pc |-> "close", walk |-> <<>>, at |-> NoRoot])
      BY <1>1, <2>1, SendTerminalTells
    <2> HIDE DEF m
    <2> QED
      BY <1>1, <1>2, <1>4, <2>1, <2>2
  <1>12. CASE Close(s)
    BY <1>1, <1>2, <1>3, <1>12, CloseTells DEF Close, ThreadPcs
  <1> QED
    BY <1>5, <1>6, <1>7, <1>8, <1>9, <1>10, <1>11, <1>12 DEF ThreadStep

\* A slot that a step leaves alone.
LEMMA SlotStays ==
  ASSUME NEW t \in Slots, SlotSafe(t), Accounted(t), scans'[t] = scans[t], th'[t] = th[t],
         Joining(t)' <=> Joining(t),
         scans[t].inUse => /\ scans[t].no \in 1 .. Len(log')
                           /\ log'[scans[t].no] = log[scans[t].no]
                           /\ handed'[scans[t].no] = handed[scans[t].no]
  PROVE  SlotSafe(t)' /\ Accounted(t)'
  BY DEF SlotSafe, Accounted, Given, Content, Ahead, Promised, Shape, Closed, Joining

LEMMA ThreadKeeps ==
  ASSUME ScanInv, NEW s \in Slots, ThreadStep(s)
  PROVE  ScanInv'
  <1>1. TypeOK /\ SlotSafe(s) /\ Accounted(s) /\ Shape(scans[s].ring, th[s])
    BY DEF ScanInv, SlotSafe
  <1>2. /\ ui' = ui /\ count' = count /\ dropped' = dropped /\ ignored' = ignored
        /\ log' = log /\ queued' = queued /\ handed' = handed
        /\ th' \in [Slots -> ThRecs] /\ scans' \in [Slots -> ScanRecs]
        /\ \A t \in Slots \ {s} : th'[t] = th[t] /\ scans'[t] = scans[t]
        /\ Len(scans'[s].ring) <= RingCap
        /\ scans'[s].inUse = scans[s].inUse /\ scans'[s].no = scans[s].no
        /\ scans'[s].root = scans[s].root
        /\ Tells(scans[s].ring, th[s], scans[s].root, scans'[s].ring, th'[s])
    BY <1>1, ThreadSteps DEF Stays
  <1>3. TypeOK'
    BY <1>1, <1>2 DEF TypeOK, ThRecs, ScanRecs
  <1>4. SlotSafe(s)'
    <2>1. scans[s].inUse /\ th[s].pc # "none"
      BY <1>1, <1>2 DEF SlotSafe, Tells
    <2>2. Joining(s)' <=> Joining(s)
      BY <1>2 DEF Joining
    <2> QED
      BY <1>1, <1>2, <2>1, <2>2 DEF SlotSafe, Tells
  <1>5. Accounted(s)'
    BY <1>1, <1>2 DEF Accounted, Tells, Given
  <1>6. ASSUME NEW t \in Slots PROVE SlotSafe(t)' /\ Accounted(t)'
    <2>1. CASE t = s
      BY <1>4, <1>5, <2>1
    <2>2. CASE t # s
      <3>1. SlotSafe(t) /\ Accounted(t) /\ (Joining(t)' <=> Joining(t))
        BY <1>2 DEF ScanInv, Joining
      <3>2. scans[t].inUse => scans[t].no \in 1 .. Len(log')
        BY <1>2, <3>1 DEF SlotSafe
      <3> QED
        BY <1>2, <2>2, <3>1, <3>2, SlotStays
    <2> QED
      BY <2>1, <2>2
  <1>7. OwnScans'
    BY <1>2 DEF ScanInv, OwnScans
  <1>8. GivenIsBelow' /\ AllGiven'
    <2>1. \A i : Given(i)' = Given(i)
      BY <1>2 DEF Given
    <2> QED
      BY <1>2, <2>1 DEF ScanInv, GivenIsBelow, AllGiven
  <1> QED
    BY <1>3, <1>6, <1>7, <1>8 DEF ScanInv

----------------------------------------------------------------------------
(* The UI thread.                                                          *)

UiRecs == [pc : {"poll", "join", "input"}, at : Slots]

\* The poll goes to the next slot, or there is none and the frame goes on.
LEMMA NextSlotType ==
  ASSUME TypeOK, NextSlot
  PROVE  ui' \in UiRecs /\ ui'.pc \in {"poll", "input"}
  <1>1. ui.at \in Slots /\ 1 \in Slots /\ MaxScans \in Nat
    BY SizesAssumption DEF TypeOK, Slots
  <1>2. ui.at # MaxScans => ui.at + 1 \in Slots
    BY <1>1 DEF Slots
  <1> QED
    BY <1>1, <1>2 DEF NextSlot, UiRecs

\* How many operations the queue holds after n were enqueued.
LEMMA EnqueueType ==
  ASSUME TypeOK, NEW n \in Nat, Enqueue(n)
  PROVE  count' \in 0 .. MaxOps /\ dropped' \in BOOLEAN
  BY SizesAssumption DEF TypeOK, Enqueue

\* What has nothing to do with the scans.
LEMMA OtherStepsKeep ==
  ASSUME ScanInv, PollNothing \/ IgnoreDrag \/ UploadFolder \/ RemoveOp \/ EndFrame
  PROVE  ScanInv'
  <1>1. TypeOK
    BY DEF ScanInv
  <1>2. /\ scans' = scans /\ th' = th /\ log' = log /\ queued' = queued /\ handed' = handed
        /\ ui.pc # "join" /\ ui' \in UiRecs /\ ui'.pc # "join"
        /\ count' \in 0 .. MaxOps /\ dropped' \in BOOLEAN /\ ignored' \in BOOLEAN
    <2>1. 1 \in Slots /\ MaxOps \in Nat /\ LocalFiles \in Nat
      BY SizesAssumption DEF Slots
    <2>2. /\ ui \in UiRecs /\ count \in 0 .. MaxOps /\ dropped \in BOOLEAN
          /\ ignored \in BOOLEAN
      BY <1>1 DEF TypeOK, UiRecs
    <2>3. CASE PollNothing
      BY <1>1, <2>2, <2>3, NextSlotType DEF PollNothing
    <2>4. CASE IgnoreDrag
      BY <2>2, <2>4 DEF IgnoreDrag
    <2>5. CASE UploadFolder
      BY <1>1, <2>1, <2>2, <2>5, EnqueueType DEF UploadFolder
    <2>6. CASE RemoveOp
      <3>1. count - 1 \in 0 .. MaxOps
        BY <2>1, <2>2, <2>6 DEF RemoveOp
      <3> QED
        BY <2>2, <2>6, <3>1 DEF RemoveOp
    <2>7. CASE EndFrame
      BY <2>1, <2>2, <2>7 DEF EndFrame, UiRecs
    <2> QED
      BY <2>3, <2>4, <2>5, <2>6, <2>7
  <1>3. TypeOK'
    BY <1>1, <1>2 DEF TypeOK, UiRecs
  <1>4. ASSUME NEW t \in Slots PROVE SlotSafe(t)' /\ Accounted(t)'
    <2>1. SlotSafe(t) /\ Accounted(t) /\ (Joining(t)' <=> Joining(t))
      BY <1>2 DEF ScanInv, Joining
    <2>2. scans[t].inUse => scans[t].no \in 1 .. Len(log')
      BY <1>2, <2>1 DEF SlotSafe
    <2> QED
      BY <1>2, <2>1, <2>2, SlotStays
  <1>5. \A i : Given(i)' = Given(i)
    BY <1>2 DEF Given
  <1>6. OwnScans' /\ GivenIsBelow' /\ AllGiven'
    BY <1>2, <1>5 DEF ScanInv, OwnScans, GivenIsBelow, AllGiven
  <1> QED
    BY <1>3, <1>4, <1>6 DEF ScanInv

\* The message at the head of the polled slot's ring, and what is left when it is taken.
LEMMA Polled ==
  ASSUME ScanInv, NEW kinds, Polls(kinds), scans' = Taken
  PROVE  LET s == ui.at
             q == scans[s].ring
         IN  /\ s \in Slots /\ scans[s].inUse /\ q \in Seq(Msgs) /\ q # <<>> /\ ~Joining(s)
             /\ Head(q) = q[1] /\ q[1].kind \in kinds /\ q[1] \in Msgs
             /\ scans' \in [Slots -> ScanRecs] /\ scans'[s].ring = Tail(q)
             /\ scans'[s].inUse /\ scans'[s].no = scans[s].no
             /\ scans'[s].root = scans[s].root
             /\ Len(scans'[s].ring) <= RingCap
             /\ \A t \in Slots \ {s} : scans'[t] = scans[t]
  <1> DEFINE s == ui.at
             q == scans[s].ring
             r == [scans[s] EXCEPT !.ring = Tail(q)]
  <1>1. /\ s \in Slots /\ scans[s].inUse /\ q \in Seq(Msgs) /\ q # <<>> /\ ~Joining(s)
        /\ scans \in [Slots -> ScanRecs] /\ Len(q) <= RingCap
        /\ Head(q).kind \in kinds
    BY DEF ScanInv, TypeOK, Polls, Joining, ScanRecs
  <1>2. /\ Tail(q) \in Seq(Msgs) /\ Head(q) = q[1] /\ q[1] \in Msgs
        /\ Len(q) \in Nat \ {0} /\ Len(Tail(q)) = Len(q) - 1
    BY <1>1, RingTail
  <1>3. /\ r \in ScanRecs /\ r.ring = Tail(q) /\ r.inUse = scans[s].inUse
        /\ r.no = scans[s].no /\ r.root = scans[s].root
    BY <1>1, <1>2 DEF ScanRecs
  <1>4. scans' = [scans EXCEPT ![s] = r]
    BY DEF Taken
  <1>5. Len(Tail(q)) <= RingCap
    BY <1>1, <1>2, SizesAssumption
  <1> HIDE DEF r
  <1>6. /\ scans' \in [Slots -> ScanRecs] /\ scans'[s] = r
        /\ \A t \in Slots \ {s} : scans'[t] = scans[t]
    BY <1>1, <1>3, <1>4
  <1> QED
    BY <1>1, <1>2, <1>3, <1>5, <1>6

\* A file goes from the ring to the transfer queue.
LEMMA PollFileKeeps == ScanInv /\ PollFile => ScanInv'
  <1> SUFFICES ASSUME ScanInv, PollFile,
                      NEW s, s = ui.at, NEW q, q = scans[s].ring, NEW t, t = th[s],
                      NEW n, n = scans[s].no, NEW f, f = Head(q).file, NEW p, p = Head(q).path
               PROVE  ScanInv'
    OBVIOUS
  <1>1. /\ s \in Slots /\ scans[s].inUse /\ q \in Seq(Msgs) /\ q # <<>> /\ ~Joining(s)
        /\ Head(q) = q[1] /\ q[1].kind = "File" /\ q[1] \in Msgs
        /\ scans' \in [Slots -> ScanRecs] /\ scans'[s].ring = Tail(q)
        /\ scans'[s].inUse /\ scans'[s].no = n /\ scans'[s].root = scans[s].root
        /\ Len(scans'[s].ring) <= RingCap
        /\ \A r \in Slots \ {s} : scans'[r] = scans[r]
    BY Polled DEF PollFile, Polls
  <1>2. /\ th' = th /\ ui' = ui /\ ignored' = ignored /\ log' = log
        /\ queued' = [queued EXCEPT ![n] = Append(@, p)]
        /\ handed' = [handed EXCEPT ![n] = Append(@, f)] /\ Enqueue(1)
    BY DEF PollFile
  <1>3. f \in Files /\ p \in Paths /\ IsFile(q[1], f)
    BY <1>1 DEF Msgs, IsFile
  <1>4. /\ SlotSafe(s) /\ Accounted(s) /\ n \in 1 .. Len(log) /\ log[n].is = "scanning"
        /\ log[n].root = scans[s].root /\ Len(handed) = Len(log) /\ handed \in Seq(Seq(Files))
        /\ scans[s].root \in Dirs /\ Len(queued) = Len(log) /\ queued \in Seq(Seq(Paths))
    BY <1>1 DEF ScanInv, SlotSafe, TypeOK
  <1>5. /\ handed[n] \in Seq(Files) /\ DOMAIN handed = 1 .. Len(log) /\ n \in DOMAIN handed
    BY <1>4
  <1>6. Append(handed[n], f) \in Seq(Files)
    BY <1>3, <1>5, AppendProperties
  <1>7. /\ handed' \in Seq(Seq(Files)) /\ Len(handed') = Len(log)
        /\ handed'[n] = Append(handed[n], f)
        /\ \A i \in 1 .. Len(log) : i # n => handed'[i] = handed[i]
    <2> DEFINE a == Append(handed[n], f)
    <2>1. handed' = [handed EXCEPT ![n] = a] /\ a \in Seq(Files)
      BY <1>2, <1>6
    <2>2. handed \in Seq(Seq(Files)) /\ n \in 1 .. Len(handed) /\ Len(handed) = Len(log)
      BY <1>4
    <2> HIDE DEF a
    <2>3. /\ handed' \in Seq(Seq(Files)) /\ Len(handed') = Len(handed)
          /\ \A j \in 1 .. Len(handed) : handed'[j] = IF j = n THEN a ELSE handed[j]
      BY ONLY <2>1, <2>2, ExceptSeq
    <2> QED
      BY <2>2, <2>3 DEF a
  <1>8. Given(n)' = Given(n) \cup {f}
    <2>1. /\ Len(Append(handed[n], f)) = Len(handed[n]) + 1 /\ Len(handed[n]) \in Nat
          /\ Append(handed[n], f)[Len(handed[n]) + 1] = f
          /\ \A i \in 1 .. Len(handed[n]) : Append(handed[n], f)[i] = handed[n][i]
      <3>1. f \in Files /\ handed[n] \in Seq(Files)
        BY <1>3, <1>5
      <3> QED
        BY ONLY <3>1, AppendProperties
    <2> DEFINE a == Append(handed[n], f)
               h == handed[n]
    <2>2. /\ Len(a) = Len(h) + 1 /\ Len(h) \in Nat /\ a[Len(h) + 1] = f
          /\ \A i \in 1 .. Len(h) : a[i] = h[i]
      BY <2>1
    <2>3. Given(n) = {h[j] : j \in 1 .. Len(h)} /\ Given(n)' = {a[j] : j \in 1 .. Len(a)}
      <3>1. /\ Given(n) = {handed[n][j] : j \in 1 .. Len(handed[n])}
            /\ Given(n)' = {handed'[n][j] : j \in 1 .. Len(handed'[n])}
        BY DEF Given
      <3> QED
        BY ONLY <1>7, <3>1
    <2> HIDE DEF a, h
    <2>4. /\ \A j \in 1 .. Len(a) : j = Len(h) + 1 \/ j \in 1 .. Len(h)
          /\ \A j \in 1 .. Len(h) : j \in 1 .. Len(a)
          /\ Len(h) + 1 \in 1 .. Len(a)
      BY <2>2
    <2>5. {a[j] : j \in 1 .. Len(a)} \subseteq {h[j] : j \in 1 .. Len(h)} \cup {f}
      BY <2>2, <2>4
    <2>6. {h[j] : j \in 1 .. Len(h)} \subseteq {a[j] : j \in 1 .. Len(a)}
      BY <2>2, <2>4
    <2>7. f \in {a[j] : j \in 1 .. Len(a)}
      BY <2>2, <2>4
    <2> QED
      BY <2>3, <2>5, <2>6, <2>7
  <1>9. \A i \in 1 .. Len(log) : i # n => Given(i)' = Given(i)
    BY <1>7 DEF Given
  <1>10. TypeOK'
    <2>1. 1 \in Nat
      OBVIOUS
    <2>2. count' \in 0 .. MaxOps /\ dropped' \in BOOLEAN
      BY <1>2, <2>1, EnqueueType DEF ScanInv
    <2>3. queued' \in Seq(Seq(Paths)) /\ Len(queued') = Len(log)
      <3> DEFINE a == Append(queued[n], p)
      <3>1. queued[n] \in Seq(Paths)
        BY <1>4
      <3>2. queued' = [queued EXCEPT ![n] = a] /\ a \in Seq(Paths)
        BY <1>2, <1>3, <3>1, AppendProperties
      <3>3. queued \in Seq(Seq(Paths)) /\ n \in 1 .. Len(queued) /\ Len(queued) = Len(log)
        BY <1>4
      <3> HIDE DEF a
      <3>4. queued' \in Seq(Seq(Paths)) /\ Len(queued') = Len(queued)
        BY ONLY <3>2, <3>3, ExceptSeq
      <3> QED
        BY <3>3, <3>4
    <2> QED
      BY <1>1, <1>2, <1>7, <2>2, <2>3 DEF ScanInv, TypeOK, ScanRecs
  <1>11. /\ Len(q) \in Nat \ {0} /\ Len(Tail(q)) = Len(q) - 1
         /\ \A i \in 1 .. Len(q) - 1 : Tail(q)[i] = q[i + 1]
         /\ Tail(q) = <<>> <=> Len(q) = 1
         /\ FilesIn(q) = FilesIn(Tail(q)) \cup {g \in Files : IsFile(q[1], g)}
    BY <1>1, RingTail
  <1>12. \A i \in 1 .. Len(q) - 1 : i + 1 \in 1 .. Len(q) /\ (i + 1 = Len(q) <=> i = Len(q) - 1)
    BY <1>11
  <1>13. 1 \in 1 .. Len(q)
    BY <1>11
  <1>14. Shape(q, t) => Shape(Tail(q), t)
    BY <1>11, <1>12 DEF Shape
  <1>15. Closed(q) => Closed(Tail(q))
    <2>1. Closed(q) => Len(q) # 1
      BY <1>1, <1>13 DEF Closed
    <2>2. Closed(q) => \A i \in 1 .. Len(Tail(q)) : Tail(q)[i].kind = "File" <=> i # Len(Tail(q))
      BY <1>11, <1>12 DEF Closed
    <2> QED
      BY <1>11, <2>1, <2>2 DEF Closed
  <1>16. Joining(s)' <=> Joining(s)
    BY <1>2 DEF Joining
  <1>17. SlotSafe(s)'
    BY <1>1, <1>2, <1>4, <1>14, <1>15, <1>16 DEF SlotSafe
  <1>18. Accounted(s)'
    <2>1. {g \in Files : IsFile(q[1], g)} = {f}
      BY <1>3 DEF IsFile
    <2>2. FilesIn(q) = FilesIn(Tail(q)) \cup {f}
      BY <1>11, <2>1
    <2>3. /\ Given(n)' \cup Content(Tail(q), t, scans[s].root)
               = Given(n) \cup Content(q, t, scans[s].root)
      BY <1>8, <2>2 DEF Content
    <2>4. Promised(Tail(q), t) => Promised(q, t)
      BY <1>11, <1>12 DEF Promised
    <2>5. /\ scans'[s].ring = Tail(q) /\ scans'[s].no = n /\ th'[s] = t
          /\ scans'[s].root = scans[s].root
      BY <1>1, <1>2
    <2>6. /\ Given(n) \cup Content(q, t, scans[s].root) \subseteq FilesBelow[scans[s].root]
          /\ Promised(q, t) => FilesBelow[scans[s].root]
                                 \subseteq Given(n) \cup Content(q, t, scans[s].root)
      BY <1>1, <1>4 DEF Accounted
    <2>7. Given(scans[s].no)' = Given(n)'
      BY <2>5 DEF Given
    <2> QED
      BY <2>3, <2>4, <2>5, <2>6, <2>7 DEF Accounted
  <1>19. ASSUME NEW r \in Slots PROVE SlotSafe(r)' /\ Accounted(r)'
    <2>1. CASE r = s
      BY <1>17, <1>18, <2>1
    <2>2. CASE r # s
      <3>1. SlotSafe(r) /\ Accounted(r) /\ (Joining(r)' <=> Joining(r))
        BY <1>2 DEF ScanInv, Joining
      <3>2. scans[r].inUse => scans[r].no \in 1 .. Len(log) /\ scans[r].no # n
        BY <1>1, <2>2, <3>1 DEF ScanInv, OwnScans, SlotSafe
      <3> QED
        BY <1>1, <1>2, <1>7, <2>2, <3>1, <3>2, SlotStays
    <2> QED
      BY <2>1, <2>2
  <1>20. OwnScans'
    <2>1. \A r \in Slots : /\ scans'[r].inUse => scans[r].inUse
                           /\ scans'[r].no = scans[r].no
      BY <1>1
    <2> QED
      BY <2>1 DEF ScanInv, OwnScans
  <1>21. GivenIsBelow'
    <2>1. f \in FilesBelow[log[n].root]
      <3>1. f \in FilesIn(q)
        BY <1>3, <1>13 DEF FilesIn
      <3> QED
        BY <1>1, <1>4, <3>1 DEF Accounted, Content
    <2> QED
      BY <1>2, <1>8, <1>9, <2>1 DEF ScanInv, GivenIsBelow
  <1>22. AllGiven'
    BY <1>2, <1>4, <1>9 DEF ScanInv, AllGiven
  <1> QED
    BY <1>10, <1>19, <1>20, <1>21, <1>22 DEF ScanInv

\* The terminal message is the last one, so its ring is empty; and if it is Done, what
\* the scan has handed over is all there was.
LEMMA PollTerminalKeeps == ScanInv /\ PollTerminal => ScanInv'
  <1> SUFFICES ASSUME ScanInv, PollTerminal,
                      NEW s, s = ui.at, NEW q, q = scans[s].ring, NEW t, t = th[s],
                      NEW n, n = scans[s].no,
                      NEW is, is = IF q[1].kind = "Done" THEN "complete" ELSE "failed"
               PROVE  ScanInv'
    OBVIOUS
  <1>1. /\ s \in Slots /\ scans[s].inUse /\ q \in Seq(Msgs) /\ q # <<>> /\ ~Joining(s)
        /\ Head(q) = q[1] /\ q[1].kind \in {"Done", "Failed"} /\ q[1] \in Msgs
        /\ scans' \in [Slots -> ScanRecs] /\ scans'[s].ring = Tail(q)
        /\ scans'[s].inUse /\ scans'[s].no = n /\ scans'[s].root = scans[s].root
        /\ Len(scans'[s].ring) <= RingCap
        /\ \A r \in Slots \ {s} : scans'[r] = scans[r]
    BY Polled DEF PollTerminal, Polls
  <1>2. /\ th' = th /\ ui' = [ui EXCEPT !.pc = "join"] /\ ignored' = ignored
        /\ queued' = queued /\ handed' = handed /\ count' = count /\ dropped' = dropped
        /\ log' = [log EXCEPT ![n].is = is]
    BY <1>1 DEF PollTerminal
  <1>3. /\ SlotSafe(s) /\ Accounted(s) /\ n \in 1 .. Len(log) /\ log[n].root = scans[s].root
        /\ Len(handed) = Len(log) /\ log \in Seq([root : Dirs, is : Outcomes])
        /\ t \in ThRecs /\ scans[s].root \in Dirs
        /\ ui \in UiRecs
    BY <1>1 DEF ScanInv, SlotSafe, TypeOK, ThRecs, UiRecs
  <1>4. ui' \in UiRecs /\ ui'.pc = "join" /\ ui'.at = s /\ ui.pc = "poll"
    BY <1>2, <1>3 DEF UiRecs, PollTerminal, Polls
  <1>5. /\ log' \in Seq([root : Dirs, is : Outcomes]) /\ Len(log') = Len(log)
        /\ log'[n].is = is /\ log'[n].root = log[n].root
        /\ \A i \in 1 .. Len(log) : i # n => log'[i] = log[i]
    <2>1. /\ log[n] \in [root : Dirs, is : Outcomes] /\ is \in Outcomes
          /\ DOMAIN log = 1 .. Len(log)
      <3>1. is \in Outcomes
        BY DEF Outcomes
      <3>2. log[n] \in [root : Dirs, is : Outcomes]
        BY <1>3, ElementOfSeq
      <3>3. DOMAIN log = 1 .. Len(log)
        BY <1>3
      <3> QED
        BY <3>1, <3>2, <3>3
    <2> DEFINE x == [log[n] EXCEPT !.is = is]
    <2>2. x \in [root : Dirs, is : Outcomes] /\ x.is = is /\ x.root = log[n].root
      BY <2>1
    <2>3. log' = [log EXCEPT ![n] = x]
      BY <1>2
    <2> HIDE DEF x
    <2> QED
      BY <1>3, <2>1, <2>2, <2>3
  <1>6. /\ Len(q) \in Nat \ {0}
        /\ Tail(q) = <<>> <=> Len(q) = 1
    BY <1>1, RingTail
  <1>7. 1 \in 1 .. Len(q)
    BY <1>6
  <1>8. t.pc \in Leaving /\ t.walk = <<>> /\ Len(q) = 1 /\ Tail(q) = <<>>
    <2>1. t.pc \notin Walking
      BY <1>1, <1>3, <1>7 DEF SlotSafe, Shape
    <2>2. t.pc \in Leaving
      BY <1>1, <1>3, <2>1 DEF SlotSafe, Walking, Leaving, ThreadPcs, ThRecs
    <2>3. Closed(q)
      BY <1>1, <1>3, <2>2 DEF SlotSafe
    <2>4. Len(q) = 1
      BY <1>1, <1>7, <2>3 DEF Closed
    <2> QED
      BY <1>3, <1>6, <2>2, <2>4 DEF SlotSafe, Shape, Leaving
  <1>9. Ahead(t, scans[s].root) = {} /\ FilesIn(q) = {} /\ FilesIn(<<>>) = {}
    <2>1. Ahead(t, scans[s].root) = {}
      BY <1>8, LeftEmpty DEF Ahead, Leaving
    <2>2. \A f : ~IsFile(q[1], f)
      BY <1>1 DEF IsFile
    <2>3. \A i \in 1 .. Len(q) : i = 1
      BY <1>8
    <2>4. 1 .. Len(<<>>) = {}
      OBVIOUS
    <2> QED
      BY <2>1, <2>2, <2>3, <2>4 DEF FilesIn
  <1>10. TypeOK'
    BY <1>1, <1>2, <1>4, <1>5 DEF ScanInv, TypeOK, ScanRecs, UiRecs
  <1>11. SlotSafe(s)'
    <2>1. Joining(s)'
      BY <1>4 DEF Joining
    <2>2. Shape(<<>>, t)
      BY <1>8 DEF Shape, Walking, Leaving
    <2>3. t.pc # "none"
      BY <1>8 DEF Leaving
    <2>4. /\ scans'[s].ring = <<>> /\ scans'[s].inUse /\ scans'[s].no = n
          /\ scans'[s].root = scans[s].root /\ th'[s] = t
          /\ n \in 1 .. Len(log') /\ log'[n].root = scans[s].root
      BY <1>1, <1>2, <1>3, <1>5, <1>8
    <2> QED
      BY <1>8, <2>1, <2>2, <2>3, <2>4 DEF SlotSafe
  <1>12. /\ Given(n) \subseteq FilesBelow[scans[s].root]
         /\ is = "complete" => Given(n) = FilesBelow[scans[s].root]
    <2>1. /\ Given(n) \subseteq FilesBelow[scans[s].root]
          /\ Promised(q, t) => FilesBelow[scans[s].root] \subseteq Given(n)
      BY <1>1, <1>3, <1>9 DEF Accounted, Content
    <2>2. is = "complete" => Promised(q, t)
      BY <1>7 DEF Promised
    <2> QED
      BY <2>1, <2>2
  <1>13. Accounted(s)'
    <2>1. ~Promised(<<>>, t)
      <3>1. 1 .. Len(<<>>) = {}
        OBVIOUS
      <3> QED
        BY <1>8, <3>1 DEF Promised, Leaving, Walking
    <2>2. Content(<<>>, t, scans[s].root) = {}
      BY <1>9 DEF Content
    <2>3. /\ scans'[s].ring = <<>> /\ scans'[s].no = n /\ th'[s] = t
          /\ scans'[s].root = scans[s].root
      BY <1>1, <1>2, <1>8
    <2>4. Given(scans[s].no)' = Given(n)
      BY <1>2, <2>3 DEF Given
    <2> QED
      BY <1>12, <2>1, <2>2, <2>3, <2>4 DEF Accounted
  <1>14. ASSUME NEW r \in Slots PROVE SlotSafe(r)' /\ Accounted(r)'
    <2>1. CASE r = s
      BY <1>11, <1>13, <2>1
    <2>2. CASE r # s
      <3>1. SlotSafe(r) /\ Accounted(r) /\ (Joining(r)' <=> Joining(r))
        BY <1>4, <2>2 DEF ScanInv, Joining
      <3>2. scans[r].inUse => scans[r].no \in 1 .. Len(log) /\ scans[r].no # n
        BY <1>1, <2>2, <3>1 DEF ScanInv, OwnScans, SlotSafe
      <3> QED
        BY <1>1, <1>2, <1>5, <2>2, <3>1, <3>2, SlotStays
    <2> QED
      BY <2>1, <2>2
  <1>15. OwnScans'
    <2>1. \A r \in Slots : /\ scans'[r].inUse => scans[r].inUse
                           /\ scans'[r].no = scans[r].no
      BY <1>1
    <2> QED
      BY <2>1 DEF ScanInv, OwnScans
  <1>16. GivenIsBelow' /\ AllGiven'
    <2>1. \A i : Given(i)' = Given(i)
      BY <1>2 DEF Given
    <2>2. \A i \in 1 .. Len(log) : log'[i].root = log[i].root
      BY <1>5
    <2>3. GivenIsBelow'
      BY <1>5, <2>1, <2>2 DEF ScanInv, GivenIsBelow
    <2>4. ASSUME NEW i \in 1 .. Len(log), log'[i].is = "complete"
          PROVE  Given(i) = FilesBelow[log[i].root]
      BY <1>3, <1>5, <1>12, <2>4 DEF ScanInv, AllGiven
    <2> QED
      BY <1>5, <2>1, <2>2, <2>3, <2>4 DEF AllGiven
  <1> QED
    BY <1>10, <1>14, <1>15, <1>16 DEF ScanInv

\* The slot is free, and so is its thread.
LEMMA JoinKeeps == ScanInv /\ Join => ScanInv'
  <1> SUFFICES ASSUME ScanInv, Join, NEW s, s = ui.at PROVE ScanInv'
    OBVIOUS
  <1>1. TypeOK /\ s \in Slots /\ ui.pc = "join"
    BY DEF ScanInv, TypeOK, Join
  <1>2. /\ scans' = [scans EXCEPT ![s] = Free] /\ th' = [th EXCEPT ![s] = NoThread]
        /\ count' = count /\ dropped' = dropped /\ ignored' = ignored
        /\ log' = log /\ queued' = queued /\ handed' = handed
        /\ ui' \in UiRecs /\ ui'.pc # "join"
    BY <1>1, NextSlotType DEF Join
  <1>3. Free \in ScanRecs /\ NoThread \in ThRecs /\ Len(Free.ring) <= RingCap
    <2>1. NoRoot \in Dirs /\ NoRoot \in Entries
      BY TreeAssumption DEF NoRoot, Entries
    <2>2. /\ <<>> \in Seq(Msgs) /\ <<>> \in Seq(Frames) /\ 0 \in 0 .. MaxStarts
          /\ Len(<<>>) = 0
      BY SizesAssumption
    <2> QED
      BY <2>1, <2>2, SizesAssumption DEF Free, NoThread, ScanRecs, ThRecs, ThreadPcs
  <1>4. ~Free.inUse /\ Free.ring = <<>> /\ NoThread.pc = "none" /\ NoThread.walk = <<>>
    BY DEF Free, NoThread
  <1> HIDE DEF Free, NoThread
  <1>5. /\ scans' \in [Slots -> ScanRecs] /\ th' \in [Slots -> ThRecs]
        /\ scans'[s] = Free /\ th'[s] = NoThread
        /\ \A r \in Slots \ {s} : scans'[r] = scans[r] /\ th'[r] = th[r]
    BY <1>1, <1>2, <1>3 DEF TypeOK, ScanRecs, ThRecs
  <1>6. TypeOK'
    BY <1>1, <1>2, <1>3, <1>5 DEF TypeOK, ScanRecs, ThRecs, UiRecs
  <1>7. SlotSafe(s)' /\ Accounted(s)'
    <2>1. Shape(<<>>, NoThread)
      BY <1>4 DEF Shape, Walking
    <2>2. ~Joining(s)'
      BY <1>2 DEF Joining
    <2> QED
      BY <1>4, <1>5, <2>1, <2>2 DEF SlotSafe, Accounted, Leaving
  <1>8. ASSUME NEW r \in Slots PROVE SlotSafe(r)' /\ Accounted(r)'
    <2>1. CASE r = s
      BY <1>7, <2>1
    <2>2. CASE r # s
      <3>1. SlotSafe(r) /\ Accounted(r) /\ (Joining(r)' <=> Joining(r))
        BY <1>2, <2>2 DEF ScanInv, Joining
      <3>2. scans[r].inUse => scans[r].no \in 1 .. Len(log')
        BY <1>2, <3>1 DEF SlotSafe
      <3> QED
        BY <1>2, <1>5, <2>2, <3>1, <3>2, SlotStays
    <2> QED
      BY <2>1, <2>2
  <1>9. OwnScans'
    BY <1>4, <1>5 DEF ScanInv, OwnScans
  <1>10. GivenIsBelow' /\ AllGiven'
    <2>1. \A i : Given(i)' = Given(i)
      BY <1>2 DEF Given
    <2> QED
      BY <1>2, <2>1 DEF ScanInv, GivenIsBelow, AllGiven
  <1> QED
    BY <1>6, <1>8, <1>9, <1>10 DEF ScanInv

\* A scan begins with everything below its folder ahead of it.
LEMMA StartScanKeeps == ASSUME ScanInv, NEW d \in Dirs \ Unsafe, StartScan(d) PROVE ScanInv'
  <1> SUFFICES ASSUME NEW n, n = Len(log) + 1 PROVE ScanInv'
    OBVIOUS
  <1> DEFINE a == [inUse |-> TRUE, root |-> d, no |-> n, ring |-> <<>>]
             u == [NoThread EXCEPT !.pc = "connect"]
             x == [root |-> d, is |-> "scanning"]
  <1>1. PICK s \in Slots : /\ ~scans[s].inUse /\ scans' = [scans EXCEPT ![s] = a]
                           /\ th' = [th EXCEPT ![s] = u]
    BY DEF StartScan
  <1>2. /\ ui.pc = "input" /\ ui' = ui /\ count' = count /\ dropped' = dropped
        /\ ignored' = ignored /\ log' = Append(log, x)
        /\ queued' = Append(queued, <<>>) /\ handed' = Append(handed, <<>>)
        /\ Len(log) < MaxStarts
    BY DEF StartScan
  <1>3. /\ TypeOK /\ log \in Seq([root : Dirs, is : Outcomes]) /\ handed \in Seq(Seq(Files))
        /\ Len(handed) = Len(log) /\ Len(log) \in Nat
        /\ queued \in Seq(Seq(Paths)) /\ Len(queued) = Len(log)
    BY DEF ScanInv, TypeOK
  <1>4. n \in Nat /\ n \in 1 .. MaxStarts /\ Len(log) = n - 1 /\ n \notin 1 .. Len(log)
    BY <1>2, <1>3, SizesAssumption
  <1>5. /\ log' \in Seq([root : Dirs, is : Outcomes]) /\ Len(log') = n
        /\ log'[n] = x /\ \A i \in 1 .. Len(log) : log'[i] = log[i]
    <2>1. x \in [root : Dirs, is : Outcomes]
      BY DEF Outcomes
    <2> HIDE DEF x
    <2> QED
      BY <1>2, <1>3, <2>1, AppendProperties
  <1>6. /\ handed' \in Seq(Seq(Files)) /\ Len(handed') = n
        /\ handed'[n] = <<>> /\ \A i \in 1 .. Len(log) : handed'[i] = handed[i]
        /\ queued' \in Seq(Seq(Paths)) /\ Len(queued') = n
    <2>1. <<>> \in Seq(Files) /\ <<>> \in Seq(Paths)
      OBVIOUS
    <2> QED
      BY <1>2, <1>3, <2>1, AppendProperties
  <1>7. /\ a \in ScanRecs /\ a.inUse /\ a.ring = <<>> /\ a.no = n /\ a.root = d
        /\ u \in ThRecs /\ u.pc = "connect" /\ u.walk = <<>>
        /\ x.root = d /\ x.is = "scanning"
    <2>1. NoRoot \in Entries
      BY TreeAssumption DEF NoRoot, Entries
    <2>2. <<>> \in Seq(Msgs) /\ <<>> \in Seq(Frames) /\ n \in 0 .. MaxStarts
      BY <1>4
    <2> QED
      BY <2>1, <2>2 DEF NoThread, ScanRecs, ThRecs, ThreadPcs
  <1> HIDE DEF a, u, x
  <1>8. /\ scans' \in [Slots -> ScanRecs] /\ th' \in [Slots -> ThRecs]
        /\ scans'[s] = a /\ th'[s] = u
        /\ \A r \in Slots \ {s} : scans'[r] = scans[r] /\ th'[r] = th[r]
    BY <1>1, <1>3, <1>7 DEF TypeOK, ScanRecs, ThRecs
  <1>9. TypeOK'
    <2>1. ASSUME NEW r \in Slots PROVE Len(scans'[r].ring) <= RingCap
      <3>1. Len(<<>>) = 0
        OBVIOUS
      <3>2. CASE r = s
        BY <1>7, <1>8, <3>1, <3>2, SizesAssumption
      <3>3. CASE r # s
        BY <1>3, <1>8, <3>3 DEF TypeOK
      <3> QED
        BY <3>2, <3>3
    <2>2. n <= MaxStarts
      BY <1>4
    <2> QED
      BY <1>2, <1>3, <1>5, <1>6, <1>8, <2>1, <2>2 DEF TypeOK, ScanRecs, ThRecs
  <1>10. Given(n)' = {} /\ \A i \in 1 .. Len(log) : Given(i)' = Given(i)
    <2>1. 1 .. Len(<<>>) = {}
      OBVIOUS
    <2>2. Given(n)' = {handed'[n][j] : j \in 1 .. Len(handed'[n])}
      BY <1>2 DEF Given
    <2> QED
      BY <1>6, <2>1, <2>2 DEF Given
  <1>11. SlotSafe(s)' /\ Accounted(s)'
    <2>1. Shape(<<>>, u)
      <3>1. 1 .. Len(<<>>) = {}
        OBVIOUS
      <3> QED
        BY <1>7, <3>1 DEF Shape
    <2>2. Content(<<>>, u, d) = FilesBelow[d]
      <3>1. FilesIn(<<>>) = {}
        <4>1. 1 .. Len(<<>>) = {}
          OBVIOUS
        <4> QED
          BY <4>1 DEF FilesIn
      <3> QED
        BY <1>7, <3>1, LeftEmpty, BelowFiles DEF Content, Ahead
    <2>3. n \in 1 .. Len(log') /\ ~Joining(s)'
      BY <1>2, <1>4, <1>5 DEF Joining
    <2>4. SlotSafe(s)'
      BY <1>5, <1>7, <1>8, <2>1, <2>3 DEF SlotSafe, Leaving
    <2>5. Accounted(s)'
      BY <1>6, <1>7, <1>8, <1>10, <2>2 DEF Accounted, Given
    <2> QED
      BY <2>4, <2>5
  <1>12. ASSUME NEW r \in Slots PROVE SlotSafe(r)' /\ Accounted(r)'
    <2>1. CASE r = s
      BY <1>11, <2>1
    <2>2. CASE r # s
      <3>1. SlotSafe(r) /\ Accounted(r) /\ (Joining(r)' <=> Joining(r))
        BY <1>2 DEF ScanInv, Joining
      <3>2. scans[r].inUse => scans[r].no \in 1 .. Len(log)
        BY <3>1 DEF SlotSafe
      <3>3. 1 .. Len(log) \subseteq 1 .. Len(log')
        BY <1>4, <1>5
      <3> QED
        BY <1>5, <1>6, <1>8, <2>2, <3>1, <3>2, <3>3, SlotStays
    <2> QED
      BY <2>1, <2>2
  <1>13. OwnScans'
    <2>1. \A r \in Slots : scans[r].inUse => scans[r].no # n
      BY <1>4 DEF ScanInv, SlotSafe
    <2> QED
      BY <1>7, <1>8, <2>1 DEF ScanInv, OwnScans
  <1>14. GivenIsBelow' /\ AllGiven'
    <2>1. \A i \in 1 .. Len(log') : i = n \/ i \in 1 .. Len(log)
      BY <1>4, <1>5
    <2>2. log'[n].is # "complete" /\ Given(n)' = {}
      BY <1>5, <1>7, <1>10
    <2>3. ASSUME NEW i \in 1 .. Len(log')
          PROVE  /\ Given(i)' \subseteq FilesBelow[log'[i].root]
                 /\ log'[i].is = "complete" => Given(i)' = FilesBelow[log'[i].root]
      <3>1. CASE i = n
        BY <1>6, <2>2, <3>1, SMTT(30) DEF Given
      <3>2. CASE i \in 1 .. Len(log)
        BY <1>5, <1>10, <3>2 DEF ScanInv, GivenIsBelow, AllGiven
      <3> QED
        BY <2>1, <3>1, <3>2
    <2> QED
      BY <2>3 DEF GivenIsBelow, AllGiven
  <1> QED
    BY <1>9, <1>12, <1>13, <1>14 DEF ScanInv

----------------------------------------------------------------------------
(* The invariant holds, and what follows from it.                          *)

LEMMA InitScanInv == Init => ScanInv
  <1> SUFFICES ASSUME Init PROVE ScanInv
    OBVIOUS
  <1>1. /\ <<>> \in Seq(Msgs) /\ <<>> \in Seq(Frames) /\ <<>> \in Seq(Seq(Files))
        /\ <<>> \in Seq(Seq(Paths))
        /\ <<>> \in Seq([root : Dirs, is : Outcomes]) /\ Len(<<>>) = 0 /\ 1 .. 0 = {}
        /\ NoRoot \in Dirs /\ NoRoot \in Entries /\ 0 \in 0 .. MaxStarts /\ 1 \in Slots
    BY TreeAssumption, SizesAssumption DEF NoRoot, Entries, Slots
  <1>2. TypeOK
    <2>1. Free \in ScanRecs /\ Free.ring = <<>> /\ NoThread \in ThRecs
      BY <1>1 DEF Free, NoThread, ScanRecs, ThRecs, ThreadPcs
    <2> HIDE DEF Free, NoThread
    <2>2. scans \in [Slots -> ScanRecs] /\ th \in [Slots -> ThRecs]
      BY <2>1 DEF Init
    <2>3. \A s \in Slots : Len(scans[s].ring) <= RingCap
      BY <1>1, <2>1, SizesAssumption DEF Init
    <2>4. ui \in UiRecs /\ count \in 0 .. MaxOps
      BY <1>1, SizesAssumption DEF Init, UiRecs
    <2>5. /\ log \in Seq([root : Dirs, is : Outcomes]) /\ Len(log) <= MaxStarts
          /\ queued \in Seq(Seq(Paths)) /\ Len(queued) = Len(log)
          /\ handed \in Seq(Seq(Files)) /\ Len(handed) = Len(log)
      BY <1>1, SizesAssumption DEF Init
    <2> QED
      BY <2>2, <2>3, <2>4, <2>5 DEF Init, TypeOK, ScanRecs, ThRecs, UiRecs
  <1>3. ASSUME NEW s \in Slots PROVE SlotSafe(s) /\ Accounted(s)
    BY <1>1 DEF Init, SlotSafe, Accounted, Shape, Joining, Free, NoThread, Walking, Leaving
  <1> QED
    BY <1>1, <1>2, <1>3 DEF ScanInv, Init, OwnScans, Free, GivenIsBelow, AllGiven

LEMMA NextScanInv == ScanInv /\ [Next]_vars => ScanInv'
  <1> SUFFICES ASSUME ScanInv, [Next]_vars PROVE ScanInv'
    OBVIOUS
  <1>1. CASE FrameStep
    BY <1>1, OtherStepsKeep, PollFileKeeps, PollTerminalKeeps, JoinKeeps DEF FrameStep
  <1>2. CASE UserStep
    BY <1>2, OtherStepsKeep, StartScanKeeps DEF UserStep
  <1>3. ASSUME NEW s \in Slots, ThreadStep(s) PROVE ScanInv'
    BY <1>3, ThreadKeeps
  <1>4. CASE UNCHANGED vars
    <2>1. /\ scans' = scans /\ th' = th /\ ui' = ui /\ count' = count
          /\ dropped' = dropped /\ ignored' = ignored /\ log' = log /\ queued' = queued
          /\ handed' = handed
      BY <1>4 DEF vars
    <2>2. TypeOK'
      BY <2>1 DEF ScanInv, TypeOK
    <2>3. ASSUME NEW t \in Slots PROVE SlotSafe(t)' /\ Accounted(t)'
      <3>1. SlotSafe(t) /\ Accounted(t) /\ (Joining(t)' <=> Joining(t))
        BY <2>1 DEF ScanInv, Joining
      <3>2. scans[t].inUse => scans[t].no \in 1 .. Len(log')
        BY <2>1, <3>1 DEF SlotSafe
      <3> QED
        BY <2>1, <3>1, <3>2, SlotStays
    <2>4. \A i : Given(i)' = Given(i)
      BY <2>1 DEF Given
    <2> QED
      BY <2>1, <2>2, <2>3, <2>4 DEF ScanInv, OwnScans, GivenIsBelow, AllGiven
  <1> QED
    BY <1>1, <1>2, <1>3, <1>4 DEF Next

LEMMA AlwaysScanInv == Spec => []ScanInv
  BY InitScanInv, NextScanInv, PTL DEF Spec

\* Every variable of the folder scans has its type, and no ring holds more than it has
\* room for.
THEOREM ScanTypeCorrect == Spec => []TypeOK
  <1>1. ScanInv => TypeOK
    BY DEF ScanInv
  <1> QED
    BY <1>1, AlwaysScanInv, PTL

\* A free slot has no thread, so xfer_scan_start never launches a second one into it; and
\* xfer_scan_poll_all joins only a thread that has sent its terminal message, with the
\* ring it releases empty.
THEOREM SlotsStayQuiet == Spec => []SlotsAreQuiet
  <1>1. ASSUME ScanInv PROVE SlotsAreQuiet
    <2>1. \A s \in Slots : scans[s].inUse \/ th[s].pc = "none"
      BY <1>1 DEF ScanInv, SlotSafe
    <2>2. ui.pc = "join" => /\ th[ui.at].pc \in {"close", "exited"}
                            /\ scans[ui.at].ring = <<>>
      BY <1>1 DEF ScanInv, TypeOK, SlotSafe, Joining, Leaving
    <2> QED
      BY <2>1, <2>2 DEF SlotsAreQuiet
  <1> QED
    BY <1>1, AlwaysScanInv, PTL

----------------------------------------------------------------------------
(* Each file once: what is handed over, what is in the ring and what the   *)
(* walk still has to tell have no file in common, nor have any two parts   *)
(* of what the walk still has to tell.                                     *)

\* Who reaches y other than by being y reaches a directory that holds y.
LEMMA LastStep ==
  ASSUME NEW x \in Entries, NEW y, Reaches(x, y), y # x
  PROVE  \E c \in Dirs : Reaches(x, c) /\ y \in Tree[c] \ Unsafe
  <1> DEFINE R == {z \in Entries : z = x \/ \E c \in Dirs : Reaches(x, c) /\ z \in Tree[c] \ Unsafe}
  <1>1. x \in R /\ R \in SUBSET Entries
    OBVIOUS
  <1>2. Reaches(x, x)
    BY DEF Reaches
  <1>3. ASSUME NEW c \in Dirs \cap R, NEW z \in Tree[c] \ Unsafe PROVE z \in R
    <2>1. z \in Entries
      BY TreeAssumption
    <2>2. Reaches(x, c)
      <3>1. CASE c = x
        BY <1>2, <3>1
      <3>2. CASE c # x
        <4>1. PICK b \in Dirs : Reaches(x, b) /\ c \in Tree[b] \ Unsafe
          BY <3>2
        <4> QED
          BY <4>1 DEF Reaches
      <3> QED
        BY <3>1, <3>2
    <2> QED
      BY <2>1, <2>2
  <1> HIDE DEF R
  <1>4. y \in R
    BY <1>1, <1>3 DEF Reaches
  <1> QED
    BY <1>4 DEF R

\* Two entries of a directory have no file below them in common.
LEMMA SiblingsApart ==
  ASSUME NEW d \in Dirs, NEW x \in Tree[d] \ Unsafe, NEW y \in Tree[d] \ Unsafe, x # y
  PROVE  Below(x) \cap Below(y) = {}
  <1>1. Tree[d] \subseteq Entries /\ x \in Entries /\ y \in Entries
    BY TreeAssumption
  <1>2. ASSUME NEW a \in Tree[d] \ Unsafe, NEW b \in Tree[d] \ Unsafe, a # b, Reaches(a, b)
        PROVE  FALSE
    <2>1. PICK c \in Dirs : Reaches(a, c) /\ b \in Tree[c] \ Unsafe
      BY <1>1, <1>2, LastStep
    <2>2. c = d
      BY <1>2, <2>1, PathsAssumption
    <2> QED
      BY <1>2, <2>1, <2>2, PathsAssumption
  <1> DEFINE R == {z \in Entries : Reaches(x, z) /\ ~Reaches(y, z)}
  <1>3. x \in R /\ R \in SUBSET Entries
    <2>1. Reaches(x, x)
      BY DEF Reaches
    <2> QED
      BY <1>1, <1>2, <2>1
  <1>4. ASSUME NEW c \in Dirs \cap R, NEW z \in Tree[c] \ Unsafe PROVE z \in R
    <2>1. z \in Entries
      BY TreeAssumption
    <2>2. Reaches(x, z)
      BY <1>4 DEF Reaches
    <2>3. ASSUME Reaches(y, z) PROVE FALSE
      <3>1. CASE z = y
        BY <1>2, <2>2, <3>1
      <3>2. CASE z # y
        <4>1. PICK b \in Dirs : Reaches(y, b) /\ z \in Tree[b] \ Unsafe
          BY <1>1, <2>3, <3>2, LastStep
        <4>2. b = c
          BY <4>1, PathsAssumption
        <4> QED
          BY <4>1, <4>2
      <3> QED
        BY <3>1, <3>2
    <2> QED
      BY <2>1, <2>2, <2>3
  <1> HIDE DEF R
  <1>5. \A f : Reaches(x, f) => f \in R
    BY <1>3, <1>4 DEF Reaches
  <1> QED
    BY <1>5 DEF Below, R

\* Nothing in one frame is below two of its entries, nor in two frames.
ApartIn(F) == \A x, y \in F \ Unsafe : x # y => Below(x) \cap Below(y) = {}
Apart(w) == /\ \A a \in 1 .. Len(w) : ApartIn(w[a])
            /\ \A a, b \in 1 .. Len(w) : a # b => Under(w[a]) \cap Under(w[b]) = {}
Neat(t) == /\ Apart(t.walk)
           /\ t.pc \in {"opendir", "send"} => Below(t.at) \cap Under(Left(t.walk)) = {}

Distinct(h) == \A j, k \in 1 .. Len(h) : h[j] = h[k] => j = k
\* No two messages are about the same file.
OneEach(q) ==
  \A f : \A j, k \in 1 .. Len(q) : IsFile(q[j], f) /\ IsFile(q[k], f) => j = k

\* g is what has been handed over.
Once(g, q, t, root) ==
  /\ OneEach(q) /\ Neat(t)
  /\ g \cap FilesIn(q) = {}
  /\ (g \cup FilesIn(q)) \cap Ahead(t, root) = {}

LEMMA UnderBelow ==
  ASSUME NEW E
  PROVE  \A f : f \in Under(E) <=> \E e \in E \ Unsafe : f \in Below(e)
  BY DEF Under, Below

LEMMA UnderLeft ==
  ASSUME NEW w, NEW f
  PROVE  f \in Under(Left(w)) <=> \E i \in 1 .. Len(w) : f \in Under(w[i])
  BY DEF Under, Left

LEMMA ApartEmpty == Apart(<<>>) /\ Under(Left(<<>>)) = {}
  <1>1. 1 .. Len(<<>>) = {}
    OBVIOUS
  <1> QED
    BY <1>1, LeftEmpty DEF Apart

LEMMA ApartCons ==
  ASSUME NEW S, NEW F \in S, NEW w \in Seq(S),
         Apart(w), ApartIn(F), Under(F) \cap Under(Left(w)) = {}
  PROVE  Apart(<<F>> \o w)
  <1> DEFINE v == <<F>> \o w
  <1>1. /\ Len(v) = Len(w) + 1 /\ Len(w) \in Nat
        /\ v[1] = F /\ \A i \in 1 .. Len(w) : v[i + 1] = w[i]
    <2>1. <<F>> \in Seq(S) /\ Len(<<F>>) = 1
      OBVIOUS
    <2> QED
      BY <2>1
  <1> HIDE DEF v
  <1>2. \A i \in 1 .. Len(v) : i = 1 \/ (i - 1 \in 1 .. Len(w) /\ v[i] = w[i - 1])
    BY <1>1
  <1>3. \A i \in 1 .. Len(w) : Under(F) \cap Under(w[i]) = {}
    BY UnderLeft
  <1>4. \A a \in 1 .. Len(v) : ApartIn(v[a])
    BY <1>1, <1>2 DEF Apart
  <1>5. ASSUME NEW a \in 1 .. Len(v), NEW b \in 1 .. Len(v), a # b
        PROVE  Under(v[a]) \cap Under(v[b]) = {}
    <2>1. CASE a = 1
      BY <1>1, <1>2, <1>3, <1>5, <2>1
    <2>2. CASE b = 1
      BY <1>1, <1>2, <1>3, <1>5, <2>2
    <2>3. CASE a # 1 /\ b # 1
      <3>1. /\ a - 1 \in 1 .. Len(w) /\ b - 1 \in 1 .. Len(w) /\ a - 1 # b - 1
            /\ v[a] = w[a - 1] /\ v[b] = w[b - 1]
        BY <1>1, <1>2, <1>5, <2>3
      <3> QED
        BY <3>1 DEF Apart
    <2> QED
      BY <2>1, <2>2, <2>3
  <1> QED
    BY <1>4, <1>5 DEF Apart, v

LEMMA ApartTail ==
  ASSUME NEW S, NEW w \in Seq(S), w # <<>>, Apart(w)
  PROVE  /\ Apart(Tail(w)) /\ ApartIn(w[1])
         /\ Under(w[1]) \cap Under(Left(Tail(w))) = {}
  <1>1. /\ Len(w) \in Nat \ {0} /\ Len(Tail(w)) = Len(w) - 1
        /\ \A i \in 1 .. Len(w) - 1 : Tail(w)[i] = w[i + 1]
    BY HeadTailProperties, EmptySeq
  <1>2. 1 \in 1 .. Len(w) /\ \A i \in 1 .. Len(Tail(w)) : /\ i + 1 \in 1 .. Len(w) /\ i + 1 # 1
                                                          /\ Tail(w)[i] = w[i + 1]
    BY <1>1
  <1>3. \A i \in 1 .. Len(Tail(w)) : Under(w[1]) \cap Under(Tail(w)[i]) = {}
    BY <1>2 DEF Apart
  <1>4. Under(w[1]) \cap Under(Left(Tail(w))) = {}
    BY <1>3, UnderLeft
  <1>5. \A a \in 1 .. Len(Tail(w)) : ApartIn(Tail(w)[a])
    BY <1>2 DEF Apart
  <1>6. ASSUME NEW a \in 1 .. Len(Tail(w)), NEW b \in 1 .. Len(Tail(w)), a # b
        PROVE  Under(Tail(w)[a]) \cap Under(Tail(w)[b]) = {}
    <2>1. a + 1 # b + 1
      BY <1>6
    <2> QED
      BY <2>1, <1>2 DEF Apart
  <1> QED
    BY <1>2, <1>4, <1>5, <1>6 DEF Apart

LEMMA DirApart == ASSUME NEW d \in Dirs PROVE ApartIn(Tree[d])
  BY SiblingsApart DEF ApartIn

\* An entry less.
LEMMA EntryApart ==
  ASSUME NEW F, ApartIn(F), NEW e \in F
  PROVE  /\ ApartIn(F \ {e}) /\ Under(F \ {e}) \subseteq Under(F)
         /\ e \notin Unsafe => Below(e) \subseteq Under(F) /\ Below(e) \cap Under(F \ {e}) = {}
  <1>1. ApartIn(F \ {e}) /\ Under(F \ {e}) \subseteq Under(F)
    BY DEF ApartIn, Under
  <1>2. e \notin Unsafe => Below(e) \subseteq Under(F)
    BY UnderBelow
  <1>3. ASSUME e \notin Unsafe, NEW f, f \in Below(e), f \in Under(F \ {e}) PROVE FALSE
    <2>1. PICK x \in (F \ {e}) \ Unsafe : f \in Below(x)
      BY <1>3, UnderBelow
    <2> QED
      BY <1>3, <2>1 DEF ApartIn
  <1> QED
    BY <1>1, <1>2, <1>3

LEMMA GoesTo ==
  ASSUME TypeOK, NEW s \in Slots, NEW p, NEW w, NEW a, Goes(s, p, w, a)
  PROVE  th'[s].pc = p /\ th'[s].walk = w /\ th'[s].at = a
  BY DEF TypeOK, Goes

\* It tells nothing yet.
LEMMA QuietOnce ==
  ASSUME NEW g, NEW q, NEW t, NEW root, NEW u, Once(g, q, t, root), Neat(u),
         Ahead(u, root) \subseteq Ahead(t, root)
  PROVE  Once(g, q, u, root)
  BY DEF Once

LEMMA NeatEmpty == ASSUME NEW t, t.walk = <<>> PROVE Neat(t)
  BY ApartEmpty DEF Neat

\* No step of a scan thread but SendFile and SendTerminal writes to its ring.
LEMMA ThreadNeat ==
  ASSUME TypeOK, NEW s \in Slots, Shape(scans[s].ring, th[s]), Neat(th[s]),
         \/ Connect(s) \/ OpenDir(s) \/ ReadEntry(s) \/ ReadError(s) \/ EndDir(s) \/ Close(s)
  PROVE  Neat(th'[s]) /\ scans' = scans
  <1> SUFFICES ASSUME NEW t, t = th[s], NEW w, w = t.walk PROVE Neat(th'[s]) /\ scans' = scans
    OBVIOUS
  <1>1. /\ t \in ThRecs /\ w \in Seq(Frames) /\ Apart(w) /\ Shape(scans[s].ring, t)
        /\ t.pc \in {"opendir", "send"} => Below(t.at) \cap Under(Left(w)) = {}
    BY DEF TypeOK, ThRecs, Neat
  <1>2. ASSUME NEW p, NEW a, Goes(s, p, <<>>, a) PROVE Neat(th'[s])
    <2>1. th'[s].walk = <<>>
      BY <1>2, GoesTo
    <2> QED
      BY <2>1, NeatEmpty
  <1>3. CASE Connect(s)
    BY <1>2, <1>3 DEF Connect
  <1>4. CASE OpenDir(s)
    <2>1. CASE Goes(s, "fail", <<>>, NoRoot)
      BY <1>2, <1>4, <2>1 DEF OpenDir
    <2>2. CASE Goes(s, "read", <<Tree[t.at]>> \o w, NoRoot)
      <3>1. th'[s].walk = <<Tree[t.at]>> \o w /\ th'[s].pc = "read"
        BY <1>1, <2>2, GoesTo
      <3>2. t.pc = "opendir" /\ t.at \in Dirs
        BY <1>1, <1>4 DEF OpenDir, Shape
      <3>3. Tree[t.at] \in Frames /\ ApartIn(Tree[t.at])
        BY <3>2, TreeAssumption, DirApart DEF Frames
      <3>4. Under(Tree[t.at]) \cap Under(Left(w)) = {}
        BY <1>1, <3>2, BelowDir
      <3>5. Apart(<<Tree[t.at]>> \o w)
        BY <1>1, <3>3, <3>4, ApartCons
      <3> QED
        BY <1>4, <3>1, <3>5 DEF Neat, OpenDir
    <2> QED
      BY <1>1, <1>4, <2>1, <2>2 DEF OpenDir
  <1>5. CASE ReadEntry(s)
    <2>1. t.pc = "read" /\ w # <<>>
      BY <1>1, <1>5 DEF ReadEntry, Shape
    <2>2. /\ Tail(w) \in Seq(Frames) /\ w[1] \in Frames /\ Apart(Tail(w)) /\ ApartIn(w[1])
          /\ Under(w[1]) \cap Under(Left(Tail(w))) = {}
      BY <1>1, <2>1, LeftTail, ApartTail
    <2>3. PICK e \in w[1] :
            \/ e \in Unsafe /\ Goes(s, "read", <<w[1] \ {e}>> \o Tail(w), NoRoot)
            \/ e \in Dirs \ Unsafe /\ Goes(s, "opendir", <<w[1] \ {e}>> \o Tail(w), e)
            \/ e \in Files \ Unsafe /\ Goes(s, "send", <<w[1] \ {e}>> \o Tail(w), e)
      BY <1>1, <1>5 DEF ReadEntry
    <2> DEFINE F == w[1] \ {e}
               v == <<F>> \o Tail(w)
    <2>4. /\ F \in Frames /\ ApartIn(F) /\ Under(F) \subseteq Under(w[1])
          /\ e \notin Unsafe => Below(e) \subseteq Under(w[1]) /\ Below(e) \cap Under(F) = {}
      BY <2>2, EntryApart DEF Frames
    <2>5. Under(F) \cap Under(Left(Tail(w))) = {}
      BY <2>2, <2>4
    <2>6. Apart(v) /\ Left(v) = F \cup Left(Tail(w))
      <3> HIDE DEF F
      <3>1. Apart(<<F>> \o Tail(w))
        BY <2>2, <2>4, <2>5, ApartCons
      <3>2. Left(<<F>> \o Tail(w)) = F \cup Left(Tail(w))
        <4> DEFINE x == Tail(w)
        <4>1. x \in Seq(Frames) /\ F \in Frames
          BY <2>2, <2>4
        <4> HIDE DEF x
        <4>2. Left(<<F>> \o x) = F \cup Left(x)
          BY <4>1, LeftCons
        <4> QED
          BY <4>2 DEF x
      <3> QED
        BY <3>1, <3>2
    <2>7. Under(Left(v)) = Under(F) \cup Under(Left(Tail(w)))
      <3> HIDE DEF F, v
      <3> QED
        BY <2>6, UnderUnion
    <2>8. e \notin Unsafe => Below(e) \cap Under(Left(v)) = {}
      BY <2>2, <2>4, <2>7
    <2>9. /\ th'[s].walk = v
          /\ \/ th'[s].pc = "read"
             \/ th'[s].at = e /\ e \notin Unsafe
      BY <2>3, GoesTo, ZenonT(30)
    <2> HIDE DEF v
    <2> QED
      BY <1>5, <2>6, <2>8, <2>9 DEF Neat, ReadEntry
  <1>6. CASE ReadError(s)
    BY <1>2, <1>6 DEF ReadError
  <1>7. CASE EndDir(s)
    <2>1. t.pc = "read" /\ w # <<>>
      BY <1>1, <1>7 DEF EndDir, Shape
    <2>2. Apart(Tail(w))
      BY <1>1, <2>1, ApartTail
    <2>3. th'[s].walk = Tail(w) /\ th'[s].pc \in {"done", "read"}
      BY <1>1, <1>7, GoesTo DEF EndDir
    <2> QED
      BY <1>7, <2>2, <2>3 DEF Neat, EndDir
  <1>8. CASE Close(s)
    BY <1>2, <1>8 DEF Close
  <1> QED
    BY <1>3, <1>4, <1>5, <1>6, <1>7, <1>8

\* A ring of files goes on being one without repetition when the new file is not in it.
LEMMA OneEachAppend ==
  ASSUME NEW q \in Seq(Msgs), NEW m \in Msgs, OneEach(q),
         \A f : IsFile(m, f) => \A i \in 1 .. Len(q) : ~IsFile(q[i], f)
  PROVE  OneEach(Append(q, m))
  <1> DEFINE r == Append(q, m)
  <1>1. /\ Len(r) = Len(q) + 1 /\ Len(q) \in Nat
        /\ r[Len(q) + 1] = m /\ \A i \in 1 .. Len(q) : r[i] = q[i]
    BY RingAppend
  <1> HIDE DEF r
  <1>2. \A i \in 1 .. Len(r) : i = Len(q) + 1 \/ i \in 1 .. Len(q)
    BY <1>1
  <1> QED
    BY <1>1, <1>2 DEF OneEach, r

LEMMA OneEachTail ==
  ASSUME NEW q \in Seq(Msgs), q # <<>>, OneEach(q)
  PROVE  OneEach(Tail(q))
  <1>1. /\ Len(q) \in Nat \ {0} /\ Len(Tail(q)) = Len(q) - 1
        /\ \A i \in 1 .. Len(q) - 1 : Tail(q)[i] = q[i + 1]
    BY RingTail
  <1>2. SUFFICES ASSUME NEW f, NEW j \in 1 .. Len(Tail(q)), NEW k \in 1 .. Len(Tail(q)),
                        IsFile(Tail(q)[j], f), IsFile(Tail(q)[k], f)
                 PROVE  j = k
    BY DEF OneEach
  <1>3. j + 1 \in 1 .. Len(q) /\ k + 1 \in 1 .. Len(q) /\ (j + 1 = k + 1 => j = k)
    BY <1>1
  <1>4. IsFile(q[j + 1], f) /\ IsFile(q[k + 1], f)
    BY <1>1, <1>2
  <1> QED
    BY <1>3, <1>4 DEF OneEach

LEMMA SendFileOnce ==
  ASSUME TypeOK, NEW s \in Slots, SendFile(s), Shape(scans[s].ring, th[s]),
         NEW g, Once(g, scans[s].ring, th[s], scans[s].root)
  PROVE  Once(g, scans'[s].ring, th'[s], scans[s].root)
  <1> SUFFICES ASSUME NEW q, q = scans[s].ring, NEW t, t = th[s], NEW root, root = scans[s].root,
                      NEW f, f = t.at, NEW m, m = FileMsg(s, f)
               PROVE  Once(g, scans'[s].ring, th'[s], root)
    OBVIOUS
  <1>1. q \in Seq(Msgs) /\ t.pc = "send" /\ f \in Files \ Unsafe /\ Once(g, q, t, root)
    BY DEF TypeOK, SendFile, Shape
  <1>2. m \in Msgs /\ \A x : IsFile(m, x) <=> x = f
    <2>1. scans[s].root \in Dirs
      BY DEF TypeOK
    <2>2. m \in Msgs /\ IsFile(m, f)
      BY <1>1, <2>1, FileMsgType
    <2> QED
      BY <2>2 DEF IsFile
  <1>3. scans'[s].ring = Append(q, m)
    BY DEF TypeOK, SendFile, Write
  <1>4. th'[s].pc = "read" /\ th'[s].walk = t.walk
    BY GoesTo DEF SendFile
  <1>5. Below(f) = {f} /\ Ahead(t, root) = Under(Left(t.walk)) \cup {f}
    BY <1>1, BelowFile DEF Ahead
  <1>6. f \notin g /\ f \notin FilesIn(q) /\ f \notin Under(Left(t.walk))
    BY <1>1, <1>5 DEF Once, Neat
  <1>7. OneEach(Append(q, m))
    <2>1. \A x : IsFile(m, x) => \A i \in 1 .. Len(q) : ~IsFile(q[i], x)
      BY <1>1, <1>2, <1>6 DEF FilesIn
    <2> QED
      BY <1>1, <1>2, <2>1, OneEachAppend DEF Once
  <1>8. FilesIn(Append(q, m)) = FilesIn(q) \cup {f}
    <2>1. {x \in Files : IsFile(m, x)} = {f}
      BY <1>1, <1>2
    <2>2. FilesIn(Append(q, m)) = FilesIn(q) \cup {x \in Files : IsFile(m, x)}
      BY <1>1, <1>2, RingAppend
    <2> QED
      BY <2>1, <2>2
  <1>9. Ahead(th'[s], root) = Under(Left(t.walk))
    BY <1>4 DEF Ahead
  <1>10. Neat(th'[s])
    BY <1>1, <1>4 DEF Once, Neat
  <1> QED
    BY <1>1, <1>3, <1>5, <1>6, <1>7, <1>8, <1>9, <1>10 DEF Once

LEMMA SendTerminalOnce ==
  ASSUME TypeOK, NEW s \in Slots, SendTerminal(s), Shape(scans[s].ring, th[s]),
         NEW g, Once(g, scans[s].ring, th[s], scans[s].root)
  PROVE  Once(g, scans'[s].ring, th'[s], scans[s].root)
  <1> SUFFICES ASSUME NEW q, q = scans[s].ring, NEW t, t = th[s], NEW root, root = scans[s].root,
                      NEW m, m = [kind |-> IF t.pc = "done" THEN "Done" ELSE "Failed"]
               PROVE  Once(g, scans'[s].ring, th'[s], root)
    OBVIOUS
  <1>1. q \in Seq(Msgs) /\ \A i \in 1 .. Len(q) : q[i].kind = "File"
    BY DEF TypeOK, SendTerminal, Shape, Walking
  <1>2. m \in Msgs /\ m.kind # "File" /\ \A f : ~IsFile(m, f)
    BY DEF Msgs, IsFile
  <1>3. scans'[s].ring = Append(q, m)
    BY DEF TypeOK, SendTerminal, Write
  <1>4. th'[s].pc = "close" /\ th'[s].walk = <<>>
    BY GoesTo DEF SendTerminal
  <1>5. OneEach(Append(q, m))
    BY <1>1, <1>2, OneEachAppend DEF Once
  <1>6. FilesIn(Append(q, m)) = FilesIn(q)
    <2>1. FilesIn(Append(q, m)) = FilesIn(q) \cup {x \in Files : IsFile(m, x)}
      BY <1>1, <1>2, RingAppend
    <2> QED
      BY <1>2, <2>1
  <1>7. Ahead(th'[s], root) = {} /\ Neat(th'[s])
    BY <1>4, LeftEmpty, NeatEmpty DEF Ahead
  <1> QED
    BY <1>3, <1>5, <1>6, <1>7 DEF Once

LEMMA ThreadOnce ==
  ASSUME TypeOK, NEW s \in Slots, ThreadStep(s), Shape(scans[s].ring, th[s]),
         NEW g, Once(g, scans[s].ring, th[s], scans[s].root)
  PROVE  Once(g, scans'[s].ring, th'[s], scans[s].root)
  <1>1. CASE SendFile(s)
    BY <1>1, SendFileOnce
  <1>2. CASE SendTerminal(s)
    BY <1>2, SendTerminalOnce
  <1>3. CASE Connect(s) \/ OpenDir(s) \/ ReadEntry(s) \/ ReadError(s) \/ EndDir(s) \/ Close(s)
    <2>1. Neat(th'[s]) /\ scans' = scans
      BY <1>3, ThreadNeat DEF Once
    <2>2. Ahead(th'[s], scans[s].root) \subseteq Ahead(th[s], scans[s].root)
      BY ThreadSteps DEF Tells
    <2> QED
      BY <2>1, <2>2, QuietOnce
  <1> QED
    BY <1>1, <1>2, <1>3 DEF ThreadStep

----------------------------------------------------------------------------
\* A scan has handed over no file twice.
HandedOnce == \A i \in 1 .. Len(log) : Distinct(handed[i])
RunsOnce(s) == scans[s].inUse => Once(Given(scans[s].no), scans[s].ring, th[s], scans[s].root)
OnceInv == HandedOnce /\ \A s \in Slots : RunsOnce(s)

\* A slot that a step leaves alone.
LEMMA OnceStays ==
  ASSUME NEW s \in Slots, RunsOnce(s), scans'[s] = scans[s], th'[s] = th[s],
         scans[s].inUse => handed'[scans[s].no] = handed[scans[s].no]
  PROVE  RunsOnce(s)'
  <1>1. scans[s].inUse => Given(scans[s].no)' = Given(scans[s].no)
    BY DEF Given
  <1> QED
    BY <1>1 DEF RunsOnce

LEMMA ThreadKeepsOnce ==
  ASSUME ScanInv, OnceInv, NEW s \in Slots, ThreadStep(s)
  PROVE  OnceInv'
  <1>1. TypeOK /\ SlotSafe(s) /\ Shape(scans[s].ring, th[s])
    BY DEF ScanInv, SlotSafe
  <1>2. /\ log' = log /\ queued' = queued /\ handed' = handed
        /\ \A t \in Slots \ {s} : th'[t] = th[t] /\ scans'[t] = scans[t]
        /\ scans'[s].inUse = scans[s].inUse /\ scans'[s].no = scans[s].no
        /\ scans'[s].root = scans[s].root
        /\ th[s].pc # "none"
    BY <1>1, ThreadSteps DEF Stays, Tells
  <1>3. scans[s].inUse
    BY <1>1, <1>2 DEF SlotSafe
  <1>4. Given(scans[s].no)' = Given(scans[s].no)
    BY <1>2 DEF Given
  <1>5. Once(Given(scans[s].no), scans'[s].ring, th'[s], scans[s].root)
    BY <1>1, <1>3, ThreadOnce DEF OnceInv, RunsOnce
  <1>6. RunsOnce(s)'
    BY <1>2, <1>4, <1>5 DEF RunsOnce
  <1>7. \A t \in Slots \ {s} : RunsOnce(t)'
    BY <1>2, OnceStays DEF OnceInv
  <1> QED
    BY <1>2, <1>6, <1>7 DEF OnceInv, HandedOnce, Distinct

Elements(h) == {h[j] : j \in 1 .. Len(h)}

\* One more of what was not there.
LEMMA HandOneMore ==
  ASSUME NEW S, NEW h \in Seq(S), NEW f \in S, Distinct(h), \A i \in 1 .. Len(h) : h[i] # f
  PROVE  Distinct(Append(h, f)) /\ Elements(Append(h, f)) = Elements(h) \cup {f}
  <1> DEFINE a == Append(h, f)
  <1>1. /\ Len(a) = Len(h) + 1 /\ Len(h) \in Nat /\ a[Len(h) + 1] = f
        /\ \A i \in 1 .. Len(h) : a[i] = h[i]
    BY AppendProperties
  <1> HIDE DEF a
  <1>2. /\ \A j \in 1 .. Len(a) : j = Len(h) + 1 \/ j \in 1 .. Len(h)
        /\ \A j \in 1 .. Len(h) : j \in 1 .. Len(a)
        /\ Len(h) + 1 \in 1 .. Len(a)
    BY <1>1
  <1>3. Distinct(a)
    BY <1>1, <1>2 DEF Distinct
  <1>4. {a[j] : j \in 1 .. Len(a)} \subseteq {h[j] : j \in 1 .. Len(h)} \cup {f}
    BY <1>1, <1>2
  <1>5. {h[j] : j \in 1 .. Len(h)} \cup {f} \subseteq {a[j] : j \in 1 .. Len(a)}
    <2>1. {h[j] : j \in 1 .. Len(h)} \subseteq {a[j] : j \in 1 .. Len(a)}
      BY <1>1, <1>2
    <2>2. f \in {a[j] : j \in 1 .. Len(a)}
      BY <1>1, <1>2
    <2> QED
      BY <2>1, <2>2
  <1> QED
    BY <1>3, <1>4, <1>5 DEF a, Elements

\* The file that is handed over is no longer in the ring, and was not handed over before.
LEMMA PollFileOnce == ScanInv /\ OnceInv /\ PollFile => OnceInv'
  <1> SUFFICES ASSUME ScanInv, OnceInv, PollFile,
                      NEW s, s = ui.at, NEW q, q = scans[s].ring, NEW t, t = th[s],
                      NEW n, n = scans[s].no, NEW f, f = Head(q).file,
                      NEW h, h = handed[n], NEW root, root = scans[s].root
               PROVE  OnceInv'
    OBVIOUS
  <1>1. /\ s \in Slots /\ scans[s].inUse /\ q \in Seq(Msgs) /\ q # <<>>
        /\ Head(q) = q[1] /\ q[1].kind = "File" /\ q[1] \in Msgs
        /\ scans'[s].ring = Tail(q) /\ scans'[s].no = n /\ scans'[s].root = root
        /\ \A r \in Slots \ {s} : scans'[r] = scans[r]
    BY Polled DEF PollFile, Polls
  <1>2. th' = th /\ log' = log /\ handed' = [handed EXCEPT ![n] = Append(h, f)]
    BY DEF PollFile
  <1>3. f \in Files /\ IsFile(q[1], f)
    BY <1>1 DEF Msgs, IsFile
  <1>4. /\ n \in 1 .. Len(log) /\ Len(handed) = Len(log) /\ handed \in Seq(Seq(Files))
        /\ Once(Given(n), q, t, root) /\ Distinct(h)
    BY <1>1 DEF ScanInv, SlotSafe, TypeOK, OnceInv, RunsOnce, HandedOnce
  <1>5. h \in Seq(Files) /\ DOMAIN handed = 1 .. Len(log)
    BY <1>4
  <1>6. handed'[n] = Append(h, f) /\ \A i \in 1 .. Len(log) : i # n => handed'[i] = handed[i]
    BY <1>2, <1>4, <1>5
  <1>9. /\ Len(q) \in Nat \ {0} /\ Len(Tail(q)) = Len(q) - 1
        /\ \A i \in 1 .. Len(q) - 1 : Tail(q)[i] = q[i + 1]
        /\ FilesIn(q) = FilesIn(Tail(q)) \cup {g \in Files : IsFile(q[1], g)}
    BY <1>1, RingTail
  <1>10. 1 \in 1 .. Len(q) /\ \A i \in 1 .. Len(Tail(q)) : /\ i + 1 \in 1 .. Len(q) /\ i + 1 # 1
                                                           /\ Tail(q)[i] = q[i + 1]
    BY <1>9
  <1>11. f \in FilesIn(q) /\ f \notin Given(n)
    BY <1>3, <1>4, <1>10 DEF FilesIn, Once
  <1>12. f \notin FilesIn(Tail(q))
    <2> SUFFICES ASSUME NEW i \in 1 .. Len(Tail(q)), IsFile(Tail(q)[i], f)
                 PROVE  FALSE
      BY DEF FilesIn
    <2>1. i + 1 \in 1 .. Len(q) /\ i + 1 # 1 /\ IsFile(q[i + 1], f) /\ 1 \in 1 .. Len(q)
      BY <1>3, <1>10
    <2>2. OneEach(q)
      BY <1>4 DEF Once
    <2> QED
      BY <1>3, <2>1, <2>2 DEF OneEach
  <1>13. OneEach(Tail(q))
    BY <1>1, <1>4, OneEachTail DEF Once
  <1>14. \A i \in 1 .. Len(h) : h[i] # f
    BY <1>11 DEF Given
  <1>15. Distinct(Append(h, f)) /\ Elements(Append(h, f)) = Elements(h) \cup {f}
    <2>1. h \in Seq(Files) /\ f \in Files /\ Distinct(h) /\ \A i \in 1 .. Len(h) : h[i] # f
      BY <1>3, <1>4, <1>5, <1>14
    <2> QED
      BY ONLY <2>1, HandOneMore
  <1>16. Given(n)' = Given(n) \cup {f}
    <2>1. Given(n) = Elements(h) /\ Given(n)' = Elements(Append(h, f))
      BY <1>6 DEF Given, Elements
    <2> QED
      BY <1>15, <2>1
  <1>17. Once(Given(n)', Tail(q), t, root)
    <2>1. /\ Neat(t) /\ Given(n) \cap FilesIn(q) = {}
          /\ (Given(n) \cup FilesIn(q)) \cap Ahead(t, root) = {}
      BY <1>4 DEF Once
    <2>2. FilesIn(Tail(q)) \subseteq FilesIn(q)
      BY <1>9
    <2>3. Given(n)' \cap FilesIn(Tail(q)) = {}
      BY <1>12, <1>16, <2>1, <2>2
    <2>4. (Given(n)' \cup FilesIn(Tail(q))) \cap Ahead(t, root) = {}
      BY <1>11, <1>16, <2>1, <2>2
    <2> QED
      BY <1>13, <2>1, <2>3, <2>4 DEF Once
  <1>18. RunsOnce(s)'
    <2>1. Given(scans[s].no)' = Given(n)'
      BY <1>1 DEF Given
    <2> QED
      BY <1>1, <1>2, <1>17, <2>1 DEF RunsOnce
  <1>19. ASSUME NEW r \in Slots \ {s} PROVE RunsOnce(r)'
    <2>1. scans[r].inUse => scans[r].no \in 1 .. Len(log) /\ scans[r].no # n
      BY <1>1, <1>19 DEF ScanInv, OwnScans, SlotSafe
    <2> QED
      BY <1>1, <1>2, <1>6, <2>1, OnceStays DEF OnceInv
  <1>20. HandedOnce'
    <2>1. ASSUME NEW i \in 1 .. Len(log) PROVE Distinct(handed'[i])
      <3>1. CASE i = n
        BY <1>6, <1>15, <3>1
      <3>2. CASE i # n
        BY <1>6, <3>2 DEF OnceInv, HandedOnce
      <3> QED
        BY <3>1, <3>2
    <2> QED
      BY <1>2, <2>1 DEF HandedOnce, Distinct
  <1> QED
    BY <1>18, <1>19, <1>20 DEF OnceInv

LEMMA PollTerminalOnce == ScanInv /\ OnceInv /\ PollTerminal => OnceInv'
  <1> SUFFICES ASSUME ScanInv, OnceInv, PollTerminal,
                      NEW s, s = ui.at, NEW q, q = scans[s].ring, NEW t, t = th[s],
                      NEW n, n = scans[s].no, NEW root, root = scans[s].root
               PROVE  OnceInv'
    OBVIOUS
  <1>1. /\ s \in Slots /\ scans[s].inUse /\ q \in Seq(Msgs) /\ q # <<>>
        /\ scans'[s].ring = Tail(q) /\ scans'[s].no = n /\ scans'[s].root = root
        /\ \A r \in Slots \ {s} : scans'[r] = scans[r]
    BY Polled DEF PollTerminal, Polls
  <1>2. th' = th /\ handed' = handed /\ Len(log') = Len(log)
    BY DEF PollTerminal, ScanInv, TypeOK
  <1>3. Once(Given(n), q, t, root)
    BY <1>1 DEF OnceInv, RunsOnce
  <1>4. /\ Len(q) \in Nat \ {0} /\ Len(Tail(q)) = Len(q) - 1
        /\ \A i \in 1 .. Len(q) - 1 : Tail(q)[i] = q[i + 1]
        /\ FilesIn(Tail(q)) \subseteq FilesIn(q)
    BY <1>1, RingTail
  <1>5. \A i \in 1 .. Len(Tail(q)) : i + 1 \in 1 .. Len(q) /\ Tail(q)[i] = q[i + 1]
    BY <1>4
  <1>6. OneEach(Tail(q))
    BY <1>1, <1>3, OneEachTail DEF Once
  <1>7. Once(Given(n), Tail(q), t, root)
    BY <1>3, <1>4, <1>6 DEF Once
  <1>8. RunsOnce(s)'
    <2>1. Given(scans[s].no)' = Given(n)
      BY <1>1, <1>2 DEF Given
    <2> QED
      BY <1>1, <1>2, <1>7, <2>1 DEF RunsOnce
  <1>9. \A r \in Slots \ {s} : RunsOnce(r)'
    BY <1>1, <1>2, OnceStays DEF OnceInv
  <1>10. HandedOnce'
    BY <1>2 DEF OnceInv, HandedOnce, Distinct
  <1> QED
    BY <1>8, <1>9, <1>10 DEF OnceInv

LEMMA JoinOnce == ScanInv /\ OnceInv /\ Join => OnceInv'
  <1> SUFFICES ASSUME ScanInv, OnceInv, Join, NEW s, s = ui.at PROVE OnceInv'
    OBVIOUS
  <1>1. /\ log' = log /\ handed' = handed /\ s \in Slots
        /\ ~scans'[s].inUse /\ \A r \in Slots \ {s} : scans'[r] = scans[r] /\ th'[r] = th[r]
    BY DEF Join, ScanInv, TypeOK, Free
  <1>2. RunsOnce(s)'
    BY <1>1 DEF RunsOnce
  <1>3. \A r \in Slots \ {s} : RunsOnce(r)'
    BY <1>1, OnceStays DEF OnceInv
  <1> QED
    BY <1>1, <1>2, <1>3 DEF OnceInv, HandedOnce, Distinct

\* A scan begins with nothing handed over, and everything to tell.
LEMMA StartScanOnce ==
  ASSUME ScanInv, OnceInv, NEW d \in Dirs \ Unsafe, StartScan(d)
  PROVE  OnceInv'
  <1> SUFFICES ASSUME NEW n, n = Len(log) + 1 PROVE OnceInv'
    OBVIOUS
  <1>1. PICK s \in Slots :
          /\ scans' = [scans EXCEPT ![s] = [inUse |-> TRUE, root |-> d, no |-> n, ring |-> <<>>]]
          /\ th' = [th EXCEPT ![s] = [NoThread EXCEPT !.pc = "connect"]]
    BY DEF StartScan
  <1>2. /\ scans'[s].no = n /\ scans'[s].ring = <<>> /\ scans'[s].root = d
        /\ th'[s].walk = <<>> /\ th'[s].pc = "connect"
        /\ \A r \in Slots \ {s} : scans'[r] = scans[r] /\ th'[r] = th[r]
    BY <1>1 DEF ScanInv, TypeOK, NoThread
  <1>3. /\ log \in Seq([root : Dirs, is : Outcomes]) /\ handed \in Seq(Seq(Files))
        /\ Len(handed) = Len(log) /\ Len(log) \in Nat
    BY DEF ScanInv, TypeOK
  <1>4. handed' = Append(handed, <<>>) /\ <<>> \in Seq(Files) /\ Len(<<>>) = 0
    BY DEF StartScan
  <1>5. handed'[n] = <<>> /\ \A i \in 1 .. Len(log) : handed'[i] = handed[i]
    BY <1>3, <1>4, AppendProperties
  <1>6. Len(log') = n
    <2>1. [root |-> d, is |-> "scanning"] \in [root : Dirs, is : Outcomes]
      BY DEF Outcomes
    <2> QED
      BY <1>3, <2>1, AppendProperties DEF StartScan
  <1>7. Given(n)' = {} /\ FilesIn(<<>>) = {} /\ Distinct(<<>>) /\ OneEach(<<>>)
    <2>1. 1 .. Len(<<>>) = {}
      BY <1>4
    <2>2. Given(n)' = {}
      BY <1>5, <2>1 DEF Given
    <2> QED
      BY <2>1, <2>2 DEF FilesIn, Distinct, OneEach
  <1>8. Once({}, <<>>, th'[s], d)
    BY <1>2, <1>7, NeatEmpty DEF Once
  <1>9. RunsOnce(s)'
    <2>1. Given(scans[s].no)' = Given(n)'
      BY <1>2 DEF Given
    <2> QED
      BY <1>2, <1>7, <1>8, <2>1 DEF RunsOnce
  <1>10. ASSUME NEW r \in Slots \ {s} PROVE RunsOnce(r)'
    <2>1. scans[r].inUse => scans[r].no \in 1 .. Len(log)
      BY <1>10 DEF ScanInv, SlotSafe
    <2> QED
      BY <1>2, <1>5, <2>1, OnceStays DEF OnceInv
  <1>11. HandedOnce'
    <2>1. \A i \in 1 .. Len(log') : i = n \/ i \in 1 .. Len(log)
      BY <1>3, <1>6
    <2> QED
      BY <1>5, <1>7, <2>1 DEF OnceInv, HandedOnce, Distinct
  <1> QED
    BY <1>9, <1>10, <1>11 DEF OnceInv

LEMMA OthersOnce ==
  ASSUME OnceInv, UNCHANGED <<scans, th, log, handed>>
  PROVE  OnceInv'
  <1>1. \A r \in Slots : RunsOnce(r)'
    BY OnceStays DEF OnceInv
  <1> QED
    BY <1>1 DEF OnceInv, HandedOnce, Distinct

LEMMA NextOnce == ScanInv /\ OnceInv /\ [Next]_vars => OnceInv'
  <1> SUFFICES ASSUME ScanInv, OnceInv, [Next]_vars PROVE OnceInv'
    OBVIOUS
  <1>1. CASE FrameStep
    BY <1>1, PollFileOnce, PollTerminalOnce, JoinOnce, OthersOnce
       DEF FrameStep, PollNothing, EndFrame
  <1>2. CASE UserStep
    BY <1>2, StartScanOnce, OthersOnce DEF UserStep, IgnoreDrag, UploadFolder, RemoveOp
  <1>3. ASSUME NEW s \in Slots, ThreadStep(s) PROVE OnceInv'
    BY <1>3, ThreadKeepsOnce
  <1>4. CASE UNCHANGED vars
    BY <1>4, OthersOnce DEF vars
  <1> QED
    BY <1>1, <1>2, <1>3, <1>4 DEF Next

LEMMA InitOnce == Init => OnceInv
  <1>1. 1 .. Len(<<>>) = {}
    OBVIOUS
  <1> QED
    BY <1>1 DEF Init, OnceInv, HandedOnce, RunsOnce, Free

----------------------------------------------------------------------------
(* From files to paths: a message holds what Cut leaves of its file's path *)
(* below the folder of its slot, and that is what is enqueued.             *)

OwnPath(s) == scans[s].inUse =>
                \A i \in 1 .. Len(scans[s].ring) :
                  LET m == scans[s].ring[i]
                  IN  m.kind = "File" => m.path = Cut[scans[s].root][m.file]
CutOf(p, g, d) == Len(p) = Len(g) /\ \A j \in 1 .. Len(g) : p[j] = Cut[d][g[j]]
Paired == \A i \in 1 .. Len(log) : CutOf(queued[i], handed[i], log[i].root)
PathsInv == Paired /\ \A s \in Slots : OwnPath(s)

LEMMA InitPaths == Init => PathsInv
  <1>1. 1 .. Len(<<>>) = {}
    OBVIOUS
  <1> QED
    BY <1>1 DEF Init, PathsInv, Paired, OwnPath, Free

\* A thread writes only into the ring of its slot, and of a file only its path.
LEMMA ThreadPaths ==
  ASSUME ScanInv, PathsInv, NEW s \in Slots, ThreadStep(s)
  PROVE  PathsInv'
  <1> DEFINE q == scans[s].ring
  <1>1. TypeOK /\ Shape(q, th[s]) /\ q \in Seq(Msgs) /\ scans[s].root \in Dirs
    BY DEF ScanInv, SlotSafe, TypeOK
  <1>2. /\ log' = log /\ queued' = queued /\ handed' = handed
        /\ \A t \in Slots \ {s} : scans'[t] = scans[t]
        /\ scans'[s].inUse = scans[s].inUse /\ scans'[s].root = scans[s].root
    BY <1>1, ThreadSteps DEF Stays
  <1>3. scans' = scans \/ \E m \in Msgs : /\ scans'[s].ring = Append(q, m)
                                          /\ m.kind = "File" => m = FileMsg(s, m.file)
    <2>1. CASE SendFile(s)
      <3>1. th[s].at \in Files
        BY <1>1, <2>1 DEF SendFile, Shape
      <3>2. FileMsg(s, th[s].at) \in Msgs /\ FileMsg(s, th[s].at).file = th[s].at
        BY <1>1, <3>1, FileMsgType DEF IsFile
      <3>3. scans'[s].ring = Append(q, FileMsg(s, th[s].at))
        BY <1>1, <2>1 DEF SendFile, Write, TypeOK
      <3> QED
        BY <3>2, <3>3
    <2>2. CASE SendTerminal(s)
      <3> DEFINE m == [kind |-> IF th[s].pc = "done" THEN "Done" ELSE "Failed"]
      <3>1. m \in Msgs /\ m.kind # "File"
        BY DEF Msgs
      <3>2. scans'[s].ring = Append(q, m)
        BY <1>1, <2>2 DEF SendTerminal, Write, TypeOK
      <3> QED
        BY <3>1, <3>2
    <2>3. CASE Connect(s) \/ OpenDir(s) \/ ReadEntry(s) \/ ReadError(s) \/ EndDir(s) \/ Close(s)
      BY <2>3 DEF Connect, OpenDir, ReadEntry, ReadError, EndDir, Close
    <2> QED
      BY <2>1, <2>2, <2>3 DEF ThreadStep
  <1>4. OwnPath(s)'
    <2>1. CASE scans' = scans
      BY <2>1 DEF PathsInv, OwnPath
    <2>2. ASSUME NEW m \in Msgs, scans'[s].ring = Append(q, m),
                 m.kind = "File" => m = FileMsg(s, m.file)
          PROVE  OwnPath(s)'
      <3>1. /\ Len(Append(q, m)) = Len(q) + 1 /\ Len(q) \in Nat
            /\ Append(q, m)[Len(q) + 1] = m /\ \A i \in 1 .. Len(q) : Append(q, m)[i] = q[i]
        BY <1>1, RingAppend
      <3>2. m.kind = "File" => m.path = Cut[scans[s].root][m.file]
        BY <2>2 DEF FileMsg
      <3>3. \A i \in 1 .. Len(Append(q, m)) : i = Len(q) + 1 \/ i \in 1 .. Len(q)
        BY <3>1
      <3>4. scans[s].inUse => \A i \in 1 .. Len(q) : q[i].kind = "File"
                                => q[i].path = Cut[scans[s].root][q[i].file]
        BY DEF PathsInv, OwnPath
      <3> QED
        BY <1>2, <2>2, <3>1, <3>2, <3>3, <3>4 DEF OwnPath
    <2> QED
      BY <1>3, <2>1, <2>2
  <1>5. \A t \in Slots \ {s} : OwnPath(t)'
    BY <1>2 DEF PathsInv, OwnPath
  <1>6. Paired'
    BY <1>2 DEF PathsInv, Paired, CutOf
  <1> QED
    BY <1>4, <1>5, <1>6 DEF PathsInv

\* What is left of a ring when its head is taken.
LEMMA TakenPaths ==
  ASSUME ScanInv, PathsInv, NEW kinds, Polls(kinds), scans' = Taken, NEW s \in Slots
  PROVE  OwnPath(s)'
  <1> DEFINE u == ui.at
             q == scans[u].ring
  <1>1. /\ u \in Slots /\ scans[u].inUse /\ q \in Seq(Msgs) /\ q # <<>>
        /\ scans'[u].ring = Tail(q) /\ scans'[u].root = scans[u].root
        /\ \A t \in Slots \ {u} : scans'[t] = scans[t]
    BY Polled
  <1>2. CASE s # u
    BY <1>1, <1>2 DEF PathsInv, OwnPath
  <1>3. CASE s = u
    <2>1. /\ Len(q) \in Nat \ {0} /\ Len(Tail(q)) = Len(q) - 1
          /\ \A i \in 1 .. Len(q) - 1 : Tail(q)[i] = q[i + 1]
      BY <1>1, RingTail
    <2>2. \A i \in 1 .. Len(q) - 1 : i + 1 \in 1 .. Len(q)
      BY <2>1
    <2>3. \A i \in 1 .. Len(q) : q[i].kind = "File" => q[i].path = Cut[scans[u].root][q[i].file]
      BY <1>1 DEF PathsInv, OwnPath
    <2>4. \A i \in 1 .. Len(Tail(q)) :
            Tail(q)[i].kind = "File" => Tail(q)[i].path = Cut[scans[u].root][Tail(q)[i].file]
      <3> SUFFICES ASSUME NEW i \in 1 .. Len(q) - 1, Tail(q)[i].kind = "File"
                   PROVE  Tail(q)[i].path = Cut[scans[u].root][Tail(q)[i].file]
        BY <2>1
      <3>1. Tail(q)[i] = q[i + 1] /\ i + 1 \in 1 .. Len(q)
        BY <2>1, <2>2
      <3> QED
        BY <2>3, <3>1
    <2>5. scans'[s].ring = Tail(q) /\ scans'[s].root = scans[u].root
      BY <1>1, <1>3
    <2> QED
      BY <2>4, <2>5, ZenonT(30) DEF OwnPath
  <1> QED
    BY <1>2, <1>3

\* One more pair at the end of two sequences.
LEMMA OneMorePair ==
  ASSUME NEW d, NEW g \in Seq(Files), NEW p \in Seq(Paths), NEW f \in Files, NEW c \in Paths,
         CutOf(p, g, d), c = Cut[d][f]
  PROVE  CutOf(Append(p, c), Append(g, f), d)
  <1>1. /\ Len(Append(g, f)) = Len(g) + 1 /\ Len(g) \in Nat /\ Append(g, f)[Len(g) + 1] = f
        /\ \A j \in 1 .. Len(g) : Append(g, f)[j] = g[j]
    BY AppendProperties
  <1>2. /\ Len(Append(p, c)) = Len(p) + 1 /\ Append(p, c)[Len(p) + 1] = c
        /\ \A j \in 1 .. Len(p) : Append(p, c)[j] = p[j]
    BY AppendProperties
  <1>3. \A j \in 1 .. Len(Append(g, f)) : j = Len(g) + 1 \/ j \in 1 .. Len(g)
    BY <1>1
  <1> QED
    BY <1>1, <1>2, <1>3 DEF CutOf

LEMMA PollFilePaths == ScanInv /\ PathsInv /\ PollFile => PathsInv'
  <1> SUFFICES ASSUME ScanInv, PathsInv, PollFile,
                      NEW s, s = ui.at, NEW q, q = scans[s].ring, NEW n, n = scans[s].no,
                      NEW f, f = Head(q).file, NEW c, c = Head(q).path
               PROVE  PathsInv'
    OBVIOUS
  <1>1. /\ s \in Slots /\ scans[s].inUse /\ q \in Seq(Msgs) /\ q # <<>>
        /\ Head(q) = q[1] /\ q[1].kind = "File" /\ q[1] \in Msgs /\ Len(q) \in Nat \ {0}
    BY Polled, RingTail DEF PollFile, Polls
  <1>2. /\ log' = log /\ queued' = [queued EXCEPT ![n] = Append(@, c)]
        /\ handed' = [handed EXCEPT ![n] = Append(@, f)]
    BY DEF PollFile
  <1>3. f \in Files /\ c \in Paths /\ c = Cut[scans[s].root][f]
    <2>1. q[1].path = Cut[scans[s].root][q[1].file]
      BY <1>1 DEF PathsInv, OwnPath
    <2> QED
      BY <1>1, <2>1 DEF Msgs
  <1>4. /\ n \in 1 .. Len(log) /\ log[n].root = scans[s].root
        /\ handed \in Seq(Seq(Files)) /\ Len(handed) = Len(log)
        /\ queued \in Seq(Seq(Paths)) /\ Len(queued) = Len(log)
    BY <1>1 DEF ScanInv, SlotSafe, TypeOK
  <1>5. /\ handed[n] \in Seq(Files) /\ DOMAIN handed = 1 .. Len(log)
        /\ queued[n] \in Seq(Paths) /\ DOMAIN queued = 1 .. Len(log)
    <2>1. handed[n] \in Seq(Files) /\ queued[n] \in Seq(Paths)
      BY <1>4, ElementOfSeq
    <2>2. DOMAIN handed = 1 .. Len(log) /\ DOMAIN queued = 1 .. Len(log)
      BY <1>4, LenProperties
    <2> QED
      BY <2>1, <2>2
  <1>6. /\ handed'[n] = Append(handed[n], f) /\ queued'[n] = Append(queued[n], c)
        /\ \A i \in 1 .. Len(log) : i # n => handed'[i] = handed[i] /\ queued'[i] = queued[i]
    BY <1>2, <1>4, <1>5
  <1>7. CutOf(queued'[n], handed'[n], log[n].root)
    <2>1. CutOf(queued[n], handed[n], log[n].root)
      BY <1>4 DEF PathsInv, Paired
    <2>2. CutOf(Append(queued[n], c), Append(handed[n], f), log[n].root)
      BY <1>3, <1>4, <1>5, <2>1, OneMorePair
    <2> QED
      BY <1>6, <2>2
  <1>8. Paired'
    <2>1. ASSUME NEW i \in 1 .. Len(log)
          PROVE  CutOf(queued'[i], handed'[i], log[i].root)
      <3>1. CutOf(queued[i], handed[i], log[i].root)
        BY DEF PathsInv, Paired
      <3> QED
        BY <1>6, <1>7, <3>1
    <2>2. log' = log
      BY <1>2
    <2> QED
      BY <2>1, <2>2 DEF Paired, CutOf
  <1>9. \A t \in Slots : OwnPath(t)'
    BY TakenPaths DEF PollFile
  <1> QED
    BY <1>8, <1>9 DEF PathsInv

LEMMA PollTerminalPaths == ScanInv /\ PathsInv /\ PollTerminal => PathsInv'
  <1> SUFFICES ASSUME ScanInv, PathsInv, PollTerminal PROVE PathsInv'
    OBVIOUS
  <1>1. \A t \in Slots : OwnPath(t)'
    BY TakenPaths DEF PollTerminal
  <1>2. /\ queued' = queued /\ handed' = handed /\ Len(log') = Len(log)
        /\ \A i \in 1 .. Len(log) : log'[i].root = log[i].root
    BY DEF PollTerminal, ScanInv, TypeOK
  <1>3. Paired'
    BY <1>2 DEF PathsInv, Paired, CutOf
  <1> QED
    BY <1>1, <1>3 DEF PathsInv

LEMMA StartScanPaths ==
  ASSUME ScanInv, PathsInv, NEW d \in Dirs \ Unsafe, StartScan(d)
  PROVE  PathsInv'
  <1> SUFFICES ASSUME NEW n, n = Len(log) + 1, NEW x, x = [root |-> d, is |-> "scanning"]
               PROVE  PathsInv'
    OBVIOUS
  <1>1. PICK s \in Slots :
          scans' = [scans EXCEPT ![s] = [inUse |-> TRUE, root |-> d, no |-> n, ring |-> <<>>]]
    BY DEF StartScan
  <1>2. scans'[s].ring = <<>> /\ \A r \in Slots \ {s} : scans'[r] = scans[r]
    BY <1>1 DEF ScanInv, TypeOK
  <1>3. 1 .. Len(<<>>) = {} /\ Len(<<>>) = 0 /\ <<>> \in Seq(Files) /\ <<>> \in Seq(Paths)
    OBVIOUS
  <1>4. \A t \in Slots : OwnPath(t)'
    BY <1>2, <1>3 DEF PathsInv, OwnPath
  <1>5. /\ log \in Seq([root : Dirs, is : Outcomes]) /\ Len(log) \in Nat
        /\ handed \in Seq(Seq(Files)) /\ Len(handed) = Len(log)
        /\ queued \in Seq(Seq(Paths)) /\ Len(queued) = Len(log)
    BY DEF ScanInv, TypeOK
  <1>6. /\ log' = Append(log, x) /\ x \in [root : Dirs, is : Outcomes]
        /\ queued' = Append(queued, <<>>) /\ handed' = Append(handed, <<>>)
    BY DEF StartScan, Outcomes
  <1>7. /\ Len(log') = n /\ \A i \in 1 .. Len(log) : log'[i] = log[i]
        /\ queued'[n] = <<>> /\ \A i \in 1 .. Len(log) : queued'[i] = queued[i]
        /\ handed'[n] = <<>> /\ \A i \in 1 .. Len(log) : handed'[i] = handed[i]
    BY <1>3, <1>5, <1>6, AppendProperties
  <1>8. \A i \in 1 .. Len(log') : i = n \/ i \in 1 .. Len(log)
    BY <1>5, <1>7
  <1>9. Paired'
    BY <1>3, <1>7, <1>8, SMTT(30) DEF PathsInv, Paired, CutOf
  <1> QED
    BY <1>4, <1>9 DEF PathsInv

LEMMA JoinPaths == ScanInv /\ PathsInv /\ Join => PathsInv'
  <1> SUFFICES ASSUME ScanInv, PathsInv, Join PROVE PathsInv'
    OBVIOUS
  <1>1. /\ log' = log /\ queued' = queued /\ handed' = handed
        /\ \A t \in Slots : scans'[t] = scans[t] \/ ~scans'[t].inUse
    BY DEF Join, ScanInv, TypeOK, Free
  <1> QED
    BY <1>1 DEF PathsInv, Paired, OwnPath

LEMMA OtherPaths ==
  ASSUME PathsInv, UNCHANGED <<scans, log, queued, handed>>
  PROVE  PathsInv'
  BY DEF PathsInv, Paired, OwnPath

LEMMA NextPaths == ScanInv /\ PathsInv /\ [Next]_vars => PathsInv'
  <1> SUFFICES ASSUME ScanInv, PathsInv, [Next]_vars PROVE PathsInv'
    OBVIOUS
  <1>1. CASE FrameStep
    BY <1>1, PollFilePaths, PollTerminalPaths, JoinPaths, OtherPaths
       DEF FrameStep, PollNothing, EndFrame
  <1>2. CASE UserStep
    BY <1>2, StartScanPaths, OtherPaths DEF UserStep, IgnoreDrag, UploadFolder, RemoveOp
  <1>3. ASSUME NEW s \in Slots, ThreadStep(s) PROVE PathsInv'
    BY <1>3, ThreadPaths
  <1>4. CASE UNCHANGED vars
    BY <1>4, OtherPaths DEF vars
  <1> QED
    BY <1>1, <1>2, <1>3, <1>4 DEF Next

LEMMA AlwaysPaths == Spec => [](ScanInv /\ PathsInv)
  <1>1. Init => ScanInv /\ PathsInv
    BY InitScanInv, InitPaths
  <1>2. (ScanInv /\ PathsInv) /\ [Next]_vars => (ScanInv /\ PathsInv)'
    BY NextScanInv, NextPaths
  <1> QED
    BY <1>1, <1>2, PTL DEF Spec

\* The files that were handed over are a telling of the paths that were enqueued.
LEMMA HandedTells ==
  ASSUME ScanInv, PathsInv, NEW i \in 1 .. Len(log)
  PROVE  /\ handed[i] \in Tellings(i) /\ DOMAIN handed[i] = 1 .. Len(handed[i])
         /\ Len(queued[i]) = Len(handed[i])
  <1>1. /\ handed[i] \in Seq(Files) /\ Len(queued[i]) = Len(handed[i])
        /\ \A j \in 1 .. Len(handed[i]) : queued[i][j] = Cut[log[i].root][handed[i][j]]
    <2>1. handed[i] \in Seq(Files)
      BY DEF ScanInv, TypeOK
    <2>2. CutOf(queued[i], handed[i], log[i].root)
      BY DEF PathsInv, Paired
    <2> QED
      BY <2>1, <2>2 DEF CutOf
  <1>2. \A j \in 1 .. Len(handed[i]) : handed[i][j] \in FilesBelow[log[i].root]
    BY DEF ScanInv, GivenIsBelow, Given
  <1>3. handed[i] \in [1 .. Len(handed[i]) -> FilesBelow[log[i].root]]
    BY <1>1, <1>2
  <1>4. DOMAIN handed[i] = 1 .. Len(handed[i])
    BY <1>1
  <1> QED
    BY <1>1, <1>3, <1>4 DEF Tellings

\* When the log says that a folder download is complete, a path has been given to
\* xfer_enqueue for every file below the folder that safe names lead to, and for nothing
\* else: xfer__scan_walk loses no entry, not even where directories loop, and a failure
\* anywhere says so.  The path is the file's own unless rel_path has no room for it.
THEOREM CompleteIsAll == Spec => []CompleteMeansAll
  <1>1. ASSUME ScanInv, PathsInv PROVE CompleteMeansAll
    <2> SUFFICES ASSUME NEW i \in 1 .. Len(log), log[i].is = "complete"
                 PROVE  \E g \in Tellings(i) :
                          \A f \in FilesBelow[log[i].root] : \E j \in DOMAIN g : g[j] = f
      BY DEF CompleteMeansAll
    <2>1. handed[i] \in Tellings(i) /\ DOMAIN handed[i] = 1 .. Len(handed[i])
      BY <1>1, HandedTells
    <2>2. FilesBelow[log[i].root] = {handed[i][j] : j \in 1 .. Len(handed[i])}
      BY <1>1 DEF ScanInv, AllGiven, Given
    <2>3. \A f \in FilesBelow[log[i].root] : \E j \in DOMAIN handed[i] : handed[i][j] = f
      BY <2>1, <2>2
    <2> QED
      BY <2>1, <2>3
  <1> QED
    BY <1>1, AlwaysPaths, PTL

\* What a scan has enqueued is a file below its own folder, or what the cut leaves of the
\* longer path of one.
OwnPaths ==
  \A i \in 1 .. Len(log) : \A j \in 1 .. Len(queued[i]) :
    \/ queued[i][j] \in FilesBelow[log[i].root]
    \/ \E f \in FilesBelow[log[i].root] :
         queued[i][j] = Cut[log[i].root][f] /\ Cut[log[i].root][f] # f

\* Whatever becomes of a scan, it has given xfer_enqueue only paths of files below its own
\* folder, whole or cut, also when its slot was another scan's before.
THEOREM OnlyOwnFiles == Spec => []OwnPaths
  <1>1. ASSUME ScanInv, PathsInv PROVE OwnPaths
    <2> SUFFICES ASSUME NEW i \in 1 .. Len(log), NEW j \in 1 .. Len(queued[i])
                 PROVE  \E f \in FilesBelow[log[i].root] : queued[i][j] = Cut[log[i].root][f]
      BY DEF OwnPaths
    <2>1. handed[i] \in Tellings(i)
      BY <1>1, HandedTells
    <2> QED
      BY <2>1 DEF Tellings
  <1> QED
    BY <1>1, AlwaysPaths, PTL

\* Every path that a scan gives to xfer_enqueue is that of a file below the folder that was
\* dragged, as far as rel_path holds it, and no file's is given twice: neither a ring that
\* was full, nor a walk that failed halfway, nor a slot that another scan has used makes
\* xfer__scan_walk and xfer_scan_poll_all tell one again.
THEOREM FilesOnce == Spec => []OnlyItsFilesOnce
  <1>1. ASSUME ScanInv, OnceInv, PathsInv PROVE OnlyItsFilesOnce
    <2> SUFFICES ASSUME NEW i \in 1 .. Len(log)
                 PROVE  \E g \in Tellings(i) : \A j, k \in DOMAIN g : g[j] = g[k] => j = k
      BY DEF OnlyItsFilesOnce
    <2>1. handed[i] \in Tellings(i) /\ DOMAIN handed[i] = 1 .. Len(handed[i])
      BY <1>1, HandedTells
    <2>2. Distinct(handed[i])
      BY <1>1 DEF OnceInv, HandedOnce
    <2> QED
      BY <2>1, <2>2 DEF Distinct
  <1>2. Spec => [](ScanInv /\ OnceInv /\ PathsInv)
    <2>1. Init => ScanInv /\ OnceInv /\ PathsInv
      BY InitScanInv, InitOnce, InitPaths
    <2>2. (ScanInv /\ OnceInv /\ PathsInv) /\ [Next]_vars => (ScanInv /\ OnceInv /\ PathsInv)'
      BY NextScanInv, NextOnce, NextPaths
    <2> QED
      BY <2>1, <2>2, PTL DEF Spec
  <1> QED
    BY <1>1, <1>2, PTL

\* What a scan has enqueued, as a set of paths.
Queued(i) == {queued[i][j] : j \in 1 .. Len(queued[i])}

\* A scan of a folder in which every path fits enqueues files of it, none twice, and all of
\* them if it says complete.
ExactIfShort ==
  \A i \in 1 .. Len(log) :
    LET below == FilesBelow[log[i].root]
    IN  (\A f \in below : Cut[log[i].root][f] = f) =>
          /\ Queued(i) \subseteq below
          /\ \A j, k \in 1 .. Len(queued[i]) : queued[i][j] = queued[i][k] => j = k
          /\ log[i].is = "complete" => Queued(i) = below

\* Where no path below the dragged folder is longer than rel_path holds, the paths that
\* were enqueued are the folder's files themselves, each once, and all of them when the log
\* says complete: it is only the cut in xfer__scan_walk that can make it otherwise.
THEOREM ShortPathsAreExact == Spec => []ExactIfShort
  <1>1. ASSUME ScanInv, OnceInv, PathsInv PROVE ExactIfShort
    <2> SUFFICES ASSUME NEW i \in 1 .. Len(log), NEW below, below = FilesBelow[log[i].root],
                        \A f \in below : Cut[log[i].root][f] = f
                 PROVE  /\ Queued(i) \subseteq below
                        /\ \A j, k \in 1 .. Len(queued[i]) : queued[i][j] = queued[i][k] => j = k
                        /\ log[i].is = "complete" => Queued(i) = below
      BY DEF ExactIfShort
    <2>1. /\ Len(queued[i]) = Len(handed[i])
          /\ \A j \in 1 .. Len(handed[i]) : handed[i][j] \in below /\ queued[i][j] = handed[i][j]
      <3>1. handed[i] \in Tellings(i) /\ Len(queued[i]) = Len(handed[i])
        BY <1>1, HandedTells
      <3>2. \A j \in 1 .. Len(handed[i]) :
              handed[i][j] \in below /\ queued[i][j] = Cut[log[i].root][handed[i][j]]
        BY <3>1 DEF Tellings
      <3> QED
        BY <3>1, <3>2
    <2>2. Distinct(handed[i]) /\ (log[i].is = "complete" => Given(i) = below)
      <3>1. Distinct(handed[i])
        BY <1>1 DEF OnceInv, HandedOnce
      <3>2. log[i].is = "complete" => Given(i) = FilesBelow[log[i].root]
        BY <1>1 DEF ScanInv, AllGiven
      <3> QED
        BY <3>1, <3>2
    <2>3. Queued(i) = Given(i)
      BY <2>1 DEF Queued, Given
    <2>4. Given(i) \subseteq below
      BY <2>1 DEF Given
    <2> QED
      BY <2>1, <2>2, <2>3, <2>4 DEF Distinct
  <1>2. Spec => [](ScanInv /\ OnceInv /\ PathsInv)
    <2>1. Init => ScanInv /\ OnceInv /\ PathsInv
      BY InitScanInv, InitOnce, InitPaths
    <2>2. (ScanInv /\ OnceInv /\ PathsInv) /\ [Next]_vars => (ScanInv /\ OnceInv /\ PathsInv)'
      BY NextScanInv, NextOnce, NextPaths
    <2> QED
      BY <2>1, <2>2, PTL DEF Spec
  <1> QED
    BY <1>1, <1>2, PTL
============================================================================
