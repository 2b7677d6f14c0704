--------------------------- MODULE StoresProofs ---------------------------
(***************************************************************************)
(* Proofs about the stores, for every number of instances, every limit,    *)
(* and whatever the files held when the program first ran.                 *)
(***************************************************************************)
EXTENDS Stores, SequenceTheorems, WellFoundedInduction, TLAPS

----------------------------------------------------------------------------
(* Sequences and what the files are made of.                               *)

LEMMA MemoriesAre ==
  /\ Memories("hosts") = {m \in Seq(Pins) : Len(m) <= MaxHosts}
  /\ Memories("profiles") = {m \in Seq(Profiles) : Len(m) <= MaxProfiles}
  /\ Memories("settings") = Limits
  /\ Memories("dir") = ExistingDirs
  BY DEF Memories

LEMMA DecodeIs ==
  ASSUME NEW units
  PROVE  /\ Decode("hosts", units) = DecodeHosts(units)
         /\ Decode("profiles", units) = DecodeProfiles(units)
         /\ Decode("settings", units) = DecodeSettings(units)
         /\ Decode("dir", units) = DecodeDir(units)
  BY DEF Decode

LEMMA EncodeIs ==
  ASSUME NEW mem
  PROVE  /\ Encode("hosts", mem) = EncodeHosts(mem)
         /\ Encode("profiles", mem) = EncodeProfiles(mem)
         /\ Encode("settings", mem) = EncodeSettings(mem)
         /\ Encode("dir", mem) = EncodeDir(mem)
  BY DEF Encode

LEMMA SequenceIsTyped ==
  ASSUME NEW u, IsSequence(u), NEW S, \A i \in 1 .. Len(u) : u[i] \in S
  PROVE  u \in Seq(S)
  <1>1. [i \in 1 .. Len(u) |-> u[i]] \in Seq(S)
    BY IsASeq DEF IsSequence
  <1> QED
    BY <1>1 DEF IsSequence

LEMMA TypedIsSequence ==
  ASSUME NEW S, NEW u \in Seq(S)
  PROVE  IsSequence(u) /\ DOMAIN u = 1 .. Len(u)
  BY LenProperties DEF IsSequence

LEMMA MinExists ==
  ASSUME NEW I \in SUBSET Nat, I # {}
  PROVE  Min(I) \in I /\ \A i \in I : Min(I) <= i
  <1>1. PICK x \in I : \A y \in I : ~ (<<y, x>> \in OpToRel(<, Nat))
    BY WFMin, NatLessThanWellFounded
  <1>2. ASSUME NEW y \in I PROVE x <= y
    <2>1. x \in Nat /\ y \in Nat
      OBVIOUS
    <2>2. ~ (y < x)
      BY <1>1, <2>1 DEF OpToRel
    <2> QED
      BY <2>1, <2>2
  <1> QED
    BY <1>2 DEF Min

----------------------------------------------------------------------------
(* The pins of a list.                                                     *)

\* PinAt is where an endpoint stands first, 0 when it does not stand there.
LEMMA PinAtIsFirst ==
  ASSUME NEW h \in Seq(Pins), NEW e
  PROVE  /\ PinAt(h, e) \in 0 .. Len(h)
         /\ PinAt(h, e) = 0 => \A j \in 1 .. Len(h) : h[j].end # e
         /\ PinAt(h, e) # 0 => /\ h[PinAt(h, e)].end = e
                               /\ \A j \in 1 .. Len(h) : h[j].end = e => PinAt(h, e) <= j
  <1> DEFINE I == {i \in 1 .. Len(h) : h[i].end = e}
  <1>1. PinAt(h, e) = IF I # {} THEN Min(I) ELSE 0
    BY DEF PinAt, SelectInSeq
  <1>2. Len(h) \in Nat
    BY LenProperties
  <1>3. CASE I = {}
    BY <1>1, <1>2, <1>3
  <1>4. CASE I # {}
    <2>1. I \in SUBSET Nat
      BY <1>2
    <2>2. Min(I) \in I /\ \A i \in I : Min(I) <= i
      BY <2>1, <1>4, MinExists
    <2>3. PinAt(h, e) = Min(I)
      BY <1>1, <1>4
    <2>4. PinAt(h, e) \in 1 .. Len(h) /\ h[PinAt(h, e)].end = e
      BY <2>2, <2>3
    <2> QED
      BY <2>2, <2>3, <2>4, <1>2
  <1> QED
    BY <1>3, <1>4

\* ... and nothing else is.
LEMMA PinAtIsUnique ==
  ASSUME NEW h \in Seq(Pins), NEW e, NEW i \in 1 .. Len(h), h[i].end = e,
         \A j \in 1 .. Len(h) : h[j].end = e => i <= j
  PROVE  PinAt(h, e) = i
  <1>1. PinAt(h, e) # 0
    BY PinAtIsFirst, LenProperties
  <1>2. PinAt(h, e) \in 1 .. Len(h) /\ Len(h) \in Nat
    BY <1>1, PinAtIsFirst, LenProperties
  <1>3. h[PinAt(h, e)].end = e /\ PinAt(h, e) <= i
    BY <1>1, PinAtIsFirst
  <1>4. i <= PinAt(h, e)
    BY <1>2, <1>3
  <1> QED
    BY <1>2, <1>3, <1>4

\* Overwriting the key of the endpoint's own pin.
Overwritten(h, e, k) == [h EXCEPT ![PinAt(h, e)] = [end |-> e, key |-> k]]

LEMMA OverwrittenPin ==
  ASSUME NEW h \in Seq(Pins), NEW e \in Ends, NEW k \in Keys, PinAt(h, e) # 0
  PROVE  LET new == Overwritten(h, e, k)
         IN /\ new \in Seq(Pins) /\ Len(new) = Len(h)
            /\ \A j \in 1 .. Len(h) : new[j] = h[j] \/ new[j] = [end |-> e, key |-> k]
            /\ \A f \in Ends : Find(new, f) = IF f = e THEN k ELSE Find(h, f)
  <1> DEFINE at == PinAt(h, e)
             pin == [end |-> e, key |-> k]
             new == Overwritten(h, e, k)
  <1>1. at \in 1 .. Len(h) /\ h[at].end = e /\ Len(h) \in Nat
    BY PinAtIsFirst, LenProperties
  <1>5. pin \in Pins
    BY DEF Pins
  <1> HIDE DEF at, pin
  <1>6. /\ new \in Seq(Pins) /\ Len(new) = Len(h)
        /\ \A j \in 1 .. Len(h) : new[j] = IF j = at THEN pin ELSE h[j]
    BY <1>1, <1>5, ExceptSeq DEF Overwritten, at, pin
  <1>7. ASSUME NEW j \in 1 .. Len(h) PROVE new[j].end = h[j].end
    BY <1>1, <1>6 DEF pin
  <1> HIDE DEF new
  <1>8. ASSUME NEW f \in Ends PROVE PinAt(new, f) = PinAt(h, f)
    <2>1. CASE PinAt(h, f) = 0
      <3>1. \A j \in 1 .. Len(new) : new[j].end # f
        BY <2>1, <1>6, <1>7, PinAtIsFirst
      <3> QED
        BY <3>1, <2>1, <1>6, <1>1, PinAtIsFirst
    <2>2. CASE PinAt(h, f) # 0
      <3> DEFINE i == PinAt(h, f)
      <3>1. i \in 1 .. Len(h)
        BY <2>2, PinAtIsFirst, <1>1
      <3>2. h[i].end = f /\ \A j \in 1 .. Len(h) : h[j].end = f => i <= j
        BY <2>2, PinAtIsFirst
      <3> HIDE DEF i
      <3>3. new[i].end = f /\ \A j \in 1 .. Len(new) : new[j].end = f => i <= j
        BY <3>1, <3>2, <1>6, <1>7
      <3> QED
        BY <3>1, <3>3, <1>6, PinAtIsUnique DEF i
    <2> QED
      BY <2>1, <2>2
  <1>9. ASSUME NEW f \in Ends PROVE Find(new, f) = IF f = e THEN k ELSE Find(h, f)
    <2>1. CASE f = e
      BY <2>1, <1>8, <1>6, <1>1 DEF Find, at, pin
    <2>2. CASE f # e
      <3>1. PinAt(h, f) # 0 => PinAt(h, f) \in 1 .. Len(h) /\ PinAt(h, f) # at
        BY <2>2, PinAtIsFirst, <1>1
      <3> QED
        BY <2>2, <3>1, <1>8, <1>6 DEF Find
    <2> QED
      BY <2>1, <2>2
  <1> QED
    BY <1>6, <1>9 DEF new, at, pin

\* A first pin for an endpoint.
LEMMA AppendedPin ==
  ASSUME NEW h \in Seq(Pins), NEW e \in Ends, NEW k \in Keys, PinAt(h, e) = 0
  PROVE  LET new == Append(h, [end |-> e, key |-> k])
         IN /\ new \in Seq(Pins) /\ Len(new) = Len(h) + 1
            /\ \A j \in 1 .. Len(new) : \/ j \in 1 .. Len(h) /\ new[j] = h[j]
                                        \/ new[j] = [end |-> e, key |-> k]
            /\ \A f \in Ends : Find(new, f) = IF f = e THEN k ELSE Find(h, f)
  <1> DEFINE pin == [end |-> e, key |-> k]
             new == Append(h, pin)
  <1>1. pin \in Pins /\ Len(h) \in Nat
    BY LenProperties DEF Pins
  <1>2. pin.end = e /\ pin.key = k
    OBVIOUS
  <1> HIDE DEF pin
  <1>3. /\ new \in Seq(Pins) /\ Len(new) = Len(h) + 1
        /\ \A j \in 1 .. Len(h) : new[j] = h[j]
        /\ new[Len(h) + 1] = pin
    BY <1>1, AppendProperties
  <1> HIDE DEF new
  <1>4. ASSUME NEW f \in Ends PROVE Find(new, f) = IF f = e THEN k ELSE Find(h, f)
    <2>1. CASE f = e
      <3>1. \A j \in 1 .. Len(h) : new[j].end # e
        BY <1>3, PinAtIsFirst
      <3>2. Len(h) + 1 \in 1 .. Len(new) /\ new[Len(h) + 1].end = e
        BY <1>1, <1>2, <1>3
      <3>3. \A j \in 1 .. Len(new) : new[j].end = e => Len(h) + 1 <= j
        BY <3>1, <1>1, <1>3
      <3>4. PinAt(new, e) = Len(h) + 1
        BY <3>2, <3>3, <1>3, PinAtIsUnique
      <3> QED
        BY <2>1, <3>4, <1>1, <1>2, <1>3 DEF Find
    <2>2. CASE f # e /\ PinAt(h, f) = 0
      <3>1. \A j \in 1 .. Len(new) : new[j].end # f
        BY <2>2, <1>1, <1>2, <1>3, PinAtIsFirst
      <3>2. PinAt(new, f) = 0
        <4>1. PinAt(new, f) \in 0 .. Len(new) /\ Len(new) \in Nat
          BY <1>1, <1>3, PinAtIsFirst
        <4>2. PinAt(new, f) # 0 => new[PinAt(new, f)].end = f
          BY <1>3, PinAtIsFirst
        <4> QED
          BY <4>1, <4>2, <3>1
      <3> QED
        BY <2>2, <3>2 DEF Find
    <2>3. CASE f # e /\ PinAt(h, f) # 0
      <3> DEFINE i == PinAt(h, f)
      <3>1. i \in 1 .. Len(h)
        BY <2>3, PinAtIsFirst, <1>1
      <3>2. h[i].end = f /\ \A j \in 1 .. Len(h) : h[j].end = f => i <= j
        BY <2>3, PinAtIsFirst
      <3> HIDE DEF i
      <3>3. i \in 1 .. Len(new) /\ new[i] = h[i]
        BY <3>1, <1>1, <1>3
      <3>4. \A j \in 1 .. Len(new) : new[j].end = f => i <= j
        BY <3>1, <3>2, <1>1, <1>3
      <3>5. PinAt(new, f) = i
        BY <3>2, <3>3, <3>4, <1>3, PinAtIsUnique
      <3> QED
        BY <2>3, <3>1, <3>3, <3>5 DEF Find, i
    <2> QED
      BY <2>1, <2>2, <2>3
  <1>5. \A j \in 1 .. Len(new) : (j \in 1 .. Len(h) /\ new[j] = h[j]) \/ new[j] = pin
    BY <1>1, <1>3
  <1> QED
    BY <1>3, <1>4, <1>5 DEF new, pin

\* SetPin: the list stays one of at most MaxHosts pins, no pin is in it that
\* was not there or is not the new one, and unless the list was full and the
\* endpoint not in it, the endpoint is now looked up with the new key and every
\* other endpoint as before.
LEMMA SetPinWorks ==
  ASSUME NEW h \in Memories("hosts"), NEW e \in Ends, NEW k \in Keys
  PROVE  /\ SetPin(h, e, k) \in Memories("hosts")
         /\ \A j \in DOMAIN SetPin(h, e, k) :
              SetPin(h, e, k)[j] \in {h[i] : i \in DOMAIN h} \cup {[end |-> e, key |-> k]}
         /\ ~ (PinAt(h, e) = 0 /\ Len(h) = MaxHosts) =>
              \A f \in Ends : Find(SetPin(h, e, k), f) = IF f = e THEN k ELSE Find(h, f)
  <1>1. h \in Seq(Pins) /\ Len(h) <= MaxHosts /\ Len(h) \in Nat /\ MaxHosts \in Nat
    BY MemoriesAre, LenProperties, SizesAssumption
  <1>2. DOMAIN h = 1 .. Len(h)
    BY <1>1, LenProperties
  <1>3. CASE PinAt(h, e) # 0
    <2> DEFINE new == Overwritten(h, e, k)
    <2>1. SetPin(h, e, k) = new
      <3> DEFINE at == PinAt(h, e)
      <3>1. at \in 1 .. Len(h) /\ h[at].end = e
        BY <1>1, <1>3, PinAtIsFirst
      <3>2. h[at] \in Pins
        BY <1>1, <3>1, ElementOfSeq
      <3>3. [h[at] EXCEPT !.key = k] = [end |-> e, key |-> k]
        BY <3>1, <3>2 DEF Pins
      <3>4. SetPin(h, e, k) = [h EXCEPT ![at].key = k]
        BY <1>3 DEF SetPin
      <3> QED
        BY <3>3, <3>4 DEF Overwritten
    <2>2. /\ new \in Seq(Pins) /\ Len(new) = Len(h)
          /\ \A j \in 1 .. Len(h) : new[j] = h[j] \/ new[j] = [end |-> e, key |-> k]
          /\ \A f \in Ends : Find(new, f) = IF f = e THEN k ELSE Find(h, f)
      BY <1>1, <1>3, OverwrittenPin
    <2> HIDE DEF new
    <2>3. new \in Memories("hosts") /\ DOMAIN new = 1 .. Len(h)
      BY <1>1, <2>2, MemoriesAre, LenProperties
    <2> QED
      BY <1>2, <2>1, <2>2, <2>3
  <1>4. CASE PinAt(h, e) = 0 /\ Len(h) < MaxHosts
    <2>1. SetPin(h, e, k) = Append(h, [end |-> e, key |-> k])
      BY <1>4 DEF SetPin
    <2> DEFINE new == SetPin(h, e, k)
    <2>2. /\ new \in Seq(Pins) /\ Len(new) = Len(h) + 1
          /\ \A j \in 1 .. Len(new) : \/ j \in 1 .. Len(h) /\ new[j] = h[j]
                                      \/ new[j] = [end |-> e, key |-> k]
          /\ \A f \in Ends : Find(new, f) = IF f = e THEN k ELSE Find(h, f)
      BY <1>1, <1>4, <2>1, AppendedPin
    <2> HIDE DEF new
    <2>3. new \in Memories("hosts") /\ DOMAIN new = 1 .. Len(new)
      BY <1>1, <1>4, <2>2, MemoriesAre, LenProperties
    <2> QED
      BY <1>2, <2>2, <2>3 DEF new
  <1>5. CASE PinAt(h, e) = 0 /\ ~ (Len(h) < MaxHosts)
    <2>1. SetPin(h, e, k) = h
      BY <1>5 DEF SetPin
    <2> QED
      BY <2>1, <1>1, <1>5
  <1> QED
    BY <1>3, <1>4, <1>5

----------------------------------------------------------------------------
(* What a load makes of a file.                                            *)

\* A list of pins cut after n units reads as the pins that are wholly there.
LEMMA CutHosts ==
  ASSUME NEW m \in Memories("hosts"), NEW n \in 0 .. 2 * Len(m) + 1
  PROVE  LET units == SubSeq(EncodeHosts(m), 1, n)
             whole == IF n = 0 THEN 0 ELSE (n - 1) \div 2
         IN /\ WellFormed("hosts", units)
            /\ whole <= Len(m) /\ DOMAIN DecodeHosts(units) = 1 .. whole
            /\ \A i \in 1 .. whole : DecodeHosts(units)[i] = m[i]
  <1> DEFINE enc == EncodeHosts(m)
             units == SubSeq(enc, 1, n)
             whole == IF n = 0 THEN 0 ELSE (n - 1) \div 2
             U(i) == IF i = 1 THEN Len(m)
                     ELSE IF i % 2 = 0 THEN m[i \div 2].end ELSE m[i \div 2].key
  <1>1. m \in Seq(Pins) /\ Len(m) \in Nat /\ Len(m) <= MaxHosts /\ MaxHosts \in Nat
    BY MemoriesAre, LenProperties, SizesAssumption
  <1>2. n \in Nat /\ whole \in Nat /\ whole <= Len(m) /\ 2 * whole <= n
    BY <1>1
  <1>3. \A i \in 1 .. n : enc[i] = U(i)
    BY <1>1 DEF EncodeHosts
  <1>4. /\ units \in Seq({U(i) : i \in 1 .. n}) /\ Len(units) = n
        /\ \A i \in 1 .. n : units[i] = U(i)
    <2>1. \A i \in 1 .. n : enc[i] \in {U(j) : j \in 1 .. n}
      BY <1>3
    <2> HIDE DEF enc, U
    <2>2. /\ units \in Seq({U(i) : i \in 1 .. n})
          /\ Len(units) = IF 1 <= n THEN n - 1 + 1 ELSE 0
          /\ \A i \in 1 .. n - 1 + 1 : units[i] = enc[1 + i - 1]
      BY <2>1, <1>2, SubSeqProperties
    <2>3. Len(units) = n
      BY <2>2, <1>2
    <2>4. ASSUME NEW i \in 1 .. n PROVE units[i] = U(i)
      <3>1. i \in 1 .. n - 1 + 1 /\ 1 + i - 1 = i
        BY <1>2
      <3> QED
        BY <3>1, <2>2, <1>3
    <2> QED
      BY <2>2, <2>3, <2>4
  <1>5. IsSequence(units) /\ DOMAIN units = 1 .. n
    BY <1>4, TypedIsSequence
  <1>6. ASSUME NEW i \in 1 .. n, i # 1
        PROVE  /\ i \div 2 \in 1 .. Len(m)
               /\ units[i] = IF i % 2 = 0 THEN m[i \div 2].end ELSE m[i \div 2].key
    <2>1. i \div 2 \in 1 .. Len(m)
      BY <1>1, <1>6
    <2> QED
      BY <2>1, <1>4, <1>6
  <1> HIDE DEF enc, units
  <1>7. WellFormed("hosts", units)
    <2>1. ASSUME NEW i \in 1 .. n
          PROVE  IF i = 1 THEN units[i] \in Nat
                 ELSE IF i % 2 = 0 THEN units[i] \in Ends ELSE units[i] \in Keys
      <3>1. CASE i = 1
        BY <3>1, <1>1, <1>4
      <3>2. CASE i # 1
        <4>1. m[i \div 2] \in Pins
          BY <3>2, <1>6, <1>1, ElementOfSeq
        <4> QED
          BY <4>1, <3>2, <1>6 DEF Pins
      <3> QED
        BY <3>1, <3>2
    <2> QED
      BY <2>1, <1>5 DEF WellFormed
  <1>8. DOMAIN DecodeHosts(units) = 1 .. whole
        /\ \A i \in 1 .. whole : DecodeHosts(units)[i] = m[i]
    <2>1. CASE n = 0
      <3>1. units = <<>>
        BY <2>1, <1>4, EmptySeq
      <3> QED
        BY <2>1, <3>1 DEF DecodeHosts
    <2>2. CASE n # 0
      <3>1. units # <<>> /\ units[1] = Len(m)
        BY <2>2, <1>2, <1>4, EmptySeq
      <3>2. DecodeHosts(units) =
              [i \in 1 .. whole |-> [end |-> units[2 * i], key |-> units[2 * i + 1]]]
        <4> DEFINE announced == IF units[1] < MaxHosts THEN units[1] ELSE MaxHosts
        <4>1. announced = Len(m)
          BY <3>1, <1>1
        <4>2. whole = (Len(units) - 1) \div 2
          BY <2>2, <1>4
        <4>3. (IF announced < whole THEN announced ELSE whole) = whole
          BY <4>1, <1>1, <1>2
        <4> HIDE DEF whole, announced
        <4> QED
          BY <3>1, <4>2, <4>3 DEF DecodeHosts, announced
      <3>3. ASSUME NEW i \in 1 .. whole
            PROVE  [end |-> units[2 * i], key |-> units[2 * i + 1]] = m[i]
        <4>1. /\ 2 * i \in 1 .. n /\ 2 * i # 1 /\ (2 * i) % 2 = 0 /\ (2 * i) \div 2 = i
              /\ 2 * i + 1 \in 1 .. n /\ 2 * i + 1 # 1
              /\ (2 * i + 1) % 2 # 0 /\ (2 * i + 1) \div 2 = i
          BY <2>2, <1>2
        <4>2. units[2 * i] = m[i].end
          BY <4>1, <1>6
        <4>3. units[2 * i + 1] = m[i].key
          BY <4>1, <1>6
        <4>4. m[i] \in Pins
          BY <1>1, <1>2, ElementOfSeq
        <4> QED
          BY <4>2, <4>3, <4>4 DEF Pins
      <3> HIDE DEF whole
      <3> QED
        BY <3>2, <3>3
    <2> QED
      BY <2>1, <2>2
  <1> QED
    BY <1>2, <1>7, <1>8 DEF units, enc

LEMMA ClampInRange ==
  /\ \A v \in Int : Clamp(v) \in 1 .. HardCap
  /\ \A v \in 1 .. HardCap : Clamp(v) = v
  BY SizesAssumption DEF Clamp

\* A load answers something the program can hold, whatever the file is.
LEMMA DecodeInRange ==
  ASSUME NEW s \in Sections, NEW units, WellFormed(s, units)
  PROVE  Decode(s, units) \in Memories(s)
  <1>1. IsSequence(units) /\ Len(units) \in Nat /\ DOMAIN units = 1 .. Len(units)
    BY DEF WellFormed, IsSequence
  <1>2. CASE s = "hosts"
    <2>1. CASE units = <<>>
      <3>1. Decode(s, units) = <<>>
        BY <2>1, <1>2, DecodeIs DEF DecodeHosts
      <3>2. <<>> \in Seq(Pins) /\ Len(<<>>) <= MaxHosts
        BY EmptySeq, SizesAssumption
      <3> QED
        BY <1>2, <3>1, <3>2, MemoriesAre
    <2>2. CASE units # <<>>
      <3>1. Len(units) # 0
        <4>1. units \in Seq({units[i] : i \in 1 .. Len(units)})
          BY <1>1, SequenceIsTyped
        <4> QED
          BY <4>1, <2>2, EmptySeq
      <3>2. units[1] \in Nat
        BY <1>1, <1>2, <3>1 DEF WellFormed
      <3> DEFINE announced == IF units[1] < MaxHosts THEN units[1] ELSE MaxHosts
                 whole == (Len(units) - 1) \div 2
                 n == IF announced < whole THEN announced ELSE whole
                 Pin(i) == [end |-> units[2 * i], key |-> units[2 * i + 1]]
      <3>3. whole \in Nat /\ 2 * whole + 1 <= Len(units)
        BY <1>1, <3>1
      <3>4. announced \in Nat /\ announced <= MaxHosts
        BY <3>2, SizesAssumption
      <3>5. DecodeHosts(units) = [i \in 1 .. n |-> Pin(i)]
        BY <2>2 DEF DecodeHosts
      <3> HIDE DEF announced
      <3>6. n \in Nat /\ n <= MaxHosts /\ n <= whole
        BY <3>3, <3>4, SizesAssumption
      <3>7. ASSUME NEW i \in 1 .. n PROVE Pin(i) \in Pins
        <4>1. /\ 2 * i \in DOMAIN units /\ 2 * i # 1 /\ (2 * i) % 2 = 0
              /\ 2 * i + 1 \in DOMAIN units /\ 2 * i + 1 # 1 /\ (2 * i + 1) % 2 # 0
          BY <1>1, <3>3, <3>6
        <4>2. units[2 * i] \in Ends /\ units[2 * i + 1] \in Keys
          BY <4>1, <1>2 DEF WellFormed
        <4> QED
          BY <4>2 DEF Pins
      <3> HIDE DEF n, Pin
      <3>8. [i \in 1 .. n |-> Pin(i)] \in Seq(Pins) /\ Len([i \in 1 .. n |-> Pin(i)]) = n
        <4>1. [i \in 1 .. n |-> Pin(i)] \in Seq(Pins)
          BY <3>6, <3>7, IsASeq
        <4> QED
          BY <4>1, <3>6, LenProperties
      <3> QED
        BY <1>2, <3>5, <3>6, <3>8, DecodeIs, MemoriesAre
    <2> QED
      BY <2>1, <2>2
  <1>3. CASE s = "profiles"
    <2>1. CASE Len(units) = 2
      BY <2>1, <1>3, DecodeIs DEF WellFormed, DecodeProfiles
    <2>2. CASE Len(units) # 2
      <3>1. <<>> \in Seq(Profiles) /\ Len(<<>>) <= MaxProfiles
        BY SizesAssumption, EmptySeq
      <3> QED
        BY <2>2, <1>3, <3>1, DecodeIs, MemoriesAre DEF DecodeProfiles
    <2> QED
      BY <2>1, <2>2
  <1>4. CASE s = "settings"
    <2>1. CASE Len(units) < 2
      <3>1. DecodeSettings(units) = [down |-> 2, up |-> 2]
        BY <2>1 DEF DecodeSettings
      <3>2. 2 \in 1 .. HardCap
        BY SizesAssumption
      <3>3. [down |-> 2, up |-> 2] \in Limits
        BY <3>2 DEF Limits
      <3> QED
        BY <1>4, <3>1, <3>3, DecodeIs, MemoriesAre
    <2>2. CASE ~ (Len(units) < 2)
      <3>1. units[1] \in Int /\ units[2] \in Int
        BY <2>2, <1>1, <1>4 DEF WellFormed
      <3>2. DecodeSettings(units) = [down |-> Clamp(units[1]), up |-> Clamp(units[2])]
        BY <2>2 DEF DecodeSettings
      <3>3. DecodeSettings(units) \in Limits
        BY <3>1, <3>2, ClampInRange DEF Limits
      <3> QED
        BY <1>4, <3>3, DecodeIs, MemoriesAre
    <2> QED
      BY <2>1, <2>2
  <1>5. CASE s = "dir"
    <2>1. DecodeDir(units) \in ExistingDirs
      BY DirsAssumption DEF DecodeDir
    <2> QED
      BY <1>5, <2>1, DecodeIs, MemoriesAre
  <1> QED
    BY <1>2, <1>3, <1>4, <1>5 DEF Sections

LEMMA EmptyIsWellFormed ==
  ASSUME NEW s PROVE WellFormed(s, <<>>)
  <1>1. IsSequence(<<>>) /\ DOMAIN <<>> = {} /\ Len(<<>>) = 0
    <2>1. <<>> \in Seq({}) /\ Len(<<>>) = 0
      BY EmptySeq
    <2>2. IsSequence(<<>>) /\ DOMAIN <<>> = 1 .. Len(<<>>)
      BY <2>1, TypedIsSequence
    <2> QED
      BY <2>1, <2>2
  <1> QED
    BY <1>1 DEF WellFormed

\* What is saved, whole or cut short, is a file some load can be given, and
\* whole it reads as what was saved.
LEMMA SavedReadsBack ==
  ASSUME NEW s \in Sections, NEW m \in Memories(s)
  PROVE  /\ IsSequence(Encode(s, m))
         /\ \A n \in 0 .. Len(Encode(s, m)) : WellFormed(s, SubSeq(Encode(s, m), 1, n))
         /\ Decode(s, SubSeq(Encode(s, m), 1, Len(Encode(s, m)))) = m
  <1>1. CASE s = "hosts"
    <2>1. m \in Memories("hosts") /\ m \in Seq(Pins) /\ Len(m) \in Nat /\ DOMAIN m = 1 .. Len(m)
      BY <1>1, MemoriesAre, LenProperties
    <2>2. Encode(s, m) = EncodeHosts(m) /\ \A u : Decode(s, u) = DecodeHosts(u)
      BY <1>1, EncodeIs, DecodeIs
    <2>3. EncodeHosts(m) \in Seq({EncodeHosts(m)[i] : i \in 1 .. 2 * Len(m) + 1})
          /\ Len(EncodeHosts(m)) = 2 * Len(m) + 1
      <3> DEFINE U(i) == IF i = 1 THEN Len(m)
                         ELSE IF i % 2 = 0 THEN m[i \div 2].end ELSE m[i \div 2].key
                 N == 2 * Len(m) + 1
      <3>1. EncodeHosts(m) = [i \in 1 .. N |-> U(i)]
        BY DEF EncodeHosts
      <3>2. N \in Nat
        BY <2>1
      <3> HIDE DEF U, N
      <3>3. \A i \in 1 .. N : EncodeHosts(m)[i] = U(i)
        BY <3>1
      <3>4. [i \in 1 .. N |-> U(i)] \in Seq({EncodeHosts(m)[i] : i \in 1 .. N})
        BY <3>2, <3>3, IsASeq
      <3>5. Len([i \in 1 .. N |-> U(i)]) = N
        BY <3>2, <3>4, LenProperties
      <3> QED
        BY <3>1, <3>4, <3>5 DEF N
    <2>4. IsSequence(EncodeHosts(m))
      BY <2>3, TypedIsSequence
    <2>5. \A n \in 0 .. Len(EncodeHosts(m)) : WellFormed("hosts", SubSeq(EncodeHosts(m), 1, n))
      BY <2>1, <2>3, CutHosts
    <2>6. DecodeHosts(SubSeq(EncodeHosts(m), 1, 2 * Len(m) + 1)) = m
      <3> DEFINE back == DecodeHosts(SubSeq(EncodeHosts(m), 1, 2 * Len(m) + 1))
                 N == 2 * Len(m) + 1
      <3>1. N \in 0 .. 2 * Len(m) + 1 /\ N # 0 /\ (N - 1) \div 2 = Len(m)
        <4>1. Len(m) \in Nat /\ N = 2 * Len(m) + 1
          BY <2>1
        <4> QED
          BY ONLY <4>1
      <3>2. DOMAIN back = 1 .. Len(m) /\ \A i \in 1 .. Len(m) : back[i] = m[i]
        BY <2>1, <3>1, CutHosts
      <3>3. back \in Memories("hosts")
        BY <2>1, <3>1, CutHosts, DecodeInRange, DecodeIs DEF Sections
      <3> HIDE DEF back
      <3>4. back \in Seq(Pins) /\ Len(back) = Len(m)
        BY <2>1, <3>2, <3>3, MemoriesAre, LenProperties
      <3> QED
        BY <2>1, <3>2, <3>4, SeqEqual DEF back
    <2> QED
      BY <1>1, <2>2, <2>3, <2>4, <2>5, <2>6
  <1>2. CASE s = "profiles"
    <2> DEFINE units == <<m, "seal">>
    <2>1. Encode(s, m) = units /\ \A u : Decode(s, u) = DecodeProfiles(u)
      BY <1>2, EncodeIs, DecodeIs DEF EncodeProfiles
    <2>2. units \in Seq({m, "seal"}) /\ Len(units) = 2 /\ units[1] = m
      OBVIOUS
    <2>3. IsSequence(units)
      BY <2>2, TypedIsSequence
    <2> HIDE DEF units
    <2>4. ASSUME NEW n \in 0 .. 2
          PROVE  /\ WellFormed("profiles", SubSeq(units, 1, n))
                 /\ n = 2 => Len(SubSeq(units, 1, n)) = 2 /\ SubSeq(units, 1, n)[1] = m
      <3>1. /\ SubSeq(units, 1, n) \in Seq({m, "seal"})
            /\ Len(SubSeq(units, 1, n)) = n
            /\ n = 2 => SubSeq(units, 1, n)[1] = m
        <4>1. \A i \in 1 .. n : units[i] \in {m, "seal"}
          BY <2>2, ElementOfSeq
        <4>2. /\ SubSeq(units, 1, n) \in Seq({m, "seal"})
              /\ Len(SubSeq(units, 1, n)) = IF 1 <= n THEN n - 1 + 1 ELSE 0
              /\ \A i \in 1 .. n - 1 + 1 : SubSeq(units, 1, n)[i] = units[1 + i - 1]
          BY <4>1, SubSeqProperties
        <4> QED
          BY <4>2, <2>2
      <3>2. IsSequence(SubSeq(units, 1, n))
        BY <3>1, TypedIsSequence
      <3> QED
        BY <3>1, <3>2, <1>2 DEF WellFormed
    <2>5. /\ WellFormed("profiles", SubSeq(units, 1, 0))
          /\ DecodeProfiles(SubSeq(units, 1, 2)) = m
      BY <2>4 DEF DecodeProfiles
    <2>6. \A n \in 0 .. 2 : WellFormed("profiles", SubSeq(units, 1, n))
      BY <2>4
    <2> QED
      BY <1>2, <2>1, <2>2, <2>3, <2>5, <2>6
  <1>3. CASE s = "settings"
    <2> DEFINE units == <<Clamp(m.down), Clamp(m.up)>>
    <2>1. Encode(s, m) = units /\ \A u : Decode(s, u) = DecodeSettings(u)
      BY <1>3, EncodeIs, DecodeIs DEF EncodeSettings
    <2>2. m \in Limits /\ m.down \in 1 .. HardCap /\ m.up \in 1 .. HardCap
      <3>1. m \in Limits
        BY <1>3, MemoriesAre
      <3> QED
        BY <3>1 DEF Limits
    <2>3. Clamp(m.down) = m.down /\ Clamp(m.up) = m.up
      BY <2>2, ClampInRange
    <2>4. units \in Seq(Int) /\ Len(units) = 2 /\ units[1] = m.down /\ units[2] = m.up
      BY <2>2, <2>3, SizesAssumption
    <2>5. IsSequence(units)
      BY <2>4, TypedIsSequence
    <2> HIDE DEF units
    <2>6. ASSUME NEW n \in 0 .. 2
          PROVE  /\ WellFormed("settings", SubSeq(units, 1, n))
                 /\ n = 2 => /\ Len(SubSeq(units, 1, n)) = 2
                             /\ SubSeq(units, 1, n)[1] = m.down
                             /\ SubSeq(units, 1, n)[2] = m.up
      <3>1. /\ SubSeq(units, 1, n) \in Seq(Int)
            /\ Len(SubSeq(units, 1, n)) = n
            /\ n = 2 => /\ SubSeq(units, 1, n)[1] = m.down
                        /\ SubSeq(units, 1, n)[2] = m.up
        <4>1. \A i \in 1 .. n : units[i] \in Int
          <5>1. \A i \in 1 .. n : i \in 1 .. Len(units)
            BY <2>4
          <5> QED
            BY <5>1, <2>4, ElementOfSeq
        <4>2. /\ SubSeq(units, 1, n) \in Seq(Int)
              /\ Len(SubSeq(units, 1, n)) = IF 1 <= n THEN n - 1 + 1 ELSE 0
              /\ \A i \in 1 .. n - 1 + 1 : SubSeq(units, 1, n)[i] = units[1 + i - 1]
          BY <4>1, SubSeqProperties
        <4> QED
          BY <4>2, <2>4
      <3>2. IsSequence(SubSeq(units, 1, n)) /\ DOMAIN SubSeq(units, 1, n) = 1 .. n
        BY <3>1, TypedIsSequence
      <3>3. \A i \in 1 .. n : SubSeq(units, 1, n)[i] \in Int
        BY <3>1, ElementOfSeq
      <3> QED
        BY <3>1, <3>2, <3>3 DEF WellFormed
    <2>7. DecodeSettings(SubSeq(units, 1, 2)) = [down |-> m.down, up |-> m.up]
      BY <2>2, <2>6, ClampInRange DEF DecodeSettings
    <2>8. [down |-> m.down, up |-> m.up] = m
      BY <2>2 DEF Limits
    <2> QED
      BY <1>3, <2>1, <2>4, <2>5, <2>6, <2>7, <2>8
  <1>4. CASE s = "dir"
    <2> DEFINE All == {m[i] : i \in 1 .. Len(m)}
    <2>1. m \in ExistingDirs /\ IsSequence(m) /\ Len(m) \in 1 .. MaxDir /\ Len(m) \in Nat
      BY <1>4, MemoriesAre, DirsAssumption, SizesAssumption
    <2>2. m \in Seq(All)
      BY <2>1, SequenceIsTyped
    <2>3. SubSeq(m, 1, Len(m)) = m
      BY <2>2, SubSeqFull
    <2>4. Encode(s, m) = m /\ \A u : Decode(s, u) = DecodeDir(u)
      <3>1. EncodeDir(m) = SubSeq(m, 1, IF Len(m) < MaxDir THEN Len(m) ELSE MaxDir)
        BY DEF EncodeDir
      <3>2. (IF Len(m) < MaxDir THEN Len(m) ELSE MaxDir) = Len(m)
        BY <2>1, SizesAssumption
      <3> QED
        BY <1>4, <2>3, <3>1, <3>2, EncodeIs, DecodeIs
    <2>5. \A n \in 0 .. Len(m) : WellFormed("dir", SubSeq(m, 1, n))
      <3> SUFFICES ASSUME NEW n \in 0 .. Len(m) PROVE WellFormed("dir", SubSeq(m, 1, n))
        OBVIOUS
      <3>1. \A i \in 1 .. n : m[i] \in All
        BY <2>1
      <3> HIDE DEF All
      <3>2. SubSeq(m, 1, n) \in Seq(All)
        BY <3>1, <2>1, SubSeqProperties
      <3>3. IsSequence(SubSeq(m, 1, n))
        BY <3>2, TypedIsSequence
      <3> QED
        BY <3>3 DEF WellFormed
    <2>6. DecodeDir(m) = m
      BY <2>1 DEF DecodeDir
    <2> QED
      BY <1>4, <2>1, <2>3, <2>4, <2>5, <2>6
  <1> QED
    BY <1>1, <1>2, <1>3, <1>4 DEF Sections

----------------------------------------------------------------------------
(* The inductive invariant.                                                *)

Instances(s) == [pc : Pcs, mem : Memories(s), sel : 0 .. MaxProfiles,
                 from : Seq(Profiles)]

\* One instance by itself: its selection is real, until the load is over its
\* memory is what no file gives, and only the connections have a selection.
Sound(s, a) ==
  /\ IF a.sel = 0 THEN a.from = <<>>
     ELSE a.sel \in DOMAIN a.mem /\ a.from = <<a.mem[a.sel]>>
  /\ a.pc \in {"off", "load", "read"} =>
       a.mem = Decode(s, <<>>) /\ a.sel = 0 /\ a.from = <<>>
  /\ s # "profiles" => a.sel = 0 /\ a.from = <<>>

AllSound == \A p \in Procs : Sound(section, app[p])

\* Who has the file open for writing has it alone ...
OneWriter == \A p, q \in Procs :
  p # q /\ app[p].pc \in {"write", "close"} => app[q].pc \notin {"read", "write", "close"}

\* ... and who has emptied it has put everybody else out of date.
OthersMiss == \A p, q \in Procs :
  p # q /\ app[p].pc = "write" => q \in missed \/ app[q].pc \in {"off", "load"}

\* A file that was written whole, or loaded, is the memory of who did it.
FileIsShown == \A p \in Procs :
  app[p].pc \in {"idle", "close"} /\ p \notin missed => Decode(section, file) = app[p].mem

Alone == ~mishap => \A p, q \in Procs : Running(p) /\ Running(q) => p = q

\* The accepted keys are in the memory of the instance, and in the file
\* whenever no save is under way.
Pinned ==
  section = "hosts" /\ ~mishap =>
    /\ \A p \in Procs : app[p].pc \notin {"off", "load", "read"} =>
         \A e \in Ends : Find(app[p].mem, e) = latest[e]
    /\ (\A p \in Procs : app[p].pc \notin {"save", "write"}) =>
         \A e \in Ends : Find(DecodeHosts(file), e) = latest[e]

\* Every pin that is anywhere was accepted.
TrustedPins ==
  section = "hosts" =>
    /\ \A i \in DOMAIN DecodeHosts(file) : DecodeHosts(file)[i] \in trusted
    /\ \A p \in Procs : \A i \in DOMAIN app[p].mem : app[p].mem[i] \in trusted

IInv == /\ TypeOK /\ AllSound
        /\ OneWriter /\ OthersMiss /\ FileIsShown
        /\ Alone /\ Pinned /\ TrustedPins

\* Overwriting one field of an instance.
LEMMA InstanceUpdates ==
  ASSUME NEW s, NEW a \in Instances(s)
  PROVE  /\ a.pc \in Pcs /\ a.mem \in Memories(s) /\ a.sel \in 0 .. MaxProfiles
         /\ a.from \in Seq(Profiles)
         /\ \A c \in Pcs : /\ [a EXCEPT !.pc = c] \in Instances(s)
                           /\ [a EXCEPT !.pc = c].pc = c
                           /\ [a EXCEPT !.pc = c].mem = a.mem
                           /\ [a EXCEPT !.pc = c].sel = a.sel
                           /\ [a EXCEPT !.pc = c].from = a.from
         /\ \A m \in Memories(s) : /\ [a EXCEPT !.mem = m] \in Instances(s)
                                   /\ [a EXCEPT !.mem = m].pc = a.pc
                                   /\ [a EXCEPT !.mem = m].mem = m
                                   /\ [a EXCEPT !.mem = m].sel = a.sel
                                   /\ [a EXCEPT !.mem = m].from = a.from
  BY DEF Instances

LEMMA OffIsSound ==
  ASSUME section \in Sections
  PROVE  /\ Off \in Instances(section) /\ Off.pc = "off" /\ Off.mem = Decode(section, <<>>)
         /\ Off.sel = 0 /\ Off.from = <<>>
  <1>1. Decode(section, <<>>) \in Memories(section)
    BY EmptyIsWellFormed, DecodeInRange
  <1>2. "off" \in Pcs /\ 0 \in 0 .. MaxProfiles /\ <<>> \in Seq(Profiles)
    BY SizesAssumption, EmptySeq DEF Pcs
  <1> QED
    BY <1>1, <1>2 DEF Off, Nothing, Instances

\* A step of one instance leaves the records of the others alone.
LEMMA OneStep ==
  ASSUME TypeOK, AllSound, NEW p \in Procs, NEW r \in Instances(section),
         Sound(section, r), app' = [app EXCEPT ![p] = r], section' = section
  PROVE  /\ app' \in [Procs -> Instances(section)] /\ AllSound'
         /\ app'[p] = r /\ \A q \in Procs : q # p => app'[q] = app[q]
  <1>1. app \in [Procs -> Instances(section)]
    BY DEF TypeOK, Instances
  <1>2. /\ app' \in [Procs -> Instances(section)]
        /\ app'[p] = r /\ \A q \in Procs : q # p => app'[q] = app[q]
    BY <1>1
  <1>3. ASSUME NEW q \in Procs PROVE Sound(section, app'[q])
    BY <1>2 DEF AllSound
  <1> QED
    BY <1>2, <1>3 DEF AllSound

LEMMA InitIInv == Init => IInv
  <1> SUFFICES ASSUME Init PROVE IInv
    OBVIOUS
  <1> DEFINE pins == IF section = "hosts" THEN DecodeHosts(file) ELSE <<>>
  <1>1. /\ section \in Sections /\ app = [p \in Procs |-> Off]
        /\ edits = 0 /\ starts = 0 /\ missed = {} /\ mishap = FALSE
        /\ trusted = {pins[i] : i \in DOMAIN pins}
        /\ latest = [e \in Ends |-> Find(pins, e)]
    BY DEF Init
  <1>2. WellFormed(section, file)
    BY FoundAssumption DEF Init
  <1>3. /\ Off \in Instances(section) /\ Off.pc = "off" /\ Off.mem = Decode(section, <<>>)
        /\ Off.sel = 0 /\ Off.from = <<>>
    BY <1>1, OffIsSound
  <1>4. pins \in Seq(Pins)
    <2>1. section = "hosts" => DecodeHosts(file) \in Memories("hosts")
      BY <1>1, <1>2, DecodeInRange, DecodeIs
    <2>2. <<>> \in Seq(Pins)
      BY EmptySeq
    <2> QED
      BY <2>1, <2>2, MemoriesAre
  <1> HIDE DEF pins
  <1>5. trusted \subseteq Pins
    BY <1>1, <1>4, LenProperties, ElementOfSeq
  <1>6. latest \in [Ends -> Keys \cup {NoKey}]
    <2>1. ASSUME NEW e \in Ends PROVE Find(pins, e) \in Keys \cup {NoKey}
      <3>1. PinAt(pins, e) # 0 => pins[PinAt(pins, e)] \in Pins
        BY <1>4, PinAtIsFirst, ElementOfSeq, LenProperties
      <3> QED
        BY <3>1 DEF Find, Pins
    <2> QED
      BY <1>1, <2>1
  <1>7. TypeOK
    <2>1. app \in [Procs -> Instances(section)]
      BY <1>1, <1>3
    <2>2. edits \in 0 .. MaxEdits /\ starts \in 0 .. MaxStarts
      BY <1>1, SizesAssumption
    <2> QED
      BY <1>1, <1>2, <1>5, <1>6, <2>1, <2>2 DEF TypeOK, Instances
  <1>8. \A p \in Procs : app[p] = Off
    BY <1>1
  <1>9. AllSound
    BY <1>3, <1>8 DEF AllSound, Sound
  <1>10. OneWriter /\ OthersMiss /\ FileIsShown /\ Alone
    BY <1>3, <1>8 DEF OneWriter, OthersMiss, FileIsShown, Alone, Running
  <1>11. Pinned
    <2>1. section = "hosts" => \A e \in Ends : Find(DecodeHosts(file), e) = latest[e]
      BY <1>1 DEF pins
    <2> QED
      BY <2>1, <1>3, <1>8 DEF Pinned
  <1>12. TrustedPins
    <2> SUFFICES ASSUME section = "hosts" PROVE TrustedPins
      BY DEF TrustedPins
    <2>1. trusted = {DecodeHosts(file)[i] : i \in DOMAIN DecodeHosts(file)}
      BY <1>1 DEF pins
    <2>2. Off.mem = <<>> /\ DOMAIN <<>> = {}
      BY <1>3, DecodeIs DEF DecodeHosts
    <2> QED
      BY <2>1, <2>2, <1>8 DEF TrustedPins
  <1> QED
    BY <1>7, <1>9, <1>10, <1>11, <1>12 DEF IInv

\* A step that leaves the file, the keys and the other instances alone, and
\* after which the instance is neither saving nor writing.
LEMMA FileStays ==
  ASSUME IInv, NEW p \in Procs, NEW r \in Instances(section), Sound(section, r),
         app' = [app EXCEPT ![p] = r],
         UNCHANGED <<section, file, edits, trusted, latest>>,
         starts' \in 0 .. MaxStarts, missed' \subseteq Procs, mishap' \in BOOLEAN,
         mishap => mishap', missed \ {p} \subseteq missed',
         r.pc \in {"off", "load", "read", "idle"},
         r.pc = "read" => Writers = {},
         (\E q \in Procs \ {p} : app[q].pc = "write") =>
            p \in missed' \/ r.pc \in {"off", "load"},
         r.pc = "idle" /\ p \notin missed' => Decode(section, file) = r.mem,
         ~mishap' => /\ r.pc = "off" \/ \A q \in Procs \ {p} : ~Running(q)
                     /\ app[p].pc \notin {"save", "write"},
         section = "hosts" =>
           /\ \A i \in DOMAIN r.mem : r.mem[i] \in trusted
           /\ ~mishap' /\ r.pc = "idle" => \A e \in Ends : Find(r.mem, e) = latest[e]
  PROVE  IInv'
  <1>1. /\ app' \in [Procs -> Instances(section)] /\ AllSound'
        /\ app'[p] = r /\ \A q \in Procs : q # p => app'[q] = app[q]
    BY OneStep DEF IInv
  <1>2. TypeOK'
    BY <1>1 DEF IInv, TypeOK, Instances
  <1>3. OneWriter'
    <2> SUFFICES ASSUME NEW a \in Procs, NEW b \in Procs, a # b,
                        app'[a].pc \in {"write", "close"}
                 PROVE  app'[b].pc \notin {"read", "write", "close"}
      BY DEF OneWriter
    <2>1. a # p /\ app[a].pc \in {"write", "close"}
      BY <1>1
    <2>2. CASE b = p
      BY <2>1, <2>2, <1>1 DEF Writers
    <2>3. CASE b # p
      BY <2>1, <2>3, <1>1 DEF IInv, OneWriter
    <2> QED
      BY <2>2, <2>3
  <1>4. OthersMiss'
    <2> SUFFICES ASSUME NEW a \in Procs, NEW b \in Procs, a # b, app'[a].pc = "write"
                 PROVE  b \in missed' \/ app'[b].pc \in {"off", "load"}
      BY DEF OthersMiss
    <2>1. a # p /\ app[a].pc = "write"
      BY <1>1
    <2>2. CASE b = p
      BY <2>1, <2>2, <1>1
    <2>3. CASE b # p
      BY <2>1, <2>3, <1>1 DEF IInv, OthersMiss
    <2> QED
      BY <2>2, <2>3
  <1>5. FileIsShown'
    <2> SUFFICES ASSUME NEW a \in Procs, app'[a].pc \in {"idle", "close"}, a \notin missed'
                 PROVE  Decode(section, file) = app'[a].mem
      BY DEF FileIsShown
    <2>1. CASE a = p
      BY <2>1, <1>1
    <2>2. CASE a # p
      BY <2>2, <1>1 DEF IInv, FileIsShown
    <2> QED
      BY <2>1, <2>2
  <1>6. Alone'
    <2> SUFFICES ASSUME ~mishap', NEW a \in Procs, NEW b \in Procs, a # b,
                        app'[a].pc # "off", app'[b].pc # "off"
                 PROVE  FALSE
      BY DEF Alone, Running
    <2>1. CASE a # p /\ b # p
      BY <2>1, <1>1 DEF IInv, Alone, Running
    <2>2. CASE a = p \/ b = p
      BY <2>2, <1>1 DEF Running
    <2> QED
      BY <2>1, <2>2
  <1>7. Pinned'
    <2> SUFFICES ASSUME section = "hosts", ~mishap'
                 PROVE  /\ \A q \in Procs : app'[q].pc \notin {"off", "load", "read"} =>
                             \A e \in Ends : Find(app'[q].mem, e) = latest[e]
                        /\ (\A q \in Procs : app'[q].pc \notin {"save", "write"}) =>
                             \A e \in Ends : Find(DecodeHosts(file), e) = latest[e]
      BY DEF Pinned
    <2>1. ASSUME NEW q \in Procs, app'[q].pc \notin {"off", "load", "read"}, NEW e \in Ends
          PROVE  Find(app'[q].mem, e) = latest[e]
      <3>1. CASE q = p
        BY <2>1, <3>1, <1>1
      <3>2. CASE q # p
        BY <2>1, <3>2, <1>1 DEF IInv, Pinned
      <3> QED
        BY <3>1, <3>2
    <2>2. ASSUME \A q \in Procs : app'[q].pc \notin {"save", "write"}
          PROVE  \A q \in Procs : app[q].pc \notin {"save", "write"}
      BY <2>2, <1>1
    <2> QED
      BY <2>1, <2>2 DEF IInv, Pinned
  <1>8. TrustedPins'
    BY <1>1 DEF IInv, TrustedPins
  <1> QED
    BY <1>1, <1>2, <1>3, <1>4, <1>5, <1>6, <1>7, <1>8 DEF IInv

\* A change of the memory that a save is to follow.
LEMMA MemoryChanges ==
  ASSUME IInv, NEW p \in Procs, NEW r \in Instances(section), Sound(section, r),
         Idle(p), r.pc = "save", app' = [app EXCEPT ![p] = r],
         UNCHANGED <<section, file, starts, missed>>,
         edits' \in 0 .. MaxEdits, trusted' \subseteq Pins, trusted \subseteq trusted',
         latest' \in [Ends -> Keys \cup {NoKey}],
         mishap' \in BOOLEAN, mishap => mishap',
         section = "hosts" =>
           /\ \A i \in DOMAIN r.mem : r.mem[i] \in trusted'
           /\ ~mishap' => \A e \in Ends : Find(r.mem, e) = latest'[e]
  PROVE  IInv'
  <1>1. /\ app' \in [Procs -> Instances(section)] /\ AllSound'
        /\ app'[p] = r /\ \A q \in Procs : q # p => app'[q] = app[q]
    BY OneStep DEF IInv
  <1>2. TypeOK'
    BY <1>1 DEF IInv, TypeOK, Instances
  <1>3. app[p].pc = "idle"
    BY DEF Idle
  <1>4. OneWriter' /\ OthersMiss'
    BY <1>1, <1>3 DEF IInv, OneWriter, OthersMiss
  <1>5. FileIsShown'
    BY <1>1 DEF IInv, FileIsShown
  <1>6. Alone'
    BY <1>1, <1>3 DEF IInv, Alone, Running
  <1>7. Pinned'
    <2> SUFFICES ASSUME section = "hosts", ~mishap'
                 PROVE  \A q \in Procs : app'[q].pc \notin {"off", "load", "read"} =>
                          \A e \in Ends : Find(app'[q].mem, e) = latest'[e]
      BY <1>1 DEF Pinned
    <2>1. ASSUME NEW q \in Procs, q # p PROVE app'[q].pc = "off"
      BY <2>1, <1>1, <1>3 DEF IInv, Alone, Running
    <2> QED
      BY <2>1, <1>1
  <1>8. TrustedPins'
    BY <1>1 DEF IInv, TrustedPins
  <1> QED
    BY <1>1, <1>2, <1>4, <1>5, <1>6, <1>7, <1>8 DEF IInv

LEMMA InstanceOf ==
  ASSUME IInv, NEW p \in Procs
  PROVE  app[p] \in Instances(section) /\ Sound(section, app[p])
  BY DEF IInv, TypeOK, Instances, AllSound

LEMMA StartKeeps == ASSUME IInv, NEW p \in Procs, Start(p) PROVE IInv'
  <1> DEFINE r == [Off EXCEPT !.pc = "load"]
  <1>1. Off \in Instances(section) /\ Off.mem = Decode(section, <<>>)
        /\ Off.sel = 0 /\ Off.from = <<>>
    BY OffIsSound DEF IInv, TypeOK
  <1>2. /\ r \in Instances(section) /\ r.pc = "load" /\ r.mem = Decode(section, <<>>)
        /\ r.sel = 0 /\ r.from = <<>>
    <2>1. "load" \in Pcs
      BY DEF Pcs
    <2> QED
      BY <1>1, <2>1, InstanceUpdates
  <1>3. app' = [app EXCEPT ![p] = r]
    BY DEF Start
  <1> HIDE DEF r
  <1>4. Sound(section, r)
    BY <1>2 DEF Sound
  <1>5. /\ app[p].pc = "off" /\ starts' \in 0 .. MaxStarts
        /\ mishap' = (mishap \/ \E q \in Procs \ {p} : Running(q))
        /\ missed' = missed \ {p}
        /\ UNCHANGED <<section, file, edits, trusted, latest>>
    BY SizesAssumption DEF Start, Running, IInv, TypeOK
  <1>6. missed \subseteq Procs /\ mishap \in BOOLEAN
    BY DEF IInv, TypeOK
  <1>7. section = "hosts" => DOMAIN r.mem = {}
    BY <1>2, DecodeIs DEF DecodeHosts
  <1> QED
    BY <1>2, <1>3, <1>4, <1>5, <1>6, <1>7, FileStays

LEMMA LoadOpenKeeps == ASSUME IInv, NEW p \in Procs, LoadOpen(p) PROVE IInv'
  <1> DEFINE r == [app[p] EXCEPT !.pc = "read"]
  <1>1. app[p] \in Instances(section) /\ Sound(section, app[p])
    BY InstanceOf
  <1>2. /\ r \in Instances(section) /\ r.pc = "read" /\ r.mem = app[p].mem
        /\ r.sel = app[p].sel /\ r.from = app[p].from
    <2>1. "read" \in Pcs
      BY DEF Pcs
    <2> QED
      BY <1>1, <2>1, InstanceUpdates
  <1>3. app' = [app EXCEPT ![p] = r] /\ app[p].pc = "load"
    BY DEF LoadOpen
  <1> HIDE DEF r
  <1>4. Sound(section, r)
    BY <1>1, <1>2, <1>3 DEF Sound
  <1>5. /\ Writers = {} /\ UNCHANGED <<section, file, edits, starts, trusted, latest, missed, mishap>>
        /\ missed \subseteq Procs /\ mishap \in BOOLEAN /\ starts \in 0 .. MaxStarts
    BY DEF LoadOpen, IInv, TypeOK
  <1>6. ~ \E q \in Procs \ {p} : app[q].pc = "write"
    BY <1>5 DEF Writers
  <1>7. ~mishap => \A q \in Procs \ {p} : ~Running(q)
    BY <1>3 DEF IInv, Alone, Running
  <1>8. section = "hosts" => \A i \in DOMAIN r.mem : r.mem[i] \in trusted
    BY <1>2 DEF IInv, TrustedPins
  <1> QED
    BY <1>2, <1>3, <1>4, <1>5, <1>6, <1>7, <1>8, FileStays

LEMMA LoadReadKeeps == ASSUME IInv, NEW p \in Procs, LoadRead(p) PROVE IInv'
  <1> DEFINE r == [Idled(app[p]) EXCEPT !.mem = Decode(section, file)]
  <1>1. app[p] \in Instances(section) /\ Sound(section, app[p]) /\ app[p].pc = "read"
    BY InstanceOf DEF LoadRead
  <1>2. Decode(section, file) \in Memories(section)
    BY DecodeInRange DEF IInv, TypeOK
  <1>3. /\ r \in Instances(section) /\ r.pc = "idle" /\ r.mem = Decode(section, file)
        /\ r.sel = 0 /\ r.from = <<>>
    <2>1. /\ Idled(app[p]) \in Instances(section) /\ Idled(app[p]).pc = "idle"
          /\ Idled(app[p]).sel = 0 /\ Idled(app[p]).from = <<>>
      <3>1. "idle" \in Pcs
        BY DEF Pcs
      <3> QED
        BY <1>1, <3>1, InstanceUpdates DEF Idled, Sound
    <2> QED
      BY <1>2, <2>1, InstanceUpdates
  <1>4. app' = [app EXCEPT ![p] = r]
    BY DEF LoadRead
  <1> HIDE DEF r
  <1>5. Sound(section, r)
    BY <1>3 DEF Sound
  <1>6. /\ UNCHANGED <<section, file, edits, starts, trusted, latest, mishap>>
        /\ missed' = missed \ {p}
        /\ missed \subseteq Procs /\ mishap \in BOOLEAN /\ starts \in 0 .. MaxStarts
    BY DEF LoadRead, IInv, TypeOK
  <1>7. ~ \E q \in Procs \ {p} : app[q].pc = "write"
    BY <1>1 DEF IInv, OneWriter
  <1>8. ~mishap => \A q \in Procs \ {p} : ~Running(q)
    BY <1>1 DEF IInv, Alone, Running
  <1>9. section = "hosts" => \A i \in DOMAIN r.mem : r.mem[i] \in trusted
    BY <1>3, DecodeIs DEF IInv, TrustedPins
  <1>10. ASSUME section = "hosts", ~mishap
         PROVE  \A e \in Ends : Find(r.mem, e) = latest[e]
    <2>1. \A q \in Procs : app[q].pc \notin {"save", "write"}
      BY <1>10, <1>1, <1>8 DEF Running
    <2>2. r.mem = DecodeHosts(file)
      BY <1>10, <1>3, DecodeIs
    <2> QED
      BY <1>10, <2>1, <2>2 DEF IInv, Pinned
  <1> QED
    BY <1>1, <1>3, <1>4, <1>5, <1>6, <1>7, <1>8, <1>9, <1>10, FileStays

LEMMA LoadFailsKeeps == ASSUME IInv, NEW p \in Procs, LoadFails(p) PROVE IInv'
  <1> DEFINE r == Idled(app[p])
             lost == file # <<>> \/ Writers # {}
  <1>1. app[p] \in Instances(section) /\ Sound(section, app[p]) /\ app[p].pc \in {"load", "read"}
    BY InstanceOf DEF LoadFails
  <1>2. /\ r \in Instances(section) /\ r.pc = "idle" /\ r.mem = Decode(section, <<>>)
        /\ r.sel = 0 /\ r.from = <<>> /\ r.mem = app[p].mem
    <2>1. "idle" \in Pcs
      BY DEF Pcs
    <2> QED
      BY <1>1, <2>1, InstanceUpdates DEF Idled, Sound
  <1>3. app' = [app EXCEPT ![p] = r]
    BY DEF LoadFails
  <1> HIDE DEF r
  <1>4. Sound(section, r)
    BY <1>2 DEF Sound
  <1>5. /\ UNCHANGED <<section, file, edits, starts, trusted, latest>>
        /\ missed' = (IF lost THEN missed \cup {p} ELSE missed)
        /\ mishap' = (mishap \/ lost)
        /\ missed \subseteq Procs /\ mishap \in BOOLEAN /\ starts \in 0 .. MaxStarts
    BY DEF LoadFails, IInv, TypeOK
  <1>6. (\E q \in Procs \ {p} : app[q].pc = "write") => lost
    BY DEF Writers
  <1>7. ~lost => file = <<>>
    OBVIOUS
  <1> HIDE DEF lost
  <1>8. ~mishap => \A q \in Procs \ {p} : ~Running(q)
    BY <1>1 DEF IInv, Alone, Running
  <1>9. section = "hosts" => \A i \in DOMAIN r.mem : r.mem[i] \in trusted
    BY <1>2 DEF IInv, TrustedPins
  <1>10. ASSUME section = "hosts", ~mishap'
         PROVE  \A e \in Ends : Find(r.mem, e) = latest[e]
    <2>1. ~mishap /\ ~lost
      BY <1>10, <1>5
    <2>2. \A q \in Procs : app[q].pc \notin {"save", "write"}
      BY <2>1, <1>1, <1>8 DEF Running
    <2>3. r.mem = DecodeHosts(file)
      BY <1>10, <1>2, <1>7, <2>1, DecodeIs
    <2> QED
      BY <1>10, <2>1, <2>2, <2>3 DEF IInv, Pinned
  <1>11. /\ mishap' \in BOOLEAN /\ (mishap => mishap') /\ missed' \subseteq Procs
         /\ missed \ {p} \subseteq missed'
    BY <1>5
  <1>12. p \notin missed' => Decode(section, file) = r.mem
    BY <1>2, <1>5, <1>7
  <1>13. (\E q \in Procs \ {p} : app[q].pc = "write") => p \in missed'
    BY <1>5, <1>6
  <1> QED
    BY <1>1, <1>2, <1>3, <1>4, <1>5, <1>8, <1>9, <1>10, <1>11, <1>12, <1>13, FileStays

LEMMA ExitKeeps == ASSUME IInv, NEW p \in Procs, Exit(p) PROVE IInv'
  <1>1. /\ Off \in Instances(section) /\ Off.pc = "off" /\ Off.mem = Decode(section, <<>>)
        /\ Off.sel = 0 /\ Off.from = <<>>
    BY OffIsSound DEF IInv, TypeOK
  <1>2. Sound(section, Off)
    BY <1>1 DEF Sound
  <1>3. /\ app' = [app EXCEPT ![p] = Off]
        /\ UNCHANGED <<section, file, edits, starts, trusted, latest, missed>>
        /\ mishap' = (mishap \/ app[p].pc \in {"save", "write"})
        /\ missed \subseteq Procs /\ mishap \in BOOLEAN /\ starts \in 0 .. MaxStarts
    BY DEF Exit, IInv, TypeOK
  <1>4. section = "hosts" => DOMAIN Off.mem = {}
    BY <1>1, DecodeIs DEF DecodeHosts
  <1> QED
    BY <1>1, <1>2, <1>3, <1>4, FileStays

\* The three steps after which the instance has gone back to idle, or stayed
\* there, with the memory it had.
LEMMA BackToIdle ==
  ASSUME IInv, NEW p \in Procs, NEW r \in Instances(section), Sound(section, r),
         r.pc = "idle", r.mem = app[p].mem, app' = [app EXCEPT ![p] = r],
         UNCHANGED <<section, file, edits, starts, trusted, latest>>,
         app[p].pc \in {"idle", "save", "close"},
         missed \subseteq missed', missed' \subseteq Procs,
         mishap' \in BOOLEAN, mishap => mishap',
         app[p].pc = "save" => p \in missed' /\ mishap'
  PROVE  IInv'
  <1>1. starts \in 0 .. MaxStarts
    BY DEF IInv, TypeOK
  <1>2. (\E q \in Procs \ {p} : app[q].pc = "write") => p \in missed'
    BY DEF IInv, OthersMiss
  <1>3. p \notin missed' => Decode(section, file) = r.mem
    BY DEF IInv, FileIsShown
  <1>4. ~mishap' => \A q \in Procs \ {p} : ~Running(q)
    BY DEF IInv, Alone, Running
  <1>5. section = "hosts" => \A i \in DOMAIN r.mem : r.mem[i] \in trusted
    BY DEF IInv, TrustedPins
  <1>6. section = "hosts" /\ ~mishap' => \A e \in Ends : Find(r.mem, e) = latest[e]
    BY DEF IInv, Pinned
  <1> QED
    BY <1>1, <1>2, <1>3, <1>4, <1>5, <1>6, FileStays

LEMMA IdledKeeps ==
  ASSUME IInv, NEW p \in Procs, app[p].pc \in {"save", "close"}
  PROVE  /\ Idled(app[p]) \in Instances(section) /\ Sound(section, Idled(app[p]))
         /\ Idled(app[p]).pc = "idle" /\ Idled(app[p]).mem = app[p].mem
  <1>1. app[p] \in Instances(section) /\ Sound(section, app[p])
    BY InstanceOf
  <1>2. /\ Idled(app[p]) \in Instances(section) /\ Idled(app[p]).pc = "idle"
        /\ Idled(app[p]).mem = app[p].mem /\ Idled(app[p]).sel = app[p].sel
        /\ Idled(app[p]).from = app[p].from
    <2>1. "idle" \in Pcs
      BY DEF Pcs
    <2> QED
      BY <1>1, <2>1, InstanceUpdates DEF Idled
  <1> QED
    BY <1>1, <1>2 DEF Sound

LEMMA SaveFailsKeeps == ASSUME IInv, NEW p \in Procs, SaveFails(p) PROVE IInv'
  <1>1. /\ app[p].pc = "save" /\ app' = [app EXCEPT ![p] = Idled(app[p])]
        /\ UNCHANGED <<section, file, edits, starts, trusted, latest>>
        /\ missed' = missed \cup {p} /\ mishap' = TRUE /\ missed \subseteq Procs
    BY DEF SaveFails, IInv, TypeOK
  <1> QED
    BY <1>1, IdledKeeps, BackToIdle

LEMMA SaveCloseKeeps == ASSUME IInv, NEW p \in Procs, SaveClose(p) PROVE IInv'
  <1>1. /\ app[p].pc = "close" /\ app' = [app EXCEPT ![p] = Idled(app[p])]
        /\ UNCHANGED <<section, file, edits, starts, trusted, latest, missed, mishap>>
        /\ missed \subseteq Procs /\ mishap \in BOOLEAN
    BY DEF SaveClose, IInv, TypeOK
  <1> QED
    BY <1>1, IdledKeeps, BackToIdle

LEMMA SaveOpenKeeps == ASSUME IInv, NEW p \in Procs, SaveOpen(p) PROVE IInv'
  <1> DEFINE r == [app[p] EXCEPT !.pc = "write"]
  <1>1. app[p] \in Instances(section) /\ Sound(section, app[p]) /\ app[p].pc = "save"
    BY InstanceOf DEF SaveOpen
  <1>2. /\ r \in Instances(section) /\ r.pc = "write" /\ r.mem = app[p].mem
        /\ r.sel = app[p].sel /\ r.from = app[p].from
    <2>1. "write" \in Pcs
      BY DEF Pcs
    <2> QED
      BY <1>1, <2>1, InstanceUpdates
  <1>3. app' = [app EXCEPT ![p] = r]
    BY DEF SaveOpen
  <1> HIDE DEF r
  <1>4. Sound(section, r)
    BY <1>1, <1>2 DEF Sound
  <1>5. /\ UNCHANGED <<section, edits, starts, trusted, latest, mishap>> /\ file' = <<>>
        /\ missed' = missed \cup {q \in Procs \ {p} : Running(q)}
        /\ \A q \in Procs : app[q].pc \notin {"read", "write", "close"}
    BY DEF SaveOpen, Writers, Readers
  <1>6. /\ app' \in [Procs -> Instances(section)] /\ AllSound'
        /\ app'[p] = r /\ \A q \in Procs : q # p => app'[q] = app[q]
    BY <1>2, <1>3, <1>4, <1>5, OneStep DEF IInv
  <1>7. TypeOK'
    BY <1>5, <1>6, EmptyIsWellFormed DEF IInv, TypeOK, Instances
  <1>8. OneWriter'
    BY <1>2, <1>5, <1>6 DEF OneWriter
  <1>9. OthersMiss'
    BY <1>2, <1>5, <1>6 DEF OthersMiss, Running
  <1>10. FileIsShown'
    BY <1>2, <1>5, <1>6 DEF FileIsShown, Running
  <1>11. Alone'
    BY <1>1, <1>5, <1>6 DEF IInv, Alone, Running
  <1>12. Pinned'
    <2> SUFFICES ASSUME section = "hosts", ~mishap'
                 PROVE  \A q \in Procs : app'[q].pc \notin {"off", "load", "read"} =>
                          \A e \in Ends : Find(app'[q].mem, e) = latest[e]
      BY <1>2, <1>5, <1>6 DEF Pinned
    <2> QED
      BY <1>1, <1>2, <1>5, <1>6 DEF IInv, Pinned
  <1>13. TrustedPins'
    <2> SUFFICES ASSUME section = "hosts"
                 PROVE  /\ DOMAIN DecodeHosts(<<>>) = {}
                        /\ \A q \in Procs : \A i \in DOMAIN app'[q].mem : app'[q].mem[i] \in trusted
      BY <1>5 DEF TrustedPins
    <2>1. DOMAIN DecodeHosts(<<>>) = {}
      BY DEF DecodeHosts
    <2> QED
      BY <2>1, <1>2, <1>6 DEF IInv, TrustedPins
  <1> QED
    BY <1>6, <1>7, <1>8, <1>9, <1>10, <1>11, <1>12, <1>13 DEF IInv

LEMMA SaveWriteKeeps == ASSUME IInv, NEW p \in Procs, SaveWrite(p) PROVE IInv'
  <1> DEFINE r == [app[p] EXCEPT !.pc = "close"]
             units == Encode(section, app[p].mem)
  <1>1. app[p] \in Instances(section) /\ Sound(section, app[p]) /\ app[p].pc = "write"
    BY InstanceOf DEF SaveWrite
  <1>2. /\ r \in Instances(section) /\ r.pc = "close" /\ r.mem = app[p].mem
        /\ r.sel = app[p].sel /\ r.from = app[p].from
    <2>1. "close" \in Pcs
      BY DEF Pcs
    <2> QED
      BY <1>1, <2>1, InstanceUpdates
  <1>3. app' = [app EXCEPT ![p] = r]
    BY DEF SaveWrite
  <1> HIDE DEF r
  <1>4. Sound(section, r)
    BY <1>1, <1>2 DEF Sound
  <1>5. UNCHANGED <<section, edits, starts, trusted, latest>>
    BY DEF SaveWrite
  <1>6. PICK n \in 0 .. Len(units) :
          /\ file' = SubSeq(units, 1, n)
          /\ missed' = (IF n = Len(units) THEN missed \ {p} ELSE missed \cup {p})
          /\ mishap' = (mishap \/ n < Len(units))
    BY DEF SaveWrite
  <1>7. /\ Len(units) \in Nat /\ WellFormed(section, file')
        /\ n = Len(units) => Decode(section, file') = app[p].mem
    <2>1. app[p].mem \in Memories(section) /\ section \in Sections
      BY <1>1, InstanceUpdates DEF IInv, TypeOK
    <2> QED
      BY <2>1, <1>6, SavedReadsBack DEF IsSequence
  <1>8. n = Len(units) \/ (p \in missed' /\ mishap')
    <2>1. n = Len(units) \/ n < Len(units)
      BY <1>7
    <2>2. n < Len(units) => n # Len(units)
      BY <1>7
    <2> QED
      BY <1>6, <2>1, <2>2, Zenon
  <1>9. missed \subseteq missed' \cup {p} /\ missed' \subseteq missed \cup {p}
        /\ mishap' \in BOOLEAN /\ (mishap => mishap')
    BY <1>6 DEF IInv, TypeOK
  <1>10. /\ app' \in [Procs -> Instances(section)] /\ AllSound'
         /\ app'[p] = r /\ \A q \in Procs : q # p => app'[q] = app[q]
    BY <1>2, <1>3, <1>4, <1>5, OneStep DEF IInv
  <1>11. TypeOK'
    BY <1>5, <1>7, <1>9, <1>10 DEF IInv, TypeOK, Instances
  <1>12. \A q \in Procs : q # p => /\ app[q].pc \notin {"read", "write", "close"}
                                   /\ q \in missed \/ app[q].pc \in {"off", "load"}
    BY <1>1 DEF IInv, OneWriter, OthersMiss
  <1>13. OneWriter' /\ OthersMiss'
    BY <1>2, <1>10, <1>12 DEF OneWriter, OthersMiss
  <1>14. FileIsShown'
    <2> SUFFICES ASSUME NEW q \in Procs, app'[q].pc \in {"idle", "close"}, q \notin missed'
                 PROVE  Decode(section, file') = app'[q].mem
      BY <1>5 DEF FileIsShown
    <2>1. q = p
      BY <1>9, <1>10, <1>12
    <2> QED
      BY <2>1, <1>2, <1>7, <1>8, <1>10
  <1>15. Alone'
    BY <1>1, <1>9, <1>10 DEF IInv, Alone, Running
  <1>16. Pinned'
    <2> SUFFICES ASSUME section = "hosts", ~mishap'
                 PROVE  /\ \A q \in Procs : app'[q].pc \notin {"off", "load", "read"} =>
                             \A e \in Ends : Find(app'[q].mem, e) = latest[e]
                        /\ \A e \in Ends : Find(DecodeHosts(file'), e) = latest[e]
      BY <1>5 DEF Pinned
    <2>1. \A q \in Procs : app[q].pc \notin {"off", "load", "read"} =>
            \A e \in Ends : Find(app[q].mem, e) = latest[e]
      BY <1>9 DEF IInv, Pinned
    <2>2. \A e \in Ends : Find(app[p].mem, e) = latest[e]
      BY <2>1, <1>1
    <2>3. DecodeHosts(file') = app[p].mem
      BY <1>7, <1>8, DecodeIs
    <2> QED
      BY <2>1, <2>2, <2>3, <1>1, <1>2, <1>10
  <1>17. TrustedPins'
    <2> SUFFICES ASSUME section = "hosts"
                 PROVE  /\ \A i \in DOMAIN DecodeHosts(file') : DecodeHosts(file')[i] \in trusted
                        /\ \A q \in Procs : \A i \in DOMAIN app'[q].mem : app'[q].mem[i] \in trusted
      BY <1>5 DEF TrustedPins
    <2> DEFINE m == app[p].mem
    <2>1. m \in Memories("hosts") /\ units = EncodeHosts(m)
      BY <1>1, InstanceUpdates, EncodeIs
    <2>2. m \in Seq(Pins) /\ Len(m) \in Nat /\ DOMAIN m = 1 .. Len(m)
      BY <2>1, MemoriesAre, LenProperties
    <2>3. Len(units) = 2 * Len(m) + 1
      <3>1. Len([i \in 1 .. 2 * Len(m) + 1 |->
                  IF i = 1 THEN Len(m)
                  ELSE IF i % 2 = 0 THEN m[i \div 2].end ELSE m[i \div 2].key]) = 2 * Len(m) + 1
        BY <2>2
      <3> QED
        BY <2>1, <3>1 DEF EncodeHosts
    <2> DEFINE whole == IF n = 0 THEN 0 ELSE (n - 1) \div 2
    <2>4. /\ whole <= Len(m) /\ DOMAIN DecodeHosts(file') = 1 .. whole
          /\ \A i \in 1 .. whole : DecodeHosts(file')[i] = m[i]
      BY <2>1, <2>3, <1>6, CutHosts
    <2>5. \A i \in 1 .. whole : i \in DOMAIN m
      BY <2>2, <2>4
    <2> HIDE DEF m, whole
    <2>6. \A i \in DOMAIN m : m[i] \in trusted
      BY DEF IInv, TrustedPins, m
    <2> QED
      BY <2>4, <2>5, <2>6, <1>2, <1>10 DEF IInv, TrustedPins
  <1> QED
    BY <1>10, <1>11, <1>13, <1>14, <1>15, <1>16, <1>17 DEF IInv

LEMMA TrustKeeps ==
  ASSUME IInv, NEW p \in Procs, NEW e \in Ends, NEW k \in Keys, Trust(p, e, k) PROVE IInv'
  <1> DEFINE m == SetPin(app[p].mem, e, k)
             a == [app[p] EXCEPT !.mem = m]
             r == [a EXCEPT !.pc = "save"]
             pin == [end |-> e, key |-> k]
  <1>1. /\ section = "hosts" /\ Idle(p) /\ Change(p, a)
        /\ trusted' = trusted \cup {pin} /\ latest' = [latest EXCEPT ![e] = k]
        /\ mishap' = (mishap \/ (PinAt(app[p].mem, e) = 0 /\ Len(app[p].mem) = MaxHosts))
    BY DEF Trust
  <1>2. /\ app[p] \in Instances("hosts") /\ Sound("hosts", app[p])
        /\ app[p].mem \in Memories("hosts")
    BY <1>1, InstanceOf, InstanceUpdates
  <1>3. /\ m \in Memories("hosts")
        /\ \A j \in DOMAIN m :
             m[j] \in {app[p].mem[i] : i \in DOMAIN app[p].mem} \cup {pin}
        /\ ~ (PinAt(app[p].mem, e) = 0 /\ Len(app[p].mem) = MaxHosts) =>
             \A f \in Ends : Find(m, f) = IF f = e THEN k ELSE Find(app[p].mem, f)
    BY <1>2, SetPinWorks
  <1> HIDE DEF m
  <1>4. a \in Instances("hosts") /\ a.mem = m /\ a.sel = app[p].sel /\ a.from = app[p].from
    BY <1>2, <1>3, InstanceUpdates
  <1> HIDE DEF a
  <1>5. /\ r \in Instances("hosts") /\ r.pc = "save" /\ r.mem = m
        /\ r.sel = app[p].sel /\ r.from = app[p].from
    <2>1. "save" \in Pcs
      BY DEF Pcs
    <2> QED
      BY <1>4, <2>1, InstanceUpdates
  <1>6. /\ app' = [app EXCEPT ![p] = r] /\ edits' \in 0 .. MaxEdits
        /\ UNCHANGED <<section, file, starts, missed>>
    BY <1>1, SizesAssumption DEF Change, IInv, TypeOK
  <1> HIDE DEF r
  <1>7. Sound("hosts", r)
    BY <1>2, <1>5 DEF Sound
  <1>8. /\ trusted' \subseteq Pins /\ trusted \subseteq trusted' /\ pin \in trusted'
        /\ latest' \in [Ends -> Keys \cup {NoKey}]
        /\ mishap' \in BOOLEAN /\ (mishap => mishap')
    BY <1>1 DEF IInv, TypeOK, Pins
  <1>9. \A j \in DOMAIN r.mem : r.mem[j] \in trusted'
    <2>1. \A i \in DOMAIN app[p].mem : app[p].mem[i] \in trusted
      BY <1>1 DEF IInv, TrustedPins
    <2> HIDE DEF pin
    <2> QED
      BY <2>1, <1>3, <1>5, <1>8
  <1>10. ASSUME ~mishap', NEW f \in Ends PROVE Find(r.mem, f) = latest'[f]
    <2>1. Find(app[p].mem, f) = latest[f]
      BY <1>1, <1>8, <1>10 DEF IInv, Pinned, Idle
    <2>2. Find(m, f) = IF f = e THEN k ELSE Find(app[p].mem, f)
      BY <1>1, <1>3, <1>10
    <2>3. latest'[f] = IF f = e THEN k ELSE latest[f]
      BY <1>1 DEF IInv, TypeOK
    <2> QED
      BY <2>1, <2>2, <2>3, <1>5
  <1> QED
    BY <1>1, <1>5, <1>6, <1>7, <1>8, <1>9, <1>10, MemoryChanges

\* A change that concerns no pin.
LEMMA ChangeKeeps ==
  ASSUME IInv, NEW p \in Procs, Idle(p), NEW a \in Instances(section), Sound(section, a),
         a.pc = "idle", Change(p, a), section # "hosts", UNCHANGED <<trusted, latest, mishap>>
  PROVE  IInv'
  <1> DEFINE r == [a EXCEPT !.pc = "save"]
  <1>1. /\ r \in Instances(section) /\ r.pc = "save" /\ r.mem = a.mem
        /\ r.sel = a.sel /\ r.from = a.from
    <2>1. "save" \in Pcs
      BY DEF Pcs
    <2> QED
      BY <2>1, InstanceUpdates
  <1>2. /\ app' = [app EXCEPT ![p] = r] /\ edits' \in 0 .. MaxEdits
        /\ UNCHANGED <<section, file, starts, missed>>
    BY SizesAssumption DEF Change, IInv, TypeOK
  <1> HIDE DEF r
  <1>3. Sound(section, r)
    BY <1>1 DEF Sound
  <1>4. /\ trusted' \subseteq Pins /\ latest' \in [Ends -> Keys \cup {NoKey}]
        /\ mishap' \in BOOLEAN
    BY DEF IInv, TypeOK
  <1> QED
    BY <1>1, <1>2, <1>3, <1>4, MemoryChanges

LEMMA StepperKeeps ==
  ASSUME IInv, NEW p \in Procs, NEW field \in {"down", "up"}, NEW by \in {-1, 1},
         Stepper(p, field, by)
  PROVE  IInv'
  <1> DEFINE value == app[p].mem[field] + by
             m == [app[p].mem EXCEPT ![field] = value]
             a == IF value \in 1 .. HardCap
                  THEN [app[p] EXCEPT !.mem[field] = value] ELSE app[p]
  <1>1. /\ section = "settings" /\ Idle(p) /\ Change(p, a)
        /\ UNCHANGED <<trusted, latest, mishap>>
    BY DEF Stepper
  <1>2. app[p] \in Instances(section) /\ Sound(section, app[p]) /\ app[p].pc = "idle"
    BY <1>1, InstanceOf DEF Idle
  <1>3. app[p].mem \in Limits
    BY <1>1, <1>2, InstanceUpdates, MemoriesAre
  <1>4. value \in 1 .. HardCap => m \in Memories(section)
    <2>1. value \in 1 .. HardCap => m \in Limits
      BY <1>3 DEF Limits
    <2> QED
      BY <2>1, <1>1, MemoriesAre
  <1>5. a = IF value \in 1 .. HardCap THEN [app[p] EXCEPT !.mem = m] ELSE app[p]
    OBVIOUS
  <1> HIDE DEF m, a, value
  <1>6. /\ a \in Instances(section) /\ a.pc = "idle"
        /\ a.sel = app[p].sel /\ a.from = app[p].from
    BY <1>2, <1>4, <1>5, InstanceUpdates
  <1>7. Sound(section, a)
    BY <1>1, <1>2, <1>6 DEF Sound
  <1> QED
    BY <1>1, <1>6, <1>7, ChangeKeeps

LEMMA NavigateKeeps ==
  ASSUME IInv, NEW p \in Procs, NEW d \in ExistingDirs, Navigate(p, d)
  PROVE  IInv'
  <1> DEFINE a == [app[p] EXCEPT !.mem = d]
  <1>1. /\ section = "dir" /\ Idle(p) /\ Change(p, a)
        /\ UNCHANGED <<trusted, latest, mishap>>
    BY DEF Navigate
  <1>2. app[p] \in Instances(section) /\ Sound(section, app[p]) /\ app[p].pc = "idle"
    BY <1>1, InstanceOf DEF Idle
  <1>3. d \in Memories(section)
    BY <1>1, MemoriesAre
  <1>4. /\ a \in Instances(section) /\ a.pc = "idle"
        /\ a.sel = app[p].sel /\ a.from = app[p].from
    BY <1>2, <1>3, InstanceUpdates
  <1> HIDE DEF a
  <1>5. Sound(section, a)
    BY <1>1, <1>2, <1>4 DEF Sound
  <1> QED
    BY <1>1, <1>4, <1>5, ChangeKeeps

\* The same instance with another list and another selection.
Showing(a, m, sel, from) == [a EXCEPT !.mem = m, !.sel = sel, !.from = from]

LEMMA PickKeeps ==
  ASSUME IInv, NEW p \in Procs, NEW i \in 1 .. MaxProfiles, Pick(p, i)
  PROVE  IInv'
  <1> DEFINE m == app[p].mem
             r == Showing(app[p], m, i, <<m[i]>>)
  <1>1. /\ section = "profiles" /\ app[p].pc = "idle" /\ i \in DOMAIN m
        /\ UNCHANGED <<section, file, edits, starts, trusted, latest, missed, mishap>>
    BY DEF Pick, Idle
  <1>2. app[p] \in Instances("profiles") /\ m \in Memories("profiles")
    BY <1>1, InstanceOf, InstanceUpdates
  <1>3. m \in Seq(Profiles) /\ DOMAIN m = 1 .. Len(m)
    BY <1>2, MemoriesAre, LenProperties
  <1>4. <<m[i]>> \in Seq(Profiles)
    <2>1. m[i] \in Profiles
      BY <1>1, <1>3, ElementOfSeq
    <2> QED
      BY <2>1
  <1>5. app' = [app EXCEPT ![p] = r]
    <2>1. app' = [app EXCEPT ![p].sel = i, ![p].from = <<m[i]>>]
      BY DEF Pick
    <2>2. r = [app[p] EXCEPT !.sel = i, !.from = <<m[i]>>]
      BY <1>2 DEF Instances, Showing
    <2>3. app \in [Procs -> Instances("profiles")]
      BY <1>1 DEF IInv, TypeOK, Instances
    <2> QED
      BY <2>1, <2>2, <2>3
  <1>6. /\ r \in Instances("profiles") /\ r.pc = "idle" /\ r.mem = m
        /\ r.sel = i /\ r.from = <<m[i]>>
    <2>1. i \in 0 .. MaxProfiles
      BY SizesAssumption
    <2> QED
      BY <2>1, <1>1, <1>2, <1>4 DEF Instances, Showing
  <1> HIDE DEF r
  <1>7. Sound("profiles", r)
    BY <1>1, <1>6 DEF Sound
  <1>8. missed \subseteq Procs /\ mishap \in BOOLEAN
    BY DEF IInv, TypeOK
  <1> QED
    BY <1>1, <1>5, <1>6, <1>7, <1>8, BackToIdle

LEMMA NewKeeps == ASSUME IInv, NEW p \in Procs, New(p) PROVE IInv'
  <1> DEFINE m == app[p].mem
             r == Showing(app[p], m, 0, <<>>)
  <1>1. /\ section = "profiles" /\ app[p].pc = "idle"
        /\ UNCHANGED <<section, file, edits, starts, trusted, latest, missed, mishap>>
    BY DEF New, Idle
  <1>2. app[p] \in Instances("profiles") /\ m \in Memories("profiles")
    BY <1>1, InstanceOf, InstanceUpdates
  <1>3. app' = [app EXCEPT ![p] = r]
    <2>1. app' = [app EXCEPT ![p].sel = 0, ![p].from = <<>>]
      BY DEF New
    <2>2. r = [app[p] EXCEPT !.sel = 0, !.from = <<>>]
      BY <1>2 DEF Instances, Showing
    <2>3. app \in [Procs -> Instances("profiles")]
      BY <1>1 DEF IInv, TypeOK, Instances
    <2> QED
      BY <2>1, <2>2, <2>3
  <1>4. /\ r \in Instances("profiles") /\ r.pc = "idle" /\ r.mem = m
        /\ r.sel = 0 /\ r.from = <<>>
    <2>1. 0 \in 0 .. MaxProfiles /\ <<>> \in Seq(Profiles)
      BY SizesAssumption, EmptySeq
    <2> QED
      BY <2>1, <1>1, <1>2 DEF Instances, Showing
  <1> HIDE DEF r
  <1>5. Sound("profiles", r)
    BY <1>4 DEF Sound
  <1>6. missed \subseteq Procs /\ mishap \in BOOLEAN
    BY DEF IInv, TypeOK
  <1> QED
    BY <1>1, <1>3, <1>4, <1>5, <1>6, BackToIdle

LEMMA SaveProfileKeeps ==
  ASSUME IInv, NEW p \in Procs, NEW name \in Names, NEW n \in Typed, SaveProfile(p, name, n)
  PROVE  IInv'
  <1> DEFINE m == app[p].mem
             v == [name |-> name, port |-> ParsePort(n)]
             a == SavedProfile(app[p], v)
  <1>1. /\ section = "profiles" /\ Idle(p) /\ Change(p, a)
        /\ UNCHANGED <<trusted, latest, mishap>>
    BY DEF SaveProfile
  <1>2. /\ app[p] \in Instances("profiles") /\ Sound("profiles", app[p])
        /\ app[p].pc = "idle" /\ m \in Memories("profiles")
    BY <1>1, InstanceOf, InstanceUpdates DEF Idle
  <1>3. /\ m \in Seq(Profiles) /\ Len(m) \in Nat /\ Len(m) <= MaxProfiles
        /\ DOMAIN m = 1 .. Len(m) /\ MaxProfiles \in Nat
    BY <1>2, MemoriesAre, LenProperties, SizesAssumption
  <1>4. v \in Profiles
    <2>1. ParsePort(n) \in Ports
      <3>1. 22 \in Ports
        BY DEF Ports
      <3> QED
        BY <3>1 DEF ParsePort
    <2> QED
      BY <2>1 DEF Profiles
  <1> HIDE DEF v
  <1>5. <<v>> \in Seq(Profiles)
    BY <1>4
  <1>6. a \in Instances("profiles") /\ a.pc = "idle" /\ Sound("profiles", a)
    <2>1. CASE app[p].sel \in DOMAIN m
      <3> DEFINE new == [m EXCEPT ![app[p].sel] = v]
                 b == Showing(app[p], new, app[p].sel, <<v>>)
      <3>1. a = b
        BY <2>1, <1>2 DEF SavedProfile, Showing, Instances
      <3>2. /\ new \in Seq(Profiles) /\ Len(new) = Len(m) /\ new[app[p].sel] = v
        BY <2>1, <1>3, <1>4, ExceptSeq
      <3>3. new \in Memories("profiles") /\ DOMAIN new = DOMAIN m
        BY <3>2, <1>3, MemoriesAre, LenProperties
      <3> HIDE DEF new
      <3>4. app[p].sel \in 0 .. MaxProfiles
        BY <1>2, InstanceUpdates
      <3>5. /\ b \in Instances("profiles") /\ b.pc = "idle" /\ b.mem = new
            /\ b.sel = app[p].sel /\ b.from = <<v>>
        BY <3>3, <3>4, <1>2, <1>5 DEF Instances, Showing
      <3> HIDE DEF b
      <3>6. app[p].sel # 0
        BY <2>1, <1>3
      <3>7. Sound("profiles", b)
        BY <2>1, <3>2, <3>3, <3>5, <3>6 DEF Sound
      <3> HIDE DEF a
      <3> QED
        BY <3>1, <3>5, <3>7
    <2>2. CASE app[p].sel \notin DOMAIN m /\ Len(m) < MaxProfiles
      <3> DEFINE new == Append(m, v)
                 b == Showing(app[p], new, Len(m) + 1, <<v>>)
      <3>1. a = b
        BY <2>2, <1>2 DEF SavedProfile, Showing, Instances
      <3>2. /\ new \in Seq(Profiles) /\ Len(new) = Len(m) + 1 /\ new[Len(m) + 1] = v
        BY <1>3, <1>4, AppendProperties
      <3> HIDE DEF new
      <3>3. new \in Memories("profiles") /\ DOMAIN new = 1 .. Len(m) + 1
        <4>1. Len(m) + 1 <= MaxProfiles
          BY <2>2, <1>3
        <4> QED
          BY <4>1, <3>2, MemoriesAre, LenProperties
      <3> HIDE DEF new
      <3>4. Len(m) + 1 \in 0 .. MaxProfiles /\ Len(m) + 1 \in 1 .. Len(m) + 1 /\ Len(m) + 1 # 0
        BY <2>2, <1>3
      <3>5. /\ b \in Instances("profiles") /\ b.pc = "idle" /\ b.mem = new
            /\ b.sel = Len(m) + 1 /\ b.from = <<v>>
        BY <3>3, <3>4, <1>2, <1>5 DEF Instances, Showing
      <3> HIDE DEF b
      <3>6. Sound("profiles", b)
        BY <3>2, <3>3, <3>4, <3>5 DEF Sound
      <3> HIDE DEF a
      <3> QED
        BY <3>1, <3>5, <3>6
    <2>3. CASE app[p].sel \notin DOMAIN m /\ ~ (Len(m) < MaxProfiles)
      <3>1. a = app[p]
        BY <2>3 DEF SavedProfile
      <3> QED
        BY <3>1, <1>2
    <2> QED
      BY <2>1, <2>2, <2>3
  <1> HIDE DEF a
  <1> QED
    BY <1>1, <1>6, ChangeKeeps

LEMMA RemoveAtKeeps ==
  ASSUME NEW S, NEW m \in Seq(S), NEW i \in 1 .. Len(m)
  PROVE  RemoveAt(m, i) \in Seq(S) /\ Len(RemoveAt(m, i)) = Len(m) - 1
  <1>1. Len(m) \in Nat /\ \A j \in 1 .. Len(m) : m[j] \in S
    BY LenProperties, ElementOfSeq
  <1>2. /\ SubSeq(m, 1, i - 1) \in Seq(S)
        /\ Len(SubSeq(m, 1, i - 1)) = IF 1 <= i - 1 THEN i - 1 - 1 + 1 ELSE 0
    BY <1>1, SubSeqProperties
  <1>3. /\ SubSeq(m, i + 1, Len(m)) \in Seq(S)
        /\ Len(SubSeq(m, i + 1, Len(m))) = IF i + 1 <= Len(m) THEN Len(m) - (i + 1) + 1 ELSE 0
    BY <1>1, SubSeqProperties
  <1> DEFINE front == SubSeq(m, 1, i - 1)
             back == SubSeq(m, i + 1, Len(m))
  <1> HIDE DEF front, back
  <1>4. front \o back \in Seq(S) /\ Len(front \o back) = Len(front) + Len(back)
    BY <1>2, <1>3, ConcatProperties DEF front, back
  <1>5. Len(front) = i - 1 /\ Len(back) = Len(m) - i
    BY <1>1, <1>2, <1>3 DEF front, back
  <1>6. RemoveAt(m, i) = front \o back
    BY DEF RemoveAt, front, back
  <1>7. Len(front) + Len(back) = Len(m) - 1
    BY <1>1, <1>5
  <1> QED
    BY <1>4, <1>6, <1>7

LEMMA DeleteProfileKeeps == ASSUME IInv, NEW p \in Procs, DeleteProfile(p) PROVE IInv'
  <1> DEFINE m == app[p].mem
             new == RemoveAt(m, app[p].sel)
             a == Showing(app[p], new, 0, <<>>)
  <1>1. /\ section = "profiles" /\ Idle(p) /\ app[p].sel \in DOMAIN m
        /\ Change(p, DeletedProfile(app[p]))
        /\ UNCHANGED <<trusted, latest, mishap>>
    BY DEF DeleteProfile
  <1>2. app[p] \in Instances("profiles") /\ app[p].pc = "idle" /\ m \in Memories("profiles")
    BY <1>1, InstanceOf, InstanceUpdates DEF Idle
  <1>3. DeletedProfile(app[p]) = a
    BY <1>2 DEF DeletedProfile, Showing, Instances
  <1>4. new \in Memories("profiles")
    <2>1. /\ m \in Seq(Profiles) /\ Len(m) \in Nat /\ Len(m) <= MaxProfiles
          /\ DOMAIN m = 1 .. Len(m) /\ MaxProfiles \in Nat
      BY <1>2, MemoriesAre, LenProperties, SizesAssumption
    <2>2. new \in Seq(Profiles) /\ Len(new) = Len(m) - 1
      BY <1>1, <2>1, RemoveAtKeeps
    <2> QED
      BY <2>1, <2>2, MemoriesAre
  <1> HIDE DEF new
  <1>5. a \in Instances("profiles") /\ a.pc = "idle" /\ a.sel = 0 /\ a.from = <<>>
    <2>1. 0 \in 0 .. MaxProfiles /\ <<>> \in Seq(Profiles)
      BY SizesAssumption, EmptySeq
    <2> QED
      BY <2>1, <1>2, <1>4 DEF Instances, Showing
  <1> HIDE DEF a
  <1>6. Sound("profiles", a)
    BY <1>5 DEF Sound
  <1> QED
    BY <1>1, <1>3, <1>5, <1>6, ChangeKeeps

LEMMA StepKeepsIInv == IInv /\ [Next]_vars => IInv'
  <1> SUFFICES ASSUME IInv, [Next]_vars PROVE IInv'
    OBVIOUS
  <1>1. CASE UNCHANGED vars
    BY <1>1 DEF vars, IInv, TypeOK, AllSound, OneWriter, OthersMiss, FileIsShown, Alone,
                Pinned, TrustedPins, Running
  <1>2. ASSUME NEW p \in Procs, User(p) PROVE IInv'
    BY <1>2, TrustKeeps, StepperKeeps, NavigateKeeps, PickKeeps, NewKeeps,
       SaveProfileKeeps, DeleteProfileKeeps DEF User
  <1>3. CASE Next
    BY <1>2, <1>3, StartKeeps, LoadOpenKeeps, LoadReadKeeps, LoadFailsKeeps, ExitKeeps,
       SaveFailsKeeps, SaveOpenKeeps, SaveWriteKeeps, SaveCloseKeeps DEF Next
  <1> QED
    BY <1>1, <1>3

LEMMA InvariantHolds == Spec => []IInv
  BY InitIInv, StepKeepsIInv, PTL DEF Spec

----------------------------------------------------------------------------
(* What the stores promise.                                                *)

\* Whatever the files held and however they were torn since, an instance holds
\* what the program can use: lists within KH_MAX_HOSTS and CONN_MAX_PROFILES,
\* ports and transfer limits in range, a directory that exists.
THEOREM TypeCorrect == Spec => []TypeOK
  <1>1. IInv => TypeOK
    BY DEF IInv
  <1> QED
    BY <1>1, InvariantHolds, PTL

\* kh_find never answers, and known_hosts.bin never gives back, a key that the
\* user did not accept for that endpoint and that was not in the first file.
THEOREM NoForeignPin == Spec => []OnlyTrusted
  <1>1. IInv => OnlyTrusted
    <2> SUFFICES ASSUME IInv, section = "hosts"
                 PROVE  /\ {DecodeHosts(file)[i] : i \in DOMAIN DecodeHosts(file)} \subseteq trusted
                        /\ \A p \in Procs : {app[p].mem[i] : i \in DOMAIN app[p].mem} \subseteq trusted
      BY DEF OnlyTrusted
    <2> QED
      BY DEF IInv, TrustedPins
  <1> QED
    BY <1>1, InvariantHolds, PTL

\* What is on the screen is what a restart would load, for every instance whose
\* loads and saves worked and whose file no other has written since.
THEOREM MemoryIsOnDisk == Spec => []RestartShows
  <1>1. IInv => RestartShows
    BY DEF IInv, FileIsShown, RestartShows, Idle
  <1> QED
    BY <1>1, InvariantHolds, PTL

\* Save and Delete in the Connections dialog act on the connection whose fields
\* are on the screen, after any sequence of clicks.
THEOREM SelectionStaysReal == Spec => []SelectionIsReal
  <1>1. IInv => SelectionIsReal
    BY DEF IInv, AllSound, Sound, SelectionIsReal
  <1> QED
    BY <1>1, InvariantHolds, PTL

\* The key accepted last for an endpoint is the one it is compared with next
\* time, in this run of the program and in later ones.
THEOREM LastKeyIsFound == Spec => []PinsAreRemembered
  <1>1. IInv => PinsAreRemembered
    BY DEF IInv, Pinned, PinsAreRemembered, Idle
  <1> QED
    BY <1>1, InvariantHolds, PTL

============================================================================
