------------------------- MODULE SftpSessionProofs -------------------------
(***************************************************************************)
(* Trust, and the lives of sessions, for any numbers of hosts, keys and    *)
(* sessions and any ring sizes.  SessionSafe is what holds of every        *)
(* session, given up or not.  Conversation is what holds of the one the    *)
(* user sees: a question and its answer never cross, because while the UI  *)
(* thread is not tearing the session down it writes a decision only to a   *)
(* thread that waits for one.                                              *)
(***************************************************************************)
EXTENDS SftpSession, SequenceTheorems, TLAPS

Has(q, m) == \E i \in 1 .. Len(q) : q[i] = m
Once(q, m) == \A i, j \in 1 .. Len(q) : q[i] = m /\ q[j] = m => i = j

Decisions == {"HostKeyAccept", "HostKeyReject", "Quit"}
Early == {"none", "connect", "handshake"}
Trusted(q) == <<q.target, q.key>> \in trusted

SafeRec(q) ==
  /\ q.pin # None => <<q.target, q.pin>> \in trusted
  /\ q.pc \in LoggingIn => Trusted(q)
  /\ Has(q.in, "HostKeyAccept") => Trusted(q) /\ q.pc \notin Early
  /\ q.pc \in Early => q.key = None /\ ~q.lost
  /\ q.pc \in {"verify", "gate"} => q.key \in Keys
  /\ q.lost => q.key = None \/ Trusted(q)
  /\ q.released => q.pc = "exited"
  /\ q.pc # "none" => q.target \in Targets

SessionSafe == \A s \in Sessions : SafeRec(sess[s])

\* Where the UI thread is: a current session while it has not been joined.
UiSafe ==
  /\ ~rc.joined => /\ rc.connecting /\ rc.active
                   /\ rc.cur = started /\ started > 0 /\ rc.target \in Targets
  /\ rc.cur # 0 => Cur.target = rc.target /\ ~Cur.released
  /\ ui.pc \in {"reap", "write", "await", "join"} => ~rc.joined
  /\ ui.pc \in {"after", "stopped"} => rc.joined
  /\ ui.pc = "write" => ui.todo # <<>> /\ ui.then \in {"drain", "input", "await"}
  /\ \A d \in Decisions : ui.pc = "write" /\ Has(ui.todo, d) => Len(ui.todo) = 1
  /\ ui.pc = "write" /\ Has(ui.todo, "HostKeyAccept") => Trusted(Cur) /\ Cur.pc \notin Early
  /\ ui.goal = "disconnect" => rc.prompt = None

\* Not tearing a session down.
Calm == \/ ui.pc \in {"drain", "reap", "input"}
        \/ ui.pc = "write" /\ ui.then # "await"

\* A decision is on its way to session q.
Pending(q) == \E d \in Decisions : Has(q.in, d) \/ (ui.pc = "write" /\ Has(ui.todo, d))

Talk(q) ==
  /\ q.pc \in Early \cup {"verify"} =>
       ~Has(q.out, "HostKeyVerify") /\ rc.prompt = None /\ ~Pending(q)
  /\ Has(q.out, "HostKeyVerify") => q.pc = "gate" /\ rc.prompt = None /\ ~Pending(q)
  /\ rc.prompt # None => /\ q.pc = "gate" /\ q.key = rc.prompt
                         /\ ~Has(q.out, "HostKeyVerify") /\ ~Pending(q)
  /\ q.pc = "gate" => Has(q.out, "HostKeyVerify") \/ rc.prompt # None \/ Pending(q)
  /\ Once(q.out, "HostKeyVerify")

Conversation == Calm => IF rc.joined THEN rc.prompt = None ELSE Talk(Cur)

SInv == /\ TypeOK /\ SessionSafe /\ UiSafe /\ Conversation
        /\ PinsAreTrusted /\ OnlyLossIsRetried

----------------------------------------------------------------------------
(* What is in a ring.                                                      *)

LEMMA HasEmpty == ASSUME NEW m PROVE ~Has(<<>>, m) /\ Once(<<>>, m)
  BY DEF Has, Once

LEMMA HasOne == ASSUME NEW e, NEW m PROVE Has(<<e>>, m) <=> e = m
  BY DEF Has

LEMMA HasAppend ==
  ASSUME NEW S, NEW q \in Seq(S), NEW e \in S, NEW m
  PROVE  /\ Append(q, e) \in Seq(S) /\ Len(Append(q, e)) = Len(q) + 1
         /\ Has(Append(q, e), m) <=> Has(q, m) \/ e = m
         /\ Once(q, m) /\ (e # m \/ ~Has(q, m)) => Once(Append(q, e), m)
  <1>1. /\ Append(q, e) \in Seq(S) /\ Len(Append(q, e)) = Len(q) + 1 /\ Len(q) \in Nat
        /\ \A i \in 1 .. Len(q) : Append(q, e)[i] = q[i]
        /\ Append(q, e)[Len(q) + 1] = e
    BY AppendProperties
  <1> QED
    BY <1>1 DEF Has, Once

LEMMA HasTail ==
  ASSUME NEW S, NEW q \in Seq(S), q # <<>>, NEW m
  PROVE  /\ Head(q) \in S /\ Tail(q) \in Seq(S) /\ Len(Tail(q)) = Len(q) - 1
         /\ Has(q, m) <=> Head(q) = m \/ Has(Tail(q), m)
         /\ Once(q, m) => Once(Tail(q), m)
         /\ Once(q, m) /\ Head(q) = m => ~Has(Tail(q), m)
  <1>1. /\ Head(q) = q[1] /\ Head(q) \in S /\ Tail(q) \in Seq(S)
        /\ Len(q) \in Nat \ {0} /\ Len(Tail(q)) = Len(q) - 1
        /\ \A i \in 1 .. Len(q) - 1 : Tail(q)[i] = q[i + 1]
    BY HeadTailProperties, EmptySeq
  <1>2. \A i \in 1 .. Len(q) : i = 1 \/ (i - 1 \in 1 .. Len(q) - 1 /\ q[i] = Tail(q)[i - 1])
    BY <1>1
  <1>3. Has(q, m) <=> q[1] = m \/ \E i \in 1 .. Len(q) - 1 : Tail(q)[i] = m
    <2>1. Has(q, m) => q[1] = m \/ \E i \in 1 .. Len(q) - 1 : Tail(q)[i] = m
      BY <1>2 DEF Has
    <2>2. 1 \in 1 .. Len(q) /\ \A i \in 1 .. Len(q) - 1 : i + 1 \in 1 .. Len(q)
      BY <1>1
    <2> QED
      BY <1>1, <2>1, <2>2 DEF Has
  <1>4. Once(q, m) => Once(Tail(q), m)
    BY <1>1 DEF Once
  <1>5. Once(q, m) /\ q[1] = m => ~Has(Tail(q), m)
    BY <1>1 DEF Once, Has
  <1> QED
    BY <1>1, <1>3, <1>4, <1>5 DEF Has

LEMMA OneOrMoreNat ==
  ASSUME NEW n \in Nat \ {0}
  PROVE  (n = 1 /\ ~(n > 1)) \/ (n # 1 /\ n > 1 /\ n - 1 # 0)
  OBVIOUS

LEMMA OneOrMore ==
  ASSUME NEW S, NEW q \in Seq(S), q # <<>>
  PROVE  \/ Len(q) = 1 /\ ~(Len(q) > 1)
         \/ Len(q) # 1 /\ Len(q) > 1 /\ Tail(q) # <<>>
  <1>1. Len(q) \in Nat \ {0} /\ Len(Tail(q)) = Len(q) - 1
    BY HasTail, EmptySeq
  <1>2. Len(<<>>) = 0
    OBVIOUS
  <1>3. (Len(q) = 1 /\ ~(Len(q) > 1)) \/ (Len(q) # 1 /\ Len(q) > 1 /\ Len(q) - 1 # 0)
    BY <1>1, OneOrMoreNat
  <1> QED
    BY <1>1, <1>2, <1>3

\* The requests that a confirmed delete dialog writes.
LEMMA HasDeletes ==
  ASSUME NEW n \in Nat
  PROVE  LET q == [i \in 1 .. n |-> "Delete"] \o <<"ListDir">>
         IN  q \in Seq(Requests) /\ q # <<>> /\ \A d \in Decisions : ~Has(q, d)
  <1> DEFINE a == [i \in 1 .. n |-> "Delete"]
             q == a \o <<"ListDir">>
  <1>1. a \in Seq(Requests) /\ Len(a) = n
    <2>1. a \in [1 .. n -> Requests]
      BY DEF Requests
    <2> QED
      BY <2>1
  <1>2. q \in Seq(Requests) /\ Len(q) = n + 1
        /\ \A i \in 1 .. n + 1 : q[i] = IF i <= n THEN a[i] ELSE "ListDir"
    <2>1. <<"ListDir">> \in Seq(Requests) /\ Len(<<"ListDir">>) = 1
      BY DEF Requests
    <2> HIDE DEF a
    <2> QED
      BY <1>1, <2>1
  <1>3. \A i \in 1 .. n + 1 : q[i] \in {"Delete", "ListDir"}
    BY <1>2
  <1> HIDE DEF q
  <1>4. q # <<>>
    BY <1>2
  <1> QED
    BY <1>2, <1>3, <1>4 DEF Has, Decisions, q, a

----------------------------------------------------------------------------
(* The control thread.                                                     *)

\* What a step of the control thread makes of its session q, seen from the rings: at
\* most one message more or one request fewer, and a key, a loss, a question and a
\* login only where they belong.
Reads(q, r) == \/ r.in = q.in /\ q.pc # "gate"
               \/ /\ q.in # <<>> /\ r.in = Tail(q.in)
                  /\ q.pc = "gate" => \/ r.pc = "auth" /\ Head(q.in) = "HostKeyAccept"
                                      \/ r.pc = "reject" /\ Head(q.in) \in Decisions
                                      \/ r.pc = "gate" /\ Head(q.in) \notin Decisions

Asks(q, p) == q.pc = "verify" /\ p = "gate"
Speaks(q, r) == \/ r.out = q.out /\ ~Asks(q, r.pc)
                \/ \E m \in Messages :
                     /\ Len(q.out) < OutCap /\ r.out = Append(q.out, m)
                     /\ m = "HostKeyVerify" <=> Asks(q, r.pc)

\* It goes on at p, with lost_connection l and key k.
Moves(q, p, l, k) ==
  /\ q.pc \notin {"none", "exited"} /\ p \notin {"none", "connect"}
  /\ p = "handshake" => q.pc = "connect" /\ l = q.lost
  /\ p = "verify" => q.pc = "handshake" /\ l = q.lost /\ k \in Keys
  /\ p = "gate" => q.pc \in {"verify", "gate"}
  /\ p \in LoggingIn => \/ q.pc \in LoggingIn
                        \/ q.pc = "verify" /\ q.pin = q.key
                        \/ q.pc = "gate" /\ p = "auth"
  /\ k = q.key \/ p = "verify"
  /\ l = q.lost \/ q.pc \in {"connect", "handshake"} \cup LoggingIn

ControlRel(q, r) ==
  /\ r \in SessRecs
  /\ r.target = q.target /\ r.pin = q.pin /\ r.released = q.released
  /\ Reads(q, r) /\ Speaks(q, r) /\ Moves(q, r.pc, r.lost, r.key)

\* The thread says one thing, and its requests stay.
LEMMA SayingIsControl ==
  ASSUME NEW q \in SessRecs, NEW m \in Messages, Len(q.out) < OutCap, NEW p \in ThreadPcs,
         NEW k \in Keys \cup {None}, NEW n \in 0 .. MaxEntries,
         q.pc # "gate", m = "HostKeyVerify" <=> Asks(q, p), Moves(q, p, q.lost, k)
  PROVE  ControlRel(q, [q EXCEPT !.out = Append(q.out, m), !.pc = p,
                                !.key = k, !.left = n])
  <1> DEFINE r == [q EXCEPT !.out = Append(q.out, m), !.pc = p,
                           !.key = k, !.left = n]
  <1>1. Append(q.out, m) \in Seq(Messages)
    BY HasAppend DEF SessRecs
  <1>2. /\ r.out = Append(q.out, m) /\ r.in = q.in /\ r.lost = q.lost /\ r.key = k /\ r.pc = p
        /\ r.target = q.target /\ r.pin = q.pin /\ r.released = q.released
    BY DEF SessRecs
  <1>3. r \in SessRecs
    BY <1>1 DEF SessRecs
  <1> HIDE DEF r
  <1>4. Speaks(q, r) /\ Reads(q, r)
    BY <1>2 DEF Speaks, Reads
  <1> QED
    BY <1>2, <1>3, <1>4 DEF ControlRel, r

\* It says what has failed, and that the connection is lost.
LEMMA LosingIsControl ==
  ASSUME NEW q \in SessRecs, NEW m \in Messages \ {"HostKeyVerify"}, Len(q.out) < OutCap,
         NEW p \in {"exit", "closing"}, q.pc \in {"connect", "handshake"} \cup LoggingIn
  PROVE  ControlRel(q, [q EXCEPT !.out = Append(q.out, m), !.pc = p, !.lost = TRUE])
  <1> DEFINE r == [q EXCEPT !.out = Append(q.out, m), !.pc = p, !.lost = TRUE]
  <1>1. Append(q.out, m) \in Seq(Messages)
    BY HasAppend DEF SessRecs
  <1>2. /\ r.out = Append(q.out, m) /\ r.in = q.in /\ r.lost = TRUE /\ r.key = q.key /\ r.pc = p
        /\ r.target = q.target /\ r.pin = q.pin /\ r.released = q.released
    BY DEF SessRecs
  <1>3. r \in SessRecs
    BY <1>1 DEF SessRecs, ThreadPcs
  <1> HIDE DEF r
  <1>4. q.pc # "gate" /\ Moves(q, r.pc, r.lost, r.key)
    BY <1>2 DEF Moves, LoggingIn
  <1>5. Speaks(q, r) /\ Reads(q, r)
    BY <1>2, <1>4 DEF Speaks, Reads, Asks
  <1> QED
    BY <1>2, <1>3, <1>4, <1>5 DEF ControlRel, r

\* It says nothing, and goes on at p.
LEMMA GoingIsControl ==
  ASSUME NEW q \in SessRecs, NEW p \in ThreadPcs,
         q.pc # "gate", ~Asks(q, p), Moves(q, p, q.lost, q.key)
  PROVE  ControlRel(q, [q EXCEPT !.pc = p])
  <1> DEFINE r == [q EXCEPT !.pc = p]
  <1>1. /\ r.out = q.out /\ r.in = q.in /\ r.lost = q.lost /\ r.key = q.key /\ r.pc = p
        /\ r.target = q.target /\ r.pin = q.pin /\ r.released = q.released
        /\ r \in SessRecs
    BY DEF SessRecs
  <1> HIDE DEF r
  <1> QED
    BY <1>1 DEF ControlRel, Speaks, Reads, r

\* It reads a request.
LEMMA ReadingIsControl ==
  ASSUME NEW q \in SessRecs, NEW p \in ThreadPcs, q.in # <<>>,
         \/ q.pc = "serve" /\ p \in {"closing", "list", "delete", "serve"}
         \/ /\ q.pc = "gate"
            /\ \/ p = "auth" /\ Head(q.in) = "HostKeyAccept"
               \/ p = "reject" /\ Head(q.in) \in Decisions
               \/ p = "gate" /\ Head(q.in) \notin Decisions
  PROVE  ControlRel(q, [q EXCEPT !.in = Tail(q.in), !.pc = p])
  <1> DEFINE r == [q EXCEPT !.in = Tail(q.in), !.pc = p]
  <1>1. Tail(q.in) \in Seq(Requests)
    BY HasTail DEF SessRecs
  <1>2. /\ r.out = q.out /\ r.in = Tail(q.in) /\ r.lost = q.lost /\ r.key = q.key /\ r.pc = p
        /\ r.target = q.target /\ r.pin = q.pin /\ r.released = q.released
    BY DEF SessRecs
  <1>3. r \in SessRecs
    BY <1>1 DEF SessRecs
  <1> HIDE DEF r
  <1>4. Moves(q, r.pc, r.lost, r.key)
    BY <1>2 DEF Moves, LoggingIn
  <1> QED
    BY <1>2, <1>3, <1>4 DEF ControlRel, Speaks, Asks, Reads, r

LEMMA ControlSteps ==
  ASSUME TypeOK, NEW s \in Sessions, ControlStep(s)
  PROVE  /\ ControlRel(sess[s], sess'[s])
         /\ sess' = [sess EXCEPT ![s] = sess'[s]] /\ Stays
  <1> DEFINE q == sess[s]
             Good == ControlRel(sess[s], sess'[s]) /\ sess' = [sess EXCEPT ![s] = sess'[s]]
  <1>1. /\ q \in SessRecs /\ sess \in [Sessions -> SessRecs]
        /\ q.lost \in BOOLEAN /\ q.key \in Keys \cup {None} /\ q.left \in 0 .. MaxEntries
        /\ q.pc \in ThreadPcs
    BY DEF TypeOK, SessRecs
  <1>2. ASSUME NEW x, sess' = [sess EXCEPT ![s] = x], ControlRel(q, x)
        PROVE  Good
    BY <1>1, <1>2
  <1> HIDE DEF Good
  <1>3. ASSUME NEW m \in Messages, NEW p \in ThreadPcs, Says(s, m, p), q.pc # "gate",
               m = "HostKeyVerify" <=> Asks(q, p), Moves(q, p, q.lost, q.key)
        PROVE  Good
    <2>1. /\ Len(q.out) < OutCap
          /\ sess' = [sess EXCEPT ![s] = [q EXCEPT !.out = Append(q.out, m), !.pc = p,
                                        !.key = q.key, !.left = q.left]]
      BY <1>1, <1>3 DEF Says, SessRecs
    <2> HIDE DEF q
    <2>2. ControlRel(q, [q EXCEPT !.out = Append(q.out, m), !.pc = p,
                                 !.key = q.key, !.left = q.left])
      BY <1>1, <1>3, <2>1, SayingIsControl
    <2> QED
      BY <1>2, <2>1, <2>2
  <1>4. ASSUME NEW m \in Messages \ {"HostKeyVerify"}, NEW p \in {"exit", "closing"},
               Loses(s, m, p), q.pc \in {"connect", "handshake"} \cup LoggingIn
        PROVE  Good
    <2>1. /\ Len(q.out) < OutCap
          /\ sess' = [sess EXCEPT ![s] = [q EXCEPT !.out = Append(q.out, m), !.pc = p,
                                        !.lost = TRUE]]
      BY <1>1, <1>4 DEF Loses, SessRecs
    <2> HIDE DEF q
    <2>2. ControlRel(q, [q EXCEPT !.out = Append(q.out, m), !.pc = p, !.lost = TRUE])
      BY <1>1, <1>4, <2>1, LosingIsControl
    <2> QED
      BY <1>2, <2>1, <2>2
  <1>5. ASSUME NEW p \in ThreadPcs, Goes(s, p), q.pc # "gate", ~Asks(q, p),
               Moves(q, p, q.lost, q.key)
        PROVE  Good
    <2>1. sess' = [sess EXCEPT ![s] = [q EXCEPT !.pc = p]]
      BY <1>1, <1>5 DEF Goes
    <2> HIDE DEF q
    <2> QED
      BY <1>1, <1>2, <1>5, <2>1, GoingIsControl
  <1>6. ASSUME NEW p \in ThreadPcs, q.in # <<>>,
               sess' = [sess EXCEPT ![s].in = Tail(@), ![s].pc = p],
               \/ q.pc = "serve" /\ p \in {"closing", "list", "delete", "serve"}
               \/ /\ q.pc = "gate"
                  /\ \/ p = "auth" /\ Head(q.in) = "HostKeyAccept"
                     \/ p = "reject" /\ Head(q.in) \in Decisions
                     \/ p = "gate" /\ Head(q.in) \notin Decisions
        PROVE  Good
    <2>1. sess' = [sess EXCEPT ![s] = [q EXCEPT !.in = Tail(q.in), !.pc = p]]
      BY <1>1, <1>6 DEF SessRecs
    <2> HIDE DEF q
    <2> QED
      BY <1>1, <1>2, <1>6, <2>1, ReadingIsControl
  <1>7. ASSUME NEW m \in {"Log", "Entry"}, NEW n \in 0 .. MaxEntries,
               Len(q.out) < OutCap, q.pc \in {"list", "reading"},
               sess' = [sess EXCEPT ![s].out = Append(@, m), ![s].pc = "reading", ![s].left = n]
        PROVE  Good
    <2>1. sess' = [sess EXCEPT ![s] = [q EXCEPT !.out = Append(q.out, m), !.pc = "reading",
                                       !.key = q.key, !.left = n]]
      BY <1>1, <1>7 DEF SessRecs
    <2> HIDE DEF q
    <2>2. /\ "reading" \in ThreadPcs /\ m \in Messages /\ m # "HostKeyVerify"
          /\ q.pc # "gate" /\ ~Asks(q, "reading") /\ Moves(q, "reading", q.lost, q.key)
      BY <1>7 DEF ThreadPcs, Messages, LoggingIn, Moves, Asks
    <2>3. ControlRel(q, [q EXCEPT !.out = Append(q.out, m), !.pc = "reading",
                                 !.key = q.key, !.left = n])
      BY <1>1, <1>7, <2>1, <2>2, SayingIsControl
    <2> QED
      BY <1>2, <2>1, <2>3
  <1>8. Stays
    BY DEF ControlStep, Connect, Handshake, Verify, Gate, Reject, Authenticate, OpenSftp,
           List, SendEntry, EndListing, SendDone, Serve, Delete, EndDelete, Close,
           SendExit, Return
  <1> SUFFICES Good
    BY <1>8 DEF Good
  \* Saying something that is no question on the way from pc to p.
  <1>9. ASSUME NEW m \in {"Log", "Error", "Done", "ThreadExit", "Disconnected"},
               NEW p \in {"handshake", "exit", "sftp", "list", "listed", "serve",
                         "deleting", "closing", "return"},
               Says(s, m, p), q.pc \notin {"none", "exited", "gate"},
               p = "handshake" => q.pc = "connect", p \in LoggingIn => q.pc \in LoggingIn
        PROVE  Good
    <2>1. /\ m \in Messages /\ p \in ThreadPcs /\ m # "HostKeyVerify"
          /\ ~Asks(q, p) /\ Moves(q, p, q.lost, q.key)
      BY <1>9 DEF Messages, ExitKinds, ThreadPcs, Moves, Asks
    <2> QED
      BY <1>3, <1>9, <2>1
  <1> HIDE DEF q
  <1>10. CASE Connect(s)
    BY <1>4, <1>9, <1>10 DEF Connect, At, Messages, LoggingIn, q
  <1>11. CASE Handshake(s)
    <2>1. CASE Loses(s, "Error", "exit")
      BY <1>4, <1>11, <2>1 DEF Handshake, At, Messages, q
    <2>2. ASSUME NEW k \in Keys, Len(q.out) < OutCap,
                 sess' = [sess EXCEPT ![s].out = Append(@, "Log"), ![s].pc = "verify",
                                      ![s].key = k]
          PROVE  Good
      <3>1. sess' = [sess EXCEPT ![s] = [q EXCEPT !.out = Append(q.out, "Log"), !.pc = "verify",
                                         !.key = k, !.left = q.left]]
        BY <1>1, <2>2 DEF SessRecs, q
      <3>2. q.pc = "handshake"
        BY <1>11 DEF Handshake, At, q
      <3>3. /\ "Log" \in Messages /\ "verify" \in ThreadPcs /\ k \in Keys \cup {None}
            /\ ~Asks(q, "verify") /\ Moves(q, "verify", q.lost, k)
        BY <3>2 DEF Messages, ThreadPcs, Asks, Moves, LoggingIn
      <3>4. ControlRel(q, [q EXCEPT !.out = Append(q.out, "Log"), !.pc = "verify",
                                   !.key = k, !.left = q.left])
        BY <1>1, <2>2, <3>1, <3>2, <3>3, SayingIsControl DEF q
      <3> QED
        BY <1>2, <3>1, <3>4
    <2> QED
      BY <1>11, <2>1, <2>2 DEF Handshake, q
  <1>12. CASE Verify(s)
    <2>1. q.pc = "verify"
      BY <1>12 DEF Verify, At, q
    <2>2. CASE Says(s, "Error", "exit")
      BY <1>9, <2>1, <2>2 DEF LoggingIn
    <2>3. CASE Goes(s, "auth") /\ q.pin = q.key
      BY <1>5, <2>1, <2>3 DEF ThreadPcs, Asks, Moves, LoggingIn
    <2>4. CASE Says(s, "HostKeyVerify", "gate")
      BY <1>3, <2>1, <2>4 DEF Messages, ThreadPcs, Asks, Moves, LoggingIn
    <2> QED
      BY <1>12, <2>2, <2>3, <2>4 DEF Verify, q
  <1>13. CASE Gate(s)
    <2>1. /\ q.pc = "gate" /\ q.in # <<>>
          /\ sess' = [sess EXCEPT ![s].in = Tail(@),
                ![s].pc = CASE Head(q.in) = "HostKeyAccept" -> "auth"
                            [] Head(q.in) \in {"HostKeyReject", "Quit"} -> "reject"
                            [] OTHER -> "gate"]
      BY <1>13 DEF Gate, At, q
    <2>2. CASE Head(q.in) = "HostKeyAccept"
      BY <1>6, <2>1, <2>2 DEF ThreadPcs
    <2>3. CASE Head(q.in) \in {"HostKeyReject", "Quit"}
      BY <1>6, <2>1, <2>3 DEF ThreadPcs, Decisions
    <2>4. CASE Head(q.in) \notin Decisions
      BY <1>6, <2>1, <2>4 DEF ThreadPcs, Decisions
    <2> QED
      BY <2>2, <2>3, <2>4 DEF Decisions
  <1>14. CASE Reject(s)
    BY <1>9, <1>14 DEF Reject, At, LoggingIn, q
  <1>15. CASE Authenticate(s)
    BY <1>9, <1>15 DEF Authenticate, At, LoggingIn, q
  <1>16. CASE OpenSftp(s)
    BY <1>4, <1>9, <1>16 DEF OpenSftp, At, LoggingIn, Messages, q
  <1>17. CASE EndListing(s)
    BY <1>4, <1>9, <1>17 DEF EndListing, At, LoggingIn, Messages, q
  <1>18. CASE SendDone(s)
    BY <1>9, <1>18 DEF SendDone, At, LoggingIn, q
  <1>19. CASE Serve(s)
    <2>1. /\ q.pc = "serve" /\ q.in # <<>>
          /\ \E p \in {"closing", "list", "delete", "serve"} :
               sess' = [sess EXCEPT ![s].in = Tail(@), ![s].pc = p]
      BY <1>19 DEF Serve, At, q
    <2> QED
      BY <1>6, <2>1 DEF ThreadPcs
  <1>20. CASE Delete(s)
    BY <1>9, <1>20 DEF Delete, At, LoggingIn, q
  <1>21. CASE EndDelete(s)
    <2>1. CASE Goes(s, "serve")
      BY <1>5, <1>21, <2>1 DEF EndDelete, At, LoggingIn, ThreadPcs, Asks, Moves, q
    <2>2. CASE ~Goes(s, "serve")
      BY <1>4, <1>9, <1>21, <2>2 DEF EndDelete, At, LoggingIn, Messages, q
    <2> QED
      BY <2>1, <2>2
  <1>22. CASE Close(s)
    BY <1>9, <1>22 DEF Close, At, LoggingIn, q
  <1>23. CASE SendExit(s)
    BY <1>9, <1>23 DEF SendExit, At, LoggingIn, q
  <1>24. CASE Return(s)
    BY <1>5, <1>24 DEF Return, At, LoggingIn, ThreadPcs, Asks, Moves, q
  <1>25. CASE List(s)
    <2>1. MaxEntries \in 0 .. MaxEntries
      BY SizesAssumption
    <2>2. /\ q.pc = "list" /\ Len(q.out) < OutCap
          /\ sess' = [sess EXCEPT ![s].out = Append(@, "Log"), ![s].pc = "reading",
                                 ![s].left = MaxEntries]
      BY <1>25 DEF List, At, q
    <2> QED
      BY <1>7, <2>1, <2>2
  <1>26. CASE SendEntry(s)
    <2>1. /\ q.pc = "reading" /\ q.left - 1 \in 0 .. MaxEntries /\ Len(q.out) < OutCap
          /\ sess' = [sess EXCEPT ![s].out = Append(@, "Entry"), ![s].left = @ - 1]
      BY <1>1, <1>26, SizesAssumption DEF SendEntry, At, q
    <2>2. sess' = [sess EXCEPT ![s].out = Append(@, "Entry"), ![s].pc = "reading",
                               ![s].left = q.left - 1]
      BY <1>1, <2>1 DEF SessRecs, q
    <2> QED
      BY <1>7, <2>1, <2>2
  <1> QED
    BY <1>10, <1>11, <1>12, <1>13, <1>14, <1>15, <1>16, <1>17, <1>18, <1>19, <1>20, <1>21,
       <1>22, <1>23, <1>24, <1>25, <1>26 DEF ControlStep

\* Requests only go, one at a time, and what is left in the ring was there.
LEMMA RingsInControl ==
  ASSUME NEW q \in SessRecs, NEW r, ControlRel(q, r)
  PROVE  /\ \A m : Has(r.in, m) => Has(q.in, m)
         /\ \A m : Has(q.in, m) => Has(r.in, m) \/ (q.in # <<>> /\ Head(q.in) = m)
         /\ Len(r.in) <= Len(q.in)
         /\ Len(r.out) <= OutCap \/ r.out = q.out
         /\ Has(r.out, "HostKeyVerify") <=> Has(q.out, "HostKeyVerify") \/ Asks(q, r.pc)
         /\ Once(q.out, "HostKeyVerify")
              /\ (Asks(q, r.pc) => ~Has(q.out, "HostKeyVerify")) => Once(r.out, "HostKeyVerify")
         /\ q.pc = "gate" => q.in # <<>> /\ Has(q.in, Head(q.in))
  <1>1. q.in \in Seq(Requests) /\ q.out \in Seq(Messages)
    BY DEF SessRecs
  <1>2. q.in # <<>> => \A m : /\ Has(q.in, m) <=> Head(q.in) = m \/ Has(Tail(q.in), m)
                              /\ Len(Tail(q.in)) = Len(q.in) - 1
    BY <1>1, HasTail
  <1>3. /\ r.in = q.in \/ (q.in # <<>> /\ r.in = Tail(q.in))
        /\ q.pc = "gate" => q.in # <<>>
    BY DEF ControlRel, Reads
  <1>4. Len(q.in) \in Nat /\ Len(q.out) \in Nat /\ OutCap \in Nat
    BY <1>1, SizesAssumption
  <1>5. /\ \A m : Has(r.in, m) => Has(q.in, m)
        /\ \A m : Has(q.in, m) => Has(r.in, m) \/ (q.in # <<>> /\ Head(q.in) = m)
        /\ q.pc = "gate" => q.in # <<>> /\ Has(q.in, Head(q.in))
    BY <1>2, <1>3
  <1>6. Len(r.in) <= Len(q.in)
    <2>1. CASE r.in = q.in
      BY <1>4, <2>1
    <2>2. CASE q.in # <<>> /\ r.in = Tail(q.in)
      <3>1. Len(r.in) = Len(q.in) - 1
        BY <1>2, <2>2
      <3> QED
        BY <1>4, <3>1
    <2> QED
      BY <1>3, <2>1, <2>2
  <1> DEFINE Out == /\ Len(r.out) <= OutCap \/ r.out = q.out
                    /\ Has(r.out, "HostKeyVerify")
                         <=> Has(q.out, "HostKeyVerify") \/ Asks(q, r.pc)
                    /\ Once(q.out, "HostKeyVerify")
                         /\ (Asks(q, r.pc) => ~Has(q.out, "HostKeyVerify"))
                         => Once(r.out, "HostKeyVerify")
  <1>7. CASE r.out = q.out /\ ~Asks(q, r.pc)
    <2>1. Out
      BY <1>7
    <2> HIDE DEF Out
    <2> QED
      BY <1>5, <1>6, <2>1 DEF Out
  <1>8. CASE ~(r.out = q.out /\ ~Asks(q, r.pc))
    <2>1. PICK m \in Messages : /\ Len(q.out) < OutCap /\ r.out = Append(q.out, m)
                                /\ m = "HostKeyVerify" <=> Asks(q, r.pc)
      BY <1>8 DEF ControlRel, Speaks
    <2>2. /\ Len(r.out) = Len(q.out) + 1
          /\ Has(r.out, "HostKeyVerify") <=> Has(q.out, "HostKeyVerify") \/ m = "HostKeyVerify"
          /\ Once(q.out, "HostKeyVerify")
               /\ (m # "HostKeyVerify" \/ ~Has(q.out, "HostKeyVerify"))
               => Once(r.out, "HostKeyVerify")
      BY <1>1, <2>1, HasAppend
    <2>3. Len(r.out) <= OutCap
      BY <1>4, <2>1, <2>2
    <2>4. Out
      BY <2>1, <2>2, <2>3
    <2> HIDE DEF Out
    <2> QED
      BY <1>5, <1>6, <2>4 DEF Out
  <1> QED
    BY <1>7, <1>8

LEMMA SafeRecStays ==
  ASSUME NEW q \in SessRecs, NEW r, ControlRel(q, r), SafeRec(q)
  PROVE  SafeRec(r)
  <1>1. /\ r.target = q.target /\ r.pin = q.pin /\ r.released = q.released
        /\ Moves(q, r.pc, r.lost, r.key) /\ Reads(q, r) /\ r \in SessRecs
    BY DEF ControlRel
  <1>2. \A m : Has(r.in, m) => Has(q.in, m)
    BY RingsInControl
  <1>3. q.pc = "gate" /\ r.pc = "auth" => Has(q.in, "HostKeyAccept")
    BY <1>1, RingsInControl DEF Reads
  <1>4. r.pin # None => <<r.target, r.pin>> \in trusted
    BY <1>1 DEF SafeRec
  <1>5. r.key = q.key => (Trusted(r) <=> Trusted(q))
    BY <1>1 DEF Trusted
  <1>6. r.pc \in LoggingIn => Trusted(r)
    <2> SUFFICES ASSUME r.pc \in LoggingIn PROVE Trusted(r)
      OBVIOUS
    <2>1. r.key = q.key
      BY <1>1 DEF Moves, LoggingIn
    <2>2. CASE q.pc = "verify" /\ q.pin = q.key
      BY <1>5, <2>1, <2>2, NamesAssumption DEF SafeRec, Trusted
    <2> QED
      BY <1>1, <1>3, <1>5, <2>1, <2>2 DEF Moves, SafeRec
  <1>7. Has(r.in, "HostKeyAccept") => Trusted(r) /\ r.pc \notin Early
    BY <1>1, <1>2, <1>5 DEF Moves, SafeRec, Early
  <1>8. r.pc \in Early => r.key = None /\ ~r.lost
    BY <1>1 DEF Moves, SafeRec, Early
  <1>9. r.pc \in {"verify", "gate"} => r.key \in Keys
    BY <1>1 DEF Moves, SafeRec
  <1>10. r.lost => r.key = None \/ Trusted(r)
    <2>1. r.key # q.key => ~q.lost /\ ~r.lost
      BY <1>1 DEF Moves, SafeRec, Early
    <2> QED
      BY <1>1, <1>5, <2>1 DEF Moves, SafeRec, Early
  <1>11. r.released => r.pc = "exited"
    BY <1>1 DEF Moves, SafeRec
  <1>12. r.pc # "none" => r.target \in Targets
    BY <1>1 DEF Moves, SafeRec
  <1> QED
    BY <1>4, <1>6, <1>7, <1>8, <1>9, <1>10, <1>11, <1>12 DEF SafeRec

LEMMA TalkStays ==
  ASSUME NEW q \in SessRecs, NEW r, ControlRel(q, r), SafeRec(q), Talk(q)
  PROVE  Talk(r)
  <1>1. Moves(q, r.pc, r.lost, r.key) /\ Reads(q, r)
    BY DEF ControlRel
  <1>2. Pending(r) => Pending(q)
    BY RingsInControl DEF Pending
  <1>3. /\ Has(r.out, "HostKeyVerify") <=> Has(q.out, "HostKeyVerify") \/ Asks(q, r.pc)
        /\ Once(q.out, "HostKeyVerify")
             /\ (Asks(q, r.pc) => ~Has(q.out, "HostKeyVerify")) => Once(r.out, "HostKeyVerify")
    BY RingsInControl
  <1>4. q.pc = "gate" /\ ~Pending(q) => r.pc = "gate" /\ r.key = q.key
    <2>1. q.pc = "gate" => q.in # <<>> /\ Has(q.in, Head(q.in))
      BY RingsInControl
    <2> QED
      BY <1>1, <2>1 DEF Reads, Moves, Pending, Decisions
  <1>5. q.pc = "gate" /\ r.pc = "gate" /\ Pending(q) => Pending(r)
    <2>1. \A m : Has(q.in, m) => Has(r.in, m) \/ (q.in # <<>> /\ Head(q.in) = m)
      BY RingsInControl
    <2> QED
      BY <1>1, <2>1 DEF Reads, Pending
  <1>6. r.pc \in Early \cup {"verify"} => q.pc \in Early
    BY <1>1 DEF Moves, Early
  <1>7. Once(r.out, "HostKeyVerify")
    BY <1>3 DEF Talk, Asks
  <1> HIDE DEF Once
  <1> QED
    BY <1>1, <1>2, <1>3, <1>4, <1>5, <1>6, <1>7 DEF Talk, Asks, Moves, Early

LEMMA ControlKeeps ==
  ASSUME SInv, NEW s \in Sessions, ControlStep(s)
  PROVE  SInv'
  <1> DEFINE q == sess[s]
             r == sess'[s]
  <1>1. /\ TypeOK /\ SessionSafe /\ UiSafe /\ Conversation
        /\ sess \in [Sessions -> SessRecs] /\ q \in SessRecs /\ SafeRec(q)
    BY DEF SInv, TypeOK, SessionSafe
  <1>2. /\ ControlRel(q, r) /\ sess' = [sess EXCEPT ![s] = r]
        /\ rc' = rc /\ ui' = ui /\ dialog' = dialog /\ known' = known
        /\ started' = started /\ trusted' = trusted
    BY <1>1, ControlSteps DEF Stays
  <1>3. /\ r \in SessRecs /\ r.target = q.target /\ r.released = q.released
        /\ Moves(q, r.pc, r.lost, r.key)
    BY <1>2 DEF ControlRel
  <1>4. \A t \in Sessions \ {s} : sess'[t] = sess[t]
    BY <1>1, <1>2
  <1>5. TypeOK'
    <2>1. sess' \in [Sessions -> SessRecs]
      BY <1>1, <1>2, <1>3
    <2>2. /\ Len(r.in) <= Len(q.in)
          /\ Len(r.out) <= OutCap \/ r.out = q.out
          /\ Len(r.in) \in Nat /\ Len(q.in) \in Nat /\ Len(q.in) <= InCap /\ Len(q.out) <= OutCap
      BY <1>1, <1>2, <1>3, RingsInControl DEF TypeOK, SessRecs
    <2>3. Len(r.in) <= InCap /\ Len(r.out) <= OutCap
      BY <2>2, SizesAssumption
    <2>4. \A t \in Sessions : Len(sess'[t].in) <= InCap /\ Len(sess'[t].out) <= OutCap
      BY <1>1, <1>4, <2>3 DEF TypeOK
    <2> QED
      BY <1>1, <1>2, <2>1, <2>4 DEF TypeOK
  <1> HIDE DEF q, r
  <1>6. SessionSafe'
    <2> SUFFICES ASSUME NEW t \in Sessions PROVE SafeRec(sess[t])'
      BY DEF SessionSafe
    <2>1. SafeRec(sess'[t])
      <3>1. SafeRec(r)
        BY <1>1, <1>2, SafeRecStays
      <3> QED
        BY <1>1, <1>4, <3>1 DEF SessionSafe, r
    <2> QED
      BY <1>2, <2>1 DEF SafeRec, Trusted
  <1>7. ASSUME rc.cur # 0
        PROVE  /\ Cur \in SessRecs /\ Cur'.target = Cur.target /\ Cur'.released = Cur.released
               /\ Cur.pc \notin Early => Cur'.pc \notin Early /\ Cur'.key = Cur.key
               /\ Calm /\ ~rc.joined => Talk(Cur)'
    <2>1. rc.cur \in Sessions
      BY <1>1, <1>7, SizesAssumption DEF TypeOK, Sessions
    <2>2. CASE rc.cur = s
      <3>1. Cur = q /\ Cur' = r
        BY <1>2, <2>2 DEF Cur, q, r
      <3>2. Calm /\ ~rc.joined => Talk(r)
        BY <1>1, <1>2, <3>1, TalkStays DEF Conversation
      <3>3. Calm /\ ~rc.joined => Talk(Cur)'
        BY <1>2, <3>1, <3>2 DEF Talk, Pending
      <3> QED
        BY <1>1, <1>3, <3>1, <3>3 DEF Moves, Early
    <2>3. CASE rc.cur # s
      <3>1. Cur' = Cur /\ Cur \in SessRecs
        BY <1>1, <1>2, <1>4, <2>1, <2>3 DEF Cur
      <3> QED
        BY <1>1, <1>2, <3>1 DEF Conversation, Talk, Pending
    <2> QED
      BY <2>2, <2>3
  <1>8. UiSafe'
    BY <1>1, <1>2, <1>7 DEF UiSafe, Trusted
  <1>9. Conversation'
    <2>1. Calm' = Calm
      BY <1>2 DEF Calm
    <2> QED
      BY <1>1, <1>2, <1>7, <2>1 DEF Conversation, UiSafe
  <1>10. PinsAreTrusted'
    BY <1>2 DEF SInv, PinsAreTrusted
  <1>11. OnlyLossIsRetried'
    <2> SUFFICES ASSUME rc.awaiting PROVE OnlyLossIsRetried'
      BY <1>2 DEF OnlyLossIsRetried
    <2>1. started \in Sessions /\ sess[started].pc = "exited"
      BY <1>1, SizesAssumption DEF SInv, OnlyLossIsRetried, TypeOK, Sessions
    <2>2. started # s
      BY <1>3, <2>1 DEF Moves, q
    <2> QED
      BY <1>2, <1>4, <2>1, <2>2 DEF SInv, OnlyLossIsRetried
  <1> QED
    BY <1>5, <1>6, <1>8, <1>9, <1>10, <1>11 DEF SInv

----------------------------------------------------------------------------
(* The UI thread, where it leaves the sessions alone.                      *)

LEMMA InitSInv == Init => SInv
  <1> SUFFICES ASSUME Init PROVE SInv
    OBVIOUS
  <1>1. NoSession \in SessRecs /\ ~Has(NoSession.in, "HostKeyAccept")
    <2>1. <<>> \in Seq(Requests) /\ <<>> \in Seq(Messages) /\ 0 \in 0 .. MaxEntries
      BY SizesAssumption
    <2> QED
      BY <2>1, HasEmpty DEF NoSession, SessRecs, ThreadPcs
  <1>2. TypeOK
    BY <1>1, SizesAssumption DEF Init, TypeOK, UiPcs, NoSession
  <1>3. SafeRec(NoSession)
    BY <1>1 DEF NoSession, SafeRec, Early, LoggingIn
  <1>4. UiSafe /\ Conversation
    BY NamesAssumption DEF Init, UiSafe, Conversation
  <1> QED
    BY <1>2, <1>3, <1>4 DEF SInv, Init, SessionSafe, PinsAreTrusted, OnlyLossIsRetried

UiRecs == [pc : UiPcs, todo : Seq(Requests), then : UiPcs,
           goal : Targets \cup {None, "disconnect", "shutdown"}]

RcRecs == [cur : 0 .. MaxSessions, joined : BOOLEAN, connecting : BOOLEAN,
           active : BOOLEAN, awaiting : BOOLEAN, target : Targets \cup {None},
           pin : Keys \cup {None}, prompt : Keys \cup {None}, rows : 0 .. MaxRows]

LEMMA UiGoesType ==
  ASSUME NEW p \in UiPcs, UiGoes(p)
  PROVE  /\ ui' \in UiRecs
         /\ ui'.pc = p /\ ui'.todo = <<>> /\ ui'.then = "drain" /\ ui'.goal = None
  <1>1. <<>> \in Seq(Requests) /\ "drain" \in UiPcs
    BY DEF UiPcs
  <1> QED
    BY <1>1 DEF UiGoes, UiRecs

LEMMA UiWritesType ==
  ASSUME NEW reqs \in Seq(Requests), NEW then \in {"drain", "input", "await"},
         NEW goal \in Targets \cup {None, "disconnect", "shutdown"}, UiWrites(reqs, then, goal)
  PROVE  /\ ui' \in UiRecs
         /\ ui'.pc = "write" /\ ui'.todo = reqs /\ ui'.then = then /\ ui'.goal = goal
  BY DEF UiWrites, UiRecs, UiPcs

\* What sessions did not do wrong stays so with more keys trusted.
LEMMA SafeMore ==
  ASSUME SessionSafe, sess' = sess, trusted \subseteq trusted'
  PROVE  SessionSafe'
  BY DEF SessionSafe, SafeRec, Trusted

\* To the drain, the input or the end of the program.
LEMMA QuietKeeps ==
  ASSUME SInv, DrainEnd \/ EndFrame \/ AfterShutdown
  PROVE  SInv'
  <1>1. /\ sess' = sess /\ rc' = rc /\ known' = known /\ trusted' = trusted
        /\ started' = started /\ dialog' = dialog
        /\ ui'.pc \in {"drain", "input", "stopped"} /\ ui' \in UiRecs /\ ui'.goal = None
        /\ ui'.pc = "stopped" <=> ui.pc = "after"
        /\ ui.pc \in {"after", "drain", "input"}
    BY UiGoesType DEF DrainEnd, EndFrame, AfterShutdown, Drained, UiPcs
  <1>2. TypeOK'
    BY <1>1 DEF SInv, TypeOK, UiRecs
  <1>3. SessionSafe' /\ PinsAreTrusted' /\ OnlyLossIsRetried'
    BY <1>1, SafeMore DEF SInv, PinsAreTrusted, OnlyLossIsRetried
  <1>4. UiSafe'
    BY <1>1, NamesAssumption DEF SInv, UiSafe, Cur
  <1>5. Conversation'
    BY <1>1 DEF SInv, Conversation, Calm, Talk, Pending, Cur
  <1> QED
    BY <1>2, <1>3, <1>4, <1>5 DEF SInv

\* What a write does to the invariant, when it is no decision: Refresh, Navigate and
\* DeleteSelected.
LEMMA RequestsKeep ==
  ASSUME SInv, NEW reqs \in Seq(Requests), reqs # <<>>, \A d \in Decisions : ~Has(reqs, d),
         NEW then \in {"drain", "input"}, UiWrites(reqs, then, None),
         ui.pc \in {"drain", "input"}, LiveSession,
         rc' = [rc EXCEPT !.rows = 0], UNCHANGED <<dialog, known, sess, started, trusted>>
  PROVE  SInv'
  <1>1. /\ ui' \in UiRecs
        /\ ui'.pc = "write" /\ ui'.todo = reqs /\ ui'.then = then /\ ui'.goal = None
    BY UiWritesType
  <1>2. TypeOK'
    <2>1. 0 \in 0 .. MaxRows
      BY SizesAssumption
    <2>2. rc' \in RcRecs
      BY <2>1 DEF SInv, TypeOK, RcRecs
    <2> QED
      BY <1>1, <2>2 DEF SInv, TypeOK, UiRecs, RcRecs
  <1>3. /\ rc'.cur = rc.cur /\ rc'.joined = rc.joined /\ rc'.prompt = rc.prompt
        /\ rc'.connecting = rc.connecting /\ rc'.active = rc.active
        /\ rc'.awaiting = rc.awaiting /\ rc'.target = rc.target /\ rc'.pin = rc.pin
        /\ ~rc.joined
    BY DEF SInv, TypeOK, LiveSession
  <1>4. SessionSafe' /\ PinsAreTrusted' /\ OnlyLossIsRetried'
    BY <1>3, SafeMore DEF SInv, PinsAreTrusted, OnlyLossIsRetried
  <1>5. UiSafe'
    BY <1>1, <1>3, NamesAssumption DEF SInv, UiSafe, Cur, Decisions, Trusted
  <1>6. Conversation'
    <2>1. Talk(Cur) /\ Cur' = Cur
      BY <1>3 DEF SInv, Conversation, Calm, Cur
    <2>2. Pending(Cur)' <=> Pending(Cur)
      BY <1>1, <2>1 DEF Pending
    <2> QED
      BY <1>3, <2>1, <2>2 DEF Conversation, Talk
  <1> QED
    BY <1>2, <1>4, <1>5, <1>6 DEF SInv

LEMMA RequestStepsKeep ==
  ASSUME SInv, NEW n \in 0 .. MaxRows, Refresh \/ Navigate \/ DeleteSelected(n)
  PROVE  SInv'
  <1>1. /\ <<"ListDir">> \in Seq(Requests) /\ <<"ListDir">> # <<>>
        /\ \A d \in Decisions : ~Has(<<"ListDir">>, d)
    BY HasOne DEF Requests, Decisions
  <1>2. CASE Refresh
    BY <1>1, <1>2, RequestsKeep DEF Refresh, Drained
  <1>3. CASE Navigate
    BY <1>1, <1>3, RequestsKeep DEF Navigate
  <1>4. CASE DeleteSelected(n)
    <2>1. n \in Nat
      BY SizesAssumption
    <2> QED
      BY <1>4, <2>1, HasDeletes, RequestsKeep DEF DeleteSelected
  <1> QED
    BY <1>2, <1>3, <1>4

\* A click that ends the session: the UI thread goes to tear it down, or there is none.
LEMMA EndingKeeps ==
  ASSUME SInv, ui.pc = "input", NEW goal \in Targets \cup {"disconnect", "shutdown"},
         goal = "disconnect" => dialog = None,
         \/ ~rc.joined /\ UiWrites(<<"Quit">>, "await", goal)
         \/ rc.joined /\ ui' = [ui EXCEPT !.pc = "after", !.goal = goal]
         \/ rc.joined /\ UiGoes("stopped"),
         UNCHANGED <<rc, dialog, known, sess, started, trusted>>
  PROVE  SInv'
  <1>1. /\ <<"Quit">> \in Seq(Requests) /\ <<"Quit">> # <<>> /\ Len(<<"Quit">>) = 1
        /\ ~Has(<<"Quit">>, "HostKeyAccept")
    BY HasOne DEF Requests
  <1>2. /\ ui' \in UiRecs /\ ui'.pc \in {"write", "after", "stopped"}
        /\ ui'.goal \in {goal, None}
        /\ ui'.pc = "write" => ui'.todo = <<"Quit">> /\ ui'.then = "await" /\ ~rc.joined
        /\ ui'.pc # "write" => rc.joined
    <2>1. CASE UiWrites(<<"Quit">>, "await", goal) /\ ~rc.joined
      BY <1>1, <2>1, UiWritesType
    <2>2. CASE rc.joined /\ ui' = [ui EXCEPT !.pc = "after", !.goal = goal]
      BY <2>2 DEF SInv, TypeOK, UiRecs, UiPcs
    <2>3. CASE rc.joined /\ UiGoes("stopped")
      BY <2>3, UiGoesType DEF UiPcs
    <2> QED
      BY <2>1, <2>2, <2>3
  <1>3. TypeOK'
    BY <1>2 DEF SInv, TypeOK, UiRecs
  <1>4. SessionSafe' /\ PinsAreTrusted' /\ OnlyLossIsRetried'
    BY SafeMore DEF SInv, PinsAreTrusted, OnlyLossIsRetried
  <1>5. goal = "disconnect" => rc.prompt = None
    <2> SUFFICES ASSUME goal = "disconnect", rc.prompt # None PROVE FALSE
      OBVIOUS
    <2>1. dialog = <<rc.target, rc.prompt>> /\ ~rc.joined
      BY DEF SInv, PinsAreTrusted, Conversation, Calm
    <2>2. rc.target \in Targets /\ rc.prompt \in Keys
      BY <2>1 DEF SInv, UiSafe, TypeOK
    <2> QED
      BY <2>1, <2>2, NamesAssumption
  <1>6. UiSafe'
    BY <1>1, <1>2, <1>5, NamesAssumption DEF SInv, UiSafe, Cur
  <1>7. Conversation'
    BY <1>2 DEF Conversation, Calm
  <1> QED
    BY <1>3, <1>4, <1>6, <1>7 DEF SInv

LEMMA EndingStepsKeep ==
  ASSUME SInv, \/ \E t \in Targets : ClickConnect(t)
               \/ ClickDisconnect
               \/ CloseWindow
  PROVE  SInv'
  <1>1. ASSUME NEW t \in Targets, ClickConnect(t) PROVE SInv'
    <2>1. t # "disconnect"
      BY NamesAssumption
    <2> QED
      BY <1>1, <2>1, EndingKeeps DEF ClickConnect
  <1>2. CASE ClickDisconnect
    BY <1>2, EndingKeeps DEF ClickDisconnect
  <1>3. CASE CloseWindow
    <2>1. rc.joined = ~LiveSession
      BY DEF SInv, UiSafe, TypeOK, LiveSession
    <2>2. "shutdown" \in Targets \cup {"disconnect", "shutdown"}
      OBVIOUS
    <2> QED
      BY <1>3, <2>1, <2>2, EndingKeeps DEF CloseWindow
  <1> QED
    BY <1>1, <1>2, <1>3

\* The answer to a question that is still open goes to the thread that asked.
LEMMA AnswerKeeps ==
  ASSUME SInv, NEW trust \in BOOLEAN, AnswerPrompt(trust)
  PROVE  SInv'
  <1>1. /\ ui.pc = "input" /\ dialog \in Targets \X Keys /\ dialog' = None
        /\ sess' = sess /\ started' = started
        /\ trusted' = IF trust THEN trusted \cup {dialog} ELSE trusted
    BY DEF AnswerPrompt, SInv, TypeOK
  <1>2. trusted \subseteq trusted' /\ trusted' \subseteq Targets \X Keys
    BY <1>1 DEF SInv, TypeOK
  <1>3. SessionSafe'
    BY <1>1, <1>2, SafeMore DEF SInv
  <1>4. CASE rc.prompt = None
    <2>1. rc' = rc /\ known' = known /\ UiGoes("drain") /\ "drain" \in UiPcs
      BY <1>4 DEF AnswerPrompt, UiPcs
    <2>2. ui' \in UiRecs /\ ui'.pc = "drain" /\ ui'.goal = None
      BY <2>1, UiGoesType
    <2>3. TypeOK'
      BY <1>1, <1>2, <2>1, <2>2 DEF SInv, TypeOK, UiRecs
    <2>4. PinsAreTrusted' /\ OnlyLossIsRetried'
      BY <1>1, <1>2, <1>4, <2>1 DEF SInv, PinsAreTrusted, OnlyLossIsRetried
    <2>5. UiSafe'
      BY <1>1, <2>1, <2>2, NamesAssumption DEF SInv, UiSafe, Cur
    <2>6. Conversation'
      BY <1>1, <2>1, <2>2 DEF SInv, Conversation, Calm, Talk, Pending, Cur
    <2> QED
      BY <1>3, <2>3, <2>4, <2>5, <2>6 DEF SInv
  <1>5. CASE rc.prompt # None
    <2> DEFINE d == IF trust THEN "HostKeyAccept" ELSE "HostKeyReject"
    <2>1. /\ UiWrites(<<d>>, "drain", None)
          /\ rc' = [rc EXCEPT !.prompt = None, !.pin = IF trust THEN rc.prompt ELSE @]
          /\ known' = IF trust THEN [known EXCEPT ![rc.target] = rc.prompt] ELSE known
      BY <1>5 DEF AnswerPrompt
    <2>2. /\ <<d>> \in Seq(Requests) /\ <<d>> # <<>> /\ Len(<<d>>) = 1
          /\ \A m : Has(<<d>>, m) <=> d = m
          /\ d \in Decisions
      BY HasOne DEF Requests, Decisions
    <2>3. /\ ui' \in UiRecs /\ ui'.pc = "write" /\ ui'.todo = <<d>>
          /\ ui'.then = "drain" /\ ui'.goal = None
      BY <2>1, <2>2, UiWritesType
    <2>4. /\ ~rc.joined /\ Talk(Cur) /\ Cur.pc = "gate" /\ Cur.key = rc.prompt
          /\ ~Has(Cur.out, "HostKeyVerify") /\ Once(Cur.out, "HostKeyVerify")
          /\ dialog = <<rc.target, rc.prompt>> /\ rc.prompt \in Keys
          /\ rc.target \in Targets /\ rc.cur # 0 /\ Cur.target = rc.target
      BY <1>1, <1>5, SizesAssumption
      DEF SInv, Conversation, Calm, Talk, PinsAreTrusted, UiSafe, TypeOK
    <2>5. /\ rc' \in RcRecs /\ rc'.cur = rc.cur /\ rc'.joined = rc.joined /\ rc'.prompt = None
          /\ rc'.connecting = rc.connecting /\ rc'.active = rc.active
          /\ rc'.awaiting = rc.awaiting /\ rc'.target = rc.target
          /\ rc'.pin = IF trust THEN rc.prompt ELSE rc.pin
      BY <2>1, <2>4 DEF SInv, TypeOK, RcRecs
    <2>6. known' \in [Targets -> Keys \cup {None}]
      BY <2>1, <2>4 DEF SInv, TypeOK
    <2>7. TypeOK'
      BY <1>1, <1>2, <2>3, <2>5, <2>6 DEF SInv, TypeOK, UiRecs, RcRecs
    <2>8. PinsAreTrusted'
      <3>1. ASSUME NEW t \in Targets, known'[t] # None PROVE <<t, known'[t]>> \in trusted'
        BY <1>1, <1>2, <2>1, <2>4, <3>1 DEF SInv, TypeOK, PinsAreTrusted
      <3>2. rc'.pin # None => <<rc'.target, rc'.pin>> \in trusted'
        BY <1>1, <1>2, <2>4, <2>5 DEF SInv, PinsAreTrusted
      <3> QED
        BY <2>5, <3>1, <3>2 DEF PinsAreTrusted
    <2>9. OnlyLossIsRetried'
      BY <1>1, <1>2, <2>5 DEF SInv, OnlyLossIsRetried
    <2>10. Cur' = Cur
      BY <1>1, <2>5 DEF Cur
    <2>11. trust => Trusted(Cur)'
      BY <1>1, <2>4, <2>10 DEF Trusted
    <2>12. UiSafe'
      <3>1. Cur.pc \notin Early
        BY <2>4 DEF Early
      <3>2. Has(<<d>>, "HostKeyAccept") => trust
        BY <2>2
      <3> HIDE DEF d
      <3> QED
        BY <1>1, <2>2, <2>3, <2>4, <2>5, <2>10, <2>11, <3>1, <3>2, NamesAssumption
        DEF SInv, UiSafe
    <2>13. Conversation'
      <3>1. Pending(Cur)'
        BY <2>2, <2>3 DEF Pending
      <3>2. Talk(Cur)'
        BY <2>4, <2>5, <2>10, <3>1 DEF Talk, Early
      <3> QED
        BY <2>4, <2>5, <3>2 DEF Conversation
    <2> QED
      BY <1>3, <2>7, <2>8, <2>9, <2>12, <2>13 DEF SInv
  <1> QED
    BY <1>4, <1>5

LEMMA EndTeardownKeeps ==
  ASSUME SInv, ui.pc \in {"await", "join"}, EndTeardown,
         SessionSafe', sess' \in [Sessions -> SessRecs],
         \A s \in Sessions : Len(sess'[s].in) <= InCap /\ Len(sess'[s].out) <= OutCap
  PROVE  SInv'
  <1>1. /\ rc' = [rc EXCEPT !.joined = TRUE, !.cur = 0]
        /\ ui' = [ui EXCEPT !.pc = "after"]
        /\ UNCHANGED <<dialog, known, started, trusted>>
    BY DEF EndTeardown
  <1>2. /\ rc'.cur = 0 /\ rc'.joined = TRUE /\ rc'.prompt = rc.prompt
        /\ rc'.connecting = rc.connecting /\ rc'.active = rc.active
        /\ rc'.awaiting = rc.awaiting /\ rc'.target = rc.target /\ rc'.pin = rc.pin
        /\ rc' \in RcRecs
    <2>1. 0 \in 0 .. MaxSessions
      BY SizesAssumption
    <2> QED
      BY <1>1, <2>1 DEF SInv, TypeOK, RcRecs
  <1>3. ui' \in UiRecs /\ ui'.pc = "after" /\ ui'.goal = ui.goal
    BY <1>1 DEF SInv, TypeOK, UiRecs, UiPcs
  <1>4. TypeOK'
    BY <1>1, <1>2, <1>3 DEF SInv, TypeOK, RcRecs, UiRecs
  <1>5. ~rc.joined /\ ~rc.awaiting
    BY DEF SInv, UiSafe, OnlyLossIsRetried
  <1>6. UiSafe'
    BY <1>2, <1>3 DEF SInv, UiSafe
  <1>7. Conversation'
    BY <1>3 DEF Conversation, Calm
  <1>8. PinsAreTrusted' /\ OnlyLossIsRetried'
    BY <1>1, <1>2, <1>5 DEF SInv, PinsAreTrusted, OnlyLossIsRetried
  <1> QED
    BY <1>4, <1>6, <1>7, <1>8 DEF SInv

LEMMA DetachKeeps == SInv /\ Detach => SInv'
  <1> SUFFICES ASSUME SInv, Detach PROVE SInv'
    OBVIOUS
  <1>1. sess' = sess /\ trusted' = trusted /\ EndTeardown /\ ui.pc = "await"
    BY DEF Detach, EndTeardown
  <1>2. SessionSafe'
    BY <1>1, SafeMore DEF SInv
  <1> QED
    BY <1>1, <1>2, EndTeardownKeeps DEF SInv, TypeOK

LEMMA AfterDisconnectKeeps == SInv /\ AfterDisconnect => SInv'
  <1> SUFFICES ASSUME SInv, AfterDisconnect PROVE SInv'
    OBVIOUS
  <1>1. /\ ui.pc = "after" /\ ui.goal = "disconnect" /\ UiGoes("drain") /\ "drain" \in UiPcs
        /\ rc' = [rc EXCEPT !.awaiting = FALSE, !.active = FALSE, !.rows = 0]
        /\ UNCHANGED <<dialog, known, sess, started, trusted>>
    BY DEF AfterDisconnect, UiPcs
  <1>2. ui' \in UiRecs /\ ui'.pc = "drain" /\ ui'.goal = None
    BY <1>1, UiGoesType
  <1>3. /\ rc'.cur = rc.cur /\ rc'.joined = rc.joined /\ rc'.prompt = rc.prompt
        /\ rc'.connecting = rc.connecting /\ rc'.active = FALSE
        /\ rc'.awaiting = FALSE /\ rc'.target = rc.target /\ rc'.pin = rc.pin
        /\ rc' \in RcRecs
    <2>1. 0 \in 0 .. MaxRows
      BY SizesAssumption
    <2> QED
      BY <1>1, <2>1 DEF SInv, TypeOK, RcRecs
  <1>4. rc.joined /\ rc.prompt = None
    BY <1>1 DEF SInv, UiSafe
  <1>5. TypeOK'
    BY <1>1, <1>2, <1>3 DEF SInv, TypeOK, UiRecs, RcRecs
  <1>6. SessionSafe' /\ PinsAreTrusted' /\ OnlyLossIsRetried'
    BY <1>1, <1>3, SafeMore DEF SInv, PinsAreTrusted, OnlyLossIsRetried
  <1>7. UiSafe' /\ Conversation'
    BY <1>1, <1>2, <1>3, <1>4, NamesAssumption DEF SInv, UiSafe, Cur, Conversation
  <1> QED
    BY <1>5, <1>6, <1>7 DEF SInv

----------------------------------------------------------------------------
(* The UI thread, where it changes a session.                              *)

LEMMA ReplaceSess ==
  ASSUME SInv, NEW s \in Sessions, NEW r \in SessRecs, SafeRec(r),
         Len(r.in) <= InCap, Len(r.out) <= OutCap,
         sess' = [sess EXCEPT ![s] = r], trusted' = trusted
  PROVE  /\ sess' \in [Sessions -> SessRecs] /\ SessionSafe'
         /\ \A t \in Sessions : Len(sess'[t].in) <= InCap /\ Len(sess'[t].out) <= OutCap
         /\ sess'[s] = r /\ \A t \in Sessions \ {s} : sess'[t] = sess[t]
  <1>1. sess \in [Sessions -> SessRecs]
    BY DEF SInv, TypeOK
  <1>2. /\ sess' \in [Sessions -> SessRecs]
        /\ sess'[s] = r /\ \A t \in Sessions \ {s} : sess'[t] = sess[t]
    BY <1>1
  <1>3. \A t \in Sessions : SafeRec(sess'[t])
    BY <1>2 DEF SInv, SessionSafe
  <1>4. SessionSafe'
    BY <1>3 DEF SessionSafe, SafeRec, Trusted
  <1> QED
    BY <1>2, <1>4 DEF SInv, TypeOK

\* A message is taken out of the current session's ring.
LEMMA TakingMessage ==
  ASSUME SInv, ~rc.joined, Cur.out # <<>>,
         sess' = [sess EXCEPT ![rc.cur].out = Tail(@)], trusted' = trusted
  PROVE  /\ rc.cur \in Sessions /\ SessionSafe' /\ sess' \in [Sessions -> SessRecs]
         /\ \A t \in Sessions : Len(sess'[t].in) <= InCap /\ Len(sess'[t].out) <= OutCap
         /\ Head(Cur.out) \in Messages
         /\ sess'[rc.cur] = [Cur EXCEPT !.out = Tail(Cur.out)]
         /\ \A t \in Sessions : /\ sess'[t].pc = sess[t].pc /\ sess'[t].target = sess[t].target
                                /\ sess'[t].key = sess[t].key /\ sess'[t].in = sess[t].in
                                /\ sess'[t].lost = sess[t].lost
                                /\ sess'[t].released = sess[t].released
  <1> DEFINE r == [Cur EXCEPT !.out = Tail(Cur.out)]
  <1>1. rc.cur \in Sessions /\ Cur = sess[rc.cur] /\ Cur \in SessRecs /\ SafeRec(Cur)
        /\ Len(Cur.in) <= InCap /\ Len(Cur.out) <= OutCap
    BY SizesAssumption DEF SInv, UiSafe, TypeOK, Sessions, SessionSafe, Cur
  <1>2. /\ Head(Cur.out) \in Messages /\ Tail(Cur.out) \in Seq(Messages)
        /\ Len(Tail(Cur.out)) = Len(Cur.out) - 1 /\ Len(Cur.out) \in Nat /\ OutCap \in Nat
    BY <1>1, HasTail, SizesAssumption DEF SessRecs
  <1>3. /\ r \in SessRecs /\ r.out = Tail(Cur.out) /\ r.in = Cur.in /\ r.pc = Cur.pc
        /\ r.target = Cur.target /\ r.key = Cur.key /\ r.pin = Cur.pin
        /\ r.lost = Cur.lost /\ r.released = Cur.released
    BY <1>1, <1>2 DEF SessRecs
  <1>4. sess' = [sess EXCEPT ![rc.cur] = r]
    BY <1>1 DEF SInv, TypeOK, SessRecs
  <1> HIDE DEF r
  <1>5. SafeRec(r) /\ Len(r.in) <= InCap /\ Len(r.out) <= OutCap
    BY <1>1, <1>2, <1>3 DEF SafeRec, Trusted
  <1> QED
    BY <1>1, <1>2, <1>3, <1>4, <1>5, ReplaceSess, ZenonT(30) DEF r

LEMMA AwaitKeeps == SInv /\ AwaitMsg => SInv'
  <1> SUFFICES ASSUME SInv, AwaitMsg PROVE SInv'
    OBVIOUS
  <1>1. /\ ui.pc = "await" /\ Cur.out # <<>> /\ ~rc.joined
        /\ sess' = [sess EXCEPT ![rc.cur].out = Tail(@)]
        /\ rc' = rc /\ dialog' = dialog /\ known' = known /\ started' = started
        /\ trusted' = trusted
        /\ \E p \in {"join", "await"} : ui' = [ui EXCEPT !.pc = p]
    BY DEF AwaitMsg, SInv, UiSafe
  <1>2. /\ ui' \in UiRecs /\ ui'.pc \in {"join", "await"} /\ ui'.goal = ui.goal
    BY <1>1 DEF SInv, TypeOK, UiRecs, UiPcs
  <1>3. /\ rc.cur \in Sessions /\ SessionSafe' /\ sess' \in [Sessions -> SessRecs]
        /\ \A t \in Sessions : Len(sess'[t].in) <= InCap /\ Len(sess'[t].out) <= OutCap
        /\ \A t \in Sessions : /\ sess'[t].pc = sess[t].pc /\ sess'[t].target = sess[t].target
                               /\ sess'[t].key = sess[t].key /\ sess'[t].in = sess[t].in
                               /\ sess'[t].lost = sess[t].lost
                               /\ sess'[t].released = sess[t].released
    BY <1>1, TakingMessage
  <1>4. TypeOK'
    BY <1>1, <1>2, <1>3 DEF SInv, TypeOK, UiRecs
  <1>5. PinsAreTrusted' /\ OnlyLossIsRetried'
    BY <1>1 DEF SInv, PinsAreTrusted, OnlyLossIsRetried
  <1>6. UiSafe'
    BY <1>1, <1>2, <1>3 DEF SInv, UiSafe, Cur
  <1>7. Conversation'
    BY <1>2 DEF Conversation, Calm
  <1> QED
    BY <1>3, <1>4, <1>5, <1>6, <1>7 DEF SInv

\* The question comes up with its key, and with the host it is about.
LEMMA DrainKeeps == SInv /\ DrainMsg => SInv'
  <1> SUFFICES ASSUME SInv, DrainMsg PROVE SInv'
    OBVIOUS
  <1> DEFINE msg == Head(Cur.out)
  <1>1. /\ ui.pc = "drain" /\ ~rc.joined /\ Cur.out # <<>>
        /\ sess' = [sess EXCEPT ![rc.cur].out = Tail(@)]
        /\ known' = known /\ started' = started /\ trusted' = trusted
        /\ \E p \in {"reap", "drain"} : UiGoes(p)
    BY DEF DrainMsg, LiveSession
  <1>2. ui' \in UiRecs /\ ui'.pc \in {"reap", "drain"} /\ ui'.goal = None
    BY <1>1, UiGoesType DEF UiPcs
  <1>3. /\ rc.cur \in Sessions /\ SessionSafe' /\ sess' \in [Sessions -> SessRecs]
        /\ \A t \in Sessions : Len(sess'[t].in) <= InCap /\ Len(sess'[t].out) <= OutCap
        /\ msg \in Messages
        /\ sess'[rc.cur] = [Cur EXCEPT !.out = Tail(Cur.out)]
        /\ \A t \in Sessions : /\ sess'[t].pc = sess[t].pc /\ sess'[t].target = sess[t].target
                               /\ sess'[t].key = sess[t].key /\ sess'[t].in = sess[t].in
                               /\ sess'[t].lost = sess[t].lost
                               /\ sess'[t].released = sess[t].released
    BY <1>1, TakingMessage
  <1>4. /\ Cur \in SessRecs /\ SafeRec(Cur) /\ Talk(Cur) /\ Cur = sess[rc.cur]
        /\ rc.target \in Targets /\ rc.cur # 0 /\ Cur.target = rc.target
    BY <1>1, <1>3, SizesAssumption DEF SInv, TypeOK, SessionSafe, Conversation, Calm, Cur, UiSafe, Sessions
  <1>5. /\ Has(Cur.out, "HostKeyVerify") <=> msg = "HostKeyVerify" \/ Has(Tail(Cur.out), "HostKeyVerify")
        /\ Once(Cur.out, "HostKeyVerify") => Once(Tail(Cur.out), "HostKeyVerify")
        /\ Once(Cur.out, "HostKeyVerify") /\ msg = "HostKeyVerify"
             => ~Has(Tail(Cur.out), "HostKeyVerify")
    BY <1>1, <1>4, HasTail DEF SessRecs
  <1>6. msg = "HostKeyVerify" => Cur.pc = "gate" /\ rc.prompt = None /\ Cur.key \in Keys
    BY <1>4, <1>5 DEF Talk, SafeRec
  <1>7. /\ rc' \in RcRecs /\ rc'.cur = rc.cur /\ rc'.joined = rc.joined
        /\ rc'.connecting = rc.connecting /\ rc'.active = rc.active
        /\ rc'.awaiting = rc.awaiting /\ rc'.target = rc.target /\ rc'.pin = rc.pin
        /\ rc'.prompt = IF msg = "HostKeyVerify" THEN Cur.key ELSE rc.prompt
        /\ dialog' = IF msg = "HostKeyVerify" THEN <<rc.target, Cur.key>> ELSE dialog
    <2>1. rc \in RcRecs
      BY DEF SInv, TypeOK, RcRecs
    <2>2. CASE msg = "HostKeyVerify"
      <3>1. rc' = [rc EXCEPT !.prompt = Cur.key] /\ dialog' = <<rc.target, Cur.key>>
        BY <2>2 DEF DrainMsg
      <3> QED
        BY <1>6, <2>1, <2>2, <3>1 DEF RcRecs
    <2>3. CASE msg # "HostKeyVerify"
      <3>1. /\ rc' = [rc EXCEPT !.rows = IF msg = "Entry" /\ @ < MaxRows THEN @ + 1 ELSE @]
            /\ dialog' = dialog
        BY <2>3 DEF DrainMsg
      <3>2. (IF msg = "Entry" /\ rc.rows < MaxRows THEN rc.rows + 1 ELSE rc.rows) \in 0 .. MaxRows
        BY <2>1, SizesAssumption DEF RcRecs
      <3> QED
        BY <2>1, <2>3, <3>1, <3>2 DEF RcRecs
    <2> QED
      BY <2>2, <2>3
  <1> HIDE DEF msg
  <1>8. TypeOK'
    BY <1>1, <1>2, <1>3, <1>4, <1>6, <1>7 DEF SInv, TypeOK, UiRecs, RcRecs
  <1>9. PinsAreTrusted'
    BY <1>1, <1>7 DEF SInv, PinsAreTrusted
  <1>10. OnlyLossIsRetried'
    BY <1>1, <1>7 DEF SInv, OnlyLossIsRetried
  <1>11. UiSafe'
    BY <1>1, <1>2, <1>3, <1>4, <1>7, NamesAssumption DEF SInv, UiSafe, Cur
  <1>12. Conversation'
    <2>1. /\ Cur'.out = Tail(Cur.out) /\ Cur'.in = Cur.in /\ Cur'.pc = Cur.pc
          /\ Cur'.key = Cur.key
      BY <1>3, <1>4, <1>7, ZenonT(30) DEF Cur, SessRecs
    <2>2. ~Pending(Cur) => ~Pending(Cur)'
      BY <1>2, <2>1 DEF Pending
    <2>3. Pending(Cur) => Pending(Cur)'
      BY <1>1, <2>1 DEF Pending
    <2>4. Talk(Cur)'
      BY <1>4, <1>5, <1>6, <1>7, <2>1, <2>2, <2>3, NamesAssumption DEF Talk, Early
    <2> QED
      BY <1>1, <1>7, <2>4 DEF Conversation
  <1> QED
    BY <1>3, <1>8, <1>9, <1>10, <1>11, <1>12 DEF SInv

\* A request comes out of ui.todo and goes into the current session's ring.
LEMMA WriteKeeps == SInv /\ Write => SInv'
  <1> SUFFICES ASSUME SInv, Write PROVE SInv'
    OBVIOUS
  <1> DEFINE req == Head(ui.todo)
             r == [Cur EXCEPT !.in = Append(Cur.in, req)]
  <1>1. /\ ui.pc = "write" /\ ~rc.joined /\ ui.todo # <<>> /\ ui.todo \in Seq(Requests)
        /\ ui.then \in {"drain", "input", "await"} /\ Len(Cur.in) < InCap
        /\ sess' = [sess EXCEPT ![rc.cur].in = Append(@, req)]
        /\ rc' = rc /\ dialog' = dialog /\ known' = known /\ started' = started
        /\ trusted' = trusted
    BY DEF Write, SInv, UiSafe, TypeOK
  <1>2. /\ rc.cur \in Sessions /\ rc.cur # 0 /\ Cur = sess[rc.cur] /\ Cur \in SessRecs
        /\ SafeRec(Cur) /\ Len(Cur.out) <= OutCap /\ ~Cur.released
    BY <1>1, SizesAssumption DEF SInv, UiSafe, TypeOK, Sessions, SessionSafe, Cur
  <1>3. /\ req \in Requests /\ Tail(ui.todo) \in Seq(Requests)
        /\ Len(Tail(ui.todo)) = Len(ui.todo) - 1 /\ Len(ui.todo) \in Nat
        /\ \A m : Has(ui.todo, m) <=> req = m \/ Has(Tail(ui.todo), m)
    BY <1>1, HasTail
  <1>4. /\ Append(Cur.in, req) \in Seq(Requests) /\ Len(Append(Cur.in, req)) = Len(Cur.in) + 1
        /\ Len(Cur.in) \in Nat
        /\ \A m : Has(Append(Cur.in, req), m) <=> Has(Cur.in, m) \/ req = m
    BY <1>2, <1>3, HasAppend DEF SessRecs
  <1>5. /\ r \in SessRecs /\ r.out = Cur.out /\ r.in = Append(Cur.in, req) /\ r.pc = Cur.pc
        /\ r.target = Cur.target /\ r.key = Cur.key /\ r.pin = Cur.pin
        /\ r.lost = Cur.lost /\ r.released = Cur.released
    BY <1>2, <1>4 DEF SessRecs
  <1>6. sess' = [sess EXCEPT ![rc.cur] = r]
    BY <1>1, <1>2 DEF SInv, TypeOK, SessRecs
  <1>7. req = "HostKeyAccept" => Trusted(Cur) /\ Cur.pc \notin Early
    BY <1>1, <1>3 DEF SInv, UiSafe
  <1> HIDE DEF r
  <1>8. SafeRec(r) /\ Len(r.in) <= InCap /\ Len(r.out) <= OutCap
    BY <1>1, <1>2, <1>4, <1>5, <1>7, SizesAssumption DEF SafeRec, Trusted
  <1>9. /\ SessionSafe' /\ sess' \in [Sessions -> SessRecs] /\ sess'[rc.cur] = r
        /\ \A t \in Sessions : Len(sess'[t].in) <= InCap /\ Len(sess'[t].out) <= OutCap
        /\ \A t \in Sessions \ {rc.cur} : sess'[t] = sess[t]
    BY <1>1, <1>2, <1>5, <1>6, <1>8, ReplaceSess
  <1>10. /\ ui' \in UiRecs /\ ui'.goal = ui.goal
         /\ \/ /\ Len(ui.todo) # 1 /\ ui'.pc = "write" /\ ui'.then = ui.then
               /\ ui'.todo = Tail(ui.todo)
            \/ Len(ui.todo) = 1 /\ ui'.pc = ui.then
    <2>1. ui \in UiRecs /\ Len(ui.todo) \in Nat /\ Len(ui.todo) # 0
      BY <1>1 DEF SInv, TypeOK, UiRecs
    <2>2. CASE Len(ui.todo) > 1 /\ Len(ui.todo) # 1
      <3>1. ui' = [ui EXCEPT !.todo = Tail(ui.todo)]
        BY <2>2 DEF Write
      <3> QED
        BY <1>1, <1>3, <2>1, <2>2, <3>1 DEF UiRecs
    <2>3. CASE Len(ui.todo) = 1 /\ ~(Len(ui.todo) > 1)
      <3>1. ui' = [pc |-> ui.then, todo |-> <<>>, then |-> "drain", goal |-> ui.goal]
        BY <2>3 DEF Write
      <3>2. <<>> \in Seq(Requests) /\ "drain" \in UiPcs
        BY DEF UiPcs
      <3> QED
        BY <2>1, <2>3, <3>1, <3>2 DEF UiRecs
    <2> QED
      BY <1>1, <2>2, <2>3, OneOrMore
  <1> HIDE DEF req
  <1>11. TypeOK'
    BY <1>1, <1>9, <1>10 DEF SInv, TypeOK, UiRecs
  <1>12. PinsAreTrusted'
    BY <1>1 DEF SInv, PinsAreTrusted
  <1>13. OnlyLossIsRetried'
    BY <1>1 DEF SInv, OnlyLossIsRetried
  <1>14. Cur' = r
    BY <1>1, <1>9 DEF Cur
  <1>15. ASSUME NEW d \in Decisions, ui'.pc = "write"
         PROVE  ~Has(ui'.todo, d)
    <2>1. Len(ui.todo) # 1 /\ ui'.todo = Tail(ui.todo)
      BY <1>1, <1>10, <1>15
    <2>2. Has(ui.todo, d) => Len(ui.todo) = 1
      BY <1>1 DEF SInv, UiSafe
    <2> QED
      BY <1>3, <2>1, <2>2
  <1>16. UiSafe'
    <2>1. Len(ui.todo) # 1 => Tail(ui.todo) # <<>>
      BY <1>1, OneOrMore
    <2>2. ui'.pc = "write" => ui'.todo # <<>>
      BY <1>1, <1>10, <2>1
    <2> QED
      BY <1>1, <1>2, <1>5, <1>10, <1>14, <1>15, <2>2 DEF SInv, UiSafe, Decisions
  <1>17. Conversation'
    <2> SUFFICES ASSUME Calm' PROVE Talk(Cur)'
      BY <1>1 DEF Conversation
    <2>1. Calm /\ Talk(Cur)
      BY <1>1, <1>10 DEF SInv, Conversation, Calm
    <2>2. ASSUME NEW d \in Decisions
          PROVE  Has(r.in, d) \/ (ui'.pc = "write" /\ Has(ui'.todo, d))
                   <=> Has(Cur.in, d) \/ Has(ui.todo, d)
      <3>1. CASE Len(ui.todo) # 1
        <4>1. ui'.pc = "write" /\ ui'.todo = Tail(ui.todo)
          BY <1>10, <3>1
        <4>2. /\ Has(r.in, d) <=> Has(Cur.in, d) \/ req = d
              /\ Has(ui.todo, d) <=> req = d \/ Has(Tail(ui.todo), d)
          BY <1>3, <1>4, <1>5
        <4> QED
          BY <4>1, <4>2
      <3>2. CASE Len(ui.todo) = 1
        <4>1. ~Has(Tail(ui.todo), d)
          BY <1>3, <3>2 DEF Has
        <4>2. ui'.pc # "write"
          BY <1>1, <1>10, <3>2
        <4> QED
          BY <1>3, <1>4, <1>5, <4>1, <4>2
      <3> QED
        BY <1>10, <3>1, <3>2
    <2>3. Pending(Cur)' <=> Pending(Cur)
      BY <1>1, <1>14, <2>2 DEF Pending
    <2> QED
      BY <1>1, <1>5, <1>14, <2>1, <2>3 DEF Talk
  <1> QED
    BY <1>9, <1>11, <1>12, <1>13, <1>16, <1>17 DEF SInv

\* The rings and the arena of a session whose thread has exited are given back.
LEMMA ReleaseFacts ==
  ASSUME SInv, ~rc.joined, Cur.pc = "exited", Release(rc.cur), trusted' = trusted
  PROVE  /\ SessionSafe' /\ sess' \in [Sessions -> SessRecs] /\ rc.cur \in Sessions
         /\ \A t \in Sessions : Len(sess'[t].in) <= InCap /\ Len(sess'[t].out) <= OutCap
         /\ sess'[rc.cur].pc = "exited" /\ sess'[rc.cur].lost = Cur.lost
         /\ sess'[rc.cur].target = Cur.target /\ sess'[rc.cur].key = Cur.key
  <1> DEFINE r == [Cur EXCEPT !.released = TRUE, !.pin = None,
                              !.in = <<>>, !.out = <<>>, !.left = 0]
  <1>1. /\ rc.cur \in Sessions /\ Cur = sess[rc.cur] /\ Cur \in SessRecs /\ SafeRec(Cur)
    BY SizesAssumption DEF SInv, UiSafe, TypeOK, Sessions, SessionSafe, Cur
  <1>2. <<>> \in Seq(Requests) /\ <<>> \in Seq(Messages) /\ 0 \in 0 .. MaxEntries
    BY SizesAssumption
  <1>3. /\ r \in SessRecs /\ r.out = <<>> /\ r.in = <<>> /\ r.pc = Cur.pc
        /\ r.target = Cur.target /\ r.key = Cur.key /\ r.pin = None
        /\ r.lost = Cur.lost
    BY <1>1, <1>2 DEF SessRecs
  <1>4. sess' = [sess EXCEPT ![rc.cur] = r]
    BY <1>1 DEF SInv, TypeOK, SessRecs, Release
  <1> HIDE DEF r
  <1>5. SafeRec(r) /\ Len(r.in) <= InCap /\ Len(r.out) <= OutCap
    <2>1. ~Has(<<>>, "HostKeyAccept") /\ Len(<<>>) = 0
      BY HasEmpty
    <2> QED
      BY <1>1, <1>3, <2>1, SizesAssumption DEF SafeRec, Trusted, LoggingIn, Early
  <1>6. /\ SessionSafe' /\ sess' \in [Sessions -> SessRecs] /\ sess'[rc.cur] = r
        /\ \A t \in Sessions : Len(sess'[t].in) <= InCap /\ Len(sess'[t].out) <= OutCap
    BY <1>1, <1>3, <1>4, <1>5, ReplaceSess
  <1> QED
    BY <1>1, <1>3, <1>6

LEMMA JoinKeeps == SInv /\ JoinSession => SInv'
  <1> SUFFICES ASSUME SInv, JoinSession PROVE SInv'
    OBVIOUS
  <1>1. /\ ui.pc = "join" /\ Cur.pc = "exited" /\ Release(rc.cur) /\ EndTeardown
        /\ trusted' = trusted /\ ~rc.joined
    BY DEF JoinSession, EndTeardown, SInv, UiSafe
  <1> QED
    BY <1>1, ReleaseFacts, EndTeardownKeeps

\* The thread of a lost connection is joined: it had nothing to ask the user.
LEMMA ReapKeeps == SInv /\ Reap => SInv'
  <1> SUFFICES ASSUME SInv, Reap PROVE SInv'
    OBVIOUS
  <1>1. /\ ui.pc = "reap" /\ ~rc.joined /\ Cur.pc = "exited"
        /\ UiGoes("drain") /\ "drain" \in UiPcs
        /\ dialog' = dialog /\ known' = known /\ started' = started /\ trusted' = trusted
    BY DEF Reap, SInv, UiSafe, UiPcs
  <1>2. ui' \in UiRecs /\ ui'.pc = "drain" /\ ui'.goal = None
    BY <1>1, UiGoesType
  <1>3. /\ rc.cur = started /\ rc.cur \in Sessions /\ Cur = sess[rc.cur] /\ Cur.target = rc.target
        /\ rc.connecting /\ rc.active /\ rc.prompt = None /\ started > 0
        /\ Cur.lost \in BOOLEAN /\ SafeRec(Cur)
    BY <1>1, SizesAssumption, SMTT(30)
    DEF SInv, UiSafe, TypeOK, Conversation, Calm, Talk, Sessions, SessRecs, SessionSafe, Cur
  <1>4. CASE Cur.lost
    <2>1. /\ Release(rc.cur)
          /\ rc' = [rc EXCEPT !.joined = TRUE, !.cur = 0, !.rows = 0, !.awaiting = TRUE]
      BY <1>4 DEF Reap
    <2>2. /\ rc' \in RcRecs /\ rc'.cur = 0 /\ rc'.joined /\ rc'.connecting = rc.connecting
          /\ rc'.active = rc.active /\ rc'.awaiting /\ rc'.target = rc.target
          /\ rc'.pin = rc.pin /\ rc'.prompt = rc.prompt
      <3>1. 0 \in 0 .. MaxRows /\ 0 \in 0 .. MaxSessions
        BY SizesAssumption
      <3> QED
        BY <2>1, <3>1 DEF SInv, TypeOK, RcRecs
    <2>3. /\ SessionSafe' /\ sess' \in [Sessions -> SessRecs]
          /\ \A t \in Sessions : Len(sess'[t].in) <= InCap /\ Len(sess'[t].out) <= OutCap
          /\ sess'[rc.cur].pc = "exited" /\ sess'[rc.cur].lost = Cur.lost
          /\ sess'[rc.cur].target = Cur.target /\ sess'[rc.cur].key = Cur.key
      BY <1>1, <2>1, ReleaseFacts
    <2>4. TypeOK'
      BY <1>1, <1>2, <2>2, <2>3 DEF SInv, TypeOK, RcRecs, UiRecs
    <2>5. PinsAreTrusted'
      BY <1>1, <2>2 DEF SInv, PinsAreTrusted
    <2>6. OnlyLossIsRetried'
      BY <1>1, <1>3, <1>4, <2>2, <2>3 DEF OnlyLossIsRetried, SafeRec, Trusted
    <2>7. UiSafe' /\ Conversation'
      BY <1>2, <1>3, <2>2, NamesAssumption DEF UiSafe, Conversation
    <2> QED
      BY <2>3, <2>4, <2>5, <2>6, <2>7 DEF SInv
  <1>5. CASE ~Cur.lost
    <2>1. sess' = sess /\ rc' = [rc EXCEPT !.joined = TRUE]
      BY <1>5 DEF Reap
    <2>2. /\ rc' \in RcRecs /\ rc'.cur = rc.cur /\ rc'.joined /\ rc'.connecting = rc.connecting
          /\ rc'.active = rc.active /\ rc'.awaiting = rc.awaiting /\ rc'.target = rc.target
          /\ rc'.pin = rc.pin /\ rc'.prompt = rc.prompt
      BY <2>1 DEF SInv, TypeOK, RcRecs
    <2>3. TypeOK'
      BY <1>1, <1>2, <2>1, <2>2 DEF SInv, TypeOK, RcRecs, UiRecs
    <2>4. SessionSafe' /\ PinsAreTrusted' /\ OnlyLossIsRetried'
      BY <1>1, <2>1, <2>2, SafeMore DEF SInv, PinsAreTrusted, OnlyLossIsRetried
    <2>5. UiSafe' /\ Conversation'
      BY <1>2, <1>3, <2>1, <2>2, NamesAssumption DEF SInv, UiSafe, Conversation, Cur
    <2> QED
      BY <2>3, <2>4, <2>5 DEF SInv
  <1> QED
    BY <1>3, <1>4, <1>5

\* A session begins: it has nothing said and nothing heard, and the pin it is given
\* is one the user trusts for its host.
LEMMA StartFacts ==
  ASSUME SInv, NEW target \in Targets, NEW pin \in Keys \cup {None}, Start(target, pin),
         pin # None => <<target, pin>> \in trusted, trusted' = trusted,
         rc'.cur = started + 1, rc'.target = target, rc'.prompt = None,
         ~rc'.joined, rc'.connecting, rc'.active, ~rc'.awaiting, ui'.pc = "drain",
         ui' \in UiRecs
  PROVE  /\ SessionSafe' /\ sess' \in [Sessions -> SessRecs] /\ started' \in 1 .. MaxSessions
         /\ \A t \in Sessions : Len(sess'[t].in) <= InCap /\ Len(sess'[t].out) <= OutCap
         /\ started' = started + 1
         /\ UiSafe' /\ Conversation' /\ OnlyLossIsRetried'
  <1> DEFINE n == started + 1
             r == [NoSession EXCEPT !.pc = "connect", !.target = target, !.pin = pin]
  <1>1. n \in Sessions /\ n \in 1 .. MaxSessions /\ n > 0
    BY SizesAssumption DEF Start, SInv, TypeOK, Sessions
  <1>2. sess' = [sess EXCEPT ![n] = r] /\ started' = n
    BY DEF Start
  <1>3. /\ <<>> \in Seq(Requests) /\ <<>> \in Seq(Messages) /\ 0 \in 0 .. MaxEntries
        /\ \A m : ~Has(<<>>, m) /\ Once(<<>>, m)
        /\ Len(<<>>) = 0
    BY HasEmpty, SizesAssumption
  <1>4. /\ r \in SessRecs /\ r.pc = "connect" /\ r.target = target /\ r.pin = pin
        /\ r.key = None /\ r.lost = FALSE /\ r.in = <<>> /\ r.out = <<>> /\ r.released = FALSE
    BY <1>3 DEF NoSession, SessRecs, ThreadPcs
  <1> HIDE DEF r, n
  <1>5. SafeRec(r) /\ Len(r.in) <= InCap /\ Len(r.out) <= OutCap
    BY <1>3, <1>4, SizesAssumption DEF SafeRec, LoggingIn, Early
  <1>6. /\ sess' \in [Sessions -> SessRecs] /\ SessionSafe'
        /\ \A t \in Sessions : Len(sess'[t].in) <= InCap /\ Len(sess'[t].out) <= OutCap
        /\ sess'[n] = r
    BY <1>1, <1>2, <1>4, <1>5, ReplaceSess
  <1>7. Cur' = r /\ rc'.cur = n
    BY <1>6 DEF Cur, n
  <1>8. UiSafe'
    BY <1>1, <1>2, <1>4, <1>7 DEF UiSafe
  <1>9. Talk(Cur)'
    BY <1>3, <1>4, <1>7 DEF Talk, Pending, Early
  <1> QED
    BY <1>1, <1>2, <1>6, <1>8, <1>9 DEF Conversation, OnlyLossIsRetried, n

LEMMA ReconnectKeeps == SInv /\ Reconnect => SInv'
  <1> SUFFICES ASSUME SInv, Reconnect PROVE SInv'
    OBVIOUS
  <1>1. /\ ui.pc = "drain" /\ rc.connecting /\ rc.active /\ rc.awaiting
        /\ Start(rc.target, rc.pin) /\ ui' = ui /\ dialog' = dialog /\ known' = known
        /\ trusted' = trusted
        /\ rc' = [rc EXCEPT !.cur = started + 1, !.joined = FALSE, !.awaiting = FALSE]
    BY DEF Reconnect, Drained
  <1>2. rc.joined /\ rc.prompt = None
    BY <1>1 DEF SInv, OnlyLossIsRetried, Conversation, Calm
  <1>3. rc.target \in Targets
    <2>1. started \in Sessions /\ sess[started].pc = "exited" /\ sess[started].target = rc.target
      BY <1>1, SizesAssumption DEF SInv, OnlyLossIsRetried, TypeOK, Sessions
    <2> QED
      BY <2>1 DEF SInv, SessionSafe, SafeRec
  <1>4. rc.pin \in Keys \cup {None} /\ (rc.pin # None => <<rc.target, rc.pin>> \in trusted)
    BY DEF SInv, TypeOK, PinsAreTrusted
  <1>5. /\ rc' \in RcRecs /\ rc'.cur = started + 1 /\ ~rc'.joined
        /\ rc'.connecting = rc.connecting /\ rc'.active = rc.active /\ ~rc'.awaiting
        /\ rc'.target = rc.target /\ rc'.pin = rc.pin /\ rc'.prompt = rc.prompt
    <2>1. started + 1 \in 0 .. MaxSessions
      BY <1>1, SizesAssumption DEF SInv, TypeOK, Start
    <2> QED
      BY <1>1, <2>1 DEF SInv, TypeOK, RcRecs
  <1>6. ui' \in UiRecs /\ ui'.pc = "drain"
    BY <1>1 DEF SInv, TypeOK, UiRecs
  <1>7. /\ SessionSafe' /\ sess' \in [Sessions -> SessRecs] /\ started' \in 1 .. MaxSessions
        /\ \A t \in Sessions : Len(sess'[t].in) <= InCap /\ Len(sess'[t].out) <= OutCap
        /\ UiSafe' /\ Conversation' /\ OnlyLossIsRetried'
    BY <1>1, <1>2, <1>3, <1>4, <1>5, <1>6, StartFacts
  <1>8. TypeOK'
    BY <1>1, <1>5, <1>6, <1>7, SizesAssumption DEF SInv, TypeOK, RcRecs, UiRecs
  <1>9. PinsAreTrusted'
    BY <1>1, <1>5 DEF SInv, PinsAreTrusted
  <1> QED
    BY <1>7, <1>8, <1>9 DEF SInv

LEMMA ConnectToKeeps == SInv /\ ConnectTo => SInv'
  <1> SUFFICES ASSUME SInv, ConnectTo PROVE SInv'
    OBVIOUS
  <1> DEFINE t == ui.goal
  <1>1. /\ t \in Targets /\ Start(t, known[t]) /\ UiGoes("drain") /\ "drain" \in UiPcs
        /\ dialog' = dialog /\ known' = known /\ trusted' = trusted
        /\ rc' = [cur |-> started + 1, joined |-> FALSE, connecting |-> TRUE,
                  active |-> TRUE, awaiting |-> FALSE, target |-> t,
                  pin |-> known[t], prompt |-> None, rows |-> 0]
    BY DEF ConnectTo, UiPcs
  <1> HIDE DEF t
  <1>2. known[t] \in Keys \cup {None} /\ (known[t] # None => <<t, known[t]>> \in trusted)
    BY <1>1 DEF SInv, TypeOK, PinsAreTrusted
  <1>3. /\ rc' \in RcRecs /\ rc'.cur = started + 1 /\ ~rc'.joined
        /\ rc'.connecting /\ rc'.active /\ ~rc'.awaiting
        /\ rc'.target = t /\ rc'.pin = known[t] /\ rc'.prompt = None
    <2>1. started + 1 \in 0 .. MaxSessions /\ 0 \in 0 .. MaxRows
      BY <1>1, SizesAssumption DEF SInv, TypeOK, Start
    <2> QED
      BY <1>1, <1>2, <2>1 DEF RcRecs
  <1>4. ui' \in UiRecs /\ ui'.pc = "drain"
    BY <1>1, UiGoesType
  <1>5. /\ SessionSafe' /\ sess' \in [Sessions -> SessRecs] /\ started' \in 1 .. MaxSessions
        /\ \A s \in Sessions : Len(sess'[s].in) <= InCap /\ Len(sess'[s].out) <= OutCap
        /\ UiSafe' /\ Conversation' /\ OnlyLossIsRetried'
    BY <1>1, <1>2, <1>3, <1>4, StartFacts
  <1>6. TypeOK'
    BY <1>1, <1>3, <1>4, <1>5, SizesAssumption DEF SInv, TypeOK, RcRecs, UiRecs
  <1>7. PinsAreTrusted'
    BY <1>1, <1>2, <1>3 DEF SInv, PinsAreTrusted
  <1> QED
    BY <1>5, <1>6, <1>7 DEF SInv

----------------------------------------------------------------------------
(* The invariant holds, and what follows from it.                          *)

LEMMA NextSInv == SInv /\ [Next]_vars => SInv'
  <1> SUFFICES ASSUME SInv, [Next]_vars PROVE SInv'
    OBVIOUS
  <1>1. CASE UiStep
    BY <1>1, DrainKeeps, QuietKeeps, ReapKeeps, ReconnectKeeps, RequestStepsKeep, WriteKeeps,
       AwaitKeeps, JoinKeeps, DetachKeeps, AfterDisconnectKeeps, ConnectToKeeps, SizesAssumption
    DEF UiStep, Frame, Teardown
  <1>2. CASE UserStep
    BY <1>2, EndingStepsKeep, RequestStepsKeep, AnswerKeeps, SizesAssumption DEF UserStep
  <1>3. ASSUME NEW s \in Sessions, ControlStep(s) PROVE SInv'
    BY <1>3, ControlKeeps
  <1>4. CASE UNCHANGED vars
    BY <1>4 DEF vars, SInv, TypeOK, SessionSafe, SafeRec, Trusted, UiSafe, Cur, Conversation,
                Calm, Talk, Pending, PinsAreTrusted, OnlyLossIsRetried
  <1> QED
    BY <1>1, <1>2, <1>3, <1>4 DEF Next, Stopped

LEMMA AlwaysSInv == Spec => []SInv
  BY InitSInv, NextSInv, PTL DEF Spec

\* Every variable of the connection has its type, and neither ring of a session ever
\* holds more than it has room for.
THEOREM SessionTypeCorrect == Spec => []TypeOK
  <1>1. SInv => TypeOK
    BY DEF SInv
  <1> QED
    BY <1>1, AlwaysSInv, PTL

\* No session logs in to a server whose key the user has not trusted for that host, and
\* no key is pinned for a host he has not trusted it for: start_auth comes after
\* verify_host_key, and an answer in the host key dialog is for the key it showed.
THEOREM TrustBeforeUse == Spec => []TrustComesFirst
  <1>1. SInv => TrustComesFirst
    BY DEF SInv, SessionSafe, SafeRec, Trusted, TrustComesFirst, PasswordAfterTrust
  <1> QED
    BY <1>1, AlwaysSInv, PTL

\* No thread outlives its rings and its arena, and the UI thread neither reads nor writes
\* a ring it has given back: what was given up on is leaked, never reused.
THEOREM RingsStayWithThreads == Spec => []RingsOutliveThreads
  <1>1. ASSUME SInv PROVE RingsOutliveThreads
    <2>1. \A s \in Sessions : sess[s].released => sess[s].pc = "exited"
      BY <1>1 DEF SInv, SessionSafe, SafeRec
    <2>2. LiveSession \/ ui.pc \in {"write", "await"} => ~rc.joined
      BY <1>1 DEF SInv, UiSafe, LiveSession
    <2>3. ~rc.joined => rc.cur # 0 /\ ~Cur.released
      BY <1>1 DEF SInv, UiSafe, TypeOK
    <2> QED
      BY <2>1, <2>2, <2>3 DEF RingsOutliveThreads
  <1> QED
    BY <1>1, AlwaysSInv, PTL

\* A control thread never waits at the host key gate with neither the question nor the
\* answer on its way: no other request can be taken for the answer.
THEOREM GateStaysVisible == Spec => []GateIsVisible
  <1>1. ASSUME SInv PROVE GateIsVisible
    <2> SUFFICES ASSUME NEW s \in Sessions, sess[s].pc = "gate", s = rc.cur, LiveSession
                 PROVE  \/ Has(Cur.out, "HostKeyVerify")
                        \/ rc.prompt = Cur.key /\ dialog # None
                        \/ \E d \in Decisions : Has(Cur.in, d)
                        \/ ui.pc = "write" /\ ui.todo[1] \in Decisions
                        \/ InTeardown
      BY DEF GateIsVisible, Has, Decisions, Cur
    <2>1. Cur = sess[s] /\ ~rc.joined
      BY DEF Cur, LiveSession
    <2>2. Calm \/ InTeardown
      BY <1>1, <2>1 DEF SInv, UiSafe, TypeOK, UiPcs, Calm, InTeardown
    <2>3. CASE Calm
      <3>1. Has(Cur.out, "HostKeyVerify") \/ rc.prompt # None \/ Pending(Cur)
        BY <1>1, <2>1, <2>3 DEF SInv, Conversation, Talk
      <3>2. rc.prompt # None => rc.prompt = Cur.key /\ dialog = <<rc.target, rc.prompt>>
        BY <1>1, <2>1, <2>3 DEF SInv, Conversation, Talk, PinsAreTrusted
      <3>3. rc.prompt # None => dialog # None
        BY <1>1, <2>1, <3>2, NamesAssumption DEF SInv, UiSafe, TypeOK
      <3>4. ASSUME NEW d \in Decisions, ui.pc = "write", Has(ui.todo, d)
            PROVE  ui.todo[1] = d
        <4>1. Len(ui.todo) = 1
          BY <1>1, <3>4 DEF SInv, UiSafe
        <4> QED
          BY <3>4, <4>1 DEF Has
      <3> QED
        BY <3>1, <3>2, <3>3, <3>4 DEF Pending
    <2> QED
      BY <2>2, <2>3
  <1> QED
    BY <1>1, AlwaysSInv, PTL

\* A connection is tried again by itself only after a loss, and only to a host whose key,
\* if it has shown one, the user has trusted.
THEOREM OnlyLossesAreRetried == Spec => []OnlyLossIsRetried
  <1>1. SInv => OnlyLossIsRetried
    BY DEF SInv
  <1> QED
    BY <1>1, AlwaysSInv, PTL
============================================================================
