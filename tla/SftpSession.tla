---------------------------- MODULE SftpSession ----------------------------
(***************************************************************************)
(* The remote connection: the UI thread's side of it (RemoteConn in        *)
(* src/main.c) and the control thread (src/sftp/sftp_client.c), joined by  *)
(* two GuardedRings per session, which are bounded queues here (that they  *)
(* are is MessageChannel, implemented by GuardedRing).                     *)
(*                                                                         *)
(* Every connection attempt gets an arena, two rings and a thread of its   *)
(* own: a session.  The UI thread reads a session's out ring once a frame, *)
(* without waiting, and writes requests to its in ring, waiting for room.  *)
(*                                                                         *)
(* Abstracted: host, port and user are one Target; texts; which directory  *)
(* is listed and what it holds; the order of rows; the delays, so that a   *)
(* timer may run out at any moment.  Log lines with no decision between    *)
(* them are one message.                                                   *)
(***************************************************************************)
EXTENDS Integers, Sequences

CONSTANTS Targets, Keys, None,
          OutCap,       \* messages that fit an out ring (76 in the code)
          InCap,        \* requests that fit an in ring (7 in the code)
          MaxRows,      \* MAX_REMOTE_ENTRIES
          MaxEntries,   \* bound: entries of one listing
          MaxSessions,  \* bound: connection attempts
          RoomFirst     \* does the UI ask only when the in ring has room to
                        \* spare?  The code does not.

ASSUME SizesAssumption == /\ OutCap \in Nat \ {0} /\ InCap \in Nat \ {0}
                          /\ MaxRows \in Nat /\ MaxEntries \in Nat
                          /\ MaxSessions \in Nat
ASSUME RoomFirstAssumption == RoomFirst \in BOOLEAN
ASSUME NamesAssumption == /\ None \notin Targets \cup Keys
                          /\ None \notin Targets \X Keys
                          /\ {None, "disconnect", "shutdown"} \cap Targets = {}
                          /\ None \notin {"disconnect", "shutdown"}

VARIABLES rc,       \* RemoteConn
          ui,       \* where the UI thread is in its frame
          dialog,   \* host_key_confirm: the target and key it shows, or None
          known,    \* kh_hosts: the pinned key of every target
          sess,     \* every session ever started
          started,  \* how many there are
          trusted   \* history: what the user has ever said Trust to

vars == <<rc, ui, dialog, known, sess, started, trusted>>

Sessions == 1 .. MaxSessions
Requests == {"ListDir", "Delete", "Quit", "HostKeyAccept", "HostKeyReject"}
ExitKinds == {"ThreadExit", "Disconnected"}
Messages == {"Log", "Error", "Entry", "Done", "HostKeyVerify"} \cup ExitKinds
\* The control thread, in the order of its life.
ThreadPcs == {"none", "connect", "handshake", "verify", "gate", "reject", "auth",
              "sftp", "list", "reading", "listed", "serve", "delete", "deleting",
              "closing", "exit", "return", "exited"}
LoggingIn == {"auth", "sftp", "list", "reading", "listed", "serve", "delete", "deleting"}
UiPcs == {"drain", "reap", "input", "write", "await", "join", "after", "stopped"}

SessRecs == [pc : ThreadPcs, target : Targets \cup {None},
             pin : Keys \cup {None},   \* pinned_host_key_hash
             key : Keys \cup {None},   \* what the server presented
             lost : BOOLEAN,           \* lost_connection
             left : 0 .. MaxEntries, in : Seq(Requests), out : Seq(Messages),
             released : BOOLEAN]       \* rings and arena are gone

NoSession == [pc |-> "none", target |-> None, pin |-> None, key |-> None,
              lost |-> FALSE, left |-> 0, in |-> <<>>, out |-> <<>>, released |-> FALSE]

\* The session whose rings rc points to; 0 when both pointers are null.
Cur == sess[rc.cur]
LiveSession == rc.connecting /\ ~rc.joined

----------------------------------------------------------------------------
Init == /\ rc = [cur |-> 0, joined |-> TRUE, connecting |-> FALSE, active |-> FALSE,
                 awaiting |-> FALSE, target |-> None, pin |-> None, prompt |-> None,
                 rows |-> 0]
        /\ ui = [pc |-> "drain", todo |-> <<>>, then |-> "drain", goal |-> None]
        /\ dialog = None
        /\ known \in [Targets -> Keys \cup {None}]
        /\ trusted = {<<t, known[t]>> : t \in {u \in Targets : known[u] # None}}
        /\ sess = [s \in Sessions |-> NoSession]
        /\ started = 0

UiGoes(pc) == ui' = [pc |-> pc, todo |-> <<>>, then |-> "drain", goal |-> None]
\* The UI thread writes reqs one by one, each as soon as there is room for it.
UiWrites(reqs, then, goal) ==
  ui' = [pc |-> "write", todo |-> reqs, then |-> then, goal |-> goal]

----------------------------------------------------------------------------
(* The frame.                                                              *)

\* One message of the current session's out ring.
DrainMsg ==
  /\ ui.pc = "drain" /\ LiveSession /\ Cur.out # <<>>
  /\ LET msg == Head(Cur.out)
     IN  /\ sess' = [sess EXCEPT ![rc.cur].out = Tail(@)]
         /\ UiGoes(IF msg \in ExitKinds THEN "reap" ELSE "drain")
         /\ IF msg = "HostKeyVerify"
            THEN /\ rc' = [rc EXCEPT !.prompt = Cur.key]
                 /\ dialog' = <<rc.target, Cur.key>>
            ELSE /\ rc' = [rc EXCEPT !.rows = IF msg = "Entry" /\ @ < MaxRows
                                             THEN @ + 1 ELSE @]
                 /\ UNCHANGED dialog
  /\ UNCHANGED <<known, started, trusted>>

\* Nothing left to read: the frame comes to what follows the drain.
Drained == ui.pc = "drain" /\ (LiveSession => Cur.out = <<>>)

\* No timer has run out and no upload wants the pane listed again: on to the
\* user's input.
DrainEnd ==
  /\ Drained
  /\ UiGoes("input")
  /\ UNCHANGED <<rc, dialog, known, sess, started, trusted>>

\* The rings and the session arena, which holds the pin, are given back.
Release(s) == sess' = [sess EXCEPT ![s] = [@ EXCEPT !.released = TRUE, !.pin = None,
                                                   !.in = <<>>, !.out = <<>>, !.left = 0]]

\* The exit message has been read: join the thread.  After a Disconnected the
\* session is released and retried; after a ThreadExit it is neither.
Reap ==
  /\ ui.pc = "reap" /\ Cur.pc = "exited"
  /\ IF Cur.lost
     THEN /\ rc' = [rc EXCEPT !.joined = TRUE, !.cur = 0, !.rows = 0, !.awaiting = TRUE]
          /\ Release(rc.cur)
     ELSE /\ rc' = [rc EXCEPT !.joined = TRUE]
          /\ UNCHANGED sess
  /\ UiGoes("drain")
  /\ UNCHANGED <<dialog, known, started, trusted>>

\* start_sftp_session, for the target and with the pin given.
Start(target, pin) ==
  /\ started < MaxSessions
  /\ started' = started + 1
  /\ sess' = [sess EXCEPT ![started + 1] =
                [NoSession EXCEPT !.pc = "connect", !.target = target, !.pin = pin]]

\* The delay after a Disconnected is over.  Going back to the drain stands for
\* the rest of this frame and the next one without a click in between.
Reconnect ==
  /\ Drained
  /\ rc.connecting /\ rc.active /\ rc.awaiting
  /\ Start(rc.target, rc.pin)
  /\ rc' = [rc EXCEPT !.cur = started + 1, !.joined = FALSE, !.awaiting = FALSE]
  /\ UNCHANGED <<ui, dialog, known, trusted>>

Room(n) == RoomFirst => Len(Cur.in) + n < InCap

\* remote_refresh_listing: an upload into the displayed directory has started
\* or ended in this frame.
Refresh ==
  /\ Drained /\ LiveSession /\ Room(1)
  /\ rc' = [rc EXCEPT !.rows = 0]
  /\ UiWrites(<<"ListDir">>, "input", None)
  /\ UNCHANGED <<dialog, known, sess, started, trusted>>

\* guarded_ring_write_struct_or_wait(rc.in_ring, ..., max_U64).
Write ==
  /\ ui.pc = "write"
  /\ Len(Cur.in) < InCap
  /\ sess' = [sess EXCEPT ![rc.cur].in = Append(@, Head(ui.todo))]
  /\ ui' = IF Len(ui.todo) > 1
           THEN [ui EXCEPT !.todo = Tail(@)]
           ELSE [pc |-> ui.then, todo |-> <<>>, then |-> "drain", goal |-> ui.goal]
  /\ UNCHANGED <<rc, dialog, known, started, trusted>>

EndFrame ==
  /\ ui.pc = "input"
  /\ UiGoes("drain")
  /\ UNCHANGED <<rc, dialog, known, sess, started, trusted>>

----------------------------------------------------------------------------
(* The user, at most one click a frame.                                    *)

\* The Connections button stays live whatever dialog is up.
ClickConnect(t) ==
  /\ ui.pc = "input" /\ started < MaxSessions
  /\ IF ~rc.joined
     THEN UiWrites(<<"Quit">>, "await", t)
     ELSE ui' = [ui EXCEPT !.pc = "after", !.goal = t]
  /\ UNCHANGED <<rc, dialog, known, sess, started, trusted>>

ClickDisconnect ==
  /\ ui.pc = "input" /\ dialog = None /\ rc.active
  /\ IF ~rc.joined
     THEN UiWrites(<<"Quit">>, "await", "disconnect")
     ELSE ui' = [ui EXCEPT !.pc = "after", !.goal = "disconnect"]
  /\ UNCHANGED <<rc, dialog, known, sess, started, trusted>>

CloseWindow ==
  /\ ui.pc = "input"
  /\ IF LiveSession
     THEN UiWrites(<<"Quit">>, "await", "shutdown")
     ELSE UiGoes("stopped")
  /\ UNCHANGED <<rc, dialog, known, sess, started, trusted>>

\* A double click on a directory row.
Navigate ==
  /\ ui.pc = "input" /\ dialog = None
  /\ LiveSession /\ rc.rows > 0 /\ Room(1)
  /\ rc' = [rc EXCEPT !.rows = 0]
  /\ UiWrites(<<"ListDir">>, "drain", None)
  /\ UNCHANGED <<dialog, known, sess, started, trusted>>

\* The delete dialog is confirmed: one request per selected file, then a new
\* listing.  The selection may be gone by then.
DeleteSelected(n) ==
  /\ ui.pc = "input" /\ LiveSession
  /\ n <= rc.rows /\ (n > 0 => dialog = None) /\ Room(n + 1)
  /\ rc' = [rc EXCEPT !.rows = 0]
  /\ UiWrites([i \in 1 .. n |-> "Delete"] \o <<"ListDir">>, "drain", None)
  /\ UNCHANGED <<dialog, known, sess, started, trusted>>

\* Seeded fault: Cancel only closes the dialog.
AnswerPromptIfTrusted(trust) ==
  /\ ui.pc = "input" /\ dialog # None
  /\ dialog' = None
  /\ trusted' = IF trust THEN trusted \cup {dialog} ELSE trusted
  /\ IF rc.prompt = None \/ ~trust
     THEN /\ UiGoes("drain")
          /\ UNCHANGED <<rc, known>>
     ELSE /\ UiWrites(<<"HostKeyAccept">>, "drain", None)
          /\ rc' = [rc EXCEPT !.prompt = None, !.pin = rc.prompt]
          /\ known' = [known EXCEPT ![rc.target] = rc.prompt]
  /\ UNCHANGED <<sess, started>>

\* Trust or Cancel in the host key dialog.  Either closes it; only with a
\* prompt pending does it do anything else.
AnswerPrompt(trust) ==
  /\ ui.pc = "input" /\ dialog # None
  /\ dialog' = None
  /\ trusted' = IF trust THEN trusted \cup {dialog} ELSE trusted
  /\ IF rc.prompt = None
     THEN /\ UiGoes("drain")
          /\ UNCHANGED <<rc, known>>
     ELSE /\ UiWrites(<<IF trust THEN "HostKeyAccept" ELSE "HostKeyReject">>, "drain", None)
          /\ rc' = [rc EXCEPT !.prompt = None, !.pin = IF trust THEN rc.prompt ELSE @]
          /\ known' = IF trust THEN [known EXCEPT ![rc.target] = rc.prompt] ELSE known
  /\ UNCHANGED <<sess, started>>

----------------------------------------------------------------------------
(* teardown_live_session, and what it was called for: ui.goal.             *)

AwaitMsg ==
  /\ ui.pc = "await" /\ Cur.out # <<>>
  /\ sess' = [sess EXCEPT ![rc.cur].out = Tail(@)]
  /\ ui' = [ui EXCEPT !.pc = IF Head(Cur.out) \in ExitKinds THEN "join" ELSE "await"]
  /\ UNCHANGED <<rc, dialog, known, started, trusted>>

EndTeardown == /\ rc' = [rc EXCEPT !.joined = TRUE, !.cur = 0]
               /\ ui' = [ui EXCEPT !.pc = "after"]
               /\ UNCHANGED <<dialog, known, started, trusted>>

\* Seeded fault: the rings are released before the join, as for a scan.
JoinSessionLate ==
  /\ ui.pc = "join"
  /\ Release(rc.cur)
  /\ EndTeardown

JoinSession ==
  /\ ui.pc = "join" /\ Cur.pc = "exited"
  /\ Release(rc.cur)
  /\ EndTeardown

\* TEARDOWN_MAX_WAIT_US are over: the thread is detached, its session leaked.
Detach ==
  /\ ui.pc = "await" /\ Cur.out = <<>>
  /\ EndTeardown /\ UNCHANGED sess

AfterDisconnect ==
  /\ ui.pc = "after" /\ ui.goal = "disconnect"
  /\ rc' = [rc EXCEPT !.awaiting = FALSE, !.active = FALSE, !.rows = 0]
  /\ UiGoes("drain")
  /\ UNCHANGED <<dialog, known, sess, started, trusted>>

AfterShutdown ==
  /\ ui.pc = "after" /\ ui.goal = "shutdown"
  /\ UiGoes("stopped")
  /\ UNCHANGED <<rc, dialog, known, sess, started, trusted>>

\* connect_to, past the teardown.
ConnectTo ==
  /\ ui.pc = "after" /\ ui.goal \in Targets
  /\ LET t == ui.goal
     IN  /\ Start(t, known[t])
         /\ rc' = [cur |-> started + 1, joined |-> FALSE, connecting |-> TRUE,
                   active |-> TRUE, awaiting |-> FALSE, target |-> t,
                   pin |-> known[t], prompt |-> None, rows |-> 0]
  /\ UiGoes("drain")
  /\ UNCHANGED <<dialog, known, trusted>>

----------------------------------------------------------------------------
(* The control thread of session s.                                        *)

Stays == UNCHANGED <<rc, ui, dialog, known, started, trusted>>
At(s, pc) == ui.pc # "stopped" /\ sess[s].pc = pc

Goes(s, pc) == sess' = [sess EXCEPT ![s].pc = pc]

\* A write to the out ring waits for room as long as it takes.
Says(s, msg, pc) ==
  /\ Len(sess[s].out) < OutCap
  /\ sess' = [sess EXCEPT ![s].out = Append(@, msg), ![s].pc = pc]

\* The connection has died: the caller is to try again.
Loses(s, msg, pc) ==
  /\ Len(sess[s].out) < OutCap
  /\ sess' = [sess EXCEPT ![s].out = Append(@, msg), ![s].pc = pc, ![s].lost = TRUE]

Connect(s) ==
  /\ At(s, "connect")
  /\ Says(s, "Log", "handshake") \/ Loses(s, "Error", "exit")
  /\ Stays

Handshake(s) ==
  /\ At(s, "handshake")
  /\ \/ Loses(s, "Error", "exit")
     \/ /\ Len(sess[s].out) < OutCap
        /\ \E k \in Keys :
             sess' = [sess EXCEPT ![s].out = Append(@, "Log"), ![s].pc = "verify",
                                  ![s].key = k]
  /\ Stays

\* The hash may be unavailable; a pinned key passes; any other needs the user.
Verify(s) ==
  /\ At(s, "verify")
  /\ \/ Says(s, "Error", "exit")
     \/ IF sess[s].pin = sess[s].key
        THEN Goes(s, "auth")
        ELSE Says(s, "HostKeyVerify", "gate")
  /\ Stays

\* Seeded fault: whatever is not a refusal is taken for a yes.
GateTakesAnything(s) ==
  /\ At(s, "gate") /\ sess[s].in # <<>>
  /\ sess' = [sess EXCEPT ![s].in = Tail(@),
                          ![s].pc = IF Head(sess[s].in) \in {"HostKeyReject", "Quit"}
                                    THEN "reject" ELSE "auth"]
  /\ Stays

\* Waits for a decision, and drops every request that is none.
Gate(s) ==
  /\ At(s, "gate") /\ sess[s].in # <<>>
  /\ sess' = [sess EXCEPT ![s].in = Tail(@),
                          ![s].pc = CASE Head(sess[s].in) = "HostKeyAccept" -> "auth"
                                      [] Head(sess[s].in) \in {"HostKeyReject", "Quit"} -> "reject"
                                      [] OTHER -> "gate"]
  /\ Stays

\* Seeded fault: a distrusted server counts as a lost connection.
RejectLoses(s) == At(s, "reject") /\ Loses(s, "Error", "exit") /\ Stays

Reject(s) == At(s, "reject") /\ Says(s, "Error", "exit") /\ Stays

Authenticate(s) ==
  /\ At(s, "auth")
  /\ Says(s, "Log", "sftp") \/ Says(s, "Error", "exit")
  /\ Stays

OpenSftp(s) ==
  /\ At(s, "sftp")
  /\ Says(s, "Log", "list") \/ Loses(s, "Error", "exit")
  /\ Stays

List(s) ==
  /\ At(s, "list")
  /\ Len(sess[s].out) < OutCap
  /\ sess' = [sess EXCEPT ![s].out = Append(@, "Log"), ![s].pc = "reading",
                          ![s].left = MaxEntries]
  /\ Stays

SendEntry(s) ==
  /\ At(s, "reading") /\ sess[s].left > 0
  /\ Len(sess[s].out) < OutCap
  /\ sess' = [sess EXCEPT ![s].out = Append(@, "Entry"), ![s].left = @ - 1]
  /\ Stays

\* Seeded fault: after a failed readdir the loop goes on.
EndListingRetries(s) ==
  /\ At(s, "reading")
  /\ \/ Says(s, "Log", "listed")
     \/ Says(s, "Error", "reading")
     \/ Loses(s, "Log", "closing")
  /\ Stays

\* The last entry, or the server will not list this directory.
EndListing(s) ==
  /\ At(s, "reading")
  /\ \/ Says(s, "Log", "listed")
     \/ Says(s, "Error", "listed")
     \/ Loses(s, "Log", "closing")
  /\ Stays

SendDone(s) == At(s, "listed") /\ Says(s, "Done", "serve") /\ Stays

Serve(s) ==
  /\ At(s, "serve") /\ sess[s].in # <<>>
  /\ sess' = [sess EXCEPT ![s].in = Tail(@),
                          ![s].pc = CASE Head(sess[s].in) = "Quit" -> "closing"
                                      [] Head(sess[s].in) = "ListDir" -> "list"
                                      [] Head(sess[s].in) = "Delete" -> "delete"
                                      [] OTHER -> "serve"]
  /\ Stays

Delete(s) == At(s, "delete") /\ Says(s, "Log", "deleting") /\ Stays

EndDelete(s) ==
  /\ At(s, "deleting")
  /\ \/ Goes(s, "serve")
     \/ Says(s, "Error", "serve")
     \/ Loses(s, "Log", "closing")
  /\ Stays

Close(s) == At(s, "closing") /\ Says(s, "Log", "exit") /\ Stays

SendExit(s) ==
  /\ At(s, "exit")
  /\ Says(s, IF sess[s].lost THEN "Disconnected" ELSE "ThreadExit", "return")
  /\ Stays

\* Seeded fault: the thread lingers until its requests are read.
ReturnLingers(s) ==
  /\ At(s, "return")
  /\ IF sess[s].in = <<>> THEN Goes(s, "exited") ELSE UNCHANGED sess
  /\ Stays

Return(s) == At(s, "return") /\ Goes(s, "exited") /\ Stays

----------------------------------------------------------------------------
Frame == DrainMsg \/ DrainEnd \/ Reap \/ Reconnect \/ Refresh \/ Write \/ EndFrame
Teardown == \/ AwaitMsg \/ JoinSession \/ Detach
            \/ AfterDisconnect \/ AfterShutdown \/ ConnectTo
UiStep == Frame \/ Teardown

UserStep == \/ \E t \in Targets : ClickConnect(t)
            \/ ClickDisconnect \/ CloseWindow \/ Navigate
            \/ \E n \in 0 .. MaxRows : DeleteSelected(n)
            \/ \E trust \in BOOLEAN : AnswerPrompt(trust)

ControlStep(s) == \/ Connect(s) \/ Handshake(s) \/ Verify(s) \/ Gate(s) \/ Reject(s)
                  \/ Authenticate(s) \/ OpenSftp(s) \/ List(s) \/ SendEntry(s)
                  \/ EndListing(s) \/ SendDone(s) \/ Serve(s) \/ Delete(s)
                  \/ EndDelete(s) \/ Close(s) \/ SendExit(s) \/ Return(s)

\* The program has ended.
Stopped == ui.pc = "stopped" /\ UNCHANGED vars

Next == UiStep \/ UserStep \/ (\E s \in Sessions : ControlStep(s)) \/ Stopped

\* The frame loop runs on, and every network call of the control thread has a
\* timeout (SFTP_SESSION_TIMEOUT_MS); the user need never click.
Fairness == WF_vars(UiStep) /\ \A s \in Sessions : WF_vars(ControlStep(s))

Spec == Init /\ [][Next]_vars /\ Fairness

----------------------------------------------------------------------------
TypeOK ==
  /\ rc \in [cur : 0 .. MaxSessions, joined : BOOLEAN, connecting : BOOLEAN,
             active : BOOLEAN, awaiting : BOOLEAN, target : Targets \cup {None},
             pin : Keys \cup {None}, prompt : Keys \cup {None}, rows : 0 .. MaxRows]
  /\ ui \in [pc : UiPcs, todo : Seq(Requests), then : UiPcs,
             goal : Targets \cup {None, "disconnect", "shutdown"}]
  /\ dialog \in (Targets \X Keys) \cup {None}
  /\ known \in [Targets -> Keys \cup {None}]
  /\ sess \in [Sessions -> SessRecs]
  /\ \A s \in Sessions : Len(sess[s].in) <= InCap /\ Len(sess[s].out) <= OutCap
  /\ started \in 0 .. MaxSessions
  /\ trusted \subseteq Targets \X Keys

\* No password leaves for a server whose key the user has not trusted, for
\* that very host, now or in an earlier run.
PasswordAfterTrust ==
  \A s \in Sessions : sess[s].pc \in LoggingIn => <<sess[s].target, sess[s].key>> \in trusted

\* Every pinned key, in the file and in the connection, was trusted for the
\* host it is pinned to.
PinsAreTrusted ==
  /\ \A t \in Targets : known[t] # None => <<t, known[t]>> \in trusted
  /\ rc.pin # None => <<rc.target, rc.pin>> \in trusted
  /\ rc.prompt # None => dialog = <<rc.target, rc.prompt>>

\* Trust comes before use: of the key by the session, and by every later one.
TrustComesFirst == PasswordAfterTrust /\ PinsAreTrusted

\* A live control thread keeps its rings and its arena; and the UI thread's
\* pointers to the current session's rings are good whenever it uses them.
RingsOutliveThreads ==
  /\ \A s \in Sessions : sess[s].released => sess[s].pc = "exited"
  /\ LiveSession \/ ui.pc \in {"write", "await"} => rc.cur # 0 /\ ~Cur.released

InTeardown == ui.pc \in {"await", "join"} \/ (ui.pc = "write" /\ ui.then = "await")

\* A control thread that waits for the user's decision has its question on
\* the way to him, or on the screen, or an answer on the way back.
GateIsVisible ==
  \A s \in Sessions : sess[s].pc = "gate" /\ s = rc.cur /\ LiveSession =>
    \/ \E i \in 1 .. Len(sess[s].out) : sess[s].out[i] = "HostKeyVerify"
    \/ rc.prompt = sess[s].key /\ dialog # None
    \/ \E i \in 1 .. Len(sess[s].in) : sess[s].in[i] \in {"HostKeyAccept", "HostKeyReject", "Quit"}
    \/ ui.pc = "write" /\ ui.todo[1] \in {"HostKeyAccept", "HostKeyReject", "Quit"}
    \/ InTeardown

\* Only a lost connection is tried again by itself: nothing the user has
\* disconnected, and no server whose key he has not trusted.
OnlyLossIsRetried ==
  rc.awaiting => /\ rc.active /\ rc.joined /\ started > 0
                 /\ LET last == sess[started]
                    IN  /\ last.lost /\ last.pc = "exited" /\ last.target = rc.target
                        /\ last.key = None \/ <<last.target, last.key>> \in trusted

\* "No blocking, ever, on the UI thread" (src/README.md): the frame loop always
\* gets on to the user's input.
UiComesBack == []<>(ui.pc \in {"input", "stopped"})

\* A listing comes to its end: the thread is never left waiting for room in
\* its out ring, unless it was given up.
ListingsEnd ==
  \A s \in Sessions :
    (sess[s].pc = "list" /\ s = rc.cur)
      ~> (sess[s].pc \in {"serve", "exited"} \/ s # rc.cur \/ ui.pc = "stopped")

============================================================================
