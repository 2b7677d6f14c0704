----------------------------- MODULE RemotePane -----------------------------
(***************************************************************************)
(* The remote pane of main.c: RemoteConn's remote_path, entries, selected  *)
(* and sorted, filled from the Entry and Done messages of the control      *)
(* thread and emptied by navigation, refresh, loss and reconnection; and   *)
(* the delete dialog, whose text is made when it opens and whose effect is *)
(* computed from the selection when it is confirmed.                       *)
(*                                                                         *)
(* The rings carry no request id: an Entry belongs to whatever the pane    *)
(* shows when it is drained.  SftpSession is about the session's life,     *)
(* full rings and logins; here the session is connecting, serving or lost, *)
(* and whoever writes waits for room.                                      *)
(*                                                                         *)
(* A name is an integer and fs_entry_compare's order is the order of the   *)
(* integers, so every directory stands below every file.  A directory      *)
(* lists its files and the other directories.  A request holds the first   *)
(* 512 bytes of a path, and no more: DirSent and FileSent say what that    *)
(* leaves of the paths the pane joins.                                     *)
(***************************************************************************)
EXTENDS Integers, Sequences, FiniteSets

CONSTANTS Dirs, Files,  \* what the server holds
          Root,         \* ".", where connect_to starts
          Garbled,      \* a path that names nothing, as a remote_path whose
                        \* bytes were overwritten
          DirSent,      \* what a request holds of a directory's path ...
          FileSent,     \* ... and of the path of a file in a directory
          MaxRows,      \* MAX_REMOTE_ENTRIES: the pane's rows
          InCap, OutCap,\* messages that fit the two rings
          MaxUploads,   \* bound: uploads that land
          MaxLosses,    \* bound: times the connection is lost
          OneAtATime    \* does nobody touch the pane before it has settled?
                        \* Neither the user nor the automatic refresh waits.

ASSUME NamesAssumption == /\ Dirs \subseteq Nat /\ Files \subseteq Nat
                          /\ \A d \in Dirs, f \in Files : d < f
                          /\ IsFiniteSet(Dirs) /\ IsFiniteSet(Files)
                          /\ Root \in Dirs
                          /\ Garbled \notin Dirs
ASSUME PaneSizesAssumption == /\ MaxRows \in Nat \ {0}
                              /\ InCap \in Nat \ {0} /\ OutCap \in Nat \ {0}
                              /\ MaxUploads \in Nat /\ MaxLosses \in Nat
                              /\ OneAtATime \in BOOLEAN

\* A path that fits a request is sent as it is; one that does not may become any.
Paths == Dirs \cup {Garbled}
Places == [dir : Paths, file : Files]
ASSUME SentAssumption == /\ DirSent \in [Dirs -> Paths]
                         /\ FileSent \in [Dirs -> [Files -> Places]]

VARIABLES server,     \* the files in each directory
          landed,     \* directories an upload wrote to, its end not yet seen
          uploads, losses,
          path,       \* rc.remote_path
          pathFreed,  \* its bytes lie in a cleared arena, free to be overwritten
          rows,       \* rc.entries[0 .. entry_count - 1]
          sorted,     \* rc.sorted
          selected,   \* the row indices whose rc.selected is set
          dialog,     \* what the open delete dialog names; empty when closed
          control,    \* the control thread, what is left of its listing, and
                      \* (history) whether nothing of that was refused or broke off
          inRing, outRing

server_vars == <<server, landed, uploads, losses>>
pane == <<path, pathFreed, rows, sorted, selected>>
session == <<control, inRing, outRing>>
vars == <<server_vars, pane, dialog, session>>

Names == Dirs \cup Files
Reqs == [kind : {"ListDir"}, dir : Paths] \cup [kind : {"Delete"}, dir : Paths, file : Files]
OutMsgs == [kind : {"Entry"}, name : Names] \cup [kind : {"Done", "Disconnected"}]
ControlPcs == {"gap", "connect", "list", "serve", "exited"}

Indices == 1 .. Len(rows)
Contents(d) == server[d] \cup (Dirs \ {d})

\* What a click on the dialog's Delete would ask to have deleted.
Doomed == {i \in Indices : i \in selected /\ rows[i] \in Files}
Chosen == {<<path, rows[i]>> : i \in Doomed}

\* A new control thread, which d was handed to.
Start(d) == [pc |-> "connect", left |-> {}, dir |-> d, whole |-> FALSE]

\* rc.connecting && !rc.control_joined
Connected == control.pc # "gap"

\* The pane is filled and nothing is under way that would touch it.
Settled == control.pc = "serve" /\ inRing = <<>> /\ outRing = <<>>
Calm == OneAtATime /\ Connected => Settled

----------------------------------------------------------------------------
Init == /\ server \in [Dirs -> SUBSET Files]
        /\ landed = {} /\ uploads = 0 /\ losses = 0
        /\ path = Root /\ pathFreed = FALSE
        /\ rows = <<>> /\ sorted = FALSE /\ selected = {}
        /\ dialog = {}
        /\ control = Start(Root)
        /\ inRing = <<>> /\ outRing = <<>>

----------------------------------------------------------------------------
(* The control thread, as far as the pane sees it.                         *)

Say(m) == Len(outRing) < OutCap /\ outRing' = Append(outRing, m)
Entry(n) == [kind |-> "Entry", name |-> n]

\* libssh2_sftp_opendir.  The server may refuse, and does if d names nothing; the
\* log says so, and Done follows as after an empty directory.
OpenDir(d) ==
  \/ /\ d \in Dirs
     /\ control' = [pc |-> "list", left |-> Contents(d), dir |-> d, whole |-> TRUE]
  \/ control' = [pc |-> "list", left |-> {}, dir |-> d, whole |-> FALSE]

\* The session is up; the pane's directory was handed to the thread with it.
LoggedIn == /\ control.pc = "connect"
            /\ OpenDir(control.dir)
            /\ UNCHANGED <<server_vars, pane, dialog, inRing, outRing>>

SendEntry(n) == /\ control.pc = "list" /\ n \in control.left
                /\ Say(Entry(n))
                /\ control' = [control EXCEPT !.left = @ \ {n}]
                /\ UNCHANGED <<server_vars, pane, dialog, inRing>>

\* libssh2_sftp_readdir fails with the connection up: the rest is not told, Done
\* follows, and the log says that the listing is complete.
ReadFails == /\ control.pc = "list" /\ control.left # {}
             /\ control' = [control EXCEPT !.left = {}, !.whole = FALSE]
             /\ UNCHANGED <<server_vars, pane, dialog, inRing, outRing>>

SendDone == /\ control.pc = "list" /\ control.left = {}
            /\ Say([kind |-> "Done"])
            /\ control' = [control EXCEPT !.pc = "serve"]
            /\ UNCHANGED <<server_vars, pane, dialog, inRing>>

\* The next request.  The server may refuse to delete.
Serve == /\ control.pc = "serve" /\ inRing # <<>>
         /\ inRing' = Tail(inRing)
         /\ LET req == Head(inRing)
            IN  \/ /\ req.kind = "ListDir"
                   /\ OpenDir(req.dir)
                   /\ UNCHANGED server
                \/ /\ req.kind = "Delete" /\ req.dir \in Dirs
                   /\ server' = [server EXCEPT ![req.dir] = @ \ {req.file}]
                   /\ UNCHANGED control
                \/ /\ req.kind = "Delete"
                   /\ UNCHANGED <<server, control>>
         /\ UNCHANGED <<landed, uploads, losses, pane, dialog, outRing>>

\* The connection dies in the middle of whatever the thread was doing.
Lose == /\ control.pc \in {"connect", "list", "serve"}
        /\ losses < MaxLosses
        /\ Say([kind |-> "Disconnected"])
        /\ control' = [Start(Root) EXCEPT !.pc = "exited"]
        /\ losses' = losses + 1
        /\ UNCHANGED <<server, landed, uploads, pane, dialog, inRing>>

----------------------------------------------------------------------------
(* The UI thread drains the out ring.                                      *)

Empty == rows' = <<>> /\ sorted' = FALSE /\ selected' = {}

\* The copied name takes the arena's first free bytes: when remote_path's were
\* freed, those.  A name that starts as the path does leaves it readable.
Overwrite == /\ path' \in IF pathFreed THEN {path, Garbled} ELSE {path}
             /\ UNCHANGED pathFreed

\* Seeded fault: the entry past the last row is stored as well.
DrainEntryUncapped ==
  /\ outRing # <<>> /\ Head(outRing).kind = "Entry"
  /\ outRing' = Tail(outRing)
  /\ rows' = Append(rows, Head(outRing).name)
  /\ Overwrite
  /\ UNCHANGED <<server_vars, sorted, selected, dialog, control, inRing>>

DrainEntry ==
  /\ outRing # <<>> /\ Head(outRing).kind = "Entry"
  /\ outRing' = Tail(outRing)
  /\ IF Len(rows) < MaxRows
     THEN rows' = Append(rows, Head(outRing).name) /\ Overwrite
     ELSE UNCHANGED <<rows, path, pathFreed>>
  /\ UNCHANGED <<server_vars, sorted, selected, dialog, control, inRing>>

\* rows in fs_entry_compare's order: the n-th is the name that fewer than n
\* rows precede and at least n rows do not follow.
InOrder ==
  [n \in Indices |->
     CHOOSE v \in {rows[i] : i \in Indices} :
       /\ Cardinality({i \in Indices : rows[i] < v}) < n
       /\ Cardinality({i \in Indices : rows[i] <= v}) >= n]

\* qsort permutes the rows and nothing else: selected keeps its indices.
DrainDone ==
  /\ outRing # <<>> /\ Head(outRing).kind = "Done"
  /\ outRing' = Tail(outRing)
  /\ rows' = IF sorted THEN rows ELSE InOrder
  /\ sorted' = TRUE
  /\ UNCHANGED <<server_vars, path, pathFreed, selected, dialog, control, inRing>>

\* Seeded fault: the selection outlives the rows it was made on.
DisconnectedKeepsSelection ==
  /\ outRing # <<>> /\ Head(outRing).kind = "Disconnected"
  /\ outRing' = <<>> /\ inRing' = <<>>
  /\ control' = [control EXCEPT !.pc = "gap"]
  /\ rows' = <<>> /\ sorted' = FALSE
  /\ pathFreed' = TRUE
  /\ UNCHANGED <<server_vars, path, selected, dialog>>

\* The session is gone and the pane emptied, arena and all.
DrainDisconnected ==
  /\ outRing # <<>> /\ Head(outRing).kind = "Disconnected"
  /\ outRing' = <<>> /\ inRing' = <<>>
  /\ control' = [control EXCEPT !.pc = "gap"]
  /\ Empty
  /\ pathFreed' = TRUE
  /\ UNCHANGED <<server_vars, path, dialog>>

Reconnect ==
  /\ control.pc = "gap"
  /\ control' = Start(path)
  /\ UNCHANGED <<server_vars, pane, dialog, inRing, outRing>>

----------------------------------------------------------------------------
(* Requests the UI thread writes.                                          *)

Ask(reqs) == Len(inRing) + Len(reqs) <= InCap /\ inRing' = inRing \o reqs
ListDir(p) == [kind |-> "ListDir", dir |-> IF p \in Dirs THEN DirSent[p] ELSE p]
Delete(p, f) == LET to == IF p \in Dirs THEN FileSent[p][f] ELSE [dir |-> p, file |-> f]
                IN  [kind |-> "Delete", dir |-> to.dir, file |-> to.file]

\* The pane is emptied for directory p, its path copied afresh.
ShowDir(p) == path' = p /\ pathFreed' = FALSE /\ Empty

\* remote_refresh_listing
RefreshListing == ShowDir(path) /\ Ask(<<ListDir(path)>>)

\* What joining row n to the path, or taking the path's parent, gives.
Joined(n) == IF path # Garbled THEN {n} ELSE {Garbled, Root}

Navigate(i) ==
  /\ Calm /\ Connected /\ dialog = {}
  /\ i \in Indices /\ rows[i] \in Dirs
  /\ \E p \in Joined(rows[i]) : ShowDir(p) /\ Ask(<<ListDir(p)>>)
  /\ UNCHANGED <<server_vars, dialog, control, outRing>>

\* Plain, control and shift clicks, all gated while the dialog is open.
Select(to) ==
  /\ Calm /\ dialog = {}
  /\ to # selected
  /\ selected' = to
  /\ UNCHANGED <<server_vars, path, pathFreed, rows, sorted, dialog, session>>

Click(i) == i \in Indices \ selected /\ Select({i})
CtrlClick(i) == i \in Indices /\ Select((selected \ {i}) \cup ({i} \ selected))
ShiftClick(lo, hi) == lo \in Indices /\ hi \in Indices /\ lo <= hi /\ Select(lo .. hi)

\* "Delete" in the context menu: the dialog names the files selected now.
OpenDelete ==
  /\ Calm /\ dialog = {} /\ Connected
  /\ Chosen # {}
  /\ dialog' = Chosen
  /\ UNCHANGED <<server_vars, pane, session>>

CancelDelete ==
  /\ dialog # {}
  /\ dialog' = {}
  /\ UNCHANGED <<server_vars, pane, session>>

\* One Delete request per selected row that holds a file, in the rows' order.
Deletions ==
  LET Nth(n) == CHOOSE i \in Doomed : Cardinality({j \in Doomed : j <= i}) = n
  IN  [n \in 1 .. Cardinality(Doomed) |-> Delete(path, rows[Nth(n)])]

ConfirmDelete ==
  /\ Calm /\ dialog # {}
  /\ dialog' = {}
  /\ IF Connected
     THEN ShowDir(path) /\ Ask(Append(Deletions, ListDir(path)))
     ELSE UNCHANGED <<pane, inRing>>
  /\ UNCHANGED <<server_vars, control, outRing>>

\* connect_to: the old session is torn down, a new one starts at the root.
ConnectTo ==
  /\ Calm
  /\ ShowDir(Root)
  /\ control' = Start(Root)
  /\ inRing' = <<>> /\ outRing' = <<>>
  /\ UNCHANGED <<server_vars, dialog>>

----------------------------------------------------------------------------
(* Uploads, from the outside.                                              *)

\* An upload's thread writes its file.
UploadLands(d, f) ==
  /\ uploads < MaxUploads /\ f \notin server[d]
  /\ server' = [server EXCEPT ![d] = @ \cup {f}]
  /\ landed' = landed \cup {d}
  /\ uploads' = uploads + 1
  /\ UNCHANGED <<losses, pane, dialog, session>>

\* Seeded fault: the pane is listed again when the upload went elsewhere.
UploadEndsElsewhere(d) ==
  /\ d \in landed
  /\ Calm
  /\ landed' = landed \ {d}
  /\ IF d # path /\ Connected THEN RefreshListing ELSE UNCHANGED <<pane, inRing>>
  /\ UNCHANGED <<server, uploads, losses, dialog, control, outRing>>

\* The UI thread sees it end, and lists the directory again if the pane shows it.
UploadEnds(d) ==
  /\ d \in landed
  /\ Calm
  /\ landed' = landed \ {d}
  /\ IF d = path /\ Connected THEN RefreshListing ELSE UNCHANGED <<pane, inRing>>
  /\ UNCHANGED <<server, uploads, losses, dialog, control, outRing>>

----------------------------------------------------------------------------
UiStep == DrainEntry \/ DrainDone \/ DrainDisconnected \/ Reconnect

ThreadStep == LoggedIn \/ (\E n \in Names : SendEntry(n)) \/ ReadFails \/ SendDone
              \/ Serve \/ Lose

UserStep == \/ \E i \in 1 .. MaxRows : Navigate(i) \/ Click(i) \/ CtrlClick(i)
            \/ \E lo, hi \in 1 .. MaxRows : ShiftClick(lo, hi)
            \/ OpenDelete \/ CancelDelete \/ ConfirmDelete \/ ConnectTo

UploadStep == \/ \E d \in Dirs, f \in Files : UploadLands(d, f)
              \/ \E d \in Dirs : UploadEnds(d)

Next == UiStep \/ ThreadStep \/ UserStep \/ UploadStep

Spec == Init /\ [][Next]_vars

----------------------------------------------------------------------------
(* What must hold.                                                         *)

TypeOK ==
  /\ server \in [Dirs -> SUBSET Files] /\ landed \subseteq Dirs
  /\ uploads \in 0 .. MaxUploads /\ losses \in 0 .. MaxLosses
  /\ path \in Paths /\ pathFreed \in BOOLEAN
  /\ rows \in Seq(Names) /\ Len(rows) <= MaxRows
  /\ sorted \in BOOLEAN /\ selected \subseteq Indices
  /\ dialog \subseteq Paths \X Files
  /\ control \in [pc : ControlPcs, left : SUBSET Names, dir : Paths,
                  whole : BOOLEAN]
  /\ inRing \in Seq(Reqs) /\ Len(inRing) <= InCap
  /\ outRing \in Seq(OutMsgs) /\ Len(outRing) <= OutCap

\* A pane that has settled shows its directory: each row a different name that
\* is there now, in order, and all of them (main.c: the pane is "cleared and
\* repopulated on every navigation/reconnect") unless the pane is full or the
\* server has refused the listing or broken it off, which the pane does not show.
\* An upload that has landed shows once its end was seen.  A directory whose path
\* a request cuts is shown only by the thread it was handed to.
PaneShowsPath ==
  Settled /\ path \in Dirs \ landed /\ (DirSent[path] = path \/ control.dir = path) =>
    /\ \A i \in Indices : rows[i] \in Contents(path)
    /\ \A i, j \in Indices : i < j => rows[i] < rows[j]
    /\ control.whole => Len(rows) = MaxRows \/ Len(rows) = Cardinality(Contents(path))

\* Confirming the open dialog asks to delete no file but those it named when it
\* opened, in the directory they were in (main.c: "the message names the single
\* selected file, or a count for a multi-selection").  Which file goes when a path
\* does not fit its request is not said here.
DeletesWhatIsNamed == dialog # {} => Chosen \subseteq dialog

\* A reconnection finds the path the pane showed (main.c: it "resumes at the
\* same remote_path").
PathSurvives == path # Garbled

=============================================================================
