---------------------------- MODULE FolderScan ----------------------------
(***************************************************************************)
(* Dragging folders: a remote folder is walked by a scan thread with an    *)
(* SFTP session of its own (xfer_scan_thread_entry, xfer__scan_walk in     *)
(* src/xfer/xfer.c), which reports every file over a ring; the UI thread   *)
(* polls the rings once per frame (xfer_scan_poll_all) and enqueues each   *)
(* reported file.  A local folder is walked by the UI thread itself        *)
(* (local_enqueue_folder_upload in main.c).                                *)
(*                                                                         *)
(* The remote tree is a function from its directories to what they hold;   *)
(* an entry stands for its whole path.  A message holds no more than the   *)
(* first 511 bytes of a file's path below the dragged folder, and what is  *)
(* enqueued is what it holds: Cut.  Ring operations are atomic (GuardedRing *)
(* shows that they look so); the transfer queue is only how many           *)
(* operations it holds (XferQueue is about the rest of it).                *)
(***************************************************************************)
EXTENDS Integers, Sequences, FiniteSets

CONSTANTS MaxScans,   \* XFER_MAX_SCANS: the length of folder_scans[]
          RingCap,    \* messages that fit a scan's ring (7 in the code)
          MaxOps,     \* XFER_MAX_OPS: operations that fit the queue
          Tree,       \* what every remote directory holds
          Files,      \* the remote files
          Unsafe,     \* entries whose name is no path component
          Paths,      \* what the path of a file, whole or cut, may name
          Cut,        \* what a message holds of a file's path below a folder
          LocalFiles, \* how many files the local folder holds
          MaxStarts    \* bound: scans ever started

Dirs == DOMAIN Tree
Entries == Dirs \cup Files

ASSUME SizesAssumption == /\ MaxScans \in Nat \ {0} /\ RingCap \in Nat \ {0}
                          /\ MaxOps \in Nat /\ LocalFiles \in Nat
                          /\ MaxStarts \in Nat
ASSUME TreeAssumption == /\ Dirs # {} /\ Dirs \cap Files = {}
                         /\ Tree \in [Dirs -> SUBSET Entries]
                         /\ Unsafe \subseteq Entries
\* A path that fits stays what it is; one that does not may become anything.
ASSUME CutAssumption == Files \subseteq Paths /\ Cut \in [Dirs -> [Files -> Paths]]

\* From x by safe names to y.
Reaches(x, y) ==
  \A S \in SUBSET Entries :
    (x \in S /\ \A c \in Dirs \cap S : Tree[c] \ Unsafe \subseteq S) => y \in S

\* A path has one parent and is longer than it, so no entry is in two
\* directories and no directory is below itself.
ASSUME PathsAssumption ==
  /\ \A c, d \in Dirs : c # d => (Tree[c] \cap Tree[d]) \ Unsafe = {}
  /\ \A d \in Dirs : \A e \in Tree[d] \ Unsafe : ~Reaches(e, d)

VARIABLES scans,    \* folder_scans[], the ring of every slot included
          th,       \* the thread last launched for a slot
          ui,       \* where the UI thread is in its frame
          count,    \* operations in the queue
          dropped,  \* drop_count > 0: the user sees the warning
          ignored,  \* history: a dragged folder was announced and not scanned
          log,      \* history: each scan's folder, and what came of it
          queued,   \* history: the paths each scan has given xfer_enqueue
          handed    \* history: the files whose paths they were

vars == <<scans, th, ui, count, dropped, ignored, log, queued, handed>>

Slots == 1 .. MaxScans
Scans == 1 .. MaxStarts
\* In a file message, file is history: only the path is sent.
Msgs == [kind : {"File"}, path : Paths, file : Files] \cup [kind : {"Done", "Failed"}]
Outcomes == {"scanning", "complete", "failed"}
\* A frame of the recursive walk: a directory handle, and what it still has to
\* tell (the server names entries in any order).
Frames == SUBSET Entries
ThreadPcs == {"none", "connect", "opendir", "read", "send", "done", "fail",
              "close", "exited"}

NoRoot == CHOOSE d \in Dirs : TRUE
Free == [inUse |-> FALSE, root |-> NoRoot, no |-> 0, ring |-> <<>>]
NoThread == [pc |-> "none", walk |-> <<>>, at |-> NoRoot]

Init == /\ scans = [s \in Slots |-> Free]
        /\ th = [s \in Slots |-> NoThread]
        /\ ui = [pc |-> "poll", at |-> 1]
        /\ count = 0 /\ dropped = FALSE
        /\ ignored = FALSE /\ log = <<>> /\ queued = <<>> /\ handed = <<>>

----------------------------------------------------------------------------
(* The scan thread.                                                        *)

\* The thread of slot s goes on at pc with the directories w open, and next
\* with the entry at, if with any.
Goes(s, pc, w, at) == th' = [th EXCEPT ![s] = [pc |-> pc, walk |-> w, at |-> at]]
Stays == UNCHANGED <<ui, count, dropped, ignored, log, queued, handed>>

\* Connecting, the host key, the password and SFTP: all of it works or not.
Connect(s) ==
  /\ th[s].pc = "connect"
  /\ \/ Goes(s, "opendir", <<>>, scans[s].root)
     \/ Goes(s, "fail", <<>>, NoRoot)
  /\ UNCHANGED scans /\ Stays

\* Seeded fault: a directory that cannot be opened counts as an empty one.
OpenDirOrSkip(s) ==
  /\ th[s].pc = "opendir"
  /\ \/ Goes(s, "read", <<Tree[th[s].at]>> \o th[s].walk, NoRoot)
     \/ Goes(s, "read", <<{}>> \o th[s].walk, NoRoot)
  /\ UNCHANGED scans /\ Stays

\* libssh2_sftp_opendir; a failure unwinds the whole walk.
OpenDir(s) ==
  /\ th[s].pc = "opendir"
  /\ \/ Goes(s, "read", <<Tree[th[s].at]>> \o th[s].walk, NoRoot)
     \/ Goes(s, "fail", <<>>, NoRoot)
  /\ UNCHANGED scans /\ Stays

\* libssh2_sftp_readdir gives an entry: an unsafe name is skipped, a directory
\* is walked at once, a file is reported.
ReadEntry(s) ==
  /\ th[s].pc = "read"
  /\ \E e \in th[s].walk[1] :
       LET rest == <<th[s].walk[1] \ {e}>> \o Tail(th[s].walk)
       IN  \/ e \in Unsafe /\ Goes(s, "read", rest, NoRoot)
           \/ e \in Dirs \ Unsafe /\ Goes(s, "opendir", rest, e)
           \/ e \in Files \ Unsafe /\ Goes(s, "send", rest, e)
  /\ UNCHANGED scans /\ Stays

\* It fails: the error unwinds every directory above.
ReadError(s) ==
  /\ th[s].pc = "read"
  /\ Goes(s, "fail", <<>>, NoRoot)
  /\ UNCHANGED scans /\ Stays

\* The end of a directory: back to the one above, if there is one.
EndDir(s) ==
  /\ th[s].pc = "read" /\ th[s].walk[1] = {}
  /\ Goes(s, IF Len(th[s].walk) = 1 THEN "done" ELSE "read", Tail(th[s].walk), NoRoot)
  /\ UNCHANGED scans /\ Stays

Write(s, m) == /\ Len(scans[s].ring) < RingCap
               /\ scans' = [scans EXCEPT ![s].ring = Append(@, m)]

\* The path of f below the folder of slot s, as far as rel_path has room.
FileMsg(s, f) == [kind |-> "File", path |-> Cut[scans[s].root][f], file |-> f]

\* Seeded fault: an unfinished wait for room sends the file once more.
SendFileTwice(s) ==
  /\ th[s].pc = "send"
  /\ Write(s, FileMsg(s, th[s].at))
  /\ \/ Goes(s, "read", th[s].walk, NoRoot)
     \/ UNCHANGED th
  /\ Stays

\* Waits for room in the ring as long as it takes.
SendFile(s) ==
  /\ th[s].pc = "send"
  /\ Write(s, FileMsg(s, th[s].at))
  /\ Goes(s, "read", th[s].walk, NoRoot)
  /\ Stays

\* Seeded fault: a walk that failed just leaves.
SendTerminalIfDone(s) ==
  /\ th[s].pc \in {"done", "fail"}
  /\ IF th[s].pc = "done" THEN Write(s, [kind |-> "Done"]) ELSE UNCHANGED scans
  /\ Goes(s, "close", <<>>, NoRoot)
  /\ Stays

SendTerminal(s) ==
  /\ th[s].pc \in {"done", "fail"}
  /\ Write(s, [kind |-> IF th[s].pc = "done" THEN "Done" ELSE "Failed"])
  /\ Goes(s, "close", <<>>, NoRoot)
  /\ Stays

\* The session and the socket are closed, and the thread returns.
Close(s) ==
  /\ th[s].pc = "close"
  /\ Goes(s, "exited", <<>>, NoRoot)
  /\ UNCHANGED scans /\ Stays

----------------------------------------------------------------------------
(* The UI thread.                                                          *)

\* xfer_enqueue of n operations: those that find no room only raise drop_count.
Enqueue(n) == LET fit == IF n < MaxOps - count THEN n ELSE MaxOps - count
              IN  count' = count + fit /\ dropped' = (dropped \/ fit < n)

\* xfer_scan_poll_all's loop goes to the next slot, or the frame goes on.
NextSlot == ui' = IF ui.at = MaxScans THEN [pc |-> "input", at |-> 1]
                  ELSE [pc |-> "poll", at |-> ui.at + 1]

PollNothing ==
  /\ ui.pc = "poll"
  /\ scans[ui.at].inUse => scans[ui.at].ring = <<>>
  /\ NextSlot
  /\ UNCHANGED <<scans, th, count, dropped, ignored, log, queued, handed>>

\* The first message in the ring of the slot that is polled.
Polls(kinds) == /\ ui.pc = "poll"
                /\ scans[ui.at].inUse /\ scans[ui.at].ring # <<>>
                /\ Head(scans[ui.at].ring).kind \in kinds
Taken == [scans EXCEPT ![ui.at].ring = Tail(@)]

PollFile ==
  /\ Polls({"File"})
  /\ scans' = Taken
  /\ Enqueue(1)
  /\ LET m == Head(scans[ui.at].ring)
         i == scans[ui.at].no
     IN  /\ queued' = [queued EXCEPT ![i] = Append(@, m.path)]
         /\ handed' = [handed EXCEPT ![i] = Append(@, m.file)]
  /\ UNCHANGED <<th, ui, ignored, log>>

\* The outcome goes to the log, and the ring is released.
PollTerminal ==
  /\ Polls({"Done", "Failed"})
  /\ scans' = Taken
  /\ log' = [log EXCEPT ![scans[ui.at].no].is =
               IF Head(scans[ui.at].ring).kind = "Done" THEN "complete" ELSE "failed"]
  /\ ui' = [ui EXCEPT !.pc = "join"]
  /\ UNCHANGED <<ignored, th, count, dropped, queued, handed>>

\* Seeded fault: the slot is given back while the thread still closes.
JoinEarly ==
  /\ ui.pc = "join"
  /\ scans' = [scans EXCEPT ![ui.at] = Free]
  /\ NextSlot
  /\ UNCHANGED <<th, count, dropped, ignored, log, queued, handed>>

\* thread_join, then the slot is free.
Join ==
  /\ ui.pc = "join"
  /\ th[ui.at].pc = "exited"
  /\ scans' = [scans EXCEPT ![ui.at] = Free]
  /\ th' = [th EXCEPT ![ui.at] = NoThread]
  /\ NextSlot
  /\ UNCHANGED <<count, dropped, ignored, log, queued, handed>>

\* A remote folder is dropped on the local pane, whose handler has looked at
\* its name: the first free slot scans it.
StartScan(d) ==
  /\ ui.pc = "input" /\ Len(log) < MaxStarts
  /\ \E s \in Slots :
       /\ ~scans[s].inUse /\ \A r \in 1 .. s - 1 : scans[r].inUse
       /\ scans' = [scans EXCEPT ![s] = [inUse |-> TRUE, root |-> d,
                                         no |-> Len(log) + 1, ring |-> <<>>]]
       /\ th' = [th EXCEPT ![s] = [NoThread EXCEPT !.pc = "connect"]]
  /\ log' = Append(log, [root |-> d, is |-> "scanning"])
  /\ queued' = Append(queued, <<>>) /\ handed' = Append(handed, <<>>)
  /\ UNCHANGED <<ui, count, dropped, ignored>>

\* Without a free slot nothing happens, though the log says that the folder is
\* being scanned.
IgnoreDrag ==
  /\ ui.pc = "input"
  /\ \A s \in Slots : scans[s].inUse
  /\ ignored' = TRUE
  /\ UNCHANGED <<scans, th, ui, count, dropped, log, queued, handed>>

\* A local folder is dropped on the remote pane.
UploadFolder ==
  /\ ui.pc = "input"
  /\ Enqueue(LocalFiles)
  /\ UNCHANGED <<scans, th, ui, ignored, log, queued, handed>>

\* The user removes an operation from the queue.
RemoveOp ==
  /\ ui.pc = "input" /\ count > 0
  /\ count' = count - 1
  /\ UNCHANGED <<scans, th, ui, dropped, ignored, log, queued, handed>>

EndFrame ==
  /\ ui.pc = "input"
  /\ ui' = [pc |-> "poll", at |-> 1]
  /\ UNCHANGED <<scans, th, count, dropped, ignored, log, queued, handed>>

----------------------------------------------------------------------------
ThreadStep(s) == \/ Connect(s) \/ OpenDir(s) \/ ReadEntry(s) \/ ReadError(s)
                 \/ EndDir(s) \/ SendFile(s) \/ SendTerminal(s) \/ Close(s)
FrameStep == PollNothing \/ PollFile \/ PollTerminal \/ Join \/ EndFrame
UserStep == (\E d \in Dirs \ Unsafe : StartScan(d)) \/ IgnoreDrag \/ UploadFolder \/ RemoveOp

Next == FrameStep \/ UserStep \/ \E s \in Slots : ThreadStep(s)

\* The frame loop runs on; a thread's calls return (the session's timeout
\* bounds each) and it runs whenever it can.
Spec == Init /\ [][Next]_vars /\ WF_vars(FrameStep)
             /\ \A s \in Slots : WF_vars(ThreadStep(s))

----------------------------------------------------------------------------
(* What must hold.                                                         *)

TypeOK ==
  /\ scans \in [Slots -> [inUse : BOOLEAN, root : Dirs, no : 0 .. MaxStarts,
                          ring : Seq(Msgs)]]
  /\ \A s \in Slots : Len(scans[s].ring) <= RingCap
  /\ th \in [Slots -> [pc : ThreadPcs, walk : Seq(Frames), at : Entries]]
  /\ ui \in [pc : {"poll", "join", "input"}, at : Slots]
  /\ count \in 0 .. MaxOps /\ dropped \in BOOLEAN /\ ignored \in BOOLEAN
  /\ log \in Seq([root : Dirs, is : Outcomes]) /\ Len(log) <= MaxStarts
  /\ queued \in Seq(Seq(Paths)) /\ Len(queued) = Len(log)
  /\ handed \in Seq(Seq(Files)) /\ Len(handed) = Len(log)

\* The files below each directory that safe names lead to.
FilesBelow ==
  [d \in Dirs |-> {f \in Files \ Unsafe : Reaches(d, f)}]

\* How the paths that scan i has enqueued can be told of files below its
\* folder: each one is what Cut leaves of the file's path.
Tellings(i) ==
  {g \in [1 .. Len(queued[i]) -> FilesBelow[log[i].root]] :
     \A j \in 1 .. Len(queued[i]) : queued[i][j] = Cut[log[i].root][g[j]]}

\* What a scan enqueues are the paths of files of the folder that was dragged,
\* reached by safe names, and each file's once: slots that are used again, rings
\* that fill up and walks that fail mix nothing up.  Of a path too long for
\* rel_path (xfer.c:692) the enqueued one is the beginning, which may be another
\* file's path or no file's; where every path fits it is the file itself.
OnlyItsFilesOnce ==
  \A i \in 1 .. Len(log) :
    \E g \in Tellings(i) : \A j, k \in DOMAIN g : g[j] = g[k] => j = k

\* "folder download of ... complete" is logged only when a path has been enqueued
\* for every file below the folder: its own if it fits, and what the cut leaves
\* of it if it does not (then the code says "complete" without the file).
CompleteMeansAll ==
  \A i \in 1 .. Len(log) :
    log[i].is = "complete" =>
      \E g \in Tellings(i) : \A f \in FilesBelow[log[i].root] : \E j \in DOMAIN g : g[j] = f

\* A slot is free only when its last thread has gone, so that a new scan never
\* shares one; and a ring is released only when its thread has written all it
\* ever will and nothing is left in it.
SlotsAreQuiet ==
  /\ \A s \in Slots : scans[s].inUse \/ th[s].pc = "none"
  /\ ui.pc = "join" => /\ th[ui.at].pc \in {"close", "exited"}
                       /\ scans[ui.at].ring = <<>>

LogSays(i, what) == i \in 1 .. Len(log) /\ log[i].is \in what

\* Every scan that started is answered in the log.
ScansEnd == \A i \in Scans : LogSays(i, {"scanning"}) ~> LogSays(i, {"complete", "failed"})

=============================================================================
