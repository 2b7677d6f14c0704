# ftpftw: a model of its transfers and of its remote connection

ftpftw is a two-pane SFTP client for Windows, in C.  One UI thread runs a frame
loop and owns nearly all state; every blocking network call sits in some other
thread, and the threads talk to the UI thread through bounded rings of messages.
This directory holds TLA+ specifications of that machinery, configurations to
check them with TLC, and proofs for TLAPS.  Line numbers refer to `src/src/...`.

## The system

| Part | Code | State | Operations |
|---|---|---|---|
| Guarded ring | `base/base_ring.c` | buffer, two positions that wrap, a mutex, one condition variable | write or read a message, with a deadline: poll, wait, wait for ever |
| Transfer queue | `xfer/xfer.c` | fixed array of operations, id counter, drop counter, a progress ring per operation | enqueue, dispatch, drain, cancel, remove, resume, limits |
| Transfer thread | `xfer_thread_entry` | one SFTP session per attempt, a raw pointer to its operation | connect, open, resume at an offset, move chunks, report, finish |
| Folder scan | `xfer.c`, `main.c` | eight slots, a ring and a thread each | start, walk, poll, join |
| Control thread | `sftp/sftp_client.c` | one SFTP session, an in ring and an out ring | connect, verify the host key, log in, list, delete, quit |
| Remote connection | `main.c` (`RemoteConn`) | pointers to the current session's rings, credentials, back-off timer, pinned key | connect, disconnect, drain, reconnect, teardown, prompt |
| Remote pane | `main.c`, `fs/fs_local.c`, `ui/ui_core.c` | path, rows, sorted, selection by row, delete dialog | drain entries, sort, navigate, refresh, select, delete |
| Stores | `store/*.c` | files rewritten as a whole: known hosts, connections, limits, last directory | load, save, find, pin |
| Both panes' input | `main.c`, `ui/ui_core.c` | local listing and selection, double click, context menu, drag, open dialogs | click, drag, drop, delete, list again |
| Arenas | `base/base_arena.c`, `base_thread_context.c` | chains of reserved and committed blocks, two scratch arenas per thread | push, pop, begin and end a scope |
| Text fields | `ui/ui_core.c` | a buffer, a length, a cursor | type, paste, delete, move, fill |
| Glyph atlas | `font/fnt_cache.c`, `ui/ui_icons.c` | a texture, shelves, a table | pack, look up |
| OS layer | `os/*` | thread entities | launch, join, detach, lock, wait |
| Drawing, window | `draw`, `font`, `render`, `wm` | widget state | output |

The UI thread calls everything.  A transfer thread and a scan thread share one
ring each with it and nothing else, except that a transfer thread also reads
`cancel_requested` in its operation.  The control thread shares two rings with
it.  Whatever blocks in the UI thread stops all of it: a write to a full in
ring, a `thread_join`, a teardown.

What is hard: pointers into an array whose slots move; messages of a thread
that was given up; two bounded rings between the same two threads; rows shown,
named in a dialog and deleted on three different frames; attempts that stop
anywhere and go on from what they find; and who may release a ring when.
`PROJECT.json` lists these hazards with their lines.

## The modules

| Module | What it is |
|---|---|
| `MessageChannel` | what a ring promises: a bounded queue of whole messages |
| `GuardedRing` | positions, bytes, mutex and condition variable; implements `MessageChannel` |
| `XferLedger` | what the queue promises: what each operation stands at, and what its thread has decided |
| `XferQueue` | the array, the threads with their pointers, the rings, the frame; implements `XferLedger` |
| `XferResume` | the bytes of one transfer over several attempts |
| `SftpSession`, `MCSftpSession` | `RemoteConn` and the control threads of successive sessions |
| `RemotePane` | what the pane shows, names and deletes |
| `FolderScan`, `MCFolderScan` | the scan slots, their threads and the poll |
| `Stores`, `MCStores` | the four files, what is loaded from them, changed and saved |
| `PaneInput` | the mouse over both panes, the local listing, the menu, the drag, the dialogs that gate them |
| `Arena`, `Scratch` | the chain of blocks under an arena; a thread's two scratch arenas and the calls that share them |
| `LineEditor` | what a text field promises: the text before and behind the cursor |
| `TextField` | the buffer, its length and the cursor; implements `LineEditor` |
| `GlyphAtlas` | the texture of icons and glyphs, packed on shelves, and its table |
| `MCBase`, `MCPanes` | parts that share no state, checked by one run: a behaviour follows one of them |
| `BaseProofs` | theorems about the ring, the arenas, the text field and the atlas |
| `XferQueueProofs`, `XferResumeProofs`, `SftpSessionProofs`, `FolderScanProofs`, `StoresProofs`, `RemotePaneProofs` | theorems about the module each is named for |
| `PanesProofs` | theorems about `MCPanes`: the mouse and the local pane beside the remote one |

`XferQueue`, `SftpSession`, `RemotePane` and `FolderScan` use rings as queues
with atomic operations; `GuardedRing` implementing `MessageChannel` is the reason
they may.

**From the code to the actions.**  Each action carries the name of what it
models, and `PROJECT.json` maps it to lines.  The UI thread's frame is a program
counter: in `XferQueue` *dispatch, drain, join, refresh, input*, in
`SftpSession` *drain, reap, input* (the reconnection timer and the refresh come
when the drain has found its ring empty) and the blocking *write, await, join*
that the others may fall into, in `FolderScan` *poll,
join, input*.  Threads interleave at every ring operation and at every read of
shared state; a loop that only computes is one step.  `thread_join` is a state
of the UI thread that ends when the thread has exited.  A call that may wait
with a deadline may give up at any moment, because time is not modelled.

**What is abstracted.**  Texts, sizes of names, host and port (one *target*),
speeds and times; in `XferQueue` the bytes; in `SftpSession` which directory is
listed; in `RemotePane` the session's handshake; in `FolderScan` all of the queue
but its length; in `Stores` strings and bytes: a file is the sequence of fields its
serializer writes, and since the stores share nothing a behaviour follows one of
them; in `PaneInput` coordinates: a spot is a pane, a row and the widgets that lie over
both, any of which the same press may hit; in `Arena` and `Scratch` what is in the memory.
`Stores!DecodeProfiles` takes the decrypted connections as the list they were serialized
from: the blob is encrypted as a whole, so it can be read as it was written or not at all,
and the bounds its field loop checks (`store/conn_store.c:91-141`) never cut one.
`DecodeHosts`, whose file is plain, has the checks of its loop.  A name is a number where order matters and a model value
elsewhere.

**Constants that stand for fixed sizes.**  Paths are sent in fields of 512 bytes and cut
to them without an error.  `FolderScan!Cut` is what a scan's message holds of a file's path
below the dragged folder (`xfer/xfer.c:692`), `RemotePane!DirSent` and `FileSent` what a
request holds of a directory's path and of a file's (`main.c:390`, `1047`, `1556`).  They may be any
functions: a path that fits is itself, one that does not is another's path or none, and
the runs have both.

**Constants that restrict the code.**  Where the code breaks a property, a
constant separates the behaviours that do it, so that the rest is checked
against the property and a run shows the break:

| Constant | The code | Restricted |
|---|---|---|
| `XferQueue!RemoveAhead` | TRUE: any waiting operation may be removed | FALSE: none that stands ahead of a running one |
| `SftpSession!RoomFirst` | FALSE: a request is written, room or not | TRUE: the user acts only with room in the in ring |
| `RemotePane!OneAtATime` | FALSE: the pane reacts while a listing streams | TRUE: the user waits until it has settled |
| `XferResume!OldMayStay` | TRUE: a first attempt may fail before it opens a destination that holds a file | FALSE: it does not |
| `XferResume!ReadErrors` | TRUE: reading a local file may fail, which looks like its end | FALSE: it does not |

## The runs

| Run | Bounds | Shows |
|---|---|---|
| `queue_safety` | 2 slots, 3 operations, both kinds, limits to 2, 2 messages per ring, 1 chunk | threads work on their own operations; rings hold their own messages; no two operations share an id and a waiting one starts clean; joins are short; limits are kept |
| `queue_live` | 2 slots, 2 operations, rings of 1 | running transfers settle, the UI comes back, waiting ones get their turn, the ledger is implemented |
| `queue_cancel` | as the code is | **broken**: a cancelled transfer whose slot has moved is never settled |
| `base` | ring: 8 bytes, messages of 3, positions modulo 16, one writer, one reader, every patience; arena: blocks of 8, 3 addresses, 4 allocations, 2 scopes; scratch: 4 calls, 4 scopes; field: 5 bytes; atlas: 8 by 8, 6 glyphs, 2 icons | whole messages, once, in order; no lost wake-up; writers get through; `MessageChannel` is implemented; allocations stay apart and scopes can end; scratch results survive; a text field is a `LineEditor`; glyphs do not overlap |
| `session_safety` | 2 targets, 2 keys, 2 sessions, rings of 1, empty listings, the code as it is | no password before trust; pins were trusted; rings outlive threads; the prompt is never lost; only losses are retried |
| `session_live` | 1 target, 2 keys, 1 session, listings of 2, `RoomFirst` | the UI comes back, listings end |
| `session_blocks` | as the code is | **broken**: the UI thread and the control thread wait for each other |
| `panes` | remote pane: 2 directories, 2 files, 2 rows, 2 uploads, 2 losses, listings that are refused or break off, paths that requests cut, `OneAtATime`; mouse: 2 local files (one of them, `TopOnly`, never in the folder), a folder, 1 remote file, any dialog at any time, presses that hit several widgets | the rows of the settled pane are its directory's, in order, and all of them where the listing was neither refused nor broken off; both delete dialogs delete what they named; a double click opens what both of its clicks were on |
| `resume` | 5 blocks, chunks of 2, 3 attempts, any old file | Done means copied; nothing skipped that is not its own; nothing moved is lost |
| `resume_old` | as the code is, 5 blocks, chunks of 2, 3 attempts | **broken**: an old file becomes the beginning of the copy |
| `scan` | 2 slots, rings of 1, queue of 1, a tree of 2 levels with an unsafe folder, a file whose path is cut to another's, 2 scans | each scan enqueues the paths of its own files, each file's once; complete means that every file was told; slots and rings are quiet when given back; scans end |
| `stores` | 2 instances started 3 times, 3 changes, lists of 2, sound and damaged files, crashes and short writes anywhere | only accepted keys are pinned; a restart shows what was shown; the selected connection is the real one; pins are remembered |

Two properties of `stores` name their own exceptions, which the model keeps track of
in the history variables `missed` and `mishap`: the program cannot tell a file it failed
to read from a first run, ignores every failure of a save, and knows nothing of a
second instance that saves the list it loaded.  `OnlyTrusted` has no exception.

`panes` and `scan` name theirs in the same way.  `PaneShowsPath` says that rows are missing only if the
pane is full or the listing was refused or broke off (`control.whole`): the code then sends *Done*
and logs "directory listing complete" all the same (`sftp/sftp_client.c:190-229`).  It
leaves out a directory whose own path a request cuts.  `OnlyItsFilesOnce` and
`CompleteMeansAll` speak of the paths that were enqueued and ask for files they can be
told of (*Tellings*): each path is what `Cut` leaves of some file's, no file
is told twice, and after "complete" none is left out.  Two files whose paths are cut to one
are then told by two operations of the same path, and a download said to be complete may
lack one; that is what the code does.  `DeletesWhatIsNamed` is about the names that are asked to be
deleted, not about the file that the server finds under a cut path.

The bounds are the smallest at which each interesting case occurs, and the
cases do occur: every property is also run against a seeded fault (an operator
commented "Seeded fault", paired in `PROJECT.json` with the definition it
replaces), and falls.  Two slots are enough for a slot to move under a thread,
one message of room for every wait on a full ring, chunks of two in five blocks
for a short last chunk and for a partly written one, two sessions for a stale
one beside a new one, and positions modulo 16, two buffers' worth, for
the 64-bit counters to wrap as well as the index into the buffer.  An arena's
blocks of eight bytes with a header of two are outgrown by its fourth allocation, so
scopes begin in one block and end in another, and three addresses let a released one
be reserved again.  Four nested calls are enough for a result to pass through two
functions, each with a scratch scope of its own.  The atlas of eight by eight fills up
after a few glyphs, over several shelves.

More configurations show what the code does where no listed run looks.  Each is
run on the module in parentheses and falls:

| Configuration | Property | What happens |
|---|---|---|
| `RemotePaneNames.cfg` (`MCPanes`) | `DeletesWhatIsNamed` | a file is selected and named in the delete dialog while its listing streams, `Done` sorts the rows under the selection, and another file is deleted |
| `RemotePaneMix.cfg` (`MCPanes`) | `PaneShowsPath` | a directory opened while another is listed shows rows of both |
| `RemotePanePath.cfg` (`MCPanes`) | `PathSurvives` | the reconnection may read an overwritten path |
| `XferQueueRefresh.cfg` (`XferQueue`) | `EveryEndIsSeen` | a transfer that starts and settles within a frame does not refresh its pane |
| `PaneInputDrag.cfg` (`PaneInput`) | `DropsAreDrags` | a dialog comes up while a drag is armed; the drag goes on beneath it and drops when the dialog has closed |
| `PaneInputMenu.cfg` (`PaneInput`) | `MenuKeepsItsFiles` | the click on the menu's item also lands on the row beneath it and changes the selection the menu was opened for |
| `PaneInputAsks.cfg` (`PaneInput`) | `AsksFirst` | the click on the menu's item also lands on the button of the dialog it opens, which deletes without having asked |

With `ReadErrors = TRUE` in `XferResume.cfg`, `DoneMeansCopied` fails: an upload whose
local read fails ends Done, cut short.

The type invariants that no run lists (`GuardedRing`, `Arena`, `Scratch`, `TextField`,
`GlyphAtlas`, `XferResume`, `SftpSession`, `FolderScan`, `Stores`) are theorems.

`CHECK_DEADLOCK FALSE` stands where the system really may stop: the window is
closed (`SftpSession`), the bounded attempts, uploads and losses are used up
(`XferResume`, `RemotePane`, `Stores`), or the run is about the code waiting for itself.

**Fairness.**  The UI thread's own steps are weakly fair: the frame loop runs
until the window is closed.  User actions have no fairness.  Each thread's steps
are weakly fair, because every network call has a timeout
(`SFTP_SESSION_TIMEOUT_MS`, 20 s), so it returns.  A step that waits for room in
a ring is disabled until there is some.  In `GuardedRing` taking the mutex is
strongly fair (a critical section is not held against a waiting thread for
ever) and readers come back, as the frame loop and the request loop do;
`MCBase!BaseFairness` says the same of the ring's part of its run.
`QueueDrains` assumes
that the user at some time stops resuming failed transfers: they keep their place
ahead of waiting ones.

## The proofs

Every invariant and every action property of the passing runs is a theorem, for all
values of the constants that satisfy the modules' assumptions, and so are the refinements
but for the liveness of one.  A theorem that needs a condition says so: `~RemoveAhead`,
`OneAtATime`, `~OldMayStay` and `~ReadErrors` are the restrictions listed above, each with
a configuration that falls without it.

**The ring** (`BaseProofs`), for any sets of readers, writers and messages and any
sizes.  `MutexHolds`: a thread is inside exactly when it owns the mutex.
`NoWakeUpIsLost`: whoever sleeps could not go on if it were awake.  The invariant
joins both: only the owner changes positions, and it broadcasts before it leaves,
so every sleeper is judged against positions that have not moved since.
`RingsAreChannels`: the ring implements `MessageChannel`; the channel's queue is decoded
from the bytes between the positions.  The inductive invariant *RingInv* says that these
are whole messages one behind the other (*Contains*), that a writer about to publish has
copied its message to the cells behind them, and that a reader about to publish holds the
oldest.  It rests on arithmetic modulo a size that is not known: the positions wrap at a
multiple of the ring's size (`ModNested`), a message wraps around its end at most once
(`ModWraps`), and cells less than a ring apart are different (`ModApart`), so writing a
message disturbs none that is queued (`PutFacts`).  That positions wrap at a multiple of the
size is an assumption of the module; it holds of 2^64 and the
code's rings of 4 and 64 kB.

**The queue** (`XferQueueProofs`), for any number of slots, operations and messages.
`TypeCorrect`, `AttemptsStayApart` and `LimitsAreKept` hold whatever the user removes;
`PointersStayGood`, `RingsStayOwn`, `JoinsAreShort` and `KeepsTheLedger` are proved under
`~RemoveAhead`, and `queue_cancel` shows that they need it.  Ids: all are below `nextId`, and a shift
keeps them distinct (*Books*).  Pointers: the pairing of threads and running operations is
one-to-one, and a removal moves only slots behind the removed one, where by
assumption no running operation stands (*Pairing*).  Rings: a thread's program
counter says whether a terminal message is still to come, and a terminal message
is the ring's last (*Monitor*), so draining up to it leaves the ring empty and
the thread on its way out.  Limits: what dispatch starts are the slots between the old and
the new set of running ones, and its bound on their number goes through the last of them.
`KeepsTheLedger`: every step is a step of `XferLedger` or shows nothing.  The mapping
chooses an operation by its id (*StandingOf*, *VerdictOf*); `MappingAgrees` replaces the
choice by the slot, and then each action has its step of the ledger.  The proof found the
guards of *VerdictOf*'s CASE overlapping, which in TLA+ leaves the value open; they no
longer do.  The ledger's fairness, the rest of `LedgerSpec`, is TLC's.

**The bytes** (`XferResumeProofs`), for any sizes, chunks and attempts.  Unconditionally:
`TypeCorrect`, `ReportsAreTrue`, and `WhatWasMovedStays`: no step of a later attempt shortens
what an earlier one wrote (*Shape*: an attempt counts no more than the destination holds,
and one that has opened it goes on with what is there).  Under `~OldMayStay` and
`~ReadErrors`: `DoneIsCopied`, `OwnBytesAreSkipped`.  Their inductive invariant is
*Faithful*: once an attempt has opened the destination, the destination is the beginning of
the source, whatever partial chunk the last attempt left.  `DoneMeansCopied` alone is not
inductive: nothing in it speaks of an attempt under way.

**The session** (`SftpSessionProofs`), for any numbers of hosts, keys, sessions and
entries and any ring sizes.  `SessionTypeCorrect`, `TrustBeforeUse`, `RingsStayWithThreads`,
`GateStaysVisible`, `OnlyLossesAreRetried`.  The inductive invariant has two halves.
*SessionSafe* holds of every session, detached ones too: a *HostKeyAccept* in its ring is
there only after the user has trusted the key that this very session was shown.
*Conversation* holds of the current session while it is not torn down: a question and its
answer never cross, so the decision the UI thread writes meets a thread at the gate.
`TrustComesFirst` needs both: what makes a late *HostKeyAccept* harmless is that teardown
gives the next session rings of its own.  What a control step may do is stated once
(*ControlRel*) and shown of each of its seventeen actions.

**The scan** (`FolderScanProofs`), for any number of slots and any ring and queue sizes.
`ScanTypeCorrect`, `SlotsStayQuiet`, `CompleteIsAll`, `OnlyOwnFiles`, for any directories,
links and loops among them included, and any cut.  The inductive invariant *Accounted*: the files
below the dragged folder are those handed over, those in the ring and those reachable from what
the walk still has to tell.  Beside it *Paired*: the j-th path a scan has enqueued is what `Cut`
leaves of the j-th file it has told, also through the ring; so the list of those files is one of the *Tellings*
the properties ask for.  `FilesOnce` adds that no file comes twice.  It uses
`PathsAssumption`, which says what makes entries paths: one parent each, and none below
itself.  The parts of that sum then have no file in common (*Once*), because subtrees
of different entries of a directory, and of directories on the walk's stack, are disjoint.
`ShortPathsAreExact` says what the others come to where every path below the folder fits: the
enqueued paths are the folder's files, each once, and all of them after "complete".

**The remote pane** (`RemotePaneProofs`), for any names, directories, rows and rings.
`RemotePaneTypes` whoever touches the pane and when; `PaneIsItsDirectory` and
`OnlyNamedAreDeleted` under `OneAtATime`, whatever requests cut and the server refuses.  The
inductive invariant: the listing on its way is of the directory the pane shows, or of what a
request made of its path (*Aimed*); of that directory, what is shown,
what is in the ring and what the thread has not sent yet are different entries, and all of
them unless the listing was refused or broke off (*Listing*, *Orderly*); nothing is selected before the rows are sorted; and in the ring a
*Done* comes last.  That the sorted rows are the same rows in order rests on lemmas about the
n-th of finitely many numbers (*Nth*, *OneMore*): it exists, and it is unique.

**The mouse and the local pane** (`PanesProofs`), for any local files and whatever the
remote side lists.  `PanesTypesCorrect`, `OnlyNamedLocalFilesGo`, `DoubleClicksAreMeant`.
The inductive invariant: what is selected is named by the open delete dialog
(*ChosenAreNamed*), because rows get no clicks while it is up, listing the pane again
clears the selection, and a press that opens the dialog and confirms it at once finds the
selection it was opened for; and the remembered click was on the row that has its index now
(*FirstClickIsKnown*), because listing again forgets it.

**The stores** (`StoresProofs`), for any number of instances, starts and changes, any limits, and
crashes and short writes anywhere.  `TypeCorrect`, `NoForeignPin`, `MemoryIsOnDisk`,
`SelectionStaysReal`, `LastKeyIsFound`.  It is assumed that the fields of a file
found at the first start have their types, however many there are and whatever counts they
announce (`FoundAssumption`), and that a directory that can be opened fits its buffer
(`DirsAssumption`).  The inductive invariant: what an instance holds in memory is what its file decodes
to unless it is counted among the exceptions (*FileIsShown*); only one instance writes at a
time (*OneWriter*) and the others then count as having missed it (*OthersMiss*);
unless a mishap was counted one instance runs at a time (*Alone*), and the pin it has, and has in
the file, for an endpoint is the last accepted (*Pinned*); every pin anywhere was accepted (*TrustedPins*).

**The base** (`BaseProofs`).  `ArenaTypeCorrect`, `AllocationsStayApart`, `ScopesAlwaysEnd`, for any
page, header, reserve and commit sizes and alignments: blocks, allocations and scopes
are all in the order of absolute positions.  `ScratchTypeCorrect`,
`ResultsAreKept`: a function fills an arena in which no scope is younger than the one it
fills, except scopes that end before it goes on.  `FieldTypeCorrect`, `FieldsEdit`: the text
field implements `LineEditor` in full; the loops that move bytes one by one are each shown to
move a half of the text as a whole (*Halves*).  `AtlasTypeCorrect`,
`RectanglesStayApart`: a bitmap lies above the current shelf, or on it and left of its end.

**Only model-checked**: liveness under fairness and whatever depends on ENABLED, which the
prover does not reach (`RunningSettles`, `QueueDrains`, `UiComesBack`, `ListingsEnd`, `ScansEnd`,
`WritersGetThrough`, the ledger's fairness), and the properties that the code breaks.

## Not modelled

The pool of thread entities and the one-call wrappers of Win32; the log and its
compaction; string slices and UTF conversion; tabs, scrolling and the layout of the
dialogs; drawing, fonts and the window but for the glyph atlas; the build.  The network and the server are what their callers must expect of them:
any call may fail, and a server may present any key and list any names.  Memory
is unbounded, except for rings, arrays, the atlas, what `Arena` has reserved and the clearing of the pane's arena.
`PROJECT.json` gives a reason for each part.

## The plan

1. Done: the ring, the queue, the bytes, the session, the panes, the scan, the
   stores, the arenas, the text fields and the atlas, each with its theorems.
2. Further proofs: the parts of the liveness arguments that are safety (a thread that the
   UI waits for has a step, a queue with room and waiting operations starts one).
3. Further models: the clipping and scrolling of the panes, if they get state of
   their own that outlives a frame.
