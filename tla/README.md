# knFileCatcher in TLA+

knFileCatcher captures the files that chosen programs write. A minifilter
driver (`src/knFcFlt`) watches the handles of the processes it tracks and asks
user mode, over a filter port, to copy each file when its handle is cleaned up;
a WPF client (`src/knFcUxWpf`) answers, copies, keeps a manifest and shows the
process tree. This directory holds TLA+ models of that system, TLC instances
that check them and TLAPS proofs about them. Paths below are relative to the
repository root; the code's own root is its `src/` directory.

## The system's parts

| Part | Code | State | Operations |
|------|------|-------|------------|
| Backup queue | `knFcQueue.cpp` | list, depth, event, stop flag, producer rundown, worker threads, counters | Initialize, Enqueue, SendSyncFromCleanup, worker loop, SendOne, GetStats, Uninitialize |
| Filter port | `knFcComm.cpp` | client port and its mutex, server port | Connect, Disconnect, SendMessage, PushProcessEvent, the control-message dispatcher, Uninitialize |
| Process tracker | `knFcTrack.cpp` | table of tracked processes, Active, notify registration, deferred-exit list and thread | Start (notify, snapshot), Stop, the Ps notify callback, IsTracked, Dump, deferred EXITED pushes |
| Handle capture | `knFcCallbacks.cpp`, `knFcContexts.cpp` | a stream-handle context per tracked handle: flags, name | Create, Write, SetInformation, section, Cleanup callbacks |
| Watch roots | `knFcConfig.cpp` | up to 16 root paths | Add, Clear, prefix match |
| Excludes | `knFcExclude.cpp` | up to 64 patterns, match count | Add, Clear, match |
| Driver lifecycle | `knFcFlt.cpp` | which parts are up | DriverEntry with its roll-back, FilterUnload |
| Image paths, pool | `knFcUtil.cpp` | none / resolved allocator | look-up and allocation |
| Session worker | `BackupWorker.cs`, `ManifestWriter.cs` | remembered request ids, destination tree, manifest | receive, deduplicate, copy, record, reply |
| View model | `MainViewModel.cs`, `ProcessTreeModel.cs`, `SessionsModel.cs`, `StatsModel.cs` | what the operator sees: roots, excludes, tree, sessions, Active | Bootstrap, Start, Stop, add/remove root or exclude, Shutdown, event handlers |
| Driver client | `DriverClient.cs`, `ProtoStructs.cs`, `Native.cs`, `knFcProto.h` | port handle | connect, send control messages |
| Installer | `DriverInstaller.cs`, `App.xaml.cs` | service, staged driver | install, self-upgrade, load, unload, uninstall |
| Tools, tester, UI markup | `tools/*.ps1`, `knFcTester.cpp`, `*.xaml` | none of the program's own | |

How they interact:

* A cleanup callback reads the tracker's verdict kept in the handle's context
  and hands a request to the queue, synchronously (DELETE_ON_CLOSE) or not.
* Queue workers, synchronous senders, the tracker's event pushes and the
  deferred-exit thread all send through the filter port, under one mutex that
  is held for the whole send.
* The session worker is the only reader of the port; it replies to each message
  or lets it time out.
* The view model drives the driver with control messages (add root, add
  exclude, start, stop, statistics, process tree) and applies process events to
  its tree.
* Unload stops the queue, then the tracker, then the port, and only then
  unregisters the filter: callbacks and notifications overlap all of it.

## What is hard here, and what makes each part correct

* **Queue**: producers at DISPATCH_LEVEL race for the last place without the
  lock; a manual-reset event is set outside the lock and cleared inside it; a
  failed synchronous send re-enters the rundown that unload waits for; the pool
  must come down with callbacks still arriving. Correct means: no wakeup is
  lost, the depth is exact, each request has one owner and one outcome, and
  nothing runs or remains after Uninitialize.
* **Port**: one client, one send at a time, disconnects while senders wait.
  Correct means: no send through a closed port, every waiter gets on, requests
  are answered by the client they were sent to.
* **Tracker**: notifications race with the snapshot that Start takes and with
  Stop; pids are reused; EXITED goes through another thread than CREATED.
  Correct means: while tracking is active, the table holds the live descendants
  of watched roots, and the tree the user sees follows it.
* **Handles**: reads before an await-like completion, disposition set and
  cleared through this handle or another, handles cleaned up at elevated IRQL.
  Correct means: a handle that modified a file asks for exactly one capture,
  under the file's last name, before a deletion takes the data.
* **Session worker**: redelivery, timeouts that race the copy, name collisions.
  Correct means: what the driver counts as sent is on disk and in the manifest,
  and no captured file is overwritten.
* **Lifecycle and UX**: partial start-up, unload against control messages, the
  client crashing while the driver tracks.

PROJECT.json lists these hazards at the line where each bites.

## The modules

| Module | What it is |
|--------|------------|
| `BackupQueue` | the backup queue, at the grain of one access to `g_Queue` per step |
| `CaptureLedger` | what the queue promises: a request is accepted, taken and settled, once and in that order |
| `BackupQueue_proofs`, `BackupQueue_refinement` | TLAPS proofs about the queue, and that it implements the ledger |
| `ProcessTrack` | the table of tracked processes, the create and exit callbacks, Start with its snapshot, Stop |
| `ProcessTrack_proofs` | TLAPS proofs about the table and the snapshot |
| `ProcessEvents` | extends `ProcessTrack` with the CREATED and EXITED events, the thread that pushes exits, and the client's tree |
| `ProcessEvents_proofs` | TLAPS proofs about the tree |
| `HandleCapture` | the minifilter callbacks of one file's handles and the context of each |
| `HandleCapture_proofs` | TLAPS proofs about them |
| `BackupSession` | a request on its way to disk and back: port mutex, sends and time-outs, the client's session worker, copies, manifest, shutdown |
| `BackupSession_proofs` | TLAPS proofs about it |
| `DriverTables` | the watch roots and the excludes: what is accepted into the tables, what matches |
| `DriverLifecycle` | DriverEntry with its roll-back, FilterUnload, and what they start and stop, against notifications, control messages and sends |
| `DriverLifecycle_proofs` | TLAPS proofs about it, in the composition below |
| `UxSession` | composes the two with the client: start-up, commands, shutdown, crash, reconnection |
| `UxSession_proofs` | TLAPS proofs about what the client shows |
| `MC...` and `.cfg` | instances for TLC |

A definition whose name ends in `_Bug` (or `_BugCount`) belongs to no
specification. It is a copy of the definition after it with a plausible mistake
in it; PROJECT.json pairs each with the property that the mistake violates.

### BackupQueue

| In the model | In `knFcQueue.cpp` |
|--------------|--------------------|
| `stop`, `event`, `list`, `depth`, `threads` | the members of `g_Queue` of those names |
| `rundown`, `holds` | `ProducerRundown`: closed or not, and who holds how many references |
| `stats` | the counters that `knFcQueueGetStats` reads, and SendOne's part of the exclude count |
| `call`, `nested`, `status` | where each cleanup callback is in `knFcQueueEnqueue` or `knFcQueueSendSyncFromCleanup`, whether the former was called by the latter, and its result |
| `worker`, `item` | where each thread is in `knFcQueueWorker`, and the item it holds |
| `driver`, `creating`, `filtering` | where DriverEntry or FilterUnload is, seen from the queue |

An action is one access to shared state, or one section under the spin lock:
the increment of Depth, the test against the cap, the insertion, KeSetEvent
after the lock is released, the two reads of Stop. A send is answered, refused
or times out as it likes. A request is its callback: its contents do not matter
to the queue. Uninitialize waits for the rundown, sets the event, joins the
threads and drains, each in a step or more of its own, while callbacks go on
arriving, since `FltUnregisterFilter` comes last.

### ProcessTrack

| In the model | In `knFcTrack.cpp` |
|--------------|--------------------|
| `table`, `count` | `g_Track.Buckets`, `g_Track.EntryCount` |
| `active`, `registered` | `Active`, `NotifyRegistered` |
| `control`, `snap` | where the thread that serves Start or Stop is, and the locals of `knFcTrackSnapshot` |
| `proc` | the system's processes (environment): life, pid, parent, image under a root or not, and two history fields, `descends` and `due` |

A member of `Processes` is one process; its pid is free for another once it has
been reaped. The snapshot's rows are what the query returned, and each row is
visited with separate steps for its look-up in the table, the look-up of its
image, and the insertion under the lock: processes are born, exit and are
replaced in between. Watch roots do not change, and whether an image is under
one is chosen when the process is born.

### ProcessEvents

Its actions are those of `ProcessTrack` conjoined with what they send.
`deferred`, `exitEvent`, `exitWorker` and `pushing` are `g_ExitDefer` and its
thread; `inbox` is what the session worker has dispatched to the UI thread,
`tree` is `_nodesByPid` with the place of each node, `seeded` is `_treeSeeded`
with `TreeTruncated`, and `reader` says whether a session worker exists, without which nobody reads a
push. The port mutex and the single session worker make delivery first in,
first out; a push may be lost (500 ms) and the client may crash. Requests to the
driver are made on the UI thread, which applies no event meanwhile.

### HandleCapture

| In the model | In `knFcCallbacks.cpp`, `knFcContexts.cpp` |
|--------------|--------------------------------------------|
| `shc` | `KNFC_SHC`: Flags, DispositionObserved, DeleteOnClose, the names |
| `cleanup` | the locals of `knFcPreCleanup` and its completion context |
| `op` | operations between pre and post callback |
| `file`, `handle` | the file system's side (environment), with history of what a handle did |
| `requests`, `copied` | asynchronous requests not yet served; handles whose request found the file |

A post callback that reads and then writes does so in two steps (`QueryName`,
`SwapName`; `Post`, `PostDisposition`), and an instance may be torn down, in
which case pre callbacks stop and post callbacks drain.

### BackupSession

| In the model | In the code |
|--------------|-------------|
| `sender`, `mutex`, `connected` | where each `knFcCommSendMessage` is, who owns `g_ClientLock`, whether `g_ClientPort` is set |
| `port` | messages the filter manager holds for the client (environment) |
| `worker`, `seen` | the locals and the place of `BackupWorker.WorkerLoop`; `_seenMsgOrder` with `_seenMsgIds` |
| `copies`, `manifest` | the files of the session directory; the rows of `manifest.jsonl` |
| `client` | how far `MainViewModel.Shutdown` has come, or that the process has ended |
| `content` | the watched files (environment): which close left what is there |
| `history` | time-outs, fetched messages, messages served again after their id was evicted, whether shutdown overtook the worker |

`BackupQueue` leaves open what a send answers; here the queue is left out
instead and every send is there, waiting for the mutex, which one holds until
its message is answered, times out or loses the port. The worker's steps are
those between which others can act: receive and remember, open, choose a name,
create, copy, record, reply. A close in `Sync` keeps the file from being deleted
until its send has returned, and asks again as an asynchronous message if the
driver counts it as failed.

### DriverTables, DriverLifecycle and UxSession

| In the model | In the code |
|--------------|-------------|
| `driver`, `parts` | how far DriverEntry or FilterUnload is in `knFcFlt.cpp`; the flags `configReady` ... `queueReady` |
| `at` | where the driver's own thread and the handler of a Start or Stop message are in `knFcTrack.cpp` and `knFcComm.cpp` |
| `track`, `registered`, `callback` | `g_Track` (Active, NotifyRegistered, whether the table is empty); whether the system calls the routine, and where that call is |
| `exits`, `exitThread` | `g_ExitDefer` and its thread |
| `port`, `lock`, `connection` | `g_ServerPort` and `g_ClientPort`, `g_ClientLock`; the filter manager's connection (environment) |
| `roots`, `patterns` | `g_Config`, `g_Exclude` |
| `program`, `ui` | the calls that the UI thread has yet to make in the present command; the fields of `MainViewModel` |
| `late`, `inherited`, `starved`, `happened` | history, and the budget for what comes from outside |

`DriverTables` has paths as sequences of characters with a case folding, because
boundaries, suffixes and substrings are what the tables are about. The table of
tracked processes is only empty or not in `DriverLifecycle`, and the queue only
something that sends: `ProcessTrack` and `BackupQueue` have the rest. Its steps
are those between which the driver's thread, the message handler, a process
notification, the exit thread and a sender can act: the places of Start and Stop
between the writes of Active and NotifyRegistered, the removal of the routine
and the wait for it, the door, the event and the join of the exit thread, the two
halves of `knFcCommUninitialize`.

In `UxSession` a command of the operator is the list of messages that its method
sends, ending in RefreshStats. Each message is a step, during which the driver
may be unloaded by others or short of memory. Messages other than Start and Stop
are handled under one lock or read only, and are served in that step. A driver
step that takes a table down empties it.

## The runs

| Run | Instance | Question and answer |
|-----|----------|---------------------|
| queue_pool | 2 callbacks, 2 workers, cap 1 | wakeups, depth, ownership, counters, shutdown, refinement of the ledger; every listed request settles and unload gets past the producers: all hold |
| queue_unload_two_workers | 1 callback, 2 workers | unload returns: **no** (below) |
| track_safety | 3 processes, 3 pids, 10 child passes | one entry per pid, an empty table after Stop, nothing due is lost, the snapshot is complete: all hold |
| track_missed_child | 2 processes, 2 pids | every running child of a tracked process is tracked: **no** |
| events_tree | 2 processes, 2 pids, 1 child pass | with all events delivered the tree agrees with the table: holds |
| events_progress | 2 processes, 1 pid, 1 failure, 1 lost event, 1 client crash | Start and Stop return, every listed exit is pushed |
| events_reused_pid | 2 processes, 1 pid | also a process with a reused pid is shown: **no** |
| capture_handles | 2 handles; the first with 2 overlapping operations of 3, 1 failure and detach, both together with 2 operations one after the other | a modified file is asked for exactly once, a handle's own deletion is seen in time, readers ask for nothing, a handle's own rename gives the final name: all hold |
| capture_cancelled_delete | 1 handle | FILE_DELETE_ON_CLOSE survives a cancel: **no** |
| session_copies | 1 deleting and 1 plain close of one path (3 messages), window of 2 ids, 1 redelivery, 1 exception | what was answered as saved is on disk with its row, rows stay true and single, the port is held open, senders get on: all hold |
| session_timeout | the same without exceptions | a synchronous send that timed out unread is tried again: **no** |
| ux_session | 2 roots, 1 pattern, tables of 4, 5 happenings | nothing of the driver is left or used when it is down, the tables agree with what the client shows, its own files stay excluded, Active is shown, everything settles: all hold |

Why these bounds are enough. In the queue every bad interleaving involves a
producer, a worker and either another producer (the cap, the undo) or another
worker (the shared event) or the unloading thread; two callbacks and two workers
contain all of them, and the safety results are proved for any number.
In the tracker the interesting cases are a parent, its child, and a third
process that takes the pid of one of them; a third generation adds another pass
of the snapshot, which a chain of three covers, and ten passes are more than
three rows can use up. In the tree a parent and a child show every order of
announcement; a reply that is cut off does not happen there, and is covered by
the proofs. A handle's flags are sets that only grow or
are exchanged under one disposition, so two overlapping operations give every
order of completion, and a third gives one after both. In the session a
deleting close has two messages and another close of the path a third, which is
one more than the window of ids holds: a message can be redelivered inside and
outside it, and two captures compete for one name. MaxRedeliveries, MaxThrows, MaxFailures, MaxStarts,
MaxPasses (32 in the code), MaxOps, MaxLost and MaxRestarts bound counters and
appear in guards only. The cap of 16384, the four workers and the 128 rows of a
tree reply are the constants `MaxDepth`, `Workers` and `MaxEntries`, and the window of 4096
message ids is `SeenMsgCap`.

In `capture_handles` the configuration names a constraint, `Scope`: once both
handles have been opened, failures, teardown and overlapping operations are left
to the states in which one handle is open. In `ux_session` everything that comes
from outside (a notification, a send of the queue, a failure, a command, a crash,
an unload by others, an allocation that fails) takes one of `MaxHappenings`; five
are enough for adding a root, starting, a crash and two commands of the next
client, or for adding a root, starting, a notification, a send and an unload. `MaxListed` exits are
listed at a time (the code has no limit). The capacities 16 and 64 of the tables
are `MaxRoots` and `MaxPatterns`; at 4 both fill up within the budget. The lengths
that the driver takes, 520 characters of a root and 128 of a pattern, are
`MaxRootChars` and `MaxPatternChars`; in `ux_session` they are 5 and 3, just what
the longest root and the client's guard need. One root
is a prefix of the other as a string and as a path, one ends in a separator, and
the images differ in case and lie at and beyond the boundary.

Deadlock is not checked: processes may all have died, the driver stays down after unload,
and no program need touch the file again.

What the violation runs show:

* **queue_unload_two_workers** - Uninitialize sets the event once, after Stop. A
  worker that finds the list empty clears it, although another, which read Stop
  earlier, has not yet reached its wait; that one sleeps for ever and the join
  never ends. The code runs four workers.
* **track_missed_child** - a child born after the snapshot's query and before
  its parent's insertion is in neither: the buffer does not list it, and its
  callback finds the parent untracked.
* **events_reused_pid** - the client ignores CREATED for a pid that has a node,
  also the node of a process that has exited, and nodes are never removed.
* **capture_cancelled_delete** - taking back the disposition of a handle opened
  with FILE_DELETE_ON_CLOSE makes its cleanup trust DeletePending, which the
  file system sets for such a handle only later: the capture becomes
  asynchronous and finds the file gone.
* **session_timeout** - `FltSendMessage` reports a time-out as `STATUS_TIMEOUT`,
  which passes `NT_SUCCESS`, and the reply was zeroed beforehand: a send nobody
  answered is counted as `SyncSent` (or `Sent`), the queue is not asked, and the
  file is deleted.

The conditions in the properties that hold mark smaller limits of the code.
`ModifiedIsRequested` speaks of handles with nothing under way at cleanup,
because flags set later are not read again. `OwnDeletionCaptured` leaves out
deletions set through another handle, which cleanup overlooks unless this handle
has changed the disposition too (`src/README.md:174-176` has DeletePending
override the flags whenever it can be queried), and
`OwnNameIsFinal` leaves out renames through another handle, since the name kept
from the handle's own rename is preferred. `OnlyChangesRequested` lets a handle
that only set or took back a disposition ask, and `OwnDeletionCaptured` holds
of such a handle too (see the disagreements below). `SnapshotComplete` and
`OnlyDescendants` need pids that were not given twice: a row of the snapshot
names a pid, and its image is looked up later. `SnapshotComplete` also needs
passes that were enough (`PassesEnough`): each entry, also one that leaves by an
exit and comes back by its row, may keep the next pass busy, and the code ends
after 32. `ExitsShown` and
`ChildUnderParent` leave out nodes announced by the snapshot, whose push may
come after that of the process's exit or of its child. `TrackedShown` and
`ChildUnderParent` leave out a tree that was seeded by a reply that was cut off
at `MaxEntries`: what it leaves out is never asked for again. `Followed` restricts the
tree's properties to one activation without lost events or client crash:
nothing repairs a tree afterwards, since it is seeded once.
`AnsweredIsRecorded` leaves out sends that timed out (above), clients that threw
an exception (the message's id is known from then on, so that a redelivery is
answered with success though nothing was recorded) and a shutdown that did not
wait for the worker to the end (the manifest is closed under it, and it still
answers). It also takes a deleted file to be unchanged by other handles while its
cleanup waits. `AnsweredIsRecorded`, `OneRow` and `RowsTrue` leave out messages delivered again
after their id had been evicted, which are served again: the destination of the
first copy bears the same suffix and is created anew (CREATE_ALWAYS), so that a
second copy that fails leaves the row of the first without its file; eviction is first in, first out, where
`src/README.md:306` speaks of an LRU. No path of the model looks like another
with a suffix `.r<id>`, which two captured files of the code could.

`NothingLeft` and part of `UsesLiveParts` leave out two overlaps for which the
code has no guard, both kept in `late`. A Start served after
`knFcTrackUninitialize` has begun, while the port is still open, registers the
process routine again (or lets Stop and the tear-down skip the wait for it), and
nothing removes it before the driver's image goes; the comment at
`src/src/knFcFlt/knFcFlt.cpp:230-232` has the track teardown stop the callbacks.
And a client let in between the two halves of `knFcCommUninitialize` is
connected to a port that nobody closes for it, so `FltUnregisterFilter` waits until it
goes. `OwnFilesExcluded` is about a BackupRoot with a drive letter, whose pattern is
not longer than the driver takes (`Guarded`), and about a table with a free place:
a guard that is not sent or is refused is not looked at, so that a directory on a
server, a long path, 64 patterns of the operator, or those left by clients that
died, make the driver capture the client's own copies (see below).
It also takes the directory to be named as the file system names it
(`BackupAssumption`): with `/`, `..`, a short name or a link in it, the guard that
is registered matches nothing. Between the
message that clears the excludes and the one that registers the guards again
nothing excludes the client's files either. `RootsAgree` lets roots of a client
that died stay, as the driver keeps them and the client does not ask for them;
when such roots fill the table, a new root may be there under one of its two
names only and is listed all the same. A root listed with a separator at its end
does not cover a path that is the root without it (`Covers`), as the driver's
prefix test has it; no image of a process is named so.

Two disagreements between the code and `src/README.md` show in what holds rather
than in a run of their own:

* A deletion without any other change. `src/README.md:296` says of a
  "Disposition-only delete on an otherwise unmodified handle" that it makes "No
  extra row by design", and lines 676-679 that "the PreCleanup sync-send and the
  PostCleanup async enqueue both skip that handle"; the counts of 15 and 10
  expected of the test program (lines 670-671) rest on it. The code does not skip
  it: `knFcPostSetInformation` sets DELETE_ON_CLOSE, `knFcPreCleanup` goes on for
  a handle with MODIFIED or DELETE_ON_CLOSE (`knFcCallbacks.cpp:735` and 784) and
  sends synchronously for the latter (789-801), as `src/README.md:170-172` says. In
  `capture_handles`, `OwnDeletionCaptured` holds with exactly such handles among
  its cases, and `OnlyChangesRequested` must let them ask; it is violated
  without its last disjunct.
* The self-feedback guards. `src/README.md:268-276` says that "Before any worker
  starts, the WPF bootstrap pushes two excludes into the kernel", so that the
  backup's own files are not captured again. `OwnFilesExcluded` is false without each of three of its
  conditions: a BackupRoot without a drive letter (`MainViewModel.cs:97-101` sends
  no second exclude, 116-119), a pattern of more than 128 characters
  (`knFcExclude.cpp:64-67`, `knFcComm.cpp:446-451`), and a table that other
  patterns have filled (`knFcExclude.cpp:82`). In each of them worker and tracking
  start all the same.

## Fairness

Weak fairness only, and only for threads that nothing can hold for ever: a
callback that has been entered, a worker, the thread that serves a request, the
UI thread, the thread that pushes exits. Each is a Windows thread that is
runnable when its action is enabled, and a send is answered or times out, so no
step waits on user mode for ever. In `BackupSession` it is assumed of the
senders only: `SendsReturn` holds whatever the client does. In `UxSession` it is
assumed of the client's UI thread with the message it is in (and of the closing
of a dead client's handle), the driver's thread, a notification, the exit thread
and a sender under way. `Settles` says that the driver is infinitely often all up
or all out with no command pending, except after one of the overlaps in `late`. Nothing obliges a program to close a file or
exit, an operator to press Start, or the driver to be unloaded.

## What is proved

`BackupQueue_proofs` proves for every finite set of callbacks, every finite
non-empty set of workers and every cap (`QueueAssumption`) that `TypeOK`,
`NoLostWakeup`, `OneOwner`, `DepthAccounting`, `StatsAccount` and
`QuiescentWhenDown` are invariants of `Spec`; `BackupQueue_refinement` proves that `Spec` implements
`CaptureLedger`.

None of these is inductive by itself. `IInv` adds what the place of a thread
says of the shared state:

* `CallInv`: a callback holds one rundown reference per call it is in, two in
  the nested fallback, and has the status success exactly from its insertion.
  Without it the references that Uninitialize waits for say nothing about who
  may still insert.
* `OwnerInv`: a worker holds a request exactly when it dispatches or sends it,
  and whatever is listed or held has been accepted, so an insertion cannot
  duplicate one.
* `DriverInv`: once the rundown has drained no callback holds a reference; a
  worker that runs is in `Threads[]` or is the one being created, which is why
  joining them (or the orphan) is enough; a queue that is down has an empty list.

`NoLostWakeup` is part of it, with the half about blocked workers that makes it
inductive. Each action's effect on each conjunct is a lemma or a step; those of
the callbacks, the workers and the driver's own thread are put together, and PTL
closes the temporal step. `DepthAccounting` counts callbacks in two program
places; it is proved from `IInv` by following how each action moves one callback
between them. `StatsAccount` is proved likewise, from the requests that are accepted and
those still inside; that one is dropped uncounted only after Stop comes from the
driver's place (`StopInv`). The refinement maps a request to the stage the list, the items
and the statuses give it, and the driver's place to the ledger's phase.

`ProcessTrack_proofs` proves `TypeOK`, `OneEntry`, `StoppedIsEmpty`,
`DueAreTracked`, `CallbackEntriesLive`, `OnlyDescendants` and `SnapshotComplete`
for any processes, pids and bounds (`ProcessTrackAssumption`). The inductive invariant `PInv` adds:

* `ControlInv`: what the place of the thread that serves Start and Stop says of
  Active, NotifyRegistered and the table, and that no callback is under way when
  the table is purged; `StoppedIsEmpty` is a part of it.
* `PidInv`: a pid names one listed process, so the entry a callback removes is
  not another's.
* `ParentInv`: a process does not end while its thread is inside the create
  callback for a child. So the parent found tracked at the birth still has its
  entry when the child is classified, which `DueInv`, and with it `DueAreTracked`,
  needs.
* `FreshInv`: while no pid has been given twice, a row of the snapshot, the image
  looked up for it and the entry made from it are about one process. It gives
  `OnlyDescendants`; with a reused pid each of the three may be another's.

`SnapshotComplete` needs a second one, `CompleteInv`: the buffer has the parents
of what it has (`BufferClosed`), the root pass has entered the roots it has dealt
with (`RootsDone`), and a child pass that has changed nothing so far has left out
no child of a tracked parent among the rows it has seen (`ChildrenDone`). The
last pass may have changed something and yet be the last. `PassInv` counts what
the passes have to show for themselves: a row is entered, leaves by its exit and
may be entered again by the pass that had looked before, so that it accounts for
at most three passes that changed something. The first form of the
property lacked `PassesEnough` and is false when `MaxPasses` is small; with the 32
of the code it holds whenever the last pass changed nothing, which is certain
only for ten listed processes or fewer.

`ProcessEvents_proofs` proves `EventsTypeOK`, `ExitsShown`, `TrackedShown` and
`ChildUnderParent` of `EventsSpec`. It takes `PInv` and `CompleteInv` over,
since each of its steps is one of the tracker or leaves it alone, and adds:

* `StartInv`: until the first Start has set Active nothing has been entered,
  announced or shown, which gives every induction its start.
* `LeaveInv`: a process that a callback announced, in the inbox or in the tree, is
  tracked, or its exit is on the way behind it: in the callback, in the list, with
  the thread that pushes, or later in the inbox. `ExitsShown` is what is left of
  it when nothing is on its way, whether or not pids were given twice.
* `TellInv`: while no pid has been given twice and the reply was not cut off, what
  the tree and the inbox say of a process is true (`ToldTrue`) and about a
  process that is there (`HeardHeld`), its exit is told only after it
  (`ExitsOver`); an entry is shown, in the inbox, or about to be announced
  (`TrackedTold`), and the reverse (`EntriesTold`); a parent that a callback
  entered is told before its child (`ParentFirst`).

The attempt to prove them corrected two of them: `TrackedShown` and
`ChildUnderParent` are false if the table has more entries than the reply, since
the client takes the cut-off reply for its seed; and `ExitsShown` did not need
pids that are given once.

`HandleCapture_proofs` proves `TypeOK`, `ModifiedIsRequested`,
`OwnDeletionCaptured`, `OnlyChangesRequested` and `OwnNameIsFinal` for any
handles, operations, names and bounds (`HandleCaptureAssumption`). The inductive
invariant `HInv` says what the place of an operation and of a handle say of
each other (`OpInv`, `PlaceInv`) and

* `ContextInv`: a context has no flag without its handle having done something
  that sets it, so a reader has no reason to ask;
* `SeenInv`: what a handle did is in its context, or an operation that did it has
  its post callback before it; a handle that is cleaned up with nothing under way
  therefore has all of it in the snapshot that cleanup took of the flags
  (`SnapInv`), whence `ModifiedIsRequested`;
* `FileInv` and `DeletionInv`: where a pending deletion comes from, and that a
  handle which alone may have set it finds it by its query, whatever order the
  post callbacks left the flag in;
* `OneRename` and `NameInv`: while the handle's renames do not overlap, a stored
  name is the file's or a rename has yet to store its own.

`OwnDeletionCaptured` turned out to hold also of handles that wrote nothing and
of excluded names, and is stated so.

`BackupSession_proofs` proves `TypeOK`, `PortHeldOpen`, `OneRow`, `RowsTrue` and
`AnsweredIsRecorded` for any closes, any window and any bounds (`BackupSessionAssumption`). `PortHeldOpen`
needs in addition that whoever owns the mutex was given it while there was a port
(`OwnerHasPort`); and that a worker which replies has a message comes from the
worker's half of the invariant (`Serving`). `OneRow` rests on `RowInv`: an id
that fewer than `SeenMsgCap` others have followed stands in the window exactly
where its age puts it (`Window`), every row belongs to a fetched message, and a
message being served has no row before its own is written unless it had been
forgotten (`Unrecorded`).
`RowsTrue` rests on `CopyInv`: a destination with a suffix belongs to the message
of that id, and one that the worker is about to create is free or its own
message's. `AnsweredIsRecorded` follows the message back: a sender that waits for
a message that was read is waiting for the one being served (`Busy`), what is
served for a deleting handle is the content it left (`DataInv`), and a reply of
success has its row before it (`AnswerInv`), unless the manifest was closed
first (`StopInv`). Here the attempt showed that `AnsweredIsRecorded` must leave
out messages that were served again after their id had been evicted: the second
serving creates the first one's copy anew.

`DriverLifecycle_proofs` proves `NothingLeft` and `UsesLiveParts` as invariants
of `UxSpec`, for any bounds (`DriverLifecycleAssumption`) and with the exceptions for
`late` that the properties make: the client's steps
touch the driver only through what `ClientSteps` lists. The inductive invariant
`LInv` says which parts stand on which (`PartsUp`), what the place of the
driver's thread says of them (`DriverPlace`), and how far the tracker is down
there (`TrackDown`). `Registration` is the heart of it: whoever registers the
process routine is a Start that has yet to set NotifyRegistered, or has set it,
and so Stop and the tear-down cannot miss the removal; it holds because a Start or
Stop is served only while the tracker is up and its tear-down has not begun
(`MessagePlace`), unless `late` says otherwise. That a sender who owns the mutex
is at its place of sending (`LockPlace`) gives the rest.

`UxSession_proofs` proves `UxTypeOK`, `ActiveShown`, `OwnFilesExcluded` and
`RootsAgree` of `UxSpec`, for tables of any size and any commands in
any order. What it assumes of paths is in `PathAssumption` (no other character
folds to the separator; neither of the drive's two names begins with the other)
and `BackupAssumption` (if there is a guard, the client writes below the directory
it names, and the guard does not begin with a dot); `UxSessionAssumption` has
`MaxRoots` even, as 16 is, and the names of roots within `MaxRootChars`, as paths up
to MAX_PATH are. `OwnFilesStayExcluded` has the conditions of its property: a guard
that can be registered (`Guarded`), a free place, no failed allocation. It takes `LInv`
over and adds, for the client's thread between any two of its messages:

* `ProgramInv`: what a program of steps may look like. It begins with load and
  connect, or only ends the client, or ends in RefreshStats; while the driver is
  starting, or in a Start or Stop, the program is not at its end. That is all
  that `ActiveShown` needs: tracking changes while a step is to come, and the
  last step looks.
* `GuardInv`: excludes are cleared by the first step of a command, and the
  client's own pattern, if there is one of a length the driver takes, is in the
  table, or still to be added by this command, or was refused by a full one.
* `RootInv`: the table has the names of the listed roots in pairs
  (`Consistent`); or it will be cleared (`Clears`), is empty or being filled
  with the names of the others in their order (`Refilling`); or a new root has
  none, one or both of its names in it (`AddingFirst`, `AddingSecond`,
  `AddingShown`). The parity of the table is what keeps a root from being left
  with one name in a full table, unless an earlier client left roots there.

Every step is one of six kinds (`StepKinds`): outside the client, at its start
or end, its connection, the begin of a command, a message of one, a look at the
driver. `Matching` shows that the driver's test of a path against a registered
name is `Covers` of the path without the drive, and `OtherDrive` that the other
name of the drive never matches. The attempt corrected `Covers`, which had a root
with a separator at its end cover itself without one. The names that a removal
registers again are listed by `AllNames` rather than by the library's FlattenSeq, which
is recursive.

Only model-checked: liveness, which the prover does not do (the settling of
requests, drains and unload, `ExitsPushed`, `RequestsReturn`, `SendsReturn`,
`Settles`).

## What is not modelled

Memory management beyond "an allocation may fail", IRQL rules, message layout
and the copying of bytes across the boundary with its size checks (the lengths that
the two tables take are modelled, those of other messages are not); time (a time-out may come whenever a send waits);
a second client, which the filter manager refuses; the installation of the
service, of the certificate and of the staged driver, with the self-upgrade;
what the view model only shows (history, sessions, figures, free disk space);
markup, scripts and the test program.

Smaller things that are left out of what is modelled:

* `DosToNt` always finds the device of a root's drive. If it does not,
  `InvokeAddWatchRoot` adds nothing, but `InvokeRemoveRoot` (MainViewModel.cs:329-333)
  leaves the root listed without either name in the driver's table and shows a
  warning.
* Watch roots whose names are longer than 520 characters: they lie beyond MAX_PATH.
* `DriverLifecycle` has one call of the process routine at a time; several at once
  are in `ProcessTrack`.
* A write in `DoBackup` that is short without an error (BackupWorker.cs:424-427):
  the function then returns the last error, which may be 0, and the capture counts
  as saved.
* In `HandleCapture` the file exists: that a FILE_OPEN_IF which creates it is not
  taken for a change (knFcCallbacks.cpp:55-66) does not appear.

PROJECT.json gives the reason for each part that is left out.

## Plan

In order of importance to the program:

1. `BackupQueue`, `CaptureLedger` and their proofs. *Done.*
2. `ProcessTrack`, and `ProcessEvents` on top of it. *Done*, with proofs of all
   invariants.
3. `HandleCapture`. *Done*, with proofs of all invariants; an abstract "a
   modified handle asks once" that it implements is next.
4. `BackupSession`. *Done*, with proofs of all invariants.
5. `DriverTables`, `DriverLifecycle` and `UxSession` on top of them. *Done*,
   with proofs of all invariants.

Abstract specifications worth stating: the ledger of requests (done), "each
modified handle is captured once" (3), "a message is recorded at most once, and
sent implies recorded" (4, proved as invariants). Theorems worth proving: the
invariants of (1) to (5) (done), and that `HandleCapture` implements the
specification named in (3).
