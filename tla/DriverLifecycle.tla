---------------------------- MODULE DriverLifecycle ----------------------------
(***************************************************************************)
(* How the driver comes up and goes down: DriverEntry with its roll-back    *)
(* and FilterUnload of src/src/knFcFlt/knFcFlt.cpp, with what they start    *)
(* and stop in knFcTrack.cpp (Start, Stop, the thread that pushes exits)    *)
(* and knFcComm.cpp (the server port, the client's connection), against     *)
(* the process notifications, the control messages and the sends that go    *)
(* on meanwhile.                                                            *)
(*                                                                         *)
(* The table of tracked processes is here only empty or not, the backup     *)
(* queue only a sender: ProcessTrack and BackupQueue say more of them.  A   *)
(* step of this module leaves out the client, which UxSession adds.         *)
(***************************************************************************)
EXTENDS Naturals, Sequences

CONSTANTS
    MaxListed,      \* bound on exits listed at a time
    MaxHappenings   \* bound on what comes from outside: process notifications,
                    \* sends of the queue, failures (and more in UxSession)

ASSUME DriverLifecycleAssumption == MaxListed \in Nat \ {0} /\ MaxHappenings \in Nat

VARIABLES
    driver,         \* out, starting, started, backing out, unloading
    parts,          \* parts that are up
    at,             \* inside a part: where the driver's own thread is, and the
                    \* handler of a Start or Stop message
    track,          \* g_Track: Active, NotifyRegistered, and the table not empty
    registered,     \* the system calls knFcProcessNotify
    callback,       \* where the process notification under way is
    exits,          \* g_ExitDefer: Running, Stop, Event, length of List
    exitThread,     \* where knFcExitDeferWorker is
    port,           \* g_ServerPort and g_ClientPort are set
    lock,           \* who owns g_ClientLock
    connection,     \* the filter manager's: none, open, cut (by the driver)
    late,           \* messages that overlapped unload where the code has no guard
    happened        \* what has come from outside so far

trackVars == <<track, registered>>
threadVars == <<callback, exits, exitThread>>
portVars == <<port, lock, connection>>
driverVars == <<driver, parts, at, late>>
systemVars == <<driverVars, trackVars, threadVars, portVars>>
lifeVars == <<systemVars, happened>>

Parts == {"config", "exclude", "track", "filter", "comm", "queue"}

\* The order of DriverEntry; at last it starts the filtering.
EntryOrder == <<"config", "exclude", "track", "filter", "comm", "queue">>

LeaveOrder_Bug == <<"comm", "queue", "track", "filter", "exclude", "config">>

\* The order of FilterUnload and of DriverEntry's roll-back.
LeaveOrder == <<"queue", "track", "comm", "filter", "exclude", "config">>

\* Of the parts in S, this one comes first.
IsFirst(part, order, S) ==
    /\ part \in S
    /\ \E j \in 1 .. Len(order) : order[j] = part /\ \A i \in 1 .. j - 1 : order[i] \notin S

\* These initialisations always succeed.
Infallible == {"config", "exclude"}

NoTrack == [active |-> FALSE, notify |-> FALSE, entries |-> FALSE]
NoExits == [running |-> FALSE, stop |-> FALSE, event |-> FALSE, listed |-> 0]
NoPort == [server |-> FALSE, client |-> FALSE]

LifeInit ==
    /\ driver = "out"
    /\ parts = {}
    /\ at = [driver |-> "none", message |-> "none"]
    /\ track = NoTrack
    /\ registered = FALSE
    /\ callback = "none"
    /\ exits = NoExits
    /\ exitThread = "none"
    /\ port = NoPort
    /\ lock = "free"
    /\ connection = "none"
    /\ late = {}
    /\ happened = 0

Acquire(who) == lock = "free" /\ lock' = who
Release(who) == lock = who /\ lock' = "free"

Happens == happened < MaxHappenings /\ happened' = happened + 1

\* The thread t moves on from place a to place b.
Go(t, a, b) == at[t] = a /\ at' = [at EXCEPT ![t] = b]

-----------------------------------------------------------------------------
(* DriverEntry. *)

Load ==
    /\ driver = "out"
    /\ driver' = "starting"
    /\ UNCHANGED <<parts, at, late, trackVars, threadVars, portVars, happened>>

BringingUp(part) == driver = "starting" /\ IsFirst(part, EntryOrder, Parts \ parts)

Up(part) ==
    /\ parts' = parts \union {part}
    /\ UNCHANGED <<driver, late, happened>>

\* An initialisation has failed: what is up goes down again.
BackOut ==
    /\ driver' = "backing out"
    /\ UNCHANGED <<parts, late>>

BringUp ==
    /\ \E part \in Parts \ {"track"} :
          /\ BringingUp(part)
          /\ \/ /\ Up(part)
                /\ port' = IF part = "comm" THEN [NoPort EXCEPT !.server = TRUE] ELSE port
             \/ part \notin Infallible /\ Happens /\ BackOut /\ UNCHANGED port
    /\ UNCHANGED <<at, trackVars, threadVars, lock, connection>>

StartFiltering ==
    /\ driver = "starting"
    /\ parts = Parts
    /\ \/ driver' = "started" /\ UNCHANGED <<parts, late, happened>>
       \/ Happens /\ BackOut
    /\ UNCHANGED <<at, trackVars, threadVars, portVars>>

\* knFcTrackInitialize and knFcExitDeferStart, as far as PsCreateSystemThread.
BringUpTrack ==
    /\ BringingUp("track")
    /\ track' = NoTrack
    /\ \/ /\ Go("driver", "none", "reference")
          /\ exits' = [NoExits EXCEPT !.running = TRUE]
          /\ exitThread' = "test"
          /\ UNCHANGED <<driver, parts, late, happened>>
       \/ /\ at.driver = "none"
          /\ Happens
          /\ BackOut
          /\ exits' = NoExits
          /\ UNCHANGED <<at, exitThread>>
    /\ UNCHANGED <<registered, callback, portVars>>

\* ObReferenceObjectByHandle; when it fails the thread is told to stop.
ReferenceExitThread ==
    /\ \/ /\ Go("driver", "reference", "none")
          /\ Up("track")
          /\ UNCHANGED exits
       \/ /\ Go("driver", "reference", "orphan")
          /\ Happens
          /\ exits' = [exits EXCEPT !.stop = TRUE, !.running = FALSE, !.event = TRUE]
          /\ UNCHANGED <<driver, parts, late>>
    /\ UNCHANGED <<trackVars, callback, exitThread, portVars>>

\* ZwWaitForSingleObject on its handle, before the failure is returned.
JoinOrphan ==
    /\ Go("driver", "orphan", "none")
    /\ exitThread = "ended"
    /\ BackOut
    /\ UNCHANGED <<trackVars, threadVars, portVars, happened>>

-----------------------------------------------------------------------------
(* FilterUnload, and the same parts of the roll-back. *)

LeaveStarted ==
    /\ driver = "started"
    /\ driver' = "unloading"
    /\ UNCHANGED <<parts, at, late, trackVars, threadVars, portVars>>

TakingDown(part) ==
    driver \in {"backing out", "unloading"} /\ IsFirst(part, LeaveOrder, parts)

Down(part) ==
    /\ parts' = parts \ {part}
    /\ driver' = IF parts' = {} THEN "out" ELSE driver

\* knFcQueueUninitialize waits for the queue's sends; FltUnregisterFilter waits
\* for the message handlers and for the connection; the tables just go.
TakeDown ==
    /\ \/ TakingDown("queue") /\ lock # "queue" /\ Down("queue")
       \/ TakingDown("filter") /\ at.message = "none" /\ connection # "open" /\ Down("filter")
       \/ \E part \in Infallible : TakingDown(part) /\ Down(part)
    /\ UNCHANGED <<at, late, trackVars, threadVars, portVars, happened>>

\* knFcTrackUninitialize begins.  A Start or Stop that a client is being served
\* now, or later, is not kept apart from it.
TrackUninitialize ==
    /\ TakingDown("track")
    /\ Go("driver", "none", "deactivate")
    /\ late' = IF at.message # "none" THEN late \union {"message"} ELSE late
    /\ UNCHANGED <<driver, parts, trackVars, threadVars, portVars, happened>>

\* The client's port is closed under the mutex, then the server port.
CommUninitialize ==
    /\ \/ /\ TakingDown("comm")
          /\ lock = "free"
          /\ Go("driver", "none", "server")
          /\ port' = [port EXCEPT !.client = FALSE]
          /\ connection' = IF port.client THEN "cut" ELSE connection
          /\ UNCHANGED <<driver, parts>>
       \/ /\ Go("driver", "server", "none")
          /\ Down("comm")
          /\ port' = [port EXCEPT !.server = FALSE]
          /\ UNCHANGED connection
    /\ UNCHANGED <<late, lock, trackVars, threadVars, happened>>

MustUnregister_Bug == track.active       \* which has just been cleared

MustUnregister == track.notify

\* knFcTrackStop, run by the driver's thread or by a message handler.
\* PsSetCreateProcessNotifyRoutineEx removes the routine, then waits until it is
\* not running.
TrackStop(t) ==
    /\ \/ /\ Go(t, "deactivate", "unregister")
          /\ track' = [track EXCEPT !.active = FALSE]
          /\ UNCHANGED registered
       \/ /\ MustUnregister
          /\ Go(t, "unregister", "wait")
          /\ registered' = FALSE
          /\ UNCHANGED track
       \/ /\ callback = "none"
          /\ Go(t, "wait", "purge")
          /\ track' = [track EXCEPT !.notify = FALSE]
          /\ UNCHANGED registered
       \/ /\ ~MustUnregister
          /\ Go(t, "unregister", "purge")
          /\ UNCHANGED trackVars
       \/ /\ Go(t, "purge", IF t = "driver" THEN "door" ELSE "none")
          /\ track' = [track EXCEPT !.entries = FALSE]
          /\ UNCHANGED registered
    /\ UNCHANGED <<driver, parts, late, threadVars, portVars, happened>>

Signalled_Bug == exits          \* the event is not set

Signalled == [exits EXCEPT !.event = TRUE]

\* knFcExitDeferStop closes the producers' door, wakes the thread, joins it and
\* drains the list; the tracker is down.
ExitDeferStop ==
    /\ \/ /\ Go("driver", "door", "wake")
          /\ exits' = [exits EXCEPT !.stop = TRUE, !.running = FALSE]
          /\ UNCHANGED <<driver, parts>>
       \/ /\ Go("driver", "wake", "join")
          /\ exits' = Signalled
          /\ UNCHANGED <<driver, parts>>
       \/ /\ exitThread = "ended"
          /\ Go("driver", "join", "none")
          /\ exits' = [exits EXCEPT !.listed = 0]
          /\ Down("track")
    /\ UNCHANGED <<late, trackVars, callback, exitThread, portVars, happened>>

-----------------------------------------------------------------------------
(* knFcTrackStart, run by a message handler. *)

\* Registration may be refused; the snapshot enters some processes, and pushes
\* them, or none.
TrackStart ==
    /\ \/ /\ Go("message", "start", "none")
          /\ track.active \/ ~track.notify
          /\ UNCHANGED trackVars
       \/ /\ Go("message", "start", "registered")
          /\ ~track.active /\ ~track.notify
          /\ registered' = TRUE
          /\ UNCHANGED track
       \/ /\ Go("message", "registered", "activate")
          /\ track' = [track EXCEPT !.notify = TRUE]
          /\ UNCHANGED registered
       \/ /\ Go("message", "start", "activate")
          /\ ~track.active /\ track.notify
          /\ UNCHANGED trackVars
       \/ /\ Go("message", "activate", "snapshot")
          /\ track' = [track EXCEPT !.active = TRUE]
          /\ UNCHANGED registered
       \/ Go("message", "snapshot", "none") /\ UNCHANGED trackVars
       \/ /\ Go("message", "snapshot", "push")
          /\ track' = [track EXCEPT !.entries = TRUE]
          /\ UNCHANGED registered
    /\ UNCHANGED <<driver, parts, late, threadVars, portVars, happened>>

SnapshotPush ==
    /\ at.message = "push"
    /\ \/ Acquire("message") /\ UNCHANGED at
       \/ Release("message") /\ Go("message", "push", "none")
    /\ UNCHANGED <<driver, parts, late, trackVars, threadVars, port, connection, happened>>

-----------------------------------------------------------------------------
(* knFcProcessNotify, one call at a time. *)

Notified ==
    /\ registered
    /\ callback = "none"
    /\ Happens
    /\ callback' \in {"create", "exit"}
    /\ UNCHANGED <<driverVars, trackVars, exits, exitThread, portVars>>

\* After the test of Active, knFcClassifyAndInsert enters the process and pushes
\* CREATED, or does not; knFcMarkExited takes it from the table, if it is there.
ProcessNotify ==
    /\ \/ /\ callback \in {"create", "exit"}
          /\ callback' = IF ~track.active THEN "none"
                         ELSE IF callback = "create" THEN "insert" ELSE "remove"
          /\ UNCHANGED track
       \/ callback \in {"insert", "remove"} /\ callback' = "none" /\ UNCHANGED track
       \/ callback = "insert" /\ callback' = "push" /\ track' = [track EXCEPT !.entries = TRUE]
       \/ /\ callback = "remove" /\ track.entries
          /\ callback' = "defer"
          /\ \E more \in BOOLEAN : track' = [track EXCEPT !.entries = more]
    /\ UNCHANGED <<driverVars, registered, exits, exitThread, portVars, happened>>

CreatedPush ==
    /\ callback = "push"
    /\ \/ Acquire("callback") /\ UNCHANGED callback
       \/ Release("callback") /\ callback' = "none"
    /\ UNCHANGED <<driverVars, trackVars, exits, exitThread, port, connection, happened>>

\* knFcExitDeferEnqueue: with the door closed, or without memory, the exit is
\* forgotten.  At most MaxListed are listed here.
ExitDeferEnqueue ==
    /\ \/ callback = "defer" /\ callback' = "none" /\ UNCHANGED exits
       \/ /\ callback = "defer"
          /\ exits.running /\ ~exits.stop /\ exits.listed < MaxListed
          /\ callback' = "signal"
          /\ exits' = [exits EXCEPT !.listed = @ + 1]
       \/ callback = "signal" /\ callback' = "none" /\ exits' = Signalled
    /\ UNCHANGED <<driverVars, trackVars, exitThread, portVars, happened>>

\* The event is cleared under the lock when the list is empty; nothing more is
\* pushed once Stop is seen.
ExitDeferWorker ==
    /\ \/ /\ exitThread = "test"
          /\ exitThread' = IF exits.stop THEN "ended" ELSE "wait"
          /\ UNCHANGED exits
       \/ exitThread = "wait" /\ exits.event /\ exitThread' = "take" /\ UNCHANGED exits
       \/ /\ exitThread = "take" /\ exits.listed = 0
          /\ exitThread' = "test"
          /\ exits' = [exits EXCEPT !.event = FALSE]
       \/ /\ exitThread = "take" /\ exits.listed > 0
          /\ exitThread' = "held"
          /\ exits' = [exits EXCEPT !.listed = @ - 1]
       \/ /\ exitThread = "held"
          /\ exitThread' = IF exits.stop THEN "take" ELSE "push"
          /\ UNCHANGED exits
    /\ UNCHANGED <<driverVars, trackVars, callback, portVars, happened>>

ExitedPush ==
    /\ exitThread = "push"
    /\ \/ Acquire("exit") /\ UNCHANGED exitThread
       \/ Release("exit") /\ exitThread' = "take"
    /\ UNCHANGED <<driverVars, trackVars, callback, exits, port, connection, happened>>

-----------------------------------------------------------------------------
(* The queue's sends, and what the client does to the driver. *)

QueueSend ==
    /\ "queue" \in parts
    /\ Happens
    /\ Acquire("queue")
    /\ UNCHANGED <<driverVars, trackVars, threadVars, port, connection>>

\* A send is answered, refused or timed out.
QueueSent ==
    /\ Release("queue")
    /\ UNCHANGED <<driverVars, trackVars, threadVars, port, connection, happened>>

\* knFcCommConnect.  A client let in after knFcCommUninitialize has looked for
\* one stays connected to a port that is going.
Connect ==
    /\ port.server
    /\ connection = "none"
    /\ lock = "free"
    /\ connection' = "open"
    /\ port' = [port EXCEPT !.client = TRUE]
    /\ late' = IF at.driver = "server" THEN late \union {"connect"} ELSE late
    /\ UNCHANGED <<driver, parts, at, lock, trackVars, threadVars, happened>>

\* The client's handle closes: knFcCommDisconnect, unless the driver has cut the
\* connection before.
Disconnect ==
    /\ connection # "none"
    /\ connection = "open" => lock = "free"
    /\ connection' = "none"
    /\ port' = [port EXCEPT !.client = FALSE]
    /\ UNCHANGED <<driverVars, trackVars, threadVars, lock, happened>>

\* knFcCommMessage is given a Start or a Stop.
Dispatch(place) ==
    /\ connection = "open"
    /\ Go("message", "none", place)
    /\ late' = IF at.driver # "none" \/ "track" \notin parts
               THEN late \union {"message"} ELSE late
    /\ UNCHANGED <<driver, parts, trackVars, threadVars, portVars, happened>>

-----------------------------------------------------------------------------

DriverStep ==
    \/ BringUp \/ BringUpTrack \/ StartFiltering \/ ReferenceExitThread \/ JoinOrphan
    \/ TakeDown \/ TrackUninitialize \/ CommUninitialize
    \/ TrackStop("driver") \/ ExitDeferStop

MessageStep == TrackStart \/ SnapshotPush \/ TrackStop("message")

CallbackStep == ProcessNotify \/ CreatedPush \/ ExitDeferEnqueue

ExitStep == ExitDeferWorker \/ ExitedPush

LifeNext ==
    \/ DriverStep \/ MessageStep \/ CallbackStep \/ ExitStep
    \/ Notified \/ QueueSend \/ QueueSent

-----------------------------------------------------------------------------

LifeTypeOK ==
    /\ driver \in {"out", "starting", "started", "backing out", "unloading"}
    /\ parts \subseteq Parts
    /\ at \in [driver : {"none", "reference", "orphan", "server", "deactivate",
                         "unregister", "wait", "purge", "door", "wake", "join"},
               message : {"none", "start", "registered", "activate", "snapshot", "push",
                          "deactivate", "unregister", "wait", "purge"}]
    /\ track \in [active : BOOLEAN, notify : BOOLEAN, entries : BOOLEAN]
    /\ registered \in BOOLEAN
    /\ callback \in {"none", "create", "exit", "insert", "remove", "push", "defer", "signal"}
    /\ exits \in [running : BOOLEAN, stop : BOOLEAN, event : BOOLEAN, listed : 0 .. MaxListed]
    /\ exitThread \in {"none", "test", "wait", "take", "held", "push", "ended"}
    /\ port \in [server : BOOLEAN, client : BOOLEAN]
    /\ lock \in {"free", "exit", "queue", "callback", "message"}
    /\ connection \in {"none", "open", "cut"}
    /\ late \subseteq {"message", "connect"}
    /\ happened \in 0 .. MaxHappenings

\* Whatever DriverEntry reached before it failed, and whatever was under way when
\* FilterUnload began, nothing of the driver is left when it is out: no part, no
\* thread, no registered routine, no process or exit in a list, no port.  A Start
\* or Stop served while the tracker goes down, and a client let in between the
\* two halves of knFcCommUninitialize, are left out.
NothingLeft ==
    driver = "out" /\ late = {} =>
        /\ parts = {}
        /\ ~registered /\ ~track.active /\ ~track.notify /\ ~track.entries
        /\ callback = "none"
        /\ exitThread \in {"none", "ended"} /\ exits.listed = 0
        /\ port = NoPort /\ lock = "free" /\ connection # "open"

\* Nobody uses a part of the driver that has been taken down: the thread that
\* pushes exits and the process notifications need the tracker, a send needs the
\* filter and the port, a control message the tables and the filter.
UsesLiveParts ==
    /\ exitThread \notin {"none", "ended"} =>
          "track" \in parts \/ at.driver \in {"reference", "orphan"}
    /\ late = {} =>
          /\ registered \/ callback # "none" => "track" \in parts
          /\ lock # "free" /\ port.client => {"filter", "comm"} \subseteq parts
          /\ connection = "open" => {"config", "exclude", "filter"} \subseteq parts
    /\ lock = "queue" => {"queue", "comm", "filter"} \subseteq parts
=============================================================================
