---------------------------- MODULE ProcessEvents ----------------------------
(***************************************************************************)
(* How the client's process tree follows the driver's table: the CREATED   *)
(* and EXITED events of src/src/knFcFlt/knFcTrack.cpp, the thread that      *)
(* pushes the exits, and the tree that src/src/knFcUxWpf/MainViewModel.cs   *)
(* keeps from them.  The tracker is ProcessTrack, whose steps are conjoined *)
(* here with what they send.                                               *)
(*                                                                         *)
(* CREATED is pushed by the thread that inserted the entry, after the table *)
(* lock is released.  EXITED is put in a list by the exit callback and      *)
(* pushed by a thread of its own.  The port lets one push through at a time *)
(* and the session worker, one thread, hands each to the UI thread before   *)
(* it answers and reads another, so the UI's queue has them in the order of *)
(* the pushes.  The driver waits no longer than 500 ms: an event that the   *)
(* worker has not read by then is lost.  Start and Stop are     *)
(* sent by the UI thread, which therefore applies nothing while the driver  *)
(* serves them.                                                            *)
(***************************************************************************)
EXTENDS ProcessTrack, Sequences

CONSTANTS
    NoEvent,
    MaxEntries,     \* rows of a reply to GetProcessTree (128 in the code)
    MaxLost,        \* bound on events lost on the way
    MaxRestarts     \* bound on crashes of the client

Event == [type : {"created", "exited"}, pid : Pids, ppid : Pids \union {NoPid},
          isRoot : BOOLEAN, snap : BOOLEAN]

ASSUME ProcessEventsAssumption ==
    /\ NoEvent \notin Event
    /\ MaxEntries \in Nat \ {0}
    /\ MaxLost \in Nat
    /\ MaxRestarts \in Nat

VARIABLES
    deferred,       \* g_ExitDefer.List
    exitEvent,      \* g_ExitDefer.Event is set
    signalling,     \* processes whose exit is listed and the event not yet set
    exitWorker,     \* where knFcExitDeferWorker is: wait, pop, push
    pushing,        \* the event it has taken from the list
    inbox,          \* events dispatched to the UI thread
    tree,           \* per pid: _nodesByPid
    reader,         \* the client has a session worker
    seeded,         \* _treeSeeded, with TreeTruncated: no, whole, cut
    lost,           \* events lost so far
    restarts        \* crashes so far

exitVars == <<deferred, exitEvent, signalling, exitWorker, pushing>>
clientVars == <<inbox, tree, reader, seeded, restarts>>
eventVars == <<exitVars, clientVars, lost>>
allVars == <<vars, eventVars>>

Created(k, parent, isRoot, fromSnap) ==
    [type |-> "created", pid |-> k, ppid |-> parent, isRoot |-> isRoot, snap |-> fromSnap]

Exited(k) == [type |-> "exited", pid |-> k, ppid |-> NoPid, isRoot |-> FALSE, snap |-> FALSE]

NoNode == [state |-> "none", under |-> NoPid, isRoot |-> FALSE, snap |-> FALSE]

EventsInit ==
    /\ Init
    /\ deferred = << >>
    /\ exitEvent = FALSE
    /\ signalling = {}
    /\ exitWorker = "wait"
    /\ pushing = NoEvent
    /\ inbox = << >>
    /\ tree = [k \in Pids |-> NoNode]
    /\ reader = FALSE
    /\ seeded = "no"
    /\ lost = 0
    /\ restarts = 0

Lose == lost < MaxLost /\ lost' = lost + 1

\* knFcCommPushProcessEvent, WorkerLoop and OnProcessEventArrived.  Without a
\* session worker nobody reads the message.
Push(event) ==
    \/ reader /\ inbox' = Append(inbox, event) /\ UNCHANGED lost
    \/ reader /\ Lose /\ UNCHANGED inbox
    \/ ~reader /\ UNCHANGED <<inbox, lost>>

-----------------------------------------------------------------------------
(* Steps of the tracker that say something. *)

\* InvokeStart makes sure of a session worker first.
ClientStart == Start /\ reader' = TRUE
               /\ UNCHANGED <<exitVars, inbox, tree, seeded, lost, restarts>>

PushedByCallback(p) ==
    /\ PushCreated(p)
    /\ Push(Created(proc[p].pid, proc[p].ppid, proc[p].image, FALSE))
    /\ UNCHANGED <<exitVars, tree, reader, seeded, restarts>>

PushedBySnapshot ==
    /\ SnapPush
    /\ Push(Created(snap.row.pid, snap.row.ppid, snap.isRoot, TRUE))
    /\ UNCHANGED <<exitVars, tree, reader, seeded, restarts>>

\* knFcExitDeferEnqueue puts the exit in the list under the spin lock; without
\* memory the event is lost.
ListExited(p) ==
    /\ proc[p].life = "defer"
    /\ p \notin signalling
    /\ \/ /\ deferred' = Append(deferred, Exited(proc[p].pid))
          /\ signalling' = signalling \union {p}
          /\ UNCHANGED <<vars, lost>>
       \/ /\ DeferExited(p)
          /\ Lose
          /\ UNCHANGED <<deferred, signalling>>
    /\ UNCHANGED <<exitEvent, exitWorker, pushing, clientVars>>

\* KeSetEvent, after the lock is released; the exit callback returns.
SignalExited(p) ==
    /\ p \in signalling
    /\ DeferExited(p)
    /\ exitEvent' = TRUE
    /\ signalling' = signalling \ {p}
    /\ UNCHANGED <<deferred, exitWorker, pushing, clientVars, lost>>

-----------------------------------------------------------------------------
(* knFcExitDeferWorker. *)

ExitWait ==
    /\ exitWorker = "wait"
    /\ exitEvent
    /\ exitWorker' = "pop"
    /\ UNCHANGED <<vars, deferred, exitEvent, signalling, pushing, clientVars, lost>>

\* Under the spin lock: the head of the list, or the event is cleared.
ExitPop ==
    /\ exitWorker = "pop"
    /\ IF deferred = << >>
       THEN /\ exitEvent' = FALSE
            /\ exitWorker' = "wait"
            /\ UNCHANGED <<deferred, pushing>>
       ELSE /\ exitWorker' = "push"
            /\ pushing' = Head(deferred)
            /\ deferred' = Tail(deferred)
            /\ UNCHANGED exitEvent
    /\ UNCHANGED <<vars, signalling, clientVars, lost>>

ExitPush_Bug ==                 \* the entry is not freed
    /\ exitWorker = "push"
    /\ Push(pushing)
    /\ exitWorker' = "pop"
    /\ UNCHANGED <<vars, deferred, exitEvent, signalling, pushing, tree, reader, seeded, restarts>>

ExitPush_BugOnce ==             \* one exit for each time it wakes
    /\ exitWorker = "push"
    /\ Push(pushing)
    /\ pushing' = NoEvent
    /\ exitWorker' = "wait"
    /\ exitEvent' = FALSE
    /\ UNCHANGED <<vars, deferred, signalling, tree, reader, seeded, restarts>>

ExitPush ==
    /\ exitWorker = "push"
    /\ Push(pushing)
    /\ pushing' = NoEvent
    /\ exitWorker' = "pop"
    /\ UNCHANGED <<vars, deferred, exitEvent, signalling, tree, reader, seeded, restarts>>

-----------------------------------------------------------------------------
(* The client. *)

Shown(k) == k \in Pids /\ tree[k].state # "none"

\* The node a CREATED event makes; roots stay at the top.
NodeOf(e) ==
    [state |-> "live", isRoot |-> e.isRoot, snap |-> e.snap,
     under |-> IF ~e.isRoot /\ Shown(e.ppid) THEN e.ppid ELSE NoPid]

AppliedExit_Bug(e) == [tree EXCEPT ![e.pid].state = IF @ = "live" /\ tree[e.pid].isRoot
                                                    THEN "exited" ELSE @]

\* The node stays in the tree.
AppliedExit(e) == IF Shown(e.pid) THEN [tree EXCEPT ![e.pid].state = "exited"] ELSE tree

AppliedCreate_Bug(e) ==         \* a child without its parent's node is dropped
    IF ~Shown(e.pid) /\ (e.isRoot \/ Shown(e.ppid))
    THEN [tree EXCEPT ![e.pid] = NodeOf(e)] ELSE tree

\* A pid that has a node already, also that of an exited process, gets no other.
AppliedCreate(e) == IF Shown(e.pid) THEN tree ELSE [tree EXCEPT ![e.pid] = NodeOf(e)]

\* ApplyProcessEvent.
Apply ==
    /\ control = "idle"
    /\ inbox # << >>
    /\ LET e == Head(inbox)
       IN  tree' = IF e.type = "created" THEN AppliedCreate(e) ELSE AppliedExit(e)
    /\ inbox' = Tail(inbox)
    /\ UNCHANGED <<vars, exitVars, reader, seeded, lost, restarts>>

Built_Bug(dump) ==              \* every node at the top
    [k \in Pids |->
        IF \E e \in dump : e.pid = k
        THEN LET e == CHOOSE e \in dump : e.pid = k
             IN  [state |-> "live", isRoot |-> e.root = k, snap |-> e.snap, under |-> NoPid]
        ELSE NoNode]

\* knFcTrackDump and BuildTree: at most MaxEntries entries, each under its
\* parent's node if the reply has it, roots too.
Built(dump) ==
    [k \in Pids |->
        IF \E e \in dump : e.pid = k
        THEN LET e == CHOOSE e \in dump : e.pid = k
             IN  [state |-> "live", isRoot |-> e.root = k, snap |-> e.snap,
                  under |-> IF \E f \in dump : f.pid = e.ppid THEN e.ppid ELSE NoPid]
        ELSE NoNode]

\* RefreshStats, until it has once succeeded.
Seed ==
    /\ control = "idle"
    /\ seeded = "no"
    /\ \E dump \in SUBSET table :
          /\ dump = table \/ Cardinality(dump) = MaxEntries
          /\ Cardinality(dump) <= MaxEntries
          /\ tree' = Built(dump)
          /\ seeded' = IF dump = table THEN "whole" ELSE "cut"
    /\ UNCHANGED <<vars, exitVars, inbox, reader, lost, restarts>>

\* The client dies and another is started, without a session worker.
Restart ==
    /\ control = "idle"
    /\ restarts < MaxRestarts
    /\ restarts' = restarts + 1
    /\ inbox' = << >>
    /\ tree' = [k \in Pids |-> NoNode]
    /\ reader' = FALSE
    /\ seeded' = "no"
    /\ UNCHANGED <<vars, exitVars, lost>>

-----------------------------------------------------------------------------
ExitStep == ExitWait \/ ExitPop \/ ExitPush

CallbackEvents(p) ==
    \/ /\ NotifyCreate(p) \/ Classify(p) \/ NotifyExit(p) \/ MarkExited(p)
       /\ UNCHANGED eventVars
    \/ PushedByCallback(p)
    \/ ListExited(p)
    \/ SignalExited(p)

ServeEvents ==
    \/ Serve /\ control # "push" /\ UNCHANGED eventVars
    \/ PushedBySnapshot

EventsNext ==
    \/ \E p \in Processes :
          \/ LifeStep(p) /\ UNCHANGED eventVars
          \/ CallbackEvents(p)
    \/ ServeEvents
    \/ ClientStart
    \/ Stop /\ UNCHANGED eventVars
    \/ ExitStep
    \/ Apply
    \/ Seed
    \/ Restart

EventsSpec == EventsInit /\ [][EventsNext]_allVars

\* Threads that run: the callbacks, the one that serves a request, the one that
\* pushes exits, and the client's UI thread.
FairEventsSpec ==
    /\ EventsSpec
    /\ \A p \in Processes : WF_allVars(CallbackEvents(p))
    /\ WF_allVars(ServeEvents)
    /\ WF_allVars(ExitStep)
    /\ WF_allVars(Apply)

-----------------------------------------------------------------------------
(* Properties. *)

\* Types; the thread that pushes exits holds an event exactly while it pushes.
EventsTypeOK ==
    /\ TypeOK
    /\ deferred \in Seq(Event)
    /\ exitEvent \in BOOLEAN
    /\ signalling \subseteq {p \in Processes : proc[p].life = "defer"}
    /\ exitWorker \in {"wait", "pop", "push"}
    /\ pushing \in Event \union {NoEvent}
    /\ pushing # NoEvent <=> exitWorker = "push"
    /\ inbox \in Seq(Event)
    /\ tree \in [Pids -> [state : {"none", "live", "exited"}, under : Pids \union {NoPid},
                          isRoot : BOOLEAN, snap : BOOLEAN]]
    /\ reader \in BOOLEAN
    /\ seeded \in {"no", "whole", "cut"}
    /\ lost \in 0 .. MaxLost
    /\ restarts \in 0 .. MaxRestarts

\* No event is on its way.
Settled ==
    /\ control = "idle"
    /\ \A p \in Processes : proc[p].life \notin InCallback
    /\ deferred = << >> /\ exitWorker # "push"
    /\ inbox = << >>

\* The first activation, with the client that asked for it, and every event
\* has arrived.
Followed == active /\ starts = 1 /\ restarts = 0 /\ lost = 0

ShownRunning(p) == tree[proc[p].pid].state = "live"

\* Every running tracked process is shown as running, once the events have
\* arrived: whichever of the snapshot, the create callback and the reply to
\* GetProcessTree told the client first, if no pid was given twice and the reply
\* was not cut off.
TrackedShown ==
    Followed /\ Settled /\ PidsFresh /\ seeded # "cut" => \A p \in Processes :
        proc[p].life = "running" /\ Tracked(proc[p].pid) => ShownRunning(p)

\* The same also when a pid has been given to another process.
EveryTrackedShown ==
    Followed /\ Settled /\ seeded # "cut" => \A p \in Processes :
        proc[p].life = "running" /\ Tracked(proc[p].pid) => ShownRunning(p)

\* A process that a create callback has announced is shown as running only while
\* it is tracked: its exit goes another way and yet never comes before.  (The
\* snapshot's announcement of a process may come after that of its exit.)
ExitsShown ==
    Followed /\ Settled => \A k \in Pids :
        tree[k].state = "live" /\ ~tree[k].snap => Tracked(k)

\* A running child is shown under its parent, if both are tracked, the child is
\* no root itself, and the parent was not announced by the snapshot, whose
\* announcement may come after the child's.
ChildUnderParent ==
    Followed /\ Settled /\ PidsFresh /\ seeded # "cut" => \A p, q \in Processes :
        /\ proc[p].life = "running" /\ proc[q].life = "running"
        /\ proc[p].parent = q /\ ~proc[p].image
        /\ Tracked(proc[p].pid) /\ Tracked(proc[q].pid) /\ ~tree[proc[q].pid].snap
        => tree[proc[p].pid].under = proc[q].pid

\* An exit that is listed is pushed: the event that wakes the thread is set
\* after the exit is listed, and cleared only when the list is empty.
ExitsPushed == \A k \in Pids :
    (\E i \in 1 .. Len(deferred) : deferred[i] = Exited(k)) ~> pushing = Exited(k)
=============================================================================
