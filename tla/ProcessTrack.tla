---------------------------- MODULE ProcessTrack ----------------------------
(***************************************************************************)
(* The process tracker of the driver (src/src/knFcFlt/knFcTrack.cpp): the  *)
(* table of tracked processes, the Ps notify callback that keeps it, the   *)
(* snapshot that knFcTrackStart takes of processes that already run, and   *)
(* knFcTrackStop.                                                          *)
(*                                                                         *)
(* The environment is the system's process list.  A member of Processes is *)
(* one process from birth to death; a member of Pids names it while it     *)
(* exists and is given to another one afterwards.  The system calls the    *)
(* create callback in the creating thread before the process runs, and the *)
(* exit callback in its last thread; it lists a process from its birth     *)
(* until the last reference to its object is gone, after its exit.         *)
(*                                                                         *)
(* The push lock makes a look-up, an insertion or a removal one step; what *)
(* the code does between two acquisitions is a step boundary.  An image    *)
(* path is a Boolean: under a watch root or not.  Watch roots do not change *)
(* here.  One client sends Start and Stop, one after the other.  What the  *)
(* client is told about processes is in ProcessEvents.                       *)
(***************************************************************************)
EXTENDS Naturals, FiniteSets

CONSTANTS
    Processes,      \* processes that may come to exist
    Pids,           \* process identifiers
    NoProcess,      \* the parent of a process whose parent is not in the model
    NoPid,          \* its pid
    MaxPasses,      \* bound on the child passes of a snapshot (32 in the code)
    MaxStarts,      \* bound on Start requests
    MaxFailures     \* bound on failed allocations and system calls

ASSUME ProcessTrackAssumption ==
    /\ IsFiniteSet(Processes)
    /\ IsFiniteSet(Pids)
    /\ NoProcess \notin Processes
    /\ NoPid \notin Pids
    /\ MaxPasses \in Nat \ {0}
    /\ MaxStarts \in Nat
    /\ MaxFailures \in Nat

VARIABLES
    proc,           \* the processes: life, pid, parent, image, promise (below)
    active,         \* g_Track.Active
    registered,     \* g_Track.NotifyRegistered; the system calls knFcProcessNotify
    table,          \* the entries of g_Track.Buckets
    count,          \* g_Track.EntryCount
    control,        \* where the thread that serves Start or Stop is
    snap,           \* the local variables of knFcTrackSnapshot
    starts,         \* Start requests so far
    failures        \* failures so far

driverVars == <<active, registered, table, count>>
vars == <<proc, driverVars, control, snap, starts, failures>>

-----------------------------------------------------------------------------
(* The system's processes. *)

\* unborn, then listed by the system until reaped.  A process is inside a
\* callback of the driver from the moment the callback has found Active set.
InCallback == {"classify", "pushCreated", "mark", "defer"}
Listed == InCallback \union {"born", "running", "exiting", "zombie"}
\* It has not been through its exit callback.
Alive == Listed \ {"defer", "zombie"}
Life == Listed \union {"unborn", "reaped"}

PidOf(p) == IF p = NoProcess THEN NoPid ELSE proc[p].pid

Holds(p, k) == proc[p].life \in Listed /\ proc[p].pid = k

FreePids == {k \in Pids : \A p \in Processes : ~Holds(p, k)}

\* A creating thread cannot die of its process's end before the create
\* callback it runs returns.
Creating(p) == \E q \in Processes :
                  /\ proc[q].parent = p
                  /\ proc[q].life \in {"born", "classify", "pushCreated"}

SetLife(p, life) == proc' = [proc EXCEPT ![p].life = life]

-----------------------------------------------------------------------------
(* The table. *)

Entry == [pid : Pids, ppid : Pids \union {NoPid}, root : Pids, snap : BOOLEAN]

\* knFcTrackFindLocked: there is an entry for this pid.
Tracked(k) == \E e \in table : e.pid = k

RootOf(k) == (CHOOSE e \in table : e.pid = k).root

\* The root knFcClassifyAndInsert files a process under: itself if its image
\* is under a watch root, else its parent's.
Lineage(k, parent, isRoot) == IF isRoot THEN k ELSE RootOf(parent)

Accepts_Bug(k, parent, isRoot) == isRoot \/ Tracked(parent)    \* presence not retested

\* What knFcClassifyAndInsert accepts: not there yet, and a root or the child
\* of a tracked process.
Accepts(k, parent, isRoot) == ~Tracked(k) /\ (isRoot \/ Tracked(parent))

Insert(k, parent, isRoot, fromSnap) ==
    /\ table' = table \union {[pid |-> k, ppid |-> parent,
                               root |-> Lineage(k, parent, isRoot), snap |-> fromSnap]}
    /\ count' = count + 1

Fail == failures < MaxFailures /\ failures' = failures + 1

-----------------------------------------------------------------------------
NoRow == [pid |-> NoPid, ppid |-> NoPid]

Idle == [buffer |-> {}, todo |-> {}, pass |-> 0, changed |-> FALSE,
         row |-> NoRow, isRoot |-> FALSE]

Absent(life) == [life |-> life, pid |-> NoPid, parent |-> NoProcess, ppid |-> NoPid,
                 image |-> FALSE, descends |-> FALSE, due |-> FALSE]

Init ==
    /\ proc = [p \in Processes |-> Absent("unborn")]
    /\ active = FALSE
    /\ registered = FALSE
    /\ table = {}
    /\ count = 0
    /\ control = "idle"
    /\ snap = Idle
    /\ starts = 0
    /\ failures = 0

-----------------------------------------------------------------------------
(* Birth and the create callback. *)

\* A process appears, made by a running one or by one outside the model.  Two
\* fields are history: "descends" says it is under a watch root or descends
\* from a process that is; "due" that tracking was on and its parent tracked,
\* or its own image a root's, when it was born.
Create(p) ==
    /\ proc[p].life = "unborn"
    /\ \E k \in FreePids, isRoot \in BOOLEAN,
          parent \in {q \in Processes : proc[q].life = "running"} \union {NoProcess} :
          proc' = [proc EXCEPT ![p] =
                    [life |-> "born", pid |-> k, parent |-> parent,
                     ppid |-> PidOf(parent), image |-> isRoot,
                     descends |-> isRoot \/ (parent # NoProcess /\ proc[parent].descends),
                     due |-> active /\ (isRoot \/ Tracked(PidOf(parent)))]]
    /\ UNCHANGED <<driverVars, control, snap, starts, failures>>

\* knFcProcessNotify with CreateInfo: gives up at once unless Active.
NotifyCreate(p) ==
    /\ proc[p].life = "born"
    /\ SetLife(p, IF registered /\ active THEN "classify" ELSE "running")
    /\ UNCHANGED <<driverVars, control, snap, starts, failures>>

\* knFcClassifyAndInsert under the lock; the allocations may fail.
Classify(p) ==
    /\ proc[p].life = "classify"
    /\ IF Accepts(proc[p].pid, proc[p].ppid, proc[p].image)
       THEN \/ /\ Insert(proc[p].pid, proc[p].ppid, proc[p].image, FALSE)
               /\ SetLife(p, "pushCreated")
               /\ UNCHANGED failures
            \/ /\ Fail
               /\ proc' = [proc EXCEPT ![p].life = "running", ![p].due = FALSE]
               /\ UNCHANGED <<table, count>>
       ELSE SetLife(p, "running") /\ UNCHANGED <<table, count, failures>>
    /\ UNCHANGED <<active, registered, control, snap, starts>>

\* The CREATED push, after the lock is released.
PushCreated(p) ==
    /\ proc[p].life = "pushCreated"
    /\ SetLife(p, "running")
    /\ UNCHANGED <<driverVars, control, snap, starts, failures>>

-----------------------------------------------------------------------------
(* Death and the exit callback. *)

Exit(p) ==
    /\ proc[p].life = "running"
    /\ ~Creating(p)
    /\ SetLife(p, "exiting")
    /\ UNCHANGED <<driverVars, control, snap, starts, failures>>

NotifyExit_Bug(p) ==            \* only the exit of a root is handled
    /\ proc[p].life = "exiting"
    /\ SetLife(p, IF registered /\ active /\ proc[p].image THEN "mark" ELSE "zombie")
    /\ UNCHANGED <<driverVars, control, snap, starts, failures>>

NotifyExit(p) ==
    /\ proc[p].life = "exiting"
    /\ SetLife(p, IF registered /\ active THEN "mark" ELSE "zombie")
    /\ UNCHANGED <<driverVars, control, snap, starts, failures>>

MarkExited_Bug(p) ==            \* the children's entries go with their parent's
    /\ proc[p].life = "mark"
    /\ IF Tracked(proc[p].pid)
       THEN /\ table' = {e \in table : proc[p].pid \notin {e.pid, e.ppid}}
            /\ count' = Cardinality(table')
            /\ SetLife(p, "defer")
       ELSE SetLife(p, "zombie") /\ UNCHANGED <<table, count>>
    /\ UNCHANGED <<active, registered, control, snap, starts, failures>>

MarkExited_BugCount(p) ==       \* EntryCount decremented although nothing is found
    /\ proc[p].life = "mark"
    /\ table' = {e \in table : e.pid # proc[p].pid}
    /\ count' = count - 1
    /\ SetLife(p, "defer")
    /\ UNCHANGED <<active, registered, control, snap, starts, failures>>

\* knFcMarkExited: removes the entry; EXITED is handed over after the lock.
MarkExited(p) ==
    /\ proc[p].life = "mark"
    /\ IF Tracked(proc[p].pid)
       THEN /\ table' = {e \in table : e.pid # proc[p].pid}
            /\ count' = count - 1
            /\ SetLife(p, "defer")
       ELSE SetLife(p, "zombie") /\ UNCHANGED <<table, count>>
    /\ UNCHANGED <<active, registered, control, snap, starts, failures>>

\* knFcExitDeferEnqueue: the EXITED event is handed to another thread.
DeferExited(p) ==
    /\ proc[p].life = "defer"
    /\ SetLife(p, "zombie")
    /\ UNCHANGED <<driverVars, control, snap, starts, failures>>

\* The last reference to the process object goes; its pid may be given again.
Reap(p) ==
    /\ proc[p].life = "zombie"
    /\ proc' = [proc EXCEPT ![p] = Absent("reaped")]
    /\ UNCHANGED <<driverVars, control, snap, starts, failures>>

-----------------------------------------------------------------------------
(* knFcTrackStart. *)

Start ==
    /\ control = "idle"
    /\ ~active
    /\ starts < MaxStarts
    /\ starts' = starts + 1
    /\ control' = "register"
    /\ UNCHANGED <<proc, driverVars, snap, failures>>

Register ==
    /\ control = "register"
    /\ \/ registered' = TRUE /\ control' = "activate" /\ UNCHANGED failures
       \/ ~registered /\ Fail /\ control' = "idle" /\ UNCHANGED registered
    /\ UNCHANGED <<proc, active, table, count, snap, starts>>

Activate ==
    /\ control = "activate"
    /\ active' = TRUE
    /\ control' = "query"
    /\ UNCHANGED <<proc, registered, table, count, snap, starts, failures>>

\* ZwQuerySystemInformation: a row for each process listed now, of which the
\* pid and the parent's pid are used.  A failure is not fatal.
Query ==
    /\ control = "query"
    /\ \/ /\ LET listed == {[pid |-> proc[p].pid, ppid |-> proc[p].ppid] :
                               p \in {q \in Processes : proc[q].life \in Listed}}
             IN snap' = [Idle EXCEPT !.buffer = listed, !.todo = listed]
          /\ control' = "visit"
          /\ UNCHANGED failures
       \/ /\ Fail
          /\ snap' = Idle
          /\ control' = "idle"
    /\ UNCHANGED <<proc, driverVars, starts>>

\* One row of the buffer, in any order: skipped if it is tracked already.
\* Pass 0 looks for roots, the later ones for children.
Visit ==
    /\ control = "visit"
    /\ \E r \in snap.todo :
          IF Tracked(r.pid)
          THEN /\ snap' = [snap EXCEPT !.todo = @ \ {r}]
               /\ UNCHANGED control
          ELSE /\ snap' = [snap EXCEPT !.todo = @ \ {r}, !.row = r]
               /\ control' = IF snap.pass = 0 THEN "image" ELSE "parent"
    /\ UNCHANGED <<proc, driverVars, starts, failures>>

\* The row is done with.
NextRow(s) == [s EXCEPT !.row = NoRow, !.isRoot = FALSE]

\* A child pass drops a process whose parent is not tracked.
VisitParent ==
    /\ control = "parent"
    /\ IF Tracked(snap.row.ppid)
       THEN control' = "image" /\ UNCHANGED snap
       ELSE control' = "visit" /\ snap' = NextRow(snap)
    /\ UNCHANGED <<proc, driverVars, starts, failures>>

ImageFound_Bug(k, isRoot) ==    \* a found image is not compared with the roots
    \E p \in Processes : Holds(p, k)

\* knFcUtilGetImagePathByPid: the image of whoever holds the pid now.  It may
\* fail for a process that has exited, and for want of memory.
ImageFound(k, isRoot) ==
    \E p \in Processes : Holds(p, k) /\ proc[p].image = isRoot

ImageGone(k) ==
    \A p \in Processes : Holds(p, k) => proc[p].life = "zombie"

\* The root pass goes on with a root; a child pass whatever the image is.
Image ==
    /\ control = "image"
    /\ \E isRoot \in BOOLEAN :
          /\ \/ ImageFound(snap.row.pid, isRoot) /\ UNCHANGED failures
             \/ ~isRoot /\ ImageGone(snap.row.pid) /\ UNCHANGED failures
             \/ ~isRoot /\ Fail
          /\ IF isRoot \/ snap.pass > 0
             THEN control' = "classify" /\ snap' = [snap EXCEPT !.isRoot = isRoot]
             ELSE control' = "visit" /\ snap' = NextRow(snap)
    /\ UNCHANGED <<proc, driverVars, starts>>

\* knFcClassifyAndInsert for the snapshot: what another thread has done since
\* the look-ups is tested again under the lock; counted as a change anyway.
SnapClassify ==
    /\ control = "classify"
    /\ LET changed == [snap EXCEPT !.changed = TRUE]
       IN  IF Accepts(snap.row.pid, snap.row.ppid, snap.isRoot)
           THEN \/ /\ Insert(snap.row.pid, snap.row.ppid, snap.isRoot, TRUE)
                   /\ control' = "push"
                   /\ snap' = changed
                   /\ UNCHANGED failures
                \/ /\ Fail
                   /\ control' = "visit"
                   /\ snap' = NextRow(changed)
                   /\ UNCHANGED <<table, count>>
           ELSE /\ control' = "visit"
                /\ snap' = NextRow(changed)
                /\ UNCHANGED <<table, count, failures>>
    /\ UNCHANGED <<proc, active, registered, starts>>

\* The CREATED push, after the lock is released.
SnapPush ==
    /\ control = "push"
    /\ control' = "visit"
    /\ snap' = NextRow(snap)
    /\ UNCHANGED <<proc, driverVars, starts, failures>>

LastPass_Bug == snap.pass > 0           \* one child pass only

\* Child passes go on until one changes nothing, MaxPasses of them at most.
LastPass == snap.pass > 0 /\ (~snap.changed \/ snap.pass = MaxPasses)

\* The buffer is freed at the end; "buffer" and "changed" keep what they were, as
\* history.
EndPass ==
    /\ control = "visit"
    /\ snap.todo = {}
    /\ IF LastPass
       THEN /\ snap' = [Idle EXCEPT !.buffer = snap.buffer, !.changed = snap.changed]
            /\ control' = "idle"
       ELSE /\ snap' = [snap EXCEPT !.pass = @ + 1, !.changed = FALSE,
                                    !.todo = snap.buffer]
            /\ UNCHANGED control
    /\ UNCHANGED <<proc, driverVars, starts, failures>>

-----------------------------------------------------------------------------
(* knFcTrackStop. *)

Stop_Bug ==                     \* purges without waiting for the callbacks
    /\ control = "idle"
    /\ active' = FALSE
    /\ proc' = [p \in Processes |-> [proc[p] EXCEPT !.due = FALSE]]
    /\ snap' = Idle
    /\ control' = "purge"
    /\ UNCHANGED <<registered, table, count, starts, failures>>

\* With Active gone nothing is due to anybody any more.
Stop ==
    /\ control = "idle"
    /\ active' = FALSE
    /\ proc' = [p \in Processes |-> [proc[p] EXCEPT !.due = FALSE]]
    /\ snap' = Idle
    /\ control' = IF registered THEN "unregister" ELSE "purge"
    /\ UNCHANGED <<registered, table, count, starts, failures>>

\* PsSetCreateProcessNotifyRoutineEx(Remove): no new callback starts, and it
\* returns when those that run have returned.
Unregister ==
    /\ control = "unregister"
    /\ registered' = FALSE
    /\ control' = "drain"
    /\ UNCHANGED <<proc, active, table, count, snap, starts, failures>>

CallbacksDone_Bug ==            \* waits for the processes, not for the callbacks
    /\ control = "drain"
    /\ \A p \in Processes : proc[p].life \notin Alive
    /\ control' = "purge"
    /\ UNCHANGED <<proc, driverVars, snap, starts, failures>>

CallbacksDone ==
    /\ control = "drain"
    /\ \A p \in Processes : proc[p].life \notin InCallback
    /\ control' = "purge"
    /\ UNCHANGED <<proc, driverVars, snap, starts, failures>>

Purge ==
    /\ control = "purge"
    /\ table' = {}
    /\ count' = 0
    /\ control' = "idle"
    /\ UNCHANGED <<proc, active, registered, snap, starts, failures>>

-----------------------------------------------------------------------------
LifeStep(p) ==
    \/ Create(p)
    \/ Exit(p)
    \/ Reap(p)

CallbackStep(p) ==
    \/ NotifyCreate(p)
    \/ Classify(p)
    \/ PushCreated(p)
    \/ NotifyExit(p)
    \/ MarkExited(p)
    \/ DeferExited(p)

Serve ==
    \/ Register
    \/ Activate
    \/ Query
    \/ Visit
    \/ VisitParent
    \/ Image
    \/ SnapClassify
    \/ SnapPush
    \/ EndPass
    \/ Unregister
    \/ CallbacksDone
    \/ Purge

Next ==
    \/ \E p \in Processes : LifeStep(p) \/ CallbackStep(p)
    \/ Start
    \/ Stop
    \/ Serve

Spec == Init /\ [][Next]_vars

-----------------------------------------------------------------------------
(* Properties. *)

ProcessRecord == [life : Life, pid : Pids \union {NoPid},
                  parent : Processes \union {NoProcess},
                  ppid : Pids \union {NoPid}, image : BOOLEAN,
                  descends : BOOLEAN, due : BOOLEAN]

Row == [pid : Pids, ppid : Pids \union {NoPid}]

Controls == {"idle", "register", "activate", "query", "visit", "parent", "image",
             "classify", "push", "unregister", "drain", "purge"}

\* Types; in particular EntryCount never falls below zero, which its reader
\* (knFcTrackGetCount) guards against.
TypeOK ==
    /\ proc \in [Processes -> ProcessRecord]
    /\ active \in BOOLEAN
    /\ registered \in BOOLEAN
    /\ table \subseteq Entry
    /\ count \in Nat
    /\ control \in Controls
    /\ snap \in [buffer : SUBSET Row, todo : SUBSET Row, pass : 0 .. MaxPasses,
                  changed : BOOLEAN, row : Row \union {NoRow}, isRoot : BOOLEAN]
    /\ starts \in 0 .. MaxStarts
    /\ failures \in 0 .. MaxFailures

\* A pid has one entry, although the snapshot and a create callback may both
\* have found none before they take the lock, and EntryCount counts the entries.
OneEntry ==
    /\ \A e, f \in table : e.pid = f.pid => e = f
    /\ count = Cardinality(table)

\* When Stop has returned the table is empty and stays so: no callback that had
\* found Active set is still on its way to the table.
StoppedIsEmpty ==
    control = "idle" /\ ~active =>
        table = {} /\ \A p \in Processes : proc[p].life \notin InCallback

\* A process born while tracking is active, under a watch root or to a tracked
\* parent, is tracked when its create callback has returned and until its exit,
\* whatever becomes of its parent, the snapshot and other owners of its pid.
DueAreTracked ==
    \A p \in Processes :
        proc[p].due /\ proc[p].life \in Alive \ {"born", "classify"}
            => Tracked(proc[p].pid)

\* An entry made by a create callback is there for a process that has not yet
\* been through its exit callback.
CallbackEntriesLive ==
    active => \A e \in table : e.snap \/
        \E p \in Processes :
            /\ Holds(p, e.pid)
            /\ proc[p].life \in Alive \ {"born", "classify"}

\* No pid can have been given twice.
PidsFresh == \A p \in Processes : proc[p].life # "reaped"

\* The query of the last snapshot has listed it.
InBuffer(p) == \E r \in snap.buffer : r.pid = proc[p].pid

\* Its passes have not run out before one of them changed nothing, or they could
\* not: a process that was listed is entered, leaves by its exit and is entered
\* once more by its row, so that it accounts for three changes at most.
PassesEnough == snap.changed => 3 * Cardinality(snap.buffer) < MaxPasses

\* When Start has returned, of the processes that its query listed and that
\* still run, roots are tracked, and so are the children of tracked ones, at
\* any distance, if no pid was given twice and the passes were enough.
SnapshotComplete ==
    control = "idle" /\ active /\ failures = 0 /\ PidsFresh /\ PassesEnough =>
        \A p \in Processes :
            /\ InBuffer(p)
            /\ proc[p].life = "running"
            /\ \/ proc[p].image
               \/ /\ proc[p].parent # NoProcess
                  /\ InBuffer(proc[p].parent)
                  /\ proc[proc[p].parent].life = "running"
                  /\ Tracked(PidOf(proc[p].parent))
            => Tracked(proc[p].pid)

\* Only processes under a watch root and their descendants are tracked, if no
\* pid was given twice.
OnlyDescendants ==
    PidsFresh => \A e \in table, p \in Processes : Holds(p, e.pid) => proc[p].descends

\* Between requests a running child of a tracked process is tracked, also when
\* it was created while Start was taking its snapshot.
DescendantsTracked ==
    control = "idle" /\ active /\ failures = 0 =>
        \A p \in Processes :
            /\ proc[p].life = "running"
            /\ proc[p].parent # NoProcess
            /\ proc[proc[p].parent].life = "running"
            /\ Tracked(PidOf(proc[p].parent))
            => Tracked(proc[p].pid)

\* Start and Stop return: the snapshot's passes end, and Stop gets past the
\* callbacks it waits for.
RequestsReturn == control # "idle" ~> control = "idle"
=============================================================================
