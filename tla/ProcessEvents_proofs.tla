------------------------ MODULE ProcessEvents_proofs ------------------------
(***************************************************************************)
(* The client's tree and the driver's table, proved: once the events have   *)
(* arrived every running tracked process is shown, a process whose exit has *)
(* been reported is not shown as running, and a child is under its parent,   *)
(* for any number of processes and pids and any bounds.                      *)
(***************************************************************************)
EXTENDS ProcessEvents, ProcessTrack_proofs, SequenceTheorems

\* EventsTypeOK in three.
ExitTypes ==
    /\ deferred \in Seq(Event)
    /\ exitEvent \in BOOLEAN
    /\ exitWorker \in {"wait", "pop", "push"}
    /\ pushing \in Event \union {NoEvent}
    /\ pushing # NoEvent <=> exitWorker = "push"

Node == [state : {"none", "live", "exited"}, under : Pids \union {NoPid},
         isRoot : BOOLEAN, snap : BOOLEAN]

ClientTypes ==
    /\ inbox \in Seq(Event)
    /\ tree \in [Pids -> Node]
    /\ reader \in BOOLEAN
    /\ seeded \in {"no", "whole", "cut"}
    /\ lost \in 0 .. MaxLost
    /\ restarts \in 0 .. MaxRestarts

SignalTypes == signalling \subseteq {p \in Processes : proc[p].life = "defer"}

EventTypes == ExitTypes /\ ClientTypes /\ SignalTypes

-----------------------------------------------------------------------------
(* The tracker underneath. *)

\* What ProcessEvents adds takes no step of the tracker away from it.
LEMMA TrackerSteps == EventsNext => [Next]_vars
  <1> SUFFICES ASSUME EventsNext PROVE [Next]_vars
    OBVIOUS
  <1>1. ASSUME NEW p \in Processes, (LifeStep(p) /\ UNCHANGED eventVars) \/ CallbackEvents(p)
        PROVE  [Next]_vars
    <2>1. \/ LifeStep(p) \/ CallbackStep(p) \/ UNCHANGED vars
      BY <1>1 DEF CallbackEvents, PushedByCallback, ListExited, SignalExited, CallbackStep
    <2> QED BY <2>1 DEF Next
  <1>2. CASE ServeEvents
    <2>1. Serve
      BY <1>2 DEF ServeEvents, PushedBySnapshot, Serve
    <2> QED BY <2>1 DEF Next
  <1>3. CASE ClientStart
    BY <1>3 DEF ClientStart, Next
  <1>4. CASE Stop /\ UNCHANGED eventVars
    BY <1>4 DEF Next
  <1>5. CASE ExitStep
    BY <1>5 DEF ExitStep, ExitWait, ExitPop, ExitPush
  <1>6. CASE Apply \/ Seed \/ Restart
    BY <1>6 DEF Apply, Seed, Restart
  <1> QED BY <1>1, <1>2, <1>3, <1>4, <1>5, <1>6 DEF EventsNext

LEMMA StepTracker ==
    ASSUME PInv, CompleteInv, [EventsNext]_allVars PROVE PInv' /\ CompleteInv'
  <1>1. [Next]_vars
    <2>1. UNCHANGED allVars => UNCHANGED vars
      BY DEF allVars
    <2> QED BY <2>1, TrackerSteps
  <1> QED BY <1>1, StepPInv, StepComplete

-----------------------------------------------------------------------------
(* Types. *)

\* The head and the rest of a sequence.
LEMMA HeadAndTail ==
    ASSUME NEW S, NEW s \in Seq(S), s # << >>
    PROVE  /\ Head(s) \in S /\ Head(s) = s[1] /\ Len(s) \in Nat \ {0}
           /\ Tail(s) \in Seq(S) /\ Len(Tail(s)) = Len(s) - 1
           /\ \A i \in 1 .. Len(Tail(s)) : i + 1 \in 1 .. Len(s) /\ Tail(s)[i] = s[i + 1]
  <1>1. /\ Head(s) \in S /\ Tail(s) \in Seq(S) /\ Len(Tail(s)) = Len(s) - 1
        /\ \A i \in 1 .. Len(Tail(s)) : Tail(s)[i] = s[i + 1]
    BY HeadTailProperties
  <1>2. Len(s) \in Nat \ {0} /\ Head(s) = s[1]
    BY LenProperties, EmptySeq
  <1> QED BY <1>1, <1>2

\* A sequence with one more element at its end.
LEMMA Longer ==
    ASSUME NEW S, NEW s \in Seq(S), NEW x \in S
    PROVE  /\ Append(s, x) \in Seq(S) /\ Len(s) \in Nat /\ Len(Append(s, x)) = Len(s) + 1
           /\ \A i \in 1 .. Len(s) : i \in 1 .. Len(s) + 1 /\ Append(s, x)[i] = s[i]
           /\ Append(s, x)[Len(s) + 1] = x
  <1>1. /\ Append(s, x) \in Seq(S) /\ Len(Append(s, x)) = Len(s) + 1
        /\ \A i \in 1 .. Len(s) : Append(s, x)[i] = s[i]
        /\ Append(s, x)[Len(s) + 1] = x
    BY AppendProperties
  <1>2. Len(s) \in Nat
    BY LenProperties
  <1> QED BY <1>1, <1>2

\* A push appends an event or loses it.
LEMMA PushTypes ==
    ASSUME ClientTypes, NEW e \in Event, Push(e), UNCHANGED <<tree, reader, seeded, restarts>>
    PROVE  ClientTypes'
  <1>1. Append(inbox, e) \in Seq(Event)
    BY Longer DEF ClientTypes
  <1>2. lost' \in 0 .. MaxLost
    <2>1. lost \in 0 .. MaxLost /\ MaxLost \in Nat
      BY ProcessEventsAssumption DEF ClientTypes
    <2> QED BY <2>1 DEF Push, Lose
  <1>3. inbox' \in Seq(Event)
    BY <1>1 DEF Push, ClientTypes
  <1> QED BY <1>2, <1>3 DEF ClientTypes

\* The nodes that a reply makes.
LEMMA BuiltTypes ==
    ASSUME NEW dump \in SUBSET Entry
    PROVE  Built(dump) \in [Pids -> Node]
  <1> SUFFICES ASSUME NEW k \in Pids PROVE Built(dump)[k] \in Node
    BY DEF Built
  <1>1. CASE \E e \in dump : e.pid = k
    <2>1. PICK e : e = (CHOOSE f \in dump : f.pid = k)
      OBVIOUS
    <2>2. e \in dump /\ e.pid = k
      BY <1>1, <2>1
    <2>3. Built(dump)[k] =
             [state |-> "live", isRoot |-> e.root = k, snap |-> e.snap,
              under |-> IF \E f \in dump : f.pid = e.ppid THEN e.ppid ELSE NoPid]
      BY <1>1, <2>1 DEF Built
    <2>4. e.snap \in BOOLEAN /\ e.ppid \in Pids \union {NoPid}
      BY <2>2 DEF Entry
    <2>5. PICK u : u = IF \E f \in dump : f.pid = e.ppid THEN e.ppid ELSE NoPid
      OBVIOUS
    <2>6. u \in Pids \union {NoPid}
      BY <2>4, <2>5
    <2> QED BY <2>3, <2>4, <2>5, <2>6 DEF Node
  <1>2. CASE ~\E e \in dump : e.pid = k
    BY <1>2 DEF Built, NoNode, Node
  <1> QED BY <1>1, <1>2

\* The tree after an event.
LEMMA AppliedTypes ==
    ASSUME ClientTypes, NEW e \in Event
    PROVE  AppliedCreate(e) \in [Pids -> Node] /\ AppliedExit(e) \in [Pids -> Node]
  <1>1. e.pid \in Pids /\ e.ppid \in Pids \union {NoPid} /\ e.isRoot \in BOOLEAN
        /\ e.snap \in BOOLEAN
    BY DEF Event
  <1>2. NodeOf(e) \in Node
    BY <1>1 DEF NodeOf, Node
  <1>3. [tree[e.pid] EXCEPT !.state = "exited"] \in Node
    <2>1. tree[e.pid] \in Node
      BY <1>1 DEF ClientTypes
    <2> QED BY <2>1 DEF Node
  <1>4. [tree EXCEPT ![e.pid].state = "exited"] = [tree EXCEPT ![e.pid] =
            [tree[e.pid] EXCEPT !.state = "exited"]]
    OBVIOUS
  <1>5. tree \in [Pids -> Node]
    BY DEF ClientTypes
  <1> QED BY <1>2, <1>3, <1>4, <1>5 DEF AppliedCreate, AppliedExit

LEMMA EventsInitTypes == EventsInit => EventTypes
  <1> SUFFICES ASSUME EventsInit PROVE EventTypes
    OBVIOUS
  <1>1. << >> \in Seq(Event)
    BY EmptySeq
  <1>2. NoNode \in Node
    BY DEF NoNode, Node
  <1>3. 0 \in 0 .. MaxLost /\ 0 \in 0 .. MaxRestarts
    BY ProcessEventsAssumption
  <1>4. ExitTypes
    BY <1>1 DEF EventsInit, ExitTypes
  <1>5. lost = 0 /\ restarts = 0 /\ reader = FALSE /\ seeded = "no" /\ inbox = << >>
        /\ tree = [k \in Pids |-> NoNode]
    BY DEF EventsInit
  <1>6. tree \in [Pids -> Node]
    BY <1>2, <1>5
  <1>7. ClientTypes
    BY <1>1, <1>3, <1>5, <1>6 DEF ClientTypes
  <1> QED BY <1>4, <1>7 DEF EventsInit, EventTypes, SignalTypes

\* What becomes of the processes in "defer".
LEMMA DeferStays ==
    ASSUME PInv, [Next]_vars, NEW p \in Processes, proc[p].life = "defer"
    PROVE  proc'[p].life = "defer" \/ DeferExited(p)
  <1>1. proc[p] \in ProcessRecord
    BY DEF PInv, ProcTypes
  <1>2. CASE \E q \in Processes : LifeStep(q) \/ CallbackStep(q)
    <2> PICK q \in Processes : LifeStep(q) \/ CallbackStep(q)
      BY <1>2
    <2>1. CASE q = p
      BY <2>1 DEF LifeStep, CallbackStep, Create, Exit, Reap, NotifyCreate, Classify,
                  PushCreated, NotifyExit, MarkExited
    <2>2. CASE q # p
      <3>1. proc'[p] = proc[p]
        BY <2>2 DEF LifeStep, CallbackStep, Create, Exit, Reap, NotifyCreate, Classify,
                    PushCreated, NotifyExit, MarkExited, DeferExited, SetLife, PInv, ProcTypes
      <3> QED BY <3>1
    <2> QED BY <2>1, <2>2
  <1>3. CASE Stop
    <2>1. proc'[p] = [proc[p] EXCEPT !.due = FALSE]
      BY <1>3 DEF Stop
    <2> QED BY <1>1, <2>1 DEF ProcessRecord
  <1>4. CASE Start \/ Serve \/ UNCHANGED vars
    BY <1>4 DEF Start, Serve, Register, Activate, Query, Visit, VisitParent, Image, SnapClassify,
                SnapPush, EndPass, Unregister, CallbacksDone, Purge, vars
  <1> QED BY <1>2, <1>3, <1>4 DEF Next

\* The exit of a process takes two steps: only the second moves it on.
LEMMA SignalStep ==
    ASSUME PInv, EventTypes, EventsNext
    PROVE  SignalTypes'
  <1> SUFFICES ASSUME NEW p \in signalling'
               PROVE  p \in Processes /\ proc'[p].life = "defer"
    BY DEF SignalTypes
  <1>1. p \in signalling \/ \E q \in Processes : ListExited(q) /\ UNCHANGED vars /\ p = q
    BY DEF EventsNext, CallbackEvents, PushedByCallback, ListExited, SignalExited, ServeEvents,
           PushedBySnapshot, ClientStart, ExitStep, ExitWait, ExitPop, ExitPush, Apply, Seed,
           Restart, eventVars, exitVars
  <1>2. CASE \E q \in Processes : ListExited(q) /\ UNCHANGED vars /\ p = q
    BY <1>2 DEF ListExited, vars
  <1>3. CASE p \in signalling
    <2>1. p \in Processes /\ proc[p].life = "defer"
      BY <1>3 DEF EventTypes, SignalTypes
    <2>2. ~DeferExited(p)
      <3> SUFFICES ASSUME DeferExited(p) PROVE FALSE
        OBVIOUS
      <3>1. proc'[p].life = "zombie"
        BY <2>1 DEF DeferExited, SetLife, PInv, ProcTypes, ProcessRecord
      <3>2. proc' # proc
        BY <2>1, <3>1
      <3>3. ~UNCHANGED vars
        BY <3>2 DEF vars
      <3>4. UNCHANGED control
        BY DEF DeferExited
      <3>5. ~(Serve \/ Start \/ Stop)
        <4>1. ~Serve /\ ~Start
          BY <3>2 DEF Start, Serve, Register, Activate, Query, Visit, VisitParent, Image,
                      SnapClassify, SnapPush, EndPass, Unregister, CallbacksDone, Purge
        <4>2. ~Stop
          BY <3>4 DEF Stop
        <4> QED BY <4>1, <4>2
      <3>6. \E q \in Processes : (LifeStep(q) /\ UNCHANGED eventVars) \/ CallbackEvents(q)
        BY <3>3, <3>5 DEF EventsNext, ServeEvents, PushedBySnapshot, Serve, ClientStart, ExitStep,
                          ExitWait, ExitPop, ExitPush, Apply, Seed, Restart
      <3>7. PICK q \in Processes : (LifeStep(q) /\ UNCHANGED eventVars) \/ CallbackEvents(q)
        BY <3>6
      <3>8. CASE q # p
        <4>1. proc'[p] = proc[p]
          BY <3>7, <3>8 DEF LifeStep, CallbackEvents, Create, Exit, Reap, NotifyCreate, Classify,
                      PushedByCallback, PushCreated, NotifyExit, MarkExited, ListExited,
                      SignalExited, DeferExited, SetLife, PInv, ProcTypes, vars
        <4> QED BY <2>1, <3>1, <4>1
      <3>9. CASE q = p
        <4>1. SignalExited(p)
          BY <1>3, <2>1, <3>3, <3>7, <3>9
             DEF LifeStep, CallbackEvents, Create, Exit, Reap, NotifyCreate, Classify,
                 PushedByCallback, PushCreated, NotifyExit, MarkExited, ListExited
        <4> QED BY <4>1 DEF SignalExited
      <3> QED BY <3>8, <3>9
    <2>3. proc'[p].life = "defer"
      BY <2>1, <2>2, DeferStays, TrackerSteps
    <2> QED BY <2>1, <2>3
  <1> QED BY <1>1, <1>2, <1>3

LEMMA EventTypesStep ==
    ASSUME PInv, PInv', EventTypes, [EventsNext]_allVars
    PROVE  EventTypes'
  <1>1. CASE UNCHANGED allVars
    <2>1. UNCHANGED <<proc, exitVars, clientVars, lost>>
      BY <1>1 DEF allVars, vars, eventVars
    <2> QED BY <2>1 DEF EventTypes, ExitTypes, ClientTypes, SignalTypes, exitVars, clientVars
  <1>2. CASE EventsNext
    <2>1. SignalTypes'
      BY <1>2, SignalStep
    <2> SUFFICES ExitTypes' /\ ClientTypes'
      BY <2>1 DEF EventTypes
    <2>2. UNCHANGED eventVars => ExitTypes' /\ ClientTypes'
      BY DEF EventTypes, ExitTypes, ClientTypes, eventVars, exitVars, clientVars
    <2>3. UNCHANGED exitVars => ExitTypes'
      BY DEF EventTypes, ExitTypes, exitVars
    <2>4. UNCHANGED <<clientVars, lost>> => ClientTypes'
      BY DEF EventTypes, ClientTypes, clientVars
    <2>5. ASSUME NEW p \in Processes, CallbackEvents(p) PROVE ExitTypes' /\ ClientTypes'
      <3>1. CASE UNCHANGED eventVars
        BY <2>2, <3>1
      <3>2. CASE PushedByCallback(p)
        <4>1. Created(proc[p].pid, proc[p].ppid, proc[p].image, FALSE) \in Event
          <5>1. proc[p].pid \in Pids
            BY <3>2 DEF PushedByCallback, PushCreated, PInv, PidInv, Listed, InCallback
          <5>2. proc[p].ppid \in Pids \union {NoPid} /\ proc[p].image \in BOOLEAN
            BY DEF PInv, ProcTypes, ProcessRecord
          <5> QED BY <5>1, <5>2 DEF Created, Event
        <4> QED BY <2>3, <3>2, <4>1, PushTypes DEF PushedByCallback, EventTypes
      <3>3. CASE ListExited(p)
        <4>1. ClientTypes'
          <5>1. lost' \in 0 .. MaxLost
            <6>1. lost \in 0 .. MaxLost /\ MaxLost \in Nat
              BY ProcessEventsAssumption DEF EventTypes, ClientTypes
            <6> QED BY <3>3, <6>1 DEF ListExited, Lose
          <5> QED BY <3>3, <5>1 DEF ListExited, EventTypes, ClientTypes, clientVars
        <4>2. deferred' \in Seq(Event)
          <5>1. proc[p].pid \in Pids
            BY <3>3 DEF ListExited, PInv, PidInv, Listed, InCallback
          <5>2. Exited(proc[p].pid) \in Event
            BY <5>1 DEF Exited, Event
          <5>3. Append(deferred, Exited(proc[p].pid)) \in Seq(Event)
            BY <5>2, Longer DEF EventTypes, ExitTypes
          <5> QED BY <3>3, <5>3 DEF ListExited, EventTypes, ExitTypes
        <4> QED BY <3>3, <4>1, <4>2 DEF ListExited, EventTypes, ExitTypes
      <3>4. CASE SignalExited(p)
        BY <2>4, <3>4 DEF SignalExited, EventTypes, ExitTypes
      <3> QED BY <2>5, <3>1, <3>2, <3>3, <3>4 DEF CallbackEvents
    <2>6. CASE ServeEvents
      <3>1. CASE UNCHANGED eventVars
        BY <2>2, <3>1
      <3>2. CASE PushedBySnapshot
        <4>1. Created(snap.row.pid, snap.row.ppid, snap.isRoot, TRUE) \in Event
          <5>1. snap.row \in Row /\ snap.isRoot \in BOOLEAN
            BY <3>2 DEF PushedBySnapshot, SnapPush, PInv, ControlInv, HasRow, SnapTypes, Snaps
          <5> QED BY <5>1 DEF Created, Event, Row
        <4> QED BY <2>3, <3>2, <4>1, PushTypes DEF PushedBySnapshot, EventTypes
      <3> QED BY <2>6, <3>1, <3>2 DEF ServeEvents
    <2>7. CASE ClientStart
      BY <2>7 DEF ClientStart, EventTypes, ExitTypes, ClientTypes, exitVars
    <2>8. CASE ExitWait
      BY <2>8 DEF ExitWait, EventTypes, ExitTypes, ClientTypes, clientVars
    <2>9. CASE ExitPop
      <3>1. ClientTypes'
        BY <2>4, <2>9 DEF ExitPop
      <3>2. CASE deferred = << >>
        BY <2>9, <3>1, <3>2 DEF ExitPop, EventTypes, ExitTypes
      <3>3. CASE deferred # << >>
        <4>1. Head(deferred) \in Event /\ Tail(deferred) \in Seq(Event)
          BY <3>3, HeadAndTail DEF EventTypes, ExitTypes
        <4>2. /\ exitWorker' = "push" /\ pushing' = Head(deferred) /\ deferred' = Tail(deferred)
              /\ UNCHANGED exitEvent
          BY <2>9, <3>3 DEF ExitPop
        <4>3. pushing' # NoEvent
          BY <4>1, <4>2, ProcessEventsAssumption
        <4> QED BY <3>1, <4>1, <4>2, <4>3 DEF EventTypes, ExitTypes
      <3> QED BY <3>2, <3>3
    <2>10. CASE ExitPush
      <3>1. pushing \in Event
        BY <2>10 DEF ExitPush, EventTypes, ExitTypes
      <3>2. ClientTypes'
        BY <2>10, <3>1, PushTypes DEF ExitPush, EventTypes
      <3> QED BY <2>10, <3>2 DEF ExitPush, EventTypes, ExitTypes
    <2>11. CASE Apply
      <3>1. /\ inbox # << >> /\ UNCHANGED <<exitVars, reader, seeded, lost, restarts>>
            /\ inbox' = Tail(inbox)
            /\ tree' = IF Head(inbox).type = "created" THEN AppliedCreate(Head(inbox))
                       ELSE AppliedExit(Head(inbox))
        BY <2>11 DEF Apply
      <3>2. Head(inbox) \in Event /\ Tail(inbox) \in Seq(Event)
        BY <3>1, HeadAndTail DEF EventTypes, ClientTypes
      <3>3. tree' \in [Pids -> Node]
        BY <3>1, <3>2, AppliedTypes DEF EventTypes
      <3> QED BY <2>3, <3>1, <3>2, <3>3 DEF EventTypes, ClientTypes
    <2>12. CASE Seed
      <3>1. PICK dump \in SUBSET table :
               tree' = Built(dump) /\ seeded' = IF dump = table THEN "whole" ELSE "cut"
        BY <2>12 DEF Seed
      <3>2. tree' \in [Pids -> Node]
        BY <3>1, BuiltTypes DEF PInv, TableInv
      <3> QED BY <2>3, <2>12, <3>1, <3>2 DEF Seed, EventTypes, ClientTypes
    <2>13. CASE Restart
      <3>1. [k \in Pids |-> NoNode] \in [Pids -> Node]
        BY DEF NoNode, Node
      <3>2. << >> \in Seq(Event)
        BY EmptySeq
      <3>3. restarts' \in 0 .. MaxRestarts
        <4>1. restarts \in 0 .. MaxRestarts /\ MaxRestarts \in Nat
          BY ProcessEventsAssumption DEF EventTypes, ClientTypes
        <4> QED BY <2>13, <4>1 DEF Restart
      <3>4. UNCHANGED <<exitVars, lost>> /\ inbox' = << >> /\ tree' = [k \in Pids |-> NoNode]
            /\ reader' = FALSE /\ seeded' = "no"
        BY <2>13 DEF Restart
      <3> QED BY <2>3, <3>1, <3>2, <3>3, <3>4 DEF EventTypes, ClientTypes
    <2> QED BY <1>2, <2>1, <2>2, <2>5, <2>6, <2>7, <2>8, <2>9, <2>10, <2>11, <2>12, <2>13
            DEF EventsNext, ExitStep, EventTypes
  <1> QED BY <1>1, <1>2
-----------------------------------------------------------------------------
(* The first activation. *)

\* Before it nothing has been tracked or sent.
Quiet == starts = 0 \/ (starts = 1 /\ control \in {"register", "activate"})

Empty ==
    /\ ~active /\ table = {} /\ \A p \in Processes : proc[p].life \notin InCallback
    /\ deferred = << >> /\ exitWorker # "push" /\ inbox = << >>
    /\ tree = [k \in Pids |-> NoNode] /\ seeded # "cut"

StartInv ==
    /\ Quiet => Empty
    /\ starts = 0 => control \in {"idle", "unregister", "drain", "purge"}
    /\ starts > 0 /\ restarts = 0 => reader

\* Until Stop, nothing is lost on the way to the client that has sent Start.
Following == restarts = 0 /\ lost = 0 /\ (Quiet \/ (active /\ starts = 1))

LEMMA StartCounts ==
    ASSUME PInv, [Next]_vars
    PROVE  /\ starts \in Nat /\ (starts' = starts \/ (Start /\ starts' = starts + 1))
           /\ active' => active \/ (Activate /\ UNCHANGED starts)
           /\ control' \in {"register", "activate"} =>
                 Start \/ Register \/ UNCHANGED <<control, starts>>
  <1>1. starts \in Nat
    BY ProcessTrackAssumption DEF PInv, OtherTypes
  <1>2. CASE \E q \in Processes : LifeStep(q) \/ CallbackStep(q)
    <2> PICK q \in Processes : LifeStep(q) \/ CallbackStep(q)
      BY <1>2
    <2>1. UNCHANGED <<active, starts, control>>
      BY DEF LifeStep, CallbackStep, Create, Exit, Reap, NotifyCreate, Classify, PushCreated,
             NotifyExit, MarkExited, DeferExited, driverVars
    <2> QED BY <1>1, <2>1
  <1>3. CASE Start \/ Stop
    BY <1>1, <1>3 DEF Start, Stop, driverVars
  <1>4. CASE Register \/ Activate
    BY <1>1, <1>4 DEF Register, Activate
  <1>5. CASE Query \/ Visit \/ VisitParent \/ Image \/ SnapClassify \/ SnapPush \/ EndPass
    <2>1. UNCHANGED <<active, starts>>
      BY <1>5 DEF Query, Visit, VisitParent, Image, SnapClassify, SnapPush, EndPass, driverVars
    <2>2. control' \notin {"register", "activate"}
      BY <1>5 DEF Query, Visit, VisitParent, Image, SnapClassify, SnapPush, EndPass
    <2> QED BY <1>1, <2>1, <2>2
  <1>6. CASE Unregister \/ CallbacksDone \/ Purge \/ UNCHANGED vars
    BY <1>1, <1>6 DEF Unregister, CallbacksDone, Purge, vars, driverVars
  <1> QED BY <1>2, <1>3, <1>4, <1>5, <1>6 DEF Next, Serve

LEMMA QuietBefore ==
    ASSUME PInv, StartInv, [Next]_vars, Quiet'
    PROVE  Quiet /\ Empty
  <1>1. Quiet
    <2>1. starts \in Nat
      BY StartCounts
    <2>2. CASE starts' = 0
      BY <2>1, <2>2, StartCounts DEF Quiet
    <2>3. CASE starts' = 1 /\ control' \in {"register", "activate"}
      <3>1. CASE Start
        BY <2>1, <2>3, <3>1 DEF Start, Quiet
      <3>2. CASE Register
        BY <2>3, <3>2 DEF Register, Quiet
      <3>3. CASE UNCHANGED <<control, starts>>
        BY <2>3, <3>3 DEF Quiet
      <3> QED BY <2>3, <3>1, <3>2, <3>3, StartCounts
    <2> QED BY <2>2, <2>3 DEF Quiet
  <1> QED BY <1>1 DEF StartInv

LEMMA FollowingBefore ==
    ASSUME PInv, EventTypes, StartInv, [EventsNext]_allVars, Following'
    PROVE  Following /\ (starts = 1 => reader) /\ UNCHANGED <<lost, restarts>>
  <1>1. [Next]_vars
    BY TrackerSteps DEF allVars
  <1>2. lost \in Nat /\ restarts \in Nat
    BY ProcessEventsAssumption DEF EventTypes, ClientTypes
  <1>3. lost' = lost \/ Lose
    BY DEF EventsNext, CallbackEvents, PushedByCallback, ListExited, SignalExited, ServeEvents,
           PushedBySnapshot, ClientStart, ExitStep, ExitWait, ExitPop, ExitPush, Apply, Seed,
           Restart, eventVars, Push, allVars
  <1>4. restarts' = restarts \/ restarts' = restarts + 1
    BY DEF EventsNext, CallbackEvents, PushedByCallback, ListExited, SignalExited, ServeEvents,
           PushedBySnapshot, ClientStart, ExitStep, ExitWait, ExitPop, ExitPush, Apply, Seed,
           Restart, eventVars, clientVars, allVars
  <1>5. lost = 0 /\ restarts = 0 /\ UNCHANGED <<lost, restarts>>
    BY <1>2, <1>3, <1>4 DEF Lose, Following
  <1>6. Quiet' => Quiet
    BY <1>1, QuietBefore
  <1>7. ASSUME active', starts' = 1 PROVE Quiet \/ (active /\ starts = 1)
    <2>1. CASE Activate /\ UNCHANGED starts
      BY <1>7, <2>1 DEF Activate, Quiet
    <2>2. CASE active
      <3>1. ~Start
        BY <2>2 DEF Start
      <3> QED BY <1>1, <1>7, <2>2, <3>1, StartCounts
    <2> QED BY <1>1, <1>7, <2>1, <2>2, StartCounts
  <1>8. starts = 1 => reader
    BY <1>5 DEF StartInv
  <1> QED BY <1>5, <1>6, <1>7, <1>8 DEF Following

LEMMA StartInvInit == EventsInit => StartInv
  <1> SUFFICES ASSUME EventsInit PROVE StartInv
    OBVIOUS
  <1>1. Empty
    BY DEF EventsInit, Init, Absent, Empty, InCallback
  <1>2. starts = 0 /\ control = "idle"
    BY DEF EventsInit, Init
  <1> QED BY <1>1, <1>2 DEF StartInv

\* No entry, nothing to send.
LEMMA StartInvStep ==
    ASSUME PInv, EventTypes, StartInv, [EventsNext]_allVars
    PROVE  StartInv'
  <1>1. [Next]_vars
    BY TrackerSteps DEF allVars
  <1>2. starts \in Nat /\ (starts' = starts \/ (Start /\ starts' = starts + 1))
    BY <1>1, StartCounts
  <1>3. ASSUME starts' > 0, restarts' = 0 PROVE reader'
    <2>1. CASE ClientStart
      BY <2>1 DEF ClientStart
    <2>2. CASE ~ClientStart
      <3>1. Start => FALSE
        <4>1. Start => starts' # starts
          BY <1>2 DEF Start
        <4>2. [EventsNext]_allVars /\ ~ClientStart => UNCHANGED starts
          BY DEF EventsNext, CallbackEvents, PushedByCallback, ListExited, SignalExited,
                 ServeEvents, PushedBySnapshot, ExitStep, ExitWait, ExitPop, ExitPush, Apply, Seed,
                 Restart, LifeStep, Create, Exit, Reap, NotifyCreate, Classify, PushCreated,
                 NotifyExit, MarkExited, DeferExited, Serve, Register, Activate, Query, Visit,
                 VisitParent, Image, SnapClassify, SnapPush, EndPass, Unregister, CallbacksDone,
                 Purge, Stop, vars, allVars
        <4> QED BY <2>2, <4>1, <4>2
      <3>2. restarts' = restarts \/ restarts' = restarts + 1
        BY DEF EventsNext, CallbackEvents, PushedByCallback, ListExited, SignalExited, ServeEvents,
               PushedBySnapshot, ClientStart, ExitStep, ExitWait, ExitPop, ExitPush, Apply, Seed,
               Restart, eventVars, clientVars, allVars
      <3>3. restarts \in Nat
        BY ProcessEventsAssumption DEF EventTypes, ClientTypes
      <3>4. restarts = 0 /\ restarts' = restarts /\ ~Restart
        <4>1. ~Restart
          BY <1>3, <3>3 DEF Restart
        <4> QED BY <1>3, <3>2, <3>3, <4>1
      <3>5. UNCHANGED reader
        BY <2>2, <3>4 DEF EventsNext, CallbackEvents, PushedByCallback, ListExited, SignalExited,
               ServeEvents, PushedBySnapshot, ExitStep, ExitWait, ExitPop, ExitPush, Apply, Seed,
               eventVars, clientVars, allVars
      <3> QED BY <1>2, <1>3, <3>1, <3>4, <3>5 DEF StartInv
    <2> QED BY <2>1, <2>2
  <1>4. ASSUME starts' = 0 PROVE control' \in {"idle", "unregister", "drain", "purge"}
    <2>1. starts = 0 /\ ~Start /\ control \in {"idle", "unregister", "drain", "purge"}
      BY <1>2, <1>4 DEF Start, StartInv
    <2>2. CASE \E q \in Processes : LifeStep(q) \/ CallbackStep(q)
      BY <2>1, <2>2 DEF LifeStep, CallbackStep, Create, Exit, Reap, NotifyCreate, Classify,
             PushCreated, NotifyExit, MarkExited, DeferExited
    <2>3. CASE Stop \/ Unregister \/ CallbacksDone \/ Purge \/ UNCHANGED vars
      BY <2>1, <2>3 DEF Stop, Unregister, CallbacksDone, Purge, vars
    <2>4. ~(\/ Register \/ Activate \/ Query \/ Visit \/ VisitParent \/ Image \/ SnapClassify
            \/ SnapPush \/ EndPass)
      BY <2>1 DEF Register, Activate, Query, Visit, VisitParent, Image, SnapClassify, SnapPush,
                  EndPass
    <2> QED BY <1>1, <2>1, <2>2, <2>3, <2>4 DEF Next, Serve
  <1>5. ASSUME Quiet' PROVE Empty'
    <2>1. Quiet /\ Empty
      BY <1>1, <1>5, QuietBefore
    <2>2. control \in {"idle", "unregister", "drain", "purge", "register", "activate"}
      BY <2>1 DEF Quiet, StartInv
    <2>3. ~active'
      <3>1. ~Activate
        <4>1. Activate => starts' = starts /\ control' = "query" /\ control = "activate"
          BY DEF Activate
        <4>2. control = "activate" => starts # 0
          BY DEF StartInv
        <4> QED BY <1>5, <4>1, <4>2 DEF Quiet
      <3> QED BY <1>1, <2>1, <3>1, StartCounts DEF Empty
    <2>4. CASE UNCHANGED allVars
      BY <2>1, <2>4 DEF allVars, vars, eventVars, driverVars, exitVars, clientVars, Empty
    <2>5. CASE \E p \in Processes : (LifeStep(p) /\ UNCHANGED eventVars) \/ CallbackEvents(p)
      <3> PICK p \in Processes : (LifeStep(p) /\ UNCHANGED eventVars) \/ CallbackEvents(p)
        BY <2>5
      <3>1. proc[p].life \notin InCallback /\ proc[p] \in ProcessRecord
        BY <2>1 DEF Empty, PInv, ProcTypes
      <3>2. LifeStep(p) \/ NotifyCreate(p) \/ NotifyExit(p)
        BY <3>1 DEF CallbackEvents, Classify, PushedByCallback, PushCreated, MarkExited,
                    ListExited, SignalExited, DeferExited, InCallback
      <3>3. UNCHANGED eventVars
        BY <3>1 DEF CallbackEvents, PushedByCallback, PushCreated, ListExited, SignalExited,
                    DeferExited, InCallback
      <3>4. UNCHANGED table
        BY <3>2 DEF LifeStep, Create, Exit, Reap, NotifyCreate, NotifyExit, driverVars
      <3>5. proc'[p].life \notin InCallback /\ \A q \in Processes : q # p => proc'[q] = proc[q]
        BY <2>1, <3>1, <3>2 DEF LifeStep, Create, Exit, Reap, NotifyCreate, NotifyExit, SetLife,
               PInv, ProcTypes, ProcessRecord, InCallback, Absent, Empty
      <3>6. \A q \in Processes : proc'[q].life \notin InCallback
        BY <2>1, <3>5 DEF Empty
      <3> QED BY <2>1, <2>3, <3>3, <3>4, <3>6 DEF Empty, eventVars, exitVars, clientVars
    <2>6. CASE ServeEvents \/ ClientStart \/ (Stop /\ UNCHANGED eventVars)
      <3>1. UNCHANGED <<deferred, exitWorker, inbox, tree, seeded>>
        BY <2>2, <2>6 DEF ServeEvents, PushedBySnapshot, SnapPush, ClientStart, eventVars, exitVars,
               clientVars
      <3>2. \A p \in Processes : proc'[p].life \notin InCallback
        <4>1. CASE Stop
          <5>1. \A p \in Processes : proc'[p] = [proc[p] EXCEPT !.due = FALSE]
            BY <4>1 DEF Stop
          <5>2. \A p \in Processes : proc'[p].life = proc[p].life
            BY <5>1 DEF PInv, ProcTypes, ProcessRecord
          <5> QED BY <2>1, <5>2 DEF Empty
        <4>2. CASE ~Stop
          <5>1. UNCHANGED proc
            BY <2>6, <4>2 DEF ServeEvents, PushedBySnapshot, ClientStart, Start, Serve, Register,
                   Activate, Query, Visit, VisitParent, Image, SnapClassify, SnapPush, EndPass,
                   Unregister, CallbacksDone, Purge
          <5> QED BY <2>1, <5>1 DEF Empty
        <4> QED BY <4>1, <4>2
      <3>3. table' = {}
        <4>1. ~SnapClassify
          BY <2>2 DEF SnapClassify
        <4>2. table' = table \/ table' = {}
          BY <2>6, <4>1 DEF ServeEvents, PushedBySnapshot, ClientStart, Start, Stop, Serve,
                 Register, Activate, Query, Visit, VisitParent, Image, SnapPush, EndPass,
                 Unregister, CallbacksDone, Purge, driverVars
        <4> QED BY <2>1, <4>2 DEF Empty
      <3> QED BY <2>1, <2>3, <3>1, <3>2, <3>3 DEF Empty
    <2>7. CASE ExitStep \/ Apply
      <3>1. ~ExitPush /\ ~Apply
        BY <2>1 DEF ExitPush, Apply, Empty
      <3>2. UNCHANGED <<vars, deferred, inbox, tree, seeded>> /\ exitWorker' # "push"
        BY <2>1, <2>7, <3>1 DEF ExitStep, ExitWait, ExitPop, clientVars, Empty
      <3> QED BY <2>1, <2>3, <3>2 DEF Empty, vars, driverVars
    <2>8. CASE Seed
      <3>1. PICK dump \in SUBSET table :
               tree' = Built(dump) /\ seeded' = IF dump = table THEN "whole" ELSE "cut"
        BY <2>8 DEF Seed
      <3>2. dump = {} /\ table = {}
        BY <2>1, <3>1 DEF Empty
      <3>3. tree' = [k \in Pids |-> NoNode]
        BY <3>1, <3>2 DEF Built
      <3>4. UNCHANGED <<vars, deferred, exitWorker, inbox>> /\ seeded' # "cut"
        BY <2>8, <3>1, <3>2 DEF Seed, exitVars
      <3> QED BY <2>1, <2>3, <3>3, <3>4 DEF Empty, vars, driverVars
    <2>9. CASE Restart
      <3>1. UNCHANGED <<vars, deferred, exitWorker>> /\ inbox' = << >> /\ seeded' = "no"
            /\ tree' = [k \in Pids |-> NoNode]
        BY <2>9 DEF Restart, exitVars
      <3> QED BY <2>1, <2>3, <3>1 DEF Empty, vars, driverVars
    <2> QED BY <2>4, <2>5, <2>6, <2>7, <2>8, <2>9 DEF EventsNext
  <1> QED BY <1>3, <1>4, <1>5 DEF StartInv
-----------------------------------------------------------------------------
(* What a step does with the events, while every one arrives. *)

\* Steps that send nothing.
Silent ==
    /\ UNCHANGED <<inbox, tree, deferred, pushing, signalling>>
    /\ \/ \E p \in Processes :
             LifeStep(p) \/ NotifyCreate(p) \/ Classify(p) \/ NotifyExit(p) \/ MarkExited(p)
       \/ Start \/ (Stop /\ Quiet) \/ (Serve /\ control # "push") \/ UNCHANGED vars

Announces(p) ==
    /\ PushCreated(p)
    /\ inbox' = Append(inbox, Created(proc[p].pid, proc[p].ppid, proc[p].image, FALSE))
    /\ UNCHANGED <<tree, deferred, pushing, signalling>>

SnapAnnounces ==
    /\ SnapPush
    /\ inbox' = Append(inbox, Created(snap.row.pid, snap.row.ppid, snap.isRoot, TRUE))
    /\ UNCHANGED <<tree, deferred, pushing, signalling>>

Lists(p) ==
    /\ proc[p].life = "defer" /\ p \notin signalling
    /\ deferred' = Append(deferred, Exited(proc[p].pid))
    /\ signalling' = signalling \union {p}
    /\ UNCHANGED <<vars, inbox, tree, pushing>>

Signals(p) ==
    /\ p \in signalling /\ DeferExited(p)
    /\ signalling' = signalling \ {p}
    /\ UNCHANGED <<inbox, tree, deferred, pushing>>

TakesExit ==
    /\ deferred # << >> /\ pushing = NoEvent
    /\ pushing' = Head(deferred) /\ deferred' = Tail(deferred)
    /\ UNCHANGED <<vars, inbox, tree, signalling>>

PushesExit ==
    /\ pushing \in Event /\ pushing' = NoEvent /\ inbox' = Append(inbox, pushing)
    /\ UNCHANGED <<vars, tree, deferred, signalling>>

Applies ==
    /\ inbox # << >> /\ inbox' = Tail(inbox)
    /\ tree' = IF Head(inbox).type = "created" THEN AppliedCreate(Head(inbox))
               ELSE AppliedExit(Head(inbox))
    /\ UNCHANGED <<vars, deferred, pushing, signalling>>

Seeds ==
    /\ \E dump \in SUBSET table :
          tree' = Built(dump) /\ (seeded' # "cut" => dump = table)
    /\ UNCHANGED <<vars, inbox, deferred, pushing, signalling>>

LEMMA EventCases ==
    ASSUME PInv, EventTypes, StartInv, [EventsNext]_allVars, Following'
    PROVE  \/ Silent
           \/ \E p \in Processes : Announces(p) \/ Lists(p) \/ Signals(p)
           \/ SnapAnnounces \/ TakesExit \/ PushesExit \/ Applies \/ Seeds
  <1>1. Following /\ (starts = 1 => reader) /\ UNCHANGED <<lost, restarts>>
    BY FollowingBefore
  <1>2. lost \in Nat /\ restarts \in Nat /\ ~Lose /\ ~Restart
    <2>1. lost \in Nat /\ restarts \in Nat
      BY ProcessEventsAssumption DEF EventTypes, ClientTypes
    <2> QED BY <1>1, <2>1 DEF Lose, Restart
  <1>3. starts = 1 \/ Empty
    BY <1>1 DEF Following, StartInv, Quiet
  <1>4. ASSUME ~Empty, NEW e, Push(e) PROVE inbox' = Append(inbox, e)
    BY <1>1, <1>2, <1>3, <1>4 DEF Push
  <1>5. CASE UNCHANGED allVars
    BY <1>5 DEF allVars, eventVars, exitVars, clientVars, Silent
  <1>6. ASSUME NEW p \in Processes, (LifeStep(p) /\ UNCHANGED eventVars) \/ CallbackEvents(p)
        PROVE  Silent \/ Announces(p) \/ Lists(p) \/ Signals(p)
    <2>1. CASE UNCHANGED eventVars /\ (\/ LifeStep(p) \/ NotifyCreate(p) \/ Classify(p)
                                       \/ NotifyExit(p) \/ MarkExited(p))
      BY <2>1 DEF eventVars, exitVars, clientVars, Silent
    <2>2. CASE PushedByCallback(p)
      <3>1. ~Empty
        BY <2>2 DEF PushedByCallback, PushCreated, Empty, InCallback
      <3> QED BY <1>4, <2>2, <3>1 DEF PushedByCallback, exitVars, Announces
    <2>3. CASE ListExited(p)
      BY <1>2, <2>3 DEF ListExited, clientVars, Lists
    <2>4. CASE SignalExited(p)
      BY <2>4 DEF SignalExited, clientVars, Signals
    <2> QED BY <1>6, <2>1, <2>2, <2>3, <2>4 DEF CallbackEvents
  <1>7. CASE ServeEvents
    <2>1. CASE Serve /\ control # "push" /\ UNCHANGED eventVars
      BY <2>1 DEF eventVars, exitVars, clientVars, Silent
    <2>2. CASE PushedBySnapshot
      <3>1. ~Empty
        BY <2>2 DEF PushedBySnapshot, SnapPush, PInv, ControlInv, HasRow, Empty
      <3> QED BY <1>4, <2>2, <3>1 DEF PushedBySnapshot, exitVars, SnapAnnounces
    <2> QED BY <1>7, <2>1, <2>2 DEF ServeEvents
  <1>8. CASE ClientStart
    BY <1>8 DEF ClientStart, exitVars, Silent
  <1>9. CASE Stop /\ UNCHANGED eventVars
    <2>1. Quiet'
      BY <1>9 DEF Stop, Following
    <2>2. Quiet
      BY <1>9, <2>1, QuietBefore DEF Next
    <2> QED BY <1>9, <2>2 DEF eventVars, exitVars, clientVars, Silent
  <1>10. CASE ExitWait \/ (ExitPop /\ deferred = << >>)
    BY <1>10 DEF ExitWait, ExitPop, clientVars, Silent
  <1>11. CASE ExitPop /\ deferred # << >>
    <2>1. pushing = NoEvent
      BY <1>11 DEF ExitPop, EventTypes, ExitTypes
    <2> QED BY <1>11, <2>1 DEF ExitPop, clientVars, TakesExit
  <1>12. CASE ExitPush
    <2>1. pushing \in Event /\ ~Empty
      BY <1>12 DEF ExitPush, EventTypes, ExitTypes, Empty
    <2> QED BY <1>4, <1>12, <2>1 DEF ExitPush, PushesExit
  <1>13. CASE Apply
    BY <1>13 DEF Apply, exitVars, Applies
  <1>14. CASE Seed
    BY <1>14 DEF Seed, exitVars, Seeds
  <1> QED BY <1>2, <1>5, <1>6, <1>7, <1>8, <1>9, <1>10, <1>11, <1>12, <1>13, <1>14
          DEF EventsNext, ExitStep

\* The inbox after a push: the event is the last.
LEMMA Pushed ==
    ASSUME EventTypes, NEW e \in Event, inbox' = Append(inbox, e)
    PROVE  /\ Len(inbox) \in Nat /\ Len(inbox') = Len(inbox) + 1
           /\ \A i \in 1 .. Len(inbox) : i \in 1 .. Len(inbox') /\ inbox'[i] = inbox[i]
           /\ Len(inbox') \in 1 .. Len(inbox') /\ inbox'[Len(inbox')] = e
           /\ \A i \in 1 .. Len(inbox') : i \in 1 .. Len(inbox) \/ i = Len(inbox')
  <1>1. /\ Len(inbox) \in Nat /\ Len(inbox') = Len(inbox) + 1
        /\ \A i \in 1 .. Len(inbox) : inbox'[i] = inbox[i]
        /\ inbox'[Len(inbox) + 1] = e
    BY Longer DEF EventTypes, ClientTypes
  <1> QED BY <1>1

\* The inbox after its head is applied: every event is one place on.
LEMMA Applied ==
    ASSUME EventTypes, inbox # << >>, inbox' = Tail(inbox)
    PROVE  /\ Head(inbox) \in Event /\ Head(inbox) = inbox[1] /\ Len(inbox) \in Nat
           /\ 1 \in 1 .. Len(inbox)
           /\ \A i \in 1 .. Len(inbox') : i \in Nat /\ i + 1 \in 1 .. Len(inbox)
                                          /\ inbox'[i] = inbox[i + 1]
           /\ \A i \in 1 .. Len(inbox) : i \in Nat /\ (i = 1 \/
                  (i - 1 \in 1 .. Len(inbox') /\ inbox'[i - 1] = inbox[i]))
  <1>1. /\ Head(inbox) \in Event /\ Head(inbox) = inbox[1] /\ Len(inbox) \in Nat \ {0}
        /\ Len(inbox') = Len(inbox) - 1
        /\ \A i \in 1 .. Len(inbox') : i + 1 \in 1 .. Len(inbox) /\ inbox'[i] = inbox[i + 1]
    BY HeadAndTail DEF EventTypes, ClientTypes
  <1>2. ASSUME NEW i \in 1 .. Len(inbox), i # 1
        PROVE  i - 1 \in 1 .. Len(inbox') /\ inbox'[i - 1] = inbox[i]
    <2>1. PICK j : j = i - 1
      OBVIOUS
    <2>2. j \in 1 .. Len(inbox') /\ j + 1 = i
      BY <1>1, <1>2, <2>1
    <2>3. inbox'[j] = inbox[i]
      BY <1>1, <2>2
    <2> QED BY <2>1, <2>2, <2>3
  <1>3. 1 \in 1 .. Len(inbox)
    BY <1>1
  <1>4. \A i \in 1 .. Len(inbox) : i \in Nat
    BY <1>1
  <1>5. \A i \in 1 .. Len(inbox') : i \in Nat
    BY <1>1
  <1> QED BY <1>1, <1>2, <1>3, <1>4, <1>5

\* One process or one pid has its tree node made or stamped.
LEMMA TreeApplied ==
    ASSUME EventTypes, NEW e \in Event
    PROVE  /\ e.pid \in Pids
           /\ AppliedCreate(e)[e.pid] = (IF Shown(e.pid) THEN tree[e.pid] ELSE NodeOf(e))
           /\ AppliedExit(e)[e.pid].state = (IF Shown(e.pid) THEN "exited" ELSE tree[e.pid].state)
           /\ AppliedExit(e)[e.pid].under = tree[e.pid].under
           /\ \A k \in Pids \ {e.pid} : AppliedCreate(e)[k] = tree[k] /\ AppliedExit(e)[k] = tree[k]
  <1>1. e.pid \in Pids /\ tree \in [Pids -> Node]
    BY DEF Event, EventTypes, ClientTypes
  <1>2. tree[e.pid] \in Node
    BY <1>1
  <1>3. AppliedExit(e) = IF Shown(e.pid)
                         THEN [tree EXCEPT ![e.pid] = [tree[e.pid] EXCEPT !.state = "exited"]]
                         ELSE tree
    BY DEF AppliedExit
  <1>4. AppliedExit(e)[e.pid].state = (IF Shown(e.pid) THEN "exited" ELSE tree[e.pid].state)
    BY <1>1, <1>2, <1>3 DEF Node
  <1>5. \A k \in Pids \ {e.pid} : AppliedExit(e)[k] = tree[k]
    BY <1>1, <1>3
  <1>6. AppliedCreate(e)[e.pid] = (IF Shown(e.pid) THEN tree[e.pid] ELSE NodeOf(e))
    BY <1>1 DEF AppliedCreate
  <1>7. \A k \in Pids \ {e.pid} : AppliedCreate(e)[k] = tree[k]
    BY <1>1 DEF AppliedCreate
  <1>8. AppliedExit(e)[e.pid].under = tree[e.pid].under
    BY <1>1, <1>2, <1>3 DEF Node
  <1> QED BY <1>1, <1>4, <1>5, <1>6, <1>7, <1>8

\* The nodes of a reply are those of its entries.
LEMMA BuiltNodes ==
    ASSUME PInv, NEW dump \in SUBSET table, NEW k \in Pids
    PROVE  /\ (\A e \in dump : e.pid # k) => Built(dump)[k].state = "none"
           /\ \A e \in dump : e.pid = k =>
                 /\ Built(dump)[k].state = "live" /\ Built(dump)[k].snap = e.snap
                 /\ (\E f \in dump : f.pid = e.ppid) => Built(dump)[k].under = e.ppid
  <1>1. ASSUME \A e \in dump : e.pid # k PROVE Built(dump)[k].state = "none"
    BY <1>1 DEF Built, NoNode
  <1>2. ASSUME NEW e \in dump, e.pid = k
        PROVE  /\ Built(dump)[k].state = "live" /\ Built(dump)[k].snap = e.snap
               /\ (\E f \in dump : f.pid = e.ppid) => Built(dump)[k].under = e.ppid
    <2>1. (CHOOSE f \in dump : f.pid = k) = e
      BY <1>2 DEF PInv, TableInv, OneEntry
    <2>2. Built(dump)[k] =
             [state |-> "live", isRoot |-> e.root = k, snap |-> e.snap,
              under |-> IF \E f \in dump : f.pid = e.ppid THEN e.ppid ELSE NoPid]
      BY <1>2, <2>1 DEF Built
    <2> QED BY <2>2
  <1> QED BY <1>1, <1>2
-----------------------------------------------------------------------------
(* Exits. *)

\* An exit that the client has yet to be told of.
Leaving(k) ==
    \/ \E p \in Processes : Holds(p, k) /\ proc[p].life = "defer" /\ p \notin signalling
    \/ \E i \in 1 .. Len(deferred) : deferred[i].pid = k
    \/ pushing # NoEvent /\ pushing.pid = k

ExitAfter(k, i) ==
    \E j \in 1 .. Len(inbox) : j > i /\ inbox[j].type = "exited" /\ inbox[j].pid = k

\* What has been announced by a callback is tracked, or its exit comes later.
LeaveInv ==
    Following =>
        /\ \A p \in Processes : proc[p].life = "pushCreated" => Tracked(proc[p].pid)
        /\ \A i \in 1 .. Len(deferred) : deferred[i].type = "exited"
        /\ pushing # NoEvent => pushing.type = "exited"
        /\ \A k \in Pids : tree[k].state = "live" /\ ~tree[k].snap =>
              Tracked(k) \/ Leaving(k) \/ ExitAfter(k, 0)
        /\ \A i \in 1 .. Len(inbox) : inbox[i].type = "created" /\ ~inbox[i].snap =>
              Tracked(inbox[i].pid) \/ Leaving(inbox[i].pid) \/ ExitAfter(inbox[i].pid, i)

\* Only an exit takes an entry away, and its process goes on to report it.
LEMMA SilentTable ==
    ASSUME PInv, StartInv, Following, Silent
    PROVE  /\ \A p \in Processes : proc[p].life = "defer" =>
                 proc'[p].life = "defer" /\ proc'[p].pid = proc[p].pid
           /\ \A k : Tracked(k) => Tracked(k)' \/ \E p \in Processes :
                 proc[p].life = "mark" /\ Holds(p, k)' /\ proc'[p].life = "defer"
           /\ \A p \in Processes : proc'[p].life = "pushCreated" =>
                 \/ proc[p].life = "pushCreated" /\ proc'[p].pid = proc[p].pid
                 \/ \A k : k = proc'[p].pid => Tracked(k)'
  <1>1. ASSUME NEW p \in Processes, LifeStep(p) \/ NotifyCreate(p) \/ NotifyExit(p)
        PROVE  /\ UNCHANGED table /\ proc'[p].life # "pushCreated" /\ proc[p].life # "defer"
               /\ \A q \in Processes : q # p => proc'[q] = proc[q]
    <2>1. UNCHANGED table
      BY <1>1 DEF LifeStep, Create, Exit, Reap, NotifyCreate, NotifyExit, driverVars
    <2>2. proc[p] \in ProcessRecord
      BY DEF PInv, ProcTypes
    <2> QED BY <1>1, <2>1, <2>2 DEF LifeStep, Create, Exit, Reap, NotifyCreate, NotifyExit, SetLife,
                 PInv, ProcTypes, ProcessRecord, Absent
  <1>2. CASE \E p \in Processes : LifeStep(p) \/ NotifyCreate(p) \/ NotifyExit(p)
    <2> PICK p \in Processes : LifeStep(p) \/ NotifyCreate(p) \/ NotifyExit(p)
      BY <1>2
    <2>1. \A k : Tracked(k) => Tracked(k)'
      BY <1>1 DEF Tracked
    <2>2. \A q \in Processes : q # p => proc'[q] = proc[q]
      BY <1>1
    <2>3. proc'[p].life # "pushCreated" /\ proc[p].life # "defer"
      BY <1>1
    <2> QED BY <2>1, <2>2, <2>3
  <1>3. CASE \E p \in Processes : Classify(p)
    <2> PICK p \in Processes : Classify(p)
      BY <1>3
    <2>1. proc[p].life = "classify" /\ (\A q \in Processes : q # p => proc'[q] = proc[q])
          /\ proc'[p].pid = proc[p].pid
      BY DEF Classify, SetLife, PInv, ProcTypes, ProcessRecord
    <2>2. \A k : Tracked(k) => Tracked(k)'
      BY DEF Classify, Insert, Tracked
    <2>3. proc'[p].life = "pushCreated" => \A k : k = proc[p].pid => Tracked(k)'
      <3>1. proc'[p].life = "pushCreated" =>
               Insert(proc[p].pid, proc[p].ppid, proc[p].image, FALSE)
        BY DEF Classify, SetLife, PInv, ProcTypes, ProcessRecord
      <3>2. PICK e : e = [pid |-> proc[p].pid, ppid |-> proc[p].ppid,
                          root |-> Lineage(proc[p].pid, proc[p].ppid, proc[p].image),
                          snap |-> FALSE]
        OBVIOUS
      <3>3. proc'[p].life = "pushCreated" => e \in table' /\ e.pid = proc[p].pid
        BY <3>1, <3>2 DEF Insert
      <3> QED BY <3>3 DEF Tracked
    <2> QED BY <2>1, <2>2, <2>3
  <1>4. CASE \E p \in Processes : MarkExited(p)
    <2> PICK p \in Processes : MarkExited(p)
      BY <1>4
    <2>1. proc[p].life = "mark" /\ (\A q \in Processes : q # p => proc'[q] = proc[q])
          /\ proc'[p].pid = proc[p].pid /\ proc'[p].life \in {"defer", "zombie"}
      BY DEF MarkExited, SetLife, PInv, ProcTypes, ProcessRecord
    <2>2. \A k : Tracked(k) => Tracked(k)' \/ (proc'[p].life = "defer" /\ k = proc[p].pid)
      BY DEF MarkExited, SetLife, PInv, ProcTypes, ProcessRecord, Tracked
    <2>3. proc'[p].life = "defer" => \A k : k = proc[p].pid => Holds(p, k)'
      BY <2>1 DEF Holds, Listed, InCallback
    <2> QED BY <2>1, <2>2, <2>3
  <1>5. CASE Start \/ (Stop /\ Quiet) \/ (Serve /\ control # "push") \/ UNCHANGED vars
    <2>1. \A q \in Processes : proc'[q].life = proc[q].life /\ proc'[q].pid = proc[q].pid
      <3>1. CASE Stop
        <4>1. \A q \in Processes : proc'[q] = [proc[q] EXCEPT !.due = FALSE]
          BY <3>1 DEF Stop
        <4> QED BY <4>1 DEF PInv, ProcTypes, ProcessRecord
      <3>2. CASE ~Stop
        BY <1>5, <3>2 DEF Start, Serve, Register, Activate, Query, Visit, VisitParent, Image,
               SnapClassify, SnapPush, EndPass, Unregister, CallbacksDone, Purge, vars
      <3> QED BY <3>1, <3>2
    <2>2. \A k : Tracked(k) => Tracked(k)'
      <3>1. CASE Purge
        <4>1. Quiet
          BY <3>1 DEF Purge, PInv, ControlInv, Following
        <4> QED BY <4>1 DEF StartInv, Empty, Tracked
      <3>2. CASE SnapClassify
        BY <3>2 DEF SnapClassify, Insert, Tracked
      <3>3. CASE ~Purge /\ ~SnapClassify
        BY <1>5, <3>3 DEF Start, Stop, Serve, Register, Activate, Query, Visit, VisitParent, Image,
               SnapPush, EndPass, Unregister, CallbacksDone, vars, driverVars, Tracked
      <3> QED BY <3>1, <3>2, <3>3
    <2> QED BY <2>1, <2>2
  <1> QED BY <1>2, <1>3, <1>4, <1>5 DEF Silent

\* Every step keeps what LeaveInv says of the steps before.
LEMMA LeaveStep ==
    ASSUME PInv, PInv', EventTypes, EventTypes', StartInv, LeaveInv, [EventsNext]_allVars
    PROVE  LeaveInv'
  <1> SUFFICES ASSUME Following'
               PROVE  /\ \A p \in Processes : proc'[p].life = "pushCreated" => Tracked(proc[p].pid)'
                      /\ \A i \in 1 .. Len(deferred') : deferred'[i].type = "exited"
                      /\ pushing' # NoEvent => pushing'.type = "exited"
                      /\ \A k \in Pids : tree'[k].state = "live" /\ ~tree'[k].snap =>
                            Tracked(k)' \/ Leaving(k)' \/ ExitAfter(k, 0)'
                      /\ \A i \in 1 .. Len(inbox') : inbox'[i].type = "created" /\ ~inbox'[i].snap =>
                            \A k \in Pids : k = inbox'[i].pid =>
                                Tracked(k)' \/ Leaving(k)' \/ ExitAfter(k, i)'
    <2>1. \A i \in 1 .. Len(inbox') : inbox'[i].pid \in Pids
      <3>1. inbox' \in Seq(Event)
        BY DEF EventTypes, ClientTypes
      <3>2. \A i \in 1 .. Len(inbox') : inbox'[i] \in Event
        BY <3>1, ElementOfSeq
      <3> QED BY <3>2 DEF Event
    <2> QED BY <2>1 DEF LeaveInv, Tracked, Leaving, ExitAfter, Holds
  <1>1. Following
    BY FollowingBefore
  <1>2. /\ \A p \in Processes : proc[p].life = "pushCreated" => Tracked(proc[p].pid)
        /\ \A i \in 1 .. Len(deferred) : deferred[i].type = "exited"
        /\ pushing # NoEvent => pushing.type = "exited"
        /\ \A k \in Pids : tree[k].state = "live" /\ ~tree[k].snap =>
              Tracked(k) \/ Leaving(k) \/ ExitAfter(k, 0)
        /\ \A i \in 1 .. Len(inbox) : inbox[i].type = "created" /\ ~inbox[i].snap =>
              Tracked(inbox[i].pid) \/ Leaving(inbox[i].pid) \/ ExitAfter(inbox[i].pid, i)
    BY <1>1 DEF LeaveInv
  <1>3. CASE Silent
    <2>1. /\ \A p \in Processes : proc[p].life = "defer" =>
                proc'[p].life = "defer" /\ proc'[p].pid = proc[p].pid
          /\ \A k : Tracked(k) => Tracked(k)' \/ \E p \in Processes :
                proc[p].life = "mark" /\ Holds(p, k)' /\ proc'[p].life = "defer"
          /\ \A p \in Processes : proc'[p].life = "pushCreated" =>
                \/ proc[p].life = "pushCreated" /\ proc'[p].pid = proc[p].pid
                \/ \A k : k = proc'[p].pid => Tracked(k)'
      BY <1>1, <1>3, SilentTable
    <2>2. UNCHANGED <<inbox, tree, deferred, pushing, signalling>>
      BY <1>3 DEF Silent
    <2>3. \A p \in Processes : proc[p].life = "mark" => p \notin signalling
      BY DEF EventTypes, SignalTypes
    <2>4. \A k : Tracked(k) => Tracked(k)' \/ Leaving(k)'
      BY <2>1, <2>2, <2>3 DEF Leaving
    <2>5. \A k : Leaving(k) => Leaving(k)'
      BY <2>1, <2>2 DEF Leaving, Holds, Listed, InCallback
    <2>6. \A k, i : ExitAfter(k, i) => ExitAfter(k, i)'
      BY <2>2 DEF ExitAfter
    <2>7. ASSUME NEW p \in Processes, proc'[p].life = "pushCreated" PROVE Tracked(proc[p].pid)'
      <3>1. PICK k : k = proc'[p].pid
        OBVIOUS
      <3>2. CASE proc[p].life = "pushCreated" /\ proc'[p].pid = proc[p].pid
        <4>1. Tracked(k)
          BY <1>2, <3>1, <3>2
        <4>2. \A q \in Processes : Holds(q, k)' => q = p
          BY <2>7, <3>1 DEF PInv, PidInv, Listed, InCallback
        <4>3. Tracked(k)'
          BY <2>1, <2>7, <4>1, <4>2
        <4> QED BY <3>1, <4>3 DEF Tracked
      <3>3. CASE \A j : j = proc'[p].pid => Tracked(j)'
        BY <3>1, <3>3 DEF Tracked
      <3> QED BY <2>1, <2>7, <3>2, <3>3
    <2> QED BY <1>2, <2>2, <2>4, <2>5, <2>6, <2>7
  <1>4. CASE \E p \in Processes : Announces(p)
    <2> PICK p \in Processes : Announces(p)
      BY <1>4
    <2>1. PICK e : e = Created(proc[p].pid, proc[p].ppid, proc[p].image, FALSE)
      OBVIOUS
    <2>2. /\ inbox' = Append(inbox, e) /\ UNCHANGED <<table, tree, deferred, pushing, signalling>>
          /\ proc[p].life = "pushCreated" /\ SetLife(p, "running") /\ e.pid = proc[p].pid
      BY <2>1 DEF Announces, PushCreated, driverVars, Created
    <2>3. e \in Event
      <3>1. proc[p].pid \in Pids
        BY <2>2 DEF PInv, PidInv, Listed, InCallback
      <3>2. proc[p].ppid \in Pids \union {NoPid} /\ proc[p].image \in BOOLEAN
        BY DEF PInv, ProcTypes, ProcessRecord
      <3> QED BY <2>1, <3>1, <3>2 DEF Created, Event
    <2>4. /\ \A q \in Processes : proc'[q].pid = proc[q].pid
          /\ \A q \in Processes : q # p => proc'[q].life = proc[q].life
          /\ proc'[p].life = "running"
      BY <2>2 DEF SetLife, PInv, ProcTypes, ProcessRecord
    <2>5. \A k : (Tracked(k) => Tracked(k)') /\ (Leaving(k) => Leaving(k)')
      BY <2>2, <2>4 DEF Tracked, Leaving, Holds
    <2>6. \A k, i : ExitAfter(k, i) => ExitAfter(k, i)'
      BY <2>2, <2>3, Pushed DEF ExitAfter
    <2>7. Tracked(e.pid)
      BY <1>2, <2>2
    <2>8. ASSUME NEW i \in 1 .. Len(inbox'), inbox'[i].type = "created", ~inbox'[i].snap,
                 NEW k \in Pids, k = inbox'[i].pid
          PROVE  Tracked(k)' \/ Leaving(k)' \/ ExitAfter(k, i)'
      BY <1>2, <2>2, <2>3, <2>5, <2>6, <2>7, <2>8, Pushed
    <2>9. \A q \in Processes : proc'[q].life = "pushCreated" => Tracked(proc[q].pid)'
      BY <1>2, <2>2, <2>4 DEF Tracked
    <2> QED BY <1>2, <2>2, <2>5, <2>6, <2>8, <2>9
  <1>5. CASE SnapAnnounces
    <2>1. PICK e : e = Created(snap.row.pid, snap.row.ppid, snap.isRoot, TRUE)
      OBVIOUS
    <2>2. /\ inbox' = Append(inbox, e)
          /\ UNCHANGED <<proc, table, tree, deferred, pushing, signalling>> /\ e.snap = TRUE
      BY <1>5, <2>1 DEF SnapAnnounces, SnapPush, driverVars, Created
    <2>3. e \in Event
      <3>1. snap.row \in Row /\ snap.isRoot \in BOOLEAN
        BY <1>5 DEF SnapAnnounces, SnapPush, PInv, ControlInv, HasRow, SnapTypes, Snaps
      <3> QED BY <2>1, <3>1 DEF Created, Event, Row
    <2>4. \A k : (Tracked(k) => Tracked(k)') /\ (Leaving(k) => Leaving(k)')
      BY <2>2 DEF Tracked, Leaving, Holds
    <2>5. \A k, i : ExitAfter(k, i) => ExitAfter(k, i)'
      BY <2>2, <2>3, Pushed DEF ExitAfter
    <2>6. ASSUME NEW i \in 1 .. Len(inbox'), inbox'[i].type = "created", ~inbox'[i].snap,
                 NEW k \in Pids, k = inbox'[i].pid
          PROVE  Tracked(k)' \/ Leaving(k)' \/ ExitAfter(k, i)'
      BY <1>2, <2>2, <2>3, <2>4, <2>5, <2>6, Pushed
    <2>7. \A q \in Processes : proc'[q].life = "pushCreated" => Tracked(proc[q].pid)'
      BY <1>2, <2>2 DEF Tracked
    <2> QED BY <1>2, <2>2, <2>4, <2>5, <2>6, <2>7
  <1>6. CASE \E p \in Processes : Lists(p)
    <2> PICK p \in Processes : Lists(p)
      BY <1>6
    <2>1. PICK e : e = Exited(proc[p].pid)
      OBVIOUS
    <2>2. /\ UNCHANGED <<proc, table, tree, inbox, pushing>> /\ signalling' = signalling \union {p}
          /\ deferred' = Append(deferred, e) /\ e.pid = proc[p].pid /\ e.type = "exited"
      BY <2>1 DEF Lists, vars, driverVars, Exited
    <2>3. e \in Event
      <3>1. proc[p].pid \in Pids
        BY DEF Lists, PInv, PidInv, Listed, InCallback
      <3> QED BY <2>1, <3>1 DEF Exited, Event
    <2>4. /\ Len(deferred) \in Nat /\ Len(deferred') = Len(deferred) + 1
          /\ \A i \in 1 .. Len(deferred) : i \in 1 .. Len(deferred') /\ deferred'[i] = deferred[i]
          /\ deferred'[Len(deferred')] = e
      BY <2>2, <2>3, Longer DEF EventTypes, ExitTypes
    <2>5. Len(deferred') \in 1 .. Len(deferred')
          /\ \A i \in 1 .. Len(deferred') : i \in 1 .. Len(deferred) \/ i = Len(deferred')
      BY <2>4
    <2>6. \A i \in 1 .. Len(deferred') : deferred'[i].type = "exited"
      BY <1>2, <2>2, <2>4, <2>5
    <2>7. \A k : Leaving(k) => Leaving(k)'
      BY <2>2, <2>4, <2>5 DEF Leaving, Holds
    <2>8. \A k : (Tracked(k) => Tracked(k)') /\ \A i : ExitAfter(k, i) => ExitAfter(k, i)'
      BY <2>2 DEF Tracked, ExitAfter
    <2> QED BY <1>2, <2>2, <2>6, <2>7, <2>8 DEF Tracked
  <1>7. CASE \E p \in Processes : Signals(p)
    <2> PICK p \in Processes : Signals(p)
      BY <1>7
    <2>1. /\ UNCHANGED <<table, tree, inbox, deferred, pushing>> /\ p \in signalling
          /\ signalling' = signalling \ {p} /\ SetLife(p, "zombie")
      BY DEF Signals, DeferExited, driverVars
    <2>2. /\ \A q \in Processes : proc'[q].pid = proc[q].pid
          /\ \A q \in Processes : q # p => proc'[q].life = proc[q].life
          /\ proc'[p].life = "zombie"
      BY <2>1 DEF SetLife, PInv, ProcTypes, ProcessRecord
    <2>3. \A k : Leaving(k) => Leaving(k)'
      BY <2>1, <2>2 DEF Leaving, Holds
    <2>4. \A k : (Tracked(k) => Tracked(k)') /\ \A i : ExitAfter(k, i) => ExitAfter(k, i)'
      BY <2>1 DEF Tracked, ExitAfter
    <2>5. \A q \in Processes : proc'[q].life = "pushCreated" => Tracked(proc[q].pid)'
      BY <1>2, <2>1, <2>2 DEF Tracked
    <2> QED BY <1>2, <2>1, <2>3, <2>4, <2>5
  <1>8. CASE TakesExit
    <2>1. /\ UNCHANGED <<proc, table, tree, inbox, signalling>> /\ pushing = NoEvent
          /\ deferred # << >> /\ pushing' = Head(deferred) /\ deferred' = Tail(deferred)
      BY <1>8 DEF TakesExit, vars, driverVars
    <2>2. /\ Head(deferred) \in Event /\ Head(deferred) = deferred[1]
          /\ Len(deferred) \in Nat \ {0} /\ Len(deferred') = Len(deferred) - 1
          /\ \A i \in 1 .. Len(deferred') : i + 1 \in 1 .. Len(deferred)
                                            /\ deferred'[i] = deferred[i + 1]
      BY <2>1, HeadAndTail DEF EventTypes, ExitTypes
    <2>3. 1 \in 1 .. Len(deferred)
      BY <2>2
    <2>4. ASSUME NEW i \in 1 .. Len(deferred), i # 1
          PROVE  \E j \in 1 .. Len(deferred') : deferred'[j] = deferred[i]
      <3>1. PICK j : j = i - 1
        OBVIOUS
      <3>2. j \in 1 .. Len(deferred') /\ j + 1 = i
        BY <2>2, <2>4, <3>1
      <3>3. deferred'[j] = deferred[i]
        BY <2>2, <3>2
      <3> QED BY <3>2, <3>3
    <2>5. pushing' # NoEvent /\ pushing' = deferred[1]
      BY <2>1, <2>2, ProcessEventsAssumption
    <2>6. \A k : Leaving(k) => Leaving(k)'
      BY <2>1, <2>4, <2>5 DEF Leaving, Holds
    <2>7. \A i \in 1 .. Len(deferred') : deferred'[i].type = "exited"
      BY <1>2, <2>2
    <2>8. pushing'.type = "exited"
      BY <1>2, <2>3, <2>5
    <2>9. \A k : (Tracked(k) => Tracked(k)') /\ \A i : ExitAfter(k, i) => ExitAfter(k, i)'
      BY <2>1 DEF Tracked, ExitAfter
    <2> QED BY <1>2, <2>1, <2>6, <2>7, <2>8, <2>9 DEF Tracked
  <1>9. CASE PushesExit
    <2>1. /\ UNCHANGED <<proc, table, tree, deferred, signalling>> /\ pushing \in Event
          /\ pushing # NoEvent /\ pushing' = NoEvent /\ inbox' = Append(inbox, pushing)
      BY <1>9, ProcessEventsAssumption DEF PushesExit, vars, driverVars
    <2>2. /\ Len(inbox) \in Nat /\ Len(inbox') = Len(inbox) + 1
          /\ \A i \in 1 .. Len(inbox) : i \in 1 .. Len(inbox') /\ inbox'[i] = inbox[i]
          /\ Len(inbox') \in 1 .. Len(inbox') /\ inbox'[Len(inbox')] = pushing
          /\ \A i \in 1 .. Len(inbox') : i \in 1 .. Len(inbox) \/ i = Len(inbox')
      BY <2>1, Pushed
    <2>3. pushing.type = "exited"
      BY <1>2, <2>1
    <2>4. \A k, i : ExitAfter(k, i) => ExitAfter(k, i)'
      BY <2>2 DEF ExitAfter
    <2>5. \A k : Leaving(k) => Leaving(k)' \/ k = pushing.pid
      BY <2>1 DEF Leaving, Holds
    <2>6. ASSUME NEW k, k = pushing.pid, NEW i, i = 0 \/ i \in 1 .. Len(inbox)
          PROVE  ExitAfter(k, i)'
      <3>1. Len(inbox') > i
        BY <2>2, <2>6
      <3> QED BY <2>2, <2>3, <2>6, <3>1 DEF ExitAfter
    <2>7. \A k : Tracked(k) => Tracked(k)'
      BY <2>1 DEF Tracked
    <2>8. \A k \in Pids : tree'[k].state = "live" /\ ~tree'[k].snap =>
             Tracked(k)' \/ Leaving(k)' \/ ExitAfter(k, 0)'
      BY <1>2, <2>1, <2>4, <2>5, <2>6, <2>7
    <2>9. ASSUME NEW i \in 1 .. Len(inbox'), inbox'[i].type = "created", ~inbox'[i].snap,
                 NEW k \in Pids, k = inbox'[i].pid
          PROVE  Tracked(k)' \/ Leaving(k)' \/ ExitAfter(k, i)'
      <3>1. i \in 1 .. Len(inbox)
        BY <2>2, <2>3, <2>9
      <3>2. inbox'[i] = inbox[i]
        BY <2>2, <3>1
      <3> QED BY <1>2, <2>4, <2>5, <2>6, <2>7, <2>9, <3>1, <3>2
    <2>10. \A q \in Processes : proc'[q].life = "pushCreated" => Tracked(proc[q].pid)'
      BY <1>2, <2>1 DEF Tracked
    <2> QED BY <1>2, <2>1, <2>8, <2>9, <2>10
  <1>10. CASE Applies
    <2>1. PICK e : e = Head(inbox)
      OBVIOUS
    <2>2. /\ UNCHANGED <<proc, table, deferred, pushing, signalling>>
          /\ inbox # << >> /\ inbox' = Tail(inbox)
          /\ tree' = IF e.type = "created" THEN AppliedCreate(e) ELSE AppliedExit(e)
      BY <1>10, <2>1 DEF Applies, vars, driverVars
    <2>3. /\ e \in Event /\ e = inbox[1] /\ Len(inbox) \in Nat /\ 1 \in 1 .. Len(inbox)
          /\ \A i \in 1 .. Len(inbox') : i \in Nat /\ i + 1 \in 1 .. Len(inbox)
                                         /\ inbox'[i] = inbox[i + 1]
          /\ \A i \in 1 .. Len(inbox) : i \in Nat /\ (i = 1 \/
                 (i - 1 \in 1 .. Len(inbox') /\ inbox'[i - 1] = inbox[i]))
      BY <2>1, <2>2, Applied
    <2>4. /\ e.pid \in Pids
          /\ AppliedCreate(e)[e.pid] = (IF Shown(e.pid) THEN tree[e.pid] ELSE NodeOf(e))
          /\ AppliedExit(e)[e.pid].state = (IF Shown(e.pid) THEN "exited" ELSE tree[e.pid].state)
          /\ \A k \in Pids \ {e.pid} : AppliedCreate(e)[k] = tree[k]
                                       /\ AppliedExit(e)[k] = tree[k]
      BY <2>3, TreeApplied
    <2>5. \A k : (Tracked(k) => Tracked(k)') /\ (Leaving(k) => Leaving(k)')
      BY <2>2 DEF Tracked, Leaving, Holds
    <2>6. ASSUME NEW k, NEW i \in Nat, ExitAfter(k, i + 1) PROVE ExitAfter(k, i)'
      <3>1. PICK j \in 1 .. Len(inbox) :
               j > i + 1 /\ inbox[j].type = "exited" /\ inbox[j].pid = k
        BY <2>6 DEF ExitAfter
      <3>2. j \in Nat /\ j # 1
        BY <2>3, <3>1
      <3>3. PICK h : h = j - 1
        OBVIOUS
      <3>4. h \in 1 .. Len(inbox') /\ inbox'[h] = inbox[j] /\ h > i
        BY <2>3, <3>1, <3>2, <3>3
      <3> QED BY <3>1, <3>4 DEF ExitAfter
    <2>7. ASSUME NEW k, ExitAfter(k, 0), ~(e.type = "exited" /\ e.pid = k) PROVE ExitAfter(k, 1)
      <3>1. PICK j \in 1 .. Len(inbox) : j > 0 /\ inbox[j].type = "exited" /\ inbox[j].pid = k
        BY <2>7 DEF ExitAfter
      <3>2. j # 1 /\ j \in Nat
        BY <2>3, <2>7, <3>1
      <3> QED BY <3>1, <3>2 DEF ExitAfter
    <2>8. ASSUME NEW k, ExitAfter(k, 1) PROVE ExitAfter(k, 0)'
      <3>1. 0 \in Nat /\ 0 + 1 = 1
        OBVIOUS
      <3> QED BY <2>6, <2>8, <3>1
    <2>9. ASSUME NEW k \in Pids, tree'[k].state = "live", ~tree'[k].snap
          PROVE  Tracked(k)' \/ Leaving(k)' \/ ExitAfter(k, 0)'
      <3>1. CASE k # e.pid
        <4>1. tree'[k] = tree[k]
          BY <2>2, <2>4, <3>1
        <4> QED BY <1>2, <2>5, <2>7, <2>8, <2>9, <3>1, <4>1
      <3>2. CASE k = e.pid /\ e.type # "created"
        <4>1. tree'[k].state = (IF Shown(k) THEN "exited" ELSE tree[k].state)
          BY <2>2, <2>4, <3>2
        <4> QED BY <2>9, <4>1 DEF Shown
      <3>3. CASE k = e.pid /\ e.type = "created" /\ Shown(k)
        <4>1. tree'[k] = tree[k]
          BY <2>2, <2>4, <3>3
        <4> QED BY <1>2, <2>5, <2>7, <2>8, <2>9, <3>3, <4>1
      <3>4. CASE k = e.pid /\ e.type = "created" /\ ~Shown(k)
        <4>1. tree'[k] = NodeOf(e)
          BY <2>2, <2>4, <3>4
        <4>2. ~e.snap
          BY <2>9, <4>1 DEF NodeOf
        <4>3. Tracked(k) \/ Leaving(k) \/ ExitAfter(k, 1)
          BY <1>2, <2>3, <3>4, <4>2
        <4> QED BY <2>5, <2>8, <4>3
      <3> QED BY <3>1, <3>2, <3>3, <3>4
    <2>10. ASSUME NEW i \in 1 .. Len(inbox'), inbox'[i].type = "created", ~inbox'[i].snap,
                  NEW k \in Pids, k = inbox'[i].pid
           PROVE  Tracked(k)' \/ Leaving(k)' \/ ExitAfter(k, i)'
      <3>1. i \in Nat /\ i + 1 \in 1 .. Len(inbox) /\ inbox'[i] = inbox[i + 1]
        BY <2>3
      <3>2. Tracked(k) \/ Leaving(k) \/ ExitAfter(k, i + 1)
        BY <1>2, <2>10, <3>1
      <3> QED BY <2>5, <2>6, <3>1, <3>2
    <2>11. \A q \in Processes : proc'[q].life = "pushCreated" => Tracked(proc[q].pid)'
      BY <1>2, <2>2 DEF Tracked
    <2> QED BY <1>2, <2>2, <2>9, <2>10, <2>11
  <1>11. CASE Seeds
    <2>1. PICK dump \in SUBSET table : tree' = Built(dump)
      BY <1>11 DEF Seeds
    <2>2. UNCHANGED <<proc, table, inbox, deferred, pushing, signalling>>
      BY <1>11 DEF Seeds, vars, driverVars
    <2>3. \A k : (Tracked(k) => Tracked(k)') /\ (Leaving(k) => Leaving(k)')
                 /\ \A i : ExitAfter(k, i) => ExitAfter(k, i)'
      BY <2>2 DEF Tracked, Leaving, Holds, ExitAfter
    <2>4. \A k \in Pids : tree'[k].state = "live" => Tracked(k)
      BY <2>1, BuiltNodes DEF Tracked
    <2>5. \A q \in Processes : proc'[q].life = "pushCreated" => Tracked(proc[q].pid)'
      BY <1>2, <2>2 DEF Tracked
    <2> QED BY <1>2, <2>2, <2>3, <2>4, <2>5
  <1> QED BY <1>3, <1>4, <1>5, <1>6, <1>7, <1>8, <1>9, <1>10, <1>11, EventCases

LEMMA LeaveInit == EventsInit => LeaveInv
  <1> SUFFICES ASSUME EventsInit PROVE LeaveInv
    OBVIOUS
  <1>1. /\ inbox = << >> /\ deferred = << >> /\ pushing = NoEvent
        /\ tree = [k \in Pids |-> NoNode] /\ proc = [p \in Processes |-> Absent("unborn")]
    BY DEF EventsInit, Init
  <1>2. Len(inbox) = 0 /\ Len(deferred) = 0
    BY <1>1
  <1> QED BY <1>1, <1>2 DEF LeaveInv, NoNode, Absent
-----------------------------------------------------------------------------
(* What the client is told, while no pid has been given twice. *)

Held(k) == \E p \in Processes : Holds(p, k)

\* Its process has been through the exit callback.
Over(k) == \E p \in Processes : Holds(p, k) /\ proc[p].life \in {"defer", "zombie"}

HasEntry(k, fromSnap) == \E e \in table : e.pid = k /\ e.snap = fromSnap

\* It has an entry and its announcement is still to come, by the callback or the
\* snapshot.
CallbackDue(k) == \E p \in Processes : Holds(p, k) /\ proc[p].life = "pushCreated"
SnapDue(k) == control = "push" /\ snap.row.pid = k

Creates(i, k) == inbox[i].type = "created" /\ inbox[i].pid = k

\* It has a node, or gets one before the event at place i is applied.
Told(k, i) == Shown(k) \/ \E j \in 1 .. Len(inbox) : j < i /\ Creates(j, k)

\* The client hears of processes that are there, and of exits that were.
HeardHeld ==
    /\ \A k \in Pids : Shown(k) => Held(k)
    /\ \A i \in 1 .. Len(inbox) : Held(inbox[i].pid)

ExitsOver ==
    /\ \A k \in Pids : tree[k].state = "exited" => Over(k)
    /\ \A i \in 1 .. Len(inbox) : inbox[i].type = "exited" => Over(inbox[i].pid)
    /\ \A i \in 1 .. Len(deferred) : Over(deferred[i].pid)
    /\ pushing # NoEvent => Over(pushing.pid)

\* Until the exit there is the entry that was announced, ...
EntriesTold ==
    \A k \in Pids : ~Over(k) =>
        /\ Shown(k) => HasEntry(k, tree[k].snap)
        /\ \A i \in 1 .. Len(inbox) : Creates(i, k) => HasEntry(k, inbox[i].snap)
        /\ CallbackDue(k) => HasEntry(k, FALSE)
        /\ SnapDue(k) => HasEntry(k, TRUE)

\* ... and what has an entry is announced.
TrackedTold ==
    \A k \in Pids : Tracked(k) /\ ~Over(k) =>
        CallbackDue(k) \/ SnapDue(k) \/ Told(k, Len(inbox) + 1)

\* What is announced of a process is true.
ToldTrue ==
    \A p \in Processes : proc[p].life \in Listed =>
        /\ \A i \in 1 .. Len(inbox) : Creates(i, proc[p].pid) =>
              (inbox[i].isRoot => proc[p].image) /\ inbox[i].ppid = proc[p].ppid
        /\ SnapDue(proc[p].pid) /\ snap.isRoot => proc[p].image
        /\ \A e \in table : e.pid = proc[p].pid => e.ppid = proc[p].ppid

\* A parent that a callback has entered is announced before its child.
ParentFirst ==
    \A p \in Processes :
        proc[p].life \in Listed /\ ~proc[p].image /\ HasEntry(proc[p].ppid, FALSE) =>
            /\ Shown(proc[p].pid) => tree[proc[p].pid].under = proc[p].ppid
            /\ \A i \in 1 .. Len(inbox) : Creates(i, proc[p].pid) => Told(proc[p].ppid, i)

TellParts ==
    HeardHeld /\ ExitsOver /\ EntriesTold /\ TrackedTold /\ ToldTrue /\ ParentFirst

Fresh == Following /\ PidsFresh /\ seeded # "cut"

TellInv == Fresh => TellParts

\* While this invariant is needed it was needed before.
LEMMA FreshBefore ==
    ASSUME PInv, EventTypes, StartInv, [EventsNext]_allVars, Fresh'
    PROVE  Fresh
  <1>1. Following /\ UNCHANGED restarts
    BY FollowingBefore DEF Fresh
  <1>2. [Next]_vars
    BY TrackerSteps DEF allVars
  <1>3. PidsFresh
    <2>1. CASE \E p \in Processes : LifeStep(p) \/ CallbackStep(p)
      BY <2>1, EnvSteps DEF Fresh, EnvStep
    <2>2. CASE Stop
      <3>1. \A p \in Processes : proc'[p] = [proc[p] EXCEPT !.due = FALSE]
        BY <2>2 DEF Stop
      <3>2. \A p \in Processes : proc'[p].life = proc[p].life
        BY <3>1 DEF PInv, ProcTypes, ProcessRecord
      <3> QED BY <3>2 DEF Fresh, PidsFresh
    <2>3. CASE Start \/ Serve \/ UNCHANGED vars
      <3>1. UNCHANGED proc
        BY <2>3 DEF Start, Serve, Register, Activate, Query, Visit, VisitParent, Image,
               SnapClassify, SnapPush, EndPass, Unregister, CallbacksDone, Purge, vars
      <3> QED BY <3>1 DEF Fresh, PidsFresh
    <2> QED BY <1>2, <2>1, <2>2, <2>3 DEF Next
  <1>4. seeded # "cut"
    <2>1. UNCHANGED seeded \/ seeded = "no" \/ Restart
      BY DEF EventsNext, CallbackEvents, PushedByCallback, ListExited, SignalExited, ServeEvents,
             PushedBySnapshot, ClientStart, ExitStep, ExitWait, ExitPop, ExitPush, Apply, Seed,
             eventVars, clientVars, allVars
    <2>2. ~Restart
      <3>1. restarts \in Nat
        BY ProcessEventsAssumption DEF EventTypes, ClientTypes
      <3> QED BY <1>1, <3>1 DEF Restart
    <2> QED BY <2>1, <2>2 DEF Fresh
  <1> QED BY <1>1, <1>3, <1>4 DEF Fresh

\* What a step that sends nothing does to the processes, the table and what is
\* about to be announced.
SilentStep ==
    /\ UNCHANGED <<inbox, tree, deferred, pushing, signalling>>
    /\ \A p \in Processes : Older(p) \/ Newborn(p)
    /\ \A p \in Processes : proc[p].life = "pushCreated" => proc'[p].life = "pushCreated"
    /\ \A p \in Processes : proc'[p].life = "pushCreated" =>
          \/ proc[p].life = "pushCreated"
          \/ proc[p].life = "classify" /\ \E e \in table' : e.pid = proc[p].pid /\ e.snap = FALSE
    /\ \A e \in table : e \in table' \/ \E p \in Processes :
          proc[p].life = "mark" /\ proc[p].pid = e.pid /\ proc'[p].life = "defer"
    /\ \A e \in table' :
          \/ e \in table
          \/ /\ e.snap = FALSE
             /\ \E p \in Processes :
                   /\ proc[p].life = "classify" /\ proc'[p].life = "pushCreated"
                   /\ e.pid = proc[p].pid /\ e.ppid = proc[p].ppid
          \/ /\ e.snap = TRUE /\ control = "classify" /\ control' = "push"
             /\ e.pid = snap.row.pid /\ e.ppid = snap.row.ppid /\ snap'.row = snap.row
    /\ control = "push" => UNCHANGED <<control, snap>>
    /\ control' = "push" =>
          \/ control = "push" /\ UNCHANGED snap
          \/ /\ control = "classify" /\ snap'.row = snap.row /\ snap'.isRoot = snap.isRoot
             /\ \E e \in table' : e.pid = snap.row.pid /\ e.snap = TRUE

LEMMA SilentSteps ==
    ASSUME PInv, StartInv, Following, Silent, PidsFresh'
    PROVE  SilentStep
  <1>1. UNCHANGED <<inbox, tree, deferred, pushing, signalling>>
    BY DEF Silent
  <1>2. ASSUME NEW p \in Processes,
               LifeStep(p) \/ NotifyCreate(p) \/ Classify(p) \/ NotifyExit(p) \/ MarkExited(p)
        PROVE  SilentStep
    <2>1. EnvStep
      BY <1>2, EnvSteps DEF CallbackStep
    <2>2. UNCHANGED <<control, snap>> /\ \A q \in Processes : Older(q) \/ Newborn(q)
      BY <2>1 DEF EnvStep
    <2>3. proc[p] \in ProcessRecord /\ proc \in [Processes -> ProcessRecord]
      BY DEF PInv, ProcTypes
    <2>4. CASE LifeStep(p) \/ NotifyCreate(p) \/ NotifyExit(p)
      <3>1. UNCHANGED table
        BY <2>4 DEF LifeStep, Create, Exit, Reap, NotifyCreate, NotifyExit, driverVars
      <3>2. /\ proc'[p].life # "pushCreated" /\ proc[p].life # "pushCreated"
            /\ \A q \in Processes : q # p => proc'[q] = proc[q]
        BY <2>3, <2>4 DEF LifeStep, Create, Exit, Reap, NotifyCreate, NotifyExit, SetLife,
               ProcessRecord, Absent
      <3> QED BY <1>1, <2>2, <3>1, <3>2 DEF SilentStep
    <2>5. CASE Classify(p)
      <3>1. /\ proc[p].life = "classify" /\ \A q \in Processes : q # p => proc'[q] = proc[q]
            /\ \/ UNCHANGED table /\ proc'[p].life = "running"
               \/ /\ Insert(proc[p].pid, proc[p].ppid, proc[p].image, FALSE)
                  /\ proc'[p].life = "pushCreated"
        <4>1. proc[p].life = "classify"
          BY <2>5 DEF Classify
        <4>2. \/ UNCHANGED table /\ proc' = [proc EXCEPT ![p].life = "running"]
              \/ UNCHANGED table /\ proc' = [proc EXCEPT ![p].life = "running", ![p].due = FALSE]
              \/ /\ Insert(proc[p].pid, proc[p].ppid, proc[p].image, FALSE)
                 /\ proc' = [proc EXCEPT ![p].life = "pushCreated"]
          BY <2>5, Zenon DEF Classify, SetLife
        <4>3. CASE UNCHANGED table /\ proc' = [proc EXCEPT ![p].life = "running"]
          BY <2>3, <4>1, <4>3 DEF ProcessRecord
        <4>4. CASE UNCHANGED table /\ proc' = [proc EXCEPT ![p].life = "running", ![p].due = FALSE]
          BY <2>3, <4>1, <4>4 DEF ProcessRecord
        <4>5. CASE /\ Insert(proc[p].pid, proc[p].ppid, proc[p].image, FALSE)
                   /\ proc' = [proc EXCEPT ![p].life = "pushCreated"]
          <5>1. proc'[p].life = "pushCreated" /\ \A q \in Processes : q # p => proc'[q] = proc[q]
            BY <2>3, <4>5 DEF ProcessRecord
          <5> QED BY <4>1, <4>5, <5>1
        <4> QED BY <4>2, <4>3, <4>4, <4>5
      <3>2. CASE UNCHANGED table /\ proc'[p].life = "running"
        BY <1>1, <2>2, <3>1, <3>2 DEF SilentStep
      <3>3. CASE /\ Insert(proc[p].pid, proc[p].ppid, proc[p].image, FALSE)
                 /\ proc'[p].life = "pushCreated"
        <4>1. PICK e : /\ table' = table \union {e}
                       /\ e = [pid |-> proc[p].pid, ppid |-> proc[p].ppid,
                               root |-> Lineage(proc[p].pid, proc[p].ppid, proc[p].image),
                               snap |-> FALSE]
          BY <3>3 DEF Insert
        <4>2. e.pid = proc[p].pid /\ e.ppid = proc[p].ppid /\ e.snap = FALSE
          BY <4>1
        <4>3. \A f \in table : f \in table'
          BY <4>1
        <4>4. \A f \in table' : f \in table \/ f = e
          BY <4>1
        <4>5. \E f \in table' : f.pid = proc[p].pid /\ f.snap = FALSE
          BY <4>1, <4>2
        <4>6. control' = "push" => control = "push" /\ UNCHANGED snap
          BY <2>2
        <4>7. \A f \in table' :
                 f \in table \/ (f.snap = FALSE /\ f.pid = proc[p].pid /\ f.ppid = proc[p].ppid)
          BY <4>2, <4>4
        <4> QED BY <1>1, <2>2, <3>1, <3>3, <4>3, <4>5, <4>6, <4>7 DEF SilentStep
      <3> QED BY <3>1, <3>2, <3>3
    <2>6. CASE MarkExited(p)
      <3>1. /\ proc[p].life = "mark" /\ \A q \in Processes : q # p => proc'[q] = proc[q]
            /\ \/ UNCHANGED table /\ proc'[p].life = "zombie"
               \/ table' = {e \in table : e.pid # proc[p].pid} /\ proc'[p].life = "defer"
        BY <2>3, <2>6 DEF MarkExited, SetLife, ProcessRecord
      <3>2. \A e \in table' : e \in table
        BY <3>1
      <3>3. \A e \in table : e \in table' \/ (proc[p].pid = e.pid /\ proc'[p].life = "defer")
        BY <3>1
      <3>4. \A q \in Processes : proc[q].life = "pushCreated" <=> proc'[q].life = "pushCreated"
        BY <3>1
      <3> QED BY <1>1, <2>2, <3>1, <3>2, <3>3, <3>4 DEF SilentStep
    <2> QED BY <1>2, <2>4, <2>5, <2>6
  <1>3. CASE Start \/ (Stop /\ Quiet) \/ (Serve /\ control # "push") \/ UNCHANGED vars
    <2>1. \A q \in Processes :
             /\ proc'[q].life = proc[q].life /\ proc'[q].pid = proc[q].pid
             /\ proc'[q].ppid = proc[q].ppid /\ proc'[q].parent = proc[q].parent
             /\ proc'[q].image = proc[q].image
      <3>1. CASE Stop
        <4>1. \A q \in Processes : proc'[q] = [proc[q] EXCEPT !.due = FALSE]
          BY <3>1 DEF Stop
        <4> QED BY <4>1, ZenonT(60) DEF PInv, ProcTypes, ProcessRecord
      <3>2. CASE ~Stop
        <4>1. UNCHANGED proc
          BY <1>3, <3>2 DEF Start, Serve, Register, Activate, Query, Visit, VisitParent, Image,
                 SnapClassify, SnapPush, EndPass, Unregister, CallbacksDone, Purge, vars
        <4> QED BY <4>1
      <3> QED BY <3>1, <3>2
    <2>2. \A q \in Processes : Older(q)
      BY <2>1 DEF Older
    <2>3. CASE SnapClassify /\ Insert(snap.row.pid, snap.row.ppid, snap.isRoot, TRUE)
               /\ control' = "push"
      <3>1. PICK e : /\ table' = table \union {e}
                     /\ e = [pid |-> snap.row.pid, ppid |-> snap.row.ppid,
                             root |-> Lineage(snap.row.pid, snap.row.ppid, snap.isRoot),
                             snap |-> TRUE]
        BY <2>3 DEF Insert
      <3>2. e.pid = snap.row.pid /\ e.ppid = snap.row.ppid /\ e.snap = TRUE
        BY <3>1
      <3>3. control = "classify" /\ snap' = [snap EXCEPT !.changed = TRUE]
        BY <2>3 DEF SnapClassify
      <3>4. snap'.row = snap.row /\ snap'.isRoot = snap.isRoot
        BY <3>3 DEF PInv, SnapTypes, Snaps
      <3>5. \A f \in table' : f \in table \/ f = e
        BY <3>1
      <3>6. \E f \in table' : f.pid = snap.row.pid /\ f.snap = TRUE
        BY <3>1, <3>2
      <3>7. \A f \in table : f \in table'
        BY <3>1
      <3>8. \A f \in table' : f \in table \/
               (f.snap = TRUE /\ f.pid = snap.row.pid /\ f.ppid = snap.row.ppid)
        BY <3>2, <3>5
      <3> QED BY <1>1, <2>1, <2>2, <2>3, <3>3, <3>4, <3>6, <3>7, <3>8 DEF SilentStep
    <2>4. CASE ~(SnapClassify /\ Insert(snap.row.pid, snap.row.ppid, snap.isRoot, TRUE)
                 /\ control' = "push")
      <3>1. UNCHANGED table
        <4>1. CASE Purge
          <5>1. Quiet
            BY <4>1 DEF Purge, PInv, ControlInv, Following
          <5> QED BY <4>1, <5>1 DEF Purge, StartInv, Empty
        <4>2. CASE SnapClassify
          BY <2>4, <4>2 DEF SnapClassify
        <4>3. CASE ~Purge /\ ~SnapClassify
          BY <1>3, <4>3 DEF Start, Stop, Serve, Register, Activate, Query, Visit, VisitParent,
                 Image, SnapPush, EndPass, Unregister, CallbacksDone, vars, driverVars
        <4> QED BY <4>1, <4>2, <4>3
      <3>2. control = "push" => UNCHANGED <<control, snap>>
        BY <1>3 DEF Start, Stop, vars
      <3>3. control' = "push" => control = "push"
        <4>1. CASE SnapClassify
          BY <2>4, <4>1 DEF SnapClassify
        <4>2. CASE ~SnapClassify
          BY <1>3, <4>2 DEF Start, Stop, Serve, Register, Activate, Query, Visit, VisitParent,
                 Image, SnapPush, EndPass, Unregister, CallbacksDone, Purge, vars
        <4> QED BY <4>1, <4>2
      <3> QED BY <1>1, <2>1, <2>2, <3>1, <3>2, <3>3 DEF SilentStep
    <2> QED BY <2>3, <2>4
  <1> QED BY <1>2, <1>3 DEF Silent
\* Such a step keeps what the client is told.
LEMMA TellSilent ==
    ASSUME PInv, CompleteInv, EventTypes, PidsFresh, TellParts, SilentStep
    PROVE  TellParts'
  <1>1. /\ \A p \in Processes : Older(p) \/ Newborn(p)
        /\ UNCHANGED <<inbox, tree, deferred, pushing>>
    BY DEF SilentStep
  <1>2. \A p \in Processes : proc[p].life \in Listed => Older(p)
    BY <1>1 DEF Newborn, Listed, InCallback
  <1>3. \A p, q \in Processes : \A k : Holds(p, k) /\ Holds(q, k) => p = q
    BY DEF PInv, PidInv, Holds
  <1>4. \A k : (Held(k) => Held(k)') /\ (Over(k) => Over(k)')
    BY <1>2 DEF Held, Over, Holds, Older
  <1>5. ASSUME NEW k, NEW s, HasEntry(k, s) PROVE HasEntry(k, s)' \/ Over(k)'
    <2>1. PICK e \in table : e.pid = k /\ e.snap = s
      BY <1>5 DEF HasEntry
    <2>2. CASE e \in table'
      BY <2>1, <2>2 DEF HasEntry
    <2>3. CASE \E p \in Processes :
                  proc[p].life = "mark" /\ proc[p].pid = e.pid /\ proc'[p].life = "defer"
      <3>1. PICK p \in Processes :
                  proc[p].life = "mark" /\ proc[p].pid = k /\ proc'[p].life = "defer"
        BY <2>1, <2>3
      <3>2. proc'[p].pid = k
        BY <1>2, <3>1 DEF Older, Listed, InCallback
      <3> QED BY <3>1, <3>2 DEF Over, Holds, Listed, InCallback
    <2> QED BY <2>1, <2>2, <2>3 DEF SilentStep
  <1>6. \A k : (CallbackDue(k) => CallbackDue(k)') /\ (SnapDue(k) => SnapDue(k)')
    <2>1. \A k : CallbackDue(k) => CallbackDue(k)'
      BY <1>2 DEF SilentStep, CallbackDue, Holds, Older
    <2>2. \A k : SnapDue(k) => SnapDue(k)'
      BY DEF SilentStep, SnapDue
    <2> QED BY <2>1, <2>2
  <1>7. ASSUME NEW k, CallbackDue(k)' PROVE CallbackDue(k) \/ HasEntry(k, FALSE)'
    <2>1. PICK p \in Processes : Holds(p, k)' /\ proc'[p].life = "pushCreated"
      BY <1>7 DEF CallbackDue
    <2>2. CASE proc[p].life = "pushCreated"
      <3>1. Holds(p, k)
        BY <1>2, <2>1, <2>2 DEF Holds, Older, Listed, InCallback
      <3> QED BY <2>2, <3>1 DEF CallbackDue
    <2>3. CASE proc[p].life = "classify" /\ \E e \in table' : e.pid = proc[p].pid /\ e.snap = FALSE
      <3>1. proc[p].pid = k
        BY <1>2, <2>1, <2>3 DEF Holds, Older, Listed, InCallback
      <3> QED BY <2>3, <3>1 DEF HasEntry
    <2> QED BY <2>1, <2>2, <2>3 DEF SilentStep
  <1>8. ASSUME NEW k, SnapDue(k)' PROVE SnapDue(k) \/ HasEntry(k, TRUE)'
    BY <1>8 DEF SnapDue, HasEntry, SilentStep
  <1>9. \A r \in snap.todo \union snap.buffer : RowTrue(r)
    BY DEF PInv, FreshInv, Rows
  <1>10. control \in HasRow => RowTrue(snap.row)
    BY DEF PInv, FreshInv, Rows
  <1>11. ASSUME NEW e \in table'
         PROVE  /\ Held(e.pid)
                /\ \A p \in Processes : Holds(p, e.pid) => e \in table \/ e.ppid = proc[p].ppid
                /\ e \in table \/ (\E k : k = e.pid /\ (CallbackDue(k)' \/ SnapDue(k)'))
    <2>1. CASE e \in table
      BY <2>1 DEF PInv, FreshInv, Held
    <2>2. CASE \E p \in Processes :
                  /\ proc[p].life = "classify" /\ proc'[p].life = "pushCreated"
                  /\ e.pid = proc[p].pid /\ e.ppid = proc[p].ppid
      <3>1. PICK p \in Processes :
                  /\ proc[p].life = "classify" /\ proc'[p].life = "pushCreated"
                  /\ e.pid = proc[p].pid /\ e.ppid = proc[p].ppid
        BY <2>2
      <3>2. PICK k : k = e.pid
        OBVIOUS
      <3>3. Holds(p, k) /\ Holds(p, k)'
        BY <1>2, <3>1, <3>2 DEF Holds, Older, Listed, InCallback
      <3>4. CallbackDue(k)'
        BY <3>1, <3>3 DEF CallbackDue
      <3> QED BY <1>3, <3>1, <3>2, <3>3, <3>4 DEF Held
    <2>3. CASE /\ control = "classify" /\ control' = "push"
               /\ e.pid = snap.row.pid /\ e.ppid = snap.row.ppid /\ snap'.row = snap.row
      <3>1. PICK k : k = e.pid
        OBVIOUS
      <3>2. SnapDue(k)'
        BY <2>3, <3>1 DEF SnapDue
      <3>3. PICK q \in Processes : Holds(q, e.pid) /\ proc[q].ppid = e.ppid
        BY <1>10, <2>3 DEF HasRow, RowTrue
      <3> QED BY <1>3, <3>1, <3>2, <3>3 DEF Held
    <2> QED BY <2>1, <2>2, <2>3 DEF SilentStep
  <1>12. \A k, i : (Told(k, i)' <=> Told(k, i)) /\ (Creates(i, k)' <=> Creates(i, k))
                  /\ (Shown(k)' <=> Shown(k))
    BY <1>1 DEF Told, Creates, Shown
  <1>13. HeardHeld'
    <2>1. \A k \in Pids : Shown(k)' => Held(k)'
      BY <1>4, <1>12 DEF TellParts, HeardHeld
    <2>2. ASSUME NEW i \in 1 .. Len(inbox') PROVE \A k : k = inbox'[i].pid => Held(k)'
      BY <1>1, <1>4 DEF TellParts, HeardHeld
    <2> QED BY <2>1, <2>2 DEF HeardHeld, Held, Holds
  <1>14. ExitsOver'
    <2>1. \A k \in Pids : tree'[k].state = "exited" => Over(k)'
      BY <1>1, <1>4 DEF TellParts, ExitsOver
    <2>2. \A i \in 1 .. Len(inbox') : inbox'[i].type = "exited" =>
             \A k : k = inbox'[i].pid => Over(k)'
      BY <1>1, <1>4 DEF TellParts, ExitsOver
    <2>3. \A i \in 1 .. Len(deferred') : \A k : k = deferred'[i].pid => Over(k)'
      BY <1>1, <1>4 DEF TellParts, ExitsOver
    <2>4. pushing' # NoEvent => \A k : k = pushing'.pid => Over(k)'
      BY <1>1, <1>4 DEF TellParts, ExitsOver
    <2> QED BY <2>1, <2>2, <2>3, <2>4 DEF ExitsOver, Over, Holds
  <1>15. EntriesTold'
    <2> SUFFICES ASSUME NEW k \in Pids, ~Over(k)'
                 PROVE  /\ Shown(k)' => HasEntry(k, tree[k].snap)'
                        /\ \A i \in 1 .. Len(inbox') : Creates(i, k)' => HasEntry(k, inbox[i].snap)'
                        /\ CallbackDue(k)' => HasEntry(k, FALSE)'
                        /\ SnapDue(k)' => HasEntry(k, TRUE)'
      BY DEF EntriesTold
    <2>1. ~Over(k)
      BY <1>4
    <2>2. \A s : HasEntry(k, s) => HasEntry(k, s)'
      BY <1>5
    <2>3. Shown(k)' => \A s : s = tree[k].snap => HasEntry(k, s)'
      BY <1>12, <2>1, <2>2 DEF TellParts, EntriesTold
    <2>4. \A i \in 1 .. Len(inbox) : Creates(i, k)' => \A s : s = inbox[i].snap => HasEntry(k, s)'
      BY <1>12, <2>1, <2>2 DEF TellParts, EntriesTold
    <2>5. (CallbackDue(k)' => HasEntry(k, FALSE)') /\ (SnapDue(k)' => HasEntry(k, TRUE)')
      BY <1>7, <1>8, <2>1, <2>2 DEF TellParts, EntriesTold
    <2> QED BY <1>1, <2>3, <2>4, <2>5 DEF HasEntry
  <1>16. TrackedTold'
    <2> SUFFICES ASSUME NEW k \in Pids, Tracked(k)', ~Over(k)'
                 PROVE  CallbackDue(k)' \/ SnapDue(k)' \/ Told(k, Len(inbox) + 1)'
      BY DEF TrackedTold
    <2>1. ~Over(k)
      BY <1>4
    <2>2. Tracked(k) \/ CallbackDue(k)' \/ SnapDue(k)'
      BY <1>11 DEF Tracked
    <2>3. Tracked(k) => CallbackDue(k)' \/ SnapDue(k)' \/ Told(k, Len(inbox) + 1)
      BY <1>6, <2>1 DEF TellParts, TrackedTold
    <2> QED BY <1>1, <1>12, <2>2, <2>3 DEF Told, Shown, Creates
  <1>17. ASSUME NEW p \in Processes, Newborn(p), NEW k, k = proc'[p].pid
         PROVE  /\ \A i \in 1 .. Len(inbox) : ~Creates(i, k)
                /\ ~Shown(k) /\ ~SnapDue(k)' /\ \A e \in table' : e.pid # k
    <2>1. ~Held(k) /\ k \in Pids
      BY <1>17 DEF Newborn, FreePids, Held
    <2>2. \A i \in 1 .. Len(inbox) : ~Creates(i, k)
      BY <2>1 DEF TellParts, HeardHeld, Creates
    <2>3. ~Shown(k)
      BY <2>1 DEF TellParts, HeardHeld
    <2>4. ~SnapDue(k)'
      BY <1>10, <2>1 DEF SilentStep, SnapDue, HasRow, RowTrue, Held
    <2>5. \A e \in table' : e.pid # k
      BY <1>11, <2>1
    <2> QED BY <2>2, <2>3, <2>4, <2>5
  <1>18. ToldTrue'
    <2> SUFFICES ASSUME NEW p \in Processes, proc'[p].life \in Listed, NEW k, k = proc'[p].pid
                 PROVE  /\ \A i \in 1 .. Len(inbox) : Creates(i, k) =>
                              (inbox[i].isRoot => proc'[p].image) /\ inbox[i].ppid = proc'[p].ppid
                        /\ SnapDue(k)' /\ snap'.isRoot => proc'[p].image
                        /\ \A e \in table' : e.pid = k => e.ppid = proc'[p].ppid
      BY <1>1 DEF ToldTrue, Creates, SnapDue
    <2>1. CASE Newborn(p)
      BY <1>17, <2>1
    <2>2. CASE Older(p)
      <3>1. /\ proc[p].life \in Listed /\ proc[p].pid = k /\ proc'[p].ppid = proc[p].ppid
            /\ proc'[p].image = proc[p].image /\ Holds(p, k)
        BY <2>2 DEF Older, Holds
      <3>2. \A i \in 1 .. Len(inbox) : Creates(i, k) =>
               (inbox[i].isRoot => proc[p].image) /\ inbox[i].ppid = proc[p].ppid
        BY <3>1 DEF TellParts, ToldTrue
      <3>3. SnapDue(k) /\ snap.isRoot => proc[p].image
        BY <3>1 DEF TellParts, ToldTrue
      <3>4. control = "classify" /\ snap.isRoot /\ snap.row.pid = k => proc[p].image
        BY <1>3, <3>1 DEF PInv, FreshInv
      <3>5. SnapDue(k)' /\ snap'.isRoot => proc[p].image
        BY <3>3, <3>4 DEF SilentStep, SnapDue
      <3>6. \A e \in table' : e.pid = k => e.ppid = proc[p].ppid
        <4>1. \A e \in table : e.pid = k => e.ppid = proc[p].ppid
          BY <3>1 DEF TellParts, ToldTrue
        <4> QED BY <1>11, <3>1, <4>1
      <3> QED BY <3>1, <3>2, <3>5, <3>6
    <2> QED BY <1>1, <2>1, <2>2
  <1>19. ParentFirst'
    <2> SUFFICES ASSUME NEW p \in Processes, proc'[p].life \in Listed, ~proc'[p].image,
                        NEW k, k = proc'[p].pid, NEW m, m = proc'[p].ppid, HasEntry(m, FALSE)'
                 PROVE  /\ Shown(k)' => tree'[k].under = m
                        /\ \A i \in 1 .. Len(inbox) : Creates(i, k) => Told(m, i)
      <3>1. \A p \in Processes : proc'[p].life \in Listed /\ ~proc'[p].image =>
               \A k, m : k = proc'[p].pid /\ m = proc'[p].ppid /\ HasEntry(m, FALSE)' =>
                  /\ Shown(k)' => tree'[k].under = m
                  /\ \A i \in 1 .. Len(inbox) : Creates(i, k) => Told(m, i)
        OBVIOUS
      <3> QED BY <1>1, <3>1 DEF ParentFirst, HasEntry, Told, Creates, Shown
    <2>1. CASE Newborn(p)
      BY <1>12, <1>17, <2>1
    <2>2. CASE Older(p)
      <3>1. /\ proc[p].life \in Listed /\ proc[p].pid = k /\ proc[p].ppid = m
            /\ ~proc[p].image
        BY <2>2 DEF Older
      <3>2. HasEntry(m, FALSE)
        <4>1. PICK e \in table' : e.pid = m /\ e.snap = FALSE
          BY DEF HasEntry
        <4>2. ASSUME NEW q \in Processes, proc[q].life = "classify", e.pid = proc[q].pid
              PROVE  FALSE
          <5>1. Holds(q, m) /\ m \in Pids
            BY <4>1, <4>2 DEF Holds, Listed, InCallback, PInv, PidInv
          <5>2. Descent(p)
            BY <3>1 DEF PInv, FreshInv
          <5>3. proc[p].parent \in Processes /\ Holds(proc[p].parent, m)
            BY <3>1, <5>1, <5>2, ProcessTrackAssumption DEF Descent
          <5>4. proc[p].parent = q
            BY <1>3, <5>1, <5>3
          <5>5. proc[q].life \in Ran
            BY <5>3, <5>4 DEF CompleteInv, ParentRan
          <5> QED BY <4>2, <5>5 DEF Ran
        <4>3. e \in table
          BY <4>1, <4>2 DEF SilentStep
        <4> QED BY <4>1, <4>3 DEF HasEntry
      <3> QED BY <1>1, <1>12, <3>1, <3>2 DEF TellParts, ParentFirst
    <2> QED BY <1>1, <2>1, <2>2
  <1> QED BY <1>13, <1>14, <1>15, <1>16, <1>18, <1>19 DEF TellParts
\* An event that is appended to the inbox, and what it has to satisfy.
LEMMA TellAppend ==
    ASSUME EventTypes, TellParts, NEW e \in Event, inbox' = Append(inbox, e),
           UNCHANGED <<table, tree, deferred>>, pushing' = pushing \/ pushing' = NoEvent,
           \A p \in Processes :
              /\ proc'[p].pid = proc[p].pid /\ proc'[p].ppid = proc[p].ppid
              /\ proc'[p].image = proc[p].image
              /\ proc'[p].life \in Listed <=> proc[p].life \in Listed
              /\ proc'[p].life \in {"defer", "zombie"} <=> proc[p].life \in {"defer", "zombie"},
           \A k : CallbackDue(k)' => CallbackDue(k),
           \A k : SnapDue(k)' => SnapDue(k) /\ snap'.isRoot = snap.isRoot,
           \A k : CallbackDue(k) \/ SnapDue(k) =>
              CallbackDue(k)' \/ SnapDue(k)' \/ (e.type = "created" /\ e.pid = k),
           Held(e.pid), e.type = "exited" => Over(e.pid),
           e.type = "created" =>
              /\ Over(e.pid) \/ HasEntry(e.pid, e.snap)
              /\ \A p \in Processes : Holds(p, e.pid) =>
                    /\ (e.isRoot => proc[p].image) /\ e.ppid = proc[p].ppid
                    /\ ~proc[p].image /\ HasEntry(proc[p].ppid, FALSE) =>
                          Told(proc[p].ppid, Len(inbox) + 1)
    PROVE  TellParts'
  <1>1. /\ Len(inbox) \in Nat /\ Len(inbox') = Len(inbox) + 1
        /\ \A i \in 1 .. Len(inbox) : i \in 1 .. Len(inbox') /\ inbox'[i] = inbox[i]
        /\ Len(inbox') \in 1 .. Len(inbox') /\ inbox'[Len(inbox')] = e
        /\ \A i \in 1 .. Len(inbox') : i \in 1 .. Len(inbox) \/ i = Len(inbox')
    BY Pushed
  <1>2. \A k : (Held(k)' <=> Held(k)) /\ (Over(k)' <=> Over(k)) /\ (Tracked(k)' <=> Tracked(k))
               /\ (Shown(k)' <=> Shown(k)) /\ \A s : HasEntry(k, s)' <=> HasEntry(k, s)
    <2>1. \A p \in Processes : \A k : Holds(p, k)' <=> Holds(p, k)
      BY DEF Holds
    <2>2. \A k : (Held(k)' <=> Held(k)) /\ (Over(k)' <=> Over(k))
      BY <2>1 DEF Held, Over
    <2>3. \A k : (Tracked(k)' <=> Tracked(k)) /\ (Shown(k)' <=> Shown(k))
                 /\ \A s : HasEntry(k, s)' <=> HasEntry(k, s)
      BY DEF Tracked, Shown, HasEntry
    <2> QED BY <2>2, <2>3
  <1>3. \A k, i : Told(k, i) => Told(k, i)'
    BY <1>1, <1>2 DEF Told, Creates
  <1>4. \A i \in 1 .. Len(inbox) : \A k : Creates(i, k)' <=> Creates(i, k)
    BY <1>1 DEF Creates
  <1>5. HeardHeld'
    <2>1. \A k \in Pids : Shown(k)' => Held(k)'
      BY <1>2 DEF TellParts, HeardHeld
    <2>2. ASSUME NEW i \in 1 .. Len(inbox'), NEW k, k = inbox'[i].pid PROVE Held(k)'
      <3>1. CASE i \in 1 .. Len(inbox)
        BY <1>1, <1>2, <2>2, <3>1 DEF TellParts, HeardHeld
      <3>2. CASE i = Len(inbox')
        BY <1>1, <1>2, <2>2, <3>2
      <3> QED BY <1>1, <3>1, <3>2
    <2> QED BY <2>1, <2>2 DEF HeardHeld, Held, Holds
  <1>6. ExitsOver'
    <2>1. \A k \in Pids : tree'[k].state = "exited" => Over(k)'
      BY <1>2 DEF TellParts, ExitsOver
    <2>2. ASSUME NEW i \in 1 .. Len(inbox'), inbox'[i].type = "exited", NEW k, k = inbox'[i].pid
          PROVE  Over(k)'
      <3>1. CASE i \in 1 .. Len(inbox)
        BY <1>1, <1>2, <2>2, <3>1 DEF TellParts, ExitsOver
      <3>2. CASE i = Len(inbox')
        BY <1>1, <1>2, <2>2, <3>2
      <3> QED BY <1>1, <3>1, <3>2
    <2>3. \A i \in 1 .. Len(deferred') : \A k : k = deferred'[i].pid => Over(k)'
      BY <1>2 DEF TellParts, ExitsOver
    <2>4. pushing' # NoEvent => \A k : k = pushing'.pid => Over(k)'
      BY <1>2 DEF TellParts, ExitsOver
    <2> QED BY <2>1, <2>2, <2>3, <2>4 DEF ExitsOver, Over, Holds
  <1>7. EntriesTold'
    <2> SUFFICES ASSUME NEW k \in Pids, ~Over(k)'
                 PROVE  /\ Shown(k)' => HasEntry(k, tree[k].snap)'
                        /\ \A i \in 1 .. Len(inbox') : Creates(i, k)' => HasEntry(k, inbox[i].snap)'
                        /\ CallbackDue(k)' => HasEntry(k, FALSE)'
                        /\ SnapDue(k)' => HasEntry(k, TRUE)'
      BY DEF EntriesTold
    <2>1. ~Over(k)
      BY <1>2
    <2>2. Shown(k)' => \A s : s = tree'[k].snap => HasEntry(k, s)'
      BY <1>2, <2>1 DEF TellParts, EntriesTold
    <2>3. ASSUME NEW i \in 1 .. Len(inbox'), Creates(i, k)', NEW s, s = inbox'[i].snap
          PROVE  HasEntry(k, s)'
      <3>1. CASE i \in 1 .. Len(inbox)
        BY <1>1, <1>2, <1>4, <2>1, <2>3, <3>1 DEF TellParts, EntriesTold
      <3>2. CASE i = Len(inbox')
        <4>1. e.type = "created" /\ e.pid = k /\ e.snap = s
          BY <1>1, <2>3, <3>2 DEF Creates
        <4> QED BY <1>2, <2>1, <4>1
      <3> QED BY <1>1, <3>1, <3>2
    <2>4. (CallbackDue(k)' => HasEntry(k, FALSE)') /\ (SnapDue(k)' => HasEntry(k, TRUE)')
      BY <1>2, <2>1 DEF TellParts, EntriesTold
    <2> QED BY <2>2, <2>3, <2>4 DEF HasEntry
  <1>8. TrackedTold'
    <2> SUFFICES ASSUME NEW k \in Pids, Tracked(k)', ~Over(k)', NEW n, n = Len(inbox') + 1
                 PROVE  CallbackDue(k)' \/ SnapDue(k)' \/ Told(k, n)'
      BY DEF TrackedTold, Told, Creates, Shown
    <2>1. CallbackDue(k) \/ SnapDue(k) \/ Told(k, Len(inbox) + 1)
      BY <1>2 DEF TellParts, TrackedTold
    <2>2. CASE e.type = "created" /\ e.pid = k
      <3>1. Len(inbox') < n
        BY <1>1
      <3> QED BY <1>1, <2>2, <3>1 DEF Told, Creates
    <2>3. CASE Told(k, Len(inbox) + 1)
      <3>1. \A j \in 1 .. Len(inbox) : j < n
        BY <1>1
      <3> QED BY <1>1, <1>2, <1>4, <2>3, <3>1 DEF Told
    <2> QED BY <2>1, <2>2, <2>3
  <1>9. ToldTrue'
    <2> SUFFICES ASSUME NEW p \in Processes, proc'[p].life \in Listed, NEW k, k = proc'[p].pid
                 PROVE  /\ \A i \in 1 .. Len(inbox') : Creates(i, k)' =>
                              (inbox'[i].isRoot => proc'[p].image) /\ inbox'[i].ppid = proc'[p].ppid
                        /\ SnapDue(k)' /\ snap'.isRoot => proc'[p].image
                        /\ \A f \in table' : f.pid = k => f.ppid = proc'[p].ppid
      BY DEF ToldTrue, Creates, SnapDue
    <2>1. proc[p].life \in Listed /\ proc[p].pid = k /\ Holds(p, k)
      BY DEF Holds
    <2>2. /\ \A i \in 1 .. Len(inbox) : Creates(i, k) =>
                (inbox[i].isRoot => proc[p].image) /\ inbox[i].ppid = proc[p].ppid
          /\ SnapDue(k) /\ snap.isRoot => proc[p].image
          /\ \A f \in table : f.pid = k => f.ppid = proc[p].ppid
      BY <2>1 DEF TellParts, ToldTrue
    <2>3. ASSUME NEW i \in 1 .. Len(inbox'), Creates(i, k)'
          PROVE  (inbox'[i].isRoot => proc'[p].image) /\ inbox'[i].ppid = proc'[p].ppid
      <3>1. CASE i \in 1 .. Len(inbox)
        BY <1>1, <1>4, <2>2, <2>3, <3>1
      <3>2. CASE i = Len(inbox')
        <4>1. inbox'[i] = e /\ e.type = "created" /\ e.pid = k
          BY <1>1, <2>3, <3>2 DEF Creates
        <4> QED BY <2>1, <4>1
      <3> QED BY <1>1, <3>1, <3>2
    <2> QED BY <2>2, <2>3
  <1>10. ParentFirst'
    <2> SUFFICES ASSUME NEW p \in Processes, proc'[p].life \in Listed, ~proc'[p].image,
                        NEW k, k = proc'[p].pid, NEW m, m = proc'[p].ppid, HasEntry(m, FALSE)'
                 PROVE  /\ Shown(k)' => tree'[k].under = m
                        /\ \A i \in 1 .. Len(inbox') : Creates(i, k)' => Told(m, i)'
      <3>1. \A p \in Processes : proc'[p].life \in Listed /\ ~proc'[p].image =>
               \A k, m : k = proc'[p].pid /\ m = proc'[p].ppid /\ HasEntry(m, FALSE)' =>
                  /\ Shown(k)' => tree'[k].under = m
                  /\ \A i \in 1 .. Len(inbox') : Creates(i, k)' => Told(m, i)'
        OBVIOUS
      <3> QED BY <3>1 DEF ParentFirst, HasEntry, Told, Creates, Shown
    <2>1. /\ proc[p].life \in Listed /\ proc[p].pid = k /\ proc[p].ppid = m /\ ~proc[p].image
          /\ Holds(p, k)
      BY DEF Holds
    <2>2. HasEntry(m, FALSE)
      BY <1>2
    <2>3. /\ Shown(k) => tree[k].under = m
          /\ \A i \in 1 .. Len(inbox) : Creates(i, k) => Told(m, i)
      BY <2>1, <2>2 DEF TellParts, ParentFirst
    <2>4. ASSUME NEW i \in 1 .. Len(inbox'), Creates(i, k)' PROVE Told(m, i)'
      <3>1. CASE i \in 1 .. Len(inbox)
        BY <1>3, <1>4, <2>3, <2>4, <3>1
      <3>2. CASE i = Len(inbox')
        <4>1. e.type = "created" /\ e.pid = k
          BY <1>1, <2>4, <3>2 DEF Creates
        <4>2. Told(m, Len(inbox) + 1)
          BY <2>1, <2>2, <4>1
        <4>3. Told(m, i)
          BY <1>1, <3>2, <4>2
        <4> QED BY <1>3, <4>3
      <3> QED BY <1>1, <3>1, <3>2
    <2> QED BY <1>2, <2>3, <2>4
  <1> QED BY <1>5, <1>6, <1>7, <1>8, <1>9, <1>10 DEF TellParts
\* Steps of the thread that pushes exits, up to the push.
LEMMA TellExits ==
    ASSUME TellParts, UNCHANGED <<inbox, tree, table, control, snap>>,
           \A p \in Processes :
              /\ proc'[p].pid = proc[p].pid /\ proc'[p].ppid = proc[p].ppid
              /\ proc'[p].image = proc[p].image
              /\ proc'[p].life \in Listed <=> proc[p].life \in Listed
              /\ proc'[p].life \in {"defer", "zombie"} <=> proc[p].life \in {"defer", "zombie"}
              /\ proc'[p].life = "pushCreated" <=> proc[p].life = "pushCreated",
           \A i \in 1 .. Len(deferred') : \A k : k = deferred'[i].pid => Over(k),
           pushing' # NoEvent => \A k : k = pushing'.pid => Over(k)
    PROVE  TellParts'
  <1>1. \A p \in Processes : \A k : Holds(p, k)' <=> Holds(p, k)
    BY DEF Holds
  <1>2. \A k : (Held(k)' <=> Held(k)) /\ (Over(k)' <=> Over(k))
               /\ (CallbackDue(k)' <=> CallbackDue(k))
    BY <1>1 DEF Held, Over, CallbackDue
  <1>3. \A k : (Tracked(k)' <=> Tracked(k)) /\ (Shown(k)' <=> Shown(k))
               /\ (SnapDue(k)' <=> SnapDue(k)) /\ \A s : HasEntry(k, s)' <=> HasEntry(k, s)
    BY DEF Tracked, Shown, SnapDue, HasEntry
  <1>4. \A k, i : (Told(k, i)' <=> Told(k, i)) /\ (Creates(i, k)' <=> Creates(i, k))
    BY DEF Told, Shown, Creates
  <1>5. HeardHeld'
    <2>1. \A k \in Pids : Shown(k)' => Held(k)'
      BY <1>2, <1>3 DEF TellParts, HeardHeld
    <2>2. \A i \in 1 .. Len(inbox') : \A k : k = inbox'[i].pid => Held(k)'
      BY <1>2 DEF TellParts, HeardHeld
    <2> QED BY <2>1, <2>2 DEF HeardHeld, Held, Holds
  <1>6. ExitsOver'
    <2>1. \A k \in Pids : tree'[k].state = "exited" => Over(k)'
      BY <1>2 DEF TellParts, ExitsOver
    <2>2. \A i \in 1 .. Len(inbox') : inbox'[i].type = "exited" =>
             \A k : k = inbox'[i].pid => Over(k)'
      BY <1>2 DEF TellParts, ExitsOver
    <2>3. \A i \in 1 .. Len(deferred') : \A k : k = deferred'[i].pid => Over(k)'
      BY <1>2
    <2>4. pushing' # NoEvent => \A k : k = pushing'.pid => Over(k)'
      BY <1>2
    <2> QED BY <2>1, <2>2, <2>3, <2>4 DEF ExitsOver, Over, Holds
  <1>7. EntriesTold'
    <2> SUFFICES ASSUME NEW k \in Pids, ~Over(k)'
                 PROVE  /\ Shown(k)' => HasEntry(k, tree[k].snap)'
                        /\ \A i \in 1 .. Len(inbox') : Creates(i, k)' => HasEntry(k, inbox[i].snap)'
                        /\ CallbackDue(k)' => HasEntry(k, FALSE)'
                        /\ SnapDue(k)' => HasEntry(k, TRUE)'
      BY DEF EntriesTold
    <2>1. /\ Shown(k) => HasEntry(k, tree[k].snap)
          /\ \A i \in 1 .. Len(inbox) : Creates(i, k) => HasEntry(k, inbox[i].snap)
          /\ CallbackDue(k) => HasEntry(k, FALSE)
          /\ SnapDue(k) => HasEntry(k, TRUE)
      BY <1>2 DEF TellParts, EntriesTold
    <2>2. \A s : HasEntry(k, s) => \E f \in table' : f.pid = k /\ f.snap = s
      BY DEF HasEntry
    <2> QED BY <1>2, <1>3, <1>4, <2>1, <2>2 DEF HasEntry
  <1>8. TrackedTold'
    <2> SUFFICES ASSUME NEW k \in Pids, Tracked(k)', ~Over(k)'
                 PROVE  CallbackDue(k)' \/ SnapDue(k)' \/ Told(k, Len(inbox) + 1)
      BY DEF TrackedTold, Told, Creates, Shown
    <2> QED BY <1>2, <1>3 DEF TellParts, TrackedTold
  <1>9. ToldTrue'
    <2> SUFFICES ASSUME NEW p \in Processes, proc'[p].life \in Listed, NEW k, k = proc'[p].pid
                 PROVE  /\ \A i \in 1 .. Len(inbox) : Creates(i, k) =>
                              (inbox[i].isRoot => proc'[p].image) /\ inbox[i].ppid = proc'[p].ppid
                        /\ SnapDue(k) /\ snap.isRoot => proc'[p].image
                        /\ \A f \in table : f.pid = k => f.ppid = proc'[p].ppid
      BY DEF ToldTrue, Creates, SnapDue
    <2> QED BY DEF TellParts, ToldTrue
  <1>10. ParentFirst'
    <2>1. ASSUME NEW p \in Processes, proc'[p].life \in Listed, ~proc'[p].image,
                 NEW k, k = proc'[p].pid, NEW m, m = proc'[p].ppid, HasEntry(m, FALSE)'
          PROVE  /\ Shown(k)' => tree'[k].under = m
                 /\ \A i \in 1 .. Len(inbox') : Creates(i, k)' => Told(m, i)'
      <3>1. proc[p].life \in Listed /\ ~proc[p].image /\ proc[p].pid = k /\ proc[p].ppid = m
        BY <2>1
      <3>2. HasEntry(m, FALSE)
        BY <1>3, <2>1
      <3> QED BY <1>3, <1>4, <3>1, <3>2 DEF TellParts, ParentFirst
    <2>2. \A p \in Processes : proc'[p].life \in Listed /\ ~proc'[p].image =>
             \A k, m : k = proc'[p].pid /\ m = proc'[p].ppid /\ HasEntry(m, FALSE)' =>
                /\ Shown(k)' => tree'[k].under = m
                /\ \A i \in 1 .. Len(inbox') : Creates(i, k)' => Told(m, i)'
      BY <2>1
    <2> QED BY <2>2 DEF ParentFirst, HasEntry, Told, Creates, Shown
  <1> QED BY <1>5, <1>6, <1>7, <1>8, <1>9, <1>10 DEF TellParts

\* The client applies the head of its queue.
LEMMA TellApplies ==
    ASSUME EventTypes, TellParts, Applies PROVE TellParts'
  <1>1. PICK e : e = Head(inbox)
    OBVIOUS
  <1>2. /\ UNCHANGED <<proc, table, control, snap, deferred, pushing>>
        /\ inbox # << >> /\ inbox' = Tail(inbox)
        /\ tree' = IF e.type = "created" THEN AppliedCreate(e) ELSE AppliedExit(e)
    BY <1>1 DEF Applies, vars, driverVars
  <1>3. /\ e \in Event /\ e = inbox[1] /\ Len(inbox) \in Nat /\ 1 \in 1 .. Len(inbox)
        /\ \A i \in 1 .. Len(inbox') : i \in Nat /\ i + 1 \in 1 .. Len(inbox)
                                       /\ inbox'[i] = inbox[i + 1]
        /\ \A i \in 1 .. Len(inbox) : i \in Nat /\ (i = 1 \/
               (i - 1 \in 1 .. Len(inbox') /\ inbox'[i - 1] = inbox[i]))
    BY <1>1, <1>2, Applied
  <1>4. /\ e.pid \in Pids
        /\ AppliedCreate(e)[e.pid] = (IF Shown(e.pid) THEN tree[e.pid] ELSE NodeOf(e))
        /\ AppliedExit(e)[e.pid].state = (IF Shown(e.pid) THEN "exited" ELSE tree[e.pid].state)
        /\ AppliedExit(e)[e.pid].under = tree[e.pid].under
        /\ \A k \in Pids \ {e.pid} : AppliedCreate(e)[k] = tree[k] /\ AppliedExit(e)[k] = tree[k]
    BY <1>3, TreeApplied
  <1>5. e.type \in {"created", "exited"}
    BY <1>3 DEF Event
  <1>6. \A k : Creates(1, k) <=> e.type = "created" /\ e.pid = k
    BY <1>3 DEF Creates
  <1>7. \A k \in Pids \ {e.pid} : tree'[k] = tree[k]
    BY <1>2, <1>4
  <1>8. e.type = "created" => tree'[e.pid] = (IF Shown(e.pid) THEN tree[e.pid] ELSE NodeOf(e))
    BY <1>2, <1>4
  <1>9. e.type = "exited" =>
           /\ tree'[e.pid].state = (IF Shown(e.pid) THEN "exited" ELSE tree[e.pid].state)
           /\ tree'[e.pid].under = tree[e.pid].under
    BY <1>2, <1>4
  <1>10. \A k : Shown(k)' <=> Shown(k) \/ Creates(1, k)
    BY <1>4, <1>5, <1>6, <1>7, <1>8, <1>9 DEF Shown, NodeOf
  <1>11. \A k : (Held(k)' <=> Held(k)) /\ (Over(k)' <=> Over(k)) /\ (Tracked(k)' <=> Tracked(k))
                /\ (CallbackDue(k)' <=> CallbackDue(k)) /\ (SnapDue(k)' <=> SnapDue(k))
                /\ \A s : HasEntry(k, s)' <=> HasEntry(k, s)
    BY <1>2 DEF Held, Over, Holds, Tracked, CallbackDue, SnapDue, HasEntry
  <1>12. \A i \in 1 .. Len(inbox') : \A k : Creates(i, k)' <=> Creates(i + 1, k)
    BY <1>3 DEF Creates
  <1>13. ASSUME NEW k, NEW i \in Nat, Told(k, i + 1) PROVE Told(k, i)'
    <2>1. CASE Shown(k) \/ Creates(1, k)
      BY <1>10, <2>1 DEF Told
    <2>2. CASE ~Shown(k) /\ ~Creates(1, k)
      <3>1. PICK j \in 1 .. Len(inbox) : j < i + 1 /\ Creates(j, k)
        BY <1>13, <2>2 DEF Told
      <3>2. j \in Nat /\ j # 1 /\ j - 1 \in 1 .. Len(inbox') /\ inbox'[j - 1] = inbox[j]
        BY <1>3, <2>2, <3>1
      <3>3. PICK h : h = j - 1
        OBVIOUS
      <3>4. h \in 1 .. Len(inbox') /\ h < i /\ inbox'[h] = inbox[j]
        BY <3>1, <3>2, <3>3
      <3> QED BY <3>1, <3>4 DEF Told, Creates
    <2> QED BY <2>1, <2>2
  <1>14. HeardHeld'
    <2>1. \A k \in Pids : Shown(k)' => Held(k)'
      BY <1>3, <1>6, <1>10, <1>11 DEF TellParts, HeardHeld
    <2>2. \A i \in 1 .. Len(inbox') : \A k : k = inbox'[i].pid => Held(k)'
      BY <1>3, <1>11 DEF TellParts, HeardHeld
    <2> QED BY <2>1, <2>2 DEF HeardHeld, Held, Holds
  <1>15. ExitsOver'
    <2>1. ASSUME NEW k \in Pids, tree'[k].state = "exited" PROVE Over(k)'
      <3>1. tree[k].state = "exited" \/ (e.type = "exited" /\ e.pid = k)
        BY <1>5, <1>7, <1>8, <2>1 DEF NodeOf
      <3> QED BY <1>3, <1>11, <3>1 DEF TellParts, ExitsOver
    <2>2. \A i \in 1 .. Len(inbox') : inbox'[i].type = "exited" =>
             \A k : k = inbox'[i].pid => Over(k)'
      BY <1>3, <1>11 DEF TellParts, ExitsOver
    <2>3. \A i \in 1 .. Len(deferred') : \A k : k = deferred'[i].pid => Over(k)'
      BY <1>2, <1>11 DEF TellParts, ExitsOver
    <2>4. pushing' # NoEvent => \A k : k = pushing'.pid => Over(k)'
      BY <1>2, <1>11 DEF TellParts, ExitsOver
    <2> QED BY <2>1, <2>2, <2>3, <2>4 DEF ExitsOver, Over, Holds
  <1>16. EntriesTold'
    <2> SUFFICES ASSUME NEW k \in Pids, ~Over(k)'
                 PROVE  /\ Shown(k)' => HasEntry(k, tree[k].snap)'
                        /\ \A i \in 1 .. Len(inbox') : Creates(i, k)' => HasEntry(k, inbox[i].snap)'
                        /\ CallbackDue(k)' => HasEntry(k, FALSE)'
                        /\ SnapDue(k)' => HasEntry(k, TRUE)'
      BY DEF EntriesTold
    <2>1. /\ Shown(k) => HasEntry(k, tree[k].snap)
          /\ \A i \in 1 .. Len(inbox) : Creates(i, k) => HasEntry(k, inbox[i].snap)
          /\ CallbackDue(k) => HasEntry(k, FALSE)
          /\ SnapDue(k) => HasEntry(k, TRUE)
      BY <1>11 DEF TellParts, EntriesTold
    <2>2. ASSUME NEW s, s = tree'[k].snap, Shown(k)' PROVE HasEntry(k, s)'
      <3>1. CASE k # e.pid
        BY <1>6, <1>7, <1>10, <1>11, <2>1, <2>2, <3>1
      <3>2. CASE k = e.pid
        <4>1. e.type = "created"
          BY <1>3, <1>5, <1>11, <3>2 DEF TellParts, ExitsOver
        <4>2. CASE Shown(k)
          BY <1>8, <1>11, <2>1, <2>2, <3>2, <4>1, <4>2
        <4>3. CASE ~Shown(k)
          <5>1. s = e.snap
            BY <1>8, <2>2, <3>2, <4>1, <4>3 DEF NodeOf
          <5>2. Creates(1, k) /\ inbox[1].snap = s
            BY <1>3, <1>6, <3>2, <4>1, <5>1
          <5> QED BY <1>3, <1>11, <2>1, <5>2
        <4> QED BY <4>2, <4>3
      <3> QED BY <3>1, <3>2
    <2>3. ASSUME NEW i \in 1 .. Len(inbox'), Creates(i, k)', NEW s, s = inbox'[i].snap
          PROVE  HasEntry(k, s)'
      BY <1>3, <1>11, <1>12, <2>1, <2>3
    <2>4. (CallbackDue(k)' => HasEntry(k, FALSE)') /\ (SnapDue(k)' => HasEntry(k, TRUE)')
      BY <1>11, <2>1
    <2> QED BY <2>2, <2>3, <2>4 DEF HasEntry
  <1>17. TrackedTold'
    <2> SUFFICES ASSUME NEW k \in Pids, Tracked(k)', ~Over(k)', NEW n, n = Len(inbox') + 1
                 PROVE  CallbackDue(k)' \/ SnapDue(k)' \/ Told(k, n)'
      BY DEF TrackedTold, Told, Creates, Shown
    <2>1. CallbackDue(k) \/ SnapDue(k) \/ Told(k, Len(inbox) + 1)
      BY <1>11 DEF TellParts, TrackedTold
    <2>2. n \in Nat /\ n = Len(inbox)
      <3>1. Len(inbox') = Len(inbox) - 1
        BY <1>2, HeadAndTail DEF EventTypes, ClientTypes
      <3> QED BY <1>3, <3>1
    <2> QED BY <1>11, <1>13, <2>1, <2>2
  <1>18. ToldTrue'
    <2> SUFFICES ASSUME NEW p \in Processes, proc[p].life \in Listed, NEW k, k = proc[p].pid
                 PROVE  /\ \A i \in 1 .. Len(inbox') : Creates(i, k)' =>
                              (inbox'[i].isRoot => proc[p].image) /\ inbox'[i].ppid = proc[p].ppid
                        /\ SnapDue(k) /\ snap.isRoot => proc[p].image
                        /\ \A f \in table : f.pid = k => f.ppid = proc[p].ppid
      BY <1>2 DEF ToldTrue, Creates, SnapDue
    <2>1. /\ \A i \in 1 .. Len(inbox) : Creates(i, k) =>
                (inbox[i].isRoot => proc[p].image) /\ inbox[i].ppid = proc[p].ppid
          /\ SnapDue(k) /\ snap.isRoot => proc[p].image
          /\ \A f \in table : f.pid = k => f.ppid = proc[p].ppid
      BY DEF TellParts, ToldTrue
    <2>2. ASSUME NEW i \in 1 .. Len(inbox'), Creates(i, k)'
          PROVE  (inbox'[i].isRoot => proc[p].image) /\ inbox'[i].ppid = proc[p].ppid
      <3>1. PICK h : h = i + 1
        OBVIOUS
      <3>2. h \in 1 .. Len(inbox) /\ inbox'[i] = inbox[h] /\ Creates(h, k)
        BY <1>3, <1>12, <2>2, <3>1
      <3> QED BY <2>1, <3>2
    <2> QED BY <2>1, <2>2
  <1>19. ParentFirst'
    <2>1. ASSUME NEW p \in Processes, proc'[p].life \in Listed, ~proc'[p].image,
                 NEW k, k = proc'[p].pid, NEW m, m = proc'[p].ppid, HasEntry(m, FALSE)'
          PROVE  /\ Shown(k)' => tree'[k].under = m
                 /\ \A i \in 1 .. Len(inbox') : Creates(i, k)' => Told(m, i)'
      <3>1. proc[p].life \in Listed /\ ~proc[p].image /\ proc[p].pid = k /\ proc[p].ppid = m
        BY <1>2, <2>1
      <3>2. HasEntry(m, FALSE)
        BY <1>11, <2>1
      <3>3. /\ Shown(k) => tree[k].under = m
            /\ \A i \in 1 .. Len(inbox) : Creates(i, k) => Told(m, i)
        BY <3>1, <3>2 DEF TellParts, ParentFirst
      <3>4. ASSUME Shown(k)' PROVE tree'[k].under = m
        <4>1. k \in Pids
          BY <3>4 DEF Shown
        <4>2. CASE Shown(k)
          BY <1>5, <1>7, <1>8, <1>9, <3>3, <4>1, <4>2
        <4>3. CASE ~Shown(k)
          <5>1. Creates(1, k) /\ e.type = "created" /\ e.pid = k
            BY <1>6, <1>10, <3>4, <4>3
          <5>2. Told(m, 1)
            BY <1>3, <3>3, <5>1
          <5>3. Shown(m)
            BY <1>3, <5>2 DEF Told
          <5>4. ~e.isRoot /\ e.ppid = m
            BY <1>3, <3>1, <5>1 DEF TellParts, ToldTrue
          <5> QED BY <1>8, <4>3, <5>1, <5>3, <5>4 DEF NodeOf
        <4> QED BY <4>2, <4>3
      <3>5. \A i \in 1 .. Len(inbox') : Creates(i, k)' => Told(m, i)'
        BY <1>3, <1>12, <1>13, <3>3
      <3> QED BY <3>4, <3>5
    <2>2. \A p \in Processes : proc'[p].life \in Listed /\ ~proc'[p].image =>
             \A k, m : k = proc'[p].pid /\ m = proc'[p].ppid /\ HasEntry(m, FALSE)' =>
                /\ Shown(k)' => tree'[k].under = m
                /\ \A i \in 1 .. Len(inbox') : Creates(i, k)' => Told(m, i)'
      BY <2>1
    <2> QED BY <2>2 DEF ParentFirst, HasEntry, Told, Creates, Shown
  <1> QED BY <1>14, <1>15, <1>16, <1>17, <1>18, <1>19 DEF TellParts
\* The client builds its tree from a reply with every entry.
LEMMA TellSeeds ==
    ASSUME PInv, PidsFresh, EventTypes, TellParts, Seeds, seeded' # "cut" PROVE TellParts'
  <1>1. /\ UNCHANGED <<proc, table, control, snap, inbox, deferred, pushing>>
        /\ tree' = Built(table)
    BY DEF Seeds, vars, driverVars
  <1>2. ASSUME NEW k \in Pids
        PROVE  /\ tree'[k].state \in {"none", "live"}
               /\ Shown(k)' <=> Tracked(k)
               /\ \A e \in table : e.pid = k =>
                     tree'[k].snap = e.snap /\ (Tracked(e.ppid) => tree'[k].under = e.ppid)
    <2>1. /\ (\A e \in table : e.pid # k) => tree'[k].state = "none"
          /\ \A e \in table : e.pid = k =>
                /\ tree'[k].state = "live" /\ tree'[k].snap = e.snap
                /\ (\E f \in table : f.pid = e.ppid) => tree'[k].under = e.ppid
      BY <1>1, BuiltNodes
    <2> QED BY <2>1 DEF Shown, Tracked
  <1>3. \A k : (Held(k)' <=> Held(k)) /\ (Over(k)' <=> Over(k)) /\ (Tracked(k)' <=> Tracked(k))
               /\ (CallbackDue(k)' <=> CallbackDue(k)) /\ (SnapDue(k)' <=> SnapDue(k))
               /\ \A s : HasEntry(k, s)' <=> HasEntry(k, s)
    BY <1>1 DEF Held, Over, Holds, Tracked, CallbackDue, SnapDue, HasEntry
  <1>4. \A i, k : Creates(i, k)' <=> Creates(i, k)
    BY <1>1 DEF Creates
  <1>5. \A k : Tracked(k) => Held(k) /\ k \in Pids
    BY DEF Tracked, Held, PInv, FreshInv, TableInv, Entry
  <1>6. HeardHeld'
    <2>1. \A k \in Pids : Shown(k)' => Held(k)'
      BY <1>2, <1>3, <1>5
    <2>2. \A i \in 1 .. Len(inbox') : \A k : k = inbox'[i].pid => Held(k)'
      BY <1>1, <1>3 DEF TellParts, HeardHeld
    <2> QED BY <2>1, <2>2 DEF HeardHeld, Held, Holds
  <1>7. ExitsOver'
    <2>1. \A k \in Pids : tree'[k].state # "exited"
      BY <1>2
    <2>2. \A i \in 1 .. Len(inbox') : inbox'[i].type = "exited" =>
             \A k : k = inbox'[i].pid => Over(k)'
      BY <1>1, <1>3 DEF TellParts, ExitsOver
    <2>3. \A i \in 1 .. Len(deferred') : \A k : k = deferred'[i].pid => Over(k)'
      BY <1>1, <1>3 DEF TellParts, ExitsOver
    <2>4. pushing' # NoEvent => \A k : k = pushing'.pid => Over(k)'
      BY <1>1, <1>3 DEF TellParts, ExitsOver
    <2> QED BY <2>1, <2>2, <2>3, <2>4 DEF ExitsOver, Over, Holds
  <1>8. EntriesTold'
    <2> SUFFICES ASSUME NEW k \in Pids, ~Over(k)'
                 PROVE  /\ Shown(k)' => HasEntry(k, tree[k].snap)'
                        /\ \A i \in 1 .. Len(inbox') : Creates(i, k)' => HasEntry(k, inbox[i].snap)'
                        /\ CallbackDue(k)' => HasEntry(k, FALSE)'
                        /\ SnapDue(k)' => HasEntry(k, TRUE)'
      BY DEF EntriesTold
    <2>1. /\ \A i \in 1 .. Len(inbox) : Creates(i, k) => HasEntry(k, inbox[i].snap)
          /\ CallbackDue(k) => HasEntry(k, FALSE)
          /\ SnapDue(k) => HasEntry(k, TRUE)
      BY <1>3 DEF TellParts, EntriesTold
    <2>2. Shown(k)' => \A s : s = tree'[k].snap => HasEntry(k, s)
      BY <1>2 DEF Tracked, HasEntry
    <2>3. \A i \in 1 .. Len(inbox') : Creates(i, k)' => \A s : s = inbox'[i].snap => HasEntry(k, s)
      BY <1>1, <1>4, <2>1
    <2> QED BY <1>1, <1>3, <2>1, <2>2, <2>3 DEF HasEntry
  <1>9. TrackedTold'
    <2> SUFFICES ASSUME NEW k \in Pids, Tracked(k)' PROVE Told(k, Len(inbox) + 1)'
      BY DEF TrackedTold
    <2> QED BY <1>2, <1>3 DEF Told, Shown
  <1>10. ToldTrue'
    BY <1>1 DEF TellParts, ToldTrue, Creates, SnapDue
  <1>11. ParentFirst'
    <2>1. ASSUME NEW p \in Processes, proc'[p].life \in Listed, ~proc'[p].image,
                 NEW k, k = proc'[p].pid, NEW m, m = proc'[p].ppid, HasEntry(m, FALSE)'
          PROVE  /\ Shown(k)' => tree'[k].under = m
                 /\ \A i \in 1 .. Len(inbox') : Creates(i, k)' => Told(m, i)'
      <3>1. proc[p].life \in Listed /\ proc[p].pid = k /\ proc[p].ppid = m
        BY <1>1, <2>1
      <3>2. Tracked(m) /\ m \in Pids
        BY <1>3, <1>5, <2>1 DEF HasEntry, Tracked
      <3>3. Shown(m)'
        BY <1>2, <3>2
      <3>4. ASSUME Shown(k)' PROVE tree'[k].under = m
        <4>1. k \in Pids /\ Tracked(k)
          BY <1>2, <3>4 DEF Shown
        <4>2. PICK e \in table : e.pid = k
          BY <4>1 DEF Tracked
        <4>3. e.ppid = m
          BY <3>1, <4>2 DEF TellParts, ToldTrue
        <4> QED BY <1>2, <3>2, <4>1, <4>2, <4>3
      <3> QED BY <3>3, <3>4 DEF Told
    <2>2. \A p \in Processes : proc'[p].life \in Listed /\ ~proc'[p].image =>
             \A k, m : k = proc'[p].pid /\ m = proc'[p].ppid /\ HasEntry(m, FALSE)' =>
                /\ Shown(k)' => tree'[k].under = m
                /\ \A i \in 1 .. Len(inbox') : Creates(i, k)' => Told(m, i)'
      BY <2>1
    <2> QED BY <2>2 DEF ParentFirst, HasEntry, Told, Creates, Shown
  <1> QED BY <1>6, <1>7, <1>8, <1>9, <1>10, <1>11 DEF TellParts

\* When a child is announced, a parent that a callback has entered is so already.
LEMMA ParentTold ==
    ASSUME PInv, CompleteInv, PidsFresh, active, TellParts, NEW p \in Processes,
           proc[p].life \in Listed, NEW m, m = proc[p].ppid, HasEntry(m, FALSE)
    PROVE  Told(m, Len(inbox) + 1)
  <1>1. PICK e \in table : e.pid = m /\ e.snap = FALSE
    BY DEF HasEntry
  <1>2. m \in Pids /\ Tracked(m)
    BY <1>1 DEF PInv, TableInv, Entry, Tracked
  <1>3. PICK q \in Processes : Holds(q, m) /\ proc[q].life \in Alive
    BY <1>1 DEF PInv, CallbackEntriesLive
  <1>4. \A r \in Processes : Holds(r, m) => r = q
    BY <1>3 DEF PInv, PidInv, Holds
  <1>5. ~Over(m)
    BY <1>3, <1>4 DEF Over, Alive
  <1>6. ~SnapDue(m)
    <2>1. SnapDue(m) => HasEntry(m, TRUE)
      BY <1>2, <1>5 DEF TellParts, EntriesTold
    <2>2. ~HasEntry(m, TRUE)
      BY <1>1 DEF HasEntry, PInv, TableInv, OneEntry
    <2> QED BY <2>1, <2>2
  <1>7. ~CallbackDue(m)
    <2>1. Descent(p)
      BY DEF PInv, FreshInv
    <2>2. proc[p].parent \in Processes /\ Holds(proc[p].parent, m)
      BY <1>2, <2>1, ProcessTrackAssumption DEF Descent
    <2>3. proc[p].parent = q /\ proc[q].life \in Ran
      BY <1>4, <2>2 DEF CompleteInv, ParentRan
    <2> QED BY <1>4, <2>3 DEF CallbackDue, Ran
  <1> QED BY <1>2, <1>5, <1>6, <1>7 DEF TellParts, TrackedTold

LEMMA TellStep ==
    ASSUME PInv, CompleteInv, EventTypes, StartInv, LeaveInv, TellInv, [EventsNext]_allVars
    PROVE  TellInv'
  <1> SUFFICES ASSUME Fresh' PROVE TellParts'
    BY DEF TellInv
  <1>1. Following /\ PidsFresh /\ TellParts /\ Following' /\ PidsFresh' /\ seeded' # "cut"
    BY FreshBefore DEF Fresh, TellInv
  <1>2. CASE Silent
    <2>1. SilentStep
      BY <1>1, <1>2, SilentSteps
    <2> QED BY <1>1, <2>1, TellSilent
  <1>3. \A p, q \in Processes : \A k : Holds(p, k) /\ Holds(q, k) => p = q
    BY DEF PInv, PidInv, Holds
  <1>4. ASSUME NEW p \in Processes, NEW b \in Listed, SetLife(p, b), proc[p].life \in Listed
        PROVE  /\ \A q \in Processes :
                     /\ proc'[q].pid = proc[q].pid /\ proc'[q].ppid = proc[q].ppid
                     /\ proc'[q].image = proc[q].image
                     /\ proc'[q].life \in Listed <=> proc[q].life \in Listed
                     /\ q # p => proc'[q].life = proc[q].life
               /\ proc'[p].life = b
    <2>1. Moves(p, b)
      BY <1>4, SetLifeMoves DEF PInv, Life
    <2> QED BY <1>4, <2>1 DEF Moves
  <1>5. Following => Empty \/ active
    BY DEF Following, StartInv
  <1>6. CASE \E p \in Processes : Announces(p)
    <2> PICK p \in Processes : Announces(p)
      BY <1>6
    <2>1. PICK e : e = Created(proc[p].pid, proc[p].ppid, proc[p].image, FALSE)
      OBVIOUS
    <2>2. /\ inbox' = Append(inbox, e)
          /\ UNCHANGED <<table, tree, deferred, pushing, control, snap>>
          /\ proc[p].life = "pushCreated" /\ SetLife(p, "running") /\ e.type = "created"
          /\ e.pid = proc[p].pid /\ e.ppid = proc[p].ppid /\ e.isRoot = proc[p].image
          /\ e.snap = FALSE
      BY <2>1 DEF Announces, PushCreated, driverVars, Created
    <2>3. Holds(p, e.pid) /\ e.pid \in Pids /\ active
      BY <1>1, <1>5, <2>2 DEF Holds, Listed, InCallback, PInv, PidInv, Empty
    <2>4. e \in Event
      <3>1. proc[p].ppid \in Pids \union {NoPid} /\ proc[p].image \in BOOLEAN
        BY DEF PInv, ProcTypes, ProcessRecord
      <3> QED BY <2>1, <2>2, <2>3, <3>1 DEF Created, Event
    <2>5. /\ \A q \in Processes :
                /\ proc'[q].pid = proc[q].pid /\ proc'[q].ppid = proc[q].ppid
                /\ proc'[q].image = proc[q].image
                /\ proc'[q].life \in Listed <=> proc[q].life \in Listed
                /\ q # p => proc'[q].life = proc[q].life
          /\ proc'[p].life = "running"
      BY <1>4, <2>2 DEF Listed, InCallback
    <2>6. \A q \in Processes :
             proc'[q].life \in {"defer", "zombie"} <=> proc[q].life \in {"defer", "zombie"}
      BY <2>2, <2>5
    <2>7. \A k : (CallbackDue(k)' => CallbackDue(k))
                 /\ (CallbackDue(k) => CallbackDue(k)' \/ e.pid = k)
      BY <2>2, <2>5 DEF CallbackDue, Holds
    <2>8. \A k : SnapDue(k)' <=> SnapDue(k)
      BY <2>2 DEF SnapDue
    <2>9. Held(e.pid) /\ (Over(e.pid) \/ HasEntry(e.pid, FALSE))
      <3>1. CallbackDue(e.pid)
        BY <2>2, <2>3 DEF CallbackDue
      <3> QED BY <1>1, <2>3, <3>1 DEF Held, TellParts, EntriesTold
    <2>10. \A q \in Processes : Holds(q, e.pid) => q = p
      BY <1>3, <2>3
    <2>11. HasEntry(proc[p].ppid, FALSE) => Told(proc[p].ppid, Len(inbox) + 1)
      BY <1>1, <2>3, ParentTold DEF Holds
    <2> QED BY <1>1, <2>2, <2>4, <2>5, <2>6, <2>7, <2>8, <2>9, <2>10, <2>11, TellAppend
  <1>7. CASE SnapAnnounces
    <2>1. PICK e : e = Created(snap.row.pid, snap.row.ppid, snap.isRoot, TRUE)
      OBVIOUS
    <2>2. /\ inbox' = Append(inbox, e)
          /\ UNCHANGED <<proc, table, tree, deferred, pushing>> /\ control = "push"
          /\ control' = "visit" /\ e.type = "created" /\ e.pid = snap.row.pid
          /\ e.ppid = snap.row.ppid /\ e.isRoot = snap.isRoot /\ e.snap = TRUE
      BY <1>7, <2>1 DEF SnapAnnounces, SnapPush, driverVars, Created
    <2>3. e \in Event /\ e.pid \in Pids
      <3>1. snap.row \in Row /\ snap.isRoot \in BOOLEAN
        BY <2>2 DEF PInv, ControlInv, HasRow, SnapTypes, Snaps
      <3> QED BY <2>1, <3>1 DEF Created, Event, Row
    <2>4. active
      BY <2>2 DEF PInv, ControlInv, HasRow
    <2>5. PICK p \in Processes : Holds(p, e.pid) /\ proc[p].ppid = e.ppid
      <3>1. RowTrue(snap.row)
        BY <1>1, <2>2 DEF PInv, FreshInv, Rows, HasRow
      <3> QED BY <2>2, <3>1 DEF RowTrue
    <2>6. \A q \in Processes : Holds(q, e.pid) => q = p
      BY <1>3, <2>5
    <2>7. SnapDue(e.pid) /\ Held(e.pid)
      BY <2>2, <2>5 DEF SnapDue, Held
    <2>8. Over(e.pid) \/ HasEntry(e.pid, TRUE)
      BY <1>1, <2>3, <2>7 DEF TellParts, EntriesTold
    <2>9. e.isRoot => proc[p].image
      <3>1. proc[p].life \in Listed /\ SnapDue(proc[p].pid)
        BY <2>5, <2>7 DEF Holds
      <3> QED BY <1>1, <2>2, <3>1 DEF TellParts, ToldTrue
    <2>10. HasEntry(proc[p].ppid, FALSE) => Told(proc[p].ppid, Len(inbox) + 1)
      BY <1>1, <2>4, <2>5, ParentTold DEF Holds
    <2>11. \A k : (CallbackDue(k)' <=> CallbackDue(k)) /\ ~SnapDue(k)'
                  /\ (SnapDue(k) => e.pid = k)
      BY <2>2 DEF CallbackDue, Holds, SnapDue
    <2> QED BY <1>1, <2>2, <2>3, <2>5, <2>6, <2>7, <2>8, <2>9, <2>10, <2>11, TellAppend
  <1>8. CASE PushesExit
    <2>1. /\ inbox' = Append(inbox, pushing) /\ pushing' = NoEvent /\ pushing \in Event
          /\ pushing # NoEvent /\ UNCHANGED <<proc, table, tree, deferred, control, snap>>
      BY <1>8, ProcessEventsAssumption DEF PushesExit, vars, driverVars
    <2>2. PICK e \in Event : e = pushing
      BY <2>1
    <2>3. Over(e.pid) /\ Held(e.pid)
      <3>1. Over(e.pid)
        BY <1>1, <2>1, <2>2 DEF TellParts, ExitsOver
      <3> QED BY <3>1 DEF Over, Held
    <2>4. e.type = "exited"
      BY <1>1, <2>1, <2>2 DEF LeaveInv
    <2>5. \A k : (CallbackDue(k)' <=> CallbackDue(k)) /\ (SnapDue(k)' <=> SnapDue(k))
      BY <2>1 DEF CallbackDue, Holds, SnapDue
    <2> QED BY <1>1, <2>1, <2>2, <2>3, <2>4, <2>5, TellAppend
  <1>9. CASE (\E p \in Processes : Lists(p) \/ Signals(p)) \/ TakesExit
    <2>1. UNCHANGED <<inbox, tree, table, control, snap>>
      BY <1>9 DEF Lists, Signals, DeferExited, TakesExit, vars, driverVars
    <2>2. \A q \in Processes :
             /\ proc'[q].pid = proc[q].pid /\ proc'[q].ppid = proc[q].ppid
             /\ proc'[q].image = proc[q].image
             /\ proc'[q].life \in Listed <=> proc[q].life \in Listed
             /\ proc'[q].life \in {"defer", "zombie"} <=> proc[q].life \in {"defer", "zombie"}
             /\ proc'[q].life = "pushCreated" <=> proc[q].life = "pushCreated"
      <3>1. CASE UNCHANGED proc
        BY <3>1
      <3>2. CASE \E p \in Processes : Signals(p)
        <4>1. PICK p \in Processes : proc[p].life = "defer" /\ SetLife(p, "zombie")
          BY <3>2 DEF Signals, DeferExited
        <4>2. /\ \A q \in Processes :
                    /\ proc'[q].pid = proc[q].pid /\ proc'[q].ppid = proc[q].ppid
                    /\ proc'[q].image = proc[q].image
                    /\ proc'[q].life \in Listed <=> proc[q].life \in Listed
                    /\ q # p => proc'[q].life = proc[q].life
              /\ proc'[p].life = "zombie"
          BY <1>4, <4>1 DEF Listed, InCallback
        <4> QED BY <4>1, <4>2
      <3> QED BY <1>9, <3>1, <3>2 DEF Lists, TakesExit, vars
    <2>3. (\A i \in 1 .. Len(deferred) : \A k : k = deferred[i].pid => Over(k))
          /\ (pushing # NoEvent => \A k : k = pushing.pid => Over(k))
      BY <1>1 DEF TellParts, ExitsOver
    <2>4. /\ \A i \in 1 .. Len(deferred') : \A k : k = deferred'[i].pid => Over(k)
          /\ pushing' # NoEvent => \A k : k = pushing'.pid => Over(k)
      <3>1. CASE \E p \in Processes : Lists(p)
        <4>1. PICK p \in Processes : Lists(p)
          BY <3>1
        <4>2. PICK e : e = Exited(proc[p].pid)
          OBVIOUS
        <4>3. /\ deferred' = Append(deferred, e) /\ UNCHANGED pushing /\ e.pid = proc[p].pid
              /\ proc[p].life = "defer"
          BY <4>1, <4>2 DEF Lists, Exited
        <4>4. Holds(p, e.pid) /\ e.pid \in Pids
          BY <4>3 DEF Holds, Listed, InCallback, PInv, PidInv
        <4>5. e \in Event /\ Over(e.pid)
          BY <4>2, <4>3, <4>4 DEF Exited, Event, Over
        <4>6. /\ Len(deferred) \in Nat /\ Len(deferred') = Len(deferred) + 1
              /\ \A i \in 1 .. Len(deferred) : deferred'[i] = deferred[i]
              /\ deferred'[Len(deferred) + 1] = e
          BY <4>3, <4>5, Longer DEF EventTypes, ExitTypes
        <4>7. \A i \in 1 .. Len(deferred') : i \in 1 .. Len(deferred) \/ deferred'[i] = e
          BY <4>6
        <4> QED BY <2>3, <4>3, <4>5, <4>6, <4>7
      <3>2. CASE \E p \in Processes : Signals(p)
        BY <2>3, <3>2 DEF Signals
      <3>3. CASE TakesExit
        <4>1. /\ Head(deferred) = deferred[1] /\ 1 \in 1 .. Len(deferred)
              /\ \A i \in 1 .. Len(deferred') : i + 1 \in 1 .. Len(deferred)
                                                /\ deferred'[i] = deferred[i + 1]
          <5>1. /\ Head(deferred) = deferred[1] /\ Len(deferred) \in Nat \ {0}
                /\ \A i \in 1 .. Len(deferred') : i + 1 \in 1 .. Len(deferred)
                                                  /\ deferred'[i] = deferred[i + 1]
            BY <3>3, HeadAndTail DEF TakesExit, EventTypes, ExitTypes
          <5> QED BY <5>1
        <4>2. pushing' = deferred[1]
          BY <3>3, <4>1 DEF TakesExit
        <4>3. ASSUME NEW i \in 1 .. Len(deferred'), NEW k, k = deferred'[i].pid PROVE Over(k)
          <5>1. PICK h : h = i + 1
            OBVIOUS
          <5>2. h \in 1 .. Len(deferred) /\ deferred'[i] = deferred[h]
            BY <4>1, <5>1
          <5> QED BY <2>3, <4>3, <5>2
        <4> QED BY <2>3, <4>1, <4>2, <4>3
      <3> QED BY <1>9, <3>1, <3>2, <3>3
    <2> QED BY <1>1, <2>1, <2>2, <2>4, TellExits
  <1>10. CASE Applies
    BY <1>1, <1>10, TellApplies
  <1>11. CASE Seeds
    BY <1>1, <1>11, TellSeeds
  <1> QED BY <1>1, <1>2, <1>6, <1>7, <1>8, <1>9, <1>10, <1>11, EventCases

LEMMA TellInit == EventsInit => TellInv
  <1> SUFFICES ASSUME EventsInit PROVE TellParts
    BY DEF TellInv
  <1>1. /\ inbox = << >> /\ deferred = << >> /\ pushing = NoEvent /\ table = {}
        /\ tree = [k \in Pids |-> NoNode] /\ proc = [p \in Processes |-> Absent("unborn")]
        /\ control = "idle"
    BY DEF EventsInit, Init
  <1>2. Len(inbox) = 0 /\ Len(deferred) = 0
    BY <1>1
  <1>3. HeardHeld /\ ExitsOver
    BY <1>1, <1>2 DEF HeardHeld, ExitsOver, Shown, NoNode
  <1>4. EntriesTold /\ TrackedTold
    <2>1. \A k : ~CallbackDue(k) /\ ~SnapDue(k) /\ ~Tracked(k)
      BY <1>1 DEF CallbackDue, SnapDue, Tracked, Absent
    <2>2. \A k : ~Shown(k)
      BY <1>1 DEF Shown, NoNode
    <2>3. \A i \in 1 .. Len(inbox) : FALSE
      BY <1>2
    <2>4. EntriesTold
      BY <2>1, <2>2, <2>3 DEF EntriesTold
    <2>5. TrackedTold
      BY <2>1 DEF TrackedTold
    <2> QED BY <2>4, <2>5
  <1>5. ToldTrue /\ ParentFirst
    BY <1>1, <1>2 DEF ToldTrue, ParentFirst, Absent, Listed, InCallback
  <1> QED BY <1>3, <1>4, <1>5 DEF TellParts
-----------------------------------------------------------------------------
(* Theorems. *)

EventsInv ==
    /\ PInv /\ CompleteInv /\ EventTypes
    /\ StartInv /\ LeaveInv /\ TellInv

\* The inductive invariant: the tracker's and what relates its table to what is
\* on the way to the client and to the client's tree.
THEOREM EventsInvariant == EventsSpec => []EventsInv
  <1>1. EventsInit => EventsInv
    <2>1. EventsInit => Init
      BY DEF EventsInit
    <2> QED BY <2>1, InitPInv, InitComplete, EventsInitTypes, StartInvInit, LeaveInit, TellInit
            DEF EventsInv
  <1>2. EventsInv /\ [EventsNext]_allVars => EventsInv'
    <2> SUFFICES ASSUME EventsInv, [EventsNext]_allVars PROVE EventsInv'
      OBVIOUS
    <2>1. PInv' /\ CompleteInv'
      BY StepTracker DEF EventsInv
    <2>2. EventTypes'
      BY <2>1, EventTypesStep DEF EventsInv
    <2>3. StartInv'
      BY StartInvStep DEF EventsInv
    <2>4. LeaveInv'
      BY <2>1, <2>2, LeaveStep DEF EventsInv
    <2>5. TellInv'
      BY TellStep DEF EventsInv
    <2> QED BY <2>1, <2>2, <2>3, <2>4, <2>5 DEF EventsInv
  <1> QED BY <1>1, <1>2, PTL DEF EventsSpec

\* The driver's exit list and the client's queue and tree have their types, and the
\* thread that pushes exits holds one exactly while it pushes (knFcExitDeferWorker).
THEOREM EventsTyped == EventsSpec => []EventsTypeOK
  <1>1. EventsInv => EventsTypeOK
    <2> SUFFICES ASSUME EventsInv PROVE EventsTypeOK
      OBVIOUS
    <2>1. TypeOK
      BY FS_CardinalityType
         DEF EventsInv, PInv, TypeOK, ProcTypes, SnapTypes, Snaps, OtherTypes, TableInv, OneEntry
    <2> QED BY <2>1 DEF EventsInv, EventTypes, ExitTypes, ClientTypes, SignalTypes, Node, EventsTypeOK
  <1> QED BY <1>1, EventsInvariant, PTL

\* No event is on its way, so nothing is announced or listed any more.
LEMMA SettledAll ==
    ASSUME EventsInv, Followed, Settled
    PROVE  /\ Following /\ inbox = << >> /\ control = "idle" /\ Len(inbox) = 0
           /\ \A i \in 1 .. Len(inbox) : FALSE
           /\ \A i \in 1 .. Len(deferred) : FALSE
           /\ pushing = NoEvent
           /\ \A p \in Processes : proc[p].life \notin InCallback
  <1>1. Len(inbox) = 0 /\ Len(deferred) = 0
    BY DEF Settled
  <1>2. pushing = NoEvent
    BY DEF Settled, EventsInv, EventTypes, ExitTypes
  <1> QED BY <1>1, <1>2 DEF Settled, Followed, Following

\* However late an exit is pushed, a process that its create callback has announced
\* is shown as running only while it is tracked, also when its pid has had other
\* owners (MarkExited, knFcExitDeferEnqueue, ApplyProcessEvent).
THEOREM ExitsAreShown == EventsSpec => []ExitsShown
  <1>1. EventsInv => ExitsShown
    <2> SUFFICES ASSUME EventsInv, Followed, Settled, NEW k \in Pids,
                        tree[k].state = "live", ~tree[k].snap
                 PROVE  Tracked(k)
      BY DEF ExitsShown
    <2>1. Tracked(k) \/ Leaving(k) \/ ExitAfter(k, 0)
      BY SettledAll DEF EventsInv, LeaveInv
    <2>2. ~Leaving(k) /\ ~ExitAfter(k, 0)
      BY SettledAll DEF Leaving, ExitAfter, InCallback
    <2> QED BY <2>1, <2>2
  <1> QED BY <1>1, EventsInvariant, PTL

\* A running process without an exit.
LEMMA RunningNotOver ==
    ASSUME EventsInv, NEW p \in Processes, proc[p].life = "running"
    PROVE  ~Over(proc[p].pid) /\ \A q \in Processes : Holds(q, proc[p].pid) => q = p
  BY DEF EventsInv, PInv, PidInv, Over, Listed

\* Once the events have arrived every running tracked process is shown, whoever
\* announced it, the reply to GetProcessTree, the snapshot or its create callback
\* (BuildTree, knFcTrackSnapshot, knFcClassifyAndInsert).
THEOREM TrackedAreShown == EventsSpec => []TrackedShown
  <1>1. EventsInv => TrackedShown
    <2> SUFFICES ASSUME EventsInv, Followed, Settled, PidsFresh, seeded # "cut",
                        NEW p \in Processes, proc[p].life = "running",
                        NEW k, k = proc[p].pid, Tracked(k)
                 PROVE  tree[k].state = "live"
      BY DEF TrackedShown, ShownRunning
    <2>1. TellParts
      BY SettledAll DEF EventsInv, TellInv, Fresh
    <2>2. k \in Pids
      BY DEF Tracked, EventsInv, PInv, TableInv, Entry
    <2>3. ~Over(k) /\ \A q \in Processes : Holds(q, k) => q = p
      BY RunningNotOver
    <2>4. ~CallbackDue(k) /\ ~SnapDue(k)
      BY <2>3, SettledAll DEF CallbackDue, SnapDue
    <2>5. Shown(k)
      BY <2>1, <2>2, <2>3, <2>4, SettledAll DEF TellParts, TrackedTold, Told
    <2>6. tree[k].state # "exited"
      BY <2>1, <2>2, <2>3 DEF TellParts, ExitsOver
    <2>7. tree[k].state \in {"none", "live", "exited"}
      BY <2>2 DEF EventsInv, EventTypes, ClientTypes, Node
    <2> QED BY <2>5, <2>6, <2>7 DEF Shown
  <1> QED BY <1>1, EventsInvariant, PTL

\* The tree shows who made whom: a child is under its parent, for a parent that a
\* callback has announced is announced before its child is (ApplyProcessEvent,
\* BuildTree).
THEOREM ChildrenUnderParents == EventsSpec => []ChildUnderParent
  <1>1. EventsInv => ChildUnderParent
    <2> SUFFICES ASSUME EventsInv, Followed, Settled, PidsFresh, seeded # "cut",
                        NEW p \in Processes, NEW q \in Processes,
                        proc[p].life = "running", proc[q].life = "running",
                        proc[p].parent = q, ~proc[p].image,
                        NEW k, k = proc[p].pid, NEW m, m = proc[q].pid,
                        Tracked(k), Tracked(m), ~tree[m].snap
                 PROVE  tree[k].under = m
      BY DEF ChildUnderParent
    <2>1. TellParts
      BY SettledAll DEF EventsInv, TellInv, Fresh
    <2>2. k \in Pids /\ m \in Pids
      BY DEF Tracked, EventsInv, PInv, TableInv, Entry
    <2>3. /\ ~Over(k) /\ \A r \in Processes : Holds(r, k) => r = p
          /\ ~Over(m) /\ \A r \in Processes : Holds(r, m) => r = q
      BY RunningNotOver
    <2>4. ~CallbackDue(k) /\ ~SnapDue(k) /\ ~CallbackDue(m) /\ ~SnapDue(m)
      BY <2>3, SettledAll DEF CallbackDue, SnapDue
    <2>5. Shown(k) /\ Shown(m)
      BY <2>1, <2>2, <2>3, <2>4, SettledAll DEF TellParts, TrackedTold, Told
    <2>6. HasEntry(m, FALSE)
      <3>1. tree[m].snap = FALSE
        BY <2>2 DEF EventsInv, EventTypes, ClientTypes, Node
      <3> QED BY <2>1, <2>2, <2>3, <2>5, <3>1 DEF TellParts, EntriesTold
    <2>7. proc[p].ppid = m /\ proc[p].life \in Listed
      <3>1. Descent(p)
        BY DEF EventsInv, PInv, FreshInv, Listed
      <3> QED BY <3>1, ProcessTrackAssumption DEF Descent, Holds, Listed
    <2> QED BY <2>1, <2>5, <2>6, <2>7 DEF TellParts, ParentFirst
  <1> QED BY <1>1, EventsInvariant, PTL
=============================================================================
