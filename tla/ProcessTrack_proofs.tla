------------------------ MODULE ProcessTrack_proofs ------------------------
(***************************************************************************)
(* The table of tracked processes, proved: one entry per pid, empty after   *)
(* Stop, every process that is due has one, and only descendants of roots   *)
(* do, for any number of processes and pids and any bounds.                 *)
(***************************************************************************)
EXTENDS ProcessTrack, FiniteSetTheorems, TLAPS

\* TypeOK in three.
ProcTypes == proc \in [Processes -> ProcessRecord]

Snaps == [buffer : SUBSET Row, todo : SUBSET Row, pass : 0 .. MaxPasses,
          changed : BOOLEAN, row : Row \union {NoRow}, isRoot : BOOLEAN]

SnapTypes == snap \in Snaps

OtherTypes ==
    /\ active \in BOOLEAN /\ registered \in BOOLEAN
    /\ control \in Controls
    /\ starts \in 0 .. MaxStarts
    /\ failures \in 0 .. MaxFailures

TableInv ==
    /\ table \subseteq Entry
    /\ IsFiniteSet(table)
    /\ OneEntry

HasRow == {"parent", "image", "classify", "push"}

\* What the place of the thread that serves Start and Stop says.
ControlInv ==
    /\ control \in {"register", "activate", "unregister", "drain", "purge"} => ~active
    /\ control \in {"query", "visit"} \union HasRow => active
    /\ active \/ control = "activate" => registered
    /\ control \in {"idle", "register", "activate"} /\ ~active => table = {}
    /\ control \in {"idle", "register", "activate", "purge"} /\ ~active =>
          \A p \in Processes : proc[p].life \notin InCallback
    /\ control \in HasRow => snap.row \in Row

\* A pid names one process at a time.
PidInv ==
    \A p \in Processes : proc[p].life \in Listed =>
        /\ proc[p].pid \in Pids
        /\ \A q \in Processes : Holds(q, proc[p].pid) => q = p

\* A process does not end while it creates another one.
ParentInv ==
    \A p \in Processes : proc[p].life \in {"born", "classify", "pushCreated"} =>
        \/ proc[p].parent = NoProcess /\ proc[p].ppid = NoPid
        \/ /\ proc[p].parent \in Processes
           /\ proc[proc[p].parent].life = "running"
           /\ proc[proc[p].parent].pid = proc[p].ppid

\* A process that is due has an entry, or the create callback will make one.
DueInv ==
    \A p \in Processes : proc[p].due =>
        /\ active
        /\ proc[p].life \in {"born", "classify"} => proc[p].image \/ Tracked(proc[p].ppid)
        /\ proc[p].life \in Alive \ {"born", "classify"} => Tracked(proc[p].pid)

\* A root, and a child of a descendant, descends from a root.
Descent(p) ==
    /\ proc[p].image => proc[p].descends
    /\ \/ proc[p].parent = NoProcess /\ proc[p].ppid = NoPid
       \/ /\ proc[p].parent \in Processes
          /\ Holds(proc[p].parent, proc[p].ppid)
          /\ proc[proc[p].parent].descends => proc[p].descends

\* A row of the snapshot is about a process that the system still lists.
RowTrue(r) == \E p \in Processes : Holds(p, r.pid) /\ proc[p].ppid = r.ppid

Rows == snap.todo \union snap.buffer \union IF control \in HasRow THEN {snap.row} ELSE {}

\* While no pid has been given twice, what is listed, what is in the table and
\* what the snapshot has in hand are the same processes.
FreshInv ==
    PidsFresh =>
        /\ \A p \in Processes : proc[p].life \in Listed => Descent(p)
        /\ \A r \in Rows : RowTrue(r)
        /\ control = "classify" /\ snap.isRoot =>
              \E p \in Processes : Holds(p, snap.row.pid) /\ proc[p].image
        /\ \A e \in table : \E p \in Processes : Holds(p, e.pid) /\ proc[p].descends

PInv ==
    /\ ProcTypes /\ SnapTypes /\ OtherTypes
    /\ TableInv /\ ControlInv /\ PidInv /\ ParentInv /\ DueInv
    /\ CallbackEntriesLive /\ FreshInv

-----------------------------------------------------------------------------

\* A process moves from one point of its life to the next; nothing else changes.
LEMMA SetLifeType ==
    ASSUME ProcTypes, NEW p \in Processes, NEW life \in Life, SetLife(p, life)
    PROVE  /\ ProcTypes'
           /\ proc'[p] = [proc[p] EXCEPT !.life = life]
           /\ \A q \in Processes : q # p => proc'[q] = proc[q]
  <1>1. proc[p] \in ProcessRecord
    BY DEF ProcTypes
  <1>2. [proc[p] EXCEPT !.life = life] \in ProcessRecord
    BY <1>1 DEF ProcessRecord
  <1>3. proc' = [proc EXCEPT ![p] = [proc[p] EXCEPT !.life = life]]
    BY DEF SetLife
  <1> QED BY <1>2, <1>3 DEF ProcTypes

\* The process p is at b of its life now; processes keep what else they have, save
\* that they may be due no more.
Moves(p, b) ==
    /\ proc'[p].life = b
    /\ \A q \in Processes : q # p => proc'[q].life = proc[q].life
    /\ \A q \in Processes :
          /\ proc'[q].pid = proc[q].pid /\ proc'[q].ppid = proc[q].ppid
          /\ proc'[q].parent = proc[q].parent /\ proc'[q].image = proc[q].image
          /\ proc'[q].descends = proc[q].descends /\ (proc'[q].due => proc[q].due)

\* SetLife moves a process.
LEMMA SetLifeMoves ==
    ASSUME ProcTypes, NEW p \in Processes, NEW life \in Life, SetLife(p, life)
    PROVE  ProcTypes' /\ Moves(p, life)
  <1>1. proc[p] \in ProcessRecord
    BY DEF ProcTypes
  <1>2. /\ proc'[p] = [proc[p] EXCEPT !.life = life]
        /\ \A q \in Processes : q # p => proc'[q] = proc[q]
        /\ ProcTypes'
    BY SetLifeType
  <1> QED BY <1>1, <1>2 DEF ProcessRecord, Moves

\* Variables that do not change keep their types.
LEMMA SameTypes ==
    ASSUME PInv
    PROVE  /\ proc' = proc => ProcTypes' /\ PidInv' /\ ParentInv'
           /\ UNCHANGED snap => SnapTypes'
           /\ UNCHANGED <<table, count>> => TableInv'
  <1>1. proc' = proc => ProcTypes' /\ PidInv' /\ ParentInv'
    BY DEF PInv, ProcTypes, PidInv, ParentInv, Holds
  <1>2. UNCHANGED snap => SnapTypes'
    BY DEF PInv, SnapTypes
  <1>3. UNCHANGED <<table, count>> => TableInv'
    BY DEF PInv, TableInv, OneEntry
  <1> QED BY <1>1, <1>2, <1>3

\* One failure more, or none, stays within the bound.
LEMMA FailType ==
    ASSUME OtherTypes, Fail \/ UNCHANGED failures
    PROVE  failures' \in 0 .. MaxFailures
  <1>1. MaxFailures \in Nat /\ failures \in 0 .. MaxFailures
    BY ProcessTrackAssumption DEF OtherTypes
  <1> QED BY <1>1 DEF Fail

\* knFcClassifyAndInsert adds an entry for a pid that had none.
LEMMA InsertKeeps ==
    ASSUME PInv, NEW k \in Pids, NEW parent \in Pids \union {NoPid}, NEW isRoot \in BOOLEAN,
           NEW fromSnap \in BOOLEAN, Accepts(k, parent, isRoot),
           Insert(k, parent, isRoot, fromSnap)
    PROVE  /\ TableInv'
           /\ \A j : Tracked(j)' <=> Tracked(j) \/ j = k
           /\ \E e : e.pid = k /\ e.snap = fromSnap /\ table' = table \union {e}
  <1> DEFINE e == [pid |-> k, ppid |-> parent, root |-> Lineage(k, parent, isRoot),
                   snap |-> fromSnap]
  <1>1. table' = table \union {e} /\ count' = count + 1
    BY DEF Insert
  <1>2. Lineage(k, parent, isRoot) \in Pids
    <2>1. CASE isRoot
      BY <2>1 DEF Lineage
    <2>2. CASE ~isRoot
      <3>1. Tracked(parent)
        BY <2>2 DEF Accepts
      <3>2. (CHOOSE f \in table : f.pid = parent) \in table
        BY <3>1 DEF Tracked
      <3> QED BY <2>2, <3>2 DEF Lineage, RootOf, PInv, TableInv, Entry
    <2> QED BY <2>1, <2>2
  <1>3. e \in Entry
    BY <1>2 DEF Entry
  <1>4. e \notin table /\ \A f \in table : f.pid # k
    BY DEF Accepts, Tracked
  <1>5. IsFiniteSet(table') /\ Cardinality(table') = Cardinality(table) + 1
    BY <1>1, <1>4, FS_AddElement DEF PInv, TableInv
  <1>6. e.pid = k /\ e.snap = fromSnap
    OBVIOUS
  <1> HIDE DEF e
  <1>7. \A f, g \in table' : f.pid = g.pid => f = g
    BY <1>1, <1>4, <1>6 DEF PInv, TableInv, OneEntry
  <1>8. TableInv'
    BY <1>1, <1>3, <1>5, <1>7 DEF PInv, TableInv, OneEntry
  <1>9. \A j : Tracked(j)' <=> Tracked(j) \/ j = k
    BY <1>1, <1>6 DEF Tracked
  <1> QED BY <1>1, <1>6, <1>8, <1>9

\* knFcMarkExited takes one entry away, and no other.
LEMMA RemoveKeeps ==
    ASSUME PInv, NEW k, Tracked(k), table' = {e \in table : e.pid # k}, count' = count - 1
    PROVE  /\ TableInv'
           /\ \A j : Tracked(j)' <=> Tracked(j) /\ j # k
  <1>1. PICK e \in table : e.pid = k
    BY DEF Tracked
  <1>2. table' = table \ {e}
    BY <1>1 DEF PInv, TableInv, OneEntry
  <1>3. IsFiniteSet(table') /\ Cardinality(table') = Cardinality(table) - 1
    BY <1>1, <1>2, FS_RemoveElement DEF PInv, TableInv
  <1>4. TableInv'
    BY <1>2, <1>3 DEF PInv, TableInv, OneEntry
  <1>5. \A j : Tracked(j)' <=> Tracked(j) /\ j # k
    BY DEF Tracked
  <1> QED BY <1>4, <1>5
-----------------------------------------------------------------------------

\* The moves of a process that leave the table alone.
MayMove(p, a, b) ==
    \/ a = "born" /\ b = "running" /\ ~active
    \/ a = "born" /\ b = "classify" /\ active
    \/ /\ a = "classify" /\ b = "running"
       /\ ~proc'[p].due \/ ~Accepts(proc[p].pid, proc[p].ppid, proc[p].image)
    \/ a = "pushCreated" /\ b = "running"
    \/ a = "running" /\ b = "exiting" /\ ~Creating(p)
    \/ a = "exiting" /\ b = "mark" /\ active
    \/ a = "exiting" /\ b = "zombie" /\ ~active
    \/ a = "mark" /\ b = "zombie" /\ ~Tracked(proc[p].pid)
    \/ a = "defer" /\ b = "zombie"

\* Such a move keeps the invariant.
LEMMA MoveKeeps ==
    ASSUME PInv, NEW p \in Processes, NEW b, ProcTypes', Moves(p, b),
           MayMove(p, proc[p].life, b), UNCHANGED <<driverVars, control, snap, starts>>,
           Fail \/ UNCHANGED failures
    PROVE  PInv'
  <1>1. b \in Listed /\ b \in Life /\ proc[p].life \in Listed
    BY DEF MayMove, Life, Listed, InCallback
  <1>2. /\ proc'[p].life = b
        /\ \A q \in Processes : q # p => proc'[q].life = proc[q].life
        /\ \A q \in Processes :
              /\ proc'[q].pid = proc[q].pid /\ proc'[q].ppid = proc[q].ppid
              /\ proc'[q].parent = proc[q].parent /\ proc'[q].image = proc[q].image
              /\ proc'[q].descends = proc[q].descends /\ (proc'[q].due => proc[q].due)
    BY DEF Moves
  <1>3. UNCHANGED <<active, registered, table, count, control, snap, starts>>
    BY DEF driverVars
  <1>4. \A q \in Processes : proc'[q].life \in Listed <=> proc[q].life \in Listed
    BY <1>1, <1>2
  <1>5. \A q \in Processes : \A k : Holds(q, k)' <=> Holds(q, k)
    BY <1>2, <1>4 DEF Holds
  <1>6. \A j : Tracked(j)' <=> Tracked(j)
    BY <1>3 DEF Tracked
  <1>8. SnapTypes' /\ TableInv'
    BY <1>3, SameTypes
  <1>9. OtherTypes'
    BY <1>3, FailType DEF PInv, OtherTypes
  <1>10. ControlInv'
    <2>1. b \in InCallback => proc[p].life \in InCallback \/ active
      BY DEF MayMove, InCallback
    <2> QED BY <1>2, <1>3, <2>1 DEF PInv, ControlInv
  <1>11. PidInv'
    BY <1>2, <1>4, <1>5 DEF PInv, PidInv
  <1>12. ParentInv'
    <2> SUFFICES ASSUME NEW q \in Processes,
                        proc'[q].life \in {"born", "classify", "pushCreated"}
                 PROVE  \/ proc'[q].parent = NoProcess /\ proc'[q].ppid = NoPid
                        \/ /\ proc'[q].parent \in Processes
                           /\ proc'[proc'[q].parent].life = "running"
                           /\ proc'[proc'[q].parent].pid = proc'[q].ppid
      BY DEF ParentInv
    <2>1. proc[q].life \in {"born", "classify", "pushCreated"}
      BY <1>2 DEF MayMove
    <2>2. CASE proc[q].parent = NoProcess /\ proc[q].ppid = NoPid
      BY <1>2, <2>2
    <2>3. CASE /\ proc[q].parent \in Processes
               /\ proc[proc[q].parent].life = "running"
               /\ proc[proc[q].parent].pid = proc[q].ppid
      <3>1. proc[q].parent # p
        <4>1. proc[q].parent = p => Creating(p)
          BY <2>1 DEF Creating
        <4> QED BY <2>3, <4>1 DEF MayMove
      <3> QED BY <1>2, <2>3, <3>1
    <2> QED BY <2>1, <2>2, <2>3 DEF PInv, ParentInv
  <1>13. DueInv'
    <2>1. proc[p].due /\ proc[p].life = "born" => b = "classify"
      BY DEF MayMove, PInv, DueInv
    <2>2. proc'[p].due /\ proc[p].life = "classify" => Tracked(proc[p].pid)
      BY <1>2 DEF MayMove, PInv, DueInv, Accepts
    <2>3. b \notin {"born", "pushCreated"}
          /\ (b = "classify" => proc[p].life = "born")
          /\ (b \in {"running", "exiting", "mark"} =>
                 proc[p].life \in {"born", "classify", "pushCreated", "running", "exiting"})
      BY DEF MayMove
    <2> QED BY <1>2, <1>3, <1>6, <2>1, <2>2, <2>3 DEF PInv, DueInv, Alive, Listed, InCallback
  <1>14. CallbackEntriesLive'
    <2> SUFFICES ASSUME active, NEW e \in table, ~e.snap
                 PROVE  \E q \in Processes :
                           /\ Holds(q, e.pid)'
                           /\ proc'[q].life \in Alive \ {"born", "classify"}
      BY <1>3 DEF CallbackEntriesLive
    <2>1. PICK q \in Processes : Holds(q, e.pid) /\ proc[q].life \in Alive \ {"born", "classify"}
      BY DEF PInv, CallbackEntriesLive
    <2>2. q = p => Tracked(proc[p].pid)
      BY <2>1 DEF Tracked, Holds
    <2>3. q = p => b \in Alive \ {"born", "classify"}
      BY <2>1, <2>2 DEF MayMove, Alive, Listed, InCallback
    <2> QED BY <1>2, <1>5, <2>1, <2>3
  <1>15. FreshInv'
    <2>1. PidsFresh' => PidsFresh
      BY <1>2 DEF PidsFresh, MayMove
    <2>2. \A r : RowTrue(r)' <=> RowTrue(r)
      BY <1>2, <1>5 DEF RowTrue
    <2>3. Rows' = Rows
      BY <1>3 DEF Rows
    <2>4. \A q \in Processes : Descent(q) => Descent(q)'
      BY <1>2, <1>5 DEF Descent
    <2> QED BY <1>2, <1>3, <1>4, <1>5, <2>1, <2>2, <2>3, <2>4 DEF PInv, FreshInv
  <1> QED BY <1>8, <1>9, <1>10, <1>11, <1>12, <1>13, <1>14, <1>15 DEF PInv
\* The callback's first step, and the parts of it that leave the table alone.
LEMMA CallbackMoves ==
    ASSUME PInv, NEW p \in Processes,
           NotifyCreate(p) \/ PushCreated(p) \/ Exit(p) \/ NotifyExit(p) \/ DeferExited(p)
    PROVE  PInv'
  <1>1. /\ UNCHANGED <<driverVars, control, snap, starts, failures>>
        /\ \E b \in Life : SetLife(p, b) /\ MayMove(p, proc[p].life, b)
    <2>1. active => registered
      BY DEF PInv, ControlInv
    <2>2. {"running", "classify", "exiting", "mark", "zombie"} \subseteq Life
      BY DEF Life, Listed, InCallback
    <2>3. CASE NotifyCreate(p)
      BY <2>1, <2>2, <2>3 DEF NotifyCreate, MayMove
    <2>4. CASE PushCreated(p)
      BY <2>2, <2>4 DEF PushCreated, MayMove
    <2>5. CASE Exit(p)
      BY <2>2, <2>5 DEF Exit, MayMove
    <2>6. CASE NotifyExit(p)
      BY <2>1, <2>2, <2>6 DEF NotifyExit, MayMove
    <2>7. CASE DeferExited(p)
      BY <2>2, <2>7 DEF DeferExited, MayMove
    <2> QED BY <2>3, <2>4, <2>5, <2>6, <2>7
  <1> QED BY <1>1, SetLifeMoves, MoveKeeps DEF PInv

\* A process appears.
LEMMA CreateKeeps == ASSUME PInv, NEW p \in Processes, Create(p) PROVE PInv'
  <1>1. PICK k \in FreePids, isRoot \in BOOLEAN,
             parent \in {q \in Processes : proc[q].life = "running"} \union {NoProcess} :
          proc' = [proc EXCEPT ![p] =
                    [life |-> "born", pid |-> k, parent |-> parent,
                     ppid |-> PidOf(parent), image |-> isRoot,
                     descends |-> isRoot \/ (parent # NoProcess /\ proc[parent].descends),
                     due |-> active /\ (isRoot \/ Tracked(PidOf(parent)))]]
    BY DEF Create
  <1>2. /\ proc[p].life = "unborn"
        /\ UNCHANGED <<active, registered, table, count, control, snap, starts, failures>>
    BY DEF Create, driverVars
  <1>3. /\ k \in Pids /\ \A q \in Processes : ~Holds(q, k)
        /\ parent = NoProcess => PidOf(parent) = NoPid
        /\ parent # NoProcess =>
              /\ parent \in Processes /\ proc[parent].life = "running" /\ parent # p
              /\ PidOf(parent) = proc[parent].pid /\ proc[parent].pid \in Pids
    BY <1>2 DEF FreePids, PidOf, PInv, PidInv, Listed
  <1>4. /\ proc'[p].life = "born" /\ proc'[p].pid = k /\ proc'[p].parent = parent
        /\ proc'[p].ppid = PidOf(parent) /\ proc'[p].image = isRoot
        /\ proc'[p].descends = (isRoot \/ (parent # NoProcess /\ proc[parent].descends))
        /\ proc'[p].due = (active /\ (isRoot \/ Tracked(PidOf(parent))))
        /\ \A q \in Processes : q # p => proc'[q] = proc[q]
    BY <1>1 DEF PInv, ProcTypes
  <1>5. ProcTypes'
    <2>1. [life |-> "born", pid |-> k, parent |-> parent,
           ppid |-> PidOf(parent), image |-> isRoot,
           descends |-> isRoot \/ (parent # NoProcess /\ proc[parent].descends),
           due |-> active /\ (isRoot \/ Tracked(PidOf(parent)))] \in ProcessRecord
      BY <1>3 DEF ProcessRecord, Life, Listed
    <2> QED BY <1>1, <2>1 DEF PInv, ProcTypes
  <1>6. SnapTypes' /\ TableInv' /\ OtherTypes'
    BY <1>2, SameTypes DEF PInv, OtherTypes
  <1>7. \A q \in Processes : \A j : Holds(q, j)' <=> Holds(q, j) \/ (q = p /\ j = k)
    BY <1>2, <1>4 DEF Holds, Listed, InCallback
  <1>8. \A j : Tracked(j)' <=> Tracked(j)
    BY <1>2 DEF Tracked
  <1>9. ControlInv'
    BY <1>2, <1>4 DEF PInv, ControlInv, InCallback
  <1>10. PidInv'
    BY <1>2, <1>3, <1>4, <1>7 DEF PInv, PidInv, Holds
  <1>11. ParentInv'
    BY <1>2, <1>3, <1>4 DEF PInv, ParentInv
  <1>12. DueInv'
    BY <1>2, <1>4, <1>8 DEF PInv, DueInv, Alive
  <1>13. CallbackEntriesLive'
    BY <1>2, <1>4, <1>7 DEF PInv, CallbackEntriesLive, Alive, Listed, InCallback
  <1>14. FreshInv'
    <2>1. PidsFresh' => PidsFresh
      BY <1>2, <1>4 DEF PidsFresh
    <2>2. \A r : RowTrue(r) => RowTrue(r)'
      BY <1>2, <1>4, <1>7 DEF RowTrue, Holds, Listed, InCallback
    <2>3. Rows' = Rows
      BY <1>2 DEF Rows
    <2>4. ASSUME PidsFresh, NEW q \in Processes, proc'[q].life \in Listed
          PROVE  Descent(q)'
      <3>1. CASE q = p
        <4>1. parent # NoProcess =>
                 /\ proc'[parent] = proc[parent] /\ proc[parent].life \in Listed
                 /\ proc[parent].pid = PidOf(parent)
          BY <1>3, <1>4 DEF Listed
        <4>2. CASE parent = NoProcess
          BY <1>3, <1>4, <3>1, <4>2 DEF Descent
        <4>3. CASE parent # NoProcess
          BY <1>3, <1>4, <3>1, <4>1, <4>3 DEF Descent, Holds
        <4> QED BY <4>2, <4>3
      <3>2. CASE q # p
        <4>1. proc[q].life \in Listed
          BY <1>4, <2>4, <3>2
        <4>2. Descent(q)
          BY <2>4, <4>1 DEF PInv, FreshInv
        <4>3. \A x \in Processes : \A j : Holds(x, j) => Holds(x, j)' /\ x # p
          BY <1>2, <1>7 DEF Holds, Listed, InCallback
        <4> QED BY <1>4, <3>2, <4>2, <4>3 DEF Descent
      <3> QED BY <3>1, <3>2
    <2>5. \A q \in Processes : \A j : Holds(q, j) =>
             /\ Holds(q, j)' /\ proc'[q].image = proc[q].image
             /\ proc'[q].descends = proc[q].descends
      BY <1>2, <1>4, <1>7 DEF Holds, Listed, InCallback
    <2> QED BY <1>2, <2>1, <2>2, <2>3, <2>4, <2>5 DEF PInv, FreshInv
  <1> QED BY <1>5, <1>6, <1>9, <1>10, <1>11, <1>12, <1>13, <1>14 DEF PInv
\* A child whose parent's pid is tracked descends from a root.
LEMMA TrackedDescent ==
    ASSUME PInv, PidsFresh, NEW p \in Processes, proc[p].life \in Listed,
           proc[p].image \/ Tracked(proc[p].ppid)
    PROVE  proc[p].descends
  <1>1. Descent(p)
    BY DEF PInv, FreshInv
  <1>2. CASE proc[p].image
    BY <1>1, <1>2 DEF Descent
  <1>3. CASE Tracked(proc[p].ppid)
    <2>1. PICK e \in table : e.pid = proc[p].ppid
      BY <1>3 DEF Tracked
    <2>2. PICK q \in Processes : Holds(q, e.pid) /\ proc[q].descends
      BY DEF PInv, FreshInv
    <2>3. proc[p].ppid \in Pids
      BY <2>1, <2>2 DEF Holds, PInv, PidInv
    <2>4. proc[p].parent \in Processes /\ Holds(proc[p].parent, proc[p].ppid)
      BY <1>1, <2>3, ProcessTrackAssumption DEF Descent
    <2>5. proc[p].parent = q
      BY <2>1, <2>2, <2>4 DEF PInv, PidInv, Holds
    <2> QED BY <1>1, <2>2, <2>4, <2>5, <2>3, ProcessTrackAssumption DEF Descent
  <1> QED BY <1>2, <1>3

\* knFcClassifyAndInsert for a new process.
LEMMA ClassifyKeeps == ASSUME PInv, NEW p \in Processes, Classify(p) PROVE PInv'
  <1>1. /\ proc[p].life = "classify" /\ proc[p].life \in Listed
        /\ UNCHANGED <<active, registered, control, snap, starts>>
    BY DEF Classify, Listed, InCallback
  <1>2. proc[p].pid \in Pids /\ proc[p].ppid \in Pids \union {NoPid} /\ proc[p].image \in BOOLEAN
    BY <1>1 DEF PInv, PidInv, ProcTypes, ProcessRecord
  <1>3. {"running", "pushCreated"} \subseteq Life
    BY DEF Life, Listed, InCallback
  <1>4. CASE /\ Accepts(proc[p].pid, proc[p].ppid, proc[p].image)
             /\ Insert(proc[p].pid, proc[p].ppid, proc[p].image, FALSE)
             /\ SetLife(p, "pushCreated")
             /\ UNCHANGED failures
    <2>1. ProcTypes' /\ Moves(p, "pushCreated")
      BY <1>3, <1>4, SetLifeMoves DEF PInv
    <2>2. /\ TableInv'
          /\ \A j : Tracked(j)' <=> Tracked(j) \/ j = proc[p].pid
          /\ \E e : e.pid = proc[p].pid /\ e.snap = FALSE /\ table' = table \union {e}
      <3>1. PICK k \in Pids, parent \in Pids \union {NoPid}, isRoot \in BOOLEAN :
               k = proc[p].pid /\ parent = proc[p].ppid /\ isRoot = proc[p].image
        BY <1>2
      <3>2. PICK fromSnap \in BOOLEAN : fromSnap = FALSE
        OBVIOUS
      <3>3. Accepts(k, parent, isRoot) /\ Insert(k, parent, isRoot, fromSnap)
        BY <1>4, <3>1, <3>2
      <3>4. /\ TableInv'
            /\ \A j : Tracked(j)' <=> Tracked(j) \/ j = k
            /\ \E e : e.pid = k /\ e.snap = fromSnap /\ table' = table \union {e}
        BY <3>3, InsertKeeps
      <3> QED BY <3>1, <3>2, <3>4
    <2>3. PICK e : e.pid = proc[p].pid /\ e.snap = FALSE /\ table' = table \union {e}
      BY <2>2
    <2>4. SnapTypes' /\ OtherTypes'
      BY <1>1, <1>4, SameTypes DEF PInv, OtherTypes
    <2>5. \A q \in Processes : \A j : Holds(q, j)' <=> Holds(q, j)
      BY <1>1, <2>1 DEF Holds, Moves, Listed, InCallback
    <2>6. ControlInv'
      BY <1>1, <2>1 DEF Moves, PInv, ControlInv, InCallback
    <2>7. PidInv'
      BY <1>1, <2>1, <2>5 DEF Moves, PInv, PidInv, Listed, InCallback
    <2>8. ParentInv'
      BY <1>1, <2>1 DEF Moves, PInv, ParentInv
    <2>9. DueInv'
      BY <1>1, <2>1, <2>2 DEF Moves, PInv, DueInv, Alive, Listed, InCallback
    <2>10. CallbackEntriesLive'
      <3> SUFFICES ASSUME active, NEW f \in table', ~f.snap
                   PROVE  \E q \in Processes :
                             /\ Holds(q, f.pid)'
                             /\ proc'[q].life \in Alive \ {"born", "classify"}
        BY <1>1 DEF CallbackEntriesLive
      <3>1. CASE f = e
        <4>1. Holds(p, f.pid)
          BY <1>1, <2>3, <3>1 DEF Holds
        <4>2. proc'[p].life \in Alive \ {"born", "classify"}
          BY <2>1 DEF Moves, Alive, Listed, InCallback
        <4> QED BY <2>5, <4>1, <4>2
      <3>2. CASE f \in table
        <4>1. PICK q \in Processes :
                 Holds(q, f.pid) /\ proc[q].life \in Alive \ {"born", "classify"}
          BY <3>2 DEF PInv, CallbackEntriesLive
        <4> QED BY <1>1, <2>1, <2>5, <4>1 DEF Moves
      <3> QED BY <2>3, <3>1, <3>2
    <2>11. FreshInv'
      <3>1. PidsFresh' => PidsFresh
        BY <1>1, <2>1 DEF PidsFresh, Moves
      <3>2. \A r : RowTrue(r)' <=> RowTrue(r)
        BY <2>1, <2>5 DEF RowTrue, Moves
      <3>3. Rows' = Rows
        BY <1>1 DEF Rows
      <3>4. \A q \in Processes : Descent(q) => Descent(q)'
        BY <2>1, <2>5 DEF Descent, Moves
      <3>5. \A q \in Processes : proc'[q].life \in Listed => proc[q].life \in Listed
        BY <1>1, <2>1 DEF Moves
      <3>6. PidsFresh => Holds(p, e.pid) /\ proc[p].descends
        BY <1>1, <1>4, <2>3, TrackedDescent DEF Accepts, Holds
      <3> QED BY <1>1, <2>1, <2>3, <2>5, <3>1, <3>2, <3>3, <3>4, <3>5, <3>6
              DEF PInv, FreshInv, Moves
    <2> QED BY <2>1, <2>2, <2>4, <2>6, <2>7, <2>8, <2>9, <2>10, <2>11 DEF PInv
  <1>5. CASE /\ Fail /\ UNCHANGED <<table, count>>
             /\ proc' = [proc EXCEPT ![p].life = "running", ![p].due = FALSE]
    <2>1. proc[p] \in ProcessRecord
      BY DEF PInv, ProcTypes
    <2>2. ProcTypes'
      <3>1. [proc[p] EXCEPT !.life = "running", !.due = FALSE] \in ProcessRecord
        BY <1>3, <2>1 DEF ProcessRecord
      <3>2. proc' = [proc EXCEPT ![p] = [proc[p] EXCEPT !.life = "running", !.due = FALSE]]
        BY <1>5 DEF PInv, ProcTypes
      <3> QED BY <3>1, <3>2 DEF PInv, ProcTypes
    <2>3. Moves(p, "running") /\ ~proc'[p].due
      BY <1>5, <2>1 DEF Moves, ProcessRecord, PInv, ProcTypes
    <2> QED BY <1>1, <1>5, <2>2, <2>3, MoveKeeps DEF MayMove, driverVars
  <1>6. CASE /\ ~Accepts(proc[p].pid, proc[p].ppid, proc[p].image)
             /\ SetLife(p, "running") /\ UNCHANGED <<table, count, failures>>
    <2>1. ProcTypes' /\ Moves(p, "running")
      BY <1>3, <1>6, SetLifeMoves DEF PInv
    <2> QED BY <1>1, <1>6, <2>1, MoveKeeps DEF MayMove, driverVars
  <1> QED BY <1>4, <1>5, <1>6 DEF Classify

\* knFcMarkExited.
LEMMA MarkExitedKeeps == ASSUME PInv, NEW p \in Processes, MarkExited(p) PROVE PInv'
  <1>1. /\ proc[p].life = "mark" /\ proc[p].life \in Listed
        /\ UNCHANGED <<active, registered, control, snap, starts, failures>>
        /\ {"defer", "zombie"} \subseteq Life
    BY DEF MarkExited, Listed, Life, InCallback
  <1>2. CASE /\ Tracked(proc[p].pid)
             /\ table' = {e \in table : e.pid # proc[p].pid} /\ count' = count - 1
             /\ SetLife(p, "defer")
    <2>1. ProcTypes' /\ Moves(p, "defer")
      BY <1>1, <1>2, SetLifeMoves DEF PInv
    <2>2. TableInv' /\ \A j : Tracked(j)' <=> Tracked(j) /\ j # proc[p].pid
      BY <1>2, RemoveKeeps
    <2>3. SnapTypes' /\ OtherTypes'
      BY <1>1, SameTypes DEF PInv, OtherTypes
    <2>4. \A q \in Processes : \A j : Holds(q, j)' <=> Holds(q, j)
      BY <1>1, <2>1 DEF Holds, Moves, Listed, InCallback
    <2>5. ControlInv'
      BY <1>1, <1>2, <2>1 DEF Moves, PInv, ControlInv, InCallback
    <2>6. PidInv'
      BY <1>1, <2>1, <2>4 DEF Moves, PInv, PidInv, Listed, InCallback
    <2>7. ParentInv'
      BY <1>1, <2>1 DEF Moves, PInv, ParentInv
    <2>8. DueInv'
      <3>1. \A q \in Processes : q # p /\ proc[q].life \in Listed => proc[q].pid # proc[p].pid
        BY <1>1 DEF PInv, PidInv, Holds
      <3>2. ASSUME NEW q \in Processes, proc[q].life \in {"born", "classify"}
            PROVE  proc[q].ppid # proc[p].pid
        <4>1. CASE proc[q].ppid = NoPid
          BY <1>1, <4>1, ProcessTrackAssumption DEF PInv, PidInv
        <4>2. CASE /\ proc[q].parent \in Processes /\ proc[proc[q].parent].life = "running"
                   /\ proc[proc[q].parent].pid = proc[q].ppid
          BY <1>1, <3>1, <4>2 DEF Listed
        <4> QED BY <3>2, <4>1, <4>2 DEF PInv, ParentInv
      <3> QED BY <1>1, <2>1, <2>2, <3>1, <3>2 DEF Moves, PInv, DueInv, Alive, Listed, InCallback
    <2>9. CallbackEntriesLive'
      <3> SUFFICES ASSUME active, NEW e \in table, e.pid # proc[p].pid, ~e.snap
                   PROVE  \E q \in Processes :
                             /\ Holds(q, e.pid)'
                             /\ proc'[q].life \in Alive \ {"born", "classify"}
        BY <1>1, <1>2 DEF CallbackEntriesLive
      <3>1. PICK q \in Processes :
               Holds(q, e.pid) /\ proc[q].life \in Alive \ {"born", "classify"}
        BY DEF PInv, CallbackEntriesLive
      <3>2. q # p
        BY <3>1 DEF Holds
      <3> QED BY <2>1, <2>4, <3>1, <3>2 DEF Moves
    <2>10. FreshInv'
      <3>1. PidsFresh' => PidsFresh
        BY <1>1, <2>1 DEF PidsFresh, Moves
      <3>2. \A r : RowTrue(r)' <=> RowTrue(r)
        BY <2>1, <2>4 DEF RowTrue, Moves
      <3>3. Rows' = Rows
        BY <1>1 DEF Rows
      <3>4. \A q \in Processes : Descent(q) => Descent(q)'
        BY <2>1, <2>4 DEF Descent, Moves
      <3>5. \A q \in Processes : proc'[q].life \in Listed => proc[q].life \in Listed
        BY <1>1, <2>1 DEF Moves
      <3> QED BY <1>1, <1>2, <2>1, <2>4, <3>1, <3>2, <3>3, <3>4, <3>5
              DEF PInv, FreshInv, Moves
    <2> QED BY <2>1, <2>2, <2>3, <2>5, <2>6, <2>7, <2>8, <2>9, <2>10 DEF PInv
  <1>3. CASE /\ ~Tracked(proc[p].pid) /\ SetLife(p, "zombie") /\ UNCHANGED <<table, count>>
    <2>1. ProcTypes' /\ Moves(p, "zombie")
      BY <1>1, <1>3, SetLifeMoves DEF PInv
    <2> QED BY <1>1, <1>3, <2>1, MoveKeeps DEF MayMove, driverVars
  <1> QED BY <1>2, <1>3 DEF MarkExited

\* Its pid may be given again.
LEMMA ReapKeeps == ASSUME PInv, NEW p \in Processes, Reap(p) PROVE PInv'
  <1>1. /\ proc[p].life = "zombie" /\ proc' = [proc EXCEPT ![p] = Absent("reaped")]
        /\ UNCHANGED <<active, registered, table, count, control, snap, starts, failures>>
    BY DEF Reap, driverVars
  <1>2. /\ proc'[p].life = "reaped" /\ ~proc'[p].due
        /\ \A q \in Processes : q # p => proc'[q] = proc[q]
    BY <1>1 DEF PInv, ProcTypes, Absent
  <1>3. ProcTypes'
    <2>1. Absent("reaped") \in ProcessRecord
      BY DEF Absent, ProcessRecord, Life
    <2> QED BY <1>1, <2>1 DEF PInv, ProcTypes
  <1>4. SnapTypes' /\ TableInv' /\ OtherTypes'
    BY <1>1, SameTypes DEF PInv, OtherTypes
  <1>5. \A q \in Processes : \A j : Holds(q, j)' <=> Holds(q, j) /\ q # p
    BY <1>1, <1>2 DEF Holds, Listed, InCallback
  <1>6. \A j : Tracked(j)' <=> Tracked(j)
    BY <1>1 DEF Tracked
  <1>7. ControlInv'
    BY <1>1, <1>2 DEF PInv, ControlInv, InCallback
  <1>8. PidInv'
    BY <1>1, <1>2, <1>5 DEF PInv, PidInv, Listed, InCallback
  <1>9. ParentInv'
    BY <1>1, <1>2 DEF PInv, ParentInv
  <1>10. DueInv'
    BY <1>1, <1>2, <1>6 DEF PInv, DueInv
  <1>11. CallbackEntriesLive'
    BY <1>1, <1>2, <1>5 DEF PInv, CallbackEntriesLive, Alive
  <1>12. FreshInv'
    BY <1>2 DEF FreshInv, PidsFresh
  <1> QED BY <1>3, <1>4, <1>7, <1>8, <1>9, <1>10, <1>11, <1>12 DEF PInv
-----------------------------------------------------------------------------

\* A step of the thread that serves Start and Stop which touches neither the
\* processes nor the table.
LEMMA ControlMoves ==
    ASSUME PInv, UNCHANGED <<proc, active, table, count>>,
           SnapTypes', registered' \in BOOLEAN, control' \in Controls,
           starts' \in 0 .. MaxStarts, Fail \/ UNCHANGED failures, ControlInv',
           PidsFresh => \A r \in Rows' : RowTrue(r),
           PidsFresh /\ control' = "classify" /\ snap'.isRoot =>
               \E p \in Processes : Holds(p, snap'.row.pid) /\ proc[p].image
    PROVE  PInv'
  <1>1. UNCHANGED <<proc, active, table, count>>
    OBVIOUS
  <1>2. ProcTypes' /\ PidInv' /\ ParentInv' /\ TableInv'
    BY <1>1, SameTypes
  <1>3. OtherTypes'
    BY <1>1, FailType DEF PInv, OtherTypes
  <1>4. \A j : Tracked(j)' <=> Tracked(j)
    BY <1>1 DEF Tracked
  <1>5. \A p : \A j : Holds(p, j)' <=> Holds(p, j)
    BY <1>1 DEF Holds
  <1>6. DueInv'
    BY <1>1, <1>4 DEF PInv, DueInv
  <1>7. CallbackEntriesLive'
    BY <1>1, <1>5 DEF PInv, CallbackEntriesLive
  <1>8. FreshInv'
    <2>1. PidsFresh' <=> PidsFresh
      BY <1>1 DEF PidsFresh
    <2>2. \A r : RowTrue(r)' <=> RowTrue(r)
      BY <1>1, <1>5 DEF RowTrue
    <2>3. \A p : Descent(p)' <=> Descent(p)
      BY <1>1, <1>5 DEF Descent
    <2>4. \A p : Holds(p, snap.row.pid)' <=> Holds(p, snap'.row.pid)
      BY <1>1 DEF Holds
    <2> QED BY <1>1, <1>5, <2>1, <2>2, <2>3, <2>4 DEF PInv, FreshInv
  <1> QED BY <1>2, <1>3, <1>6, <1>7, <1>8 DEF PInv

\* The locals of the snapshot have their types at its begin and after a row.
LEMMA SnapStarts ==
    ASSUME PInv
    PROVE  /\ Idle \in Snaps /\ NextRow(snap) \in Snaps
           /\ \A b \in SUBSET Row : [Idle EXCEPT !.buffer = b] \in Snaps
           /\ \A b \in SUBSET Row : [Idle EXCEPT !.buffer = b, !.todo = b] \in Snaps
  <1>1. 0 \in 0 .. MaxPasses
    BY ProcessTrackAssumption
  <1>2. Idle = [buffer |-> {}, todo |-> {}, pass |-> 0, changed |-> FALSE,
                row |-> NoRow, isRoot |-> FALSE]
    BY DEF Idle
  <1>3. Idle \in Snaps
    BY <1>1, <1>2 DEF Snaps
  <1>4. NextRow(snap) \in Snaps
    BY DEF NextRow, PInv, SnapTypes, Snaps
  <1> QED BY <1>3, <1>4 DEF Snaps

\* Start is asked for and registers the routine.
LEMMA StartKeeps == ASSUME PInv, Start \/ Register \/ Unregister \/ CallbacksDone PROVE PInv'
  <1>1. UNCHANGED <<proc, active, table, count, snap>> /\ (Fail \/ UNCHANGED failures)
    BY DEF Start, Register, Unregister, CallbacksDone, driverVars
  <1>2. SnapTypes'
    BY <1>1, SameTypes
  <1>3. /\ registered' \in BOOLEAN
        /\ control' \in {"register", "activate", "idle", "drain", "purge"}
        /\ control' \in Controls
        /\ control \in {"idle", "register", "unregister", "drain"}
    BY DEF Start, Register, Unregister, CallbacksDone, driverVars, PInv, OtherTypes, Controls
  <1>4. starts' \in 0 .. MaxStarts
    BY ProcessTrackAssumption DEF Start, Register, Unregister, CallbacksDone, PInv, OtherTypes
  <1>5. ControlInv'
    <2>1. CASE Start
      BY <1>1, <2>1 DEF Start, driverVars, PInv, ControlInv, HasRow
    <2>2. CASE Register
      BY <1>1, <2>2 DEF Register, PInv, ControlInv, HasRow
    <2>3. CASE Unregister
      BY <1>1, <2>3 DEF Unregister, PInv, ControlInv, HasRow
    <2>4. CASE CallbacksDone
      BY <1>1, <2>4 DEF CallbacksDone, driverVars, PInv, ControlInv, HasRow
    <2> QED BY <2>1, <2>2, <2>3, <2>4
  <1>6. PidsFresh => \A r \in Rows' : RowTrue(r)
    BY <1>1, <1>3 DEF Rows, HasRow, PInv, FreshInv
  <1> QED BY <1>1, <1>2, <1>3, <1>4, <1>5, <1>6, ControlMoves

\* The query of the system's processes.
LEMMA QueryKeeps == ASSUME PInv, Query PROVE PInv'
  <1> DEFINE listed == {[pid |-> proc[p].pid, ppid |-> proc[p].ppid] :
                          p \in {q \in Processes : proc[q].life \in Listed}}
  <1>1. /\ UNCHANGED <<proc, active, registered, table, count, starts>> /\ control = "query"
        /\ \/ /\ snap' = [Idle EXCEPT !.buffer = listed, !.todo = listed]
              /\ control' = "visit" /\ UNCHANGED failures
           \/ Fail /\ snap' = Idle /\ control' = "idle"
    BY DEF Query, driverVars
  <1>2. \A r \in listed : r \in Row /\ RowTrue(r)
    BY DEF PInv, PidInv, ProcTypes, ProcessRecord, Row, RowTrue, Holds
  <1>3. SnapTypes'
    <2> HIDE DEF listed
    <2> QED BY <1>1, <1>2, SnapStarts DEF SnapTypes
  <1>4. Rows' \subseteq listed
    <2>1. Idle.todo = {} /\ Idle.buffer = {}
      BY DEF Idle
    <2>2. [Idle EXCEPT !.buffer = listed, !.todo = listed].todo = listed
          /\ [Idle EXCEPT !.buffer = listed, !.todo = listed].buffer = listed
      BY DEF Idle
    <2> HIDE DEF listed
    <2> QED BY <1>1, <2>1, <2>2 DEF Rows, HasRow
  <1> HIDE DEF listed
  <1>5. /\ registered' \in BOOLEAN /\ control' \in Controls /\ control' \in {"visit", "idle"}
        /\ starts' \in 0 .. MaxStarts
    BY <1>1 DEF PInv, OtherTypes, Controls
  <1>6. ControlInv'
    BY <1>1, <1>5 DEF PInv, ControlInv, HasRow
  <1> QED BY <1>1, <1>2, <1>3, <1>4, <1>5, <1>6, ControlMoves

\* The rows of a pass, one after the other.
LEMMA VisitKeeps == ASSUME PInv, Visit PROVE PInv'
  <1>1. PICK r \in snap.todo :
          \/ /\ Tracked(r.pid) /\ snap' = [snap EXCEPT !.todo = snap.todo \ {r}]
             /\ UNCHANGED control
          \/ /\ snap' = [snap EXCEPT !.todo = snap.todo \ {r}, !.row = r]
             /\ control' \in {"image", "parent"}
    BY DEF Visit
  <1>2. /\ UNCHANGED <<proc, active, registered, table, count, starts, failures>>
        /\ control = "visit"
    BY DEF Visit, driverVars
  <1>3. snap.todo \subseteq Row /\ snap \in Snaps
    BY DEF PInv, SnapTypes, Snaps
  <1>4. SnapTypes'
    BY <1>1, <1>3 DEF SnapTypes, Snaps
  <1>5. /\ snap'.todo \subseteq snap.todo /\ snap'.buffer = snap.buffer
        /\ control' # "visit" => snap'.row = r
    BY <1>1, <1>2, <1>3 DEF Snaps
  <1>6. Rows' \subseteq Rows
    BY <1>1, <1>2, <1>5 DEF Rows, HasRow
  <1>7. /\ registered' \in BOOLEAN /\ control' \in Controls
        /\ control' \in {"visit", "image", "parent"} /\ starts' \in 0 .. MaxStarts
    BY <1>1, <1>2 DEF PInv, OtherTypes, Controls
  <1>8. ControlInv'
    BY <1>2, <1>3, <1>5, <1>7 DEF PInv, ControlInv, HasRow
  <1> QED BY <1>2, <1>4, <1>6, <1>7, <1>8, ControlMoves DEF PInv, FreshInv

\* The locals when a row is done with.
LEMMA NextRowFields ==
    ASSUME NEW s \in Snaps
    PROVE  /\ NextRow(s).todo = s.todo /\ NextRow(s).buffer = s.buffer
           /\ ~NextRow(s).isRoot
  BY DEF NextRow, Snaps

\* The look-ups for a row.
LEMMA LookUpKeeps == ASSUME PInv, VisitParent \/ Image PROVE PInv'
  <1>1. /\ UNCHANGED <<proc, active, registered, table, count, starts>>
        /\ control \in {"parent", "image"} /\ (Fail \/ UNCHANGED failures)
        /\ snap \in Snaps
    BY DEF VisitParent, Image, driverVars, PInv, SnapTypes
  <1>2. \/ control' = "image" /\ snap' = snap
        \/ control' = "visit" /\ snap' = NextRow(snap)
        \/ \E isRoot \in BOOLEAN :
              /\ control' = "classify" /\ snap' = [snap EXCEPT !.isRoot = isRoot]
              /\ isRoot => ImageFound(snap.row.pid, isRoot)
    BY DEF VisitParent, Image
  <1>3. /\ SnapTypes' /\ snap'.todo = snap.todo /\ snap'.buffer = snap.buffer
        /\ control' # "visit" => snap'.row = snap.row
        /\ control' = "classify" /\ snap'.isRoot => ImageFound(snap.row.pid, TRUE)
    <2>1. CASE control' = "image" /\ snap' = snap
      BY <1>1, <2>1 DEF SnapTypes
    <2>2. CASE control' = "visit" /\ snap' = NextRow(snap)
      BY <1>1, <2>2, SnapStarts, NextRowFields DEF SnapTypes
    <2>3. ASSUME NEW isRoot \in BOOLEAN,
                 control' = "classify" /\ snap' = [snap EXCEPT !.isRoot = isRoot],
                 isRoot => ImageFound(snap.row.pid, isRoot)
          PROVE  /\ SnapTypes' /\ snap'.todo = snap.todo /\ snap'.buffer = snap.buffer
                 /\ snap'.row = snap.row
                 /\ snap'.isRoot => ImageFound(snap.row.pid, TRUE)
      BY <1>1, <2>3 DEF SnapTypes, Snaps, ImageFound
    <2> QED BY <1>2, <2>1, <2>2, <2>3
  <1>4. Rows' \subseteq Rows
    BY <1>1, <1>2, <1>3 DEF Rows, HasRow
  <1>5. /\ registered' \in BOOLEAN /\ control' \in Controls
        /\ control' \in {"visit", "image", "classify"} /\ starts' \in 0 .. MaxStarts
    BY <1>1, <1>2 DEF PInv, OtherTypes, Controls
  <1>6. ControlInv'
    BY <1>1, <1>3, <1>5 DEF PInv, ControlInv, HasRow
  <1>7. control' = "classify" /\ snap'.isRoot =>
            \E p \in Processes : Holds(p, snap'.row.pid) /\ proc[p].image
    BY <1>3 DEF ImageFound
  <1> QED BY <1>1, <1>3, <1>4, <1>5, <1>6, <1>7, ControlMoves DEF PInv, FreshInv

\* The end of a row that was entered, and of a pass.
LEMMA PassKeeps == ASSUME PInv, SnapPush \/ EndPass PROVE PInv'
  <1>1. /\ UNCHANGED <<proc, active, registered, table, count, starts, failures>>
        /\ control \in {"push", "visit"} /\ control' \in {"visit", "idle"}
        /\ snap \in Snaps
    BY DEF SnapPush, EndPass, driverVars, PInv, SnapTypes
  <1>2. /\ SnapTypes' /\ snap'.todo \subseteq snap.todo \union snap.buffer
        /\ snap'.buffer = snap.buffer
    <2>1. CASE snap' = NextRow(snap)
      BY <1>1, <2>1, SnapStarts, NextRowFields DEF SnapTypes
    <2>2. CASE snap' = [Idle EXCEPT !.buffer = snap.buffer, !.changed = snap.changed]
      <3>1. [Idle EXCEPT !.buffer = snap.buffer, !.changed = snap.changed] \in Snaps
        BY <1>1, SnapStarts DEF Snaps
      <3>2. snap'.todo = {} /\ snap'.buffer = snap.buffer
        BY <2>2 DEF Idle
      <3> QED BY <2>2, <3>1, <3>2 DEF SnapTypes
    <2>3. CASE /\ ~LastPass
               /\ snap' = [snap EXCEPT !.pass = snap.pass + 1, !.changed = FALSE,
                                       !.todo = snap.buffer]
      <3>1. snap.pass + 1 \in 0 .. MaxPasses
        BY <1>1, <2>3, ProcessTrackAssumption DEF LastPass, Snaps
      <3> QED BY <1>1, <2>3, <3>1 DEF SnapTypes, Snaps
    <2> QED BY <2>1, <2>2, <2>3 DEF SnapPush, EndPass
  <1>3. Rows' \subseteq Rows
    BY <1>1, <1>2 DEF Rows, HasRow
  <1>4. registered' \in BOOLEAN /\ control' \in Controls /\ starts' \in 0 .. MaxStarts
    BY <1>1 DEF PInv, OtherTypes, Controls
  <1>5. ControlInv'
    BY <1>1 DEF PInv, ControlInv, HasRow
  <1> QED BY <1>1, <1>2, <1>3, <1>4, <1>5, ControlMoves DEF PInv, FreshInv

\* Active is set: nobody is due and the table is empty yet.
LEMMA ActivateKeeps == ASSUME PInv, Activate PROVE PInv'
  <1>1. /\ UNCHANGED <<proc, registered, table, count, snap, starts, failures>>
        /\ control = "activate" /\ active' = TRUE /\ control' = "query"
    BY DEF Activate
  <1>2. ~active /\ registered /\ table = {}
    BY <1>1 DEF PInv, ControlInv
  <1>3. ProcTypes' /\ PidInv' /\ ParentInv' /\ SnapTypes' /\ TableInv'
    BY <1>1, SameTypes
  <1>4. OtherTypes'
    BY <1>1 DEF PInv, OtherTypes, Controls
  <1>5. ControlInv'
    BY <1>1, <1>2 DEF ControlInv, HasRow
  <1>6. DueInv'
    BY <1>1, <1>2 DEF PInv, DueInv
  <1>7. CallbackEntriesLive'
    BY <1>1, <1>2 DEF CallbackEntriesLive
  <1>8. FreshInv'
    <2>1. PidsFresh' <=> PidsFresh
      BY <1>1 DEF PidsFresh
    <2>2. \A p : \A j : Holds(p, j)' <=> Holds(p, j)
      BY <1>1 DEF Holds
    <2>3. \A r : RowTrue(r)' <=> RowTrue(r)
      BY <1>1, <2>2 DEF RowTrue
    <2>4. \A p : Descent(p)' <=> Descent(p)
      BY <1>1, <2>2 DEF Descent
    <2>5. Rows' \subseteq Rows
      BY <1>1 DEF Rows, HasRow
    <2> QED BY <1>1, <1>2, <2>1, <2>3, <2>4, <2>5 DEF PInv, FreshInv
  <1> QED BY <1>3, <1>4, <1>5, <1>6, <1>7, <1>8 DEF PInv

\* Active is cleared: nobody is due any more.
LEMMA StopKeeps == ASSUME PInv, Stop PROVE PInv'
  <1>1. /\ UNCHANGED <<registered, table, count, starts, failures>>
        /\ control = "idle" /\ active' = FALSE /\ snap' = Idle
        /\ proc' = [p \in Processes |-> [proc[p] EXCEPT !.due = FALSE]]
        /\ control' \in {"unregister", "purge"}
        /\ control' = "purge" => ~registered
    BY DEF Stop
  <1>2. \A p \in Processes :
          /\ proc'[p] \in ProcessRecord /\ ~proc'[p].due
          /\ proc'[p].life = proc[p].life
          /\ proc'[p].pid = proc[p].pid /\ proc'[p].ppid = proc[p].ppid
          /\ proc'[p].parent = proc[p].parent /\ proc'[p].image = proc[p].image
          /\ proc'[p].descends = proc[p].descends
    <2> SUFFICES ASSUME NEW p \in Processes
                 PROVE  /\ proc'[p] \in ProcessRecord /\ ~proc'[p].due
                        /\ proc'[p].life = proc[p].life
                        /\ proc'[p].pid = proc[p].pid /\ proc'[p].ppid = proc[p].ppid
                        /\ proc'[p].parent = proc[p].parent /\ proc'[p].image = proc[p].image
                        /\ proc'[p].descends = proc[p].descends
      OBVIOUS
    <2>1. proc[p] \in ProcessRecord
      BY DEF PInv, ProcTypes
    <2>2. proc'[p] = [proc[p] EXCEPT !.due = FALSE]
      BY <1>1
    <2> QED BY <2>1, <2>2 DEF ProcessRecord
  <1>3. ProcTypes'
    BY <1>1, <1>2 DEF ProcTypes
  <1>4. SnapTypes' /\ TableInv'
    BY <1>1, SnapStarts, SameTypes DEF SnapTypes
  <1>5. OtherTypes'
    BY <1>1 DEF PInv, OtherTypes, Controls
  <1>6. \A p \in Processes : \A j : Holds(p, j)' <=> Holds(p, j)
    BY <1>2 DEF Holds
  <1>7. ControlInv'
    <2>1. ~registered => ~active
      BY DEF PInv, ControlInv
    <2>2. control' = "purge" => \A p \in Processes : proc[p].life \notin InCallback
      BY <1>1, <2>1 DEF PInv, ControlInv
    <2> QED BY <1>1, <1>2, <2>2 DEF ControlInv, HasRow
  <1>8. PidInv'
    BY <1>2, <1>6 DEF PInv, PidInv
  <1>9. ParentInv'
    BY <1>2 DEF PInv, ParentInv
  <1>10. DueInv' /\ CallbackEntriesLive'
    BY <1>1, <1>2 DEF DueInv, CallbackEntriesLive
  <1>11. FreshInv'
    <2>1. PidsFresh' <=> PidsFresh
      BY <1>2 DEF PidsFresh
    <2>2. \A p \in Processes : Descent(p) => Descent(p)'
      BY <1>2, <1>6 DEF Descent
    <2>3. Rows' = {}
      BY <1>1 DEF Rows, HasRow, Idle
    <2>4. ASSUME PidsFresh, NEW p \in Processes, proc'[p].life \in Listed PROVE Descent(p)'
      BY <1>2, <2>2, <2>4 DEF PInv, FreshInv
    <2>5. ASSUME PidsFresh, NEW e \in table
          PROVE  \E p \in Processes : Holds(p, e.pid)' /\ proc'[p].descends
      <3>1. PICK p \in Processes : Holds(p, e.pid) /\ proc[p].descends
        BY <2>5 DEF PInv, FreshInv
      <3> QED BY <1>2, <1>6, <3>1
    <2>6. control' # "classify" /\ table' = table
      BY <1>1
    <2> QED BY <2>1, <2>3, <2>4, <2>5, <2>6 DEF FreshInv
  <1> QED BY <1>3, <1>4, <1>5, <1>7, <1>8, <1>9, <1>10, <1>11 DEF PInv

\* The table is emptied; the callbacks are gone.
LEMMA PurgeKeeps == ASSUME PInv, Purge PROVE PInv'
  <1>1. /\ UNCHANGED <<proc, active, registered, snap, starts, failures>>
        /\ control = "purge" /\ control' = "idle" /\ table' = {} /\ count' = 0
    BY DEF Purge
  <1>2. ~active /\ \A p \in Processes : proc[p].life \notin InCallback
    BY <1>1 DEF PInv, ControlInv
  <1>3. ProcTypes' /\ PidInv' /\ ParentInv' /\ SnapTypes'
    BY <1>1, SameTypes
  <1>4. OtherTypes'
    BY <1>1 DEF PInv, OtherTypes, Controls
  <1>5. TableInv'
    BY <1>1, FS_EmptySet DEF TableInv, OneEntry
  <1>6. ControlInv'
    BY <1>1, <1>2 DEF ControlInv, HasRow
  <1>7. DueInv' /\ CallbackEntriesLive'
    BY <1>1, <1>2 DEF PInv, DueInv, CallbackEntriesLive
  <1>8. FreshInv'
    <2>1. PidsFresh' <=> PidsFresh
      BY <1>1 DEF PidsFresh
    <2>2. \A p : \A j : Holds(p, j)' <=> Holds(p, j)
      BY <1>1 DEF Holds
    <2>3. \A r : RowTrue(r)' <=> RowTrue(r)
      BY <1>1, <2>2 DEF RowTrue
    <2>4. \A p : Descent(p)' <=> Descent(p)
      BY <1>1, <2>2 DEF Descent
    <2>5. Rows' \subseteq Rows
      BY <1>1 DEF Rows, HasRow
    <2> QED BY <1>1, <2>1, <2>3, <2>4, <2>5 DEF PInv, FreshInv
  <1> QED BY <1>3, <1>4, <1>5, <1>6, <1>7, <1>8 DEF PInv

\* knFcClassifyAndInsert for a row of the snapshot.
LEMMA SnapClassifyKeeps == ASSUME PInv, SnapClassify PROVE PInv'
  <1>1. /\ UNCHANGED <<proc, active, registered, starts>> /\ control = "classify"
        /\ snap \in Snaps /\ snap.row \in Row /\ active
    BY DEF SnapClassify, PInv, SnapTypes, ControlInv, HasRow
  <1>2. PICK s : s = [snap EXCEPT !.changed = TRUE]
    OBVIOUS
  <1>3. s \in Snaps /\ s.todo = snap.todo /\ s.buffer = snap.buffer /\ s.row = snap.row
    BY <1>1, <1>2 DEF Snaps
  <1>4. \/ /\ Accepts(snap.row.pid, snap.row.ppid, snap.isRoot)
           /\ Insert(snap.row.pid, snap.row.ppid, snap.isRoot, TRUE)
           /\ control' = "push" /\ snap' = s /\ UNCHANGED failures
        \/ /\ Fail \/ UNCHANGED failures
           /\ control' = "visit" /\ snap' = NextRow(s) /\ UNCHANGED <<table, count>>
    BY <1>2 DEF SnapClassify
  <1>5. CASE /\ Fail \/ UNCHANGED failures
             /\ control' = "visit" /\ snap' = NextRow(s) /\ UNCHANGED <<table, count>>
    <2>1. SnapTypes' /\ snap'.todo = snap.todo /\ snap'.buffer = snap.buffer
      <3>1. NextRow(s) \in Snaps
        BY <1>3 DEF NextRow, Snaps
      <3> QED BY <1>3, <1>5, <3>1, NextRowFields DEF SnapTypes
    <2>2. Rows' \subseteq Rows
      BY <1>5, <2>1 DEF Rows, HasRow
    <2>3. registered' \in BOOLEAN /\ control' \in Controls /\ starts' \in 0 .. MaxStarts
      BY <1>1, <1>5 DEF PInv, OtherTypes, Controls
    <2>4. ControlInv'
      BY <1>1, <1>5 DEF PInv, ControlInv, HasRow
    <2> QED BY <1>1, <1>5, <2>1, <2>2, <2>3, <2>4, ControlMoves DEF PInv, FreshInv
  <1>6. CASE /\ Accepts(snap.row.pid, snap.row.ppid, snap.isRoot)
             /\ Insert(snap.row.pid, snap.row.ppid, snap.isRoot, TRUE)
             /\ control' = "push" /\ snap' = s /\ UNCHANGED failures
    <2>1. PICK k \in Pids, parent \in Pids \union {NoPid}, isRoot \in BOOLEAN,
               fromSnap \in BOOLEAN :
             /\ k = snap.row.pid /\ parent = snap.row.ppid /\ isRoot = snap.isRoot
             /\ fromSnap = TRUE
      <3>1. /\ snap.row.pid \in Pids /\ snap.row.ppid \in Pids \union {NoPid}
            /\ snap.isRoot \in BOOLEAN
        BY <1>1 DEF Row, Snaps
      <3> QED BY <3>1
    <2>2. Accepts(k, parent, isRoot) /\ Insert(k, parent, isRoot, fromSnap)
      BY <1>6, <2>1
    <2>3. /\ TableInv'
          /\ \A j : Tracked(j)' <=> Tracked(j) \/ j = k
          /\ \E e : e.pid = k /\ e.snap = fromSnap /\ table' = table \union {e}
      BY <2>2, InsertKeeps
    <2>4. PICK e : e.pid = k /\ e.snap = TRUE /\ table' = table \union {e}
      BY <2>1, <2>3
    <2>5. ProcTypes' /\ PidInv' /\ ParentInv'
      BY <1>1, SameTypes
    <2>6. SnapTypes' /\ OtherTypes'
      BY <1>1, <1>3, <1>6 DEF PInv, SnapTypes, OtherTypes, Controls
    <2>7. ControlInv'
      BY <1>1, <1>3, <1>6 DEF PInv, ControlInv, HasRow
    <2>8. DueInv'
      BY <1>1, <2>3 DEF PInv, DueInv
    <2>9. \A p : \A j : Holds(p, j)' <=> Holds(p, j)
      BY <1>1 DEF Holds
    <2>10. CallbackEntriesLive'
      BY <1>1, <2>4, <2>9 DEF PInv, CallbackEntriesLive
    <2>11. FreshInv'
      <3>1. PidsFresh' <=> PidsFresh
        BY <1>1 DEF PidsFresh
      <3>2. \A r : RowTrue(r)' <=> RowTrue(r)
        BY <1>1, <2>9 DEF RowTrue
      <3>3. \A p : Descent(p)' <=> Descent(p)
        BY <1>1, <2>9 DEF Descent
      <3>4. Rows' \subseteq Rows
        BY <1>1, <1>3, <1>6 DEF Rows, HasRow
      <3>5. ASSUME PidsFresh PROVE \E p \in Processes : Holds(p, e.pid) /\ proc[p].descends
        <4>1. CASE isRoot
          <5>1. PICK p \in Processes : Holds(p, snap.row.pid) /\ proc[p].image
            BY <1>1, <2>1, <3>5, <4>1 DEF PInv, FreshInv
          <5>2. proc[p].life \in Listed
            BY <5>1 DEF Holds
          <5>3. proc[p].descends
            BY <3>5, <5>1, <5>2, TrackedDescent
          <5> QED BY <2>1, <2>4, <5>1, <5>3
        <4>2. CASE ~isRoot
          <5>1. PICK p \in Processes : Holds(p, snap.row.pid) /\ proc[p].ppid = snap.row.ppid
            <6>1. snap.row \in Rows
              BY <1>1 DEF Rows, HasRow
            <6> QED BY <3>5, <6>1 DEF PInv, FreshInv, RowTrue
          <5>2. proc[p].life \in Listed /\ Tracked(proc[p].ppid)
            BY <2>1, <2>2, <4>2, <5>1 DEF Holds, Accepts
          <5>3. proc[p].descends
            BY <3>5, <5>2, TrackedDescent
          <5> QED BY <2>1, <2>4, <5>1, <5>3
        <4> QED BY <4>1, <4>2
      <3>6. control' # "classify" /\ proc' = proc
        BY <1>1, <1>6
      <3> QED BY <2>4, <2>9, <3>1, <3>2, <3>3, <3>4, <3>5, <3>6 DEF PInv, FreshInv
    <2> QED BY <2>3, <2>5, <2>6, <2>7, <2>8, <2>10, <2>11 DEF PInv
  <1> QED BY <1>4, <1>5, <1>6
-----------------------------------------------------------------------------

\* It holds at first.
LEMMA InitPInv == Init => PInv
  <1> SUFFICES ASSUME Init PROVE PInv
    OBVIOUS
  <1>1. /\ proc = [p \in Processes |-> Absent("unborn")]
        /\ ~active /\ ~registered /\ table = {} /\ count = 0
        /\ control = "idle" /\ snap = Idle /\ starts = 0 /\ failures = 0
    BY DEF Init
  <1>2. ProcTypes
    <2>1. Absent("unborn") \in ProcessRecord
      BY DEF Absent, ProcessRecord, Life
    <2> QED BY <1>1, <2>1 DEF ProcTypes
  <1>3. \A p \in Processes : proc[p].life = "unborn" /\ ~proc[p].due
    BY <1>1 DEF Absent
  <1>4. SnapTypes
    <2>1. 0 \in 0 .. MaxPasses
      BY ProcessTrackAssumption
    <2> QED BY <1>1, <2>1 DEF SnapTypes, Snaps, Idle
  <1>5. OtherTypes
    <2>1. active = FALSE /\ registered = FALSE /\ starts = 0 /\ failures = 0 /\ control = "idle"
      BY DEF Init
    <2>2. 0 \in 0 .. MaxStarts /\ 0 \in 0 .. MaxFailures
      BY ProcessTrackAssumption
    <2> QED BY <2>1, <2>2 DEF OtherTypes, Controls
  <1>6. TableInv
    BY <1>1, FS_EmptySet DEF TableInv, OneEntry
  <1>7. ControlInv
    BY <1>1, <1>3 DEF ControlInv, HasRow, InCallback
  <1>8. PidInv /\ ParentInv /\ DueInv
    BY <1>3 DEF PidInv, ParentInv, DueInv, Listed, InCallback
  <1>9. CallbackEntriesLive
    BY <1>1 DEF CallbackEntriesLive
  <1>10. Rows = {}
    BY <1>1 DEF Rows, HasRow, Idle
  <1>11. FreshInv
    BY <1>1, <1>3, <1>10 DEF FreshInv, Listed, InCallback
  <1> QED BY <1>2, <1>4, <1>5, <1>6, <1>7, <1>8, <1>9, <1>11 DEF PInv

\* A step that changes nothing keeps it.
LEMMA StutterKeeps == ASSUME PInv, UNCHANGED vars PROVE PInv'
  <1>1. /\ UNCHANGED <<proc, active, registered, table, count>>
        /\ UNCHANGED <<control, snap, starts, failures>>
    BY DEF vars, driverVars
  <1>2. SnapTypes' /\ ControlInv'
    BY <1>1, SameTypes DEF PInv, ControlInv
  <1>3. Rows' = Rows
    BY <1>1 DEF Rows
  <1> QED BY <1>1, <1>2, <1>3, ControlMoves DEF PInv, OtherTypes, FreshInv

\* So does every step.
LEMMA StepPInv == PInv /\ [Next]_vars => PInv'
  <1> SUFFICES ASSUME PInv, [Next]_vars PROVE PInv'
    OBVIOUS
  <1>1. CASE \E p \in Processes : LifeStep(p) \/ CallbackStep(p)
    <2> PICK p \in Processes : LifeStep(p) \/ CallbackStep(p)
      BY <1>1
    <2>1. CASE Create(p)
      BY <2>1, CreateKeeps
    <2>2. CASE Reap(p)
      BY <2>2, ReapKeeps
    <2>3. CASE Classify(p)
      BY <2>3, ClassifyKeeps
    <2>4. CASE MarkExited(p)
      BY <2>4, MarkExitedKeeps
    <2>5. CASE NotifyCreate(p) \/ PushCreated(p) \/ Exit(p) \/ NotifyExit(p) \/ DeferExited(p)
      BY <2>5, CallbackMoves
    <2> QED BY <2>1, <2>2, <2>3, <2>4, <2>5 DEF LifeStep, CallbackStep
  <1>2. CASE Start \/ Register \/ Unregister \/ CallbacksDone
    BY <1>2, StartKeeps
  <1>3. CASE Stop
    BY <1>3, StopKeeps
  <1>4. CASE Activate
    BY <1>4, ActivateKeeps
  <1>5. CASE Query
    BY <1>5, QueryKeeps
  <1>6. CASE Visit
    BY <1>6, VisitKeeps
  <1>7. CASE VisitParent \/ Image
    BY <1>7, LookUpKeeps
  <1>8. CASE SnapClassify
    BY <1>8, SnapClassifyKeeps
  <1>9. CASE SnapPush \/ EndPass
    BY <1>9, PassKeeps
  <1>10. CASE Purge
    BY <1>10, PurgeKeeps
  <1>11. CASE UNCHANGED vars
    BY <1>11, StutterKeeps
  <1> QED BY <1>1, <1>2, <1>3, <1>4, <1>5, <1>6, <1>7, <1>8, <1>9, <1>10, <1>11
          DEF Next, Serve

\* The table, the processes and what the snapshot has in hand agree at every
\* step: the inductive invariant of knFcTrack.cpp's table.
THEOREM TrackInvariant == Spec => []PInv
  <1> QED BY InitPInv, StepPInv, PTL DEF Spec

\* Types; EntryCount never falls below zero, which knFcTrackGetCount guards
\* against.
THEOREM TrackTyped == Spec => []TypeOK
  <1>1. PInv => TypeOK
    <2> SUFFICES ASSUME PInv PROVE TypeOK
      OBVIOUS
    <2>1. count \in Nat
      BY FS_CardinalityType DEF PInv, TableInv, OneEntry
    <2> QED BY <2>1 DEF PInv, ProcTypes, SnapTypes, Snaps, OtherTypes, TableInv, TypeOK
  <1> QED BY <1>1, TrackInvariant, PTL

\* A pid has one entry, although the snapshot and a create callback may both have
\* found none before they take the lock, and EntryCount counts the entries.
THEOREM OnePidOneEntry == Spec => []OneEntry
  <1>1. PInv => OneEntry
    BY DEF PInv, TableInv
  <1> QED BY <1>1, TrackInvariant, PTL

\* When knFcTrackStop has returned the table is empty and no process notify
\* callback that had found Active set is still on its way to it.
THEOREM StopEmpties == Spec => []StoppedIsEmpty
  <1>1. PInv => StoppedIsEmpty
    BY DEF PInv, ControlInv, StoppedIsEmpty
  <1> QED BY <1>1, TrackInvariant, PTL

\* A process born while tracking is active, under a watch root or to a tracked
\* parent, has an entry from its create callback to its exit callback.
THEOREM DueTracked == Spec => []DueAreTracked
  <1>1. PInv => DueAreTracked
    BY DEF PInv, DueInv, DueAreTracked
  <1> QED BY <1>1, TrackInvariant, PTL

\* An entry that a create callback made is there for a process that has not been
\* through its exit callback.
THEOREM EntriesLive == Spec => []CallbackEntriesLive
  <1>1. PInv => CallbackEntriesLive
    BY DEF PInv
  <1> QED BY <1>1, TrackInvariant, PTL

\* While no pid has been given twice only processes under a watch root and their
\* descendants are tracked, whichever of the snapshot and the callback entered them.
THEOREM DescendantsOnly == Spec => []OnlyDescendants
  <1>1. PInv => OnlyDescendants
    <2> SUFFICES ASSUME PInv, PidsFresh, NEW e \in table, NEW p \in Processes, Holds(p, e.pid)
                 PROVE  proc[p].descends
      BY DEF OnlyDescendants
    <2>1. PICK q \in Processes : Holds(q, e.pid) /\ proc[q].descends
      BY DEF PInv, FreshInv
    <2>2. q = p
      BY <2>1 DEF Holds, PInv, PidInv
    <2> QED BY <2>1, <2>2
  <1> QED BY <1>1, TrackInvariant, PTL
-----------------------------------------------------------------------------
(* What the snapshot leaves out. *)

\* Where a process has been that made another one.
Ran == {"running", "exiting", "mark", "defer", "zombie", "reaped"}

Snapshotting == {"visit"} \union HasRow

\* The rows that the pass has yet to deal with.
Pending == snap.todo \union IF control \in HasRow \ {"push"} THEN {snap.row} ELSE {}

Seen(p) == \A r \in Pending : r.pid # proc[p].pid

\* What the locals of the snapshot say of its place.
SnapPlace ==
    /\ control = "query" \/ ~active => snap = Idle
    /\ control \notin Snapshotting => snap.todo = {} /\ snap.pass = 0
    /\ snap.todo \subseteq snap.buffer /\ IsFiniteSet(snap.buffer)
    /\ control = "parent" => snap.pass > 0
    /\ control \in HasRow => snap.row \in snap.buffer
    /\ control = "classify" /\ snap.pass = 0 => snap.isRoot

\* A process that made another one has been through its create callback.
ParentRan ==
    \A p \in Processes : proc[p].parent \in Processes => proc[proc[p].parent].life \in Ran

\* The query lists the parents of what it lists.
BufferClosed ==
    \A p \in Processes :
        proc[p].life \in Listed /\ InBuffer(p) /\ proc[p].parent \in Processes =>
            InBuffer(proc[p].parent)

\* The root pass has entered the roots that it has dealt with.
RootsDone ==
    \A p \in Processes :
        /\ InBuffer(p) /\ proc[p].life \in Alive /\ proc[p].image
        /\ snap.pass > 0 \/ Seen(p)
        => Tracked(proc[p].pid)

\* A child pass that has changed nothing has left out no child of a tracked parent.
ChildrenDone ==
    (snap.pass > 0 \/ control = "idle") /\ ~snap.changed =>
        \A p \in Processes :
            /\ InBuffer(p) /\ proc[p].life \in Alive /\ Seen(p)
            /\ proc[p].parent \in Processes
            /\ proc[proc[p].parent].life \in Alive
            /\ Tracked(proc[proc[p].parent].pid)
            => Tracked(proc[p].pid)

\* A listed process is entered, leaves by its exit, and may be entered again.
Past(r) == \E p \in Processes : Holds(p, r.pid) /\ proc[p].life \in {"defer", "zombie"}

Entered == {r \in snap.buffer : Tracked(r.pid) \/ Past(r)}
Gone == {r \in snap.buffer : Past(r)}
Back == {r \in snap.buffer : Past(r) /\ Tracked(r.pid)}

Progress == Cardinality(Entered) + Cardinality(Gone) + Cardinality(Back)

\* Every pass that changes something makes progress, or something else has made it
\* while the pass looked at the row.
PassInv ==
    /\ snap.pass > 0 =>
          /\ Progress >= snap.pass - 1
          /\ snap.changed => Progress >= snap.pass
          /\ control = "parent" => Progress >= snap.pass \/ ~Tracked(snap.row.pid)
          /\ control \in {"image", "classify"} =>
                Progress >= snap.pass \/ (~Tracked(snap.row.pid) /\ Tracked(snap.row.ppid))
    /\ control = "idle" /\ snap.changed => Progress >= MaxPasses

CompleteInv ==
    /\ SnapPlace
    /\ PidsFresh => ParentRan /\ BufferClosed
    /\ PidsFresh /\ active /\ failures = 0 => RootsDone /\ ChildrenDone /\ PassInv

\* A smaller part of a finite set has fewer elements.
LEMMA PartCount ==
    ASSUME NEW T, IsFiniteSet(T), NEW S \in SUBSET T
    PROVE  /\ IsFiniteSet(S) /\ Cardinality(S) \in Nat /\ Cardinality(T) \in Nat
           /\ Cardinality(S) <= Cardinality(T)
           /\ S # T => Cardinality(S) + 1 <= Cardinality(T)
  <1>1. /\ IsFiniteSet(S) /\ Cardinality(S) <= Cardinality(T)
        /\ Cardinality(S) = Cardinality(T) => S = T
    BY FS_Subset
  <1>2. Cardinality(S) \in Nat /\ Cardinality(T) \in Nat
    BY <1>1, FS_CardinalityType
  <1> QED BY <1>1, <1>2

\* What is past stays so, and only an exit takes an entry away: no step goes back,
\* and one that enters a row or ends its process goes on.
LEMMA ProgressStep ==
    ASSUME IsFiniteSet(snap.buffer), snap'.buffer = snap.buffer,
           \A r \in snap.buffer : Past(r) => Past(r)',
           \A r \in snap.buffer : Tracked(r.pid) => Tracked(r.pid)' \/ (Past(r)' /\ ~Past(r))
    PROVE  /\ Progress \in Nat /\ Progress' \in Nat /\ Progress' >= Progress
           /\ (\E r \in snap.buffer :
                  \/ ~Tracked(r.pid) /\ Tracked(r.pid)'
                  \/ ~Past(r) /\ Past(r)')
              => Progress' >= Progress + 1
  <1>1. /\ Entered' \in SUBSET snap.buffer /\ Gone' \in SUBSET snap.buffer
        /\ Back' \in SUBSET snap.buffer
        /\ Entered \in SUBSET Entered' /\ Gone \in SUBSET Gone' /\ Back \in SUBSET Back'
    BY DEF Entered, Gone, Back
  <1>2. IsFiniteSet(Entered') /\ IsFiniteSet(Gone') /\ IsFiniteSet(Back')
    BY <1>1, PartCount
  <1>3. /\ Cardinality(Entered) \in Nat /\ Cardinality(Entered') \in Nat
        /\ Cardinality(Entered) <= Cardinality(Entered')
        /\ Entered # Entered' => Cardinality(Entered) + 1 <= Cardinality(Entered')
    BY <1>1, <1>2, PartCount
  <1>4. /\ Cardinality(Gone) \in Nat /\ Cardinality(Gone') \in Nat
        /\ Cardinality(Gone) <= Cardinality(Gone')
        /\ Gone # Gone' => Cardinality(Gone) + 1 <= Cardinality(Gone')
    BY <1>1, <1>2, PartCount
  <1>5. /\ Cardinality(Back) \in Nat /\ Cardinality(Back') \in Nat
        /\ Cardinality(Back) <= Cardinality(Back')
        /\ Back # Back' => Cardinality(Back) + 1 <= Cardinality(Back')
    BY <1>1, <1>2, PartCount
  <1>6. /\ Progress = Cardinality(Entered) + Cardinality(Gone) + Cardinality(Back)
        /\ Progress' = Cardinality(Entered') + Cardinality(Gone') + Cardinality(Back')
    BY DEF Progress
  <1>7. ASSUME NEW r \in snap.buffer,
               (~Tracked(r.pid) /\ Tracked(r.pid)') \/ (~Past(r) /\ Past(r)')
        PROVE  Entered # Entered' \/ Gone # Gone' \/ Back # Back'
    <2>1. CASE ~Past(r) /\ Past(r)'
      BY <2>1 DEF Gone
    <2>2. CASE ~Tracked(r.pid) /\ Tracked(r.pid)' /\ Past(r)
      BY <2>2 DEF Back
    <2>3. CASE ~Tracked(r.pid) /\ Tracked(r.pid)' /\ ~Past(r)
      BY <2>3 DEF Entered
    <2> QED BY <1>7, <2>1, <2>2, <2>3
  <1>8. (\E r \in snap.buffer : \/ ~Tracked(r.pid) /\ Tracked(r.pid)'
                                \/ ~Past(r) /\ Past(r)')
           => Entered # Entered' \/ Gone # Gone' \/ Back # Back'
    BY <1>7
  <1>9. Progress \in Nat /\ Progress' \in Nat /\ Progress' >= Progress
    BY <1>3, <1>4, <1>5, <1>6
  <1>10. Entered # Entered' \/ Gone # Gone' \/ Back # Back' => Progress' >= Progress + 1
    BY <1>3, <1>4, <1>5, <1>6
  <1> QED BY <1>8, <1>9, <1>10

\* Steps of the thread that serves the requests make neither.
LEMMA ProgressSame ==
    ASSUME IsFiniteSet(snap.buffer), UNCHANGED <<proc, table>>, snap'.buffer = snap.buffer
    PROVE  Progress' = Progress /\ Progress \in Nat
  <1>1. \A r : (Past(r)' <=> Past(r)) /\ (Tracked(r.pid)' <=> Tracked(r.pid))
    BY DEF Past, Tracked, Holds
  <1>2. Entered' = Entered /\ Gone' = Gone /\ Back' = Back
    BY <1>1 DEF Entered, Gone, Back
  <1> QED BY <1>1, <1>2, ProgressStep DEF Progress
-----------------------------------------------------------------------------
(* The processes and the callbacks while a snapshot is taken. *)

\* A process that was there before is the same one and does not go back.
Older(p) ==
    /\ proc'[p].pid = proc[p].pid /\ proc'[p].ppid = proc[p].ppid
    /\ proc'[p].parent = proc[p].parent /\ proc'[p].image = proc[p].image
    /\ proc'[p].life \in Listed <=> proc[p].life \in Listed
    /\ proc'[p].life \in Alive => proc[p].life \in Alive
    /\ proc[p].life \in {"defer", "zombie"} => proc'[p].life \in {"defer", "zombie"}
    /\ proc[p].life \in Ran => proc'[p].life \in Ran

\* A new process has a free pid and a parent that runs.
Newborn(p) ==
    /\ proc'[p].life = "born" /\ proc[p].life = "unborn"
    /\ proc'[p].pid \in FreePids
    /\ proc'[p].parent \in Processes =>
          proc'[p].parent # p /\ proc[proc'[p].parent].life = "running"

\* What a step of a process or a callback does, if no pid is given twice.
EnvStep ==
    /\ UNCHANGED <<active, control, snap>> /\ PidsFresh
    /\ failures' = 0 => failures = 0
    /\ \A p \in Processes : Older(p) \/ Newborn(p)
    /\ \A k : Tracked(k)' =>
          Tracked(k) \/ \E p \in Processes : Holds(p, k) /\ proc[p].life = "classify"
    /\ \A k : Tracked(k) => Tracked(k)' \/ \E p \in Processes :
          Holds(p, k) /\ proc[p].life = "mark" /\ proc'[p].life = "defer"

\* A process moves on as Moves says.
LEMMA MovesOlder ==
    ASSUME NEW p \in Processes, NEW b \in Listed, Moves(p, b),
           proc[p].life \in Listed, b \in Alive => proc[p].life \in Alive,
           proc[p].life \in {"defer", "zombie"} => b \in {"defer", "zombie"},
           proc[p].life \in Ran => b \in Ran
    PROVE  \A q \in Processes : Older(q)
  BY DEF Moves, Older

LEMMA EnvSteps ==
    ASSUME PInv, NEW p \in Processes, LifeStep(p) \/ CallbackStep(p), PidsFresh'
    PROVE  EnvStep
  <1>1. UNCHANGED <<active, control, snap>> /\ (failures' = 0 => failures = 0)
    <2>1. failures \in Nat
      BY ProcessTrackAssumption DEF PInv, OtherTypes
    <2>2. CASE Create(p) \/ Exit(p) \/ Reap(p)
      BY <2>2 DEF Create, Exit, Reap, driverVars
    <2>3. CASE NotifyCreate(p) \/ PushCreated(p) \/ NotifyExit(p) \/ DeferExited(p)
      BY <2>3 DEF NotifyCreate, PushCreated, NotifyExit, DeferExited, driverVars
    <2>4. CASE MarkExited(p)
      BY <2>4 DEF MarkExited
    <2>5. CASE Classify(p)
      <3>1. UNCHANGED <<active, control, snap>> /\ (Fail \/ UNCHANGED failures)
        BY <2>5 DEF Classify
      <3> QED BY <2>1, <3>1 DEF Fail
    <2> QED BY <2>2, <2>3, <2>4, <2>5 DEF LifeStep, CallbackStep
  <1>2. CASE Create(p)
    <2>1. /\ UNCHANGED table
          /\ proc'[p].life = "born" /\ proc[p].life = "unborn" /\ proc'[p].pid \in FreePids
          /\ proc'[p].parent \in {q \in Processes : proc[q].life = "running"} \union {NoProcess}
          /\ \A q \in Processes : q # p => proc'[q] = proc[q]
      BY <1>2 DEF Create, driverVars, PInv, ProcTypes
    <2>2. Newborn(p) /\ \A q \in Processes : q # p => Older(q)
      BY <2>1, ProcessTrackAssumption DEF Newborn, Older
    <2>3. PidsFresh
      BY <2>1 DEF PidsFresh
    <2>4. \A k : Tracked(k)' <=> Tracked(k)
      BY <2>1 DEF Tracked
    <2> QED BY <1>1, <2>2, <2>3, <2>4 DEF EnvStep
  <1>3. ~Reap(p)
    BY DEF Reap, PidsFresh, PInv, ProcTypes, Absent
  <1>4. ASSUME NEW b \in Listed, SetLife(p, b), proc[p].life \in Listed,
               b \in Alive => proc[p].life \in Alive,
               proc[p].life \in {"defer", "zombie"} => b \in {"defer", "zombie"},
               proc[p].life \in Ran => b \in Ran
        PROVE  PidsFresh /\ \A q \in Processes : Older(q)
    <2>1. Moves(p, b)
      BY <1>4, SetLifeMoves DEF PInv, Life
    <2>2. PidsFresh
      BY <1>4, <2>1 DEF Moves, PidsFresh, Listed, InCallback
    <2> QED BY <1>4, <2>1, <2>2, MovesOlder
  <1>5. CASE Exit(p) \/ NotifyCreate(p) \/ PushCreated(p) \/ NotifyExit(p) \/ DeferExited(p)
    <2>1. \E b \in Listed :
             /\ SetLife(p, b) /\ proc[p].life \in Listed
             /\ b \in Alive => proc[p].life \in Alive
             /\ proc[p].life \in {"defer", "zombie"} => b \in {"defer", "zombie"}
             /\ proc[p].life \in Ran => b \in Ran
      BY <1>5 DEF Exit, NotifyCreate, PushCreated, NotifyExit, DeferExited, Listed, Alive,
                  InCallback, Ran
    <2>2. \A k : Tracked(k)' <=> Tracked(k)
      BY <1>5 DEF Exit, NotifyCreate, PushCreated, NotifyExit, DeferExited, driverVars, Tracked
    <2> QED BY <1>1, <1>4, <2>1, <2>2 DEF EnvStep
  <1>6. CASE MarkExited(p)
    <2>1. proc[p].life = "mark" /\ Holds(p, proc[p].pid)
      BY <1>6 DEF MarkExited, Holds, Listed, InCallback
    <2>2. \E b \in {"defer", "zombie"} :
             /\ SetLife(p, b)
             /\ b = "defer" => table' = {e \in table : e.pid # proc[p].pid}
             /\ b = "zombie" => table' = table
      BY <1>6 DEF MarkExited
    <2>3. PICK b \in {"defer", "zombie"} :
             /\ SetLife(p, b)
             /\ b = "defer" => table' = {e \in table : e.pid # proc[p].pid}
             /\ b = "zombie" => table' = table
      BY <2>2
    <2>4. PidsFresh /\ \A q \in Processes : Older(q)
      BY <1>4, <2>1, <2>3 DEF Listed, Alive, InCallback, Ran
    <2>5. b = "defer" => proc'[p].life = "defer"
      BY <2>3 DEF SetLife, PInv, ProcTypes, ProcessRecord
    <2>6. \A k : Tracked(k)' => Tracked(k)
      BY <2>3 DEF Tracked
    <2>7. \A k : Tracked(k) => Tracked(k)' \/ (b = "defer" /\ k = proc[p].pid)
      BY <2>3 DEF Tracked
    <2> QED BY <1>1, <2>1, <2>4, <2>5, <2>6, <2>7 DEF EnvStep
  <1>7. CASE Classify(p)
    <2>1. proc[p].life = "classify" /\ Holds(p, proc[p].pid)
      BY <1>7 DEF Classify, Holds, Listed, InCallback
    <2>2. \/ \E b \in {"running", "pushCreated"} : SetLife(p, b)
          \/ proc' = [proc EXCEPT ![p].life = "running", ![p].due = FALSE]
      BY <1>7 DEF Classify
    <2>3. PidsFresh /\ \A q \in Processes : Older(q)
      <3>1. CASE \E b \in {"running", "pushCreated"} : SetLife(p, b)
        BY <1>4, <2>1, <3>1 DEF Listed, Alive, InCallback, Ran
      <3>2. CASE proc' = [proc EXCEPT ![p].life = "running", ![p].due = FALSE]
        <4>1. Moves(p, "running")
          BY <3>2 DEF Moves, ProcessRecord, PInv, ProcTypes
        <4>2. \A q \in Processes : Older(q)
          BY <2>1, <4>1, MovesOlder DEF Listed, Alive, InCallback, Ran
        <4>3. PidsFresh
          BY <2>1, <4>1 DEF Moves, PidsFresh
        <4> QED BY <4>2, <4>3
      <3> QED BY <2>2, <3>1, <3>2
    <2>4. \/ UNCHANGED table
          \/ \E e : e.pid = proc[p].pid /\ table' = table \union {e}
      <3>1. CASE UNCHANGED table
        BY <3>1
      <3>2. CASE Insert(proc[p].pid, proc[p].ppid, proc[p].image, FALSE)
        <4>1. PICK e : /\ table' = table \union {e}
                       /\ e = [pid |-> proc[p].pid, ppid |-> proc[p].ppid,
                               root |-> Lineage(proc[p].pid, proc[p].ppid, proc[p].image),
                               snap |-> FALSE]
          BY <3>2 DEF Insert
        <4> QED BY <4>1
      <3> QED BY <1>7, <3>1, <3>2 DEF Classify
    <2>5. \A k : (Tracked(k) => Tracked(k)') /\ (Tracked(k)' => Tracked(k) \/ k = proc[p].pid)
      BY <2>4 DEF Tracked
    <2> QED BY <1>1, <2>1, <2>3, <2>5 DEF EnvStep
  <1> QED BY <1>2, <1>3, <1>5, <1>6, <1>7 DEF LifeStep, CallbackStep
\* Such a step leaves out nothing that the snapshot has dealt with.
LEMMA EnvKeeps ==
    ASSUME PInv, CompleteInv, EnvStep
    PROVE  CompleteInv'
  <1>1. /\ UNCHANGED <<active, control, snap>> /\ PidsFresh
        /\ failures' = 0 => failures = 0
        /\ \A p \in Processes : Older(p) \/ Newborn(p)
        /\ ParentRan /\ BufferClosed
    BY DEF EnvStep, CompleteInv
  <1>2. SnapPlace'
    BY <1>1 DEF CompleteInv, SnapPlace
  <1>3. \A r \in snap.buffer : RowTrue(r)
    BY <1>1 DEF PInv, FreshInv, Rows
  <1>4. \A p \in Processes : Newborn(p) => ~InBuffer(p)'
    <2> SUFFICES ASSUME NEW p \in Processes, Newborn(p), NEW r \in snap.buffer
                 PROVE  r.pid # proc'[p].pid
      BY <1>1 DEF InBuffer
    <2> QED BY <1>3 DEF RowTrue, Newborn, FreePids
  <1>5. ParentRan'
    <2> SUFFICES ASSUME NEW p \in Processes, proc'[p].parent \in Processes
                 PROVE  proc'[proc'[p].parent].life \in Ran
      BY DEF ParentRan
    <2>1. proc[proc'[p].parent].life \in Ran
      BY <1>1 DEF ParentRan, Older, Newborn, Ran
    <2>2. Older(proc'[p].parent)
      BY <1>1, <2>1 DEF Newborn, Ran
    <2> QED BY <2>1, <2>2 DEF Older
  <1>6. ASSUME NEW p \in Processes, InBuffer(p)'
        PROVE  /\ Older(p) /\ InBuffer(p) /\ (Seen(p)' <=> Seen(p))
               /\ proc[p].parent \in Processes =>
                     Older(proc[p].parent) /\ proc[proc[p].parent].life \in Ran
    <2>1. Older(p)
      BY <1>1, <1>4, <1>6
    <2>2. InBuffer(p)
      BY <1>1, <1>6, <2>1 DEF InBuffer, Older
    <2>3. Pending' = Pending
      BY <1>1 DEF Pending
    <2>4. Seen(p)' <=> Seen(p)
      BY <2>1, <2>3 DEF Seen, Older
    <2>5. proc[p].parent \in Processes => proc[proc[p].parent].life \in Ran
      BY <1>1 DEF ParentRan
    <2>6. proc[p].parent \in Processes => Older(proc[p].parent)
      BY <1>1, <2>5 DEF Newborn, Ran
    <2> QED BY <2>1, <2>2, <2>4, <2>5, <2>6
  <1>7. BufferClosed'
    <2> SUFFICES ASSUME NEW p \in Processes, proc'[p].life \in Listed, InBuffer(p)',
                        proc'[p].parent \in Processes
                 PROVE  InBuffer(proc[p].parent)'
      BY DEF BufferClosed
    <2>1. /\ Older(p) /\ InBuffer(p) /\ proc'[p].parent = proc[p].parent
          /\ proc[p].life \in Listed /\ Older(proc[p].parent)
      BY <1>6 DEF Older
    <2>2. InBuffer(proc[p].parent)
      BY <1>1, <2>1 DEF BufferClosed
    <2>3. proc'[proc'[p].parent].pid = proc[proc[p].parent].pid
      BY <2>1 DEF Older
    <2> QED BY <1>1, <2>2, <2>3 DEF InBuffer
  \* An entry that goes is that of a process that exits, and one that comes is that
  \* of a new one, which has no children.
  <1>8. ASSUME NEW p \in Processes, proc'[p].life \in Alive, Older(p), Tracked(proc[p].pid)
        PROVE  Tracked(proc[p].pid)'
    <2>1. PICK k : k = proc[p].pid
      OBVIOUS
    <2>2. proc'[p].pid = k /\ proc[p].life \in Listed
      BY <1>8, <2>1 DEF Older, Alive
    <2>3. \A q \in Processes : Holds(q, k) => q = p
      BY <2>1, <2>2 DEF PInv, PidInv
    <2>4. proc'[p].life # "defer"
      BY <1>8 DEF Alive
    <2>5. Tracked(k)'
      BY <1>8, <2>1, <2>3, <2>4 DEF EnvStep
    <2> QED BY <2>2, <2>5 DEF Tracked
  <1>9. ASSUME NEW p \in Processes, proc'[p].life \in Alive, Older(p), proc[p].life \in Ran,
               Tracked(proc[p].pid)'
        PROVE  proc[p].life \in Alive /\ Tracked(proc[p].pid)
    <2>1. PICK k : k = proc[p].pid
      OBVIOUS
    <2>2. proc'[p].pid = k /\ proc[p].life \in Listed /\ proc[p].life \in Alive
      BY <1>9, <2>1 DEF Older, Alive
    <2>3. \A q \in Processes : Holds(q, k) => q = p
      BY <2>1, <2>2 DEF PInv, PidInv
    <2>4. proc[p].life # "classify"
      BY <1>9 DEF Ran
    <2>5. Tracked(k)'
      BY <1>9, <2>2 DEF Tracked
    <2>6. Tracked(k)
      BY <2>3, <2>4, <2>5 DEF EnvStep
    <2> QED BY <2>1, <2>2, <2>6
  <1>10. ASSUME RootsDone PROVE RootsDone'
    <2> SUFFICES ASSUME NEW p \in Processes, InBuffer(p)', proc'[p].life \in Alive,
                        proc'[p].image, snap'.pass > 0 \/ Seen(p)'
                 PROVE  Tracked(proc[p].pid)'
      BY DEF RootsDone
    <2>1. Older(p) /\ InBuffer(p) /\ (Seen(p)' <=> Seen(p))
      BY <1>6
    <2>2. Tracked(proc[p].pid)
      BY <1>1, <1>10, <2>1 DEF RootsDone, Older
    <2> QED BY <1>8, <2>1, <2>2
  <1>11. ASSUME ChildrenDone PROVE ChildrenDone'
    <2> SUFFICES ASSUME snap'.pass > 0 \/ control' = "idle", ~snap'.changed,
                        NEW p \in Processes, InBuffer(p)', proc'[p].life \in Alive, Seen(p)',
                        proc'[p].parent \in Processes,
                        proc'[proc'[p].parent].life \in Alive,
                        Tracked(proc[proc[p].parent].pid)'
                 PROVE  Tracked(proc[p].pid)'
      BY DEF ChildrenDone
    <2>1. /\ Older(p) /\ InBuffer(p) /\ Seen(p) /\ proc'[p].parent = proc[p].parent
          /\ Older(proc[p].parent) /\ proc[proc[p].parent].life \in Ran
          /\ proc[p].life \in Alive
      BY <1>6 DEF Older
    <2>2. proc[proc[p].parent].life \in Alive /\ Tracked(proc[proc[p].parent].pid)
      <3>1. PICK q \in Processes : q = proc[p].parent
        BY <2>1
      <3>2. proc'[q].life \in Alive /\ Older(q) /\ proc[q].life \in Ran /\ Tracked(proc[q].pid)'
        BY <2>1, <3>1 DEF Tracked
      <3> QED BY <1>9, <3>1, <3>2
    <2>3. Tracked(proc[p].pid)
      BY <1>1, <1>11, <2>1, <2>2 DEF ChildrenDone
    <2> QED BY <1>8, <2>1, <2>3
  <1>12. \A r \in snap.buffer : Past(r) => Past(r)'
    <2> SUFFICES ASSUME NEW r \in snap.buffer, Past(r) PROVE Past(r)'
      OBVIOUS
    <2>1. PICK p \in Processes : Holds(p, r.pid) /\ proc[p].life \in {"defer", "zombie"}
      BY DEF Past
    <2>2. Older(p)
      BY <1>1, <2>1 DEF Newborn
    <2> QED BY <2>1, <2>2 DEF Past, Older, Holds
  <1>13. \A k : Tracked(k) => Tracked(k)' \/ \E p \in Processes :
            /\ Holds(p, k) /\ Holds(p, k)' /\ proc[p].life = "mark" /\ proc'[p].life = "defer"
    BY <1>1 DEF EnvStep, Older, Newborn, Holds
  <1>14. \A r \in snap.buffer : Tracked(r.pid) => Tracked(r.pid)' \/ (Past(r)' /\ ~Past(r))
    <2> SUFFICES ASSUME NEW r \in snap.buffer, NEW p \in Processes,
                        Holds(p, r.pid), Holds(p, r.pid)',
                        proc[p].life = "mark", proc'[p].life = "defer"
                 PROVE  Past(r)' /\ ~Past(r)
      BY <1>13
    <2>1. \A q \in Processes : Holds(q, r.pid) => q = p
      BY DEF PInv, PidInv, Holds
    <2> QED BY <2>1 DEF Past
  <1>15. IsFiniteSet(snap.buffer)
    BY DEF CompleteInv, SnapPlace
  <1>16. /\ Progress \in Nat /\ Progress' \in Nat /\ Progress' >= Progress
         /\ (\E r \in snap.buffer :
                 \/ ~Tracked(r.pid) /\ Tracked(r.pid)'
                 \/ ~Past(r) /\ Past(r)')
               => Progress' >= Progress + 1
    BY <1>1, <1>12, <1>14, <1>15, ProgressStep
  <1>17. ASSUME PassInv PROVE PassInv'
    <2>1. snap.pass \in Nat /\ MaxPasses \in Nat
      BY ProcessTrackAssumption DEF PInv, SnapTypes, Snaps
    <2>2. PICK k, j : k = snap.row.pid /\ j = snap.row.ppid
      OBVIOUS
    <2>3. ASSUME snap.pass > 0, control \in {"parent", "image", "classify"}, ~Tracked(k)
          PROVE  Progress' >= snap.pass \/ ~Tracked(k)'
      <3>1. snap.row \in snap.buffer
        BY <2>3 DEF CompleteInv, SnapPlace, HasRow
      <3>2. Progress >= snap.pass - 1
        BY <1>17, <2>3 DEF PassInv
      <3>3. PICK r \in snap.buffer : r = snap.row
        BY <3>1
      <3>4. ~Tracked(r.pid) /\ (Tracked(r.pid)' <=> Tracked(k)')
        BY <2>2, <2>3, <3>3
      <3>5. Tracked(k)' => Progress' >= Progress + 1
        BY <1>16, <3>4
      <3> QED BY <1>16, <2>1, <3>2, <3>5
    <2>4. ASSUME snap.pass > 0, control \in {"image", "classify"}, Tracked(j), ~Tracked(j)'
          PROVE  Progress' >= snap.pass
      <3>1. snap.row \in snap.buffer
        BY <2>4 DEF CompleteInv, SnapPlace, HasRow
      <3>2. PICK q \in Processes : Holds(q, j) /\ Holds(q, j)'
                                   /\ proc[q].life = "mark" /\ proc'[q].life = "defer"
        BY <1>13, <2>4
      <3>3. PICK p \in Processes : Holds(p, k) /\ proc[p].ppid = j
        BY <1>3, <2>2, <3>1 DEF RowTrue
      <3>4. Descent(p) /\ proc[p].life \in Listed
        BY <1>1, <3>3 DEF Holds, PInv, FreshInv
      <3>5. j \in Pids
        BY <3>2 DEF Holds, PInv, PidInv
      <3>6. proc[p].parent = q
        BY <3>2, <3>3, <3>4, <3>5, ProcessTrackAssumption DEF Descent, PInv, PidInv, Holds
      <3>7. InBuffer(p)
        BY <2>2, <3>1, <3>3 DEF InBuffer, Holds
      <3>8. InBuffer(q)
        BY <1>1, <3>4, <3>6, <3>7 DEF BufferClosed
      <3>9. PICK r \in snap.buffer : r.pid = j
        BY <3>2, <3>8 DEF InBuffer, Holds
      <3>10. Past(r)'
        BY <3>2, <3>9 DEF Past
      <3>11. ~Past(r)
        BY <3>2, <3>9 DEF Past, PInv, PidInv, Holds
      <3>12. Progress' >= Progress + 1
        BY <1>16, <3>10, <3>11
      <3>13. Progress >= snap.pass - 1
        BY <1>17, <2>4 DEF PassInv
      <3> QED BY <1>16, <2>1, <3>12, <3>13
    <2>5. snap.pass > 0 => Progress' >= snap.pass - 1 /\ (snap.changed => Progress' >= snap.pass)
      BY <1>16, <1>17, <2>1 DEF PassInv
    <2>6. control = "idle" /\ snap.changed => Progress' >= MaxPasses
      BY <1>16, <1>17, <2>1 DEF PassInv
    <2>7. Progress >= snap.pass => Progress' >= snap.pass
      BY <1>16, <2>1
    <2>8. snap.pass > 0 /\ control = "parent" => Progress' >= snap.pass \/ ~Tracked(k)'
      BY <1>17, <2>2, <2>3, <2>7 DEF PassInv
    <2>9. snap.pass > 0 /\ control \in {"image", "classify"} =>
             Progress' >= snap.pass \/ (~Tracked(k)' /\ Tracked(j)')
      BY <1>17, <2>2, <2>3, <2>7, <2>4 DEF PassInv
    <2>10. snap' = snap /\ control' = control /\ k = snap'.row.pid /\ j = snap'.row.ppid
      BY <1>1, <2>2
    <2> QED BY <2>5, <2>6, <2>8, <2>9, <2>10 DEF PassInv
  <1> QED BY <1>1, <1>2, <1>5, <1>7, <1>10, <1>11, <1>17 DEF CompleteInv
-----------------------------------------------------------------------------
(* The steps of the snapshot. *)

\* No snapshot is under way or has been taken.
LEMMA IdleKeeps ==
    ASSUME CompleteInv, snap' = Idle, control' \notin Snapshotting,
           \A p \in Processes : proc'[p].life = proc[p].life /\ proc'[p].parent = proc[p].parent
    PROVE  CompleteInv'
  <1>1. /\ snap'.buffer = {} /\ snap'.todo = {} /\ snap'.pass = 0 /\ ~snap'.changed
    BY DEF Idle
  <1>2. SnapPlace'
    <2>1. IsFiniteSet(snap'.buffer)
      BY <1>1, FS_EmptySet
    <2>2. control' \notin {"parent", "classify"} /\ control' \notin HasRow
      BY DEF Snapshotting, HasRow
    <2> QED BY <1>1, <2>1, <2>2 DEF SnapPlace
  <1>3. \A p \in Processes : ~InBuffer(p)'
    BY <1>1 DEF InBuffer
  <1>4. PidsFresh' => ParentRan' /\ BufferClosed'
    BY <1>3 DEF CompleteInv, PidsFresh, ParentRan, BufferClosed
  <1>5. RootsDone' /\ ChildrenDone' /\ PassInv'
    BY <1>1, <1>3 DEF RootsDone, ChildrenDone, PassInv
  <1> QED BY <1>2, <1>4, <1>5 DEF CompleteInv

\* Start and Stop on either side of the snapshot.
LEMMA RequestsKeep ==
    ASSUME PInv, CompleteInv,
           \/ Start \/ Register \/ Activate \/ Stop
           \/ Unregister \/ CallbacksDone \/ Purge
    PROVE  CompleteInv'
  <1>1. CASE Stop
    <2>1. snap' = Idle /\ control' \notin Snapshotting
      BY <1>1 DEF Stop, Snapshotting, HasRow
    <2>2. \A p \in Processes : proc'[p].life = proc[p].life /\ proc'[p].parent = proc[p].parent
      BY <1>1 DEF Stop, PInv, ProcTypes, ProcessRecord
    <2> QED BY <2>1, <2>2, IdleKeeps
  <1>2. CASE \/ Start \/ Register \/ Activate \/ Unregister \/ CallbacksDone \/ Purge
    <2>1. UNCHANGED <<proc, snap>> /\ ~active /\ control' \notin Snapshotting
      BY <1>2 DEF Start, Register, Activate, Unregister, CallbacksDone, Purge, Snapshotting,
                  HasRow, driverVars, PInv, ControlInv
    <2>2. snap = Idle
      BY <2>1 DEF CompleteInv, SnapPlace
    <2> QED BY <2>1, <2>2, IdleKeeps
  <1> QED BY <1>1, <1>2

\* The query lists all that the system lists.
LEMMA QueryComplete == ASSUME PInv, CompleteInv, Query PROVE CompleteInv'
  <1>1. PICK listed :
           listed = {[pid |-> proc[p].pid, ppid |-> proc[p].ppid] :
                       p \in {q \in Processes : proc[q].life \in Listed}}
    OBVIOUS
  <1>2. /\ UNCHANGED <<proc, active, table>>
        /\ \/ snap' = [Idle EXCEPT !.buffer = listed, !.todo = listed] /\ control' = "visit"
           \/ snap' = Idle /\ control' = "idle"
    BY <1>1 DEF Query, driverVars
  <1>3. CASE snap' = Idle /\ control' = "idle"
    BY <1>2, <1>3, IdleKeeps DEF Snapshotting, HasRow
  <1>4. CASE snap' = [Idle EXCEPT !.buffer = listed, !.todo = listed] /\ control' = "visit"
    <2>1. /\ snap'.buffer = listed /\ snap'.todo = listed /\ snap'.pass = 0
      BY <1>4 DEF Idle
    <2>2. IsFiniteSet(listed)
      <3>1. PICK L \in SUBSET Processes : L = {q \in Processes : proc[q].life \in Listed}
        OBVIOUS
      <3>2. IsFiniteSet(L)
        BY <3>1, FS_Subset, ProcessTrackAssumption
      <3>3. PICK f : f = [p \in L |-> [pid |-> proc[p].pid, ppid |-> proc[p].ppid]]
        OBVIOUS
      <3>4. f \in Surjection(L, listed)
        BY <1>1, <3>1, <3>3 DEF Surjection
      <3> QED BY <3>2, <3>4, FS_Surjection
    <2>3. active'
      BY <1>2 DEF Query, PInv, ControlInv
    <2>4. SnapPlace'
      <3>1. IsFiniteSet(snap'.buffer) /\ snap'.todo \subseteq snap'.buffer
        BY <2>1, <2>2
      <3>2. control' = "visit" /\ control' \in Snapshotting /\ control' \notin HasRow
        BY <1>4 DEF Snapshotting, HasRow
      <3> QED BY <2>3, <3>1, <3>2 DEF SnapPlace
    <2>5. \A p \in Processes : proc[p].life \in Listed =>
             \E r \in listed : r.pid = proc[p].pid
      <3> SUFFICES ASSUME NEW p \in Processes, proc[p].life \in Listed
                   PROVE  \E r \in listed : r.pid = proc[p].pid
        OBVIOUS
      <3>1. PICK r : r = [pid |-> proc[p].pid, ppid |-> proc[p].ppid]
        OBVIOUS
      <3>2. r \in listed /\ r.pid = proc[p].pid
        BY <1>1, <3>1
      <3> QED BY <3>2
    <2>6. \A p \in Processes : proc[p].life \in Listed => InBuffer(p)' /\ ~Seen(p)'
      BY <1>2, <1>4, <2>1, <2>5 DEF InBuffer, Seen, Pending
    <2>7. ASSUME PidsFresh PROVE ParentRan' /\ BufferClosed'
      <3>1. \A p \in Processes : proc[p].life \in Listed /\ proc[p].parent \in Processes =>
               proc[proc[p].parent].life \in Listed
        BY <2>7, ProcessTrackAssumption DEF PInv, FreshInv, Descent, Holds
      <3>2. ParentRan'
        BY <1>2, <2>7 DEF CompleteInv, ParentRan
      <3>3. BufferClosed'
        <4> SUFFICES ASSUME NEW p \in Processes, proc[p].life \in Listed,
                            proc[p].parent \in Processes
                     PROVE  InBuffer(proc[p].parent)'
          BY <1>2 DEF BufferClosed
        <4>1. PICK q \in Processes : q = proc[p].parent
          OBVIOUS
        <4>2. InBuffer(q)'
          BY <2>6, <3>1, <4>1
        <4> QED BY <1>2, <4>1, <4>2 DEF InBuffer
      <3> QED BY <3>2, <3>3
    <2>8. RootsDone'
      BY <1>2, <2>1, <2>6 DEF RootsDone, Alive
    <2>9. ChildrenDone' /\ PassInv'
      BY <1>4, <2>1 DEF ChildrenDone, PassInv
    <2> QED BY <1>2, <2>4, <2>7, <2>8, <2>9 DEF CompleteInv, PidsFresh
  <1> QED BY <1>2, <1>3, <1>4

\* The row that is done with is one that this pass may leave out.
MayLeave(p) ==
    \/ Tracked(proc[p].pid)
    \/ snap.pass = 0 /\ ~proc[p].image
    \/ /\ snap.pass > 0
       /\ proc[p].parent \in Processes => ~Tracked(proc[proc[p].parent].pid)

\* What a pass does with a row when it makes no entry.
LEMMA RowKeeps ==
    ASSUME PInv, CompleteInv, UNCHANGED <<proc, active, table>>,
           control \in Snapshotting, control' \in Snapshotting, SnapPlace',
           snap'.buffer = snap.buffer, snap'.pass = snap.pass,
           failures' = 0 => failures = 0, ~snap'.changed => ~snap.changed,
           PidsFresh /\ active /\ failures' = 0 =>
               /\ \A p \in Processes :
                     InBuffer(p) /\ proc[p].life \in Alive /\ Seen(p)' /\ ~Seen(p) =>
                         MayLeave(p) \/ (snap.pass > 0 /\ snap'.changed)
               /\ snap.pass > 0 =>
                     /\ snap'.changed => snap.changed \/ Progress >= snap.pass
                     /\ control' = "parent" => Progress >= snap.pass \/ ~Tracked(snap'.row.pid)
                     /\ control' \in {"image", "classify"} => Progress >= snap.pass
                           \/ (~Tracked(snap'.row.pid) /\ Tracked(snap'.row.ppid))
    PROVE  CompleteInv'
  <1>1. \A p \in Processes : InBuffer(p)' <=> InBuffer(p)
    BY DEF InBuffer
  <1>2. \A k : Tracked(k)' <=> Tracked(k)
    BY DEF Tracked
  <1>3. PidsFresh' => ParentRan' /\ BufferClosed'
    BY <1>1 DEF CompleteInv, PidsFresh, ParentRan, BufferClosed
  <1>4. snap.pass \in Nat
    BY ProcessTrackAssumption DEF PInv, SnapTypes, Snaps
  <1>5. ASSUME PidsFresh, active, failures' = 0
        PROVE  RootsDone' /\ ChildrenDone' /\ PassInv'
    <2>1. RootsDone /\ ChildrenDone /\ PassInv
      BY <1>5 DEF CompleteInv
    <2>2. \A p \in Processes :
             InBuffer(p) /\ proc[p].life \in Alive /\ Seen(p)' /\ ~Seen(p) =>
                 MayLeave(p) \/ (snap.pass > 0 /\ snap'.changed)
      BY <1>5
    <2>3. RootsDone'
      <3> SUFFICES ASSUME NEW p \in Processes, InBuffer(p), proc[p].life \in Alive,
                          proc[p].image, snap.pass > 0 \/ Seen(p)'
                   PROVE  Tracked(proc[p].pid)
        BY <1>1, <1>2 DEF RootsDone, Tracked
      <3>1. CASE snap.pass > 0 \/ Seen(p)
        BY <2>1, <3>1 DEF RootsDone
      <3>2. CASE ~(snap.pass > 0) /\ ~Seen(p)
        BY <2>2, <3>2 DEF MayLeave
      <3> QED BY <3>1, <3>2
    <2>4. ChildrenDone'
      <3>1. control # "idle" /\ control' # "idle"
        BY DEF Snapshotting, HasRow
      <3> SUFFICES ASSUME snap.pass > 0, ~snap'.changed, NEW p \in Processes, InBuffer(p),
                          proc[p].life \in Alive, Seen(p)', proc[p].parent \in Processes,
                          proc[proc[p].parent].life \in Alive,
                          Tracked(proc[proc[p].parent].pid)
                   PROVE  Tracked(proc[p].pid)
        BY <1>1, <3>1 DEF ChildrenDone, Tracked
      <3>2. CASE Seen(p)
        BY <2>1, <3>2 DEF ChildrenDone
      <3>3. CASE ~Seen(p)
        BY <2>2, <3>3, <1>4 DEF MayLeave
      <3> QED BY <3>2, <3>3
    <2>5. Progress' = Progress /\ Progress \in Nat
      BY ProgressSame DEF CompleteInv, SnapPlace
    <2>6. control' # "idle"
      BY DEF Snapshotting, HasRow
    <2>7. snap.pass > 0 =>
             /\ snap'.changed => snap.changed \/ Progress >= snap.pass
             /\ control' = "parent" => Progress >= snap.pass \/ ~Tracked(snap'.row.pid)
             /\ control' \in {"image", "classify"} => Progress >= snap.pass
                   \/ (~Tracked(snap'.row.pid) /\ Tracked(snap'.row.ppid))
      BY <1>5
    <2>8. PICK k, j : k = snap'.row.pid /\ j = snap'.row.ppid
      OBVIOUS
    <2>9. snap.pass > 0 =>
             /\ Progress' >= snap'.pass - 1
             /\ snap'.changed => Progress' >= snap'.pass
             /\ control' = "parent" => Progress' >= snap'.pass \/ ~Tracked(k)'
             /\ control' \in {"image", "classify"} =>
                   Progress' >= snap'.pass \/ (~Tracked(k)' /\ Tracked(j)')
      <3>1. snap.pass > 0 => Progress >= snap.pass - 1
                             /\ (snap.changed => Progress >= snap.pass)
        BY <2>1 DEF PassInv
      <3> QED BY <1>2, <2>5, <2>7, <2>8, <3>1
    <2>10. PassInv'
      BY <2>6, <2>8, <2>9 DEF PassInv
    <2> QED BY <2>3, <2>4, <2>10
  <1>6. PidsFresh' /\ active' => PidsFresh /\ active
    BY DEF PidsFresh
  <1> QED BY <1>3, <1>5, <1>6 DEF CompleteInv

\* A row that is tracked, or that is taken up.
LEMMA VisitComplete == ASSUME PInv, CompleteInv, Visit PROVE CompleteInv'
  <1>1. PICK r \in snap.todo :
           IF Tracked(r.pid)
           THEN snap' = [snap EXCEPT !.todo = @ \ {r}] /\ UNCHANGED control
           ELSE /\ snap' = [snap EXCEPT !.todo = @ \ {r}, !.row = r]
                /\ control' = IF snap.pass = 0 THEN "image" ELSE "parent"
    BY DEF Visit
  <1>2. UNCHANGED <<proc, active, table, failures>> /\ control = "visit" /\ active
    BY DEF Visit, driverVars, PInv, ControlInv
  <1>3. /\ snap'.buffer = snap.buffer /\ snap'.pass = snap.pass /\ snap'.changed = snap.changed
        /\ snap'.todo = snap.todo \ {r} /\ (~Tracked(r.pid) => snap'.row = r)
    BY <1>1 DEF PInv, SnapTypes, Snaps
  <1>4. /\ control' \in {"visit", "image", "parent"} /\ (Tracked(r.pid) <=> control' = "visit")
        /\ control' = "parent" => snap.pass > 0
    <2>1. snap.pass \in Nat
      BY ProcessTrackAssumption DEF PInv, SnapTypes, Snaps
    <2> QED BY <1>1, <1>2, <2>1
  <1>5. SnapPlace /\ snap.todo \subseteq snap.buffer /\ IsFiniteSet(snap.buffer)
    BY DEF CompleteInv, SnapPlace
  <1>6. SnapPlace'
    BY <1>2, <1>3, <1>4, <1>5 DEF SnapPlace, Snapshotting, HasRow
  <1>7. ASSUME NEW p \in Processes, Seen(p)', ~Seen(p) PROVE MayLeave(p)
    <2>1. proc' = proc
      BY <1>2
    <2>2. CASE Tracked(r.pid)
      <3>1. Pending = snap.todo /\ Pending' = snap.todo \ {r}
        BY <1>2, <1>3, <1>4, <2>2 DEF Pending, HasRow
      <3>2. r.pid = proc[p].pid
        BY <1>7, <2>1, <3>1 DEF Seen
      <3> QED BY <2>2, <3>2 DEF MayLeave
    <2>3. CASE ~Tracked(r.pid)
      <3>1. control' \in HasRow \ {"push"}
        BY <1>4, <2>3 DEF HasRow
      <3>2. Pending = snap.todo /\ Pending' = (snap.todo \ {r}) \union {r}
        BY <1>2, <1>3, <2>3, <3>1 DEF Pending, HasRow
      <3> QED BY <1>7, <2>1, <3>2 DEF Seen
    <2> QED BY <2>2, <2>3
  <1>8. snap.pass > 0 => control' # "image" /\ control' # "classify"
                         /\ (control' = "parent" => ~Tracked(snap'.row.pid))
    <2>1. snap.pass > 0 => snap.pass # 0
      BY ProcessTrackAssumption DEF PInv, SnapTypes, Snaps
    <2> QED BY <1>1, <1>2, <1>3, <1>4, <2>1
  <1>9. control \in Snapshotting /\ control' \in Snapshotting
    BY <1>2, <1>4 DEF Snapshotting, HasRow
  <1> QED BY <1>2, <1>3, <1>6, <1>7, <1>8, <1>9, RowKeeps

\* The process that a row is about.
LEMMA RowChild ==
    ASSUME PInv, PidsFresh, control \in HasRow, NEW p \in Processes, proc[p].life \in Listed,
           proc[p].pid = snap.row.pid
    PROVE  /\ proc[p].ppid = snap.row.ppid
           /\ proc[p].parent \in Processes => Holds(proc[p].parent, snap.row.ppid)
  <1>1. RowTrue(snap.row)
    BY DEF PInv, FreshInv, Rows
  <1>2. PICK q \in Processes : Holds(q, snap.row.pid) /\ proc[q].ppid = snap.row.ppid
    BY <1>1 DEF RowTrue
  <1>3. q = p
    BY <1>2 DEF Holds, PInv, PidInv
  <1>4. Descent(p)
    BY DEF PInv, FreshInv
  <1> QED BY <1>2, <1>3, <1>4, ProcessTrackAssumption DEF Descent

\* A child pass drops a row, or looks at its image.
LEMMA VisitParentComplete == ASSUME PInv, CompleteInv, VisitParent PROVE CompleteInv'
  <1>1. /\ UNCHANGED <<proc, active, table, failures>> /\ control = "parent" /\ active
        /\ \/ Tracked(snap.row.ppid) /\ control' = "image" /\ snap' = snap
           \/ ~Tracked(snap.row.ppid) /\ control' = "visit" /\ snap' = NextRow(snap)
    BY DEF VisitParent, driverVars, PInv, ControlInv, HasRow
  <1>2. SnapPlace /\ snap.pass > 0 /\ snap \in Snaps
    BY <1>1 DEF CompleteInv, SnapPlace, PInv, SnapTypes
  <1>3. /\ snap'.buffer = snap.buffer /\ snap'.pass = snap.pass /\ snap'.changed = snap.changed
        /\ snap'.todo = snap.todo /\ (control' = "image" => snap'.row = snap.row)
    <2>1. NextRow(snap).pass = snap.pass /\ NextRow(snap).changed = snap.changed
      BY <1>2 DEF NextRow, Snaps
    <2> QED BY <1>1, <1>2, <2>1, NextRowFields
  <1>4. SnapPlace'
    BY <1>1, <1>2, <1>3 DEF SnapPlace, Snapshotting, HasRow
  <1>5. control \in Snapshotting /\ control' \in Snapshotting
    BY <1>1 DEF Snapshotting, HasRow
  <1>6. ASSUME PidsFresh, NEW p \in Processes, proc[p].life \in Alive, Seen(p)', ~Seen(p)
        PROVE  MayLeave(p)
    <2>1. CASE control' = "image"
      <3>1. Pending' = Pending
        BY <1>1, <1>3, <2>1 DEF Pending, HasRow
      <3> QED BY <1>1, <1>6, <3>1 DEF Seen
    <2>2. CASE ~Tracked(snap.row.ppid) /\ control' = "visit"
      <3>1. Pending = snap.todo \union {snap.row} /\ Pending' = snap.todo
        BY <1>1, <1>3, <2>2 DEF Pending, HasRow
      <3>2. proc[p].pid = snap.row.pid
        BY <1>1, <1>6, <3>1 DEF Seen
      <3>3. proc[p].parent \in Processes => Holds(proc[p].parent, snap.row.ppid)
        BY <1>1, <1>6, <3>2, RowChild DEF HasRow, Alive
      <3> QED BY <1>2, <2>2, <3>3 DEF MayLeave, Holds
    <2> QED BY <1>1, <2>1, <2>2
  <1>7. ASSUME PidsFresh, active, failures' = 0
        PROVE  /\ control' # "parent" /\ control' # "classify"
               /\ control' = "image" => Progress >= snap.pass
                     \/ (~Tracked(snap'.row.pid) /\ Tracked(snap'.row.ppid))
    <2>1. PassInv
      BY <1>1, <1>7 DEF CompleteInv
    <2>2. Progress >= snap.pass \/ ~Tracked(snap.row.pid)
      BY <1>1, <1>2, <2>1 DEF PassInv
    <2> QED BY <1>1, <2>2
  <1> QED BY <1>1, <1>2, <1>3, <1>4, <1>5, <1>6, <1>7, RowKeeps

\* The root pass drops a row whose image is under no root.
LEMMA ImageComplete == ASSUME PInv, CompleteInv, Image PROVE CompleteInv'
  <1>1. /\ UNCHANGED <<proc, active, table>> /\ control = "image" /\ active
    BY DEF Image, driverVars, PInv, ControlInv, HasRow
  <1>2. PICK isRoot \in BOOLEAN :
           /\ \/ ImageFound(snap.row.pid, isRoot) /\ UNCHANGED failures
              \/ ~isRoot /\ ImageGone(snap.row.pid) /\ UNCHANGED failures
              \/ ~isRoot /\ Fail
           /\ IF isRoot \/ snap.pass > 0
              THEN control' = "classify" /\ snap' = [snap EXCEPT !.isRoot = isRoot]
              ELSE control' = "visit" /\ snap' = NextRow(snap)
    BY DEF Image
  <1>3. SnapPlace /\ snap \in Snaps /\ failures \in Nat /\ snap.pass \in Nat
    BY ProcessTrackAssumption DEF CompleteInv, PInv, SnapTypes, Snaps, OtherTypes
  <1>4. \/ control' = "classify" /\ (isRoot \/ snap.pass > 0)
        \/ control' = "visit" /\ ~isRoot /\ snap.pass = 0
    BY <1>2, <1>3
  <1>5. /\ snap'.buffer = snap.buffer /\ snap'.pass = snap.pass /\ snap'.changed = snap.changed
        /\ snap'.todo = snap.todo
        /\ control' = "classify" => snap'.row = snap.row /\ snap'.isRoot = isRoot
    <2>1. /\ NextRow(snap).pass = snap.pass /\ NextRow(snap).changed = snap.changed
          /\ NextRow(snap).buffer = snap.buffer /\ NextRow(snap).todo = snap.todo
      BY <1>3 DEF NextRow, Snaps
    <2>2. CASE control' = "classify" /\ snap' = [snap EXCEPT !.isRoot = isRoot]
      BY <1>3, <2>2 DEF Snaps
    <2>3. CASE control' = "visit" /\ snap' = NextRow(snap)
      BY <2>1, <2>3
    <2> QED BY <1>2, <2>2, <2>3
  <1>6. SnapPlace'
    <2>1. control' \in Snapshotting /\ control' \notin {"query", "parent"}
      BY <1>4 DEF Snapshotting, HasRow
    <2>2. control' \in HasRow => snap'.row \in snap'.buffer
      BY <1>1, <1>3, <1>4, <1>5 DEF SnapPlace, HasRow
    <2>3. control' = "classify" /\ snap'.pass = 0 => snap'.isRoot
      <3>1. control' = "classify" /\ snap.pass = 0 => isRoot
        BY <1>3, <1>4
      <3>2. control' = "classify" /\ isRoot => snap'.isRoot
        BY <1>5
      <3> QED BY <1>5, <3>1, <3>2
    <2> QED BY <1>1, <1>3, <1>5, <2>1, <2>2, <2>3 DEF SnapPlace
  <1>7. failures' = 0 => failures = 0 /\ UNCHANGED failures
    BY <1>2, <1>3 DEF Fail
  <1>8. control \in Snapshotting /\ control' \in Snapshotting
    BY <1>1, <1>4 DEF Snapshotting, HasRow
  <1>9. ASSUME failures' = 0, NEW p \in Processes, proc[p].life \in Alive, Seen(p)', ~Seen(p)
        PROVE  MayLeave(p)
    <2>1. CASE control' = "classify"
      <3>1. Pending' = Pending
        BY <1>1, <1>5, <2>1 DEF Pending, HasRow
      <3> QED BY <1>1, <1>9, <3>1 DEF Seen
    <2>2. CASE control' = "visit" /\ ~isRoot /\ snap.pass = 0
      <3>1. Pending = snap.todo \union {snap.row} /\ Pending' = snap.todo
        BY <1>1, <1>5, <2>2 DEF Pending, HasRow
      <3>2. Holds(p, snap.row.pid) /\ proc[p].life \in Listed /\ proc[p].life # "zombie"
        BY <1>1, <1>9, <3>1 DEF Seen, Holds, Alive
      <3>3. ImageFound(snap.row.pid, FALSE)
        <4>1. ~Fail
          BY <1>3, <1>7, <1>9 DEF Fail
        <4>2. ~ImageGone(snap.row.pid)
          BY <3>2 DEF ImageGone
        <4> QED BY <1>2, <2>2, <4>1, <4>2
      <3>4. PICK q \in Processes : Holds(q, snap.row.pid) /\ proc[q].image = FALSE
        BY <3>3 DEF ImageFound
      <3>5. q = p
        BY <3>2, <3>4 DEF PInv, PidInv, Holds
      <3> QED BY <2>2, <3>4, <3>5 DEF MayLeave
    <2> QED BY <1>4, <2>1, <2>2
  <1>10. ASSUME PidsFresh, failures' = 0, snap.pass > 0
         PROVE  Progress >= snap.pass \/ (~Tracked(snap'.row.pid) /\ Tracked(snap'.row.ppid))
    <2>1. PassInv
      BY <1>1, <1>7, <1>10 DEF CompleteInv
    <2>2. control' = "classify" /\ snap'.row = snap.row
      BY <1>4, <1>5, <1>10
    <2> QED BY <1>1, <1>10, <2>1, <2>2 DEF PassInv
  <1>11. control' # "parent"
    BY <1>4
  <1> QED BY <1>1, <1>5, <1>6, <1>7, <1>8, <1>9, <1>10, <1>11, RowKeeps

\* The push of a CREATED event.
LEMMA SnapPushComplete == ASSUME PInv, CompleteInv, SnapPush PROVE CompleteInv'
  <1>1. /\ UNCHANGED <<proc, active, table, failures>> /\ control = "push" /\ active
        /\ control' = "visit" /\ snap' = NextRow(snap)
    BY DEF SnapPush, driverVars, PInv, ControlInv, HasRow
  <1>2. SnapPlace /\ snap \in Snaps
    BY DEF CompleteInv, PInv, SnapTypes
  <1>3. /\ snap'.buffer = snap.buffer /\ snap'.pass = snap.pass /\ snap'.changed = snap.changed
        /\ snap'.todo = snap.todo
    BY <1>1, <1>2 DEF NextRow, Snaps
  <1>4. SnapPlace'
    BY <1>1, <1>2, <1>3 DEF SnapPlace, Snapshotting, HasRow
  <1>5. control \in Snapshotting /\ control' \in Snapshotting
    BY <1>1 DEF Snapshotting, HasRow
  <1>6. \A p \in Processes : Seen(p)' <=> Seen(p)
    <2>1. Pending' = Pending
      BY <1>1, <1>3 DEF Pending, HasRow
    <2> QED BY <1>1, <2>1 DEF Seen
  <1>7. control' \notin {"parent", "image", "classify"}
    BY <1>1
  <1> QED BY <1>1, <1>3, <1>4, <1>5, <1>6, <1>7, RowKeeps

\* knFcClassifyAndInsert for a row: what it refuses another thread has entered, or
\* its parent has gone, since the pass looked.
LEMMA SnapClassifyComplete == ASSUME PInv, CompleteInv, SnapClassify PROVE CompleteInv'
  <1>1. UNCHANGED <<proc, active>> /\ control = "classify" /\ active
    BY DEF SnapClassify, PInv, ControlInv, HasRow
  <1>2. SnapPlace /\ snap \in Snaps /\ failures \in Nat /\ snap.pass \in Nat /\ snap.row \in Row
    BY <1>1, ProcessTrackAssumption
       DEF CompleteInv, PInv, SnapTypes, Snaps, OtherTypes, ControlInv, HasRow
  <1>3. PICK s : s = [snap EXCEPT !.changed = TRUE]
    OBVIOUS
  <1>4. /\ s \in Snaps /\ s.todo = snap.todo /\ s.buffer = snap.buffer /\ s.row = snap.row
        /\ s.pass = snap.pass /\ s.changed
    BY <1>2, <1>3 DEF Snaps
  <1>5. \/ /\ Accepts(snap.row.pid, snap.row.ppid, snap.isRoot)
           /\ Insert(snap.row.pid, snap.row.ppid, snap.isRoot, TRUE)
           /\ control' = "push" /\ snap' = s /\ UNCHANGED failures
        \/ /\ Fail \/ (~Accepts(snap.row.pid, snap.row.ppid, snap.isRoot) /\ UNCHANGED failures)
           /\ control' = "visit" /\ snap' = NextRow(s) /\ UNCHANGED table
    BY <1>3 DEF SnapClassify
  <1>6. /\ snap'.buffer = snap.buffer /\ snap'.pass = snap.pass /\ snap'.changed
        /\ snap'.todo = snap.todo /\ (control' = "push" => snap'.row = snap.row)
        /\ control' \in {"push", "visit"}
    <2>1. /\ NextRow(s).pass = s.pass /\ NextRow(s).changed = s.changed
          /\ NextRow(s).buffer = s.buffer /\ NextRow(s).todo = s.todo
      BY <1>4 DEF NextRow, Snaps
    <2> QED BY <1>4, <1>5, <2>1
  <1>7. SnapPlace'
    BY <1>1, <1>2, <1>6 DEF SnapPlace, Snapshotting, HasRow
  <1>8. Pending = snap.todo \union {snap.row} /\ Pending' = snap.todo
    BY <1>1, <1>6 DEF Pending, HasRow
  <1>9. \A p \in Processes : Seen(p)' /\ ~Seen(p) => proc[p].pid = snap.row.pid
    BY <1>1, <1>8 DEF Seen
  <1>10. CASE /\ Fail \/ (~Accepts(snap.row.pid, snap.row.ppid, snap.isRoot) /\ UNCHANGED failures)
              /\ control' = "visit" /\ snap' = NextRow(s) /\ UNCHANGED table
    <2>1. failures' = 0 =>
             failures = 0 /\ ~Accepts(snap.row.pid, snap.row.ppid, snap.isRoot)
      BY <1>2, <1>10 DEF Fail
    <2>2. control \in Snapshotting /\ control' \in Snapshotting
      BY <1>1, <1>10 DEF Snapshotting, HasRow
    <2>3. ASSUME failures' = 0, NEW p \in Processes, Seen(p)', ~Seen(p), snap.pass = 0
          PROVE  MayLeave(p)
      <3>1. snap.isRoot
        BY <1>1, <1>2, <2>3 DEF SnapPlace
      <3>2. Tracked(snap.row.pid)
        BY <2>1, <2>3, <3>1 DEF Accepts
      <3> QED BY <1>9, <2>3, <3>2 DEF MayLeave
    <2>4. ASSUME PidsFresh, failures' = 0, snap.pass > 0
          PROVE  Progress >= snap.pass
      <3>1. PassInv
        BY <1>1, <2>1, <2>4 DEF CompleteInv
      <3>2. Tracked(snap.row.pid) \/ ~Tracked(snap.row.ppid)
        BY <2>1, <2>4 DEF Accepts
      <3> QED BY <1>1, <2>4, <3>1, <3>2 DEF PassInv
    <2>5. \A p \in Processes :
             failures' = 0 /\ Seen(p)' /\ ~Seen(p) =>
                 MayLeave(p) \/ (snap.pass > 0 /\ snap'.changed)
      BY <1>2, <1>6, <2>3
    <2>6. control' \notin {"parent", "image", "classify"}
      BY <1>10
    <2> QED BY <1>1, <1>6, <1>7, <1>10, <2>1, <2>2, <2>4, <2>5, <2>6, RowKeeps
  <1>11. CASE /\ Accepts(snap.row.pid, snap.row.ppid, snap.isRoot)
              /\ Insert(snap.row.pid, snap.row.ppid, snap.isRoot, TRUE)
              /\ control' = "push" /\ snap' = s /\ UNCHANGED failures
    <2>1. PICK k \in Pids, parent \in Pids \union {NoPid}, isRoot \in BOOLEAN,
               fromSnap \in BOOLEAN :
             /\ k = snap.row.pid /\ parent = snap.row.ppid /\ isRoot = snap.isRoot
             /\ fromSnap = TRUE
      <3>1. /\ snap.row.pid \in Pids /\ snap.row.ppid \in Pids \union {NoPid}
            /\ snap.isRoot \in BOOLEAN
        BY <1>2 DEF Row, Snaps
      <3> QED BY <3>1
    <2>2. Accepts(k, parent, isRoot) /\ Insert(k, parent, isRoot, fromSnap)
      BY <1>11, <2>1
    <2>3. /\ \A j : Tracked(j)' <=> Tracked(j) \/ j = k
          /\ ~Tracked(k)
      BY <2>2, InsertKeeps DEF Accepts
    <2>4. \A p \in Processes : (InBuffer(p)' <=> InBuffer(p))
                               /\ (Seen(p)' => Seen(p) \/ proc[p].pid = k)
      BY <1>1, <1>6, <1>9, <2>1 DEF InBuffer
    <2>5. PidsFresh' => ParentRan' /\ BufferClosed'
      BY <1>1, <2>4 DEF CompleteInv, PidsFresh, ParentRan, BufferClosed
    <2>6. ASSUME RootsDone PROVE RootsDone'
      <3> SUFFICES ASSUME NEW p \in Processes, InBuffer(p), proc[p].life \in Alive,
                          proc[p].image, snap.pass > 0 \/ Seen(p)'
                   PROVE  Tracked(proc[p].pid)'
        BY <1>1, <1>6, <2>4 DEF RootsDone
      <3>1. PICK j : j = proc[p].pid
        OBVIOUS
      <3>2. Tracked(j) \/ j = k
        BY <2>4, <2>6, <3>1 DEF RootsDone
      <3>3. Tracked(j)'
        BY <2>3, <3>2
      <3> QED BY <1>1, <3>1, <3>3
    <2>7. ChildrenDone'
      BY <1>6 DEF ChildrenDone
    <2>8. ASSUME PassInv PROVE PassInv'
      <3>1. \A r : (Past(r) <=> Past(r)')
        BY <1>1 DEF Past, Holds
      <3>2. PICK r \in snap.buffer : r = snap.row
        BY <1>1, <1>2 DEF SnapPlace, HasRow
      <3>3. ~Tracked(r.pid) /\ Tracked(r.pid)'
        <4>1. r.pid = k
          BY <2>1, <3>2
        <4>2. ~Tracked(k) /\ Tracked(k)'
          BY <2>3
        <4> QED BY <4>1, <4>2
      <3>4. \A t \in snap.buffer : Tracked(t.pid) => Tracked(t.pid)'
        BY <2>3
      <3>5. Progress \in Nat /\ Progress' \in Nat /\ Progress' >= Progress + 1
        BY <1>2, <1>6, <3>1, <3>3, <3>4, ProgressStep DEF SnapPlace
      <3>6. snap.pass > 0 => Progress >= snap.pass - 1
        BY <2>8 DEF PassInv
      <3>7. control' \notin {"idle", "parent", "image", "classify"}
        BY <1>11
      <3> QED BY <1>2, <1>6, <3>5, <3>6, <3>7 DEF PassInv
    <2>9. failures' = failures /\ (PidsFresh' => PidsFresh)
      BY <1>1, <1>11 DEF PidsFresh
    <2> QED BY <1>1, <1>7, <2>5, <2>6, <2>7, <2>8, <2>9 DEF CompleteInv
  <1> QED BY <1>5, <1>10, <1>11

\* A pass begins, or the snapshot ends.
LEMMA EndPassComplete == ASSUME PInv, CompleteInv, EndPass PROVE CompleteInv'
  <1>1. /\ UNCHANGED <<proc, active, table, failures>> /\ control = "visit" /\ active
        /\ snap.todo = {}
    BY DEF EndPass, driverVars, PInv, ControlInv
  <1>2. SnapPlace /\ snap \in Snaps /\ snap.pass \in Nat /\ MaxPasses \in Nat
    BY ProcessTrackAssumption DEF CompleteInv, PInv, SnapTypes, Snaps
  <1>3. Pending = {}
    BY <1>1 DEF Pending, HasRow
  <1>4. \A p \in Processes : Seen(p) /\ (InBuffer(p)' <=> InBuffer(p))
    <2>1. snap'.buffer = snap.buffer
      BY <1>2 DEF EndPass, Snaps, Idle
    <2> QED BY <1>1, <1>3, <2>1 DEF Seen, InBuffer
  <1>5. PidsFresh' => ParentRan' /\ BufferClosed'
    BY <1>1, <1>4 DEF CompleteInv, PidsFresh, ParentRan, BufferClosed
  <1>6. RootsDone => RootsDone'
    BY <1>1, <1>4 DEF RootsDone, Tracked
  <1>7. snap'.buffer = snap.buffer => Progress' = Progress /\ Progress \in Nat
    BY <1>1, <1>2, ProgressSame DEF SnapPlace
  <1>8. PidsFresh' => PidsFresh
    BY <1>1 DEF PidsFresh
  <1>9. CASE /\ LastPass /\ control' = "idle"
             /\ snap' = [Idle EXCEPT !.buffer = snap.buffer, !.changed = snap.changed]
    <2>1. /\ snap'.buffer = snap.buffer /\ snap'.changed = snap.changed
          /\ snap'.todo = {} /\ snap'.pass = 0
      BY <1>9 DEF Idle
    <2>2. SnapPlace'
      BY <1>1, <1>2, <1>9, <2>1 DEF SnapPlace, Snapshotting, HasRow
    <2>3. ChildrenDone => ChildrenDone'
      BY <1>1, <1>4, <1>9, <2>1 DEF ChildrenDone, LastPass, Tracked
    <2>4. PassInv => PassInv'
      BY <1>2, <1>7, <1>9, <2>1 DEF PassInv, LastPass
    <2> QED BY <1>1, <1>5, <1>6, <1>8, <2>2, <2>3, <2>4 DEF CompleteInv
  <1>10. CASE /\ ~LastPass /\ control' = "visit"
              /\ snap' = [snap EXCEPT !.pass = @ + 1, !.changed = FALSE, !.todo = snap.buffer]
    <2>1. /\ snap'.buffer = snap.buffer /\ snap'.changed = FALSE
          /\ snap'.todo = snap.buffer /\ snap'.pass = snap.pass + 1
      BY <1>2, <1>10 DEF Snaps
    <2>2. SnapPlace'
      BY <1>1, <1>2, <1>10, <2>1 DEF SnapPlace, Snapshotting, HasRow
    <2>3. \A p \in Processes : InBuffer(p)' => ~Seen(p)'
      BY <2>1 DEF InBuffer, Seen, Pending
    <2>4. ChildrenDone'
      BY <2>3 DEF ChildrenDone
    <2>5. ASSUME PassInv PROVE PassInv'
      <3>1. Progress >= snap.pass
        BY <1>2, <1>7, <1>10, <2>1, <2>5 DEF PassInv, LastPass
      <3> QED BY <1>2, <1>7, <1>10, <2>1, <3>1 DEF PassInv
    <2> QED BY <1>1, <1>5, <1>6, <1>8, <2>2, <2>4, <2>5 DEF CompleteInv
  <1> QED BY <1>1, <1>9, <1>10 DEF EndPass

\* No process, no snapshot.
LEMMA InitComplete == Init => CompleteInv
  <1> SUFFICES ASSUME Init PROVE CompleteInv
    OBVIOUS
  <1>1. /\ \A p \in Processes : proc[p].life = "unborn" /\ proc[p].parent = NoProcess
        /\ control = "idle" /\ ~active /\ snap = Idle
    BY DEF Init, Absent
  <1>2. snap.buffer = {} /\ snap.todo = {} /\ snap.pass = 0 /\ ~snap.changed
    BY <1>1 DEF Idle
  <1>3. SnapPlace
    <2>1. IsFiniteSet(snap.buffer)
      BY <1>2, FS_EmptySet
    <2>2. control \notin {"parent", "classify"} \union HasRow
      BY <1>1 DEF HasRow
    <2> QED BY <1>1, <1>2, <2>1, <2>2 DEF SnapPlace
  <1>4. ParentRan /\ BufferClosed
    BY <1>1, ProcessTrackAssumption DEF ParentRan, BufferClosed
  <1> QED BY <1>1, <1>3, <1>4 DEF CompleteInv

\* No step breaks it.
LEMMA StepComplete == PInv /\ CompleteInv /\ [Next]_vars => CompleteInv'
  <1> SUFFICES ASSUME PInv, CompleteInv, [Next]_vars PROVE CompleteInv'
    OBVIOUS
  <1>1. CASE \E p \in Processes : LifeStep(p) \/ CallbackStep(p)
    <2> PICK p \in Processes : LifeStep(p) \/ CallbackStep(p)
      BY <1>1
    <2>1. CASE PidsFresh'
      BY <2>1, EnvSteps, EnvKeeps
    <2>2. CASE ~PidsFresh'
      <3>1. UNCHANGED <<active, control, snap>>
        BY DEF LifeStep, CallbackStep, Create, Exit, Reap, NotifyCreate, Classify, PushCreated,
               NotifyExit, MarkExited, DeferExited, driverVars
      <3>2. SnapPlace'
        BY <3>1 DEF CompleteInv, SnapPlace
      <3> QED BY <2>2, <3>2 DEF CompleteInv
    <2> QED BY <2>1, <2>2
  <1>2. CASE Start \/ Register \/ Activate \/ Stop \/ Unregister \/ CallbacksDone \/ Purge
    BY <1>2, RequestsKeep
  <1>3. CASE Query
    BY <1>3, QueryComplete
  <1>4. CASE Visit
    BY <1>4, VisitComplete
  <1>5. CASE VisitParent
    BY <1>5, VisitParentComplete
  <1>6. CASE Image
    BY <1>6, ImageComplete
  <1>7. CASE SnapClassify
    BY <1>7, SnapClassifyComplete
  <1>8. CASE SnapPush
    BY <1>8, SnapPushComplete
  <1>9. CASE EndPass
    BY <1>9, EndPassComplete
  <1>10. CASE UNCHANGED vars
    <2>1. UNCHANGED <<proc, active, table, control, snap, failures>>
      BY <1>10 DEF vars, driverVars
    <2>2. SnapPlace' /\ (ParentRan => ParentRan') /\ (BufferClosed => BufferClosed')
          /\ (PidsFresh' => PidsFresh)
      BY <2>1 DEF CompleteInv, SnapPlace, ParentRan, BufferClosed, PidsFresh, InBuffer
    <2>3. RootsDone /\ ChildrenDone => RootsDone' /\ ChildrenDone'
      BY <2>1 DEF RootsDone, ChildrenDone, InBuffer, Seen, Pending, Tracked
    <2>4. ASSUME PassInv PROVE PassInv'
      <3>1. Progress' = Progress
        BY <2>1, ProgressSame DEF CompleteInv, SnapPlace
      <3> QED BY <2>1, <2>4, <3>1 DEF PassInv, Tracked
    <2> QED BY <2>1, <2>2, <2>3, <2>4 DEF CompleteInv
  <1> QED BY <1>1, <1>2, <1>3, <1>4, <1>5, <1>6, <1>7, <1>8, <1>9, <1>10 DEF Next, Serve

\* When knFcTrackStart has returned, no root that its query listed and that still
\* runs is left out, and no such child of a tracked process, whatever processes and
\* callbacks have done meanwhile, while no pid is given twice, nothing fails and the
\* passes are enough for what was listed.
THEOREM SnapshotMissesNone == Spec => []SnapshotComplete
  <1>1. PInv /\ CompleteInv => SnapshotComplete
    <2> SUFFICES ASSUME PInv, CompleteInv, control = "idle", active, failures = 0, PidsFresh,
                        PassesEnough, NEW p \in Processes, InBuffer(p),
                        proc[p].life = "running",
                        \/ proc[p].image
                        \/ /\ proc[p].parent # NoProcess
                           /\ InBuffer(proc[p].parent)
                           /\ proc[proc[p].parent].life = "running"
                           /\ Tracked(PidOf(proc[p].parent))
                 PROVE  Tracked(proc[p].pid)
      BY DEF SnapshotComplete
    <2>1. SnapPlace /\ RootsDone /\ ChildrenDone /\ PassInv
      BY DEF CompleteInv
    <2>2. Seen(p)
      <3>1. Pending = {}
        BY <2>1 DEF Pending, SnapPlace, Snapshotting, HasRow
      <3> QED BY <3>1 DEF Seen
    <2>3. ~snap.changed
      <3>1. IsFiniteSet(snap.buffer)
        BY <2>1 DEF SnapPlace
      <3>2. /\ Entered \in SUBSET snap.buffer /\ Gone \in SUBSET snap.buffer
            /\ Back \in SUBSET snap.buffer
        BY DEF Entered, Gone, Back
      <3>3. /\ Cardinality(snap.buffer) \in Nat
            /\ Cardinality(Entered) \in Nat /\ Cardinality(Entered) <= Cardinality(snap.buffer)
            /\ Cardinality(Gone) \in Nat /\ Cardinality(Gone) <= Cardinality(snap.buffer)
            /\ Cardinality(Back) \in Nat /\ Cardinality(Back) <= Cardinality(snap.buffer)
        BY <3>1, <3>2, PartCount
      <3>4. Progress <= 3 * Cardinality(snap.buffer)
        BY <3>3 DEF Progress
      <3>5. snap.changed => Progress >= MaxPasses /\ 3 * Cardinality(snap.buffer) < MaxPasses
        BY <2>1 DEF PassInv, PassesEnough
      <3>6. Progress \in Nat /\ MaxPasses \in Nat
        BY <3>3, ProcessTrackAssumption DEF Progress
      <3> QED BY <3>3, <3>4, <3>5, <3>6
    <2>4. CASE proc[p].image
      BY <2>1, <2>2, <2>4 DEF RootsDone, Alive, Listed
    <2>5. CASE /\ proc[p].parent # NoProcess /\ proc[proc[p].parent].life = "running"
               /\ Tracked(PidOf(proc[p].parent))
      <3>1. proc[p].parent \in Processes
        BY <2>5 DEF PInv, ProcTypes, ProcessRecord
      <3> QED BY <2>1, <2>2, <2>3, <2>5, <3>1 DEF ChildrenDone, Alive, Listed, PidOf
    <2> QED BY <2>4, <2>5
  <1> QED BY <1>1, InitComplete, StepComplete, InitPInv, StepPInv, PTL DEF Spec
=============================================================================
