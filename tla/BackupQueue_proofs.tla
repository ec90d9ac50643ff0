------------------------- MODULE BackupQueue_proofs -------------------------
(***************************************************************************)
(* Proofs about BackupQueue, for any number of callbacks and workers and   *)
(* any cap.  IInv is the inductive invariant: the type invariant with what *)
(* the place of each thread says of the rundown, the list and the items.   *)
(***************************************************************************)
EXTENDS BackupQueue, FiniteSetTheorems, TLAPS

\* The steps of the callbacks, of the workers and of the driver's own thread.
CallNext(c) == Enqueue(c) \/ SendSync(c) \/ CallStep(c)
DriverNext == InitStep \/ StartFiltering \/ Unload \/ UninitStep

USE DEF RemoveHead, DecrementDepth, ReleaseRundown, Exited, References, callFrame,
        driverFrame

InEnqueue ==
  {"enq_check", "enq_count", "enq_alloc", "enq_undo", "enq_insert",
   "enq_signal", "enq_release"}
InSync == {"sync_check", "sync_alloc", "sync_send", "sync_fallback", "sync_release"}

\* A callback holds one rundown reference per call it is in, and has the
\* status success from its insertion on.
CallInv ==
  \A c \in Cleanups :
    /\ call[c] \in InEnqueue => holds[c] = (IF c \in nested THEN 2 ELSE 1)
    /\ call[c] \in InSync => holds[c] = 1
    /\ call[c] \in {"idle", "done"} => holds[c] = 0
    /\ c \in nested => call[c] \in InEnqueue \cup {"sync_release", "done"}
    /\ status[c] = "success" =>
         call[c] \in {"enq_signal", "enq_release", "sync_release", "done"}
    /\ call[c] = "enq_signal" => status[c] = "success"

\* A worker holds a request exactly when it is about to dispatch or send it,
\* and whatever is listed or held has been accepted.
OwnerInv ==
  /\ OneOwner
  /\ \A c \in Cleanups : Listed(c) \/ Held(c) => status[c] = "success"
  /\ \A w \in Workers : item[w] # None <=> worker[w] \in {"dispatch", "send"}

\* Once the rundown is closed and has drained, no callback holds a reference;
\* a worker that runs is referenced or being created; and the driver goes on
\* to drain only without them.
DriverInv ==
  /\ rundown = "closed" <=> driver \in {"rundown", "signal", "join", "drain", "down"}
  /\ driver \in {"signal", "join", "drain", "down"} => \A c \in Cleanups : holds[c] = 0
  /\ creating # None <=> driver \in {"reference", "orphan_signal", "orphan_join"}
  /\ driver \in {"drain", "down"} => threads = {}
  /\ \A w \in Workers :
       worker[w] \notin {"absent", "exited"} => w \in threads \/ w = creating
  /\ driver = "down" => list = << >>

IInv == TypeOK /\ CallInv /\ OwnerInv /\ DriverInv /\ NoLostWakeup

------------------------------------------------------------------------------
(* The list *)

\* The head of a non-empty list is an element, and the tail is what is left.
LEMMA HeadTail ==
  ASSUME NEW S, NEW s \in Seq(S), s # << >>
  PROVE  /\ Head(s) \in S /\ Head(s) = s[1]
         /\ Tail(s) \in Seq(S) /\ Len(Tail(s)) = Len(s) - 1 /\ Len(s) \in Nat \ {0}
         /\ \A i \in 1..Len(s) - 1 : Tail(s)[i] = s[i + 1]
OBVIOUS

------------------------------------------------------------------------------
(* Types, and what the callbacks hold *)

LEMMA CallTyped ==
  ASSUME NEW c \in Cleanups, TypeOK, CallInv, CallNext(c)
  PROVE  TypeOK' /\ CallInv'
<1> USE DEF TypeOK, CallInv, CallPCs, InEnqueue, InSync, Counters, Goto, Return,
            Count, AcquireRundown, queueVars, callVars, workerVars, driverVars
<1>1. CASE Enqueue(c) BY <1>1 DEF Enqueue
<1>2. CASE SendSync(c) BY <1>2 DEF SendSync
<1>3. CASE EnqueueCheckStop(c)
  <2>1. CASE stop BY <1>3, <2>1, SMTT(60) DEF EnqueueCheckStop
  <2>2. CASE ~stop BY <1>3, <2>2, SMTT(60) DEF EnqueueCheckStop
  <2> QED BY <2>1, <2>2
<1>4. CASE EnqueueCount(c) BY <1>4 DEF EnqueueCount
<1>5. CASE EnqueueAllocate(c) BY <1>5 DEF EnqueueAllocate
<1>6. CASE EnqueueUndo(c) BY <1>6 DEF EnqueueUndo
<1>7. CASE EnqueueInsert(c) BY <1>7 DEF EnqueueInsert
<1>8. CASE EnqueueSignal(c) BY <1>8 DEF EnqueueSignal, SetEvent, WorkerPCs
<1>9. CASE EnqueueRelease(c) BY <1>9 DEF EnqueueRelease
<1>10. CASE SyncCheckStop(c) BY <1>10 DEF SyncCheckStop
<1>11. CASE SyncAllocate(c) BY <1>11 DEF SyncAllocate
<1>12. CASE SyncReply(c) BY <1>12, SMTT(60) DEF SyncReply
<1>13. CASE SyncFallback(c) BY <1>13 DEF SyncFallback
<1>14. CASE SyncRelease(c) BY <1>14 DEF SyncRelease
<1> QED BY <1>1, <1>2, <1>3, <1>4, <1>5, <1>6, <1>7, <1>8, <1>9, <1>10, <1>11,
           <1>12, <1>13, <1>14 DEF CallNext, CallStep


LEMMA WorkerTyped ==
  ASSUME NEW w \in Workers, TypeOK, CallInv, WorkerStep(w)
  PROVE  TypeOK' /\ CallInv'
<1> USE DEF TypeOK, CallInv, WorkerPCs, Counters, WorkerGoto, Count,
            queueVars, callVars, workerVars, driverVars
<1>1. CASE WorkerCheckStop(w) BY <1>1 DEF WorkerCheckStop
<1>2. CASE WorkerWait(w) BY <1>2 DEF WorkerWait
<1>3. CASE WorkerPop(w)
  <2>1. list # << >> => Head(list) \in Cleanups /\ Tail(list) \in Seq(Cleanups)
    BY HeadTail
  <2>2. list' \in Seq(Cleanups) BY <1>3, <2>1 DEF WorkerPop
  <2>3. item' \in [Workers -> Cleanups \cup {None}] BY <1>3, <2>1 DEF WorkerPop
  <2>4. worker' \in [Workers -> WorkerPCs]
    BY <1>3 DEF WorkerPop
  <2>5. depth' \in Int BY <1>3 DEF WorkerPop
  <2>6. UNCHANGED <<stop, rundown, holds, threads, stats, callVars, driverVars>>
    BY <1>3 DEF WorkerPop
  <2>7. event' \in BOOLEAN
    <3>1. CASE event' = FALSE BY <3>1
    <3>2. CASE UNCHANGED event BY <3>2
    <3> QED BY <1>3, <3>1, <3>2 DEF WorkerPop
  <2> QED BY <2>2, <2>3, <2>4, <2>5, <2>6, <2>7
<1>4. CASE WorkerDispatch(w) BY <1>4 DEF WorkerDispatch
<1>5. CASE WorkerSendOne(w) BY <1>5 DEF WorkerSendOne
<1> QED BY <1>1, <1>2, <1>3, <1>4, <1>5 DEF WorkerStep

LEMMA DriverTyped ==
  ASSUME TypeOK, CallInv, DriverInv, DriverNext
  PROVE  TypeOK' /\ CallInv'
<1> USE QueueAssumption DEF TypeOK, CallInv, WorkerPCs, DriverPCs, WorkerGoto, SetEvent,
            queueVars, callVars, workerVars, driverVars
<1>1. CASE CreateThread BY <1>1 DEF CreateThread
<1>2. CASE ReferenceThread BY <1>2 DEF ReferenceThread, DriverInv
<1>3. CASE OrphanSignal BY <1>3 DEF OrphanSignal
<1>4. CASE OrphanJoin BY <1>4 DEF OrphanJoin
<1>5. CASE StartFiltering BY <1>5 DEF StartFiltering
<1>6. CASE Unload BY <1>6 DEF Unload
<1>7. CASE UninitStop BY <1>7 DEF UninitStop
<1>8. CASE UninitCloseRundown BY <1>8 DEF UninitCloseRundown
<1>9. CASE UninitRundown BY <1>9 DEF UninitRundown
<1>10. CASE UninitSignal BY <1>10 DEF UninitSignal
<1>11. CASE UninitJoin BY <1>11 DEF UninitJoin
<1>12. CASE UninitDrain
  <2>1. list # << >> => Tail(list) \in Seq(Cleanups) BY HeadTail
  <2>2. list' \in Seq(Cleanups) BY <1>12, <2>1 DEF UninitDrain
  <2>3. depth' \in Int /\ driver' \in DriverPCs BY <1>12 DEF UninitDrain
  <2>4. UNCHANGED <<stop, rundown, holds, event, threads, stats, callVars,
                    workerVars, creating, filtering>>
    BY <1>12 DEF UninitDrain
  <2> QED BY <2>2, <2>3, <2>4
<1> QED BY <1>1, <1>2, <1>3, <1>4, <1>5, <1>6, <1>7, <1>8, <1>9, <1>10, <1>11,
           <1>12 DEF DriverNext, InitStep, UninitStep

------------------------------------------------------------------------------
(* Who holds a request *)

\* A step that leaves the list, the items and the accepted statuses alone, and
\* moves no worker into or out of dispatch and send, keeps the owners.
LEMMA OwnerFrame ==
  ASSUME OwnerInv, UNCHANGED <<list, item>>,
         \A c \in Cleanups : status[c] = "success" => status'[c] = "success",
         \A w \in Workers : worker[w] \in {"dispatch", "send"}
                               <=> worker'[w] \in {"dispatch", "send"}
  PROVE  OwnerInv'
BY DEF OwnerInv, OneOwner, Listed, Held

\* What an insertion does: the request is listed, it was owned by nobody, and
\* nothing else changes hands.
LEMMA InsertEffect ==
  ASSUME NEW c \in Cleanups, TypeOK, CallInv, OwnerInv, EnqueueInsert(c)
  PROVE  /\ ~Listed(c) /\ ~Held(c) /\ status[c] # "success"
         /\ \A d \in Cleanups : Listed(d)' <=> Listed(d) \/ d = c
         /\ \A d \in Cleanups : Held(d)' <=> Held(d)
         /\ UNCHANGED <<item, worker>>
         /\ status'[c] = "success" /\ \A d \in Cleanups \ {c} : status'[d] = status[d]
         /\ \A i, j \in 1..Len(list') : list'[i] = list'[j] => i = j
<1> USE DEF EnqueueInsert, Goto, Return, workerVars
<1>1. ~Listed(c) /\ ~Held(c) /\ status[c] # "success"
  BY DEF TypeOK, CallInv, OwnerInv
<1>2. /\ Len(list) \in Nat /\ Len(list') = Len(list) + 1
      /\ \A i \in 1..Len(list) : list'[i] = list[i]
      /\ list'[Len(list) + 1] = c
  BY DEF TypeOK
<1>3. \A d \in Cleanups : Listed(d)' <=> Listed(d) \/ d = c
  BY <1>2 DEF Listed
<1>4. UNCHANGED <<item, worker>>
  OBVIOUS
<1>5. status'[c] = "success" /\ \A d \in Cleanups \ {c} : status'[d] = status[d]
  BY DEF TypeOK
<1>6. \A i, j \in 1..Len(list') : list'[i] = list'[j] => i = j
  BY <1>1, <1>2 DEF OwnerInv, OneOwner, Listed
<1>7. \A d \in Cleanups : Held(d)' <=> Held(d)
  BY <1>4 DEF Held
<1> HIDE DEF EnqueueInsert, Goto, Return, workerVars
<1> QED BY <1>1, <1>3, <1>4, <1>5, <1>6, <1>7

LEMMA InsertOwner ==
  ASSUME NEW c \in Cleanups, TypeOK, CallInv, OwnerInv, EnqueueInsert(c)
  PROVE  OwnerInv'
<1>1. OneOwner'
  BY InsertEffect DEF OwnerInv, OneOwner
<1> QED BY <1>1, InsertEffect DEF OwnerInv

LEMMA CallOwner ==
  ASSUME NEW c \in Cleanups, TypeOK, CallInv, OwnerInv, CallNext(c)
  PROVE  OwnerInv'
<1>1. CASE EnqueueInsert(c) BY <1>1, InsertOwner
<1>2. CASE ~EnqueueInsert(c)
  <2>1. UNCHANGED <<list, item>>
    BY <1>2 DEF CallNext, CallStep, Enqueue, SendSync, EnqueueCheckStop,
         EnqueueCount, EnqueueAllocate, EnqueueUndo, EnqueueSignal,
         EnqueueRelease, SyncCheckStop, SyncAllocate, SyncReply, SyncFallback,
         SyncRelease, queueVars, workerVars
  <2>2. \A d \in Cleanups : status[d] = "success" => status'[d] = "success"
    BY <1>2 DEF TypeOK, CallInv, CallNext, CallStep, Enqueue, SendSync,
         EnqueueCheckStop, EnqueueCount, EnqueueAllocate, EnqueueUndo,
         EnqueueSignal, EnqueueRelease, SyncCheckStop, SyncAllocate, SyncReply,
         SyncFallback, SyncRelease, AcquireRundown, Return, callVars
  <2>3. \A w \in Workers : worker[w] \in {"dispatch", "send"}
                               <=> worker'[w] \in {"dispatch", "send"}
    BY <1>2 DEF TypeOK, CallNext, CallStep, Enqueue, SendSync, EnqueueCheckStop,
         EnqueueCount, EnqueueAllocate, EnqueueUndo, EnqueueSignal, SetEvent,
         EnqueueRelease, SyncCheckStop, SyncAllocate, SyncReply, SyncFallback,
         SyncRelease, queueVars, workerVars
  <2> QED BY <2>1, <2>2, <2>3, OwnerFrame
<1> QED BY <1>1, <1>2

\* Removing the head: nobody listed it twice, so it is listed no more.
LEMMA ListedTail ==
  ASSUME TypeOK, OneOwner, list # << >>, list' = Tail(list)
  PROVE  /\ Head(list) \in Cleanups /\ Listed(Head(list))
         /\ \A i, j \in 1..Len(list') : list'[i] = list'[j] => i = j
         /\ \A c \in Cleanups : Listed(c)' <=> Listed(c) /\ c # Head(list)
<1>1. /\ Len(list) \in Nat \ {0} /\ Len(list') = Len(list) - 1
      /\ Head(list) = list[1] /\ Head(list) \in Cleanups
      /\ \A i \in 1..Len(list') : list'[i] = list[i + 1]
  BY HeadTail DEF TypeOK
<1>2. Listed(Head(list))
  BY <1>1 DEF Listed
<1>3. \A i, j \in 1..Len(list') : list'[i] = list'[j] => i = j
  BY <1>1 DEF OneOwner
<1>4. ASSUME NEW c \in Cleanups PROVE Listed(c)' <=> Listed(c) /\ c # Head(list)
  <2>1. ASSUME Listed(c)' PROVE Listed(c) /\ c # Head(list)
    <3>1. PICK i \in 1..Len(list') : list'[i] = c BY <2>1 DEF Listed
    <3>2. i + 1 \in 1..Len(list) /\ i + 1 # 1 /\ list[i + 1] = c BY <1>1, <3>1
    <3> QED BY <1>1, <3>2 DEF Listed, OneOwner
  <2>2. ASSUME Listed(c), c # Head(list) PROVE Listed(c)'
    <3>1. PICK i \in 1..Len(list) : list[i] = c BY <2>2 DEF Listed
    <3>2. i # 1 BY <1>1, <2>2, <3>1
    <3>3. i - 1 \in 1..Len(list') /\ list'[i - 1] = c BY <1>1, <3>1, <3>2
    <3> QED BY <3>3 DEF Listed
  <2> QED BY <2>1, <2>2
<1> QED BY <1>1, <1>2, <1>3, <1>4

LEMMA WorkerOwner ==
  ASSUME NEW w \in Workers, TypeOK, OwnerInv, WorkerStep(w)
  PROVE  OwnerInv'
<1> USE DEF WorkerGoto, queueVars, callVars, workerVars, driverVars
<1>1. CASE WorkerCheckStop(w) BY <1>1, OwnerFrame DEF WorkerCheckStop, TypeOK
<1>2. CASE WorkerWait(w) BY <1>2, OwnerFrame DEF WorkerWait, TypeOK
<1>3. CASE WorkerPop(w) /\ list = << >>
  BY <1>3, OwnerFrame DEF WorkerPop, TypeOK
<1>4. CASE WorkerPop(w) /\ list # << >>
  <2> DEFINE h == Head(list)
  <2>1. /\ h \in Cleanups /\ Listed(h)
        /\ \A i, j \in 1..Len(list') : list'[i] = list'[j] => i = j
        /\ \A c \in Cleanups : Listed(c)' <=> Listed(c) /\ c # h
    BY <1>4, ListedTail DEF WorkerPop, OwnerInv
  <2>2. item[w] = None /\ item' = [item EXCEPT ![w] = h]
    BY <1>4 DEF WorkerPop, OwnerInv
  <2>3. \A c \in Cleanups : Held(c)' <=> Held(c) \/ c = h
    BY <2>1, <2>2, QueueAssumption DEF Held, TypeOK
  <2>4. \A v \in Workers : item'[v] # None <=> worker'[v] \in {"dispatch", "send"}
    BY <1>4, <2>1, <2>2, QueueAssumption DEF WorkerPop, OwnerInv, TypeOK
  <2>5. \A u, v \in Workers : item'[u] = item'[v] /\ item'[u] # None => u = v
    BY <2>1, <2>2 DEF OwnerInv, OneOwner, Held, TypeOK
  <2>6. UNCHANGED status
    BY <1>4 DEF WorkerPop
  <2>7. OneOwner'
    BY <2>1, <2>3, <2>5 DEF OwnerInv, OneOwner
  <2> HIDE DEF h
  <2> QED BY <2>1, <2>3, <2>4, <2>6, <2>7 DEF OwnerInv
<1>5. CASE WorkerDispatch(w) /\ ~stop
  BY <1>5, OwnerFrame DEF WorkerDispatch, TypeOK
<1>6. CASE (WorkerDispatch(w) /\ stop) \/ WorkerSendOne(w)
  <2>1. /\ item' = [item EXCEPT ![w] = None] /\ worker' = [worker EXCEPT ![w] = "pop"]
        /\ UNCHANGED <<list, status>>
    BY <1>6 DEF WorkerDispatch, WorkerSendOne
  <2> QED BY <2>1, QueueAssumption, ZenonT(60) DEF OwnerInv, OneOwner, Listed, Held, TypeOK
<1> QED BY <1>1, <1>2, <1>3, <1>4, <1>5, <1>6 DEF WorkerStep

LEMMA DriverOwner ==
  ASSUME TypeOK, OwnerInv, DriverNext
  PROVE  OwnerInv'
<1> USE DEF WorkerGoto, queueVars, callVars, workerVars, driverVars
<1>1. CASE UninitDrain /\ list # << >>
  <2>1. /\ Head(list) \in Cleanups /\ Listed(Head(list))
        /\ \A i, j \in 1..Len(list') : list'[i] = list'[j] => i = j
        /\ \A c \in Cleanups : Listed(c)' <=> Listed(c) /\ c # Head(list)
    BY <1>1, ListedTail DEF UninitDrain, OwnerInv
  <2>2. UNCHANGED <<item, worker, status>>
    BY <1>1 DEF UninitDrain
  <2> QED BY <2>1, <2>2 DEF OwnerInv, OneOwner, Held
<1>2. CASE UninitDrain /\ list = << >>
  BY <1>2, OwnerFrame DEF UninitDrain
<1>3. CASE CreateThread
  BY <1>3, OwnerFrame DEF CreateThread, TypeOK
<1>4. CASE OrphanSignal \/ UninitSignal
  BY <1>4, OwnerFrame DEF OrphanSignal, UninitSignal, SetEvent, TypeOK
<1>5. CASE \/ ReferenceThread \/ OrphanJoin \/ StartFiltering \/ Unload \/ UninitStop
           \/ UninitCloseRundown \/ UninitRundown \/ UninitJoin
  BY <1>5, OwnerFrame DEF ReferenceThread, OrphanJoin, StartFiltering, Unload,
       UninitStop, UninitCloseRundown, UninitRundown, UninitJoin
<1> QED BY <1>1, <1>2, <1>3, <1>4, <1>5 DEF DriverNext, InitStep, UninitStep

------------------------------------------------------------------------------
(* The shutdown *)

\* A callback touches neither the driver nor the workers, but for waking them,
\* and once the rundown is closed and drained it can only be refused.
LEMMA CallDriver ==
  ASSUME NEW c \in Cleanups, TypeOK, CallInv, DriverInv, CallNext(c)
  PROVE  DriverInv'
<1>1. UNCHANGED <<rundown, driver, creating, threads>>
  BY DEF CallNext, CallStep, Enqueue, SendSync, EnqueueCheckStop, EnqueueCount,
       EnqueueAllocate, EnqueueUndo, EnqueueInsert, EnqueueSignal,
       EnqueueRelease, SyncCheckStop, SyncAllocate, SyncReply, SyncFallback,
       SyncRelease, queueVars, driverVars
<1>2. \A w \in Workers : worker'[w] \in {"absent", "exited"}
                           <=> worker[w] \in {"absent", "exited"}
  BY DEF TypeOK, CallNext, CallStep, Enqueue, SendSync, EnqueueCheckStop,
       EnqueueCount, EnqueueAllocate, EnqueueUndo, EnqueueInsert, EnqueueSignal,
       SetEvent, EnqueueRelease, SyncCheckStop, SyncAllocate, SyncReply,
       SyncFallback, SyncRelease, queueVars, workerVars
<1>3. ASSUME driver \in {"signal", "join", "drain", "down"}
      PROVE  UNCHANGED <<holds, list>>
  <2>1. holds[c] = 0 /\ rundown = "closed"
    BY <1>3 DEF DriverInv
  <2>2. call[c] \in InEnqueue \cup InSync \cup {"idle", "done"}
    BY DEF TypeOK, CallPCs, InEnqueue, InSync
  <2>3. call[c] \in {"idle", "done"}
    BY <2>1, <2>2 DEF CallInv
  <2> QED BY <2>1, <2>3 DEF CallNext, CallStep, Enqueue, SendSync, AcquireRundown,
               EnqueueCheckStop, EnqueueCount, EnqueueAllocate, EnqueueUndo,
               EnqueueInsert, EnqueueSignal, EnqueueRelease, SyncCheckStop,
               SyncAllocate, SyncReply, SyncFallback, SyncRelease
<1> QED BY <1>1, <1>2, <1>3 DEF DriverInv

LEMMA WorkerDriver ==
  ASSUME NEW w \in Workers, TypeOK, DriverInv, WorkerStep(w)
  PROVE  DriverInv'
<1>1. UNCHANGED <<rundown, holds, driver, creating, threads>>
  BY DEF WorkerStep, WorkerCheckStop, WorkerWait, WorkerPop, WorkerDispatch,
       WorkerSendOne, queueVars, driverVars
<1>2. /\ worker[w] \notin {"absent", "exited"}
      /\ \A v \in Workers \ {w} : worker'[v] = worker[v]
  BY DEF TypeOK, WorkerStep, WorkerCheckStop, WorkerWait, WorkerPop,
       WorkerDispatch, WorkerSendOne, WorkerGoto
<1>3. list = << >> => list' = << >>
  BY DEF WorkerStep, WorkerCheckStop, WorkerWait, WorkerPop, WorkerDispatch,
       WorkerSendOne, queueVars
<1> QED BY <1>1, <1>2, <1>3 DEF DriverInv

LEMMA DriverDriver ==
  ASSUME TypeOK, DriverInv, DriverNext
  PROVE  DriverInv'
<1> USE QueueAssumption DEF TypeOK, DriverInv, SetEvent, WorkerGoto, queueVars,
            callVars, workerVars, driverVars
<1>1. CASE CreateThread BY <1>1 DEF CreateThread
<1>2. CASE ReferenceThread BY <1>2 DEF ReferenceThread
<1>3. CASE OrphanSignal BY <1>3 DEF OrphanSignal
<1>4. CASE OrphanJoin BY <1>4 DEF OrphanJoin
<1>5. CASE StartFiltering BY <1>5 DEF StartFiltering
<1>6. CASE Unload BY <1>6 DEF Unload
<1>7. CASE UninitStop BY <1>7 DEF UninitStop
<1>8. CASE UninitCloseRundown BY <1>8 DEF UninitCloseRundown
<1>9. CASE UninitRundown BY <1>9 DEF UninitRundown
<1>10. CASE UninitSignal BY <1>10 DEF UninitSignal
<1>11. CASE UninitJoin BY <1>11 DEF UninitJoin
<1>12. CASE UninitDrain BY <1>12 DEF UninitDrain
<1> HIDE DEF TypeOK, DriverInv
<1> QED BY <1>1, <1>2, <1>3, <1>4, <1>5, <1>6, <1>7, <1>8, <1>9, <1>10, <1>11,
           <1>12 DEF DriverNext, InitStep, UninitStep

------------------------------------------------------------------------------
(* The event *)

\* Only an insertion can make the list non-empty, and it leaves its callback
\* about to set the event.
LEMMA CallWakeup ==
  ASSUME NEW c \in Cleanups, TypeOK, NoLostWakeup, CallNext(c)
  PROVE  NoLostWakeup'
<1>1. CASE EnqueueInsert(c)
  BY <1>1 DEF EnqueueInsert, Goto, NoLostWakeup, TypeOK, workerVars
<1>2. CASE EnqueueSignal(c)
  BY <1>2 DEF EnqueueSignal, SetEvent, NoLostWakeup, TypeOK
<1>3. CASE ~EnqueueInsert(c) /\ ~EnqueueSignal(c)
  <2>1. /\ UNCHANGED <<list, event, worker>>
        /\ call[c] # "enq_signal"
        /\ \A d \in Cleanups \ {c} : call'[d] = call[d]
    BY <1>3 DEF TypeOK, CallNext, CallStep, Enqueue, SendSync, AcquireRundown,
         EnqueueCheckStop, EnqueueCount, EnqueueAllocate, EnqueueUndo,
         EnqueueRelease, SyncCheckStop, SyncAllocate, SyncReply, SyncFallback,
         SyncRelease, Goto, queueVars, workerVars
  <2> QED BY <2>1 DEF NoLostWakeup
<1> QED BY <1>1, <1>2, <1>3

\* A worker clears the event only when it has seen the list empty, in one
\* section of the lock.
LEMMA WorkerWakeup ==
  ASSUME NEW w \in Workers, TypeOK, NoLostWakeup, WorkerStep(w)
  PROVE  NoLostWakeup'
<1> USE DEF NoLostWakeup, WorkerGoto, TypeOK, callVars, queueVars
<1>1. CASE WorkerCheckStop(w) BY <1>1 DEF WorkerCheckStop
<1>2. CASE WorkerWait(w) BY <1>2 DEF WorkerWait
<1>3. CASE WorkerPop(w) BY <1>3 DEF WorkerPop
<1>4. CASE WorkerDispatch(w) BY <1>4 DEF WorkerDispatch
<1>5. CASE WorkerSendOne(w) BY <1>5 DEF WorkerSendOne
<1> QED BY <1>1, <1>2, <1>3, <1>4, <1>5 DEF WorkerStep

LEMMA DriverWakeup ==
  ASSUME TypeOK, NoLostWakeup, DriverNext
  PROVE  NoLostWakeup'
<1> USE DEF NoLostWakeup, TypeOK, queueVars, callVars, workerVars
<1>1. CASE CreateThread BY <1>1 DEF CreateThread, WorkerGoto
<1>2. CASE OrphanSignal \/ UninitSignal
  BY <1>2 DEF OrphanSignal, UninitSignal, SetEvent
<1>3. CASE \/ ReferenceThread \/ OrphanJoin \/ StartFiltering \/ Unload \/ UninitStop
           \/ UninitCloseRundown \/ UninitRundown \/ UninitJoin
  BY <1>3 DEF ReferenceThread, OrphanJoin, StartFiltering, Unload, UninitStop,
       UninitCloseRundown, UninitRundown, UninitJoin
<1>4. CASE UninitDrain BY <1>4 DEF UninitDrain
<1> QED BY <1>1, <1>2, <1>3, <1>4 DEF DriverNext, InitStep, UninitStep

------------------------------------------------------------------------------
(* The theorems *)

LEMMA InitIInv == Init => IInv
<1> SUFFICES ASSUME Init PROVE IInv
  OBVIOUS
<1>1. TypeOK
  <2>1. /\ list \in Seq(Cleanups) /\ depth \in Int /\ threads \subseteq Workers
        /\ rundown \in {"active", "closed"}
        /\ nested \subseteq Cleanups /\ creating \in Workers \cup {None}
        /\ driver \in DriverPCs
    BY DEF Init, DriverPCs
  <2>2. stop \in BOOLEAN /\ event \in BOOLEAN /\ filtering \in BOOLEAN
    BY DEF Init
  <2>3. /\ holds \in [Cleanups -> 0..2] /\ stats \in [Counters -> Nat]
        /\ call \in [Cleanups -> CallPCs] /\ worker \in [Workers -> WorkerPCs]
        /\ item \in [Workers -> Cleanups \cup {None}]
        /\ status \in [Cleanups -> {"pending", "success", "not_ready", "no_resources"}]
    BY DEF Init, CallPCs, WorkerPCs
  <2> QED BY <2>1, <2>2, <2>3 DEF TypeOK
<1>2. CallInv
  BY DEF Init, CallInv, InEnqueue, InSync
<1>3. OwnerInv
  BY QueueAssumption DEF Init, OwnerInv, OneOwner, Listed, Held
<1>4. DriverInv /\ NoLostWakeup
  BY DEF Init, DriverInv, NoLostWakeup
<1> QED BY <1>1, <1>2, <1>3, <1>4 DEF IInv

LEMMA NextIInv == IInv /\ [Next]_vars => IInv'
<1> SUFFICES ASSUME IInv, [Next]_vars PROVE IInv'
  OBVIOUS
<1>1. ASSUME NEW c \in Cleanups, CallNext(c) PROVE IInv'
  BY <1>1, CallTyped, CallOwner, CallDriver, CallWakeup DEF IInv
<1>2. ASSUME NEW w \in Workers, WorkerStep(w) PROVE IInv'
  BY <1>2, WorkerTyped, WorkerOwner, WorkerDriver, WorkerWakeup DEF IInv
<1>3. CASE DriverNext
  BY <1>3, DriverTyped, DriverOwner, DriverDriver, DriverWakeup DEF IInv
<1>4. CASE UNCHANGED vars
  BY <1>4 DEF IInv, TypeOK, CallInv, OwnerInv, OneOwner, Listed, Held, DriverInv,
       NoLostWakeup, vars, queueVars, callVars, workerVars, driverVars
<1> QED BY <1>1, <1>2, <1>3, <1>4 DEF Next, CallNext, DriverNext

\* The inductive invariant holds in every reachable state.
THEOREM Invariance == Spec => []IInv
BY InitIInv, NextIInv, PTL DEF Spec

\* The types of BackupQueue; in particular a callback never holds more than two
\* rundown references, nor gives back one it does not hold.
THEOREM TypeCorrect == Spec => []TypeOK
<1>1. IInv => TypeOK BY DEF IInv
<1> QED BY <1>1, Invariance, PTL

\* No request is left in the list while every worker sleeps, for any number of
\* producers and workers: the event that is cleared under the lock and set
\* outside it loses no wakeup.
THEOREM WakeupsKept == Spec => []NoLostWakeup
<1>1. IInv => NoLostWakeup BY DEF IInv
<1> QED BY <1>1, Invariance, PTL

\* A request is owned once: by the list or by one worker.
THEOREM Owned == Spec => []OneOwner
<1>1. IInv => OneOwner BY DEF IInv, OwnerInv
<1> QED BY <1>1, Invariance, PTL

------------------------------------------------------------------------------
(* The depth *)

\* Depth follows the list and the callbacks that are between their increment
\* and their insertion or undoing.
LEMMA CallDepth ==
  ASSUME NEW c \in Cleanups, TypeOK, DepthAccounting, CallNext(c)
  PROVE  DepthAccounting'
<1>1. /\ IsFiniteSet(Admitted) /\ IsFiniteSet(Undoing)
      /\ Cardinality(Admitted) \in Nat /\ Cardinality(Undoing) \in Nat
      /\ Len(list) \in Nat /\ depth \in Int /\ MaxDepth \in Nat
  BY QueueAssumption, FS_Subset, FS_CardinalityType DEF Admitted, Undoing, TypeOK
<1>2. \A d \in Cleanups \ {c} : call'[d] = call[d]
  BY DEF TypeOK, CallNext, CallStep, Enqueue, SendSync, AcquireRundown, Goto,
       EnqueueCheckStop, EnqueueCount, EnqueueAllocate, EnqueueUndo,
       EnqueueInsert, EnqueueSignal, EnqueueRelease, SyncCheckStop,
       SyncAllocate, SyncReply, SyncFallback, SyncRelease
<1>3. CASE EnqueueCount(c) /\ depth' > MaxDepth
  <2>1. Admitted' = Admitted /\ Undoing' = Undoing \cup {c} /\ c \notin Undoing
    BY <1>2, <1>3 DEF EnqueueCount, Goto, TypeOK, Admitted, Undoing
  <2>2. Cardinality(Undoing') = Cardinality(Undoing) + 1
    BY <1>1, <2>1, FS_AddElement
  <2>3. depth' = depth + 1 /\ list' = list
    BY <1>3 DEF EnqueueCount
  <2> QED BY <1>1, <2>1, <2>2, <2>3 DEF DepthAccounting
<1>4. CASE EnqueueCount(c) /\ ~(depth' > MaxDepth)
  <2>1. Undoing' = Undoing /\ Admitted' = Admitted \cup {c} /\ c \notin Admitted
    BY <1>2, <1>4 DEF EnqueueCount, Goto, TypeOK, Admitted, Undoing
  <2>2. Cardinality(Admitted') = Cardinality(Admitted) + 1
    BY <1>1, <2>1, FS_AddElement
  <2>3. depth' = depth + 1 /\ list' = list /\ ~(depth' > MaxDepth)
    BY <1>4 DEF EnqueueCount
  <2> QED BY <1>1, <2>1, <2>2, <2>3 DEF DepthAccounting
<1>5. CASE EnqueueAllocate(c)
  <2>1. \/ UNCHANGED <<Admitted, Undoing>>
        \/ /\ Admitted' = Admitted \ {c} /\ c \in Admitted
           /\ Undoing' = Undoing \cup {c} /\ c \notin Undoing
    BY <1>2, <1>5 DEF EnqueueAllocate, Goto, TypeOK, Admitted, Undoing
  <2>2. UNCHANGED <<depth, list>>
    BY <1>5 DEF EnqueueAllocate, queueVars
  <2>3. CASE UNCHANGED <<Admitted, Undoing>>
    BY <2>2, <2>3 DEF DepthAccounting
  <2>4. CASE /\ Admitted' = Admitted \ {c} /\ c \in Admitted
             /\ Undoing' = Undoing \cup {c} /\ c \notin Undoing
    <3>1. Cardinality(Admitted') = Cardinality(Admitted) - 1
      BY <1>1, <2>4, FS_RemoveElement
    <3>2. Cardinality(Undoing') = Cardinality(Undoing) + 1
      BY <1>1, <2>4, FS_AddElement
    <3> QED BY <1>1, <2>2, <3>1, <3>2 DEF DepthAccounting
  <2> QED BY <2>1, <2>3, <2>4
<1>6. CASE EnqueueUndo(c)
  <2>1. Admitted' = Admitted /\ Undoing' = Undoing \ {c} /\ c \in Undoing
    BY <1>2, <1>6 DEF EnqueueUndo, Goto, TypeOK, Admitted, Undoing
  <2>2. Cardinality(Undoing') = Cardinality(Undoing) - 1
    BY <1>1, <2>1, FS_RemoveElement
  <2>3. depth' = depth - 1 /\ list' = list
    BY <1>6 DEF EnqueueUndo
  <2> QED BY <1>1, <2>1, <2>2, <2>3 DEF DepthAccounting
<1>7. CASE EnqueueInsert(c)
  <2>1. Undoing' = Undoing /\ Admitted' = Admitted \ {c} /\ c \in Admitted
    BY <1>2, <1>7 DEF EnqueueInsert, Goto, TypeOK, Admitted, Undoing
  <2>2. Cardinality(Admitted') = Cardinality(Admitted) - 1
    BY <1>1, <2>1, FS_RemoveElement
  <2>3. depth' = depth /\ Len(list') = Len(list) + 1
    BY <1>7 DEF EnqueueInsert, TypeOK
  <2> QED BY <1>1, <2>1, <2>2, <2>3 DEF DepthAccounting
<1>8. CASE ~(EnqueueCount(c) \/ EnqueueAllocate(c) \/ EnqueueUndo(c) \/ EnqueueInsert(c))
  <2>1. UNCHANGED <<list, depth>>
    BY <1>8 DEF CallNext, CallStep, Enqueue, SendSync, EnqueueCheckStop,
         EnqueueSignal, EnqueueRelease, SyncCheckStop, SyncAllocate, SyncReply,
         SyncFallback, SyncRelease, queueVars
  <2>2. /\ call[c] \notin {"enq_alloc", "enq_insert", "enq_undo"}
        /\ call'[c] \notin {"enq_alloc", "enq_insert", "enq_undo"}
    BY <1>8 DEF TypeOK, CallNext, CallStep, Enqueue, SendSync, AcquireRundown, Goto,
         EnqueueCheckStop, EnqueueSignal, EnqueueRelease, SyncCheckStop,
         SyncAllocate, SyncReply, SyncFallback, SyncRelease
  <2>3. UNCHANGED <<Admitted, Undoing>>
    BY <1>2, <2>2 DEF Admitted, Undoing
  <2> QED BY <2>1, <2>3 DEF DepthAccounting
<1> QED BY <1>3, <1>4, <1>5, <1>6, <1>7, <1>8

\* Every removal, by a worker or by the drain, decrements Depth with the list.
LEMMA RemovalDepth ==
  ASSUME TypeOK, DepthAccounting, UNCHANGED call,
         \/ UNCHANGED <<list, depth>>
         \/ list # << >> /\ list' = Tail(list) /\ depth' = depth - 1
  PROVE  DepthAccounting'
<1>1. UNCHANGED <<Admitted, Undoing>>
  BY DEF Admitted, Undoing
<1>2. /\ Cardinality(Admitted) \in Nat /\ Cardinality(Undoing) \in Nat
      /\ Len(list) \in Nat /\ depth \in Int /\ MaxDepth \in Nat
  BY QueueAssumption, FS_Subset, FS_CardinalityType DEF Admitted, Undoing, TypeOK
<1>3. CASE UNCHANGED <<list, depth>> BY <1>1, <1>3 DEF DepthAccounting
<1>4. CASE list # << >> /\ list' = Tail(list) /\ depth' = depth - 1
  <2>1. Len(list') = Len(list) - 1 BY <1>4, HeadTail DEF TypeOK
  <2>2. depth' = depth - 1 BY <1>4
  <2>3. Cardinality(Admitted)' = Cardinality(Admitted)
        /\ Cardinality(Undoing)' = Cardinality(Undoing)
    BY <1>1
  <2> QED BY <1>2, <2>1, <2>2, <2>3 DEF DepthAccounting
<1> QED BY <1>3, <1>4

LEMMA NextDepth == TypeOK /\ DepthAccounting /\ [Next]_vars => DepthAccounting'
<1> SUFFICES ASSUME TypeOK, DepthAccounting, [Next]_vars PROVE DepthAccounting'
  OBVIOUS
<1>1. ASSUME NEW c \in Cleanups, CallNext(c) PROVE DepthAccounting'
  BY <1>1, CallDepth
<1>2. ASSUME NEW w \in Workers, WorkerStep(w) PROVE DepthAccounting'
  BY <1>2, RemovalDepth DEF WorkerStep, WorkerCheckStop, WorkerWait, WorkerPop,
       WorkerDispatch, WorkerSendOne, queueVars, callVars
<1>3. CASE DriverNext
  BY <1>3, RemovalDepth DEF DriverNext, InitStep, UninitStep, CreateThread,
       ReferenceThread, OrphanSignal, OrphanJoin, StartFiltering, Unload,
       UninitStop, UninitCloseRundown, UninitRundown, UninitSignal, UninitJoin,
       UninitDrain, queueVars, callVars
<1>4. CASE UNCHANGED vars
  BY <1>4, RemovalDepth DEF vars, queueVars, callVars
<1> QED BY <1>1, <1>2, <1>3, <1>4 DEF Next, CallNext, DriverNext

\* Depth is what GetStats may report as the queue's depth, and the cap holds,
\* however many producers race for the last place.
THEOREM DepthCorrect == Spec => []DepthAccounting
<1>1. Init => DepthAccounting
  <2> SUFFICES ASSUME Init PROVE DepthAccounting
    OBVIOUS
  <2>1. Admitted = {} /\ Undoing = {} BY DEF Init, Admitted, Undoing
  <2> QED BY <2>1, FS_EmptySet, QueueAssumption DEF Init, DepthAccounting
<1> QED BY <1>1, TypeCorrect, NextDepth, PTL DEF Spec

\* When Uninitialize has returned nothing is left behind: no thread inside, no
\* request in the list.
THEOREM DownIsQuiescent == Spec => []QuiescentWhenDown
<1>1. IInv /\ DepthAccounting => QuiescentWhenDown
  <2> SUFFICES ASSUME IInv, DepthAccounting, driver = "down"
               PROVE  /\ \A w \in Workers : worker[w] \in {"absent", "exited"}
                      /\ \A c \in Cleanups : call[c] \in {"idle", "done"}
                      /\ list = << >> /\ depth = 0
    BY DEF QuiescentWhenDown
  <2>1. \A w \in Workers : worker[w] \in {"absent", "exited"}
    BY QueueAssumption DEF IInv, DriverInv
  <2>2. \A c \in Cleanups : call[c] \in {"idle", "done"}
    <3> SUFFICES ASSUME NEW c \in Cleanups PROVE call[c] \in {"idle", "done"}
      OBVIOUS
    <3>1. holds[c] = 0 BY DEF IInv, DriverInv
    <3>2. call[c] \in InEnqueue \cup InSync \cup {"idle", "done"}
      BY DEF IInv, TypeOK, CallPCs, InEnqueue, InSync
    <3> QED BY <3>1, <3>2 DEF IInv, CallInv
  <2>3. list = << >> BY DEF IInv, DriverInv
  <2>4. Admitted = {} /\ Undoing = {} BY <2>2 DEF Admitted, Undoing
  <2>5. depth = 0 BY <2>3, <2>4, FS_EmptySet DEF DepthAccounting
  <2> QED BY <2>1, <2>2, <2>3, <2>5
<1> QED BY <1>1, Invariance, DepthCorrect, PTL

------------------------------------------------------------------------------
(* The statistics *)

\* The requests that Enqueue accepted, those the queue still has, and how many the
\* counters say a worker is done with.
Accepted == {c \in Cleanups : status[c] = "success"}
Inside == {c \in Cleanups : Listed(c) \/ Held(c)}
Settled == stats["sent"] + stats["sendFailed"] + stats["excluded"]

Accounted ==
  /\ Cardinality(Inside) + Settled <= Cardinality(Accepted)
  /\ ~stop => Cardinality(Inside) + Settled = Cardinality(Accepted)

\* A request is dropped without being counted only after Stop, by a worker or by
\* the drain, which the driver reaches after it has set Stop.
StopInv == driver \in {"close", "rundown", "signal", "join", "drain", "down"} => stop

LEMMA FiniteCount ==
  ASSUME NEW S \in SUBSET Cleanups
  PROVE  IsFiniteSet(S) /\ Cardinality(S) \in Nat
BY QueueAssumption, FS_Subset, FS_CardinalityType

LEMMA CountTypes ==
  ASSUME TypeOK
  PROVE  /\ stats["sent"] \in Nat /\ stats["sendFailed"] \in Nat
         /\ stats["excluded"] \in Nat /\ Settled \in Nat
         /\ IsFiniteSet(Inside) /\ Cardinality(Inside) \in Nat
         /\ IsFiniteSet(Accepted) /\ Cardinality(Accepted) \in Nat
<1>1. stats["sent"] \in Nat /\ stats["sendFailed"] \in Nat /\ stats["excluded"] \in Nat
  BY DEF TypeOK, Counters
<1>2. Inside \in SUBSET Cleanups /\ Accepted \in SUBSET Cleanups
  BY DEF Inside, Accepted
<1> QED BY <1>1, <1>2, FiniteCount DEF Settled

LEMMA AccountedIs == TypeOK => (StatsAccount <=> Accounted)
<1> SUFFICES ASSUME TypeOK PROVE StatsAccount <=> Accounted
  OBVIOUS
<1>1. Cardinality(Inside) + Settled
        = Cardinality(Inside) + stats["sent"] + stats["sendFailed"] + stats["excluded"]
  BY CountTypes DEF Settled
<1> QED BY <1>1 DEF StatsAccount, Accounted, Inside, Accepted

\* Nothing is accepted, lost or counted.
LEMMA AccountFrame ==
  ASSUME Accounted, stop => stop', Accepted' = Accepted, Inside' = Inside,
         Settled' = Settled
  PROVE  Accounted'
BY DEF Accounted

\* A request that is inside leaves; it is counted, or Stop was set.
LEMMA AccountLeave ==
  ASSUME TypeOK, Accounted, stop => stop', Accepted' = Accepted,
         NEW h \in Inside, Inside' = Inside \ {h},
         Settled' = Settled + 1 \/ (stop /\ Settled' = Settled)
  PROVE  Accounted'
<1>1. Cardinality(Inside') = Cardinality(Inside) - 1
  BY CountTypes, FS_RemoveElement
<1> QED BY <1>1, CountTypes DEF Accounted

LEMMA CallAccount ==
  ASSUME NEW c \in Cleanups, TypeOK, CallInv, OwnerInv, Accounted, CallNext(c)
  PROVE  Accounted'
<1>1. UNCHANGED stop
  BY DEF CallNext, CallStep, Enqueue, SendSync, EnqueueCheckStop, EnqueueCount,
       EnqueueAllocate, EnqueueUndo, EnqueueInsert, EnqueueSignal, EnqueueRelease,
       SyncCheckStop, SyncAllocate, SyncReply, SyncFallback, SyncRelease, queueVars
<1>2. Settled' = Settled
  <2>1. /\ stats'["sent"] = stats["sent"] /\ stats'["sendFailed"] = stats["sendFailed"]
        /\ stats'["excluded"] = stats["excluded"]
    BY DEF TypeOK, Counters, Count, CallNext, CallStep, Enqueue, SendSync,
         EnqueueCheckStop, EnqueueCount, EnqueueAllocate, EnqueueUndo, EnqueueInsert,
         EnqueueSignal, EnqueueRelease, SyncCheckStop, SyncAllocate, SyncReply,
         SyncFallback, SyncRelease, queueVars
  <2> QED BY <2>1 DEF Settled
<1>3. CASE EnqueueInsert(c)
  <2>1. /\ Accepted' = Accepted \cup {c} /\ c \notin Accepted
        /\ Inside' = Inside \cup {c} /\ c \notin Inside
    BY <1>3, InsertEffect DEF Accepted, Inside
  <2>2. /\ Cardinality(Accepted') = Cardinality(Accepted) + 1
        /\ Cardinality(Inside') = Cardinality(Inside) + 1
    BY <2>1, CountTypes, FS_AddElement
  <2> QED BY <1>1, <1>2, <2>2, CountTypes DEF Accounted
<1>4. CASE ~EnqueueInsert(c)
  <2>1. UNCHANGED <<list, item>>
    BY <1>4 DEF CallNext, CallStep, Enqueue, SendSync, EnqueueCheckStop,
         EnqueueCount, EnqueueAllocate, EnqueueUndo, EnqueueSignal,
         EnqueueRelease, SyncCheckStop, SyncAllocate, SyncReply, SyncFallback,
         SyncRelease, queueVars, workerVars
  <2>2. \A d \in Cleanups : status'[d] = "success" <=> status[d] = "success"
    BY <1>4 DEF TypeOK, CallInv, CallNext, CallStep, Enqueue, SendSync,
         EnqueueCheckStop, EnqueueCount, EnqueueAllocate, EnqueueUndo,
         EnqueueSignal, EnqueueRelease, SyncCheckStop, SyncAllocate, SyncReply,
         SyncFallback, SyncRelease, AcquireRundown, Return, callVars
  <2>3. Accepted' = Accepted /\ Inside' = Inside
    BY <2>1, <2>2 DEF Accepted, Inside, Listed, Held
  <2> QED BY <1>1, <1>2, <2>3, AccountFrame
<1> QED BY <1>3, <1>4

LEMMA WorkerAccount ==
  ASSUME NEW w \in Workers, TypeOK, OwnerInv, Accounted, WorkerStep(w)
  PROVE  Accounted'
<1>1. UNCHANGED <<stop, status>> /\ Accepted' = Accepted
  BY DEF WorkerStep, WorkerCheckStop, WorkerWait, WorkerPop, WorkerDispatch,
       WorkerSendOne, queueVars, callVars, Accepted
<1>2. CASE UNCHANGED <<list, item, stats>>
  BY <1>1, <1>2, AccountFrame DEF Inside, Listed, Held, Settled
<1>3. CASE WorkerPop(w) /\ list # << >>
  <2>1. /\ Head(list) \in Cleanups /\ Listed(Head(list))
        /\ \A d \in Cleanups : Listed(d)' <=> Listed(d) /\ d # Head(list)
    BY <1>3, ListedTail DEF WorkerPop, OwnerInv
  <2>2. item[w] = None /\ item' = [item EXCEPT ![w] = Head(list)] /\ stats' = stats
    BY <1>3 DEF WorkerPop, OwnerInv
  <2>3. \A d \in Cleanups : Held(d)' <=> Held(d) \/ d = Head(list)
    BY <2>1, <2>2, QueueAssumption DEF Held, TypeOK
  <2>4. Inside' = Inside
    BY <2>1, <2>3 DEF Inside
  <2> QED BY <1>1, <2>2, <2>4, AccountFrame DEF Settled
<1>4. CASE (WorkerDispatch(w) /\ stop) \/ WorkerSendOne(w)
  <2>1. item' = [item EXCEPT ![w] = None] /\ UNCHANGED list /\ worker[w] \in {"dispatch", "send"}
    BY <1>4 DEF WorkerDispatch, WorkerSendOne, queueVars
  <2>2. item[w] # None /\ item[w] \in Cleanups
    BY <2>1 DEF OwnerInv, TypeOK
  <2>3. \A d \in Cleanups : Held(d)' <=> Held(d) /\ d # item[w]
    BY <2>1, <2>2, QueueAssumption DEF Held, OwnerInv, OneOwner, TypeOK
  <2>4. \A d \in Cleanups : Listed(d)' <=> Listed(d)
    BY <2>1 DEF Listed
  <2>5. Held(item[w]) /\ ~Listed(item[w])
    BY <2>2 DEF Held, OwnerInv, OneOwner
  <2>6. item[w] \in Inside /\ Inside' = Inside \ {item[w]}
    BY <2>2, <2>3, <2>4, <2>5 DEF Inside
  <2>7. Settled' = Settled + 1 \/ (stop /\ Settled' = Settled)
    <3>1. CASE WorkerDispatch(w) /\ stop
      BY <3>1 DEF WorkerDispatch, queueVars, Settled
    <3>2. CASE WorkerSendOne(w)
      <4>1. CASE Count("sent")
        BY <4>1, CountTypes DEF Count, TypeOK, Counters, Settled
      <4>2. CASE Count("sendFailed")
        BY <4>2, CountTypes DEF Count, TypeOK, Counters, Settled
      <4>3. CASE Count("excluded")
        BY <4>3, CountTypes DEF Count, TypeOK, Counters, Settled
      <4> QED BY <3>2, <4>1, <4>2, <4>3 DEF WorkerSendOne
    <3> QED BY <1>4, <3>1, <3>2
  <2> QED BY <1>1, <2>6, <2>7, AccountLeave
<1> QED BY <1>2, <1>3, <1>4 DEF WorkerStep, WorkerCheckStop, WorkerWait, WorkerPop,
           WorkerDispatch, queueVars, workerVars

LEMMA DriverAccount ==
  ASSUME TypeOK, OwnerInv, StopInv, Accounted, DriverNext
  PROVE  Accounted'
<1>1. (stop => stop') /\ UNCHANGED <<status, item, stats>>
      /\ Accepted' = Accepted /\ Settled' = Settled
  BY DEF DriverNext, InitStep, UninitStep, CreateThread, ReferenceThread, OrphanSignal,
       OrphanJoin, StartFiltering, Unload, UninitStop, UninitCloseRundown, UninitRundown,
       UninitSignal, UninitJoin, UninitDrain, queueVars, callVars, workerVars, Accepted, Settled
<1>2. CASE UninitDrain /\ list # << >>
  <2>1. /\ Head(list) \in Cleanups /\ Listed(Head(list))
        /\ \A d \in Cleanups : Listed(d)' <=> Listed(d) /\ d # Head(list)
    BY <1>2, ListedTail DEF UninitDrain, OwnerInv
  <2>2. \A d \in Cleanups : Held(d)' <=> Held(d)
    BY <1>1 DEF Held
  <2>3. Head(list) \in Inside /\ Inside' = Inside \ {Head(list)}
    BY <2>1, <2>2 DEF Inside, OwnerInv, OneOwner
  <2>4. stop
    BY <1>2 DEF UninitDrain, StopInv
  <2> QED BY <1>1, <2>3, <2>4, AccountLeave
<1>3. CASE ~(UninitDrain /\ list # << >>)
  <2>1. UNCHANGED list
    BY <1>3 DEF DriverNext, InitStep, UninitStep, CreateThread, ReferenceThread, OrphanSignal,
         OrphanJoin, StartFiltering, Unload, UninitStop, UninitCloseRundown, UninitRundown,
         UninitSignal, UninitJoin, UninitDrain, queueVars
  <2>2. Inside' = Inside
    BY <1>1, <2>1 DEF Inside, Listed, Held
  <2> QED BY <1>1, <2>2, AccountFrame
<1> QED BY <1>2, <1>3

LEMMA StopStep == StopInv /\ [Next]_vars => StopInv'
<1> SUFFICES ASSUME StopInv, [Next]_vars PROVE StopInv'
  OBVIOUS
<1>1. ASSUME NEW c \in Cleanups, CallNext(c) PROVE UNCHANGED <<stop, driver>>
  BY <1>1 DEF CallNext, CallStep, Enqueue, SendSync, EnqueueCheckStop, EnqueueCount,
       EnqueueAllocate, EnqueueUndo, EnqueueInsert, EnqueueSignal, EnqueueRelease,
       SyncCheckStop, SyncAllocate, SyncReply, SyncFallback, SyncRelease, queueVars,
       driverVars
<1>2. ASSUME NEW w \in Workers, WorkerStep(w) PROVE UNCHANGED <<stop, driver>>
  BY <1>2 DEF WorkerStep, WorkerCheckStop, WorkerWait, WorkerPop, WorkerDispatch,
       WorkerSendOne, queueVars, driverVars
<1>3. CASE DriverNext
  BY <1>3 DEF StopInv, DriverNext, InitStep, UninitStep, CreateThread, ReferenceThread,
       OrphanSignal, OrphanJoin, StartFiltering, Unload, UninitStop, UninitCloseRundown,
       UninitRundown, UninitSignal, UninitJoin, UninitDrain, queueVars
<1>4. CASE UNCHANGED vars
  BY <1>4 DEF StopInv, vars, queueVars, driverVars
<1> QED BY <1>1, <1>2, <1>3, <1>4 DEF StopInv, Next, CallNext, DriverNext

\* The counters GetStats shows account for every accepted request, for any number
\* of callbacks and workers and however they race with unload: nothing goes missing
\* before Stop, and what goes missing after it is never counted twice.
THEOREM StatsAddUp == Spec => []StatsAccount
<1>1. Init => StopInv /\ Accounted
  <2> SUFFICES ASSUME Init PROVE StopInv /\ Accounted
    OBVIOUS
  <2>1. Inside = {} /\ Accepted = {}
    BY QueueAssumption DEF Init, Inside, Accepted, Listed, Held
  <2>2. stats["sent"] = 0 /\ stats["sendFailed"] = 0 /\ stats["excluded"] = 0
    BY DEF Init, Counters
  <2> QED BY <2>1, <2>2, FS_EmptySet DEF Init, StopInv, Accounted, Settled
<1>2. IInv /\ StopInv /\ Accounted /\ [Next]_vars => StopInv' /\ Accounted'
  <2> SUFFICES ASSUME IInv, StopInv, Accounted, [Next]_vars PROVE Accounted'
    BY StopStep
  <2>1. ASSUME NEW c \in Cleanups, CallNext(c) PROVE Accounted'
    BY <2>1, CallAccount DEF IInv
  <2>2. ASSUME NEW w \in Workers, WorkerStep(w) PROVE Accounted'
    BY <2>2, WorkerAccount DEF IInv
  <2>3. CASE DriverNext
    BY <2>3, DriverAccount DEF IInv
  <2>4. CASE UNCHANGED vars
    BY <2>4, AccountFrame DEF vars, queueVars, callVars, workerVars, Accepted, Inside,
         Listed, Held, Settled
  <2> QED BY <2>1, <2>2, <2>3, <2>4 DEF Next, CallNext, DriverNext
<1>3. IInv /\ Accounted => StatsAccount
  BY AccountedIs DEF IInv
<1> QED BY <1>1, <1>2, <1>3, Invariance, PTL DEF Spec
==============================================================================
