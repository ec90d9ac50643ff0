----------------------- MODULE BackupQueue_refinement -----------------------
(***************************************************************************)
(* BackupQueue implements CaptureLedger, for any number of callbacks and   *)
(* workers and any cap: the request of a callback moves from new to        *)
(* queued, taken and settled as it moves through list and item.            *)
(***************************************************************************)
EXTENDS BackupQueue_proofs

USE DEF RemoveHead, DecrementDepth, ReleaseRundown, Exited, References, callFrame,
        driverFrame

Stages == [c \in Cleanups |-> Stage(c)]

LEMMA InitLedger == Init => Ledger!Init
BY QueueAssumption DEF Init, Ledger!Init, Stage, Phase, Listed, Held

\* A step that changes no owner, no acceptance and no phase is a stutter.
LEMMA Stutter ==
  ASSUME UNCHANGED <<list, item>>, Phase' = Phase,
         \A c \in Cleanups : status[c] = "success" <=> status'[c] = "success"
  PROVE  UNCHANGED Ledger!vars
<1>1. \A c \in Cleanups : Stage(c)' = Stage(c)
  BY DEF Stage, Listed, Held
<1>2. Stages' = Stages
  BY <1>1 DEF Stages
<1> QED BY <1>2 DEF Ledger!vars, Stages

LEMMA CallLedger ==
  ASSUME NEW c \in Cleanups, IInv, CallNext(c)
  PROVE  [Ledger!Next]_(Ledger!vars)
<1>1. UNCHANGED driver /\ Phase' = Phase
  BY DEF CallNext, CallStep, Enqueue, SendSync, EnqueueCheckStop, EnqueueCount,
       EnqueueAllocate, EnqueueUndo, EnqueueInsert, EnqueueSignal,
       EnqueueRelease, SyncCheckStop, SyncAllocate, SyncReply, SyncFallback,
       SyncRelease, driverVars, Phase
<1>2. CASE EnqueueInsert(c)
  <2>1. Stage(c) = "new" /\ Stage(c)' = "queued"
        /\ \A d \in Cleanups \ {c} : Stage(d)' = Stage(d)
    BY <1>2, InsertEffect DEF IInv, Stage
  <2>2. Phase = "open"
    BY <1>2 DEF IInv, CallInv, DriverInv, InEnqueue, EnqueueInsert, Phase
  <2>3. Stages' = [Stages EXCEPT ![c] = "queued"] /\ Stages[c] = "new"
    BY <2>1 DEF Stages
  <2>4. Ledger!Accept(c)
    BY <1>1, <2>2, <2>3 DEF Ledger!Accept, Ledger!Move, Stages
  <2> QED BY <2>4 DEF Ledger!Next
<1>3. CASE ~EnqueueInsert(c)
  <2>1. UNCHANGED <<list, item>>
    BY <1>3 DEF CallNext, CallStep, Enqueue, SendSync, EnqueueCheckStop,
         EnqueueCount, EnqueueAllocate, EnqueueUndo, EnqueueSignal,
         EnqueueRelease, SyncCheckStop, SyncAllocate, SyncReply, SyncFallback,
         SyncRelease, queueVars, workerVars
  <2>2. \A d \in Cleanups : status[d] = "success" <=> status'[d] = "success"
    BY <1>3 DEF IInv, TypeOK, CallInv, CallNext, CallStep, Enqueue, SendSync,
         EnqueueCheckStop, EnqueueCount, EnqueueAllocate, EnqueueUndo,
         EnqueueSignal, EnqueueRelease, SyncCheckStop, SyncAllocate, SyncReply,
         SyncFallback, SyncRelease, AcquireRundown, Return, callVars
  <2> QED BY <1>1, <2>1, <2>2, Stutter
<1> QED BY <1>2, <1>3

\* A worker that is about to take or that holds a request keeps the ledger
\* from being down.
LEMMA RunningWorker ==
  ASSUME NEW w \in Workers, IInv, worker[w] \notin {"absent", "exited"}
  PROVE  Phase # "down"
BY QueueAssumption DEF IInv, DriverInv, Phase

LEMMA WorkerLedger ==
  ASSUME NEW w \in Workers, IInv, WorkerStep(w)
  PROVE  [Ledger!Next]_(Ledger!vars)
<1> USE DEF WorkerGoto, queueVars, callVars, driverVars
<1>1. Phase' = Phase /\ UNCHANGED status
  BY DEF WorkerStep, WorkerCheckStop, WorkerWait, WorkerPop, WorkerDispatch,
       WorkerSendOne, Phase
<1>2. Phase # "down"
  BY RunningWorker DEF WorkerStep, WorkerCheckStop, WorkerWait, WorkerPop,
       WorkerDispatch, WorkerSendOne
<1>3. CASE WorkerPop(w) /\ list # << >>
  <2>1. PICK h \in Cleanups :
          /\ h = Head(list) /\ Listed(h)
          /\ \A c \in Cleanups : Listed(c)' <=> Listed(c) /\ c # h
    BY <1>3, ListedTail DEF WorkerPop, IInv, OwnerInv
  <2>2. item[w] = None /\ item' = [item EXCEPT ![w] = h]
    BY <1>3, <2>1 DEF WorkerPop, IInv, OwnerInv
  <2>3. \A c \in Cleanups : Held(c)' <=> Held(c) \/ c = h
    BY <2>1, <2>2, QueueAssumption DEF Held, IInv, TypeOK
  <2>4. Stage(h) = "queued" /\ Stage(h)' = "taken"
        /\ \A c \in Cleanups \ {h} : Stage(c)' = Stage(c)
    BY <1>1, <2>1, <2>3 DEF Stage
  <2>5. Stages' = [Stages EXCEPT ![h] = "taken"] /\ Stages[h] = "queued"
    BY <2>1, <2>4 DEF Stages
  <2>6. Ledger!Take(h)
    BY <1>1, <1>2, <2>5 DEF Ledger!Take, Ledger!Move, Stages
  <2> QED BY <2>1, <2>6 DEF Ledger!Next
<1>4. CASE (WorkerDispatch(w) /\ stop) \/ WorkerSendOne(w)
  <2>1. PICK c \in Cleanups : item[w] = c /\ item' = [item EXCEPT ![w] = None]
                                /\ UNCHANGED list
    BY <1>4, QueueAssumption DEF WorkerDispatch, WorkerSendOne, IInv, TypeOK, OwnerInv
  <2>2. Held(c) /\ ~Listed(c) /\ status[c] = "success"
    BY <2>1 DEF Held, IInv, OwnerInv, OneOwner
  <2>3. \A d \in Cleanups : Held(d)' <=> Held(d) /\ d # c
    BY <2>1, QueueAssumption DEF Held, IInv, TypeOK, OwnerInv, OneOwner
  <2>4. \A d \in Cleanups : Listed(d)' <=> Listed(d)
    BY <2>1 DEF Listed
  <2>5. Stage(c) = "taken" /\ Stage(c)' = "settled"
        /\ \A d \in Cleanups \ {c} : Stage(d)' = Stage(d)
    BY <1>1, <2>1, <2>2, <2>3, <2>4 DEF Stage
  <2>6. Stages' = [Stages EXCEPT ![c] = "settled"] /\ Stages[c] = "taken"
    BY <2>1, <2>5 DEF Stages
  <2>7. Ledger!Settle(c)
    BY <1>1, <1>2, <2>6 DEF Ledger!Settle, Ledger!Move, Stages
  <2> QED BY <2>1, <2>7 DEF Ledger!Next
<1>5. CASE \/ WorkerCheckStop(w) \/ WorkerWait(w)
           \/ WorkerPop(w) /\ list = << >>
           \/ WorkerDispatch(w) /\ ~stop
  BY <1>1, <1>5, Stutter DEF WorkerCheckStop, WorkerWait, WorkerPop, WorkerDispatch
<1> QED BY <1>3, <1>4, <1>5 DEF WorkerStep

LEMMA DriverLedger ==
  ASSUME IInv, DriverNext
  PROVE  [Ledger!Next]_(Ledger!vars)
<1> USE DEF queueVars, callVars, workerVars, driverVars
<1>1. CASE UninitDrain /\ list # << >>
  <2>1. PICK h \in Cleanups :
          /\ Listed(h)
          /\ \A c \in Cleanups : Listed(c)' <=> Listed(c) /\ c # h
    BY <1>1, ListedTail DEF UninitDrain, IInv, OwnerInv
  <2>2. UNCHANGED <<item, status>> /\ \A c \in Cleanups : Held(c)' <=> Held(c)
    BY <1>1 DEF UninitDrain, Held
  <2>3. ~Held(h) /\ status[h] = "success"
    BY <2>1 DEF IInv, OwnerInv, OneOwner
  <2>4. Stage(h) = "queued" /\ Stage(h)' = "settled"
        /\ \A c \in Cleanups \ {h} : Stage(c)' = Stage(c)
    BY <2>1, <2>2, <2>3 DEF Stage
  <2>5. Stages' = [Stages EXCEPT ![h] = "settled"] /\ Stages[h] = "queued"
    BY <2>1, <2>4 DEF Stages
  <2>6. Phase = "closed" /\ Phase' = Phase
    BY <1>1 DEF UninitDrain, Phase
  <2>7. Ledger!Discard(h)
    BY <2>5, <2>6 DEF Ledger!Discard, Ledger!Move, Stages
  <2> QED BY <2>1, <2>7 DEF Ledger!Next
<1>2. CASE UninitDrain /\ list = << >>
  <2>1. UNCHANGED <<list, item, status>>
    BY <1>2 DEF UninitDrain
  <2>2. Stages' = Stages
    BY <2>1 DEF Stages, Stage, Listed, Held
  <2>3. Phase = "closed" /\ Phase' = "down"
    BY <1>2 DEF UninitDrain, Phase
  <2>4. \A c \in Cleanups : ~Listed(c)
    BY <1>2 DEF Listed
  <2>5. \A c \in Cleanups : ~Held(c)
    BY <1>2, QueueAssumption DEF UninitDrain, IInv, TypeOK, OwnerInv, DriverInv, Held
  <2>6. \A c \in Cleanups : Stages[c] \in {"new", "settled"}
    BY <2>4, <2>5 DEF Stages, Stage
  <2>7. Ledger!ShutDown
    BY <2>2, <2>3, <2>6 DEF Ledger!ShutDown, Stages
  <2> QED BY <2>7 DEF Ledger!Next
<1>3. CASE UninitRundown
  <2>1. UNCHANGED <<list, item, status>> /\ Phase = "open" /\ Phase' = "closed"
    BY <1>3 DEF UninitRundown, Phase
  <2>2. Stages' = Stages
    BY <2>1 DEF Stages, Stage, Listed, Held
  <2>3. Ledger!Close
    BY <2>1, <2>2 DEF Ledger!Close, Stages
  <2> QED BY <2>3 DEF Ledger!Next
<1>4. CASE ~UninitDrain /\ ~UninitRundown
  <2>1. UNCHANGED <<list, item, status>>
    BY <1>4 DEF DriverNext, InitStep, UninitStep, CreateThread, ReferenceThread,
         OrphanSignal, OrphanJoin, StartFiltering, Unload, UninitStop,
         UninitCloseRundown, UninitSignal, UninitJoin
  <2>2. Phase' = Phase
    BY <1>4 DEF DriverNext, InitStep, UninitStep, CreateThread, ReferenceThread,
         OrphanSignal, OrphanJoin, StartFiltering, Unload, UninitStop,
         UninitCloseRundown, UninitSignal, UninitJoin, Phase
  <2> QED BY <2>1, <2>2, Stutter
<1> QED BY <1>1, <1>2, <1>3, <1>4

\* A request is accepted at most once and never after the producers have been
\* drained, it is taken and settled once, and the queue is down only when every
\* accepted request is settled.
THEOREM Refinement == Spec => ImplementsLedger
<1>1. IInv /\ [Next]_vars => [Ledger!Next]_(Ledger!vars)
  <2> SUFFICES ASSUME IInv, [Next]_vars PROVE [Ledger!Next]_(Ledger!vars)
    OBVIOUS
  <2>1. ASSUME NEW c \in Cleanups, CallNext(c) PROVE [Ledger!Next]_(Ledger!vars)
    BY <2>1, CallLedger
  <2>2. ASSUME NEW w \in Workers, WorkerStep(w) PROVE [Ledger!Next]_(Ledger!vars)
    BY <2>2, WorkerLedger
  <2>3. CASE DriverNext BY <2>3, DriverLedger
  <2>4. CASE UNCHANGED vars
    <3>1. UNCHANGED <<list, item, status, driver>>
      BY <2>4 DEF vars, queueVars, callVars, workerVars, driverVars
    <3> QED BY <3>1, Stutter DEF Phase
  <2> QED BY <2>1, <2>2, <2>3, <2>4 DEF Next, CallNext, DriverNext
<1> QED BY <1>1, InitLedger, Invariance, PTL DEF Spec, ImplementsLedger, Ledger!Spec

==============================================================================
