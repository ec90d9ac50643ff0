----------------------------- MODULE BackupQueue -----------------------------
(***************************************************************************)
(* The driver's backup queue, src/knFcFlt/knFcQueue.cpp: cleanup callbacks *)
(* hand capture requests to a pool of system threads, which forward them   *)
(* to user mode.  Every step below is one access to g_Queue, or one        *)
(* section under its spin lock, so the interleavings are those of the      *)
(* code.                                                                   *)
(*                                                                         *)
(* A cleanup callback makes one call, knFcQueueEnqueue or                  *)
(* knFcQueueSendSyncFromCleanup, so it stands for its own request: list    *)
(* holds cleanups, and the request's pid, flags, size and path are left    *)
(* out, as is RequestId (one InterlockedIncrement64 per request).  A call  *)
(* with an empty path returns before it touches the queue: it is a call    *)
(* that is never made.  knFcCommSendMessage and knFcExcludeMatches answer  *)
(* as they like.                                                           *)
(*                                                                         *)
(* A definition whose name ends in _Bug is not part of the specification:  *)
(* it is the definition after it with a plausible mistake, and shows that  *)
(* one of the properties would notice.                                     *)
(***************************************************************************)
EXTENDS Integers, Sequences, FiniteSets

CONSTANTS Cleanups,   \* the cleanup callbacks that ask for a capture
          Workers,    \* KNFC_QUEUE_WORKER_COUNT system threads
          MaxDepth,   \* KNFC_QUEUE_MAX_DEPTH
          None        \* no request, no thread

ASSUME QueueAssumption ==
  /\ IsFiniteSet(Cleanups)
  /\ IsFiniteSet(Workers) /\ Workers # {}
  /\ MaxDepth \in Nat
  /\ None \notin Cleanups \cup Workers

VARIABLES
  \* g_Queue
  stop,       \* Stop
  rundown,    \* ProducerRundown: "active", or "closed" to new references
  holds,      \* the rundown references each cleanup holds
  event,      \* Event, a notification event: set or clear
  list,       \* List
  depth,      \* Depth
  threads,    \* Threads[]: the workers Uninitialize will join
  stats,      \* Sent, SendFailed, Dropped, SyncSent, SyncFailed, and the
              \* part of MatchedCount that SendOne adds
  \* the cleanup callbacks
  call,       \* where the call is
  nested,     \* the callbacks whose Enqueue is the fallback of a SendSync
  status,     \* what Enqueue returns
  \* the workers
  worker,     \* where the thread is
  item,       \* the request it removed from the list
  \* DriverEntry and FilterUnload
  driver,     \* where the thread is
  creating,   \* the worker created last, until it is referenced
  filtering   \* has FltStartFiltering let callbacks in?

queueVars  == <<stop, rundown, holds, event, list, depth, threads, stats>>
callVars   == <<call, nested, status>>
workerVars == <<worker, item>>
driverVars == <<driver, creating, filtering>>
vars == <<queueVars, callVars, workerVars, driverVars>>

\* What no callback changes (but for waking workers), and what the driver's
\* thread leaves alone outside the drain.
callFrame == <<stop, rundown, threads, workerVars, driverVars>>
driverFrame == <<rundown, holds, list, depth, stats, callVars, item>>

CallPCs ==
  {"idle", "enq_check", "enq_count", "enq_alloc", "enq_undo", "enq_insert",
   "enq_signal", "enq_release", "sync_check", "sync_alloc", "sync_send",
   "sync_fallback", "sync_release", "done"}
WorkerPCs ==
  {"absent", "check", "wait", "blocked", "pop", "dispatch", "send", "exited"}
DriverPCs ==
  {"create", "reference", "orphan_signal", "orphan_join", "loaded",
   "uninit", "close", "rundown", "signal", "join", "drain", "down"}
Counters == {"sent", "sendFailed", "dropped", "syncSent", "syncFailed", "excluded"}

TypeOK ==
  /\ stop \in BOOLEAN
  /\ rundown \in {"active", "closed"}
  /\ holds \in [Cleanups -> 0..2]
  /\ event \in BOOLEAN
  /\ list \in Seq(Cleanups)
  /\ depth \in Int
  /\ threads \subseteq Workers
  /\ stats \in [Counters -> Nat]
  /\ call \in [Cleanups -> CallPCs]
  /\ nested \subseteq Cleanups
  /\ status \in [Cleanups -> {"pending", "success", "not_ready", "no_resources"}]
  /\ worker \in [Workers -> WorkerPCs]
  /\ item \in [Workers -> Cleanups \cup {None}]
  /\ driver \in DriverPCs
  /\ creating \in Workers \cup {None}
  /\ filtering \in BOOLEAN

Init ==
  /\ stop = FALSE
  /\ rundown = "active"
  /\ holds = [c \in Cleanups |-> 0]
  /\ event = FALSE
  /\ list = << >>
  /\ depth = 0
  /\ threads = {}
  /\ stats = [k \in Counters |-> 0]
  /\ call = [c \in Cleanups |-> "idle"]
  /\ nested = {}
  /\ status = [c \in Cleanups |-> "pending"]
  /\ worker = [w \in Workers |-> "absent"]
  /\ item = [w \in Workers |-> None]
  /\ driver = "create"
  /\ creating = None
  /\ filtering = FALSE

Goto(c, pc) == call' = [call EXCEPT ![c] = pc]
WorkerGoto(w, pc) == worker' = [worker EXCEPT ![w] = pc]
Return(c, s) == status' = [status EXCEPT ![c] = s]

\* One way out of SendOne does not count.
Count_Bug(k) == stats' = [stats EXCEPT ![k] = IF k = "excluded" THEN @ ELSE @ + 1]

Count(k) == stats' = [stats EXCEPT ![k] = @ + 1]

\* Forgets to give the place back.
DecrementDepth_Bug == UNCHANGED depth

DecrementDepth == depth' = depth - 1

\* Reads the head and leaves it in the list.
RemoveHead_Bug == list # << >> /\ DecrementDepth /\ UNCHANGED list

RemoveHead ==
  /\ list # << >>
  /\ list' = Tail(list)
  /\ DecrementDepth

\* A delay in place of a join.
Exited_Bug(w) == TRUE

Exited(w) == worker[w] = "exited"

\* KeSetEvent on a notification event: it stays set, and every thread that is
\* blocked on it now is released, even if another clears it before they run.
SetEvent ==
  /\ event' = TRUE
  /\ worker' = [w \in Workers |->
                  IF worker[w] = "blocked" THEN "pop" ELSE worker[w]]

------------------------------------------------------------------------------
(* knFcQueueEnqueue *)

\* Waits for the rundown to open again.
AcquireRundown_Bug(c, acquired, refused) ==
  /\ rundown = "active"
  /\ holds' = [holds EXCEPT ![c] = @ + 1]
  /\ Goto(c, acquired)
  /\ UNCHANGED status

\* ExAcquireRundownProtection: a reference, or a refusal once it is closed.
AcquireRundown(c, acquired, refused) ==
  \/ /\ rundown = "active"
     /\ holds' = [holds EXCEPT ![c] = @ + 1]
     /\ Goto(c, acquired)
     /\ UNCHANGED status
  \/ /\ rundown = "closed"
     /\ Goto(c, refused)
     /\ Return(c, "not_ready")
     /\ UNCHANGED holds

\* The nested call gives back the caller's reference as well.
ReleaseRundown_Bug(c) ==
  holds' = [holds EXCEPT ![c] = IF call[c] = "enq_release" THEN 0 ELSE @ - 1]

ReleaseRundown(c) == holds' = [holds EXCEPT ![c] = @ - 1]

Enqueue(c) ==
  /\ filtering
  /\ call[c] = "idle"
  /\ AcquireRundown(c, "enq_check", "done")
  /\ UNCHANGED <<callFrame, event, list, depth, stats, nested>>

EnqueueCheckStop(c) ==
  /\ call[c] = "enq_check"
  /\ \/ stop /\ Goto(c, "enq_release") /\ Return(c, "not_ready")
     \/ ~stop /\ Goto(c, "enq_count") /\ UNCHANGED status
  /\ UNCHANGED <<queueVars, nested, workerVars, driverVars>>

EnqueueCount(c) ==
  /\ call[c] = "enq_count"
  /\ depth' = depth + 1
  /\ Goto(c, IF depth' > MaxDepth THEN "enq_undo" ELSE "enq_alloc")
  /\ UNCHANGED <<callFrame, holds, event, list, stats, nested, status>>

\* The pool may have no memory for the item.
EnqueueAllocate(c) ==
  /\ call[c] = "enq_alloc"
  /\ Goto(c, "enq_insert") \/ Goto(c, "enq_undo")
  /\ UNCHANGED <<queueVars, nested, status, workerVars, driverVars>>

EnqueueUndo(c) ==
  /\ call[c] = "enq_undo"
  /\ DecrementDepth
  /\ Count("dropped")
  /\ Return(c, "no_resources")
  /\ Goto(c, "enq_release")
  /\ UNCHANGED <<callFrame, holds, event, list, nested>>

\* Under the spin lock.
EnqueueInsert(c) ==
  /\ call[c] = "enq_insert"
  /\ list' = Append(list, c)
  /\ Return(c, "success")
  /\ Goto(c, "enq_signal")
  /\ UNCHANGED <<callFrame, holds, event, depth, stats, nested>>

\* Signals only if no worker is busy: one that is will see the request.
EnqueueSignal_Bug(c) ==
  /\ call[c] = "enq_signal"
  /\ IF \A w \in Workers : item[w] = None THEN SetEvent ELSE UNCHANGED <<event, worker>>
  /\ Goto(c, "enq_release")
  /\ UNCHANGED <<stop, rundown, holds, list, depth, threads, stats, nested,
                 status, item, driverVars>>

\* KeSetEvent, after the spin lock is released.
EnqueueSignal(c) ==
  /\ call[c] = "enq_signal"
  /\ SetEvent
  /\ Goto(c, "enq_release")
  /\ UNCHANGED <<stop, rundown, holds, list, depth, threads, stats, nested,
                 status, item, driverVars>>

EnqueueRelease(c) ==
  /\ call[c] = "enq_release"
  /\ ReleaseRundown(c)
  /\ Goto(c, IF c \in nested THEN "sync_release" ELSE "done")
  /\ UNCHANGED <<callFrame, event, list, depth, stats, nested, status>>

------------------------------------------------------------------------------
(* knFcQueueSendSyncFromCleanup *)

SendSync(c) ==
  /\ filtering
  /\ call[c] = "idle"
  /\ AcquireRundown(c, "sync_check", "done")
  /\ UNCHANGED <<callFrame, event, list, depth, stats, nested>>

SyncCheckStop(c) ==
  /\ call[c] = "sync_check"
  /\ Goto(c, IF stop THEN "sync_release" ELSE "sync_alloc")
  /\ UNCHANGED <<queueVars, nested, status, workerVars, driverVars>>

SyncAllocate(c) ==
  /\ call[c] = "sync_alloc"
  /\ \/ Goto(c, "sync_send") /\ UNCHANGED stats
     \/ Goto(c, "sync_release") /\ Count("syncFailed")
  /\ UNCHANGED <<callFrame, holds, event, list, depth, nested, status>>

\* The send is answered with status 0, or with another status, or it times out
\* (STATUS_TIMEOUT passes NT_SUCCESS, so the zeroed reply counts as success) or
\* finds no port.
SyncReply(c) ==
  /\ call[c] = "sync_send"
  /\ \/ Goto(c, "sync_release") /\ Count("syncSent")
     \/ Goto(c, "sync_fallback") /\ Count("syncFailed")
  /\ UNCHANGED <<callFrame, holds, event, list, depth, nested, status>>

\* The nested Enqueue takes a reference of its own, while the outer call
\* still holds one.
SyncFallback(c) ==
  /\ call[c] = "sync_fallback"
  /\ nested' = nested \cup {c}
  /\ AcquireRundown(c, "enq_check", "sync_release")
  /\ UNCHANGED <<callFrame, event, list, depth, stats>>

SyncRelease(c) ==
  /\ call[c] = "sync_release"
  /\ ReleaseRundown(c)
  /\ Goto(c, "done")
  /\ UNCHANGED <<callFrame, event, list, depth, stats, nested, status>>

------------------------------------------------------------------------------
(* knFcQueueWorker *)

WorkerCheckStop(w) ==
  /\ worker[w] = "check"
  /\ WorkerGoto(w, IF stop THEN "exited" ELSE "wait")
  /\ UNCHANGED <<queueVars, callVars, item, driverVars>>

\* KeWaitForSingleObject: goes on at once if the event is set.
WorkerWait(w) ==
  /\ worker[w] = "wait"
  /\ WorkerGoto(w, IF event THEN "pop" ELSE "blocked")
  /\ UNCHANGED <<queueVars, callVars, item, driverVars>>

\* Under the spin lock: remove the head, or clear the event and leave the
\* inner loop.
WorkerPop(w) ==
  /\ worker[w] = "pop"
  /\ \/ /\ RemoveHead
        /\ item' = [item EXCEPT ![w] = Head(list)]
        /\ WorkerGoto(w, "dispatch")
        /\ UNCHANGED event
     \/ /\ list = << >>
        /\ event' = FALSE
        /\ WorkerGoto(w, "check")
        /\ UNCHANGED <<item, list, depth>>
  /\ UNCHANGED <<stop, rundown, holds, threads, stats, callVars, driverVars>>

\* The second test of Stop: free the item, or send it.
WorkerDispatch(w) ==
  /\ worker[w] = "dispatch"
  /\ \/ /\ stop
        /\ item' = [item EXCEPT ![w] = None]
        /\ WorkerGoto(w, "pop")
     \/ /\ ~stop
        /\ WorkerGoto(w, "send")
        /\ UNCHANGED item
  /\ UNCHANGED <<queueVars, callVars, driverVars>>

\* knFcQueueSendOne ends: the path was excluded, or the reply was status 0, or
\* memory, the reply or the port failed; then the item is freed.
WorkerSendOne(w) ==
  /\ worker[w] = "send"
  /\ Count("excluded") \/ Count("sent") \/ Count("sendFailed")
  /\ item' = [item EXCEPT ![w] = None]
  /\ WorkerGoto(w, "pop")
  /\ UNCHANGED <<stop, rundown, holds, event, list, depth, threads, callVars,
                 driverVars>>

------------------------------------------------------------------------------
(* knFcQueueInitialize, called by DriverEntry *)

CreateThread ==
  /\ driver = "create"
  /\ \/ \E w \in Workers :
          /\ worker[w] = "absent"
          /\ WorkerGoto(w, "check")
          /\ creating' = w
          /\ driver' = "reference"
     \/ /\ driver' = "uninit"
        /\ UNCHANGED <<worker, creating>>
  /\ UNCHANGED <<queueVars, callVars, item, filtering>>

\* ObReferenceObjectByHandle may fail while the thread already runs.
ReferenceThread ==
  /\ driver = "reference"
  /\ \/ /\ threads' = threads \cup {creating}
        /\ creating' = None
        /\ driver' = IF threads' = Workers THEN "loaded" ELSE "create"
        /\ UNCHANGED stop
     \/ /\ stop' = TRUE
        /\ driver' = "orphan_signal"
        /\ UNCHANGED <<threads, creating>>
  /\ UNCHANGED <<driverFrame, event, worker, filtering>>

OrphanSignal ==
  /\ driver = "orphan_signal"
  /\ SetEvent
  /\ driver' = "orphan_join"
  /\ UNCHANGED <<driverFrame, stop, threads, creating, filtering>>

OrphanJoin ==
  /\ driver = "orphan_join"
  /\ Exited(creating)
  /\ creating' = None
  /\ driver' = "uninit"
  /\ UNCHANGED <<queueVars, callVars, workerVars, filtering>>

\* FltStartFiltering succeeds: callbacks may run from here on.
StartFiltering ==
  /\ driver = "loaded"
  /\ ~filtering
  /\ filtering' = TRUE
  /\ UNCHANGED <<queueVars, callVars, workerVars, driver, creating>>

------------------------------------------------------------------------------
(* knFcQueueUninitialize, called by FilterUnload, or by DriverEntry when *)
(* FltStartFiltering or knFcQueueInitialize failed; callbacks go on      *)
(* arriving, since FltUnregisterFilter comes later                       *)

Unload ==
  /\ driver = "loaded"
  /\ driver' = "uninit"
  /\ UNCHANGED <<queueVars, callVars, workerVars, creating, filtering>>

UninitStop ==
  /\ driver = "uninit"
  /\ stop' = TRUE
  /\ driver' = "close"
  /\ UNCHANGED <<driverFrame, event, threads, worker, creating, filtering>>

\* Does not wait for the producers.
References_Bug == {}

References == {c \in Cleanups : holds[c] > 0}

\* ExWaitForRundownProtectionRelease refuses new references, then waits for
\* those that are held.
UninitCloseRundown ==
  /\ driver = "close"
  /\ rundown' = "closed"
  /\ driver' = "rundown"
  /\ UNCHANGED <<stop, holds, event, list, depth, threads, stats, callVars,
                 workerVars, creating, filtering>>

UninitRundown ==
  /\ driver = "rundown"
  /\ References = {}
  /\ driver' = "signal"
  /\ UNCHANGED <<queueVars, callVars, workerVars, creating, filtering>>

UninitSignal ==
  /\ driver = "signal"
  /\ SetEvent
  /\ driver' = "join"
  /\ UNCHANGED <<driverFrame, stop, threads, creating, filtering>>

\* The waits are on one thread after the other; together they end when all
\* have exited.
UninitJoin ==
  /\ driver = "join"
  /\ \A w \in threads : Exited(w)
  /\ threads' = {}
  /\ driver' = "drain"
  /\ UNCHANGED <<driverFrame, stop, event, worker, creating, filtering>>

\* Trusts the workers to have emptied the list.
UninitDrain_Bug ==
  /\ driver = "drain"
  /\ driver' = "down"
  /\ UNCHANGED <<queueVars, callVars, workerVars, creating, filtering>>

UninitDrain ==
  /\ driver = "drain"
  /\ \/ RemoveHead /\ UNCHANGED driver
     \/ /\ list = << >>
        /\ driver' = "down"
        /\ UNCHANGED <<list, depth>>
  /\ UNCHANGED <<stop, rundown, holds, event, threads, stats, callVars,
                 workerVars, creating, filtering>>

------------------------------------------------------------------------------
\* What a cleanup does once it has begun its call.
CallStep(c) ==
  \/ EnqueueCheckStop(c) \/ EnqueueCount(c) \/ EnqueueAllocate(c)
  \/ EnqueueUndo(c) \/ EnqueueInsert(c) \/ EnqueueSignal(c) \/ EnqueueRelease(c)
  \/ SyncCheckStop(c) \/ SyncAllocate(c) \/ SyncReply(c) \/ SyncFallback(c)
  \/ SyncRelease(c)

WorkerStep(w) ==
  \/ WorkerCheckStop(w) \/ WorkerWait(w) \/ WorkerPop(w)
  \/ WorkerDispatch(w) \/ WorkerSendOne(w)

InitStep == CreateThread \/ ReferenceThread \/ OrphanSignal \/ OrphanJoin

UninitStep ==
  \/ UninitStop \/ UninitCloseRundown \/ UninitRundown \/ UninitSignal
  \/ UninitJoin \/ UninitDrain

Next ==
  \/ \E c \in Cleanups : Enqueue(c) \/ SendSync(c) \/ CallStep(c)
  \/ \E w \in Workers : WorkerStep(w)
  \/ InitStep \/ StartFiltering \/ Unload \/ UninitStep

Spec == Init /\ [][Next]_vars

\* Threads that can run do run, and a send is answered or times out.  Nothing
\* obliges a file to be closed or the driver to be unloaded.
Fairness ==
  /\ \A c \in Cleanups : WF_vars(CallStep(c))
  /\ \A w \in Workers : WF_vars(WorkerStep(w))
  /\ WF_vars(InitStep)
  /\ WF_vars(UninitStep)

FairSpec == Spec /\ Fairness

------------------------------------------------------------------------------
(* What must hold *)

Listed(c) == \E i \in 1..Len(list) : list[i] = c
Held(c) == \E w \in Workers : item[w] = c

\* Requests that are counted in Depth and will be put in the list, or give up.
Admitted == {c \in Cleanups : call[c] \in {"enq_alloc", "enq_insert"}}
Undoing  == {c \in Cleanups : call[c] = "enq_undo"}

\* No worker sleeps while a request waits in the list, except for the moment
\* between a producer's insertion and its KeSetEvent.  The code inserts and
\* clears the event under the lock but sets it outside (knFcQueueEnqueue,
\* knFcQueueWorker).
NoLostWakeup ==
  /\ list # << >> => event \/ \E c \in Cleanups : call[c] = "enq_signal"
  /\ \A w \in Workers : worker[w] = "blocked" => ~event

\* Depth counts the listed requests and those between their increment and
\* their insertion or undoing, and the list never outgrows the cap although the
\* cap is tested without the lock.
DepthAccounting ==
  /\ depth = Len(list) + Cardinality(Admitted) + Cardinality(Undoing)
  /\ Len(list) + Cardinality(Admitted) <= MaxDepth

\* A request is in one place: once in the list or in the hands of one worker,
\* so it is sent at most once and its memory is freed once.
OneOwner ==
  /\ \A i, j \in 1..Len(list) : list[i] = list[j] => i = j
  /\ \A v, w \in Workers : item[v] = item[w] /\ item[v] # None => v = w
  /\ \A c \in Cleanups : ~(Listed(c) /\ Held(c))

\* The counters GetStats shows explain every request Enqueue accepted: sent,
\* failed, excluded or still inside, and nothing goes missing before Stop.
StatsAccount ==
  LET accepted == Cardinality({c \in Cleanups : status[c] = "success"})
      inside == Cardinality({c \in Cleanups : Listed(c) \/ Held(c)})
      accounted == inside + stats["sent"] + stats["sendFailed"] + stats["excluded"]
  IN /\ accounted <= accepted
     /\ ~stop => accounted = accepted

\* When knFcQueueUninitialize has returned, no thread can touch the queue any
\* more: every worker has exited, also one that was never referenced, no
\* callback is inside the rundown, and no request is left.
QuiescentWhenDown ==
  driver = "down" =>
    /\ \A w \in Workers : worker[w] \in {"absent", "exited"}
    /\ \A c \in Cleanups : call[c] \in {"idle", "done"}
    /\ list = << >> /\ depth = 0

\* The queue implements the ledger of requests.
Stage(c) ==
  IF Listed(c) THEN "queued"
  ELSE IF Held(c) THEN "taken"
  ELSE IF status[c] = "success" THEN "settled"
  ELSE "new"

Phase ==
  CASE driver \in {"signal", "join", "drain"} -> "closed"
    [] driver = "down" -> "down"
    [] OTHER -> "open"

Ledger == INSTANCE CaptureLedger WITH
            Requests <- Cleanups,
            stage <- [c \in Cleanups |-> Stage(c)],
            phase <- Phase

\* Every step of the queue is a step of the ledger or leaves it alone: requests
\* are accepted only before the shutdown has drained the producers, and are
\* taken and settled once.
ImplementsLedger == Ledger!Spec

\* Every request that gets into the list is settled, whatever the interleaving
\* of producers, workers and unload.
RequestsSettle == \A c \in Cleanups : Listed(c) ~> ~Listed(c) /\ ~Held(c)

\* Unload gets past the producers, although a failed synchronous send enters the
\* rundown a second time while unload waits for its first reference.
RundownDrains == driver = "rundown" ~> driver = "signal"

\* knFcQueueUninitialize returns.
UninitializeReturns == driver = "uninit" ~> driver = "down"

==============================================================================
