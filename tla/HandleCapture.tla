---------------------------- MODULE HandleCapture ----------------------------
(***************************************************************************)
(* What the minifilter does with the handles of one file: the operation    *)
(* callbacks of src/src/knFcFlt/knFcCallbacks.cpp and the context they     *)
(* keep for each handle (KNFC_SHC, src/src/knFcFlt/knFcContexts.cpp).       *)
(*                                                                         *)
(* The environment is the file system and the programs: handles are opened *)
(* on one existing file, operations are issued through them, several at a  *)
(* time, and the last close of a handle sends IRP_MJ_CLEANUP while some of  *)
(* them may still be under way.  Each callback's accesses to shared state  *)
(* (the context's flags, its name under NameLock, the file) are separate   *)
(* steps; what the file system does between pre and post callback is one,  *)
(* and so is the query of DeletePending with the flag it is weighed with:   *)
(* only an operation still under way could come between them.               *)
(*                                                                         *)
(* The queue is seen through what it is asked: a synchronous send copies   *)
(* the file then and there, an asynchronous request some time later.       *)
(***************************************************************************)
EXTENDS Naturals, FiniteSets

CONSTANTS
    Handles,        \* the file's handles
    Ops,            \* slots for operations under way
    Kinds,          \* what programs do
    Names,          \* paths the file may have
    FirstName,      \* its path at the start
    Excluded,       \* paths that match an exclude pattern
    NoName,
    NoHandle,
    Detaches,       \* whether the instance may be torn down
    MaxOps,         \* bound on operations issued
    MaxFailures     \* bound on failed allocations and look-ups

AllKinds == {"write", "resize", "section", "delete", "undelete", "rename"}

ASSUME HandleCaptureAssumption ==
    /\ IsFiniteSet(Handles)
    /\ Kinds \subseteq AllKinds
    /\ FirstName \in Names
    /\ Excluded \subseteq Names
    /\ NoName \notin Names
    /\ Detaches \in BOOLEAN
    /\ NoHandle \notin Handles
    /\ MaxOps \in Nat
    /\ MaxFailures \in Nat

VARIABLES
    file,           \* the file: path, FCB delete-pending, data still on disk
    handle,         \* per handle: phase, options, and what it did, as history
    shc,            \* per handle: its KNFC_SHC
    cleanup,        \* per handle: the local variables of knFcPreCleanup
    op,             \* the operations under way
    requests,       \* asynchronous requests not yet copied
    copied,         \* handles whose request found the file under its path
    draining,       \* the instance is being torn down
    issued,         \* operations issued so far
    failures        \* failures so far

vars == <<file, handle, shc, cleanup, op, requests, copied, draining, issued, failures>>

Flags == {"MODIFIED", "DELETE_ON_CLOSE", "RENAMED", "CREATED", "BACKED_UP"}

Eligible_Bug(flags) == TRUE     \* every handle with a context

\* Cleanup is eligible for a capture: knFcPreCleanup tests it twice.
Eligible(flags) == flags \intersect {"MODIFIED", "DELETE_ON_CLOSE"} # {}

Closing == {"resolve", "query", "sync", "fs", "post"}

\* The file system has not had the cleanup of this handle.
Holding(h) == handle[h].phase \in {"open"} \union (Closing \ {"post"})

Idle(o) == op[o].phase = "idle"
InFlight(h) == \E o \in Ops : ~Idle(o) /\ op[o].handle = h

Renaming(h) == \E o \in Ops : ~Idle(o) /\ op[o].handle = h /\ op[o].kind = "rename"

SetPhase(h, phase) == handle' = [handle EXCEPT ![h].phase = phase]

Fail == failures < MaxFailures /\ failures' = failures + 1

-----------------------------------------------------------------------------
NoOp == [phase |-> "idle", handle |-> NoHandle, kind |-> "write", hooked |-> FALSE,
         name |-> NoName]

NoShc == [flags |-> {}, observed |-> FALSE, doc |-> FALSE, current |-> NoName,
          original |-> NoName]

NoCleanup == [snap |-> {}, name |-> NoName, live |-> NoName, passive |-> FALSE,
              queried |-> FALSE, completion |-> FALSE]

Init ==
    /\ file = [name |-> FirstName, pending |-> FALSE, onDisk |-> TRUE]
    /\ handle = [h \in Handles |-> [phase |-> "unopened", hooked |-> FALSE, doc |-> FALSE,
                                    wrote |-> FALSE, did |-> {}, raced |-> FALSE,
                                    calm |-> FALSE,
                                    asked |-> 0]]
    /\ shc = [h \in Handles |-> NoShc]
    /\ cleanup = [h \in Handles |-> NoCleanup]
    /\ op = [o \in Ops |-> NoOp]
    /\ requests = {}
    /\ copied = {}
    /\ draining = FALSE
    /\ issued = 0
    /\ failures = 0

-----------------------------------------------------------------------------
(* Create. *)

WriteIntent_Bug(replace, doc) ==        \* a replaced file is not marked modified
    (IF replace THEN {"CREATED"} ELSE {})
    \union (IF doc THEN {"MODIFIED", "DELETE_ON_CLOSE"} ELSE {})

\* knFcDecideWriteIntent: what an open asks for before any write.
WriteIntent(replace, doc) ==
    (IF replace THEN {"MODIFIED", "CREATED"} ELSE {})
    \union (IF doc THEN {"MODIFIED", "DELETE_ON_CLOSE"} ELSE {})

\* An open that the file system grants, then knFcPostCreate.  The handle is
\* "hooked", it gets a context, if the caller is tracked, asks for any kind of
\* writing, and there is memory.  "replace" stands for the dispositions that
\* create or overwrite.  The look-up of the path may fail.
Open(h) ==
    /\ handle[h].phase = "unopened"
    /\ file.onDisk /\ ~file.pending
    /\ ~draining
    /\ \E hooked, replace, doc \in BOOLEAN, original \in {file.name, NoName} :
          /\ IF original = NoName THEN Fail ELSE UNCHANGED failures
          /\ handle' = [handle EXCEPT ![h].phase = "open", ![h].hooked = hooked,
                                      ![h].doc = doc, ![h].wrote = replace]
          /\ shc' = [shc EXCEPT ![h] =
                IF hooked THEN [flags |-> WriteIntent(replace, doc), observed |-> FALSE,
                                doc |-> doc, current |-> NoName, original |-> original]
                          ELSE NoShc]
    /\ UNCHANGED <<file, cleanup, op, requests, copied, draining, issued>>

-----------------------------------------------------------------------------
(* Write, SetInformation, section creation. *)

\* The pre callback of an operation: it takes a reference to the context, or
\* asks for no post callback.  "raced" is history: two renames through the handle
\* were under way at once.
Issue(o) ==
    /\ Idle(o)
    /\ issued < MaxOps
    /\ issued' = issued + 1
    /\ \E h \in {g \in Handles : handle[g].phase = "open"}, kind \in Kinds \ {"section"} :
       \E hooked \in {FALSE, handle[h].hooked /\ ~draining} :
          /\ IF handle[h].hooked /\ ~draining /\ ~hooked THEN Fail ELSE UNCHANGED failures
          /\ op' = [op EXCEPT ![o] = [phase |-> "issued", handle |-> h, kind |-> kind,
                                      hooked |-> hooked, name |-> NoName]]
          /\ handle' = [handle EXCEPT ![h].raced = @ \/ (kind = "rename" /\ Renaming(h))]
    /\ UNCHANGED <<file, shc, cleanup, requests, copied, draining>>

\* A section for writing has no post callback: the flag is set at once.
AcquireForSection(h) ==
    /\ "section" \in Kinds
    /\ handle[h].phase = "open"
    /\ issued < MaxOps
    /\ issued' = issued + 1
    /\ handle' = [handle EXCEPT ![h].wrote = TRUE]
    /\ shc' = [shc EXCEPT ![h].flags =
                  IF handle[h].hooked /\ ~draining THEN @ \union {"MODIFIED"} ELSE @]
    /\ UNCHANGED <<file, cleanup, op, requests, copied, draining, failures>>

\* The file system does it.  Deleting through a handle sets the pending flag
\* of the file, whichever handle; "did" and "wrote" are history.
Perform(o) ==
    /\ op[o].phase = "issued"
    /\ file.onDisk
    /\ LET h == op[o].handle
           kind == op[o].kind
       IN  /\ CASE kind = "delete"   -> file' = [file EXCEPT !.pending = TRUE]
                [] kind = "undelete" -> file' = [file EXCEPT !.pending = FALSE]
                [] kind = "rename"   -> \E n \in Names \ {file.name} :
                                            file' = [file EXCEPT !.name = n]
                [] OTHER             -> UNCHANGED file
           /\ handle' = [handle EXCEPT
                ![h].did = @ \union {kind},
                ![h].wrote = @ \/ kind \in {"write", "resize", "rename"}]
    /\ op' = [op EXCEPT ![o].phase = "done"]
    /\ UNCHANGED <<shc, cleanup, requests, copied, draining, issued, failures>>

\* The file system refuses, or the post callback is a draining one or was not
\* asked for: the operation ends without a trace.
Forget(o) ==
    /\ \/ op[o].phase = "issued"
       \/ op[o].phase = "done" /\ (draining \/ ~op[o].hooked)
    /\ op' = [op EXCEPT ![o] = NoOp]
    /\ UNCHANGED <<file, handle, shc, cleanup, requests, copied, draining, issued, failures>>

\* knFcPostWrite, and knFcPostSetInformation up to its first access of the
\* context for a deletion, or up to the rename's name query.
Post(o) ==
    /\ op[o].phase = "done"
    /\ op[o].hooked
    /\ ~draining
    /\ LET h == op[o].handle
       IN  CASE op[o].kind \in {"write", "resize"} ->
                    /\ shc' = [shc EXCEPT ![h].flags = @ \union {"MODIFIED"}]
                    /\ op' = [op EXCEPT ![o] = NoOp]
             [] op[o].kind \in {"delete", "undelete"} ->
                    /\ shc' = [shc EXCEPT ![h].observed = TRUE]
                    /\ op' = [op EXCEPT ![o].phase = "flag"]
             [] op[o].kind = "rename" ->
                    /\ shc' = [shc EXCEPT ![h].flags = @ \union {"MODIFIED", "RENAMED"}]
                    /\ op' = [op EXCEPT ![o].phase = "name"]
    /\ UNCHANGED <<file, handle, cleanup, requests, copied, draining, issued, failures>>

\* The flag follows the request that completed, except that a handle opened
\* with FILE_DELETE_ON_CLOSE keeps it.
PostDisposition(o) ==
    /\ op[o].phase = "flag"
    /\ LET h == op[o].handle
       IN  shc' = [shc EXCEPT ![h].flags =
                      IF op[o].kind = "delete" THEN @ \union {"DELETE_ON_CLOSE"}
                      ELSE IF shc[h].doc THEN @
                      ELSE @ \ {"DELETE_ON_CLOSE"}]
    /\ op' = [op EXCEPT ![o] = NoOp]
    /\ UNCHANGED <<file, handle, cleanup, requests, copied, draining, issued, failures>>

\* knFcPostSetInformationSafe: the file's path now; the look-up, or deferring it
\* to a safe level, may fail and leave the name as it was.
QueryName(o) ==
    /\ op[o].phase = "name"
    /\ \/ op' = [op EXCEPT ![o].phase = "swap", ![o].name = file.name] /\ UNCHANGED failures
       \/ op' = [op EXCEPT ![o] = NoOp] /\ Fail
    /\ UNCHANGED <<file, handle, shc, cleanup, requests, copied, draining, issued>>

\* knFcShcSetCurrentName.
SwapName(o) ==
    /\ op[o].phase = "swap"
    /\ \/ /\ shc' = [shc EXCEPT ![op[o].handle].current = op[o].name]
          /\ UNCHANGED failures
       \/ Fail /\ UNCHANGED shc
    /\ op' = [op EXCEPT ![o] = NoOp]
    /\ UNCHANGED <<file, handle, cleanup, requests, copied, draining, issued>>

-----------------------------------------------------------------------------
(* Cleanup. *)

\* The handle's last close: knFcPreCleanup reads the flags and gives up if there
\* is nothing to capture.  "calm" is history: no operation is under way.
CleanupBegin(h) ==
    /\ handle[h].phase = "open"
    /\ \E passive \in BOOLEAN :
          cleanup' = [cleanup EXCEPT ![h].snap = shc[h].flags, ![h].passive = passive]
    /\ handle' = [handle EXCEPT ![h].calm = ~InFlight(h),
                                ![h].phase =
         IF /\ handle[h].hooked
            /\ ~draining
            /\ "BACKED_UP" \notin shc[h].flags
            /\ Eligible(shc[h].flags) \/ shc[h].observed
         THEN "resolve" ELSE "fs"]
    /\ UNCHANGED <<file, shc, op, requests, copied, draining, issued, failures>>

FinalName_Bug(h, current, live) ==      \* the path at the open first
    IF shc[h].original # NoName THEN shc[h].original ELSE live

\* The sources of knFcResolveFinalName, in order: the name a rename left, the
\* file's path now, the path at the open.
FinalName(h, current, live) ==
    IF current # NoName THEN current
    ELSE IF live # NoName THEN live
    ELSE shc[h].original

\* knFcResolveFinalName; the copy of the first and the look-up of the second
\* may fail.  An excluded path ends it here, where the level allows the test.
\* "live" is history: the file's path at this moment.
Resolve(h) ==
    /\ handle[h].phase = "resolve"
    /\ \E current \in {shc[h].current, NoName}, live \in {file.name, NoName} :
          /\ IF current = shc[h].current /\ live = file.name THEN UNCHANGED failures ELSE Fail
          /\ LET name == FinalName(h, current, live)
             IN  /\ cleanup' = [cleanup EXCEPT ![h].name = name, ![h].live = file.name]
                 /\ SetPhase(h, IF name = NoName \/ (cleanup[h].passive /\ name \in Excluded)
                                THEN "fs" ELSE "query")
    /\ UNCHANGED <<file, shc, op, requests, copied, draining, issued>>

Reconcile_Bug(h, snap) == snap          \* the flag alone decides

\* DeletePending replaces the flag if this handle has seen a disposition.
Reconcile(h, snap) ==
    IF ~shc[h].observed THEN snap
    ELSE IF file.pending THEN snap \union {"DELETE_ON_CLOSE"}
    ELSE snap \ {"DELETE_ON_CLOSE"}

Later_Bug(snap) == Eligible(snap)       \* a deletion falls through to the completion

\* What is left to knFcPostCleanup.
Later(snap) == Eligible(snap) /\ "DELETE_ON_CLOSE" \notin snap

\* Queried only at PASSIVE_LEVEL and with no top-level IRP; then the handle is
\* given up, sent synchronously, queued at once (an elevated level), or left to
\* knFcPostCleanup, for which a completion is allocated.
Query(h) ==
    /\ handle[h].phase = "query"
    /\ \E queried \in {FALSE, cleanup[h].passive}, completion \in BOOLEAN :
          LET snap == IF queried THEN Reconcile(h, cleanup[h].snap) ELSE cleanup[h].snap
              delete == "DELETE_ON_CLOSE" \in snap
          IN  /\ completion => Later(snap)
              /\ IF Later(snap) /\ ~completion THEN Fail ELSE UNCHANGED failures
              /\ cleanup' = [cleanup EXCEPT ![h].snap = snap, ![h].queried = queried,
                                            ![h].completion = completion]
              /\ IF delete /\ ~cleanup[h].passive
                 THEN /\ requests' = requests \union {[handle |-> h, name |-> cleanup[h].name]}
                      /\ handle' = [handle EXCEPT ![h].phase = "fs", ![h].asked = @ + 1]
                 ELSE /\ SetPhase(h, IF delete THEN "sync" ELSE "fs")
                      /\ UNCHANGED requests
    /\ UNCHANGED <<file, shc, op, copied, draining, issued>>

\* knFcQueueSendSyncFromCleanup: the file is copied while it waits, or it falls
\* back on an asynchronous request.  BACKED_UP is set in either case.
SendSync(h) ==
    /\ handle[h].phase = "sync"
    /\ \/ /\ copied' = IF cleanup[h].name = file.name THEN copied \union {h} ELSE copied
          /\ UNCHANGED <<requests, failures>>
       \/ /\ Fail
          /\ requests' = requests \union {[handle |-> h, name |-> cleanup[h].name]}
          /\ UNCHANGED copied
    /\ shc' = [shc EXCEPT ![h].flags = @ \union {"BACKED_UP"}]
    /\ handle' = [handle EXCEPT ![h].phase = "fs", ![h].asked = @ + 1]
    /\ UNCHANGED <<file, cleanup, op, draining, issued>>

\* The file system's cleanup: a handle opened with FILE_DELETE_ON_CLOSE makes
\* the deletion pending now; with the last handle a pending deletion is done.
FsCleanup(h) ==
    /\ handle[h].phase = "fs"
    /\ LET pending == file.pending \/ handle[h].doc
           last == \A g \in Handles \ {h} : ~Holding(g)
       IN  file' = [file EXCEPT !.pending = pending,
                                !.onDisk = @ /\ ~(pending /\ last)]
    /\ SetPhase(h, IF cleanup[h].completion THEN "post" ELSE "closed")
    /\ UNCHANGED <<shc, cleanup, op, requests, copied, draining, issued, failures>>

\* knFcPostCleanup hands the name it kept to the queue.
PostCleanup(h) ==
    /\ handle[h].phase = "post"
    /\ requests' = IF draining THEN requests
                   ELSE requests \union {[handle |-> h, name |-> cleanup[h].name]}
    /\ handle' = [handle EXCEPT ![h].phase = "closed",
                                ![h].asked = IF draining THEN @ ELSE @ + 1]
    /\ UNCHANGED <<file, shc, cleanup, op, copied, draining, issued, failures>>

-----------------------------------------------------------------------------
(* A queue worker and the client copy what is under the requested path; the  *)
(* excluded path that an elevated cleanup let through is dropped here.        *)
Copy ==
    /\ \E r \in requests :
          /\ requests' = requests \ {r}
          /\ copied' = IF file.onDisk /\ file.name = r.name /\ r.name \notin Excluded
                       THEN copied \union {r.handle} ELSE copied
    /\ UNCHANGED <<file, handle, shc, cleanup, op, draining, issued, failures>>

\* The instance is torn down: no more pre callbacks, post callbacks drain.
Drain ==
    /\ Detaches /\ ~draining
    /\ draining' = TRUE
    /\ UNCHANGED <<file, handle, shc, cleanup, op, requests, copied, issued, failures>>

Operate(o) ==
    \/ Perform(o)
    \/ Forget(o)
    \/ Post(o)
    \/ PostDisposition(o)
    \/ QueryName(o)
    \/ SwapName(o)

Close(h) ==
    \/ Resolve(h)
    \/ Query(h)
    \/ SendSync(h)
    \/ FsCleanup(h)
    \/ PostCleanup(h)

Next ==
    \/ \E h \in Handles : Open(h) \/ AcquireForSection(h) \/ CleanupBegin(h) \/ Close(h)
    \/ \E o \in Ops : Issue(o) \/ Operate(o)
    \/ Copy
    \/ Drain

Spec == Init /\ [][Next]_vars

-----------------------------------------------------------------------------
(* Properties. *)

Phases == {"unopened", "open", "closed"} \union Closing

\* Types.
TypeOK ==
    /\ file \in [name : Names, pending : BOOLEAN, onDisk : BOOLEAN]
    /\ handle \in [Handles -> [phase : Phases, hooked : BOOLEAN, doc : BOOLEAN,
                               wrote : BOOLEAN, did : SUBSET AllKinds, raced : BOOLEAN,
                               calm : BOOLEAN,
                               asked : {0, 1}]]
    /\ shc \in [Handles -> [flags : SUBSET Flags, observed : BOOLEAN, doc : BOOLEAN,
                            current : Names \union {NoName},
                            original : Names \union {NoName}]]
    /\ cleanup \in [Handles -> [snap : SUBSET Flags, name : Names \union {NoName},
                                live : Names \union {NoName}, passive : BOOLEAN,
                                queried : BOOLEAN, completion : BOOLEAN]]
    /\ op \in [Ops -> [phase : {"idle", "issued", "done", "flag", "name", "swap"},
                       handle : Handles \union {NoHandle}, kind : AllKinds,
                       hooked : BOOLEAN, name : Names \union {NoName}]]
    /\ requests \subseteq [handle : Handles, name : Names]
    /\ copied \subseteq Handles
    /\ draining \in BOOLEAN
    /\ issued \in 0 .. MaxOps
    /\ failures \in 0 .. MaxFailures

\* Nothing failed and the instance stayed attached.
Smooth == failures = 0 /\ ~draining

\* The handle is closed, and none of its operations was under way at the time.
ClosedCalmly(h) == handle[h].phase = "closed" /\ handle[h].hooked /\ handle[h].calm

Others(h) == Handles \ {h}

\* A tracked handle that replaced the file when it was opened, or through which it
\* was written, resized, renamed or mapped for writing, makes exactly one request
\* when it is closed, unless its final name is excluded: whatever deletions it set
\* or took back, at whatever level it was cleaned up.  (A FILE_OPEN_IF that creates
\* a file is not among them: the code does not take it for a change.)
ModifiedIsRequested ==
    Smooth => \A h \in Handles :
        ClosedCalmly(h) /\ handle[h].wrote /\ cleanup[h].name \notin Excluded
            => handle[h].asked = 1

\* No request is made for a handle that only read.  One that did no more than set
\* a deletion does make one, against src/README.md:296 and 674-679.
OnlyChangesRequested ==
    \A h \in Handles : handle[h].asked > 0 =>
        /\ handle[h].hooked
        /\ handle[h].wrote \/ handle[h].doc
           \/ handle[h].did \intersect {"delete", "undelete"} # {}

\* When the data goes because of this handle alone, it has been copied before:
\* however its dispositions and their completions were ordered, if DeletePending
\* could be queried.  That includes a handle that did nothing but delete, as
\* src/README.md:170-172 says; lines 296 and 674-679 there say that such a handle
\* makes no capture, which the code (knFcPreCleanup tests for MODIFIED or
\* DELETE_ON_CLOSE and sends either way) contradicts.  The conditions are what the
\* code does not cover: a deletion set through another handle, a path that another
\* handle has changed, and a disposition taken back on a handle opened with
\* FILE_DELETE_ON_CLOSE.
OwnDeletionCaptured ==
    Smooth /\ ~file.onDisk => \A h \in Handles :
        /\ ClosedCalmly(h) /\ cleanup[h].queried
        /\ \A g \in Others(h) : ~handle[g].doc
                                /\ handle[g].did \intersect {"delete", "rename"} = {}
        /\ handle[h].doc => \A g \in Handles : "undelete" \notin handle[g].did
        /\ cleanup[h].name = cleanup[h].live
        => h \in copied

\* A request carries the path the file has when the handle is cleaned up, if the
\* handle's own operations are the only ones that rename it, one after the other:
\* the name a rename has left is preferred to the file's own, and two renames
\* under way at once may leave the older one.
OwnNameIsFinal ==
    Smooth => \A h \in Handles :
        /\ cleanup[h].name # NoName
        /\ handle[h].calm /\ ~handle[h].raced
        /\ \A g \in Others(h) : "rename" \notin handle[g].did
        => cleanup[h].name = cleanup[h].live

\* An open with FILE_DELETE_ON_CLOSE is handled as a deletion at cleanup even if
\* the disposition was taken back, which has no effect on such a handle.
CreateDeleteStays ==
    Smooth => \A h \in Handles :
        ClosedCalmly(h) /\ handle[h].doc /\ cleanup[h].name \notin Excluded
            => "DELETE_ON_CLOSE" \in cleanup[h].snap
=============================================================================
