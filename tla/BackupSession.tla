---------------------------- MODULE BackupSession ----------------------------
(***************************************************************************)
(* A capture request on its way from the driver to disk and back: the      *)
(* sends of src/src/knFcFlt/knFcQueue.cpp, the port's mutex in             *)
(* src/src/knFcFlt/knFcComm.cpp, and the client's one session worker,      *)
(* src/src/knFcUxWpf/BackupWorker.cs, with the manifest and the shutdown   *)
(* of src/src/knFcUxWpf/MainViewModel.cs.                                  *)
(*                                                                         *)
(* A member of Closes is the close of a handle that asks for a capture.    *)
(* One in Sync deletes its file: it sends from the cleanup, which holds    *)
(* the deletion up, and asks the queue when that send fails.  The others   *)
(* ask the queue.  A message is one send: its request id and its message   *)
(* id are its own.  The queue's threads and the cleanups are all waiting   *)
(* at the mutex, and the queue, which BackupQueue models, is left out.     *)
(*                                                                         *)
(* The environment is the filter manager, which may deliver a message      *)
(* again that has been read, the files, whose contents are named by the    *)
(* close that left them, and the operator, who ends the client.  No        *)
(* captured path looks like another with a suffix.                         *)
(***************************************************************************)
EXTENDS Naturals, Sequences, FiniteSets

CONSTANTS
    Closes,             \* closes that ask for a capture
    Sync,               \* those that delete the file
    Paths,
    Path,               \* the path of each close
    NoClose,            \* the contents of a file that is not there
    NoMessage,
    SeenMsgCap,         \* message ids remembered (4096 in the code)
    MaxRedeliveries,    \* bound on messages delivered again
    MaxThrows           \* bound on exceptions in the session worker

Messages == (Sync \X {"sync"}) \union (Closes \X {"async"})
Fallback(m) == <<m[1], "async">>

ASSUME BackupSessionAssumption ==
    /\ Sync \subseteq Closes
    /\ Path \in [Closes -> Paths]
    /\ NoClose \notin Closes
    /\ NoMessage \notin Messages
    /\ SeenMsgCap \in Nat \ {0}
    /\ MaxRedeliveries \in Nat
    /\ MaxThrows \in Nat

VARIABLES
    content,        \* what is under each path: the close that left it
    sender,         \* per message: where its knFcCommSendMessage is
    mutex,          \* the message whose sender owns g_ClientLock
    connected,      \* g_ClientPort is set
    port,           \* messages the client can read
    client,         \* open, cancelled, closed (the manifest), gone (the handle)
    worker,         \* the session worker: where it is, and its local variables
    seen,           \* _seenMsgOrder, with _seenMsgIds
    copies,         \* the session directory
    manifest,       \* the rows of manifest.jsonl
    redeliveries,
    throws,
    history         \* timedOut, fetched, forgotten messages; hurried; ages (below)

driverVars == <<sender, mutex, connected>>
clientVars == <<client, worker, seen, copies, manifest>>
vars == <<content, driverVars, port, clientVars, redeliveries, throws, history>>

\* A destination: the path itself, or with the suffix of a request.
Destinations == [path : Paths, suffix : Messages \union {NoMessage}]
NoDestination == [path |-> NoClose, suffix |-> NoMessage]

NoCopy == [of |-> NoMessage, data |-> NoClose, whole |-> FALSE]

Ready == [at |-> "get", msg |-> NoMessage, data |-> NoClose, dest |-> NoDestination,
          status |-> "ok"]

Init ==
    /\ content = [p \in Paths |-> NoClose]
    /\ sender = [m \in Messages |-> "idle"]
    /\ mutex = NoMessage
    /\ connected = TRUE
    /\ port = {}
    /\ client = "open"
    /\ worker = Ready
    /\ seen = << >>
    /\ copies = [d \in Destinations |-> NoCopy]
    /\ manifest = << >>
    /\ redeliveries = 0
    /\ throws = 0
    /\ history = [timedOut |-> {}, fetched |-> {}, forgotten |-> {}, hurried |-> FALSE,
                  age |-> [m \in Messages |-> 0]]

-----------------------------------------------------------------------------
(* Files. *)

\* A handle is closed; its file is not one that is about to be deleted.
Close(c) ==
    /\ \A m \in Messages : m[1] = c => sender[m] = "idle"
    /\ content[Path[c]] \notin Sync
    /\ content' = [content EXCEPT ![Path[c]] = c]
    /\ sender' = [sender EXCEPT ![<<c, IF c \in Sync THEN "sync" ELSE "async">>] = "waiting"]
    /\ UNCHANGED <<mutex, connected, port, clientVars, redeliveries, throws, history>>

\* The cleanup of a deleting handle goes on when its send has returned.
Delete(c) ==
    /\ c \in Sync
    /\ content[Path[c]] = c
    /\ sender[<<c, "sync">>] \in {"sent", "failed"}
    /\ content' = [content EXCEPT ![Path[c]] = NoClose]
    /\ UNCHANGED <<driverVars, port, clientVars, redeliveries, throws, history>>

-----------------------------------------------------------------------------
(* knFcCommSendMessage and what its callers make of its result. *)

\* STATUS_TIMEOUT is a success code, and a reply that has not come is zero,
\* which is the status of success.
Counted(status, answer) ==
    IF status \in {"success", "timeout"} /\ answer = "ok" THEN "sent" ELSE "failed"

Return_Bug(m, status, answer) ==        \* the mutex is kept if the port breaks
    LET result == Counted(status, answer)
    IN  /\ sender' = [x \in Messages |-> IF x = m THEN result
                          ELSE IF x = Fallback(m) /\ result = "failed" THEN "waiting"
                          ELSE sender[x]]
        /\ mutex' = IF status = "disconnected" THEN mutex ELSE NoMessage

\* FltSendMessage returns, the mutex is released, the result is counted; the
\* queue is asked when a synchronous send has failed.
Return(m, status, answer) ==
    LET result == Counted(status, answer)
    IN  /\ sender' = [x \in Messages |-> IF x = m THEN result
                          ELSE IF x = Fallback(m) /\ result = "failed" THEN "waiting"
                          ELSE sender[x]]
        /\ mutex' = NoMessage

\* The sender has the mutex, and a port to send through or none.
Send(m) ==
    /\ sender[m] = "waiting"
    /\ mutex = NoMessage
    /\ IF connected
       THEN /\ sender' = [sender EXCEPT ![m] = "sending"]
            /\ mutex' = m
            /\ port' = port \union {m}
       ELSE Return(m, "disconnected", "ok") /\ UNCHANGED port
    /\ UNCHANGED <<content, connected, clientVars, redeliveries, throws, history>>

\* Nobody has answered in time; a message not yet read is withdrawn.
TimeOut(m) ==
    /\ sender[m] = "sending"
    /\ Return(m, "timeout", "ok")
    /\ port' = port \ {m}
    /\ history' = [history EXCEPT !.timedOut = @ \union {m}]
    /\ UNCHANGED <<content, connected, clientVars, redeliveries, throws>>

\* The client has gone, and the wait for its answer ends.
Abort(m) ==
    /\ sender[m] = "sending"
    /\ client = "gone"
    /\ Return(m, "disconnected", "ok")
    /\ port' = port \ {m}
    /\ UNCHANGED <<content, connected, clientVars, redeliveries, throws, history>>

Disconnect_Bug ==                       \* does not wait for the sender
    /\ client = "gone" /\ connected
    /\ connected' = FALSE
    /\ UNCHANGED <<content, sender, mutex, port, clientVars, redeliveries, throws, history>>

\* knFcCommDisconnect, which needs the mutex.
Disconnect ==
    /\ client = "gone" /\ connected
    /\ mutex = NoMessage
    /\ connected' = FALSE
    /\ UNCHANGED <<content, sender, mutex, port, clientVars, redeliveries, throws, history>>

\* The filter manager delivers a message again.
Redeliver(m) ==
    /\ client # "gone"
    /\ m \in history.fetched \ port
    /\ redeliveries < MaxRedeliveries
    /\ redeliveries' = redeliveries + 1
    /\ port' = port \union {m}
    /\ UNCHANGED <<content, driverVars, clientVars, throws, history>>

-----------------------------------------------------------------------------
(* WorkerLoop. *)

Known_Bug(m) == seen # << >> /\ seen[Len(seen)] = m     \* only the last one

Known(m) == \E i \in 1 .. Len(seen) : seen[i] = m

\* The loop goes on unless it has been cancelled.
Again == IF client = "open" THEN Ready ELSE [Ready EXCEPT !.at = "stopped"]

Remember_Bug(m) == IF Len(seen) > SeenMsgCap THEN Append(Tail(seen), m) ELSE Append(seen, m)

\* RememberMsgId: the oldest id makes room for a new one.
Remember(m) == IF Len(seen) = SeenMsgCap THEN Append(Tail(seen), m) ELSE Append(seen, m)

\* FilterReplyMessage: heard by a sender that still waits.
Answer(m, answer) ==
    IF sender[m] = "sending" /\ client # "gone"
    THEN Return(m, "success", answer)
    ELSE UNCHANGED <<sender, mutex>>

\* A message whose id is known is answered with success and forgotten.
GetKnown(m) ==
    /\ worker.at = "get" /\ client # "gone"
    /\ m \in port /\ Known(m)
    /\ port' = port \ {m}
    /\ Answer(m, "ok")
    /\ worker' = Again
    /\ UNCHANGED <<content, connected, client, seen, copies, manifest, redeliveries, throws,
                   history>>

\* Another is remembered and served.  As history: how many have been remembered
\* since, and which messages were served again after they had left the window.
GetFresh(m) ==
    /\ worker.at = "get" /\ client # "gone"
    /\ m \in port /\ ~Known(m)
    /\ port' = port \ {m}
    /\ seen' = Remember(m)
    /\ worker' = [Ready EXCEPT !.at = "open", !.msg = m]
    /\ history' = [history EXCEPT
            !.fetched = @ \union {m},
            !.age = [x \in Messages |-> IF x = m THEN 0 ELSE @[x] + 1],
            !.forgotten = IF m \in history.fetched /\ history.age[m] >= SeenMsgCap
                          THEN @ \union {m} ELSE @]
    /\ UNCHANGED <<content, driverVars, client, copies, manifest, redeliveries, throws>>

\* The worker goes on with w and changes nothing else.
Goto(w) ==
    /\ worker' = w
    /\ UNCHANGED <<content, driverVars, port, client, seen, copies, manifest,
                   redeliveries, throws, history>>

\* The disk is full, or the file cannot be opened; what is opened is read as
\* it is at this time, whoever deletes it afterwards.
OpenSource ==
    /\ worker.at = "open"
    /\ \/ Goto([worker EXCEPT !.at = "record", !.status = "failed"])
       \/ /\ content[Path[worker.msg[1]]] # NoClose
          /\ Goto([worker EXCEPT !.at = "name", !.data = content[Path[worker.msg[1]]]])

ChooseName_Bug ==                       \* no suffix
    /\ worker.at = "name"
    /\ Goto([worker EXCEPT !.at = "create",
                           !.dest = [path |-> Path[worker.msg[1]], suffix |-> NoMessage]])

\* The suffix is added if the path is taken.
ChooseName ==
    /\ worker.at = "name"
    /\ LET plain == [path |-> Path[worker.msg[1]], suffix |-> NoMessage]
       IN  Goto([worker EXCEPT !.at = "create",
                    !.dest = IF copies[plain] = NoCopy THEN plain
                             ELSE [plain EXCEPT !.suffix = worker.msg]])

\* CREATE_ALWAYS: what was there before is gone.
CreateCopy ==
    /\ worker.at = "create"
    /\ \/ Goto([worker EXCEPT !.at = "record", !.status = "failed"])
       \/ /\ copies' = [copies EXCEPT ![worker.dest] =
                            [of |-> worker.msg, data |-> worker.data, whole |-> FALSE]]
          /\ worker' = [worker EXCEPT !.at = "copy"]
          /\ UNCHANGED <<content, driverVars, port, client, seen, manifest, redeliveries,
                         throws, history>>

Copy_Bug ==                             \* a read error is taken for the end
    /\ worker.at = "copy"
    /\ worker' = [worker EXCEPT !.at = "record"]
    /\ \E whole \in BOOLEAN : copies' = [copies EXCEPT ![worker.dest].whole = whole]
    /\ UNCHANGED <<content, driverVars, port, client, seen, manifest, redeliveries, throws,
                   history>>

\* Reading and writing go on to the end of the file, or fail.
Copy ==
    /\ worker.at = "copy"
    /\ \/ Goto([worker EXCEPT !.at = "record", !.status = "failed"])
       \/ /\ copies' = [copies EXCEPT ![worker.dest].whole = TRUE]
          /\ worker' = [worker EXCEPT !.at = "record"]
          /\ UNCHANGED <<content, driverVars, port, client, seen, manifest, redeliveries,
                         throws, history>>

\* WriteEntry writes nothing once the manifest is closed.
Record ==
    /\ worker.at = "record"
    /\ manifest' = IF client \in {"open", "cancelled"}
                   THEN Append(manifest, [msg |-> worker.msg, dest |-> worker.dest,
                                          status |-> worker.status])
                   ELSE manifest
    /\ worker' = [worker EXCEPT !.at = "reply"]
    /\ UNCHANGED <<content, driverVars, port, client, seen, copies, redeliveries, throws,
                   history>>

Reply ==
    /\ worker.at = "reply"
    /\ Answer(worker.msg, worker.status)
    /\ worker' = Again
    /\ UNCHANGED <<content, connected, port, client, seen, copies, manifest, redeliveries,
                   throws, history>>

\* An exception in DoBackup, in WriteEntry or in OnBackup: the message is not
\* answered.
Throw ==
    /\ worker.at \in {"name", "create", "copy", "record", "reply"}
    /\ throws < MaxThrows
    /\ throws' = throws + 1
    /\ worker' = Again
    /\ UNCHANGED <<content, driverVars, port, client, seen, copies, manifest, redeliveries,
                   history>>

\* FilterGetMessage is cancelled or has no port.  A message may yet arrive
\* before that, if the loop had tested for cancellation already.
LoopEnds == worker.at = "get" /\ client # "open" /\ Goto([Ready EXCEPT !.at = "stopped"])

-----------------------------------------------------------------------------
(* Shutdown. *)

Cancel ==
    /\ client = "open"
    /\ client' = "cancelled"
    /\ UNCHANGED <<content, driverVars, port, worker, seen, copies, manifest, redeliveries,
                   throws, history>>

\* The worker is waited for, but not for ever.
CloseManifest ==
    /\ client = "cancelled"
    /\ client' = "closed"
    /\ history' = [history EXCEPT !.hurried = worker.at # "stopped"]
    /\ UNCHANGED <<content, driverVars, port, worker, seen, copies, manifest, redeliveries,
                   throws>>

ClosePort ==
    /\ client = "closed"
    /\ client' = "gone"
    /\ UNCHANGED <<content, driverVars, port, worker, seen, copies, manifest, redeliveries,
                   throws, history>>

\* The process ends, in its time or not.
Die ==
    /\ worker.at # "stopped"
    /\ client' = "gone"
    /\ worker' = [Ready EXCEPT !.at = "stopped"]
    /\ UNCHANGED <<content, driverVars, port, seen, copies, manifest, redeliveries, throws,
                   history>>

-----------------------------------------------------------------------------
SenderStep == \E m \in Messages : Send(m) \/ TimeOut(m) \/ Abort(m)

WorkerStep ==
    \/ \E m \in Messages : GetKnown(m) \/ GetFresh(m)
    \/ OpenSource
    \/ ChooseName
    \/ CreateCopy
    \/ Copy
    \/ Record
    \/ Reply
    \/ Throw
    \/ LoopEnds

Next ==
    \/ \E c \in Closes : Close(c) \/ Delete(c)
    \/ SenderStep
    \/ Disconnect
    \/ \E m \in Messages : Redeliver(m)
    \/ WorkerStep
    \/ Cancel
    \/ CloseManifest
    \/ ClosePort
    \/ Die

Spec == Init /\ [][Next]_vars

\* Senders are threads that run, and a send is answered or times out.  Nothing
\* is assumed of the client.
FairSpec == Spec /\ WF_vars(SenderStep)

-----------------------------------------------------------------------------
(* Properties. *)

Places == {"get", "open", "name", "create", "copy", "record", "reply", "stopped"}
Statuses == {"ok", "failed"}

\* Types; the window of remembered ids does not outgrow its cap.
TypeOK ==
    /\ content \in [Paths -> Closes \union {NoClose}]
    /\ sender \in [Messages -> {"idle", "waiting", "sending", "sent", "failed"}]
    /\ mutex \in Messages \union {NoMessage}
    /\ connected \in BOOLEAN
    /\ port \subseteq Messages
    /\ client \in {"open", "cancelled", "closed", "gone"}
    /\ worker \in [at : Places, msg : Messages \union {NoMessage},
                   data : Closes \union {NoClose},
                   dest : Destinations \union {NoDestination}, status : Statuses]
    /\ seen \in Seq(Messages) /\ Len(seen) <= SeenMsgCap
    /\ copies \in [Destinations -> [of : Messages \union {NoMessage},
                                    data : Closes \union {NoClose}, whole : BOOLEAN]]
    /\ manifest \in Seq([msg : Messages, dest : Destinations \union {NoDestination},
                         status : Statuses])
    /\ redeliveries \in 0 .. MaxRedeliveries
    /\ throws \in 0 .. MaxThrows

RowsOf(m) == {i \in 1 .. Len(manifest) : manifest[i].msg = m}

\* A message that the driver counts as sent because it was answered has a row
\* that says so, and a whole copy; that of a deleting handle is what the handle
\* left, copied before the file went.  The client has thrown no exception, and
\* has not been ended while it copied; the message was not served a second time,
\* over its own copy, because its id had left the window.
AnsweredIsRecorded ==
    throws = 0 /\ ~history.hurried => \A m \in Messages \ history.forgotten :
        sender[m] = "sent" /\ m \notin history.timedOut =>
            \E i \in RowsOf(m) :
                /\ manifest[i].status = "ok"
                /\ copies[manifest[i].dest].whole
                /\ m[2] = "sync" => copies[manifest[i].dest].data = m[1]

\* A row that says "ok" names a whole copy made for its message: no later
\* capture, redelivery or crash overwrites it, but for a redelivery of the same
\* message after its id had left the window.
RowsTrue ==
    \A i \in 1 .. Len(manifest) :
        manifest[i].status = "ok" /\ manifest[i].msg \notin history.forgotten =>
            /\ copies[manifest[i].dest].whole
            /\ copies[manifest[i].dest].of = manifest[i].msg

\* A message has one row at most, however often it is delivered, while its id is
\* among the last SeenMsgCap.
OneRow == \A m \in Messages \ history.forgotten : Cardinality(RowsOf(m)) <= 1

\* The port through which a message is being sent is not closed under it, and
\* whoever owns the mutex is sending.
PortHeldOpen ==
    \A m \in Messages : sender[m] = "sending" <=> mutex = m /\ connected

\* Senders that wait for the mutex or for an answer get on, whatever the client
\* does and however often the port breaks: again and again there is none.
SendsReturn == []<>(\A m \in Messages : sender[m] \notin {"waiting", "sending"})

\* A synchronous send that timed out before the client read it is tried again
\* through the queue.
RetriedAfterTimeout ==
    \A c \in Sync : <<c, "sync">> \in history.timedOut \ history.fetched =>
        sender[<<c, "async">>] # "idle"
=============================================================================
