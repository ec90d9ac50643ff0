------------------------ MODULE BackupSession_proofs ------------------------
(* Types, and the mutex of the port, proved for any number of senders. *)
EXTENDS BackupSession, SequenceTheorems, FiniteSetTheorems, TLAPS

\* What the senders, the mutex and the port range over.
PortTypes ==
    /\ sender \in [Messages -> {"idle", "waiting", "sending", "sent", "failed"}]
    /\ mutex \in Messages \union {NoMessage}
    /\ connected \in BOOLEAN

\* The owner of the mutex has been given it while there was a port, and the
\* port stays as long as the mutex is held.
OwnerHasPort == mutex # NoMessage => connected

PortInv == PortTypes /\ OwnerHasPort /\ PortHeldOpen

\* Nobody has asked anything of the port at first.
LEMMA PortInit == Init => PortInv
  BY BackupSessionAssumption DEF Init, PortInv, PortTypes, OwnerHasPort, PortHeldOpen

\* A result is one of the two.
LEMMA CountedType ==
    ASSUME NEW status, NEW answer
    PROVE  Counted(status, answer) \in {"sent", "failed"}
  BY DEF Counted

\* A send that returns gives the mutex back.  The fallback of a synchronous
\* message is another message, and it is left waiting.
LEMMA ReturnKeeps ==
    ASSUME PortInv, NEW m \in Messages, sender[m] = "sending" \/ mutex = NoMessage,
           NEW status, NEW answer, Return(m, status, answer), UNCHANGED connected
    PROVE  PortInv'
  <1> DEFINE result == Counted(status, answer)
  <1>1. result \in {"sent", "failed"}
    BY CountedType
  <1> HIDE DEF result
  <1>2. /\ sender' = [x \in Messages |-> IF x = m THEN result
                          ELSE IF x = Fallback(m) /\ result = "failed" THEN "waiting"
                          ELSE sender[x]]
        /\ mutex' = NoMessage
    BY DEF Return, result
  <1>3. PortTypes' /\ OwnerHasPort'
    BY <1>1, <1>2 DEF PortInv, PortTypes, OwnerHasPort
  <1>4. ASSUME NEW x \in Messages PROVE sender'[x] # "sending"
    <2>1. CASE x = m
      BY <1>1, <1>2, <2>1
    <2>2. CASE x # m
      <3>1. sender[x] # "sending"
        BY <2>2, BackupSessionAssumption DEF PortInv, PortTypes, PortHeldOpen
      <3> QED BY <1>2, <2>2, <3>1
    <2> QED BY <2>1, <2>2
  <1> QED BY <1>2, <1>3, <1>4, BackupSessionAssumption DEF PortInv, PortHeldOpen

\* An answer is heard by the sender that holds the mutex, or by none.
LEMMA AnswerKeeps ==
    ASSUME PortInv, NEW m \in Messages, NEW answer, Answer(m, answer), UNCHANGED connected
    PROVE  PortInv'
  <1>1. CASE sender[m] = "sending" /\ client # "gone"
    BY <1>1, ReturnKeeps DEF Answer
  <1>2. CASE ~(sender[m] = "sending" /\ client # "gone")
    BY <1>2 DEF Answer, PortInv, PortTypes, OwnerHasPort, PortHeldOpen
  <1> QED BY <1>1, <1>2

\* A close makes a message wait that has not been sent.
LEMMA CloseKeeps ==
    ASSUME PortInv, NEW c \in Closes, Close(c)
    PROVE  PortInv'
  <1> DEFINE m == <<c, IF c \in Sync THEN "sync" ELSE "async">>
  <1>1. m \in Messages /\ m[1] = c
    BY DEF Messages
  <1>2. sender[m] = "idle"
    BY <1>1 DEF Close
  <1>3. sender' = [sender EXCEPT ![m] = "waiting"] /\ UNCHANGED <<mutex, connected>>
    BY DEF Close
  <1> HIDE DEF m
  <1> QED BY <1>1, <1>2, <1>3 DEF PortInv, PortTypes, OwnerHasPort, PortHeldOpen

\* A sender takes the free mutex and goes on if there is a port.
LEMMA SendKeeps ==
    ASSUME PortInv, NEW m \in Messages, Send(m)
    PROVE  PortInv'
  <1>1. CASE connected
    BY <1>1, BackupSessionAssumption
    DEF Send, PortInv, PortTypes, OwnerHasPort, PortHeldOpen
  <1>2. CASE ~connected
    BY <1>2, ReturnKeeps DEF Send
  <1> QED BY <1>1, <1>2

\* Disconnect waits for the mutex.
LEMMA DisconnectKeeps ==
    ASSUME PortInv, Disconnect
    PROVE  PortInv'
  BY BackupSessionAssumption
  DEF Disconnect, PortInv, PortTypes, OwnerHasPort, PortHeldOpen

\* Whoever works for the client alone leaves the port alone.
LEMMA OthersKeep ==
    ASSUME PortInv, UNCHANGED driverVars
    PROVE  PortInv'
  BY DEF driverVars, PortInv, PortTypes, OwnerHasPort, PortHeldOpen

-----------------------------------------------------------------------------
(* The client. *)

WorkerType == [at : Places, msg : Messages \union {NoMessage},
               data : Closes \union {NoClose},
               dest : Destinations \union {NoDestination}, status : Statuses]
RowType == [msg : Messages, dest : Destinations \union {NoDestination}, status : Statuses]
CopyType == [of : Messages \union {NoMessage}, data : Closes \union {NoClose},
             whole : BOOLEAN]

\* A worker that is not waiting for a message has one.
Serving == worker.at \notin {"get", "stopped"} => worker.msg \in Messages

WorkTypes ==
    /\ worker \in WorkerType
    /\ Serving
    /\ manifest \in Seq(RowType)
    /\ copies \in [Destinations -> CopyType]

SharedTypes ==
    /\ content \in [Paths -> Closes \union {NoClose}]
    /\ port \subseteq Messages
    /\ client \in {"open", "cancelled", "closed", "gone"}
    /\ seen \in Seq(Messages) /\ Len(seen) <= SeenMsgCap
    /\ redeliveries \in 0 .. MaxRedeliveries
    /\ throws \in 0 .. MaxThrows

LEMMA ReadyType == Ready \in WorkerType /\ Again \in WorkerType
                   /\ Ready.at = "get" /\ Again.at \in {"get", "stopped"}
  <1>1. Ready \in WorkerType
    BY DEF Ready, WorkerType, Places, Statuses
  <1>2. [Ready EXCEPT !.at = "stopped"] \in WorkerType
    BY DEF Ready, WorkerType, Places, Statuses
  <1> QED BY <1>1, <1>2 DEF Again, Ready

\* A new id makes room for itself.
LEMMA RememberType ==
    ASSUME SharedTypes, NEW m \in Messages
    PROVE  Remember(m) \in Seq(Messages) /\ Len(Remember(m)) <= SeenMsgCap
  <1>1. seen \in Seq(Messages) /\ Len(seen) \in Nat /\ Len(seen) <= SeenMsgCap
        /\ SeenMsgCap \in Nat \ {0}
    BY BackupSessionAssumption DEF SharedTypes
  <1>2. CASE Len(seen) = SeenMsgCap
    <2>1. seen # << >>
      BY <1>1, <1>2
    <2>2. Tail(seen) \in Seq(Messages) /\ Len(Tail(seen)) = Len(seen) - 1
      BY <1>1, <2>1
    <2> QED BY <1>1, <1>2, <2>2 DEF Remember
  <1>3. CASE Len(seen) # SeenMsgCap
    BY <1>1, <1>3 DEF Remember
  <1> QED BY <1>2, <1>3

LEMMA WorkInit == Init => WorkTypes /\ SharedTypes
  <1> SUFFICES ASSUME Init PROVE WorkTypes /\ SharedTypes
    OBVIOUS
  <1>1. WorkTypes
    <2>1. worker \in WorkerType /\ Serving
      BY ReadyType DEF Init, Serving
    <2>2. NoCopy \in CopyType
      BY DEF NoCopy, CopyType
    <2> QED BY <2>1, <2>2 DEF Init, WorkTypes
  <1>2. SharedTypes
    BY BackupSessionAssumption DEF Init, SharedTypes
  <1> QED BY <1>1, <1>2

\* Actions that are not the worker's, but for the end of the process.
LEMMA WorkUnchanged ==
    ASSUME WorkTypes, UNCHANGED <<worker, manifest, copies>>
    PROVE  WorkTypes'
  BY DEF WorkTypes, Serving

\* The worker steps on with its message.
LEMMA GotoKeeps ==
    ASSUME WorkTypes, NEW w \in WorkerType, w.msg = worker.msg,
           worker.at \notin {"get", "stopped"}, worker' = w,
           UNCHANGED <<manifest, copies>>
    PROVE  WorkTypes'
  BY DEF WorkTypes, Serving

\* The worker has done with its message.
LEMMA AgainKeeps ==
    ASSUME WorkTypes, NEW w \in WorkerType, w.at \in {"get", "stopped"}, worker' = w,
           UNCHANGED <<manifest, copies>>
    PROVE  WorkTypes'
  BY DEF WorkTypes, Serving

LEMMA WorkStep ==
    ASSUME WorkTypes, SharedTypes, Next
    PROVE  WorkTypes'
  <1> USE DEF Places, Statuses
  <1>1. ASSUME NEW c \in Closes, Close(c) \/ Delete(c) PROVE WorkTypes'
    BY <1>1, WorkUnchanged DEF Close, Delete, clientVars
  <1>2. CASE SenderStep \/ Disconnect \/ Cancel \/ CloseManifest \/ ClosePort
    BY <1>2, WorkUnchanged
    DEF SenderStep, Send, TimeOut, Abort, Disconnect, Cancel, CloseManifest, ClosePort,
        clientVars
  <1>3. ASSUME NEW m \in Messages, Redeliver(m) PROVE WorkTypes'
    BY <1>3, WorkUnchanged DEF Redeliver, clientVars
  <1>4. ASSUME NEW m \in Messages, GetKnown(m) PROVE WorkTypes'
    BY <1>4, AgainKeeps, ReadyType DEF GetKnown
  <1>5. ASSUME NEW m \in Messages, GetFresh(m) PROVE WorkTypes'
    <2>1. worker' = [Ready EXCEPT !.at = "open", !.msg = m]
          /\ UNCHANGED <<manifest, copies>>
      BY <1>5 DEF GetFresh
    <2>2. worker' \in WorkerType /\ worker'.msg = m
      BY <2>1, ReadyType DEF WorkerType, Ready
    <2> QED BY <2>1, <2>2 DEF WorkTypes, Serving
  <1>6. CASE OpenSource
    <2>1. PICK w : Goto(w) /\ (\/ w = [worker EXCEPT !.at = "record", !.status = "failed"]
                               \/ /\ content[Path[worker.msg[1]]] # NoClose
                                  /\ w = [worker EXCEPT !.at = "name",
                                                 !.data = content[Path[worker.msg[1]]]])
      BY <1>6 DEF OpenSource
    <2>2. worker \in WorkerType /\ worker.msg \in Messages /\ worker.at = "open"
      BY <1>6 DEF OpenSource, WorkTypes, Serving
    <2>3. content[Path[worker.msg[1]]] \in Closes \union {NoClose}
      <3>1. worker.msg[1] \in Closes
        BY <2>2, BackupSessionAssumption DEF Messages
      <3> QED BY <3>1, BackupSessionAssumption DEF SharedTypes
    <2>4. w \in WorkerType /\ w.msg = worker.msg
      BY <2>1, <2>2, <2>3 DEF WorkerType
    <2> QED BY <2>1, <2>2, <2>4, GotoKeeps DEF Goto
  <1>7. CASE ChooseName
    <2> DEFINE plain == [path |-> Path[worker.msg[1]], suffix |-> NoMessage]
               d == IF copies[plain] = NoCopy THEN plain
                    ELSE [plain EXCEPT !.suffix = worker.msg]
    <2>1. Goto([worker EXCEPT !.at = "create", !.dest = d])
      BY <1>7 DEF ChooseName
    <2>2. worker \in WorkerType /\ worker.msg \in Messages /\ worker.at = "name"
      BY <1>7 DEF ChooseName, WorkTypes, Serving
    <2>3. d \in Destinations
      <3>1. worker.msg[1] \in Closes
        BY <2>2, BackupSessionAssumption DEF Messages
      <3>2. Path[worker.msg[1]] \in Paths
        BY <3>1, BackupSessionAssumption
      <3>3. plain \in Destinations /\ [plain EXCEPT !.suffix = worker.msg] \in Destinations
        BY <2>2, <3>2 DEF Destinations
      <3> QED BY <3>3
    <2> HIDE DEF d
    <2>4. [worker EXCEPT !.at = "create", !.dest = d] \in WorkerType
      BY <2>2, <2>3 DEF WorkerType
    <2> QED BY <2>1, <2>2, <2>4, GotoKeeps DEF Goto, WorkerType
  <1>8. CASE CreateCopy \/ Copy
    <2>1. worker \in WorkerType /\ worker.msg \in Messages /\ worker.at \in {"create", "copy"}
      BY <1>8 DEF CreateCopy, Copy, WorkTypes, Serving
    <2>2. PICK w : /\ worker' = w
                   /\ w \in {[worker EXCEPT !.at = "record", !.status = "failed"],
                             [worker EXCEPT !.at = "copy"], [worker EXCEPT !.at = "record"]}
      BY <1>8 DEF CreateCopy, Copy, Goto
    <2>3. w \in WorkerType /\ w.msg = worker.msg
      BY <2>1, <2>2 DEF WorkerType
    <2>4. worker' \in WorkerType /\ Serving'
      BY <2>1, <2>2, <2>3 DEF Serving
    <2>5. manifest' = manifest
      BY <1>8 DEF CreateCopy, Copy, Goto
    <2>6. copies' \in [Destinations -> CopyType]
      <3>1. copies \in [Destinations -> CopyType]
        BY DEF WorkTypes
      <3>2. [of |-> worker.msg, data |-> worker.data, whole |-> FALSE] \in CopyType
        BY <2>1 DEF WorkerType, CopyType
      <3>3. CASE CreateCopy
        BY <3>1, <3>2, <3>3 DEF CreateCopy, Goto
      <3>4. CASE Copy
        <4>1. CASE UNCHANGED copies
          BY <3>1, <4>1
        <4>2. CASE copies' = [copies EXCEPT ![worker.dest].whole = TRUE]
          <5>1. ASSUME NEW c \in CopyType PROVE [c EXCEPT !.whole = TRUE] \in CopyType
            BY DEF CopyType
          <5> QED BY <3>1, <4>2, <5>1
        <4> QED BY <3>4, <4>1, <4>2 DEF Copy, Goto
      <3> QED BY <1>8, <3>3, <3>4
    <2> QED BY <2>4, <2>5, <2>6 DEF WorkTypes
  <1>9. CASE Record
    <2>1. worker \in WorkerType /\ worker.msg \in Messages /\ manifest \in Seq(RowType)
      BY <1>9 DEF Record, WorkTypes, Serving
    <2>2. [msg |-> worker.msg, dest |-> worker.dest, status |-> worker.status] \in RowType
      BY <2>1 DEF WorkerType, RowType
    <2>3. manifest' \in Seq(RowType)
      BY <1>9, <2>1, <2>2 DEF Record
    <2>4. worker' \in WorkerType /\ worker'.msg = worker.msg
      BY <1>9, <2>1 DEF Record, WorkerType
    <2> QED BY <1>9, <2>1, <2>3, <2>4 DEF Record, WorkTypes, Serving
  <1>10. CASE Reply \/ Throw
    BY <1>10, AgainKeeps, ReadyType DEF Reply, Throw
  <1>11. CASE LoopEnds \/ Die
    <2>1. [Ready EXCEPT !.at = "stopped"] \in WorkerType
      BY DEF Ready, WorkerType
    <2> QED BY <1>11, <2>1, AgainKeeps DEF LoopEnds, Die, Goto, Ready
  <1> QED BY <1>1, <1>2, <1>3, <1>4, <1>5, <1>6, <1>7, <1>8, <1>9, <1>10, <1>11
          DEF Next, WorkerStep

LEMMA SharedStep ==
    ASSUME WorkTypes, SharedTypes, Next
    PROVE  SharedTypes'
  <1>1. ASSUME NEW c \in Closes, Close(c) \/ Delete(c) PROVE SharedTypes'
    BY <1>1 DEF Close, Delete, clientVars, SharedTypes
  <1>2. CASE SenderStep \/ Disconnect
    BY <1>2 DEF SenderStep, Send, TimeOut, Abort, Disconnect, clientVars, SharedTypes
  <1>3. ASSUME NEW m \in Messages, Redeliver(m) PROVE SharedTypes'
    BY <1>3, BackupSessionAssumption DEF Redeliver, clientVars, SharedTypes
  <1>4. ASSUME NEW m \in Messages, GetKnown(m) PROVE SharedTypes'
    BY <1>4 DEF GetKnown, SharedTypes
  <1>5. ASSUME NEW m \in Messages, GetFresh(m) PROVE SharedTypes'
    BY <1>5, RememberType DEF GetFresh, SharedTypes
  <1>6. CASE OpenSource \/ ChooseName \/ CreateCopy \/ Copy \/ Record \/ Reply \/ LoopEnds
    BY <1>6
    DEF OpenSource, ChooseName, CreateCopy, Copy, Record, Reply, LoopEnds, Goto, SharedTypes
  <1>7. CASE Throw
    BY <1>7, BackupSessionAssumption DEF Throw, SharedTypes
  <1>8. CASE Cancel \/ CloseManifest \/ ClosePort \/ Die
    BY <1>8 DEF Cancel, CloseManifest, ClosePort, Die, SharedTypes
  <1> QED BY <1>1, <1>2, <1>3, <1>4, <1>5, <1>6, <1>7, <1>8 DEF Next, WorkerStep

-----------------------------------------------------------------------------
(* The whole. *)

IInv == PortInv /\ WorkTypes /\ SharedTypes

\* Every step keeps the invariant.
LEMMA PortStep ==
    ASSUME PortInv, WorkTypes, [Next]_vars
    PROVE  PortInv'
  <1>1. ASSUME NEW c \in Closes, Close(c) \/ Delete(c) PROVE PortInv'
    BY <1>1, CloseKeeps, OthersKeep DEF Delete
  <1>2. CASE SenderStep
    <2>1. PICK m \in Messages : Send(m) \/ TimeOut(m) \/ Abort(m)
      BY <1>2 DEF SenderStep
    <2>2. CASE Send(m)
      BY <2>2, SendKeeps
    <2>3. CASE TimeOut(m)
      BY <2>3, ReturnKeeps DEF TimeOut
    <2>4. CASE Abort(m)
      BY <2>4, ReturnKeeps DEF Abort
    <2> QED BY <2>1, <2>2, <2>3, <2>4
  <1>3. CASE Disconnect
    BY <1>3, DisconnectKeeps
  <1>4. ASSUME NEW m \in Messages, Redeliver(m) PROVE PortInv'
    BY <1>4, OthersKeep DEF Redeliver
  <1>5. CASE WorkerStep
    <2>1. ASSUME NEW m \in Messages, GetKnown(m) PROVE PortInv'
      BY <2>1, AnswerKeeps DEF GetKnown
    <2>2. ASSUME NEW m \in Messages, GetFresh(m) PROVE PortInv'
      BY <2>2, OthersKeep DEF GetFresh
    <2>3. CASE OpenSource \/ ChooseName \/ CreateCopy \/ Copy \/ Record \/ Throw \/ LoopEnds
      BY <2>3, OthersKeep
      DEF OpenSource, ChooseName, CreateCopy, Copy, Record, Throw, LoopEnds, Goto
    <2>4. CASE Reply
      <3>1. worker.msg \in Messages
        BY <2>4 DEF Reply, WorkTypes, Serving
      <3> QED BY <2>4, <3>1, AnswerKeeps DEF Reply
    <2> QED BY <1>5, <2>1, <2>2, <2>3, <2>4 DEF WorkerStep
  <1>6. CASE Cancel \/ CloseManifest \/ ClosePort \/ Die
    BY <1>6, OthersKeep DEF Cancel, CloseManifest, ClosePort, Die
  <1>7. CASE UNCHANGED vars
    BY <1>7, OthersKeep DEF vars
  <1> QED BY <1>1, <1>2, <1>3, <1>4, <1>5, <1>6, <1>7 DEF Next

LEMMA Invariance == Spec => []IInv
  <1>1. Init => IInv
    BY PortInit, WorkInit DEF IInv
  <1>2. IInv /\ [Next]_vars => IInv'
    <2> SUFFICES ASSUME IInv, [Next]_vars PROVE IInv'
      OBVIOUS
    <2>1. CASE Next
      BY <2>1, PortStep, WorkStep, SharedStep DEF IInv
    <2>2. CASE UNCHANGED vars
      <3>1. WorkTypes'
        BY <2>2, WorkUnchanged DEF vars, clientVars, IInv
      <3>2. SharedTypes'
        BY <2>2 DEF vars, clientVars, SharedTypes, IInv
      <3> QED BY <2>2, <3>1, <3>2, PortStep DEF IInv
    <2> QED BY <2>1, <2>2
  <1> QED BY <1>1, <1>2, PTL DEF Spec

\* The types hold for any number of closes and any window of ids, which never
\* holds more than its cap.
THEOREM TypeCorrect == Spec => []TypeOK
  <1>1. IInv => TypeOK
    BY DEF IInv, PortInv, PortTypes, WorkTypes, SharedTypes, WorkerType, RowType, CopyType,
           TypeOK
  <1> QED BY Invariance, <1>1, PTL

\* knFcCommSendMessage sends through a port that stays open, one sender at a
\* time, for any number of senders and whatever the client does.
THEOREM PortIsHeldOpen == Spec => []PortHeldOpen
  <1>1. IInv => PortHeldOpen
    BY DEF IInv, PortInv
  <1> QED BY Invariance, <1>1, PTL

-----------------------------------------------------------------------------
(* One row per message. *)

HistoryType ==
    history \in [timedOut : SUBSET Messages, fetched : SUBSET Messages,
                 forgotten : SUBSET Messages, hurried : BOOLEAN, age : [Messages -> Nat]]

\* An id that fewer than SeenMsgCap others have followed is where its age says.
Window ==
    \A m \in history.fetched : history.age[m] < SeenMsgCap =>
        /\ history.age[m] < Len(seen)
        /\ seen[Len(seen) - history.age[m]] = m

RowsFetched == \A i \in 1 .. Len(manifest) : manifest[i].msg \in history.fetched

Single ==
    \A m \in Messages \ history.forgotten : \A i, j \in RowsOf(m) : i = j

\* Until its row is written the message being served has none.
Unrecorded ==
    worker.at \in {"open", "name", "create", "copy", "record"} =>
        /\ worker.msg \in history.fetched
        /\ worker.msg \notin history.forgotten => RowsOf(worker.msg) = {}

RowInv == HistoryType /\ Window /\ RowsFetched /\ Single /\ Unrecorded

LEMMA RowInit == Init => RowInv
  <1> SUFFICES ASSUME Init PROVE RowInv
    OBVIOUS
  <1>1. history = [timedOut |-> {}, fetched |-> {}, forgotten |-> {}, hurried |-> FALSE,
                   age |-> [m \in Messages |-> 0]]
    BY DEF Init
  <1>2. HistoryType
    BY <1>1 DEF HistoryType
  <1>3. Window /\ RowsFetched /\ Single /\ Unrecorded
    BY <1>1 DEF Init, Ready, Window, RowsFetched, Single, Unrecorded, RowsOf
  <1> QED BY <1>2, <1>3 DEF RowInv

\* Steps of the worker that write no row and take no message, and steps of
\* others that only add to the history what the rows do not depend on.
LEMMA RowsUnchanged ==
    ASSUME RowInv, UNCHANGED <<seen, manifest>>, HistoryType',
           history'.fetched = history.fetched, history'.forgotten = history.forgotten,
           history'.age = history.age,
           \/ worker'.msg = worker.msg /\ worker.at \in {"open", "name", "create", "copy", "record"}
           \/ worker' = worker
           \/ worker'.at \in {"get", "stopped", "reply"}
    PROVE  RowInv'
  <1>1. Window' /\ RowsFetched' /\ Single'
    BY DEF RowInv, Window, RowsFetched, Single, RowsOf
  <1>2. Unrecorded'
    BY DEF RowInv, Unrecorded, RowsOf
  <1> QED BY <1>1, <1>2 DEF RowInv

\* A new id moves the others one place back; what had a row and is not known
\* any more is counted as forgotten.
LEMMA FreshKeeps ==
    ASSUME RowInv, WorkTypes, SharedTypes, NEW m \in Messages, GetFresh(m)
    PROVE  RowInv'
  <1> DEFINE stale == m \in history.fetched /\ history.age[m] >= SeenMsgCap
  <1>1. /\ seen' = Remember(m)
        /\ manifest' = manifest
        /\ worker' = [Ready EXCEPT !.at = "open", !.msg = m]
        /\ history'.fetched = history.fetched \union {m}
        /\ history'.age = [x \in Messages |-> IF x = m THEN 0 ELSE history.age[x] + 1]
        /\ history'.forgotten = IF stale THEN history.forgotten \union {m}
                               ELSE history.forgotten
        /\ ~Known(m)
    BY DEF GetFresh, RowInv, HistoryType
  <1>2. HistoryType'
    <2> DEFINE fetched == history.fetched \union {m}
               age == [x \in Messages |-> IF x = m THEN 0 ELSE history.age[x] + 1]
               forgotten == IF stale THEN history.forgotten \union {m} ELSE history.forgotten
    <2>1. /\ fetched \in SUBSET Messages /\ forgotten \in SUBSET Messages
          /\ age \in [Messages -> Nat]
      BY DEF RowInv, HistoryType
    <2>2. history' = [history EXCEPT !.fetched = fetched, !.age = age,
                                     !.forgotten = forgotten]
      BY DEF GetFresh, RowInv, HistoryType
    <2> HIDE DEF fetched, age, forgotten
    <2> QED BY <2>1, <2>2 DEF RowInv, HistoryType
  <1>3. /\ seen \in Seq(Messages) /\ Len(seen) \in Nat /\ Len(seen) <= SeenMsgCap
        /\ SeenMsgCap \in Nat \ {0}
    BY BackupSessionAssumption DEF SharedTypes
  <1>4. history.fetched \subseteq Messages /\ history.age \in [Messages -> Nat]
    BY DEF RowInv, HistoryType
  <1>5. Window'
    <2> SUFFICES ASSUME NEW x \in history'.fetched, history'.age[x] < SeenMsgCap
                 PROVE  /\ history'.age[x] < Len(seen')
                        /\ seen'[Len(seen') - history'.age[x]] = x
      BY DEF Window
    <2>1. /\ Len(seen') > 0 /\ Len(seen') \in Nat
          /\ seen'[Len(seen')] = m
          /\ Len(seen') = SeenMsgCap \/ Len(seen') = Len(seen) + 1
          /\ \A k \in 0 .. Len(seen) - 1 :
                k + 1 < Len(seen') => seen'[Len(seen') - (k + 1)] = seen[Len(seen) - k]
      <3>1. CASE Len(seen) = SeenMsgCap
        <4>1. seen # << >>
          BY <1>3, <3>1
        <4>2. /\ Tail(seen) \in Seq(Messages) /\ Len(Tail(seen)) = Len(seen) - 1
              /\ \A i \in 1 .. Len(seen) - 1 : Tail(seen)[i] = seen[i + 1]
          BY <1>3, <4>1
        <4>3. seen' = Append(Tail(seen), m)
          BY <1>1, <3>1 DEF Remember
        <4>4. /\ Len(seen') = Len(seen) /\ seen'[Len(seen')] = m
              /\ \A i \in 1 .. Len(seen) - 1 : seen'[i] = seen[i + 1]
          BY <1>3, <4>2, <4>3
        <4> QED BY <1>3, <3>1, <4>4
      <3>2. CASE Len(seen) # SeenMsgCap
        <4>1. seen' = Append(seen, m)
          BY <1>1, <3>2 DEF Remember
        <4>2. /\ Len(seen') = Len(seen) + 1 /\ seen'[Len(seen')] = m
              /\ \A i \in 1 .. Len(seen) : seen'[i] = seen[i]
          BY <1>3, <4>1
        <4> QED BY <1>3, <3>2, <4>2
      <3> QED BY <3>1, <3>2
    <2>2. CASE x = m
      BY <1>1, <2>1, <2>2
    <2>3. CASE x # m
      <3>1. /\ x \in history.fetched /\ x \in Messages
            /\ history'.age[x] = history.age[x] + 1 /\ history.age[x] \in Nat
        BY <1>1, <1>4, <2>3
      <3>2. history.age[x] < Len(seen) /\ seen[Len(seen) - history.age[x]] = x
        BY <1>3, <3>1 DEF RowInv, Window
      <3>3. history.age[x] + 1 < Len(seen')
        BY <1>3, <2>1, <3>1, <3>2
      <3>4. history.age[x] \in 0 .. Len(seen) - 1
        BY <1>3, <3>1, <3>2
      <3>5. seen'[Len(seen') - (history.age[x] + 1)] = x
        BY <2>1, <3>2, <3>3, <3>4
      <3> QED BY <3>1, <3>3, <3>5
    <2> QED BY <2>2, <2>3
  <1>6. RowsFetched' /\ Single'
    BY <1>1 DEF RowInv, RowsFetched, Single, RowsOf
  <1>7. m \in history.fetched => stale
    <2> SUFFICES ASSUME m \in history.fetched, history.age[m] < SeenMsgCap PROVE FALSE
      BY <1>3, <1>4
    <2>1. history.age[m] < Len(seen) /\ seen[Len(seen) - history.age[m]] = m
      BY DEF RowInv, Window
    <2>2. Len(seen) - history.age[m] \in 1 .. Len(seen)
      BY <1>3, <1>4, <2>1
    <2> QED BY <1>1, <2>1, <2>2 DEF Known
  <1>8. Unrecorded'
    <2>1. worker'.at = "open" /\ worker'.msg = m
      BY <1>1 DEF Ready
    <2>2. m \notin history'.forgotten => RowsOf(m)' = {}
      BY <1>1, <1>7 DEF RowInv, RowsFetched, RowsOf
    <2> QED BY <1>1, <2>1, <2>2 DEF Unrecorded, RowsOf
  <1> QED BY <1>2, <1>5, <1>6, <1>8 DEF RowInv

\* The row written is the first of its message, or that message was forgotten.
LEMMA RecordKeeps ==
    ASSUME RowInv, WorkTypes, Record
    PROVE  RowInv'
  <1>1. /\ worker.at = "record" /\ worker'.at = "reply"
        /\ UNCHANGED <<seen, history>>
        /\ worker.msg \in history.fetched
        /\ worker.msg \notin history.forgotten => RowsOf(worker.msg) = {}
    BY DEF Record, WorkTypes, WorkerType, RowInv, Unrecorded
  <1>2. CASE manifest' = manifest
    BY <1>1, <1>2, RowsUnchanged DEF RowInv, HistoryType
  <1>3. CASE manifest' # manifest
    <2>1. manifest' = Append(manifest, [msg |-> worker.msg, dest |-> worker.dest,
                                        status |-> worker.status])
      BY <1>3 DEF Record
    <2>2. manifest \in Seq(RowType) /\ Len(manifest) \in Nat
      BY DEF WorkTypes
    <2>3. [msg |-> worker.msg, dest |-> worker.dest, status |-> worker.status] \in RowType
      BY <1>1 DEF WorkTypes, Serving, WorkerType, RowType
    <2>4. /\ Len(manifest') = Len(manifest) + 1
          /\ manifest'[Len(manifest) + 1].msg = worker.msg
          /\ \A i \in 1 .. Len(manifest) : manifest'[i] = manifest[i]
      BY <2>1, <2>2, <2>3
    <2>5. RowsFetched'
      BY <1>1, <2>2, <2>4 DEF RowInv, RowsFetched
    <2>6. Single'
      <3> SUFFICES ASSUME NEW m \in Messages \ history.forgotten,
                          NEW i \in RowsOf(m)', NEW j \in RowsOf(m)'
                   PROVE  i = j
        BY <1>1 DEF Single
      <3>1. CASE m = worker.msg
        BY <1>1, <2>2, <2>4, <3>1 DEF RowsOf
      <3>2. CASE m # worker.msg
        <4>1. i \in RowsOf(m) /\ j \in RowsOf(m)
          BY <2>2, <2>4, <3>2 DEF RowsOf
        <4> QED BY <4>1 DEF RowInv, Single
      <3> QED BY <3>1, <3>2
    <2>7. HistoryType' /\ Window' /\ Unrecorded'
      BY <1>1 DEF RowInv, HistoryType, Window, Unrecorded
    <2> QED BY <2>5, <2>6, <2>7 DEF RowInv
  <1> QED BY <1>2, <1>3

LEMMA RowStep ==
    ASSUME RowInv, WorkTypes, SharedTypes, [Next]_vars
    PROVE  RowInv'
  <1> USE DEF RowInv
  <1>1. ASSUME NEW c \in Closes, Close(c) \/ Delete(c) PROVE RowInv'
    BY <1>1, RowsUnchanged DEF Close, Delete, clientVars, HistoryType
  <1>2. CASE SenderStep
    <2>1. PICK m \in Messages : Send(m) \/ TimeOut(m) \/ Abort(m)
      BY <1>2 DEF SenderStep
    <2>2. CASE Send(m) \/ Abort(m)
      BY <2>2, RowsUnchanged DEF Send, Abort, clientVars, HistoryType
    <2>3. CASE TimeOut(m)
      <3>1. /\ HistoryType' /\ history'.fetched = history.fetched
            /\ history'.forgotten = history.forgotten /\ history'.age = history.age
        BY <2>3 DEF TimeOut, HistoryType
      <3> QED BY <2>3, <3>1, RowsUnchanged DEF TimeOut, clientVars
    <2> QED BY <2>1, <2>2, <2>3
  <1>3. CASE Disconnect \/ Cancel \/ ClosePort
    BY <1>3, RowsUnchanged DEF Disconnect, Cancel, ClosePort, clientVars, HistoryType
  <1>4. CASE CloseManifest
    <2>1. history' = [history EXCEPT !.hurried = worker.at # "stopped"]
          /\ UNCHANGED <<seen, manifest, worker>>
      BY <1>4 DEF CloseManifest
    <2>2. (worker.at # "stopped") \in BOOLEAN
      OBVIOUS
    <2>3. /\ HistoryType' /\ history'.fetched = history.fetched
          /\ history'.forgotten = history.forgotten /\ history'.age = history.age
      BY <2>1, <2>2, Zenon DEF HistoryType
    <2> QED BY <2>1, <2>3, RowsUnchanged
  <1>5. ASSUME NEW m \in Messages, Redeliver(m) PROVE RowInv'
    BY <1>5, RowsUnchanged DEF Redeliver, clientVars, HistoryType
  <1>6. ASSUME NEW m \in Messages, GetKnown(m) PROVE RowInv'
    BY <1>6, RowsUnchanged, ReadyType DEF GetKnown, HistoryType
  <1>7. ASSUME NEW m \in Messages, GetFresh(m) PROVE RowInv'
    BY <1>7, FreshKeeps
  <1>8. CASE OpenSource \/ ChooseName \/ CreateCopy \/ Copy
    <2>1. worker \in WorkerType /\ worker.at \in {"open", "name", "create", "copy"}
      BY <1>8 DEF OpenSource, ChooseName, CreateCopy, Copy, WorkTypes
    <2>2. worker'.msg = worker.msg /\ UNCHANGED <<seen, manifest, history>>
      BY <1>8, <2>1 DEF OpenSource, ChooseName, CreateCopy, Copy, Goto, WorkerType
    <2> QED BY <2>1, <2>2, RowsUnchanged DEF HistoryType
  <1>9. CASE Record
    BY <1>9, RecordKeeps
  <1>10. CASE Reply \/ Throw
    BY <1>10, RowsUnchanged, ReadyType DEF Reply, Throw, HistoryType
  <1>11. CASE LoopEnds \/ Die
    BY <1>11, RowsUnchanged DEF LoopEnds, Die, Goto, Ready, HistoryType
  <1>12. CASE UNCHANGED vars
    BY <1>12, RowsUnchanged DEF vars, clientVars, HistoryType
  <1> QED BY <1>1, <1>2, <1>3, <1>4, <1>5, <1>6, <1>7, <1>8, <1>9, <1>10, <1>11, <1>12
          DEF Next, WorkerStep

\* However often the filter manager delivers a message, and however the client
\* ends, its manifest has one row for it at most while its id is among the last
\* SeenMsgCap, for every cap and any number of closes.
THEOREM OneRowEach == Spec => []OneRow
  <1>1. Init => RowInv
    BY RowInit
  <1>2. IInv /\ RowInv /\ [Next]_vars => RowInv'
    BY RowStep DEF IInv
  <1>3. RowInv => OneRow
    <2> SUFFICES ASSUME RowInv, NEW m \in Messages \ history.forgotten
                 PROVE  Cardinality(RowsOf(m)) <= 1
      BY DEF OneRow
    <2>1. CASE RowsOf(m) = {}
      BY <2>1, FS_EmptySet
    <2>2. CASE RowsOf(m) # {}
      <3>1. PICK i : RowsOf(m) = {i}
        BY <2>2 DEF RowInv, Single
      <3> QED BY <3>1, FS_Singleton
    <2> QED BY <2>1, <2>2
  <1> QED BY Invariance, <1>1, <1>2, <1>3, PTL DEF Spec
-----------------------------------------------------------------------------
(* What the rows say of the copies. *)

\* A copy keeps its suffix for the message that it was made for; what the worker
\* is about to create is nobody else's; what it has created is its own.
CopyInv ==
    /\ \A d \in Destinations :
          copies[d].of = NoMessage \/ d.suffix \in {NoMessage, copies[d].of}
    /\ worker.at \in {"open", "name", "create", "copy"} => worker.status = "ok"
    /\ worker.at = "create" =>
          /\ worker.dest \in Destinations
          /\ worker.dest.suffix \in {NoMessage, worker.msg}
          /\ copies[worker.dest].of \in {NoMessage, worker.msg}
    /\ worker.at = "copy" \/ (worker.at = "record" /\ worker.status = "ok") =>
          /\ worker.dest \in Destinations
          /\ copies[worker.dest].of = worker.msg
          /\ copies[worker.dest].data = worker.data
    /\ worker.at = "record" /\ worker.status = "ok" => copies[worker.dest].whole
    /\ \A i \in 1 .. Len(manifest) : manifest[i].status = "ok" =>
          manifest[i].dest \in Destinations

\* Only messages that were sent can be read, and the fallback of a synchronous
\* message is made when that one has failed.
SentInv ==
    /\ \A i \in 1 .. Len(seen) : seen[i] \in history.fetched
    /\ worker.at \notin {"get", "stopped"} => worker.msg \in history.fetched
    /\ \A m \in port \union history.fetched : sender[m] \notin {"idle", "waiting"}
    /\ \A c \in Sync : sender[<<c, "sync">>] \in {"idle", "waiting", "sending"} =>
          sender[<<c, "async">>] = "idle"
    /\ \A c \in Sync : sender[<<c, "sync">>] \in {"waiting", "sending"} =>
          content[Path[c]] = c

\* A message that was read and whose sender waits is the one being served, unless
\* an exception has lost it or the client is gone.
Busy ==
    throws = 0 /\ client # "gone" => \A m \in history.fetched :
        sender[m] = "sending" => worker.at \notin {"get", "stopped"} /\ worker.msg = m

\* What is served for a deleting handle is what the handle left.
DataInv ==
    \A c \in Sync :
        /\ worker.at \notin {"get", "stopped", "open"} /\ worker.status = "ok"
        /\ worker.msg = <<c, "sync">> /\ sender[worker.msg] = "sending"
        => worker.data = c

\* The worker has stopped before the manifest is closed, or was hurried.
StopInv ==
    /\ client \in {"open", "cancelled"} => ~history.hurried
    /\ client \in {"closed", "gone"} /\ ~history.hurried => worker.at = "stopped"

\* A row that says "ok" and names a copy of these data.
SavedRow(m, data) ==
    \E i \in RowsOf(m) : /\ manifest[i].status = "ok"
                         /\ copies[manifest[i].dest].data = data

\* The row precedes the answer.
AnswerInv ==
    ~history.hurried =>
        /\ worker.at = "reply" /\ worker.status = "ok"
           /\ worker.msg \notin history.forgotten => SavedRow(worker.msg, worker.data)
        /\ throws = 0 => \A m \in Messages \ history.forgotten :
              sender[m] = "sent" /\ m \notin history.timedOut =>
                  \E data \in Closes \union {NoClose} :
                      SavedRow(m, data) /\ (m[2] = "sync" => data = m[1])

SavedInv == CopyInv /\ RowsTrue /\ SentInv /\ Busy /\ DataInv /\ StopInv /\ AnswerInv

\* Steps that create nothing and write no row, after which the worker is where it
\* was or has done with its message.
LEMMA CopiesUnchanged ==
    ASSUME SavedInv, UNCHANGED <<copies, manifest>>,
           history.forgotten \subseteq history'.forgotten,
           \/ worker' = worker
           \/ worker'.at \in {"get", "stopped", "reply"}
           \/ worker'.at \in {"open", "name"} /\ worker'.status = "ok"
           \/ worker'.at = "record" /\ worker'.status # "ok"
    PROVE  CopyInv' /\ RowsTrue'
  <1>1. RowsTrue'
    BY DEF SavedInv, RowsTrue
  <1>a. /\ \A d \in Destinations :
              copies'[d].of = NoMessage \/ d.suffix \in {NoMessage, copies'[d].of}
        /\ \A i \in 1 .. Len(manifest') : manifest'[i].status = "ok" =>
              manifest'[i].dest \in Destinations
    BY DEF SavedInv, CopyInv
  <1>2. CASE worker' = worker
    BY <1>1, <1>a, <1>2 DEF SavedInv, CopyInv
  <1>3. CASE worker'.at \in {"get", "stopped", "reply"}
    BY <1>1, <1>a, <1>3 DEF CopyInv
  <1>4. CASE worker'.at \in {"open", "name"} /\ worker'.status = "ok"
    BY <1>1, <1>a, <1>4 DEF CopyInv
  <1>5. CASE worker'.at = "record" /\ worker'.status # "ok"
    BY <1>1, <1>a, <1>5 DEF CopyInv
  <1> QED BY <1>1, <1>2, <1>3, <1>4, <1>5

\* What the steps of others leave to the worker.
LEMMA OthersFrame ==
    ASSUME RowInv,
           \/ \E c \in Closes : Close(c) \/ Delete(c)
           \/ SenderStep
           \/ Disconnect \/ Cancel \/ CloseManifest \/ ClosePort
           \/ \E m \in Messages : Redeliver(m)
           \/ UNCHANGED vars
    PROVE  /\ UNCHANGED <<worker, seen, copies, manifest>>
           /\ history'.fetched = history.fetched /\ history'.forgotten = history.forgotten
           /\ history.timedOut \subseteq history'.timedOut
  <1>1. CASE \E c \in Closes : Close(c) \/ Delete(c)
    BY <1>1 DEF Close, Delete, clientVars
  <1>2. CASE SenderStep
    BY <1>2 DEF SenderStep, Send, TimeOut, Abort, clientVars, RowInv, HistoryType
  <1>3. CASE Disconnect \/ Cancel \/ ClosePort \/ \E m \in Messages : Redeliver(m)
    BY <1>3 DEF Disconnect, Cancel, ClosePort, Redeliver, clientVars
  <1>4. CASE CloseManifest
    BY <1>4 DEF CloseManifest, RowInv, HistoryType
  <1>5. CASE UNCHANGED vars
    BY <1>5 DEF vars, clientVars
  <1> QED BY <1>1, <1>2, <1>3, <1>4, <1>5

\* What a fresh message does to the history.
LEMMA FreshFrame ==
    ASSUME RowInv, NEW m \in Messages, GetFresh(m)
    PROVE  /\ UNCHANGED <<content, sender, client, copies, manifest, throws>>
           /\ worker.at = "get" /\ client # "gone" /\ m \in port
           /\ port' = port \ {m} /\ seen' = Remember(m)
           /\ worker'.at = "open" /\ worker'.msg = m /\ worker'.status = "ok"
           /\ history'.fetched = history.fetched \union {m}
           /\ history.forgotten \subseteq history'.forgotten
           /\ history'.timedOut = history.timedOut
           /\ history'.hurried = history.hurried
  BY DEF GetFresh, RowInv, HistoryType, Ready, driverVars

\* A new destination is nobody else's, and what is in it belongs to the message.
LEMMA ChooseNameCopies ==
    ASSUME IInv, SavedInv, ChooseName
    PROVE  CopyInv' /\ RowsTrue'
  <1> DEFINE plain == [path |-> Path[worker.msg[1]], suffix |-> NoMessage]
             d == IF copies[plain] = NoCopy THEN plain
                  ELSE [plain EXCEPT !.suffix = worker.msg]
  <1>1. /\ worker' = [worker EXCEPT !.at = "create", !.dest = d]
        /\ UNCHANGED <<copies, manifest, history>> /\ worker.at = "name"
    BY DEF ChooseName, Goto
  <1>2. worker \in WorkerType /\ worker.msg \in Messages /\ worker.status = "ok"
    BY <1>1 DEF IInv, WorkTypes, Serving, SavedInv, CopyInv
  <1>3. /\ plain \in Destinations /\ [plain EXCEPT !.suffix = worker.msg] \in Destinations
        /\ [plain EXCEPT !.suffix = worker.msg].suffix = worker.msg
    <2>1. worker.msg[1] \in Closes
      BY <1>2, BackupSessionAssumption DEF Messages
    <2>2. Path[worker.msg[1]] \in Paths
      BY <2>1, BackupSessionAssumption
    <2> QED BY <1>2, <2>2 DEF Destinations
  <1>4. d \in Destinations /\ d.suffix \in {NoMessage, worker.msg}
        /\ copies[d].of \in {NoMessage, worker.msg}
    <2>1. CASE copies[plain] = NoCopy
      BY <1>3, <2>1 DEF NoCopy
    <2>2. CASE copies[plain] # NoCopy
      <3>1. d = [plain EXCEPT !.suffix = worker.msg]
        BY <2>2
      <3> HIDE DEF d, plain
      <3>2. d \in Destinations /\ d.suffix = worker.msg
        BY <1>3, <3>1
      <3>3. copies[d].of = NoMessage \/ d.suffix \in {NoMessage, copies[d].of}
        BY <3>2 DEF SavedInv, CopyInv
      <3> QED BY <1>2, <3>2, <3>3, BackupSessionAssumption
    <2> QED BY <2>1, <2>2
  <1> HIDE DEF d, plain
  <1>5. worker'.at = "create" /\ worker'.dest = d /\ worker'.msg = worker.msg
        /\ worker'.status = "ok"
    BY <1>1, <1>2 DEF WorkerType
  <1> QED BY <1>1, <1>4, <1>5 DEF SavedInv, CopyInv, RowsTrue

\* A copy is begun over nothing, or over one of the same message that was forgotten
\* since; no row that holds names it.
LEMMA CreateCopyCopies ==
    ASSUME IInv, RowInv, SavedInv, CreateCopy
    PROVE  /\ CopyInv' /\ RowsTrue'
           /\ \A m \in Messages \ history.forgotten : \A data :
                 SavedRow(m, data) => SavedRow(m, data)'
  <1>1. worker.at = "create" /\ worker \in WorkerType /\ worker.msg \in Messages
        /\ worker.status = "ok" /\ UNCHANGED <<manifest, history>>
    BY DEF CreateCopy, Goto, IInv, WorkTypes, Serving, SavedInv, CopyInv
  <1>2. CASE worker' = [worker EXCEPT !.at = "record", !.status = "failed"]
             /\ UNCHANGED copies
    <2>1. worker'.at = "record" /\ worker'.status # "ok"
      BY <1>1, <1>2 DEF WorkerType
    <2> QED BY <1>1, <1>2, <2>1, CopiesUnchanged DEF SavedRow, RowsOf
  <1>3. CASE /\ copies' = [copies EXCEPT ![worker.dest] =
                              [of |-> worker.msg, data |-> worker.data, whole |-> FALSE]]
             /\ worker' = [worker EXCEPT !.at = "copy"]
    <2>1. /\ worker.dest \in Destinations /\ worker.dest.suffix \in {NoMessage, worker.msg}
          /\ copies[worker.dest].of \in {NoMessage, worker.msg}
      BY <1>1 DEF SavedInv, CopyInv
    <2>2. /\ copies'[worker.dest].of = worker.msg /\ copies'[worker.dest].data = worker.data
          /\ \A d \in Destinations : d # worker.dest => copies'[d] = copies[d]
      BY <1>3, <2>1 DEF IInv, WorkTypes
    <2>3. worker'.at = "copy" /\ worker'.dest = worker.dest /\ worker'.msg = worker.msg
          /\ worker'.status = "ok" /\ worker'.data = worker.data
      BY <1>1, <1>3 DEF WorkerType
    <2>4. CopyInv'
      BY <1>1, <2>1, <2>2, <2>3 DEF SavedInv, CopyInv
    <2>5. ASSUME NEW i \in 1 .. Len(manifest), manifest[i].status = "ok",
                 manifest[i].msg \notin history.forgotten
          PROVE  copies'[manifest[i].dest] = copies[manifest[i].dest]
      <3>1. manifest[i].dest \in Destinations /\ copies[manifest[i].dest].of = manifest[i].msg
        BY <2>5 DEF SavedInv, CopyInv, RowsTrue
      <3>2. manifest[i].msg \in Messages
        <4>1. manifest \in Seq(RowType)
          BY DEF IInv, WorkTypes
        <4>2. manifest[i] \in RowType
          BY <4>1
        <4> QED BY <4>2 DEF RowType
      <3>3. manifest[i].msg # worker.msg
        BY <1>1, <2>5 DEF RowInv, Unrecorded, RowsOf
      <3> QED BY <2>1, <2>2, <3>1, <3>2, <3>3, BackupSessionAssumption
    <2>6. RowsTrue'
      BY <1>1, <2>5 DEF SavedInv, RowsTrue
    <2> QED BY <1>1, <2>4, <2>5, <2>6 DEF SavedRow, RowsOf
  <1> QED BY <1>1, <1>2, <1>3 DEF CreateCopy, Goto

\* A copy that is finished is whole; nothing else of any copy changes.
LEMMA CopyCopies ==
    ASSUME IInv, SavedInv, Copy
    PROVE  /\ CopyInv' /\ RowsTrue'
           /\ \A m \in Messages : \A data : SavedRow(m, data) => SavedRow(m, data)'
  <1>1. worker.at = "copy" /\ worker \in WorkerType /\ worker.status = "ok"
        /\ UNCHANGED <<manifest, history>>
    BY DEF Copy, Goto, IInv, WorkTypes, SavedInv, CopyInv
  <1>2. CASE worker' = [worker EXCEPT !.at = "record", !.status = "failed"]
             /\ UNCHANGED copies
    <2>1. worker'.at = "record" /\ worker'.status # "ok"
      BY <1>1, <1>2 DEF WorkerType
    <2> QED BY <1>1, <1>2, <2>1, CopiesUnchanged DEF SavedRow, RowsOf
  <1>3. CASE /\ copies' = [copies EXCEPT ![worker.dest].whole = TRUE]
             /\ worker' = [worker EXCEPT !.at = "record"]
    <2>1. /\ worker.dest \in Destinations /\ copies[worker.dest].of = worker.msg
          /\ copies[worker.dest].data = worker.data
      BY <1>1 DEF SavedInv, CopyInv
    <2>2. /\ copies'[worker.dest].whole
          /\ \A d \in Destinations : /\ copies'[d].of = copies[d].of
                                     /\ copies'[d].data = copies[d].data
                                     /\ d # worker.dest => copies'[d] = copies[d]
      <3>1. copies[worker.dest] \in CopyType
        BY <2>1 DEF IInv, WorkTypes
      <3> QED BY <1>3, <2>1, <3>1 DEF IInv, WorkTypes, CopyType
    <2>3. worker'.at = "record" /\ worker'.dest = worker.dest /\ worker'.msg = worker.msg
          /\ worker'.status = "ok" /\ worker'.data = worker.data
      BY <1>1, <1>3 DEF WorkerType
    <2>4. CopyInv'
      BY <1>1, <2>1, <2>2, <2>3 DEF SavedInv, CopyInv
    <2>5. \A i \in 1 .. Len(manifest) : manifest[i].status = "ok" =>
             manifest[i].dest \in Destinations
      BY DEF SavedInv, CopyInv
    <2>6. RowsTrue'
      BY <1>1, <2>2, <2>5 DEF SavedInv, RowsTrue
    <2> QED BY <1>1, <2>2, <2>4, <2>5, <2>6 DEF SavedRow, RowsOf
  <1> QED BY <1>1, <1>2, <1>3 DEF Copy, Goto

\* A row is written for what has been copied.
LEMMA RecordCopies ==
    ASSUME IInv, SavedInv, Record
    PROVE  /\ CopyInv' /\ RowsTrue'
           /\ \A m \in Messages : \A data : SavedRow(m, data) => SavedRow(m, data)'
           /\ worker.status = "ok" /\ client \in {"open", "cancelled"} =>
                 SavedRow(worker.msg, worker.data)'
  <1>1. /\ worker.at = "record" /\ worker'.at = "reply"
        /\ worker \in WorkerType /\ worker.msg \in Messages
        /\ UNCHANGED <<copies, history>>
    BY DEF Record, IInv, WorkTypes, Serving, WorkerType
  <1>2. CASE manifest' = manifest /\ client \notin {"open", "cancelled"}
    BY <1>1, <1>2, CopiesUnchanged DEF SavedRow, RowsOf
  <1>3. CASE manifest' = Append(manifest, [msg |-> worker.msg, dest |-> worker.dest,
                                           status |-> worker.status])
    <2>1. manifest \in Seq(RowType) /\ Len(manifest) \in Nat
      BY DEF IInv, WorkTypes
    <2>2. [msg |-> worker.msg, dest |-> worker.dest, status |-> worker.status] \in RowType
      BY <1>1 DEF WorkerType, RowType
    <2>3. /\ Len(manifest') = Len(manifest) + 1
          /\ manifest'[Len(manifest) + 1] = [msg |-> worker.msg, dest |-> worker.dest,
                                             status |-> worker.status]
          /\ \A i \in 1 .. Len(manifest) : manifest'[i] = manifest[i]
      BY <1>3, <2>1, <2>2
    <2>4. worker.status = "ok" => /\ worker.dest \in Destinations
                                  /\ copies[worker.dest].of = worker.msg
                                  /\ copies[worker.dest].data = worker.data
                                  /\ copies[worker.dest].whole
      BY <1>1 DEF SavedInv, CopyInv
    <2>5. \A i \in 1 .. Len(manifest') : i \in 1 .. Len(manifest) \/ i = Len(manifest) + 1
      BY <2>1, <2>3
    <2>6. CopyInv'
      BY <1>1, <2>3, <2>4, <2>5 DEF SavedInv, CopyInv
    <2>7. RowsTrue'
      BY <1>1, <2>3, <2>4, <2>5 DEF SavedInv, RowsTrue
    <2>8. \A m \in Messages : \A data : SavedRow(m, data) => SavedRow(m, data)'
      <3>1. \A m : \A i \in RowsOf(m) : i \in RowsOf(m)' /\ manifest'[i] = manifest[i]
        BY <2>1, <2>3 DEF RowsOf
      <3> QED BY <1>1, <3>1 DEF SavedRow
    <2>9. worker.status = "ok" => SavedRow(worker.msg, worker.data)'
      <3>1. worker'.msg = worker.msg /\ worker'.data = worker.data
        BY <1>1 DEF Record, WorkerType
      <3>2. Len(manifest) + 1 \in 1 .. Len(manifest')
        BY <2>1, <2>3
      <3> QED BY <1>1, <2>3, <2>4, <3>1, <3>2 DEF SavedRow, RowsOf
    <2> QED BY <2>6, <2>7, <2>8, <2>9
  <1> QED BY <1>2, <1>3 DEF Record

\* No step harms the copies that rows name.
LEMMA CopyStep ==
    ASSUME IInv, RowInv, SavedInv, [Next]_vars
    PROVE  CopyInv' /\ RowsTrue'
  <1>1. CASE \/ \E c \in Closes : Close(c) \/ Delete(c)
             \/ SenderStep
             \/ Disconnect \/ Cancel \/ CloseManifest \/ ClosePort
             \/ \E m \in Messages : Redeliver(m)
             \/ UNCHANGED vars
    BY <1>1, OthersFrame, CopiesUnchanged
  <1>2. ASSUME NEW m \in Messages, GetKnown(m) PROVE CopyInv' /\ RowsTrue'
    BY <1>2, ReadyType, CopiesUnchanged DEF GetKnown
  <1>3. ASSUME NEW m \in Messages, GetFresh(m) PROVE CopyInv' /\ RowsTrue'
    BY <1>3, FreshFrame, CopiesUnchanged
  <1>4. CASE OpenSource
    <2>1. worker \in WorkerType /\ worker.status = "ok"
      BY <1>4 DEF OpenSource, IInv, WorkTypes, SavedInv, CopyInv
    <2>2. \/ worker'.at = "record" /\ worker'.status # "ok"
          \/ worker'.at = "name" /\ worker'.status = "ok"
      BY <1>4, <2>1 DEF OpenSource, Goto, WorkerType
    <2> QED BY <1>4, <2>2, CopiesUnchanged DEF OpenSource, Goto
  <1>5. CASE Reply \/ Throw \/ LoopEnds \/ Die
    <2>1. worker'.at \in {"get", "stopped"}
      BY <1>5, ReadyType DEF Reply, Throw, LoopEnds, Die, Goto, Ready
    <2> QED BY <1>5, <2>1, CopiesUnchanged DEF Reply, Throw, LoopEnds, Die, Goto
  <1>6. CASE ChooseName \/ CreateCopy \/ Copy \/ Record
    BY <1>6, ChooseNameCopies, CreateCopyCopies, CopyCopies, RecordCopies
  <1> QED BY <1>1, <1>2, <1>3, <1>4, <1>5, <1>6 DEF Next, WorkerStep

-----------------------------------------------------------------------------
(* The senders. *)

\* A sender gets on; its failure may make the queue's message wait.
Sends(m) ==
    /\ sender[m] \in {"waiting", "sending"} /\ sender'[m] \in {"sending", "sent", "failed"}
    /\ \A x \in Messages : x # m =>
          \/ sender'[x] = sender[x]
          \/ /\ sender[x] = "idle" /\ sender'[x] = "waiting" /\ sender'[m] = "failed"
             /\ x[2] = "async" /\ m = <<x[1], "sync">> /\ x[1] \in Sync

LEMMA ReturnSends ==
    ASSUME IInv, SavedInv, NEW m \in Messages, sender[m] \in {"waiting", "sending"},
           NEW status, NEW answer, Return(m, status, answer)
    PROVE  Sends(m) /\ sender'[m] = Counted(status, answer)
  <1> DEFINE result == Counted(status, answer)
  <1>1. result \in {"sent", "failed"}
    BY CountedType
  <1> HIDE DEF result
  <1>2. sender' = [x \in Messages |-> IF x = m THEN result
                          ELSE IF x = Fallback(m) /\ result = "failed" THEN "waiting"
                          ELSE sender[x]]
    BY DEF Return, result
  <1>3. sender'[m] = result
    BY <1>2
  <1>4. ASSUME NEW x \in Messages, x # m, sender'[x] # sender[x]
        PROVE  /\ sender[x] = "idle" /\ sender'[x] = "waiting" /\ result = "failed"
               /\ x[2] = "async" /\ m = <<x[1], "sync">> /\ x[1] \in Sync
    <2>1. x = Fallback(m) /\ result = "failed" /\ sender'[x] = "waiting"
      BY <1>2, <1>4
    <2>2. PICK c \in Closes : m = <<c, "async">> \/ (c \in Sync /\ m = <<c, "sync">>)
      BY BackupSessionAssumption DEF Messages
    <2>3. c \in Sync /\ m = <<c, "sync">> /\ x = <<c, "async">>
      BY <1>4, <2>1, <2>2 DEF Fallback
    <2>4. sender[x] = "idle"
      BY <2>3 DEF SavedInv, SentInv
    <2> QED BY <2>1, <2>3, <2>4
  <1> QED BY <1>1, <1>3, <1>4 DEF Sends, result

LEMMA AnswerSends ==
    ASSUME IInv, SavedInv, NEW m \in Messages, NEW answer, Answer(m, answer)
    PROVE  \/ UNCHANGED sender
           \/ /\ sender[m] = "sending" /\ client # "gone" /\ Sends(m)
              /\ sender'[m] = Counted("success", answer)
  BY ReturnSends DEF Answer

\* Each step of a sender, and what it does with the port.
LEMMA SenderSends ==
    ASSUME IInv, SavedInv, NEW m \in Messages, Send(m) \/ TimeOut(m) \/ Abort(m)
    PROVE  /\ Sends(m)
           /\ port' \subseteq port \union {m}
           /\ sender'[m] = "sent" => m \in history'.timedOut
  <1>1. sender \in [Messages -> {"idle", "waiting", "sending", "sent", "failed"}]
        /\ port \subseteq Messages
    BY DEF IInv, PortInv, PortTypes, SharedTypes
  <1>2. CASE Send(m)
    <2>1. CASE connected
      BY <1>1, <1>2, <2>1 DEF Send, Sends
    <2>2. CASE ~connected
      <3>1. Sends(m) /\ sender'[m] = Counted("disconnected", "ok")
        BY <1>2, <2>2, ReturnSends DEF Send
      <3> QED BY <1>2, <2>2, <3>1 DEF Send, Counted
    <2> QED BY <2>1, <2>2
  <1>3. CASE TimeOut(m)
    <2>1. Sends(m)
      BY <1>3, ReturnSends DEF TimeOut
    <2>2. history' = [history EXCEPT !.timedOut = history.timedOut \union {m}]
      BY <1>3 DEF TimeOut
    <2> QED BY <1>3, <2>1, <2>2 DEF TimeOut
  <1>4. CASE Abort(m)
    <2>1. Sends(m) /\ sender'[m] = Counted("disconnected", "ok")
      BY <1>4, ReturnSends DEF Abort
    <2> QED BY <1>4, <2>1 DEF Abort, Counted
  <1> QED BY <1>2, <1>3, <1>4

\* A sender that gets on keeps to the order of the two messages of a close.
LEMMA SendsKeep ==
    ASSUME SavedInv, NEW m \in Messages, Sends(m), port' \subseteq port \union {m},
           UNCHANGED <<content, seen>>, history'.fetched = history.fetched,
           history.fetched \subseteq Messages, port \subseteq Messages,
           worker' = worker \/ worker'.at \in {"get", "stopped"}
    PROVE  SentInv'
  <1>1. \A x \in Messages : sender[x] \notin {"idle", "waiting"} =>
           sender'[x] \notin {"idle", "waiting"}
    BY DEF Sends
  <1>2. sender'[m] \notin {"idle", "waiting"} /\ sender[m] # "idle"
    BY DEF Sends
  <1>3. \A x \in port' \union history.fetched : sender'[x] \notin {"idle", "waiting"}
    BY <1>1, <1>2 DEF SavedInv, SentInv
  <1>4. ASSUME NEW c \in Sync
        PROVE  /\ sender'[<<c, "sync">>] \in {"idle", "waiting", "sending"} =>
                     sender'[<<c, "async">>] = "idle"
               /\ sender'[<<c, "sync">>] \in {"waiting", "sending"} => content[Path[c]] = c
    <2> DEFINE s == <<c, "sync">>
               a == <<c, "async">>
    <2>1. s \in Messages /\ a \in Messages /\ s # a /\ s[2] = "sync"
          /\ a[1] = c
      BY BackupSessionAssumption DEF Messages
    <2>2. /\ sender[s] \in {"idle", "waiting", "sending"} => sender[a] = "idle"
          /\ sender[s] \in {"waiting", "sending"} => content[Path[c]] = c
      BY DEF SavedInv, SentInv
    <2> HIDE DEF s, a
    <2>3. sender'[s] \in {"waiting", "sending"} => sender[s] \in {"waiting", "sending"}
      BY <2>1 DEF Sends
    <2>4. sender'[s] = "idle" => sender[s] = "idle"
      BY <2>1 DEF Sends
    <2>5. sender'[s] # "failed" /\ sender[a] = "idle" => sender'[a] = "idle"
      BY <1>2, <2>1 DEF Sends, s
    <2>6. /\ sender'[s] \in {"idle", "waiting", "sending"} => sender'[a] = "idle"
          /\ sender'[s] \in {"waiting", "sending"} => content[Path[c]] = c
      BY <2>2, <2>3, <2>4, <2>5
    <2> QED BY <2>6 DEF s, a
  <1>5. /\ \A i \in 1 .. Len(seen') : seen'[i] \in history'.fetched
        /\ worker'.at \notin {"get", "stopped"} => worker'.msg \in history'.fetched
    BY DEF SavedInv, SentInv
  <1> QED BY <1>3, <1>4, <1>5 DEF SentInv

\* The senders do not change, and the worker has no other message than before.
LEMMA SentUnchanged ==
    ASSUME SavedInv, UNCHANGED <<sender, seen>>, port' \subseteq port \union history.fetched,
           history'.fetched = history.fetched,
           \/ UNCHANGED content
           \/ \E c \in Sync : /\ sender[<<c, "sync">>] \notin {"waiting", "sending"}
                              /\ content[Path[c]] = c
                              /\ content' = [content EXCEPT ![Path[c]] = NoClose],
           \/ worker' = worker
           \/ worker'.at \in {"get", "stopped"}
           \/ worker.at \notin {"get", "stopped"} /\ worker'.msg = worker.msg,
           content \in [Paths -> Closes \union {NoClose}]
    PROVE  SentInv'
  <1>1. /\ \A i \in 1 .. Len(seen') : seen'[i] \in history'.fetched
        /\ worker'.at \notin {"get", "stopped"} => worker'.msg \in history'.fetched
    BY DEF SavedInv, SentInv
  <1>2. \A m \in port' \union history'.fetched : sender'[m] \notin {"idle", "waiting"}
    BY DEF SavedInv, SentInv
  <1>3. \A c \in Sync : sender'[<<c, "sync">>] \in {"idle", "waiting", "sending"} =>
           sender'[<<c, "async">>] = "idle"
    BY DEF SavedInv, SentInv
  <1>4. ASSUME NEW c \in Sync, sender[<<c, "sync">>] \in {"waiting", "sending"}
        PROVE  content'[Path[c]] = c
    <2>1. content[Path[c]] = c /\ Path[c] \in Paths
      BY <1>4, BackupSessionAssumption DEF SavedInv, SentInv
    <2>2. CASE UNCHANGED content
      BY <2>1, <2>2
    <2>3. ASSUME NEW d \in Sync, sender[<<d, "sync">>] \notin {"waiting", "sending"},
                 content[Path[d]] = d, content' = [content EXCEPT ![Path[d]] = NoClose]
          PROVE  content'[Path[c]] = c
      <3>1. Path[d] # Path[c]
        BY <1>4, <2>1, <2>3
      <3> QED BY <2>1, <2>3, <3>1
    <2> QED BY <2>2, <2>3
  <1> QED BY <1>1, <1>2, <1>3, <1>4 DEF SentInv

\* The first send of a close.
LEMMA CloseSent ==
    ASSUME IInv, RowInv, SavedInv, NEW c \in Closes, Close(c)
    PROVE  SentInv' /\ \A m \in Messages : sender'[m] \in {sender[m], "waiting"}
  <1> DEFINE n == <<c, IF c \in Sync THEN "sync" ELSE "async">>
  <1>1. /\ \A m \in Messages : m[1] = c => sender[m] = "idle"
        /\ content[Path[c]] \notin Sync
        /\ content' = [content EXCEPT ![Path[c]] = c]
        /\ sender' = [sender EXCEPT ![n] = "waiting"]
        /\ UNCHANGED <<port, worker, seen, history>>
    BY DEF Close, clientVars
  <1>2. n \in Messages /\ n[1] = c
    BY DEF Messages
  <1>3. c \in Sync => n = <<c, "sync">>
    OBVIOUS
  <1>4. c \notin Sync => n = <<c, "async">>
    OBVIOUS
  <1> HIDE DEF n
  <1>5. /\ sender'[n] = "waiting" /\ sender[n] = "idle"
        /\ \A m \in Messages : m # n => sender'[m] = sender[m]
    BY <1>1, <1>2 DEF IInv, PortInv, PortTypes
  <1>6. \A m \in port' \union history'.fetched : sender'[m] \notin {"idle", "waiting"}
    <2>1. port \subseteq Messages /\ history.fetched \subseteq Messages
      BY DEF IInv, SharedTypes, RowInv, HistoryType
    <2>2. n \notin port \union history.fetched
      BY <1>5 DEF SavedInv, SentInv
    <2> QED BY <1>1, <1>5, <2>1, <2>2 DEF SavedInv, SentInv
  <1>7. ASSUME NEW d \in Sync
        PROVE  /\ sender'[<<d, "sync">>] \in {"idle", "waiting", "sending"} =>
                     sender'[<<d, "async">>] = "idle"
               /\ sender'[<<d, "sync">>] \in {"waiting", "sending"} => content'[Path[d]] = d
    <2>1. /\ <<d, "sync">> \in Messages /\ <<d, "async">> \in Messages
          /\ Path[d] \in Paths /\ Path[c] \in Paths
      BY BackupSessionAssumption DEF Messages
    <2>2. CASE d = c
      <3>1. sender'[<<c, "async">>] = "idle"
        BY <1>1, <1>2, <1>3, <1>5, <2>1, <2>2
      <3>2. content'[Path[c]] = c
        BY <1>1, <2>1 DEF IInv, SharedTypes
      <3> QED BY <2>2, <3>1, <3>2
    <2>3. CASE d # c
      <3>1. <<d, "sync">> # n /\ <<d, "async">> # n
        BY <1>2, <2>3
      <3>2. /\ sender'[<<d, "sync">>] = sender[<<d, "sync">>]
            /\ sender'[<<d, "async">>] = sender[<<d, "async">>]
        BY <1>5, <2>1, <3>1
      <3>3. sender[<<d, "sync">>] \in {"waiting", "sending"} => content[Path[d]] = d
        BY DEF SavedInv, SentInv
      <3>4. content[Path[d]] = d => content'[Path[d]] = d
        BY <1>1, <2>1 DEF IInv, SharedTypes
      <3> QED BY <3>2, <3>3, <3>4 DEF SavedInv, SentInv
    <2> QED BY <2>2, <2>3
  <1>8. /\ \A i \in 1 .. Len(seen') : seen'[i] \in history'.fetched
        /\ worker'.at \notin {"get", "stopped"} => worker'.msg \in history'.fetched
    BY <1>1 DEF SavedInv, SentInv
  <1> QED BY <1>5, <1>6, <1>7, <1>8 DEF SentInv

LEMMA SentStep ==
    ASSUME IInv, RowInv, SavedInv, [Next]_vars
    PROVE  SentInv'
  <1>1. /\ history.fetched \subseteq Messages /\ port \subseteq Messages
        /\ content \in [Paths -> Closes \union {NoClose}]
    BY DEF IInv, SharedTypes, RowInv, HistoryType
  <1>2. ASSUME NEW c \in Closes, Close(c) PROVE SentInv'
    BY <1>2, CloseSent
  <1>3. ASSUME NEW c \in Closes, Delete(c) PROVE SentInv'
    BY <1>1, <1>3, SentUnchanged DEF Delete, driverVars, clientVars
  <1>4. ASSUME NEW m \in Messages, Send(m) \/ TimeOut(m) \/ Abort(m) PROVE SentInv'
    <2>1. UNCHANGED <<content, seen, worker>> /\ history'.fetched = history.fetched
      BY <1>4 DEF Send, TimeOut, Abort, clientVars, RowInv, HistoryType
    <2> QED BY <1>1, <1>4, <2>1, SenderSends, SendsKeep
  <1>5. CASE Disconnect \/ Cancel \/ CloseManifest \/ ClosePort \/ UNCHANGED vars
    <2>1. UNCHANGED <<sender, seen, port, content>>
      BY <1>5 DEF Disconnect, Cancel, CloseManifest, ClosePort, vars, clientVars, driverVars
    <2> QED BY <1>1, <1>5, <2>1, OthersFrame, SentUnchanged
  <1>6. ASSUME NEW m \in Messages, Redeliver(m) PROVE SentInv'
    BY <1>1, <1>6, SentUnchanged DEF Redeliver, driverVars, clientVars
  <1>7. ASSUME NEW m \in Messages, GetKnown(m) PROVE SentInv'
    <2>1. /\ UNCHANGED <<content, seen, history>> /\ port' \subseteq port
          /\ worker'.at \in {"get", "stopped"}
      BY <1>7, ReadyType DEF GetKnown
    <2>2. UNCHANGED sender \/ Sends(m)
      BY <1>7, AnswerSends DEF GetKnown
    <2> QED BY <1>1, <2>1, <2>2, SentUnchanged, SendsKeep
  <1>8. ASSUME NEW m \in Messages, GetFresh(m) PROVE SentInv'
    <2>1. \A i \in 1 .. Len(seen') : seen'[i] \in history'.fetched
      <3>1. seen \in Seq(Messages) /\ Len(seen) \in Nat /\ SeenMsgCap \in Nat \ {0}
        BY BackupSessionAssumption DEF IInv, SharedTypes
      <3>2. CASE Len(seen) = SeenMsgCap
        <4>1. seen # << >>
          BY <3>1, <3>2
        <4>2. /\ Tail(seen) \in Seq(Messages) /\ Len(Tail(seen)) = Len(seen) - 1
              /\ \A i \in 1 .. Len(seen) - 1 : Tail(seen)[i] = seen[i + 1]
          BY <3>1, <4>1
        <4>3. seen' = Append(Tail(seen), m)
          BY <1>8, <3>2, FreshFrame DEF Remember
        <4>4. /\ Len(seen') = Len(seen) /\ seen'[Len(seen')] = m
              /\ \A i \in 1 .. Len(seen) - 1 : seen'[i] = seen[i + 1]
          BY <3>1, <4>2, <4>3
        <4>5. \A i \in 1 .. Len(seen) : i = Len(seen) \/ i \in 1 .. Len(seen) - 1
          BY <3>1
        <4>6. \A i \in 1 .. Len(seen) - 1 : i + 1 \in 1 .. Len(seen)
          BY <3>1
        <4> QED BY <1>8, <4>4, <4>5, <4>6, FreshFrame DEF SavedInv, SentInv
      <3>3. CASE Len(seen) # SeenMsgCap
        <4>1. seen' = Append(seen, m)
          BY <1>8, <3>3, FreshFrame DEF Remember
        <4>2. /\ Len(seen') = Len(seen) + 1 /\ seen'[Len(seen) + 1] = m
              /\ \A i \in 1 .. Len(seen) : seen'[i] = seen[i]
          BY <3>1, <4>1
        <4>3. \A i \in 1 .. Len(seen) + 1 : i = Len(seen) + 1 \/ i \in 1 .. Len(seen)
          BY <3>1
        <4> QED BY <1>8, <4>2, <4>3, FreshFrame DEF SavedInv, SentInv
      <3> QED BY <3>2, <3>3
    <2>2. worker'.msg \in history'.fetched
      BY <1>8, FreshFrame
    <2>3. \A x \in port' \union history'.fetched : sender'[x] \notin {"idle", "waiting"}
      BY <1>8, FreshFrame DEF SavedInv, SentInv
    <2>4. UNCHANGED <<content, sender>>
      BY <1>8, FreshFrame
    <2> QED BY <2>1, <2>2, <2>3, <2>4 DEF SavedInv, SentInv
  <1>9. CASE OpenSource \/ ChooseName \/ CreateCopy \/ Copy \/ Record
    <2>1. worker.at \notin {"get", "stopped"} /\ worker'.msg = worker.msg
      <3>1. worker \in WorkerType
        BY DEF IInv, WorkTypes
      <3> QED BY <1>9, <3>1
              DEF OpenSource, ChooseName, CreateCopy, Copy, Record, Goto, WorkerType
    <2>2. UNCHANGED <<content, sender, port, seen, history>>
      BY <1>9 DEF OpenSource, ChooseName, CreateCopy, Copy, Record, Goto, driverVars
    <2> QED BY <1>1, <2>1, <2>2, SentUnchanged
  <1>10. CASE Reply
    <2>1. worker.msg \in Messages /\ worker'.at \in {"get", "stopped"}
          /\ UNCHANGED <<content, seen, port, history>>
      BY <1>10, ReadyType DEF Reply, IInv, WorkTypes, Serving
    <2>2. UNCHANGED sender \/ Sends(worker.msg)
      BY <1>10, <2>1, AnswerSends DEF Reply
    <2>3. CASE UNCHANGED sender
      BY <1>1, <2>1, <2>3, SentUnchanged
    <2>4. PICK m \in Messages : m = worker.msg
      BY <2>1
    <2>5. CASE Sends(worker.msg)
      <3>1. Sends(m)
        BY <2>4, <2>5
      <3> QED BY <1>1, <2>1, <3>1, SendsKeep
    <2> QED BY <2>2, <2>3, <2>5
  <1>11. CASE Throw \/ LoopEnds \/ Die
    <2>1. worker'.at \in {"get", "stopped"} /\ UNCHANGED <<content, sender, port, seen, history>>
      BY <1>11, ReadyType DEF Throw, LoopEnds, Die, Goto, Ready, driverVars
    <2> QED BY <1>1, <2>1, SentUnchanged
  <1> QED BY <1>2, <1>3, <1>4, <1>5, <1>6, <1>7, <1>8, <1>9, <1>10, <1>11
          DEF Next, SenderStep, WorkerStep

\* The worker stops before the manifest is closed, or the history says it did not.
LEMMA StopStep ==
    ASSUME IInv, RowInv, SavedInv, [Next]_vars
    PROVE  StopInv' /\ (history.hurried => history'.hurried)
  <1>1. CASE CloseManifest
    <2>1. history' = [history EXCEPT !.hurried = worker.at # "stopped"]
          /\ worker' = worker /\ client' = "closed" /\ client = "cancelled"
      BY <1>1 DEF CloseManifest
    <2>2. history'.hurried <=> worker.at # "stopped"
      BY <2>1, Zenon DEF RowInv, HistoryType
    <2> QED BY <2>1, <2>2 DEF SavedInv, StopInv
  <1>2. CASE Cancel \/ ClosePort \/ Disconnect \/ Die
    BY <1>2 DEF Cancel, ClosePort, Disconnect, Die, Ready, clientVars, SavedInv, StopInv
  <1>3. CASE \/ \E c \in Closes : Close(c) \/ Delete(c)
             \/ SenderStep \/ UNCHANGED vars \/ \E m \in Messages : Redeliver(m)
    <2>1. UNCHANGED <<client, worker>> /\ history'.hurried = history.hurried
      BY <1>3 DEF Close, Delete, SenderStep, Send, TimeOut, Abort, Redeliver, vars, clientVars,
                  RowInv, HistoryType
    <2> QED BY <2>1 DEF SavedInv, StopInv
  <1>4. CASE WorkerStep
    <2>1. worker.at # "stopped" /\ client' = client
      BY <1>4 DEF WorkerStep, GetKnown, GetFresh, OpenSource, ChooseName, CreateCopy, Copy,
                  Record, Reply, Throw, LoopEnds, Goto
    <2>2. history'.hurried = history.hurried
      BY <1>4, FreshFrame
      DEF WorkerStep, GetKnown, OpenSource, ChooseName, CreateCopy, Copy,
          Record, Reply, Throw, LoopEnds, Goto
    <2> QED BY <2>1, <2>2 DEF SavedInv, StopInv
  <1> QED BY <1>1, <1>2, <1>3, <1>4 DEF Next

\* Who changes the senders: a close, the senders, and the worker's answers.
LEMMA SenderChange ==
    ASSUME IInv, RowInv, SavedInv, [Next]_vars
    PROVE  \/ UNCHANGED sender
           \/ \A x \in Messages : sender'[x] \in {sender[x], "waiting"}
           \/ \E m \in Messages :
                /\ Sends(m)
                /\ \/ sender'[m] = "sent" => m \in history'.timedOut
                   \/ GetKnown(m) /\ sender[m] = "sending" /\ client # "gone"
                   \/ /\ Reply /\ m = worker.msg /\ sender[m] = "sending" /\ client # "gone"
                      /\ sender'[m] = Counted("success", worker.status)
  <1>1. ASSUME NEW c \in Closes, Close(c)
        PROVE  \A x \in Messages : sender'[x] \in {sender[x], "waiting"}
    BY <1>1, CloseSent
  <1>2. ASSUME NEW c \in Closes, Delete(c) PROVE UNCHANGED sender
    BY <1>2 DEF Delete, driverVars
  <1>3. ASSUME NEW m \in Messages, Send(m) \/ TimeOut(m) \/ Abort(m)
        PROVE  Sends(m) /\ (sender'[m] = "sent" => m \in history'.timedOut)
    BY <1>3, SenderSends
  <1>4. CASE Disconnect \/ Cancel \/ CloseManifest \/ ClosePort \/ Die \/ UNCHANGED vars
             \/ \E m \in Messages : Redeliver(m)
    BY <1>4 DEF Disconnect, Cancel, CloseManifest, ClosePort, Die, Redeliver, vars, driverVars
  <1>5. ASSUME NEW m \in Messages, GetKnown(m)
        PROVE  UNCHANGED sender \/ (Sends(m) /\ sender[m] = "sending" /\ client # "gone")
    BY <1>5, AnswerSends DEF GetKnown
  <1>6. CASE \/ \E m \in Messages : GetFresh(m)
             \/ OpenSource \/ ChooseName \/ CreateCopy \/ Copy \/ Record \/ Throw \/ LoopEnds
    BY <1>6 DEF GetFresh, OpenSource, ChooseName, CreateCopy, Copy, Record, Throw, LoopEnds,
                Goto, driverVars
  <1>7. CASE Reply
    <2>1. worker.msg \in Messages
      BY <1>7 DEF Reply, IInv, WorkTypes, Serving
    <2>2. PICK m \in Messages : m = worker.msg
      BY <2>1
    <2>3. Answer(m, worker.status)
      BY <1>7, <2>2 DEF Reply
    <2> QED BY <1>7, <2>2, <2>3, AnswerSends
  <1> QED BY <1>1, <1>2, <1>3, <1>4, <1>5, <1>6, <1>7 DEF Next, SenderStep, WorkerStep

\* Of the messages that were read none begins to be sent.
LEMMA FetchedSending ==
    ASSUME IInv, RowInv, SavedInv, [Next]_vars,
           NEW m \in history.fetched, sender'[m] = "sending"
    PROVE  sender[m] = "sending"
  <1>1. m \in Messages /\ sender[m] \notin {"idle", "waiting"}
    BY DEF RowInv, HistoryType, SavedInv, SentInv
  <1>2. ASSUME NEW x \in Messages, Sends(x) PROVE sender[m] = "sending"
    BY <1>1, <1>2 DEF Sends
  <1> QED BY <1>1, <1>2, SenderChange

\* The worker serves the message whose sender waits, and has its data.
LEMMA BusyStep ==
    ASSUME IInv, RowInv, SavedInv, [Next]_vars
    PROVE  Busy' /\ DataInv'
  <1> DEFINE Served(m) ==
               /\ throws' = 0 /\ client' # "gone" /\ sender'[m] = "sending" =>
                     worker'.at \notin {"get", "stopped"} /\ worker'.msg = m
  <1> SUFFICES /\ \A m \in history'.fetched : Served(m)
               /\ DataInv'
    BY DEF Busy
  <1>1. worker \in WorkerType
    BY DEF IInv, WorkTypes
  <1>2. worker.at \notin {"get", "stopped"} => worker.msg \in history.fetched
    BY DEF SavedInv, SentInv
  <1>3. CASE \/ \E c \in Closes : Close(c) \/ Delete(c)
             \/ SenderStep
             \/ Disconnect \/ Cancel \/ CloseManifest \/ ClosePort
             \/ \E m \in Messages : Redeliver(m)
             \/ UNCHANGED vars
    <2>1. worker' = worker /\ history'.fetched = history.fetched
      BY <1>3, OthersFrame
    <2>2. (throws' = 0 => throws = 0) /\ (client' # "gone" => client # "gone")
      BY <1>3 DEF Close, Delete, SenderStep, Send, TimeOut, Abort, Disconnect, Cancel,
                  CloseManifest, ClosePort, Redeliver, vars, clientVars
    <2>3. \A m \in history'.fetched : Served(m)
      BY <2>1, <2>2, FetchedSending DEF SavedInv, Busy
    <2>4. DataInv'
      BY <1>2, <2>1, FetchedSending DEF SavedInv, DataInv
    <2> QED BY <2>3, <2>4
  <1>4. ASSUME NEW x \in Messages, GetKnown(x)
        PROVE  DataInv' /\ \A m \in history'.fetched : Served(m)
    <2>1. /\ worker.at = "get" /\ UNCHANGED <<history, throws, client>>
          /\ worker'.at \in {"get", "stopped"}
      BY <1>4, ReadyType DEF GetKnown
    <2> QED BY <2>1, FetchedSending DEF SavedInv, Busy, DataInv
  <1>5. ASSUME NEW x \in Messages, GetFresh(x)
        PROVE  DataInv' /\ \A m \in history'.fetched : Served(m)
    <2>1. DataInv'
      BY <1>5, FreshFrame DEF DataInv
    <2>2. ASSUME NEW m \in history'.fetched, m # x PROVE Served(m)
      BY <1>5, <2>2, FreshFrame DEF SavedInv, Busy
    <2> QED BY <1>5, <2>1, <2>2, FreshFrame
  <1>6. CASE OpenSource
    <2>1. /\ UNCHANGED <<history, throws, client, sender>>
          /\ worker.at = "open" /\ worker'.msg = worker.msg
          /\ \/ worker'.at = "record" /\ worker'.status = "failed"
             \/ worker'.at = "name" /\ worker'.data = content[Path[worker.msg[1]]]
      BY <1>1, <1>6 DEF OpenSource, Goto, WorkerType, driverVars
    <2>2. \A m \in history'.fetched : Served(m)
      BY <2>1 DEF SavedInv, Busy
    <2>3. DataInv'
      BY <2>1 DEF SavedInv, SentInv, DataInv
    <2> QED BY <2>2, <2>3
  <1>7. CASE ChooseName \/ CreateCopy \/ Copy \/ Record
    <2>1. /\ UNCHANGED <<history, throws, client, sender>>
          /\ worker.at \in {"name", "create", "copy", "record"}
          /\ worker'.at \in {"create", "copy", "record", "reply"}
          /\ worker'.msg = worker.msg /\ worker'.data = worker.data
          /\ worker'.status \in {worker.status, "failed"}
      BY <1>1, <1>7 DEF ChooseName, CreateCopy, Copy, Record, Goto, WorkerType, driverVars
    <2>2. \A m \in history'.fetched : Served(m)
      BY <2>1 DEF SavedInv, Busy
    <2>3. DataInv'
      BY <2>1 DEF SavedInv, DataInv
    <2> QED BY <2>2, <2>3
  <1>8. CASE Reply
    <2>1. /\ UNCHANGED <<history, throws, client>> /\ worker.at = "reply"
          /\ worker'.at \in {"get", "stopped"} /\ worker.msg \in Messages
      BY <1>8, ReadyType DEF Reply, IInv, WorkTypes, Serving
    <2>2. DataInv'
      BY <2>1 DEF DataInv
    <2>3. ASSUME NEW m \in history.fetched, throws = 0, client # "gone", sender'[m] = "sending"
          PROVE  FALSE
      <3>1. sender[m] = "sending" /\ worker.msg = m
        BY <2>3, FetchedSending DEF SavedInv, Busy
      <3>2. Return(m, "success", worker.status) /\ m \in Messages
        BY <1>8, <2>1, <2>3, <3>1 DEF Reply, Answer
      <3>3. sender'[m] = Counted("success", worker.status)
        BY <3>1, <3>2, ReturnSends
      <3> QED BY <2>3, <3>3, CountedType
    <2> QED BY <2>1, <2>2, <2>3
  <1>9. CASE Throw \/ LoopEnds \/ Die
    <2>1. worker'.at \in {"get", "stopped"}
      BY <1>9, ReadyType DEF Throw, LoopEnds, Die, Goto, Ready
    <2>2. DataInv'
      BY <2>1 DEF DataInv
    <2>3. CASE Throw
      <3>1. throws' # 0
        BY <2>3 DEF Throw, IInv, SharedTypes
      <3> QED BY <2>2, <3>1
    <2>4. CASE LoopEnds
      <3>1. worker.at = "get" /\ UNCHANGED <<sender, history, throws, client>>
        BY <2>4 DEF LoopEnds, Goto, driverVars
      <3> QED BY <2>2, <3>1 DEF SavedInv, Busy
    <2>5. CASE Die
      BY <2>2, <2>5 DEF Die
    <2> QED BY <1>9, <2>3, <2>4, <2>5
  <1> QED BY <1>3, <1>4, <1>5, <1>6, <1>7, <1>8, <1>9 DEF Next, WorkerStep

-----------------------------------------------------------------------------
(* The answers. *)

\* A saved row stays, unless its message is served a second time.
LEMMA SavedKeeps ==
    ASSUME IInv, RowInv, SavedInv, [Next]_vars,
           NEW m \in Messages, m \notin history.forgotten, NEW data, SavedRow(m, data)
    PROVE  SavedRow(m, data)'
  <1>1. CASE UNCHANGED <<copies, manifest>>
    BY <1>1 DEF SavedRow, RowsOf
  <1>2. CASE CreateCopy \/ Copy \/ Record
    BY <1>2, CreateCopyCopies, CopyCopies, RecordCopies
  <1>3. \/ UNCHANGED <<copies, manifest>>
        \/ CreateCopy \/ Copy \/ Record
    <2>1. CASE WorkerStep \/ Die
      BY <2>1 DEF WorkerStep, GetKnown, GetFresh, OpenSource, ChooseName, Reply, Throw,
                  LoopEnds, Goto, Die
    <2> QED BY <2>1, OthersFrame DEF Next
  <1> QED BY <1>1, <1>2, <1>3

LEMMA AnswerStep ==
    ASSUME IInv, RowInv, SavedInv, [Next]_vars
    PROVE  AnswerInv'
  <1> SUFFICES ASSUME ~history'.hurried PROVE AnswerInv'
    BY DEF AnswerInv
  <1>1. ~history.hurried
    BY StopStep
  <1>2. /\ history.forgotten \subseteq history'.forgotten
        /\ history.timedOut \subseteq history'.timedOut
    <2>1. CASE WorkerStep \/ Die
      BY <2>1, FreshFrame DEF WorkerStep, GetKnown, OpenSource, ChooseName, CreateCopy, Copy,
                  Record, Reply, Throw, LoopEnds, Goto, Die
    <2> QED BY <2>1, OthersFrame DEF Next
  <1>3. ASSUME worker'.at = "reply", worker'.status = "ok",
               worker'.msg \notin history'.forgotten
        PROVE  SavedRow(worker.msg, worker.data)'
    <2>1. CASE Record
      <3>1. worker.status = "ok" /\ worker.at = "record"
        BY <1>3, <2>1 DEF Record, IInv, WorkTypes, WorkerType
      <3>2. client \in {"open", "cancelled"}
        BY <1>1, <3>1 DEF SavedInv, StopInv, IInv, SharedTypes
      <3> QED BY <2>1, <3>1, <3>2, RecordCopies
    <2>2. CASE UNCHANGED <<worker, copies, manifest>>
      <3>1. SavedRow(worker.msg, worker.data)
        BY <1>1, <1>2, <1>3, <2>2 DEF SavedInv, AnswerInv
      <3> QED BY <2>2, <3>1 DEF SavedRow, RowsOf
    <2>3. CASE (WorkerStep /\ ~Record) \/ Die
      <3>1. worker \in WorkerType
        BY DEF IInv, WorkTypes
      <3>2. worker'.at # "reply"
        BY <2>3, <3>1, ReadyType, FreshFrame
        DEF WorkerStep, GetKnown, OpenSource, ChooseName, CreateCopy, Copy,
            Reply, Throw, LoopEnds, Goto, Die, Ready, WorkerType
      <3> QED BY <1>3, <3>2
    <2> QED BY <2>1, <2>2, <2>3, OthersFrame DEF Next
  <1>4. throws' = 0 => throws = 0
    <2>1. throws \in Nat
      BY BackupSessionAssumption DEF IInv, SharedTypes
    <2>2. CASE Throw
      BY <2>1, <2>2 DEF Throw
    <2>3. CASE (WorkerStep /\ ~Throw) \/ Die
      BY <2>3, FreshFrame DEF WorkerStep, GetKnown, OpenSource, ChooseName, CreateCopy, Copy,
                  Record, Reply, LoopEnds, Goto, Die
    <2>4. CASE UNCHANGED throws
      BY <2>4
    <2>5. CASE \E c \in Closes : Close(c) \/ Delete(c)
      BY <2>5 DEF Close, Delete
    <2>6. CASE SenderStep
      BY <2>6 DEF SenderStep, Send, TimeOut, Abort
    <2>7. CASE Disconnect \/ (\E m \in Messages : Redeliver(m)) \/ Cancel \/ CloseManifest \/ ClosePort
      BY <2>7 DEF Disconnect, Redeliver, Cancel, CloseManifest, ClosePort
    <2> QED BY <2>2, <2>3, <2>4, <2>5, <2>6, <2>7 DEF Next, vars
  <1>5. ASSUME throws' = 0, NEW m \in Messages, m \notin history'.forgotten,
               sender'[m] = "sent", m \notin history'.timedOut
        PROVE  \E data \in Closes \union {NoClose} :
                  SavedRow(m, data)' /\ (m[2] = "sync" => data = m[1])
    <2>1. CASE sender[m] = "sent"
      BY <1>1, <1>2, <1>4, <1>5, <2>1, SavedKeeps DEF SavedInv, AnswerInv
    <2>2. CASE sender[m] # "sent"
      <3>1. PICK x \in Messages :
              /\ Sends(x)
              /\ \/ sender'[x] = "sent" => x \in history'.timedOut
                 \/ GetKnown(x) /\ sender[x] = "sending" /\ client # "gone"
                 \/ /\ Reply /\ x = worker.msg /\ sender[x] = "sending" /\ client # "gone"
                    /\ sender'[x] = Counted("success", worker.status)
        BY <1>5, <2>2, SenderChange
      <3>2. x = m
        BY <1>5, <2>2, <3>1 DEF Sends
      <3>3. ~(GetKnown(m) /\ sender[m] = "sending" /\ client # "gone")
        BY <1>4, <1>5 DEF GetKnown, Known, SavedInv, SentInv, Busy
      <3>4. Reply /\ m = worker.msg /\ sender[m] = "sending" /\ worker.status = "ok"
        BY <1>5, <3>1, <3>2, <3>3 DEF Counted
      <3>5. worker.at = "reply" /\ UNCHANGED <<copies, manifest, history>>
        BY <3>4 DEF Reply
      <3>6. worker.data \in Closes \union {NoClose}
        BY DEF IInv, WorkTypes, WorkerType
      <3>7. SavedRow(m, worker.data)
        BY <1>1, <1>5, <3>4, <3>5 DEF SavedInv, AnswerInv
      <3>8. m[2] = "sync" => worker.data = m[1]
        <4>1. PICK c \in Closes : m = <<c, "async">> \/ (c \in Sync /\ m = <<c, "sync">>)
          BY BackupSessionAssumption DEF Messages
        <4> QED BY <3>4, <3>5, <4>1 DEF SavedInv, DataInv
      <3>9. ASSUME NEW data \in Closes \union {NoClose}, data = worker.data
            PROVE  SavedRow(m, data)'
        BY <1>2, <1>5, <3>7, <3>9, SavedKeeps
      <3> QED BY <3>6, <3>8, <3>9
    <2> QED BY <2>1, <2>2
  <1> QED BY <1>3, <1>5 DEF AnswerInv

LEMMA SavedInit == Init => SavedInv
  <1> SUFFICES ASSUME Init PROVE SavedInv
    OBVIOUS
  <1>1. CopyInv /\ RowsTrue
    BY DEF Init, CopyInv, RowsTrue, NoCopy, Ready
  <1>2. SentInv
    <2>1. \A m \in Messages : sender[m] = "idle"
      BY DEF Init
    <2>2. \A c \in Sync : <<c, "sync">> \in Messages /\ <<c, "async">> \in Messages
      BY BackupSessionAssumption DEF Messages
    <2>3. port = {} /\ history.fetched = {} /\ seen = << >> /\ worker.at = "get"
      BY DEF Init, Ready
    <2>4. \A i \in 1 .. Len(seen) : seen[i] \in history.fetched
      BY <2>3
    <2>5. \A m \in port \union history.fetched : sender[m] \notin {"idle", "waiting"}
      BY <2>3
    <2>6. \A c \in Sync : sender[<<c, "sync">>] = "idle" /\ sender[<<c, "async">>] = "idle"
      BY <2>1, <2>2
    <2> QED BY <2>3, <2>4, <2>5, <2>6 DEF SentInv
  <1>3. Busy /\ DataInv /\ StopInv
    BY DEF Init, Busy, DataInv, StopInv, Ready
  <1>4. AnswerInv
    BY DEF Init, AnswerInv, Ready
  <1> QED BY <1>1, <1>2, <1>3, <1>4 DEF SavedInv

\* Types, mutex, rows, copies and answers hold together.
LEMMA SavedInvariance == Spec => [](IInv /\ RowInv /\ SavedInv)
  <1>1. Init => RowInv /\ SavedInv
    BY RowInit, SavedInit
  <1>2. IInv /\ RowInv /\ SavedInv /\ [Next]_vars => RowInv' /\ SavedInv'
    <2> SUFFICES ASSUME IInv, RowInv, SavedInv, [Next]_vars PROVE RowInv' /\ SavedInv'
      OBVIOUS
    <2>1. RowInv'
      BY RowStep DEF IInv
    <2>2. SavedInv'
      BY CopyStep, SentStep, BusyStep, StopStep, AnswerStep DEF SavedInv
    <2> QED BY <2>1, <2>2
  <1> QED BY Invariance, <1>1, <1>2, PTL DEF Spec

\* DoBackup never creates over a copy that a row names, whatever is redelivered
\* and whenever the client throws or ends, for any number of closes and paths: a
\* row that says "ok" names a whole copy made for its message.
THEOREM RowsStayTrue == Spec => []RowsTrue
  <1>1. SavedInv => RowsTrue
    BY DEF SavedInv
  <1> QED BY <1>1, SavedInvariance, PTL

\* What the driver counts as sent because it was answered is on disk with its row;
\* for a deleting handle it is what the handle left, because the cleanup is held up
\* until the worker has copied, recorded and replied.
THEOREM AnsweredAreRecorded == Spec => []AnsweredIsRecorded
  <1>1. IInv /\ SavedInv => AnsweredIsRecorded
    <2> SUFFICES ASSUME IInv, SavedInv, throws = 0, ~history.hurried,
                        NEW m \in Messages \ history.forgotten,
                        sender[m] = "sent", m \notin history.timedOut
                 PROVE  \E i \in RowsOf(m) :
                            /\ manifest[i].status = "ok"
                            /\ copies[manifest[i].dest].whole
                            /\ m[2] = "sync" => copies[manifest[i].dest].data = m[1]
      BY DEF AnsweredIsRecorded
    <2>1. PICK data \in Closes \union {NoClose} :
            SavedRow(m, data) /\ (m[2] = "sync" => data = m[1])
      BY DEF SavedInv, AnswerInv
    <2>2. PICK i \in RowsOf(m) : /\ manifest[i].status = "ok"
                                 /\ copies[manifest[i].dest].data = data
      BY <2>1 DEF SavedRow
    <2>3. i \in 1 .. Len(manifest) /\ manifest[i].msg = m
      BY <2>2 DEF RowsOf
    <2>4. copies[manifest[i].dest].whole
      BY <2>2, <2>3 DEF SavedInv, RowsTrue
    <2> QED BY <2>1, <2>2, <2>4
  <1> QED BY <1>1, SavedInvariance, PTL
=============================================================================
