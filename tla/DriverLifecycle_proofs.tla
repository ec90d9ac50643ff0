------------------------ MODULE DriverLifecycle_proofs ------------------------
(* That unloading leaves nothing behind, proved for UxSession. *)
EXTENDS UxSession, TLAPS

\* Where the driver's own thread takes the tracker down.
InTrackUninitialize == {"deactivate", "unregister", "wait", "purge", "door", "wake", "join"}

\* LifeTypeOK in four.
DriverTypes ==
    /\ driver \in {"out", "starting", "started", "backing out", "unloading"}
    /\ parts \subseteq Parts
    /\ late \subseteq {"message", "connect"}
    /\ happened \in 0 .. MaxHappenings

DriverPlaces == {"none", "reference", "orphan", "server", "deactivate",
                 "unregister", "wait", "purge", "door", "wake", "join"}
MessagePlaces == {"none", "start", "registered", "activate", "snapshot", "push",
                  "deactivate", "unregister", "wait", "purge"}

PlaceTypes == at \in [driver : DriverPlaces, message : MessagePlaces]

TrackTypes ==
    /\ track \in [active : BOOLEAN, notify : BOOLEAN, entries : BOOLEAN]
    /\ registered \in BOOLEAN
    /\ callback \in {"none", "create", "exit", "insert", "remove", "push", "defer", "signal"}
    /\ exits \in [running : BOOLEAN, stop : BOOLEAN, event : BOOLEAN, listed : 0 .. MaxListed]
    /\ exitThread \in {"none", "test", "wait", "take", "held", "push", "ended"}

PortTypes ==
    /\ port \in [server : BOOLEAN, client : BOOLEAN]
    /\ lock \in {"free", "exit", "queue", "callback", "message"}
    /\ connection \in {"none", "open", "cut"}

\* Which parts are up: each stands on those before it.
PartsUp ==
    /\ "exclude" \in parts => "config" \in parts
    /\ "track" \in parts => "exclude" \in parts
    /\ "filter" \in parts => "exclude" \in parts
    /\ "comm" \in parts => "filter" \in parts
    /\ "queue" \in parts => {"track", "comm"} \subseteq parts
    /\ driver = "starting" /\ "filter" \in parts => "track" \in parts
    /\ driver = "started" => parts = Parts
    /\ driver = "out" <=> parts = {} /\ driver # "starting"

\* What the place of the driver's thread says of the parts.
DriverPlace ==
    /\ at.driver \in {"reference", "orphan"} =>
          driver = "starting" /\ parts = {"config", "exclude"}
    /\ at.driver \in InTrackUninitialize =>
          /\ driver \in {"backing out", "unloading"}
          /\ "track" \in parts /\ "queue" \notin parts
    /\ at.driver = "server" =>
          /\ driver \in {"backing out", "unloading"}
          /\ "comm" \in parts /\ "queue" \notin parts /\ "track" \notin parts

\* The thread that pushes exits lives within the tracker.
ExitThreadPlace ==
    exitThread \notin {"none", "ended"} =>
        "track" \in parts \/ at.driver \in {"reference", "orphan"}

\* Whoever owns the mutex of the port is where it gives it back, and the queue
\* outlasts its sends.
LockPlace ==
    /\ lock = "exit" => exitThread = "push"
    /\ lock = "callback" => callback = "push"
    /\ lock = "message" => at.message = "push"
    /\ lock = "queue" => "queue" \in parts

\* The port, and who is connected to it.
PortPlace ==
    /\ port.server => "comm" \in parts
    /\ connection = "open" => "filter" \in parts
    /\ late = {} => (port.client => "comm" \in parts /\ at.driver # "server")

\* A Start or Stop is served while the tracker is up.
MessagePlace == late = {} /\ at.message # "none" => "track" \in parts /\ at.driver = "none"

\* The process routine is registered only while the tracker is up, and then
\* either NotifyRegistered says so or Start is about to set it.
Registration ==
    late = {} =>
        /\ registered \/ callback # "none" =>
              "track" \in parts /\ (track.notify \/ at.message = "registered")
        /\ "wait" \in {at.driver, at.message} => ~registered

\* How far the tracker has been taken down.
TrackDown ==
    late = {} =>
        /\ at.driver \in InTrackUninitialize \ {"deactivate"} => ~track.active
        /\ at.driver \in {"purge", "door", "wake", "join"} => ~track.notify
        /\ at.driver \in {"door", "wake", "join"} => ~track.entries
        /\ "track" \notin parts => track = NoTrack /\ exits.listed = 0

LInv ==
    /\ DriverTypes /\ PlaceTypes /\ TrackTypes /\ PortTypes
    /\ PartsUp /\ DriverPlace /\ ExitThreadPlace /\ LockPlace
    /\ PortPlace /\ MessagePlace /\ Registration /\ TrackDown

\* The step of a thread from one place to the next.
LEMMA GoType ==
    ASSUME PlaceTypes, NEW t \in {"driver", "message"}, NEW a, NEW b, Go(t, a, b)
    PROVE  /\ at[t] = a
           /\ t = "driver" => at.driver = a /\ at' = [driver |-> b, message |-> at.message]
           /\ t = "message" => at.message = a /\ at' = [driver |-> at.driver, message |-> b]
  BY DEF PlaceTypes, Go

\* The same, for the driver's own thread.
LEMMA DriverGoes ==
    ASSUME PlaceTypes, NEW a, NEW b \in DriverPlaces, Go("driver", a, b)
    PROVE  /\ at.driver = a /\ at'.driver = b /\ at'.message = at.message
           /\ PlaceTypes'
  <1>1. at.driver = a /\ at' = [driver |-> b, message |-> at.message]
    BY GoType
  <1>2. at.message \in MessagePlaces
    BY DEF PlaceTypes
  <1> QED BY <1>1, <1>2 DEF PlaceTypes

\* The same, for the handler of a message.
LEMMA MessageGoes ==
    ASSUME PlaceTypes, NEW a, NEW b \in MessagePlaces, Go("message", a, b)
    PROVE  /\ at.message = a /\ at'.message = b /\ at'.driver = at.driver
           /\ PlaceTypes'
  <1>1. at.message = a /\ at' = [driver |-> at.driver, message |-> b]
    BY GoType
  <1>2. at.driver \in DriverPlaces
    BY DEF PlaceTypes
  <1> QED BY <1>1, <1>2 DEF PlaceTypes

\* Variables that do not change keep their types.
LEMMA SameTypes ==
    ASSUME LInv
    PROVE  /\ at' = at => PlaceTypes'
           /\ UNCHANGED <<track, registered, callback, exits, exitThread>> => TrackTypes'
           /\ UNCHANGED <<port, lock, connection>> => PortTypes'
  <1>1. ASSUME at' = at PROVE PlaceTypes'
    BY <1>1 DEF LInv, PlaceTypes
  <1>2. ASSUME UNCHANGED <<track, registered, callback, exits, exitThread>> PROVE TrackTypes'
    BY <1>2 DEF LInv, TrackTypes
  <1>3. ASSUME UNCHANGED <<port, lock, connection>> PROVE PortTypes'
    BY <1>3 DEF LInv, PortTypes
  <1> QED BY <1>1, <1>2, <1>3

\* A part is brought up when those before it in DriverEntry's order are up.
LEMMA BringOrder ==
    ASSUME NEW part, DriverTypes, PartsUp, BringingUp(part)
    PROVE  /\ driver = "starting" /\ part \in Parts \ parts
           /\ part = "exclude" => "config" \in parts
           /\ part = "track" => parts = {"config", "exclude"}
           /\ part = "filter" => {"exclude", "track"} \subseteq parts
           /\ part = "comm" => "filter" \in parts
           /\ part = "queue" => {"track", "comm"} \subseteq parts
  <1>1. driver = "starting" /\ part \in Parts \ parts /\ parts \subseteq Parts
    BY DEF BringingUp, IsFirst, DriverTypes
  <1>2. PICK j \in 1 .. 6 :
           EntryOrder[j] = part /\ \A i \in 1 .. j - 1 : EntryOrder[i] \notin Parts \ parts
    BY DEF BringingUp, IsFirst, EntryOrder
  <1>3. \A i \in 1 .. j - 1 : EntryOrder[i] \in parts
    <2> \A i \in 1 .. 6 : EntryOrder[i] \in Parts
      BY DEF EntryOrder, Parts
    <2> QED BY <1>2
  <1>4. EntryOrder[1] = "config" /\ EntryOrder[2] = "exclude" /\ EntryOrder[3] = "track"
        /\ EntryOrder[4] = "filter" /\ EntryOrder[5] = "comm" /\ EntryOrder[6] = "queue"
    BY DEF EntryOrder
  <1>5. part # "config" => EntryOrder[1] \in parts
    BY <1>2, <1>3, <1>4
  <1>6. part \notin {"config", "exclude"} => EntryOrder[2] \in parts
    BY <1>2, <1>3, <1>4
  <1>7. part \notin {"config", "exclude", "track"} => EntryOrder[3] \in parts
    BY <1>2, <1>3, <1>4
  <1>8. part \in {"comm", "queue"} => EntryOrder[4] \in parts
    BY <1>2, <1>3, <1>4
  <1>9. part = "queue" => EntryOrder[5] \in parts
    BY <1>2, <1>3, <1>4
  <1> QED BY <1>1, <1>4, <1>5, <1>6, <1>7, <1>8, <1>9 DEF Parts, PartsUp

\* A part is taken down when those before it in FilterUnload's order are not up.
LEMMA LeaveOrderIs ==
    ASSUME NEW part, TakingDown(part)
    PROVE  /\ driver \in {"backing out", "unloading"} /\ part \in parts
           /\ part \in {"track", "comm", "filter", "exclude", "config"} => "queue" \notin parts
           /\ part \in {"comm", "filter", "exclude", "config"} => "track" \notin parts
           /\ part \in {"filter", "exclude", "config"} => "comm" \notin parts
           /\ part \in {"exclude", "config"} => "filter" \notin parts
           /\ part = "config" => "exclude" \notin parts
  <1>1. PICK j \in 1 .. 6 :
           LeaveOrder[j] = part /\ \A i \in 1 .. j - 1 : LeaveOrder[i] \notin parts
    BY DEF TakingDown, IsFirst, LeaveOrder
  <1>2. LeaveOrder[1] = "queue" /\ LeaveOrder[2] = "track" /\ LeaveOrder[3] = "comm"
        /\ LeaveOrder[4] = "filter" /\ LeaveOrder[5] = "exclude" /\ LeaveOrder[6] = "config"
    BY DEF LeaveOrder
  <1>3. part # "queue" => LeaveOrder[1] \notin parts
    BY <1>1, <1>2
  <1>4. part \notin {"queue", "track"} => LeaveOrder[2] \notin parts
    BY <1>1, <1>2
  <1>5. part \notin {"queue", "track", "comm"} => LeaveOrder[3] \notin parts
    BY <1>1, <1>2
  <1>6. part \in {"exclude", "config"} => LeaveOrder[4] \notin parts
    BY <1>1, <1>2
  <1>7. part = "config" => LeaveOrder[5] \notin parts
    BY <1>1, <1>2
  <1> QED BY <1>2, <1>3, <1>4, <1>5, <1>6, <1>7 DEF TakingDown, IsFirst

\* Counting what comes from outside stays within its bound.
LEMMA HappensType ==
    ASSUME DriverTypes, Happens \/ UNCHANGED happened
    PROVE  happened' \in 0 .. MaxHappenings
  <1>1. MaxHappenings \in Nat /\ happened \in 0 .. MaxHappenings
    BY DriverLifecycleAssumption DEF DriverTypes
  <1> QED BY <1>1 DEF Happens

\* DriverEntry begins with nothing up.
LEMMA LoadKeeps == ASSUME LInv, Load PROVE LInv'
  <1>1. /\ driver = "out" /\ driver' = "starting"
        /\ UNCHANGED <<parts, at, late, track, registered, callback, exits, exitThread,
                       port, lock, connection, happened>>
    BY DEF Load, trackVars, threadVars, portVars
  <1>2. DriverTypes' /\ PlaceTypes' /\ TrackTypes' /\ PortTypes'
    BY <1>1 DEF LInv, DriverTypes, PlaceTypes, TrackTypes, PortTypes
  <1>3. PartsUp' /\ DriverPlace'
    BY <1>1 DEF LInv, PartsUp, DriverPlace, InTrackUninitialize, Parts
  <1> QED BY <1>1, <1>2, <1>3
          DEF LInv, ExitThreadPlace, LockPlace, PortPlace, MessagePlace, Registration, TrackDown

\* A part that comes up finds those it stands on; one that fails leaves them.
LEMMA BringUpKeeps == ASSUME LInv, BringUp PROVE LInv'
  <1>1. PICK part \in Parts \ {"track"} :
          /\ BringingUp(part)
          /\ \/ /\ Up(part)
                /\ port' = IF part = "comm" THEN [NoPort EXCEPT !.server = TRUE] ELSE port
             \/ part \notin Infallible /\ Happens /\ BackOut /\ UNCHANGED port
    BY DEF BringUp
  <1>2. /\ driver = "starting" /\ part \in Parts \ parts
        /\ part = "exclude" => "config" \in parts
        /\ part = "filter" => {"exclude", "track"} \subseteq parts
        /\ part = "comm" => "filter" \in parts
        /\ part = "queue" => {"track", "comm"} \subseteq parts
    BY <1>1, BringOrder DEF LInv
  <1>3. UNCHANGED <<at, track, registered, callback, exits, exitThread, lock, connection, late>>
    BY <1>1 DEF BringUp, Up, BackOut, trackVars, threadVars
  <1>4. at.driver = "none"
    BY <1>1, <1>2 DEF LInv, DriverPlace, PlaceTypes, DriverPlaces, InTrackUninitialize, Parts
  <1>5. /\ port' \in [server : BOOLEAN, client : BOOLEAN] /\ (port'.client => port.client)
        /\ (port'.server => port.server \/ "comm" \in parts')
    BY <1>1 DEF LInv, PortTypes, NoPort, Up
  <1>6. happened' \in 0 .. MaxHappenings
    BY <1>1, HappensType DEF LInv, Up
  <1>7. \/ driver' = "starting" /\ parts' = parts \union {part}
        \/ driver' = "backing out" /\ parts' = parts /\ part \notin {"config", "exclude"}
    BY <1>1, <1>2 DEF Up, BackOut, Infallible
  <1>8. DriverTypes' /\ PlaceTypes' /\ TrackTypes' /\ PortTypes'
    <2>1. DriverTypes'
      BY <1>2, <1>3, <1>6, <1>7 DEF LInv, DriverTypes
    <2>2. PortTypes'
      BY <1>3, <1>5 DEF LInv, PortTypes
    <2> QED BY <1>3, <2>1, <2>2, SameTypes
  <1>9. PartsUp' /\ DriverPlace'
    BY <1>2, <1>3, <1>4, <1>7 DEF LInv, PartsUp, DriverPlace, InTrackUninitialize, Parts
  <1>10. parts \subseteq parts' /\ ("track" \in parts' => "track" \in parts)
    BY <1>1, <1>7
  <1> QED BY <1>3, <1>4, <1>5, <1>8, <1>9, <1>10
          DEF LInv, ExitThreadPlace, LockPlace, PortPlace, MessagePlace, Registration, TrackDown

\* All parts are up when filtering starts, or fails to.
LEMMA StartFilteringKeeps == ASSUME LInv, StartFiltering PROVE LInv'
  <1>1. /\ driver = "starting" /\ driver' \in {"started", "backing out"} /\ parts = Parts
        /\ UNCHANGED <<parts, at, late, track, registered, callback, exits, exitThread,
                       port, lock, connection>>
    BY DEF StartFiltering, BackOut, trackVars, threadVars, portVars
  <1>2. happened' \in 0 .. MaxHappenings
    BY HappensType DEF LInv, StartFiltering
  <1>3. DriverTypes' /\ PlaceTypes' /\ TrackTypes' /\ PortTypes'
    <2>1. DriverTypes'
      BY <1>1, <1>2 DEF LInv, DriverTypes
    <2> QED BY <1>1, <2>1, SameTypes
  <1>4. PartsUp' /\ DriverPlace'
    BY <1>1 DEF LInv, PartsUp, DriverPlace, InTrackUninitialize, Parts
  <1>5. ExitThreadPlace' /\ LockPlace'
    BY <1>1 DEF LInv, ExitThreadPlace, LockPlace
  <1>6. PortPlace' /\ MessagePlace'
    BY <1>1 DEF LInv, PortPlace, MessagePlace
  <1>7. Registration' /\ TrackDown'
    BY <1>1 DEF LInv, Registration, TrackDown
  <1> QED BY <1>3, <1>4, <1>5, <1>6, <1>7 DEF LInv

\* knFcTrackInitialize starts the thread, or cannot create it.
LEMMA BringUpTrackKeeps == ASSUME LInv, BringUpTrack PROVE LInv'
  <1>1. driver = "starting" /\ "track" \notin parts /\ parts = {"config", "exclude"}
    BY BringOrder DEF LInv, BringUpTrack
  <1>2. /\ track' = NoTrack /\ exits'.listed = 0
        /\ exits' \in [running : BOOLEAN, stop : BOOLEAN, event : BOOLEAN, listed : 0 .. MaxListed]
    <2>1. track' = NoTrack /\ exits' \in {[NoExits EXCEPT !.running = TRUE], NoExits}
      BY DEF BringUpTrack
    <2>2. 0 \in 0 .. MaxListed
      BY DriverLifecycleAssumption
    <2>3. \/ exits' = [running |-> TRUE, stop |-> FALSE, event |-> FALSE, listed |-> 0]
          \/ exits' = [running |-> FALSE, stop |-> FALSE, event |-> FALSE, listed |-> 0]
      BY <2>1 DEF NoExits
    <2>4. \A L, r : 0 \in L /\ r \in BOOLEAN =>
             [running |-> r, stop |-> FALSE, event |-> FALSE, listed |-> 0]
                \in [running : BOOLEAN, stop : BOOLEAN, event : BOOLEAN, listed : L]
      OBVIOUS
    <2>5. exits'.listed = 0
      BY <2>3
    <2>6. exits' \in [running : BOOLEAN, stop : BOOLEAN, event : BOOLEAN, listed : 0 .. MaxListed]
      <3>1. PICK r \in BOOLEAN :
               exits' = [running |-> r, stop |-> FALSE, event |-> FALSE, listed |-> 0]
        BY <2>3
      <3> QED BY <2>2, <2>4, <3>1, Zenon
    <2> QED BY <2>1, <2>5, <2>6
  <1>3. /\ at.driver = "none" /\ at'.message = at.message
        /\ \/ at'.driver = "reference" /\ driver' = driver /\ exitThread' = "test"
           \/ at'.driver = "none" /\ driver' = "backing out" /\ exitThread' = exitThread
        /\ PlaceTypes'
        /\ UNCHANGED <<parts, late, registered, callback, port, lock, connection>>
    <2>1. CASE Go("driver", "none", "reference") /\ exitThread' = "test" /\ driver' = driver
      <3>1. "reference" \in DriverPlaces /\ PlaceTypes
        BY DEF LInv, DriverPlaces
      <3>2. UNCHANGED <<parts, late, registered, callback, port, lock, connection>>
        BY DEF BringUpTrack, BackOut, portVars
      <3> QED BY <2>1, <3>1, <3>2, DriverGoes
    <2>2. CASE at.driver = "none" /\ BackOut /\ UNCHANGED <<at, exitThread>>
      <3>1. UNCHANGED <<parts, late, registered, callback, port, lock, connection>>
        BY DEF BringUpTrack, BackOut, portVars
      <3> QED BY <2>2, <3>1, SameTypes DEF BackOut
    <2> QED BY <2>1, <2>2 DEF BringUpTrack
  <1>4. happened' \in 0 .. MaxHappenings
    BY HappensType DEF LInv, BringUpTrack
  <1>5. DriverTypes' /\ PlaceTypes' /\ TrackTypes' /\ PortTypes'
    <2>1. DriverTypes'
      BY <1>1, <1>3, <1>4 DEF LInv, DriverTypes
    <2>2. TrackTypes'
      BY <1>2, <1>3 DEF LInv, TrackTypes, NoTrack
    <2> QED BY <1>3, <2>1, <2>2 DEF LInv, PortTypes
  <1>6. PartsUp' /\ DriverPlace'
    BY <1>1, <1>3 DEF LInv, PartsUp, DriverPlace, InTrackUninitialize, Parts
  <1>7. ExitThreadPlace' /\ LockPlace' /\ PortPlace' /\ MessagePlace'
    BY <1>1, <1>3 DEF LInv, ExitThreadPlace, LockPlace, PortPlace, MessagePlace
  <1>8. Registration' /\ TrackDown'
    BY <1>1, <1>2, <1>3 DEF LInv, Registration, TrackDown, MessagePlace, InTrackUninitialize
  <1> QED BY <1>5, <1>6, <1>7, <1>8 DEF LInv

\* The thread is referenced, or told to stop, while only the tables are up.
LEMMA ReferenceExitThreadKeeps == ASSUME LInv, ReferenceExitThread PROVE LInv'
  <1>1. /\ at.driver = "reference"
        /\ \/ /\ at' = [driver |-> "none", message |-> at.message]
              /\ parts' = parts \union {"track"} /\ exits' = exits
           \/ /\ at' = [driver |-> "orphan", message |-> at.message]
              /\ parts' = parts
              /\ exits' = [exits EXCEPT !.stop = TRUE, !.running = FALSE, !.event = TRUE]
        /\ UNCHANGED <<driver, late, track, registered, callback, exitThread,
                       port, lock, connection>>
    BY GoType DEF LInv, ReferenceExitThread, Up, trackVars, portVars
  <1>2. driver = "starting" /\ parts = {"config", "exclude"}
    BY <1>1 DEF LInv, DriverPlace
  <1>3. happened' \in 0 .. MaxHappenings
    BY HappensType DEF LInv, ReferenceExitThread, Up
  <1>4. DriverTypes' /\ PlaceTypes' /\ PortTypes'
    <2>1. DriverTypes'
      BY <1>1, <1>2, <1>3 DEF LInv, DriverTypes, Parts
    <2>2. PlaceTypes'
      BY DriverGoes DEF LInv, ReferenceExitThread, DriverPlaces
    <2> QED BY <1>1, <2>1, <2>2, SameTypes
  <1>5. TrackTypes' /\ exits'.listed = exits.listed
    BY <1>1 DEF LInv, TrackTypes
  <1>6. PartsUp' /\ DriverPlace'
    BY <1>1, <1>2 DEF LInv, PartsUp, DriverPlace, InTrackUninitialize, Parts
  <1>7. ExitThreadPlace' /\ LockPlace' /\ PortPlace' /\ MessagePlace'
    BY <1>1, <1>2 DEF LInv, ExitThreadPlace, LockPlace, PortPlace, MessagePlace
  <1>8. Registration' /\ TrackDown'
    BY <1>1, <1>2, <1>5 DEF LInv, Registration, TrackDown, MessagePlace, InTrackUninitialize
  <1> QED BY <1>4, <1>5, <1>6, <1>7, <1>8 DEF LInv

\* An orphaned thread has ended before DriverEntry backs out.
LEMMA JoinOrphanKeeps == ASSUME LInv, JoinOrphan PROVE LInv'
  <1>1. /\ at.driver = "orphan" /\ at' = [driver |-> "none", message |-> at.message]
        /\ exitThread = "ended" /\ driver' = "backing out"
        /\ UNCHANGED <<parts, late, track, registered, callback, exits, exitThread,
                       port, lock, connection, happened>>
    BY GoType DEF LInv, JoinOrphan, BackOut, trackVars, threadVars, portVars
  <1>2. driver = "starting" /\ parts = {"config", "exclude"}
    BY <1>1 DEF LInv, DriverPlace
  <1>3. DriverTypes' /\ PlaceTypes' /\ TrackTypes' /\ PortTypes'
    <2>1. DriverTypes'
      BY <1>1 DEF LInv, DriverTypes
    <2>2. PlaceTypes'
      BY <1>1, DriverGoes DEF LInv, JoinOrphan, DriverPlaces
    <2> QED BY <1>1, <2>1, <2>2, SameTypes
  <1>4. PartsUp' /\ DriverPlace'
    BY <1>1, <1>2 DEF LInv, PartsUp, DriverPlace, InTrackUninitialize, Parts
  <1> QED BY <1>1, <1>2, <1>3, <1>4
          DEF LInv, ExitThreadPlace, LockPlace, PortPlace, MessagePlace, Registration, TrackDown,
              InTrackUninitialize

\* A part that goes down has nothing standing on it.
LEMMA TakeDownKeeps == ASSUME LInv, TakeDown PROVE LInv'
  <1>1. PICK part \in {"queue", "filter", "config", "exclude"} :
          /\ TakingDown(part) /\ Down(part)
          /\ part = "queue" => lock # "queue"
          /\ part = "filter" => at.message = "none" /\ connection # "open"
    BY DEF TakeDown, Infallible
  <1>2. /\ driver \in {"backing out", "unloading"} /\ part \in parts
        /\ part \in {"track", "comm", "filter", "exclude", "config"} => "queue" \notin parts
        /\ part \in {"comm", "filter", "exclude", "config"} => "track" \notin parts
        /\ part \in {"filter", "exclude", "config"} => "comm" \notin parts
        /\ part \in {"exclude", "config"} => "filter" \notin parts
        /\ part = "config" => "exclude" \notin parts
    BY <1>1, LeaveOrderIs
  <1>3. /\ parts' = parts \ {part}
        /\ driver' = IF parts' = {} THEN "out" ELSE driver
        /\ UNCHANGED <<at, late, track, registered, callback, exits, exitThread,
                       port, lock, connection, happened>>
    BY <1>1 DEF TakeDown, Down, trackVars, threadVars, portVars
  <1>4. DriverTypes' /\ PlaceTypes' /\ TrackTypes' /\ PortTypes'
    <2>1. DriverTypes'
      BY <1>2, <1>3 DEF LInv, DriverTypes
    <2> QED BY <1>3, <2>1, SameTypes
  <1>5. PartsUp'
    BY <1>2, <1>3 DEF LInv, PartsUp, Parts
  <1>6. DriverPlace'
    BY <1>2, <1>3 DEF LInv, DriverPlace, PartsUp, InTrackUninitialize
  <1>7. ExitThreadPlace' /\ LockPlace' /\ PortPlace'
    BY <1>1, <1>2, <1>3 DEF LInv, ExitThreadPlace, LockPlace, PortPlace, PortTypes
  <1>8. MessagePlace' /\ Registration' /\ TrackDown'
    BY <1>2, <1>3 DEF LInv, MessagePlace, Registration, TrackDown
  <1> QED BY <1>4, <1>5, <1>6, <1>7, <1>8 DEF LInv
\* A message served while the tracker goes down is counted as late.
LEMMA TrackUninitializeKeeps == ASSUME LInv, TrackUninitialize PROVE LInv'
  <1>1. /\ at.driver = "none" /\ at'.driver = "deactivate" /\ at'.message = at.message
        /\ PlaceTypes'
    BY DriverGoes DEF LInv, TrackUninitialize, DriverPlaces
  <1>2. /\ driver \in {"backing out", "unloading"} /\ "track" \in parts /\ "queue" \notin parts
        /\ late' = IF at.message # "none" THEN late \union {"message"} ELSE late
        /\ UNCHANGED <<driver, parts, track, registered, callback, exits, exitThread,
                       port, lock, connection, happened>>
    <2>1. TakingDown("track")
      BY DEF TrackUninitialize
    <2>2. driver \in {"backing out", "unloading"} /\ "track" \in parts /\ "queue" \notin parts
      BY <2>1, LeaveOrderIs
    <2> QED BY <2>2 DEF TrackUninitialize, trackVars, threadVars, portVars
  <1>3. DriverTypes'
    BY <1>2 DEF LInv, DriverTypes
  <1>4. TrackTypes' /\ PortTypes'
    BY <1>2, SameTypes
  <1>5. PartsUp' /\ DriverPlace'
    BY <1>1, <1>2 DEF LInv, PartsUp, DriverPlace, InTrackUninitialize, Parts
  <1>6. late' = {} => late = {} /\ at.message = "none"
    BY <1>2
  <1>7. ExitThreadPlace' /\ LockPlace' /\ PortPlace' /\ MessagePlace'
    BY <1>1, <1>2, <1>6 DEF LInv, ExitThreadPlace, LockPlace, PortPlace, MessagePlace
  <1>8. Registration' /\ TrackDown'
    BY <1>1, <1>2, <1>6 DEF LInv, Registration, TrackDown, InTrackUninitialize
  <1> QED BY <1>1, <1>3, <1>4, <1>5, <1>7, <1>8 DEF LInv

\* The client is cut off before the server port goes.
LEMMA CommUninitializeKeeps == ASSUME LInv, CommUninitialize PROVE LInv'
  <1>1. UNCHANGED <<late, lock, track, registered, callback, exits, exitThread, happened>>
    BY DEF CommUninitialize, trackVars, threadVars
  <1>2. TrackTypes'
    BY <1>1, SameTypes
  <1>3. CASE /\ TakingDown("comm") /\ Go("driver", "none", "server")
             /\ port' = [port EXCEPT !.client = FALSE]
             /\ connection' = IF port.client THEN "cut" ELSE connection
             /\ UNCHANGED <<driver, parts>>
    <2>1. /\ at.driver = "none" /\ at'.driver = "server" /\ at'.message = at.message
          /\ PlaceTypes'
      BY <1>3, DriverGoes DEF LInv, DriverPlaces
    <2>2. /\ driver \in {"backing out", "unloading"} /\ "comm" \in parts
          /\ "queue" \notin parts /\ "track" \notin parts /\ UNCHANGED <<driver, parts>>
      <3>1. TakingDown("comm")
        BY <1>3
      <3> QED BY <1>3, <3>1, LeaveOrderIs
    <2>3. /\ port'.server = port.server /\ ~port'.client /\ PortTypes'
          /\ connection' \in {connection, "cut"}
      BY <1>1, <1>3 DEF LInv, PortTypes
    <2>4. DriverTypes'
      BY <1>1, <2>2 DEF LInv, DriverTypes
    <2>5. PartsUp' /\ DriverPlace'
      BY <2>1, <2>2 DEF LInv, PartsUp, DriverPlace, InTrackUninitialize, Parts
    <2>6. ExitThreadPlace' /\ LockPlace' /\ PortPlace' /\ MessagePlace'
      BY <1>1, <2>1, <2>2, <2>3 DEF LInv, ExitThreadPlace, LockPlace, PortPlace, MessagePlace
    <2>7. Registration' /\ TrackDown'
      BY <1>1, <2>1, <2>2 DEF LInv, Registration, TrackDown, InTrackUninitialize
    <2> QED BY <1>2, <2>1, <2>3, <2>4, <2>5, <2>6, <2>7 DEF LInv
  <1>4. CASE /\ Go("driver", "server", "none") /\ Down("comm")
             /\ port' = [port EXCEPT !.server = FALSE] /\ UNCHANGED connection
    <2>1. /\ at.driver = "server" /\ at'.driver = "none" /\ at'.message = at.message
          /\ PlaceTypes'
      BY <1>4, DriverGoes DEF LInv, DriverPlaces
    <2>2. /\ driver \in {"backing out", "unloading"} /\ "comm" \in parts /\ "filter" \in parts
          /\ "queue" \notin parts /\ "track" \notin parts
      BY <2>1 DEF LInv, DriverPlace, PartsUp
    <2>3. parts' = parts \ {"comm"} /\ driver' = driver
      <3>1. parts' = parts \ {"comm"} /\ "filter" \in parts'
        BY <1>4, <2>2 DEF Down
      <3> QED BY <1>4, <3>1 DEF Down
    <2>4. ~port'.server /\ port'.client = port.client /\ PortTypes'
      BY <1>1, <1>4 DEF LInv, PortTypes
    <2>5. DriverTypes'
      BY <1>1, <2>2, <2>3 DEF LInv, DriverTypes
    <2>6. PartsUp' /\ DriverPlace'
      BY <2>1, <2>2, <2>3 DEF LInv, PartsUp, DriverPlace, InTrackUninitialize, Parts
    <2>7. ExitThreadPlace' /\ LockPlace' /\ PortPlace' /\ MessagePlace'
      BY <1>1, <1>4, <2>1, <2>2, <2>3, <2>4
      DEF LInv, ExitThreadPlace, LockPlace, PortPlace, MessagePlace
    <2>8. Registration' /\ TrackDown'
      BY <1>1, <2>1, <2>2, <2>3 DEF LInv, Registration, TrackDown, InTrackUninitialize
    <2> QED BY <1>2, <2>1, <2>4, <2>5, <2>6, <2>7, <2>8 DEF LInv
  <1> QED BY <1>3, <1>4 DEF CommUninitialize

\* knFcTrackStop moves its thread on from one place of its own to the next.
LEMMA TrackStopGoes ==
    ASSUME LInv, NEW t \in {"driver", "message"}, TrackStop(t)
    PROVE  /\ UNCHANGED <<driver, parts, late, callback, exits, exitThread,
                          port, lock, connection, happened>>
           /\ PlaceTypes' /\ TrackTypes' /\ track'.entries \in {track.entries, FALSE}
           /\ t = "driver" =>
                 /\ at'.message = at.message
                 /\ at.driver \in {"deactivate", "unregister", "wait", "purge"}
                 /\ at'.driver \in {"unregister", "wait", "purge", "door"}
           /\ t = "message" =>
                 /\ at'.driver = at.driver
                 /\ at.message \in {"deactivate", "unregister", "wait", "purge"}
                 /\ at'.message \in {"unregister", "wait", "purge", "none"}
  <1>1. UNCHANGED <<driver, parts, late, callback, exits, exitThread,
                    port, lock, connection, happened>>
    BY DEF TrackStop, threadVars, portVars
  <1>2. /\ registered' \in {registered, FALSE}
        /\ \/ track' = track
           \/ track' = [track EXCEPT !.active = FALSE]
           \/ track' = [track EXCEPT !.notify = FALSE]
           \/ track' = [track EXCEPT !.entries = FALSE]
    BY DEF TrackStop, trackVars
  <1>3. TrackTypes' /\ track'.entries \in {track.entries, FALSE}
    BY <1>1, <1>2, ZenonT(60) DEF LInv, TrackTypes
  <1>4. PICK a \in {"deactivate", "unregister", "wait", "purge"},
             b \in {"unregister", "wait", "purge", IF t = "driver" THEN "door" ELSE "none"} :
           Go(t, a, b)
    BY DEF TrackStop
  <1>5. CASE t = "driver"
    BY <1>1, <1>3, <1>4, <1>5, DriverGoes DEF LInv, DriverPlaces
  <1>6. CASE t = "message"
    BY <1>1, <1>3, <1>4, <1>6, MessageGoes DEF LInv, MessagePlaces
  <1> QED BY <1>5, <1>6

\* knFcTrackStop clears Active, removes the routine, waits for it, and purges.
LEMMA TrackStopKeeps ==
    ASSUME LInv, NEW t \in {"driver", "message"}, TrackStop(t)
    PROVE  LInv'
  <1>1. /\ UNCHANGED <<driver, parts, late, callback, exits, exitThread,
                       port, lock, connection, happened>>
        /\ PlaceTypes' /\ TrackTypes'
        /\ t = "driver" =>
              /\ at'.message = at.message
              /\ at.driver \in {"deactivate", "unregister", "wait", "purge"}
              /\ at'.driver \in {"unregister", "wait", "purge", "door"}
        /\ t = "message" =>
              /\ at'.driver = at.driver
              /\ at.message \in {"deactivate", "unregister", "wait", "purge"}
              /\ at'.message \in {"unregister", "wait", "purge", "none"}
    BY TrackStopGoes
  <1>2. DriverTypes'
    BY <1>1 DEF LInv, DriverTypes
  <1>3. PortTypes'
    BY <1>1, SameTypes
  <1>4. PartsUp' /\ DriverPlace'
    BY <1>1 DEF LInv, PartsUp, DriverPlace, InTrackUninitialize, Parts
  <1>5. ExitThreadPlace' /\ LockPlace' /\ PortPlace' /\ MessagePlace'
    BY <1>1 DEF LInv, ExitThreadPlace, LockPlace, PortPlace, MessagePlace
  <1>6. Registration' /\ TrackDown'
    <2>1. late' = {} => late = {} /\ "track" \in parts'
      BY <1>1 DEF LInv, DriverPlace, MessagePlace, InTrackUninitialize
    <2>2. late = {} /\ t = "driver" => at.message = "none"
      BY <1>1 DEF LInv, MessagePlace
    <2>3. late = {} /\ t = "message" => at.driver = "none"
      BY <1>1 DEF LInv, MessagePlace
    <2>4. CASE /\ Go(t, "deactivate", "unregister")
               /\ track' = [track EXCEPT !.active = FALSE] /\ UNCHANGED registered
      <3>1. /\ ~track'.active /\ track'.notify = track.notify
            /\ t = "driver" => at.driver = "deactivate" /\ at'.driver = "unregister"
            /\ t = "message" => at.message = "deactivate" /\ at'.message = "unregister"
        BY <2>4, GoType DEF LInv, TrackTypes
      <3> QED BY <1>1, <2>1, <2>2, <2>3, <2>4, <3>1
              DEF LInv, Registration, TrackDown, InTrackUninitialize
    <2>5. CASE Go(t, "unregister", "wait") /\ track.notify /\ registered' = FALSE /\ track' = track
      <3>1. /\ t = "driver" => at.driver = "unregister" /\ at'.driver = "wait"
            /\ t = "message" => at.message = "unregister" /\ at'.message = "wait"
        BY <2>5, GoType DEF LInv
      <3> QED BY <1>1, <2>1, <2>2, <2>3, <2>5, <3>1
              DEF LInv, Registration, TrackDown, InTrackUninitialize
    <2>6. CASE /\ Go(t, "wait", "purge") /\ callback = "none"
               /\ track' = [track EXCEPT !.notify = FALSE] /\ UNCHANGED registered
      <3>1. /\ track'.active = track.active /\ ~track'.notify
            /\ t = "driver" => at.driver = "wait" /\ at'.driver = "purge"
            /\ t = "message" => at.message = "wait" /\ at'.message = "purge"
        BY <2>6, GoType DEF LInv, TrackTypes
      <3> QED BY <1>1, <2>1, <2>2, <2>3, <2>6, <3>1
              DEF LInv, Registration, TrackDown, InTrackUninitialize
    <2>7. CASE Go(t, "unregister", "purge") /\ ~track.notify /\ UNCHANGED <<track, registered>>
      <3>1. /\ t = "driver" => at.driver = "unregister" /\ at'.driver = "purge"
            /\ t = "message" => at.message = "unregister" /\ at'.message = "purge"
        BY <2>7, GoType DEF LInv
      <3> QED BY <1>1, <2>1, <2>2, <2>3, <2>7, <3>1
              DEF LInv, Registration, TrackDown, InTrackUninitialize
    <2>8. CASE /\ Go(t, "purge", IF t = "driver" THEN "door" ELSE "none")
               /\ track' = [track EXCEPT !.entries = FALSE] /\ UNCHANGED registered
      <3>1. /\ track'.active = track.active /\ track'.notify = track.notify /\ ~track'.entries
            /\ t = "driver" => at.driver = "purge" /\ at'.driver = "door"
            /\ t = "message" => at.message = "purge" /\ at'.message = "none"
        BY <2>8, GoType DEF LInv, TrackTypes
      <3> QED BY <1>1, <2>1, <2>2, <2>3, <2>8, <3>1
              DEF LInv, Registration, TrackDown, InTrackUninitialize
    <2> QED BY <2>4, <2>5, <2>6, <2>7, <2>8 DEF TrackStop, MustUnregister, trackVars
  <1> QED BY <1>1, <1>2, <1>3, <1>4, <1>5, <1>6 DEF LInv
\* The thread has ended and the list is empty when the tracker is down.
LEMMA ExitDeferStopKeeps == ASSUME LInv, ExitDeferStop PROVE LInv'
  <1>1. /\ UNCHANGED <<late, track, registered, callback, exitThread,
                       port, lock, connection, happened>>
        /\ PortTypes'
    BY SameTypes DEF ExitDeferStop, trackVars, portVars
  <1>2. /\ at'.message = at.message /\ PlaceTypes'
        /\ at.driver \in {"door", "wake", "join"}
        /\ at'.driver \in {"wake", "join"} \/ (at.driver = "join" /\ at'.driver = "none")
    <2>1. PICK a \in {"door", "wake", "join"}, b \in {"wake", "join", "none"} :
             Go("driver", a, b) /\ (b = "none" => a = "join")
      BY DEF ExitDeferStop
    <2>2. b \in DriverPlaces
      BY <2>1 DEF DriverPlaces
    <2>3. at.driver = a /\ at'.driver = b /\ at'.message = at.message /\ PlaceTypes'
      BY <2>1, <2>2, DriverGoes DEF LInv
    <2> QED BY <2>1, <2>3
  <1>3. /\ driver \in {"backing out", "unloading"} /\ "track" \in parts /\ "queue" \notin parts
        /\ "exclude" \in parts /\ "config" \in parts
    BY <1>2 DEF LInv, DriverPlace, PartsUp, InTrackUninitialize
  <1>4. TrackTypes'
    <2>1. \/ exits' = [exits EXCEPT !.stop = TRUE, !.running = FALSE]
          \/ exits' = [exits EXCEPT !.event = TRUE]
          \/ exits' = [exits EXCEPT !.listed = 0]
      BY DEF ExitDeferStop, Signalled
    <2>2. 0 \in 0 .. MaxListed
      BY DriverLifecycleAssumption
    <2>3. exits' \in [running : BOOLEAN, stop : BOOLEAN, event : BOOLEAN, listed : 0 .. MaxListed]
      BY <2>1, <2>2 DEF LInv, TrackTypes
    <2> QED BY <1>1, <2>3 DEF LInv, TrackTypes
  <1>5. CASE at'.driver \in {"wake", "join"} /\ UNCHANGED <<driver, parts>>
    <2>1. DriverTypes'
      BY <1>1, <1>5 DEF LInv, DriverTypes
    <2>2. PartsUp' /\ DriverPlace'
      BY <1>2, <1>3, <1>5 DEF LInv, PartsUp, DriverPlace, InTrackUninitialize, Parts
    <2>3. ExitThreadPlace' /\ LockPlace' /\ PortPlace' /\ MessagePlace'
      BY <1>1, <1>2, <1>5 DEF LInv, ExitThreadPlace, LockPlace, PortPlace, MessagePlace
    <2>4. Registration' /\ TrackDown'
      BY <1>1, <1>2, <1>3, <1>5 DEF LInv, Registration, TrackDown, InTrackUninitialize
    <2> QED BY <1>1, <1>2, <1>4, <2>1, <2>2, <2>3, <2>4 DEF LInv
  <1>6. CASE /\ at.driver = "join" /\ at'.driver = "none" /\ exitThread = "ended"
             /\ exits' = [exits EXCEPT !.listed = 0] /\ Down("track")
    <2>1. parts' = parts \ {"track"} /\ driver' = driver
      <3>1. parts' = parts \ {"track"} /\ "exclude" \in parts'
        BY <1>3, <1>6 DEF Down
      <3> QED BY <1>6, <3>1 DEF Down
    <2>2. DriverTypes'
      BY <1>1, <2>1 DEF LInv, DriverTypes
    <2>3. PartsUp' /\ DriverPlace'
      <3>1. "exclude" \in parts' /\ driver' \in {"backing out", "unloading"}
        BY <1>3, <2>1
      <3>2. PartsUp'
        BY <1>3, <2>1, <3>1 DEF LInv, PartsUp, Parts
      <3> QED BY <1>6, <3>2 DEF DriverPlace, InTrackUninitialize
    <2>4. ExitThreadPlace' /\ LockPlace' /\ PortPlace'
      BY <1>1, <1>2, <1>3, <1>6, <2>1 DEF LInv, ExitThreadPlace, LockPlace, PortPlace
    <2>5. late = {} => at.message = "none"
      BY <1>6 DEF LInv, MessagePlace
    <2>6. late = {} => track = NoTrack
      BY <1>6 DEF LInv, TrackDown, InTrackUninitialize, TrackTypes, NoTrack
    <2>7. exits'.listed = 0
      BY <1>6 DEF LInv, TrackTypes
    <2>8. late = {} => ~registered /\ callback = "none"
      BY <2>5, <2>6 DEF LInv, Registration, NoTrack
    <2>9. MessagePlace' /\ Registration' /\ TrackDown'
      BY <1>1, <1>2, <1>6, <2>5, <2>6, <2>7, <2>8
      DEF MessagePlace, Registration, TrackDown, InTrackUninitialize
    <2> QED BY <1>1, <1>2, <1>4, <2>2, <2>3, <2>4, <2>9 DEF LInv
  <1>7. \/ Go("driver", "door", "wake") /\ UNCHANGED <<driver, parts>>
        \/ Go("driver", "wake", "join") /\ UNCHANGED <<driver, parts>>
        \/ /\ exitThread = "ended" /\ Go("driver", "join", "none")
           /\ exits' = [exits EXCEPT !.listed = 0] /\ Down("track")
    BY DEF ExitDeferStop
  <1> QED BY <1>5, <1>6, <1>7, DriverGoes DEF LInv, DriverPlaces

\* Start registers the routine while the tracker is up.
LEMMA TrackStartKeeps == ASSUME LInv, TrackStart PROVE LInv'
  <1>1. UNCHANGED <<driver, parts, late, callback, exits, exitThread,
                    port, lock, connection, happened>>
    BY DEF TrackStart, threadVars, portVars
  <1>2. /\ registered' \in {registered, TRUE}
        /\ \/ track' = track
           \/ track' = [track EXCEPT !.active = TRUE]
           \/ track' = [track EXCEPT !.notify = TRUE]
           \/ track' = [track EXCEPT !.entries = TRUE]
    BY DEF TrackStart, trackVars
  <1>3. TrackTypes' /\ (track.notify => track'.notify)
    BY <1>1, <1>2, ZenonT(60) DEF LInv, TrackTypes
  <1>4. PICK a \in {"start", "registered", "activate", "snapshot"},
             b \in {"none", "registered", "activate", "snapshot", "push"} :
           /\ Go("message", a, b)
           /\ a = "registered" => track' = [track EXCEPT !.notify = TRUE]
           /\ registered' # registered => b = "registered"
    BY DEF TrackStart, trackVars
  <1>5. /\ at.message = a /\ at'.message = b /\ at'.driver = at.driver
        /\ PlaceTypes'
    BY <1>4, MessageGoes DEF LInv, MessagePlaces
  <1>6. DriverTypes'
    BY <1>1 DEF LInv, DriverTypes
  <1>7. PortTypes'
    BY <1>1, SameTypes
  <1>8. PartsUp' /\ DriverPlace'
    BY <1>1, <1>5 DEF LInv, PartsUp, DriverPlace, InTrackUninitialize, Parts
  <1>9. ExitThreadPlace' /\ LockPlace' /\ PortPlace' /\ MessagePlace'
    BY <1>1, <1>5 DEF LInv, ExitThreadPlace, LockPlace, PortPlace, MessagePlace
  <1>10. late = {} => "track" \in parts /\ at.driver = "none"
    BY <1>5 DEF LInv, MessagePlace
  <1>11. a = "registered" => track'.notify
    BY <1>4 DEF LInv, TrackTypes
  <1>12. Registration' /\ TrackDown'
    BY <1>1, <1>3, <1>4, <1>5, <1>10, <1>11 DEF LInv, Registration, TrackDown, InTrackUninitialize
  <1> QED BY <1>3, <1>5, <1>6, <1>7, <1>8, <1>9, <1>12 DEF LInv

\* The snapshot owns the mutex only while it pushes.
LEMMA SnapshotPushKeeps == ASSUME LInv, SnapshotPush PROVE LInv'
  <1>1. /\ UNCHANGED <<driver, parts, late, track, registered, callback, exits, exitThread,
                       port, connection, happened>>
        /\ TrackTypes'
    BY SameTypes DEF SnapshotPush, trackVars, threadVars
  <1>2. /\ at.message = "push" /\ at'.driver = at.driver /\ PlaceTypes'
        /\ \/ lock' = "message" /\ at'.message = "push"
           \/ lock' = "free" /\ at'.message = "none"
    <2>1. CASE Acquire("message") /\ UNCHANGED at
      BY <2>1, SameTypes DEF SnapshotPush, Acquire
    <2>2. CASE Release("message") /\ Go("message", "push", "none")
      BY <2>2, MessageGoes DEF Release, LInv, MessagePlaces
    <2> QED BY <2>1, <2>2 DEF SnapshotPush
  <1>3. DriverTypes'
    BY <1>1 DEF LInv, DriverTypes
  <1>4. PortTypes'
    BY <1>1, <1>2 DEF LInv, PortTypes
  <1>5. PartsUp' /\ DriverPlace'
    BY <1>1, <1>2 DEF LInv, PartsUp, DriverPlace, InTrackUninitialize, Parts
  <1>6. ExitThreadPlace' /\ LockPlace' /\ PortPlace' /\ MessagePlace'
    BY <1>1, <1>2 DEF LInv, ExitThreadPlace, LockPlace, PortPlace, MessagePlace
  <1>7. Registration' /\ TrackDown'
    BY <1>1, <1>2 DEF LInv, Registration, TrackDown, InTrackUninitialize
  <1> QED BY <1>1, <1>2, <1>3, <1>4, <1>5, <1>6, <1>7 DEF LInv
\* What a process notification, or a push, leaves alone.
LEMMA PlacesKept ==
    ASSUME LInv, UNCHANGED <<driver, parts, at, late>>, Happens \/ UNCHANGED happened
    PROVE  DriverTypes' /\ PlaceTypes' /\ PartsUp' /\ DriverPlace' /\ MessagePlace'
  <1>1. happened' \in 0 .. MaxHappenings
    BY HappensType DEF LInv
  <1>2. DriverTypes'
    BY <1>1 DEF LInv, DriverTypes
  <1>3. PlaceTypes'
    BY SameTypes
  <1> QED BY <1>2, <1>3 DEF LInv, PartsUp, DriverPlace, MessagePlace

\* A notification is called while the routine is registered.
LEMMA NotifiedKeeps == ASSUME LInv, Notified PROVE LInv'
  <1>1. /\ registered /\ callback = "none" /\ callback' \in {"create", "exit"}
        /\ UNCHANGED <<driver, parts, at, late, track, registered, exits, exitThread,
                       port, lock, connection>>
        /\ Happens
    BY DEF Notified, driverVars, trackVars, portVars
  <1>2. DriverTypes' /\ PlaceTypes' /\ PartsUp' /\ DriverPlace' /\ MessagePlace'
    BY <1>1, PlacesKept
  <1>3. TrackTypes'
    BY <1>1 DEF LInv, TrackTypes
  <1>4. PortTypes'
    BY <1>1, SameTypes
  <1>5. ExitThreadPlace' /\ LockPlace' /\ PortPlace' /\ Registration' /\ TrackDown'
    BY <1>1 DEF LInv, ExitThreadPlace, LockPlace, PortPlace, Registration, TrackDown,
                InTrackUninitialize
  <1> QED BY <1>2, <1>3, <1>4, <1>5 DEF LInv

\* A notification that enters a process precedes the end of the wait for it.
LEMMA ProcessNotifyKeeps == ASSUME LInv, ProcessNotify PROVE LInv'
  <1>1. /\ callback \in {"create", "exit", "insert", "remove"}
        /\ callback' \in {"none", "insert", "remove", "push", "defer"}
        /\ \E more \in BOOLEAN : track' \in {track, [track EXCEPT !.entries = more]}
    BY DEF ProcessNotify
  <1>2. /\ UNCHANGED <<driver, parts, at, late, registered, exits, exitThread,
                       port, lock, connection, happened>>
    BY DEF ProcessNotify, driverVars, portVars
  <1>3. DriverTypes' /\ PlaceTypes' /\ PartsUp' /\ DriverPlace' /\ MessagePlace'
    BY <1>2, PlacesKept
  <1>4. TrackTypes' /\ track'.active = track.active /\ track'.notify = track.notify
    BY <1>1, <1>2 DEF LInv, TrackTypes
  <1>5. PortTypes'
    BY <1>2, SameTypes
  <1>6. ExitThreadPlace' /\ LockPlace' /\ PortPlace' /\ Registration'
    BY <1>1, <1>2, <1>4 DEF LInv, ExitThreadPlace, LockPlace, PortPlace, Registration
  <1>7. TrackDown'
    <2>1. late = {} => "track" \in parts /\ (track.notify \/ at.message = "registered")
      BY <1>1 DEF LInv, Registration
    <2>2. late = {} => at.driver \notin {"purge", "door", "wake", "join"}
      BY <2>1 DEF LInv, TrackDown, MessagePlace
    <2> QED BY <1>2, <1>4, <2>1, <2>2 DEF LInv, TrackDown, InTrackUninitialize
  <1> QED BY <1>3, <1>4, <1>5, <1>6, <1>7 DEF LInv

\* A notification owns the mutex only while it pushes.
LEMMA CreatedPushKeeps == ASSUME LInv, CreatedPush PROVE LInv'
  <1>1. /\ callback = "push"
        /\ \/ lock' = "callback" /\ callback' = "push"
           \/ lock' = "free" /\ callback' = "none"
        /\ UNCHANGED <<driver, parts, at, late, track, registered, exits, exitThread,
                       port, connection, happened>>
    BY DEF CreatedPush, Acquire, Release, driverVars, trackVars
  <1>2. DriverTypes' /\ PlaceTypes' /\ PartsUp' /\ DriverPlace' /\ MessagePlace'
    BY <1>1, PlacesKept
  <1>3. TrackTypes'
    BY <1>1 DEF LInv, TrackTypes
  <1>4. PortTypes'
    BY <1>1 DEF LInv, PortTypes
  <1>5. ExitThreadPlace' /\ LockPlace' /\ PortPlace' /\ Registration' /\ TrackDown'
    BY <1>1 DEF LInv, ExitThreadPlace, LockPlace, PortPlace, Registration, TrackDown,
                InTrackUninitialize
  <1> QED BY <1>2, <1>3, <1>4, <1>5 DEF LInv

\* An exit is listed while the tracker is up.
LEMMA ExitDeferEnqueueKeeps == ASSUME LInv, ExitDeferEnqueue PROVE LInv'
  <1>1. /\ callback \in {"defer", "signal"} /\ callback' \in {"none", "signal"}
        /\ \/ exits' = exits
           \/ exits.listed < MaxListed /\ exits' = [exits EXCEPT !.listed = exits.listed + 1]
           \/ exits' = [exits EXCEPT !.event = TRUE]
    BY DEF ExitDeferEnqueue, Signalled
  <1>2. /\ UNCHANGED <<driver, parts, at, late, track, registered, exitThread,
                       port, lock, connection, happened>>
    BY DEF ExitDeferEnqueue, driverVars, trackVars, portVars
  <1>3. DriverTypes' /\ PlaceTypes' /\ PartsUp' /\ DriverPlace' /\ MessagePlace'
    BY <1>2, PlacesKept
  <1>4. TrackTypes'
    <2>1. exits.listed < MaxListed => exits.listed + 1 \in 0 .. MaxListed
      BY DriverLifecycleAssumption DEF LInv, TrackTypes
    <2>2. exits' \in [running : BOOLEAN, stop : BOOLEAN, event : BOOLEAN, listed : 0 .. MaxListed]
      BY <1>1, <2>1 DEF LInv, TrackTypes
    <2> QED BY <1>1, <1>2, <2>2 DEF LInv, TrackTypes
  <1>5. PortTypes'
    BY <1>2, SameTypes
  <1>6. ExitThreadPlace' /\ LockPlace' /\ PortPlace' /\ Registration'
    BY <1>1, <1>2 DEF LInv, ExitThreadPlace, LockPlace, PortPlace, Registration
  <1>7. TrackDown'
    <2>1. late = {} => "track" \in parts
      BY <1>1 DEF LInv, Registration
    <2> QED BY <1>2, <2>1 DEF LInv, TrackDown, InTrackUninitialize
  <1> QED BY <1>3, <1>4, <1>5, <1>6, <1>7 DEF LInv

\* The thread takes exits from the list and adds none.
LEMMA ExitDeferWorkerKeeps == ASSUME LInv, ExitDeferWorker PROVE LInv'
  <1>1. /\ exitThread \in {"test", "wait", "take", "held"}
        /\ exitThread' \in {"test", "wait", "take", "held", "push", "ended"}
        /\ \/ exits' = exits
           \/ exits' = [exits EXCEPT !.event = FALSE]
           \/ exits.listed > 0 /\ exits' = [exits EXCEPT !.listed = exits.listed - 1]
    BY DEF ExitDeferWorker
  <1>2. /\ UNCHANGED <<driver, parts, at, late, track, registered, callback,
                       port, lock, connection, happened>>
    BY DEF ExitDeferWorker, driverVars, trackVars, portVars
  <1>3. DriverTypes' /\ PlaceTypes' /\ PartsUp' /\ DriverPlace' /\ MessagePlace'
    BY <1>2, PlacesKept
  <1>4. TrackTypes' /\ (exits.listed = 0 => exits'.listed = 0)
    <2>1. exits.listed > 0 => exits.listed - 1 \in 0 .. MaxListed
      BY DriverLifecycleAssumption DEF LInv, TrackTypes
    <2>2. exits' \in [running : BOOLEAN, stop : BOOLEAN, event : BOOLEAN, listed : 0 .. MaxListed]
      BY <1>1, <2>1 DEF LInv, TrackTypes
    <2>3. exits.listed = 0 => exits'.listed = 0
      BY <1>1 DEF LInv, TrackTypes
    <2> QED BY <1>1, <1>2, <2>2, <2>3 DEF LInv, TrackTypes
  <1>5. PortTypes'
    BY <1>2, SameTypes
  <1>6. ExitThreadPlace' /\ LockPlace' /\ PortPlace' /\ Registration'
    BY <1>1, <1>2 DEF LInv, ExitThreadPlace, LockPlace, PortPlace, Registration
  <1>7. TrackDown'
    BY <1>2, <1>4 DEF LInv, TrackDown
  <1> QED BY <1>3, <1>4, <1>5, <1>6, <1>7 DEF LInv

\* The thread owns the mutex only while it pushes.
LEMMA ExitedPushKeeps == ASSUME LInv, ExitedPush PROVE LInv'
  <1>1. /\ exitThread = "push"
        /\ \/ lock' = "exit" /\ exitThread' = "push"
           \/ lock' = "free" /\ exitThread' = "take"
        /\ UNCHANGED <<driver, parts, at, late, track, registered, callback, exits,
                       port, connection, happened>>
    BY DEF ExitedPush, Acquire, Release, driverVars, trackVars
  <1>2. DriverTypes' /\ PlaceTypes' /\ PartsUp' /\ DriverPlace' /\ MessagePlace'
    BY <1>1, PlacesKept
  <1>3. TrackTypes'
    BY <1>1 DEF LInv, TrackTypes
  <1>4. PortTypes'
    BY <1>1 DEF LInv, PortTypes
  <1>5. ExitThreadPlace' /\ LockPlace' /\ PortPlace' /\ Registration' /\ TrackDown'
    BY <1>1 DEF LInv, ExitThreadPlace, LockPlace, PortPlace, Registration, TrackDown,
                InTrackUninitialize
  <1> QED BY <1>2, <1>3, <1>4, <1>5 DEF LInv

\* The queue sends while it is up.
LEMMA QueueSendKeeps == ASSUME LInv, QueueSend \/ QueueSent PROVE LInv'
  <1>1. /\ \/ lock' = "free" /\ UNCHANGED happened
           \/ lock' = "queue" /\ "queue" \in parts /\ Happens
        /\ UNCHANGED <<driver, parts, at, late, track, registered, callback, exits, exitThread,
                       port, connection>>
    BY DEF QueueSend, QueueSent, Acquire, Release, driverVars, trackVars, threadVars
  <1>2. DriverTypes' /\ PlaceTypes' /\ PartsUp' /\ DriverPlace' /\ MessagePlace'
    BY <1>1, PlacesKept
  <1>3. TrackTypes'
    BY <1>1, SameTypes
  <1>4. PortTypes'
    BY <1>1 DEF LInv, PortTypes
  <1>5. ExitThreadPlace' /\ LockPlace' /\ PortPlace' /\ Registration' /\ TrackDown'
    BY <1>1 DEF LInv, ExitThreadPlace, LockPlace, PortPlace, Registration, TrackDown
  <1> QED BY <1>2, <1>3, <1>4, <1>5 DEF LInv
\* A client let in once the driver has looked for one is counted as late.
LEMMA ConnectKeeps == ASSUME LInv, Connect PROVE LInv'
  <1>1. /\ port.server
        /\ connection' = "open" /\ port' = [port EXCEPT !.client = TRUE]
        /\ late' = IF at.driver = "server" THEN late \union {"connect"} ELSE late
        /\ UNCHANGED <<driver, parts, at, lock, track, registered, callback, exits, exitThread,
                       happened>>
    BY DEF Connect, trackVars, threadVars
  <1>2. "comm" \in parts /\ "filter" \in parts
    BY <1>1 DEF LInv, PortPlace, PartsUp
  <1>3. late' = {} => late = {} /\ at.driver # "server"
    BY <1>1
  <1>4. DriverTypes'
    BY <1>1 DEF LInv, DriverTypes
  <1>5. PlaceTypes' /\ TrackTypes'
    BY <1>1, SameTypes
  <1>6. PortTypes'
    BY <1>1 DEF LInv, PortTypes
  <1>7. PartsUp' /\ DriverPlace' /\ ExitThreadPlace' /\ LockPlace'
    BY <1>1 DEF LInv, PartsUp, DriverPlace, ExitThreadPlace, LockPlace
  <1>8. PortPlace' /\ MessagePlace' /\ Registration' /\ TrackDown'
    BY <1>1, <1>2, <1>3 DEF LInv, PortPlace, MessagePlace, Registration, TrackDown
  <1> QED BY <1>4, <1>5, <1>6, <1>7, <1>8 DEF LInv

\* A client goes.
LEMMA DisconnectKeeps == ASSUME LInv, Disconnect PROVE LInv'
  <1>1. /\ connection' = "none" /\ port' = [port EXCEPT !.client = FALSE]
        /\ UNCHANGED <<driver, parts, at, late, lock, track, registered, callback, exits,
                       exitThread, happened>>
    BY DEF Disconnect, driverVars, trackVars, threadVars
  <1>2. DriverTypes' /\ PlaceTypes' /\ PartsUp' /\ DriverPlace' /\ MessagePlace'
    BY <1>1, PlacesKept
  <1>3. TrackTypes'
    BY <1>1, SameTypes
  <1>4. PortTypes' /\ port'.server = port.server /\ ~port'.client
    BY <1>1 DEF LInv, PortTypes
  <1>5. ExitThreadPlace' /\ LockPlace' /\ PortPlace' /\ Registration' /\ TrackDown'
    BY <1>1, <1>4 DEF LInv, ExitThreadPlace, LockPlace, PortPlace, Registration, TrackDown
  <1> QED BY <1>2, <1>3, <1>4, <1>5 DEF LInv

\* A Start or Stop that finds the tracker going or gone is counted as late.
LEMMA DispatchKeeps ==
    ASSUME LInv, NEW place \in {"start", "deactivate"}, Dispatch(place)
    PROVE  LInv'
  <1>1. /\ at.message = "none" /\ at'.message = place /\ at'.driver = at.driver
        /\ PlaceTypes'
    BY MessageGoes DEF LInv, Dispatch, MessagePlaces
  <1>2. /\ late' = IF at.driver # "none" \/ "track" \notin parts
                   THEN late \union {"message"} ELSE late
        /\ UNCHANGED <<driver, parts, track, registered, callback, exits, exitThread,
                       port, lock, connection, happened>>
    BY DEF Dispatch, trackVars, threadVars, portVars
  <1>3. late' = {} => late = {} /\ at.driver = "none" /\ "track" \in parts
    BY <1>2
  <1>4. DriverTypes'
    BY <1>2 DEF LInv, DriverTypes
  <1>5. TrackTypes' /\ PortTypes'
    BY <1>2, SameTypes
  <1>6. PartsUp' /\ DriverPlace'
    BY <1>1, <1>2 DEF LInv, PartsUp, DriverPlace
  <1>7. ExitThreadPlace' /\ LockPlace' /\ PortPlace' /\ MessagePlace'
    BY <1>1, <1>2, <1>3 DEF LInv, ExitThreadPlace, LockPlace, PortPlace, MessagePlace
  <1>8. Registration' /\ TrackDown'
    BY <1>1, <1>2, <1>3 DEF LInv, Registration, TrackDown, InTrackUninitialize
  <1> QED BY <1>1, <1>4, <1>5, <1>6, <1>7, <1>8 DEF LInv

\* FilterUnload begins with all parts up.
LEMMA LeaveStartedKeeps ==
    ASSUME LInv, LeaveStarted, Happens \/ UNCHANGED happened
    PROVE  LInv'
  <1>1. /\ driver = "started" /\ driver' = "unloading"
        /\ UNCHANGED <<parts, at, late, track, registered, callback, exits, exitThread,
                       port, lock, connection>>
    BY DEF LeaveStarted, trackVars, threadVars, portVars
  <1>2. happened' \in 0 .. MaxHappenings
    BY HappensType DEF LInv
  <1>3. DriverTypes'
    BY <1>1, <1>2 DEF LInv, DriverTypes
  <1>4. PlaceTypes' /\ TrackTypes' /\ PortTypes'
    BY <1>1, SameTypes
  <1>5. PartsUp' /\ DriverPlace'
    BY <1>1 DEF LInv, PartsUp, DriverPlace, Parts
  <1> QED BY <1>1, <1>3, <1>4, <1>5
          DEF LInv, ExitThreadPlace, LockPlace, PortPlace, MessagePlace, Registration, TrackDown

\* Steps of the client that do not reach the driver.
LEMMA IdleKeeps ==
    ASSUME LInv, UNCHANGED systemVars, Happens \/ UNCHANGED happened
    PROVE  LInv'
  <1>1. UNCHANGED <<driver, parts, at, late, track, registered, callback, exits, exitThread,
                    port, lock, connection>>
    BY DEF systemVars, driverVars, trackVars, threadVars, portVars
  <1>2. DriverTypes' /\ PlaceTypes' /\ PartsUp' /\ DriverPlace' /\ MessagePlace'
    BY <1>1, PlacesKept
  <1>3. TrackTypes' /\ PortTypes'
    BY <1>1, SameTypes
  <1> QED BY <1>1, <1>2, <1>3
          DEF LInv, ExitThreadPlace, LockPlace, PortPlace, Registration, TrackDown

-----------------------------------------------------------------------------

\* The driver's own threads, the notifications and the queue keep the invariant.
LEMMA LifeNextKeeps == ASSUME LInv, LifeNext PROVE LInv'
  <1>1. CASE DriverStep
    BY <1>1, BringUpKeeps, BringUpTrackKeeps, StartFilteringKeeps, ReferenceExitThreadKeeps,
       JoinOrphanKeeps, TakeDownKeeps, TrackUninitializeKeeps, CommUninitializeKeeps,
       TrackStopKeeps, ExitDeferStopKeeps
    DEF DriverStep
  <1>2. CASE MessageStep
    BY <1>2, TrackStartKeeps, SnapshotPushKeeps, TrackStopKeeps DEF MessageStep
  <1>3. CASE CallbackStep
    BY <1>3, ProcessNotifyKeeps, CreatedPushKeeps, ExitDeferEnqueueKeeps DEF CallbackStep
  <1>4. CASE ExitStep
    BY <1>4, ExitDeferWorkerKeeps, ExitedPushKeeps DEF ExitStep
  <1>5. CASE Notified \/ QueueSend \/ QueueSent
    BY <1>5, NotifiedKeeps, QueueSendKeeps
  <1> QED BY <1>1, <1>2, <1>3, <1>4, <1>5 DEF LifeNext

\* What the steps of the client and of the system around it do to the driver.
LEMMA ClientSteps ==
    ASSUME UiStep \/ Operate \/ Tick \/ Crash \/ HandleClosed \/ UnloadedByOthers
    PROVE  \/ Load \/ Connect \/ Disconnect
           \/ \E place \in {"start", "deactivate"} : Dispatch(place)
           \/ LeaveStarted /\ (Happens \/ UNCHANGED happened)
           \/ UNCHANGED systemVars /\ (Happens \/ UNCHANGED happened)
  <1>1. ASSUME UNCHANGED lifeVars PROVE UNCHANGED systemVars /\ UNCHANGED happened
    BY <1>1 DEF lifeVars
  <1>2. ASSUME NEW steps, Command(steps) PROVE UNCHANGED systemVars /\ Happens
    BY <1>2 DEF Command
  <1>3. CASE LoadIfNeeded
    BY <1>1, <1>3 DEF LoadIfNeeded
  <1>4. CASE ConnectClient
    BY <1>1, <1>4 DEF ConnectClient
  <1>5. CASE Leave
    BY <1>1, <1>5 DEF Leave
  <1>6. CASE SendAddRoot \/ SendAddExclude
    BY <1>6 DEF SendAddRoot, SendAddExclude, Allocates
  <1>7. CASE SendStartStop
    BY <1>1, <1>7 DEF SendStartStop
  <1>8. CASE ShowRoot \/ SendClear \/ StartWorker \/ RefreshStats \/ Launch \/ Tick
    BY <1>1, <1>8 DEF ShowRoot, SendClear, StartWorker, RefreshStats, Launch, Tick
  <1>9. CASE Operate
    BY <1>1, <1>2, <1>9
    DEF Operate, Launch, Shutdown, InvokeClearRoots, InvokeClearExcludes, InvokeStart, InvokeStop,
        InvokeAddWatchRoot, InvokeRemoveRoot, InvokeAddExclude, InvokeRemoveExclude
  <1>10. CASE Crash \/ HandleClosed \/ UnloadedByOthers
    BY <1>10 DEF Crash, HandleClosed, UnloadedByOthers
  <1> QED BY <1>3, <1>4, <1>5, <1>6, <1>7, <1>8, <1>9, <1>10 DEF UiStep
\* The driver is out at first.
LEMMA InitLInv == UxInit => LInv
  <1> SUFFICES ASSUME UxInit PROVE LInv
    OBVIOUS
  <1>1. LifeInit /\ 0 \in 0 .. MaxListed /\ 0 \in 0 .. MaxHappenings
    BY DriverLifecycleAssumption DEF UxInit
  <1>2. DriverTypes
    BY <1>1 DEF LifeInit, DriverTypes
  <1>3. PlaceTypes
    BY <1>1 DEF LifeInit, PlaceTypes, DriverPlaces, MessagePlaces
  <1>4. TrackTypes
    BY <1>1 DEF LifeInit, TrackTypes, NoTrack, NoExits
  <1>5. PortTypes
    BY <1>1 DEF LifeInit, PortTypes, NoPort
  <1>6. PartsUp /\ DriverPlace /\ ExitThreadPlace /\ LockPlace
    BY <1>1 DEF LifeInit, PartsUp, DriverPlace, ExitThreadPlace, LockPlace, InTrackUninitialize, Parts
  <1>7. PortPlace /\ MessagePlace /\ Registration /\ TrackDown
    BY <1>1 DEF LifeInit, PortPlace, MessagePlace, Registration, TrackDown, InTrackUninitialize,
                NoPort, NoExits
  <1> QED BY <1>2, <1>3, <1>4, <1>5, <1>6, <1>7 DEF LInv

\* Every step of UxNext keeps it.
LEMMA StepLInv == LInv /\ [UxNext]_uxVars => LInv'
  <1> SUFFICES ASSUME LInv, [UxNext]_uxVars PROVE LInv'
    OBVIOUS
  <1>1. CASE Driver(LifeNext)
    BY <1>1, LifeNextKeeps DEF Driver
  <1>2. CASE UiStep \/ Operate \/ Tick \/ Crash \/ HandleClosed \/ UnloadedByOthers
    BY <1>2, ClientSteps, LoadKeeps, ConnectKeeps, DisconnectKeeps, DispatchKeeps,
       LeaveStartedKeeps, IdleKeeps
  <1>3. CASE UNCHANGED uxVars
    BY <1>3, IdleKeeps DEF uxVars, lifeVars
  <1> QED BY <1>1, <1>2, <1>3 DEF UxNext

\* In every reachable state.
THEOREM LifeInvariant == UxSpec => []LInv
  BY InitLInv, StepLInv, PTL DEF UxSpec

\* LifeTypeOK: the variables of the driver hold what they are meant to hold.
THEOREM LifeTyped == UxSpec => []LifeTypeOK
  <1>1. LInv => LifeTypeOK
    BY DEF LInv, LifeTypeOK, DriverTypes, PlaceTypes, DriverPlaces, MessagePlaces, TrackTypes,
           PortTypes
  <1> QED BY <1>1, LifeInvariant, PTL

\* NothingLeft: wherever DriverEntry failed, and whatever was under way when
\* FilterUnload began, a driver that is out has left no part, thread, routine,
\* entry or port behind, for every bound on what happens meanwhile, unless one of
\* the overlaps in late came to pass.
THEOREM UnloadLeavesNothing == UxSpec => []NothingLeft
  <1>1. LInv => NothingLeft
    <2> SUFFICES ASSUME LInv, driver = "out", late = {}
                 PROVE  /\ parts = {}
                        /\ ~registered /\ ~track.active /\ ~track.notify /\ ~track.entries
                        /\ callback = "none"
                        /\ exitThread \in {"none", "ended"} /\ exits.listed = 0
                        /\ port = NoPort /\ lock = "free" /\ connection # "open"
      BY DEF NothingLeft
    <2>1. parts = {}
      BY DEF LInv, PartsUp
    <2>2. /\ ~registered /\ callback = "none" /\ track = NoTrack /\ exits.listed = 0
          /\ at.message = "none" /\ connection # "open"
      BY <2>1 DEF LInv, Registration, TrackDown, MessagePlace, PortPlace
    <2>3. ~track.active /\ ~track.notify /\ ~track.entries
      BY <2>2 DEF NoTrack
    <2>4. exitThread \in {"none", "ended"}
      BY <2>1 DEF LInv, ExitThreadPlace, DriverPlace
    <2>5. port = NoPort
      BY <2>1 DEF LInv, PortPlace, PortTypes, NoPort
    <2>6. lock = "free"
      BY <2>1, <2>2, <2>4 DEF LInv, LockPlace, PortTypes
    <2> QED BY <2>1, <2>2, <2>3, <2>4, <2>5, <2>6
  <1> QED BY <1>1, LifeInvariant, PTL

\* UsesLiveParts: no thread, notification, send or control message uses a part of
\* the driver that has been taken down: the exit thread and the queue's sends
\* never, the others unless one of the overlaps in late came to pass.
THEOREM OnlyLivePartsUsed == UxSpec => []UsesLiveParts
  <1>1. LInv => UsesLiveParts
    <2> SUFFICES ASSUME LInv PROVE UsesLiveParts
      OBVIOUS
    <2>1. exitThread \notin {"none", "ended"} =>
             "track" \in parts \/ at.driver \in {"reference", "orphan"}
      BY DEF LInv, ExitThreadPlace
    <2>2. late = {} /\ (registered \/ callback # "none") => "track" \in parts
      BY DEF LInv, Registration
    <2>3. late = {} /\ lock # "free" /\ port.client => "filter" \in parts /\ "comm" \in parts
      BY DEF LInv, PortPlace, PartsUp
    <2>4. connection = "open" => "config" \in parts /\ "exclude" \in parts /\ "filter" \in parts
      BY DEF LInv, PortPlace, PartsUp
    <2>5. lock = "queue" => "queue" \in parts /\ "comm" \in parts /\ "filter" \in parts
      BY DEF LInv, LockPlace, PartsUp
    <2> QED BY <2>1, <2>2, <2>3, <2>4, <2>5 DEF UsesLiveParts
  <1> QED BY <1>1, LifeInvariant, PTL
=============================================================================
