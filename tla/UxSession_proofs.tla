--------------------------- MODULE UxSession_proofs ---------------------------
(***************************************************************************)
(* What the client shows of the driver, proved of UxSession: whether it      *)
(* tracks, that the files of the client are excluded, and that the roots in  *)
(* the driver's table are those that are listed, for tables of any size, any *)
(* bounds on what happens, and paths as the assumptions of UxSession say.    *)
(***************************************************************************)
EXTENDS DriverLifecycle_proofs, SequenceTheorems

BootOps == {"load", "loaded", "connect"}
ExitOps == {"disconnect", "unload", "quit"}
RootOps == {"root", "show", "clear roots"}
PlainOps == BootOps \union ExitOps \union {"worker", "start", "stop", "stats"}

Paths == Seq(Chars)

Steps ==
    [op : PlainOps]
    \union [op : {"root", "guard"}, path : Paths]
    \union [op : {"show"}, path : Roots]
    \union [op : {"exclude"}, path : Excludes]
    \union [op : {"clear roots"}, rest : Seq(Roots)]
    \union [op : {"clear excludes"}, rest : Seq(Excludes)]

Fields == [roots : Seq(Roots), excludes : Seq(Excludes), active : BOOLEAN,
           worker : BOOLEAN, loadedHere : BOOLEAN, answered : BOOLEAN]

ClientTypes == client \in {"off", "on"} /\ program \in Seq(Steps) /\ ui \in Fields

TableTypes ==
    /\ roots \in Seq(Paths) /\ Len(roots) <= MaxRoots
    /\ patterns \in Seq(Paths) /\ Len(patterns) <= MaxPatterns
    /\ inherited \in BOOLEAN /\ starved \in BOOLEAN

-----------------------------------------------------------------------------
(* Steps and programs. *)

\* What a step carries.
LEMMA StepTypes ==
    ASSUME NEW s \in Steps
    PROVE  /\ s.op \in {"root", "guard"} => s.path \in Paths
           /\ s.op = "show" => s.path \in Roots
           /\ s.op = "exclude" => s.path \in Excludes
           /\ s.op = "clear roots" => s.rest \in Seq(Roots)
           /\ s.op = "clear excludes" => s.rest \in Seq(Excludes)
           /\ s.op \in PlainOps \union RootOps \union {"guard", "exclude", "clear excludes"}
  BY DEF Steps, PlainOps, BootOps, ExitOps, RootOps

\* The steps that commands are made of.
LEMMA StepsAre ==
    /\ \A op \in PlainOps : Op(op) \in Steps /\ Op(op).op = op
    /\ \A path \in Paths : /\ Add("root", path) \in Steps /\ Add("guard", path) \in Steps
    /\ \A r \in Roots : Add("show", r) \in Steps
    /\ \A p \in Excludes : Add("exclude", p) \in Steps
    /\ \A rest \in Seq(Roots) : Clear("clear roots", rest) \in Steps
    /\ \A rest \in Seq(Excludes) : Clear("clear excludes", rest) \in Steps
  BY DEF Op, Add, Clear, Steps

\* Roots and patterns are paths, and so are the names of a root.
LEMMA PathTypes ==
    /\ Vol \in Paths /\ Dos \in Paths /\ Sep \in Chars
    /\ \A r \in Roots : r \in Paths /\ r # << >>
    /\ \A p \in Excludes : p \in Paths /\ p # << >>
    /\ \A image \in Images : image \in Paths
    /\ \A file \in OwnFiles : file \in Paths
    /\ Manifest \in Paths /\ BackupRoot \in Paths
  BY PathAssumption, UxSessionAssumption DEF Paths

LEMMA NameTypes ==
    ASSUME NEW d \in {Vol, Dos}, NEW r \in Paths
    PROVE  /\ d \o r \in Paths /\ Len(d \o r) = Len(d) + Len(r)
           /\ r # << >> => d \o r # << >>
           /\ \A k \in 1 .. Len(d) : (d \o r)[k] = d[k]
           /\ \A k \in 1 .. Len(r) : (d \o r)[Len(d) + k] = r[k]
           /\ Len(d) \in Nat /\ Len(r) \in Nat
  <1>1. d \in Seq(Chars) /\ r \in Seq(Chars)
    BY PathTypes DEF Paths
  <1>2. /\ d \o r \in Seq(Chars) /\ Len(d \o r) = Len(d) + Len(r)
        /\ \A i \in 1 .. Len(d) + Len(r) : (d \o r)[i] = IF i <= Len(d) THEN d[i] ELSE r[i - Len(d)]
    BY <1>1, ConcatProperties, Zenon
  <1>3. Len(d) \in Nat /\ Len(r) \in Nat
    BY <1>1
  <1>4. \A k \in 1 .. Len(d) : (d \o r)[k] = d[k]
    BY <1>2, <1>3
  <1>5. \A k \in 1 .. Len(r) : (d \o r)[Len(d) + k] = r[k]
    BY <1>2, <1>3
  <1>6. ASSUME r # << >> PROVE d \o r # << >>
    <2>1. Len(r) > 0
      BY <1>1, <1>6, EmptySeq
    <2>2. Len(d \o r) > 0
      BY <1>2, <1>3, <2>1
    <2> QED BY <2>2, EmptySeq
  <1> QED BY <1>2, <1>3, <1>4, <1>5, <1>6 DEF Paths

\* The pattern that keeps the session's directory out.
LEMMA BackupTailIs ==
    /\ BackupTail \in Paths /\ (Guarded => BackupTail # << >>)
    /\ BackupTail # << >> => BackupTail[1] # Dot
  <1>1. BackupRoot \in Seq(Chars) /\ Sep \in Chars
    BY PathTypes DEF Paths
  <1>2. Len(BackupRoot) \in Nat /\ \A i \in 1 .. Len(BackupRoot) : BackupRoot[i] \in Chars
    BY <1>1, ElementOfSeq
  <1>3. PICK tail : tail = SubSeq(BackupRoot, 3, Len(BackupRoot))
    OBVIOUS
  <1>4. tail \in Seq(Chars)
    <2>1. \A i \in 3 .. Len(BackupRoot) : BackupRoot[i] \in Chars
      BY <1>2
    <2> QED BY <1>2, <1>3, <2>1, SubSeqProperties
  <1>5. << >> \in Seq(Chars) /\ Append(tail, Sep) \in Seq(Chars)
    BY <1>1, <1>4, AppendProperties
  <1>6. BackupTail = << >> \/ BackupTail = tail \/ BackupTail = Append(tail, Sep)
    BY <1>3, Zenon DEF BackupTail
  <1>7. BackupTail \in Paths
    BY <1>4, <1>5, <1>6 DEF Paths
  <1> QED BY <1>7, BackupAssumption DEF Guarded

\* The first step and the others.
LEMMA ProgramTail ==
    ASSUME program \in Seq(Steps), program # << >>
    PROVE  /\ Len(program) \in Nat \ {0}
           /\ Step = program[1] /\ Step \in Steps
           /\ Tail(program) \in Seq(Steps)
           /\ Len(Tail(program)) = Len(program) - 1
           /\ \A k \in 1 .. Len(program) - 1 : Tail(program)[k] = program[k + 1]
  <1>1. Len(program) \in Nat \ {0}
    BY EmptySeq
  <1>2. /\ Head(program) \in Steps /\ Tail(program) \in Seq(Steps)
        /\ Len(Tail(program)) = Len(program) - 1
        /\ \A k \in 1 .. Len(Tail(program)) : Tail(program)[k] = program[k + 1]
    BY HeadTailProperties, Zenon
  <1> QED BY <1>1, <1>2 DEF Step

\* Some step to come, or every one, is one of ops.
Has(ops) == \E k \in 1 .. Len(program) : program[k].op \in ops
Only(ops) == \A k \in 1 .. Len(program) : program[k].op \in ops

\* What is to come after the first step was to come before it.
LEMMA TailHas ==
    ASSUME program \in Seq(Steps), program # << >>, program' = Tail(program)
    PROVE  /\ \A ops : /\ Has(ops)' => Has(ops)
                       /\ Has(ops) /\ Step.op \notin ops => Has(ops)'
                       /\ Only(ops) => Only(ops)' /\ Step.op \in ops
           /\ program' # << >> => /\ Len(program) > 1 /\ Len(program') = Len(program) - 1
                                  /\ program'[Len(program')] = program[Len(program)]
                                  /\ program'[1] = program[2]
           /\ program' = << >> => Len(program) = 1
  <1>1. /\ Len(program) \in Nat \ {0} /\ Step = program[1]
        /\ Len(program') = Len(program) - 1 /\ program' \in Seq(Steps)
        /\ \A k \in 1 .. Len(program) - 1 : program'[k] = program[k + 1]
    BY ProgramTail
  <1>2. ASSUME NEW ops, Has(ops)' PROVE Has(ops)
    <2>1. PICK k \in 1 .. Len(program) - 1 : program'[k].op \in ops
      BY <1>1, <1>2 DEF Has
    <2>2. k + 1 \in 1 .. Len(program) /\ program[k + 1].op \in ops
      BY <1>1, <2>1
    <2> QED BY <2>2 DEF Has
  <1>3. ASSUME NEW ops, Has(ops), Step.op \notin ops PROVE Has(ops)'
    <2>1. PICK k \in 1 .. Len(program) : program[k].op \in ops
      BY <1>3 DEF Has
    <2>2. k # 1
      BY <1>1, <1>3, <2>1
    <2>3. k - 1 \in 1 .. Len(program) - 1 /\ (k - 1) + 1 = k
      BY <1>1, <2>1, <2>2
    <2>4. program'[k - 1] = program[k]
      BY <1>1, <2>3
    <2> QED BY <1>1, <2>1, <2>3, <2>4 DEF Has
  <1>4. ASSUME NEW ops, Only(ops) PROVE Only(ops)' /\ Step.op \in ops
    <2>1. \A k \in 1 .. Len(program) - 1 : k + 1 \in 1 .. Len(program)
      BY <1>1
    <2>2. 1 \in 1 .. Len(program)
      BY <1>1
    <2> QED BY <1>1, <1>4, <2>1, <2>2 DEF Only
  <1>5. ASSUME program' # << >>
        PROVE  /\ Len(program) > 1 /\ Len(program') = Len(program) - 1
               /\ program'[Len(program')] = program[Len(program)]
               /\ program'[1] = program[2]
    <2>1. Len(program') \in Nat \ {0}
      BY <1>1, <1>5, EmptySeq
    <2>2. Len(program) - 1 \in 1 .. Len(program) - 1 /\ 1 \in 1 .. Len(program) - 1
      BY <1>1, <2>1
    <2>3. program'[Len(program) - 1] = program[(Len(program) - 1) + 1] /\ program'[1] = program[1 + 1]
      BY <1>1, <2>2
    <2> QED BY <1>1, <2>1, <2>3
  <1>6. ASSUME program' = << >> PROVE Len(program) = 1
    <2>1. Len(<< >>) = 0
      OBVIOUS
    <2>2. Len(program') = 0
      BY <1>6, <2>1, Zenon
    <2> QED BY <1>1, <2>2
  <1> QED BY <1>2, <1>3, <1>4, <1>5, <1>6

\* Nothing is to come.
LEMMA EmptyProgram ==
    program = << >> => /\ Len(program) = 0
                       /\ \A ops : ~Has(ops) /\ Only(ops)
  BY DEF Has, Only

-----------------------------------------------------------------------------
(* What the driver's own steps leave to the client. *)

LEMMA LifeSteps ==
    ASSUME LInv, LifeNext
    PROVE  /\ driver' \in {"starting", "backing out"} => driver \in {"starting", "backing out"}
           /\ driver' = "started" => driver \in {"starting", "started"}
           /\ at'.message # "none" => at.message # "none"
           /\ connection' = "open" => connection = "open"
           /\ driver' = "started" /\ driver = "started" /\ at.message = "none" =>
                 track'.active = track.active
  <1> DEFINE Leaves ==
        /\ driver' \in {"starting", "backing out"} => driver \in {"starting", "backing out"}
        /\ driver' = "started" => driver \in {"starting", "started"}
        /\ at'.message # "none" => at.message # "none"
        /\ connection' = "open" => connection = "open"
        /\ driver' = "started" /\ driver = "started" /\ at.message = "none" =>
              track'.active = track.active
  <1>p. PlaceTypes /\ at \in [driver : DriverPlaces, message : MessagePlaces]
    BY DEF LInv, PlaceTypes
  <1>t. track \in [active : BOOLEAN, notify : BOOLEAN, entries : BOOLEAN]
    BY DEF LInv, TrackTypes
  <1>g. \A a, b : Go("driver", a, b) => at.driver = a /\ at'.message = at.message
    BY <1>p DEF Go
  <1>m. \A a, b : Go("message", a, b) => at.message = a
    BY DEF Go
  <1>1. CASE DriverStep
    <2>1. CASE BringUp \/ StartFiltering
      BY <2>1 DEF BringUp, StartFiltering, BringingUp, Up, BackOut, portVars, trackVars
    <2>2. CASE BringUpTrack \/ ReferenceExitThread \/ JoinOrphan
      BY <2>2, <1>g DEF BringUpTrack, ReferenceExitThread, JoinOrphan, BringingUp, Up, BackOut,
                        LInv, DriverPlace, portVars, trackVars
    <2>3. CASE TakeDown \/ TrackUninitialize \/ CommUninitialize
      BY <2>3, <1>g DEF TakeDown, TrackUninitialize, CommUninitialize, TakingDown, Down,
                        LInv, DriverPlace, portVars, trackVars
    <2>4. CASE TrackStop("driver") \/ ExitDeferStop
      BY <2>4, <1>g DEF TrackStop, ExitDeferStop, Down, LInv, DriverPlace, InTrackUninitialize,
                        portVars, trackVars
    <2> QED BY <1>1, <2>1, <2>2, <2>3, <2>4 DEF DriverStep
  <1>2. CASE MessageStep
    BY <1>2, <1>m DEF MessageStep, TrackStart, SnapshotPush, TrackStop, portVars, trackVars
  <1>3. CASE CallbackStep \/ ExitStep
    BY <1>3, <1>t DEF CallbackStep, ProcessNotify, CreatedPush, ExitDeferEnqueue, ExitStep,
                ExitDeferWorker, ExitedPush, driverVars, portVars, trackVars
  <1>4. CASE Notified \/ QueueSend \/ QueueSent
    BY <1>4 DEF Notified, QueueSend, QueueSent, driverVars, portVars, trackVars
  <1>5. Leaves
    BY <1>1, <1>2, <1>3, <1>4 DEF LifeNext
  <1> QED BY <1>5

-----------------------------------------------------------------------------
(* The client's invariants. *)

\* What a client does at its start.
BootProgram ==
    \/ Len(program) = 2 /\ program[1].op = "connect" /\ program[2].op = "stats"
    \/ /\ Len(program) = 3 /\ program[1].op \in {"load", "loaded"}
       /\ program[2].op = "connect" /\ program[3].op = "stats"

\* What a program is: load and connect come first; a client that quits does nothing
\* else; what it does otherwise ends with a look at the driver.
ProgramInv ==
    /\ client = "off" => program = << >>
    /\ program # << >> => program[Len(program)].op \in {"stats", "quit"}
    /\ Has(BootOps) => BootProgram /\ ui.roots = << >> /\ ~ui.worker
    /\ Has(ExitOps) => Only(ExitOps)
    /\ driver \in {"starting", "backing out"} =>
          program # << >> /\ program[1].op = "loaded" /\ at.message = "none"
    /\ at.message # "none" => program # << >>

\* The client is connected, and at its work.
Linked ==
    /\ client = "on" /\ connection = "open"
    /\ ~Has(BootOps) /\ ~Has(ExitOps)

Guard == Add("guard", BackupTail)
GuardToCome == \E k \in 1 .. Len(program) : program[k] = Guard

\* The client's directory is excluded, or will be, or there is no place left, if
\* there is a pattern for it that the driver takes.
ClearsFirst ==
    \A k \in 1 .. Len(program) : program[k].op = "clear excludes" =>
        k = 1 /\ (Guarded /\ ui.worker => GuardToCome) /\ ~Has({"worker"})

GuardAhead ==
    Guarded /\ Linked /\ ~starved /\ (ui.worker \/ Has({"worker"})) =>
        BackupTail \in Elements(patterns) \/ Len(patterns) = MaxPatterns \/ GuardToCome

GuardInv == ClearsFirst /\ GuardAhead

IsName(path, r) == path = Vol \o r \/ path = Dos \o r

HasNames(r) ==
    \/ Vol \o r \in Elements(roots) /\ Dos \o r \in Elements(roots)
    \/ inherited /\ Len(roots) = MaxRoots

\* The table has the names of the roots that are listed, and no others, in pairs.
Consistent ==
    /\ 2 * Len(ui.roots) <= Len(roots)
    /\ \A r \in Elements(ui.roots) : HasNames(r)
    /\ ~inherited =>
          /\ Len(roots) % 2 = 0
          /\ \A path \in Elements(roots) : \E r \in Elements(ui.roots) : IsName(path, r)

\* A command that will clear the table and fill it again.
Clears(rest) ==
    /\ program # << >> /\ program[1].op = "clear roots" /\ program[1].rest = rest
    /\ 2 * Len(rest) <= MaxRoots
    /\ Len(program) = 2 * Len(rest) + 2
    /\ \A k \in 1 .. 2 * Len(rest) : program[k + 1] = AllNames(rest)[k]
    /\ program[Len(program)].op = "stats"

\* It has cleared the table and filled it with the first names.
Refilling ==
    /\ program # << >> /\ program[Len(program)].op = "stats"
    /\ ~inherited
    /\ 2 * Len(ui.roots) <= MaxRoots
    /\ Len(program) - 1 + Len(roots) = 2 * Len(ui.roots)
    /\ \A k \in 1 .. Len(program) - 1 : program[k] = AllNames(ui.roots)[Len(roots) + k]
    /\ \A k \in 1 .. Len(roots) : AllNames(ui.roots)[k] = Add("root", roots[k])

\* Before the two names of r are added, ...
AddingFirst(r) ==
    /\ Len(program) = 4 /\ ~ui.answered
    /\ program[1] = Add("root", Vol \o r) /\ program[2] = Add("root", Dos \o r)
    /\ program[3] = Add("show", r) /\ program[4].op = "stats"
    /\ Consistent

\* ... between them, ...
AddingSecond(r) ==
    /\ Len(program) = 3
    /\ program[1] = Add("root", Dos \o r)
    /\ program[2] = Add("show", r) /\ program[3].op = "stats"
    /\ \A q \in Elements(ui.roots) : HasNames(q)
    /\ IF ui.answered
       THEN /\ 2 * Len(ui.roots) + 1 <= Len(roots)
            /\ Vol \o r \in Elements(roots)
            /\ ~inherited => Len(roots) % 2 = 1
       ELSE 2 * Len(ui.roots) <= Len(roots) /\ Len(roots) = MaxRoots
    /\ ~inherited => \A path \in Elements(roots) :
          (\E q \in Elements(ui.roots) : IsName(path, q)) \/ (ui.answered /\ IsName(path, r))

\* ... and after.
AddingShown(r) ==
    /\ Len(program) = 2
    /\ program[1] = Add("show", r) /\ program[2].op = "stats"
    /\ \A q \in Elements(ui.roots) : HasNames(q)
    /\ 2 * Len(ui.roots) <= Len(roots)
    /\ ui.answered => HasNames(r) /\ 2 * Len(ui.roots) + 2 <= Len(roots)
    /\ ~inherited =>
          /\ Len(roots) % 2 = 0
          /\ \A path \in Elements(roots) :
                (\E q \in Elements(ui.roots) : IsName(path, q)) \/ (ui.answered /\ IsName(path, r))

RootPlace ==
    \/ ~Has(RootOps) /\ Consistent
    \/ \E rest \in Seq(Roots) : Clears(rest)
    \/ Refilling
    \/ \E r \in Roots : AddingFirst(r) \/ AddingSecond(r) \/ AddingShown(r)

\* Wherever a command has come, the table and the list agree but for what it has
\* yet to do.
RootInv == Linked /\ ~starved => RootPlace

UxTypes == ClientTypes /\ TableTypes
UxInv == ProgramInv /\ ActiveShown /\ GuardInv /\ RootInv

-----------------------------------------------------------------------------
(* Commands. *)

\* The program of a command is its steps and a look at the driver.
LEMMA CommandProgram ==
    ASSUME NEW steps \in Seq(Steps), program' = steps \o <<Op("stats")>>
    PROVE  /\ program' \in Seq(Steps) /\ program' # << >>
           /\ Len(steps) \in Nat /\ Len(program') = Len(steps) + 1
           /\ \A k \in 1 .. Len(steps) : program'[k] = steps[k]
           /\ program'[Len(steps) + 1] = Op("stats")
           /\ \A ops : Has(ops)' => "stats" \in ops \/ \E k \in 1 .. Len(steps) : steps[k].op \in ops
           /\ \A ops, k : k \in 1 .. Len(steps) /\ steps[k].op \in ops => Has(ops)'
  <1>1. Op("stats") \in Steps /\ Op("stats").op = "stats"
    BY StepsAre DEF PlainOps
  <1>2. <<Op("stats")>> \in Seq(Steps) /\ Len(<<Op("stats")>>) = 1 /\ <<Op("stats")>>[1] = Op("stats")
    BY <1>1
  <1>3. /\ program' \in Seq(Steps) /\ Len(program') = Len(steps) + 1
        /\ \A i \in 1 .. Len(steps) + 1 :
              program'[i] = IF i <= Len(steps) THEN steps[i] ELSE <<Op("stats")>>[i - Len(steps)]
    BY <1>2, ConcatProperties
  <1>4. Len(steps) \in Nat
    OBVIOUS
  <1>5. /\ \A k \in 1 .. Len(steps) : program'[k] = steps[k]
        /\ program'[Len(steps) + 1] = Op("stats")
    BY <1>2, <1>3, <1>4
  <1>6. program' # << >>
    BY <1>3, <1>4
  <1>7. ASSUME NEW ops, Has(ops)'
        PROVE  "stats" \in ops \/ \E k \in 1 .. Len(steps) : steps[k].op \in ops
    <2>1. PICK k \in 1 .. Len(steps) + 1 : program'[k].op \in ops
      BY <1>3, <1>7 DEF Has
    <2>2. k \in 1 .. Len(steps) \/ k = Len(steps) + 1
      BY <1>4, <2>1
    <2> QED BY <1>1, <1>5, <2>1, <2>2
  <1>8. ASSUME NEW ops, NEW k, k \in 1 .. Len(steps), steps[k].op \in ops PROVE Has(ops)'
    <2>1. k \in 1 .. Len(program')
      BY <1>3, <1>4, <1>8
    <2> QED BY <1>5, <1>8, <2>1 DEF Has
  <1> QED BY <1>3, <1>4, <1>5, <1>6, <1>7, <1>8

\* A list without one of its elements.
LEMMA WithoutIs ==
    ASSUME NEW S, NEW list \in Seq(S), NEW x \in Elements(list)
    PROVE  /\ Without(list, x) \in Seq(S)
           /\ Len(Without(list, x)) = Len(list) - 1
  <1>1. \E i \in 1 .. Len(list) : list[i] = x
    BY DEF Elements
  <1> DEFINE k == CHOOSE i \in 1 .. Len(list) : list[i] = x
  <1>2. k \in 1 .. Len(list)
    BY <1>1
  <1>3. Len(list) \in Nat
    OBVIOUS
  <1> HIDE DEF k
  <1>4. /\ \A i \in 1 .. k - 1 : list[i] \in S
        /\ \A i \in k + 1 .. Len(list) : list[i] \in S
    BY <1>2, <1>3, ElementOfSeq
  <1>5. k \in Int /\ 1 \in Int /\ Len(list) \in Int /\ k - 1 \in Int /\ k + 1 \in Int
    BY <1>2, <1>3
  <1>6. SubSeq(list, 1, k - 1) \in Seq(S) /\ Len(SubSeq(list, 1, k - 1)) = k - 1
    BY <1>2, <1>4, <1>5, SubSeqProperties
  <1>7. SubSeq(list, k + 1, Len(list)) \in Seq(S)
        /\ Len(SubSeq(list, k + 1, Len(list))) = Len(list) - k
    BY <1>2, <1>4, <1>5, SubSeqProperties
  <1>8. Without(list, x) = SubSeq(list, 1, k - 1) \o SubSeq(list, k + 1, Len(list))
    BY DEF Without, k
  <1>9. \A s, t \in Seq(S) : s \o t \in Seq(S) /\ Len(s \o t) = Len(s) + Len(t)
    BY ConcatProperties
  <1>10. Without(list, x) \in Seq(S) /\ Len(Without(list, x)) = (k - 1) + (Len(list) - k)
    BY <1>6, <1>7, <1>8, <1>9
  <1> QED BY <1>2, <1>3, <1>10

\* The names of one root, and of a list of them.
LEMMA NamesAre ==
    ASSUME NEW r \in Roots
    PROVE  /\ Names(r) \in Seq(Steps) /\ Len(Names(r)) = 2
           /\ Names(r)[1] = Add("root", Vol \o r) /\ Names(r)[2] = Add("root", Dos \o r)
           /\ Names(r)[1] \in Steps /\ Names(r)[2] \in Steps
  <1>1. Vol \o r \in Paths /\ Dos \o r \in Paths
    BY PathTypes, NameTypes
  <1>2. Add("root", Vol \o r) \in Steps /\ Add("root", Dos \o r) \in Steps
    BY <1>1, StepsAre
  <1> QED BY <1>2 DEF Names

LEMMA HalfOf ==
    ASSUME NEW n \in Nat, NEW k \in 1 .. 2 * n
    PROVE  /\ (k + 1) \div 2 \in 1 .. n
           /\ k % 2 = 1 => k = 2 * ((k + 1) \div 2) - 1
           /\ k % 2 = 0 => k = 2 * ((k + 1) \div 2)
           /\ k % 2 \in {0, 1}
  OBVIOUS

LEMMA AllNamesAre ==
    ASSUME NEW list \in Seq(Roots)
    PROVE  /\ AllNames(list) \in Seq(Steps) /\ Len(AllNames(list)) = 2 * Len(list)
           /\ \A k \in 1 .. 2 * Len(list) :
                 \E r \in Elements(list), d \in {Vol, Dos} :
                     r \in Roots /\ AllNames(list)[k] = Add("root", d \o r)
           /\ \A i \in 1 .. Len(list) :
                 /\ AllNames(list)[2 * i - 1] = Add("root", Vol \o list[i])
                 /\ AllNames(list)[2 * i] = Add("root", Dos \o list[i])
  <1>1. Len(list) \in Nat /\ 2 * Len(list) \in Nat
    OBVIOUS
  <1>2. ASSUME NEW k \in 1 .. 2 * Len(list)
        PROVE  LET r == list[(k + 1) \div 2] IN
               /\ r \in Roots /\ r \in Elements(list)
               /\ k % 2 = 1 => Names(r)[2 - (k % 2)] = Add("root", Vol \o r)
               /\ k % 2 = 0 => Names(r)[2 - (k % 2)] = Add("root", Dos \o r)
               /\ k % 2 \in {0, 1}
               /\ Names(r)[2 - (k % 2)] \in Steps
    <2>1. (k + 1) \div 2 \in 1 .. Len(list) /\ k % 2 \in {0, 1}
      BY <1>1, HalfOf
    <2>2. PICK r : r = list[(k + 1) \div 2] /\ r \in Roots /\ r \in Elements(list)
      BY <2>1 DEF Elements
    <2>3. /\ Names(r) \in Seq(Steps) /\ Len(Names(r)) = 2
          /\ Names(r)[1] = Add("root", Vol \o r) /\ Names(r)[2] = Add("root", Dos \o r)
      BY <2>2, NamesAre
    <2>4. /\ k % 2 = 1 => 2 - (k % 2) = 1
          /\ k % 2 = 0 => 2 - (k % 2) = 2
      OBVIOUS
    <2>5. Names(r)[1] \in Steps /\ Names(r)[2] \in Steps
      BY <2>2, NamesAre
    <2> QED BY <2>1, <2>2, <2>3, <2>4, <2>5
  <1>3. \A k \in 1 .. 2 * Len(list) : AllNames(list)[k] = Names(list[(k + 1) \div 2])[2 - (k % 2)]
    BY DEF AllNames
  <1>4. AllNames(list) \in Seq(Steps) /\ Len(AllNames(list)) = 2 * Len(list)
    <2>1. AllNames(list) \in [1 .. 2 * Len(list) -> Steps]
      BY <1>2 DEF AllNames
    <2> QED BY <1>1, <2>1
  <1>5. ASSUME NEW k \in 1 .. 2 * Len(list)
        PROVE  \E r \in Elements(list), d \in {Vol, Dos} :
                   r \in Roots /\ AllNames(list)[k] = Add("root", d \o r)
    BY <1>2, <1>3
  <1>6. ASSUME NEW i \in 1 .. Len(list)
        PROVE  /\ AllNames(list)[2 * i - 1] = Add("root", Vol \o list[i])
               /\ AllNames(list)[2 * i] = Add("root", Dos \o list[i])
    <2>1. /\ 2 * i - 1 \in 1 .. 2 * Len(list) /\ 2 * i \in 1 .. 2 * Len(list)
          /\ ((2 * i - 1) + 1) \div 2 = i /\ (2 * i + 1) \div 2 = i
          /\ (2 * i - 1) % 2 = 1 /\ (2 * i) % 2 = 0
      BY <1>1
    <2> QED BY <1>2, <1>3, <2>1
  <1> QED BY <1>4, <1>5, <1>6

CommandOps == RootOps \union {"guard", "exclude", "clear excludes", "worker", "start", "stop"}

\* What the steps of a command may be: it adds one root, or clears the table and
\* fills it again, or leaves the roots alone; it clears the excludes only at first,
\* and then, or when it opens a session, it excludes the client's directory.
AddsRoot(steps) ==
    \E r \in Roots : /\ Len(steps) = 3
                     /\ steps[1] = Add("root", Vol \o r) /\ steps[2] = Add("root", Dos \o r)
                     /\ steps[3] = Add("show", r)

RefillsRoots(steps) ==
    \E rest \in Seq(Roots) :
        /\ 2 * Len(rest) <= 2 * Len(ui.roots)
        /\ Len(steps) = 2 * Len(rest) + 1
        /\ steps[1] = Clear("clear roots", rest)
        /\ \A k \in 1 .. 2 * Len(rest) : steps[k + 1] = AllNames(rest)[k]

LeavesRoots(steps) == \A k \in 1 .. Len(steps) : steps[k].op \notin RootOps

HasGuard(steps) == \E k \in 1 .. Len(steps) : steps[k] = Guard

KeepsGuard(steps) ==
    /\ \A k \in 1 .. Len(steps) : steps[k].op = "clear excludes" =>
          /\ k = 1 /\ (Guarded /\ ui.worker => HasGuard(steps))
          /\ \A j \in 1 .. Len(steps) : steps[j].op # "worker"
    /\ \A k \in 1 .. Len(steps) : steps[k].op = "worker" => (Guarded => HasGuard(steps))

Commands(steps) ==
    /\ steps \in Seq(Steps)
    /\ \A k \in 1 .. Len(steps) : steps[k].op \in CommandOps
    /\ AddsRoot(steps) \/ RefillsRoots(steps) \/ LeavesRoots(steps)
    /\ KeepsGuard(steps)

LEMMA KeepsNothing ==
    ASSUME NEW steps, \A k \in 1 .. Len(steps) : steps[k].op \notin {"clear excludes", "worker"}
    PROVE  KeepsGuard(steps)
  BY DEF KeepsGuard

\* Of lengths.
LEMMA SmallFacts ==
    /\ Len(<< >>) = 0 /\ \A k \in 1 .. 0 : FALSE
    /\ \A n \in Nat \ {0} : n # 0 /\ n \in 1 .. n /\ 1 \in 1 .. n
    /\ 3 - 1 = 2 /\ 1 + 1 = 2 /\ 2 + 1 = 3 /\ 2 # 0
    /\ \A k : k \in 1 .. 2 <=> k = 1 \/ k = 2
  OBVIOUS

\* Of a sequence of one.
LEMMA OnlyOne == 1 # 0 /\ \A k \in 1 .. 1 : k = 1
  OBVIOUS

\* A single step.
LEMMA OneStep ==
    ASSUME NEW s \in Steps
    PROVE  <<s>> \in Seq(Steps) /\ Len(<<s>>) = 1 /\ <<s>>[1] = s
  OBVIOUS

\* Each step of `both' is one of s or, further on, one of t.
EitherOf(both, s, t) ==
    \A k \in 1 .. Len(both) : \/ k \in 1 .. Len(s) /\ both[k] = s[k]
                              \/ \E j \in 1 .. Len(t) : k = Len(s) + j /\ both[k] = t[j]

\* Two sequences of steps.
LEMMA BothSteps ==
    ASSUME NEW s \in Seq(Steps), NEW t \in Seq(Steps), NEW both, both = s \o t
    PROVE  /\ both \in Seq(Steps) /\ Len(s) \in Nat /\ Len(t) \in Nat
           /\ Len(both) = Len(s) + Len(t)
           /\ \A k \in 1 .. Len(s) : both[k] = s[k]
           /\ \A k \in 1 .. Len(t) : both[Len(s) + k] = t[k]
           /\ EitherOf(both, s, t)
  <1>1. /\ both \in Seq(Steps) /\ Len(both) = Len(s) + Len(t)
        /\ \A i \in 1 .. Len(s) + Len(t) : both[i] = IF i <= Len(s) THEN s[i] ELSE t[i - Len(s)]
    BY ConcatProperties
  <1>2. Len(s) \in Nat /\ Len(t) \in Nat
    OBVIOUS
  <1>3. \A k \in 1 .. Len(s) : both[k] = s[k]
    BY <1>1, <1>2
  <1>4. \A k \in 1 .. Len(t) : both[Len(s) + k] = t[k]
    BY <1>1, <1>2
  <1>5. ASSUME NEW k \in 1 .. Len(both)
        PROVE  \/ k \in 1 .. Len(s) /\ both[k] = s[k]
               \/ \E j \in 1 .. Len(t) : k = Len(s) + j /\ both[k] = t[j]
    <2>1. CASE k <= Len(s)
      BY <1>1, <1>2, <1>3, <1>5, <2>1
    <2>2. CASE k > Len(s)
      <3>1. k - Len(s) \in 1 .. Len(t) /\ k = Len(s) + (k - Len(s))
        BY <1>1, <1>2, <2>2
      <3> QED BY <1>4, <3>1
    <2> QED BY <1>2, <2>1, <2>2
  <1>6. EitherOf(both, s, t)
    BY <1>5 DEF EitherOf
  <1> QED BY <1>1, <1>2, <1>3, <1>4, <1>6

LEMMA GuardOfBoth ==
    ASSUME NEW s \in Seq(Steps), NEW t \in Seq(Steps), NEW both, both = s \o t
    PROVE  HasGuard(s) \/ HasGuard(t) => HasGuard(both)
  <1>1. /\ Len(s) \in Nat /\ Len(t) \in Nat /\ Len(both) = Len(s) + Len(t)
        /\ \A k \in 1 .. Len(s) : both[k] = s[k]
        /\ \A k \in 1 .. Len(t) : both[Len(s) + k] = t[k]
    BY BothSteps
  <1>2. /\ \A k \in 1 .. Len(s) : k \in 1 .. Len(both)
        /\ \A k \in 1 .. Len(t) : Len(s) + k \in 1 .. Len(both)
    BY <1>1
  <1>3. HasGuard(s) => HasGuard(both)
    BY <1>1, <1>2, Zenon DEF HasGuard
  <1>4. HasGuard(t) => HasGuard(both)
    BY <1>1, <1>2, Zenon DEF HasGuard
  <1> QED BY <1>3, <1>4

LEMMA AddCommands ==
    ASSUME NEW r \in Roots PROVE Commands(Names(r) \o <<Add("show", r)>>)
  <1>1. PICK s : /\ s = Names(r) /\ s \in Seq(Steps) /\ Len(s) = 2
                 /\ s[1] = Add("root", Vol \o r) /\ s[2] = Add("root", Dos \o r)
    BY NamesAre
  <1>2. PICK t : /\ t = <<Add("show", r)>> /\ t \in Seq(Steps) /\ Len(t) = 1
                 /\ t[1] = Add("show", r)
    BY OneStep, StepsAre
  <1>3. PICK steps : steps = s \o t
    OBVIOUS
  <1>4. /\ steps \in Seq(Steps) /\ Len(steps) = 3
        /\ steps[1] = Add("root", Vol \o r) /\ steps[2] = Add("root", Dos \o r)
        /\ steps[3] = Add("show", r)
    <2>1. /\ steps \in Seq(Steps) /\ Len(steps) = Len(s) + Len(t)
          /\ \A k \in 1 .. Len(s) : steps[k] = s[k]
          /\ \A k \in 1 .. Len(t) : steps[Len(s) + k] = t[k]
      <3>1. s \in Seq(Steps) /\ t \in Seq(Steps)
        BY <1>1, <1>2
      <3> QED BY <1>3, <3>1, BothSteps
    <2> QED BY <1>1, <1>2, <2>1
  <1>5. AddsRoot(steps)
    BY <1>4 DEF AddsRoot
  <1>6. \A k \in 1 .. Len(steps) : steps[k].op \in {"root", "show"}
    BY <1>4 DEF Add
  <1>7. KeepsGuard(steps)
    BY <1>6 DEF KeepsGuard
  <1> QED BY <1>1, <1>2, <1>3, <1>4, <1>5, <1>6, <1>7 DEF Commands, CommandOps, RootOps

LEMMA RefillCommands ==
    ASSUME NEW rest \in Seq(Roots), Len(rest) <= Len(ui.roots), ui.roots \in Seq(Roots)
    PROVE  Commands(<<Clear("clear roots", rest)>> \o AllNames(rest))
  <1>1. Len(rest) \in Nat /\ Len(ui.roots) \in Nat
    OBVIOUS
  <1>2. PICK t, first : t = AllNames(rest) /\ first = <<Clear("clear roots", rest)>>
    OBVIOUS
  <1>3. t \in Seq(Steps) /\ Len(t) = 2 * Len(rest)
    BY <1>2, AllNamesAre
  <1>4. \A k \in 1 .. 2 * Len(rest) : t[k].op = "root"
    <2>1. \A k \in 1 .. 2 * Len(rest) :
             \E r \in Elements(rest), d \in {Vol, Dos} :
                 r \in Roots /\ t[k] = Add("root", d \o r)
      BY <1>2, AllNamesAre
    <2>2. \A path : Add("root", path).op = "root"
      BY DEF Add
    <2> QED BY <2>1, <2>2
  <1>5. first \in Seq(Steps) /\ Len(first) = 1 /\ first[1] = Clear("clear roots", rest)
    BY <1>2, OneStep, StepsAre
  <1>6. PICK steps : steps = first \o t
    OBVIOUS
  <1>7. /\ steps \in Seq(Steps) /\ Len(steps) = Len(first) + Len(t)
        /\ \A k \in 1 .. Len(first) : steps[k] = first[k]
        /\ \A k \in 1 .. Len(t) : steps[Len(first) + k] = t[k]
    <2>1. first \in Seq(Steps) /\ t \in Seq(Steps)
      BY <1>3, <1>5
    <2> QED BY <1>6, <2>1, BothSteps
  <1>a. Len(first) = 1 /\ Len(t) = 2 * Len(rest)
    BY <1>3, <1>5
  <1>8. Len(steps) = 2 * Len(rest) + 1 /\ steps[1] = Clear("clear roots", rest)
    <2>1. Len(steps) = 2 * Len(rest) + 1 /\ steps[1] = first[1]
      BY <1>1, <1>a, <1>7
    <2> QED BY <1>5, <2>1, Zenon
  <1>9. \A k \in 1 .. 2 * Len(rest) : steps[k + 1] = t[k]
    <2>1. TAKE k \in 1 .. 2 * Len(rest)
    <2>2. k \in 1 .. Len(t) /\ k + 1 = Len(first) + k
      BY <1>1, <1>a, <2>1
    <2> QED BY <1>7, <2>2, Zenon
  <1>10. RefillsRoots(steps)
    <2>1. \A k \in 1 .. 2 * Len(rest) : steps[k + 1] = AllNames(rest)[k]
      BY <1>2, <1>9, Zenon
    <2>2. 2 * Len(rest) <= 2 * Len(ui.roots)
      BY <1>1
    <2> QED BY <1>8, <2>1, <2>2 DEF RefillsRoots
  <1>11. \A k \in 1 .. Len(steps) : steps[k].op \in {"root", "clear roots"}
    <2>1. TAKE k \in 1 .. Len(steps)
    <2>2. CASE k = 1
      <3>1. Clear("clear roots", rest).op = "clear roots"
        BY DEF Clear
      <3> QED BY <1>8, <2>2, <3>1
    <2>3. CASE k # 1
      <3>1. k - 1 \in 1 .. 2 * Len(rest) /\ (k - 1) + 1 = k
        <4>1. Len(steps) = 2 * Len(rest) + 1
          BY <1>8
        <4> QED BY <1>1, <2>1, <2>3, <4>1
      <3>2. steps[k] = t[k - 1] /\ t[k - 1].op = "root"
        BY <1>4, <1>9, <3>1
      <3> QED BY <3>2
    <2> QED BY <2>2, <2>3
  <1>12. KeepsGuard(steps)
    BY <1>11 DEF KeepsGuard
  <1>13. Commands(steps)
    BY <1>7, <1>10, <1>11, <1>12 DEF Commands, CommandOps, RootOps
  <1> QED BY <1>2, <1>6, <1>13

\* A command that leaves the roots alone.
LEMMA PlainCommands ==
    ASSUME NEW steps \in Seq(Steps), KeepsGuard(steps),
           \A k \in 1 .. Len(steps) : steps[k].op \in CommandOps \ RootOps
    PROVE  Commands(steps)
  BY DEF Commands, LeavesRoots

\* The client's own patterns.
LEMMA SelfExcludesAre ==
    /\ SelfExcludes \in Seq(Steps)
    /\ \A k \in 1 .. Len(SelfExcludes) : SelfExcludes[k].op = "guard"
    /\ Guarded => HasGuard(SelfExcludes)
  <1>1. PICK m, s, t : /\ m = Add("guard", Manifest) /\ s = <<m>>
                       /\ t = IF BackupTail # << >> THEN <<Guard>> ELSE << >>
    OBVIOUS
  <1>2. m \in Steps /\ Guard \in Steps
    BY <1>1, StepsAre, PathTypes, BackupTailIs DEF Guard
  <1>3. m.op = "guard" /\ Guard.op = "guard"
    BY <1>1 DEF Add, Guard
  <1>4. s \in Seq(Steps) /\ Len(s) = 1 /\ s[1] = m
    BY <1>1, <1>2, OneStep
  <1>5. \A k \in 1 .. Len(s) : s[k].op = "guard"
    <2>1. \A k \in 1 .. Len(s) : k = 1
      BY <1>4, OnlyOne, Zenon
    <2> QED BY <1>3, <1>4, <2>1, Zenon
  <1>6. /\ t \in Seq(Steps) /\ \A k \in 1 .. Len(t) : t[k].op = "guard"
        /\ Guarded => HasGuard(t)
    <2>1. CASE BackupTail # << >>
      <3>1. PICK g : g = Guard
        OBVIOUS
      <3>2. t = <<g>> /\ g \in Steps
        BY <1>1, <1>2, <2>1, <3>1, Zenon
      <3>3. t \in Seq(Steps) /\ Len(t) = 1 /\ t[1] = g
        BY <3>2, OneStep
      <3>4. 1 \in 1 .. Len(t) /\ \A k \in 1 .. Len(t) : k = 1
        BY <3>3, SmallFacts, OnlyOne
      <3> QED BY <1>3, <3>1, <3>3, <3>4, Zenon DEF HasGuard
    <2>2. CASE BackupTail = << >>
      <3>1. t \in Seq(Steps) /\ Len(t) = 0
        BY <1>1, <2>2
      <3>2. \A k \in 1 .. Len(t) : FALSE
        BY <3>1
      <3> QED BY <2>2, <3>1, <3>2, BackupTailIs
    <2> QED BY <2>1, <2>2
  <1>7. PICK both : both = s \o t
    OBVIOUS
  <1>8. both = SelfExcludes
    BY <1>1, <1>7, Zenon DEF SelfExcludes, Guard
  <1>9. /\ both \in Seq(Steps)
        /\ \A k \in 1 .. Len(both) : \/ k \in 1 .. Len(s) /\ both[k] = s[k]
                                     \/ \E j \in 1 .. Len(t) : k = Len(s) + j /\ both[k] = t[j]
    <2>1. s \in Seq(Steps) /\ t \in Seq(Steps)
      BY <1>4, <1>6
    <2>2. both \in Seq(Steps) /\ EitherOf(both, s, t)
      BY <1>7, <2>1, BothSteps
    <2> QED BY <2>2 DEF EitherOf
  <1>10. \A k \in 1 .. Len(both) : both[k].op = "guard"
    BY <1>5, <1>6, <1>9, Zenon
  <1>11. Guarded => HasGuard(both)
    BY <1>4, <1>6, <1>7, GuardOfBoth, Zenon
  <1> QED BY <1>8, <1>9, <1>10, <1>11, Zenon

\* A command that clears the excludes brings back the client's own.
LEMMA ClearedAre ==
    ASSUME NEW rest \in Seq(Excludes), NEW s, s = ClearedExcludes(rest)
    PROVE  /\ s \in Seq(Steps) /\ Len(s) \in Nat \ {0}
           /\ s[1].op = "clear excludes"
           /\ \A k \in 1 .. Len(s) : k # 1 => s[k].op = "guard"
           /\ Guarded /\ ui.worker => HasGuard(s)
  <1>1. PICK c, first, own : /\ c = Clear("clear excludes", rest) /\ first = <<c>>
                             /\ own = IF ui.worker THEN SelfExcludes ELSE << >>
    OBVIOUS
  <1>2. c \in Steps /\ c.op = "clear excludes"
    BY <1>1, StepsAre DEF Clear
  <1>3. first \in Seq(Steps) /\ Len(first) = 1 /\ first[1] = c
    BY <1>1, <1>2, OneStep
  <1>4. /\ own \in Seq(Steps) /\ \A k \in 1 .. Len(own) : own[k].op = "guard"
        /\ Guarded /\ ui.worker => HasGuard(own)
    <2>1. CASE ui.worker
      <3>1. own = SelfExcludes
        BY <1>1, <2>1, Zenon
      <3>2. own \in Seq(Steps) /\ \A k \in 1 .. Len(own) : own[k].op = "guard"
        BY <3>1, SelfExcludesAre
      <3>3. Guarded => HasGuard(own)
        BY <3>1, SelfExcludesAre DEF HasGuard
      <3> QED BY <3>2, <3>3, Zenon
    <2>2. CASE ~ui.worker
      <3>1. own = << >>
        BY <1>1, <2>2, Zenon
      <3>2. own \in Seq(Steps) /\ \A k \in 1 .. Len(own) : FALSE
        BY <3>1
      <3> QED BY <2>2, <3>2, Zenon
    <2> QED BY <2>1, <2>2
  <1>5. s = first \o own
    BY <1>1, Zenon DEF ClearedExcludes
  <1>6. /\ s \in Seq(Steps) /\ Len(first) \in Nat /\ Len(own) \in Nat
        /\ Len(s) = Len(first) + Len(own)
        /\ \A k \in 1 .. Len(first) : s[k] = first[k]
        /\ \A k \in 1 .. Len(s) : \/ k \in 1 .. Len(first) /\ s[k] = first[k]
                                  \/ \E j \in 1 .. Len(own) : k = Len(first) + j /\ s[k] = own[j]
    <2>1. first \in Seq(Steps) /\ own \in Seq(Steps)
      BY <1>3, <1>4
    <2>2. /\ s \in Seq(Steps) /\ Len(first) \in Nat /\ Len(own) \in Nat
          /\ Len(s) = Len(first) + Len(own)
          /\ \A k \in 1 .. Len(first) : s[k] = first[k]
      BY <1>5, <2>1, BothSteps
    <2>3. EitherOf(s, first, own)
      BY <1>5, <2>1, BothSteps
    <2> QED BY <2>2, <2>3 DEF EitherOf
  <1>7. /\ Len(s) \in Nat \ {0} /\ 1 \in 1 .. Len(first)
        /\ \A k \in 1 .. Len(first) : k = 1
    <2>1. Len(first) = 1 /\ Len(own) \in Nat /\ Len(s) = Len(first) + Len(own)
      BY <1>3, <1>6, Zenon
    <2> QED BY <2>1
  <1>8. s[1].op = "clear excludes"
    BY <1>2, <1>3, <1>6, <1>7, Zenon
  <1>9. \A k \in 1 .. Len(s) : k # 1 => s[k].op = "guard"
    BY <1>4, <1>6, <1>7, Zenon
  <1>10. Guarded /\ ui.worker => HasGuard(s)
    BY <1>3, <1>4, <1>5, GuardOfBoth, Zenon
  <1> QED BY <1>6, <1>7, <1>8, <1>9, <1>10, Zenon

LEMMA ClearingCommands ==
    ASSUME NEW c \in Seq(Steps), c # << >>, c[1].op = "clear excludes",
           \A k \in 1 .. Len(c) : k # 1 => c[k].op = "guard",
           Guarded /\ ui.worker => HasGuard(c)
    PROVE  Commands(c)
  <1>1. \A k \in 1 .. Len(c) : c[k].op \in {"clear excludes", "guard"}
    OBVIOUS
  <1>2. KeepsGuard(c)
    BY <1>1 DEF KeepsGuard
  <1>3. \A k \in 1 .. Len(c) : c[k].op \in CommandOps \ RootOps
    BY <1>1 DEF CommandOps, RootOps
  <1> QED BY <1>2, <1>3, PlainCommands

LEMMA ClearExcludeCommands ==
    ASSUME NEW rest \in Seq(Excludes)
    PROVE  Commands(ClearedExcludes(rest))
  <1>1. PICK s : s = ClearedExcludes(rest)
    OBVIOUS
  <1>2. /\ s \in Seq(Steps) /\ Len(s) \in Nat \ {0} /\ s[1].op = "clear excludes"
        /\ \A k \in 1 .. Len(s) : k # 1 => s[k].op = "guard"
        /\ Guarded /\ ui.worker => HasGuard(s)
    BY <1>1, ClearedAre
  <1>3. s # << >>
    BY <1>2, EmptySeq
  <1> QED BY <1>1, <1>2, <1>3, ClearingCommands

LEMMA RemoveExcludeCommands ==
    ASSUME NEW rest \in Seq(Excludes)
    PROVE  Commands(ClearedExcludes(rest) \o [k \in 1 .. Len(rest) |-> Add("guard", rest[k])])
  <1>1. PICK s, t, both : /\ s = ClearedExcludes(rest)
                          /\ t = [k \in 1 .. Len(rest) |-> Add("guard", rest[k])]
                          /\ both = s \o t
    OBVIOUS
  <1>2. /\ s \in Seq(Steps) /\ Len(s) \in Nat \ {0} /\ s[1].op = "clear excludes"
        /\ \A k \in 1 .. Len(s) : k # 1 => s[k].op = "guard"
        /\ Guarded /\ ui.worker => HasGuard(s)
    BY <1>1, ClearedAre
  <1>3. t \in Seq(Steps) /\ \A k \in 1 .. Len(t) : t[k].op = "guard"
    <2>1. Len(rest) \in Nat
      OBVIOUS
    <2>2. \A k \in 1 .. Len(rest) : Add("guard", rest[k]) \in Steps /\ Add("guard", rest[k]).op = "guard"
      <3>1. \A k \in 1 .. Len(rest) : rest[k] \in Paths
        BY PathTypes
      <3>2. \A path : Add("guard", path).op = "guard"
        BY DEF Add
      <3> QED BY <3>1, <3>2, StepsAre
    <2>3. t \in [1 .. Len(rest) -> Steps] /\ \A k \in 1 .. Len(rest) : t[k].op = "guard"
      BY <1>1, <2>2
    <2>4. t \in Seq(Steps) /\ Len(t) = Len(rest)
      BY <2>1, <2>3
    <2> QED BY <2>3, <2>4
  <1>4. /\ both \in Seq(Steps) /\ Len(s) \in Nat /\ Len(t) \in Nat
        /\ Len(both) = Len(s) + Len(t)
        /\ \A k \in 1 .. Len(s) : both[k] = s[k]
        /\ \A k \in 1 .. Len(t) : both[Len(s) + k] = t[k]
        /\ \A k \in 1 .. Len(both) : \/ k \in 1 .. Len(s) /\ both[k] = s[k]
                                     \/ \E j \in 1 .. Len(t) : k = Len(s) + j /\ both[k] = t[j]
    <2>1. s \in Seq(Steps) /\ t \in Seq(Steps)
      BY <1>2, <1>3
    <2>2. both = s \o t
      BY <1>1
    <2>3. /\ both \in Seq(Steps) /\ Len(s) \in Nat /\ Len(t) \in Nat
          /\ Len(both) = Len(s) + Len(t)
          /\ \A k \in 1 .. Len(s) : both[k] = s[k]
          /\ \A k \in 1 .. Len(t) : both[Len(s) + k] = t[k]
      BY <2>1, <2>2, BothSteps
    <2>4. EitherOf(both, s, t)
      BY <2>1, <2>2, BothSteps
    <2> QED BY <2>3, <2>4 DEF EitherOf
  <1>5. 1 \in 1 .. Len(s) /\ Len(both) \in Nat \ {0}
    <2>1. Len(s) \in Nat \ {0} /\ Len(t) \in Nat /\ Len(both) = Len(s) + Len(t)
      BY <1>2, <1>4, Zenon
    <2> QED BY <2>1
  <1>6. both # << >> /\ both[1].op = "clear excludes"
    <2>1. both # << >>
      BY <1>4, <1>5, EmptySeq
    <2> QED BY <1>2, <1>4, <1>5, <2>1, Zenon
  <1>7. \A k \in 1 .. Len(both) : k # 1 => both[k].op = "guard"
    <2>1. TAKE k \in 1 .. Len(both)
    <2>2. CASE k \in 1 .. Len(s) /\ both[k] = s[k]
      BY <1>2, <2>2, Zenon
    <2>3. CASE \E j \in 1 .. Len(t) : both[k] = t[j]
      BY <1>3, <2>3, Zenon
    <2> QED BY <1>4, <2>1, <2>2, <2>3, Zenon
  <1>8. Guarded /\ ui.worker => HasGuard(both)
    BY <1>1, <1>2, <1>3, GuardOfBoth, Zenon
  <1>9. Commands(both)
    BY <1>4, <1>6, <1>7, <1>8, ClearingCommands
  <1> QED BY <1>1, <1>9

\* Tracking on: a session excludes its own directory before its worker starts.
LEMMA StartCommands ==
    Commands((IF ui.worker THEN << >> ELSE SelfExcludes \o <<Op("worker")>>) \o <<Op("start")>>)
  <1>1. PICK b, e : b = <<Op("worker")>> /\ e = <<Op("start")>>
    OBVIOUS
  <1>2. /\ b \in Seq(Steps) /\ Len(b) = 1 /\ b[1].op = "worker"
        /\ e \in Seq(Steps) /\ Len(e) = 1 /\ e[1].op = "start"
    <2>1. Op("worker") \in Steps /\ Op("start") \in Steps
      BY StepsAre DEF PlainOps
    <2>2. Op("worker").op = "worker" /\ Op("start").op = "start"
      BY DEF Op
    <2> QED BY <1>1, <2>1, <2>2
  <1>3. CASE ui.worker
    <2>1. (IF ui.worker THEN << >> ELSE SelfExcludes \o b) \o e = e
      <3>1. << >> \o e = e
        <4>1. e \in Seq(Steps)
          BY <1>2
        <4> QED BY <4>1, ConcatEmptySeq
      <3> QED BY <1>3, <3>1
    <2>2. \A k \in 1 .. Len(e) : e[k].op = "start"
      <3>1. \A k \in 1 .. Len(e) : k = 1
        <4>1. Len(e) = 1
          BY <1>2
        <4> QED BY <4>1
      <3> QED BY <1>2, <3>1, Zenon
    <2>3. KeepsGuard(e) /\ \A k \in 1 .. Len(e) : e[k].op \in CommandOps \ RootOps
      BY <2>2, KeepsNothing DEF CommandOps, RootOps
    <2>4. Commands(e)
      BY <1>2, <2>3, PlainCommands
    <2> QED BY <1>1, <2>1, <2>4
  <1>4. CASE ~ui.worker
    <2>1. PICK s, t : s = SelfExcludes \o b /\ t = s \o e
      OBVIOUS
    <2>2. /\ s \in Seq(Steps)
          /\ \A k \in 1 .. Len(s) :
                \/ k \in 1 .. Len(SelfExcludes) /\ s[k] = SelfExcludes[k]
                \/ \E j \in 1 .. Len(b) : k = Len(SelfExcludes) + j /\ s[k] = b[j]
      <3>1. SelfExcludes \in Seq(Steps) /\ b \in Seq(Steps)
        BY <1>2, SelfExcludesAre
      <3>2. s \in Seq(Steps) /\ EitherOf(s, SelfExcludes, b)
        BY <2>1, <3>1, BothSteps
      <3> QED BY <3>2 DEF EitherOf
    <2>3. /\ t \in Seq(Steps)
          /\ \A k \in 1 .. Len(t) :
                \/ k \in 1 .. Len(s) /\ t[k] = s[k]
                \/ \E j \in 1 .. Len(e) : k = Len(s) + j /\ t[k] = e[j]
      <3>1. s \in Seq(Steps) /\ e \in Seq(Steps)
        BY <1>2, <2>2
      <3>2. t = s \o e
        BY <2>1
      <3>3. t \in Seq(Steps) /\ EitherOf(t, s, e)
        BY <3>1, <3>2, BothSteps
      <3> QED BY <3>3 DEF EitherOf
    <2>4. /\ \A k \in 1 .. Len(b) : b[k].op = "worker"
          /\ \A k \in 1 .. Len(e) : e[k].op = "start"
      <3>1. /\ \A k \in 1 .. Len(b) : k = 1
            /\ \A k \in 1 .. Len(e) : k = 1
        BY <1>2, OnlyOne, Zenon
      <3> QED BY <1>2, <3>1, Zenon
    <2>5. \A k \in 1 .. Len(s) : s[k].op \in {"guard", "worker"}
      BY <2>2, <2>4, SelfExcludesAre
    <2>6. \A k \in 1 .. Len(t) : t[k].op \in {"guard", "worker", "start"}
      BY <2>3, <2>4, <2>5
    <2>7. Guarded => HasGuard(s)
      BY <1>2, <2>1, SelfExcludesAre, GuardOfBoth, Zenon
    <2>8. Guarded => HasGuard(t)
      BY <1>2, <2>1, <2>2, <2>7, GuardOfBoth, Zenon
    <2>9. Commands(t)
      <3>1. KeepsGuard(t)
        BY <2>6, <2>8 DEF KeepsGuard
      <3>2. \A k \in 1 .. Len(t) : t[k].op \in CommandOps \ RootOps
        BY <2>6 DEF CommandOps, RootOps
      <3> QED BY <2>3, <3>1, <3>2, PlainCommands
    <2>10. (IF ui.worker THEN << >> ELSE SelfExcludes \o b) \o e = t
      BY <1>4, <2>1
    <2> QED BY <1>1, <2>9, <2>10
  <1> QED BY <1>3, <1>4

\* Commands of one step, or of none.
LEMMA ShortCommands ==
    /\ Commands(<< >>) /\ Commands(<<Op("stop")>>)
    /\ \A p \in Excludes : Commands(<<Add("exclude", p)>>)
  <1>1. Commands(<< >>)
    <2>1. << >> \in Seq(Steps) /\ Len(<< >>) = 0
      OBVIOUS
    <2>2. \A k \in 1 .. Len(<< >>) : FALSE
      BY <2>1
    <2> QED BY <2>1, <2>2 DEF Commands, LeavesRoots, KeepsGuard
  <1>2. ASSUME NEW s \in Steps, s.op \in {"stop", "exclude"} PROVE Commands(<<s>>)
    <2>1. PICK c : c = <<s>>
      OBVIOUS
    <2>2. c \in Seq(Steps) /\ \A k \in 1 .. Len(c) : c[k].op \in {"stop", "exclude"}
      BY <1>2, <2>1
    <2>3. KeepsGuard(c) /\ \A k \in 1 .. Len(c) : c[k].op \in CommandOps \ RootOps
      BY <2>2 DEF KeepsGuard, CommandOps, RootOps
    <2> QED BY <2>1, <2>2, <2>3, PlainCommands
  <1>3. Op("stop") \in Steps /\ Op("stop").op = "stop"
    BY StepsAre DEF PlainOps
  <1>4. \A p \in Excludes : Add("exclude", p) \in Steps /\ Add("exclude", p).op = "exclude"
    BY StepsAre DEF Add
  <1> QED BY <1>1, <1>2, <1>3, <1>4

\* The table of roots is only cleared.
LEMMA ClearRootsCommands ==
    ASSUME ui.roots \in Seq(Roots) PROVE Commands(<<Clear("clear roots", << >>)>>)
  <1>1. PICK c, s : c = Clear("clear roots", << >>) /\ s = <<c>>
    OBVIOUS
  <1>2. << >> \in Seq(Roots) /\ Len(<< >>) = 0
    OBVIOUS
  <1>3. c \in Steps /\ c.op = "clear roots"
    BY <1>1, <1>2, StepsAre DEF Clear
  <1>4. s \in Seq(Steps) /\ Len(s) = 1 /\ s[1] = c
    BY <1>1, <1>3, OneStep
  <1>5. \A k \in 1 .. Len(s) : k = 1
    <2>1. Len(s) = 1
      BY <1>4
    <2> QED BY <2>1
  <1>6. \A k \in 1 .. Len(s) : s[k].op = "clear roots"
    BY <1>3, <1>4, <1>5, Zenon
  <1>7. RefillsRoots(s)
    <2>1. PICK rest : rest = << >> /\ rest \in Seq(Roots) /\ Len(rest) = 0
      BY <1>2
    <2>2. /\ 2 * Len(rest) <= 2 * Len(ui.roots) /\ Len(s) = 2 * Len(rest) + 1
          /\ \A k \in 1 .. 2 * Len(rest) : FALSE
      <3>1. Len(ui.roots) \in Nat /\ Len(rest) = 0 /\ Len(s) = 1
        BY <1>4, <2>1
      <3> QED BY <3>1
    <2>3. s[1] = Clear("clear roots", rest)
      BY <1>1, <1>4, <2>1, Zenon
    <2> QED BY <2>1, <2>2, <2>3, Zenon DEF RefillsRoots
  <1>8. KeepsGuard(s)
    BY <1>6, KeepsNothing
  <1>9. \A k \in 1 .. Len(s) : s[k].op \in CommandOps
    BY <1>6 DEF CommandOps, RootOps
  <1> QED BY <1>1, <1>4, <1>7, <1>8, <1>9 DEF Commands

\* Whatever the operator asks of a running client is a command like that.
LEMMA OperateCommands ==
    ASSUME ClientTypes,
           \/ InvokeClearRoots \/ InvokeClearExcludes \/ InvokeStart \/ InvokeStop
           \/ \E r \in Roots : InvokeAddWatchRoot(r) \/ InvokeRemoveRoot(r)
           \/ \E p \in Excludes : InvokeAddExclude(p) \/ InvokeRemoveExclude(p)
    PROVE  \E steps : Commands(steps) /\ Command(steps)
  <1>1. ui.roots \in Seq(Roots) /\ ui.excludes \in Seq(Excludes)
    BY DEF ClientTypes, Fields
  <1>2. CASE InvokeClearRoots
    BY <1>1, <1>2, ClearRootsCommands DEF InvokeClearRoots
  <1>3. CASE InvokeClearExcludes
    <2>1. << >> \in Seq(Excludes)
      OBVIOUS
    <2> QED BY <1>3, <2>1, ClearExcludeCommands DEF InvokeClearExcludes
  <1>4. CASE InvokeStart
    BY <1>4, StartCommands, ShortCommands DEF InvokeStart
  <1>5. CASE InvokeStop
    BY <1>5, ShortCommands DEF InvokeStop
  <1>6. CASE \E r \in Roots : InvokeAddWatchRoot(r)
    BY <1>6, AddCommands DEF InvokeAddWatchRoot
  <1>7. CASE \E r \in Roots : InvokeRemoveRoot(r)
    <2>1. PICK r \in Roots : InvokeRemoveRoot(r)
      BY <1>7
    <2>2. PICK rest : rest = Without(ui.roots, r)
      OBVIOUS
    <2>3. rest \in Seq(Roots) /\ Len(rest) = Len(ui.roots) - 1
      BY <1>1, <2>1, <2>2, WithoutIs DEF InvokeRemoveRoot
    <2>4. Len(rest) <= Len(ui.roots)
      <3>1. Len(ui.roots) \in Nat
        BY <1>1
      <3> QED BY <2>3, <3>1
    <2>5. Commands(<<Clear("clear roots", rest)>> \o AllNames(rest))
      BY <1>1, <2>3, <2>4, RefillCommands
    <2>6. Command(<<Clear("clear roots", rest)>> \o AllNames(rest))
      BY <2>1, <2>2 DEF InvokeRemoveRoot
    <2> QED BY <2>5, <2>6
  <1>8. CASE \E p \in Excludes : InvokeAddExclude(p)
    BY <1>8, ShortCommands DEF InvokeAddExclude
  <1>9. CASE \E p \in Excludes : InvokeRemoveExclude(p)
    <2>1. PICK p \in Excludes : InvokeRemoveExclude(p)
      BY <1>9
    <2>2. PICK rest : rest = Without(ui.excludes, p)
      OBVIOUS
    <2>3. rest \in Seq(Excludes)
      BY <1>1, <2>1, <2>2, WithoutIs DEF InvokeRemoveExclude
    <2>4. Command(ClearedExcludes(rest) \o [k \in 1 .. Len(rest) |-> Add("guard", rest[k])])
      BY <2>1, <2>2 DEF InvokeRemoveExclude
    <2> QED BY <2>3, <2>4, RemoveExcludeCommands
  <1> QED BY <1>2, <1>3, <1>4, <1>5, <1>6, <1>7, <1>8, <1>9

-----------------------------------------------------------------------------
(* The kinds of steps. *)

\* The driver's own steps, and what others do to it: the client sees of them that
\* the connection goes, and with it the tables.
OutsideStep ==
    /\ UNCHANGED <<client, program, ui, starved>>
    /\ connection' = "open" =>
          connection = "open" /\ UNCHANGED <<roots, patterns, inherited>>
    /\ driver' \in {"starting", "backing out"} => driver \in {"starting", "backing out"}
    /\ driver' = "started" => driver \in {"starting", "started"}
    /\ at'.message # "none" => at.message # "none"
    /\ driver' = "started" /\ driver = "started" /\ at.message = "none" =>
          track'.active = track.active

\* The client is at its start or its end, or has lost the driver.
UnlinkedStep ==
    /\ ProgramInv' /\ ~Linked'
    /\ client' = "on" => program' # << >>
    /\ \A k \in 1 .. Len(program') : program'[k].op # "clear excludes"

\* It goes on to the next step of its program.
AdvanceStep ==
    /\ program # << >> /\ Done
    /\ Step.op \notin BootOps \union ExitOps /\ (Linked' => Linked)
    /\ driver' \notin {"starting", "backing out"} /\ track' = track
    /\ at'.message # "none" => Step.op \in {"start", "stop"}
    /\ starved => starved'
    /\ ui'.worker => ui.worker \/ Step.op = "worker"

\* It also leaves the roots alone ...
KeepsRoots ==
    /\ Step.op \notin RootOps
    /\ UNCHANGED <<roots, inherited>> /\ ui'.roots = ui.roots

\* ... or the excludes.
KeepsPatterns ==
    /\ Step.op \notin {"guard", "clear excludes"}
    /\ UNCHANGED patterns

LEMMA DriverIsOutside ==
    ASSUME LInv, LInv', TableTypes, Driver(LifeNext) PROVE OutsideStep
  <1>1. connection' = "open" => UNCHANGED <<roots, patterns, inherited>>
    <2>1. connection' = "open" => "config" \in parts' /\ "exclude" \in parts'
      BY DEF LInv, PortPlace, PartsUp
    <2>2. inherited \in BOOLEAN
      BY DEF TableTypes
    <2>3. ASSUME connection' = "open" PROVE inherited' = inherited
      <3>1. inherited' = (inherited /\ "config" \in parts')
        BY DEF Driver
      <3>2. "config" \in parts'
        BY <2>1, <2>3
      <3> QED BY <2>2, <3>1, <3>2, Zenon
    <2> QED BY <2>1, <2>3 DEF Driver
  <1> QED BY <1>1, LifeSteps DEF Driver, OutsideStep

LEMMA OthersAreOutside ==
    ASSUME HandleClosed \/ UnloadedByOthers PROVE OutsideStep
  <1>1. CASE HandleClosed
    BY <1>1 DEF HandleClosed, Disconnect, OutsideStep, driverVars, trackVars, threadVars, tableVars
  <1>2. CASE UnloadedByOthers
    BY <1>2 DEF UnloadedByOthers, LeaveStarted, OutsideStep, trackVars, threadVars, portVars,
                tableVars
  <1> QED BY <1>1, <1>2

\* A fixed program is a sequence of steps.
LEMMA BootAndExit ==
    /\ \A a, b, c \in PlainOps : /\ <<Op(a), Op(b), Op(c)>> \in Seq(Steps)
                                 /\ Len(<<Op(a), Op(b), Op(c)>>) = 3
    /\ \A a, b \in PlainOps : <<Op(a), Op(b)>> \in Seq(Steps) /\ Len(<<Op(a), Op(b)>>) = 2
    /\ \A a \in PlainOps : <<Op(a)>> \in Seq(Steps) /\ Len(<<Op(a)>>) = 1
    /\ \A op : Op(op).op = op
  <1>1. \A op : Op(op).op = op
    BY DEF Op
  <1>2. ASSUME NEW a \in PlainOps, NEW b \in PlainOps, NEW c \in PlainOps
        PROVE  /\ <<Op(a), Op(b), Op(c)>> \in Seq(Steps) /\ Len(<<Op(a), Op(b), Op(c)>>) = 3
               /\ <<Op(a), Op(b)>> \in Seq(Steps) /\ Len(<<Op(a), Op(b)>>) = 2
               /\ <<Op(a)>> \in Seq(Steps) /\ Len(<<Op(a)>>) = 1
    <2>1. Op(a) \in Steps /\ Op(b) \in Steps /\ Op(c) \in Steps
      BY StepsAre
    <2> QED BY <2>1
  <1> QED BY <1>1, <1>2

\* The client has ended.
LEMMA EndedIsUnlinked ==
    ASSUME client' = "off", program' = << >>, at'.message = "none",
           driver' \notin {"starting", "backing out"}
    PROVE  UnlinkedStep
  <1>1. \A k \in 1 .. Len(program') : FALSE
    BY SmallFacts, Zenon
  <1>2. \A ops : ~Has(ops)'
    BY <1>1 DEF Has
  <1>3. ~Linked'
    BY DEF Linked
  <1>4. ProgramInv'
    BY <1>2 DEF ProgramInv
  <1> QED BY <1>1, <1>3, <1>4 DEF UnlinkedStep

\* The client is about to quit.
LEMMA QuittingIsUnlinked ==
    ASSUME client' = "on", at'.message = "none", driver' \notin {"starting", "backing out"},
           Len(program') \in Nat \ {0}, program'[Len(program')].op = "quit",
           Only(ExitOps)'
    PROVE  UnlinkedStep
  <1>1. Has(ExitOps)'
    <2>1. Len(program') \in 1 .. Len(program') /\ "quit" \in ExitOps
      BY SmallFacts, Zenon DEF ExitOps
    <2> QED BY <2>1, Zenon DEF Has
  <1>2. ~Linked'
    BY <1>1 DEF Linked
  <1>3. ~Has(BootOps)'
    BY DEF Only, Has, ExitOps, BootOps
  <1>4. program' # << >>
    BY SmallFacts, Zenon
  <1>5. ProgramInv'
    BY <1>3, <1>4 DEF ProgramInv
  <1>6. \A k \in 1 .. Len(program') : program'[k].op # "clear excludes"
    BY DEF Only, ExitOps
  <1> QED BY <1>2, <1>4, <1>5, <1>6 DEF UnlinkedStep

LEMMA LaunchIsUnlinked ==
    ASSUME ProgramInv, Launch
    PROVE  UnlinkedStep /\ program' \in Seq(Steps)
  <1>1. /\ client = "off" /\ client' = "on" /\ ui' = NewClient
        /\ program' = <<Op("load"), Op("connect"), Op("stats")>>
        /\ driver' = driver /\ at' = at
    BY DEF Launch, lifeVars, systemVars, driverVars
  <1>2. program' \in Seq(Steps) /\ Len(program') = 3
    <2>1. {"load", "connect", "stats"} \subseteq PlainOps
      BY DEF PlainOps, BootOps
    <2> QED BY <1>1, <2>1, BootAndExit
  <1>3. program'[1].op = "load" /\ program'[2].op = "connect" /\ program'[3].op = "stats"
    BY <1>1, BootAndExit
  <1>4. \A k \in 1 .. Len(program') : k \in 1 .. 3
    BY <1>2
  <1>5. 1 \in 1 .. Len(program') /\ 2 \in 1 .. Len(program') /\ Len(program') = 3
    BY <1>2
  <1>6. program' # << >>
    BY <1>1
  <1>7. \A k \in 1 .. Len(program') : program'[k].op \in {"load", "connect", "stats"}
    BY <1>3, <1>4
  <1>8. Has(BootOps)' /\ ~Has(ExitOps)' /\ BootProgram'
    BY <1>3, <1>5, <1>7 DEF Has, BootOps, ExitOps, BootProgram
  <1>9. program = << >>
    BY <1>1 DEF ProgramInv
  <1>10. ~Linked'
    BY <1>8 DEF Linked
  <1>11. ui'.roots = << >> /\ ~ui'.worker
    BY <1>1 DEF NewClient
  <1>12. program'[Len(program')].op = "stats"
    BY <1>3, <1>5
  <1>13. ProgramInv'
    BY <1>1, <1>6, <1>8, <1>9, <1>11, <1>12 DEF ProgramInv
  <1> QED BY <1>2, <1>6, <1>7, <1>10, <1>13 DEF UnlinkedStep

LEMMA ShutdownIsUnlinked ==
    ASSUME ProgramInv, Shutdown
    PROVE  UnlinkedStep /\ program' \in Seq(Steps)
  <1>1. /\ client' = "on" /\ program = << >>
        /\ program' = <<Op("disconnect"), Op("unload"), Op("quit")>>
        /\ driver' = driver /\ at' = at
    BY DEF Shutdown, Idle, systemVars, driverVars
  <1>2. program' \in Seq(Steps) /\ Len(program') = 3
    <2>1. {"disconnect", "unload", "quit"} \subseteq PlainOps
      BY DEF PlainOps, ExitOps
    <2> QED BY <1>1, <2>1, BootAndExit
  <1>3. program'[1].op = "disconnect" /\ program'[2].op = "unload" /\ program'[3].op = "quit"
    BY <1>1, BootAndExit
  <1>4. \A k \in 1 .. Len(program') : k \in 1 .. 3
    BY <1>2
  <1>5. Only(ExitOps)'
    BY <1>3, <1>4 DEF Only, ExitOps
  <1>6. driver' \notin {"starting", "backing out"} /\ at'.message = "none"
    BY <1>1 DEF ProgramInv
  <1>7. program'[Len(program')].op = "quit" /\ Len(program') \in Nat \ {0}
    BY <1>2, <1>3
  <1> QED BY <1>1, <1>2, <1>5, <1>6, <1>7, QuittingIsUnlinked

\* Going on to the next step, the program remains one of that form.
LEMMA AdvanceProgram ==
    ASSUME ProgramInv, ClientTypes, program # << >>, Done, Step.op # "connect",
           driver' \notin {"starting", "backing out"},
           at'.message # "none" => Step.op \in {"start", "stop"},
           Step.op \in BootOps \union {"stats"} => ui'.roots = ui.roots /\ (ui'.worker => ui.worker)
    PROVE  ProgramInv'
  <1>1. program \in Seq(Steps) /\ program' = Tail(program) /\ client' = client
    BY DEF ClientTypes, Done
  <1>2. /\ \A ops : /\ Has(ops)' => Has(ops)
                    /\ Has(ops) /\ Step.op \notin ops => Has(ops)'
                    /\ Only(ops) => Only(ops)' /\ Step.op \in ops
        /\ program' # << >> => program'[Len(program')] = program[Len(program)]
        /\ program' = << >> => Len(program) = 1
    BY <1>1, TailHas
  <1>3. client' = "off" => program' = << >>
    BY <1>1 DEF ProgramInv
  <1>4. program' # << >> => program'[Len(program')].op \in {"stats", "quit"}
    BY <1>2 DEF ProgramInv
  <1>5. ASSUME Has(BootOps)'
        PROVE  BootProgram' /\ ui'.roots = << >> /\ ~ui'.worker
    <2>1. Has(BootOps)
      BY <1>2, <1>5
    <2>2. BootProgram /\ ui.roots = << >> /\ ~ui.worker
      BY <2>1 DEF ProgramInv
    <2>3. /\ Step = program[1] /\ Len(program') = Len(program) - 1
          /\ \A k \in 1 .. Len(program) - 1 : program'[k] = program[k + 1]
      BY <1>1, ProgramTail
    <2>4. /\ Step.op \in BootOps /\ Len(program) = 3
          /\ program[2].op = "connect" /\ program[3].op = "stats"
      BY <2>2, <2>3 DEF BootProgram, BootOps
    <2>5. Len(program') = 2 /\ program'[1] = program[2] /\ program'[2] = program[3]
      <3>1. Len(program) = 3
        BY <2>4
      <3> QED BY <2>3, <3>1, SmallFacts, Zenon
    <2>6. BootProgram'
      BY <2>4, <2>5 DEF BootProgram
    <2> QED BY <2>2, <2>4, <2>6
  <1>6. Has(ExitOps)' => Only(ExitOps)'
    BY <1>2 DEF ProgramInv
  <1>7. at'.message # "none" => program' # << >>
    <2>1. ASSUME Len(program) = 1 PROVE program[Len(program)] = Step
      BY <1>1, <2>1, ProgramTail
    <2>2. program[Len(program)].op \in {"stats", "quit"}
      BY DEF ProgramInv
    <2> QED BY <1>2, <2>1, <2>2
  <1> QED BY <1>3, <1>4, <1>5, <1>6, <1>7 DEF ProgramInv

\* While the client is at its start, it is not linked.
LEMMA BootIsUnlinked ==
    ASSUME ProgramInv, ClientTypes, program # << >>, Done, Step.op \in {"load", "loaded"},
           driver' \notin {"starting", "backing out"}, at'.message = "none",
           ui'.roots = ui.roots, ui'.worker = ui.worker
    PROVE  UnlinkedStep
  <1>1. ProgramInv'
    BY AdvanceProgram
  <1>2. program \in Seq(Steps) /\ program' = Tail(program) /\ client' = client
    BY DEF ClientTypes, Done
  <1>3. /\ Step = program[1] /\ 1 \in 1 .. Len(program) /\ Len(program') = Len(program) - 1
        /\ \A k \in 1 .. Len(program) - 1 : program'[k] = program[k + 1]
    BY <1>2, ProgramTail, SmallFacts
  <1>4. Has(BootOps)
    BY <1>3 DEF Has, BootOps
  <1>5. /\ Len(program) = 3 /\ program[2].op = "connect" /\ program[3].op = "stats"
    BY <1>3, <1>4 DEF ProgramInv, BootProgram
  <1>6. Len(program') = 2 /\ program'[1] = program[2] /\ program'[2] = program[3]
    <2>1. Len(program) = 3
      BY <1>5
    <2>2. Len(program') = 3 - 1 /\ \A k \in 1 .. 3 - 1 : program'[k] = program[k + 1]
      BY <1>3, <2>1, Zenon
    <2> QED BY <2>2, SmallFacts, Zenon
  <1>7. ~Linked' /\ program' # << >>
    <2>1. 1 \in 1 .. Len(program') /\ Len(program') # 0
      BY <1>6, SmallFacts, Zenon
    <2>2. Has(BootOps)'
      BY <1>5, <1>6, <2>1 DEF Has, BootOps
    <2> QED BY <2>1, <2>2, SmallFacts, Zenon DEF Linked
  <1>8. \A k \in 1 .. Len(program') : program'[k].op # "clear excludes"
    <2>1. \A k \in 1 .. Len(program') : k = 1 \/ k = 2
      BY <1>6, SmallFacts, Zenon
    <2> QED BY <1>5, <1>6, <2>1
  <1> QED BY <1>1, <1>7, <1>8 DEF UnlinkedStep

LEMMA LoadIsUnlinked ==
    ASSUME LInv, ClientTypes, ProgramInv, LoadIfNeeded
    PROVE  UnlinkedStep /\ program' \in Seq(Steps) /\ UNCHANGED tableVars
  <1>1. program # << >> /\ at.message = "none" /\ UNCHANGED tableVars /\ program \in Seq(Steps)
    BY DEF LoadIfNeeded, Doing, ClientTypes
  <1>2. /\ Tail(program) \in Seq(Steps) /\ Step = program[1] /\ Len(program) \in Nat \ {0}
        /\ Len(Tail(program)) = Len(program) - 1
        /\ \A k \in 1 .. Len(program) - 1 : Tail(program)[k] = program[k + 1]
    BY <1>1, ProgramTail
  <1>3. << >> \in Seq(Steps)
    OBVIOUS
  <1>4. CASE Doing({"load"}) /\ driver = "out" /\ Load /\ UNCHANGED <<client, ui>>
             /\ program' = <<Op("loaded")>> \o Tail(program)
    <2>1. PICK f, t : f = <<Op("loaded")>> /\ t = Tail(program)
      OBVIOUS
    <2>2. f \in Seq(Steps) /\ Len(f) = 1 /\ f[1] = Op("loaded")
      <3>1. "loaded" \in PlainOps
        BY DEF PlainOps, BootOps
      <3> QED BY <2>1, <3>1, BootAndExit
    <2>3. /\ program' \in Seq(Steps) /\ Len(program') = Len(f) + Len(t)
          /\ \A k \in 1 .. Len(f) : program'[k] = f[k]
          /\ \A k \in 1 .. Len(t) : program'[Len(f) + k] = t[k]
      <3>1. f \in Seq(Steps) /\ t \in Seq(Steps)
        BY <1>2, <2>1, <2>2
      <3> QED BY <1>4, <2>1, <3>1, BothSteps
    <2>4. Len(f) = 1 /\ Len(t) = Len(program) - 1 /\ \A k \in 1 .. Len(program) - 1 : t[k] = program[k + 1]
      BY <1>2, <2>1, <2>2
    <2>5. Len(program') = Len(program) /\ program'[1] = f[1]
      <3>1. Len(program) \in Nat \ {0}
        BY <1>2
      <3> QED BY <2>3, <2>4, <3>1
    <2>6. \A k \in 1 .. Len(program) : k # 1 => program'[k] = program[k]
      <3>1. TAKE k \in 1 .. Len(program)
      <3>2. HAVE k # 1
      <3>3. k - 1 \in 1 .. Len(program) - 1 /\ (k - 1) + 1 = k /\ Len(program) \in Nat
        BY <1>2, <3>1, <3>2
      <3>4. t[k - 1] = program[k]
        BY <2>4, <3>3
      <3>5. program'[Len(f) + (k - 1)] = t[k - 1] /\ Len(f) + (k - 1) = k
        BY <2>3, <2>4, <3>3
      <3> QED BY <3>4, <3>5
    <2>7. program'[1].op = "loaded" /\ program[1].op = "load"
      BY <1>2, <1>4, <2>2, <2>5, BootAndExit DEF Doing
    <2>8. 1 \in 1 .. Len(program)
      BY <1>2, SmallFacts, Zenon
    <2>9. Has(BootOps)
      BY <2>7, <2>8 DEF Has, BootOps
    <2>10. BootProgram /\ ui.roots = << >> /\ ~ui.worker
      BY <2>9 DEF ProgramInv
    <2>11. /\ Len(program) = 3 /\ program[2].op = "connect" /\ program[3].op = "stats"
      BY <2>7, <2>10 DEF BootProgram
    <2>12. Len(program') = 3 /\ program'[2].op = "connect" /\ program'[3].op = "stats"
      <3>1. 2 \in 1 .. 3 /\ 3 \in 1 .. 3 /\ 2 # 1 /\ 3 # 1
        OBVIOUS
      <3> QED BY <2>5, <2>6, <2>11, <3>1, Zenon
    <2>13. \A k \in 1 .. Len(program') : k \in {1, 2, 3}
      <3>1. \A k \in 1 .. 3 : k \in {1, 2, 3}
        OBVIOUS
      <3> QED BY <2>12, <3>1, Zenon
    <2>14. \A k \in 1 .. Len(program') : program'[k].op \in {"loaded", "connect", "stats"}
      BY <2>7, <2>12, <2>13
    <2>15. Has(BootOps)' /\ ~Has(ExitOps)' /\ BootProgram'
      BY <2>5, <2>7, <2>8, <2>12, <2>14 DEF Has, BootOps, ExitOps, BootProgram
    <2>16. program' # << >> /\ program'[Len(program')].op = "stats"
      <3>1. 3 # 0
        OBVIOUS
      <3> QED BY <2>12, <3>1, SmallFacts, Zenon
    <2>17. client' = client /\ ui' = ui /\ at' = at /\ driver' = "starting" /\ client # "off"
      <3>1. client # "off"
        BY <1>1 DEF ProgramInv
      <3> QED BY <1>4, <3>1 DEF Load
    <2>18. ProgramInv'
      BY <1>1, <2>7, <2>10, <2>15, <2>16, <2>17 DEF ProgramInv
    <2>19. ~Linked' /\ \A k \in 1 .. Len(program') : program'[k].op # "clear excludes"
      BY <2>14, <2>15 DEF Linked
    <2> QED BY <1>1, <2>3, <2>16, <2>18, <2>19 DEF UnlinkedStep
  <1>5. CASE /\ Doing({"load"}) /\ driver = "started" /\ Done /\ UNCHANGED <<lifeVars, ui>>
    <2>1. driver' = "started" /\ at' = at /\ ui' = ui /\ Step.op = "load"
      BY <1>5 DEF Doing, lifeVars, systemVars, driverVars
    <2> QED BY <1>1, <1>2, <1>5, <2>1, BootIsUnlinked DEF Done
  <1>6. CASE /\ Doing({"loaded"}) /\ driver \in {"started", "unloading"} /\ Done
             /\ ui' = [ui EXCEPT !.loadedHere = TRUE] /\ UNCHANGED lifeVars
    <2>1. driver' = driver /\ at' = at /\ Step.op = "loaded"
      BY <1>6 DEF Doing, lifeVars, systemVars, driverVars
    <2>2. ui'.roots = ui.roots /\ ui'.worker = ui.worker
      BY <1>6 DEF ClientTypes, Fields
    <2> QED BY <1>1, <1>2, <1>6, <2>1, <2>2, BootIsUnlinked DEF Done
  <1>7. CASE /\ Quit /\ UNCHANGED <<lifeVars, ui>>
             /\ \/ Doing({"load"}) /\ driver \notin {"out", "started"}
                \/ Doing({"loaded"}) /\ driver = "out"
    <2>1. client' = "off" /\ program' = << >> /\ driver' = driver /\ at' = at
      BY <1>7 DEF Quit, lifeVars, systemVars, driverVars
    <2>2. driver \notin {"starting", "backing out"}
      BY <1>2, <1>7 DEF ProgramInv, Doing
    <2> QED BY <1>1, <1>3, <2>1, <2>2, EndedIsUnlinked
  <1> QED BY <1>4, <1>5, <1>6, <1>7 DEF LoadIfNeeded

\* Connecting succeeds, or the client gives up.
LEMMA ConnectIs ==
    ASSUME ClientTypes, ProgramInv, ConnectClient
    PROVE  \/ UnlinkedStep /\ program' \in Seq(Steps) /\ inherited' = inherited
           \/ Connect /\ Done /\ Step.op = "connect" /\ inherited' = (roots # << >>)
  <1>1. /\ Step.op = "connect" /\ program # << >> /\ at.message = "none"
        /\ program \in Seq(Steps)
    BY DEF ConnectClient, Doing, ClientTypes
  <1>2. CASE ~(port.server /\ connection = "none")
    <2>1. /\ program' = <<Op("unload"), Op("quit")>> /\ client' = client
          /\ driver' = driver /\ at' = at /\ inherited' = inherited
      BY <1>2 DEF ConnectClient, lifeVars, systemVars, driverVars
    <2>2. program' \in Seq(Steps) /\ Len(program') = 2
      <3>1. {"unload", "quit"} \subseteq PlainOps
        BY DEF PlainOps, ExitOps
      <3> QED BY <2>1, <3>1, BootAndExit
    <2>3. program'[1].op = "unload" /\ program'[2].op = "quit"
      BY <2>1, BootAndExit
    <2>4. \A k \in 1 .. Len(program') : k \in 1 .. 2
      BY <2>2
    <2>5. Only(ExitOps)'
      BY <2>3, <2>4 DEF Only, ExitOps
    <2>6. driver' \notin {"starting", "backing out"} /\ at'.message = "none"
      <3>1. Step = program[1]
        BY <1>1, ProgramTail
      <3> QED BY <1>1, <2>1, <3>1 DEF ProgramInv
    <2>7. client' = "on"
      BY <1>1, <2>1 DEF ProgramInv, ClientTypes
    <2>8. program'[Len(program')].op = "quit" /\ Len(program') \in Nat \ {0}
      BY <2>2, <2>3
    <2> QED BY <2>1, <2>2, <2>5, <2>6, <2>7, <2>8, QuittingIsUnlinked
  <1>3. CASE port.server /\ connection = "none"
    BY <1>1, <1>3 DEF ConnectClient
  <1> QED BY <1>2, <1>3

\* The connected client looks at the driver.
LEMMA ConnectProgram ==
    ASSUME ClientTypes, ProgramInv, Connect, Done, program # << >>, Step.op = "connect",
           at.message = "none", ui' = ui
    PROVE  /\ ProgramInv' /\ program' \in Seq(Steps) /\ program' # << >>
           /\ ~Has(BootOps)' /\ ~Has(ExitOps)' /\ ui.roots = << >> /\ ~ui.worker
           /\ Len(program') = 1 /\ program'[1].op = "stats"
  <1>1. program \in Seq(Steps) /\ program' = Tail(program) /\ client' = client
    BY DEF ClientTypes, Done
  <1>2. /\ Step = program[1] /\ 1 \in 1 .. Len(program) /\ Len(program') = Len(program) - 1
        /\ \A k \in 1 .. Len(program) - 1 : program'[k] = program[k + 1]
        /\ program' \in Seq(Steps)
    BY <1>1, ProgramTail, SmallFacts
  <1>3. Has(BootOps)
    BY <1>2 DEF Has, BootOps
  <1>4. /\ ui.roots = << >> /\ ~ui.worker
        /\ Len(program) = 2 /\ program[2].op = "stats"
    BY <1>2, <1>3 DEF ProgramInv, BootProgram
  <1>5. Len(program') = 1 /\ program'[1].op = "stats"
    <2>1. 2 - 1 = 1 /\ 1 \in 1 .. 1 /\ 1 + 1 = 2
      OBVIOUS
    <2>2. Len(program) = 2
      BY <1>4
    <2> QED BY <1>2, <1>4, <2>1, <2>2, Zenon
  <1>6. \A k \in 1 .. Len(program') : program'[k].op = "stats"
    <2>1. \A k \in 1 .. 1 : k = 1
      OBVIOUS
    <2> QED BY <1>5, <2>1, Zenon
  <1>7. ~Has(BootOps)' /\ ~Has(ExitOps)' /\ program' # << >>
    <2>1. 1 # 0
      OBVIOUS
    <2>2. program' # << >>
      BY <1>5, <2>1, SmallFacts, Zenon
    <2> QED BY <1>6, <2>2 DEF Has, BootOps, ExitOps
  <1>8. client # "off" /\ at' = at /\ driver' = driver /\ driver \notin {"starting", "backing out"}
    BY <1>2 DEF ProgramInv, Connect
  <1>9. ProgramInv'
    BY <1>1, <1>5, <1>7, <1>8 DEF ProgramInv
  <1> QED BY <1>2, <1>4, <1>5, <1>7, <1>9

\* A client that ends does nothing else.
LEMMA LeaveIsUnlinked ==
    ASSUME LInv, ClientTypes, ProgramInv, Leave
    PROVE  UnlinkedStep /\ program' \in Seq(Steps) /\ UNCHANGED tableVars
  <1>1. /\ program # << >> /\ at.message = "none" /\ UNCHANGED tableVars /\ program \in Seq(Steps)
        /\ Step.op \in ExitOps
    BY DEF Leave, Doing, ClientTypes, ExitOps
  <1>2. /\ Step = program[1] /\ 1 \in 1 .. Len(program)
        /\ Tail(program) \in Seq(Steps)
    BY <1>1, ProgramTail, SmallFacts
  <1>3. Only(ExitOps) /\ driver \notin {"starting", "backing out"} /\ client = "on"
    <2>1. Has(ExitOps)
      BY <1>1, <1>2 DEF Has
    <2>2. driver \notin {"starting", "backing out"}
      BY <1>1, <1>2 DEF ProgramInv, ExitOps
    <2> QED BY <1>1, <2>1, <2>2 DEF ProgramInv, ClientTypes
  <1>4. program[Len(program)].op = "quit"
    <2>1. Len(program) \in 1 .. Len(program)
      BY <1>1, ProgramTail, SmallFacts
    <2>2. program[Len(program)].op \in ExitOps
      BY <1>3, <2>1 DEF Only
    <2> QED BY <1>1, <2>2 DEF ProgramInv, ExitOps
  <1>5. CASE Doing({"disconnect", "unload"}) /\ Done /\ at' = at /\ driver' \in {driver, "unloading"}
    <2>1. program' = Tail(program) /\ client' = client /\ Step.op # "quit"
      BY <1>5 DEF Done, Doing
    <2>2. /\ Only(ExitOps)'
          /\ program' # << >> => program'[Len(program')] = program[Len(program)]
          /\ program' = << >> => Len(program) = 1
      BY <1>1, <1>3, <2>1, TailHas
    <2>3. program' # << >>
      <3>1. Len(program) = 1 => program[Len(program)] = Step
        BY <1>2
      <3> QED BY <1>4, <2>1, <2>2, <3>1
    <2>4. Len(program') \in Nat \ {0} /\ program' \in Seq(Steps)
      BY <1>2, <2>1, <2>3, EmptySeq
    <2>5. client' = "on" /\ at'.message = "none" /\ driver' \notin {"starting", "backing out"}
      BY <1>1, <1>3, <1>5, <2>1
    <2>6. program'[Len(program')].op = "quit"
      BY <1>4, <2>2, <2>3
    <2> QED BY <1>1, <2>2, <2>4, <2>5, <2>6, QuittingIsUnlinked
  <1>6. CASE Doing({"quit"}) /\ Quit /\ UNCHANGED <<lifeVars, ui>>
    <2>1. client' = "off" /\ program' = << >> /\ at'.message = "none" /\ driver' = driver
      BY <1>1, <1>6 DEF Quit, lifeVars, systemVars, driverVars
    <2>2. << >> \in Seq(Steps)
      OBVIOUS
    <2> QED BY <1>1, <1>3, <2>1, <2>2, EndedIsUnlinked
  <1>7. CASE /\ Doing({"disconnect"})
             /\ IF connection = "none" THEN UNCHANGED lifeVars ELSE Disconnect
             /\ Done
    <2>1. at' = at /\ driver' = driver
      BY <1>7 DEF Disconnect, lifeVars, systemVars, driverVars
    <2>2. Doing({"disconnect", "unload"})
      BY <1>7 DEF Doing
    <2> QED BY <1>5, <1>7, <2>1, <2>2
  <1>8. CASE /\ Doing({"unload"})
             /\ IF ui.loadedHere /\ driver = "started" THEN LeaveStarted ELSE UNCHANGED systemVars
             /\ Done
    <2>1. at' = at /\ driver' \in {driver, "unloading"}
      BY <1>8 DEF LeaveStarted, systemVars, driverVars
    <2>2. Doing({"disconnect", "unload"})
      BY <1>8 DEF Doing
    <2> QED BY <1>5, <1>8, <2>1, <2>2
  <1> QED BY <1>6, <1>7, <1>8 DEF Leave

\* The client ends in the midst of what it does.
LEMMA CrashIsUnlinked ==
    ASSUME ProgramInv, ClientTypes, Crash
    PROVE  UnlinkedStep /\ program' \in Seq(Steps)
  <1>1. /\ client' = "off" /\ program' = << >> /\ at'.message = "none" /\ driver' = driver
        /\ at.message = "none" /\ ~Doing({"loaded", "quit"})
    BY DEF Crash, Quit, systemVars, driverVars
  <1>2. driver \notin {"starting", "backing out"}
    <2>1. ASSUME driver \in {"starting", "backing out"} PROVE FALSE
      <3>1. program # << >> /\ program[1].op = "loaded" /\ program \in Seq(Steps)
        BY <2>1 DEF ProgramInv, ClientTypes
      <3>2. Step = program[1]
        BY <3>1, ProgramTail
      <3> QED BY <1>1, <3>1, <3>2 DEF Doing
    <2> QED BY <2>1
  <1>3. << >> \in Seq(Steps)
    OBVIOUS
  <1> QED BY <1>1, <1>2, <1>3, EndedIsUnlinked

\* Without the driver a Clear fails, and its command ends with a look at nothing.
LEMMA ClearFails ==
    ASSUME ProgramInv, ClientTypes, Doing({"clear roots", "clear excludes"}),
           connection' # "open", program' = <<Op("stats")>>, client' = client,
           UNCHANGED lifeVars
    PROVE  UnlinkedStep /\ program' \in Seq(Steps)
  <1>1. /\ program # << >> /\ at.message = "none" /\ program \in Seq(Steps)
        /\ Step.op \in {"clear roots", "clear excludes"}
    BY DEF Doing, ClientTypes
  <1>2. Step = program[1]
    BY <1>1, ProgramTail
  <1>3. program' \in Seq(Steps) /\ Len(program') = 1
    <2>1. "stats" \in PlainOps
      BY DEF PlainOps
    <2> QED BY <2>1, BootAndExit
  <1>4. program'[1].op = "stats"
    BY BootAndExit
  <1>5. \A k \in 1 .. Len(program') : program'[k].op = "stats"
    BY <1>3, <1>4, SmallFacts, OnlyOne, Zenon
  <1>6. program' # << >> /\ program'[Len(program')].op = "stats"
    BY <1>3, <1>4, SmallFacts, OnlyOne, Zenon
  <1>7. ~Has(BootOps)' /\ ~Has(ExitOps)'
    BY <1>5 DEF Has, BootOps, ExitOps
  <1>8. client # "off" /\ at' = at /\ driver' = driver /\ driver \notin {"starting", "backing out"}
    BY <1>1, <1>2 DEF ProgramInv, lifeVars, systemVars, driverVars
  <1>9. ProgramInv'
    BY <1>1, <1>6, <1>7, <1>8 DEF ProgramInv
  <1> QED BY <1>3, <1>5, <1>6, <1>9 DEF UnlinkedStep, Linked

\* The steps in between.
LEMMA Advances ==
    ASSUME ProgramInv, ClientTypes, program # << >>, Done, at.message = "none",
           Step.op \notin BootOps \union ExitOps,
           driver' = driver, connection' = connection, track' = track,
           at' = at \/ Step.op \in {"start", "stop"},
           Step.op = "stats" => ui'.roots = ui.roots,
           ui'.worker => ui.worker \/ Step.op = "worker",
           starved => starved'
    PROVE  AdvanceStep /\ ProgramInv' /\ program' \in Seq(Steps)
  <1>1. program \in Seq(Steps) /\ program' = Tail(program) /\ client' = client
    BY DEF ClientTypes, Done
  <1>2. Step = program[1] /\ Tail(program) \in Seq(Steps)
    BY <1>1, ProgramTail
  <1>3. driver' \notin {"starting", "backing out"}
    BY <1>2 DEF ProgramInv, BootOps
  <1>4. Linked' => Linked
    <2>1. /\ Has(BootOps) => Has(BootOps)'
          /\ Has(ExitOps) => Has(ExitOps)'
      BY <1>1, TailHas
    <2> QED BY <1>1, <2>1 DEF Linked
  <1>5. at'.message # "none" => Step.op \in {"start", "stop"}
    OBVIOUS
  <1>6. Step.op \in BootOps \union {"stats"} => ui'.roots = ui.roots /\ (ui'.worker => ui.worker)
    OBVIOUS
  <1>7. ProgramInv'
    BY <1>3, <1>5, <1>6, AdvanceProgram DEF BootOps
  <1> QED BY <1>1, <1>2, <1>3, <1>4, <1>5, <1>7 DEF AdvanceStep

\* A list with one element more.
LEMMA AppendElements ==
    ASSUME NEW S, NEW list \in Seq(S), NEW x \in S
    PROVE  /\ Append(list, x) \in Seq(S) /\ Len(Append(list, x)) = Len(list) + 1
           /\ Elements(Append(list, x)) = Elements(list) \union {x}
           /\ \A k \in 1 .. Len(list) : Append(list, x)[k] = list[k]
           /\ Append(list, x)[Len(list) + 1] = x
           /\ Len(list) \in Nat
  <1>1. Len(list) \in Nat
    OBVIOUS
  <1>2. PICK a : a = Append(list, x)
    OBVIOUS
  <1>3. /\ a \in Seq(S) /\ Len(a) = Len(list) + 1
        /\ \A i \in 1 .. Len(list) : a[i] = list[i]
        /\ a[Len(list) + 1] = x
    BY <1>2, AppendProperties
  <1>4. \A k \in 1 .. Len(list) + 1 : k \in 1 .. Len(list) \/ k = Len(list) + 1
    BY <1>1
  <1>5. /\ \A k \in 1 .. Len(list) : k \in 1 .. Len(list) + 1
        /\ Len(list) + 1 \in 1 .. Len(list) + 1
    BY <1>1
  <1>6. Elements(a) = Elements(list) \union {x}
    <2>1. ASSUME NEW y \in Elements(a) PROVE y \in Elements(list) \union {x}
      <3>1. PICK k \in 1 .. Len(a) : y = a[k]
        BY <2>1 DEF Elements
      <3> QED BY <1>3, <1>4, <3>1 DEF Elements
    <2>2. ASSUME NEW y \in Elements(list) PROVE y \in Elements(a)
      <3>1. PICK k \in 1 .. Len(list) : y = list[k]
        BY <2>2 DEF Elements
      <3>2. k \in 1 .. Len(a) /\ y = a[k]
        BY <1>3, <1>5, <3>1
      <3> QED BY <3>2 DEF Elements
    <2>3. x \in Elements(a)
      <3>1. Len(list) + 1 \in 1 .. Len(a)
        BY <1>3, <1>5
      <3> QED BY <1>3, <3>1 DEF Elements
    <2> QED BY <2>1, <2>2, <2>3
  <1> QED BY <1>1, <1>2, <1>3, <1>6

LEMMA WithIs ==
    ASSUME NEW S, NEW list \in Seq(S), NEW x \in S
    PROVE  /\ With(list, x) \in Seq(S) /\ Len(list) \in Nat
           /\ Len(With(list, x)) \in {Len(list), Len(list) + 1}
           /\ Elements(With(list, x)) = Elements(list) \union {x}
  <1>1. CASE x \in Elements(list)
    <2>1. With(list, x) = list /\ Elements(list) \union {x} = Elements(list)
      BY <1>1 DEF With
    <2>2. Len(list) \in Nat
      OBVIOUS
    <2> QED BY <2>1, <2>2, Zenon
  <1>2. CASE x \notin Elements(list)
    <2>1. PICK a : a = Append(list, x)
      OBVIOUS
    <2>2. /\ a \in Seq(S) /\ Len(a) = Len(list) + 1 /\ Len(list) \in Nat
          /\ Elements(a) = Elements(list) \union {x}
      BY <2>1, AppendElements
    <2>3. With(list, x) = a
      BY <1>2, <2>1 DEF With
    <2> QED BY <2>2, <2>3, Zenon
  <1> QED BY <1>1, <1>2

\* A root is added, or refused.
LEMMA AddRootIs ==
    ASSUME UxTypes, ProgramInv, SendAddRoot
    PROVE  /\ AdvanceStep /\ ProgramInv' /\ UxTypes' /\ KeepsPatterns
           /\ Step.op = "root" /\ inherited' = inherited
           /\ ui'.roots = ui.roots
           /\ ~starved' =>
                 IF connection = "open" /\ Accepts(roots, Step.path, MaxRoots, MaxRootChars, TRUE)
                 THEN roots' = Append(roots, Step.path) /\ ui'.answered
                 ELSE UNCHANGED <<roots, ui>>
  <1>1. /\ Step.op = "root" /\ program # << >> /\ at.message = "none" /\ Done
        /\ UNCHANGED <<systemVars, patterns, inherited>> /\ program \in Seq(Steps)
    BY DEF SendAddRoot, Doing, UxTypes, ClientTypes
  <1>2. PICK memory \in BOOLEAN :
          /\ Allocates(memory)
          /\ IF connection = "open" /\ Accepts(roots, Step.path, MaxRoots, MaxRootChars, memory)
             THEN roots' = Append(roots, Step.path) /\ ui' = [ui EXCEPT !.answered = TRUE]
             ELSE UNCHANGED <<roots, ui>>
    BY DEF SendAddRoot
  <1>3. starved' \in BOOLEAN /\ (starved => starved') /\ (~starved' => memory)
    BY <1>2 DEF Allocates, UxTypes, TableTypes
  <1>4. Step.path \in Paths
    BY <1>1, ProgramTail, StepTypes
  <1>5. ui \in Fields
    BY DEF UxTypes, ClientTypes
  <1>6. /\ ui' \in Fields /\ ui'.roots = ui.roots /\ ui'.worker = ui.worker
        /\ ui' = [ui EXCEPT !.answered = TRUE] => ui'.answered
    BY <1>2, <1>5 DEF Fields
  <1>7. roots' \in Seq(Paths) /\ Len(roots') <= MaxRoots
    <2>1. roots \in Seq(Paths) /\ Len(roots) <= MaxRoots
      BY DEF UxTypes, TableTypes
    <2>2. CASE roots' = roots
      BY <2>1, <2>2
    <2>3. CASE roots' = Append(roots, Step.path) /\ Len(roots) < MaxRoots
      <3>1. roots' \in Seq(Paths) /\ Len(roots') = Len(roots) + 1 /\ Len(roots) \in Nat
        BY <1>4, <2>1, <2>3, AppendElements
      <3>2. MaxRoots \in Nat /\ Len(roots) < MaxRoots
        BY <2>3, UxSessionAssumption
      <3> QED BY <3>1, <3>2
    <2> QED BY <1>2, <2>2, <2>3 DEF Accepts
  <1>8. AdvanceStep /\ ProgramInv' /\ program' \in Seq(Steps)
    <2>1. driver' = driver /\ connection' = connection /\ track' = track /\ at' = at
      BY <1>1 DEF systemVars, driverVars, trackVars, portVars
    <2> QED BY <1>1, <1>3, <1>6, <2>1, Advances DEF UxTypes, BootOps, ExitOps
  <1>9. UxTypes'
    BY <1>1, <1>3, <1>6, <1>7, <1>8 DEF UxTypes, ClientTypes, TableTypes, Done
  <1>10. ~starved' => IF connection = "open" /\ Accepts(roots, Step.path, MaxRoots, MaxRootChars, TRUE)
                      THEN roots' = Append(roots, Step.path) /\ ui'.answered
                      ELSE UNCHANGED <<roots, ui>>
    BY <1>2, <1>3, <1>6, Zenon DEF Accepts
  <1> QED BY <1>1, <1>6, <1>8, <1>9, <1>10 DEF KeepsPatterns

\* The root is listed.
LEMMA ShowRootIs ==
    ASSUME UxTypes, ProgramInv, ShowRoot
    PROVE  /\ AdvanceStep /\ ProgramInv' /\ UxTypes' /\ KeepsPatterns
           /\ Step.op = "show" /\ Step.path \in Roots /\ UNCHANGED <<roots, inherited, starved>>
           /\ IF ui.answered THEN ui'.roots = With(ui.roots, Step.path) ELSE ui' = ui
  <1>1. /\ Step.op = "show" /\ program # << >> /\ at.message = "none" /\ Done
        /\ UNCHANGED <<lifeVars, tableVars>> /\ program \in Seq(Steps)
    BY DEF ShowRoot, Doing, UxTypes, ClientTypes
  <1>2. Step.path \in Roots
    BY <1>1, ProgramTail, StepTypes
  <1>3. ui \in Fields /\ ui.roots \in Seq(Roots)
    BY DEF UxTypes, ClientTypes, Fields
  <1>4. PICK list \in Seq(Roots) : list = With(ui.roots, Step.path)
    BY <1>2, <1>3, WithIs
  <1>5. ui' = IF ui.answered THEN [ui EXCEPT !.roots = list] ELSE ui
    BY <1>4 DEF ShowRoot
  <1>6. /\ ui' \in Fields /\ ui'.worker = ui.worker
        /\ ui.answered => ui'.roots = list
        /\ ~ui.answered => ui' = ui
    BY <1>3, <1>5 DEF Fields
  <1>7. AdvanceStep /\ ProgramInv' /\ program' \in Seq(Steps)
    <2>1. driver' = driver /\ connection' = connection /\ track' = track /\ at' = at /\ starved' = starved
      BY <1>1 DEF lifeVars, systemVars, driverVars, trackVars, portVars, tableVars
    <2> QED BY <1>1, <1>6, <2>1, Advances DEF UxTypes, BootOps, ExitOps
  <1>8. UNCHANGED <<roots, patterns, inherited, starved>>
    BY <1>1 DEF tableVars
  <1>9. UxTypes'
    BY <1>1, <1>6, <1>7, <1>8 DEF UxTypes, ClientTypes, TableTypes, Done
  <1> QED BY <1>1, <1>2, <1>4, <1>6, <1>7, <1>8, <1>9 DEF KeepsPatterns

\* A pattern is added, or refused.
LEMMA AddExcludeIs ==
    ASSUME UxTypes, ProgramInv, SendAddExclude
    PROVE  /\ AdvanceStep /\ ProgramInv' /\ UxTypes' /\ KeepsRoots
           /\ Step.op \in {"exclude", "guard"} /\ ui'.worker = ui.worker
           /\ ~starved' =>
                 IF connection = "open" /\ Accepts(patterns, Step.path, MaxPatterns, MaxPatternChars, TRUE)
                 THEN patterns' = Append(patterns, Step.path) /\ Step.path \in Paths
                 ELSE UNCHANGED patterns
  <1>1. /\ Step.op \in {"exclude", "guard"} /\ program # << >> /\ at.message = "none" /\ Done
        /\ UNCHANGED <<systemVars, roots, inherited>> /\ program \in Seq(Steps)
    BY DEF SendAddExclude, Doing, UxTypes, ClientTypes
  <1>2. PICK memory \in BOOLEAN :
          /\ Allocates(memory)
          /\ IF connection = "open" /\ Accepts(patterns, Step.path, MaxPatterns, MaxPatternChars, memory)
             THEN /\ patterns' = Append(patterns, Step.path)
                  /\ ui' = IF Step.op = "guard" THEN ui
                           ELSE [ui EXCEPT !.excludes = With(@, Step.path)]
             ELSE UNCHANGED <<patterns, ui>>
    BY DEF SendAddExclude
  <1>3. starved' \in BOOLEAN /\ (starved => starved') /\ (~starved' => memory)
    BY <1>2 DEF Allocates, UxTypes, TableTypes
  <1>4. Step.path \in Paths /\ (Step.op = "exclude" => Step.path \in Excludes)
    BY <1>1, ProgramTail, StepTypes, PathTypes
  <1>5. ui \in Fields /\ ui.excludes \in Seq(Excludes)
    BY DEF UxTypes, ClientTypes, Fields
  <1>6. ui' \in Fields /\ ui'.roots = ui.roots /\ ui'.worker = ui.worker
    <2>1. CASE ui' = ui
      BY <1>5, <2>1
    <2>2. CASE Step.op = "exclude" /\ ui' = [ui EXCEPT !.excludes = With(ui.excludes, Step.path)]
      <3>1. PICK list \in Seq(Excludes) : list = With(ui.excludes, Step.path)
        BY <1>4, <1>5, <2>2, WithIs
      <3>2. ui' = [ui EXCEPT !.excludes = list]
        BY <2>2, <3>1
      <3> QED BY <1>5, <3>2 DEF Fields
    <2> QED BY <1>1, <1>2, <2>1, <2>2
  <1>7. patterns' \in Seq(Paths) /\ Len(patterns') <= MaxPatterns
    <2>1. patterns \in Seq(Paths) /\ Len(patterns) <= MaxPatterns
      BY DEF UxTypes, TableTypes
    <2>2. CASE patterns' = patterns
      BY <2>1, <2>2
    <2>3. CASE patterns' = Append(patterns, Step.path) /\ Len(patterns) < MaxPatterns
      <3>1. patterns' \in Seq(Paths) /\ Len(patterns') = Len(patterns) + 1 /\ Len(patterns) \in Nat
        BY <1>4, <2>1, <2>3, AppendElements
      <3>2. MaxPatterns \in Nat /\ Len(patterns) < MaxPatterns
        BY <2>3, UxSessionAssumption
      <3> QED BY <3>1, <3>2
    <2> QED BY <1>2, <2>2, <2>3 DEF Accepts
  <1>8. AdvanceStep /\ ProgramInv' /\ program' \in Seq(Steps)
    <2>1. driver' = driver /\ connection' = connection /\ track' = track /\ at' = at
      BY <1>1 DEF systemVars, driverVars, trackVars, portVars
    <2> QED BY <1>1, <1>3, <1>6, <2>1, Advances DEF UxTypes, BootOps, ExitOps
  <1>9. UxTypes'
    BY <1>1, <1>3, <1>6, <1>7, <1>8 DEF UxTypes, ClientTypes, TableTypes, Done
  <1>10. ~starved' => IF connection = "open" /\ Accepts(patterns, Step.path, MaxPatterns, MaxPatternChars, TRUE)
                      THEN patterns' = Append(patterns, Step.path) /\ Step.path \in Paths
                      ELSE UNCHANGED patterns
    BY <1>2, <1>3, <1>4, Zenon DEF Accepts
  <1>11. KeepsRoots
    BY <1>1, <1>6 DEF KeepsRoots, RootOps
  <1> QED BY <1>1, <1>6, <1>8, <1>9, <1>10, <1>11

\* A table is cleared, or the command is cut short.
LEMMA ClearIs ==
    ASSUME UxTypes, ProgramInv, SendClear
    PROVE  /\ ProgramInv' /\ UxTypes'
           /\ \/ UnlinkedStep
              \/ /\ AdvanceStep /\ KeepsPatterns /\ Step.op = "clear roots"
                 /\ Step.rest \in Seq(Roots)
                 /\ roots' = << >> /\ inherited' = FALSE /\ ui'.roots = Step.rest
              \/ AdvanceStep /\ KeepsRoots /\ Step.op = "clear excludes" /\ ui'.worker = ui.worker
  <1>1. /\ Doing({"clear roots", "clear excludes"}) /\ program # << >> /\ at.message = "none"
        /\ UNCHANGED <<lifeVars, starved>> /\ program \in Seq(Steps)
    BY DEF SendClear, Doing, UxTypes, ClientTypes
  <1>2. /\ Step.op = "clear roots" => Step.rest \in Seq(Roots)
        /\ Step.op = "clear excludes" => Step.rest \in Seq(Excludes)
    BY <1>1, ProgramTail, StepTypes
  <1>3. /\ driver' = driver /\ connection' = connection /\ track' = track /\ at' = at
        /\ starved' = starved
    BY <1>1 DEF lifeVars, systemVars, driverVars, trackVars, portVars
  <1>4. /\ ui \in Fields /\ << >> \in Seq(Paths) /\ Len(<< >>) = 0
        /\ 0 <= MaxRoots /\ 0 <= MaxPatterns
    BY UxSessionAssumption DEF UxTypes, ClientTypes
  <1>5. CASE /\ connection = "open" /\ Step.op = "clear roots"
             /\ roots' = << >> /\ inherited' = FALSE
             /\ ui' = [ui EXCEPT !.roots = Step.rest]
             /\ Done
             /\ UNCHANGED patterns
    <2>1. PICK rest \in Seq(Roots) : rest = Step.rest
      BY <1>2, <1>5
    <2>2. ui' = [ui EXCEPT !.roots = rest]
      BY <1>5, <2>1
    <2>3. ui' \in Fields /\ ui'.roots = rest /\ ui'.worker = ui.worker
      BY <1>4, <2>2 DEF Fields
    <2>4. AdvanceStep /\ ProgramInv' /\ program' \in Seq(Steps)
      <3>1. Step.op = "clear roots" /\ Step.op \notin BootOps \union ExitOps
        BY <1>5 DEF BootOps, ExitOps
      <3>2. Step.op # "stats" /\ Done /\ ClientTypes
        BY <1>5 DEF UxTypes
      <3>3. program # << >> /\ at.message = "none"
        BY <1>1
      <3>4. starved => starved'
        BY <1>3, Zenon
      <3>5. ui'.worker => ui.worker
        BY <2>3, Zenon
      <3> QED BY <1>3, <3>1, <3>2, <3>3, <3>4, <3>5, Advances
    <2>5. ClientTypes'
      BY <1>5, <2>3, <2>4 DEF UxTypes, ClientTypes, Done
    <2>6. TableTypes'
      BY <1>3, <1>4, <1>5, Zenon DEF UxTypes, TableTypes
    <2>7. KeepsPatterns
      BY <1>5 DEF KeepsPatterns
    <2> QED BY <1>2, <1>5, <2>1, <2>3, <2>4, <2>5, <2>6, <2>7 DEF UxTypes
  <1>6. CASE /\ connection = "open" /\ Step.op = "clear excludes"
             /\ patterns' = << >>
             /\ ui' = [ui EXCEPT !.excludes = Step.rest]
             /\ Done
             /\ UNCHANGED <<roots, inherited>>
    <2>1. PICK rest \in Seq(Excludes) : rest = Step.rest
      BY <1>2, <1>6
    <2>2. ui' = [ui EXCEPT !.excludes = rest]
      BY <1>6, <2>1
    <2>3. ui' \in Fields /\ ui'.roots = ui.roots /\ ui'.worker = ui.worker
      BY <1>4, <2>2 DEF Fields
    <2>4. AdvanceStep /\ ProgramInv' /\ program' \in Seq(Steps)
      <3>1. Step.op = "clear excludes" /\ Step.op \notin BootOps \union ExitOps
        BY <1>6 DEF BootOps, ExitOps
      <3>2. Step.op # "stats" /\ Done /\ ClientTypes
        BY <1>6 DEF UxTypes
      <3>3. program # << >> /\ at.message = "none"
        BY <1>1
      <3>4. starved => starved'
        BY <1>3, Zenon
      <3>5. ui'.worker => ui.worker
        BY <2>3, Zenon
      <3> QED BY <1>3, <3>1, <3>2, <3>3, <3>4, <3>5, Advances
    <2>5. ClientTypes'
      BY <1>6, <2>3, <2>4 DEF UxTypes, ClientTypes, Done
    <2>6. TableTypes'
      BY <1>3, <1>4, <1>6, Zenon DEF UxTypes, TableTypes
    <2>7. KeepsRoots
      BY <1>6, <2>3 DEF KeepsRoots, RootOps
    <2> QED BY <1>6, <2>3, <2>4, <2>5, <2>6, <2>7 DEF UxTypes
  <1>7. CASE /\ connection # "open"
             /\ program' = <<Op("stats")>>
             /\ UNCHANGED <<client, ui, roots, patterns, inherited>>
    <2>1. UnlinkedStep /\ program' \in Seq(Steps)
      BY <1>1, <1>3, <1>7, ClearFails DEF UxTypes
    <2>2. UxTypes'
      BY <1>3, <1>7, <2>1 DEF UxTypes, ClientTypes, TableTypes
    <2> QED BY <2>1, <2>2 DEF UnlinkedStep
  <1> QED BY <1>5, <1>6, <1>7 DEF SendClear

\* The steps that leave the tables alone.
LEMMA StartWorkerIs ==
    ASSUME UxTypes, ProgramInv, StartWorker
    PROVE  /\ AdvanceStep /\ ProgramInv' /\ UxTypes' /\ KeepsRoots /\ KeepsPatterns
           /\ Step.op = "worker"
  <1>1. /\ Step.op = "worker" /\ program # << >> /\ at.message = "none" /\ Done
        /\ UNCHANGED <<lifeVars, tableVars>>
        /\ ui' = [ui EXCEPT !.worker = TRUE]
    BY DEF StartWorker, Doing
  <1>2. /\ driver' = driver /\ connection' = connection /\ track' = track /\ at' = at
        /\ UNCHANGED <<roots, patterns, inherited, starved>>
    BY <1>1 DEF lifeVars, systemVars, driverVars, trackVars, portVars, tableVars
  <1>3. ui' \in Fields /\ ui'.roots = ui.roots
    BY <1>1 DEF UxTypes, ClientTypes, Fields
  <1>4. AdvanceStep /\ ProgramInv' /\ program' \in Seq(Steps)
    <2>1. Step.op \notin BootOps \union ExitOps
      BY <1>1 DEF BootOps, ExitOps
    <2>2. starved => starved'
      BY <1>2
    <2> QED BY <1>1, <1>2, <1>3, <2>1, <2>2, Advances DEF UxTypes
  <1>5. UxTypes'
    BY <1>1, <1>2, <1>3, <1>4 DEF UxTypes, ClientTypes, TableTypes, Done
  <1> QED BY <1>1, <1>2, <1>3, <1>4, <1>5 DEF KeepsRoots, KeepsPatterns, RootOps

LEMMA StartStopIs ==
    ASSUME UxTypes, ProgramInv, SendStartStop
    PROVE  /\ AdvanceStep /\ ProgramInv' /\ UxTypes' /\ KeepsRoots /\ KeepsPatterns
           /\ Step.op \in {"start", "stop"} /\ ui' = ui
  <1>1. /\ Step.op \in {"start", "stop"} /\ program # << >> /\ at.message = "none" /\ Done
        /\ UNCHANGED <<ui, roots, patterns, inherited, starved>>
    BY DEF SendStartStop, Doing, tableVars
  <1>2. driver' = driver /\ connection' = connection /\ track' = track
    BY DEF SendStartStop, Dispatch, lifeVars, systemVars, driverVars, trackVars, portVars
  <1>3. AdvanceStep /\ ProgramInv' /\ program' \in Seq(Steps)
    <2>1. Step.op \notin BootOps \union ExitOps
      BY <1>1 DEF BootOps, ExitOps
    <2>2. starved => starved'
      BY <1>1
    <2>3. ui' = ui
      BY <1>1
    <2> QED BY <1>1, <1>2, <2>1, <2>2, <2>3, Advances DEF UxTypes
  <1>4. UxTypes'
    BY <1>1, <1>3 DEF UxTypes, ClientTypes, TableTypes, Done
  <1> QED BY <1>1, <1>3, <1>4 DEF KeepsRoots, KeepsPatterns, RootOps

\* What the client shows of the driver.
LEMMA ShowStatsIs ==
    ASSUME UxTypes, LInv, ShowStats
    PROVE  /\ ui' \in Fields /\ ui'.roots = ui.roots /\ ui'.worker = ui.worker
           /\ connection = "open" => ui'.active = track.active
  <1>1. ui \in Fields /\ track.active \in BOOLEAN
    BY DEF UxTypes, ClientTypes, LInv, TrackTypes
  <1>2. PICK a \in BOOLEAN : a = track.active
    BY <1>1
  <1>3. ui' = IF connection = "open" THEN [ui EXCEPT !.active = a] ELSE ui
    BY <1>2 DEF ShowStats
  <1>4. CASE connection = "open"
    BY <1>1, <1>2, <1>3, <1>4 DEF Fields
  <1>5. CASE connection # "open"
    BY <1>1, <1>3, <1>5
  <1> QED BY <1>4, <1>5

LEMMA RefreshIs ==
    ASSUME UxTypes, LInv, ProgramInv, RefreshStats
    PROVE  /\ AdvanceStep /\ ProgramInv' /\ UxTypes' /\ KeepsRoots /\ KeepsPatterns
           /\ Step.op = "stats" /\ UNCHANGED <<connection, track>>
           /\ connection = "open" => ui'.active = track.active
  <1>1. /\ Step.op = "stats" /\ program # << >> /\ at.message = "none" /\ Done /\ ShowStats
        /\ UNCHANGED <<lifeVars, tableVars>>
    BY DEF RefreshStats, Doing
  <1>2. /\ driver' = driver /\ connection' = connection /\ track' = track /\ at' = at
        /\ UNCHANGED <<roots, patterns, inherited, starved>>
    BY <1>1 DEF lifeVars, systemVars, driverVars, trackVars, portVars, tableVars
  <1>3. /\ ui' \in Fields /\ ui'.roots = ui.roots /\ ui'.worker = ui.worker
        /\ connection = "open" => ui'.active = track.active
    BY <1>1, ShowStatsIs
  <1>4. AdvanceStep /\ ProgramInv' /\ program' \in Seq(Steps)
    <2>1. Step.op \notin BootOps \union ExitOps
      BY <1>1 DEF BootOps, ExitOps
    <2>2. starved => starved'
      BY <1>2
    <2>3. ui'.worker => ui.worker
      BY <1>3, Zenon
    <2> QED BY <1>1, <1>2, <1>3, <2>1, <2>2, <2>3, Advances DEF UxTypes
  <1>5. UxTypes'
    BY <1>1, <1>2, <1>3, <1>4 DEF UxTypes, ClientTypes, TableTypes, Done
  <1> QED BY <1>1, <1>2, <1>3, <1>4, <1>5 DEF KeepsRoots, KeepsPatterns, RootOps

\* A command begins.
LEMMA CommandIs ==
    ASSUME UxTypes, ProgramInv, NEW steps, Commands(steps), Command(steps)
    PROVE  /\ ProgramInv' /\ UxTypes' /\ program = << >> /\ program' # << >>
           /\ (Linked' => Linked) /\ UNCHANGED <<roots, patterns, inherited, starved>>
           /\ ui'.roots = ui.roots /\ ui'.worker = ui.worker /\ ui'.answered = FALSE
           /\ program' \in Seq(Steps) /\ Len(steps) \in Nat /\ Len(program') = Len(steps) + 1
           /\ \A k \in 1 .. Len(steps) : program'[k] = steps[k]
           /\ program'[Len(steps) + 1].op = "stats"
           /\ \A ops : Has(ops)' => "stats" \in ops \/ \E k \in 1 .. Len(steps) : steps[k].op \in ops
           /\ \A ops, k : k \in 1 .. Len(steps) /\ steps[k].op \in ops => Has(ops)'
  <1>1. /\ client = "on" /\ program = << >> /\ program' = steps \o <<Op("stats")>>
        /\ client' = client /\ connection' = connection /\ driver' = driver /\ at' = at
        /\ UNCHANGED <<roots, patterns, inherited, starved>>
        /\ ui' = [ui EXCEPT !.answered = FALSE]
    BY DEF Command, Idle, systemVars, driverVars, portVars, tableVars
  <1>2. /\ steps \in Seq(Steps) /\ \A k \in 1 .. Len(steps) : steps[k].op \in CommandOps
    BY DEF Commands
  <1>3. /\ program' \in Seq(Steps) /\ program' # << >>
        /\ Len(steps) \in Nat /\ Len(program') = Len(steps) + 1
        /\ \A k \in 1 .. Len(steps) : program'[k] = steps[k]
        /\ program'[Len(steps) + 1] = Op("stats")
        /\ \A ops : Has(ops)' => "stats" \in ops \/ \E k \in 1 .. Len(steps) : steps[k].op \in ops
        /\ \A ops, k : k \in 1 .. Len(steps) /\ steps[k].op \in ops => Has(ops)'
    BY <1>1, <1>2, CommandProgram
  <1>4. Op("stats").op = "stats"
    BY DEF Op
  <1>5. /\ ui' \in Fields /\ ui'.roots = ui.roots /\ ui'.worker = ui.worker
        /\ ui'.answered = FALSE
    BY <1>1 DEF UxTypes, ClientTypes, Fields
  <1>6. ~Has(BootOps)' /\ ~Has(ExitOps)' /\ ~Has(BootOps) /\ ~Has(ExitOps)
    <2>1. \A op \in CommandOps \union {"stats"} : op \notin BootOps /\ op \notin ExitOps
      BY DEF CommandOps, RootOps, BootOps, ExitOps
    <2>2. ~Has(BootOps) /\ ~Has(ExitOps)
      BY <1>1, EmptyProgram
    <2> QED BY <1>2, <1>3, <2>1, <2>2
  <1>7. driver' \notin {"starting", "backing out"} /\ client' # "off" /\ program' # << >>
    BY <1>1, <1>3 DEF ProgramInv
  <1>8. program'[Len(program')].op = "stats"
    BY <1>3, <1>4, Zenon
  <1>9. ProgramInv'
    BY <1>6, <1>7, <1>8 DEF ProgramInv
  <1>10. UxTypes'
    BY <1>1, <1>3, <1>5 DEF UxTypes, ClientTypes, TableTypes
  <1>11. Linked' => Linked
    BY <1>1, <1>6 DEF Linked
  <1> QED BY <1>1, <1>3, <1>4, <1>5, <1>9, <1>10, <1>11

-----------------------------------------------------------------------------
(* Every step is one of a few kinds. *)

\* The steps of a client at its start or its end keep the types.
LEMMA UnlinkedTypes ==
    ASSUME LInv, UxTypes, ProgramInv, Launch \/ Shutdown \/ LoadIfNeeded \/ Leave \/ Crash
    PROVE  UnlinkedStep /\ UxTypes'
  <1>1. ui \in Fields /\ client \in {"off", "on"} /\ TableTypes /\ ClientTypes
    BY DEF UxTypes, ClientTypes
  <1>2. UnlinkedStep /\ program' \in Seq(Steps)
    BY <1>1, LaunchIsUnlinked, ShutdownIsUnlinked, LoadIsUnlinked, LeaveIsUnlinked, CrashIsUnlinked
  <1>3. UNCHANGED <<roots, patterns, inherited, starved>>
    BY DEF Launch, Shutdown, LoadIfNeeded, Leave, Crash, tableVars
  <1>4. NewClient \in Fields
    BY DEF NewClient, Fields
  <1>5. ui' \in Fields
    <2>1. CASE Launch \/ Shutdown \/ Crash
      BY <1>1, <1>4, <2>1 DEF Launch, Shutdown, Crash
    <2>2. CASE LoadIfNeeded
      BY <1>1, <2>2 DEF LoadIfNeeded, Fields
    <2>3. CASE Leave
      BY <1>1, <2>3 DEF Leave, Fields
    <2> QED BY <2>1, <2>2, <2>3
  <1>6. client' \in {"off", "on"}
    BY <1>1 DEF Launch, Shutdown, Crash, LoadIfNeeded, Leave, Quit, Done
  <1> QED BY <1>1, <1>2, <1>3, <1>5, <1>6 DEF UxTypes, ClientTypes, TableTypes

\* The client has connected, and looks at the driver.
ConnectedStep ==
    /\ program # << >> /\ program' # << >>
    /\ ~Has({"clear excludes"})' /\ ~Has({"worker"})' /\ ~Has(RootOps)'
    /\ ui' = ui /\ ui.roots = << >> /\ ~ui.worker
    /\ inherited' = (roots # << >>)
    /\ UNCHANGED <<roots, patterns, starved>>

LEMMA ConnectKinds ==
    ASSUME UxTypes, ProgramInv, ConnectClient
    PROVE  UxTypes' /\ ProgramInv' /\ (UnlinkedStep \/ ConnectedStep)
  <1>1. ClientTypes /\ ui' = ui /\ UNCHANGED <<roots, patterns, starved>> /\ at.message = "none"
        /\ program # << >> /\ client' = client
    BY DEF UxTypes, ConnectClient, Doing, Done
  <1>2. CASE UnlinkedStep /\ program' \in Seq(Steps) /\ inherited' = inherited
    BY <1>1, <1>2 DEF UnlinkedStep, UxTypes, ClientTypes, TableTypes
  <1>3. CASE Connect /\ Done /\ Step.op = "connect" /\ inherited' = (roots # << >>)
    <2>1. /\ ProgramInv' /\ program' \in Seq(Steps) /\ program' # << >>
          /\ ui.roots = << >> /\ ~ui.worker
          /\ Len(program') = 1 /\ program'[1].op = "stats"
      BY <1>1, <1>3, ConnectProgram
    <2>2. \A k \in 1 .. Len(program') : program'[k].op = "stats"
      BY <2>1, OnlyOne, Zenon
    <2>3. ~Has({"clear excludes"})' /\ ~Has({"worker"})' /\ ~Has(RootOps)'
      BY <2>2 DEF Has, RootOps
    <2>4. inherited' \in BOOLEAN
      BY <1>3
    <2>5. UxTypes'
      BY <1>1, <2>1, <2>4 DEF UxTypes, ClientTypes, TableTypes
    <2> QED BY <1>1, <1>3, <2>1, <2>3, <2>5 DEF ConnectedStep
  <1> QED BY <1>1, <1>2, <1>3, ConnectIs

\* The driver's steps, and those of the system.
LEMMA OutsideKinds ==
    ASSUME LInv, LInv', UxTypes, ProgramInv, Driver(LifeNext) \/ HandleClosed \/ UnloadedByOthers
    PROVE  UxTypes' /\ ProgramInv' /\ OutsideStep
  <1>1. OutsideStep
    BY DriverIsOutside, OthersAreOutside DEF UxTypes
  <1>2. ClientTypes'
    BY <1>1 DEF OutsideStep, UxTypes, ClientTypes
  <1>3. TableTypes'
    <2>1. /\ roots' = roots \/ roots' = << >>
          /\ patterns' = patterns \/ patterns' = << >>
          /\ inherited' \in BOOLEAN /\ starved' = starved
      BY DEF Driver, HandleClosed, UnloadedByOthers, tableVars, UxTypes, TableTypes
    <2>2. << >> \in Seq(Paths) /\ Len(<< >>) = 0
      OBVIOUS
    <2>3. 0 <= MaxRoots /\ 0 <= MaxPatterns /\ TableTypes
      BY UxSessionAssumption DEF UxTypes
    <2>4. roots' \in Seq(Paths) /\ Len(roots') <= MaxRoots
      BY <2>1, <2>2, <2>3, Zenon DEF TableTypes
    <2>5. patterns' \in Seq(Paths) /\ Len(patterns') <= MaxPatterns
      BY <2>1, <2>2, <2>3, Zenon DEF TableTypes
    <2> QED BY <2>1, <2>3, <2>4, <2>5 DEF TableTypes
  <1>4. ProgramInv'
    <2>1. UNCHANGED <<client, program, ui>>
      BY <1>1 DEF OutsideStep
    <2>2. /\ driver' \in {"starting", "backing out"} => driver \in {"starting", "backing out"}
          /\ at'.message # "none" => at.message # "none"
      BY <1>1 DEF OutsideStep
    <2> QED BY <2>1, <2>2 DEF ProgramInv, Has, Only, BootProgram
  <1> QED BY <1>1, <1>2, <1>3, <1>4 DEF UxTypes

\* A look at the driver between two commands.
LookStep ==
    /\ UNCHANGED <<client, program, connection, driver, at, track>>
    /\ UNCHANGED <<roots, patterns, inherited, starved>>
    /\ ui'.roots = ui.roots /\ ui'.worker = ui.worker
    /\ ui' = ui \/ (program = << >> /\ (connection = "open" => ui'.active = track.active))

LEMMA LookKinds ==
    ASSUME LInv, UxTypes, ProgramInv, Tick \/ UNCHANGED uxVars
    PROVE  UxTypes' /\ ProgramInv' /\ LookStep
  <1>1. /\ UNCHANGED <<client, program, connection, driver, at, track>>
        /\ UNCHANGED <<roots, patterns, inherited, starved>>
    BY DEF Tick, uxVars, lifeVars, systemVars, driverVars, trackVars, portVars, tableVars
  <1>2. /\ ui' \in Fields /\ ui'.roots = ui.roots /\ ui'.worker = ui.worker
        /\ ui' = ui \/ (program = << >> /\ (connection = "open" => ui'.active = track.active))
    <2>1. CASE Tick
      BY <2>1, ShowStatsIs DEF Tick, Idle
    <2>2. CASE UNCHANGED uxVars
      BY <2>2 DEF uxVars, UxTypes, ClientTypes
    <2> QED BY <2>1, <2>2
  <1>3. UxTypes'
    BY <1>1, <1>2 DEF UxTypes, ClientTypes, TableTypes
  <1>4. ProgramInv'
    <2>1. ui'.worker = ui.worker /\ ui'.roots = ui.roots
      BY <1>2
    <2> QED BY <1>1, <2>1 DEF ProgramInv, Has, Only, BootProgram
  <1>5. LookStep
    BY <1>1, <1>2 DEF LookStep
  <1> QED BY <1>3, <1>4, <1>5

\* A message and what is shown of its result.
TalkStep ==
    \/ SendAddRoot \/ ShowRoot \/ SendAddExclude \/ SendClear
    \/ StartWorker \/ SendStartStop \/ RefreshStats

LEMMA TalkKinds ==
    ASSUME LInv, UxTypes, ProgramInv, TalkStep
    PROVE  /\ UxTypes' /\ ProgramInv'
           /\ \/ UnlinkedStep
              \/ AdvanceStep /\ Step.op # "stats"
              \/ /\ AdvanceStep /\ UNCHANGED <<connection, track>>
                 /\ connection = "open" => ui'.active = track.active
  <1>1. CASE SendAddRoot \/ ShowRoot
    BY <1>1, AddRootIs, ShowRootIs
  <1>2. CASE SendAddExclude \/ SendStartStop \/ StartWorker
    BY <1>2, AddExcludeIs, StartStopIs, StartWorkerIs
  <1>3. CASE SendClear
    BY <1>3, ClearIs
  <1>4. CASE RefreshStats
    BY <1>4, RefreshIs
  <1> QED BY <1>1, <1>2, <1>3, <1>4 DEF TalkStep

CommandStep == \E steps : Commands(steps) /\ Command(steps)

LEMMA StepKinds ==
    ASSUME LInv, LInv', UxTypes, ProgramInv, [UxNext]_uxVars
    PROVE  /\ UxTypes' /\ ProgramInv'
           /\ \/ UnlinkedStep \/ OutsideStep \/ LookStep
              \/ ConnectedStep \/ CommandStep \/ TalkStep
  <1>1. CASE Driver(LifeNext) \/ HandleClosed \/ UnloadedByOthers
    BY <1>1, OutsideKinds
  <1>2. CASE Tick \/ UNCHANGED uxVars
    BY <1>2, LookKinds
  <1>3. CASE Launch \/ Shutdown \/ LoadIfNeeded \/ Leave \/ Crash
    BY <1>3, UnlinkedTypes DEF UnlinkedStep
  <1>4. CASE ConnectClient
    BY <1>4, ConnectKinds
  <1>5. CASE TalkStep
    BY <1>5, TalkKinds
  <1>6. CASE \/ InvokeClearRoots \/ InvokeClearExcludes \/ InvokeStart \/ InvokeStop
             \/ \E r \in Roots : InvokeAddWatchRoot(r) \/ InvokeRemoveRoot(r)
             \/ \E p \in Excludes : InvokeAddExclude(p) \/ InvokeRemoveExclude(p)
    <2>1. CommandStep
      BY <1>6, OperateCommands DEF UxTypes, CommandStep
    <2>2. PICK steps : Commands(steps) /\ Command(steps)
      BY <2>1 DEF CommandStep
    <2> QED BY <2>1, <2>2, CommandIs
  <1>7. \/ Driver(LifeNext) \/ UiStep \/ Operate \/ Tick
        \/ Crash \/ HandleClosed \/ UnloadedByOthers \/ UNCHANGED uxVars
    BY DEF UxNext
  <1>8. UiStep => LoadIfNeeded \/ ConnectClient \/ Leave \/ TalkStep
    BY DEF UiStep, TalkStep
  <1> QED BY <1>1, <1>2, <1>3, <1>4, <1>5, <1>6, <1>7, <1>8 DEF Operate

-----------------------------------------------------------------------------
(* The client shows whether the driver tracks. *)

\* The last step of a program is the look at the driver, or the end.
LEMMA LastStep ==
    ASSUME ClientTypes, ProgramInv, AdvanceStep, Step.op # "stats"
    PROVE  program' # << >>
  <1>1. program \in Seq(Steps) /\ program # << >> /\ program' = Tail(program)
        /\ Step.op \notin ExitOps
    BY DEF ClientTypes, AdvanceStep, Done
  <1>2. Step = program[1]
    BY <1>1, ProgramTail
  <1>3. program[Len(program)].op \in {"stats", "quit"}
    BY <1>1 DEF ProgramInv
  <1>4. ASSUME program' = << >> PROVE FALSE
    <2>1. Len(program) = 1
      BY <1>1, <1>4, TailHas
    <2>2. program[1].op \in {"stats", "quit"}
      BY <1>3, <2>1, Zenon
    <2> QED BY <1>1, <1>2, <2>2 DEF ExitOps
  <1> QED BY <1>4

LEMMA ActiveKept ==
    ASSUME LInv, LInv', UxTypes, ProgramInv, ActiveShown, [UxNext]_uxVars
    PROVE  ActiveShown'
  <1>1. CASE UnlinkedStep \/ ConnectedStep
    BY <1>1 DEF UnlinkedStep, ConnectedStep, ActiveShown, Agreed, Idle
  <1>2. CASE CommandStep
    <2>1. program' # << >>
      BY <1>2, CommandIs DEF CommandStep
    <2> QED BY <2>1 DEF ActiveShown, Agreed, Idle
  <1>3. CASE OutsideStep
    <2> SUFFICES ASSUME Agreed' PROVE ui'.active = track'.active
      BY DEF ActiveShown
    <2>1. client = "on" /\ program = << >> /\ connection = "open" /\ ui' = ui
      BY <1>3 DEF OutsideStep, Agreed, Idle
    <2>2. driver' = "started" /\ driver = "started" /\ at.message = "none"
      BY <1>3, <2>1 DEF OutsideStep, ProgramInv, Agreed
    <2>3. track'.active = track.active
      BY <1>3, <2>2 DEF OutsideStep
    <2>4. Agreed
      BY <2>1, <2>2 DEF Agreed, Idle
    <2> QED BY <2>1, <2>3, <2>4 DEF ActiveShown
  <1>4. CASE LookStep
    BY <1>4 DEF LookStep, ActiveShown, Agreed, Idle
  <1>5. CASE TalkStep
    <2>1. \/ UnlinkedStep
          \/ AdvanceStep /\ Step.op # "stats"
          \/ /\ AdvanceStep /\ UNCHANGED <<connection, track>>
             /\ connection = "open" => ui'.active = track.active
      BY <1>5, TalkKinds
    <2>2. CASE AdvanceStep /\ Step.op # "stats"
      <3>1. program' # << >>
        BY <2>2, LastStep DEF UxTypes
      <3> QED BY <3>1 DEF ActiveShown, Agreed, Idle
    <2>3. CASE UNCHANGED <<connection, track>> /\ (connection = "open" => ui'.active = track.active)
      BY <2>3 DEF ActiveShown, Agreed
    <2> QED BY <1>1, <2>1, <2>2, <2>3
  <1> QED BY <1>1, <1>2, <1>3, <1>4, <1>5, StepKinds

-----------------------------------------------------------------------------
(* The client's directory stays excluded. *)

\* The excludes are cleared at first or not at all, and the pattern that is still
\* to be added stays to be added.
LEMMA GuardTail ==
    ASSUME program \in Seq(Steps), program # << >>, program' = Tail(program), ClearsFirst
    PROVE  /\ \A k \in 1 .. Len(program') : program'[k].op # "clear excludes"
           /\ GuardToCome /\ Step # Guard => GuardToCome'
  <1>1. /\ Len(program) \in Nat \ {0} /\ Step = program[1]
        /\ Len(program') = Len(program) - 1
        /\ \A k \in 1 .. Len(program) - 1 : program'[k] = program[k + 1]
    BY ProgramTail
  <1>2. ASSUME NEW k \in 1 .. Len(program'), program'[k].op = "clear excludes" PROVE FALSE
    <2>1. k \in 1 .. Len(program) - 1 /\ k + 1 \in 1 .. Len(program) /\ k + 1 # 1
      BY <1>1
    <2>2. program[k + 1].op = "clear excludes"
      BY <1>1, <1>2, <2>1
    <2> QED BY <2>1, <2>2 DEF ClearsFirst
  <1>3. ASSUME GuardToCome, Step # Guard PROVE GuardToCome'
    <2>1. PICK k \in 1 .. Len(program) : program[k] = Guard
      BY <1>3 DEF GuardToCome
    <2>2. k # 1
      BY <1>1, <1>3, <2>1
    <2>3. k - 1 \in 1 .. Len(program) - 1 /\ (k - 1) + 1 = k
      BY <1>1, <2>1, <2>2
    <2>4. program'[k - 1] = program[k] /\ k - 1 \in 1 .. Len(program')
      BY <1>1, <2>3
    <2> QED BY <2>1, <2>4 DEF GuardToCome, Guard
  <1> QED BY <1>2, <1>3

\* A pattern that is added to the table, or finds it full.
LEMMA AcceptedIs ==
    ASSUME TableTypes, NEW path \in Paths, path # << >>
    PROVE  LET accepted == Accepts(patterns, path, MaxPatterns, MaxPatternChars, TRUE) IN
           /\ accepted => Len(patterns) # MaxPatterns
           /\ ~accepted /\ Len(path) <= MaxPatternChars => Len(patterns) = MaxPatterns
  <1>1. Len(patterns) \in Nat /\ MaxPatterns \in Nat /\ Len(patterns) <= MaxPatterns
    BY UxSessionAssumption DEF TableTypes
  <1>2. Accepts(patterns, path, MaxPatterns, MaxPatternChars, TRUE)
            <=> Len(path) <= MaxPatternChars /\ Len(patterns) < MaxPatterns
    BY Zenon DEF Accepts
  <1>3. IF Len(patterns) < MaxPatterns THEN Len(patterns) # MaxPatterns
                                       ELSE Len(patterns) = MaxPatterns
    BY <1>1
  <1> QED BY <1>2, <1>3, Zenon

\* The next step of a program.
LEMMA AdvanceGuards ==
    ASSUME ClientTypes, AdvanceStep, GuardInv
    PROVE  /\ program \in Seq(Steps) /\ program # << >> /\ program' = Tail(program)
           /\ ClearsFirst /\ GuardAhead /\ ClearsFirst'
           /\ GuardToCome /\ Step # Guard => GuardToCome'
           /\ Linked' /\ ~starved' /\ (ui'.worker \/ Has({"worker"})') =>
                 Linked /\ ~starved /\ (ui.worker \/ Has({"worker"}))
  <1>1. /\ program \in Seq(Steps) /\ program # << >> /\ program' = Tail(program)
        /\ Linked' => Linked
        /\ starved => starved'
        /\ ui'.worker => ui.worker \/ Step.op = "worker"
    BY DEF AdvanceStep, Done, ClientTypes
  <1>2. ClearsFirst /\ GuardAhead
    BY DEF GuardInv
  <1>3. /\ \A k \in 1 .. Len(program') : program'[k].op # "clear excludes"
        /\ GuardToCome /\ Step # Guard => GuardToCome'
    BY <1>1, <1>2, GuardTail
  <1>4. ClearsFirst'
    BY <1>3 DEF ClearsFirst
  <1>5. Has({"worker"})' => Has({"worker"})
    BY <1>1, TailHas
  <1>6. Step.op = "worker" => Has({"worker"})
    <2>1. Step = program[1] /\ 1 \in 1 .. Len(program)
      BY <1>1, ProgramTail
    <2> QED BY <2>1 DEF Has
  <1>7. Linked' /\ ~starved' /\ (ui'.worker \/ Has({"worker"})') =>
            Linked /\ ~starved /\ (ui.worker \/ Has({"worker"}))
    BY <1>1, <1>5, <1>6
  <1> QED BY <1>1, <1>2, <1>3, <1>4, <1>7

LEMMA KeepsPatternsGuarded ==
    ASSUME ClientTypes, AdvanceStep, KeepsPatterns, GuardInv
    PROVE  GuardInv'
  <1>1. /\ ClearsFirst' /\ GuardAhead
        /\ GuardToCome /\ Step # Guard => GuardToCome'
        /\ Linked' /\ ~starved' /\ (ui'.worker \/ Has({"worker"})') =>
              Linked /\ ~starved /\ (ui.worker \/ Has({"worker"}))
    BY AdvanceGuards, Zenon
  <1>2. Step # Guard /\ patterns' = patterns
    <2>1. Guard.op = "guard"
      BY DEF Guard, Add
    <2> QED BY <2>1 DEF KeepsPatterns
  <1>3. GuardAhead'
    BY <1>1, <1>2 DEF GuardAhead
  <1> QED BY <1>1, <1>3 DEF GuardInv

LEMMA AddExcludeGuarded ==
    ASSUME UxTypes, ProgramInv, GuardInv, SendAddExclude
    PROVE  GuardInv'
  <1>1. /\ AdvanceStep
        /\ ~starved' =>
              IF connection = "open" /\ Accepts(patterns, Step.path, MaxPatterns, MaxPatternChars, TRUE)
              THEN patterns' = Append(patterns, Step.path) /\ Step.path \in Paths
              ELSE UNCHANGED patterns
    BY AddExcludeIs
  <1>2. /\ ClearsFirst' /\ GuardAhead
        /\ GuardToCome /\ Step # Guard => GuardToCome'
        /\ Linked' /\ ~starved' /\ (ui'.worker \/ Has({"worker"})') =>
              Linked /\ ~starved /\ (ui.worker \/ Has({"worker"}))
    BY <1>1, AdvanceGuards DEF UxTypes
  <1>3. ASSUME Guarded, Linked', ~starved', ui'.worker \/ Has({"worker"})'
        PROVE  BackupTail \in Elements(patterns') \/ Len(patterns') = MaxPatterns \/ GuardToCome'
    <2>1. connection = "open" /\ TableTypes
      BY <1>2, <1>3 DEF Linked, UxTypes
    <2>2. BackupTail \in Elements(patterns) \/ Len(patterns) = MaxPatterns \/ GuardToCome
      BY <1>2, <1>3 DEF GuardAhead
    <2>3. CASE Accepts(patterns, Step.path, MaxPatterns, MaxPatternChars, TRUE)
      <3>1. patterns' = Append(patterns, Step.path) /\ Step.path \in Paths
        BY <1>1, <1>3, <2>1, <2>3
      <3>2. Elements(patterns') = Elements(patterns) \union {Step.path}
        BY <2>1, <3>1, AppendElements DEF TableTypes
      <3>3. Len(patterns) # MaxPatterns
        BY <2>1, <2>3, <3>1, AcceptedIs DEF Accepts
      <3>4. CASE Step = Guard
        BY <3>2, <3>4 DEF Guard, Add
      <3> QED BY <1>2, <2>2, <3>2, <3>3, <3>4
    <2>4. CASE ~Accepts(patterns, Step.path, MaxPatterns, MaxPatternChars, TRUE)
      <3>1. patterns' = patterns
        BY <1>1, <1>3, <2>4
      <3>2. CASE Step = Guard
        <4>1. Step.path = BackupTail
          BY <3>2 DEF Guard, Add
        <4>2. Len(patterns) = MaxPatterns
          BY <1>3, <2>1, <2>4, <4>1, AcceptedIs, BackupTailIs DEF Guarded
        <4> QED BY <3>1, <4>2
      <3> QED BY <1>2, <2>2, <3>1, <3>2
    <2> QED BY <2>3, <2>4
  <1>4. GuardAhead'
    BY <1>3 DEF GuardAhead
  <1> QED BY <1>2, <1>4 DEF GuardInv

LEMMA ClearGuarded ==
    ASSUME ClientTypes, AdvanceStep, Step.op = "clear excludes", ui'.worker = ui.worker, GuardInv
    PROVE  GuardInv'
  <1>1. /\ program \in Seq(Steps) /\ program # << >> /\ program' = Tail(program)
        /\ ClearsFirst /\ ClearsFirst'
        /\ GuardToCome /\ Step # Guard => GuardToCome'
    BY AdvanceGuards, Zenon
  <1>2. Step = program[1] /\ 1 \in 1 .. Len(program)
    <2>1. Step = program[1] /\ Len(program) \in Nat \ {0}
      BY <1>1, ProgramTail, Zenon
    <2> QED BY <2>1, SmallFacts, Zenon
  <1>3. (Guarded /\ ui.worker => GuardToCome) /\ ~Has({"worker"})
    BY <1>1, <1>2 DEF ClearsFirst
  <1>4. Step # Guard
    <2>1. Guard.op = "guard"
      BY DEF Guard, Add
    <2>2. "guard" # "clear excludes"
      OBVIOUS
    <2> QED BY <2>1, <2>2, Zenon
  <1>5. ~Has({"worker"})'
    BY <1>1, <1>3, TailHas
  <1>6. Guarded /\ ui'.worker => GuardToCome'
    BY <1>1, <1>3, <1>4, Zenon
  <1>7. GuardAhead'
    BY <1>5, <1>6 DEF GuardAhead
  <1> QED BY <1>1, <1>7 DEF GuardInv

LEMMA CommandGuarded ==
    ASSUME UxTypes, ProgramInv, GuardInv, NEW steps, Commands(steps), Command(steps)
    PROVE  GuardInv'
  <1>1. /\ program = << >> /\ (Linked' => Linked) /\ patterns' = patterns /\ starved' = starved
        /\ ui'.worker = ui.worker
        /\ Len(steps) \in Nat /\ Len(program') = Len(steps) + 1
        /\ \A k \in 1 .. Len(steps) : program'[k] = steps[k]
        /\ program'[Len(steps) + 1].op = "stats"
        /\ \A ops : Has(ops)' => "stats" \in ops \/ \E k \in 1 .. Len(steps) : steps[k].op \in ops
    BY CommandIs
  <1>2. KeepsGuard(steps) /\ GuardAhead
    BY DEF GuardInv, Commands
  <1>3. ~Has({"worker"}) /\ ~GuardToCome
    <2>1. ~Has({"worker"}) /\ Len(program) = 0
      BY <1>1, EmptyProgram
    <2> QED BY <2>1, SmallFacts DEF GuardToCome
  <1>4. HasGuard(steps) => GuardToCome'
    <2>1. \A k \in 1 .. Len(steps) : k \in 1 .. Len(program')
      BY <1>1
    <2> QED BY <1>1, <2>1 DEF HasGuard, GuardToCome, Guard
  <1>5. Has({"worker"})' => \E k \in 1 .. Len(steps) : steps[k].op = "worker"
    BY <1>1
  <1>6. ASSUME NEW k \in 1 .. Len(program'), program'[k].op = "clear excludes"
        PROVE  k = 1 /\ (Guarded /\ ui'.worker => GuardToCome') /\ ~Has({"worker"})'
    <2>1. k \in 1 .. Len(steps) \/ k = Len(steps) + 1
      BY <1>1
    <2>2. k \in 1 .. Len(steps) /\ steps[k].op = "clear excludes"
      BY <1>1, <1>6, <2>1
    <2>3. /\ k = 1 /\ (Guarded /\ ui.worker => HasGuard(steps))
          /\ \A j \in 1 .. Len(steps) : steps[j].op # "worker"
      BY <1>2, <2>2 DEF KeepsGuard
    <2>4. Guarded /\ ui'.worker => GuardToCome'
      BY <1>1, <1>4, <2>3, Zenon
    <2> QED BY <1>5, <2>3, <2>4
  <1>7. ASSUME Guarded, Linked', ~starved', ui'.worker \/ Has({"worker"})'
        PROVE  BackupTail \in Elements(patterns') \/ Len(patterns') = MaxPatterns \/ GuardToCome'
    <2>1. CASE Has({"worker"})'
      BY <1>2, <1>4, <1>5, <1>7, <2>1 DEF KeepsGuard
    <2>2. CASE ui'.worker
      <3>1. ui.worker
        BY <1>1, <2>2, Zenon
      <3>2. Linked /\ ~starved
        BY <1>1, <1>7
      <3> QED BY <1>1, <1>2, <1>3, <1>7, <3>1, <3>2 DEF GuardAhead
    <2> QED BY <1>7, <2>1, <2>2
  <1>8. ClearsFirst' /\ GuardAhead'
    BY <1>6, <1>7 DEF ClearsFirst, GuardAhead
  <1> QED BY <1>8 DEF GuardInv

LEMMA GuardKept ==
    ASSUME LInv, LInv', UxTypes, ProgramInv, GuardInv, [UxNext]_uxVars
    PROVE  GuardInv'
  <1>g. ClearsFirst /\ GuardAhead
    BY DEF GuardInv
  <1>1. CASE UnlinkedStep
    BY <1>1 DEF UnlinkedStep, GuardInv, ClearsFirst, GuardAhead
  <1>2. CASE OutsideStep
    <2>1. UNCHANGED <<program, ui>> /\ starved' = starved
          /\ (Linked' => Linked /\ patterns' = patterns)
      BY <1>2 DEF OutsideStep, Linked, Has
    <2>2. ClearsFirst'
      BY <1>g, <2>1 DEF ClearsFirst, GuardToCome, Has, Guard
    <2>3. GuardAhead'
      BY <1>g, <2>1 DEF GuardAhead, GuardToCome, Has, Guard
    <2> QED BY <2>2, <2>3 DEF GuardInv
  <1>3. CASE LookStep
    <2>1. UNCHANGED <<program, patterns, starved>> /\ ui'.worker = ui.worker
          /\ (Linked' => Linked)
      BY <1>3 DEF LookStep, Linked, Has
    <2>2. (Has({"worker"})' <=> Has({"worker"})) /\ (GuardToCome' <=> GuardToCome)
      BY <2>1 DEF Has, GuardToCome, Guard
    <2>3. ui'.worker => ui.worker
      BY <2>1, Zenon
    <2>4. ClearsFirst'
      BY <1>g, <2>1, <2>2, <2>3 DEF ClearsFirst
    <2>5. GuardAhead'
      BY <1>g, <2>1, <2>2, <2>3 DEF GuardAhead
    <2> QED BY <2>4, <2>5 DEF GuardInv
  <1>4. CASE ConnectedStep
    <2>1. ~ui'.worker /\ ~Has({"worker"})' /\ ~Has({"clear excludes"})'
      BY <1>4 DEF ConnectedStep
    <2>2. ClearsFirst' /\ GuardAhead'
      BY <2>1 DEF ClearsFirst, GuardAhead, Has
    <2> QED BY <2>2 DEF GuardInv
  <1>5. CASE CommandStep
    BY <1>5, CommandGuarded DEF CommandStep
  <1>6. CASE TalkStep
    <2>t. ClientTypes
      BY DEF UxTypes
    <2>1. CASE SendAddRoot \/ ShowRoot \/ StartWorker \/ SendStartStop \/ RefreshStats
      <3>1. AdvanceStep /\ KeepsPatterns
        BY <2>1, AddRootIs, ShowRootIs, StartWorkerIs, StartStopIs, RefreshIs
      <3> QED BY <2>t, <3>1, KeepsPatternsGuarded
    <2>2. CASE SendAddExclude
      BY <2>2, AddExcludeGuarded
    <2>3. CASE SendClear
      BY <1>1, <2>t, <2>3, ClearIs, KeepsPatternsGuarded, ClearGuarded
    <2> QED BY <1>6, <2>1, <2>2, <2>3 DEF TalkStep
  <1> QED BY <1>1, <1>2, <1>3, <1>4, <1>5, <1>6, StepKinds

-----------------------------------------------------------------------------
(* The driver's roots are those that are listed. *)

\* The name that a step adds to the table, which may be full.
LEMMA RootStepIs ==
    ASSUME UxTypes, ProgramInv, SendAddRoot, Linked', ~starved', NEW path \in Paths, path # << >>,
           Len(path) <= MaxRootChars, Step = Add("root", path)
    PROVE  /\ program \in Seq(Steps) /\ program # << >> /\ program' = Tail(program)
           /\ inherited' = inherited /\ ui'.roots = ui.roots
           /\ Len(roots) \in Nat /\ Len(roots) <= MaxRoots
           /\ \/ /\ Len(roots) # MaxRoots /\ Len(roots') = Len(roots) + 1
                 /\ Elements(roots') = Elements(roots) \union {path}
                 /\ \A k \in 1 .. Len(roots) : roots'[k] = roots[k]
                 /\ roots'[Len(roots) + 1] = path
                 /\ ui'.answered
              \/ Len(roots) = MaxRoots /\ UNCHANGED <<roots, ui>>
  <1>1. /\ AdvanceStep /\ inherited' = inherited /\ ui'.roots = ui.roots
        /\ ~starved' =>
              IF connection = "open" /\ Accepts(roots, Step.path, MaxRoots, MaxRootChars, TRUE)
              THEN roots' = Append(roots, Step.path) /\ ui'.answered
              ELSE UNCHANGED <<roots, ui>>
    BY AddRootIs
  <1>2. connection = "open"
    BY <1>1 DEF AdvanceStep, Linked
  <1>3. Step.path = path
    BY DEF Add
  <1>4. IF Accepts(roots, path, MaxRoots, MaxRootChars, TRUE)
        THEN roots' = Append(roots, path) /\ ui'.answered
        ELSE UNCHANGED <<roots, ui>>
    BY <1>1, <1>2, <1>3
  <1>5. roots \in Seq(Paths) /\ Len(roots) <= MaxRoots /\ MaxRoots \in Nat
    BY UxSessionAssumption DEF UxTypes, TableTypes
  <1>6. Len(roots) \in Nat
    BY <1>5
  <1>7. Accepts(roots, path, MaxRoots, MaxRootChars, TRUE) <=> Len(roots) < MaxRoots
    BY Zenon DEF Accepts
  <1>8. /\ Len(roots) < MaxRoots => Len(roots) # MaxRoots
        /\ ~(Len(roots) < MaxRoots) => Len(roots) = MaxRoots
    BY <1>5, <1>6
  <1>9. program \in Seq(Steps) /\ program # << >> /\ program' = Tail(program)
    BY <1>1 DEF AdvanceStep, Done, UxTypes, ClientTypes
  <1>10. CASE Len(roots) < MaxRoots
    <2>1. roots' = Append(roots, path) /\ ui'.answered
      BY <1>4, <1>7, <1>10, Zenon
    <2>2. /\ Len(roots') = Len(roots) + 1
          /\ Elements(roots') = Elements(roots) \union {path}
          /\ \A k \in 1 .. Len(roots) : roots'[k] = roots[k]
          /\ roots'[Len(roots) + 1] = path
      BY <1>5, <2>1, AppendElements
    <2> QED BY <1>1, <1>5, <1>6, <1>8, <1>9, <1>10, <2>1, <2>2, Zenon
  <1>11. CASE ~(Len(roots) < MaxRoots)
    BY <1>1, <1>4, <1>5, <1>6, <1>7, <1>8, <1>9, <1>11, Zenon
  <1> QED BY <1>10, <1>11

\* The steps that are left of a short program.
LEMMA ShortTail ==
    ASSUME program \in Seq(Steps), program' = Tail(program), NEW n \in {2, 3, 4}, Len(program) = n
    PROVE  /\ program # << >> /\ Step = program[1] /\ Len(program') = n - 1
           /\ \A k \in 1 .. n - 1 : program'[k] = program[k + 1]
  <1>1. program # << >>
    BY SmallFacts
  <1>2. /\ Step = program[1] /\ Len(program') = Len(program) - 1
        /\ \A k \in 1 .. Len(program) - 1 : program'[k] = program[k + 1]
    BY <1>1, ProgramTail
  <1> QED BY <1>1, <1>2

\* A table that is filled again has the names of the roots in the list.
LEMMA RefilledIs ==
    ASSUME UxTypes, NEW list \in Seq(Roots), Len(roots) = 2 * Len(list),
           \A k \in 1 .. Len(roots) : AllNames(list)[k] = Add("root", roots[k])
    PROVE  /\ \A r \in Elements(list) :
                 Vol \o r \in Elements(roots) /\ Dos \o r \in Elements(roots)
           /\ \A path \in Elements(roots) : \E r \in Elements(list) : IsName(path, r)
           /\ Len(roots) % 2 = 0
  <1>1. Len(list) \in Nat /\ Len(roots) \in Nat
    BY DEF UxTypes, TableTypes
  <1>2. /\ \A k \in 1 .. 2 * Len(list) :
              \E r \in Elements(list), d \in {Vol, Dos} :
                  r \in Roots /\ AllNames(list)[k] = Add("root", d \o r)
        /\ \A i \in 1 .. Len(list) :
              /\ AllNames(list)[2 * i - 1] = Add("root", Vol \o list[i])
              /\ AllNames(list)[2 * i] = Add("root", Dos \o list[i])
    BY AllNamesAre
  <1>a. ASSUME NEW p, NEW q, Add("root", p) = Add("root", q) PROVE p = q
    <2>1. Add("root", p).path = p /\ Add("root", q).path = q
      BY DEF Add
    <2> QED BY <1>a, <2>1, Zenon
  <1>3. ASSUME NEW r \in Elements(list)
        PROVE  Vol \o r \in Elements(roots) /\ Dos \o r \in Elements(roots)
    <2>1. PICK i \in 1 .. Len(list) : list[i] = r
      BY DEF Elements
    <2>2. 2 * i - 1 \in 1 .. Len(roots) /\ 2 * i \in 1 .. Len(roots)
      BY <1>1
    <2>3. /\ AllNames(list)[2 * i - 1] = Add("root", Vol \o r)
          /\ AllNames(list)[2 * i] = Add("root", Dos \o r)
      BY <1>2, <2>1, Zenon
    <2>4. /\ AllNames(list)[2 * i - 1] = Add("root", roots[2 * i - 1])
          /\ AllNames(list)[2 * i] = Add("root", roots[2 * i])
      BY <2>2, Zenon
    <2>5. Vol \o r = roots[2 * i - 1] /\ Dos \o r = roots[2 * i]
      BY <1>a, <2>3, <2>4, Zenon
    <2> QED BY <2>2, <2>5, Zenon DEF Elements
  <1>4. ASSUME NEW path \in Elements(roots)
        PROVE  \E r \in Elements(list) : IsName(path, r)
    <2>1. PICK k \in 1 .. Len(roots) : roots[k] = path
      BY DEF Elements
    <2>2. k \in 1 .. 2 * Len(list)
      BY Zenon
    <2>3. PICK r \in Elements(list), d \in {Vol, Dos} : AllNames(list)[k] = Add("root", d \o r)
      BY <1>2, <2>2, Zenon
    <2>4. path = d \o r
      BY <1>a, <2>1, <2>3, Zenon
    <2>5. d = Vol \/ d = Dos
      OBVIOUS
    <2> QED BY <2>4, <2>5, Zenon DEF IsName
  <1>5. Len(roots) % 2 = 0
    BY <1>1
  <1> QED BY <1>3, <1>4, <1>5

LEMMA NameOf ==
    ASSUME NEW r \in Roots, NEW d \in {Vol, Dos}
    PROVE  d \o r \in Paths /\ d \o r # << >> /\ Len(d \o r) <= MaxRootChars
  BY PathTypes, NameTypes, UxSessionAssumption

\* A table that is being filled again takes the next name.
LEMMA RefillGoes ==
    ASSUME UxTypes, ProgramInv, SendAddRoot, Linked', ~starved', Refilling
    PROVE  Refilling'
  <1>1. /\ program # << >> /\ program[Len(program)].op = "stats" /\ ~inherited
        /\ 2 * Len(ui.roots) <= MaxRoots
        /\ Len(program) - 1 + Len(roots) = 2 * Len(ui.roots)
        /\ \A k \in 1 .. Len(program) - 1 : program[k] = AllNames(ui.roots)[Len(roots) + k]
        /\ \A k \in 1 .. Len(roots) : AllNames(ui.roots)[k] = Add("root", roots[k])
    BY DEF Refilling
  <1>2. /\ program \in Seq(Steps) /\ ui.roots \in Seq(Roots) /\ roots \in Seq(Paths)
        /\ Step.op = "root"
    BY AddRootIs DEF UxTypes, ClientTypes, TableTypes, Fields
  <1>3. /\ Len(program) \in Nat \ {0} /\ Step = program[1]
        /\ \A k \in 1 .. Len(program) - 1 : Tail(program)[k] = program[k + 1]
        /\ Len(Tail(program)) = Len(program) - 1
    BY <1>1, <1>2, ProgramTail
  <1>4. Len(program) # 1
    <2>1. ASSUME Len(program) = 1 PROVE FALSE
      <3>1. program[1].op = "stats"
        BY <1>1, <2>1, Zenon
      <3> QED BY <1>2, <1>3, <3>1
    <2> QED BY <2>1
  <1>5. Len(ui.roots) \in Nat /\ Len(roots) \in Nat /\ MaxRoots \in Nat
    BY <1>2, UxSessionAssumption
  <1>6. /\ 1 \in 1 .. Len(program) - 1 /\ Len(roots) + 1 \in 1 .. 2 * Len(ui.roots)
        /\ Len(roots) # MaxRoots
    BY <1>1, <1>3, <1>4, <1>5
  <1>7. Step = AllNames(ui.roots)[Len(roots) + 1]
    BY <1>1, <1>3, <1>6, Zenon
  <1>8. PICK r \in Elements(ui.roots), d \in {Vol, Dos} :
            r \in Roots /\ AllNames(ui.roots)[Len(roots) + 1] = Add("root", d \o r)
    BY <1>2, <1>6, AllNamesAre
  <1>9. PICK path : path = d \o r
    OBVIOUS
  <1>10. path \in Paths /\ path # << >> /\ Len(path) <= MaxRootChars /\ Step = Add("root", path)
    <2>1. d \o r \in Paths /\ d \o r # << >> /\ Len(d \o r) <= MaxRootChars
      BY <1>8, NameOf
    <2> QED BY <1>7, <1>8, <1>9, <2>1, Zenon
  <1>11. /\ program' = Tail(program) /\ inherited' = inherited /\ ui'.roots = ui.roots
         /\ Len(roots') = Len(roots) + 1
         /\ \A k \in 1 .. Len(roots) : roots'[k] = roots[k]
         /\ roots'[Len(roots) + 1] = path
    BY <1>6, <1>10, RootStepIs, Zenon
  <1>12. /\ Len(program') = Len(program) - 1
         /\ \A k \in 1 .. Len(program) - 1 : program'[k] = program[k + 1]
    BY <1>3, <1>11
  <1>13. program' # << >> /\ program'[Len(program')].op = "stats"
    <2>1. Len(program) - 1 \in 1 .. Len(program) - 1 /\ Len(program) - 1 # 0
          /\ (Len(program) - 1) + 1 = Len(program)
      BY <1>3, <1>4
    <2>2. program'[Len(program) - 1] = program[Len(program)]
      BY <1>12, <2>1, Zenon
    <2>3. program' # << >>
      BY <1>12, <2>1, SmallFacts, Zenon
    <2> QED BY <1>1, <1>12, <2>2, <2>3, Zenon
  <1>14. ASSUME NEW k \in 1 .. Len(program') - 1
         PROVE  program'[k] = AllNames(ui'.roots)[Len(roots') + k]
    <2>1. /\ k \in 1 .. Len(program) - 1 /\ k + 1 \in 1 .. Len(program) - 1
          /\ Len(roots) + (k + 1) = Len(roots') + k
      BY <1>3, <1>5, <1>11, <1>12
    <2>2. program'[k] = program[k + 1] /\ program[k + 1] = AllNames(ui.roots)[Len(roots) + (k + 1)]
      BY <1>1, <1>12, <2>1, Zenon
    <2> QED BY <1>11, <2>1, <2>2, Zenon DEF AllNames
  <1>15. ASSUME NEW k \in 1 .. Len(roots')
         PROVE  AllNames(ui'.roots)[k] = Add("root", roots'[k])
    <2>1. k \in 1 .. Len(roots) \/ k = Len(roots) + 1
      BY <1>5, <1>11
    <2>2. CASE k \in 1 .. Len(roots)
      BY <1>1, <1>11, <2>2, Zenon
    <2>3. CASE k = Len(roots) + 1
      BY <1>8, <1>9, <1>11, <2>3, Zenon
    <2> QED BY <2>1, <2>2, <2>3
  <1>16. Len(program') - 1 + Len(roots') = 2 * Len(ui.roots)
    <2>1. Len(program) - 1 + Len(roots) = 2 * Len(ui.roots)
      BY <1>1
    <2>2. Len(program') = Len(program) - 1 /\ Len(roots') = Len(roots) + 1
      BY <1>11, <1>12
    <2> QED BY <1>3, <1>5, <2>1, <2>2
  <1>17. ~inherited' /\ 2 * Len(ui'.roots) <= MaxRoots
         /\ Len(program') - 1 + Len(roots') = 2 * Len(ui'.roots)
    BY <1>1, <1>11, <1>16, Zenon
  <1>18. AllNames(ui'.roots) = AllNames(ui.roots)'
    OBVIOUS
  <1> QED BY <1>13, <1>14, <1>15, <1>17, <1>18 DEF Refilling

\* Pairs.
LEMMA Pairs ==
    /\ \A n \in Nat : (n % 2 = 0 => (n + 1) % 2 = 1) /\ (n % 2 = 1 => (n + 1) % 2 = 0)
    /\ \A n, m \in Nat : 2 * m <= n => 2 * m + 1 <= n + 1
    /\ \A n, m \in Nat : 2 * m + 1 <= n /\ n % 2 = 0 => 2 * m + 2 <= n
    /\ \A n, m \in Nat : 2 * m + 1 <= n => 2 * m + 2 <= n + 1 /\ 2 * m <= n + 1 /\ 2 * m <= n
    /\ \A n \in Nat : ~(n % 2 = 0 /\ n % 2 = 1)
  OBVIOUS

\* What the table has, it keeps while it grows.
LEMMA NamesStay ==
    ASSUME NEW q, HasNames(q), inherited' = inherited,
           \/ Len(roots) # MaxRoots /\ Elements(roots) \subseteq Elements(roots')
           \/ UNCHANGED roots
    PROVE  HasNames(q)'
  <1>1. CASE Len(roots) # MaxRoots /\ Elements(roots) \subseteq Elements(roots')
    <2>1. Vol \o q \in Elements(roots) /\ Dos \o q \in Elements(roots)
      BY <1>1, Zenon DEF HasNames
    <2>2. Vol \o q \in Elements(roots') /\ Dos \o q \in Elements(roots')
      BY <1>1, <2>1, Zenon
    <2> QED BY <2>2, Zenon DEF HasNames
  <1>2. CASE UNCHANGED roots
    <2>1. roots' = roots
      BY <1>2
    <2> QED BY <2>1, Zenon DEF HasNames
  <1> QED BY <1>1, <1>2

\* A root's first name is added, or the table is full.
LEMMA SecondGoes ==
    ASSUME UxTypes, ProgramInv, SendAddRoot, Linked', ~starved', NEW r \in Roots, AddingFirst(r)
    PROVE  AddingSecond(r)'
  <1>1. /\ Len(program) = 4 /\ ~ui.answered
        /\ program[1] = Add("root", Vol \o r) /\ program[2] = Add("root", Dos \o r)
        /\ program[3] = Add("show", r) /\ program[4].op = "stats"
        /\ 2 * Len(ui.roots) <= Len(roots)
        /\ \A q \in Elements(ui.roots) : HasNames(q)
        /\ ~inherited =>
              /\ Len(roots) % 2 = 0
              /\ \A path \in Elements(roots) : \E q \in Elements(ui.roots) : IsName(path, q)
    BY DEF AddingFirst, Consistent
  <1>2. program \in Seq(Steps) /\ program' = Tail(program)
    BY AddRootIs DEF UxTypes, ClientTypes, AdvanceStep, Done
  <1>3. /\ Step = program[1] /\ Len(program') = 3
        /\ program'[1] = program[2] /\ program'[2] = program[3] /\ program'[3] = program[4]
    <2>1. Step = program[1] /\ Len(program') = 4 - 1 /\ \A k \in 1 .. 4 - 1 : program'[k] = program[k + 1]
      BY <1>1, <1>2, ShortTail
    <2> QED BY <2>1
  <1>4. PICK v : v = Vol \o r
    OBVIOUS
  <1>5. v \in Paths /\ v # << >> /\ Len(v) <= MaxRootChars /\ Step = Add("root", v)
    BY <1>1, <1>3, <1>4, NameOf, Zenon
  <1>6. /\ inherited' = inherited /\ ui'.roots = ui.roots
        /\ Len(roots) \in Nat /\ Len(roots) <= MaxRoots
        /\ \/ /\ Len(roots) # MaxRoots /\ Len(roots') = Len(roots) + 1
              /\ Elements(roots') = Elements(roots) \union {v}
              /\ ui'.answered
           \/ Len(roots) = MaxRoots /\ UNCHANGED <<roots, ui>>
    BY <1>5, RootStepIs
  <1>7. Len(ui.roots) \in Nat
    BY DEF UxTypes, ClientTypes, Fields
  <1>8. \A q \in Elements(ui'.roots) : HasNames(q)'
    <2>1. \/ Len(roots) # MaxRoots /\ Elements(roots) \subseteq Elements(roots')
          \/ UNCHANGED roots
      BY <1>6
    <2>2. inherited' = inherited /\ ui'.roots = ui.roots
      BY <1>6
    <2> QED BY <1>1, <2>1, <2>2, NamesStay, Zenon
  <1>9. CASE /\ Len(roots) # MaxRoots /\ Len(roots') = Len(roots) + 1
             /\ Elements(roots') = Elements(roots) \union {v}
             /\ ui'.answered
    <2>1. 2 * Len(ui.roots) + 1 <= Len(roots) + 1
      BY <1>1, <1>6, <1>7, Pairs, Zenon
    <2>2. 2 * Len(ui'.roots) + 1 <= Len(roots')
      BY <1>6, <1>9, <2>1, Zenon
    <2>3. ~inherited' => Len(roots') % 2 = 1
      BY <1>1, <1>6, <1>9, Pairs, Zenon
    <2>4. Vol \o r \in Elements(roots')
      BY <1>4, <1>9, Zenon
    <2>5. ASSUME ~inherited', NEW path \in Elements(roots')
          PROVE  (\E q \in Elements(ui'.roots) : IsName(path, q)) \/ (ui'.answered /\ IsName(path, r))
      <3>1. path \in Elements(roots) \/ path = v
        BY <1>9
      <3>2. CASE path \in Elements(roots)
        BY <1>1, <1>6, <2>5, <3>2, Zenon
      <3>3. CASE path = v
        BY <1>4, <1>9, <3>3, Zenon DEF IsName
      <3> QED BY <3>1, <3>2, <3>3
    <2> QED BY <1>1, <1>3, <1>8, <1>9, <2>2, <2>3, <2>4, <2>5, Zenon DEF AddingSecond
  <1>10. CASE Len(roots) = MaxRoots /\ UNCHANGED <<roots, ui>>
    <2>1. roots' = roots /\ ui' = ui
      BY <1>10
    <2>2. ~ui'.answered /\ 2 * Len(ui'.roots) <= Len(roots') /\ Len(roots') = MaxRoots
      BY <1>1, <1>10, <2>1, Zenon
    <2>3. ~inherited' => \A path \in Elements(roots') : \E q \in Elements(ui'.roots) : IsName(path, q)
      BY <1>1, <1>6, <2>1, Zenon
    <2> QED BY <1>1, <1>3, <1>8, <2>2, <2>3, Zenon DEF AddingSecond
  <1> QED BY <1>6, <1>9, <1>10

\* The second too, or the table is full: then it has other roots of an earlier client.
LEMMA ShownGoes ==
    ASSUME UxTypes, ProgramInv, SendAddRoot, Linked', ~starved', NEW r \in Roots, AddingSecond(r)
    PROVE  AddingShown(r)'
  <1>1. /\ Len(program) = 3
        /\ program[1] = Add("root", Dos \o r)
        /\ program[2] = Add("show", r) /\ program[3].op = "stats"
        /\ \A q \in Elements(ui.roots) : HasNames(q)
        /\ ui.answered => /\ 2 * Len(ui.roots) + 1 <= Len(roots)
                          /\ Vol \o r \in Elements(roots)
                          /\ ~inherited => Len(roots) % 2 = 1
        /\ ~ui.answered => 2 * Len(ui.roots) <= Len(roots) /\ Len(roots) = MaxRoots
        /\ ~inherited => \A path \in Elements(roots) :
              (\E q \in Elements(ui.roots) : IsName(path, q)) \/ (ui.answered /\ IsName(path, r))
    BY Zenon DEF AddingSecond
  <1>2. program \in Seq(Steps) /\ program' = Tail(program)
    BY AddRootIs DEF UxTypes, ClientTypes, AdvanceStep, Done
  <1>3. /\ Step = program[1] /\ Len(program') = 2
        /\ program'[1] = program[2] /\ program'[2] = program[3]
    <2>1. Step = program[1] /\ Len(program') = 3 - 1 /\ \A k \in 1 .. 3 - 1 : program'[k] = program[k + 1]
      BY <1>1, <1>2, ShortTail
    <2> QED BY <2>1
  <1>4. PICK v : v = Dos \o r
    OBVIOUS
  <1>5. v \in Paths /\ v # << >> /\ Len(v) <= MaxRootChars /\ Step = Add("root", v)
    BY <1>1, <1>3, <1>4, NameOf, Zenon
  <1>6. /\ inherited' = inherited /\ ui'.roots = ui.roots
        /\ Len(roots) \in Nat /\ Len(roots) <= MaxRoots
        /\ \/ /\ Len(roots) # MaxRoots /\ Len(roots') = Len(roots) + 1
              /\ Elements(roots') = Elements(roots) \union {v}
              /\ ui'.answered
           \/ Len(roots) = MaxRoots /\ UNCHANGED <<roots, ui>>
    BY <1>5, RootStepIs
  <1>7. Len(ui.roots) \in Nat /\ MaxRoots \in Nat /\ MaxRoots % 2 = 0
    BY UxSessionAssumption DEF UxTypes, ClientTypes, Fields
  <1>8. \A q \in Elements(ui'.roots) : HasNames(q)'
    <2>1. \/ Len(roots) # MaxRoots /\ Elements(roots) \subseteq Elements(roots')
          \/ UNCHANGED roots
      BY <1>6
    <2>2. inherited' = inherited /\ ui'.roots = ui.roots
      BY <1>6
    <2> QED BY <1>1, <2>1, <2>2, NamesStay, Zenon
  <1>9. CASE /\ Len(roots) # MaxRoots /\ Len(roots') = Len(roots) + 1
             /\ Elements(roots') = Elements(roots) \union {v}
             /\ ui'.answered
    <2>1. ui.answered
      BY <1>1, <1>9, Zenon
    <2>2. 2 * Len(ui.roots) + 2 <= Len(roots) + 1 /\ 2 * Len(ui.roots) <= Len(roots) + 1
      BY <1>1, <1>6, <1>7, <2>1, Pairs, Zenon
    <2>3. 2 * Len(ui'.roots) + 2 <= Len(roots') /\ 2 * Len(ui'.roots) <= Len(roots')
      BY <1>6, <1>9, <2>2, Zenon
    <2>4. ~inherited' => Len(roots') % 2 = 0
      BY <1>1, <1>6, <1>9, <2>1, Pairs, Zenon
    <2>5. HasNames(r)'
      <3>1. Vol \o r \in Elements(roots') /\ Dos \o r \in Elements(roots')
        BY <1>1, <1>4, <1>9, <2>1, Zenon
      <3> QED BY <3>1, Zenon DEF HasNames
    <2>6. ASSUME ~inherited', NEW path \in Elements(roots')
          PROVE  (\E q \in Elements(ui'.roots) : IsName(path, q)) \/ (ui'.answered /\ IsName(path, r))
      <3>1. path \in Elements(roots) \/ path = v
        BY <1>9
      <3>2. CASE path \in Elements(roots)
        BY <1>1, <1>6, <1>9, <2>6, <3>2, Zenon
      <3>3. CASE path = v
        BY <1>4, <1>9, <3>3, Zenon DEF IsName
      <3> QED BY <3>1, <3>2, <3>3
    <2> QED BY <1>1, <1>3, <1>8, <2>3, <2>4, <2>5, <2>6, Zenon DEF AddingShown
  <1>10. CASE Len(roots) = MaxRoots /\ UNCHANGED <<roots, ui>>
    <2>1. roots' = roots /\ ui' = ui /\ Len(roots) = MaxRoots
      BY <1>10
    <2>2. Len(roots) % 2 = 0
      BY <1>7, <2>1, Zenon
    <2>3. ui.answered => inherited
      BY <1>1, <1>6, <2>2, Pairs, Zenon
    <2>4. 2 * Len(ui.roots) <= Len(roots)
      BY <1>1, <1>6, <1>7, Pairs, Zenon
    <2>5. ui.answered => 2 * Len(ui.roots) + 2 <= Len(roots)
      BY <1>1, <1>6, <1>7, <2>2, Pairs, Zenon
    <2>6. ui'.answered => HasNames(r)'
      BY <1>6, <2>1, <2>3, Zenon DEF HasNames
    <2>7. 2 * Len(ui'.roots) <= Len(roots') /\ (ui'.answered => 2 * Len(ui'.roots) + 2 <= Len(roots'))
      BY <2>1, <2>4, <2>5, Zenon
    <2>8. ~inherited' =>
             /\ Len(roots') % 2 = 0
             /\ \A path \in Elements(roots') :
                   (\E q \in Elements(ui'.roots) : IsName(path, q)) \/ (ui'.answered /\ IsName(path, r))
      BY <1>1, <1>6, <2>1, <2>2, Zenon
    <2> QED BY <1>1, <1>3, <1>8, <2>6, <2>7, <2>8, Zenon DEF AddingShown
  <1> QED BY <1>6, <1>9, <1>10

\* What is left of a list of pairs.
LEMMA Counts ==
    /\ \A n, m, p \in Nat : p \notin {0, 1} /\ p - 1 + n = 2 * m =>
          1 \in 1 .. p - 1 /\ n + 1 \in 1 .. 2 * m
    /\ \A n \in Nat :
          /\ (2 * n + 2) - 1 = 2 * n + 1 /\ 2 * n + 1 \in 1 .. 2 * n + 1
          /\ (2 * n + 1) + 1 = 2 * n + 2 /\ 2 * n + 1 # 0
          /\ (2 * n + 1) - 1 = 2 * n /\ (2 * n + 1) - 1 + 0 = 2 * n
          /\ \A k \in 1 .. 2 * n : k \in 1 .. 2 * n + 1 /\ 0 + k = k
  OBVIOUS

LEMMA LenNat == \A S : \A s \in Seq(S) : Len(s) \in Nat
  OBVIOUS

\* Where a command is, its next step says.
LEMMA PlaceSays ==
    ASSUME ClientTypes, TableTypes, program # << >>, RootPlace
    PROVE  \/ Step.op \notin RootOps /\ ~Has(RootOps) /\ Consistent
           \/ Step.op \notin RootOps /\ Refilling /\ Len(program) = 1
           \/ Step.op = "clear roots" /\ \E rest \in Seq(Roots) : Clears(rest)
           \/ Step.op = "root" /\ Refilling
           \/ Step.op = "root" /\ \E r \in Roots : AddingFirst(r) \/ AddingSecond(r)
           \/ Step.op = "show" /\ \E r \in Roots : AddingShown(r)
  <1>1. program \in Seq(Steps) /\ ui.roots \in Seq(Roots) /\ roots \in Seq(Paths)
    BY DEF ClientTypes, TableTypes, Fields
  <1>2. Step = program[1] /\ Len(program) \in Nat \ {0}
    BY <1>1, ProgramTail
  <1>3. \A path : Add("root", path).op = "root" /\ Add("show", path).op = "show"
    BY DEF Add
  <1>4. CASE ~Has(RootOps) /\ Consistent
    <2>1. 1 \in 1 .. Len(program)
      BY <1>2
    <2> QED BY <1>2, <1>4, <2>1 DEF Has
  <1>5. CASE \E rest \in Seq(Roots) : Clears(rest)
    BY <1>2, <1>5 DEF Clears
  <1>6. CASE Refilling
    <2>1. /\ program[Len(program)].op = "stats"
          /\ Len(program) - 1 + Len(roots) = 2 * Len(ui.roots)
          /\ \A k \in 1 .. Len(program) - 1 : program[k] = AllNames(ui.roots)[Len(roots) + k]
      BY <1>6 DEF Refilling
    <2>2. CASE Len(program) = 1
      <3>1. Step.op = "stats"
        BY <1>2, <2>1, <2>2, Zenon
      <3> QED BY <1>6, <2>2, <3>1 DEF RootOps
    <2>3. CASE Len(program) # 1
      <3>1. Len(ui.roots) \in Nat /\ Len(roots) \in Nat
        BY <1>1
      <3>2. 1 \in 1 .. Len(program) - 1 /\ Len(roots) + 1 \in 1 .. 2 * Len(ui.roots)
        <4>1. Len(program) \in Nat /\ Len(program) \notin {0, 1}
          BY <1>2, <2>3
        <4> QED BY <2>1, <3>1, <4>1, Counts, Zenon
      <3>3. Step = AllNames(ui.roots)[Len(roots) + 1]
        BY <1>2, <2>1, <3>2, Zenon
      <3>4. PICK r \in Elements(ui.roots), d \in {Vol, Dos} :
                AllNames(ui.roots)[Len(roots) + 1] = Add("root", d \o r)
        BY <1>1, <3>2, AllNamesAre
      <3>5. Step.op = "root"
        BY <1>3, <3>3, <3>4, Zenon
      <3> QED BY <1>6, <3>5
    <2> QED BY <2>2, <2>3
  <1>7. CASE \E r \in Roots : AddingFirst(r) \/ AddingSecond(r) \/ AddingShown(r)
    <2>1. PICK r \in Roots : AddingFirst(r) \/ AddingSecond(r) \/ AddingShown(r)
      BY <1>7
    <2>2. CASE AddingFirst(r) \/ AddingSecond(r)
      <3>1. program[1] = Add("root", Vol \o r) \/ program[1] = Add("root", Dos \o r)
        BY <2>2, Zenon DEF AddingFirst, AddingSecond
      <3>2. Step.op = "root"
        BY <1>2, <1>3, <3>1, Zenon
      <3> QED BY <2>2, <3>2, Zenon
    <2>3. CASE AddingShown(r)
      <3>1. program[1] = Add("show", r)
        BY <2>3, Zenon DEF AddingShown
      <3>2. Step.op = "show"
        BY <1>2, <1>3, <3>1, Zenon
      <3> QED BY <2>3, <3>2, Zenon
    <2> QED BY <2>1, <2>2, <2>3
  <1> QED BY <1>4, <1>5, <1>6, <1>7 DEF RootPlace

\* A root is listed.
LEMMA ShowGoes ==
    ASSUME UxTypes, ProgramInv, ShowRoot, NEW r \in Roots, AddingShown(r)
    PROVE  ~Has(RootOps)' /\ Consistent'
  <1>1. /\ Len(program) = 2 /\ program[1] = Add("show", r) /\ program[2].op = "stats"
        /\ \A q \in Elements(ui.roots) : HasNames(q)
        /\ 2 * Len(ui.roots) <= Len(roots)
        /\ ui.answered => HasNames(r) /\ 2 * Len(ui.roots) + 2 <= Len(roots)
        /\ ~inherited =>
              /\ Len(roots) % 2 = 0
              /\ \A path \in Elements(roots) :
                    (\E q \in Elements(ui.roots) : IsName(path, q)) \/ (ui.answered /\ IsName(path, r))
    BY Zenon DEF AddingShown
  <1>2. program \in Seq(Steps) /\ program' = Tail(program)
        /\ roots' = roots /\ inherited' = inherited
        /\ IF ui.answered THEN ui'.roots = With(ui.roots, Step.path) ELSE ui' = ui
    BY ShowRootIs DEF UxTypes, ClientTypes, AdvanceStep, Done
  <1>3. Step = program[1] /\ Len(program') = 1 /\ program'[1] = program[2]
    <2>1. Step = program[1] /\ Len(program') = 2 - 1 /\ \A k \in 1 .. 2 - 1 : program'[k] = program[k + 1]
      BY <1>1, <1>2, ShortTail
    <2> QED BY <2>1
  <1>4. ~Has(RootOps)'
    <2>1. program'[1].op = "stats"
      BY <1>1, <1>3
    <2>2. \A k \in 1 .. Len(program') : program'[k].op = "stats"
      BY <1>3, <2>1, OnlyOne, Zenon
    <2> QED BY <2>2 DEF Has, RootOps
  <1>5. Step.path = r
    <2>1. Add("show", r).path = r
      BY DEF Add
    <2> QED BY <1>1, <1>3, <2>1, Zenon
  <1>6. ui.roots \in Seq(Roots)
    BY DEF UxTypes, ClientTypes, Fields
  <1>7. Len(ui.roots) \in Nat /\ Len(roots) \in Nat
    BY <1>6 DEF UxTypes, TableTypes
  <1>8. CASE ui.answered
    <2>1. ui'.roots = With(ui.roots, r)
      BY <1>2, <1>5, <1>8
    <2>2. /\ Len(With(ui.roots, r)) \in {Len(ui.roots), Len(ui.roots) + 1}
          /\ Elements(With(ui.roots, r)) = Elements(ui.roots) \union {r}
      BY <1>6, WithIs
    <2>3. 2 * Len(ui.roots) + 2 <= Len(roots)
      BY <1>1, <1>8
    <2>4. 2 * Len(With(ui.roots, r)) <= Len(roots)
      <3>1. Len(With(ui.roots, r)) = Len(ui.roots) \/ Len(With(ui.roots, r)) = Len(ui.roots) + 1
        BY <2>2
      <3> QED BY <1>7, <2>3, <3>1
    <2>5. \A q \in Elements(ui.roots) \union {r} : HasNames(q)'
      <3>1. \A q \in Elements(ui.roots) \union {r} : HasNames(q)
        BY <1>1, <1>8
      <3> QED BY <1>2, <3>1, Zenon DEF HasNames
    <2>6. ASSUME ~inherited
          PROVE  /\ Len(roots) % 2 = 0
                 /\ \A path \in Elements(roots) :
                       \E q \in Elements(ui.roots) \union {r} : IsName(path, q)
      <3>1. \A q \in Elements(ui.roots) : q \in Elements(ui.roots) \union {r}
        OBVIOUS
      <3>2. r \in Elements(ui.roots) \union {r}
        OBVIOUS
      <3> QED BY <1>1, <2>6, <3>1, <3>2, Zenon
    <2>7. 2 * Len(ui'.roots) <= Len(roots')
      BY <1>2, <2>1, <2>4, Zenon
    <2>8. \A q \in Elements(ui'.roots) : HasNames(q)'
      BY <2>1, <2>2, <2>5, Zenon
    <2>9. ~inherited' =>
              /\ Len(roots') % 2 = 0
              /\ \A path \in Elements(roots') : \E q \in Elements(ui'.roots) : IsName(path, q)
      BY <1>2, <2>1, <2>2, <2>6, Zenon
    <2> QED BY <1>4, <2>7, <2>8, <2>9, Zenon DEF Consistent
  <1>9. CASE ~ui.answered
    <2>1. ui' = ui
      BY <1>2, <1>9
    <2>2. Consistent
      BY <1>1, <1>9, Zenon DEF Consistent
    <2> QED BY <1>2, <1>4, <2>1, <2>2, Zenon DEF Consistent, HasNames
  <1> QED BY <1>8, <1>9

\* The table is empty, and the names of the others are to come.
LEMMA ClearGoes ==
    ASSUME UxTypes, ProgramInv, AdvanceStep, Step.op = "clear roots",
           roots' = << >>, inherited' = FALSE, ui'.roots = Step.rest,
           NEW rest \in Seq(Roots), Clears(rest)
    PROVE  Refilling'
  <1>1. /\ program # << >> /\ program[1].rest = rest
        /\ 2 * Len(rest) <= MaxRoots /\ Len(program) = 2 * Len(rest) + 2
        /\ \A k \in 1 .. 2 * Len(rest) : program[k + 1] = AllNames(rest)[k]
        /\ program[Len(program)].op = "stats"
    BY DEF Clears
  <1>2. program \in Seq(Steps) /\ program' = Tail(program)
    BY DEF UxTypes, ClientTypes, AdvanceStep, Done
  <1>3. /\ Step = program[1] /\ Len(program') = Len(program) - 1
        /\ \A k \in 1 .. Len(program) - 1 : program'[k] = program[k + 1]
    BY <1>1, <1>2, ProgramTail
  <1>4. Len(rest) \in Nat
    BY LenNat, Zenon
  <1>5. /\ Len(program') = 2 * Len(rest) + 1
        /\ \A k \in 1 .. 2 * Len(rest) + 1 : program'[k] = program[k + 1]
    <2>1. Len(program) - 1 = 2 * Len(rest) + 1
      BY <1>1, <1>4, Counts, Zenon
    <2> QED BY <1>3, <2>1, Zenon
  <1>6. ui'.roots = rest
    BY <1>1, <1>3, Zenon
  <1>7. /\ 2 * Len(rest) + 1 \in 1 .. 2 * Len(rest) + 1
        /\ (2 * Len(rest) + 1) + 1 = 2 * Len(rest) + 2
        /\ 2 * Len(rest) + 1 # 0 /\ (2 * Len(rest) + 1) - 1 = 2 * Len(rest)
        /\ (2 * Len(rest) + 1) - 1 + 0 = 2 * Len(rest)
        /\ \A k \in 1 .. 2 * Len(rest) : k \in 1 .. 2 * Len(rest) + 1 /\ 0 + k = k
    BY <1>4, Counts, Zenon
  <1>8. program'[Len(program')] = program[Len(program)]
    BY <1>1, <1>5, <1>7, Zenon
  <1>9. program'[Len(program')].op = "stats"
    BY <1>1, <1>8, Zenon
  <1>10. program' # << >>
    BY <1>5, <1>7, SmallFacts, Zenon
  <1>11. Len(roots') = 0
    BY SmallFacts, Zenon
  <1>12. Len(program') - 1 + Len(roots') = 2 * Len(ui'.roots)
    BY <1>5, <1>6, <1>7, <1>11, Zenon
  <1>13. ASSUME NEW k \in 1 .. Len(program') - 1
         PROVE  program'[k] = AllNames(ui.roots)'[Len(roots') + k]
    <2>1. k \in 1 .. 2 * Len(rest)
      BY <1>5, <1>7, Zenon
    <2>2. program'[k] = AllNames(rest)[k]
      BY <1>1, <1>5, <1>7, <2>1, Zenon
    <2>3. AllNames(ui.roots)' = AllNames(ui'.roots)
      OBVIOUS
    <2> QED BY <1>6, <1>7, <1>11, <2>1, <2>2, <2>3, Zenon
  <1>14. \A k \in 1 .. Len(roots') : AllNames(ui.roots)'[k] = Add("root", roots'[k])
    BY <1>11, SmallFacts, Zenon
  <1>15. ~inherited' /\ 2 * Len(ui'.roots) <= MaxRoots
    BY <1>1, <1>6, Zenon
  <1> QED BY <1>9, <1>10, <1>12, <1>13, <1>14, <1>15 DEF Refilling

\* A step that is not about roots.
LEMMA KeepsRootsGoes ==
    ASSUME UxTypes, AdvanceStep, KeepsRoots, RootPlace
    PROVE  ~Has(RootOps)' /\ Consistent'
  <1>1. /\ program \in Seq(Steps) /\ program # << >> /\ program' = Tail(program)
        /\ roots' = roots /\ inherited' = inherited /\ ui'.roots = ui.roots
        /\ Step.op \notin RootOps
    BY DEF UxTypes, ClientTypes, AdvanceStep, KeepsRoots, Done
  <1>2. (~Has(RootOps) /\ Consistent) \/ (Refilling /\ Len(program) = 1)
    <2>1. "clear roots" \in RootOps /\ "root" \in RootOps /\ "show" \in RootOps
      BY DEF RootOps
    <2>2. ClientTypes /\ TableTypes
      BY DEF UxTypes
    <2> QED BY <1>1, <2>1, <2>2, PlaceSays, Zenon
  <1>3. Consistent => Consistent'
    BY <1>1, Zenon DEF Consistent, HasNames
  <1>4. CASE ~Has(RootOps) /\ Consistent
    <2>1. ~Has(RootOps)'
      BY <1>1, <1>4, TailHas
    <2> QED BY <1>3, <1>4, <2>1
  <1>5. CASE Refilling /\ Len(program) = 1
    <2>1. program' = << >> /\ Len(program') = 0
      <3>1. Len(program') = Len(program) - 1 /\ program' \in Seq(Steps)
        BY <1>1, ProgramTail
      <3>2. Len(program') = 0
        BY <1>5, <3>1
      <3> QED BY <3>1, <3>2, EmptySeq
    <2>2. ~Has(RootOps)'
      BY <2>1, SmallFacts, Zenon DEF Has
    <2>3. /\ ~inherited /\ Len(program) - 1 + Len(roots) = 2 * Len(ui.roots)
          /\ \A k \in 1 .. Len(roots) : AllNames(ui.roots)[k] = Add("root", roots[k])
      BY <1>5 DEF Refilling
    <2>4. ui.roots \in Seq(Roots) /\ Len(ui.roots) \in Nat /\ Len(roots) \in Nat
      BY DEF UxTypes, ClientTypes, TableTypes, Fields
    <2>5. Len(roots) = 2 * Len(ui.roots)
      <3>1. Len(program) - 1 + Len(roots) = 2 * Len(ui.roots)
        BY <2>3
      <3> QED BY <1>5, <2>4, <3>1
    <2>6. /\ \A r \in Elements(ui.roots) :
                 Vol \o r \in Elements(roots) /\ Dos \o r \in Elements(roots)
          /\ \A path \in Elements(roots) : \E r \in Elements(ui.roots) : IsName(path, r)
          /\ Len(roots) % 2 = 0
      BY <2>3, <2>4, <2>5, RefilledIs
    <2>7. 2 * Len(ui.roots) <= Len(roots)
      BY <2>4, <2>5
    <2>8. Consistent
      BY <2>6, <2>7, Zenon DEF Consistent, HasNames
    <2> QED BY <1>3, <2>2, <2>8
  <1> QED BY <1>2, <1>4, <1>5

\* Between two commands the table and the list agree.
LEMMA IdlePlace ==
    ASSUME program = << >>, RootPlace
    PROVE  ~Has(RootOps) /\ Consistent
  <1>1. Len(program) = 0 /\ 0 # 2 /\ 0 # 3 /\ 0 # 4
    BY EmptyProgram
  <1>2. ASSUME NEW r \in Roots PROVE ~AddingFirst(r) /\ ~AddingSecond(r) /\ ~AddingShown(r)
    BY <1>1, Zenon DEF AddingFirst, AddingSecond, AddingShown
  <1>3. ~Refilling /\ ~(\E rest \in Seq(Roots) : Clears(rest))
    BY Zenon DEF Refilling, Clears
  <1> QED BY <1>2, <1>3, Zenon DEF RootPlace

\* What the place depends on.
LEMMA SamePlace ==
    ASSUME program' = program, ui' = ui, roots' = roots, inherited' = inherited, RootPlace
    PROVE  RootPlace'
  <1>1. Consistent => Consistent'
    BY Zenon DEF Consistent, HasNames
  <1>2. ~Has(RootOps) => ~Has(RootOps)'
    BY Zenon DEF Has
  <1>3. \A rest : Clears(rest) => Clears(rest)'
    BY Zenon DEF Clears, AllNames
  <1>4. Refilling => Refilling'
    BY Zenon DEF Refilling, AllNames
  <1>5. \A r : AddingFirst(r) => AddingFirst(r)'
    BY <1>1, Zenon DEF AddingFirst
  <1>6. \A r : AddingSecond(r) => AddingSecond(r)'
    BY ZenonT(60) DEF AddingSecond, HasNames
  <1>7. \A r : AddingShown(r) => AddingShown(r)'
    BY ZenonT(60) DEF AddingShown, HasNames
  <1> QED BY <1>1, <1>2, <1>3, <1>4, <1>5, <1>6, <1>7, Zenon DEF RootPlace

\* A command begins.
LEMMA CommandPlace ==
    ASSUME UxTypes, ProgramInv, RootPlace, NEW steps, Commands(steps), Command(steps)
    PROVE  RootPlace'
  <1>1. /\ program = << >> /\ program' # << >>
        /\ roots' = roots /\ inherited' = inherited
        /\ ui'.roots = ui.roots /\ ui'.answered = FALSE
        /\ Len(steps) \in Nat /\ Len(program') = Len(steps) + 1
        /\ \A k \in 1 .. Len(steps) : program'[k] = steps[k]
        /\ program'[Len(steps) + 1].op = "stats"
        /\ \A ops : Has(ops)' => "stats" \in ops \/ \E k \in 1 .. Len(steps) : steps[k].op \in ops
    BY CommandIs
  <1>2. Consistent
    BY <1>1, IdlePlace
  <1>3. Consistent'
    BY <1>1, <1>2, Zenon DEF Consistent, HasNames
  <1>4. CASE AddsRoot(steps)
    <2>1. PICK r \in Roots : /\ Len(steps) = 3
                             /\ steps[1] = Add("root", Vol \o r) /\ steps[2] = Add("root", Dos \o r)
                             /\ steps[3] = Add("show", r)
      BY <1>4, Zenon DEF AddsRoot
    <2>2. 3 + 1 = 4 /\ 1 \in 1 .. 3 /\ 2 \in 1 .. 3 /\ 3 \in 1 .. 3
      OBVIOUS
    <2>3. /\ Len(program') = 4
          /\ program'[1] = Add("root", Vol \o r) /\ program'[2] = Add("root", Dos \o r)
          /\ program'[3] = Add("show", r) /\ program'[4].op = "stats"
      BY <1>1, <2>1, <2>2, Zenon
    <2>4. ~ui'.answered
      BY <1>1
    <2>5. AddingFirst(r)'
      BY <1>3, <2>3, <2>4, Zenon DEF AddingFirst
    <2> QED BY <2>5, Zenon DEF RootPlace
  <1>5. CASE RefillsRoots(steps)
    <2>1. PICK rest \in Seq(Roots) :
              /\ 2 * Len(rest) <= 2 * Len(ui.roots)
              /\ Len(steps) = 2 * Len(rest) + 1
              /\ steps[1] = Clear("clear roots", rest)
              /\ \A k \in 1 .. 2 * Len(rest) : steps[k + 1] = AllNames(rest)[k]
      BY <1>5 DEF RefillsRoots
    <2>2. Len(rest) \in Nat
      BY LenNat, Zenon
    <2>3. 2 * Len(rest) <= MaxRoots
      <3>1. 2 * Len(ui.roots) <= Len(roots) /\ Len(roots) <= MaxRoots
        BY <1>2 DEF Consistent, UxTypes, TableTypes
      <3>2. Len(ui.roots) \in Nat /\ Len(roots) \in Nat /\ MaxRoots \in Nat
        BY UxSessionAssumption DEF UxTypes, ClientTypes, TableTypes, Fields
      <3>3. \A a, b, c, d \in Nat : 2 * a <= 2 * b /\ 2 * b <= c /\ c <= d => 2 * a <= d
        OBVIOUS
      <3> QED BY <2>1, <2>2, <3>1, <3>2, <3>3, Zenon
    <2>4. \A n \in Nat : /\ (2 * n + 1) + 1 = 2 * n + 2 /\ 1 \in 1 .. 2 * n + 1
                         /\ \A k \in 1 .. 2 * n : k + 1 \in 1 .. 2 * n + 1
      OBVIOUS
    <2>5. /\ Len(program') = 2 * Len(rest) + 2
          /\ program'[1] = Clear("clear roots", rest)
          /\ \A k \in 1 .. 2 * Len(rest) : program'[k + 1] = AllNames(rest)[k]
          /\ program'[2 * Len(rest) + 2].op = "stats"
      BY <1>1, <2>1, <2>2, <2>4, Zenon
    <2>6. Clear("clear roots", rest).op = "clear roots" /\ Clear("clear roots", rest).rest = rest
      BY DEF Clear
    <2>7. program'[1].op = "clear roots" /\ program'[1].rest = rest
      BY <2>5, <2>6, Zenon
    <2>8. program'[Len(program')].op = "stats"
      BY <2>5, Zenon
    <2>9. Clears(rest)'
      BY <1>1, <2>3, <2>5, <2>7, <2>8, Zenon DEF Clears, AllNames
    <2> QED BY <2>9, Zenon DEF RootPlace
  <1>6. CASE LeavesRoots(steps)
    <2>1. "stats" \notin RootOps
      BY DEF RootOps
    <2>2. ~Has(RootOps)'
      BY <1>1, <1>6, <2>1, Zenon DEF LeavesRoots
    <2> QED BY <1>3, <2>2, Zenon DEF RootPlace
  <1> QED BY <1>4, <1>5, <1>6 DEF Commands

\* The next step of a program.
LEMMA TalkPlace ==
    ASSUME LInv, UxTypes, ProgramInv, RootPlace, TalkStep, Linked', ~starved'
    PROVE  RootPlace'
  <1>t. ClientTypes /\ TableTypes
    BY DEF UxTypes
  <1>s. \A s \in {"exclude", "guard", "worker", "start", "stop", "stats", "clear excludes"} :
            s \notin RootOps
    BY DEF RootOps
  <1>p. AdvanceStep => program # << >>
    BY DEF AdvanceStep
  <1>r. "root" # "show" /\ "root" # "clear roots" /\ "show" # "clear roots"
        /\ "root" \in RootOps /\ "show" \in RootOps /\ "clear roots" \in RootOps
    BY DEF RootOps
  <1>1. ASSUME AdvanceStep, KeepsRoots PROVE RootPlace'
    <2>1. ~Has(RootOps)' /\ Consistent'
      BY <1>1, KeepsRootsGoes
    <2> QED BY <2>1, Zenon DEF RootPlace
  <1>2. CASE SendAddExclude \/ StartWorker \/ SendStartStop \/ RefreshStats
    <2>1. AdvanceStep /\ KeepsRoots
      BY <1>2, AddExcludeIs, StartWorkerIs, StartStopIs, RefreshIs
    <2> QED BY <1>1, <2>1
  <1>3. CASE SendAddRoot
    <2>1. AdvanceStep /\ Step.op = "root"
      BY <1>3, AddRootIs
    <2>2. Refilling \/ \E r \in Roots : AddingFirst(r) \/ AddingSecond(r)
      BY <1>t, <1>p, <1>r, <2>1, PlaceSays, Zenon
    <2>3. CASE Refilling
      <3>1. Refilling'
        BY <1>3, <2>3, RefillGoes
      <3> QED BY <3>1, Zenon DEF RootPlace
    <2>4. CASE \E r \in Roots : AddingFirst(r) \/ AddingSecond(r)
      <3>1. PICK r \in Roots : AddingFirst(r) \/ AddingSecond(r)
        BY <2>4
      <3>2. AddingSecond(r)' \/ AddingShown(r)'
        BY <1>3, <3>1, SecondGoes, ShownGoes
      <3> QED BY <3>2, Zenon DEF RootPlace
    <2> QED BY <2>2, <2>3, <2>4
  <1>4. CASE ShowRoot
    <2>1. AdvanceStep /\ Step.op = "show"
      BY <1>4, ShowRootIs
    <2>2. PICK r \in Roots : AddingShown(r)
      BY <1>t, <1>p, <1>r, <2>1, PlaceSays, Zenon
    <2>3. ~Has(RootOps)' /\ Consistent'
      BY <1>4, <2>2, ShowGoes
    <2> QED BY <2>3, Zenon DEF RootPlace
  <1>5. CASE SendClear
    <2>1. \/ UnlinkedStep
          \/ /\ AdvanceStep /\ Step.op = "clear roots"
             /\ roots' = << >> /\ inherited' = FALSE /\ ui'.roots = Step.rest
          \/ AdvanceStep /\ KeepsRoots
      BY <1>5, ClearIs
    <2>2. CASE UnlinkedStep
      BY <2>2 DEF UnlinkedStep
    <2>3. CASE /\ AdvanceStep /\ Step.op = "clear roots"
               /\ roots' = << >> /\ inherited' = FALSE /\ ui'.roots = Step.rest
      <3>1. PICK rest \in Seq(Roots) : Clears(rest)
        BY <1>t, <1>p, <1>r, <2>3, PlaceSays, Zenon
      <3>2. Refilling'
        BY <2>3, <3>1, ClearGoes, Zenon
      <3> QED BY <3>2, Zenon DEF RootPlace
    <2>4. CASE AdvanceStep /\ KeepsRoots
      BY <1>1, <2>4
    <2> QED BY <2>1, <2>2, <2>3, <2>4
  <1> QED BY <1>2, <1>3, <1>4, <1>5 DEF TalkStep

LEMMA RootKept ==
    ASSUME LInv, LInv', UxTypes, ProgramInv, RootInv, [UxNext]_uxVars
    PROVE  RootInv'
  <1> SUFFICES ASSUME Linked', ~starved' PROVE RootPlace'
    BY DEF RootInv
  <1>1. CASE UnlinkedStep
    BY <1>1 DEF UnlinkedStep
  <1>2. CASE OutsideStep
    <2>1. UNCHANGED <<program, ui>> /\ roots' = roots /\ inherited' = inherited
          /\ starved' = starved /\ Linked
      BY <1>2 DEF OutsideStep, Linked, Has
    <2>2. RootPlace
      BY <2>1 DEF RootInv
    <2>3. program' = program /\ ui' = ui
      BY <2>1
    <2> QED BY <2>1, <2>2, <2>3, SamePlace, Zenon
  <1>3. CASE LookStep
    <2>1. program' = program /\ roots' = roots /\ inherited' = inherited
          /\ ui'.roots = ui.roots /\ starved' = starved /\ Linked
          /\ (ui' = ui \/ program = << >>)
      BY <1>3 DEF LookStep, Linked, Has
    <2>2. RootPlace
      BY <2>1 DEF RootInv
    <2>3. CASE ui' = ui
      BY <2>1, <2>2, <2>3, SamePlace, Zenon
    <2>4. CASE program = << >>
      <3>1. ~Has(RootOps) /\ Consistent
        BY <2>2, <2>4, IdlePlace
      <3>2. ~Has(RootOps)' /\ Consistent'
        BY <2>1, <3>1, Zenon DEF Has, Consistent, HasNames
      <3> QED BY <3>2, Zenon DEF RootPlace
    <2> QED BY <2>1, <2>3, <2>4
  <1>4. CASE ConnectedStep
    <2>1. ~Has(RootOps)' /\ roots' = roots /\ inherited' = (roots # << >>)
          /\ ui' = ui /\ ui.roots = << >>
      BY <1>4 DEF ConnectedStep
    <2>2. ui'.roots = << >> /\ Elements(ui'.roots) = {} /\ Len(ui'.roots) = 0
      BY <2>1 DEF Elements
    <2>3. Len(roots) \in Nat
      BY LenNat DEF UxTypes, TableTypes
    <2>4. 2 * Len(ui'.roots) <= Len(roots')
      BY <2>1, <2>2, <2>3
    <2>5. ~inherited' => roots' = << >>
      BY <2>1
    <2>6. Len(<< >>) % 2 = 0 /\ Elements(<< >>) = {}
      BY DEF Elements
    <2>7. ~inherited' =>
             /\ Len(roots') % 2 = 0
             /\ \A path \in Elements(roots') : \E r \in Elements(ui'.roots) : IsName(path, r)
      BY <2>5, <2>6, Zenon
    <2>8. \A r \in Elements(ui'.roots) : HasNames(r)'
      BY <2>2
    <2>9. Consistent'
      BY <2>4, <2>7, <2>8, Zenon DEF Consistent
    <2> QED BY <2>1, <2>9, Zenon DEF RootPlace
  <1>5. CASE CommandStep
    <2>1. PICK steps : Commands(steps) /\ Command(steps)
      BY <1>5 DEF CommandStep
    <2>2. Linked /\ starved' = starved
      BY <2>1, CommandIs
    <2>3. RootPlace
      BY <2>2 DEF RootInv
    <2> QED BY <2>1, <2>3, CommandPlace
  <1>6. CASE TalkStep
    <2>1. UnlinkedStep \/ AdvanceStep
      BY <1>6, TalkKinds
    <2>2. CASE AdvanceStep
      <3>1. Linked /\ ~starved
        BY <2>2 DEF AdvanceStep
      <3>2. RootPlace
        BY <3>1 DEF RootInv
      <3> QED BY <1>6, <3>2, TalkPlace
    <2> QED BY <1>1, <2>1, <2>2
  <1> QED BY <1>1, <1>2, <1>3, <1>4, <1>5, <1>6, StepKinds

-----------------------------------------------------------------------------
(* The invariant. *)

LEMMA InitUxInv == UxInit => UxTypes /\ UxInv
  <1> SUFFICES ASSUME UxInit PROVE UxTypes /\ UxInv
    OBVIOUS
  <1>1. /\ client = "off" /\ program = << >> /\ ui = NewClient /\ driver = "out"
        /\ roots = << >> /\ patterns = << >> /\ inherited = FALSE /\ starved = FALSE
        /\ at.message = "none"
    BY DEF UxInit, LifeInit
  <1>2. UxTypes
    <2>1. NewClient \in Fields
      BY DEF NewClient, Fields
    <2>2. << >> \in Seq(Steps) /\ << >> \in Seq(Paths)
      OBVIOUS
    <2>3. Len(<< >>) <= MaxRoots /\ Len(<< >>) <= MaxPatterns
      BY UxSessionAssumption
    <2>4. ClientTypes
      BY <1>1, <2>1, <2>2 DEF ClientTypes
    <2>5. TableTypes
      BY <1>1, <2>2, <2>3, Zenon DEF TableTypes
    <2> QED BY <2>4, <2>5 DEF UxTypes
  <1>3. \A ops : ~Has(ops)
    BY <1>1, EmptyProgram
  <1>4. ProgramInv
    BY <1>1, <1>3 DEF ProgramInv
  <1>5. ActiveShown /\ ~Linked
    BY <1>1 DEF ActiveShown, Agreed, Idle, Linked
  <1>6. Len(program) = 0
    BY <1>1, EmptyProgram
  <1>7. GuardInv /\ RootInv
    BY <1>5, <1>6, SmallFacts, Zenon DEF GuardInv, ClearsFirst, GuardAhead, RootInv
  <1> QED BY <1>2, <1>4, <1>5, <1>7 DEF UxInv

\* The inductive invariant of the client and the driver together.
THEOREM UxInvariant == UxSpec => [](UxTypes /\ UxInv)
  <1>1. ASSUME LInv, LInv', UxTypes /\ UxInv, [UxNext]_uxVars
        PROVE  (UxTypes /\ UxInv)'
    <2>1. UxTypes' /\ ProgramInv'
      BY <1>1, StepKinds DEF UxInv
    <2>2. ActiveShown' /\ GuardInv' /\ RootInv'
      BY <1>1, ActiveKept, GuardKept, RootKept DEF UxInv
    <2> QED BY <2>1, <2>2 DEF UxInv
  <1> QED BY <1>1, InitUxInv, LifeInvariant, PTL DEF UxSpec

\* UxTypeOK: the variables of the client and the tables hold what they are meant to hold.
THEOREM UxTyped == UxSpec => []UxTypeOK
  <1>1. UxTypes /\ LifeTypeOK => UxTypeOK
    <2> SUFFICES ASSUME UxTypes, LifeTypeOK PROVE UxTypeOK
      OBVIOUS
    <2>1. \A k \in 1 .. Len(program) : program[k] \in Steps
      BY ElementOfSeq DEF UxTypes, ClientTypes
    <2>2. \A k \in 1 .. Len(program) :
              program[k].op \in PlainOps \union RootOps \union {"guard", "exclude", "clear excludes"}
      BY <2>1, StepTypes
    <2>3. {program[k].op : k \in 1 .. Len(program)} \subseteq
             {"load", "loaded", "connect", "disconnect", "unload", "quit", "root", "show", "exclude",
              "guard", "clear roots", "clear excludes", "worker", "start", "stop", "stats"}
      BY <2>2 DEF PlainOps, BootOps, ExitOps, RootOps
    <2>4. {ui.active, ui.worker, ui.loadedHere, ui.answered, inherited, starved} \subseteq BOOLEAN
      BY DEF UxTypes, ClientTypes, TableTypes, Fields
    <2>5. ui.roots \in Seq(Roots) /\ ui.excludes \in Seq(Excludes)
      BY DEF UxTypes, ClientTypes, Fields
    <2>6. Elements(ui.roots) \subseteq Roots /\ Elements(ui.excludes) \subseteq Excludes
      BY <2>5, ElementOfSeq DEF Elements
    <2> QED BY <2>3, <2>4, <2>6 DEF UxTypeOK, UxTypes, ClientTypes, TableTypes
  <1> QED BY <1>1, UxInvariant, LifeTyped, PTL

\* ActiveShown: between two commands of a connected client, what it shows of the
\* tracking is what the driver does, whatever happened to either.
THEOREM ClientShowsTracking == UxSpec => []ActiveShown
  <1>1. UxTypes /\ UxInv => ActiveShown
    BY DEF UxInv
  <1> QED BY <1>1, UxInvariant, PTL

-----------------------------------------------------------------------------
(* What the tables mean. *)

\* A prefix, character by character.
LEMMA PrefixIs ==
    ASSUME NEW a \in Paths, NEW b \in Paths
    PROVE  PrefixCi(a, b) <=> /\ Len(a) <= Len(b)
                              /\ \A k \in 1 .. Len(a) : Upcase[a[k]] = Upcase[b[k]]
  <1>1. a \in Seq(Chars) /\ b \in Seq(Chars) /\ Len(a) \in Nat /\ Len(b) \in Nat
    BY DEF Paths
  <1>2. ASSUME Len(a) <= Len(b)
        PROVE  /\ Len(SubSeq(b, 1, Len(a))) = Len(a)
               /\ \A k \in 1 .. Len(a) : SubSeq(b, 1, Len(a))[k] = b[k]
    <2>1. \A i \in 1 .. Len(a) : b[i] \in Chars
      BY <1>1, <1>2, ElementOfSeq
    <2>2. /\ Len(SubSeq(b, 1, Len(a))) = IF 1 <= Len(a) THEN Len(a) - 1 + 1 ELSE 0
          /\ \A i \in 1 .. Len(a) - 1 + 1 : SubSeq(b, 1, Len(a))[i] = b[1 + i - 1]
      BY <1>1, <2>1, SubSeqProperties
    <2>3. Len(a) - 1 + 1 = Len(a) /\ \A i \in 1 .. Len(a) : 1 + i - 1 = i
      BY <1>1
    <2>4. Len(SubSeq(b, 1, Len(a))) = Len(a)
      BY <1>1, <2>2
    <2> QED BY <2>2, <2>3, <2>4, Zenon
  <1>3. PrefixCi(a, b) <=> Len(a) <= Len(b) /\ EqualCi(a, SubSeq(b, 1, Len(a)))
    BY Zenon DEF PrefixCi
  <1>4. ASSUME Len(a) <= Len(b)
        PROVE  EqualCi(a, SubSeq(b, 1, Len(a))) <=>
                   \A k \in 1 .. Len(a) : Upcase[a[k]] = Upcase[b[k]]
    <2>1. PICK s : s = SubSeq(b, 1, Len(a))
      OBVIOUS
    <2>2. Len(s) = Len(a) /\ \A k \in 1 .. Len(a) : s[k] = b[k]
      BY <1>2, <1>4, <2>1, Zenon
    <2>3. EqualCi(a, s) <=> \A k \in 1 .. Len(a) : Upcase[a[k]] = Upcase[b[k]]
      BY <2>2, Zenon DEF EqualCi
    <2> QED BY <2>1, <2>3, Zenon
  <1> QED BY <1>3, <1>4, Zenon

\* Behind the same name of the drive, paths compare as they do without it.
LEMMA SameDrive ==
    ASSUME NEW d \in {Vol, Dos}, NEW r \in Paths, NEW p \in Paths
    PROVE  /\ PrefixCi(d \o r, d \o p) <=> PrefixCi(r, p)
           /\ Len(d \o r) = Len(d \o p) <=> Len(r) = Len(p)
           /\ r # << >> => (d \o r)[Len(d \o r)] = r[Len(r)]
           /\ Len(r) < Len(p) => (d \o p)[Len(d \o r) + 1] = p[Len(r) + 1]
  <1>1. PICK a, b : a = d \o r /\ b = d \o p
    OBVIOUS
  <1>2. /\ a \in Paths /\ Len(a) = Len(d) + Len(r) /\ Len(d) \in Nat /\ Len(r) \in Nat
        /\ \A k \in 1 .. Len(d) : a[k] = d[k]
        /\ \A k \in 1 .. Len(r) : a[Len(d) + k] = r[k]
    BY <1>1, NameTypes, Zenon
  <1>3. /\ b \in Paths /\ Len(b) = Len(d) + Len(p) /\ Len(p) \in Nat
        /\ \A k \in 1 .. Len(d) : b[k] = d[k]
        /\ \A k \in 1 .. Len(p) : b[Len(d) + k] = p[k]
    BY <1>1, NameTypes, Zenon
  <1>4. ASSUME PrefixCi(a, b) PROVE PrefixCi(r, p)
    <2>1. Len(a) <= Len(b) /\ \A k \in 1 .. Len(a) : Upcase[a[k]] = Upcase[b[k]]
      BY <1>2, <1>3, <1>4, PrefixIs
    <2>2. Len(r) <= Len(p)
      BY <1>2, <1>3, <2>1
    <2>3. ASSUME NEW k \in 1 .. Len(r) PROVE Upcase[r[k]] = Upcase[p[k]]
      <3>1. Len(d) + k \in 1 .. Len(a) /\ k \in 1 .. Len(p)
        BY <1>2, <1>3, <2>2
      <3>2. a[Len(d) + k] = r[k] /\ b[Len(d) + k] = p[k]
        BY <1>2, <1>3, <3>1, Zenon
      <3> QED BY <2>1, <3>1, <3>2, Zenon
    <2> QED BY <2>2, <2>3, PrefixIs
  <1>5. ASSUME PrefixCi(r, p) PROVE PrefixCi(a, b)
    <2>1. Len(r) <= Len(p) /\ \A k \in 1 .. Len(r) : Upcase[r[k]] = Upcase[p[k]]
      BY <1>5, PrefixIs
    <2>2. Len(a) <= Len(b)
      BY <1>2, <1>3, <2>1
    <2>3. ASSUME NEW k \in 1 .. Len(a) PROVE Upcase[a[k]] = Upcase[b[k]]
      <3>1. CASE k \in 1 .. Len(d)
        BY <1>2, <1>3, <3>1, Zenon
      <3>2. CASE k \notin 1 .. Len(d)
        <4>1. PICK j : j = k - Len(d)
          OBVIOUS
        <4>2. j \in 1 .. Len(r) /\ j \in 1 .. Len(p) /\ k = Len(d) + j
          BY <1>2, <1>3, <2>1, <3>2, <4>1
        <4>3. a[k] = r[j] /\ b[k] = p[j]
          BY <1>2, <1>3, <4>2, Zenon
        <4> QED BY <2>1, <4>2, <4>3, Zenon
      <3> QED BY <3>1, <3>2
    <2> QED BY <1>2, <1>3, <2>2, <2>3, PrefixIs
  <1>6. Len(a) = Len(b) <=> Len(r) = Len(p)
    <2>1. Len(d) + Len(r) = Len(d) + Len(p) <=> Len(r) = Len(p)
      <3>1. Len(d) \in Nat /\ Len(r) \in Nat /\ Len(p) \in Nat
        BY <1>2, <1>3, Zenon
      <3> QED BY <3>1, SMTT(60)
    <2>2. Len(a) = Len(d) + Len(r) /\ Len(b) = Len(d) + Len(p)
      BY <1>2, <1>3, Zenon
    <2> QED BY <2>1, <2>2, Zenon
  <1>7. ASSUME r # << >> PROVE a[Len(a)] = r[Len(r)]
    <2>1. Len(r) \in 1 .. Len(r)
      BY <1>7, EmptySeq DEF Paths
    <2> QED BY <1>2, <2>1, Zenon
  <1>8. ASSUME Len(r) < Len(p) PROVE b[Len(a) + 1] = p[Len(r) + 1]
    <2>1. Len(r) + 1 \in 1 .. Len(p) /\ Len(d) + (Len(r) + 1) = Len(a) + 1
      BY <1>2, <1>3, <1>8
    <2>2. b[Len(d) + (Len(r) + 1)] = p[Len(r) + 1]
      BY <1>3, <2>1, Zenon
    <2> QED BY <2>1, <2>2, Zenon
  <1> QED BY <1>1, <1>4, <1>5, <1>6, <1>7, <1>8, Zenon

\* Under the other name it never does.
LEMMA OtherDrive ==
    ASSUME NEW d \in {Vol, Dos}, NEW e \in {Vol, Dos}, d # e, NEW r \in Paths, NEW p \in Paths
    PROVE  ~PrefixCi(d \o r, e \o p)
  <1>1. PICK a, b : a = d \o r /\ b = e \o p
    OBVIOUS
  <1>2. /\ a \in Paths /\ Len(a) = Len(d) + Len(r) /\ Len(d) \in Nat /\ Len(r) \in Nat
        /\ \A k \in 1 .. Len(d) : a[k] = d[k]
    BY <1>1, NameTypes, Zenon
  <1>3. /\ b \in Paths /\ Len(b) = Len(e) + Len(p) /\ Len(e) \in Nat /\ Len(p) \in Nat
        /\ \A k \in 1 .. Len(e) : b[k] = e[k]
    BY <1>1, NameTypes, Zenon
  <1>4. d \in Paths /\ e \in Paths
    BY PathTypes
  <1>5. ~PrefixCi(d, e) /\ ~PrefixCi(e, d)
    BY PathAssumption
  <1>6. ASSUME PrefixCi(a, b) PROVE FALSE
    <2>1. Len(a) <= Len(b) /\ \A k \in 1 .. Len(a) : Upcase[a[k]] = Upcase[b[k]]
      BY <1>2, <1>3, <1>6, PrefixIs
    <2>2. CASE Len(d) <= Len(e)
      <3>1. ASSUME NEW k \in 1 .. Len(d) PROVE Upcase[d[k]] = Upcase[e[k]]
        <4>1. k \in 1 .. Len(a) /\ k \in 1 .. Len(e)
          BY <1>2, <1>3, <2>2
        <4> QED BY <1>2, <1>3, <2>1, <4>1, Zenon
      <3> QED BY <1>4, <1>5, <2>2, <3>1, PrefixIs
    <2>3. CASE ~(Len(d) <= Len(e))
      <3>1. Len(e) <= Len(d)
        BY <1>2, <1>3, <2>3
      <3>2. ASSUME NEW k \in 1 .. Len(e) PROVE Upcase[e[k]] = Upcase[d[k]]
        <4>1. k \in 1 .. Len(a) /\ k \in 1 .. Len(d)
          BY <1>2, <1>3, <3>1
        <4> QED BY <1>2, <1>3, <2>1, <4>1, Zenon
      <3> QED BY <1>4, <1>5, <3>1, <3>2, PrefixIs
    <2> QED BY <2>2, <2>3
  <1> QED BY <1>1, <1>6, Zenon

\* The driver's test is what a root is meant to cover.
LEMMA Matching ==
    ASSUME NEW d \in {Vol, Dos}, NEW r \in Paths, r # << >>, NEW p \in Paths
    PROVE  RootMatches(d \o r, d \o p) <=> Covers(r, p)
  <1>1. PICK a, b : a = d \o r /\ b = d \o p
    OBVIOUS
  <1>2. /\ PrefixCi(a, b) <=> PrefixCi(r, p)
        /\ Len(a) = Len(b) <=> Len(r) = Len(p)
        /\ a[Len(a)] = r[Len(r)] /\ a # << >>
        /\ Len(r) < Len(p) => b[Len(a) + 1] = p[Len(r) + 1]
    <2>1. a # << >>
      BY <1>1, NameTypes, Zenon
    <2>2. /\ PrefixCi(d \o r, d \o p) <=> PrefixCi(r, p)
          /\ Len(d \o r) = Len(d \o p) <=> Len(r) = Len(p)
          /\ (d \o r)[Len(d \o r)] = r[Len(r)]
          /\ Len(r) < Len(p) => (d \o p)[Len(d \o r) + 1] = p[Len(r) + 1]
      <3>1. /\ PrefixCi(d \o r, d \o p) <=> PrefixCi(r, p)
            /\ Len(d \o r) = Len(d \o p) <=> Len(r) = Len(p)
        BY SameDrive
      <3>2. (d \o r)[Len(d \o r)] = r[Len(r)]
        BY SameDrive
      <3>3. Len(r) < Len(p) => (d \o p)[Len(d \o r) + 1] = p[Len(r) + 1]
        BY SameDrive
      <3> QED BY <3>1, <3>2, <3>3
    <2> QED BY <1>1, <2>1, <2>2, Zenon
  <1>3. r \in Seq(Chars) /\ p \in Seq(Chars) /\ Len(r) \in Nat \ {0} /\ Len(p) \in Nat
        /\ Sep \in Chars
    BY EmptySeq, PathTypes DEF Paths
  <1>4. PrefixCi(r, p) <=> /\ Len(r) <= Len(p)
                           /\ \A k \in 1 .. Len(r) : Upcase[r[k]] = Upcase[p[k]]
    BY PrefixIs
  <1>5. EqualCi(r, p) <=> PrefixCi(r, p) /\ Len(r) = Len(p)
    <2>1. Len(r) = Len(p) => Len(r) <= Len(p)
      BY <1>3
    <2> QED BY <1>4, <2>1, Zenon DEF EqualCi
  <1>6. RootMatches(a, b) <=> /\ PrefixCi(r, p)
                              /\ \/ r[Len(r)] = Sep
                                 \/ Len(r) = Len(p)
                                 \/ Len(r) < Len(p) /\ p[Len(r) + 1] = Sep
    <2>1. PrefixCi(r, p) => Len(r) = Len(p) \/ Len(r) < Len(p)
      BY <1>3, <1>4
    <2>2. RootMatches(a, b) <=> /\ PrefixCi(r, p)
                                /\ r[Len(r)] = Sep \/ Len(b) = Len(a) \/ b[Len(a) + 1] = Sep
      BY <1>2, Zenon DEF RootMatches
    <2> QED BY <1>2, <2>1, <2>2, Zenon
  <1>7. CASE r[Len(r)] = Sep
    <2>1. Covers(r, p) <=> EqualCi(r, p) \/ PrefixCi(r, p)
      BY <1>7, Zenon DEF Covers
    <2> QED BY <1>1, <1>5, <1>6, <1>7, <2>1, Zenon
  <1>8. CASE r[Len(r)] # Sep
    <2>1. PICK t : t = Append(r, Sep)
      OBVIOUS
    <2>2. Covers(r, p) <=> EqualCi(r, p) \/ PrefixCi(t, p)
      BY <1>8, <2>1, Zenon DEF Covers
    <2>3. /\ t \in Paths /\ Len(t) = Len(r) + 1
          /\ \A k \in 1 .. Len(r) : t[k] = r[k]
          /\ t[Len(r) + 1] = Sep
      BY <1>3, <2>1, AppendElements DEF Paths
    <2>4. PrefixCi(t, p) <=> /\ Len(t) <= Len(p)
                             /\ \A k \in 1 .. Len(t) : Upcase[t[k]] = Upcase[p[k]]
      BY <2>3, PrefixIs
    <2>5. ASSUME PrefixCi(t, p)
          PROVE  PrefixCi(r, p) /\ Len(r) < Len(p) /\ p[Len(r) + 1] = Sep
      <3>1. Len(t) <= Len(p) /\ \A k \in 1 .. Len(t) : Upcase[t[k]] = Upcase[p[k]]
        BY <2>4, <2>5
      <3>2. /\ Len(r) < Len(p) /\ Len(r) <= Len(p) /\ Len(r) + 1 \in 1 .. Len(t)
            /\ Len(r) + 1 \in 1 .. Len(p) /\ \A k \in 1 .. Len(r) : k \in 1 .. Len(t)
        BY <1>3, <2>3, <3>1
      <3>3. \A k \in 1 .. Len(r) : Upcase[r[k]] = Upcase[p[k]]
        BY <2>3, <3>1, <3>2, Zenon
      <3>4. Upcase[Sep] = Upcase[p[Len(r) + 1]]
        BY <2>3, <3>1, <3>2, Zenon
      <3>5. p[Len(r) + 1] \in Chars
        BY <1>3, <3>2, ElementOfSeq
      <3>6. p[Len(r) + 1] = Sep
        BY <3>4, <3>5, PathAssumption, Zenon
      <3> QED BY <1>4, <3>2, <3>3, <3>6, Zenon
    <2>6. ASSUME PrefixCi(r, p), Len(r) < Len(p), p[Len(r) + 1] = Sep
          PROVE  PrefixCi(t, p)
      <3>1. \A k \in 1 .. Len(r) : Upcase[r[k]] = Upcase[p[k]]
        BY <1>4, <2>6, Zenon
      <3>2. Len(t) <= Len(p) /\ \A k \in 1 .. Len(t) : k \in 1 .. Len(r) \/ k = Len(r) + 1
        BY <1>3, <2>3, <2>6
      <3>3. ASSUME NEW k \in 1 .. Len(t) PROVE Upcase[t[k]] = Upcase[p[k]]
        BY <2>3, <2>6, <3>1, <3>2, Zenon
      <3> QED BY <2>4, <3>2, <3>3
    <2>7. Covers(r, p) <=> \/ PrefixCi(r, p) /\ Len(r) = Len(p)
                           \/ PrefixCi(r, p) /\ Len(r) < Len(p) /\ p[Len(r) + 1] = Sep
      BY <1>5, <2>2, <2>5, <2>6, Zenon
    <2> QED BY <1>1, <1>6, <1>8, <2>7, Zenon
  <1> QED BY <1>7, <1>8

\* A path that a root matches is not empty.
LEMMA MatchedIs ==
    ASSUME NEW d \in {Vol, Dos}, NEW r \in Paths, NEW p \in Paths, RootMatches(d \o r, d \o p)
    PROVE  d \o p # << >>
  <1>1. PICK a, b : a = d \o r /\ b = d \o p
    OBVIOUS
  <1>2. /\ Len(a) = Len(d) + Len(r) /\ Len(b) = Len(d) + Len(p) /\ a \in Seq(Chars)
        /\ Len(d) \in Nat /\ Len(r) \in Nat /\ Len(p) \in Nat
    BY <1>1, NameTypes, Zenon DEF Paths
  <1>3. a # << >> /\ Len(a) <= Len(b)
    BY <1>1, Zenon DEF RootMatches, PrefixCi
  <1>4. Len(a) # 0
    BY <1>2, <1>3, EmptySeq
  <1>5. Len(b) # 0
    BY <1>2, <1>3, <1>4
  <1> QED BY <1>1, <1>5, SmallFacts, Zenon

\* A pattern that a file's path begins with stands in the path behind the drive.
LEMMA BelowBackup ==
    ASSUME Guarded, TableTypes, BackupTail \in Elements(patterns), NEW file \in OwnFiles, NEW d \in {Vol, Dos}
    PROVE  Excluded(patterns, d \o file)
  <1>1. PICK path, t : path = d \o file /\ t = BackupTail
    OBVIOUS
  <1>2. t \in Paths /\ t # << >> /\ t[1] # Dot
    BY <1>1, BackupTailIs, Zenon
  <1>3. file \in Paths
    BY PathTypes
  <1>4. Len(t) \in Nat \ {0} /\ Len(file) \in Nat
    BY <1>2, <1>3, EmptySeq DEF Paths
  <1>5. Len(t) <= Len(file) /\ SubSeq(file, 1, Len(t)) = t
    BY <1>1, BackupAssumption, Zenon DEF Guarded
  <1>6. \A k \in 1 .. Len(t) : t[k] = file[k]
    <2>1. \A i \in 1 .. Len(t) : file[i] \in Chars
      <3>1. \A i \in 1 .. Len(file) : file[i] \in Chars
        BY <1>3, ElementOfSeq DEF Paths
      <3> QED BY <1>4, <1>5, <3>1
    <2>2. \A i \in 1 .. Len(t) - 1 + 1 : SubSeq(file, 1, Len(t))[i] = file[1 + i - 1]
      BY <1>4, <2>1, SubSeqProperties
    <2>3. Len(t) - 1 + 1 = Len(t) /\ \A i \in 1 .. Len(t) : 1 + i - 1 = i
      BY <1>4
    <2> QED BY <1>5, <2>2, <2>3, Zenon
  <1>7. /\ path \in Seq(Chars) /\ Len(path) = Len(d) + Len(file) /\ Len(d) \in Nat
        /\ \A k \in 1 .. Len(file) : path[Len(d) + k] = file[k]
    BY <1>1, <1>3, NameTypes DEF Paths
  <1>8. PICK s : s = SubSeq(path, Len(d) + 1, Len(d) + Len(t))
    OBVIOUS
  <1>9. Len(s) = Len(t) /\ \A k \in 1 .. Len(t) : s[k] = file[k]
    <2>1. \A i \in Len(d) + 1 .. Len(d) + Len(t) : path[i] \in Chars
      <3>1. \A i \in 1 .. Len(path) : path[i] \in Chars
        BY <1>7, ElementOfSeq
      <3>2. \A i \in Len(d) + 1 .. Len(d) + Len(t) : i \in 1 .. Len(path)
        BY <1>4, <1>5, <1>7
      <3> QED BY <3>1, <3>2, Zenon
    <2>2. Len(d) + 1 \in Int /\ Len(d) + Len(t) \in Int
      BY <1>4, <1>7
    <2>3. /\ Len(s) = IF Len(d) + 1 <= Len(d) + Len(t)
                      THEN Len(d) + Len(t) - (Len(d) + 1) + 1 ELSE 0
          /\ \A i \in 1 .. Len(d) + Len(t) - (Len(d) + 1) + 1 : s[i] = path[Len(d) + 1 + i - 1]
      BY <1>8, <2>1, <2>2, SubSeqProperties
    <2>4. /\ Len(d) + 1 <= Len(d) + Len(t)
          /\ Len(d) + Len(t) - (Len(d) + 1) + 1 = Len(t)
          /\ \A i \in 1 .. Len(t) : Len(d) + 1 + i - 1 = Len(d) + i /\ i \in 1 .. Len(file)
      BY <1>4, <1>5, <1>7
    <2> QED BY <1>7, <2>3, <2>4, Zenon
  <1>10. EqualCi(s, t)
    BY <1>6, <1>9, Zenon DEF EqualCi
  <1>11. SubstringCi(path, t)
    <2>1. Len(t) <= Len(path) /\ Len(d) \in 0 .. Len(path) - Len(t)
      BY <1>4, <1>5, <1>7
    <2> QED BY <1>8, <1>10, <2>1, Zenon DEF SubstringCi
  <1>12. path # << >>
    <2>1. Len(path) # 0
      BY <1>4, <1>5, <1>7
    <2> QED BY <2>1, SmallFacts, Zenon
  <1>13. PICK k \in 1 .. Len(patterns) : patterns[k] = t
    BY <1>1 DEF Elements
  <1>14. Excluded(patterns, path)
    BY <1>2, <1>11, <1>12, <1>13, Zenon DEF Excluded
  <1> QED BY <1>1, <1>14, Zenon

\* Between two commands a client that is connected is at its work.
LEMMA AgreedIsLinked ==
    ASSUME Agreed
    PROVE  Linked /\ program = << >> /\ ~GuardToCome
  <1>1. client = "on" /\ program = << >> /\ connection = "open"
    BY DEF Agreed, Idle
  <1>2. Len(program) = 0 /\ \A ops : ~Has(ops)
    BY <1>1, EmptyProgram
  <1>3. ~GuardToCome
    BY <1>2, SmallFacts, Zenon DEF GuardToCome
  <1> QED BY <1>1, <1>2, <1>3 DEF Linked

\* OwnFilesExcluded: while a session runs and no command is under way, what the
\* client writes is excluded from capture, for any number of commands in any
\* order and every size of the table.  The directory has a drive and its pattern
\* is not longer than the driver takes (Guarded), the table has a place, and no
\* allocation for it has failed: without these the guard is not registered.
THEOREM OwnFilesStayExcluded == UxSpec => []OwnFilesExcluded
  <1>1. ASSUME UxTypes, UxInv PROVE OwnFilesExcluded
    <2> SUFFICES ASSUME Agreed, ui.worker, Guarded, ~starved, Len(patterns) < MaxPatterns
                 PROVE  OwnExcluded
      BY DEF OwnFilesExcluded
    <2>1. Linked /\ ~GuardToCome
      BY AgreedIsLinked
    <2>2. GuardAhead
      BY <1>1 DEF UxInv, GuardInv
    <2>3. Len(patterns) # MaxPatterns
      <3>1. Len(patterns) \in Nat /\ MaxPatterns \in Nat
        BY <1>1, LenNat, UxSessionAssumption DEF UxTypes, TableTypes
      <3> QED BY <3>1
    <2>4. BackupTail \in Elements(patterns)
      BY <2>1, <2>2, <2>3 DEF GuardAhead
    <2> QED BY <1>1, <2>4, BelowBackup DEF OwnExcluded, UxTypes
  <1> QED BY <1>1, UxInvariant, PTL

\* RootsAgree: between two commands the processes that the driver takes for roots
\* are those under the roots that are listed, and no others but those of roots
\* that an earlier client left, for any number of commands in any order, every
\* size of the table, and roots that the driver does not refuse for their length.
THEOREM DriverWatchesTheList == UxSpec => []RootsAgree
  <1>1. ASSUME UxTypes, UxInv PROVE RootsAgree
    <2> SUFFICES ASSUME Agreed, ~starved, NEW image \in Images, NEW drive \in {Vol, Dos}
                 PROVE  LET watched == StartsWithAnyRoot(roots, drive \o image)
                            meant == \E r \in Elements(ui.roots) : Covers(r, image)
                        IN  /\ meant => watched \/ (inherited /\ Len(roots) = MaxRoots)
                            /\ watched => meant \/ inherited
      BY DEF RootsAgree
    <2>1. Linked /\ program = << >>
      BY AgreedIsLinked
    <2>2. Consistent
      BY <1>1, <2>1, IdlePlace DEF UxInv, RootInv
    <2>3. image \in Paths /\ \A r \in Elements(ui.roots) : r \in Roots /\ r \in Paths /\ r # << >>
      <3>1. ui.roots \in Seq(Roots)
        BY <1>1 DEF UxTypes, ClientTypes, Fields
      <3>2. \A r \in Elements(ui.roots) : r \in Roots
        BY <3>1, ElementOfSeq DEF Elements
      <3> QED BY <3>2, PathTypes
    <2>4. ASSUME NEW r \in Elements(ui.roots), Covers(r, image), ~(inherited /\ Len(roots) = MaxRoots)
          PROVE  StartsWithAnyRoot(roots, drive \o image)
      <3>1. Vol \o r \in Elements(roots) /\ Dos \o r \in Elements(roots)
        BY <2>2, <2>4, Zenon DEF Consistent, HasNames
      <3>2. drive = Vol \/ drive = Dos
        OBVIOUS
      <3>3. drive \o r \in Elements(roots)
        BY <3>1, <3>2, Zenon
      <3>4. PICK k \in 1 .. Len(roots) : roots[k] = drive \o r
        BY <3>3, Zenon DEF Elements
      <3>5. RootMatches(drive \o r, drive \o image)
        BY <2>3, <2>4, Matching
      <3>6. drive \o image # << >>
        BY <2>3, <3>5, MatchedIs
      <3> QED BY <3>4, <3>5, <3>6, Zenon DEF StartsWithAnyRoot
    <2>5. ASSUME StartsWithAnyRoot(roots, drive \o image), ~inherited
          PROVE  \E r \in Elements(ui.roots) : Covers(r, image)
      <3>1. PICK k \in 1 .. Len(roots) : RootMatches(roots[k], drive \o image)
        BY <2>5, Zenon DEF StartsWithAnyRoot
      <3>2. roots[k] \in Elements(roots)
        BY Zenon DEF Elements
      <3>3. PICK r \in Elements(ui.roots) : IsName(roots[k], r)
        BY <2>2, <2>5, <3>2, Zenon DEF Consistent
      <3>4. PICK d \in {Vol, Dos} : roots[k] = d \o r
        BY <3>3, Zenon DEF IsName
      <3>5. RootMatches(d \o r, drive \o image)
        BY <3>1, <3>4, Zenon
      <3>6. PrefixCi(d \o r, drive \o image)
        BY <3>5, Zenon DEF RootMatches
      <3>7. d = drive
        BY <2>3, <3>6, OtherDrive
      <3>8. Covers(r, image)
        BY <2>3, <3>5, <3>7, Matching, Zenon
      <3> QED BY <3>8
    <2> QED BY <2>4, <2>5, Zenon
  <1> QED BY <1>1, UxInvariant, PTL
=============================================================================
