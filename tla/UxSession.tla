------------------------------- MODULE UxSession -------------------------------
(***************************************************************************)
(* What an operator does with the driver: start-up and shutdown of the      *)
(* client, tracking on and off, watch roots and excludes, after             *)
(* src/src/knFcUxWpf/MainViewModel.cs, App.xaml.cs, DriverClient.cs and      *)
(* DriverInstaller.cs, on a driver that comes and goes as DriverLifecycle    *)
(* says and whose tables are those of DriverTables.                         *)
(*                                                                         *)
(* The client does all this in its UI thread.  A command is a program: the  *)
(* control messages it sends, one after the other, and what it shows of     *)
(* their results.  Between two of them the driver may be unloaded under the *)
(* client, a copy may find no memory, or the client may end.                *)
(***************************************************************************)
EXTENDS DriverLifecycle, DriverTables

CONSTANTS
    Roots,          \* watch roots that the operator may name, without the drive
    Excludes,       \* patterns that the operator may name
    Vol, Dos,       \* the two names of the drive: as a device and as \??\C:
    Manifest,       \* the pattern \manifest.jsonl
    BackupRoot,     \* where the client keeps its sessions, as the operator names it
    Colon,          \* what follows the letter of a drive
    Images,         \* images of processes, without the drive
    OwnFiles,       \* files the client writes, without the drive
    MaxRoots,       \* KNFC_MAX_WATCH_ROOTS (16)
    MaxPatterns,    \* KNFC_MAX_EXCLUDE_PATTERNS (64)
    MaxRootChars,   \* KNFC_MAX_WATCH_PATH_CHARS (520)
    MaxPatternChars \* KNFC_MAX_EXCLUDE_CHARS (128)

\* DosToNtSubstring: what follows the drive, ending in a separator; nothing
\* for a path without a drive, on a server or relative.
BackupTail ==
    IF Len(BackupRoot) < 2 \/ BackupRoot[2] # Colon THEN << >>
    ELSE LET tail == SubSeq(BackupRoot, 3, Len(BackupRoot)) IN
         IF tail # << >> /\ tail[Len(tail)] = Sep THEN tail ELSE Append(tail, Sep)

\* There is a pattern for the directory, and the driver takes patterns of its length.
Guarded == BackupTail # << >> /\ Len(BackupTail) <= MaxPatternChars

\* The two names of a root are short enough for the driver: paths up to MAX_PATH are.
ASSUME UxSessionAssumption ==
    /\ MaxRoots \in Nat /\ MaxPatterns \in Nat
    /\ MaxRootChars \in Nat /\ MaxPatternChars \in Nat
    /\ MaxRoots % 2 = 0         \* each root has two names
    /\ \A r \in Roots \union Excludes : r # << >>
    /\ \A r \in Roots, d \in {Vol, Dos} : Len(d \o r) <= MaxRootChars

Chars == DOMAIN Upcase

\* What a path is.  The separator is not what another character folds to, and no
\* name of the drive continues the other.
ASSUME PathAssumption ==
    /\ Roots \union Excludes \union Images \union OwnFiles
       \union {Vol, Dos, Manifest, BackupRoot} \subseteq Seq(Chars)
    /\ Sep \in Chars
    /\ \A c \in Chars : Upcase[c] = Upcase[Sep] => c = Sep
    /\ ~PrefixCi(Vol, Dos) /\ ~PrefixCi(Dos, Vol)

\* A directory named with its drive is named as the file system names it, not by
\* another spelling or through a link, and the client writes below it.  Its name
\* does not look like an extension.
ASSUME BackupAssumption ==
    BackupTail # << >> =>
        /\ BackupTail[1] # Dot
        /\ \A file \in OwnFiles : Len(BackupTail) <= Len(file)
                                  /\ SubSeq(file, 1, Len(BackupTail)) = BackupTail

VARIABLES
    client,         \* on or off
    program,        \* the steps its UI thread has yet to take
    ui,             \* the fields of MainViewModel
    roots,          \* the driver's g_Config
    patterns,       \* the driver's g_Exclude
    inherited,      \* the roots of an earlier client are still in the table
    starved         \* an allocation for a table has failed

tableVars == <<roots, patterns, inherited, starved>>
uxVars == <<lifeVars, client, program, ui, tableVars>>

Op(op) == [op |-> op]
Add(op, path) == [op |-> op, path |-> path]
Clear(op, rest) == [op |-> op, rest |-> rest]

Elements(list) == {list[k] : k \in 1 .. Len(list)}
Without(list, x) ==
    LET k == CHOOSE i \in 1 .. Len(list) : list[i] = x IN
    SubSeq(list, 1, k - 1) \o SubSeq(list, k + 1, Len(list))
With(list, x) == IF x \in Elements(list) THEN list ELSE Append(list, x)

\* WatchRoots, Excludes, Active, _sessionOpen with _worker, _loadedHere, and
\* whether a message of the present command has succeeded.
NewClient == [roots |-> << >>, excludes |-> << >>, active |-> FALSE,
              worker |-> FALSE, loadedHere |-> FALSE, answered |-> FALSE]

UxInit ==
    /\ LifeInit
    /\ client = "off" /\ program = << >> /\ ui = NewClient
    /\ roots = << >> /\ patterns = << >> /\ inherited = FALSE /\ starved = FALSE

Step == Head(program)

\* The UI thread is not in the driver, and its next step is one of ops.
Doing(ops) == at.message = "none" /\ program # << >> /\ Step.op \in ops

Done == program' = Tail(program) /\ UNCHANGED client

Quit == program' = << >> /\ client' = "off"

-----------------------------------------------------------------------------
(* Bootstrap and Shutdown. *)

\* OnStartup, behind the mutex of the single instance.
Launch ==
    /\ client = "off"
    /\ client' = "on"
    /\ program' = <<Op("load"), Op("connect"), Op("stats")>>
    /\ ui' = NewClient
    /\ UNCHANGED <<lifeVars, tableVars>>

\* A driver that is there need not be loaded, one on its way out cannot be.
\* FilterLoad returns when DriverEntry has.
LoadIfNeeded ==
    /\ \/ /\ Doing({"load"}) /\ driver = "out"
          /\ Load
          /\ program' = <<Op("loaded")>> \o Tail(program)
          /\ UNCHANGED <<client, ui>>
       \/ Doing({"load"}) /\ driver = "started" /\ Done /\ UNCHANGED <<lifeVars, ui>>
       \/ Doing({"load"}) /\ driver \notin {"out", "started"} /\ Quit /\ UNCHANGED <<lifeVars, ui>>
       \/ /\ Doing({"loaded"}) /\ driver \in {"started", "unloading"}
          /\ Done
          /\ ui' = [ui EXCEPT !.loadedHere = TRUE]
          /\ UNCHANGED lifeVars
       \/ Doing({"loaded"}) /\ driver = "out" /\ Quit /\ UNCHANGED <<lifeVars, ui>>
    /\ UNCHANGED tableVars

ConnectClient ==
    /\ Doing({"connect"})
    /\ IF port.server /\ connection = "none"
       THEN Connect /\ Done /\ inherited' = (roots # << >>)
       ELSE /\ program' = <<Op("unload"), Op("quit")>>
            /\ UNCHANGED <<lifeVars, client, inherited>>
    /\ UNCHANGED <<ui, roots, patterns, starved>>

\* The end of a client: its worker stops, its handle is closed, and the driver it
\* has loaded is unloaded.  FilterUnload returns when the callback has; without
\* a driver it fails.
Leave ==
    /\ \/ /\ Doing({"disconnect"})
          /\ IF connection = "none" THEN UNCHANGED lifeVars ELSE Disconnect
          /\ Done
          /\ ui' = [ui EXCEPT !.worker = FALSE]
       \/ /\ Doing({"unload"})
          /\ IF ui.loadedHere /\ driver = "started" THEN LeaveStarted ELSE UNCHANGED systemVars
          /\ Done
          /\ ui' = [ui EXCEPT !.loadedHere = FALSE]
          /\ UNCHANGED happened
       \/ /\ Doing({"quit"})
          /\ driver # "unloading"
          /\ Quit
          /\ UNCHANGED <<lifeVars, ui>>
    /\ UNCHANGED tableVars

-----------------------------------------------------------------------------
(* Messages, each served whole except Start and Stop. *)

\* The copies that the handlers and the tables make of a path.
Allocates(memory) ==
    IF memory THEN UNCHANGED <<happened, starved>> ELSE Happens /\ starved' = TRUE

SendAddRoot ==
    /\ Doing({"root"})
    /\ Done
    /\ \E memory \in BOOLEAN :
          /\ Allocates(memory)
          /\ IF connection = "open" /\ Accepts(roots, Step.path, MaxRoots, MaxRootChars, memory)
             THEN roots' = Append(roots, Step.path) /\ ui' = [ui EXCEPT !.answered = TRUE]
             ELSE UNCHANGED <<roots, ui>>
    /\ UNCHANGED <<systemVars, patterns, inherited>>

\* A root is listed if either of its names was taken.
ShowRoot ==
    /\ Doing({"show"})
    /\ Done
    /\ ui' = IF ui.answered THEN [ui EXCEPT !.roots = With(@, Step.path)] ELSE ui
    /\ UNCHANGED <<lifeVars, tableVars>>

\* What the client adds by itself (op "guard") is not listed.
SendAddExclude ==
    /\ Doing({"exclude", "guard"})
    /\ Done
    /\ \E memory \in BOOLEAN :
          /\ Allocates(memory)
          /\ IF connection = "open" /\ Accepts(patterns, Step.path, MaxPatterns, MaxPatternChars, memory)
             THEN /\ patterns' = Append(patterns, Step.path)
                  /\ ui' = IF Step.op = "guard" THEN ui
                           ELSE [ui EXCEPT !.excludes = With(@, Step.path)]
             ELSE UNCHANGED <<patterns, ui>>
    /\ UNCHANGED <<systemVars, roots, inherited>>

\* When a Clear fails, the rest of the command is left out.
SendClear ==
    /\ Doing({"clear roots", "clear excludes"})
    /\ \/ /\ connection = "open" /\ Step.op = "clear roots"
          /\ roots' = << >> /\ inherited' = FALSE
          /\ ui' = [ui EXCEPT !.roots = Step.rest]
          /\ Done
          /\ UNCHANGED patterns
       \/ /\ connection = "open" /\ Step.op = "clear excludes"
          /\ patterns' = << >>
          /\ ui' = [ui EXCEPT !.excludes = Step.rest]
          /\ Done
          /\ UNCHANGED <<roots, inherited>>
       \/ /\ connection # "open"
          /\ program' = <<Op("stats")>>
          /\ UNCHANGED <<client, ui, roots, patterns, inherited>>
    /\ UNCHANGED <<lifeVars, starved>>

\* BackupWorker.Start; the session is open.
StartWorker ==
    /\ Doing({"worker"})
    /\ Done
    /\ ui' = [ui EXCEPT !.worker = TRUE]
    /\ UNCHANGED <<lifeVars, tableVars>>

SendStartStop ==
    /\ Doing({"start", "stop"})
    /\ IF connection = "open"
       THEN Dispatch(IF Step.op = "start" THEN "start" ELSE "deactivate")
       ELSE UNCHANGED lifeVars
    /\ Done
    /\ UNCHANGED <<ui, tableVars>>

ShowStats == ui' = IF connection = "open" THEN [ui EXCEPT !.active = track.active] ELSE ui

\* At the end of each command.
RefreshStats ==
    /\ Doing({"stats"})
    /\ Done
    /\ ShowStats
    /\ UNCHANGED <<lifeVars, tableVars>>

-----------------------------------------------------------------------------
(* The operator's commands. *)

Idle == client = "on" /\ program = << >>

Command_Bug(steps) ==           \* does not refresh
    /\ Idle
    /\ Happens
    /\ program' = steps
    /\ ui' = [ui EXCEPT !.answered = FALSE]
    /\ UNCHANGED <<systemVars, client, tableVars>>

Command(steps) ==
    /\ Idle
    /\ Happens
    /\ program' = steps \o <<Op("stats")>>
    /\ ui' = [ui EXCEPT !.answered = FALSE]
    /\ UNCHANGED <<systemVars, client, tableVars>>

\* RegisterSelfExcludes: the directory only if there is a pattern for it.
SelfExcludes ==
    <<Add("guard", Manifest)>>
    \o (IF BackupTail # << >> THEN <<Add("guard", BackupTail)>> ELSE << >>)

Names_Bug(r) == <<Add("root", Vol \o r)>>   \* under one name of the drive only

Names(r) == <<Add("root", Vol \o r), Add("root", Dos \o r)>>

\* Those of each root in the list.
AllNames(list) == [k \in 1 .. 2 * Len(list) |-> Names(list[(k + 1) \div 2])[2 - (k % 2)]]

InvokeAddWatchRoot(r) == Command(Names(r) \o <<Add("show", r)>>)

InvokeClearRoots == ui.roots # << >> /\ Command(<<Clear("clear roots", << >>)>>)

\* The table is cleared and filled again with the others.
InvokeRemoveRoot(r) ==
    /\ r \in Elements(ui.roots)
    /\ LET rest == Without(ui.roots, r) IN
       Command(<<Clear("clear roots", rest)>> \o AllNames(rest))

InvokeAddExclude(p) == Command(<<Add("exclude", p)>>)

ClearedExcludes_Bug(rest) == <<Clear("clear excludes", rest)>>   \* the client's own go too

\* The client's own patterns come back first.
ClearedExcludes(rest) ==
    <<Clear("clear excludes", rest)>> \o IF ui.worker THEN SelfExcludes ELSE << >>

InvokeClearExcludes == ui.excludes # << >> /\ Command(ClearedExcludes(<< >>))

InvokeRemoveExclude(p) ==
    /\ p \in Elements(ui.excludes)
    /\ LET rest == Without(ui.excludes, p) IN
       Command(ClearedExcludes(rest) \o [k \in 1 .. Len(rest) |-> Add("guard", rest[k])])

\* CanStart; EnsureSessionWorker may fail to make the session's directory.
InvokeStart ==
    /\ ~ui.active /\ ui.roots # << >>
    /\ \/ Command((IF ui.worker THEN << >> ELSE SelfExcludes \o <<Op("worker")>>) \o <<Op("start")>>)
       \/ ~ui.worker /\ Command(<< >>)

\* CanStop.
InvokeStop == ui.active /\ Command(<<Op("stop")>>)

Shutdown ==
    /\ Idle
    /\ Happens
    /\ program' = <<Op("disconnect"), Op("unload"), Op("quit")>>
    /\ UNCHANGED <<systemVars, client, ui, tableVars>>

\* The timer's RefreshStats, when it changes what is shown.
Tick ==
    /\ Idle
    /\ ShowStats /\ ui' # ui
    /\ UNCHANGED <<lifeVars, client, program, tableVars>>

-----------------------------------------------------------------------------
(* What happens to the client and the driver. *)

\* A process ends when its calls into the driver and the loader have returned.
Crash ==
    /\ client = "on"
    /\ Happens
    /\ at.message = "none"
    /\ ~Doing({"loaded", "quit"})
    /\ Quit
    /\ ui' = NewClient
    /\ UNCHANGED <<systemVars, tableVars>>

\* The system closes the handles of a process that has ended.
HandleClosed ==
    /\ client = "off"
    /\ Disconnect
    /\ UNCHANGED <<client, program, ui, tableVars>>

\* fltmc unload.
UnloadedByOthers ==
    /\ LeaveStarted
    /\ Happens
    /\ UNCHANGED <<client, program, ui, tableVars>>

\* A step of the driver.  Its tables are empty when it goes.
Driver(action) ==
    /\ action
    /\ roots' = IF "config" \in parts' THEN roots ELSE << >>
    /\ patterns' = IF "exclude" \in parts' THEN patterns ELSE << >>
    /\ inherited' = (inherited /\ "config" \in parts')
    /\ UNCHANGED <<client, program, ui, starved>>

-----------------------------------------------------------------------------

UiStep ==
    \/ LoadIfNeeded \/ ConnectClient \/ Leave \/ SendAddRoot \/ ShowRoot \/ SendClear
    \/ SendAddExclude \/ StartWorker \/ SendStartStop \/ RefreshStats

Operate ==
    \/ Launch \/ Shutdown \/ InvokeClearRoots \/ InvokeClearExcludes \/ InvokeStart \/ InvokeStop
    \/ \E r \in Roots : InvokeAddWatchRoot(r) \/ InvokeRemoveRoot(r)
    \/ \E p \in Excludes : InvokeAddExclude(p) \/ InvokeRemoveExclude(p)

UxNext ==
    \/ Driver(LifeNext)
    \/ UiStep \/ Operate \/ Tick
    \/ Crash \/ HandleClosed \/ UnloadedByOthers

UxSpec == UxInit /\ [][UxNext]_uxVars

\* The threads of the client's process and of the driver.  Nothing obliges the
\* operator or the system to do anything.
UxFairness ==
    /\ WF_uxVars(UiStep \/ HandleClosed \/ Driver(MessageStep))
    /\ WF_uxVars(Driver(DriverStep))
    /\ WF_uxVars(Driver(CallbackStep))
    /\ WF_uxVars(Driver(ExitStep))
    /\ WF_uxVars(Driver(QueueSent))

FairUxSpec == UxSpec /\ UxFairness

-----------------------------------------------------------------------------

UxTypeOK ==
    /\ LifeTypeOK
    /\ client \in {"off", "on"}
    /\ {program[k].op : k \in 1 .. Len(program)} \subseteq
          {"load", "loaded", "connect", "disconnect", "unload", "quit", "root", "show", "exclude",
           "guard", "clear roots", "clear excludes", "worker", "start", "stop", "stats"}
    /\ {ui.active, ui.worker, ui.loadedHere, ui.answered, inherited, starved} \subseteq BOOLEAN
    /\ Elements(ui.roots) \subseteq Roots /\ Elements(ui.excludes) \subseteq Excludes
    /\ Len(roots) <= MaxRoots /\ Len(patterns) <= MaxPatterns

\* Between two commands of a connected client.
Agreed == Idle /\ connection = "open" /\ driver = "started"

\* A root is meant to cover itself and what begins with it and a separator.
Covers(root, path) ==
    LET terminated == IF root[Len(root)] = Sep THEN root ELSE Append(root, Sep) IN
    EqualCi(root, path) \/ PrefixCi(terminated, path)

\* Whatever was added, removed and cleared in which order, the processes that
\* the driver takes for roots are those under the roots listed, under either
\* name of the drive: the table that a removal empties is filled again, both
\* names are there, and \ab is not taken for \a.  Roots left by an earlier
\* client stay until they are cleared.
RootsAgree ==
    Agreed /\ ~starved =>
        \A image \in Images : \A drive \in {Vol, Dos} :
            LET watched == StartsWithAnyRoot(roots, drive \o image)
                meant == \E r \in Elements(ui.roots) : Covers(r, image)
            IN  /\ meant => watched \/ (inherited /\ Len(roots) = MaxRoots)
                /\ watched => meant \/ inherited

\* The files that the client writes are excluded, under both names of the drive.
OwnExcluded == \A file \in OwnFiles : \A drive \in {Vol, Dos} : Excluded(patterns, drive \o file)

\* While a session runs and no command is under way, what the client writes is
\* excluded from capture, whatever the operator did to the excludes, if BackupRoot
\* has a drive and its pattern is not too long for the driver (Guarded), unless
\* the table is full or memory was short.  src/README.md:268-276 promises it
\* without these conditions; the client never looks whether its guard was taken.
OwnFilesExcluded ==
    Agreed /\ ui.worker /\ Guarded /\ ~starved /\ Len(patterns) < MaxPatterns => OwnExcluded

\* Between two commands the client shows whether the driver tracks, so that it
\* offers Stop for tracking that an earlier client has left on.
ActiveShown == Agreed => ui.active = track.active

\* The driver comes up or goes down, and the client's command ends, always again:
\* no thread of either waits for ever.
Settles ==
    []<>(late # {} \/ (driver \in {"out", "started"} /\ program = << >>))
=============================================================================
