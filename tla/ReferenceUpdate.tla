--------------------------- MODULE ReferenceUpdate ---------------------------
(***************************************************************************)
(* The console rebuilds a reference store (console/app/main.py,            *)
(* update_reference and ReferenceManager.load; parser/reference/           *)
(* reference_importer.py) while the parser that has it open is stopped and *)
(* started again (ServiceControl).  Requests run in threads of their own;  *)
(* only start and stop take the controller's lock, an import takes none.   *)
(*                                                                         *)
(* A store is known by the import that built it.  A build directory is     *)
(* private to its import until it is renamed to the target.                *)
(***************************************************************************)
EXTENDS ServiceControl

CONSTANTS
    Builds,         \* stores, the first one included (bounds the imports)
    NoStore,
    Unopened,       \* the view of a parser whose open of the store has failed
    FirstStore,     \* the store there is in the beginning
    BackupNames,    \* .previous-<second>: imports of one second share a name
    NoName

ASSUME NoStoreAssumption == NoStore \notin Builds /\ FirstStore \in Builds
ASSUME UnopenedAssumption == Unopened \notin Builds \cup {NoStore}

VARIABLES
    target,     \* the store at the target's path
    backups,    \* backup name -> the store there
    backupName, \* thread -> the name its swap uses
    build,      \* thread -> the store it has built
    built,      \* stores that have been built, or begun
    running,    \* thread -> parser_was_running
    updating,   \* threads inside update_reference
    view,       \* process -> the store it has opened, if there was one to open
    sameSecond, \* an import has used the backup name of another that is swapping too
    overlap     \* something else has gone on during an update, see Overlap

diskVars == <<target, backups, backupName, build, built, sameSecond>>
storeVars == <<diskVars, view>>
updateVars == <<running, updating>>
vars == <<controlVars, storeVars, updateVars, overlap>>

Stores == Builds \cup {NoStore}

Init ==
    /\ ControlInit
    /\ target = FirstStore
    /\ backups = [n \in BackupNames |-> NoStore]
    /\ backupName = [t \in Threads |-> NoName]
    /\ build = [t \in Threads |-> NoStore]
    /\ built = {FirstStore}
    /\ running = [t \in Threads |-> FALSE]
    /\ updating = {}
    /\ view = [p \in Pids |-> NoStore]
    /\ sameSecond = FALSE
    /\ overlap = FALSE

unmovedByThread == <<proc, knownVars, holder, pending, after, victim, launchVars, countVars>>

-----------------------------------------------------------------------------
(* Console.update_reference, ReferenceManager.load                         *)

Unsettled == launcher # "idle" \/ \E p \in Pids : proc[p] \in {"starting", "opened", "dying"}

\* parser.status(): a refresh without the lock.
UpdateBegin(t) ==
    /\ pc[t] = "idle" /\ Refreshed(t)
    /\ Ask
    /\ Go(t, "updateCheck")
    /\ Look(t)
    /\ UNCHANGED <<proc, child, pidFile, holder, after, victim, launchVars, consoleDeaths, storeVars,
                   updateVars>>

Refused(reachable) == reachable /\ managed = NoPid

\* Faulty variant: the import is begun at once.
UpdateAtOnce(t) ==
    /\ pc[t] = "updateCheck" /\ Refreshed(t)
    /\ updating' = updating \cup {t}
    /\ running' = [running EXCEPT ![t] = FALSE]
    /\ Go(t, "build")
    /\ UNCHANGED <<unmovedByThread, storeVars>>

\* The health check, and the refusal of a parser that is not the console's.
UpdateCheck(t) ==
    /\ pc[t] = "updateCheck" /\ Refreshed(t)
    /\ \E reachable \in Answers :
        IF Refused(reachable)
        THEN Go(t, "idle") /\ UNCHANGED <<after, updateVars>>
        ELSE /\ updating' = updating \cup {t}
             /\ running' = [running EXCEPT ![t] = reachable]
             /\ after' = [after EXCEPT ![t] = IF reachable THEN "load" ELSE "idle"]
             /\ Go(t, IF reachable THEN "stop" ELSE "load")
    /\ UNCHANGED <<proc, knownVars, holder, pending, victim, launchVars, countVars, storeVars>>

\* Faulty variant: a failed import leaves the parser stopped.
RestoreNothing(t) ==
    /\ Go(t, "idle")
    /\ running' = [running EXCEPT ![t] = FALSE]
    /\ updating' = updating \ {t}

\* The import is over, well or not: a parser that was running is started.
Restore(t) ==
    /\ Go(t, IF running[t] THEN "start" ELSE "idle")
    /\ running' = [running EXCEPT ![t] = FALSE]
    /\ updating' = IF running[t] THEN updating ELSE updating \ {t}

\* load refuses while a parser answers.
LoadRefused(t) ==
    /\ pc[t] = "load"
    /\ Reachable
    /\ Restore(t)
    /\ UNCHANGED <<unmovedByThread, storeVars>>

\* None does, or not in time.
Load(t) ==
    /\ pc[t] = "load"
    /\ FALSE \in Answers
    /\ Go(t, "build")
    /\ UNCHANGED <<unmovedByThread, storeVars, updateVars>>

\* All source files have been read into a fresh store, manifest included.
Build(t) ==
    /\ pc[t] = "build"
    /\ built # Builds
    /\ LET b == CHOOSE x \in Builds : x \notin built
       IN build' = [build EXCEPT ![t] = b] /\ built' = built \cup {b}
    /\ Go(t, "moveAway")
    /\ UNCHANGED <<unmovedByThread, target, backups, backupName, view, sameSecond, updateVars>>

\* A source file is missing or malformed; the build directory is removed.
BuildFails(t) ==
    /\ pc[t] = "build"
    /\ Restore(t)
    /\ UNCHANGED <<unmovedByThread, storeVars>>

Swapping(t) == pc[t] \in {"moveIn", "discard"}

\* swap_store: the target, if there is one, is renamed to the backup's name.
MoveAway(t, n) ==
    /\ pc[t] = "moveAway"
    /\ target # NoStore => backups[n] = NoStore
    /\ backupName' = [backupName EXCEPT ![t] = n]
    /\ backups' = IF target = NoStore THEN backups ELSE [backups EXCEPT ![n] = target]
    /\ target' = NoStore
    /\ sameSecond' = (sameSecond \/ \E u \in Threads : Swapping(u) /\ backupName[u] = n)
    /\ Go(t, "moveIn")
    /\ UNCHANGED <<unmovedByThread, build, built, view, updateVars>>

\* There is another backup of this second, or the system refuses.
MoveAwayFails(t) ==
    /\ pc[t] = "moveAway"
    /\ target # NoStore
    /\ build' = [build EXCEPT ![t] = NoStore]
    /\ Restore(t)
    /\ UNCHANGED <<unmovedByThread, target, backups, backupName, built, view, sameSecond>>

MoveIn(t) ==
    /\ pc[t] = "moveIn"
    /\ target = NoStore
    /\ target' = build[t]
    /\ Go(t, "discard")
    /\ UNCHANGED <<unmovedByThread, backups, backupName, build, built, view, sameSecond, updateVars>>

\* Faulty variant: the backup is left where it is.
NoRollBack(t) == UNCHANGED <<target, backups>>

\* Faulty variant: the backup is copied back, and stays.
RollBackByCopy(t) ==
    /\ target' = IF target = NoStore THEN backups[backupName[t]] ELSE target
    /\ UNCHANGED backups

\* If the path is still free, the backup is moved back.
RollBack(t) ==
    LET n == backupName[t]
    IN IF target = NoStore /\ backups[n] # NoStore
       THEN target' = backups[n] /\ backups' = [backups EXCEPT ![n] = NoStore]
       ELSE UNCHANGED <<target, backups>>

\* The rename fails: another import's store is there, or the system refuses.
MoveInFails(t) ==
    /\ pc[t] = "moveIn"
    /\ RollBack(t)
    /\ build' = [build EXCEPT ![t] = NoStore]
    /\ backupName' = [backupName EXCEPT ![t] = NoName]
    /\ Restore(t)
    /\ UNCHANGED <<unmovedByThread, built, view, sameSecond>>

\* rmtree of the backup
Discard(t) ==
    /\ pc[t] = "discard"
    /\ backups' = [backups EXCEPT ![backupName[t]] = NoStore]
    /\ build' = [build EXCEPT ![t] = NoStore]
    /\ backupName' = [backupName EXCEPT ![t] = NoName]
    /\ Restore(t)
    /\ UNCHANGED <<unmovedByThread, target, built, view, sameSecond>>

Import(t) ==
    \/ LoadRefused(t) \/ Load(t) \/ Build(t) \/ BuildFails(t)
    \/ \E n \in BackupNames : MoveAway(t, n)
    \/ MoveAwayFails(t) \/ MoveIn(t) \/ MoveInFails(t) \/ Discard(t)

\* What a process has open goes with it.
Views == view' = [p \in Pids |-> IF proc'[p] = "dead" THEN NoStore ELSE view[p]]

\* update_reference returns when the start it ended with does, or with an
\* exception of its stop or start.
Controlled(t) ==
    /\ Serve(t)
    /\ updating' = IF pc'[t] = "idle" THEN updating \ {t} ELSE updating
    /\ running' = [running EXCEPT ![t] = @ /\ pc'[t] # "idle"]
    /\ Views
    /\ UNCHANGED diskVars

\* ReferenceDB._open, once in a process: a missing store is none for its life,
\* and so is one that cannot be opened.
Open(p) ==
    /\ OpenStores(p)
    /\ \E v \in {target, IF target = NoStore THEN NoStore ELSE Unopened} : view' = [view EXCEPT ![p] = v]
    /\ UNCHANGED <<diskVars, updateVars>>

ConsoleEnds ==
    /\ ConsoleDies
    /\ updating' = {}
    /\ running' = [t \in Threads |-> FALSE]
    /\ build' = [t \in Threads |-> NoStore]
    /\ backupName' = [t \in Threads |-> NoName]
    /\ UNCHANGED <<target, backups, built, view, sameSecond>>

Act ==
    \/ \E t \in Threads :
        \/ UpdateBegin(t) \/ UpdateCheck(t) \/ Import(t) \/ Controlled(t)
        \/ (Status(t) \/ Request(t)) /\ UNCHANGED <<storeVars, updateVars>>
    \/ \E p \in Pids :
        \/ Open(p)
        \/ (ServeHealth(p) \/ ProcessDies(p)) /\ Views /\ UNCHANGED <<diskVars, updateVars>>
    \/ Launch /\ UNCHANGED <<storeVars, updateVars>>
    \/ ConsoleEnds

\* Another request or the launcher is busy during an update; the update has
\* begun when the parser was neither up nor gone; its stop has failed; the
\* health check of its load has overlooked a parser that was up; or the
\* console has died in it.
Overlap ==
    overlap' = \/ overlap
               \/ \E t \in updating' : launcher' # "idle" \/ \E u \in Threads \ {t} : pc'[u] # "idle"
               \/ updating' # updating /\ updating' # {} /\ Unsettled
               \/ updating # {} /\ StopMissed
               \/ \E t \in Threads : pc[t] = "load" /\ pc'[t] = "build" /\ Reachable
               \/ consoleDeaths' # consoleDeaths /\ updating # {}

Next == Act /\ Race /\ Overlap

\* A request thread goes on with what it has begun.
ThreadStep(t) == UpdateCheck(t) \/ Import(t) \/ Controlled(t)

Spec == Init /\ [][Next]_vars /\ \A t \in Threads : WF_<<pc, pending>>(ThreadStep(t))
-----------------------------------------------------------------------------
(* Properties                                                              *)

\* Every variable keeps its type, and the controller's lock is held exactly
\* between the check and the end of a start or stop.
TypeOK ==
    /\ proc \in [Pids -> {"unborn", "starting", "opened", "up", "dying", "dead"}]
    /\ child \in Pid /\ managed \in Pid /\ pidFile \in Pid /\ launched \in Pid
    /\ pc \in [Threads -> {"idle", "start", "startCheck", "spawn", "writePid", "stop", "stopCheck", "wait",
                           "updateCheck", "load", "build", "moveAway", "moveIn", "discard"}]
    /\ pending \in [Threads -> {"nothing", "unset", "clear"}]
    /\ after \in [Threads -> {"idle", "start", "load"}]
    /\ victim \in [Threads -> Pid]
    /\ requests \in 0..MaxRequests
    /\ launcher \in {"idle", "spawn", "write"}
    /\ consoleDeaths \in 0..MaxConsoleDeaths
    /\ raced \in BOOLEAN /\ overlap \in BOOLEAN /\ sameSecond \in BOOLEAN
    /\ target \in Stores
    /\ backups \in [BackupNames -> Stores]
    /\ backupName \in [Threads -> BackupNames \cup {NoName}]
    /\ build \in [Threads -> Stores]
    /\ built \subseteq Builds
    /\ running \in [Threads -> BOOLEAN] /\ updating \subseteq Threads
    /\ view \in [Pids -> Stores \cup {Unopened}]
    /\ holder \in Threads \cup {NoThread}
    /\ \A t \in Threads : holder = t <=> pc[t] \in {"startCheck", "spawn", "writePid", "stopCheck", "wait"}

\* A parser that lives is known to the console, as its child or through the
\* pid file: no stop overlooks it.  A status that refreshes without the lock
\* does no harm as long as no other thread is between the Popen and the pid
\* file of a start; nor does a health check that gives up too early, or a
\* console that dies after that.  What does harm is listed in Race; one of
\* these races, a status during a start, contradicts the README's "safely
\* monitor" and is a finding in PROJECT.json.  (main.py:310-349, 351-471)
EveryParserIsKnown ==
    raced \/ \A p \in Pids : Alive(p) => p \in {child, pidFile} \/ launched = p

\* There is a store at the target's path, except between the two renames of
\* a swap and after a console that died there; and then a store is still on
\* the disk under a backup's name.  Imports may fail, overlap, and meet each
\* other's backups.  Only an import that takes the backup's name of another,
\* in the same second, may have its backup thrown away by the other.  The
\* README promises more, "atomically replaced": without these exceptions the
\* formula fails, which PROJECT.json lists as a finding.
\* (reference_importer.py:98-105)
StoreSurvives ==
    ~sameSecond /\ target = NoStore =>
        /\ consoleDeaths > 0 \/ \E t \in Threads : pc[t] = "moveIn"
        /\ \E n \in BackupNames : backups[n] # NoStore

\* Two stores never get mixed up: a build is in one place only, so no import
\* puts a store back that another has thrown away.  (reference_importer.py:98-105)
StoresAreDistinct ==
    /\ \A n \in BackupNames : backups[n] # NoStore => backups[n] # target
    /\ \A m, n \in BackupNames : m # n /\ backups[m] # NoStore => backups[m] # backups[n]

\* "Stop Parser before loading": while a parser serves, the store it has open
\* is the one at the target's path, or none if it could not open it, unless
\* something that Overlap lists has gone on during an update: no import
\* replaces a store under a parser, whichever other steps fail.  Among the
\* exceptions is a health check that overlooks a busy parser, which the README's
\* "safely stops the running Parser" does not have: PROJECT.json lists it as a
\* finding.  (main.py:550-576, 598-635, reference_db.py:156-173)
ServedStoreIsCurrent ==
    overlap \/ \A p \in Pids : proc[p] \in {"opened", "up"} => view[p] \in {target, Unopened}

\* When an update has stopped the parser, a start of it follows, whether the
\* import succeeds or fails, unless it is running already, the console dies,
\* or a status forgets the dead child that a refresh is looking at, which then
\* raises.  A stop that raises ends the update before this, with no start: the
\* docstring's "then restore Parser" fails there, as PROJECT.json lists.
\* (main.py:617-632)
ParserIsRestored ==
    \A t \in Threads :
        pc[t] = "load" /\ running[t]
            ~> \/ \E u \in Threads : pc[u] = "spawn"
               \/ consoleDeaths > 0
               \/ \E p \in Pids : Alive(p)
               \/ child = NoPid /\ \E u \in Threads : pending[u] = "unset"
=============================================================================
