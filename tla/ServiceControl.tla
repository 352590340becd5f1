--------------------------- MODULE ServiceControl ---------------------------
(***************************************************************************)
(* How the Data Parser's process is started and stopped: by the threads of *)
(* the operator console (console/app/main.py, ServiceController), by the   *)
(* launcher script (scripts/launch_service.py), and by its own death.  The *)
(* console knows a process as its child or by the pid file that both       *)
(* write; the controller's lock covers start and stop, but neither a       *)
(* status, which may clear what it finds dead, nor the launcher.  A second *)
(* parser dies while it opens the state stores of the first.               *)
(*                                                                         *)
(* The launcher is the one for Windows, and a process is alive as tasklist *)
(* lists it; on POSIX a dead child stays a zombie until the console polls. *)
(* The status with which start and stop end is left out: it refreshes as   *)
(* any other status does.                                                  *)
(***************************************************************************)
EXTENDS Naturals

CONSTANTS
    Threads,        \* request threads of the console
    Viewers,        \* those that are asked for a status (bounds how many are under way)
    Pids,           \* processes (bounds how often the parser is started)
    NoThread, NoPid,
    MaxRequests,    \* bound on what is asked for: start, stop, restart, update, launch
    MaxConsoleDeaths

ASSUME NoPidAssumption == NoPid \notin Pids
ASSUME NoThreadAssumption == NoThread \notin Threads
ASSUME BoundsAssumption == MaxRequests \in Nat /\ MaxConsoleDeaths \in Nat

VARIABLES
    proc,       \* process -> "unborn", "starting", "opened" (its stores), "up", "dying", "dead"
    child,      \* ServiceController.process
    managed,    \* ServiceController.managed_pid
    pidFile,    \* run/parser.pid
    holder,     \* the thread that holds the controller's lock
    pc,         \* thread -> where it is
    pending,    \* thread -> what its refresh_process has yet to do: "nothing", "unset", "clear"
    after,      \* thread -> what it does when stop returns
    victim,     \* thread -> the process its stop waits for
    launcher,   \* the launcher: "idle", "spawn", "write"
    launched,   \* the process it has started
    raced,      \* something has happened that can hide a process, see Race
    requests,   \* requests so far
    consoleDeaths

knownVars == <<child, managed, pidFile>>
threadVars == <<holder, pc, pending, after, victim>>
launchVars == <<launcher, launched>>
countVars == <<requests, consoleDeaths>>
controlVars == <<proc, knownVars, threadVars, launchVars, raced, countVars>>

Pid == Pids \cup {NoPid}

ControlInit ==
    /\ proc = [p \in Pids |-> "unborn"]
    /\ child = NoPid
    /\ managed = NoPid
    /\ pidFile = NoPid
    /\ holder = NoThread
    /\ pc = [t \in Threads |-> "idle"]
    /\ pending = [t \in Threads |-> "nothing"]
    /\ after = [t \in Threads |-> "idle"]
    /\ victim = [t \in Threads |-> NoPid]
    /\ launcher = "idle"
    /\ launched = NoPid
    /\ raced = FALSE
    /\ requests = 0
    /\ consoleDeaths = 0

-----------------------------------------------------------------------------
(* What the console knows                                                  *)

\* _pid_alive, poll: the kernel still has the process.
Alive(p) == p \in Pids /\ proc[p] \in {"starting", "opened", "up", "dying"}

\* The status API is there to answer.
Reachable == \E p \in Pids : proc[p] = "up"

\* What a health check returns: it gives up after a second or so, whether
\* the API is there or not.
Answers == {Reachable, FALSE}

Go(t, next) == pc' = [pc EXCEPT ![t] = next]

\* What a thread leaves behind at the end of a stop.
Forget == child' = NoPid /\ managed' = NoPid /\ pidFile' = NoPid

\* A request ends with an exception; a lock is given back.
Raise(t) ==
    /\ Go(t, "idle")
    /\ after' = [after EXCEPT ![t] = "idle"]
    /\ holder' = IF holder = t THEN NoThread ELSE holder

\* Popen gives process p, a new one; which of them makes no difference.
Popen(p) ==
    /\ \E q \in Pids : proc[q] = "unborn"
    /\ p = CHOOSE q \in Pids : proc[q] = "unborn"
    /\ proc' = [proc EXCEPT ![p] = "starting"]

-----------------------------------------------------------------------------
(* refresh_process                                                         *)

\* It looks at the child, then at the pid file: what it finds dead is left
\* to be cleared.
Look(t) ==
    \/ /\ Alive(child)
       /\ managed' = child
       /\ UNCHANGED pending
    \/ /\ child # NoPid /\ ~Alive(child)
       /\ pending' = [pending EXCEPT ![t] = "unset"]
       /\ UNCHANGED managed
    \/ /\ child = NoPid /\ Alive(pidFile)
       /\ managed' = pidFile
       /\ UNCHANGED pending
    \/ /\ child = NoPid /\ ~Alive(pidFile)
       /\ managed' = NoPid
       /\ pending' = [pending EXCEPT ![t] = "clear"]

\* The dead child is forgotten and the pid file removed, whatever they are
\* by now; with the file gone none is found in it.  A child that another
\* thread has forgotten meanwhile has no returncode: the request fails.
Unset(t) ==
    /\ pending[t] = "unset"
    /\ \/ /\ Forget
          /\ pending' = [pending EXCEPT ![t] = "clear"]
          /\ UNCHANGED <<holder, pc, after>>
       \/ /\ child = NoPid
          /\ Raise(t)
          /\ pending' = [pending EXCEPT ![t] = "nothing"]
          /\ UNCHANGED knownVars
    /\ UNCHANGED <<proc, victim, launchVars, countVars>>

\* The pid file is removed, whatever it holds by now.
Clear(t) ==
    /\ pending[t] = "clear"
    /\ pidFile' = NoPid
    /\ pending' = [pending EXCEPT ![t] = "nothing"]
    /\ UNCHANGED <<proc, child, managed, holder, pc, after, victim, launchVars, countVars>>

Refreshed(t) == pending[t] = "nothing"

-----------------------------------------------------------------------------
(* ServiceController.start and stop, restart, status                       *)

\* A status takes no lock; a thread that is "idle" may be in one.
Status(t) ==
    /\ t \in Viewers
    /\ pc[t] = "idle" /\ Refreshed(t)
    /\ Look(t)
    /\ UNCHANGED <<proc, child, pidFile, holder, pc, after, victim, launchVars, countVars>>

Ask == requests < MaxRequests /\ requests' = requests + 1

\* A request; update_reference has its own, in ReferenceUpdate.
Request(t) ==
    /\ pc[t] = "idle" /\ Refreshed(t)
    /\ Ask
    /\ \/ Go(t, "start") /\ UNCHANGED after
       \/ Go(t, "stop") /\ after' = [after EXCEPT ![t] = "idle"]
       \/ Go(t, "stop") /\ after' = [after EXCEPT ![t] = "start"]      \* restart
    /\ UNCHANGED <<proc, knownVars, holder, pending, victim, launchVars, consoleDeaths>>

\* start and stop take the lock and refresh.
Enter(t) ==
    /\ \/ pc[t] = "start" /\ Go(t, "startCheck")
       \/ pc[t] = "stop" /\ Go(t, "stopCheck")
    /\ holder = NoThread
    /\ holder' = t
    /\ Look(t)
    /\ UNCHANGED <<proc, child, pidFile, after, victim, launchVars, countVars>>

\* Faulty variant: a parser that is not reachable yet is started once more.
AlreadyReachable(reachable) == reachable

AlreadyRunning(reachable) == reachable \/ managed # NoPid

StartCheck(t) ==
    /\ pc[t] = "startCheck" /\ Refreshed(t)
    /\ \E reachable \in Answers :
        IF AlreadyRunning(reachable)
        THEN Go(t, "idle") /\ holder' = NoThread
        ELSE Go(t, "spawn") /\ UNCHANGED holder
    /\ UNCHANGED <<proc, knownVars, pending, after, victim, launchVars, countVars>>

Spawn(t) ==
    /\ pc[t] = "spawn"
    /\ \E p \in Pids : Popen(p) /\ child' = p /\ managed' = p
    /\ Go(t, "writePid")
    /\ UNCHANGED <<pidFile, holder, pending, after, victim, launchVars, countVars>>

\* Faulty variant: the exception leaves the lock held.
StartFailsHolding(t) ==
    /\ pc[t] \in {"spawn", "writePid"}
    /\ pidFile' = NoPid
    /\ Go(t, "idle")
    /\ UNCHANGED <<proc, child, managed, holder, pending, after, victim, launchVars, countVars>>

\* Popen or the writing of the pid file raises.
StartFails(t) ==
    /\ pc[t] \in {"spawn", "writePid"}
    /\ pidFile' = NoPid
    /\ holder' = NoThread
    /\ Go(t, "idle")
    /\ UNCHANGED <<proc, child, managed, pending, after, victim, launchVars, countVars>>

\* A child that a status has found dead and forgotten has no pid to write:
\* that fails, and the file is cleared.
WritePid(t) ==
    /\ pc[t] = "writePid"
    /\ managed' = child
    /\ pidFile' = child
    /\ holder' = NoThread
    /\ Go(t, "idle")
    /\ UNCHANGED <<proc, child, pending, after, victim, launchVars, countVars>>

Found == IF child # NoPid THEN child ELSE managed

\* stop signals the process it has found, which may not come to it (an error
\* of the system, or of taskkill); one that is still starting has no handler
\* and is dead at once.
StopCheck(t) ==
    /\ pc[t] = "stopCheck" /\ Refreshed(t)
    /\ IF Found = NoPid
       THEN /\ Go(t, after[t])
            /\ after' = [after EXCEPT ![t] = "idle"]
            /\ holder' = NoThread
            /\ UNCHANGED <<proc, victim>>
       ELSE /\ \/ Alive(Found) /\ proc' = [proc EXCEPT ![Found] = IF @ = "starting" THEN "dead" ELSE "dying"]
               \/ UNCHANGED proc
            /\ victim' = [victim EXCEPT ![t] = Found]
            /\ Go(t, "wait")
            /\ UNCHANGED <<holder, after>>
    /\ UNCHANGED <<knownVars, pending, launchVars, countVars>>

\* ... waits for its end, and kills it after eight seconds.
StopDone(t) ==
    /\ pc[t] = "wait"
    /\ proc' = [proc EXCEPT ![victim[t]] = "dead"]
    /\ victim' = [victim EXCEPT ![t] = NoPid]
    /\ Forget
    /\ holder' = NoThread
    /\ Go(t, after[t])
    /\ after' = [after EXCEPT ![t] = "idle"]
    /\ UNCHANGED <<pending, launchVars, countVars>>

\* The signal, the wait for the killed process, or a child that a status has
\* forgotten raises; or taskkill fails, and nobody looks at its result.  The
\* process is forgotten all the same.
StopFails(t) ==
    /\ pc[t] = "wait"
    /\ victim' = [victim EXCEPT ![t] = NoPid]
    /\ Forget
    /\ \/ Raise(t)
       \/ /\ victim[t] # child
          /\ holder' = NoThread
          /\ Go(t, after[t])
          /\ after' = [after EXCEPT ![t] = "idle"]
    /\ UNCHANGED <<proc, pending, launchVars, countVars>>

-----------------------------------------------------------------------------
(* launch_service.py                                                       *)

LaunchCheck ==
    /\ launcher = "idle"
    /\ ~Alive(pidFile)
    /\ Ask
    /\ pidFile' = NoPid
    /\ launcher' = "spawn"
    /\ UNCHANGED <<proc, child, managed, threadVars, launched, consoleDeaths>>

LaunchSpawn ==
    /\ launcher = "spawn"
    /\ \E p \in Pids : Popen(p) /\ launched' = p
    /\ launcher' = "write"
    /\ UNCHANGED <<knownVars, threadVars, countVars>>

LaunchWrite ==
    /\ launcher = "write"
    /\ pidFile' = launched
    /\ launcher' = "idle"
    /\ launched' = NoPid
    /\ UNCHANGED <<proc, child, managed, threadVars, countVars>>

-----------------------------------------------------------------------------
(* The parser's process and the console's end                              *)

Holds(p) == proc[p] \in {"opened", "up", "dying"}

\* main(): the state stores are opened, if no other parser has them.
OpenStores(p) ==
    /\ proc[p] = "starting"
    /\ \A q \in Pids \ {p} : ~Holds(q)
    /\ proc' = [proc EXCEPT ![p] = "opened"]
    /\ UNCHANGED <<knownVars, threadVars, launchVars, countVars>>

ServeHealth(p) ==
    /\ proc[p] = "opened"
    /\ proc' = [proc EXCEPT ![p] = "up"]
    /\ UNCHANGED <<knownVars, threadVars, launchVars, countVars>>

\* It crashes, or cannot open the state stores.
ProcessDies(p) ==
    /\ Alive(p)
    /\ proc' = [proc EXCEPT ![p] = "dead"]
    /\ UNCHANGED <<knownVars, threadVars, launchVars, countVars>>

ConsoleDies ==
    /\ consoleDeaths < MaxConsoleDeaths
    /\ consoleDeaths' = consoleDeaths + 1
    /\ child' = NoPid
    /\ managed' = NoPid
    /\ holder' = NoThread
    /\ pc' = [t \in Threads |-> "idle"]
    /\ pending' = [t \in Threads |-> "nothing"]
    /\ after' = [t \in Threads |-> "idle"]
    /\ victim' = [t \in Threads |-> NoPid]
    /\ UNCHANGED <<proc, pidFile, launchVars, requests>>

Serve(t) ==
    \/ Unset(t) \/ Clear(t) \/ Enter(t)
    \/ StartCheck(t) \/ Spawn(t) \/ StartFails(t) \/ WritePid(t)
    \/ StopCheck(t) \/ StopDone(t) \/ StopFails(t)

Launch == LaunchCheck \/ LaunchSpawn \/ LaunchWrite

ParserProcess(p) == OpenStores(p) \/ ServeHealth(p) \/ ProcessDies(p)

\* A stop has ended, and its process lives.
StopMissed ==
    \E t \in Threads : pc[t] = "wait" /\ pc'[t] # "wait" /\ Alive(victim[t]) /\ proc' = proc

\* What can leave a process unknown: the launcher runs between the steps of a
\* start, stop or refresh, or beside a child whose death the console has not
\* noticed; the refresh of another thread is under way during a start; the
\* pid is not written, as that fails or the console dies; a stop fails.
Race ==
    raced' = \/ raced
             \/ launcher' # "idle" /\ (holder' # NoThread \/ child' # NoPid \/ \E t \in Threads : ~Refreshed(t)')
             \/ \E t, u \in Threads : t # u /\ ~Refreshed(t)' /\ pc'[u] \in {"spawn", "writePid"}
             \/ \E t \in Threads : pc[t] = "writePid" /\ pc'[t] # "writePid" /\ (pidFile' # child' \/ child' # child)
             \/ StopMissed
=============================================================================
