----------------------- MODULE ReferenceUpdate_proofs -----------------------
(***************************************************************************)
(* Theorems about ReferenceUpdate, for any number of requests, processes,  *)
(* imports and deaths of the console.                                      *)
(***************************************************************************)
EXTENDS ReferenceUpdate, TLAPS

-----------------------------------------------------------------------------
(* Types and the controller's lock                                         *)

Places == {"idle", "start", "startCheck", "spawn", "writePid", "stop", "stopCheck", "wait",
           "updateCheck", "load", "build", "moveAway", "moveIn", "discard"}
Inside == {"startCheck", "spawn", "writePid", "stopCheck", "wait"}
Looking == {"idle", "startCheck", "stopCheck", "updateCheck"}

Processes == proc \in [Pids -> {"unborn", "starting", "opened", "up", "dying", "dead"}]

Lock ==
    /\ holder \in Threads \cup {NoThread}
    /\ \A t \in Threads : holder = t <=> pc[t] \in Inside
    /\ \A t \in Threads : pending[t] # "nothing" => pc[t] \in Looking

ControlTypes ==
    /\ Processes
    /\ child \in Pid /\ managed \in Pid /\ pidFile \in Pid /\ launched \in Pid
    /\ pc \in [Threads -> Places]
    /\ pending \in [Threads -> {"nothing", "unset", "clear"}]
    /\ after \in [Threads -> {"idle", "start", "load"}]
    /\ victim \in [Threads -> Pid]
    /\ requests \in 0..MaxRequests
    /\ launcher \in {"idle", "spawn", "write"}
    /\ consoleDeaths \in 0..MaxConsoleDeaths
    /\ Lock

StoreTypes ==
    /\ target \in Stores
    /\ backups \in [BackupNames -> Stores]
    /\ backupName \in [Threads -> BackupNames \cup {NoName}]
    /\ build \in [Threads -> Stores]
    /\ built \subseteq Builds
    /\ sameSecond \in BOOLEAN
    /\ view \in [Pids -> Stores \cup {Unopened}]
    /\ \A t \in Threads : Swapping(t) => backupName[t] \in BackupNames

UpdateTypes == running \in [Threads -> BOOLEAN] /\ updating \subseteq Threads

GhostTypes == raced \in BOOLEAN /\ overlap \in BOOLEAN

Types == ControlTypes /\ StoreTypes /\ UpdateTypes /\ GhostTypes

\* What a refresh finds are processes, and it has something to do or not.
LEMMA LookType ==
  ASSUME ControlTypes, NEW t \in Threads, Look(t)
  PROVE  /\ managed' \in Pid /\ pending' \in [Threads -> {"nothing", "unset", "clear"}]
         /\ \A u \in Threads \ {t} : pending'[u] = pending[u]
  BY DEF ControlTypes, Look, Pid, Alive

\* What a stop finds is a process, or none.
LEMMA FoundType == ControlTypes => Found \in Pid
  BY DEF ControlTypes, Found, Pid

\* A thread outside the lock goes to another place outside it.
LEMMA GoOutside ==
  ASSUME ControlTypes, NEW t \in Threads, NEW next \in Places \ Inside, Go(t, next),
         pc[t] \notin Inside, holder' = holder, pending' = pending, pc[t] \in Looking => Refreshed(t)
  PROVE  pc' \in [Threads -> Places] /\ Lock'
  BY DEF ControlTypes, Go, Lock, Inside, Refreshed

\* A thread that holds the lock gives it back.
LEMMA GoOut ==
  ASSUME ControlTypes, NEW t \in Threads, NEW next \in Places \ Inside, Go(t, next),
         pc[t] \in Inside, holder' = NoThread, pending' = pending, pc[t] \in Looking => Refreshed(t)
  PROVE  pc' \in [Threads -> Places] /\ Lock'
  BY NoThreadAssumption DEF ControlTypes, Go, Lock, Inside, Refreshed

\* A thread takes the free lock and refreshes.
LEMMA GoIn ==
  ASSUME ControlTypes, NEW t \in Threads, NEW next \in Inside \cap Looking, Go(t, next),
         holder = NoThread, holder' = t, \A u \in Threads \ {t} : pending'[u] = pending[u]
  PROVE  pc' \in [Threads -> Places] /\ Lock'
  BY NoThreadAssumption DEF ControlTypes, Go, Lock, Inside, Places

\* A thread that holds the lock goes on.
LEMMA GoOn ==
  ASSUME ControlTypes, NEW t \in Threads, NEW next \in Inside, Go(t, next),
         pc[t] \in Inside, holder' = holder, pending' = pending, pc[t] \in Looking => Refreshed(t)
  PROVE  pc' \in [Threads -> Places] /\ Lock'
  BY DEF ControlTypes, Go, Lock, Inside, Places, Refreshed

\* A thread that ends with an exception is outside the lock.
LEMMA RaiseTypes ==
  ASSUME ControlTypes, NEW t \in Threads, Raise(t), \A u \in Threads \ {t} : pending'[u] = pending[u]
  PROVE  /\ pc' \in [Threads -> Places] /\ Lock'
         /\ after' \in [Threads -> {"idle", "start", "load"}]
  BY NoThreadAssumption DEF ControlTypes, Raise, Go, Lock, Inside, Looking, Places

\* The steps of a request within refresh, start and stop keep the types.
LEMMA ServeTypes ==
  ASSUME ControlTypes, NEW t \in Threads, Serve(t)
  PROVE  ControlTypes'
<1>0. NoPid \in Pid /\ after[t] \in Places \ Inside
  BY DEF ControlTypes, Places, Inside, Pid
<1>1. CASE StartCheck(t)
  <2>1. CASE Go(t, "idle") /\ holder' = NoThread
    <3>1. pc' \in [Threads -> Places] /\ Lock'
      BY <1>1, <2>1, GoOut DEF StartCheck, Inside, Looking, Places
    <3> QED
      BY <1>1, <3>1 DEF StartCheck, knownVars, launchVars, countVars, ControlTypes, Processes
  <2>2. CASE Go(t, "spawn") /\ UNCHANGED holder
    <3>1. pc' \in [Threads -> Places] /\ Lock'
      BY <1>1, <2>2, GoOn DEF StartCheck, Inside, Looking
    <3> QED
      BY <1>1, <3>1 DEF StartCheck, knownVars, launchVars, countVars, ControlTypes, Processes
  <2> QED
    BY <1>1, <2>1, <2>2 DEF StartCheck
<1>2. CASE Spawn(t)
  <2>1. PICK p \in Pids : Popen(p) /\ child' = p /\ managed' = p
    BY <1>2 DEF Spawn
  <2>2. pc' \in [Threads -> Places] /\ Lock'
    BY <1>2, GoOn DEF Spawn, Inside, Looking
  <2>3. Processes' /\ child' \in Pid /\ managed' \in Pid
    BY <2>1 DEF ControlTypes, Processes, Popen, Pid
  <2> QED
    BY <1>2, <2>2, <2>3 DEF Spawn, launchVars, countVars, ControlTypes
<1>3. CASE StartFails(t)
  <2>1. pc' \in [Threads -> Places] /\ Lock'
    BY <1>3, GoOut DEF StartFails, Inside, Looking, Places
  <2> QED
    BY <1>0, <1>3, <2>1 DEF StartFails, launchVars, countVars, ControlTypes, Processes
<1>4. CASE WritePid(t)
  <2>1. pc' \in [Threads -> Places] /\ Lock'
    BY <1>4, GoOut DEF WritePid, Inside, Looking, Places
  <2> QED
    BY <1>4, <2>1 DEF WritePid, launchVars, countVars, ControlTypes, Processes
<1>5. CASE StopCheck(t)
  <2>1. Found \in Pid
    BY FoundType
  <2>2. CASE Found = NoPid
    <3>1. /\ Go(t, after[t]) /\ pc[t] = "stopCheck" /\ holder' = NoThread
          /\ UNCHANGED <<proc, victim>> /\ after' = [after EXCEPT ![t] = "idle"]
      BY <1>5, <2>2 DEF StopCheck
    <3>2. pc' \in [Threads -> Places] /\ Lock'
      BY <1>0, <1>5, <3>1, GoOut DEF StopCheck, Inside, Looking
    <3> QED
      BY <1>5, <3>1, <3>2 DEF StopCheck, knownVars, launchVars, countVars, ControlTypes, Processes
  <2>3. CASE Found # NoPid
    <3>1. /\ Go(t, "wait") /\ pc[t] = "stopCheck" /\ UNCHANGED <<holder, after>>
          /\ \/ proc' = [proc EXCEPT ![Found] = IF @ = "starting" THEN "dead" ELSE "dying"]
             \/ UNCHANGED proc
          /\ victim' = [victim EXCEPT ![t] = Found]
      BY <1>5, <2>3 DEF StopCheck
    <3>2. pc' \in [Threads -> Places] /\ Lock'
      BY <1>5, <3>1, GoOn DEF StopCheck, Inside, Looking
    <3>3. Processes' /\ victim' \in [Threads -> Pid]
      BY <2>1, <3>1 DEF ControlTypes, Processes
    <3> QED
      BY <1>5, <3>1, <3>2, <3>3 DEF StopCheck, knownVars, launchVars, countVars, ControlTypes
  <2> QED
    BY <2>2, <2>3
<1>6. CASE StopDone(t)
  <2>1. pc' \in [Threads -> Places] /\ Lock'
    BY <1>0, <1>6, GoOut DEF StopDone, Inside, Looking
  <2> QED
    BY <1>0, <1>6, <2>1 DEF StopDone, Forget, launchVars, countVars, ControlTypes, Processes
<1>7. CASE StopFails(t)
  <2>1. /\ pc' \in [Threads -> Places] /\ Lock'
        /\ after' \in [Threads -> {"idle", "start", "load"}]
    <3>1. CASE Raise(t)
      BY <1>7, <3>1, RaiseTypes DEF StopFails
    <3>2. CASE holder' = NoThread /\ Go(t, after[t]) /\ after' = [after EXCEPT ![t] = "idle"]
      BY <1>0, <1>7, <3>2, GoOut DEF StopFails, Inside, Looking, ControlTypes
    <3> QED
      BY <1>7, <3>1, <3>2 DEF StopFails
  <2> QED
    BY <1>0, <1>7, <2>1 DEF StopFails, Forget, launchVars, countVars, ControlTypes, Processes
<1>8. CASE Unset(t)
  <2>1. pending' \in [Threads -> {"nothing", "unset", "clear"}]
    BY <1>8 DEF Unset, ControlTypes
  <2>2. /\ pc' \in [Threads -> Places] /\ Lock'
        /\ after' \in [Threads -> {"idle", "start", "load"}]
    <3>0. pending[t] = "unset" /\ \A u \in Threads \ {t} : pending'[u] = pending[u]
      BY <1>8 DEF Unset, ControlTypes
    <3>1. CASE Raise(t)
      BY <3>0, <3>1, RaiseTypes
    <3>2. CASE UNCHANGED <<holder, pc, after>>
      BY <3>0, <3>2 DEF ControlTypes, Lock
    <3> QED
      BY <1>8, <3>1, <3>2 DEF Unset
  <2>3. child' \in Pid /\ managed' \in Pid /\ pidFile' \in Pid
    BY <1>0, <1>8 DEF Unset, Forget, knownVars, ControlTypes
  <2> QED
    BY <1>8, <2>1, <2>2, <2>3 DEF Unset, launchVars, countVars, ControlTypes, Processes
<1>9. CASE Clear(t)
  BY <1>0, <1>9 DEF Clear, launchVars, countVars, ControlTypes, Processes, Lock
<1>10. CASE Enter(t)
  <2>1. PICK next \in {"startCheck", "stopCheck"} : Go(t, next)
    BY <1>10 DEF Enter
  <2>3. /\ managed' \in Pid /\ pending' \in [Threads -> {"nothing", "unset", "clear"}]
        /\ \A u \in Threads \ {t} : pending'[u] = pending[u]
    BY <1>10, LookType DEF Enter
  <2>2. pc' \in [Threads -> Places] /\ Lock'
    BY <1>10, <2>1, <2>3, GoIn DEF Enter, Inside, Looking
  <2> QED
    BY <1>10, <2>2, <2>3 DEF Enter, launchVars, countVars, ControlTypes, Processes
<1> QED
  BY <1>1, <1>2, <1>3, <1>4, <1>5, <1>6, <1>7, <1>8, <1>9, <1>10 DEF Serve

\* A status or another request keeps them.
LEMMA RequestTypes ==
  ASSUME ControlTypes, NEW t \in Threads, Status(t) \/ Request(t)
  PROVE  ControlTypes'
<1>1. CASE Status(t)
  <2>1. /\ managed' \in Pid /\ pending' \in [Threads -> {"nothing", "unset", "clear"}]
        /\ \A u \in Threads \ {t} : pending'[u] = pending[u]
    BY <1>1, LookType DEF Status
  <2>2. Lock'
    BY <1>1, <2>1 DEF Status, ControlTypes, Lock, Looking
  <2> QED
    BY <1>1, <2>1, <2>2 DEF Status, launchVars, countVars, ControlTypes, Processes
<1>2. CASE Request(t)
  <2>1. requests' \in 0..MaxRequests
    BY <1>2, BoundsAssumption DEF Request, Ask, ControlTypes
  <2>2. PICK next \in {"start", "stop"} : Go(t, next)
    BY <1>2 DEF Request
  <2>3. pc' \in [Threads -> Places] /\ Lock'
    BY <1>2, <2>2, GoOutside DEF Request, Places, Inside
  <2>4. after' \in [Threads -> {"idle", "start", "load"}]
    BY <1>2 DEF Request, ControlTypes
  <2> QED
    BY <1>2, <2>1, <2>3, <2>4 DEF Request, knownVars, launchVars, ControlTypes, Processes
<1> QED
  BY <1>1, <1>2

\* The launcher, the parser's process and the console's end keep them.
LEMMA OtherTypes ==
  ASSUME ControlTypes, Launch \/ (\E p \in Pids : ParserProcess(p)) \/ ConsoleDies
  PROVE  ControlTypes'
<1>1. CASE LaunchCheck
  BY <1>1, BoundsAssumption DEF LaunchCheck, Ask, threadVars, ControlTypes, Processes, Lock, Pid
<1>2. CASE LaunchSpawn
  BY <1>2 DEF LaunchSpawn, Popen, knownVars, threadVars, countVars, ControlTypes, Processes, Lock, Pid
<1>3. CASE LaunchWrite
  BY <1>3 DEF LaunchWrite, threadVars, countVars, ControlTypes, Processes, Lock, Pid
<1>4. CASE \E p \in Pids : ParserProcess(p)
  <2>1. PICK p \in Pids : ParserProcess(p)
    BY <1>4
  <2>2. Processes' /\ UNCHANGED <<knownVars, threadVars, launchVars, countVars>>
    BY <2>1 DEF ParserProcess, OpenStores, ServeHealth, ProcessDies, ControlTypes, Processes
  <2> QED
    BY <2>2 DEF knownVars, threadVars, launchVars, countVars, ControlTypes, Lock
<1>5. CASE ConsoleDies
  BY <1>5, BoundsAssumption, NoThreadAssumption
  DEF ConsoleDies, launchVars, ControlTypes, Processes, Lock, Pid, Places, Inside
<1> QED
  BY <1>1, <1>2, <1>3, <1>4, <1>5 DEF Launch

\* The end of an import leads out of it.
LEMMA RestoreTypes ==
  ASSUME ControlTypes, UpdateTypes, NEW t \in Threads, Restore(t), pc[t] \notin Inside \cup Looking, UNCHANGED <<holder, pending>>
  PROVE  /\ pc' \in [Threads -> Places] /\ Lock'
         /\ UpdateTypes'
         /\ pc' = [pc EXCEPT ![t] = pc'[t]] /\ pc'[t] \in {"idle", "start"}
<1>1. PICK next \in {"idle", "start"} : Go(t, next)
  BY DEF Restore
<1>2. pc' \in [Threads -> Places] /\ Lock'
  BY <1>1, GoOutside DEF Places, Inside
<1>3. UpdateTypes'
  BY DEF Restore, UpdateTypes
<1>4. pc' = [pc EXCEPT ![t] = pc'[t]] /\ pc'[t] = next
  BY <1>1 DEF Go, ControlTypes
<1> QED
  BY <1>1, <1>2, <1>3, <1>4

\* An import changes of the control state only where its thread is.
LEMMA ImportTypes ==
  ASSUME ControlTypes, StoreTypes, UpdateTypes, NEW t \in Threads, Import(t)
  PROVE  ControlTypes' /\ StoreTypes' /\ UpdateTypes'
<1>0. ASSUME UNCHANGED unmovedByThread, pc' \in [Threads -> Places] /\ Lock'
      PROVE  ControlTypes'
  BY <1>0 DEF unmovedByThread, knownVars, launchVars, countVars, ControlTypes, Processes
<1>1. CASE LoadRefused(t)
  <2>1. /\ UNCHANGED unmovedByThread /\ UNCHANGED storeVars /\ Restore(t)
        /\ pc[t] \notin Inside \cup Looking /\ UNCHANGED <<holder, pending>>
    BY <1>1 DEF LoadRefused, unmovedByThread, knownVars, launchVars, countVars, Inside, Looking
  <2>2. /\ pc' \in [Threads -> Places] /\ Lock' /\ UpdateTypes'
        /\ pc' = [pc EXCEPT ![t] = pc'[t]] /\ pc'[t] \in {"idle", "start"}
    BY <2>1, RestoreTypes
  <2>3. StoreTypes'
    BY <2>1, <2>2 DEF StoreTypes, storeVars, diskVars, Swapping, ControlTypes
  <2> QED
    BY <1>0, <2>1, <2>2, <2>3
<1>2. CASE Load(t)
  <2>1. pc' \in [Threads -> Places] /\ Lock'
    BY <1>2, GoOutside DEF Load, unmovedByThread, knownVars, launchVars, countVars, Places, Inside, Looking
  <2>2. StoreTypes' /\ UpdateTypes'
    BY <1>2 DEF Load, Go, StoreTypes, UpdateTypes, storeVars, diskVars, updateVars, Swapping, ControlTypes
  <2> QED
    BY <1>0, <1>2, <2>1, <2>2 DEF Load
<1>3. CASE Build(t)
  <2>1. pc' \in [Threads -> Places] /\ Lock'
    BY <1>3, GoOutside DEF Build, unmovedByThread, knownVars, launchVars, countVars, Places, Inside, Looking
  <2>2. PICK b \in Builds : b \notin built /\ build' = [build EXCEPT ![t] = b] /\ built' = built \cup {b}
    <3> DEFINE b == CHOOSE x \in Builds : x \notin built
    <3>1. \E x \in Builds : x \notin built
      BY <1>3 DEF Build, StoreTypes
    <3>2. b \in Builds /\ b \notin built
      BY <3>1
    <3>3. build' = [build EXCEPT ![t] = b] /\ built' = built \cup {b}
      BY <1>3 DEF Build
    <3> QED
      BY <3>2, <3>3
  <2>3. StoreTypes' /\ UpdateTypes'
    BY <1>3, <2>2 DEF Build, Go, StoreTypes, UpdateTypes, updateVars, Swapping, ControlTypes, Stores
  <2> QED
    BY <1>0, <1>3, <2>1, <2>3 DEF Build
<1>4. CASE BuildFails(t)
  <2>1. /\ UNCHANGED unmovedByThread /\ UNCHANGED storeVars /\ Restore(t)
        /\ pc[t] \notin Inside \cup Looking /\ UNCHANGED <<holder, pending>>
    BY <1>4 DEF BuildFails, unmovedByThread, knownVars, launchVars, countVars, Inside, Looking
  <2>2. /\ pc' \in [Threads -> Places] /\ Lock' /\ UpdateTypes'
        /\ pc' = [pc EXCEPT ![t] = pc'[t]] /\ pc'[t] \in {"idle", "start"}
    BY <2>1, RestoreTypes
  <2>3. StoreTypes'
    BY <2>1, <2>2 DEF StoreTypes, storeVars, diskVars, Swapping, ControlTypes
  <2> QED
    BY <1>0, <2>1, <2>2, <2>3
<1>5. ASSUME NEW n \in BackupNames, MoveAway(t, n)
      PROVE  ControlTypes' /\ StoreTypes' /\ UpdateTypes'
  <2>1. pc' \in [Threads -> Places] /\ Lock'
    BY <1>5, GoOutside DEF MoveAway, unmovedByThread, knownVars, launchVars, countVars, Places, Inside, Looking
  <2>2. sameSecond' \in BOOLEAN
    BY <1>5 DEF MoveAway
  <2>3. /\ target' \in Stores /\ backups' \in [BackupNames -> Stores]
        /\ backupName' \in [Threads -> BackupNames \cup {NoName}]
    BY <1>5 DEF MoveAway, StoreTypes, Stores
  <2>4. \A u \in Threads : Swapping(u)' => backupName'[u] \in BackupNames
    BY <1>5 DEF MoveAway, Go, StoreTypes, Swapping, ControlTypes
  <2>5. StoreTypes' /\ UpdateTypes'
    BY <1>5, <2>2, <2>3, <2>4 DEF MoveAway, StoreTypes, UpdateTypes, updateVars
  <2> QED
    BY <1>0, <1>5, <2>1, <2>5 DEF MoveAway
<1>6. CASE MoveAwayFails(t)
  <2>1. /\ UNCHANGED unmovedByThread /\ Restore(t)
        /\ pc[t] \notin Inside \cup Looking /\ UNCHANGED <<holder, pending>>
    BY <1>6 DEF MoveAwayFails, unmovedByThread, knownVars, launchVars, countVars, Inside, Looking
  <2>2. /\ pc' \in [Threads -> Places] /\ Lock' /\ UpdateTypes'
        /\ pc' = [pc EXCEPT ![t] = pc'[t]] /\ pc'[t] \in {"idle", "start"}
    BY <2>1, RestoreTypes
  <2>3. StoreTypes'
    BY <1>6, <2>2 DEF MoveAwayFails, StoreTypes, Swapping, ControlTypes, Stores
  <2> QED
    BY <1>0, <2>1, <2>2, <2>3
<1>7. CASE MoveIn(t)
  <2>1. pc' \in [Threads -> Places] /\ Lock'
    BY <1>7, GoOutside DEF MoveIn, unmovedByThread, knownVars, launchVars, countVars, Places, Inside, Looking
  <2>2. StoreTypes' /\ UpdateTypes'
    BY <1>7 DEF MoveIn, Go, StoreTypes, UpdateTypes, updateVars, Swapping, ControlTypes
  <2> QED
    BY <1>0, <1>7, <2>1, <2>2 DEF MoveIn
<1>8. CASE MoveInFails(t)
  <2>1. /\ UNCHANGED unmovedByThread /\ Restore(t)
        /\ pc[t] \notin Inside \cup Looking /\ UNCHANGED <<holder, pending>>
    BY <1>8 DEF MoveInFails, unmovedByThread, knownVars, launchVars, countVars, Inside, Looking
  <2>2. /\ pc' \in [Threads -> Places] /\ Lock' /\ UpdateTypes'
        /\ pc' = [pc EXCEPT ![t] = pc'[t]] /\ pc'[t] \in {"idle", "start"}
    BY <2>1, RestoreTypes
  <2>3. backupName[t] \in BackupNames
    BY <1>8 DEF MoveInFails, StoreTypes, Swapping
  <2>4. target' \in Stores /\ backups' \in [BackupNames -> Stores]
    BY <1>8, <2>3 DEF MoveInFails, RollBack, StoreTypes, Stores
  <2>5. StoreTypes'
    BY <1>8, <2>2, <2>4 DEF MoveInFails, StoreTypes, Swapping, ControlTypes, Stores
  <2> QED
    BY <1>0, <2>1, <2>2, <2>5
<1>9. CASE Discard(t)
  <2>1. /\ UNCHANGED unmovedByThread /\ Restore(t)
        /\ pc[t] \notin Inside \cup Looking /\ UNCHANGED <<holder, pending>>
    BY <1>9 DEF Discard, unmovedByThread, knownVars, launchVars, countVars, Inside, Looking
  <2>2. /\ pc' \in [Threads -> Places] /\ Lock' /\ UpdateTypes'
        /\ pc' = [pc EXCEPT ![t] = pc'[t]] /\ pc'[t] \in {"idle", "start"}
    BY <2>1, RestoreTypes
  <2>3. StoreTypes'
    BY <1>9, <2>2 DEF Discard, StoreTypes, Swapping, ControlTypes, Stores
  <2> QED
    BY <1>0, <2>1, <2>2, <2>3
<1> QED
  BY <1>1, <1>2, <1>3, <1>4, <1>5, <1>6, <1>7, <1>8, <1>9 DEF Import

-----------------------------------------------------------------------------
(* Steps that leave the stores and the swaps alone                         *)

Busy == {"moveAway", "moveIn", "discard"}

Quiet ==
    /\ UNCHANGED <<target, backups, backupName, build, built, sameSecond, consoleDeaths>>
    /\ \A u \in Threads : pc[u] \in Busy \/ pc'[u] \in Busy => pc'[u] = pc[u]

Swap(t) ==
    \/ Build(t) \/ \E n \in BackupNames : MoveAway(t, n)
    \/ MoveAwayFails(t) \/ MoveIn(t) \/ MoveInFails(t) \/ Discard(t)

\* A step of one thread is quiet if it neither leaves nor enters a swap.
LEMMA ThreadQuiet ==
  ASSUME ControlTypes, NEW t \in Threads, NEW next \in Places \ Busy, Go(t, next), pc[t] \notin Busy,
         UNCHANGED <<target, backups, backupName, build, built, sameSecond, consoleDeaths>>
  PROVE  Quiet
  BY DEF Quiet, Go, ControlTypes

\* Start and stop are quiet.
LEMMA ServeQuiet ==
  ASSUME ControlTypes, NEW t \in Threads, Serve(t) \/ Request(t) \/ Status(t), UNCHANGED diskVars
  PROVE  Quiet
<1>0. after[t] \in Places \ Busy
  BY DEF ControlTypes, Places, Busy
<1>1. UNCHANGED <<target, backups, backupName, build, built, sameSecond, consoleDeaths>>
  BY DEF diskVars, countVars, Serve, Unset, Clear, Enter, StartCheck, Spawn, StartFails, WritePid, StopCheck,
         StopDone, StopFails, Request, Status
<1>2. CASE UNCHANGED pc
  BY <1>1, <1>2 DEF Quiet
<1>3. CASE Unset(t) /\ Go(t, "idle")
  <2>1. pc[t] \notin Busy
    BY <1>3 DEF Unset, ControlTypes, Lock, Looking, Busy
  <2> QED
    BY <1>1, <1>3, <2>1, ThreadQuiet DEF Places, Busy
<1>4. CASE Request(t) \/ Enter(t) \/ StartCheck(t) \/ Spawn(t) \/ StartFails(t) \/ WritePid(t)
           \/ StopCheck(t) \/ StopDone(t) \/ StopFails(t)
  <2>1. pc[t] \notin Busy
    BY <1>4 DEF Request, Enter, StartCheck, Spawn, StartFails, WritePid, StopCheck, StopDone, StopFails, Busy
  <2>2. \E next \in Places \ Busy : Go(t, next)
    BY <1>0, <1>4
    DEF Request, Enter, StartCheck, Spawn, StartFails, WritePid, StopCheck, StopDone, StopFails, Raise, Places, Busy
  <2> QED
    BY <1>1, <2>1, <2>2, ThreadQuiet
<1> QED
  BY <1>2, <1>3, <1>4 DEF Serve, Status, Clear, Unset, Raise

\* A step is one of a swap, the console's end, or quiet.
LEMMA KindsOfSteps ==
  ASSUME ControlTypes, Act
  PROVE  (\E t \in Threads : Swap(t)) \/ ConsoleEnds \/ Quiet
<1>1. ASSUME NEW t \in Threads, UpdateBegin(t) \/ UpdateCheck(t) PROVE Quiet
  <2>1. PICK next \in {"idle", "stop", "load", "updateCheck"} : Go(t, next)
    BY <1>1 DEF UpdateBegin, UpdateCheck
  <2> QED
    BY <1>1, <2>1, ThreadQuiet DEF UpdateBegin, UpdateCheck, storeVars, diskVars, countVars, Places, Busy
<1>2. ASSUME NEW t \in Threads, Import(t) PROVE Swap(t) \/ Quiet
  <2>1. CASE LoadRefused(t) \/ BuildFails(t)
    <3>1. PICK next \in {"idle", "start"} : Go(t, next)
      BY <2>1 DEF LoadRefused, BuildFails, Restore
    <3> QED
      BY <2>1, <3>1, ThreadQuiet DEF LoadRefused, BuildFails, storeVars, diskVars, unmovedByThread, knownVars, launchVars, countVars, Places, Busy
  <2>2. CASE Load(t)
    BY <2>2, ThreadQuiet DEF Load, storeVars, diskVars, unmovedByThread, knownVars, launchVars, countVars, Places, Busy
  <2> QED
    BY <1>2, <2>1, <2>2 DEF Import, Swap
<1>3. ASSUME NEW t \in Threads,
             \/ Controlled(t)
             \/ (Status(t) \/ Request(t)) /\ UNCHANGED <<storeVars, updateVars>>
      PROVE  Quiet
  BY <1>3, ServeQuiet DEF Controlled, storeVars
<1>4. ASSUME NEW p \in Pids,
             \/ Open(p)
             \/ (ServeHealth(p) \/ ProcessDies(p)) /\ UNCHANGED <<diskVars, updateVars>>
      PROVE  Quiet
  BY <1>4 DEF Open, OpenStores, ServeHealth, ProcessDies, diskVars, threadVars, countVars, Quiet
<1>5. CASE Launch /\ UNCHANGED <<storeVars, updateVars>>
  BY <1>5 DEF Launch, LaunchCheck, LaunchSpawn, LaunchWrite, storeVars, diskVars, threadVars, countVars, Quiet
<1> QED
  BY <1>1, <1>2, <1>3, <1>4, <1>5 DEF Act

-----------------------------------------------------------------------------
(* Type correctness                                                        *)

\* The initial state is well typed.
LEMMA TypesInit == Init => Types
<1> SUFFICES ASSUME Init PROVE Types
  OBVIOUS
<1>1. ControlTypes
  BY NoThreadAssumption, BoundsAssumption
  DEF Init, ControlInit, ControlTypes, Processes, Lock, Inside, Places, Pid
<1>2. StoreTypes
  BY NoStoreAssumption DEF Init, ControlInit, StoreTypes, Stores, Swapping
<1>3. UpdateTypes /\ GhostTypes
  BY DEF Init, ControlInit, UpdateTypes, GhostTypes
<1> QED
  BY <1>1, <1>2, <1>3 DEF Types

\* Every step keeps the types of the control state.
LEMMA ControlTypesStep ==
  ASSUME Types, Act
  PROVE  ControlTypes' /\ UpdateTypes'
<1>0. ControlTypes /\ UpdateTypes /\ StoreTypes
  BY DEF Types
<1>1. ASSUME NEW t \in Threads, UpdateCheck(t) PROVE ControlTypes' /\ UpdateTypes'
  <2>1. PICK reachable \in Answers :
          IF Refused(reachable)
          THEN Go(t, "idle") /\ UNCHANGED <<after, updateVars>>
          ELSE /\ updating' = updating \cup {t}
               /\ running' = [running EXCEPT ![t] = reachable]
               /\ after' = [after EXCEPT ![t] = IF reachable THEN "load" ELSE "idle"]
               /\ Go(t, IF reachable THEN "stop" ELSE "load")
    BY <1>1 DEF UpdateCheck
  <2>2. PICK next \in {"idle", "stop", "load"} : Go(t, next)
    BY <2>1
  <2>3. pc' \in [Threads -> Places] /\ Lock'
    BY <1>0, <1>1, <2>2, GoOutside DEF UpdateCheck, Places, Inside
  <2>4. reachable \in BOOLEAN
    BY DEF Answers, Reachable
  <2>5. after' \in [Threads -> {"idle", "start", "load"}]
    BY <1>0, <2>1 DEF ControlTypes
  <2>6. ControlTypes'
    BY <1>0, <1>1, <2>3, <2>5 DEF UpdateCheck, knownVars, launchVars, countVars, ControlTypes, Processes
  <2>7. UpdateTypes'
    BY <1>0, <2>1, <2>4 DEF UpdateTypes, updateVars
  <2> QED
    BY <2>6, <2>7
<1>9. ASSUME NEW t \in Threads, UpdateBegin(t) PROVE ControlTypes' /\ UpdateTypes'
  <2>1. /\ managed' \in Pid /\ pending' \in [Threads -> {"nothing", "unset", "clear"}]
        /\ \A u \in Threads \ {t} : pending'[u] = pending[u]
    BY <1>0, <1>9, LookType DEF UpdateBegin
  <2>2. pc' \in [Threads -> Places] /\ Lock'
    BY <1>0, <1>9, <2>1 DEF UpdateBegin, Go, ControlTypes, Lock, Inside, Looking, Places
  <2>3. requests' \in 0..MaxRequests
    BY <1>0, <1>9, BoundsAssumption DEF UpdateBegin, Ask, ControlTypes
  <2> QED
    BY <1>0, <1>9, <2>1, <2>2, <2>3 DEF UpdateBegin, launchVars, ControlTypes, Processes, UpdateTypes, updateVars
<1>2. ASSUME NEW t \in Threads, Import(t) PROVE ControlTypes' /\ UpdateTypes'
  BY <1>0, <1>2, ImportTypes
<1>3. ASSUME NEW t \in Threads, Controlled(t) PROVE ControlTypes' /\ UpdateTypes'
  BY <1>0, <1>3, ServeTypes DEF Controlled, UpdateTypes
<1>4. ASSUME NEW t \in Threads, Status(t) \/ Request(t), UNCHANGED updateVars
      PROVE  ControlTypes' /\ UpdateTypes'
  BY <1>0, <1>4, RequestTypes DEF UpdateTypes, updateVars
<1>5. ASSUME NEW p \in Pids, ParserProcess(p), UNCHANGED updateVars
      PROVE  ControlTypes' /\ UpdateTypes'
  BY <1>0, <1>5, OtherTypes DEF UpdateTypes, updateVars
<1>6. CASE Launch /\ UNCHANGED updateVars
  BY <1>0, <1>6, OtherTypes DEF UpdateTypes, updateVars
<1>7. CASE ConsoleEnds
  BY <1>0, <1>7, OtherTypes DEF ConsoleEnds, UpdateTypes
<1>8. ASSUME NEW p \in Pids, Open(p) PROVE ParserProcess(p) /\ UNCHANGED updateVars
  BY <1>8 DEF Open, ParserProcess, updateVars
<1> QED
  BY <1>1, <1>2, <1>3, <1>4, <1>5, <1>6, <1>7, <1>8, <1>9 DEF Act, ParserProcess, updateVars

\* Every step keeps the types of the stores.
LEMMA StoreTypesStep ==
  ASSUME Types, Act
  PROVE  StoreTypes'
<1>0. ControlTypes /\ UpdateTypes /\ StoreTypes
  BY DEF Types
<1>1. CASE \E t \in Threads : Swap(t)
  BY <1>0, <1>1, ImportTypes DEF Swap, Import
<1>2. CASE ConsoleEnds
  BY <1>0, <1>2 DEF ConsoleEnds, ConsoleDies, StoreTypes, Swapping, Stores
<1>3. CASE Quiet
  <2>1. view' \in [Pids -> Stores \cup {Unopened}]
    <3>1. CASE \E p \in Pids : Open(p)
      BY <1>0, <3>1 DEF Open, StoreTypes, Stores
    <3>2. CASE UNCHANGED view
      BY <1>0, <3>2 DEF StoreTypes
    <3>4. CASE Views
      BY <1>0, <3>4 DEF Views, StoreTypes, Stores
    <3>3. (\E p \in Pids : Open(p)) \/ UNCHANGED view \/ Views
      BY DEF Act, UpdateBegin, UpdateCheck, Import, LoadRefused, Load, Build, BuildFails, MoveAway, MoveAwayFails,
             MoveIn, MoveInFails, Discard, Controlled, ConsoleEnds, storeVars, diskVars
    <3> QED
      BY <3>1, <3>2, <3>3, <3>4
  <2> QED
    BY <1>0, <1>3, <2>1 DEF Quiet, StoreTypes, Swapping, Busy
<1> QED
  BY <1>0, <1>1, <1>2, <1>3, KindsOfSteps

\* Every step keeps the types.
LEMMA TypesStep == Types /\ [Next]_vars => Types'
<1> SUFFICES ASSUME Types, [Next]_vars PROVE Types'
  OBVIOUS
<1>1. CASE Next
  <2>1. Act /\ raced' \in BOOLEAN /\ overlap' \in BOOLEAN
    BY <1>1 DEF Next, Race, Overlap
  <2> QED
    BY <2>1, ControlTypesStep, StoreTypesStep DEF Types, GhostTypes
<1>2. CASE UNCHANGED vars
  BY <1>2 DEF vars, controlVars, knownVars, threadVars, launchVars, countVars, storeVars, diskVars, updateVars, Types, ControlTypes, Processes, Lock,
              StoreTypes, Swapping, UpdateTypes, GhostTypes
<1> QED
  BY <1>1, <1>2

\* The types are always right.
LEMMA TypesHold == Spec => []Types
  BY TypesInit, TypesStep, PTL DEF Spec

\* The variables keep their types, and the controller's lock is held exactly
\* between the check and the end of a start or stop.  (main.py:351-445)
THEOREM TypeCorrect == Spec => []TypeOK
<1>1. Types => TypeOK
  BY DEF Types, ControlTypes, Processes, Lock, Inside, Places, StoreTypes, UpdateTypes, GhostTypes, TypeOK
<1> QED
  BY <1>1, TypesHold, PTL

-----------------------------------------------------------------------------
(* A store is in one place only                                            *)

Carrying(t) == pc[t] \in {"moveAway", "moveIn"}

\* Where the built stores are: at the target, in a backup, or on their way.
Placed ==
    /\ target \in built \cup {NoStore}
    /\ \A n \in BackupNames : backups[n] \in built \cup {NoStore}
    /\ \A t \in Threads : Carrying(t) => build[t] \in built

Apart ==
    /\ \A t \in Threads : Carrying(t) =>
        build[t] # target /\ \A n \in BackupNames : backups[n] # build[t]
    /\ \A t, u \in Threads : t # u /\ Carrying(t) /\ Carrying(u) => build[t] # build[u]

PlaceInv == Placed /\ Apart /\ StoresAreDistinct

\* Initially there is one store.
LEMMA PlaceInit == Init => PlaceInv
  BY NoStoreAssumption DEF Init, ControlInit, PlaceInv, Placed, Apart, StoresAreDistinct, Carrying

\* Where a thread is after the end of its import.
LEMMA RestoreGoes ==
  ASSUME ControlTypes, NEW t \in Threads, Restore(t)
  PROVE  pc'[t] \in {"idle", "start"} /\ \A u \in Threads \ {t} : pc'[u] = pc[u]
  BY DEF Restore, Go, ControlTypes

\* Every step of a swap preserves the places.
LEMMA SwapKeepsPlaces ==
  ASSUME Types, PlaceInv, NEW t \in Threads, Swap(t)
  PROVE  PlaceInv'
<1> USE NoStoreAssumption
<1>0. /\ ControlTypes /\ StoreTypes /\ Placed /\ Apart /\ StoresAreDistinct
      /\ NoStore \notin built
  BY DEF Types, PlaceInv, StoreTypes
<1>1. CASE Build(t)
  <2>1. PICK b \in Builds : b \notin built /\ build' = [build EXCEPT ![t] = b] /\ built' = built \cup {b}
    <3> DEFINE b == CHOOSE x \in Builds : x \notin built
    <3>1. \E x \in Builds : x \notin built
      BY <1>0, <1>1 DEF Build, StoreTypes
    <3>2. b \in Builds /\ b \notin built
      BY <3>1
    <3>3. build' = [build EXCEPT ![t] = b] /\ built' = built \cup {b}
      BY <1>1 DEF Build
    <3> QED
      BY <3>2, <3>3
  <2>2. UNCHANGED <<target, backups>> /\ pc' = [pc EXCEPT ![t] = "moveAway"] /\ pc[t] = "build"
    BY <1>1 DEF Build, Go
  <2>3. Placed'
    BY <1>0, <2>1, <2>2 DEF Placed, Carrying, ControlTypes, StoreTypes
  <2>4. Apart'
    BY <1>0, <2>1, <2>2 DEF Placed, Apart, Carrying, ControlTypes, StoreTypes
  <2>5. StoresAreDistinct'
    BY <1>0, <2>2 DEF StoresAreDistinct
  <2> QED
    BY <2>3, <2>4, <2>5 DEF PlaceInv
<1>2. ASSUME NEW n \in BackupNames, MoveAway(t, n) PROVE PlaceInv'
  <2>1. /\ UNCHANGED <<build, built>> /\ pc' = [pc EXCEPT ![t] = "moveIn"] /\ pc[t] = "moveAway"
        /\ target # NoStore => backups[n] = NoStore
        /\ backups' = IF target = NoStore THEN backups ELSE [backups EXCEPT ![n] = target]
        /\ target' = NoStore
    BY <1>2 DEF MoveAway, Go
  <2>2. \A u \in Threads : Carrying(u)' <=> Carrying(u)
    BY <1>0, <2>1 DEF Carrying, ControlTypes
  <2>3. Placed'
    BY <1>0, <2>1, <2>2 DEF Placed, StoreTypes
  <2>4. Apart'
    BY <1>0, <2>1, <2>2 DEF Placed, Apart, StoreTypes
  <2>5. StoresAreDistinct'
    BY <1>0, <2>1 DEF StoresAreDistinct, StoreTypes
  <2> QED
    BY <2>3, <2>4, <2>5 DEF PlaceInv
<1>3. CASE MoveAwayFails(t)
  <2>1. /\ UNCHANGED <<target, backups, built>> /\ build' = [build EXCEPT ![t] = NoStore]
        /\ pc'[t] \in {"idle", "start"} /\ \A u \in Threads \ {t} : pc'[u] = pc[u]
    BY <1>0, <1>3, RestoreGoes DEF MoveAwayFails
  <2>2. Placed' /\ Apart'
    BY <1>0, <2>1 DEF Placed, Apart, Carrying, StoreTypes
  <2>3. StoresAreDistinct'
    BY <1>0, <2>1 DEF StoresAreDistinct
  <2> QED
    BY <2>2, <2>3 DEF PlaceInv
<1>4. CASE MoveIn(t)
  <2>1. /\ UNCHANGED <<build, backups, built>> /\ pc' = [pc EXCEPT ![t] = "discard"] /\ pc[t] = "moveIn"
        /\ target' = build[t]
    BY <1>4 DEF MoveIn, Go
  <2>2. Carrying(t) /\ \A u \in Threads : Carrying(u)' <=> u # t /\ Carrying(u)
    BY <1>0, <2>1 DEF Carrying, ControlTypes
  <2>3. Placed'
    BY <1>0, <2>1, <2>2 DEF Placed
  <2>4. Apart'
    BY <1>0, <2>1, <2>2 DEF Apart
  <2>5. StoresAreDistinct'
    BY <1>0, <2>1, <2>2 DEF StoresAreDistinct, Apart
  <2> QED
    BY <2>3, <2>4, <2>5 DEF PlaceInv
<1>5. CASE MoveInFails(t)
  <2> DEFINE n == backupName[t]
  <2>1. /\ RollBack(t) /\ UNCHANGED built /\ build' = [build EXCEPT ![t] = NoStore]
        /\ pc'[t] \in {"idle", "start"} /\ \A u \in Threads \ {t} : pc'[u] = pc[u]
        /\ n \in BackupNames
    BY <1>0, <1>5, RestoreGoes DEF MoveInFails, StoreTypes, Swapping
  <2>2. \A u \in Threads : Carrying(u)' => u # t /\ Carrying(u) /\ build'[u] = build[u]
    BY <1>0, <2>1 DEF Carrying, StoreTypes
  <2>3. CASE target = NoStore /\ backups[n] # NoStore
    <3>1. target' = backups[n] /\ backups' = [backups EXCEPT ![n] = NoStore]
      BY <2>1, <2>3 DEF RollBack
    <3>2. Placed' /\ Apart'
      BY <1>0, <2>1, <2>2, <3>1 DEF Placed, Apart, StoreTypes
    <3>3. StoresAreDistinct'
      BY <1>0, <2>1, <3>1 DEF StoresAreDistinct, StoreTypes
    <3> QED
      BY <3>2, <3>3 DEF PlaceInv
  <2>4. CASE UNCHANGED <<target, backups>>
    <3>1. Placed' /\ Apart'
      BY <1>0, <2>1, <2>2, <2>4 DEF Placed, Apart
    <3>2. StoresAreDistinct'
      BY <1>0, <2>4 DEF StoresAreDistinct
    <3> QED
      BY <3>1, <3>2 DEF PlaceInv
  <2> QED
    BY <2>1, <2>3, <2>4 DEF RollBack
<1>6. CASE Discard(t)
  <2>1. /\ UNCHANGED <<target, built>> /\ build' = [build EXCEPT ![t] = NoStore]
        /\ backups' = [backups EXCEPT ![backupName[t]] = NoStore]
        /\ pc'[t] \in {"idle", "start"} /\ \A u \in Threads \ {t} : pc'[u] = pc[u]
    BY <1>0, <1>6, RestoreGoes DEF Discard
  <2>2. Placed' /\ Apart'
    BY <1>0, <2>1 DEF Placed, Apart, Carrying, StoreTypes
  <2>3. StoresAreDistinct'
    BY <1>0, <2>1 DEF StoresAreDistinct, StoreTypes
  <2> QED
    BY <2>2, <2>3 DEF PlaceInv
<1> QED
  BY <1>1, <1>2, <1>3, <1>4, <1>5, <1>6 DEF Swap

\* Every step preserves the places.
LEMMA PlaceStep == Types /\ PlaceInv /\ [Next]_vars => PlaceInv'
<1> SUFFICES ASSUME Types, PlaceInv, [Next]_vars PROVE PlaceInv'
  OBVIOUS
<1>1. CASE \E t \in Threads : Swap(t)
  BY <1>1, SwapKeepsPlaces
<1>2. CASE ConsoleEnds
  BY <1>2 DEF ConsoleEnds, ConsoleDies, PlaceInv, Placed, Apart, StoresAreDistinct, Carrying
<1>3. CASE Quiet
  BY <1>3 DEF Quiet, Busy, PlaceInv, Placed, Apart, StoresAreDistinct, Carrying
<1>4. CASE UNCHANGED vars
  BY <1>4 DEF vars, controlVars, threadVars, storeVars, diskVars, PlaceInv, Placed, Apart, StoresAreDistinct, Carrying
<1> QED
  BY <1>1, <1>2, <1>3, <1>4, KindsOfSteps DEF Next, Types

\* No store is ever in two places, however imports overlap, fail and roll back.
\* (reference_importer.py:98-105)
THEOREM PlacesAreDistinct == Spec => []StoresAreDistinct
<1>1. Types /\ PlaceInv /\ [Next]_vars => PlaceInv'
  BY PlaceStep
<1>2. PlaceInv => StoresAreDistinct
  BY DEF PlaceInv
<1> QED
  BY <1>1, <1>2, PlaceInit, TypesHold, PTL DEF Spec

-----------------------------------------------------------------------------
(* A store survives                                                        *)

NamesDiffer ==
    \A t, u \in Threads : t # u /\ Swapping(t) /\ Swapping(u) => backupName[t] # backupName[u]

\* Somebody will, or might have, put the backup back.
Recoverable ==
    \/ consoleDeaths > 0
    \/ \E t \in Threads : pc[t] = "moveIn" /\ backups[backupName[t]] # NoStore

\* There is a backup that no thread is about to throw away.
SafeBackup ==
    \E n \in BackupNames :
        backups[n] # NoStore /\ \A t \in Threads : pc[t] = "discard" => backupName[t] # n

SurvivalInv ==
    /\ ~sameSecond => NamesDiffer
    /\ ~sameSecond /\ target = NoStore => Recoverable /\ SafeBackup

\* Initially the target is there.
LEMMA SurvivalInit == Init => SurvivalInv
  BY NoStoreAssumption DEF Init, ControlInit, SurvivalInv, NamesDiffer, Swapping

\* A swap leaves the names of the others, and their places, alone.
LEMMA SwapIsLocal ==
  ASSUME Types, NEW t \in Threads, Swap(t)
  PROVE  \A u \in Threads \ {t} : pc'[u] = pc[u] /\ backupName'[u] = backupName[u]
<1>1. \A u \in Threads \ {t} : pc'[u] = pc[u]
  BY DEF Swap, Build, MoveAway, MoveAwayFails, MoveIn, MoveInFails, Discard, Restore, Go, Types, ControlTypes
<1>2. \A u \in Threads \ {t} : backupName'[u] = backupName[u]
  BY DEF Swap, Build, MoveAway, MoveAwayFails, MoveIn, MoveInFails, Discard, Types, StoreTypes
<1> QED
  BY <1>1, <1>2

\* Every step of a swap preserves the invariant.
LEMMA SwapKeepsAStore ==
  ASSUME Types, PlaceInv, SurvivalInv, NEW t \in Threads, Swap(t)
  PROVE  SurvivalInv'
<1> USE NoStoreAssumption
<1>0. /\ ControlTypes /\ StoreTypes
      /\ \A u \in Threads \ {t} : pc'[u] = pc[u] /\ backupName'[u] = backupName[u]
      /\ consoleDeaths' = consoleDeaths
  BY SwapIsLocal
  DEF Types, Swap, Build, MoveAway, MoveAwayFails, MoveIn, MoveInFails, Discard, unmovedByThread, knownVars, launchVars, countVars
<1>7. ASSUME sameSecond' = sameSecond, Swapping(t)' => Swapping(t) /\ backupName'[t] = backupName[t]
       PROVE  ~sameSecond' => NamesDiffer'
  BY <1>0, <1>7 DEF SurvivalInv, NamesDiffer, Swapping
<1>1. CASE Build(t)
  <2>1. /\ UNCHANGED <<target, backups, backupName, sameSecond>>
        /\ pc[t] = "build" /\ pc'[t] = "moveAway"
    BY <1>0, <1>1 DEF Build, Go, ControlTypes
  <2>2. ~sameSecond' => NamesDiffer'
    BY <1>7, <2>1 DEF Swapping
  <2>3. (Recoverable => Recoverable') /\ (SafeBackup => SafeBackup')
    BY <1>0, <2>1 DEF Recoverable, SafeBackup
  <2> QED
    BY <2>1, <2>2, <2>3 DEF SurvivalInv
<1>2. ASSUME NEW n \in BackupNames, MoveAway(t, n) PROVE SurvivalInv'
  <2>1. /\ pc[t] = "moveAway" /\ pc'[t] = "moveIn" /\ backupName'[t] = n
        /\ backups' = IF target = NoStore THEN backups ELSE [backups EXCEPT ![n] = target]
        /\ sameSecond' = (sameSecond \/ \E u \in Threads : Swapping(u) /\ backupName[u] = n)
    BY <1>0, <1>2 DEF MoveAway, Go, ControlTypes, StoreTypes
  <2>2. ~sameSecond' => ~sameSecond /\ \A u \in Threads : Swapping(u) => backupName[u] # n
    BY <2>1
  <2>3. ~sameSecond' => NamesDiffer'
    BY <1>0, <2>1, <2>2 DEF SurvivalInv, NamesDiffer, Swapping
  <2>4. CASE target = NoStore
    <3>1. backups' = backups
      BY <2>1, <2>4
    <3>2. (Recoverable => Recoverable') /\ (SafeBackup => SafeBackup')
      BY <1>0, <2>1, <3>1 DEF Recoverable, SafeBackup
    <3> QED
      BY <2>2, <2>3, <2>4, <3>2 DEF SurvivalInv
  <2>5. CASE target # NoStore
    <3>1. backups'[n] # NoStore
      BY <1>0, <2>1, <2>5 DEF StoreTypes
    <3>2. Recoverable'
      BY <2>1, <3>1 DEF Recoverable
    <3>3. ~sameSecond' => SafeBackup'
      BY <1>0, <2>1, <2>2, <3>1 DEF SafeBackup, Swapping
    <3> QED
      BY <2>3, <3>2, <3>3 DEF SurvivalInv
  <2> QED
    BY <2>4, <2>5
<1>3. CASE MoveAwayFails(t)
  <2>1. /\ UNCHANGED <<target, backups, backupName, sameSecond>>
        /\ pc[t] = "moveAway" /\ pc'[t] \in {"idle", "start"}
    BY <1>0, <1>3, RestoreGoes DEF MoveAwayFails
  <2>2. ~sameSecond' => NamesDiffer'
    BY <1>7, <2>1 DEF Swapping
  <2>3. (Recoverable => Recoverable') /\ (SafeBackup => SafeBackup')
    BY <1>0, <2>1 DEF Recoverable, SafeBackup
  <2> QED
    BY <2>1, <2>2, <2>3 DEF SurvivalInv
<1>4. CASE MoveIn(t)
  <2>1. /\ UNCHANGED <<backupName, sameSecond>> /\ target' = build[t]
        /\ pc[t] = "moveIn" /\ pc'[t] = "discard"
    BY <1>0, <1>4 DEF MoveIn, Go, ControlTypes
  <2>2. ~sameSecond' => NamesDiffer'
    BY <1>7, <2>1 DEF Swapping
  <2>3. target' # NoStore
    BY <2>1 DEF PlaceInv, Placed, Carrying, Types, StoreTypes
  <2> QED
    BY <2>2, <2>3 DEF SurvivalInv
<1>5. CASE MoveInFails(t)
  <2> DEFINE n == backupName[t]
  <2>1. /\ RollBack(t) /\ UNCHANGED sameSecond /\ n \in BackupNames
        /\ pc[t] = "moveIn" /\ pc'[t] \in {"idle", "start"}
    BY <1>0, <1>5, RestoreGoes DEF MoveInFails, StoreTypes, Swapping
  <2>2. ~sameSecond' => NamesDiffer'
    BY <1>7, <2>1 DEF Swapping
  <2>3. CASE target = NoStore /\ backups[n] # NoStore
    BY <2>1, <2>2, <2>3 DEF RollBack, SurvivalInv
  <2>4. CASE ~(target = NoStore /\ backups[n] # NoStore)
    <3>1. UNCHANGED <<target, backups>>
      BY <2>1, <2>4 DEF RollBack
    <3>2. target = NoStore => (Recoverable => Recoverable') /\ (SafeBackup => SafeBackup')
      BY <1>0, <2>1, <2>4, <3>1 DEF Recoverable, SafeBackup
    <3> QED
      BY <2>1, <2>2, <3>1, <3>2 DEF SurvivalInv
  <2> QED
    BY <2>3, <2>4
<1>6. CASE Discard(t)
  <2> DEFINE n == backupName[t]
  <2>1. /\ UNCHANGED <<target, sameSecond>> /\ backups' = [backups EXCEPT ![n] = NoStore]
        /\ pc[t] = "discard" /\ pc'[t] \in {"idle", "start"} /\ n \in BackupNames
    BY <1>0, <1>6, RestoreGoes DEF Discard, StoreTypes, Swapping
  <2>2. ~sameSecond' => NamesDiffer'
    BY <1>7, <2>1 DEF Swapping
  <2>3. ~sameSecond => \A u \in Threads \ {t} : Swapping(u) => backupName[u] # n
    BY <2>1 DEF SurvivalInv, NamesDiffer, Swapping
  <2>4. ~sameSecond /\ Recoverable => Recoverable'
    BY <1>0, <2>1, <2>3 DEF Recoverable, Swapping, StoreTypes
  <2>5. SafeBackup => SafeBackup'
    BY <1>0, <2>1 DEF SafeBackup, StoreTypes
  <2> QED
    BY <2>1, <2>2, <2>4, <2>5 DEF SurvivalInv
<1> QED
  BY <1>1, <1>2, <1>3, <1>4, <1>5, <1>6 DEF Swap

\* Every step preserves the invariant.
LEMMA SurvivalStep == Types /\ PlaceInv /\ SurvivalInv /\ [Next]_vars => SurvivalInv'
<1> SUFFICES ASSUME Types, PlaceInv, SurvivalInv, [Next]_vars PROVE SurvivalInv'
  OBVIOUS
<1>1. CASE \E t \in Threads : Swap(t)
  BY <1>1, SwapKeepsAStore
<1>2. CASE ConsoleEnds
  <2>1. /\ UNCHANGED <<target, backups, sameSecond>> /\ consoleDeaths' > 0
        /\ \A t \in Threads : pc'[t] = "idle"
    BY <1>2 DEF ConsoleEnds, ConsoleDies, Types, ControlTypes
  <2> QED
    BY <2>1 DEF SurvivalInv, NamesDiffer, Swapping, Recoverable, SafeBackup
<1>3. CASE Quiet
  BY <1>3 DEF Quiet, Busy, SurvivalInv, NamesDiffer, Swapping, Recoverable, SafeBackup
<1>4. CASE UNCHANGED vars
  BY <1>4 DEF vars, controlVars, threadVars, countVars, storeVars, diskVars, SurvivalInv, NamesDiffer, Swapping, Recoverable, SafeBackup
<1> QED
  BY <1>1, <1>2, <1>3, <1>4, KindsOfSteps DEF Next, Types

\* Unless two imports swap in the same second, there is a store at the target's
\* path whenever no swap is under way and no console has died in one, and
\* always one on the disk.  (reference_importer.py:98-105)
THEOREM AStoreSurvives == Spec => []StoreSurvives
<1>1. Types /\ PlaceInv /\ SurvivalInv /\ [Next]_vars => PlaceInv' /\ SurvivalInv'
  BY PlaceStep, SurvivalStep
<1>2. SurvivalInv => StoreSurvives
  BY DEF SurvivalInv, StoreSurvives, Recoverable, SafeBackup
<1> QED
  BY <1>1, <1>2, PlaceInit, SurvivalInit, TypesHold, PTL DEF Spec

-----------------------------------------------------------------------------
(* Every parser is known                                                   *)

\* No process but q lives.
Only(q) == \A p \in Pids : Alive(p) => p = q

\* Nothing is launched while the console starts or stops a parser, refreshes
\* or has a child; who starts or launches one finds that there is none, who
\* stops one waits for the only one, and what a refresh is about to clear is
\* dead, like everything else; the child is in the pid file but for the moment
\* before it is written there.
KnownFacts ==
    /\ launcher # "write" => launched = NoPid
    /\ launcher # "idle" =>
        holder = NoThread /\ child = NoPid /\ pidFile = NoPid /\ \A t \in Threads : Refreshed(t)
    /\ launcher = "spawn" => Only(NoPid)
    /\ \A p \in Pids : Alive(p) => p \in {child, pidFile, launched}
    /\ child # NoPid => Only(child)
    /\ Alive(child) => pidFile = child \/ \E t \in Threads : pc[t] = "writePid"
    /\ \A t \in Threads :
          /\ ~Refreshed(t) => Only(NoPid)
          /\ pc[t] \in {"startCheck", "stopCheck"} /\ Refreshed(t) => Only(managed)
          /\ pc[t] = "spawn" => Only(NoPid)
          /\ pc[t] = "writePid" => Only(child)
          /\ pc[t] = "wait" => Only(victim[t])

KnownInv == ~raced => KnownFacts

\* The launcher is idle, or nothing else goes on.
LaunchAlone ==
    launcher # "idle" => holder = NoThread /\ child = NoPid /\ \A t \in Threads : Refreshed(t)

\* What a step says of the race.
LEMMA RaceStep ==
  ASSUME Race, ~raced'
  PROVE  /\ ~raced
         /\ LaunchAlone'
         /\ \A t, u \in Threads : t # u /\ ~Refreshed(t)' => pc'[u] \notin {"spawn", "writePid"}
         /\ \A t \in Threads : pc[t] = "writePid" /\ pc'[t] # "writePid" => pidFile' = child' /\ child' = child
         /\ ~StopMissed
  BY DEF Race, LaunchAlone

\* There is no process without a pid.
LEMMA NoPidIsDead == ~Alive(NoPid) /\ (Only(NoPid) => \A p : ~Alive(p))
  BY NoPidAssumption DEF Alive, Only

\* Where no process lives, little is left to say.
LEMMA NoneLives ==
  ASSUME \A p : ~Alive(p)',
         launcher' # "write" => launched' = NoPid,
         LaunchAlone', launcher' # "idle" => pidFile' = NoPid
  PROVE  KnownFacts'
  BY DEF KnownFacts, LaunchAlone, Only

\* A refresh finds the only process there is; if it finds one dead, none lives.
LEMMA LookKnown ==
  ASSUME ControlTypes, KnownFacts, NEW t \in Threads, Refreshed(t), Look(t),
         UNCHANGED <<proc, child, pidFile, launcher, launched>>, LaunchAlone'
  PROVE  /\ \A p : Alive(p)' <=> Alive(p)
         /\ Refreshed(t)' => Only(managed')
         /\ \A u \in Threads : ~Refreshed(u)' => Only(NoPid)
         /\ \A u \in Threads \ {t} : pending'[u] = pending[u] /\ (Only(managed) => Only(managed'))
<1>1. \A p : Alive(p)' <=> Alive(p)
  BY DEF Alive
<1>2. ~Alive(NoPid) /\ \A p : Alive(p) => p \in Pids
  BY NoPidAssumption DEF Alive
<1>3. \A u \in Threads \ {t} : pending'[u] = pending[u]
  BY DEF Look, ControlTypes
<1>4. CASE Alive(child) /\ managed' = child /\ UNCHANGED pending
  BY <1>1, <1>2, <1>3, <1>4 DEF KnownFacts, Only, Refreshed
<1>5. CASE child # NoPid /\ ~Alive(child) /\ pending' = [pending EXCEPT ![t] = "unset"] /\ UNCHANGED managed
  <2>1. Only(NoPid)
    BY <1>2, <1>5 DEF KnownFacts, Only
  <2>2. ~Refreshed(t)'
    BY <1>5 DEF Refreshed, ControlTypes
  <2> QED
    BY <1>1, <1>2, <1>3, <1>5, <2>1, <2>2 DEF Only
<1>6. CASE child = NoPid /\ Alive(pidFile) /\ managed' = pidFile /\ UNCHANGED pending
  <2>1. launcher = "idle"
    BY <1>2, <1>6 DEF KnownFacts
  <2>2. Only(pidFile)
    BY <1>2, <1>6, <2>1 DEF KnownFacts, Only
  <2> QED
    BY <1>1, <1>2, <1>3, <1>6, <2>2 DEF KnownFacts, Refreshed
<1>7. CASE child = NoPid /\ ~Alive(pidFile) /\ managed' = NoPid /\ pending' = [pending EXCEPT ![t] = "clear"]
  <2>1. ~Refreshed(t)'
    BY <1>7 DEF Refreshed, ControlTypes
  <2>2. launcher = "idle"
    BY <2>1 DEF LaunchAlone
  <2>3. Only(NoPid)
    BY <1>2, <1>7, <2>2 DEF KnownFacts, Only
  <2> QED
    BY <1>1, <1>2, <1>3, <1>7, <2>1, <2>3 DEF Only
<1> QED
  BY <1>4, <1>5, <1>6, <1>7 DEF Look

\* The steps of refresh, start and stop preserve the facts.
LEMMA ServeKnown ==
  ASSUME ControlTypes, KnownFacts, NEW t \in Threads, Serve(t), Race, ~raced'
  PROVE  KnownFacts'
<1>0. /\ pc \in [Threads -> Places] /\ victim \in [Threads -> Pid] /\ Lock
      /\ proc \in [Pids -> {"unborn", "starting", "opened", "up", "dying", "dead"}]
      /\ after[t] \in {"idle", "start", "load"}
      /\ Found \in Pid
  BY FoundType DEF ControlTypes, Processes
<1>l. UNCHANGED <<launcher, launched>>
  BY DEF Serve, Unset, Clear, Enter, StartCheck, Spawn, StartFails, WritePid, StopCheck, StopDone, StopFails,
         launchVars
<1>h. /\ pc[t] \in Inside => \A u \in Threads \ {t} : pc[u] \notin Inside
      /\ holder = NoThread => \A u \in Threads : pc[u] \notin Inside
  BY <1>0, NoThreadAssumption DEF Lock
<1>o. \A u \in Threads \ {t} : pc'[u] = pc[u]
  BY <1>0 DEF Serve, Unset, Clear, Enter, StartCheck, Spawn, StartFails, WritePid, StopCheck, StopDone, StopFails,
              Raise, Go
<1>n. ~Alive(NoPid) /\ ~Alive(NoPid)'
  BY NoPidAssumption DEF Alive
<1>r. /\ LaunchAlone'
      /\ \A u, v \in Threads : u # v /\ ~Refreshed(u)' => pc'[v] \notin {"spawn", "writePid"}
      /\ pc[t] = "writePid" /\ pc'[t] # "writePid" => pidFile' = child' /\ child' = child
      /\ ~StopMissed
  BY RaceStep
<1>i. pc[t] \in Inside => launcher = "idle"
  BY <1>0, NoThreadAssumption DEF KnownFacts, Lock
<1>d. ASSUME \A p : ~Alive(p)', launcher # "idle" => pidFile' = pidFile \/ pidFile' = NoPid
      PROVE  KnownFacts'
  BY <1>d, <1>l, <1>r, NoneLives DEF KnownFacts
<1>1. CASE StartCheck(t)
  <2>1. /\ UNCHANGED <<proc, child, managed, pidFile, pending, victim>> /\ pc[t] = "startCheck" /\ Refreshed(t)
        /\ \/ pc'[t] = "idle" /\ holder' = NoThread
           \/ pc'[t] = "spawn" /\ UNCHANGED holder /\ managed = NoPid
    BY <1>0, <1>1 DEF StartCheck, Go, AlreadyRunning, knownVars
  <2>2. \A p : Alive(p)' <=> Alive(p)
    BY <2>1 DEF Alive
  <2>3. pc'[t] = "spawn" => Only(NoPid)
    BY <2>1 DEF KnownFacts
  <2>4. \A u \in Threads : pc'[u] \in Inside => u = t /\ pc'[t] = "spawn"
    BY <1>h, <1>o, <2>1 DEF Inside
  <2>5. launcher = "idle"
    BY <1>i, <2>1 DEF Inside
  <2> QED
    BY <1>h, <1>l, <2>1, <2>2, <2>3, <2>4, <2>5 DEF KnownFacts, Only, Inside, Refreshed
<1>2. CASE Spawn(t)
  <2>1. PICK p \in Pids : Popen(p) /\ child' = p /\ managed' = p
    BY <1>2 DEF Spawn
  <2>2. /\ pc[t] = "spawn" /\ pc'[t] = "writePid" /\ pidFile' = pidFile /\ pending' = pending
        /\ \A q \in Pids \ {p} : proc'[q] = proc[q]
    BY <1>0, <1>2, <2>1 DEF Spawn, Go, Popen
  <2>3. Only(child)'
    BY <2>1, <2>2, NoPidIsDead DEF KnownFacts, Only, Alive
  <2>4. \A u \in Threads \ {t} : pc'[u] \notin Inside
    BY <1>h, <1>o, <2>2 DEF Inside
  <2>5. launcher = "idle"
    BY <1>i, <2>2 DEF Inside
  <2>6. \A u \in Threads : Refreshed(u)'
    <3>1. Refreshed(t)'
      BY <1>0, <2>2 DEF Lock, Looking, Refreshed
    <3>2. \A u \in Threads \ {t} : Refreshed(u)'
      BY <1>r, <2>2
    <3> QED
      BY <3>1, <3>2
  <2> QED
    BY <1>l, <2>2, <2>3, <2>4, <2>5, <2>6 DEF KnownFacts, Only, Inside
<1>3. CASE StartFails(t)
  <2>1. /\ pc[t] \in {"spawn", "writePid"} /\ pc'[t] = "idle" /\ pidFile' = NoPid
        /\ UNCHANGED <<proc, child>>
    BY <1>0, <1>3 DEF StartFails, Go
  <2>2. Only(NoPid)
    BY <1>r, <2>1 DEF KnownFacts
  <2>3. \A p : ~Alive(p)'
    BY <2>1, <2>2, NoPidIsDead DEF Alive
  <2> QED
    BY <1>d, <2>1, <2>3
<1>4. CASE WritePid(t)
  <2>1. /\ pc[t] = "writePid" /\ pc'[t] = "idle" /\ pidFile' = child
        /\ UNCHANGED <<proc, child, pending>>
    BY <1>0, <1>4 DEF WritePid, Go
  <2>2. Only(child)' /\ \A p : Alive(p)' <=> Alive(p)
    BY <2>1 DEF KnownFacts, Only, Alive
  <2>3. \A u \in Threads : pc'[u] \notin Inside
    BY <1>h, <1>o, <2>1 DEF Inside
  <2>4. launcher = "idle"
    BY <1>i, <2>1 DEF Inside
  <2> QED
    BY <1>l, <2>1, <2>2, <2>3, <2>4 DEF KnownFacts, Only, Inside, Refreshed
<1>5. CASE StopCheck(t)
  <2>1. /\ pc[t] = "stopCheck" /\ Refreshed(t) /\ UNCHANGED <<child, managed, pidFile, pending>>
    BY <1>5 DEF StopCheck, knownVars
  <2>2. launcher = "idle"
    BY <1>i, <2>1 DEF Inside
  <2>3. Only(Found)
    BY <2>1 DEF KnownFacts, Found
  <2>4. CASE Found = NoPid
    <3>1. UNCHANGED proc
      BY <1>5, <2>4 DEF StopCheck
    <3>2. \A p : ~Alive(p)'
      BY <2>3, <2>4, <3>1, NoPidIsDead DEF Alive
    <3> QED
      BY <1>d, <2>1, <3>2
  <2>5. CASE Found # NoPid
    <3>1. /\ \/ Alive(Found) /\ proc' = [proc EXCEPT ![Found] = IF @ = "starting" THEN "dead" ELSE "dying"]
             \/ UNCHANGED proc
          /\ victim'[t] = Found /\ pc'[t] = "wait"
      BY <1>0, <1>5, <2>5 DEF StopCheck, Go
    <3>2. \A p : Alive(p)' => Alive(p)
      BY <1>0, <3>1 DEF Alive
    <3>3. \A u \in Threads \ {t} : pc'[u] \notin Inside
      BY <1>h, <1>o, <2>1 DEF Inside
    <3>4. Only(victim[t])' /\ (child' # NoPid => Only(child)')
      BY <2>1, <2>3, <3>1, <3>2 DEF KnownFacts, Only
    <3>5. Alive(child)' => pidFile' = child'
      BY <1>h, <2>1, <3>2 DEF KnownFacts, Inside
    <3>6. \A u \in Threads : ~Refreshed(u)' => Only(NoPid)'
      BY <2>1, <3>2 DEF KnownFacts, Only, Refreshed
    <3>7. \A p \in Pids : Alive(p)' => p \in {child', pidFile', launched'}
      BY <1>l, <2>1, <3>2 DEF KnownFacts
    <3> QED
      BY <1>l, <2>1, <2>2, <3>1, <3>3, <3>4, <3>5, <3>6, <3>7 DEF KnownFacts, Inside
  <2> QED
    BY <2>4, <2>5
<1>6. CASE StopDone(t)
  <2>1. /\ pc[t] = "wait" /\ pidFile' = NoPid /\ proc' = [proc EXCEPT ![victim[t]] = "dead"]
    BY <1>6 DEF StopDone, Forget
  <2>2. \A p : ~Alive(p)'
    BY <1>0, <2>1 DEF KnownFacts, Only, Alive
  <2> QED
    BY <1>d, <2>1, <2>2
<1>7. CASE StopFails(t)
  <2>1. pc[t] = "wait" /\ pc'[t] # "wait" /\ pidFile' = NoPid /\ proc' = proc
    BY <1>0, <1>7 DEF StopFails, Forget, Raise, Go
  <2>2. ~Alive(victim[t])
    BY <1>r, <2>1 DEF StopMissed
  <2>3. \A p : ~Alive(p)'
    BY <2>1, <2>2 DEF KnownFacts, Only, Alive
  <2> QED
    BY <1>d, <2>1, <2>3
<1>8. CASE Unset(t) \/ Clear(t)
  <2>1. ~Refreshed(t) /\ proc' = proc /\ pidFile' \in {pidFile, NoPid}
    BY <1>8 DEF Unset, Clear, Forget, knownVars, Refreshed
  <2>2. \A p : ~Alive(p)'
    BY <2>1, NoPidIsDead DEF KnownFacts, Alive
  <2> QED
    BY <1>d, <2>1, <2>2
<1>9. CASE Enter(t)
  <2>1. /\ pc[t] \in {"start", "stop"} /\ pc'[t] \in {"startCheck", "stopCheck"} /\ holder = NoThread /\ holder' = t
        /\ Look(t) /\ UNCHANGED <<proc, child, pidFile, victim>>
    BY <1>0, <1>9 DEF Enter, Go
  <2>2. Refreshed(t)
    BY <1>0, <2>1 DEF Lock, Looking, Refreshed
  <2>3. /\ \A p : Alive(p)' <=> Alive(p)
        /\ Refreshed(t)' => Only(managed')
        /\ \A u \in Threads : ~Refreshed(u)' => Only(NoPid)
    BY <1>l, <1>r, <2>1, <2>2, LookKnown
  <2>4. launcher = "idle"
    BY <1>l, <1>r, <2>1, NoThreadAssumption DEF LaunchAlone
  <2>5. \A u \in Threads \ {t} : pc'[u] \notin Inside
    BY <1>h, <1>o, <2>1
  <2>6. Alive(child) => pidFile = child
    BY <1>h, <2>1 DEF KnownFacts, Inside
  <2> QED
    BY <1>l, <2>1, <2>3, <2>4, <2>5, <2>6 DEF KnownFacts, Only, Inside
<1> QED
  BY <1>1, <1>2, <1>3, <1>4, <1>5, <1>6, <1>7, <1>8, <1>9 DEF Serve

\* The places of start and stop that hold the lock are those of their own steps.
LEMMA OutsideTheLock ==
  ASSUME ControlTypes, UpdateTypes, NEW t \in Threads,
         UpdateBegin(t) \/ UpdateCheck(t) \/ Import(t) \/ Status(t) \/ Request(t)
  PROVE  \A u \in Threads : pc'[u] \in Inside \/ pc[u] \in Inside => pc'[u] = pc[u]
<1>1. CASE UpdateBegin(t) \/ UpdateCheck(t) \/ Request(t)
  BY <1>1 DEF UpdateBegin, UpdateCheck, Request, Go, ControlTypes, Inside
<1>2. CASE Status(t)
  BY <1>2 DEF Status
<1>3. CASE LoadRefused(t) \/ BuildFails(t) \/ MoveAwayFails(t) \/ MoveInFails(t) \/ Discard(t)
  <2>1. Restore(t) /\ pc[t] \notin Inside
    BY <1>3 DEF LoadRefused, BuildFails, MoveAwayFails, MoveInFails, Discard, Inside
  <2>2. pc'[t] \in {"idle", "start"} /\ \A u \in Threads \ {t} : pc'[u] = pc[u]
    BY <2>1, RestoreGoes
  <2> QED
    BY <2>1, <2>2 DEF Inside
<1>4. CASE Load(t) \/ Build(t) \/ (\E n \in BackupNames : MoveAway(t, n)) \/ MoveIn(t)
  BY <1>4 DEF Load, Build, MoveAway, MoveIn, Go, ControlTypes, Inside
<1> QED
  BY <1>1, <1>2, <1>3, <1>4 DEF Import

\* Every step preserves the facts.
LEMMA KnownStep == Types /\ KnownInv /\ [Next]_vars => KnownInv'
<1> SUFFICES ASSUME Types, KnownInv, [Next]_vars, ~raced' PROVE KnownFacts'
  BY DEF KnownInv
<1>t. ControlTypes /\ UpdateTypes
  BY DEF Types
<1>1. CASE UNCHANGED vars
  <2>1. UNCHANGED <<proc, child, managed, pidFile, holder, pc, pending, victim, launcher, launched, raced>>
    BY <1>1 DEF vars, controlVars, knownVars, threadVars, launchVars
  <2> QED
    BY <2>1 DEF KnownInv, KnownFacts, Only, Alive, Refreshed
<1> SUFFICES ASSUME Act, Race PROVE KnownFacts'
  BY <1>1 DEF Next
<1>r. LaunchAlone' /\ KnownFacts
  BY RaceStep DEF KnownInv
<1>2. ASSUME NEW t \in Threads, Controlled(t)
      PROVE  KnownFacts'
  BY <1>2, <1>r, <1>t, ServeKnown DEF Controlled
<1>3. ASSUME NEW t \in Threads, UpdateBegin(t) \/ UpdateCheck(t) \/ Import(t) \/ Status(t) \/ Request(t)
      PROVE  KnownFacts'
  <2>1. UNCHANGED <<proc, child, pidFile, holder, victim, launcher, launched>>
    BY <1>3 DEF UpdateBegin, UpdateCheck, Import, LoadRefused, Load, Build, BuildFails, MoveAway, MoveAwayFails,
                MoveIn, MoveInFails, Discard, Status, Request, unmovedByThread, knownVars, launchVars, countVars
  <2>2. (Look(t) /\ Refreshed(t) /\ pc[t] = "idle") \/ UNCHANGED <<managed, pending>>
    BY <1>3 DEF UpdateBegin, UpdateCheck, Import, LoadRefused, Load, Build, BuildFails, MoveAway, MoveAwayFails,
                MoveIn, MoveInFails, Discard, Status, Request, unmovedByThread, knownVars, launchVars, countVars
  <2>3. \A u \in Threads : pc'[u] \in Inside \/ pc[u] \in Inside => pc'[u] = pc[u]
    BY <1>3, <1>t, OutsideTheLock
  <2>4. /\ \A p : Alive(p)' <=> Alive(p)
        /\ \A u \in Threads : ~Refreshed(u)' => Only(NoPid)
        /\ \A u \in Threads : pc[u] \in Inside /\ Refreshed(u)' => Refreshed(u) /\ (Only(managed) => Only(managed'))
    <3>1. CASE Look(t) /\ Refreshed(t) /\ pc[t] = "idle"
      BY <1>r, <1>t, <2>1, <3>1, LookKnown DEF Refreshed, Inside
    <3>2. CASE UNCHANGED <<managed, pending>>
      BY <1>r, <2>1, <3>2 DEF KnownFacts, Alive, Refreshed
    <3> QED
      BY <2>2, <3>1, <3>2
  <2>5. \A u \in Threads :
            /\ pc'[u] \in {"startCheck", "stopCheck"} /\ Refreshed(u)' => Only(managed)'
            /\ pc'[u] = "spawn" => Only(NoPid)'
            /\ pc'[u] = "writePid" => Only(child)'
            /\ pc'[u] = "wait" => Only(victim[u])'
    BY <1>r, <2>1, <2>3, <2>4 DEF KnownFacts, Only, Inside
  <2>6. (launcher = "spawn" => Only(NoPid)') /\ (child' # NoPid => Only(child)')
    BY <1>r, <2>1, <2>4 DEF KnownFacts, Only
  <2>7. Alive(child)' => pidFile' = child' \/ \E u \in Threads : pc'[u] = "writePid"
    BY <1>r, <2>1, <2>3, <2>4 DEF KnownFacts, Inside
  <2>8. \A u \in Threads : ~Refreshed(u)' => Only(NoPid)'
    BY <2>4 DEF Only
  <2> QED
    BY <1>r, <2>1, <2>4, <2>5, <2>6, <2>7, <2>8 DEF KnownFacts, LaunchAlone
<1>4. ASSUME NEW p \in Pids, ParserProcess(p)
      PROVE  KnownFacts'
  <2>1. UNCHANGED <<child, managed, pidFile, holder, pc, pending, victim, launcher, launched>>
    BY <1>4 DEF ParserProcess, OpenStores, ServeHealth, ProcessDies, knownVars, threadVars, launchVars
  <2>2. \A q : Alive(q)' => Alive(q)
    BY <1>4, <1>t DEF ParserProcess, OpenStores, ServeHealth, ProcessDies, Alive, ControlTypes,
                      Processes
  <2>3. \A q : Only(q) => \A x \in Pids : Alive(x)' => x = q
    BY <2>2 DEF Only
  <2> QED
    BY <1>r, <2>1, <2>2, <2>3 DEF KnownFacts, Only, Refreshed
<1>5. CASE LaunchCheck
  <2>1. /\ launcher = "idle" /\ ~Alive(pidFile) /\ launcher' = "spawn" /\ pidFile' = NoPid
        /\ UNCHANGED <<proc, child, launched>>
    BY <1>5 DEF LaunchCheck
  <2>2. child = NoPid /\ launched = NoPid
    BY <1>r, <2>1 DEF KnownFacts, LaunchAlone
  <2>3. \A p : ~Alive(p)
    BY <1>r, <2>1, <2>2, NoPidIsDead DEF KnownFacts, Alive
  <2>4. \A p : ~Alive(p)'
    BY <2>1, <2>3 DEF Alive
  <2> QED
    BY <1>r, <2>1, <2>2, <2>4, NoneLives
<1>6. CASE LaunchSpawn
  <2>1. PICK p \in Pids : Popen(p) /\ launched' = p
    BY <1>6 DEF LaunchSpawn
  <2>2. /\ launcher = "spawn" /\ launcher' = "write"
        /\ UNCHANGED <<child, pidFile, holder, pc, pending, victim>>
        /\ \A q \in Pids \ {p} : proc'[q] = proc[q]
    BY <1>6, <1>t, <2>1 DEF LaunchSpawn, Popen, knownVars, threadVars, ControlTypes, Processes
  <2>3. child = NoPid /\ pidFile = NoPid /\ holder = NoThread /\ \A q : ~Alive(q)
    BY <1>r, <2>2, NoPidIsDead DEF KnownFacts
  <2>4. \A q \in Pids : Alive(q)' => q = launched'
    BY <2>1, <2>2, <2>3 DEF Alive
  <2>5. \A u \in Threads : pc[u] \notin Inside
    BY <1>t, <2>3, NoThreadAssumption DEF ControlTypes, Lock
  <2>6. ~Alive(NoPid)'
    BY NoPidAssumption DEF Alive
  <2> QED
    BY <1>r, <2>2, <2>3, <2>4, <2>5, <2>6 DEF KnownFacts, LaunchAlone, Inside
<1>7. CASE LaunchWrite
  <2>1. /\ launcher = "write" /\ launcher' = "idle" /\ pidFile' = launched /\ launched' = NoPid
        /\ UNCHANGED <<proc, child, holder, pc, pending, victim>>
    BY <1>7 DEF LaunchWrite, threadVars
  <2>2. child = NoPid /\ holder = NoThread /\ \A u \in Threads : Refreshed(u)'
    BY <1>r, <2>1 DEF KnownFacts, Refreshed
  <2>3. \A u \in Threads : pc[u] \notin Inside
    BY <1>t, <2>2, NoThreadAssumption DEF ControlTypes, Lock
  <2>4. ~Alive(NoPid)' /\ \A p : Alive(p)' <=> Alive(p)
    BY <2>1, NoPidAssumption DEF Alive
  <2>5. \A p \in Pids : Alive(p) => p = launched
    BY <1>r, <2>1, NoPidIsDead DEF KnownFacts
  <2> QED
    BY <2>1, <2>2, <2>3, <2>4, <2>5 DEF KnownFacts, Inside
<1>8. CASE ConsoleEnds
  <2>1. /\ child' = NoPid /\ holder' = NoThread /\ \A u \in Threads : pc'[u] = "idle" /\ Refreshed(u)'
        /\ UNCHANGED <<proc, pidFile, launcher, launched>>
    BY <1>8, <1>t DEF ConsoleEnds, ConsoleDies, Refreshed, launchVars, ControlTypes
  <2>2. ~Alive(NoPid) /\ ~Alive(NoPid)' /\ \A p : Alive(p)' <=> Alive(p)
    BY <2>1, NoPidAssumption DEF Alive
  <2>3. Alive(child) => pidFile = child
    <3>1. ASSUME NEW u \in Threads, pc[u] = "writePid" PROVE child = NoPid
      BY <2>1, <3>1, RaceStep
    <3> QED
      BY <1>r, <2>2, <3>1 DEF KnownFacts
  <2>4. \A p \in Pids : Alive(p) => p \in {pidFile, launched}
    BY <1>r, <2>3 DEF KnownFacts
  <2>5. launcher = "spawn" => Only(NoPid)'
    BY <1>r, <2>2 DEF KnownFacts, Only
  <2> QED
    BY <1>r, <2>1, <2>2, <2>4, <2>5 DEF KnownFacts
<1> QED
  BY <1>2, <1>3, <1>4, <1>5, <1>6, <1>7, <1>8 DEF Act, Open, ParserProcess, Launch

\* A parser that lives is known to the console or to the launcher, with
\* statuses that refresh beside everything else, health checks that overlook
\* it and consoles that die, unless one of the races of Race has happened.
\* (main.py:310-349, 351-445)
THEOREM ParsersAreKnown == Spec => []EveryParserIsKnown
<1>1. Init => KnownInv
  BY NoPidAssumption DEF Init, ControlInit, KnownInv, KnownFacts, Only, Alive, Refreshed
<1>2. KnownInv => EveryParserIsKnown
  BY NoPidAssumption DEF KnownInv, KnownFacts, EveryParserIsKnown
<1> QED
  BY <1>1, <1>2, KnownStep, TypesHold, PTL DEF Spec

-----------------------------------------------------------------------------
(* The store that is served                                                *)

Importing == {"load", "build", "moveAway", "moveIn", "discard"}

\* Which threads are inside update_reference.
UpdateInv ==
    \A t \in Threads :
        /\ t \in updating => pc[t] \notin {"idle", "updateCheck"}
        /\ pc[t] \in Importing => t \in updating
        /\ pc[t] \in {"stop", "stopCheck", "wait"} => (t \in updating <=> after[t] = "load")

OneHolds == \A p, q \in Pids : Holds(p) /\ Holds(q) => p = q

\* What lives is up, but for the process that is being stopped: the health
\* check of load sees it.  Once the import has begun, none lives.
Sees(t) ==
    /\ pc[t] \in {"stop", "stopCheck", "load"} => \A p \in Pids : Alive(p) => proc[p] = "up"
    /\ pc[t] = "wait" => \A p \in Pids : Alive(p) => p = victim[t] \/ proc[p] = "up"
    /\ pc[t] \in Importing \ {"load"} => Only(NoPid)

Serving(p) == proc[p] \in {"opened", "up"}

\* An update is alone, and its import finds no parser.
ServedInv ==
    ~overlap =>
        /\ \A p \in Pids : Serving(p) => view[p] \in {target, Unopened}
        /\ \A t \in updating :
              launcher = "idle" /\ (\A u \in Threads \ {t} : pc[u] = "idle") /\ Sees(t)

\* Initially there is no update, and no parser.
LEMMA ServedInit == Init => UpdateInv /\ OneHolds /\ ServedInv
  BY DEF Init, ControlInit, UpdateInv, Importing, OneHolds, Holds, ServedInv, Serving

\* What an update has begun goes on in its own thread.
LEMMA UpdateStep == Types /\ UpdateInv /\ [Next]_vars => UpdateInv'
<1> SUFFICES ASSUME Types, UpdateInv, [Next]_vars PROVE UpdateInv'
  OBVIOUS
<1>t. /\ ControlTypes /\ pc \in [Threads -> Places] /\ updating \subseteq Threads
      /\ after \in [Threads -> {"idle", "start", "load"}]
  BY DEF Types, ControlTypes, UpdateTypes
<1> DEFINE Kept(t) ==
        \A u \in Threads \ {t} :
            pc'[u] = pc[u] /\ after'[u] = after[u] /\ (u \in updating' <=> u \in updating)
           Good(t) ==
        /\ t \in updating => pc[t] \notin {"idle", "updateCheck"}
        /\ pc[t] \in Importing => t \in updating
        /\ pc[t] \in {"stop", "stopCheck", "wait"} => (t \in updating <=> after[t] = "load")
<1>o. ASSUME NEW t \in Threads, Kept(t), Good(t)' PROVE UpdateInv'
  BY <1>o DEF UpdateInv
<1>u. ASSUME UNCHANGED <<pc, after, updating>> PROVE UpdateInv'
  BY <1>u DEF UpdateInv
<1>1. ASSUME NEW t \in Threads, UpdateCheck(t) PROVE UpdateInv'
  <2>1. pc[t] = "updateCheck" /\ t \notin updating
    BY <1>1 DEF UpdateCheck, UpdateInv
  <2>2. PICK reachable \in Answers :
          IF Refused(reachable)
          THEN Go(t, "idle") /\ UNCHANGED <<after, updateVars>>
          ELSE /\ updating' = updating \cup {t}
               /\ running' = [running EXCEPT ![t] = reachable]
               /\ after' = [after EXCEPT ![t] = IF reachable THEN "load" ELSE "idle"]
               /\ Go(t, IF reachable THEN "stop" ELSE "load")
    BY <1>1 DEF UpdateCheck
  <2>3. Kept(t) /\ Good(t)'
    BY <1>t, <2>1, <2>2 DEF Go, Importing, updateVars
  <2> QED
    BY <1>o, <2>3
<1>2. ASSUME NEW t \in Threads, Import(t) PROVE UpdateInv'
  <2>1. pc[t] \in Importing /\ t \in updating /\ after' = after
    BY <1>2 DEF UpdateInv, Import, LoadRefused, Load, Build, BuildFails, MoveAway, MoveAwayFails,
                MoveIn, MoveInFails, Discard, Importing, unmovedByThread
  <2>2. CASE Restore(t)
    <3>1. Kept(t) /\ Good(t)'
      BY <1>t, <2>1, <2>2 DEF Restore, Go, Importing
    <3> QED
      BY <1>o, <3>1
  <2>3. CASE Load(t) \/ Build(t) \/ (\E n \in BackupNames : MoveAway(t, n)) \/ MoveIn(t)
    <3>1. Kept(t) /\ Good(t)'
      BY <1>t, <2>1, <2>3 DEF Load, Build, MoveAway, MoveIn, Go, Importing, updateVars
    <3> QED
      BY <1>o, <3>1
  <2> QED
    BY <1>2, <2>2, <2>3 DEF Import, LoadRefused, BuildFails, MoveAwayFails, MoveInFails, Discard
<1>3. ASSUME NEW t \in Threads, Controlled(t) PROVE UpdateInv'
  <2>1. Kept(t)
    BY <1>3, <1>t DEF Controlled, Serve, Unset, Clear, Enter, StartCheck, Spawn, StartFails, WritePid, StopCheck,
                      StopDone, StopFails, Raise, Go
  <2>2. updating' = IF pc'[t] = "idle" THEN updating \ {t} ELSE updating
    BY <1>3 DEF Controlled
  <2>3. CASE pc'[t] \in {"idle", "start", "startCheck", "spawn", "writePid"}
    <3>1. Good(t)'
      BY <2>2, <2>3 DEF Importing
    <3> QED
      BY <1>o, <2>1, <3>1
  <2>4. CASE (StopCheck(t) /\ pc'[t] = "wait") \/ (Enter(t) /\ pc'[t] = "stopCheck")
    <3>1. Good(t)'
      BY <1>t, <2>2, <2>4 DEF StopCheck, Enter, Go, UpdateInv, Importing
    <3> QED
      BY <1>o, <2>1, <3>1
  <2>5. CASE (StopCheck(t) \/ StopDone(t) \/ StopFails(t)) /\ pc'[t] = after[t]
    <3>1. Good(t)'
      BY <1>t, <2>2, <2>5 DEF StopCheck, StopDone, StopFails, UpdateInv, Importing
    <3> QED
      BY <1>o, <2>1, <3>1
  <2>6. CASE (Unset(t) \/ Clear(t)) /\ UNCHANGED <<pc, after>>
    <3>1. updating' = updating
      BY <2>2, <2>6 DEF UpdateInv
    <3> QED
      BY <1>u, <2>6, <3>1
  <2>7. pc'[t] = "idle" \/ UNCHANGED <<pc, after>> \/ ~(Unset(t) \/ Clear(t))
    BY <1>t DEF Unset, Clear, Raise, Go
  <2>8. CASE StartCheck(t) \/ Spawn(t) \/ StartFails(t) \/ WritePid(t)
    <3>1. pc'[t] \in {"idle", "spawn", "writePid"}
      BY <1>t, <2>8 DEF StartCheck, Spawn, StartFails, WritePid, Go
    <3> QED
      BY <2>3, <3>1
  <2>9. CASE Enter(t)
    BY <1>t, <2>3, <2>4, <2>9 DEF Enter, Go
  <2>10. CASE StopCheck(t) \/ StopDone(t) \/ StopFails(t)
    <3>1. pc'[t] \in {"idle", after[t]} \/ (StopCheck(t) /\ pc'[t] = "wait")
      BY <1>t, <2>10 DEF StopCheck, StopDone, StopFails, Raise, Go
    <3> QED
      BY <2>3, <2>4, <2>5, <2>10, <3>1
  <2> QED
    BY <1>3, <2>3, <2>6, <2>7, <2>8, <2>9, <2>10 DEF Controlled, Serve
<1>4. ASSUME NEW t \in Threads, Request(t) \/ UpdateBegin(t), UNCHANGED updating PROVE UpdateInv'
  <2>1. Kept(t)
    BY <1>4, <1>t DEF Request, UpdateBegin, Go
  <2>2. t \notin updating /\ pc'[t] \in {"start", "stop", "updateCheck"}
        /\ (pc'[t] = "stop" => after'[t] \in {"idle", "start"})
    BY <1>4, <1>t DEF Request, UpdateBegin, Go, UpdateInv
  <2>3. Good(t)'
    BY <1>4, <2>2 DEF Importing
  <2> QED
    BY <1>o, <2>1, <2>3
<1>5. ASSUME NEW t \in Threads, Status(t), UNCHANGED updating PROVE UpdateInv'
  BY <1>5, <1>u DEF Status
<1>6. ASSUME NEW p \in Pids, ParserProcess(p), UNCHANGED updating PROVE UpdateInv'
  BY <1>6, <1>u DEF ParserProcess, OpenStores, ServeHealth, ProcessDies, threadVars
<1>7. CASE Launch /\ UNCHANGED updating
  BY <1>7, <1>u DEF Launch, LaunchCheck, LaunchSpawn, LaunchWrite, threadVars
<1>8. CASE ConsoleEnds
  BY <1>8 DEF ConsoleEnds, ConsoleDies, UpdateInv, Importing
<1>9. CASE UNCHANGED vars
  BY <1>9, <1>u DEF vars, controlVars, threadVars, updateVars
<1> QED
  BY <1>1, <1>2, <1>3, <1>4, <1>5, <1>6, <1>7, <1>8, <1>9
  DEF Next, Act, Open, ParserProcess, UpdateBegin, updateVars

\* A step of start or stop gives no process the stores, and ends one at most.
LEMMA ServeProcesses ==
  ASSUME ControlTypes, NEW t \in Threads, Serve(t)
  PROVE  \A p \in Pids :
            /\ Holds(p)' => Holds(p)
            /\ Serving(p)' => proc'[p] = proc[p]
<1>1. Processes
  BY DEF ControlTypes
<1>2. CASE Spawn(t)
  <2>1. PICK p \in Pids : proc' = [proc EXCEPT ![p] = "starting"]
    BY <1>2 DEF Spawn, Popen
  <2> QED
    BY <1>1, <2>1 DEF Processes, Holds, Serving
<1>3. CASE StopCheck(t)
  <2>1. CASE proc' = proc
    BY <2>1 DEF Holds, Serving
  <2>2. CASE Alive(Found) /\ proc' = [proc EXCEPT ![Found] = IF @ = "starting" THEN "dead" ELSE "dying"]
    BY <1>1, <2>2 DEF Processes, Holds, Alive, Serving
  <2> QED
    BY <1>3, <2>1, <2>2 DEF StopCheck
<1>4. CASE StopDone(t)
  BY <1>1, <1>4 DEF StopDone, Processes, Holds, Serving
<1>5. CASE proc' = proc
  BY <1>5 DEF Holds, Serving
<1> QED
  BY <1>2, <1>3, <1>4, <1>5 DEF Serve, Unset, Clear, Enter, StartCheck, StartFails, WritePid, StopFails

\* Only what has just opened the stores has them anew.
LEMMA HoldersOfTheStores ==
  ASSUME Types, Act
  PROVE  \/ \E p \in Pids : Open(p)
         \/ \A p \in Pids :
                /\ Holds(p)' => Holds(p)
                /\ Serving(p)' => Serving(p) /\ view'[p] = view[p]
<1>t. ControlTypes /\ Processes
  BY DEF Types, ControlTypes
<1>v. Views => \A p \in Pids : Serving(p)' => view'[p] = view[p]
  BY DEF Views, Serving
<1>1. ASSUME NEW t \in Threads, UpdateBegin(t) \/ UpdateCheck(t) \/ Import(t) PROVE proc' = proc /\ view' = view
  BY <1>1 DEF UpdateBegin, UpdateCheck, Import, LoadRefused, Load, Build, BuildFails, MoveAway, MoveAwayFails,
              MoveIn, MoveInFails, Discard, unmovedByThread, storeVars
<1>2. ASSUME NEW t \in Threads, (Status(t) \/ Request(t)) /\ UNCHANGED <<storeVars, updateVars>>
      PROVE  proc' = proc /\ view' = view
  BY <1>2 DEF Status, Request, storeVars
<1>3. ASSUME NEW t \in Threads, Controlled(t)
      PROVE  \A p \in Pids :
                /\ Holds(p)' => Holds(p)
                /\ Serving(p)' => Serving(p) /\ view'[p] = view[p]
  BY <1>3, <1>t, <1>v, ServeProcesses DEF Controlled, Serving
<1>4. ASSUME NEW p \in Pids, ServeHealth(p) \/ ProcessDies(p), Views
      PROVE  \A q \in Pids :
                /\ Holds(q)' => Holds(q)
                /\ Serving(q)' => Serving(q) /\ view'[q] = view[q]
  BY <1>4, <1>t, <1>v DEF ServeHealth, ProcessDies, Processes, Holds, Serving
<1>5. CASE Launch /\ UNCHANGED storeVars
  <2>1. proc' = proc \/ \E p \in Pids : proc' = [proc EXCEPT ![p] = "starting"]
    BY <1>5 DEF Launch, LaunchCheck, LaunchSpawn, LaunchWrite, Popen
  <2> QED
    BY <1>5, <1>t, <2>1 DEF Processes, Holds, Serving, storeVars
<1>6. CASE ConsoleEnds
  BY <1>6 DEF ConsoleEnds, ConsoleDies, Holds, Serving
<1> QED
  BY <1>1, <1>2, <1>3, <1>4, <1>5, <1>6 DEF Act, Holds, Serving

\* Two parsers never have the stores open at a time.
LEMMA OneHoldsStep == Types /\ OneHolds /\ [Next]_vars => OneHolds'
<1> SUFFICES ASSUME Types, OneHolds, [Next]_vars PROVE OneHolds'
  OBVIOUS
<1>1. ASSUME NEW p \in Pids, Open(p) PROVE OneHolds'
  BY <1>1 DEF Open, OpenStores, OneHolds, Holds, Types, ControlTypes, Processes
<1>2. CASE UNCHANGED vars
  BY <1>2 DEF vars, controlVars, OneHolds, Holds
<1> QED
  BY <1>1, <1>2, HoldersOfTheStores DEF Next, OneHolds

\* Every step preserves the invariant.
LEMMA ServedStep ==
  Types /\ UpdateInv /\ ServedInv /\ [Next]_vars => ServedInv'
<1> SUFFICES ASSUME Types, UpdateInv, ServedInv, [Next]_vars, ~overlap'
             PROVE  ServedInv'
  BY DEF ServedInv
<1>t. /\ ControlTypes /\ Processes /\ pc \in [Threads -> Places] /\ updating \subseteq Threads
      /\ after \in [Threads -> {"idle", "start", "load"}] /\ victim \in [Threads -> Pid]
      /\ view \in [Pids -> Stores \cup {Unopened}]
  BY DEF Types, ControlTypes, StoreTypes, UpdateTypes
<1>1. CASE UNCHANGED vars
  <2>1. UNCHANGED <<proc, pc, victim, launcher, view, target, updating, overlap>>
    BY <1>1 DEF vars, controlVars, threadVars, launchVars, storeVars, diskVars, updateVars
  <2>2. \A p : Alive(p)' <=> Alive(p)
    BY <2>1 DEF Alive
  <2> QED
    BY <2>1, <2>2 DEF ServedInv, Sees, Only, Serving
<1> SUFFICES ASSUME Act, Overlap PROVE ServedInv'
  BY <1>1 DEF Next
<1>o. /\ ~overlap
      /\ \A t \in updating' : launcher' = "idle" /\ \A u \in Threads \ {t} : pc'[u] = "idle"
      /\ updating' # updating /\ updating' # {} => ~Unsettled
      /\ updating # {} => ~StopMissed
      /\ \A t \in Threads : pc[t] = "load" /\ pc'[t] = "build" => ~Reachable
  BY DEF Overlap
<1>i. /\ \A p \in Pids : Serving(p) => view[p] \in {target, Unopened}
      /\ \A t \in updating : launcher = "idle" /\ (\A u \in Threads \ {t} : pc[u] = "idle") /\ Sees(t)
  BY <1>o DEF ServedInv, Sees
<1>v. ASSUME target' = target
      PROVE  \A p \in Pids : Serving(p)' => view'[p] \in {target', Unopened}
  <2>1. ASSUME NEW p \in Pids, Open(p)
        PROVE  \A q \in Pids : Serving(q)' => view'[q] \in {target', Unopened}
    <3>1. PICK v \in {target, IF target = NoStore THEN NoStore ELSE Unopened} : view' = [view EXCEPT ![p] = v]
      BY <2>1 DEF Open
    <3> QED
      BY <1>i, <1>t, <1>v, <2>1, <3>1 DEF Open, OpenStores, Processes, Serving
  <2> QED
    BY <1>i, <1>v, <2>1, HoldersOfTheStores
<1>q. ASSUME \A p \in Pids : Serving(p)' => view'[p] \in {target', Unopened},
             \A t \in updating' : Sees(t)'
      PROVE  ServedInv'
  BY <1>o, <1>q DEF ServedInv, Sees
<1>s. ASSUME NEW t \in Threads, pc[t] # "idle", updating' \subseteq updating
      PROVE  updating' \subseteq {t}
  BY <1>i, <1>s
<1>2. ASSUME NEW t \in Threads, UpdateCheck(t) PROVE ServedInv'
  <2>1. /\ t \notin updating /\ UNCHANGED <<proc, target>>
        /\ \/ updating' = updating \cup {t} /\ pc'[t] \in {"stop", "load"}
           \/ updating' = updating
    BY <1>2, <1>t DEF UpdateCheck, UpdateInv, Go, knownVars, storeVars, diskVars, updateVars
  <2>2. CASE updating' = updating \cup {t} /\ pc'[t] \in {"stop", "load"}
    <3>1. ~Unsettled /\ updating' \subseteq {t}
      BY <1>o, <1>t, <2>1, <2>2 DEF UpdateInv
    <3>2. \A p \in Pids : Alive(p)' => proc'[p] = "up"
      BY <2>1, <3>1 DEF Unsettled, Alive
    <3>3. Sees(t)'
      BY <2>2, <3>2 DEF Sees, Importing
    <3> QED
      BY <1>q, <1>v, <2>1, <3>1, <3>3
  <2>3. CASE updating' = updating
    <3>1. updating' \subseteq {t}
      BY <1>2, <1>s, <2>3 DEF UpdateCheck
    <3>2. updating' = {}
      BY <2>1, <2>3, <3>1
    <3> QED
      BY <1>q, <1>v, <2>1, <3>2
  <2> QED
    BY <2>1, <2>2, <2>3
<1>3. ASSUME NEW t \in Threads, Import(t) PROVE ServedInv'
  <2>1. /\ pc[t] \in Importing /\ t \in updating /\ UNCHANGED <<proc, view>> /\ updating' \subseteq updating
    BY <1>3 DEF UpdateInv, Import, LoadRefused, Load, Build, BuildFails, MoveAway, MoveAwayFails,
                MoveIn, MoveInFails, Discard, Importing, unmovedByThread, storeVars, updateVars, Restore
  <2>2. updating' \subseteq {t}
    BY <1>s, <2>1 DEF Importing
  <2>3. CASE LoadRefused(t)
    <3>1. pc'[t] \in {"idle", "start"} /\ target' = target
      BY <1>t, <2>3, RestoreGoes DEF LoadRefused, storeVars, diskVars
    <3>2. Sees(t)'
      BY <3>1 DEF Sees, Importing
    <3> QED
      BY <1>q, <1>v, <2>2, <3>1, <3>2
  <2>4. CASE ~LoadRefused(t)
    <3>1. Only(NoPid)
      <4>1. CASE pc[t] = "load"
        <5>1. pc'[t] = "build"
          BY <1>3, <1>t, <2>4, <4>1 DEF Import, Load, Build, BuildFails, MoveAway, MoveAwayFails, MoveIn,
                                        MoveInFails, Discard, Go
        <5>2. ~Reachable
          BY <1>o, <4>1, <5>1
        <5> QED
          BY <1>i, <2>1, <4>1, <5>2 DEF Sees, Reachable, Only
      <4>2. CASE pc[t] # "load"
        BY <1>i, <2>1, <4>2 DEF Sees
      <4> QED
        BY <4>1, <4>2
    <3>2. \A p : ~Alive(p) /\ ~Alive(p)'
      BY <2>1, <3>1, NoPidIsDead DEF Alive
    <3>3. \A p \in Pids : ~Serving(p)'
      BY <2>1, <3>2 DEF Alive, Serving
    <3>4. Sees(t)'
      BY <3>2 DEF Sees, Only
    <3> QED
      BY <1>q, <2>2, <3>3, <3>4
  <2> QED
    BY <2>3, <2>4
<1>4. ASSUME NEW t \in Threads, Controlled(t), t \in updating' PROVE ServedInv'
  <2>1. /\ updating' \subseteq updating /\ target' = target
    BY <1>4 DEF Controlled, diskVars
  <2>2. t \in updating /\ pc[t] # "idle"
    BY <1>4, <2>1 DEF UpdateInv
  <2>3. updating' \subseteq {t} /\ Sees(t)
    BY <1>i, <1>s, <2>1, <2>2
  <2>4. CASE pc'[t] \in {"idle", "start", "startCheck", "spawn", "writePid"}
    <3>1. Sees(t)'
      BY <2>4 DEF Sees, Importing
    <3> QED
      BY <1>q, <1>v, <2>1, <2>3, <3>1
  <2>5. CASE UNCHANGED <<proc, victim>> /\ pc[t] \in {"stop", "stopCheck"} /\ pc'[t] \in {"stopCheck", "load", "wait"}
    <3>1. \A p \in Pids : Alive(p)' => proc'[p] = "up"
      BY <2>3, <2>5 DEF Sees, Alive
    <3>2. Sees(t)'
      BY <2>5, <3>1 DEF Sees, Importing
    <3> QED
      BY <1>q, <1>v, <2>1, <2>3, <3>2
  <2>6. CASE StopCheck(t) /\ pc'[t] = "wait"
    <3>1. /\ pc[t] = "stopCheck" /\ victim'[t] = Found
          /\ \/ proc' = [proc EXCEPT ![Found] = IF @ = "starting" THEN "dead" ELSE "dying"]
             \/ UNCHANGED proc
      BY <1>t, <2>6 DEF StopCheck, Go
    <3>2. \A p \in Pids : Alive(p)' => p = victim'[t] \/ proc'[p] = "up"
      BY <1>t, <2>3, <3>1 DEF Sees, Alive, Processes
    <3>3. Sees(t)'
      BY <2>6, <3>2 DEF Sees, Importing
    <3> QED
      BY <1>q, <1>v, <2>1, <2>3, <3>3
  <2>7. CASE (StopDone(t) \/ StopFails(t)) /\ pc'[t] = "load"
    <3>1. pc[t] = "wait" /\ (proc' = [proc EXCEPT ![victim[t]] = "dead"] \/ proc' = proc)
      BY <2>7 DEF StopDone, StopFails
    <3>2. \A p \in Pids : p = victim[t] => ~Alive(p)'
      <4>1. CASE proc' = proc
        <5>1. ~StopMissed
          BY <1>o, <2>2
        <5>2. ~Alive(victim[t])
          BY <2>7, <3>1, <4>1, <5>1 DEF StopMissed
        <5> QED
          BY <4>1, <5>2 DEF Alive
      <4>2. CASE proc' = [proc EXCEPT ![victim[t]] = "dead"]
        BY <1>t, <4>2 DEF Alive, Processes
      <4> QED
        BY <3>1, <4>1, <4>2
    <3>3. \A p \in Pids : Alive(p)' => proc'[p] = "up"
      <4>1. SUFFICES ASSUME NEW p \in Pids, Alive(p)', p # victim[t] PROVE proc'[p] = "up"
        BY <3>2
      <4>2. proc'[p] = proc[p]
        BY <1>t, <3>1, <4>1 DEF Processes
      <4>3. Alive(p)
        BY <4>1, <4>2 DEF Alive
      <4> QED
        BY <2>3, <3>1, <4>1, <4>2, <4>3 DEF Sees
    <3>4. Sees(t)'
      BY <2>7, <3>3 DEF Sees, Importing
    <3> QED
      BY <1>q, <1>v, <2>1, <2>3, <3>4
  <2>8. CASE StartCheck(t) \/ Spawn(t) \/ StartFails(t) \/ WritePid(t)
    <3>1. pc'[t] \in {"idle", "spawn", "writePid"}
      BY <1>t, <2>8 DEF StartCheck, Spawn, StartFails, WritePid, Go
    <3> QED
      BY <2>4, <3>1
  <2>9. CASE Unset(t) \/ Clear(t)
    <3>1. /\ UNCHANGED <<proc, victim>> /\ pc'[t] \in {pc[t], "idle"}
          /\ pc[t] \in Looking
      BY <1>t, <2>9 DEF Unset, Clear, Raise, Go, ControlTypes, Lock
    <3>2. pc'[t] = pc[t] /\ pc[t] \in {"startCheck", "stopCheck"}
      BY <1>4, <1>t, <2>2, <3>1 DEF Controlled, UpdateInv, Looking
    <3> QED
      BY <2>4, <2>5, <3>1, <3>2
  <2>10. CASE Enter(t)
    <3>1. UNCHANGED <<proc, victim>> /\ pc[t] \in {"start", "stop"}
          /\ (pc'[t] = "startCheck" \/ (pc[t] = "stop" /\ pc'[t] = "stopCheck"))
      BY <1>t, <2>10 DEF Enter, Go
    <3> QED
      BY <2>4, <2>5, <3>1
  <2>11. CASE StopCheck(t)
    <3>1. after[t] = "load"
      BY <2>2, <2>11 DEF StopCheck, UpdateInv
    <3>2. \/ pc'[t] = "wait"
          \/ pc'[t] = "load" /\ UNCHANGED <<proc, victim>> /\ pc[t] = "stopCheck"
      BY <1>t, <2>11, <3>1 DEF StopCheck, Go
    <3> QED
      BY <2>5, <2>6, <2>11, <3>2
  <2>12. CASE StopDone(t) \/ StopFails(t)
    <3>1. after[t] = "load"
      BY <2>2, <2>12 DEF StopDone, StopFails, UpdateInv
    <3>2. pc'[t] \in {"idle", "load"}
      BY <1>t, <2>12, <3>1 DEF StopDone, StopFails, Raise, Go
    <3> QED
      BY <2>4, <2>7, <2>12, <3>2
  <2> QED
    BY <1>4, <2>8, <2>9, <2>10, <2>11, <2>12 DEF Controlled, Serve
<1>10. ASSUME NEW t \in Threads, Controlled(t), t \notin updating' PROVE ServedInv'
  <2>1. updating' \subseteq updating /\ target' = target
    BY <1>10 DEF Controlled, diskVars
  <2>2. CASE pc[t] # "idle"
    <3>1. updating' = {}
      BY <1>10, <1>s, <2>1, <2>2
    <3> QED
      BY <1>q, <1>v, <2>1, <3>1
  <2>3. CASE pc[t] = "idle"
    <3>1. (Unset(t) \/ Clear(t)) /\ UNCHANGED <<proc, victim>> /\ \A u \in Threads : pc'[u] = pc[u]
      BY <1>10, <1>t, <2>3
      DEF Controlled, Serve, Unset, Clear, Enter, StartCheck, Spawn, StartFails, WritePid, StopCheck,
          StopDone, StopFails, Raise, Go
    <3>2. \A u \in updating' : Sees(u)'
      BY <1>i, <1>t, <2>1, <3>1 DEF Sees, Only, Alive
    <3> QED
      BY <1>q, <1>v, <2>1, <3>2
  <2> QED
    BY <2>2, <2>3
<1>5. ASSUME NEW t \in Threads, Request(t) \/ UpdateBegin(t), UNCHANGED <<storeVars, updateVars>> PROVE ServedInv'
  <2>1. pc[t] = "idle" /\ pc'[t] # "idle" /\ UNCHANGED <<updating, target>>
    BY <1>5, <1>t DEF Request, UpdateBegin, Go, storeVars, diskVars, updateVars
  <2>2. \A u \in updating : u # t
    BY <2>1 DEF UpdateInv
  <2>3. updating' = {}
    BY <1>o, <1>t, <2>1, <2>2
  <2> QED
    BY <1>q, <1>v, <2>1, <2>3
<1>6. ASSUME NEW t \in Threads, Status(t), UNCHANGED <<storeVars, updateVars>> PROVE ServedInv'
  <2>1. UNCHANGED <<proc, pc, victim, updating, target>>
    BY <1>6 DEF Status, storeVars, diskVars, updateVars
  <2>2. \A u \in updating' : Sees(u)'
    BY <1>i, <2>1 DEF Sees, Only, Alive
  <2> QED
    BY <1>q, <1>v, <2>1, <2>2
<1>7. ASSUME NEW p \in Pids, ParserProcess(p), UNCHANGED <<target, updating>> PROVE ServedInv'
  <2>1. UNCHANGED <<pc, victim>>
    BY <1>7 DEF ParserProcess, OpenStores, ServeHealth, ProcessDies, threadVars
  <2>2. \A q : Alive(q)' => Alive(q) /\ (proc[q] = "up" => proc'[q] = "up")
    BY <1>7, <1>t DEF ParserProcess, OpenStores, ServeHealth, ProcessDies, Alive, Processes
  <2>3. \A u \in updating' : Sees(u)'
    BY <1>7, <1>i, <2>1, <2>2 DEF Sees, Only
  <2> QED
    BY <1>7, <1>q, <1>v, <2>3
<1>8. CASE Launch /\ UNCHANGED <<storeVars, updateVars>>
  <2>1. UNCHANGED <<target, updating>> /\ (launcher = "idle" => launcher' = "spawn")
    BY <1>8 DEF Launch, LaunchCheck, LaunchSpawn, LaunchWrite, storeVars, diskVars, updateVars
  <2>2. updating' = {}
    BY <1>i, <1>o, <2>1
  <2> QED
    BY <1>q, <1>v, <2>1, <2>2
<1>9. CASE ConsoleEnds
  BY <1>9, <1>q, <1>v DEF ConsoleEnds
<1> QED
  BY <1>2, <1>3, <1>4, <1>5, <1>6, <1>7, <1>8, <1>9, <1>10
  DEF Act, Open, ParserProcess, UpdateBegin, storeVars, diskVars, updateVars

\* Unless one of the circumstances of Overlap was there, a parser that serves
\* has opened the store that is at the target's path, or none, with health
\* checks that overlook a parser, stops that fail and stores that do not open.
\* (main.py:598-635, reference_db.py:156-173)
THEOREM ServedIsCurrent == Spec => []ServedStoreIsCurrent
<1>1. Types /\ UpdateInv /\ ServedInv /\ [Next]_vars => UpdateInv' /\ ServedInv'
  BY UpdateStep, ServedStep
<1>2. ServedInv => ServedStoreIsCurrent
  BY DEF ServedInv, Serving, ServedStoreIsCurrent
<1> QED
  BY <1>1, <1>2, ServedInit, TypesHold, PTL DEF Spec
=============================================================================
