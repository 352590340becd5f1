--------------------------- MODULE Router_proofs ---------------------------
(***************************************************************************)
(* Proofs about Router, for all sets of sources, files, contents and       *)
(* workers and every size of the queue and number of attempts.             *)
(***************************************************************************)
EXTENDS Router, FiniteSetTheorems, TLAPS

\* What the queue, the retry threads and the workers carry: an item whose
\* content has been read and which may be delivered once more.
ReadItems == {it \in Items : it.payload \in Hashes /\ it.attempts < MaxAttempts}

\* Every thread that carries an item carries one of its own kind.
PollerItems ==
    \A s \in Sources :
        pollPc[s] # "idle" =>
            /\ pollItem[s] \in Items
            /\ SourceOf[pollItem[s].key[1]] = s
            /\ pollItem[s].attempts = 0
            /\ pollPc[s] = "put" => pollItem[s].payload \in Hashes

WorkerItems ==
    \A w \in Workers :
        workPc[w] # "idle" =>
            /\ workItem[w] \in Items
            /\ workItem[w].payload \in Hashes
            /\ workPc[w] # "failed" => workItem[w].attempts < MaxAttempts

\* A process that is down carries nothing.
DownIsEmpty ==
    mode = "down" =>
        /\ \A s \in Sources : pollPc[s] = "idle"
        /\ \A w \in Workers : workPc[w] = "idle"
        /\ queue = << >>
        /\ timers = {}

\* The inductive form of the type invariant.
TypeInv ==
    /\ TypeOK
    /\ queue \in Seq(ReadItems)
    /\ timers \subseteq ReadItems
    /\ PollerItems
    /\ WorkerItems
    /\ DownIsEmpty

\* The fields of an item have the types Items gives them.
LEMMA ItemFields ==
    ASSUME NEW it \in Items
    PROVE  /\ it.key \in Keys
           /\ it.key[1] \in Files
           /\ it.key[2] \in Hashes
           /\ it.key = <<it.key[1], it.key[2]>>
           /\ it.payload \in Hashes \cup {Absent}
           /\ it.attempts \in 0 .. MaxAttempts
BY DEF Items, Keys

\* Each operation of the state store yields a store of statuses.
LEMMA StoreTypes ==
    ASSUME NEW store \in [Keys -> Statuses], NEW k \in Keys, NEW st \in FileStates
    PROVE  /\ RecordDiscovered(store, k, st) \in [Keys -> Statuses]
           /\ UpdateStatus(store, k, st) \in [Keys -> Statuses]
           /\ ResetInterrupted(store) \in [Keys -> Statuses]
BY DEF RecordDiscovered, UpdateStatus, ResetInterrupted, Statuses, FileStates

\* The initial state satisfies the strengthened type invariant.
LEMMA TypeInit == Init => TypeInv
BY AttemptsAssumption
   DEF Init, TypeInv, TypeOK, PollerItems, WorkerItems, DownIsEmpty, Statuses, PollPcs, WorkPcs

\* Every step of the router keeps the strengthened type invariant.
LEMMA TypeStep == TypeInv /\ [Next]_vars => TypeInv'
<1> SUFFICES ASSUME TypeInv, [Next]_vars PROVE TypeInv'
    OBVIOUS
<1> USE SourceOfAssumption, AttemptsAssumption DEF TypeInv, TypeOK
<1>1. ASSUME NEW f \in Files, NEW h \in Hashes, Produce(f, h)
      PROVE  TypeInv'
    BY <1>1 DEF Produce, pollVars, workVars, PollerItems, WorkerItems, DownIsEmpty
<1>2. ASSUME NEW s \in Sources, NEW f \in Files, Admit(s, f)
      PROVE  TypeInv'
    <2>1. <<f, disk[f]>> \in Keys
        BY <1>2 DEF Admit, Admissible, Keys
    <2>2. [key |-> <<f, disk[f]>>, payload |-> Absent, attempts |-> 0] \in Items
        BY <2>1 DEF Items
    <2>3. status' \in [Keys -> Statuses]
        BY <1>2, <2>1, StoreTypes DEF Admit, FileStates
    <2>4. PollerItems'
        BY <1>2, <2>2 DEF Admit, Admissible, PollerItems
    <2> QED
        BY <1>2, <2>2, <2>3, <2>4
           DEF Admit, PollPcs, workVars, envVars, WorkerItems, DownIsEmpty
<1>3. ASSUME NEW s \in Sources, IdleScan(s)
      PROVE  TypeInv'
    BY <1>3 DEF IdleScan, vars, pollVars, workVars, envVars, PollerItems, WorkerItems,
                DownIsEmpty
<1>4. ASSUME NEW s \in Sources, ReadContent(s)
      PROVE  TypeInv'
    <2> DEFINE it == pollItem[s]
    <2>1. it \in Items /\ disk[it.key[1]] \in Hashes
        BY <1>4, ItemFields DEF ReadContent, PollerItems
    <2>2. [it EXCEPT !.payload = disk[it.key[1]]] \in Items
        BY <2>1 DEF Items
    <2>3. [it EXCEPT !.payload = disk[it.key[1]]].payload = disk[it.key[1]]
        BY <2>1 DEF Items
    <2>4. /\ [it EXCEPT !.payload = disk[it.key[1]]].key = it.key
          /\ [it EXCEPT !.payload = disk[it.key[1]]].attempts = it.attempts
        BY <2>1 DEF Items
    <2>5. pollItem' = [pollItem EXCEPT ![s] = [it EXCEPT !.payload = disk[it.key[1]]]]
        BY <1>4 DEF ReadContent
    <2> HIDE DEF it
    <2>6. PollerItems'
        BY <1>4, <2>1, <2>2, <2>3, <2>4, <2>5 DEF ReadContent, PollerItems, it
    <2>7. WorkerItems' /\ DownIsEmpty'
        BY <1>4 DEF ReadContent, workVars, envVars, WorkerItems, DownIsEmpty
    <2>8. pollItem' \in [Sources -> Items \cup {NoItem}]
        BY <2>2, <2>5
    <2> QED
        BY <1>4, <2>6, <2>7, <2>8 DEF ReadContent, PollPcs, workVars, envVars
<1>5. ASSUME NEW s \in Sources, ReadFails(s) \/ PutReject(s)
      PROVE  TypeInv'
    <2>1. /\ pollItem[s] \in Items
          /\ PollerGivesUp(s)
          /\ UNCHANGED <<disk, queue, timers, workPc, workItem, accepted, mode>>
        BY <1>5 DEF ReadFails, PutReject, PollerItems, workVars, envVars
    <2>2. pollItem[s].key \in Keys
        BY <2>1, ItemFields
    <2>3. status' \in [Keys -> Statuses]
        BY <2>1, <2>2, StoreTypes DEF PollerGivesUp, FileStates
    <2>4. PollerItems'
        BY <2>1 DEF PollerGivesUp, PollerItems
    <2>5. WorkerItems' /\ DownIsEmpty'
        BY <2>1 DEF PollerGivesUp, WorkerItems, DownIsEmpty
    <2> QED
        BY <2>1, <2>3, <2>4, <2>5 DEF PollerGivesUp, PollPcs
<1>6. ASSUME NEW s \in Sources, PutAccept(s)
      PROVE  TypeInv'
    <2>1. pollItem[s] \in ReadItems
        BY <1>6 DEF PutAccept, PollerItems, ReadItems
    <2>2. queue' \in Seq(ReadItems) /\ queue' \in Seq(Items)
        BY <1>6, <2>1 DEF PutAccept, ReadItems
    <2> QED
        BY <1>6, <2>2
           DEF PutAccept, PollPcs, workVars, envVars, PollerItems, WorkerItems, DownIsEmpty
<1>7. ASSUME NEW s \in Sources, MarkQueued(s)
      PROVE  TypeInv'
    <2>1. pollItem[s] \in Items
        BY <1>7 DEF MarkQueued, PollerItems
    <2>2. status' \in [Keys -> Statuses]
        BY <1>7, <2>1, ItemFields, StoreTypes DEF MarkQueued, FileStates
    <2> QED
        BY <1>7, <2>2
           DEF MarkQueued, PollPcs, workVars, envVars, PollerItems, WorkerItems, DownIsEmpty
<1>8. ASSUME NEW w \in Workers, Take(w)
      PROVE  TypeInv'
    <2>1. /\ Head(queue) \in ReadItems
          /\ queue' \in Seq(ReadItems)
          /\ queue' \in Seq(Items)
        BY <1>8 DEF Take, ReadItems
    <2>2. Head(queue) \in Items
        BY <2>1 DEF ReadItems
    <2>3. status' \in [Keys -> Statuses]
        BY <1>8, <2>2, ItemFields, StoreTypes DEF Take, FileStates
    <2> QED
        BY <1>8, <2>1, <2>2, <2>3
           DEF Take, WorkerGoes, ReadItems, WorkPcs, pollVars, envVars, PollerItems,
               WorkerItems, DownIsEmpty
<1>9. ASSUME NEW w \in Workers, ParserHandles(w) \/ AckReceived(w)
      PROVE  TypeInv'
    <2>1. /\ workItem[w] \in Items
          /\ workItem[w].payload \in Hashes
          /\ workItem[w].attempts < MaxAttempts
        BY <1>9 DEF ParserHandles, AckReceived, WorkerItems
    <2>2. accepted' \subseteq Keys \X Hashes
        BY <1>9, <2>1, ItemFields DEF ParserHandles, AckReceived
    <2> QED
        BY <1>9, <2>1, <2>2
           DEF ParserHandles, AckReceived, WorkerGoes, WorkPcs, pollVars, envVars,
               PollerItems, WorkerItems, DownIsEmpty
<1>10. ASSUME NEW w \in Workers, DeliveryFails(w)
       PROVE  TypeInv'
    <2> DEFINE it == workItem[w]
               failed == [it EXCEPT !.attempts = @ + 1]
    <2>1. it \in Items /\ it.payload \in Hashes /\ it.attempts < MaxAttempts
        BY <1>10 DEF DeliveryFails, WorkerItems
    <2>2. it.attempts + 1 \in 0 .. MaxAttempts
        BY <2>1, ItemFields
    <2>3. failed \in Items /\ failed.payload \in Hashes
        BY <2>1, <2>2 DEF Items
    <2>4. workItem' = [workItem EXCEPT ![w] = failed]
        BY <1>10 DEF DeliveryFails
    <2> HIDE DEF failed
    <2>5. WorkerItems'
        BY <1>10, <2>3, <2>4 DEF DeliveryFails, WorkerGoes, WorkerItems
    <2>6. PollerItems' /\ DownIsEmpty'
        BY <1>10 DEF DeliveryFails, pollVars, envVars, PollerItems, DownIsEmpty
    <2>7. workItem' \in [Workers -> Items \cup {NoItem}]
        BY <2>3, <2>4
    <2> QED
        BY <1>10, <2>5, <2>6, <2>7
           DEF DeliveryFails, WorkerGoes, WorkPcs, pollVars, envVars
<1>11. ASSUME NEW w \in Workers, MarkAcked(w) \/ MarkProcessed(w)
       PROVE  TypeInv'
    <2>1. workItem[w].key \in Keys
        BY <1>11, ItemFields DEF MarkAcked, MarkProcessed, WorkerItems
    <2>2. status' \in [Keys -> Statuses]
        <3>1. status \in [Keys -> Statuses] /\ "ACKNOWLEDGED" \in FileStates /\ "PROCESSED" \in FileStates
            BY DEF TypeInv, TypeOK, FileStates
        <3>2. /\ UpdateStatus(status, workItem[w].key, "ACKNOWLEDGED") \in [Keys -> Statuses]
              /\ UpdateStatus(status, workItem[w].key, "PROCESSED") \in [Keys -> Statuses]
            BY <2>1, <3>1, StoreTypes
        <3> QED
            BY <1>11, <3>2 DEF MarkAcked, MarkProcessed
    <2> QED
        BY <1>11, <2>2
           DEF MarkAcked, MarkProcessed, WorkerGoes, WorkPcs, pollVars, envVars,
               PollerItems, WorkerItems, DownIsEmpty
<1>12. ASSUME NEW w \in Workers, Finalize(w) \/ FinalizeFails(w)
       PROVE  TypeInv'
    <2>1. workItem[w].key[1] \in Files
        BY <1>12, ItemFields DEF Finalize, FinalizeFails, WorkerItems
    <2>2. disk' \in [Files -> Hashes \cup {Absent}]
        BY <1>12, <2>1 DEF Finalize, FinalizeFails
    <2> QED
        BY <1>12, <2>2
           DEF Finalize, FinalizeFails, WorkerIsDone, WorkerGoes, WorkPcs, pollVars,
               envVars, PollerItems, WorkerItems, DownIsEmpty
<1>13. ASSUME NEW w \in Workers, MarkRetrying(w) \/ MarkFailed(w)
       PROVE  TypeInv'
    <2>1. workItem[w] \in Items /\ workItem[w].payload \in Hashes
        BY <1>13 DEF MarkRetrying, MarkFailed, WorkerItems
    <2>2. workItem[w].key \in Keys
        BY <2>1, ItemFields
    <2>3. status' \in [Keys -> Statuses]
        <3>1. /\ UpdateStatus(status, workItem[w].key, "RETRYING") \in [Keys -> Statuses]
              /\ UpdateStatus(status, workItem[w].key, "FAILED") \in [Keys -> Statuses]
            BY <2>2, StoreTypes DEF FileStates
        <3> QED
            BY <1>13, <3>1 DEF MarkRetrying, MarkFailed
    <2>4. timers' \subseteq ReadItems /\ timers' \subseteq Items
        <3>1. CanRetry(workItem[w].attempts) => workItem[w] \in ReadItems
            BY <2>1 DEF CanRetry, ReadItems
        <3> QED
            BY <1>13, <2>1, <3>1 DEF MarkRetrying, MarkFailed
    <2> QED
        BY <1>13, <2>3, <2>4, ZenonT(30)
           DEF MarkRetrying, MarkFailed, WorkerIsDone, WorkerGoes, WorkPcs, pollVars,
               envVars, PollerItems, WorkerItems, DownIsEmpty
<1>14. ASSUME NEW t \in timers, Timer(t)
       PROVE  TypeInv'
    <2>1. t \in ReadItems /\ t \in Items
        OBVIOUS
    <2>2. queue' \in Seq(ReadItems) /\ queue' \in Seq(Items)
        <3>1. CASE TimerFires(t)
            BY <2>1, <3>1 DEF TimerFires
        <3>2. CASE TimerDrops(t)
            BY <3>2 DEF TimerDrops
        <3> QED
            BY <1>14, <3>1, <3>2 DEF Timer
    <2> QED
        BY <1>14, <2>2
           DEF Timer, TimerFires, TimerDrops, pollVars, workVars, envVars, PollerItems,
               WorkerItems, DownIsEmpty
<1>15. ASSUME Stop
       PROVE  TypeInv'
    BY <1>15 DEF Stop, pollVars, workVars, PollerItems, WorkerItems, DownIsEmpty
<1>16. ASSUME Exit \/ Crash
       PROVE  TypeInv'
    <2>1. ProcessDies
        BY <1>16 DEF Exit, Crash
    <2>2. PollerItems' /\ WorkerItems' /\ DownIsEmpty'
        BY <2>1 DEF ProcessDies, PollerItems, WorkerItems, DownIsEmpty
    <2>3. queue' \in Seq(ReadItems) /\ queue' \in Seq(Items)
        BY <2>1 DEF ProcessDies
    <2> QED
        BY <2>1, <2>2, <2>3 DEF ProcessDies, PollPcs, WorkPcs
<1>17. ASSUME Restart
       PROVE  TypeInv'
    <2>1. status' \in [Keys -> Statuses]
        BY <1>17 DEF Restart, ResetInterrupted, Statuses, FileStates
    <2> QED
        BY <1>17, <2>1 DEF Restart, pollVars, workVars, PollerItems, WorkerItems, DownIsEmpty
<1>18. ASSUME UNCHANGED vars
       PROVE  TypeInv'
    BY <1>18 DEF vars, pollVars, workVars, envVars, PollerItems, WorkerItems, DownIsEmpty
<1> QED
    BY <1>1, <1>2, <1>3, <1>4, <1>5, <1>6, <1>7, <1>8, <1>9, <1>10, <1>11, <1>12, <1>13,
       <1>14, <1>15, <1>16, <1>17, <1>18
       DEF Next, Environment, Poller, PollerAdmits, Worker, Process

\* Every state of every behaviour is well typed.
THEOREM TypeCorrect == Spec => []TypeOK
<1>1. TypeInv => TypeOK
    BY DEF TypeInv
<1> QED
    BY TypeInit, TypeStep, <1>1, PTL DEF Spec

-----------------------------------------------------------------------------
(* No record is carried twice.  The records that are live are refused by   *)
(* the scan, so a scan that admits a record is its only carrier; every     *)
(* other step hands the item from one carrier to one other.                *)

FlightInv(k) == OnceInFlight(k) /\ (Live(k) => IsInFlightOrProcessed(status[k]))

\* Steps that let go of items and take up none.
LEMMA CarriersShrink ==
    ASSUME NEW k \in Keys, OnceInFlight(k),
           \A s \in Sources : PollerCarries(s, k)' => PollerCarries(s, k),
           \A i \in DOMAIN queue' : QueueCarries(i, k)' => QueueCarries(i, k),
           \A t \in timers' : TimerCarries(t, k)' => TimerCarries(t, k),
           \A w \in Workers : WorkerCarries(w, k)' => WorkerCarries(w, k)
    PROVE  OnceInFlight(k)' /\ (Live(k)' => Live(k))
<1>1. InPoller(k)' => InPoller(k)
    BY DEF InPoller
<1>2. InQueue(k)' => InQueue(k)
    BY DEF InQueue, QueueCarries
<1>3. InTimers(k)' => InTimers(k)
    BY DEF InTimers, TimerCarries
<1>4. InWorker(k)' => InWorker(k)
    BY DEF InWorker
<1> QED
    BY <1>1, <1>2, <1>3, <1>4 DEF OnceInFlight, Live, QueueCarries, TimerCarries

\* A write to the store that leaves refused records refused.
LEMMA StaysRefused ==
    ASSUME NEW k \in Keys, NEW store \in [Keys -> Statuses], NEW j \in Keys,
           NEW st, IsInFlightOrProcessed(st), IsInFlightOrProcessed(store[k])
    PROVE  IsInFlightOrProcessed(UpdateStatus(store, j, st)[k])
BY DEF UpdateStatus

\* Nothing is in flight initially.
LEMMA FlightInit == ASSUME Init, NEW k \in Keys PROVE FlightInv(k)
BY DEF Init, FlightInv, OnceInFlight, Live, InPoller, InQueue, InTimers, InWorker,
       PollerCarries, QueueCarries, TimerCarries, WorkerCarries

\* Every step carries a record at most once and keeps it refused meanwhile.
LEMMA FlightStep ==
    ASSUME TypeInv, \A j \in Keys : FlightInv(j), [Next]_vars, NEW k \in Keys
    PROVE  FlightInv(k)'
<1>0. FlightInv(k) /\ OnceInFlight(k)
    BY DEF FlightInv
<1>1. ASSUME UNCHANGED <<pollPc, pollItem, queue, timers, workPc, workItem, status>>
      PROVE  FlightInv(k)'
    BY <1>0, <1>1 DEF FlightInv, OnceInFlight, Live, InPoller, InQueue, InTimers, InWorker,
                      PollerCarries, QueueCarries, TimerCarries, WorkerCarries
<1>2. ASSUME NEW s \in Sources, NEW f \in Files, Admit(s, f)
      PROVE  FlightInv(k)'
    <2> DEFINE new == <<f, disk[f]>>
    <2>1. new \in Keys /\ ~Live(new) /\ status' = [status EXCEPT ![new] = "READY"]
        BY <1>2 DEF Admit, Admissible, Keys, FlightInv, RecordDiscovered
    <2>2. /\ pollPc[s] = "idle"
          /\ pollPc' = [pollPc EXCEPT ![s] = "read"]
          /\ pollItem' = [pollItem EXCEPT ![s] =
                            [key |-> new, payload |-> Absent, attempts |-> 0]]
          /\ UNCHANGED <<queue, timers, workPc, workItem>>
        BY <1>2 DEF Admit, workVars
    <2> HIDE DEF new
    <2>3. \A u \in Sources : PollerCarries(u, k)' <=> IF u = s THEN k = new
                                                     ELSE PollerCarries(u, k)
        BY <2>2 DEF TypeInv, TypeOK, PollerCarries
    <2>4. /\ InQueue(k)' <=> InQueue(k)
          /\ InTimers(k)' <=> InTimers(k)
          /\ InWorker(k)' <=> InWorker(k)
        BY <2>2 DEF InQueue, InTimers, InWorker, QueueCarries, TimerCarries, WorkerCarries
    <2>5. CASE k = new
        <3>1. /\ ~InPoller(k) /\ ~InQueue(k) /\ ~InTimers(k) /\ ~InWorker(k)
              /\ ~InQueue(k)' /\ ~InTimers(k)' /\ ~InWorker(k)'
            BY <2>1, <2>4, <2>5 DEF Live
        <3>2. \A u, v \in Sources : PollerCarries(u, k)' /\ PollerCarries(v, k)' => u = v
            BY <2>3, <3>1 DEF InPoller
        <3>3. OnceInFlight(k)'
            BY <3>1, <3>2 DEF OnceInFlight, InQueue, InTimers, InWorker
        <3>4. IsInFlightOrProcessed(status'[k])
            BY <2>1, <2>5 DEF IsInFlightOrProcessed, TypeInv, TypeOK
        <3> QED
            BY <3>3, <3>4 DEF FlightInv
    <2>6. CASE k # new
        <3>1. status'[k] = status[k]
            BY <2>1, <2>6 DEF TypeInv, TypeOK
        <3>2. OnceInFlight(k)' /\ (Live(k)' => Live(k))
            BY <1>0, <2>2, <2>3, <2>6, CarriersShrink
               DEF PollerCarries, QueueCarries, TimerCarries, WorkerCarries
        <3> QED
            BY <1>0, <3>1, <3>2 DEF FlightInv
    <2> QED
        BY <2>5, <2>6
<1>3. ASSUME NEW s \in Sources, ReadContent(s)
      PROVE  FlightInv(k)'
    <2>1. /\ pollItem[s] \in Items
          /\ pollItem' = [pollItem EXCEPT ![s].payload = disk[pollItem[s].key[1]]]
          /\ pollPc[s] = "read" /\ pollPc' = [pollPc EXCEPT ![s] = "put"]
          /\ UNCHANGED <<queue, timers, workPc, workItem, status>>
        BY <1>3 DEF ReadContent, workVars, TypeInv, PollerItems
    <2>2. pollItem'[s].key = pollItem[s].key
        BY <2>1 DEF TypeInv, TypeOK, Items
    <2>3. \A u \in Sources : PollerCarries(u, k)' => PollerCarries(u, k)
        BY <2>1, <2>2 DEF PollerCarries, TypeInv, TypeOK
    <2>4. OnceInFlight(k)' /\ (Live(k)' => Live(k))
        BY <1>0, <2>1, <2>3, CarriersShrink DEF QueueCarries, TimerCarries, WorkerCarries
    <2> QED
        BY <1>0, <2>1, <2>4 DEF FlightInv
<1>4. ASSUME NEW s \in Sources, ReadFails(s) \/ PutReject(s)
      PROVE  FlightInv(k)'
    <2>1. /\ PollerGivesUp(s) /\ PollerCarries(s, pollItem[s].key)
          /\ pollItem[s] \in Items
          /\ UNCHANGED <<queue, timers, workPc, workItem>>
        BY <1>4 DEF ReadFails, PutReject, workVars, TypeInv, PollerItems, PollerCarries
    <2>2. \A u \in Sources : PollerCarries(u, k)' => u # s /\ PollerCarries(u, k)
        BY <2>1 DEF PollerGivesUp, PollerCarries, TypeInv, TypeOK
    <2>3. OnceInFlight(k)' /\ (Live(k)' => Live(k))
        BY <1>0, <2>1, <2>2, CarriersShrink DEF QueueCarries, TimerCarries, WorkerCarries
    <2>4. CASE k = pollItem[s].key
        <3>1. InPoller(k) /\ ~InQueue(k) /\ ~InTimers(k) /\ ~InWorker(k)
            BY <1>0, <2>1, <2>4 DEF InPoller, OnceInFlight
        <3>2. ~InQueue(k)' /\ ~InTimers(k)' /\ ~InWorker(k)'
            BY <2>1, <3>1 DEF InQueue, InTimers, InWorker, QueueCarries, TimerCarries,
                              WorkerCarries
        <3>3. ~InPoller(k)'
            BY <1>0, <2>1, <2>2, <2>4 DEF InPoller, OnceInFlight
        <3> QED
            BY <2>3, <3>2, <3>3 DEF FlightInv, Live
    <2>5. CASE k # pollItem[s].key
        <3>1. status'[k] = status[k]
            BY <2>1, <2>5 DEF PollerGivesUp, UpdateStatus, TypeInv, TypeOK
        <3> QED
            BY <1>0, <2>3, <3>1 DEF FlightInv
    <2> QED
        BY <2>4, <2>5
<1>5. ASSUME NEW s \in Sources, PutAccept(s)
      PROVE  FlightInv(k)'
    <2> DEFINE it == pollItem[s]
    <2>1. /\ it \in Items /\ PollerCarries(s, it.key)
          /\ queue' = Append(queue, it)
          /\ pollPc' = [pollPc EXCEPT ![s] = "queued"]
          /\ UNCHANGED <<pollItem, timers, workPc, workItem, status>>
        BY <1>5 DEF PutAccept, workVars, TypeInv, PollerItems, PollerCarries
    <2>2. \A u \in Sources : PollerCarries(u, k)' => u # s /\ PollerCarries(u, k)
        BY <2>1 DEF PollerCarries, TypeInv, TypeOK
    <2>3. \A i \in DOMAIN queue' : QueueCarries(i, k)' =>
                IF i = Len(queue) + 1 THEN k = it.key ELSE QueueCarries(i, k)
        BY <2>1 DEF QueueCarries, TypeInv, TypeOK
    <2> HIDE DEF it
    <2>4. CASE k = it.key
        <3>1. InPoller(k) /\ ~InQueue(k) /\ ~InTimers(k) /\ ~InWorker(k)
            BY <1>0, <2>1, <2>4 DEF InPoller, OnceInFlight
        <3>2. ~InPoller(k)' /\ ~InTimers(k)' /\ ~InWorker(k)'
            BY <1>0, <2>1, <2>2, <2>4, <3>1
               DEF OnceInFlight, InPoller, InTimers, InWorker, TimerCarries, WorkerCarries
        <3>3. \A i, j \in DOMAIN queue' : QueueCarries(i, k)' /\ QueueCarries(j, k)' => i = j
            BY <2>3, <3>1 DEF InQueue, QueueCarries
        <3>4. OnceInFlight(k)'
            BY <3>2, <3>3 DEF OnceInFlight, InPoller, InTimers, InWorker
        <3> QED
            BY <1>0, <2>1, <3>1, <3>4 DEF FlightInv, Live
    <2>5. CASE k # it.key
        <3>1. OnceInFlight(k)' /\ (Live(k)' => Live(k))
            BY <1>0, <2>1, <2>2, <2>3, <2>5, CarriersShrink DEF TimerCarries, WorkerCarries
        <3> QED
            BY <1>0, <2>1, <3>1 DEF FlightInv
    <2> QED
        BY <2>4, <2>5
<1>6. ASSUME NEW s \in Sources, MarkQueued(s)
      PROVE  FlightInv(k)'
    <2>1. /\ pollItem[s].key \in Keys
          /\ status' = UpdateStatus(status, pollItem[s].key, "QUEUED")
          /\ pollPc[s] = "queued" /\ pollPc' = [pollPc EXCEPT ![s] = "idle"]
          /\ pollItem' = [pollItem EXCEPT ![s] = NoItem]
          /\ UNCHANGED <<queue, timers, workPc, workItem>>
        BY <1>6, ItemFields DEF MarkQueued, workVars, TypeInv, PollerItems
    <2>2. \A u \in Sources : PollerCarries(u, k)' => PollerCarries(u, k)
        BY <2>1 DEF PollerCarries, TypeInv, TypeOK
    <2>3. OnceInFlight(k)' /\ (Live(k)' => Live(k))
        BY <1>0, <2>1, <2>2, CarriersShrink DEF QueueCarries, TimerCarries, WorkerCarries
    <2>4. Live(k) => IsInFlightOrProcessed(status'[k])
        BY <1>0, <2>1, StaysRefused DEF FlightInv, TypeInv, TypeOK, IsInFlightOrProcessed
    <2> QED
        BY <2>3, <2>4 DEF FlightInv
<1>7. ASSUME NEW w \in Workers, Take(w)
      PROVE  FlightInv(k)'
    <2> DEFINE it == Head(queue)
    <2>1. /\ it \in Items /\ it.key \in Keys
          /\ 1 \in DOMAIN queue /\ queue[1] = it
          /\ queue' = Tail(queue)
          /\ workPc[w] = "idle" /\ workPc' = [workPc EXCEPT ![w] = "deliver"]
          /\ workItem' = [workItem EXCEPT ![w] = it]
          /\ status' = UpdateStatus(status, it.key, "SENDING")
          /\ UNCHANGED <<pollPc, pollItem, timers>>
        BY <1>7, ItemFields DEF Take, WorkerGoes, pollVars, TypeInv, TypeOK
    <2>2. \A i \in DOMAIN queue' : /\ i + 1 \in DOMAIN queue /\ i + 1 # 1
                                   /\ QueueCarries(i, k)' => QueueCarries(i + 1, k)
        BY <1>7 DEF Take, QueueCarries, TypeInv, TypeOK
    <2> HIDE DEF it
    <2>3. \A v \in Workers : WorkerCarries(v, k)' <=> IF v = w THEN k = it.key
                                                     ELSE WorkerCarries(v, k)
        BY <2>1 DEF WorkerCarries, TypeInv, TypeOK
    <2>4. /\ InPoller(k)' <=> InPoller(k)
          /\ InTimers(k)' <=> InTimers(k)
          /\ InQueue(k)' => InQueue(k)
        BY <2>1, <2>2 DEF InPoller, InTimers, InQueue, PollerCarries, TimerCarries
    <2>5. IsInFlightOrProcessed(status[k]) => IsInFlightOrProcessed(status'[k])
        BY <2>1, StaysRefused DEF TypeInv, TypeOK, IsInFlightOrProcessed
    <2>6. CASE k = it.key
        <3>1. QueueCarries(1, k) /\ InQueue(k)
            BY <2>1, <2>6 DEF QueueCarries, InQueue
        <3>2. ~InPoller(k) /\ ~InTimers(k) /\ ~InWorker(k)
            BY <1>0, <3>1 DEF OnceInFlight
        <3>3. ~InQueue(k)'
            BY <1>0, <2>1, <2>2, <3>1 DEF OnceInFlight, InQueue
        <3>4. \A u, v \in Workers : WorkerCarries(u, k)' /\ WorkerCarries(v, k)' => u = v
            BY <2>3, <3>2 DEF InWorker
        <3>5. OnceInFlight(k)'
            BY <2>4, <3>2, <3>3, <3>4 DEF OnceInFlight, InPoller, InQueue, InTimers
        <3> QED
            BY <1>0, <2>5, <3>1, <3>5 DEF FlightInv, Live
    <2>7. CASE k # it.key
        <3>1. \A i, j \in DOMAIN queue' : QueueCarries(i, k)' /\ QueueCarries(j, k)' => i = j
            <4> SUFFICES ASSUME NEW i \in DOMAIN queue', NEW j \in DOMAIN queue',
                                QueueCarries(i, k)', QueueCarries(j, k)'
                         PROVE  i = j
                OBVIOUS
            <4>1. i + 1 = j + 1
                BY <1>0, <2>2 DEF OnceInFlight
            <4>2. i \in Nat /\ j \in Nat
                BY <2>1 DEF TypeInv, TypeOK
            <4> QED
                BY <4>1, <4>2
        <3>2. InWorker(k)' <=> InWorker(k)
            BY <2>1, <2>3, <2>7 DEF InWorker, WorkerCarries
        <3>3. OnceInFlight(k)'
            BY <1>0, <2>1, <2>3, <2>4, <2>7, <3>1, <3>2
               DEF OnceInFlight, PollerCarries, TimerCarries
        <3>4. Live(k)' => Live(k)
            BY <2>4, <3>2 DEF Live
        <3> QED
            BY <1>0, <2>5, <3>3, <3>4 DEF FlightInv
    <2> QED
        BY <2>6, <2>7
<1>8. ASSUME NEW w \in Workers,
             ParserHandles(w) \/ AckReceived(w) \/ DeliveryFails(w)
      PROVE  FlightInv(k)'
    <2>1. /\ workItem[w] \in Items
          /\ workPc[w] # "idle"
          /\ \E pc \in WorkPcs \ {"idle"} : workPc' = [workPc EXCEPT ![w] = pc]
          /\ \/ workItem' = workItem
             \/ workItem' = [workItem EXCEPT ![w].attempts = @ + 1]
          /\ UNCHANGED <<pollPc, pollItem, queue, timers, status>>
        BY <1>8 DEF ParserHandles, AckReceived, DeliveryFails, WorkerGoes, WorkPcs, pollVars,
                    TypeInv, WorkerItems
    <2>2. workItem'[w].key = workItem[w].key
        BY <2>1 DEF TypeInv, TypeOK, Items
    <2>3. \A v \in Workers : WorkerCarries(v, k)' => WorkerCarries(v, k)
        BY <2>1, <2>2 DEF WorkerCarries, TypeInv, TypeOK
    <2>4. OnceInFlight(k)' /\ (Live(k)' => Live(k))
        BY <1>0, <2>1, <2>3, CarriersShrink DEF PollerCarries, QueueCarries, TimerCarries
    <2> QED
        BY <1>0, <2>1, <2>4 DEF FlightInv
<1>9. ASSUME NEW w \in Workers, MarkAcked(w) \/ MarkProcessed(w)
      PROVE  FlightInv(k)'
    <2>1. /\ workItem[w].key \in Keys
          /\ workPc[w] # "idle"
          /\ \E pc \in WorkPcs \ {"idle"} : workPc' = [workPc EXCEPT ![w] = pc]
          /\ \E st \in {"ACKNOWLEDGED", "PROCESSED"} :
                status' = UpdateStatus(status, workItem[w].key, st)
          /\ UNCHANGED <<pollPc, pollItem, queue, timers, workItem>>
        BY <1>9, ItemFields DEF MarkAcked, MarkProcessed, WorkerGoes, WorkPcs, pollVars,
                                TypeInv, WorkerItems
    <2>2. \A v \in Workers : WorkerCarries(v, k)' => WorkerCarries(v, k)
        BY <2>1 DEF WorkerCarries, TypeInv, TypeOK
    <2>3. OnceInFlight(k)' /\ (Live(k)' => Live(k))
        BY <1>0, <2>1, <2>2, CarriersShrink DEF PollerCarries, QueueCarries, TimerCarries
    <2>4. Live(k) => IsInFlightOrProcessed(status'[k])
        BY <1>0, <2>1, StaysRefused DEF FlightInv, TypeInv, TypeOK, IsInFlightOrProcessed
    <2> QED
        BY <2>3, <2>4 DEF FlightInv
<1>10. ASSUME NEW w \in Workers, Finalize(w) \/ FinalizeFails(w) \/ MarkFailed(w)
       PROVE  FlightInv(k)'
    <2>1. /\ workItem[w].key \in Keys
          /\ WorkerIsDone(w)
          /\ \/ status' = status
             \/ status' = UpdateStatus(status, workItem[w].key, "FAILED")
          /\ UNCHANGED <<pollPc, pollItem, queue, timers>>
        BY <1>10, ItemFields DEF Finalize, FinalizeFails, MarkFailed, pollVars, TypeInv,
                                 WorkerItems
    <2>2. \A v \in Workers : WorkerCarries(v, k)' => WorkerCarries(v, k)
        BY <2>1 DEF WorkerIsDone, WorkerGoes, WorkerCarries, TypeInv, TypeOK
    <2>3. OnceInFlight(k)' /\ (Live(k)' => Live(k))
        BY <1>0, <2>1, <2>2, CarriersShrink DEF PollerCarries, QueueCarries, TimerCarries
    <2>4. Live(k) => IsInFlightOrProcessed(status'[k])
        BY <1>0, <2>1, StaysRefused DEF FlightInv, TypeInv, TypeOK, IsInFlightOrProcessed
    <2> QED
        BY <2>3, <2>4 DEF FlightInv
<1>11. ASSUME NEW w \in Workers, MarkRetrying(w)
       PROVE  FlightInv(k)'
    <2> DEFINE it == workItem[w]
    <2>1. /\ it.key \in Keys /\ WorkerCarries(w, it.key)
          /\ WorkerIsDone(w)
          /\ timers' = timers \cup {it}
          /\ status' = UpdateStatus(status, it.key, "RETRYING")
          /\ UNCHANGED <<pollPc, pollItem, queue>>
        BY <1>11, ItemFields DEF MarkRetrying, pollVars, TypeInv, WorkerItems, WorkerCarries
    <2>2. \A v \in Workers : WorkerCarries(v, k)' => v # w /\ WorkerCarries(v, k)
        BY <2>1 DEF WorkerIsDone, WorkerGoes, WorkerCarries, TypeInv, TypeOK
    <2> HIDE DEF it
    <2>3. \A t \in timers' : TimerCarries(t, k)' =>
                IF t = it THEN k = it.key ELSE TimerCarries(t, k)
        BY <2>1 DEF TimerCarries
    <2>4. IsInFlightOrProcessed(status[k]) => IsInFlightOrProcessed(status'[k])
        BY <2>1, StaysRefused DEF TypeInv, TypeOK, IsInFlightOrProcessed
    <2>5. CASE k = it.key
        <3>1. InWorker(k) /\ ~InPoller(k) /\ ~InQueue(k) /\ ~InTimers(k)
            BY <1>0, <2>1, <2>5 DEF InWorker, OnceInFlight
        <3>2. ~InPoller(k)' /\ ~InQueue(k)' /\ ~InWorker(k)'
            BY <1>0, <2>1, <2>2, <2>5, <3>1
               DEF OnceInFlight, InPoller, InQueue, InWorker, PollerCarries, QueueCarries
        <3>3. \A t, u \in timers' : TimerCarries(t, k)' /\ TimerCarries(u, k)' => t = u
            BY <2>3, <3>1 DEF InTimers, TimerCarries
        <3>4. OnceInFlight(k)'
            BY <3>2, <3>3 DEF OnceInFlight, InPoller, InQueue, InWorker
        <3> QED
            BY <1>0, <2>4, <3>1, <3>4 DEF FlightInv, Live
    <2>6. CASE k # it.key
        <3>1. OnceInFlight(k)' /\ (Live(k)' => Live(k))
            BY <1>0, <2>1, <2>2, <2>3, <2>6, CarriersShrink
               DEF PollerCarries, QueueCarries, TimerCarries
        <3> QED
            BY <1>0, <2>4, <3>1 DEF FlightInv
    <2> QED
        BY <2>5, <2>6
<1>12. ASSUME NEW t \in timers, TimerFires(t)
       PROVE  FlightInv(k)'
    <2>1. /\ queue' = Append(queue, t)
          /\ timers' = timers \ {t}
          /\ UNCHANGED <<pollPc, pollItem, workPc, workItem, status>>
        BY <1>12 DEF TimerFires, pollVars, workVars
    <2>2. \A u \in timers' : TimerCarries(u, k)' => u # t /\ TimerCarries(u, k)
        BY <2>1 DEF TimerCarries
    <2>3. \A i \in DOMAIN queue' : QueueCarries(i, k)' =>
                IF i = Len(queue) + 1 THEN k = t.key ELSE QueueCarries(i, k)
        BY <2>1 DEF QueueCarries, TypeInv, TypeOK
    <2>4. CASE k = t.key
        <3>1. TimerCarries(t, k) /\ InTimers(k) /\ ~InPoller(k) /\ ~InQueue(k) /\ ~InWorker(k)
            BY <1>0, <2>4 DEF TimerCarries, InTimers, OnceInFlight
        <3>2. ~InPoller(k)' /\ ~InTimers(k)' /\ ~InWorker(k)'
            BY <1>0, <2>1, <2>2, <3>1
               DEF OnceInFlight, InPoller, InTimers, InWorker, PollerCarries, WorkerCarries
        <3>3. \A i, j \in DOMAIN queue' : QueueCarries(i, k)' /\ QueueCarries(j, k)' => i = j
            BY <2>3, <3>1 DEF InQueue, QueueCarries
        <3>4. OnceInFlight(k)'
            BY <3>2, <3>3 DEF OnceInFlight, InPoller, InTimers, InWorker
        <3> QED
            BY <1>0, <2>1, <3>1, <3>4 DEF FlightInv, Live
    <2>5. CASE k # t.key
        <3>1. OnceInFlight(k)' /\ (Live(k)' => Live(k))
            BY <1>0, <2>1, <2>2, <2>3, <2>5, CarriersShrink DEF PollerCarries, WorkerCarries
        <3> QED
            BY <1>0, <2>1, <3>1 DEF FlightInv
    <2> QED
        BY <2>4, <2>5
<1>13. ASSUME NEW t \in timers, TimerDrops(t)
       PROVE  FlightInv(k)'
    <2>1. /\ timers' \subseteq timers
          /\ UNCHANGED <<pollPc, pollItem, queue, workPc, workItem, status>>
        BY <1>13 DEF TimerDrops, pollVars, workVars
    <2>2. OnceInFlight(k)' /\ (Live(k)' => Live(k))
        BY <1>0, <2>1, CarriersShrink
           DEF PollerCarries, QueueCarries, TimerCarries, WorkerCarries
    <2> QED
        BY <1>0, <2>1, <2>2 DEF FlightInv
<1>14. ASSUME Exit \/ Crash
       PROVE  FlightInv(k)'
    <2>1. ~InPoller(k)' /\ ~InQueue(k)' /\ ~InTimers(k)' /\ ~InWorker(k)'
        BY <1>14 DEF Exit, Crash, ProcessDies, InPoller, InQueue, InTimers, InWorker,
                     PollerCarries, QueueCarries, TimerCarries, WorkerCarries
    <2> QED
        BY <2>1 DEF FlightInv, OnceInFlight, Live, InPoller, InQueue, InTimers, InWorker
<1>15. ASSUME Restart
       PROVE  FlightInv(k)'
    <2>1. ~InPoller(k)' /\ ~InQueue(k)' /\ ~InTimers(k)' /\ ~InWorker(k)'
        BY <1>15 DEF Restart, TypeInv, DownIsEmpty, pollVars, workVars,
                     InPoller, InQueue, InTimers, InWorker,
                     PollerCarries, QueueCarries, TimerCarries, WorkerCarries
    <2> QED
        BY <2>1 DEF FlightInv, OnceInFlight, Live, InPoller, InQueue, InTimers, InWorker
<1>16. ASSUME \/ Environment
              \/ \E s \in Sources : IdleScan(s)
              \/ Stop
              \/ UNCHANGED vars
       PROVE  FlightInv(k)'
    BY <1>1, <1>16 DEF Environment, Produce, IdleScan, Stop, vars, pollVars, workVars
<1> QED
    BY <1>2, <1>3, <1>4, <1>5, <1>6, <1>7, <1>8, <1>9, <1>10, <1>11, <1>12, <1>13, <1>14,
       <1>15, <1>16
       DEF Next, Poller, PollerAdmits, Worker, Timer, Process

RouterInv == TypeInv /\ \A k \in Keys : FlightInv(k)

\* The inductive invariant behind both duplicate-protection theorems.
LEMMA RouterInvariance == Spec => []RouterInv
<1>1. Init => RouterInv
    BY TypeInit, FlightInit DEF RouterInv
<1>2. RouterInv /\ [Next]_vars => RouterInv'
    <2> SUFFICES ASSUME RouterInv, [Next]_vars PROVE RouterInv'
        OBVIOUS
    <2>1. Keys' = Keys
        BY DEF Keys
    <2> QED
        BY <2>1, TypeStep, FlightStep DEF RouterInv
<1> QED
    BY <1>1, <1>2, PTL DEF Spec

\* Whatever the queue's size, the number of workers and sources, and however
\* stops, crashes and retries fall, no record is carried twice.
THEOREM DuplicateProtection == Spec => []NeverTwiceInFlight
<1>1. RouterInv => NeverTwiceInFlight
    BY DEF RouterInv, FlightInv, NeverTwiceInFlight
<1> QED
    BY <1>1, RouterInvariance, PTL

\* A scan never admits a record that some thread still carries.
THEOREM ScanRefusesLive == Spec => []LiveIsRefused
<1>1. RouterInv => LiveIsRefused
    BY DEF RouterInv, FlightInv, LiveIsRefused
<1> QED
    BY <1>1, RouterInvariance, PTL

-----------------------------------------------------------------------------
(* What a record says about the parser.                                    *)

\* A worker past the parser's answer holds a message the parser has taken.
AnsweredWasAccepted ==
    \A w \in Workers :
        workPc[w] \in {"handled", "acked", "processed", "finalize"} =>
            <<workItem[w].key, workItem[w].payload>> \in accepted

AckInv == AnsweredWasAccepted /\ AckedWasAccepted

\* Writing any other status, or writing nothing, acknowledges no record.
LEMMA OtherStatus ==
    ASSUME AckedWasAccepted, accepted \subseteq accepted', NEW j,
           NEW st \in FileStates \ {"ACKNOWLEDGED", "PROCESSED"},
           status \in [Keys -> Statuses],
           \/ status' = status
           \/ status' = UpdateStatus(status, j, st)
           \/ status' = RecordDiscovered(status, j, st)
    PROVE  AckedWasAccepted'
BY DEF AckedWasAccepted, UpdateStatus, RecordDiscovered

\* Every step keeps the acknowledgements true.
LEMMA AckStep == TypeInv /\ AckInv /\ [Next]_vars => AckInv'
<1> SUFFICES ASSUME TypeInv, AckInv, [Next]_vars PROVE AckInv'
    OBVIOUS
<1> USE DEF AckInv
<1>0. status \in [Keys -> Statuses] /\ workPc \in [Workers -> WorkPcs]
      /\ workItem \in [Workers -> Items \cup {NoItem}]
    BY DEF TypeInv, TypeOK
<1>1. ASSUME UNCHANGED <<workPc, workItem, accepted, status>>
      PROVE  AckInv'
    BY <1>1 DEF AnsweredWasAccepted, AckedWasAccepted
<1>2. ASSUME NEW s \in Sources, Poller(s)
      PROVE  AckInv'
    <2>1. UNCHANGED <<workPc, workItem, accepted>>
        BY <1>2 DEF Poller, PollerAdmits, Admit, IdleScan, ReadContent, ReadFails, PutAccept,
                    MarkQueued, PutReject, vars, workVars
    <2>2. \/ status' = status
          \/ status' = UpdateStatus(status, pollItem[s].key, "DISCOVERED")
          \/ status' = UpdateStatus(status, pollItem[s].key, "QUEUED")
          \/ \E j \in Keys : status' = RecordDiscovered(status, j, "READY")
        BY <1>2 DEF Poller, PollerAdmits, Admit, IdleScan, ReadContent, ReadFails, PutAccept,
                    MarkQueued, PutReject, PollerGivesUp, vars, FileStates, Admissible, Keys
    <2> QED
        BY <1>0, <2>1, <2>2, OtherStatus DEF AnsweredWasAccepted, FileStates
<1>3. ASSUME NEW w \in Workers, Take(w) \/ MarkRetrying(w) \/ MarkFailed(w)
      PROVE  AckInv'
    <2>1. accepted' = accepted /\ AnsweredWasAccepted'
        BY <1>0, <1>3 DEF Take, MarkRetrying, MarkFailed, WorkerIsDone, WorkerGoes,
                          AnsweredWasAccepted
    <2>2. \/ status' = UpdateStatus(status, Head(queue).key, "SENDING")
          \/ status' = UpdateStatus(status, workItem[w].key, "RETRYING")
          \/ status' = UpdateStatus(status, workItem[w].key, "FAILED")
        BY <1>3 DEF Take, MarkRetrying, MarkFailed
    <2> QED
        BY <1>0, <2>1, <2>2, OtherStatus DEF FileStates
<1>4. ASSUME NEW w \in Workers, ParserHandles(w)
      PROVE  AckInv'
    BY <1>0, <1>4 DEF ParserHandles, WorkerGoes, AnsweredWasAccepted, AckedWasAccepted
<1>5. ASSUME NEW w \in Workers, AckReceived(w)
      PROVE  AckInv'
    BY <1>0, <1>5 DEF AckReceived, WorkerGoes, AnsweredWasAccepted, AckedWasAccepted
<1>6. ASSUME NEW w \in Workers, DeliveryFails(w)
      PROVE  AckInv'
    BY <1>0, <1>6 DEF DeliveryFails, WorkerGoes, AnsweredWasAccepted, AckedWasAccepted
<1>7. ASSUME NEW w \in Workers, MarkAcked(w) \/ MarkProcessed(w)
      PROVE  AckInv'
    <2>1. /\ workItem[w].payload \in Hashes
          /\ <<workItem[w].key, workItem[w].payload>> \in accepted
          /\ accepted' = accepted
        BY <1>7 DEF MarkAcked, MarkProcessed, AnsweredWasAccepted, TypeInv, WorkerItems
    <2>2. AckedWasAccepted'
        BY <1>0, <1>7, <2>1 DEF MarkAcked, MarkProcessed, UpdateStatus, AckedWasAccepted
    <2>3. AnsweredWasAccepted'
        BY <1>0, <1>7 DEF MarkAcked, MarkProcessed, WorkerGoes, AnsweredWasAccepted
    <2> QED
        BY <2>2, <2>3
<1>8. ASSUME NEW w \in Workers, Finalize(w) \/ FinalizeFails(w)
      PROVE  AckInv'
    BY <1>0, <1>8 DEF Finalize, FinalizeFails, WorkerIsDone, WorkerGoes, AnsweredWasAccepted,
                      AckedWasAccepted
<1>9. ASSUME Exit \/ Crash
      PROVE  AckInv'
    BY <1>9 DEF Exit, Crash, ProcessDies, AnsweredWasAccepted, AckedWasAccepted
<1>10. ASSUME Restart
       PROVE  AckInv'
    BY <1>0, <1>10 DEF Restart, workVars, ResetInterrupted, AnsweredWasAccepted,
                       AckedWasAccepted
<1>11. ASSUME \/ Environment
              \/ \E t \in timers : Timer(t)
              \/ Stop
              \/ UNCHANGED vars
       PROVE  AckInv'
    BY <1>1, <1>11 DEF Environment, Produce, Timer, TimerFires, TimerDrops, Stop, vars,
                       workVars
<1> QED
    BY <1>2, <1>3, <1>4, <1>5, <1>6, <1>7, <1>8, <1>9, <1>10, <1>11
       DEF Next, Worker, Process

\* No record ever says the parser has taken a file which it has not, through
\* any number of retries, stops, crashes and restarts.
THEOREM AcknowledgementIsTrue == Spec => []AckedWasAccepted
<1>1. Init => AckInv
    BY DEF Init, AckInv, AnsweredWasAccepted, AckedWasAccepted
<1>2. AckInv => AckedWasAccepted
    BY DEF AckInv
<1> QED
    BY TypeInit, TypeStep, <1>1, AckStep, <1>2, PTL DEF Spec

-----------------------------------------------------------------------------
(* A finished record stays finished, but for a late MarkQueued.            *)

\* A finished record is carried by nobody but the worker that finishes it.
SettledInv(k) ==
    Settled(status[k]) =>
        /\ \A s \in Sources : ~PollerCarries(s, k)
        /\ \A i \in DOMAIN queue : ~QueueCarries(i, k)
        /\ \A t \in timers : ~TimerCarries(t, k)
        /\ \A w \in Workers : WorkerCarries(w, k) => workPc[w] \in {"processed", "finalize"}

\* The entries of a queue with one more item are its old ones and the item.
LEMMA Appended ==
    ASSUME NEW q \in Seq(Items), NEW it \in Items, NEW i \in DOMAIN Append(q, it)
    PROVE  Append(q, it)[i] = it \/ (i \in DOMAIN q /\ Append(q, it)[i] = q[i])
OBVIOUS

\* A worker is the only carrier of its record.
LEMMA OnlyCarrier ==
    ASSUME TypeInv, NEW k \in Keys, OnceInFlight(k), NEW w \in Workers, WorkerCarries(w, k)
    PROVE  /\ \A s \in Sources : ~PollerCarries(s, k)
           /\ \A i \in DOMAIN queue : ~QueueCarries(i, k)
           /\ \A t \in timers : ~TimerCarries(t, k)
           /\ \A u \in Workers : WorkerCarries(u, k) => u = w
BY DEF OnceInFlight, InPoller, InQueue, InTimers, InWorker

\* Every step leaves a finished record to its worker, and none reopens it but
\* a late MarkQueued.
LEMMA SettledStep ==
    ASSUME RouterInv, [Next]_vars, NEW k \in Keys, SettledInv(k)
    PROVE  /\ SettledInv(k)'
           /\ Settled(status[k]) /\ ~Settled(status'[k]) =>
                 /\ status'[k] = "QUEUED"
                 /\ \E s \in Sources : pollPc[s] = "queued" /\ pollItem[s].key = k
<1> DEFINE Late == \E u \in Sources : pollPc[u] = "queued" /\ pollItem[u].key = k
           Stays == Settled(status[k]) => Settled(status'[k])
           Goal == /\ SettledInv(k)'
                   /\ Settled(status[k]) /\ ~Settled(status'[k]) =>
                         status'[k] = "QUEUED" /\ Late
<1> SUFFICES Goal
    OBVIOUS
<1>0. TypeInv /\ OnceInFlight(k) /\ (Live(k) => IsInFlightOrProcessed(status[k]))
      /\ status \in [Keys -> Statuses] /\ pollPc \in [Sources -> PollPcs]
      /\ workPc \in [Workers -> WorkPcs] /\ workItem \in [Workers -> Items \cup {NoItem}]
      /\ pollItem \in [Sources -> Items \cup {NoItem}]
      /\ queue \in Seq(Items)
    BY DEF RouterInv, FlightInv, TypeInv, TypeOK
<1>1. ASSUME UNCHANGED <<pollPc, pollItem, queue, timers, workPc, workItem, status>>
      PROVE  Goal
    BY <1>1 DEF SettledInv, PollerCarries, QueueCarries, TimerCarries, WorkerCarries
<1>2. ASSUME NEW s \in Sources, NEW f \in Files, Admit(s, f)
      PROVE  Goal
    <2> DEFINE new == <<f, disk[f]>>
    <2>1. /\ new \in Keys /\ ~Settled(status[new])
          /\ status' = [status EXCEPT ![new] = "READY"]
          /\ pollPc' = [pollPc EXCEPT ![s] = "read"]
          /\ pollItem' = [pollItem EXCEPT ![s] =
                            [key |-> new, payload |-> Absent, attempts |-> 0]]
          /\ UNCHANGED <<queue, timers, workPc, workItem>>
        BY <1>2 DEF Admit, Admissible, Keys, RecordDiscovered, workVars, Settled,
                    IsInFlightOrProcessed
    <2> HIDE DEF new
    <2>2. \A u \in Sources : PollerCarries(u, k)' => PollerCarries(u, k) \/ k = new
        BY <1>0, <2>1 DEF PollerCarries
    <2>3. Settled(status'[k]) => k # new /\ Settled(status[k])
        BY <1>0, <2>1 DEF Settled
    <2>4. SettledInv(k)'
        BY <2>1, <2>2, <2>3 DEF SettledInv, QueueCarries, TimerCarries, WorkerCarries
    <2>5. Stays
        BY <1>0, <2>1 DEF Settled
    <2> QED
        BY <2>4, <2>5
<1>3. ASSUME NEW s \in Sources, ReadContent(s) \/ PutAccept(s)
      PROVE  Goal
    <2>1. /\ pollItem[s] \in Items /\ PollerCarries(s, pollItem[s].key)
          /\ UNCHANGED <<timers, workPc, workItem, status>>
          /\ \/ /\ pollItem' = [pollItem EXCEPT ![s].payload = disk[pollItem[s].key[1]]]
                /\ pollPc' = [pollPc EXCEPT ![s] = "put"]
                /\ queue' = queue
             \/ /\ pollItem' = pollItem
                /\ pollPc' = [pollPc EXCEPT ![s] = "queued"]
                /\ queue' = Append(queue, pollItem[s])
        BY <1>0, <1>3 DEF ReadContent, PutAccept, workVars, TypeInv, PollerItems,
                          PollerCarries
    <2>2. pollItem'[s].key = pollItem[s].key
        BY <1>0, <2>1 DEF Items
    <2>3. \A u \in Sources : PollerCarries(u, k)' => PollerCarries(u, k)
        BY <1>0, <2>1, <2>2 DEF PollerCarries
    <2>4. \A i \in DOMAIN queue' : QueueCarries(i, k)' =>
                PollerCarries(s, k) \/ (i \in DOMAIN queue /\ QueueCarries(i, k))
        <3>1. CASE queue' = queue
            BY <3>1 DEF QueueCarries
        <3>2. CASE queue' = Append(queue, pollItem[s])
            BY <1>0, <2>1, <3>2, Appended DEF QueueCarries
        <3> QED
            BY <2>1, <3>1, <3>2
    <2>5. SettledInv(k)'
        BY <2>1, <2>3, <2>4 DEF SettledInv, TimerCarries, WorkerCarries
    <2> QED
        BY <2>1, <2>5
<1>4. ASSUME NEW s \in Sources, ReadFails(s) \/ PutReject(s)
      PROVE  Goal
    <2>1. /\ pollItem[s].key \in Keys /\ PollerCarries(s, pollItem[s].key)
          /\ status' = UpdateStatus(status, pollItem[s].key, "DISCOVERED")
          /\ pollPc' = [pollPc EXCEPT ![s] = "idle"]
          /\ pollItem' = [pollItem EXCEPT ![s] = NoItem]
          /\ UNCHANGED <<queue, timers, workPc, workItem>>
        BY <1>0, <1>4, ItemFields DEF ReadFails, PutReject, PollerGivesUp, workVars, TypeInv,
                                      PollerItems, PollerCarries
    <2>2. \A u \in Sources : PollerCarries(u, k)' => PollerCarries(u, k)
        BY <1>0, <2>1 DEF PollerCarries
    <2>3. Settled(status[k]) => k # pollItem[s].key
        BY <2>1 DEF SettledInv
    <2>4. Settled(status'[k]) <=> Settled(status[k])
        BY <1>0, <2>1, <2>3 DEF Settled, UpdateStatus
    <2>5. SettledInv(k)'
        BY <2>1, <2>2, <2>4 DEF SettledInv, QueueCarries, TimerCarries, WorkerCarries
    <2> QED
        BY <2>4, <2>5
<1>5. ASSUME NEW s \in Sources, MarkQueued(s)
      PROVE  Goal
    <2>1. /\ pollItem[s].key \in Keys
          /\ pollPc[s] = "queued"
          /\ status' = UpdateStatus(status, pollItem[s].key, "QUEUED")
          /\ pollPc' = [pollPc EXCEPT ![s] = "idle"]
          /\ pollItem' = [pollItem EXCEPT ![s] = NoItem]
          /\ UNCHANGED <<queue, timers, workPc, workItem>>
        BY <1>5, ItemFields DEF MarkQueued, workVars, RouterInv, TypeInv, PollerItems
    <2>2. \A u \in Sources : PollerCarries(u, k)' => PollerCarries(u, k)
        BY <1>0, <2>1 DEF PollerCarries
    <2>3. \/ status'[k] = status[k]
          \/ k = pollItem[s].key /\ status'[k] = "QUEUED"
        BY <1>0, <2>1 DEF UpdateStatus
    <2>4. SettledInv(k)'
        BY <2>1, <2>2, <2>3 DEF SettledInv, Settled, QueueCarries, TimerCarries, WorkerCarries
    <2> QED
        BY <2>1, <2>3, <2>4
<1>6. ASSUME NEW w \in Workers, Take(w)
      PROVE  Goal
    <2> DEFINE it == Head(queue)
    <2>1. /\ it \in Items /\ it.key \in Keys
          /\ 1 \in DOMAIN queue /\ QueueCarries(1, it.key)
          /\ queue' = Tail(queue)
          /\ workPc' = [workPc EXCEPT ![w] = "deliver"]
          /\ workItem' = [workItem EXCEPT ![w] = it]
          /\ status' = UpdateStatus(status, it.key, "SENDING")
          /\ UNCHANGED <<pollPc, pollItem, timers>>
        BY <1>0, <1>6, ItemFields DEF Take, WorkerGoes, pollVars, QueueCarries
    <2>2. \A i \in DOMAIN queue' : /\ i + 1 \in DOMAIN queue
                                   /\ QueueCarries(i, k)' => QueueCarries(i + 1, k)
        BY <1>0, <1>6 DEF Take, QueueCarries
    <2> HIDE DEF it
    <2>3. Settled(status[k]) => k # it.key
        BY <2>1 DEF SettledInv
    <2>4. Settled(status'[k]) => Settled(status[k])
        BY <1>0, <2>1 DEF Settled, UpdateStatus
    <2>5. \A v \in Workers : WorkerCarries(v, k)' =>
                k = it.key \/ (WorkerCarries(v, k) /\ workPc'[v] = workPc[v])
        BY <1>0, <2>1 DEF WorkerCarries
    <2>6. SettledInv(k)'
        BY <2>1, <2>2, <2>3, <2>4, <2>5 DEF SettledInv, PollerCarries, TimerCarries
    <2>7. Stays
        BY <1>0, <2>1, <2>3 DEF Settled, UpdateStatus
    <2> QED
        BY <2>6, <2>7
<1>7. ASSUME NEW w \in Workers,
             ParserHandles(w) \/ AckReceived(w) \/ DeliveryFails(w)
      PROVE  Goal
    <2>1. /\ workItem[w] \in Items
          /\ workPc[w] \in {"deliver", "handled"}
          /\ \E pc \in WorkPcs \ {"idle"} : workPc' = [workPc EXCEPT ![w] = pc]
          /\ \/ workItem' = workItem
             \/ workItem' = [workItem EXCEPT ![w].attempts = @ + 1]
          /\ UNCHANGED <<pollPc, pollItem, queue, timers, status>>
        BY <1>0, <1>7 DEF ParserHandles, AckReceived, DeliveryFails, WorkerGoes, WorkPcs,
                          pollVars, TypeInv, WorkerItems
    <2>2. workItem'[w].key = workItem[w].key
        BY <1>0, <2>1 DEF Items
    <2>3. \A v \in Workers : WorkerCarries(v, k)' =>
                WorkerCarries(v, k) /\ (v # w => workPc'[v] = workPc[v])
        BY <1>0, <2>1, <2>2 DEF WorkerCarries
    <2>4. SettledInv(k)'
        BY <2>1, <2>3 DEF SettledInv, PollerCarries, QueueCarries, TimerCarries
    <2> QED
        BY <2>1, <2>4
<1>8. ASSUME NEW w \in Workers, MarkAcked(w) \/ MarkProcessed(w)
      PROVE  Goal
    <2>1. /\ workItem[w].key \in Keys /\ WorkerCarries(w, workItem[w].key)
          /\ \E pc \in {"processed", "finalize"} : workPc' = [workPc EXCEPT ![w] = pc]
          /\ \E st \in {"ACKNOWLEDGED", "PROCESSED"} :
                status' = UpdateStatus(status, workItem[w].key, st)
          /\ UNCHANGED <<pollPc, pollItem, queue, timers, workItem>>
        BY <1>0, <1>8, ItemFields DEF MarkAcked, MarkProcessed, WorkerGoes, pollVars, TypeInv,
                                      WorkerItems, WorkerCarries
    <2>2. Settled(status'[k]) => Settled(status[k]) \/ k = workItem[w].key
        BY <1>0, <2>1 DEF Settled, UpdateStatus
    <2>3. Stays
        BY <1>0, <2>1 DEF Settled, UpdateStatus
    <2>4. k = workItem[w].key =>
              /\ \A u \in Sources : ~PollerCarries(u, k)
              /\ \A i \in DOMAIN queue : ~QueueCarries(i, k)
              /\ \A t \in timers : ~TimerCarries(t, k)
              /\ \A u \in Workers : WorkerCarries(u, k) => u = w
        BY <1>0, <2>1, OnlyCarrier
    <2>5. \A v \in Workers : WorkerCarries(v, k)' =>
                /\ WorkerCarries(v, k)
                /\ workPc'[v] = workPc[v] \/ workPc'[v] \in {"processed", "finalize"}
                /\ v = w => workPc'[v] \in {"processed", "finalize"}
        BY <1>0, <2>1 DEF WorkerCarries
    <2>6. SettledInv(k)'
        <3>1. CASE k = workItem[w].key
            BY <2>1, <2>4, <2>5, <3>1 DEF SettledInv, PollerCarries, QueueCarries, TimerCarries
        <3>2. CASE k # workItem[w].key
            BY <2>1, <2>2, <2>5, <3>2 DEF SettledInv, PollerCarries, QueueCarries, TimerCarries
        <3> QED
            BY <3>1, <3>2
    <2> QED
        BY <2>3, <2>6
<1>9. ASSUME NEW w \in Workers, Finalize(w) \/ FinalizeFails(w) \/ MarkFailed(w)
      PROVE  Goal
    <2>1. /\ workItem[w].key \in Keys /\ WorkerCarries(w, workItem[w].key)
          /\ WorkerIsDone(w)
          /\ \/ status' = status
             \/ status' = UpdateStatus(status, workItem[w].key, "FAILED")
          /\ UNCHANGED <<pollPc, pollItem, queue, timers>>
        BY <1>0, <1>9, ItemFields DEF Finalize, FinalizeFails, MarkFailed, pollVars, TypeInv,
                                      WorkerItems, WorkerCarries
    <2>2. \A v \in Workers : WorkerCarries(v, k)' =>
                v # w /\ WorkerCarries(v, k) /\ workPc'[v] = workPc[v]
        BY <1>0, <2>1 DEF WorkerIsDone, WorkerGoes, WorkerCarries
    <2>3. /\ Settled(status'[k]) => Settled(status[k]) \/ k = workItem[w].key
          /\ Stays
        BY <1>0, <2>1 DEF Settled, UpdateStatus
    <2>4. k = workItem[w].key =>
              /\ \A u \in Sources : ~PollerCarries(u, k)
              /\ \A i \in DOMAIN queue : ~QueueCarries(i, k)
              /\ \A t \in timers : ~TimerCarries(t, k)
              /\ \A u \in Workers : WorkerCarries(u, k) => u = w
        BY <1>0, <2>1, OnlyCarrier
    <2>5. SettledInv(k)'
        BY <2>1, <2>2, <2>3, <2>4 DEF SettledInv, PollerCarries, QueueCarries, TimerCarries
    <2> QED
        BY <2>3, <2>5
<1>10. ASSUME NEW w \in Workers, MarkRetrying(w)
       PROVE  Goal
    <2> DEFINE it == workItem[w]
    <2>1. /\ it.key \in Keys /\ WorkerCarries(w, it.key) /\ workPc[w] = "failed"
          /\ WorkerIsDone(w)
          /\ timers' = timers \cup {it}
          /\ status' = UpdateStatus(status, it.key, "RETRYING")
          /\ UNCHANGED <<pollPc, pollItem, queue>>
        BY <1>0, <1>10, ItemFields DEF MarkRetrying, pollVars, TypeInv, WorkerItems,
                                       WorkerCarries
    <2>2. \A v \in Workers : WorkerCarries(v, k)' =>
                WorkerCarries(v, k) /\ workPc'[v] = workPc[v]
        BY <1>0, <2>1 DEF WorkerIsDone, WorkerGoes, WorkerCarries
    <2> HIDE DEF it
    <2>3. Settled(status[k]) => k # it.key
        BY <2>1 DEF SettledInv
    <2>4. Settled(status'[k]) <=> Settled(status[k])
        BY <1>0, <2>1, <2>3 DEF Settled, UpdateStatus
    <2>5. \A t \in timers' : TimerCarries(t, k)' =>
                k = it.key \/ (t \in timers /\ TimerCarries(t, k))
        BY <2>1 DEF TimerCarries
    <2>6. SettledInv(k)'
        BY <2>1, <2>2, <2>3, <2>4, <2>5 DEF SettledInv, PollerCarries, QueueCarries
    <2> QED
        BY <2>4, <2>6
<1>11. ASSUME NEW t \in timers, Timer(t)
       PROVE  Goal
    <2>1. /\ timers' = timers \ {t}
          /\ queue' = queue \/ queue' = Append(queue, t)
          /\ UNCHANGED <<pollPc, pollItem, workPc, workItem, status>>
        BY <1>11 DEF Timer, TimerFires, TimerDrops, pollVars, workVars
    <2>2. \A i \in DOMAIN queue' : QueueCarries(i, k)' =>
                TimerCarries(t, k) \/ (i \in DOMAIN queue /\ QueueCarries(i, k))
        <3>1. t \in Items
            BY <1>0 DEF TypeInv, TypeOK
        <3>2. CASE queue' = queue
            BY <3>2 DEF QueueCarries
        <3>3. CASE queue' = Append(queue, t)
            BY <1>0, <3>1, <3>3, Appended DEF QueueCarries, TimerCarries
        <3> QED
            BY <2>1, <3>2, <3>3
    <2>3. SettledInv(k)'
        BY <2>1, <2>2 DEF SettledInv, PollerCarries, TimerCarries, WorkerCarries
    <2> QED
        BY <2>1, <2>3
<1>12. ASSUME Exit \/ Crash
       PROVE  Goal
    BY <1>0, <1>12 DEF Exit, Crash, ProcessDies, SettledInv, PollerCarries, QueueCarries,
                       TimerCarries, WorkerCarries
<1>13. ASSUME Restart
       PROVE  Goal
    <2>1. /\ UNCHANGED <<pollPc, pollItem, queue, timers, workPc, workItem>>
          /\ status' = ResetInterrupted(status)
        BY <1>13 DEF Restart, pollVars, workVars
    <2>2. DOMAIN status = Keys
        BY <1>0
    <2>3. Settled(status'[k]) <=> Settled(status[k])
        BY <2>1, <2>2 DEF ResetInterrupted, IsInterrupted, Settled
    <2> QED
        BY <2>1, <2>3 DEF SettledInv, PollerCarries, QueueCarries, TimerCarries,
                          WorkerCarries
<1>14. ASSUME \/ Environment
              \/ \E u \in Sources : IdleScan(u)
              \/ Stop
              \/ UNCHANGED vars
       PROVE  Goal
    BY <1>1, <1>14 DEF Environment, Produce, IdleScan, Stop, vars, pollVars, workVars
<1> QED
    BY <1>2, <1>3, <1>4, <1>5, <1>6, <1>7, <1>8, <1>9, <1>10, <1>11, <1>12, <1>13, <1>14
       DEF Next, Poller, PollerAdmits, Worker, Process

\* Whatever retries, stops, crashes and restarts do, a record that says
\* ACKNOWLEDGED, PROCESSED or FAILED is reopened by nothing but the QUEUED of
\* the poller that had put its item into the queue.
THEOREM SettledIsFinal == Spec => OnlyLateQueuedReopens
<1> DEFINE AllSettled == \A k \in Keys : SettledInv(k)
           Reopens ==
               \A k \in Keys :
                   Settled(status[k]) /\ ~Settled(status'[k]) =>
                       /\ status'[k] = "QUEUED"
                       /\ \E s \in Sources : pollPc[s] = "queued" /\ pollItem[s].key = k
<1>1. Init => AllSettled
    BY DEF Init, SettledInv, Settled
<1>2. RouterInv /\ AllSettled /\ [Next]_vars => AllSettled' /\ Reopens
    <2>1. Keys' = Keys
        BY DEF Keys
    <2> QED
        BY <2>1, SettledStep
<1>3. RouterInv /\ AllSettled /\ [Next]_vars => [Reopens]_vars
    BY <1>2
<1>4. OnlyLateQueuedReopens <=> [][Reopens]_vars
    BY DEF OnlyLateQueuedReopens
<1> HIDE DEF AllSettled, Reopens
<1> QED
    BY RouterInvariance, <1>1, <1>2, <1>3, <1>4, PTL DEF Spec

-----------------------------------------------------------------------------
(* Producers that overwrite nothing.  As long as a record is carried its   *)
(* file is on disk as it was hashed, so what is read is what was hashed,   *)
(* what is delivered is what is removed, and a file has one live record.   *)

OnDisk(k) == disk[k[1]] = k[2]
Fresh(it) == OnDisk(it.key) /\ it.payload = it.key[2]

FreshInv ==
    /\ \A s \in Sources :
          /\ pollPc[s] \in {"read", "put"} => OnDisk(pollItem[s].key)
          /\ pollPc[s] = "put" => pollItem[s].payload = pollItem[s].key[2]
    /\ \A i \in DOMAIN queue : Fresh(queue[i])
    /\ \A t \in timers : Fresh(t)
    /\ \A w \in Workers : workPc[w] # "idle" => Fresh(workItem[w])
    /\ PayloadMatchesHash

\* The keys of what is carried.
LEMMA CarriedKeys ==
    ASSUME TypeInv
    PROVE  /\ \A s \in Sources : pollPc[s] # "idle" => pollItem[s].key \in Keys
           /\ \A i \in DOMAIN queue : queue[i] \in Items /\ queue[i].key \in Keys
           /\ \A t \in timers : t.key \in Keys
           /\ \A w \in Workers : workPc[w] # "idle" => workItem[w].key \in Keys
BY ItemFields DEF TypeInv, TypeOK, PollerItems, WorkerItems

\* Every step keeps the carried records on disk, if no file is overwritten.
LEMMA FreshStep == ~Rewrites /\ RouterInv /\ FreshInv /\ [Next]_vars => FreshInv'
<1> SUFFICES ASSUME ~Rewrites, RouterInv, FreshInv, [Next]_vars PROVE FreshInv'
    OBVIOUS
<1>0. /\ TypeInv
      /\ disk \in [Files -> Hashes \cup {Absent}]
      /\ pollPc \in [Sources -> PollPcs]
      /\ pollItem \in [Sources -> Items \cup {NoItem}]
      /\ queue \in Seq(Items)
      /\ timers \subseteq Items
      /\ workPc \in [Workers -> WorkPcs]
      /\ workItem \in [Workers -> Items \cup {NoItem}]
    BY DEF RouterInv, TypeInv, TypeOK
<1>k. /\ \A s \in Sources : pollPc[s] # "idle" => pollItem[s].key \in Keys
      /\ \A i \in DOMAIN queue : queue[i] \in Items /\ queue[i].key \in Keys
      /\ \A t \in timers : t.key \in Keys
      /\ \A w \in Workers : workPc[w] # "idle" => workItem[w].key \in Keys
    BY <1>0, CarriedKeys
<1>1. ASSUME UNCHANGED <<disk, pollPc, pollItem, queue, timers, workPc, workItem, accepted>>
      PROVE  FreshInv'
    BY <1>1 DEF FreshInv, Fresh, OnDisk, PayloadMatchesHash
<1>2. ASSUME NEW f \in Files, NEW h \in Hashes, Produce(f, h)
      PROVE  FreshInv'
    <2>1. /\ disk[f] = Absent /\ disk' = [disk EXCEPT ![f] = h]
          /\ UNCHANGED <<pollPc, pollItem, queue, timers, workPc, workItem, accepted>>
        BY <1>2 DEF Produce, pollVars, workVars
    <2>2. \A k \in Keys : OnDisk(k) => OnDisk(k)'
        BY <1>0, <2>1, AbsentAssumption DEF OnDisk, Keys
    <2> QED
        BY <1>k, <2>1, <2>2 DEF FreshInv, Fresh, PayloadMatchesHash, PollPcs
<1>3. ASSUME NEW s \in Sources, Poller(s)
      PROVE  FreshInv'
    <2>1. UNCHANGED <<disk, timers, workPc, workItem, accepted>>
        BY <1>3 DEF Poller, PollerAdmits, Admit, IdleScan, ReadContent, ReadFails, PutAccept,
                    MarkQueued, PutReject, vars, workVars
    <2>2. \A k : OnDisk(k)' <=> OnDisk(k)
        BY <2>1 DEF OnDisk
    <2>3. \A u \in Sources \ {s} : pollPc'[u] = pollPc[u] /\ pollItem'[u] = pollItem[u]
        BY <1>0, <1>3 DEF Poller, PollerAdmits, Admit, IdleScan, ReadContent, ReadFails,
                          PutAccept, MarkQueued, PutReject, PollerGivesUp, vars, pollVars
    <2>4. /\ pollPc'[s] \in {"read", "put"} => OnDisk(pollItem'[s].key)
          /\ pollPc'[s] = "put" => pollItem'[s].payload = pollItem'[s].key[2]
        <3>1. CASE PollerAdmits(s)
            BY <1>0, <3>1 DEF PollerAdmits, Admit, OnDisk
        <3>2. CASE ReadContent(s)
            <4>1. pollItem[s] \in Items /\ OnDisk(pollItem[s].key)
                BY <1>0, <3>2 DEF ReadContent, TypeInv, PollerItems, FreshInv
            <4>2. /\ pollItem'[s].key = pollItem[s].key
                  /\ pollItem'[s].payload = disk[pollItem[s].key[1]]
                BY <1>0, <3>2, <4>1 DEF ReadContent, Items
            <4> QED
                BY <4>1, <4>2 DEF OnDisk
        <3>3. CASE ReadFails(s) \/ MarkQueued(s) \/ PutReject(s)
            BY <1>0, <3>3 DEF ReadFails, PutReject, PollerGivesUp, MarkQueued
        <3>4. CASE PutAccept(s)
            BY <1>0, <3>4 DEF PutAccept
        <3>5. CASE IdleScan(s)
            BY <3>5 DEF IdleScan, vars, pollVars, FreshInv
        <3> QED
            BY <1>3, <3>1, <3>2, <3>3, <3>4, <3>5 DEF Poller
    <2>5. \A i \in DOMAIN queue' : Fresh(queue'[i])
        <3>1. CASE PutAccept(s)
            <4>1. /\ pollItem[s] \in Items /\ Fresh(pollItem[s])
                  /\ queue' = Append(queue, pollItem[s])
                BY <1>0, <3>1 DEF PutAccept, TypeInv, PollerItems, FreshInv, Fresh
            <4> QED
                BY <1>0, <4>1, Appended DEF FreshInv
        <3>2. CASE ~PutAccept(s)
            <4>1. queue' = queue
                BY <1>3, <3>2 DEF Poller, PollerAdmits, Admit, IdleScan, ReadContent,
                                  ReadFails, MarkQueued, PutReject, vars
            <4> QED
                BY <4>1 DEF FreshInv
        <3> QED
            BY <3>1, <3>2
    <2>6. \A u \in Sources :
              /\ pollPc'[u] \in {"read", "put"} => OnDisk(pollItem'[u].key)
              /\ pollPc'[u] = "put" => pollItem'[u].payload = pollItem'[u].key[2]
        BY <2>3, <2>4 DEF FreshInv
    <2> HIDE DEF OnDisk
    <2> QED
        BY <2>1, <2>2, <2>5, <2>6 DEF FreshInv, Fresh, PayloadMatchesHash
<1>4. ASSUME NEW w \in Workers, Take(w)
      PROVE  FreshInv'
    <2>1. /\ 1 \in DOMAIN queue /\ Head(queue) = queue[1]
          /\ \A i \in DOMAIN queue' : i + 1 \in DOMAIN queue /\ queue'[i] = queue[i + 1]
        BY <1>0, <1>4 DEF Take
    <2> QED
        BY <1>0, <1>4, <2>1 DEF Take, WorkerGoes, pollVars, envVars, FreshInv, Fresh, OnDisk,
                                PayloadMatchesHash
<1>5. ASSUME NEW w \in Workers, ParserHandles(w)
      PROVE  FreshInv'
    BY <1>0, <1>5 DEF ParserHandles, WorkerGoes, pollVars, FreshInv, Fresh, OnDisk,
                      PayloadMatchesHash
<1>6. ASSUME NEW w \in Workers, AckReceived(w) \/ MarkAcked(w) \/ MarkProcessed(w)
      PROVE  FreshInv'
    BY <1>0, <1>6 DEF AckReceived, MarkAcked, MarkProcessed, WorkerGoes, pollVars, FreshInv,
                      Fresh, OnDisk, PayloadMatchesHash
<1>7. ASSUME NEW w \in Workers, DeliveryFails(w)
      PROVE  FreshInv'
    <2>1. workItem[w] \in Items /\ workPc[w] # "idle"
        BY <1>0, <1>7 DEF DeliveryFails, TypeInv, WorkerItems
    <2>2. /\ workItem'[w].key = workItem[w].key
          /\ workItem'[w].payload = workItem[w].payload
          /\ \A u \in Workers \ {w} : workItem'[u] = workItem[u] /\ workPc'[u] = workPc[u]
          /\ UNCHANGED <<disk, pollPc, pollItem, queue, timers, accepted>>
        BY <1>0, <1>7, <2>1 DEF DeliveryFails, WorkerGoes, Items, pollVars
    <2>3. \A u \in Workers : workPc'[u] # "idle" =>
              /\ workPc[u] # "idle"
              /\ workItem'[u].key = workItem[u].key
              /\ workItem'[u].payload = workItem[u].payload
        BY <2>1, <2>2
    <2> QED
        BY <2>2, <2>3 DEF FreshInv, Fresh, OnDisk, PayloadMatchesHash
<1>8. ASSUME NEW w \in Workers, Finalize(w) \/ FinalizeFails(w)
      PROVE  FreshInv'
    <2> DEFINE key == workItem[w].key
    <2>1. /\ key \in Keys /\ WorkerCarries(w, key) /\ OnceInFlight(key) /\ OnDisk(key)
          /\ disk' = disk \/ disk' = [disk EXCEPT ![key[1]] = Absent]
          /\ WorkerIsDone(w)
          /\ UNCHANGED <<pollPc, pollItem, queue, timers, accepted>>
        BY <1>k, <1>8 DEF Finalize, FinalizeFails, pollVars, RouterInv, FlightInv, FreshInv,
                          Fresh, WorkerCarries
    <2> HIDE DEF key
    <2>2. /\ \A s \in Sources : ~PollerCarries(s, key)
          /\ \A i \in DOMAIN queue : ~QueueCarries(i, key)
          /\ \A t \in timers : ~TimerCarries(t, key)
          /\ \A u \in Workers : WorkerCarries(u, key) => u = w
        BY <1>0, <2>1, OnlyCarrier
    <2>3. \A k \in Keys : OnDisk(k) /\ k # key => OnDisk(k)'
        BY <1>0, <2>1 DEF OnDisk, Keys
    <2>4. \A u \in Workers : workPc'[u] # "idle" =>
              u # w /\ workPc[u] # "idle" /\ workItem'[u] = workItem[u]
        BY <1>0, <2>1 DEF WorkerIsDone, WorkerGoes
    <2>5. \A s \in Sources : pollPc'[s] \in {"read", "put"} => OnDisk(pollItem[s].key)'
        BY <1>k, <2>1, <2>2, <2>3 DEF FreshInv, PollerCarries
    <2>6. \A i \in DOMAIN queue' : Fresh(queue[i])'
        BY <1>k, <2>1, <2>2, <2>3 DEF FreshInv, Fresh, QueueCarries
    <2>7. \A t \in timers' : Fresh(t)'
        BY <1>k, <2>1, <2>2, <2>3 DEF FreshInv, Fresh, TimerCarries
    <2>8. \A u \in Workers : workPc'[u] # "idle" => Fresh(workItem[u])'
        BY <1>k, <2>2, <2>3, <2>4 DEF FreshInv, Fresh, WorkerCarries
    <2> QED
        BY <2>1, <2>5, <2>6, <2>7, <2>8 DEF FreshInv, PayloadMatchesHash
<1>9. ASSUME NEW w \in Workers, MarkRetrying(w) \/ MarkFailed(w)
      PROVE  FreshInv'
    BY <1>0, <1>9 DEF MarkRetrying, MarkFailed, WorkerIsDone, WorkerGoes, pollVars, FreshInv,
                      Fresh, OnDisk, PayloadMatchesHash
<1>10. ASSUME NEW t \in timers, Timer(t)
       PROVE  FreshInv'
    <2>1. /\ timers' = timers \ {t} /\ t \in Items /\ Fresh(t)
          /\ queue' = queue \/ queue' = Append(queue, t)
          /\ UNCHANGED <<disk, pollPc, pollItem, workPc, workItem, accepted>>
        BY <1>0, <1>10 DEF Timer, TimerFires, TimerDrops, pollVars, workVars, FreshInv
    <2>2. \A i \in DOMAIN queue' : Fresh(queue'[i])
        <3>1. CASE queue' = queue
            BY <3>1 DEF FreshInv
        <3>2. CASE queue' = Append(queue, t)
            BY <1>0, <2>1, <3>2, Appended DEF FreshInv
        <3> QED
            BY <2>1, <3>1, <3>2
    <2> QED
        BY <2>1, <2>2 DEF FreshInv, Fresh, OnDisk, PayloadMatchesHash
<1>11. ASSUME Exit \/ Crash
       PROVE  FreshInv'
    BY <1>11 DEF Exit, Crash, ProcessDies, FreshInv, PayloadMatchesHash
<1>12. ASSUME Stop \/ Restart \/ UNCHANGED vars
       PROVE  FreshInv'
    BY <1>1, <1>12 DEF Stop, Restart, vars, pollVars, workVars
<1> QED
    BY <1>2, <1>3, <1>4, <1>5, <1>6, <1>7, <1>8, <1>9, <1>10, <1>11, <1>12
       DEF Next, Environment, Worker, Process

LEMMA FreshInvariance == ASSUME ~Rewrites PROVE Spec => []FreshInv
<1>1. Init => FreshInv
    BY DEF Init, FreshInv, PayloadMatchesHash
<1>2. RouterInv /\ FreshInv /\ [Next]_vars => FreshInv'
    BY FreshStep
<1> QED
    BY <1>1, <1>2, RouterInvariance, PTL DEF Spec

\* If no producer overwrites a file that is present, the parser is handed the
\* content the record's hash names, though the file is read a second time.
THEOREM ContentIsHashed == ASSUME ~Rewrites PROVE Spec => []PayloadMatchesHash
<1>1. FreshInv => PayloadMatchesHash
    BY DEF FreshInv
<1> QED
    BY <1>1, FreshInvariance, PTL

\* ... and what the finalisation removes is what the parser has taken.
THEOREM RemovalIsSafe == ASSUME ~Rewrites PROVE Spec => OnlyDeliveredContentIsRemoved
<1> DEFINE Removed ==
               \A f \in Files :
                   disk[f] # Absent /\ disk'[f] = Absent =>
                       \E k \in Keys : k[1] = f /\ <<k, disk[f]>> \in accepted
           Taken == AnsweredWasAccepted
<1>1. RouterInv /\ FreshInv /\ Taken /\ [Next]_vars => [Removed]_vars
    <2> SUFFICES ASSUME RouterInv, FreshInv, Taken, [Next]_vars,
                        NEW f \in Files, disk[f] # Absent, disk'[f] = Absent
                 PROVE  \E k \in Keys : k[1] = f /\ <<k, disk[f]>> \in accepted
        OBVIOUS
    <2>0. TypeInv /\ disk \in [Files -> Hashes \cup {Absent}]
        BY DEF RouterInv, TypeInv, TypeOK
    <2>1. PICK w \in Workers : Finalize(w)
        <3>1. ~Environment
            BY <2>0, AbsentAssumption DEF Environment, Produce
        <3>2. \A s \in Sources : ~Poller(s)
            BY DEF Poller, PollerAdmits, Admit, IdleScan, ReadContent, ReadFails, PutAccept,
                   MarkQueued, PutReject, vars
        <3>3. \A w \in Workers : Worker(w) => Finalize(w)
            BY DEF Worker, Take, ParserHandles, AckReceived, DeliveryFails, MarkAcked,
                   MarkProcessed, FinalizeFails, MarkRetrying, MarkFailed
        <3>4. \A t \in timers : ~Timer(t)
            BY DEF Timer, TimerFires, TimerDrops
        <3>5. ~Process
            BY DEF Process, Stop, Exit, Crash, Restart, ProcessDies
        <3> QED
            BY <3>1, <3>2, <3>3, <3>4, <3>5 DEF Next, vars
    <2> DEFINE key == workItem[w].key
    <2>2. key \in Keys /\ Fresh(workItem[w]) /\ <<key, workItem[w].payload>> \in accepted
        BY <2>0, <2>1, CarriedKeys DEF Finalize, FreshInv, AnsweredWasAccepted
    <2>3. f = key[1]
        BY <2>0, <2>1, <2>2 DEF Finalize, Keys
    <2> QED
        BY <2>2, <2>3 DEF Fresh, OnDisk
<1>2. Init => AckInv
    BY DEF Init, AckInv, AnsweredWasAccepted, AckedWasAccepted
<1>3. AckInv => Taken
    BY DEF AckInv
<1>4. OnlyDeliveredContentIsRemoved <=> [][Removed]_vars
    BY DEF OnlyDeliveredContentIsRemoved
<1> HIDE DEF Removed, Taken
<1> QED
    BY RouterInvariance, FreshInvariance, TypeInit, TypeStep, AckStep, <1>1, <1>2, <1>3, <1>4,
       PTL DEF Spec

-----------------------------------------------------------------------------
(* A queue with a place for every file of the inflow folders never refuses *)
(* a retry, so while the process is up nothing that is being worked on is  *)
(* lost before its record says so.                                         *)

\* The queue and a retry thread hold items of different files.
LEMMA RoomForRetry ==
    ASSUME IsFiniteSet(Files), Cardinality(Files) <= QueueSize, RouterInv, FreshInv,
           NEW t \in timers
    PROVE  HasSpace
<1> DEFINE fileOf == [i \in 1 .. Len(queue) |-> queue[i].key[1]]
           rest == Files \ {t.key[1]}
<1>1. /\ TypeInv /\ queue \in Seq(Items) /\ Len(queue) \in Nat
      /\ DOMAIN queue = 1 .. Len(queue)
    BY DEF RouterInv, TypeInv, TypeOK
<1>2. /\ \A i \in DOMAIN queue : queue[i].key \in Keys /\ OnDisk(queue[i].key)
      /\ t.key \in Keys /\ OnDisk(t.key)
    BY <1>1, CarriedKeys DEF FreshInv, Fresh
<1>3. \A j, k \in Keys : OnDisk(j) /\ OnDisk(k) /\ j[1] = k[1] => j = k
    BY DEF OnDisk, Keys
<1>4. \A k \in Keys : OnceInFlight(k)
    BY DEF RouterInv, FlightInv
<1>5. \A i \in DOMAIN queue : queue[i].key[1] # t.key[1]
    <2> SUFFICES ASSUME NEW i \in DOMAIN queue, queue[i].key = t.key PROVE FALSE
        BY <1>2, <1>3
    <2>1. InQueue(t.key) /\ InTimers(t.key)
        BY DEF InQueue, InTimers, QueueCarries, TimerCarries
    <2> QED
        BY <1>2, <1>4, <2>1 DEF OnceInFlight
<1>6. \A i, j \in DOMAIN queue : queue[i].key[1] = queue[j].key[1] => i = j
    BY <1>2, <1>3, <1>4 DEF OnceInFlight, QueueCarries
<1>7. fileOf \in Injection(1 .. Len(queue), rest)
    BY <1>1, <1>2, <1>5, <1>6 DEF Injection, IsInjective, Keys
<1> HIDE DEF fileOf
<1>8. /\ IsFiniteSet(rest) /\ Cardinality(rest) = Cardinality(Files) - 1
      /\ Cardinality(Files) \in Nat
    BY <1>2, FS_RemoveElement, FS_CardinalityType DEF Keys
<1> HIDE DEF rest
<1>9. Cardinality(1 .. Len(queue)) <= Cardinality(rest)
    BY <1>7, <1>8, FS_Injection
<1>10. Cardinality(1 .. Len(queue)) = Len(queue)
    BY <1>1, FS_Interval, SMTT(30)
<1> QED
    BY <1>1, <1>8, <1>9, <1>10, QueueAssumption DEF HasSpace

\* The statuses of a record that some thread must still move.
Working(st) == st \in {"READY", "SENDING", "RETRYING"}

\* A worker that has only the file to finalise has left its record finished.
WorkingInv ==
    /\ InterruptedIsLive
    /\ \A k \in Keys, w \in Workers :
          Working(status[k]) /\ WorkerCarries(w, k) => workPc[w] \notin {"processed", "finalize"}

\* Every step leaves the records being worked on with a carrier.
LEMMA WorkingStep ==
    ASSUME IsFiniteSet(Files), Cardinality(Files) <= QueueSize, RouterInv, FreshInv,
           WorkingInv, [Next]_vars
    PROVE  WorkingInv'
<1>0. /\ TypeInv
      /\ status \in [Keys -> Statuses]
      /\ pollPc \in [Sources -> PollPcs]
      /\ pollItem \in [Sources -> Items \cup {NoItem}]
      /\ queue \in Seq(Items)
      /\ timers \subseteq Items
      /\ workPc \in [Workers -> WorkPcs]
      /\ workItem \in [Workers -> Items \cup {NoItem}]
    BY DEF RouterInv, TypeInv, TypeOK
<1>k. /\ \A s \in Sources : pollPc[s] # "idle" => pollItem[s] \in Items /\ pollItem[s].key \in Keys
      /\ \A w \in Workers : workPc[w] # "idle" => workItem[w] \in Items /\ workItem[w].key \in Keys
    BY <1>0, CarriedKeys DEF TypeInv, PollerItems, WorkerItems
<1> DEFINE Busy(k) == \A w \in Workers :
                          WorkerCarries(w, k) => workPc[w] \notin {"processed", "finalize"}
           Goal(k) == Working(status'[k]) =>
                          (mode' = "up" => Live(k)') /\ Busy(k)'
<1> SUFFICES ASSUME NEW k \in Keys PROVE Goal(k)
    BY DEF WorkingInv, InterruptedIsLive, Working, Keys
<1>i. /\ OnceInFlight(k) /\ (Live(k) => IsInFlightOrProcessed(status[k]))
      /\ Working(status[k]) => (mode = "up" => Live(k)) /\ Busy(k)
    BY DEF RouterInv, FlightInv, WorkingInv, InterruptedIsLive, Working
<1>1. ASSUME UNCHANGED <<pollPc, pollItem, queue, timers, workPc, workItem, status>>,
             mode' = "up" => mode = "up"
      PROVE  Goal(k)
    BY <1>i, <1>1 DEF Live, InPoller, InQueue, InTimers, InWorker, PollerCarries, QueueCarries,
                      TimerCarries, WorkerCarries
<1>2. ASSUME NEW s \in Sources, NEW f \in Files, Admit(s, f)
      PROVE  Goal(k)
    <2> DEFINE new == <<f, disk[f]>>
    <2>1. /\ new \in Keys /\ ~IsInFlightOrProcessed(status[new])
          /\ status' = [status EXCEPT ![new] = "READY"]
          /\ pollPc[s] = "idle" /\ pollPc' = [pollPc EXCEPT ![s] = "read"]
          /\ pollItem' = [pollItem EXCEPT ![s] =
                            [key |-> new, payload |-> Absent, attempts |-> 0]]
          /\ UNCHANGED <<queue, timers, workPc, workItem, mode>>
        BY <1>2 DEF Admit, Admissible, Keys, RecordDiscovered, workVars, envVars
    <2> HIDE DEF new
    <2>2. CASE k = new
        <3>1. Live(k)'
            BY <1>0, <2>1, <2>2 DEF Live, InPoller, PollerCarries
        <3>2. ~Live(k)
            BY <1>i, <2>1, <2>2
        <3>3. Busy(k)'
            BY <2>1, <3>2 DEF Live, InWorker, WorkerCarries
        <3> QED
            BY <3>1, <3>3
    <2>3. CASE k # new
        <3>1. status'[k] = status[k]
            BY <1>0, <2>1, <2>3
        <3>2. \A u \in Sources : PollerCarries(u, k) => PollerCarries(u, k)'
            BY <1>0, <2>1 DEF PollerCarries
        <3>3. Live(k) => Live(k)'
            BY <2>1, <3>2 DEF Live, InPoller, InQueue, InTimers, InWorker, QueueCarries,
                              TimerCarries, WorkerCarries
        <3> QED
            BY <1>i, <2>1, <3>1, <3>3 DEF WorkerCarries
    <2> QED
        BY <2>2, <2>3
<1>3. ASSUME NEW s \in Sources, ReadContent(s) \/ PutAccept(s)
      PROVE  Goal(k)
    <2>1. /\ pollItem[s] \in Items
          /\ UNCHANGED <<timers, workPc, workItem, status, mode>>
          /\ \/ /\ pollItem' = [pollItem EXCEPT ![s].payload = disk[pollItem[s].key[1]]]
                /\ pollPc' = [pollPc EXCEPT ![s] = "put"]
                /\ queue' = queue
             \/ /\ pollItem' = pollItem
                /\ pollPc' = [pollPc EXCEPT ![s] = "queued"]
                /\ queue' = Append(queue, pollItem[s])
        BY <1>3, <1>k DEF ReadContent, PutAccept, workVars, envVars
    <2>2. pollItem'[s].key = pollItem[s].key
        BY <1>0, <2>1 DEF Items
    <2>3. \A i \in DOMAIN queue : i \in DOMAIN queue' /\ queue'[i] = queue[i]
        BY <1>0, <2>1
    <2>4. InQueue(k) => InQueue(k)'
        BY <2>3 DEF InQueue, QueueCarries
    <2>5. PollerCarries(s, k) => PollerCarries(s, k)' \/ InQueue(k)'
        <3>1. CASE queue' = Append(queue, pollItem[s])
            <4>1. Len(queue) + 1 \in DOMAIN queue' /\ queue'[Len(queue) + 1] = pollItem[s]
                BY <1>0, <2>1, <3>1
            <4> QED
                BY <4>1 DEF InQueue, QueueCarries, PollerCarries
        <3>2. CASE pollPc' = [pollPc EXCEPT ![s] = "put"]
            BY <1>0, <2>2, <3>2 DEF PollerCarries
        <3> QED
            BY <2>1, <3>1, <3>2
    <2>6. \A u \in Sources \ {s} : PollerCarries(u, k) => PollerCarries(u, k)'
        BY <1>0, <2>1 DEF PollerCarries
    <2>7. Live(k) => Live(k)'
        BY <2>1, <2>4, <2>5, <2>6 DEF Live, InPoller, InTimers, InWorker, TimerCarries,
                                      WorkerCarries
    <2> QED
        BY <1>i, <2>1, <2>7 DEF WorkerCarries
<1>4. ASSUME NEW s \in Sources, ReadFails(s) \/ PutReject(s) \/ MarkQueued(s)
      PROVE  Goal(k)
    <2>1. /\ pollItem[s].key \in Keys
          /\ \E st \in {"DISCOVERED", "QUEUED"} :
                status' = UpdateStatus(status, pollItem[s].key, st)
          /\ pollPc' = [pollPc EXCEPT ![s] = "idle"]
          /\ pollItem' = [pollItem EXCEPT ![s] = NoItem]
          /\ UNCHANGED <<queue, timers, workPc, workItem, mode>>
        BY <1>4, <1>k DEF ReadFails, PutReject, MarkQueued, PollerGivesUp, workVars, envVars
    <2>2. Working(status'[k]) => k # pollItem[s].key /\ status'[k] = status[k]
        BY <1>0, <2>1 DEF Working, UpdateStatus
    <2>3. k # pollItem[s].key =>
              \A u \in Sources : PollerCarries(u, k) => PollerCarries(u, k)'
        BY <1>0, <2>1 DEF PollerCarries
    <2>4. k # pollItem[s].key /\ Live(k) => Live(k)'
        BY <2>1, <2>3 DEF Live, InPoller, InQueue, InTimers, InWorker, QueueCarries,
                          TimerCarries, WorkerCarries
    <2> QED
        BY <1>i, <2>1, <2>2, <2>4 DEF WorkerCarries
<1>5. ASSUME NEW w \in Workers, Take(w)
      PROVE  Goal(k)
    <2> DEFINE it == Head(queue)
    <2>1. /\ it \in Items /\ it.key \in Keys
          /\ 1 \in DOMAIN queue /\ queue[1] = it
          /\ queue' = Tail(queue)
          /\ workPc[w] = "idle" /\ workPc' = [workPc EXCEPT ![w] = "deliver"]
          /\ workItem' = [workItem EXCEPT ![w] = it]
          /\ status' = UpdateStatus(status, it.key, "SENDING")
          /\ UNCHANGED <<pollPc, pollItem, timers, mode>>
        BY <1>0, <1>5, ItemFields DEF Take, WorkerGoes, pollVars, envVars
    <2>2. \A i \in DOMAIN queue \ {1} : i - 1 \in DOMAIN queue' /\ queue'[i - 1] = queue[i]
        BY <1>0, <1>5 DEF Take
    <2> HIDE DEF it
    <2>3. CASE k = it.key
        <3>1. Live(k)'
            BY <1>0, <2>1, <2>3 DEF Live, InWorker, WorkerCarries
        <3>2. \A v \in Workers : ~WorkerCarries(v, k)
            BY <1>i, <2>1, <2>3 DEF OnceInFlight, InQueue, InWorker, QueueCarries
        <3>3. Busy(k)'
            BY <1>0, <2>1, <3>2 DEF WorkerCarries
        <3> QED
            BY <3>1, <3>3
    <2>4. CASE k # it.key
        <3>1. status'[k] = status[k]
            BY <1>0, <2>1, <2>4 DEF UpdateStatus
        <3>2. InQueue(k) => InQueue(k)'
            BY <2>1, <2>2, <2>4 DEF InQueue, QueueCarries
        <3>3. \A v \in Workers : WorkerCarries(v, k) <=> WorkerCarries(v, k)'
            BY <1>0, <2>1, <2>4 DEF WorkerCarries
        <3>4. Live(k) => Live(k)'
            BY <2>1, <3>2, <3>3 DEF Live, InPoller, InTimers, InWorker, PollerCarries,
                                    TimerCarries
        <3>5. Busy(k) => Busy(k)'
            BY <1>0, <2>1, <3>3
        <3> QED
            BY <1>i, <2>1, <3>1, <3>4, <3>5
    <2> QED
        BY <2>3, <2>4
<1>6. ASSUME NEW w \in Workers,
             ParserHandles(w) \/ AckReceived(w) \/ DeliveryFails(w)
      PROVE  Goal(k)
    <2>1. /\ workItem[w] \in Items
          /\ workPc[w] # "idle"
          /\ \E pc \in {"handled", "acked", "failed"} : workPc' = [workPc EXCEPT ![w] = pc]
          /\ \/ workItem' = workItem
             \/ workItem' = [workItem EXCEPT ![w].attempts = @ + 1]
          /\ UNCHANGED <<pollPc, pollItem, queue, timers, status, mode>>
        BY <1>6, <1>k DEF ParserHandles, AckReceived, DeliveryFails, WorkerGoes, pollVars,
                          envVars
    <2>2. workItem'[w].key = workItem[w].key
        BY <1>0, <2>1 DEF Items
    <2>3. \A v \in Workers : WorkerCarries(v, k)' <=> WorkerCarries(v, k)
        BY <1>0, <2>1, <2>2 DEF WorkerCarries
    <2>4. Live(k) => Live(k)'
        BY <2>1, <2>3 DEF Live, InPoller, InQueue, InTimers, InWorker, PollerCarries,
                          QueueCarries, TimerCarries
    <2>5. Busy(k) => Busy(k)'
        BY <1>0, <2>1, <2>3
    <2> QED
        BY <1>i, <2>1, <2>4, <2>5
<1>7. ASSUME NEW w \in Workers, MarkAcked(w) \/ MarkProcessed(w)
      PROVE  Goal(k)
    <2>1. /\ workItem[w].key \in Keys /\ WorkerCarries(w, workItem[w].key)
          /\ \E pc \in {"processed", "finalize"} : workPc' = [workPc EXCEPT ![w] = pc]
          /\ \E st \in {"ACKNOWLEDGED", "PROCESSED"} :
                status' = UpdateStatus(status, workItem[w].key, st)
          /\ UNCHANGED <<pollPc, pollItem, queue, timers, workItem, mode>>
        BY <1>7, <1>k DEF MarkAcked, MarkProcessed, WorkerGoes, pollVars, envVars,
                          WorkerCarries
    <2>2. Working(status'[k]) => k # workItem[w].key /\ status'[k] = status[k]
        BY <1>0, <2>1 DEF Working, UpdateStatus
    <2>3. \A v \in Workers : WorkerCarries(v, k)' <=> WorkerCarries(v, k)
        BY <1>0, <2>1 DEF WorkerCarries
    <2>4. Live(k) => Live(k)'
        BY <2>1, <2>3 DEF Live, InPoller, InQueue, InTimers, InWorker, PollerCarries,
                          QueueCarries, TimerCarries
    <2>5. k # workItem[w].key /\ Busy(k) => Busy(k)'
        BY <1>0, <2>1, <2>3 DEF WorkerCarries
    <2> QED
        BY <1>i, <2>1, <2>2, <2>4, <2>5
<1>8. ASSUME NEW w \in Workers,
             Finalize(w) \/ FinalizeFails(w) \/ MarkFailed(w) \/ MarkRetrying(w)
      PROVE  Goal(k)
    <2> DEFINE it == workItem[w]
    <2>1. /\ it.key \in Keys /\ WorkerCarries(w, it.key)
          /\ WorkerIsDone(w)
          /\ UNCHANGED <<pollPc, pollItem, queue, mode>>
          /\ \/ workPc[w] = "finalize" /\ timers' = timers /\ status' = status
             \/ timers' = timers /\ status' = UpdateStatus(status, it.key, "FAILED")
             \/ timers' = timers \cup {it} /\ status' = UpdateStatus(status, it.key, "RETRYING")
        BY <1>8, <1>k DEF Finalize, FinalizeFails, MarkFailed, MarkRetrying, pollVars, envVars,
                          WorkerCarries
    <2>2. \A v \in Workers : WorkerCarries(v, k)' <=> v # w /\ WorkerCarries(v, k)
        BY <1>0, <2>1 DEF WorkerIsDone, WorkerGoes, WorkerCarries
    <2>3. Busy(k) => Busy(k)'
        BY <1>0, <2>1, <2>2 DEF WorkerIsDone, WorkerGoes
    <2>4. CASE k = it.key
        <3>1. Busy(k)'
            BY <1>i, <2>1, <2>2, <2>4 DEF OnceInFlight
        <3>2. Working(status'[k]) => timers' = timers \cup {it}
            <4>1. CASE workPc[w] = "finalize" /\ status' = status
                BY <1>i, <2>1, <2>4, <4>1
            <4>2. CASE status' = UpdateStatus(status, it.key, "FAILED")
                BY <1>0, <2>4, <4>2 DEF UpdateStatus, Working
            <4> QED
                BY <2>1, <4>1, <4>2
        <3>3. timers' = timers \cup {it} => Live(k)'
            BY <2>4 DEF Live, InTimers, TimerCarries
        <3> QED
            BY <3>1, <3>2, <3>3
    <2>5. CASE k # it.key
        <3>1. status'[k] = status[k]
            BY <1>0, <2>1, <2>5 DEF UpdateStatus
        <3>2. InWorker(k) => InWorker(k)'
            BY <2>2, <2>5 DEF InWorker, WorkerCarries
        <3>3. InTimers(k) => InTimers(k)'
            BY <2>1 DEF InTimers, TimerCarries
        <3>4. Live(k) => Live(k)'
            BY <2>1, <3>2, <3>3 DEF Live, InPoller, InQueue, PollerCarries, QueueCarries
        <3> QED
            BY <1>i, <2>1, <2>3, <3>1, <3>4
    <2> QED
        BY <2>4, <2>5
<1>9. ASSUME NEW t \in timers, TimerFires(t)
      PROVE  Goal(k)
    <2>1. /\ queue' = Append(queue, t)
          /\ timers' = timers \ {t}
          /\ UNCHANGED <<pollPc, pollItem, workPc, workItem, status, mode>>
        BY <1>9 DEF TimerFires, pollVars, workVars, envVars
    <2>2. /\ \A i \in DOMAIN queue : i \in DOMAIN queue' /\ queue'[i] = queue[i]
          /\ Len(queue) + 1 \in DOMAIN queue' /\ queue'[Len(queue) + 1] = t
        BY <1>0, <2>1
    <2>3. InQueue(k) \/ InTimers(k) => InQueue(k)' \/ InTimers(k)'
        BY <2>1, <2>2 DEF InQueue, InTimers, QueueCarries, TimerCarries
    <2>4. Live(k) => Live(k)'
        BY <2>1, <2>3 DEF Live, InPoller, InWorker, PollerCarries, WorkerCarries
    <2> QED
        BY <1>i, <2>1, <2>4 DEF WorkerCarries
<1>10. ASSUME NEW t \in timers, TimerDrops(t)
       PROVE  Goal(k)
    <2>1. mode' # "up"
        BY <1>10, RoomForRetry DEF TimerDrops, envVars
    <2> QED
        BY <1>i, <1>10, <2>1 DEF TimerDrops, workVars, WorkerCarries
<1>11. ASSUME Exit \/ Crash
       PROVE  Goal(k)
    BY <1>11 DEF Exit, Crash, ProcessDies, WorkerCarries
<1>12. ASSUME Restart
       PROVE  Goal(k)
    <2>1. DOMAIN status = Keys
        BY <1>0
    <2> QED
        BY <1>12, <2>1 DEF Restart, ResetInterrupted, IsInterrupted, Working
<1>13. ASSUME \/ Environment
              \/ \E s \in Sources : IdleScan(s)
              \/ Stop
              \/ UNCHANGED vars
       PROVE  Goal(k)
    BY <1>1, <1>13 DEF Environment, Produce, IdleScan, Stop, vars, pollVars, workVars, envVars
<1> QED
    BY <1>2, <1>3, <1>4, <1>5, <1>6, <1>7, <1>8, <1>9, <1>10, <1>11, <1>12, <1>13
       DEF Next, Poller, PollerAdmits, Worker, Timer, Process

\* If producers overwrite nothing and the queue has a place for every file, a
\* record that says READY, SENDING or RETRYING while the process is up is one
\* some thread is working on.
THEOREM WorkIsNeverLost ==
    ASSUME ~Rewrites, IsFiniteSet(Files), Cardinality(Files) <= QueueSize
    PROVE  Spec => []InterruptedIsLive
<1>1. Init => WorkingInv
    BY DEF Init, WorkingInv, InterruptedIsLive, Working
<1>2. RouterInv /\ FreshInv /\ WorkingInv /\ [Next]_vars => WorkingInv'
    BY WorkingStep
<1>3. WorkingInv => InterruptedIsLive
    BY DEF WorkingInv
<1> QED
    BY RouterInvariance, FreshInvariance, <1>1, <1>2, <1>3, PTL DEF Spec
=============================================================================
