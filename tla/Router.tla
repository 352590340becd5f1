------------------------------- MODULE Router -------------------------------
(***************************************************************************)
(* The Data Router's file path: one poller thread per file source          *)
(* (sources/file_source.py), the bounded delivery queue and its retry      *)
(* timers (queue/manager.py), the delivery workers (routing/router.py),    *)
(* and the persistent status of every file (FileStateStore), with graceful *)
(* stops, crashes and restarts of the process.                             *)
(*                                                                         *)
(* A file is a path; what it holds is identified by its hash, so the       *)
(* record of a file is keyed by <<path, hash>>.  The parser at the other   *)
(* end of the TCP connection is the set `accepted` of what it has taken;   *)
(* a delivery may fail before or after the parser took the message.        *)
(***************************************************************************)
EXTENDS Naturals, Sequences, FiniteSets, FileStateStore

CONSTANTS
    Sources,        \* configured file sources, one poller thread each
    Files,          \* paths in the inflow folders
    SourceOf,       \* the source whose folder a path lies in
    Hashes,         \* file contents, identified by hash
    Absent,         \* what is on disk at a path that does not exist
    Workers,        \* delivery worker threads
    NoItem,         \* an idle poller's or worker's item
    MaxAttempts,    \* retry.max_attempts
    QueueSize,      \* queue.max_size
    Preserve,       \* sources configured with preserve_file
    Rewrites,       \* may a producer replace a file that is present?
    MaxWrites,      \* bound on the files the producers write
    MaxRestarts     \* bound on the process's stops and crashes

\* validate_config rejects max_attempts < 1 and queue.max_size < 10.
ASSUME SourceOfAssumption == SourceOf \in [Files -> Sources]
ASSUME AbsentAssumption   == Absent \notin Hashes
ASSUME ItemAssumption     == \A f \in Files, h \in Hashes :
                                 \A p \in Hashes \cup {Absent}, n \in 0 .. MaxAttempts :
                                     NoItem # [key |-> <<f, h>>, payload |-> p, attempts |-> n]
ASSUME AttemptsAssumption == MaxAttempts \in Nat \ {0}
ASSUME QueueAssumption    == QueueSize \in Nat \ {0}

Keys == Files \X Hashes

\* QueueItem: the record it belongs to, the content read, attempt_count.
Items == [key : Keys, payload : Hashes \cup {Absent}, attempts : 0 .. MaxAttempts]

VARIABLES
    disk,       \* path -> hash of its content, or Absent
    status,     \* key -> status of its record (persistent)
    pollPc,     \* source -> where its poller is in _process_candidate_file
    pollItem,   \* source -> the envelope the poller is building
    queue,      \* _primary_queue
    timers,     \* items asleep in requeue_for_retry threads
    workPc,     \* worker -> where it is in _process_delivery
    workItem,   \* worker -> the item it delivers
    accepted,   \* <<key, payload>> of every message the parser has taken
    mode,       \* "up", "stopping" (stop events set), "down" (no process)
    writes,     \* files written so far (bounded by MaxWrites)
    restarts    \* stops and crashes so far (bounded by MaxRestarts)

pollVars == <<pollPc, pollItem>>
workVars == <<workPc, workItem>>
envVars  == <<mode, writes, restarts>>
vars == <<disk, status, pollVars, queue, timers, workVars, accepted, envVars>>

PollPcs == {"idle", "read", "put", "queued"}
WorkPcs == {"idle", "deliver", "handled", "acked", "processed", "finalize",
            "failed"}

Init ==
    /\ disk = [f \in Files |-> Absent]
    /\ status = [k \in Keys |-> "NONE"]
    /\ pollPc = [s \in Sources |-> "idle"]
    /\ pollItem = [s \in Sources |-> NoItem]
    /\ queue = << >>
    /\ timers = {}
    /\ workPc = [w \in Workers |-> "idle"]
    /\ workItem = [w \in Workers |-> NoItem]
    /\ accepted = {}
    /\ mode = "up"
    /\ writes = 0
    /\ restarts = 0

-----------------------------------------------------------------------------
(* The producers of the inflow folders (outside the program).              *)

Produce(f, h) ==
    /\ writes < MaxWrites
    /\ disk[f] # h
    /\ Rewrites \/ disk[f] = Absent
    /\ disk' = [disk EXCEPT ![f] = h]
    /\ writes' = writes + 1
    /\ UNCHANGED <<status, pollVars, queue, timers, workVars, accepted, mode, restarts>>

-----------------------------------------------------------------------------
(* The poller of a file source: _scan_directory, _process_candidate_file.  *)

Admissible(s, f) ==
    /\ SourceOf[f] = s
    /\ disk[f] \in Hashes
    /\ ~IsInFlightOrProcessed(status[<<f, disk[f]>>])

\* A stable file is hashed, found not to be a duplicate and recorded READY.
\* Nobody else writes the record of a key that is not in flight, so the
\* duplicate check and the record are one step.
Admit(s, f) ==
    /\ mode # "down"
    /\ pollPc[s] = "idle"
    /\ Admissible(s, f)
    /\ pollItem' = [pollItem EXCEPT ![s] = [key |-> <<f, disk[f]>>,
                                            payload |-> Absent, attempts |-> 0]]
    /\ status' = RecordDiscovered(status, <<f, disk[f]>>, "READY")
    /\ pollPc' = [pollPc EXCEPT ![s] = "read"]
    /\ UNCHANGED <<disk, queue, timers, workVars, accepted, envVars>>

\* A scan that admits nothing.
IdleScan(s) ==
    /\ mode # "down"
    /\ pollPc[s] = "idle"
    /\ \A f \in Files : ~Admissible(s, f)
    /\ UNCHANGED vars

PollerGivesUp(s) ==
    /\ status' = UpdateStatus(status, pollItem[s].key, "DISCOVERED")
    /\ pollPc' = [pollPc EXCEPT ![s] = "idle"]
    /\ pollItem' = [pollItem EXCEPT ![s] = NoItem]

\* The content is read in a second pass over the file, after the hash, and
\* put() finds that the queue manager has not been stopped.
ReadContent(s) ==
    /\ mode = "up"
    /\ pollPc[s] = "read"
    /\ disk[pollItem[s].key[1]] # Absent
    /\ pollItem' = [pollItem EXCEPT ![s].payload = disk[pollItem[s].key[1]]]
    /\ pollPc' = [pollPc EXCEPT ![s] = "put"]
    /\ UNCHANGED <<disk, status, queue, timers, workVars, accepted, envVars>>

\* The file is gone or cannot be read (it is locked, or the disk fails), or
\* the queue manager has been stopped and refuses it.
ReadFails(s) ==
    /\ mode # "down"
    /\ pollPc[s] = "read"
    /\ PollerGivesUp(s)
    /\ UNCHANGED <<disk, queue, timers, workVars, accepted, envVars>>

HasSpace == Len(queue) < QueueSize

\* route(): the item enters the queue first ...
PutAccept(s) ==
    /\ mode # "down"
    /\ pollPc[s] = "put"
    /\ HasSpace
    /\ queue' = Append(queue, pollItem[s])
    /\ pollPc' = [pollPc EXCEPT ![s] = "queued"]
    /\ UNCHANGED <<disk, status, pollItem, timers, workVars, accepted, envVars>>

\* ... and is recorded QUEUED afterwards, whatever a worker has made of it.
MarkQueued(s) ==
    /\ mode # "down"
    /\ pollPc[s] = "queued"
    /\ status' = UpdateStatus(status, pollItem[s].key, "QUEUED")
    /\ pollPc' = [pollPc EXCEPT ![s] = "idle"]
    /\ pollItem' = [pollItem EXCEPT ![s] = NoItem]
    /\ UNCHANGED <<disk, queue, timers, workVars, accepted, envVars>>

\* The queue stays full for the whole timeout.
PutReject(s) ==
    /\ mode # "down"
    /\ pollPc[s] = "put"
    /\ ~HasSpace
    /\ PollerGivesUp(s)
    /\ UNCHANGED <<disk, queue, timers, workVars, accepted, envVars>>

-----------------------------------------------------------------------------
(* The delivery workers: _delivery_worker_loop, _process_delivery.         *)

WorkerGoes(w, pc) == workPc' = [workPc EXCEPT ![w] = pc]

WorkerIsDone(w) ==
    /\ WorkerGoes(w, "idle")
    /\ workItem' = [workItem EXCEPT ![w] = NoItem]

\* A worker that is already in get() when the stop comes may take one more.
Take(w) ==
    /\ mode # "down"
    /\ workPc[w] = "idle"
    /\ queue # << >>
    /\ workItem' = [workItem EXCEPT ![w] = Head(queue)]
    /\ queue' = Tail(queue)
    /\ status' = UpdateStatus(status, Head(queue).key, "SENDING")
    /\ WorkerGoes(w, "deliver")
    /\ UNCHANGED <<disk, pollVars, timers, accepted, envVars>>

\* The parser processes the message; its ACK is on the way.  (It may do so
\* after the router has given the attempt up: `accepted` only grows, so that
\* is no different from a failure right after this step.)
ParserHandles(w) ==
    /\ mode # "down"
    /\ workPc[w] = "deliver"
    /\ accepted' = accepted \cup {<<workItem[w].key, workItem[w].payload>>}
    /\ WorkerGoes(w, "handled")
    /\ UNCHANGED <<disk, status, pollVars, queue, timers, workItem, envVars>>

\* Faulty variant of AckReceived, for mutation testing only: anything the
\* socket returns counts as an ACK.
AckOnAnyAnswer(w) ==
    /\ mode # "down"
    /\ workPc[w] \in {"deliver", "handled"}
    /\ WorkerGoes(w, "acked")
    /\ UNCHANGED <<disk, status, pollVars, queue, timers, workItem, accepted, envVars>>

\* deliver_and_await_ack returns success.
AckReceived(w) ==
    /\ mode # "down"
    /\ workPc[w] = "handled"
    /\ WorkerGoes(w, "acked")
    /\ UNCHANGED <<disk, status, pollVars, queue, timers, workItem, accepted, envVars>>

\* A NACK, a timeout or a lost connection, with or without the message taken.
DeliveryFails(w) ==
    /\ mode # "down"
    /\ workPc[w] \in {"deliver", "handled"}
    /\ workItem' = [workItem EXCEPT ![w].attempts = @ + 1]
    /\ WorkerGoes(w, "failed")
    /\ UNCHANGED <<disk, status, pollVars, queue, timers, accepted, envVars>>

MarkAcked(w) ==
    /\ mode # "down"
    /\ workPc[w] = "acked"
    /\ status' = UpdateStatus(status, workItem[w].key, "ACKNOWLEDGED")
    /\ WorkerGoes(w, "processed")
    /\ UNCHANGED <<disk, pollVars, queue, timers, workItem, accepted, envVars>>

MarkProcessed(w) ==
    /\ mode # "down"
    /\ workPc[w] = "processed"
    /\ status' = UpdateStatus(status, workItem[w].key, "PROCESSED")
    /\ WorkerGoes(w, "finalize")
    /\ UNCHANGED <<disk, pollVars, queue, timers, workItem, accepted, envVars>>

\* _finalize_file_after_ack: delete or move away what is at the path by now.
Finalize(w) ==
    /\ mode # "down"
    /\ workPc[w] = "finalize"
    /\ LET f == workItem[w].key[1]
       IN disk' = IF SourceOf[f] \in Preserve THEN disk ELSE [disk EXCEPT ![f] = Absent]
    /\ WorkerIsDone(w)
    /\ UNCHANGED <<status, pollVars, queue, timers, accepted, envVars>>

\* unlink or move raises: the error is logged, the file stays.
FinalizeFails(w) ==
    /\ mode # "down"
    /\ workPc[w] = "finalize"
    /\ SourceOf[workItem[w].key[1]] \notin Preserve
    /\ WorkerIsDone(w)
    /\ UNCHANGED <<disk, status, pollVars, queue, timers, accepted, envVars>>

\* Faulty variant of CanRetry, for mutation testing only.
CanRetryOnceMore(n) == n <= MaxAttempts

\* RetryPolicy.can_retry.  (get_delay, which a retry calls next, overflows
\* after about a thousand attempts of one item; max_attempts is taken to be
\* lower.  TcpSource has the same call where nothing bounds the attempts.)
CanRetry(n) == n < MaxAttempts

\* Faulty variants of MarkRetrying, for mutation testing only: the record is
\* opened to the next scan, or no retry thread is started.
MarkRetryingAsDiscovered(w) ==
    /\ mode # "down"
    /\ workPc[w] = "failed"
    /\ CanRetry(workItem[w].attempts)
    /\ status' = UpdateStatus(status, workItem[w].key, "DISCOVERED")
    /\ timers' = timers \cup {workItem[w]}
    /\ WorkerIsDone(w)
    /\ UNCHANGED <<disk, pollVars, queue, accepted, envVars>>

MarkRetryingWithoutTimer(w) ==
    /\ mode # "down"
    /\ workPc[w] = "failed"
    /\ CanRetry(workItem[w].attempts)
    /\ status' = UpdateStatus(status, workItem[w].key, "RETRYING")
    /\ WorkerIsDone(w)
    /\ UNCHANGED <<disk, pollVars, queue, timers, accepted, envVars>>

MarkRetrying(w) ==
    /\ mode # "down"
    /\ workPc[w] = "failed"
    /\ CanRetry(workItem[w].attempts)
    /\ status' = UpdateStatus(status, workItem[w].key, "RETRYING")
    /\ timers' = timers \cup {workItem[w]}
    /\ WorkerIsDone(w)
    /\ UNCHANGED <<disk, pollVars, queue, accepted, envVars>>

MarkFailed(w) ==
    /\ mode # "down"
    /\ workPc[w] = "failed"
    /\ ~CanRetry(workItem[w].attempts)
    /\ status' = UpdateStatus(status, workItem[w].key, "FAILED")
    /\ WorkerIsDone(w)
    /\ UNCHANGED <<disk, pollVars, queue, timers, accepted, envVars>>

-----------------------------------------------------------------------------
(* The retry threads: requeue_for_retry's _delayed_reput.                  *)

\* The put of a thread that found no stop event when it woke up.
TimerFires(t) ==
    /\ mode # "down"
    /\ HasSpace
    /\ queue' = Append(queue, t)
    /\ timers' = timers \ {t}
    /\ UNCHANGED <<disk, status, pollVars, workVars, accepted, envVars>>

\* The queue is full for ten seconds, or the manager has been stopped: the
\* thread ends and the item with it.
TimerDrops(t) ==
    /\ mode # "down"
    /\ mode = "stopping" \/ ~HasSpace
    /\ timers' = timers \ {t}
    /\ UNCHANGED <<disk, status, pollVars, queue, workVars, accepted, envVars>>

-----------------------------------------------------------------------------
(* The process.                                                            *)

\* DataRouterService.stop reaches queue_manager.stop: the stop events are set,
\* the threads run on to their next check of them.
Stop ==
    /\ mode = "up"
    /\ restarts < MaxRestarts
    /\ mode' = "stopping"
    /\ restarts' = restarts + 1
    /\ UNCHANGED <<disk, status, pollVars, queue, timers, workVars, accepted, writes>>

ProcessDies ==
    /\ mode' = "down"
    /\ pollPc' = [s \in Sources |-> "idle"]
    /\ pollItem' = [s \in Sources |-> NoItem]
    /\ queue' = << >>
    /\ timers' = {}
    /\ workPc' = [w \in Workers |-> "idle"]
    /\ workItem' = [w \in Workers |-> NoItem]
    /\ UNCHANGED <<disk, status, accepted, writes>>

\* The joins time out or succeed and the process exits: daemon threads die.
Exit ==
    /\ mode = "stopping"
    /\ ProcessDies
    /\ UNCHANGED restarts

Crash ==
    /\ mode = "up"
    /\ restarts < MaxRestarts
    /\ ProcessDies
    /\ restarts' = restarts + 1

\* RoutingEngine.start resets interrupted records before any poller runs.
Restart ==
    /\ mode = "down"
    /\ mode' = "up"
    /\ status' = ResetInterrupted(status)
    /\ UNCHANGED <<disk, pollVars, queue, timers, workVars, accepted, writes, restarts>>

-----------------------------------------------------------------------------
Environment == \E f \in Files, h \in Hashes : Produce(f, h)

PollerAdmits(s) == \E f \in Files : Admit(s, f)

Poller(s) ==
    \/ PollerAdmits(s)
    \/ IdleScan(s)
    \/ ReadContent(s)
    \/ ReadFails(s)
    \/ PutAccept(s)
    \/ MarkQueued(s)
    \/ PutReject(s)

Worker(w) ==
    \/ Take(w)
    \/ ParserHandles(w)
    \/ AckReceived(w)
    \/ DeliveryFails(w)
    \/ MarkAcked(w)
    \/ MarkProcessed(w)
    \/ Finalize(w)
    \/ FinalizeFails(w)
    \/ MarkRetrying(w)
    \/ MarkFailed(w)

Timer(t) == TimerFires(t) \/ TimerDrops(t)

Process == Stop \/ Exit \/ Crash \/ Restart

Next ==
    \/ Environment
    \/ \E s \in Sources : Poller(s)
    \/ \E w \in Workers : Worker(w)
    \/ \E t \in timers : Timer(t)
    \/ Process

Spec == Init /\ [][Next]_vars

\* A poller scans every file of its folder again and again, so a file that
\* stays admissible is admitted even if other files are admitted before it;
\* a file whose reading fails at times, but not always, is read in the end (one
\* that no scan can ever read stays where it is).  Every other thread runs
\* until its next step is done.  A delivery ends: the socket has a timeout.
\* Nothing makes a producer, a stop or a crash happen, and a dead process is
\* restarted by its operator, or never.
Fairness ==
    /\ \A s \in Sources :
        /\ \A f \in Files :
            /\ SF_vars(Admit(s, f))
            /\ SF_vars(pollItem[s] # NoItem /\ pollItem[s].key[1] = f /\ ReadContent(s))
        /\ WF_vars(ReadContent(s) \/ ReadFails(s))
        /\ WF_vars(PutAccept(s) \/ PutReject(s))
        /\ WF_vars(MarkQueued(s))
    /\ \A w \in Workers : WF_vars(Worker(w))
    /\ \A k \in Keys, p \in Hashes, n \in 0 .. MaxAttempts :
        LET t == [key |-> k, payload |-> p, attempts |-> n]
        IN WF_vars(t \in timers /\ Timer(t))

FairSpec == Spec /\ Fairness

-----------------------------------------------------------------------------
(* Properties.                                                             *)

\* Type invariant.  An item that may still be delivered has used fewer than
\* max_attempts attempts: only a worker about to record FAILED holds one
\* that has used them all.
TypeOK ==
    /\ disk \in [Files -> Hashes \cup {Absent}]
    /\ status \in [Keys -> Statuses]
    /\ pollPc \in [Sources -> PollPcs]
    /\ pollItem \in [Sources -> Items \cup {NoItem}]
    /\ queue \in Seq(Items)
    /\ timers \subseteq Items
    /\ workPc \in [Workers -> WorkPcs]
    /\ workItem \in [Workers -> Items \cup {NoItem}]
    /\ accepted \subseteq Keys \X Hashes
    /\ mode \in {"up", "stopping", "down"}

\* The threads and containers that carry an item of record k.
PollerCarries(s, k) == pollPc[s] \in {"read", "put"} /\ pollItem[s].key = k
QueueCarries(i, k)  == i \in DOMAIN queue /\ queue[i].key = k
TimerCarries(t, k)  == t \in timers /\ t.key = k
WorkerCarries(w, k) == workPc[w] # "idle" /\ workItem[w].key = k

InPoller(k) == \E s \in Sources : PollerCarries(s, k)
InQueue(k)  == \E i \in DOMAIN queue : QueueCarries(i, k)
InTimers(k) == \E t \in timers : TimerCarries(t, k)
InWorker(k) == \E w \in Workers : WorkerCarries(w, k)

Live(k) == InPoller(k) \/ InQueue(k) \/ InTimers(k) \/ InWorker(k)

OnceInFlight(k) ==
    /\ \A s, u \in Sources : PollerCarries(s, k) /\ PollerCarries(u, k) => s = u
    /\ \A i, j \in DOMAIN queue : QueueCarries(i, k) /\ QueueCarries(j, k) => i = j
    /\ \A t, u \in timers : TimerCarries(t, k) /\ TimerCarries(u, k) => t = u
    /\ \A v, w \in Workers : WorkerCarries(v, k) /\ WorkerCarries(w, k) => v = w
    /\ InPoller(k) => ~InQueue(k) /\ ~InTimers(k) /\ ~InWorker(k)
    /\ InQueue(k) => ~InTimers(k) /\ ~InWorker(k)
    /\ InTimers(k) => ~InWorker(k)

\* Duplicate protection within one run of the process: whatever the pollers,
\* the queue, the retry threads and the workers do, no two of them ever carry
\* the same record, so one content is never delivered by two workers at once
\* and never waits twice in the queue.
NeverTwiceInFlight == \A k \in Keys : OnceInFlight(k)

\* is_in_flight_or_processed tells the truth: a record some thread still
\* carries is one the next scan refuses.
LiveIsRefused == \A k \in Keys : Live(k) => IsInFlightOrProcessed(status[k])

\* A record says ACKNOWLEDGED or PROCESSED only if the parser really took the
\* content read for that record, in whatever attempt and run of the process.
AckedWasAccepted ==
    \A k \in Keys :
        status[k] \in {"ACKNOWLEDGED", "PROCESSED"} =>
            \E p \in Hashes : <<k, p>> \in accepted

\* The content delivered for a record is the content its hash names, although
\* the file is hashed and read in two passes.
PayloadMatchesHash == \A a \in accepted : a[2] = a[1][2]

\* While the process is up, a record left READY, SENDING or RETRYING is being
\* worked on: no other event than a restart is needed to move it.
InterruptedIsLive ==
    mode = "up" =>
        \A k \in Keys : status[k] \in {"READY", "SENDING", "RETRYING"} => Live(k)

\* _finalize_file_after_ack: a file goes from the inflow folder only if the
\* parser has taken the very content that goes.
OnlyDeliveredContentIsRemoved ==
    [][\A f \in Files :
          disk[f] # Absent /\ disk'[f] = Absent =>
              \E k \in Keys : k[1] = f /\ <<k, disk[f]>> \in accepted]_vars

\* A finished record is reopened in one way only: the poller that queued the
\* item writes QUEUED after the worker has finished with it.
Settled(st) == st \in {"ACKNOWLEDGED", "PROCESSED", "FAILED"}

OnlyLateQueuedReopens ==
    [][\A k \in Keys :
          Settled(status[k]) /\ ~Settled(status'[k]) =>
              /\ status'[k] = "QUEUED"
              /\ \E s \in Sources : pollPc[s] = "queued" /\ pollItem[s].key = k]_vars

\* A file that a scan would admit, or whose item some thread carries, is
\* eventually taken by the parser or recorded FAILED, unless it changes or the
\* process stops first.  (A finished record that a late MarkQueued turns back
\* to QUEUED is neither admissible nor carried: it stays as it is.)
EveryFileSettles ==
    \A f \in Files, h \in Hashes :
        LET k == <<f, h>>
        IN  (/\ mode = "up"
             /\ disk[f] = h
             /\ Live(k) \/ ~IsInFlightOrProcessed(status[k]))
                ~> \/ mode # "up"
                   \/ disk[f] # h
                   \/ \E a \in accepted : a[1] = k
                   \/ status[k] = "FAILED"
=============================================================================
