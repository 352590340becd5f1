--------------------------- MODULE FileStateStore ---------------------------
(***************************************************************************)
(* The router's persistent record of source files                          *)
(* (router/app/reliability/state.py).  A record is keyed by                *)
(* (source, filename, hash); the router decides from its status alone, so  *)
(* the store is a function from keys to statuses, with "NONE" for a key    *)
(* that has no record.  The attempt counter, the timestamps and the last   *)
(* error of a record are reported and never read back by the router.       *)
(*                                                                         *)
(* update_status and increment_attempt read a record and write it back     *)
(* without the store's lock.  Every writer of a status overwrites it       *)
(* whatever it read, so for the status the write-back alone is the step.   *)
(***************************************************************************)

\* FileState, with "NONE" for a missing record.
FileStates ==
    { "DISCOVERED", "WAITING_FOR_STABILITY", "READY", "QUEUED", "SENDING",
      "ACKNOWLEDGED", "PROCESSED", "RETRYING", "FAILED" }

Statuses == FileStates \cup {"NONE"}

\* Faulty variants of the next operator, for mutation testing only: a retry,
\* a given-up file or an acknowledged one looks like a new file to a scan.
RetryingLooksNew(st) ==
    st \in { "READY", "QUEUED", "SENDING", "ACKNOWLEDGED", "PROCESSED", "FAILED" }
FailedLooksNew(st) ==
    st \in { "READY", "QUEUED", "SENDING", "ACKNOWLEDGED", "PROCESSED", "RETRYING" }
AcknowledgedLooksNew(st) ==
    st \in { "READY", "QUEUED", "SENDING", "PROCESSED", "RETRYING", "FAILED" }

\* is_in_flight_or_processed: a scan leaves a file with such a record alone.
IsInFlightOrProcessed(st) ==
    st \in { "READY", "QUEUED", "SENDING", "ACKNOWLEDGED", "PROCESSED",
             "RETRYING", "FAILED" }

\* get_incomplete_records / reset_interrupted_states: what a restart reopens.
IsInterrupted(st) == st \in { "READY", "QUEUED", "SENDING", "RETRYING" }

\* record_discovered: create the record, or overwrite its status.
RecordDiscovered(store, k, st) == [store EXCEPT ![k] = st]

\* update_status: no record, no change.
UpdateStatus(store, k, st) ==
    IF store[k] = "NONE" THEN store ELSE [store EXCEPT ![k] = st]

\* Faulty variant of ResetInterrupted, for mutation testing only.
ResetInterruptedForgetsRetrying(store) ==
    [k \in DOMAIN store |-> IF store[k] \in {"READY", "QUEUED", "SENDING"}
                            THEN "DISCOVERED" ELSE store[k]]

\* reset_interrupted_states, run once by RoutingEngine.start.
ResetInterrupted(store) ==
    [k \in DOMAIN store |-> IF IsInterrupted(store[k])
                            THEN "DISCOVERED" ELSE store[k]]
=============================================================================
