------------------------------ MODULE Forwarder ------------------------------
(***************************************************************************)
(* The Data Forwarder (forwarder/app): one worker thread polls the XML     *)
(* spool, delivers every file to every enabled destination with retries,   *)
(* keeps a persistent record per file and destination, and archives a file *)
(* that all destinations have; the HTTP API edits the destinations and     *)
(* reloads the configuration while the worker runs; the process may stop   *)
(* or crash between any two steps.                                         *)
(*                                                                         *)
(* The parser puts a digest of the content in a spool file's name, so a    *)
(* file is its name here and output_id is the file.  Destinations are      *)
(* served in any order, a superset of the configuration file's order.      *)
(***************************************************************************)
EXTENDS Naturals

CONSTANTS
    Files,          \* names of XML files the parser spools
    Dests,          \* destinations of the configuration file
    InitEnabled,    \* the destinations enabled at first
    Sftp,           \* destinations whose rename fails if the target exists
    Unsupported,    \* destinations with a protocol transport_for rejects
    Working,        \* destinations that are not out of reach for ever
    MaxAttempts,    \* retry.max_attempts
    ReloadRoot,     \* the root reload_config derives from the config path
    NoFile, NoDest,
    MaxSpools,      \* bound on the files spooled
    MaxEdits,       \* bound on the configuration edits and reloads
    MaxRestarts     \* bound on stops and crashes

ASSUME DestsAssumption    == InitEnabled \subseteq Dests
ASSUME AttemptsAssumption == MaxAttempts \in Nat \ {0}

\* Every path of the configuration is relative to a root: main() takes the
\* project's, reload_config the config file's great-great-grandparent, which
\* is the directory above the project unless --config names a deeper file.
Roots == {"project", "above"}

ASSUME RootAssumption == ReloadRoot \in Roots

\* DeliveryState; "NONE" for a missing record.
States == {"NONE", "PENDING", "TRANSFERRING", "RETRYING", "DELIVERED", "FAILED"}

Pcs == {"idle", "listed", "pick", "dests", "attempt", "transfer", "sent"}

VARIABLES
    spool,      \* files in the project's spool directory
    archive,    \* root -> files in the archive directory under it
    enabled,    \* destinations enabled in the configuration (persistent)
    root,       \* root of the configuration in use
    store,      \* root of the state store in use
    rec,        \* root -> <<file, destination>> -> state (persistent)
    received,   \* destination -> files that have arrived there
    present,    \* destination -> files that have not been collected yet
    pc,         \* where the worker is
    batch,      \* files of this process_once still to be looked at
    snapshot,   \* process_once's `enabled`
    file,       \* _process_file's path
    todo,       \* destinations of this file still to be served
    dest,       \* _deliver_with_retry's destination
    began,      \* the store in which it was found not to be recorded
    attempt,    \* its attempt
    ok,         \* _process_file's all_delivered
    up,         \* does the process run?
    spools, edits, restarts

confVars  == <<root, store>>
workVars  == <<pc, batch, snapshot, file, todo, dest, began, attempt, ok>>
destVars  == <<received, present>>
boundVars == <<spools, edits, restarts>>
vars == <<spool, archive, enabled, confVars, rec, destVars, workVars, up, boundVars>>

Init ==
    /\ spool = {}
    /\ archive = [r \in Roots |-> {}]
    /\ enabled = InitEnabled
    /\ root = "project"
    /\ store = "project"
    /\ rec = [r \in Roots |-> [fd \in Files \X Dests |-> "NONE"]]
    /\ received = [d \in Dests |-> {}]
    /\ present = [d \in Dests |-> {}]
    /\ pc = "idle"
    /\ batch = {}
    /\ snapshot = {}
    /\ file = NoFile
    /\ todo = {}
    /\ dest = NoDest
    /\ began = "project"
    /\ attempt = 0
    /\ ok = TRUE
    /\ up = TRUE
    /\ spools = 0
    /\ edits = 0
    /\ restarts = 0

-----------------------------------------------------------------------------
(* The surroundings: the parser's spooler and the downstream consumers.    *)

Spool(f) ==
    /\ spools < MaxSpools
    /\ f \notin spool
    /\ spool' = spool \cup {f}
    /\ spools' = spools + 1
    /\ UNCHANGED <<archive, enabled, confVars, rec, destVars, workVars, up, edits, restarts>>

Collect(d, f) ==
    /\ f \in present[d]
    /\ present' = [present EXCEPT ![d] = @ \ {f}]
    /\ UNCHANGED <<spool, archive, enabled, confVars, rec, received, workVars, up, boundVars>>

-----------------------------------------------------------------------------
(* The worker: _loop, process_once, _process_file, _deliver_with_retry.    *)

\* The spool directory of the configuration in use: nobody writes files to
\* the one above the project.
Visible == IF root = "project" THEN spool ELSE {}

\* DeliveryState.get, .ensure and .mark on the store in use.
Recorded(f, d) == rec[store][<<f, d>>]
Mark(f, d, st) == rec' = [rec EXCEPT ![store][<<f, d>>] = st]

ListSpool ==
    /\ up
    /\ pc = "idle"
    /\ Visible # {}
    /\ batch' = Visible
    /\ pc' = "listed"
    /\ UNCHANGED <<spool, archive, enabled, confVars, rec, destVars, snapshot, file, todo, dest,
                   began, attempt, ok, up, boundVars>>

\* A poll that finds no files ...
IdlePoll ==
    /\ up
    /\ pc = "idle"
    /\ Visible = {}
    /\ UNCHANGED vars

StartCycle ==
    /\ up
    /\ pc = "listed"
    /\ enabled # {}
    /\ snapshot' = enabled
    /\ pc' = "pick"
    /\ UNCHANGED <<spool, archive, enabled, confVars, rec, destVars, batch, file, todo, dest,
                   began, attempt, ok, up, boundVars>>

\* ... or no enabled destination.
NothingEnabled ==
    /\ up
    /\ pc = "listed"
    /\ enabled = {}
    /\ batch' = {}
    /\ pc' = "idle"
    /\ UNCHANGED <<spool, archive, enabled, confVars, rec, destVars, snapshot, file, todo, dest,
                   began, attempt, ok, up, boundVars>>

PickFile(f) ==
    /\ up
    /\ pc = "pick"
    /\ f \in batch
    /\ batch' = batch \ {f}
    /\ file' = f
    /\ todo' = snapshot
    /\ ok' = TRUE
    /\ pc' = "dests"
    /\ UNCHANGED <<spool, archive, enabled, confVars, rec, destVars, snapshot, dest, began,
                   attempt, up, boundVars>>

\* The file cannot be read: it is left for the next poll.
SkipUnreadable(f) ==
    /\ up
    /\ pc = "pick"
    /\ f \in batch
    /\ batch' = batch \ {f}
    /\ UNCHANGED <<spool, archive, enabled, confVars, rec, destVars, pc, snapshot, file, todo,
                   dest, began, attempt, ok, up, boundVars>>

EndCycle ==
    /\ up
    /\ pc = "pick"
    /\ batch = {}
    /\ pc' = "idle"
    /\ snapshot' = {}
    /\ UNCHANGED <<spool, archive, enabled, confVars, rec, destVars, batch, file, todo, dest,
                   began, attempt, ok, up, boundVars>>

\* Faulty variant of SkipDelivered, for mutation testing only.
SkipCountsAsFailure(d) ==
    /\ up
    /\ pc = "dests"
    /\ d \in todo
    /\ Recorded(file, d) = "DELIVERED"
    /\ todo' = todo \ {d}
    /\ ok' = FALSE
    /\ UNCHANGED <<spool, archive, enabled, confVars, rec, destVars, pc, batch, snapshot, file,
                   dest, began, attempt, up, boundVars>>

SkipDelivered(d) ==
    /\ up
    /\ pc = "dests"
    /\ d \in todo
    /\ Recorded(file, d) = "DELIVERED"
    /\ todo' = todo \ {d}
    /\ UNCHANGED <<spool, archive, enabled, confVars, rec, destVars, pc, batch, snapshot, file,
                   dest, began, attempt, ok, up, boundVars>>

Ensure(f, d) ==
    IF Recorded(f, d) = "NONE" THEN Mark(f, d, "PENDING") ELSE UNCHANGED rec

\* Faulty variant of BeginDest, for mutation testing only: no look at the record.
BeginDestAgain(d) ==
    /\ up
    /\ pc = "dests"
    /\ d \in todo \ Unsupported
    /\ Ensure(file, d)
    /\ dest' = d
    /\ began' = store
    /\ attempt' = 1
    /\ pc' = "attempt"
    /\ UNCHANGED <<spool, archive, enabled, confVars, destVars, batch, snapshot, file, todo, ok,
                   up, boundVars>>

BeginDest(d) ==
    /\ up
    /\ pc = "dests"
    /\ d \in todo \ Unsupported
    /\ Recorded(file, d) # "DELIVERED"
    /\ Ensure(file, d)
    /\ dest' = d
    /\ began' = store
    /\ attempt' = 1
    /\ pc' = "attempt"
    /\ UNCHANGED <<spool, archive, enabled, confVars, destVars, batch, snapshot, file, todo, ok,
                   up, boundVars>>

\* Faulty variant of AbortCycle, for mutation testing only: the destination is
\* passed over.
PassOver(d) ==
    /\ up
    /\ pc = "dests"
    /\ d \in todo \cap Unsupported
    /\ Recorded(file, d) # "DELIVERED"
    /\ Ensure(file, d)
    /\ todo' = todo \ {d}
    /\ UNCHANGED <<spool, archive, enabled, confVars, destVars, pc, batch, snapshot, file, dest,
                   began, attempt, ok, up, boundVars>>

\* transport_for raises outside the retry loop: process_once is abandoned.
AbortCycle(d) ==
    /\ up
    /\ pc = "dests"
    /\ d \in todo \cap Unsupported
    /\ Recorded(file, d) # "DELIVERED"
    /\ Ensure(file, d)
    /\ pc' = "idle"
    /\ batch' = {}
    /\ snapshot' = {}
    /\ todo' = {}
    /\ file' = NoFile
    /\ UNCHANGED <<spool, archive, enabled, confVars, destVars, dest, began, attempt, ok, up,
                   boundVars>>

\* Faulty variant of StartAttempt, for mutation testing only.
StartAttemptOptimistically ==
    /\ up
    /\ pc = "attempt"
    /\ Mark(file, dest, "DELIVERED")
    /\ pc' = "transfer"
    /\ UNCHANGED <<spool, archive, enabled, confVars, destVars, batch, snapshot, file, todo,
                   dest, began, attempt, ok, up, boundVars>>

StartAttempt ==
    /\ up
    /\ pc = "attempt"
    /\ Mark(file, dest, "TRANSFERRING")
    /\ pc' = "transfer"
    /\ UNCHANGED <<spool, archive, enabled, confVars, destVars, batch, snapshot, file, todo,
                   dest, began, attempt, ok, up, boundVars>>

Arrives(d, f) ==
    /\ received' = [received EXCEPT ![d] = @ \cup {f}]
    /\ present' = [present EXCEPT ![d] = @ \cup {f}]

CanArrive(d, f) == d \in Sftp => f \notin present[d]

\* transport.deliver returns ...
Deliver ==
    /\ up
    /\ pc = "transfer"
    /\ dest \in Working
    /\ CanArrive(dest, file)
    /\ Arrives(dest, file)
    /\ pc' = "sent"
    /\ UNCHANGED <<spool, archive, enabled, confVars, rec, batch, snapshot, file, todo, dest,
                   began, attempt, ok, up, boundVars>>

\* ... and the delivery is recorded.
MarkDelivered ==
    /\ up
    /\ pc = "sent"
    /\ Mark(file, dest, "DELIVERED")
    /\ todo' = todo \ {dest}
    /\ pc' = "dests"
    /\ UNCHANGED <<spool, archive, enabled, confVars, destVars, batch, snapshot, file, dest,
                   began, attempt, ok, up, boundVars>>

\* transport.deliver raises: nothing has changed, or the file has arrived, or
\* FilesystemTransport has removed it again, size verification having failed.
DeliverRaises ==
    \/ UNCHANGED destVars
    \/ dest \in Working /\ CanArrive(dest, file) /\ Arrives(dest, file)
    \/ /\ dest \in Working \ Sftp
       /\ present' = [present EXCEPT ![dest] = @ \ {file}]
       /\ UNCHANGED received

\* Faulty variant of Retry, for mutation testing only.
RetryOnceMore ==
    /\ up
    /\ pc = "transfer"
    /\ attempt <= MaxAttempts
    /\ DeliverRaises
    /\ Mark(file, dest, "RETRYING")
    /\ attempt' = attempt + 1
    /\ pc' = "attempt"
    /\ UNCHANGED <<spool, archive, enabled, confVars, batch, snapshot, file, todo, dest, began,
                   ok, up, boundVars>>

Retry ==
    /\ up
    /\ pc = "transfer"
    /\ attempt < MaxAttempts
    /\ DeliverRaises
    /\ Mark(file, dest, "RETRYING")
    /\ attempt' = attempt + 1
    /\ pc' = "attempt"
    /\ UNCHANGED <<spool, archive, enabled, confVars, batch, snapshot, file, todo, dest, began,
                   ok, up, boundVars>>

\* Faulty variant of GiveUp, for mutation testing only: the failure ends the
\* loop over the destinations.
GiveUpFile ==
    /\ up
    /\ pc = "transfer"
    /\ attempt >= MaxAttempts
    /\ DeliverRaises
    /\ Mark(file, dest, "FAILED")
    /\ ok' = FALSE
    /\ todo' = {}
    /\ pc' = "dests"
    /\ UNCHANGED <<spool, archive, enabled, confVars, batch, snapshot, file, dest, began,
                   attempt, up, boundVars>>

GiveUp ==
    /\ up
    /\ pc = "transfer"
    /\ attempt >= MaxAttempts
    /\ DeliverRaises
    /\ Mark(file, dest, "FAILED")
    /\ ok' = FALSE
    /\ todo' = todo \ {dest}
    /\ pc' = "dests"
    /\ UNCHANGED <<spool, archive, enabled, confVars, batch, snapshot, file, dest, began,
                   attempt, up, boundVars>>

\* The file moves to the archive of the configuration in use by now.
Archive ==
    /\ up
    /\ pc = "dests"
    /\ todo = {}
    /\ ok
    /\ spool' = spool \ {file}
    /\ archive' = [archive EXCEPT ![root] = @ \cup {file}]
    /\ pc' = "pick"
    /\ UNCHANGED <<enabled, confVars, rec, destVars, batch, snapshot, file, todo, dest, began,
                   attempt, ok, up, boundVars>>

\* A destination failed: the file stays for the next poll.
KeepFile ==
    /\ up
    /\ pc = "dests"
    /\ todo = {}
    /\ ~ok
    /\ pc' = "pick"
    /\ UNCHANGED <<spool, archive, enabled, confVars, rec, destVars, batch, snapshot, file,
                   todo, dest, began, attempt, ok, up, boundVars>>

\* The move raises: the file stays, too.
ArchiveFails ==
    /\ up
    /\ pc = "dests"
    /\ todo = {}
    /\ ok
    /\ pc' = "pick"
    /\ UNCHANGED <<spool, archive, enabled, confVars, rec, destVars, batch, snapshot, file,
                   todo, dest, began, attempt, ok, up, boundVars>>

-----------------------------------------------------------------------------
(* The HTTP API: save_destination, delete_destination, reload_config.      *)

\* Saved enabled, saved disabled, or deleted.  The edit of the file and the
\* new configuration of the reload that ends it are one step: what runs
\* meanwhile reads the old configuration, as it does before the edit.
EditDestination(d) ==
    /\ up
    /\ edits < MaxEdits
    /\ enabled' \in {enabled \cup {d}, enabled \ {d}}
    /\ root' = ReloadRoot
    /\ edits' = edits + 1
    /\ UNCHANGED <<spool, archive, store, rec, destVars, workVars, up, spools, restarts>>

Reload ==
    /\ up
    /\ edits < MaxEdits
    /\ root' = ReloadRoot
    /\ edits' = edits + 1
    /\ UNCHANGED <<spool, archive, enabled, store, rec, destVars, workVars, up, spools, restarts>>

\* The configuration is in use before the state store that goes with it has
\* been opened; if that cannot be opened, the old one stays.
SwapStore ==
    /\ up
    /\ store # root
    /\ store' = root
    /\ UNCHANGED <<spool, archive, enabled, root, rec, destVars, workVars, up, boundVars>>

-----------------------------------------------------------------------------
(* The process.                                                            *)

\* A crash, or the exit after stop() has waited for the worker for 5 s.
Halt ==
    /\ up
    /\ restarts < MaxRestarts
    /\ up' = FALSE
    /\ pc' = "idle"
    /\ batch' = {}
    /\ snapshot' = {}
    /\ file' = NoFile
    /\ todo' = {}
    /\ dest' = NoDest
    /\ began' = "project"
    /\ attempt' = 0
    /\ ok' = TRUE
    /\ restarts' = restarts + 1
    /\ UNCHANGED <<spool, archive, enabled, confVars, rec, destVars, spools, edits>>

\* main() derives the root afresh.
Restart ==
    /\ ~up
    /\ up' = TRUE
    /\ root' = "project"
    /\ store' = "project"
    /\ UNCHANGED <<spool, archive, enabled, rec, destVars, workVars, boundVars>>

-----------------------------------------------------------------------------
Environment ==
    \/ \E f \in Files : Spool(f)
    \/ \E d \in Dests, f \in Files : Collect(d, f)

PollSpool ==
    \/ ListSpool
    \/ StartCycle
    \/ NothingEnabled
    \/ \E f \in batch : PickFile(f) \/ SkipUnreadable(f)
    \/ EndCycle

ServeFile ==
    \/ \E d \in todo : SkipDelivered(d) \/ BeginDest(d) \/ AbortCycle(d)
    \/ Archive
    \/ KeepFile
    \/ ArchiveFails

DeliverRetrying ==
    \/ StartAttempt
    \/ Deliver
    \/ MarkDelivered
    \/ Retry
    \/ GiveUp

Api == Reload \/ SwapStore \/ \E d \in Dests : EditDestination(d)

Process == Halt \/ Restart

Next ==
    \/ Environment
    \/ IdlePoll
    \/ PollSpool
    \/ ServeFile
    \/ DeliverRetrying
    \/ Api
    \/ Process

Spec == Init /\ [][Next]_vars

\* The worker thread runs.  A file can be read, and the archive written, often
\* enough; a destination that is not out of reach for ever takes a file it is
\* offered again and again; consumers collect what has arrived.  Nothing makes
\* the operator edit, the parser spool, or the process halt or restart.
Fairness ==
    /\ WF_vars(PollSpool \/ ServeFile \/ DeliverRetrying)
    /\ \A f \in Files : SF_vars(PickFile(f))
    /\ \A d \in Dests, f \in Files :
        /\ SF_vars(dest = d /\ file = f /\ Deliver)
        /\ WF_vars(Collect(d, f))
    /\ SF_vars(Archive)

FairSpec == Spec /\ Fairness

-----------------------------------------------------------------------------
(* Properties.                                                             *)

\* Type invariant; no delivery makes more than max_attempts attempts.
TypeOK ==
    /\ spool \subseteq Files
    /\ archive \in [Roots -> SUBSET Files]
    /\ enabled \subseteq Dests
    /\ root \in Roots /\ store \in Roots /\ began \in Roots
    /\ rec \in [Roots -> [Files \X Dests -> States]]
    /\ received \in [Dests -> SUBSET Files]
    /\ present \in [Dests -> SUBSET Files]
    /\ pc \in Pcs
    /\ batch \subseteq Files
    /\ snapshot \subseteq Dests
    /\ file \in Files \cup {NoFile}
    /\ todo \subseteq Dests
    /\ dest \in Dests \cup {NoDest}
    /\ attempt \in 0 .. MaxAttempts
    /\ ok \in BOOLEAN
    /\ up \in BOOLEAN

\* A record says DELIVERED only if the file has reached that destination,
\* whichever store the reloads of the configuration have put it in.
DeliveredIsTrue ==
    \A r \in Roots, f \in Files, d \in Dests :
        rec[r][<<f, d>>] = "DELIVERED" => f \in received[d]

\* A delivery that is recorded is never taken back, so it is not repeated
\* after a restart, a reload or a second spooling of the same document.  One
\* thing takes it back: a reload that moves the root gives the worker another
\* store between its look at the record and its own first record.
\* (service.py:45-54, 98-103, 118-137)
DeliveredIsFinal ==
    [][\A r \in Roots, f \in Files, d \in Dests :
          rec[r][<<f, d>>] = "DELIVERED" /\ rec'[r][<<f, d>>] # "DELIVERED" =>
              r = store /\ store # began]_vars

\* A file leaves the spool only when it has reached every destination that
\* was enabled when the poll began, deliveries of earlier polls and earlier
\* runs of the process included.
ArchivedWasDelivered ==
    [][\A f \in spool \ spool' : \A d \in snapshot : f \in received[d]]_vars

\* A destination that is out of reach for ever does not keep the files from
\* one that works.
WorkingDestinationIsServed ==
    \A f \in Files, d \in Working :
        (up /\ f \in spool /\ d \in enabled)
            ~> (~up \/ d \notin enabled \/ f \in received[d])

\* As long as every enabled destination works, every file leaves the spool,
\* although the destinations fail at times, are edited, and the process is
\* restarted.
Deliverable == enabled # {} /\ enabled \subseteq Working

EveryFileLeaves ==
    \A f \in Files : (up /\ f \in spool /\ Deliverable) ~> (~up \/ ~Deliverable \/ f \notin spool)

\* "Forwarder sees those XML files": a file in forwarder/spool/pending is at
\* least tried while a destination is enabled and the process runs.
SpooledFileIsTried ==
    \A f \in Files :
        (up /\ f \in spool /\ enabled # {})
            ~> \/ ~up \/ enabled = {}
               \/ \E r \in Roots, d \in Dests : rec[r][<<f, d>>] # "NONE"
=============================================================================
