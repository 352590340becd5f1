# A verification development of Validation

Validation moves maritime track messages from inflow folders and TCP feeds to
downstream consumers. This directory holds TLA+ models of its core, the TLC
configurations that check them on small instances, and theorems about them
that TLAPS proves for every instance.

## 1. The system

Four operating system processes, each started by a launcher script or by the
operator console:

```
 producers -> DATA_INFLOW/*  --+                                  consumers
 TCP feeds ----------------- Router --NDJSON/TCP--> Parser --XML files--> Forwarder --> destinations
                               |        <--ACK---     |     (spool dir)      |
                          file_states           ais/track state,        delivery state
                           (RocksDB)           WRS/PANS/NSC stores        (RocksDB)
                                    Console: starts, stops, configures, rebuilds reference stores
```

### Components, state, operations, what makes them correct

| component (source) | state it keeps | operations | correct if |
|---|---|---|---|
| file state store (`router/app/reliability/state.py`) | status of every (source, filename, hash), persistent | `record_discovered`, `update_status`, `is_in_flight_or_processed`, `reset_interrupted_states` | a status says what has happened; a restart reopens exactly what was interrupted |
| file sources (`router/app/sources/file_source.py`) | stability snapshots, the file in hand | scan, hash, duplicate check, record, read, route | no content is in flight twice; what is read is what was hashed |
| delivery queue (`router/app/queue/manager.py`) | bounded queue, sleeping retry threads | `put`, `get`, `requeue_for_retry`, `stop` | nothing accepted is lost while the process runs |
| routing engine (`router/app/routing/router.py`) | worker threads | `route`, `_process_delivery`, `_finalize_file_after_ack`, `start`, `stop` | at-least-once delivery; bounded attempts; a file is removed only after its ACK |
| parser link (`router/app/transport`, `router/app/reliability/acknowledgement.py`, `parser/app/server/endpoint.py`) | one socket and lock per destination; one thread per connection | connect, send, await, disconnect; accept, read, process, answer | an answer belongs to the request that gets it |
| TCP sources (`router/app/sources/tcp_source.py`) | receive buffer, reconnect attempts | connect, deframe, route, reconnect, stop | messages are cut out of the stream exactly, every one has a known fate, a source that is not stopped goes on |
| pipeline (`parser/app/pipeline/processor.py`) | none of its own | parse, normalise, enrich, generate, check, spool | an ACK means that what could be produced has been spooled |
| enrichment (`enricher.py`, `normalizer.py`, `source_registry.py`) | none of its own | normalise, fill from mapping, references and history, overwrite, label | what was transmitted is emitted, zeros included; a label says where a value came from |
| AIS reassembly (`parser/app/parsers/sais.py`) | fragment cache per (source, sequence id, count) | collect, complete | fragments of one message only are joined |
| AIS and track state (`ais_state.py`, `track_state.py`, `spoofing.py`) | latest state per vessel | read, check, merge | newer state is not replaced by older |
| reference lookup and importer (`reference_db.py`, `parser/reference/reference_importer.py`) | WRS/PANS/NSC stores, lookup cache | build, swap, look up | a reader sees a whole store, old or new |
| forwarder (`forwarder/app`) | delivery record per (file, destination), persistent; configuration | poll, deliver with retries, archive, edit, reload | a file leaves the spool only when delivered; a record is true |
| console and launcher (`console/app/main.py`, `scripts/launch_service.py`) | pid files, process handles | start, stop, adopt, update reference | one process per service; the parser is down during an update |

`PROJECT.json` lists all of them, with what is modelled of each.

### Where it is hard

The router is a set of threads (pollers, workers, one sleeping thread per
retry) that share a queue, the persistent statuses and the files themselves
without a common lock. The process can stop or crash between any two of their
steps; the parser may have taken a message whose ACK is lost. The forwarder
has one worker, but its configuration and its state store are replaced under
it by API threads, and it can die between a delivery and its record. The
parser has one handler thread per connection, all on one fragment cache and on
stores that lock single gets and puts only. What a field becomes is decided in
a chain of truth tests, `or`s and overwrites in which a zero, a blank, a code
or a default easily passes for something else. The console's requests run in
threads that share the parser's process, its pid file (which the launcher
writes too) and the directories of the reference stores.
`PROJECT.json` lists these hazards line by line, with the properties aimed at
each.

## 2. The modules

| module | models | extends |
|---|---|---|
| `FileStateStore` | the router's persistent record: its statuses and operations | - |
| `Router` | pollers, queue, retry threads, workers, stop, crash, restart | `FileStateStore` |
| `MCRouter` | finite instances of `Router` | `Router` |
| `Router_proofs` | theorems about `Router` | `Router` |
| `Delivery` | what a delivery to the parser promises, abstractly | - |
| `ParserLink` | the router's client and the parser's endpoint; implements `Delivery` | - (INSTANCE `Delivery`) |
| `MCParserLink` | finite instances of `ParserLink` | `ParserLink` |
| `ParserLink_proofs` | theorems about `ParserLink` | `ParserLink` |
| `Forwarder` | the spool poll, deliveries with retries, archive, API edits and reloads, halt and restart | - |
| `MCForwarder` | finite instances of `Forwarder` | `Forwarder` |
| `Forwarder_proofs` | theorems about `Forwarder` | `Forwarder` |
| `TcpSource` | the stream of a TCP feed, framing, routing, reconnects, stop | - |
| `MCTcpSource` | finite instances of `TcpSource` | `TcpSource` |
| `TcpSource_proofs` | theorems about `TcpSource` | `TcpSource` |
| `SaisReassembly` | the fragment cache of the AIS parser | - |
| `ParserPipeline` | handler threads on that cache, on vessel state and history, on the spool | `SaisReassembly` |
| `MCParserPipeline` | finite instances of `ParserPipeline` | `ParserPipeline` |
| `ParserPipeline_proofs` | theorems about `ParserPipeline` | `ParserPipeline` |
| `FieldValues` | the classes of values; source parsers and normaliser as operators on them | - |
| `ReferenceLookup` | which row of a reference store an identity matches, what it offers | `FieldValues` |
| `Enrichment` | how the enrichment chooses the value and the label of a field | `ReferenceLookup` |
| `RecordPath` | a field through the pipeline, message after message | `Enrichment` |
| `MCRecordPath` | finite instances of `RecordPath` | `RecordPath` |
| `RecordPath_proofs` | theorems about `RecordPath` | `RecordPath` |
| `ServiceControl` | console, launcher and the parser's process | - |
| `ReferenceUpdate` | imports of reference stores around that process | `ServiceControl` |
| `MCReferenceUpdate` | finite instances of `ReferenceUpdate` | `ReferenceUpdate` |
| `ReferenceUpdate_proofs` | theorems about `ReferenceUpdate` | `ReferenceUpdate` |

The operators whose comment calls them faulty variants are never used by a
specification: each is what a plausible bug would make of the definition that
follows it, and the property it is paired with in `PROJECT.json` is violated
when it takes that definition's place.

### Router

One action per step another thread can interleave with. A poller is at
`pollPc[s]` in `_process_candidate_file`: `Admit` (stable, hashed, not a
duplicate, recorded READY), `ReadContent` or `ReadFails`, `PutAccept` or
`PutReject`, `MarkQueued`. A worker is at `workPc[w]` in `_process_delivery`:
`Take`, then `ParserHandles` (the parser takes the message), `AckReceived` or
`DeliveryFails`, `MarkAcked`, `MarkProcessed`, `Finalize`; or `MarkRetrying`,
which starts a retry thread (`timers`), or `MarkFailed`. A retry thread ends
in `TimerFires` or, if the queue is full or stopped, in `TimerDrops`. `Stop`,
`Exit`, `Crash` and `Restart` are the process.

Abstractions: a file's content is its hash; message ids, timestamps and
attempt counters of records are reported and never read back; a queue item is
its record's key, the content read and its attempt count. Time is left out: a
file may be found stable as soon as it is there, and a retry may fire at any
later time. The parser is the growing set `accepted` of what it has taken. A
thread that has passed its check of the stop event may take another step, so
`Take` and `TimerFires` are allowed while the process stops. A file may fail to
be read though it is there (`ReadFails`). `update_status` and
`increment_attempt` read a record and write it back without a lock; the status
that the first writes does not depend on what it read, and the second is
followed by the worker's next status, so that a lost update is the same as the
other order of the two writes, and the model has only that. `get_delay`
overflows (and with it the worker) after about a thousand attempts of one item;
`max_attempts` is taken to be lower, and the same call is in `TcpSource`, where
nothing bounds the attempts. The duplicate
check and the READY record are one step because nobody but the poller of the
source writes the record of a key that no thread carries.

### ParserLink and Delivery

A worker takes an item (`Take`), gets the client's lock and holds it through
the whole delivery (`EnterClient`, `Connect` or `ConnectFails`, `Send` or
`SendFails`, `ReceiveAnswer` or `AwaitFails`). Any failure closes the socket,
an answer of any kind leaves it open. A connection is a member of `Conns` that
is used once; lines and answers travel on it in order, and are lost when an end
closes it. The parser's thread of a connection goes through `Accept`,
`ReadLine`, `Process`, `Reply` until `HandlerEnds` (end of stream, reset, ten
idle seconds, which may strike while a line is on its way). A thread whose
router has hung up finishes its work all the same. `BeginDisconnectAll` and
`DisconnectAll` are the router's shutdown; `RouterRestarts`, `EndpointStops`,
`ParserDies` and `ParserStarts` are the processes and happen any number of
times. The manager's lock only delays a worker, which the model allows anyway.

A message that was acknowledged may be delivered again: the router may crash
between the answer and its record, or a late QUEUED may overwrite that record,
and then a scan after a restart takes the file for a new one. `Take` therefore
only demands that no worker has the message already (`NeverTwiceInFlight` of
`Router`).

`Delivery` says the same without connections: offers, one at a time for each
message, again and again also after an acknowledgement, each answered; the
parser may handle a message any time after its first offer. `OfferOf` and `Offered` are the refinement mapping: an offer is
pending while some worker awaits its answer. `Router`'s `ParserHandles`,
`AckReceived` and `DeliveryFails` are this promise within one worker; a late
handling, after the delivery has failed, adds to `accepted` what a
`ParserHandles` just before the failure adds.

### Forwarder

One worker at `pc`: `ListSpool`, `StartCycle` (or `IdlePoll`,
`NothingEnabled`), `PickFile` (or `SkipUnreadable`), then for each destination
of the cycle `SkipDelivered`, or `BeginDest` and the loop of
`_deliver_with_retry` (`StartAttempt`; `Deliver` and `MarkDelivered`; `Retry`;
`GiveUp`), or `AbortCycle` where `transport_for` raises; at last `Archive`,
`KeepFile` or `ArchiveFails`. API threads take `EditDestination` and `Reload`
at any time; a reload assigns the configuration (`root`) and then, in a step of
its own, opens the state store that belongs to it (`SwapStore`, `store`), which
may also fail. `began` is a history variable: the store in which the worker
looked up the delivery in hand. `Halt` and `Restart` are the process, `Spool` is the parser and
`Collect` the consumers.

`main()` hands `load_config` the project's root; `reload_config` derives one
from the path of the configuration file. So spool, archive and delivery state
exist once per root, and `ReloadRoot` says which root a reload leads to:
"above" for the path the installation uses, "project" for a configuration file
that lies one directory deeper. A spool file's name contains a digest of its
content, so a file is its name. Destinations are served in any order.

### TcpSource

One thread at `receiver`, which goes through `_connection_loop`: `Connect` or
`Refused`; then, per framing, `ReceiveChunk`, `SplitLine` and `CheckLength`, or
`ReceiveExact`, `HeaderTooLong` and `PauseIsFatal`; `Routed` or `NotRouted`;
`ConnectionLost` and `WaitEnds`; `SeeStop`. `Send` is the feed, `TakeFromQueue`
the delivery workers, `Stop` the router. A message is a number of pieces on the
wire, so that chunks end anywhere; a length header is one token. What is lost
with a connection is noted in `cut`, what the full queue refuses in `refused`.
How long a delay lasts is left out, whether it can be computed is not:
`DelayOverflows`. Messages have at least one piece: a length-prefixed frame of
length zero would be routed as an empty message like any other, and what a
property says of a message does not depend on its pieces. The constant `PowLimit` stands for the 1024 doublings a float
takes.

### SaisReassembly and ParserPipeline

A step is one operation of a handler thread on shared state. For a two-part
sentence these are the calls on `_fragment_cache` and `_fragment_meta`
(`Bind`, `Put`, `NoteMeta`, `EmitFragment` or `EmitComplete`, `DropCache`,
`DropMeta`); a thread keeps its reference to a dictionary that others may have
removed or replaced meanwhile. Then come the position check and the
read-merge-write of the vessel's state (`CheckPosition`, `ReadState`,
`WriteState`), the lookup that may raise (`LookupRaises`), the history
(`Enrich`, `ReadHistory`, `WriteHistory`), and `_spool_xml`: `OpenPart`,
`Write`, `Replace` or `ReplaceFails`, `Answer`. An open file is followed by its
descriptor: a thread goes on writing a file that another has renamed. `Die`
ends the process in between; the stores and the files stay.

A value is known by the message it came from, so that a value of another vessel
or of an older message is visible as such. All two-part messages of an instance
share one cache key, since entries under other keys do not meet. `pending` and
`disorder` record whether the feed has delivered the parts in order: on a feed
that has not (two parts swapped, one lost, or the parts of two messages with
one sequence id interleaved) the code does join parts of different messages,
which `NoForeignValues` and `OrderedMessageIsWhole` exclude by their premise.

### FieldValues, ReferenceLookup, Enrichment, RecordPath

These follow one field of one vessel through `process_envelope`, message after
message: `ReceiveAny` (parser, merge with the AIS state, normaliser), `Enrich`,
`Emit` or `Reject`. The fields of a record are handled independently, hence one
is enough; `field` is any of them, and `Transmitted` says what a sender may put
there. A value is a class (`Kinds`) with its origin: the classes are those the
code's own tests tell apart (`None`, the empty string, zero, a code that stands
for a text, a placeholder, a text in the place of a number, control characters
only, a character XML does not allow). Sanitising, code tables and formatting
are therefore operators from class to class (`Clean`, `Described`, `Resolved`,
`Text`), and the way a parser finds a field in its line is only whether it can
(`Carries`). `ReferenceOrder`, `Wanting`, `Filled`, `Overwritten`, `Recovered`
and `Label` are the enrichment in the order of the code.

`ReadableRows` says whether the query layer can make a row of a result. In the
code as it is it cannot (run `known_vessel`); what the rest of the pipeline
does with rows is checked with `TRUE`. `AnswerIsTrue` covers both: a row that
cannot be made is among its reasons for a rejection, and `KnownVesselIsAccepted`
is the property that does not accept it. Rows may hold texts with an illegal
character, which the importer does not look for; in the place of a number such
a text is nothing, in the place of a time it is no time (`Offer`).

### ServiceControl and ReferenceUpdate

Request threads of the console at `pc`: `Enter` (takes the lock), `StartCheck`,
`Spawn`, `WritePid` or `StartFails`; `StopCheck`, `StopDone` or `StopFails`;
`update_reference` as `UpdateBegin` (its status), `UpdateCheck`, the stop,
`Load` or `LoadRefused`, `Build` or `BuildFails`, `MoveAway`, `MoveIn`,
`Discard` and the failures of the renames with their roll-back, and the start
at the end (`Restore`). A load that is asked for by itself is the update of a
parser whose first health check fails. `holder` is the controller's lock, which
the launcher (`LaunchCheck`, `LaunchSpawn`, `LaunchWrite`), the import and a
`Status` do not take.

`refresh_process` is several steps in every request: `Look` at the child and at
the pid file; then, if they are dead, `Unset` and `Clear` remove whatever they
are by then (`pending`). A status does the same without the lock, so that its
`Clear` may remove a pid file that a start has written meanwhile, and its
`Unset` may take the child from under the refresh of another request, which
then raises (`Raise`). Health checks are `Answers`: a parser that is not up does
not answer, one that is up answers or is too busy to do it in time.

A process goes from "starting" to "opened" (its stores), "up" (its API answers),
and may die at any time; `ConsoleEnds` is the death of the console, whose
parser lives on and is found again through the pid file. A store is the import
that built it. A parser opens the reference stores and then its state stores,
which is one step here: until both are open it serves nothing. A reference
store that cannot be opened is none for the life of the process (`Unopened`).

Signals, waits and `taskkill` may fail: `StopFails` forgets the process, which
may live, and either raises or goes on. `StartFails` is any exception between
the start of a process and the end of the writing of its pid.

Three history variables name the circumstances in which a promise does not
hold, and nothing else excuses a violation. `raced` (`Race`): a launch has run
between the steps of a start, stop or refresh, or beside a dead child the
console had not noticed yet; the refresh of another thread was under way during
a start; a pid has not been written, since that failed or the console died; or a
stop has failed. `overlap` (`Overlap`): another request or a launch was busy
during an update; the update began while the parser was neither up nor gone; its
stop has failed; its last health check has overlooked a parser; or the console
has died in it. `sameSecond`: an import has taken the backup name of another
that was still swapping; the name has a resolution of one second, and the first
to finish removes what it finds there, which may be the only copy of the store.

The launcher is the one for Windows, and a process is alive as long as the
system lists it; on POSIX a dead child stays listed until the console polls it.

## 3. What TLC checks

| run | question | result |
|---|---|---|
| `router_safety` | two sources (one preserves its files), two workers, queue of one, files overwritten while they are handled, two stops or crashes | `TypeOK`, `NeverTwiceInFlight`, `LiveIsRefused`, `AckedWasAccepted`, `OnlyLateQueuedReopens` hold |
| `router_live` | producers that do not overwrite, a queue with room for all, one stop or crash | `PayloadMatchesHash`, `InterruptedIsLive`, `OnlyDeliveredContentIsRemoved`, `EveryFileSettles` hold |
| `parser_link` | two workers on one client, two connections, timeouts, lost lines, idle close, restarts of both processes, shutdown | `TypeOK`, `NothingStale`, `WorkIsBounded`, `DeliveryPromise`, `DisconnectAllReturns` hold |
| `tcp_source` | four messages, one too long, both framings, chunks of any size, pauses, three losses, a full queue, a stop | `TypeOK`, `NothingInvented`, `EveryMessageIsAccountedFor`, `StopEndsIt` hold |
| `tcp_backoff` | does a source that nobody stops go on connecting? | no (`KeepsConnecting`): the backoff overflows and ends the thread |
| `parser_pipeline` | two handler threads, two vessels, repeated, lost, swapped and interleaved lines, a death | `NoForeignValues`, `OrderedMessageIsWhole`, `AckedIsSpooled`, `JumpIsReported`, `OnlyDeathTruncates`, `OnlyRacesErase` hold |
| `record_path` | a field of each kind, seven contents of the reference stores, every feed, two messages of one vessel; rows can be made | `TransmittedIsEmitted`, `ProvenanceIsTrue`, `KnownIsKept`, `AnswerIsTrue` hold |
| `known_vessel` | the same with the query layer as it is: is a vessel that a store knows accepted (`KnownVesselIsAccepted`)? | no: every message of it is rejected |
| `reference_update` | two requests at a time, one of which may be a status, health checks that time out, the launcher, three imports with failures at every rename, starts, stops and opens that fail, deaths of parser and console | `TypeOK`, `EveryParserIsKnown`, `StoreSurvives`, `StoresAreDistinct`, `ServedStoreIsCurrent`, `ParserIsRestored` hold |
| `forwarder_safety` | edits, reloads that move the root and change configuration and store one after the other, a halt, one unsupported destination | `TypeOK`, `DeliveredIsTrue`, `ArchivedWasDelivered`, `DeliveredIsFinal` hold |
| `forwarder_live` | three destinations, one dead, one that does not overwrite; an edit, a halt | `EveryFileLeaves`, `WorkingDestinationIsServed` hold |
| `forwarder_reload` | is a spooled file tried after a reload? | no (`SpooledFileIsTried`): the worker polls above the project |

The three violated properties state what the repository says of itself
(`PROJECT.json`, findings, quotes each line).

Seven properties of the passing runs are weaker than what a comment or the
README of the repository says. Each holds because it allows, by name, the cases
in which the code does less; without the exception TLC finds a counterexample
within the instance of the same run. They are findings, too:

| property | the repository says | the code does |
|---|---|---|
| `OnlyDeathTruncates` | "atomic XML spooling" (`README.md:10`) | a thread truncates the `.part` file that another, with the same document, then renames |
| `OnlyRacesErase` | "blank current values never erase an earlier known value" (`enricher.py:527`) | the merge is a read and a write without a lock; a concurrent one is undone |
| `EveryParserIsKnown` | "the Console can safely monitor, start, stop and restart them" (`README.md:12`) | a status without the lock removes the pid file a start has just written |
| `StoreSurvives` | "atomically replaced" (`README.md:82`, `90`) | two renames with nothing at the target in between, and for good if the console dies there; one backup name per second |
| `ServedStoreIsCurrent` | "safely stops the running Parser" (`README.md:90`), "Stop Parser before loading" (`main.py:562`) | a health check of a second takes a busy parser for a stopped one |
| `ParserIsRestored` | "then restore Parser" (`main.py:599`) | a stop that raises ends the update with no start |
| `TransmittedIsEmitted` | "reference values never overwrite live fields" (`enricher.py:363`), "Incoming/transmitted data is always considered first" (`enricher.py:56`) | WRS replaces three live fields; zeros of some fields count as missing |

What else the code does not guarantee, and no line of the repository that we
know of says it does, is in the premises of the properties and of the runs:

- *Router.* PROCESSED is not final: `MarkQueued` may come last and reopen the
  record, in this one way only (`OnlyLateQueuedReopens`). A producer that
  overwrites a file between its delivery and its removal loses the newer
  content, and a retry that meets a full queue for ten seconds is dropped;
  hence `Rewrites = FALSE` and a queue with room in `router_live`.
- *Forwarder.* A reload that moves the root changes the store between the
  worker's look at a record and its first own one: it begins a delivery that
  the new store has as done, and overwrites that record (`DeliveredIsFinal`
  excepts this, and nothing else). A destination with an unsupported protocol,
  which only a hand-written configuration can hold, ends every cycle when its
  turn comes.
- *TcpSource.* The tail of a line that is too long is routed as a message
  (`NothingInvented`). A pause of half a second costs a length-prefixed feed
  its connection, and whatever was on it is lost (`cut`).
- *RecordPath.* `ZeroIsLost` lists the zeros that some feeds and the normaliser
  take for missing; the default of a category replaces what was known of it
  (`KnownIsKept`); the label INCOMING is also given to values that the state, a
  default or WRS supplied (`ProvenanceIsTrue`); an illegal character that got
  into a vessel's state, or that a row holds, makes later messages of it fail, too
  (`AnswerIsTrue`);
  an XML chunk that cannot be parsed is dropped and acknowledged.
- *ParserPipeline.* The merge of one copy of a line makes the check of the next
  compare the position with itself, so that a jump is reported by the first
  copy or by none. `JumpIsReported` therefore excuses lines that were at work
  when the process died (`Die`), lines before whose check another line replaced
  the position (`Overtaken`), and vessels whose lookup raises.
- *Console.* The launches, failures and deaths that `Race` lists can hide a
  parser from the console, too.

### Bounds, and why they are enough

- *Router.* Two paths, two contents, two workers: each hazard is between two
  parties (two carriers of one record, two contents of one path, two items and
  one place in the queue). `MaxAttempts = 2` gives an attempt that is retried
  and one that is not. `QueueSize = 1` makes every put and every retry meet a
  full queue (the code's minimum is 10; what matters is full or not).
  `MaxWrites = 2` allows one replacement or two files, `MaxRestarts = 2` a
  crash during the recovery from another. Workers are symmetric and appear
  symmetric in every property of the runs that use `SYMMETRY`; the run with a
  liveness property uses none.
- *ParserLink.* Two workers compete for the one client; two connections give a
  reconnect with a thread still at work on the old one; `MaxSends = 2` gives
  every message a retry. Processes restart without bound.
- *Forwarder.* One file, spooled twice, since files interact only through the
  order of the worker's loop; three destinations are one of each kind.
  `MaxEdits = 2` allows a reload between any two steps of a delivery and
  another one, before or after a restart.
- *TcpSource.* Sizes 2, 3, 1, 2 with a limit of 2: a message in several
  pieces, one beyond the limit, one of a single piece, and one after it, so
  that a rest of one message can meet the next. A queue of one is full or not.
  `PowLimit = 2` is what 1024 is to the code: `MaxLosses = 3` reaches it.
- *ParserPipeline.* Two threads, since each hazard is between two: two copies
  of one line, two parts of one message, two lines of one vessel. Three
  dictionaries are one more than the threads can hold. The three feeds of
  `MCParserPipeline` are a jump whose second report is repeated, with a message
  without a position whose merge may bring back the state of before the first
  report; a two-part message together with the first part of another; and two
  messages of one vessel. Feeds may drop and reorder their lines. `Known` has
  the vessel whose lookup raises.
- *RecordPath.* Two messages: the first leaves a state and a history, the
  second meets them. (A value that the AIS state keeps over two later messages
  would need a third; the proofs have no bound.) `OneOfEachKind` has a field
  for every way the code treats fields; every feed, every class of value the
  field may have, and seven contents of the stores, among them two rows under one
  key and rows with illegal texts, are tried with each.
- *ReferenceUpdate.* Two threads, two processes, two backup names, three
  requests and four stores: two imports at a time and a third after one of
  them. `Viewers` has one of the threads, so that one status at a time is under
  way beside a start, a stop or an import; a second would do what the first
  does, on the same two fields and file.

### Fairness

*Router* (`Fairness`): pollers, workers and retry threads are threads of a
running process whose steps all end (socket timeouts, bounded waits), hence
weak fairness for each. Strong fairness for `Admit(s, f)`: a scan looks at
every file of the folder, so a file that is admissible at scan after scan is
admitted even though others are admitted before it. Strong fairness for reading
an admitted file, for each file: one whose reading fails at times, but not
always, is read in the end; one that no scan can ever read stays where it is,
and `EveryFileSettles` does not speak of it. Nothing is assumed of producers, stops, crashes, or of the restart of a dead process.

*ParserLink* (`Fairness`): weak fairness of the client's calls, each of which a
socket timeout ends, and of taking a lock that stays free. Nothing is assumed
of the parser: a parser that hangs for ever delays the router by its timeouts
only. That a worker gets the lock in competition with others is neither assumed
nor claimed; `disconnect_all` gets it because the workers that can be ahead of
it are finitely many.

*Forwarder* (`Fairness`): weak fairness of the worker thread. Strong fairness
for reading a file and for archiving: neither fails for ever. Strong fairness
for `Deliver` to a destination of `Working`: that is what "working" means, a
destination that is offered a file again and again takes it in the end; the
others need never take anything. Weak fairness for the consumers' collection:
without it an SFTP server that got the file just before a crash refuses every
later rename for ever. Nothing is assumed of edits, halts and restarts.

*TcpSource*: weak fairness of the receiver's thread, whose every wait has a
time limit (half a second on the socket, the timeout of `put`, the delay,
which the stop event ends). Nothing is assumed of the feed and the workers.

*ReferenceUpdate*: weak fairness of each request thread in what it has begun;
the waits for the lock, for the end of a process (eight seconds, then a kill)
and for the disk end. Nothing is assumed of the parser's process, the launcher,
and the arrival of requests. `ParserPipeline` and `RecordPath` claim safety
only.

## 4. What TLAPS proves

For all values of the constants that satisfy the named assumptions (which TLC
evaluates in every run), and without using the bounds on writes, restarts,
edits, spooled files, messages, requests and deaths:

| theorem | statement |
|---|---|
| `Router_proofs!TypeCorrect` | `Spec => []TypeOK` |
| `Router_proofs!DuplicateProtection` | `Spec => []NeverTwiceInFlight` |
| `Router_proofs!ScanRefusesLive` | `Spec => []LiveIsRefused` |
| `Router_proofs!AcknowledgementIsTrue` | `Spec => []AckedWasAccepted` |
| `Router_proofs!SettledIsFinal` | `Spec => OnlyLateQueuedReopens` |
| `Router_proofs!ContentIsHashed` | `~Rewrites` implies `Spec => []PayloadMatchesHash` |
| `Router_proofs!RemovalIsSafe` | `~Rewrites` implies `Spec => OnlyDeliveredContentIsRemoved` |
| `Router_proofs!WorkIsNeverLost` | `~Rewrites`, `Files` finite and `Cardinality(Files) <= QueueSize` imply `Spec => []InterruptedIsLive` |
| `ParserLink_proofs!TypeCorrect` | `Spec => []TypeOK` |
| `ParserLink_proofs!AnswersBelong` | `Spec => []NothingStale` |
| `ParserLink_proofs!LinkKeepsPromise` | `Spec => Promise!Init /\ [][Promise!Next]_Promise!vars` |
| `ParserLink_proofs!RetriesBoundWork` | `Spec => []WorkIsBounded` |
| `TcpSource_proofs!SourceTypes` | `Spec => []TypeOK` |
| `TcpSource_proofs!NothingIsInvented` | `Spec => []NothingInvented` |
| `TcpSource_proofs!MessagesAreAccountedFor` | `Spec => []EveryMessageIsAccountedFor` |
| `ParserPipeline_proofs!VesselsAreKeptApart` | `Spec => []NoForeignValues` |
| `ParserPipeline_proofs!OrderedIsWhole` | `Spec => []OrderedMessageIsWhole` |
| `ParserPipeline_proofs!AcknowledgedIsSpooled` | `Spec => []AckedIsSpooled` |
| `ParserPipeline_proofs!SpoolIsWhole` | `Spec => OnlyDeathTruncates` |
| `ParserPipeline_proofs!HistoryIsKept` | `Spec => OnlyRacesErase` |
| `ParserPipeline_proofs!JumpsAreReported` | `Spec => []JumpIsReported` |
| `Forwarder_proofs!TypeCorrect` | `Spec => []TypeOK` |
| `Forwarder_proofs!RecordsAreTrue` | `Spec => []DeliveredIsTrue` |
| `Forwarder_proofs!ArchivingIsSafe` | `Spec => ArchivedWasDelivered` |
| `Forwarder_proofs!RecordsAreFinal` | `Spec => DeliveredIsFinal` |
| `RecordPath_proofs!KnowledgeIsKept` | `Spec => KnownIsKept` |
| `RecordPath_proofs!AnswersAreTrue` | `Spec => []AnswerIsTrue` |
| `RecordPath_proofs!TransmissionIsKept` | `WrsTextsAreReadable` implies `Spec => []TransmittedIsEmitted` |
| `RecordPath_proofs!LabelsAreTrue` | `Spec => []ProvenanceIsTrue` |
| `ReferenceUpdate_proofs!TypeCorrect` | `Spec => []TypeOK` |
| `ReferenceUpdate_proofs!PlacesAreDistinct` | `Spec => []StoresAreDistinct` |
| `ReferenceUpdate_proofs!AStoreSurvives` | `Spec => []StoreSurvives` |
| `ReferenceUpdate_proofs!ParsersAreKnown` | `Spec => []EveryParserIsKnown` |
| `ReferenceUpdate_proofs!ServedIsCurrent` | `Spec => []ServedStoreIsCurrent` |

Every invariant and every action property of the passing runs is among them.

*Router.* `TypeOK` is not inductive: that a worker's item has attempts left
follows from what the queue and the timers hold, and that a key can be written
from the fact that a busy thread holds an item. `TypeInv` adds these, and that
a dead process holds nothing. `NeverTwiceInFlight` and `LiveIsRefused` need
each other: a poller admits a record only if its status allows it, and a status
that allows it must imply that nobody carries the record. `FlightInv(k)` is
their conjunction for one record, and its step lemma has a case per action.
The late `MarkQueued` does no harm here because QUEUED, too, is a status that
scans refuse. `AckedWasAccepted` needs `AnsweredWasAccepted`: a worker that has
seen an answer delivers something the parser has taken.

`SettledInv` says that a finished record is carried by nobody but the worker
that finishes it, so that the only write left that can reopen it is the late
QUEUED. `FreshInv` says that what is carried is on disk and is what was hashed;
a producer that overwrites breaks that in the code, too, hence `~Rewrites`.
`WorkingInv` says that a record somebody must still move has a carrier. It is
kept by a retry only if the queue has room for it, since the code drops a retry
that meets a full queue: what is queued are distinct records of distinct files,
none of them the retry's own, so a queue with a place for every file has room
(`RoomForRetry`).

*ParserLink.* `Control` ties the lock to the worker's place, its message and
the socket. `NothingStale` is not inductive: it does not say that at most one
thing is underway, and in which order. `Exchange` does: the connection in use
is quiet, or carries one line, one job or one answer of the worker that waits,
and an answer that says ACK is about a message that was handled. A new
connection is quiet (`Fresh`), so a reconnect keeps `Exchange` whatever still
happens on the old connection. For the refinement, `OneCarrier` gives each
message one worker, and `Known` says that the parser, even on dead connections,
only works on what was sent.

`WorkIsBounded` compares two counters, and between a transmission and its work
the message is on some connection: `Counted` adds to the work begun the number
of connections on which the message waits (`Waiting`). That is a cardinality
and not a sum because a client sends only on a quiet connection, so that none
ever holds two lines (`OneLine`).

*TcpSource.* The argument is about the stream, what was received and not yet
cut up together with what is on the wire. It consists of whole frames of sent
messages (`InFrames`) in the order of sending (`InOrder`); only the frame of a
line that is too long may have lost its front, and `cut` has what was lost with
a connection. From this follows where the next frame ends: the first delimiter
of the stream (it exists by `LeastNumber`, the least-number principle without
an operator parameter) ends a whole line (`LineFound`) or the rest of one that
is too long (`LineTooLong`); behind it the stream is again one of frames
(`Rest`), and all of it is of later messages (`Later`). `PayloadInv` keeps the
order between what was routed, the message in hand and the stream, and
`AccountInv` the fate of every message sent.

*ParserPipeline.* `PipelineInv` has the types and what a thread holds at each
place. `FileInv` follows the document of a thread from its `.part` file to the
spool: threads with one document share the file, and while it is not whole one
of them has it open. `JumpInv` says of a jump that is due that it is reported
(`Reported`), on its way (`Reporting`), or that no copy of the line has been
compared and the position it jumps from is still there (`ToBeFound`). For
`NoForeignValues` and `OrderedMessageIsWhole`, `OrderInv` says that in a feed
that keeps the order one thread at a time is in the reassembly, and what the
cache then holds (`OfLine`); `OwnInv` says that records, states, histories and
documents have values of their own vessel. `ThreadsAssumption` (the process has
finitely many threads) gives the threads a dictionary that nobody holds.

*Forwarder.* `SentInv` (between a delivery and its record the file has
arrived) makes `DeliveredIsTrue` inductive; what a step does to the records is
stated once (`RecordSteps`, `MarkAt`) and that arrivals are never undone once
(`ReceivedGrows`). `ServedInv` says what `all_delivered` means half-way
through the loop: everything behind has the file. `RecordsAreFinal` holds
for every `ReloadRoot`: `HandInv` says that the store in which the worker began
does not record the delivery in hand as done, and while it is still the one in
use the worker's own records overwrite nothing (`FinalInv`); `RootInv` has what
configuration and store may be.

*RecordPath.* `KnownIsKept` needs to know where a default can be: in what came
in, in the state, in the history, but only for the three categories
(`DefaultsAreConfined`); each stage of the enrichment has a lemma that says it
adds none. `AnswerIsTrue` says of a rejected message that an illegal character
has come before; `IllegalIsNoted` says the same of every place such a character
can wait in (the value in hand, the state, the history), and `Unanswered` that
a record still underway has no answer. Nothing is assumed of the stores or of
the query layer: an illegal text of a row is noted when it is offered, and a
lookup that raises is among the reasons of the property.

`TransmittedIsEmitted` needs that a real value passes each stage as it is
(`EmissionInv`): each truth test of the code lets it through (`Solid`), and
only the overwrites by WRS replace it. `WrsTextsAreReadable` assumes that no
text of WRS consists of control characters alone: the overwrite takes such a
text for a value, and the document has an empty element. `ProvenanceInv` says
of every place a value waits in (the value in hand, the state, the history)
what its origin may be: values of the state came from a message (`AsSent`), the
normaliser's results from a message or a default (`Usable`), and none from a
message that has not come (`Past`).

*ReferenceUpdate.* `Types` adds to `TypeOK` what it needs to be inductive, in
particular that a swapping thread has a backup's name. `StoresAreDistinct` is
proved with `Placed` and `Apart`: a store that was built is at the target, in
one backup or carried by one import, and two imports carry two.
`StoreSurvives` needs `NamesDiffer` (without `sameSecond`, two swaps use two
names), `Recoverable` (while the target is free, the one who moved it away
still has its backup, or the console has died and left it) and `SafeBackup`
(what `Discard` throws away is not the last store). All actions that leave the
stores alone are one case (`KindsOfSteps`).

`EveryParserIsKnown` needs `KnownFacts`, which holds until a race is noted: who
starts or launches a parser has found that there is none, so the child is the
only one, and it is in the pid file but for the moment before that is written;
while a refresh has something to clear there is no parser at all, and nobody
starts one beside it.
`ServedStoreIsCurrent` needs `ServedInv`: an update that nothing overlaps is
alone and, from its stop on, finds no parser (`Sees`), so that the target is
replaced only while nobody has it open. Both are proved with health checks that
may give up at any time and with stores that may fail to open.

Only model-checked: the liveness properties (`EveryFileSettles`,
`EveryFileLeaves`, `WorkingDestinationIsServed`, `DisconnectAllReturns`,
`StopEndsIt`, `ParserIsRestored` and the liveness part of `DeliveryPromise`),
because TLAPS proves neither liveness under fairness nor `ENABLED`; and the
three violations, which are counterexamples. The proofs use no recursive
operator and no induction theorem with an operator as a parameter: where an
argument needs the least number with a property, the property is a set.

The inductive invariants were model-checked, as invariants of the runs named
above, before they were proved.

## 5. What is not modelled, and the plan

Left out for good: monitoring, logging, metrics, the web UI, the layout of
messages and XML, the HTTP layers, the standalone feed and set-up scripts, the
one-off migration, the launch scripts that only call `launch_service.py`.

Left out of modelled parts: the stability window of a file and all durations;
length-prefixed framing towards the parser, which its endpoint does not speak;
envelopes of more than one record; the bit layout of AIS payloads and where in
a line the other parsers find a field; mappings edited by an operator (the
default mapping is modelled); the SQL subset of the query layer (its result is
modelled); what an import reads from its source files; positions of zero in
long-range AIS messages (type 27); the console's control of Router and
Forwarder, which is the same code as that of the parser.

Still in the plan:

1. Pure algorithms against reference definitions: `flatten_xml` with its
   `result or {}`, `nsc_region`, the six-bit decoding.
2. An abstract at-least-once delivery that `Router` and `Forwarder` both
   implement, and their composition over the spool directory.
3. The theorem that the safety part of that delivery is implemented.
