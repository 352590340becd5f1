--------------------------- MODULE ParserPipeline ---------------------------
(***************************************************************************)
(* What the handler threads of the Data Parser do with lines of an AIS     *)
(* feed: reassembly, the per-vessel state with its position check          *)
(* (pipeline/ais_state.py, spoofing.py), the enrichment from and the       *)
(* update of the per-vessel history (enricher.py, track_state.py), and the *)
(* spooling of one XML document per record (processor.py).                 *)
(*                                                                         *)
(* A step is what one thread does to shared state in one operation; the    *)
(* stores lock their gets and puts and nothing larger.  The feed may lose, *)
(* reorder and repeat lines, and the router repeats a line it has no       *)
(* answer for while a thread is still at work on it.  The process may die. *)
(* A value of a record is known by the message it came from.               *)
(***************************************************************************)
EXTENDS SaisReassembly

CONSTANTS
    Vessels,            \* MMSIs
    VesselOf,           \* message -> MMSI in its first part
    Jumps,              \* <<m, n>>: at n's time and place the vessel moved too fast since m
    Known,              \* vessels with a row in a reference store
    Feeds,              \* each a function: line -> bound on its transmissions
    MaxDeaths,          \* bound on the deaths of the process
    NoVessel

ASSUME VesselOfAssumption == VesselOf \in [Messages -> Vessels]
ASSUME JumpsAssumption == Jumps \subseteq (Messages \ TwoPart) \X (Messages \ TwoPart)
ASSUME KnownAssumption == Known \subseteq Vessels
ASSUME NoVesselAssumption == NoVessel \notin Vessels

Lines == [msg : TwoPart, part : 1..2] \cup [msg : Messages \ TwoPart, part : {1}]

ASSUME FeedsAssumption == Feeds \subseteq [Lines -> Nat] /\ MaxDeaths \in Nat

VARIABLES
    pc,         \* thread -> its next operation
    line,       \* thread -> the line of its envelope
    rec,        \* thread -> its record
    seen,       \* thread -> the state it has read and will write back
    alarm,      \* thread -> the position check found a jump
    fd,         \* thread -> the file its open descriptor writes: "part", "spool", "none"
    ais,        \* vessel -> values of ais_state
    reference,  \* vessel -> values of track_state's reference records
    partFiles,  \* *.part files: document and whether it is complete
    spool,      \* *.xml files likewise
    feed,       \* the lines there are in this behaviour, with their bounds
    sent,       \* line -> transmissions
    acked,      \* lines that were answered with an ACK
    nacked,     \* lines that were answered with a NACK
    pending,    \* the feed, as received: the message whose second part comes next
    disorder,   \* whether the two-part lines have ever been received otherwise
    due,        \* lines that came as a jump from the vessel's position, which still is its last
    deaths      \* deaths of the process

threadVars == <<pc, line, rec, seen, alarm, fd>>
storeVars == <<ais, reference>>
fileVars == <<partFiles, spool>>
ghostVars == <<feed, sent, acked, nacked, pending, disorder, due, deaths>>
vars == <<reassemblyVars, threadVars, storeVars, fileVars, ghostVars>>

Fields == {"position", "name", "destination"}
HistoryFields == {"name", "destination"}       \* of MMSI_REFERENCE_FIELDS
Values == [Fields -> Message]
NoValues == [f \in Fields |-> NoMessage]
Records == [vessel : Vessels \cup {NoVessel}, values : Values]
NoRecord == [vessel |-> NoVessel, values |-> NoValues]
NoLine == [msg |-> NoMessage, part |-> 1]
Documents == [line : Lines, record : Records, alarm : BOOLEAN]
Files == [doc : Documents, full : BOOLEAN]

Init ==
    /\ ReassemblyInit
    /\ pc = [t \in Threads |-> "idle"]
    /\ line = [t \in Threads |-> NoLine]
    /\ rec = [t \in Threads |-> NoRecord]
    /\ seen = [t \in Threads |-> NoValues]
    /\ alarm = [t \in Threads |-> FALSE]
    /\ fd = [t \in Threads |-> "none"]
    /\ ais = [v \in Vessels |-> NoValues]
    /\ reference = [v \in Vessels |-> NoValues]
    /\ partFiles = {}
    /\ spool = {}
    /\ feed \in Feeds
    /\ sent = [l \in Lines |-> 0]
    /\ acked = {}
    /\ nacked = {}
    /\ pending = NoMessage
    /\ disorder = FALSE
    /\ due = {}
    /\ deaths = 0

\* Values of a, and those of b where a has none.
Over(a, b) == [f \in Fields |-> IF a[f] # NoMessage THEN a[f] ELSE b[f]]

At(t, here, next) == pc[t] = here /\ pc' = [pc EXCEPT ![t] = next]

-----------------------------------------------------------------------------
(* SAISParser._parse_line                                                  *)

InReassembly(t) ==
    pc[t] \in {"bind", "put", "meta", "inspect", "popCache", "popMeta"}

\* What the receipt of line l says about the order of the feed.
InOrder(l) ==
    /\ \A t \in Threads : ~InReassembly(t)
    /\ IF l.part = 1 THEN pending = NoMessage ELSE pending = l.msg

NoteOrder(l) ==
    IF l.msg \in TwoPart
    THEN /\ pending' = IF l.part = 1 THEN l.msg ELSE NoMessage
         /\ disorder' = (disorder \/ ~InOrder(l))
    ELSE UNCHANGED <<pending, disorder>>

\* A line arrives.  A message of one sentence is a position report.
Receive(t, l) ==
    /\ pc[t] = "idle"
    /\ sent[l] < feed[l]
    /\ line' = [line EXCEPT ![t] = l]
    /\ sent' = [sent EXCEPT ![l] = @ + 1]
    /\ IF l.msg \in TwoPart
       THEN pc' = [pc EXCEPT ![t] = "bind"] /\ UNCHANGED rec
       ELSE /\ pc' = [pc EXCEPT ![t] = "check"]
            /\ rec' = [rec EXCEPT ![t] = [vessel |-> VesselOf[l.msg],
                                          values |-> [NoValues EXCEPT !["position"] = l.msg]]]
    /\ NoteOrder(l)
    /\ due' = IF sent[l] = 0 /\ <<ais[VesselOf[l.msg]]["position"], l.msg>> \in Jumps
              THEN due \cup {l} ELSE due
    /\ UNCHANGED <<reassemblyVars, seen, alarm, fd, storeVars, fileVars, feed, acked, nacked, deaths>>

Bind(t) ==
    /\ At(t, "bind", "put")
    /\ SetDefault(t)
    /\ UNCHANGED <<meta, line, rec, seen, alarm, fd, storeVars, fileVars, ghostVars>>

Put(t) ==
    /\ At(t, "put", IF line[t].part = 1 THEN "meta" ELSE "inspect")
    /\ PutPart(t, line[t].part, line[t].msg)
    /\ UNCHANGED <<cache, meta, mine, line, rec, seen, alarm, fd, storeVars, fileVars, ghostVars>>

NoteMeta(t) ==
    /\ At(t, "meta", "inspect")
    /\ meta' = line[t].msg
    /\ UNCHANGED <<cache, parts, mine, line, rec, seen, alarm, fd, storeVars, fileVars, ghostVars>>

\* An incomplete message: a record of what the cache knows of it.
EmitFragment(t) ==
    /\ At(t, "inspect", "check")
    /\ Missing(t)
    /\ rec' = [rec EXCEPT ![t].vessel = IF meta = NoMessage THEN NoVessel ELSE VesselOf[meta]]
    /\ mine' = [mine EXCEPT ![t] = NoObject]
    /\ UNCHANGED <<cache, parts, meta, line, seen, alarm, fd, storeVars, fileVars, ghostVars>>

\* The last part: a record of the joined payloads.
EmitComplete(t) ==
    /\ At(t, "inspect", "popCache")
    /\ ~Missing(t)
    /\ rec' = [rec EXCEPT ![t] =
            [vessel |-> VesselOf[Joined(t)[1]],
             values |-> [NoValues EXCEPT !["name"] = Joined(t)[1], !["destination"] = Joined(t)[2]]]]
    /\ mine' = [mine EXCEPT ![t] = NoObject]
    /\ UNCHANGED <<cache, parts, meta, line, seen, alarm, fd, storeVars, fileVars, ghostVars>>

DropCache(t) ==
    /\ At(t, "popCache", "popMeta")
    /\ PopCache
    /\ UNCHANGED <<parts, meta, mine, line, rec, seen, alarm, fd, storeVars, fileVars, ghostVars>>

DropMeta(t) ==
    /\ At(t, "popMeta", "check")
    /\ PopMeta
    /\ UNCHANGED <<cache, parts, mine, line, rec, seen, alarm, fd, storeVars, fileVars, ghostVars>>
-----------------------------------------------------------------------------
(* PipelineProcessor._normalize_record: position check and merge           *)

Vessel(t) == rec[t].vessel

\* Faulty variant: the check looks at the state after the merge.
CheckAgainstItself(t, previous) ==
    <<rec[t].values["position"], rec[t].values["position"]>> \in Jumps

\* PositionalSpoofingDetector.check; only a record with a position has a pair.
IsJump(t, previous) == <<previous["position"], rec[t].values["position"]>> \in Jumps

\* A record without MMSI skips the state.
CheckPosition(t) ==
    /\ pc[t] = "check"
    /\ IF Vessel(t) = NoVessel
       THEN pc' = [pc EXCEPT ![t] = "open"] /\ UNCHANGED alarm
       ELSE /\ pc' = [pc EXCEPT ![t] = "readState"]
            /\ alarm' = [alarm EXCEPT ![t] = IsJump(t, ais[Vessel(t)])]
    /\ UNCHANGED <<reassemblyVars, line, rec, seen, fd, storeVars, fileVars, ghostVars>>

\* merge_record: the get,
ReadState(t) ==
    /\ At(t, "readState", "writeState")
    /\ seen' = [seen EXCEPT ![t] = ais[Vessel(t)]]
    /\ UNCHANGED <<reassemblyVars, line, rec, alarm, fd, storeVars, fileVars, ghostVars>>

\* Lines that are to be compared with a position which thread t replaces.
Overtaken(t) ==
    {l \in Lines : /\ l # line[t] /\ VesselOf[l.msg] = Vessel(t)
                   /\ \E u \in Threads : pc[u] = "check" /\ line[u] = l}

\* ... the put, and what the record lacks is taken from the state.
WriteState(t) ==
    LET merged == Over(rec[t].values, seen[t])
    IN /\ At(t, "writeState", "enrich")
       /\ ais' = [ais EXCEPT ![Vessel(t)] = merged]
       /\ rec' = [rec EXCEPT ![t].values = merged]
       /\ due' = due \ Overtaken(t)
       /\ UNCHANGED <<reassemblyVars, line, seen, alarm, fd, reference, fileVars,
                      feed, sent, acked, nacked, pending, disorder, deaths>>

-----------------------------------------------------------------------------
(* VesselEnricher.enrich, TrackStateDB                                     *)

\* What the history adds to the values of a record, for some fields only.
FromHistory(values, history) ==
    [f \in Fields |-> IF f \in HistoryFields THEN Over(values, history)[f] ELSE values[f]]

\* Faulty variant: the record that is lost is counted as handled.
LookupRaisesUnnoticed(t) ==
    /\ At(t, "enrich", "ack")
    /\ Vessel(t) \in Known
    /\ UNCHANGED <<reassemblyVars, line, rec, seen, alarm, fd, storeVars, fileVars, ghostVars>>

\* A lookup that finds a row raises, see ReferenceLookup; the record is lost.
LookupRaises(t) ==
    /\ At(t, "enrich", "nack")
    /\ Vessel(t) \in Known
    /\ UNCHANGED <<reassemblyVars, line, rec, seen, alarm, fd, storeVars, fileVars, ghostVars>>

\* get_reference
Enrich(t) ==
    /\ At(t, "enrich", "readHistory")
    /\ Vessel(t) \notin Known
    /\ rec' = [rec EXCEPT ![t].values = FromHistory(@, reference[Vessel(t)])]
    /\ UNCHANGED <<reassemblyVars, line, seen, alarm, fd, storeVars, fileVars, ghostVars>>

\* upsert reads the record again,
ReadHistory(t) ==
    /\ At(t, "readHistory", "writeHistory")
    /\ seen' = [seen EXCEPT ![t] = reference[Vessel(t)]]
    /\ UNCHANGED <<reassemblyVars, line, rec, alarm, fd, storeVars, fileVars, ghostVars>>

\* Faulty variant: a blank value is written like any other.
HistoryWithBlanks(old, values) == [f \in Fields |-> IF f \in HistoryFields THEN values[f] ELSE old[f]]

\* ... lays the values that are not blank over it,
NewHistory(old, values) == FromHistory([values EXCEPT !["position"] = NoMessage], old)

\* ... and puts it.
WriteHistory(t) ==
    /\ At(t, "writeHistory", "open")
    /\ reference' = [reference EXCEPT ![Vessel(t)] = NewHistory(seen[t], rec[t].values)]
    /\ UNCHANGED <<reassemblyVars, line, rec, seen, alarm, fd, ais, fileVars, ghostVars>>

-----------------------------------------------------------------------------
(* PipelineProcessor._spool_xml.  The name of a file ends with a digest of *)
(* its content: equal documents, and only they, share a name.              *)

Document(t) == [line |-> line[t], record |-> rec[t], alarm |-> alarm[t]]

File(d, full) == [doc |-> d, full |-> full]
Without(files, d) == {f \in files : f.doc # d}
Names(files) == {f.doc : f \in files}

\* write_text opens the .part file and truncates one that is there.
OpenPart(t) ==
    /\ At(t, "open", "write")
    /\ partFiles' = Without(partFiles, Document(t)) \cup {File(Document(t), FALSE)}
    /\ fd' = [fd EXCEPT ![t] = "part"]
    /\ UNCHANGED <<reassemblyVars, line, rec, seen, alarm, storeVars, spool, ghostVars>>

\* The text goes where the open file is by now; then it is closed.
Completed(files, d) == IF d \in Names(files) THEN Without(files, d) \cup {File(d, TRUE)} ELSE files

\* Faulty variant: nothing is written once the .part file has been moved away.
WriteIfStillThere(t) ==
    /\ At(t, "write", "replace")
    /\ partFiles' = IF fd[t] = "part" THEN Completed(partFiles, Document(t)) ELSE partFiles
    /\ fd' = [fd EXCEPT ![t] = "none"]
    /\ UNCHANGED <<reassemblyVars, line, rec, seen, alarm, storeVars, spool, ghostVars>>

Write(t) ==
    /\ At(t, "write", "replace")
    /\ partFiles' = IF fd[t] = "part" THEN Completed(partFiles, Document(t)) ELSE partFiles
    /\ spool' = IF fd[t] = "spool" THEN Completed(spool, Document(t)) ELSE spool
    /\ fd' = [fd EXCEPT ![t] = "none"]
    /\ UNCHANGED <<reassemblyVars, line, rec, seen, alarm, storeVars, ghostVars>>

\* Where another thread's open file of document d is after a rename of it.
MovedFd(u, d) ==
    IF fd[u] = "none" \/ Document(u) # d THEN fd[u]
    ELSE IF fd[u] = "part" THEN "spool" ELSE "none"

Replace(t) ==
    LET d == Document(t)
    IN /\ At(t, "replace", "ack")
       /\ d \in Names(partFiles)
       /\ spool' = Without(spool, d) \cup {f \in partFiles : f.doc = d}
       /\ partFiles' = Without(partFiles, d)
       /\ fd' = [u \in Threads |-> MovedFd(u, d)]
       /\ UNCHANGED <<reassemblyVars, line, rec, seen, alarm, storeVars, ghostVars>>

\* Another copy's thread has moved the file away.
ReplaceFails(t) ==
    /\ At(t, "replace", "nack")
    /\ Document(t) \notin Names(partFiles)
    /\ UNCHANGED <<reassemblyVars, line, rec, seen, alarm, fd, storeVars, fileVars, ghostVars>>

\* The answer of the endpoint: ACK if the record was spooled.
Answer(t) ==
    /\ pc[t] \in {"ack", "nack"}
    /\ acked' = IF pc[t] = "ack" THEN acked \cup {line[t]} ELSE acked
    /\ nacked' = IF pc[t] = "nack" THEN nacked \cup {line[t]} ELSE nacked
    /\ pc' = [pc EXCEPT ![t] = "idle"]
    /\ line' = [line EXCEPT ![t] = NoLine]
    /\ rec' = [rec EXCEPT ![t] = NoRecord]
    /\ seen' = [seen EXCEPT ![t] = NoValues]
    /\ alarm' = [alarm EXCEPT ![t] = FALSE]
    /\ UNCHANGED <<reassemblyVars, fd, storeVars, fileVars, feed, sent, pending, disorder, due, deaths>>

\* The process dies and is started again; the stores and the files remain.
Die ==
    /\ deaths < MaxDeaths
    /\ deaths' = deaths + 1
    /\ LoseReassembly
    /\ pc' = [t \in Threads |-> "idle"]
    /\ line' = [t \in Threads |-> NoLine]
    /\ rec' = [t \in Threads |-> NoRecord]
    /\ seen' = [t \in Threads |-> NoValues]
    /\ alarm' = [t \in Threads |-> FALSE]
    /\ fd' = [t \in Threads |-> "none"]
    /\ disorder' = (disorder \/ pending # NoMessage \/ \E t \in Threads : InReassembly(t))
    /\ due' = due \ {line[t] : t \in Threads}
    /\ UNCHANGED <<storeVars, fileVars, feed, sent, acked, nacked, pending>>

ParseLine(t) ==
    \/ Bind(t) \/ Put(t) \/ NoteMeta(t) \/ EmitFragment(t) \/ EmitComplete(t)
    \/ DropCache(t) \/ DropMeta(t)

NormalizeRecord(t) == CheckPosition(t) \/ ReadState(t) \/ WriteState(t)

EnrichOne(t) == LookupRaises(t) \/ Enrich(t) \/ ReadHistory(t) \/ WriteHistory(t)

SpoolXml(t) == OpenPart(t) \/ Write(t) \/ Replace(t) \/ ReplaceFails(t)

Next ==
    \/ \E t \in Threads :
        \/ \E l \in Lines : Receive(t, l)
        \/ ParseLine(t) \/ NormalizeRecord(t) \/ EnrichOne(t) \/ SpoolXml(t) \/ Answer(t)
    \/ Die

Spec == Init /\ [][Next]_vars
-----------------------------------------------------------------------------
(* Properties                                                              *)

Owned(values, v) == \A f \in Fields : values[f] # NoMessage => VesselOf[values[f]] = v

\* As long as the feed delivers the parts of its messages in order, one at a
\* time and each once, whatever threads handle them and whatever else they do
\* meanwhile: neither the state nor the history of a vessel, nor a document in
\* the spool, has a value of another vessel.  (sais.py:147-187)
NoForeignValues ==
    ~disorder =>
        /\ \A v \in Vessels : Owned(ais[v], v) /\ Owned(reference[v], v)
        /\ \A x \in spool : x.doc.record.vessel # NoVessel
                => Owned(x.doc.record.values, x.doc.record.vessel)

\* In such a feed a message whose second part was acknowledged is in the
\* spool with the data of both its parts: none is lost between the parts
\* that the cache holds and the record.  (sais.py:147-187, processor.py:98)
OrderedMessageIsWhole ==
    \A l \in acked : l.part = 2 /\ ~disorder =>
        \E x \in spool :
            /\ x.doc.line = l
            /\ x.doc.record.values["name"] = l.msg
            /\ x.doc.record.values["destination"] = l.msg

\* A line is acknowledged only when a document of it has been spooled under
\* its final name.  (processor.py:86-96, 203)
AckedIsSpooled == \A l \in acked : \E x \in spool : x.doc.line = l

\* A position that is a jump when it first comes is reported, however many
\* copies of the line are handled at a time: the merge of one copy makes the
\* check of the next compare the position with itself, and the copies write
\* one .part file.  A document with the remark is in the spool, or a thread is
\* still at work on the line.  Excused are lines of a vessel whose lookup
\* raises, lines that were at work when the process died, and lines before
\* whose check another line replaced the position.  (processor.py:66-81)
JumpIsReported ==
    \A l \in due : VesselOf[l.msg] \notin Known =>
        \/ \E x \in spool : x.doc.line = l /\ x.doc.alarm
        \/ \E t \in Threads : line[t] = l

\* Two threads that spool the same document use the same .part file, and one
\* may move it away while the other is writing it.  A file in the spool is
\* still whole once they are done: only the death of the process leaves one
\* behind that is not whole and that nobody is writing.  The README promises
\* more, "atomic XML spooling": that a file of the spool is always whole is
\* false, which PROJECT.json lists as a finding.  (processor.py:92-95)
Abandoned == {x \in spool : ~x.full /\ \A t \in Threads : ~(fd[t] = "spool" /\ Document(t) = x.doc)}
OnlyDeathTruncates == [][Abandoned' \subseteq Abandoned \/ deaths' # deaths]_vars

\* A known value of a vessel's history is lost only if another thread has
\* changed the history after the writer read it: alone, a thread never
\* erases one.  The code's comment promises more, "never erase an earlier known
\* value": without the race the formula fails, which PROJECT.json lists as a
\* finding.  (track_state.py:18-21, enricher.py:526-528)
Stale(t) == pc[t] = "writeHistory" /\ seen[t] # reference[Vessel(t)]
OnlyRacesErase ==
    [][\A v \in Vessels, f \in HistoryFields :
        reference[v][f] # NoMessage /\ reference'[v][f] = NoMessage
            => \E t \in Threads : Vessel(t) = v /\ Stale(t)]_vars
=============================================================================
