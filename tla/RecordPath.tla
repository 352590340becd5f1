----------------------------- MODULE RecordPath -----------------------------
(***************************************************************************)
(* The way of a record through the Data Parser (pipeline/processor.py,     *)
(* process_envelope): parsed, merged with the vessel's AIS state,          *)
(* normalised, enriched, written as an XML document, checked by reading    *)
(* the document back, and answered.  Messages of one vessel follow one     *)
(* another; what they leave in the AIS state and in the history decides    *)
(* what the next one becomes.  A behaviour follows one field.              *)
(***************************************************************************)
EXTENDS Enrichment

CONSTANTS
    Followed,       \* fields of which one is followed
    Identities,     \* the keys a message may have, beside the followed field
    Databases,      \* contents of the reference stores
    VesselKey,      \* the key of the vessel: its MMSI, IMO number, call sign or name
    MaxMessages     \* bound on the messages

ASSUME FollowedAssumption == Followed \subseteq Observable
ASSUME KeysAssumption == VesselKey # NoKey /\ MaxMessages \in Nat

VARIABLES
    field,      \* the field that is followed
    db,         \* the reference stores
    configured, \* whether the default mapping is configured
    stage,      \* "idle", "enrich", "emit"
    count,      \* messages received
    msg,        \* the last message: feed, class of its value, keys, whether it has a score
    value,      \* the field at this stage
    incoming,   \* the field when its enrichment began
    label,      \* its provenance
    aisState,   \* the field in the vessel's AIS state
    history,    \* the field in the vessel's reference record
    document,   \* the text of the field in the document: Nothing if it is left out
    answer,     \* to the last message: "", "ack", "nack"
    emitted,    \* whether the last message became a document
    poisoned    \* whether a message or a row has brought a text with an illegal character

vars == <<field, db, configured, stage, count, msg, value, incoming, label, aisState, history,
          document, answer, emitted, poisoned>>
setup == <<field, db, configured>>

NoMessage == [feed |-> "-", kind |-> "none", id |-> [k \in {"mmsi", "imo", "callsign", "name"} |-> NoKey],
              scored |-> FALSE]

Init ==
    /\ field \in Followed /\ db \in Databases /\ configured \in BOOLEAN
    /\ stage = "idle" /\ count = 0 /\ msg = NoMessage
    /\ value = Nothing /\ incoming = Nothing /\ label = "NONE"
    /\ aisState = Nothing /\ history = Nothing
    /\ document = Nothing /\ answer = "" /\ emitted = FALSE /\ poisoned = FALSE

\* Only AIS messages, and mapped ones, have a message type and with it a state.
HasState(m) == m.feed \in {"AIS", "MAPPED"} /\ m.id["mmsi"] # NoKey

\* merge_record: what the record lacks is taken from the state.
Merged(m, v) == IF HasState(m) /\ field \in StateFields /\ v.kind = "none" THEN aisState ELSE v

Finish(a) ==
    /\ stage' = "idle"
    /\ answer' = a

\* process_envelope up to the normalised record.
Accept(m, v) ==
    LET merged == Merged(m, v)
        normal == Normalized(m.feed, field, merged)
    IN /\ aisState' = IF HasState(m) /\ field \in StateFields THEN merged ELSE aisState
       /\ value' = normal
       /\ incoming' = normal
       /\ stage' = "enrich"
       /\ answer' = ""

\* An envelope of one record.  A chunk that is left out makes no record and no
\* error, which counts as a success; a line that raises makes an error.
Receive(feed, k, id, scored) ==
    LET m == [feed |-> feed, kind |-> k, id |-> id, scored |-> scored]
        v == Parsed(feed, field, IF k = "none" THEN Nothing ELSE Value(k, "message", count + 1))
    IN /\ stage = "idle" /\ count < MaxMessages
       /\ count' = count + 1
       /\ msg' = m
       /\ IF LeftOut(feed, k) THEN Finish("ack") /\ UNCHANGED <<value, incoming, aisState>>
          ELSE IF ParserRaises(feed, field, v) THEN Finish("nack") /\ UNCHANGED <<value, incoming, aisState>>
          ELSE Accept(m, v)
       /\ label' = "NONE" /\ document' = Nothing /\ emitted' = FALSE
       /\ poisoned' = (poisoned \/ k = "illegal")
       /\ UNCHANGED <<setup, history>>

-----------------------------------------------------------------------------
(* _enrich_one                                                             *)

KeyField == [k \in {"imo", "callsign", "name"} |->
                CASE k = "imo" -> "id.imo" [] k = "callsign" -> "id.callsign" [] k = "name" -> "vessel.name"]

\* The identity a record is looked up by.
LookupId ==
    [k \in {"mmsi", "imo", "callsign", "name"} |->
        IF k # "mmsi" /\ KeyField[k] = field
        THEN IF incoming.kind = "value" /\ incoming.from # "default" THEN VesselKey ELSE NoKey
        ELSE msg.id[k]]

\* The MMSI of the message, or of a row that matches.
HasMmsi(ctx) == msg.id["mmsi"] # NoKey \/ \E s \in Sources : ctx[s] # NoRow /\ ctx[s].mmsi # NoKey

Enrich ==
    LET ctx == Context(db, LookupId)
        known == IF HasMmsi(ctx) THEN history ELSE Nothing
        state == IF configured /\ HasState(msg) THEN aisState ELSE Nothing
        result == Enriched(field, incoming, state, ctx, known, msg.scored, count)
    IN /\ stage = "enrich" /\ ~LookupRaises(db, LookupId)
       /\ value' = result
       /\ label' = Label(field, incoming, result, ctx, known)
       /\ history' = IF HasMmsi(ctx) THEN Kept(field, result, history) ELSE history
       /\ stage' = "emit"
       /\ poisoned' = (poisoned \/ \E s \in Sources : Offer(s, field, ctx[s]).kind = "illegal")
       /\ UNCHANGED <<setup, count, msg, incoming, aisState, document, answer, emitted>>

-----------------------------------------------------------------------------
(* XTrackXMLGenerator, and the checks that read the document               *)

\* Faulty variant: a number that is 0 counts as missing.
TextOfTruthy(f, v) == IF Falsy(v) THEN Nothing ELSE v

\* _format_value: what is missing is left out, as is a text that is no time;
\* control characters are removed, which may leave an empty element.
Text(f, v) ==
    CASE Missing(v) -> Nothing
      [] f \in Times /\ v.kind = "junk" -> Nothing
      [] v.kind = "control" -> Blank
      [] OTHER -> v

\* Faulty variant: the document is spooled unread.
WellFormedUnread(v) == TRUE

\* The document is parsed twice before it is spooled.
WellFormed(v) == v.kind # "illegal"

Emit ==
    /\ stage = "emit" /\ WellFormed(value)
    /\ document' = Text(field, value)
    /\ emitted' = TRUE
    /\ Finish("ack")
    /\ UNCHANGED <<setup, count, msg, value, incoming, label, aisState, history, poisoned>>

\* An exception in either step is an error of the envelope, which has no other
\* record.
Reject ==
    /\ \/ stage = "enrich" /\ LookupRaises(db, LookupId)
       \/ stage = "emit" /\ ~WellFormed(value)
    /\ Finish("nack")
    /\ UNCHANGED <<setup, count, msg, value, incoming, label, aisState, history, document, emitted, poisoned>>

ReceiveAny ==
    \E feed \in Feeds, id \in Identities, k \in Transmitted(field), scored \in BOOLEAN :
        /\ CanSend(feed, k)
        /\ scored => feed = "XML" /\ field = "cat.identity"
        /\ Receive(feed, k, id, scored)

Next == ReceiveAny \/ Enrich \/ Emit \/ Reject

Spec == Init /\ [][Next]_vars

-----------------------------------------------------------------------------
(* Properties                                                              *)

OverwrittenFields == {"cat.annotation", "cat.identity", "id.mmsi.destination"}

\* Zeros that a parser or the normaliser takes for "not available", and the
\* one that is no IMO number.
ZeroIsLost == \/ field = "id.imo"
              \/ field \in ZeroIsNone(msg.feed)
              \/ msg.feed = "XML" /\ field \in ReadWithOr

\* A real value that was transmitted is the one in the document, whatever the
\* references and the history hold: zeros, codes and names of ports included.
\* Excepted are the zeros some feeds lose and what WRS knows of the three
\* fields it overwrites.  The comments of the enricher allow neither
\* exception: PROJECT.json lists them as findings.
\* (enricher.py:56-57, 141-146, 361-363)
TransmittedIsEmitted ==
    emitted /\ msg.kind \in {"zero", "code", "value"} /\ field \in Carries(msg.feed)
        => \/ document.from = "message" /\ document.at = count /\ document.kind # "code"
           \/ msg.kind = "zero" /\ ZeroIsLost
           \/ field \in OverwrittenFields /\ document.from = "WRS"

\* What provenance says of a value is where it came from.  INCOMING is also
\* said of a value that the AIS state or a default supplied, of one that WRS
\* has overwritten, and of the name or IMO number that took the place of an
\* unusable one; DERIVED is said of a port that was named by its code.
\* (enricher.py:460-521)
ProvenanceIsTrue ==
    stage = "emit" =>
        CASE label = "NONE" -> Missing(value)
          [] label = "INCOMING" -> \/ value.from \in {"message", "default"}
                                   \/ field \in OverwrittenFields
                                   \/ incoming.kind \in {"placeholder", "zero"} /\ field \in {"vessel.name", "id.imo"}
          [] label \in Sources -> value.from = label
          [] label = "MMSI_HISTORY" -> field \in HistoryFields /\ (value.from = "message" => value.at < count)
          [] label = "DERIVED" -> field = "voyage.destination" \/ value.kind = "control"

\* What is known of a vessel stays known: no later message without the value
\* erases it.  Only where the code itself supplies a default, in the three
\* categories, does the default replace what was known.
\* (enricher.py:526-528, track_state.py:18-19)
KnownIsKept ==
    [][~Missing(history) =>
        /\ ~Missing(history')
        /\ history'.from = "default" => history.from = "default" \/ field \in Categories]_vars

\* An acknowledged message has become a document that can be read, unless it was
\* XML that cannot be parsed, which is dropped without an error.  A message is
\* rejected only if it could not be parsed, if a store had a row for the vessel
\* and rows cannot be made, or if an illegal character came with it, out of a
\* row, or with an earlier message of the vessel, by way of its AIS state or
\* history.  (processor.py:115-203)
AnswerIsTrue ==
    /\ emitted => document.kind # "illegal"
    /\ answer = "ack" => emitted \/ LeftOut(msg.feed, msg.kind)
    /\ answer = "nack" => msg.kind = "junk" \/ LookupRaises(db, LookupId) \/ poisoned

\* "Resolve all reference data for a vessel": that a store knows the vessel is
\* no reason to reject a message.  (reference_db.py:183)
KnownVesselIsAccepted == answer = "nack" => msg.kind = "junk" \/ poisoned
=============================================================================
