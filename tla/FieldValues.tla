---------------------------- MODULE FieldValues ----------------------------
(***************************************************************************)
(* One field of a vessel record on its way through the Data Parser: the    *)
(* classes of values the code tells apart, and what the source parsers     *)
(* (parser/app/parsers) and the normaliser (pipeline/normalizer.py) make   *)
(* of them.  The fields of a record are handled independently, so a        *)
(* behaviour follows one.  A value is known by its class and its origin.   *)
(***************************************************************************)
EXTENDS Naturals

Kinds == {"none",           \* None
          "blank",          \* the empty string
          "zero",           \* 0 as a number, or as a code
          "code",           \* a number or UN/LOCODE that stands for a text
          "value",          \* any other number or text, of the kind the field is for
          "placeholder",    \* "UNKNOWN" and the like; an IMO number of the wrong length
          "junk",           \* a text where a number or a time should be
          "control",        \* nothing but control characters
          "illegal"}        \* a text with a character XML does not allow

Sources == {"NSC", "PANS", "WRS"}

Value(k, origin, m) == [kind |-> k, from |-> origin, at |-> m]
Nothing == Value("none", "-", 0)
Blank == Value("blank", "-", 0)

Missing(v) == v.kind \in {"none", "blank"}      \* in (None, "")
Falsy(v) == v.kind \in {"none", "blank", "zero"}

-----------------------------------------------------------------------------
(* Fields by type: FIELD_SPECS, and how a record holds them                *)

Lengths == {"ais.lenToBow", "ais.lenToStern", "ais.widthToPort", "ais.widthToStarboard"}
Sizes == {"vessel.length", "vessel.beam", "vessel.draft"}
Angles == {"kinematic.course.true", "kinematic.heading.true"}
Position == {"kinematic.pos.lla.lat", "kinematic.pos.lla.lon"}
Movement == Angles \cup Position \cup {"kinematic.speed"}
Numbers == Lengths \cup Sizes \cup Movement \cup
           {"id.imo", "id.mmsi.destination", "vessel.grosstonnage", "kinematic.pos.lla.alt"}
Times == {"voyage.eta", "voyage.etd"}
Coded == {"ais.navStatus", "ais.typeAndCargo"}
Places == {"voyage.arrival", "voyage.departure", "voyage.destination", "voyage.origin"}
Sanitized == {"id.callsign", "vessel.name"} \cup Places
Categories == {"cat.annotation", "cat.category", "cat.identity"}
Observable == Numbers \cup Times \cup Coded \cup Sanitized \cup Categories

\* track_state.MMSI_REFERENCE_FIELDS
HistoryFields == Observable \ (Movement \cup {"kinematic.pos.lla.alt"})

\* ais_state.AIS_STATE_FIELDS
StateFields == {"id.imo", "vessel.name", "id.callsign", "ais.typeAndCargo", "voyage.destination",
                "voyage.eta", "ais.navStatus"} \cup Sizes \cup Movement

\* Candidates "ais_state:" of the default mapping.
MappedFields == StateFields \ Movement

-----------------------------------------------------------------------------
(* Source parsers                                                          *)

\* AIS: the lines of SAIS and NAIS, and of VATMS, whose others are TMVTD.
\* MAPPED: the configurable parser.  XML: XTrack documents of any source.
Feeds == {"AIS", "MSIS", "LRIT", "TMVTD", "MAPPED", "XML"}

Identity == {"id.imo", "id.callsign", "vessel.name"}
Common == Identity \cup Sizes \cup {"ais.typeAndCargo", "kinematic.speed", "kinematic.course.true"} \cup Position
Voyage == {"kinematic.heading.true", "ais.navStatus", "voyage.destination", "voyage.eta"}

\* The fields a parser can find in its input.
AisFields == (Common \cup Voyage \cup Lengths) \ {"voyage.eta"}
MsisFields == Common \cup Voyage
LritFields == Common \cup Voyage
TmvtdFields == Common
MappedRecordFields == Common \cup Voyage
TrackFields == Observable

Carries(feed) ==
    CASE feed = "AIS" -> AisFields
      [] feed = "MSIS" -> MsisFields
      [] feed = "LRIT" -> LritFields
      [] feed = "TMVTD" -> TmvtdFields
      [] feed = "MAPPED" -> MappedRecordFields
      [] feed = "XML" -> TrackFields

\* What a sender may put into field f.
Transmitted(f) ==
    {"none"} \cup
    IF f \in Numbers THEN {"zero", "value", "junk"} \cup (IF f = "id.imo" THEN {"placeholder"} ELSE {})
    ELSE IF f \in Coded THEN {"zero", "code"}
    ELSE IF f \in Times THEN {"value", "junk"}
    ELSE IF f = "vessel.name" THEN {"value", "placeholder", "control", "illegal"}
    ELSE IF f = "voyage.destination" THEN {"value", "code", "control", "illegal"}
    ELSE {"value", "control", "illegal"}

\* The alphabet of AIS has no control characters, and its numbers are numbers.
CanSend(feed, k) == feed = "AIS" => k \notin {"control", "illegal", "junk"}

\* decode_xml_payload leaves out a chunk that is not well-formed.
LeftOut(feed, k) == feed = "XML" /\ k \in {"control", "illegal"}

\* Numbers whose zero the parser of a feed takes for "not available".
ZeroIsNone(feed) ==
    CASE feed = "AIS" -> {"id.imo", "ais.typeAndCargo"} \cup Sizes
      [] feed \in {"MSIS", "LRIT"} -> {"id.imo", "ais.navStatus"}
      [] OTHER -> {}

\* `float(parts[i])` of a TMVTD line raises, and the line is rejected.
ParserRaises(feed, f, v) ==
    feed = "TMVTD" /\ v.kind = "junk" /\ f \in Sizes \cup {"kinematic.speed", "kinematic.course.true"}

\* A text that is no time is passed on.
Parsed(feed, f, v) ==
    IF \/ f \notin Carries(feed)
       \/ v.kind = "junk" /\ f \notin Times
       \/ v.kind = "zero" /\ f \in ZeroIsNone(feed)
    THEN Nothing
    ELSE v

-----------------------------------------------------------------------------
(* Normaliser                                                              *)

\* normalize_nav_status, normalize_type_and_cargo: a code becomes its text.
Described(v) == IF v.kind \in {"zero", "code"} THEN Value("value", v.from, v.at) ELSE v

\* sanitize_string
Clean(v) == IF v.kind \in {"none", "control"} THEN Blank ELSE v

\* Faulty variant: a text that is missing gets a placeholder.
FromCommonWithPlaceholder(f, v) ==
    IF f \in Sanitized /\ Missing(v) THEN Value("value", "default", 0)
    ELSE IF f \in Coded THEN Described(v) ELSE v

\* normalize_from_common_record
FromCommon(f, v) ==
    CASE f \in {"cat.category", "cat.identity"} -> Value("value", "default", 0)
      [] f \in Coded -> Described(v)
      [] f \in Sanitized -> Clean(v)
      [] OTHER -> v

\* Fields of a decoded track that are read with `a or b`: a zero is lost.
ReadWithOr == Angles \cup Lengths \cup {"id.imo", "vessel.grosstonnage"}

\* normalize_from_decoded_track; xml_decoder makes numbers of iv, qv and tv.
FromTrack(f, v) ==
    CASE f \in Categories /\ Missing(v) -> Value("value", "default", 0)
      [] f \in ReadWithOr /\ v.kind = "zero" -> Nothing
      [] f \in Times /\ v.kind = "junk" -> Nothing
      [] f \in Coded -> Described(v)
      [] f \in Sanitized -> Clean(v)
      [] OTHER -> v

Normalized(feed, f, v) == IF feed = "XML" THEN FromTrack(f, v) ELSE FromCommon(f, v)
=============================================================================
