---------------------------- MODULE MCRecordPath ----------------------------
(***************************************************************************)
(* Instances of RecordPath for TLC.                                        *)
(***************************************************************************)
EXTENDS RecordPath

CONSTANT ship

\* One field of each way the code treats fields.
OneOfEachKind ==
    {"ais.navStatus", "ais.typeAndCargo", "ais.lenToBow", "vessel.name", "id.callsign", "id.imo",
     "vessel.draft", "kinematic.course.true", "voyage.destination", "voyage.eta",
     "cat.annotation", "cat.identity", "id.mmsi.destination"}

Id(mmsi, imo) == [k \in {"mmsi", "imo", "callsign", "name"} |->
                    IF k = "mmsi" THEN mmsi ELSE IF k = "imo" THEN imo ELSE NoKey]

\* With the MMSI, with the IMO number only, with neither.
ThreeIdentities == {Id(ship, NoKey), Id(NoKey, ship), Id(NoKey, NoKey)}

Row(kind) == [mmsi |-> ship, imo |-> ship, callsign |-> NoKey, name |-> NoKey, kind |-> kind]
Twin == [mmsi |-> ship, imo |-> NoKey, callsign |-> NoKey, name |-> NoKey, kind |-> "value"]

\* Nothing; all three sources; WRS only; a PANS row without the value; zeros
\* and port codes; two rows of WRS under one MMSI; texts with an illegal
\* character.
SevenDatabases ==
    {[NSC |-> {}, PANS |-> {}, WRS |-> {}],
     [NSC |-> {Row("value")}, PANS |-> {Row("value")}, WRS |-> {Row("value")}],
     [NSC |-> {}, PANS |-> {}, WRS |-> {Row("value")}],
     [NSC |-> {}, PANS |-> {Row("none")}, WRS |-> {Row("zero")}],
     [NSC |-> {Row("none")}, PANS |-> {Row("code")}, WRS |-> {}],
     [NSC |-> {}, PANS |-> {}, WRS |-> {Row("value"), Twin}],
     [NSC |-> {Row("illegal")}, PANS |-> {}, WRS |-> {Row("illegal")}]}
=============================================================================
