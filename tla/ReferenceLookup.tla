-------------------------- MODULE ReferenceLookup --------------------------
(***************************************************************************)
(* ReferenceDB.resolve (pipeline/reference_db.py): which row of each       *)
(* reference store an identity matches and what it offers for a field,     *)
(* and the query layer underneath (pipeline/rocks_sql_compat.py).          *)
(*                                                                         *)
(* In the code as it is the query layer cannot make a row: _Row(r) raises  *)
(* for every row of a result (ReadableRows = FALSE).                       *)
(***************************************************************************)
EXTENDS FieldValues, FiniteSets

CONSTANTS
    NoKey, NoRow,
    ReadableRows    \* whether a row of a result can be made

ASSUME ReadableRowsAssumption == ReadableRows \in BOOLEAN

\* A content of the stores, db, is a function: store -> its rows, each with its
\* keys and the class of its other values.

\* The order in which the keys of an identity are tried.
MatchOrder(s) ==
    IF s = "PANS" THEN <<"imo", "mmsi", "callsign", "name">>
    ELSE <<"mmsi", "imo", "callsign", "name">>

Hits(db, s, id, k) == IF id[k] = NoKey THEN {} ELSE {r \in db[s] : r[k] = id[k]}

\* Several rows under one key are rejected, and the next key is tried.
Decides(db, s, id, i) == Cardinality(Hits(db, s, id, MatchOrder(s)[i])) = 1

Match(db, s, id) ==
    IF \A i \in 1..4 : ~Decides(db, s, id, i) THEN NoRow
    ELSE LET i == CHOOSE i \in 1..4 : Decides(db, s, id, i) /\ \A j \in 1..(i - 1) : ~Decides(db, s, id, j)
         IN CHOOSE r \in Hits(db, s, id, MatchOrder(s)[i]) : TRUE

\* The stores are asked one after the other; any row that is found raises.
LookupRaises(db, id) ==
    ~ReadableRows /\ \E s \in Sources, k \in {"mmsi", "imo", "callsign", "name"} : Hits(db, s, id, k) # {}

Context(db, id) == [s \in Sources |-> Match(db, s, id)]

\* The fields for which a source has a column that the enrichment reads.
NscColumns == {"vessel.name", "id.callsign", "id.imo", "ais.typeAndCargo"}
PansColumns == NscColumns \cup Sizes \cup Places \cup Times \cup {"vessel.grosstonnage"}
WrsColumns ==
    NscColumns \cup Sizes \cup Places
        \cup {"vessel.grosstonnage", "cat.annotation", "cat.identity", "id.mmsi.destination"}

HasColumn(s, f) ==
    CASE s = "NSC" -> f \in NscColumns
      [] s = "PANS" -> f \in PansColumns
      [] s = "WRS" -> f \in WrsColumns

\* What a matched row offers; _str, _to_int and _to_float have made None of
\* what is no value.
Offer(s, f, row) ==
    IF row = NoRow \/ ~HasColumn(s, f) \/ row.kind = "none" THEN Nothing
    ELSE IF row.kind = "illegal" /\ f \in Numbers THEN Nothing
    ELSE IF row.kind = "illegal" /\ f \in Times THEN Value("junk", s, 0)
    ELSE IF row.kind = "zero" /\ f \notin Numbers THEN Value("value", s, 0)
    ELSE IF row.kind = "code" /\ f # "voyage.destination" THEN Value("value", s, 0)
    ELSE Value(row.kind, s, 0)
=============================================================================
