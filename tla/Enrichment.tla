----------------------------- MODULE Enrichment -----------------------------
(***************************************************************************)
(* VesselEnricher.enrich (pipeline/enricher.py) for one field: the value   *)
(* that was transmitted, the configured mapping, the reference sources in  *)
(* the order of the field, the overwrites, the history of the vessel, and  *)
(* the label that says where the value came from.                          *)
(***************************************************************************)
EXTENDS ReferenceLookup, Sequences

\* _reference_order
ReferenceOrder(f) ==
    CASE f \in {"vessel.length", "vessel.beam", "vessel.grosstonnage"} \cup Categories
                \cup {"id.mmsi.destination"} -> <<"WRS", "PANS", "NSC">>
      [] f = "vessel.draft" -> <<"PANS", "WRS", "NSC">>
      [] OTHER -> <<"NSC", "PANS", "WRS">>

\* _apply_configured_mapping: "ais_state:" for what is missing.
Mapped(f, v, state) ==
    IF f \in MappedFields /\ Missing(v) /\ ~Missing(state) THEN state ELSE v

\* What the code looks at to decide whether a reference may fill the field.
Wanting(f, v) ==
    CASE f \in {"vessel.name", "id.imo"} -> v.kind \notin {"value", "illegal"}
      [] f \in {"id.callsign"} \cup Places \cup Times -> Falsy(v)
      [] f \in Sizes \cup {"vessel.grosstonnage", "ais.typeAndCargo"} -> v.kind = "none"
      [] OTHER -> FALSE

\* The IMO number of a row has to be valid.
Acceptable(f, v) == IF f = "id.imo" THEN v.kind = "value" ELSE ~Missing(v)

FirstOffer(f, ctx) ==
    LET offers == [i \in 1..3 |-> Offer(ReferenceOrder(f)[i], f, ctx[ReferenceOrder(f)[i]])]
    IN IF \E i \in 1..3 : Acceptable(f, offers[i])
       THEN offers[CHOOSE i \in 1..3 : /\ Acceptable(f, offers[i])
                                       /\ \A j \in 1..(i - 1) : ~Acceptable(f, offers[j])]
       ELSE Nothing

\* resolve_destination: a UN/LOCODE becomes the name of the port.
Resolved(f, v) ==
    IF f = "voyage.destination" /\ v.kind = "code" THEN Value("value", v.from, v.at) ELSE v

\* The name is decided on what came in, the mapping's choice is forgotten.
Filled(f, incoming, v, ctx) ==
    LET own == IF f = "vessel.name" THEN incoming ELSE v
        offer == FirstOffer(f, ctx)
    IN IF ~Wanting(f, own) THEN Resolved(f, own)
       ELSE IF ~Missing(offer) THEN Resolved(f, offer)
       ELSE IF f = "vessel.name" THEN Blank
       ELSE Resolved(f, own)

\* The fields WRS overwrites: the decoded status, the vigilance score, and
\* the identity computed from it, or from the score the message has.
Overwritten(f, v, ctx, scored, m) ==
    LET offer == Offer("WRS", f, ctx["WRS"])
    IN IF f \in {"cat.annotation", "id.mmsi.destination"} /\ ~Missing(offer) THEN offer
       ELSE IF f = "cat.identity" /\ ~Missing(offer) THEN Value("value", "WRS", 0)
       ELSE IF f = "cat.identity" /\ scored THEN Value("value", "message", m)
       ELSE v

\* The final fallback.
Recovered(f, v, history) ==
    IF f \in HistoryFields /\ Missing(v) /\ ~Missing(history) THEN Resolved(f, history) ELSE v

Enriched(f, incoming, state, ctx, history, scored, m) ==
    Recovered(f, Overwritten(f, Filled(f, incoming, Mapped(f, incoming, state), ctx), ctx, scored, m), history)

\* Faulty variant: the label is taken from the first source that has a value.
LabelOfFirst(f, incoming, v, ctx, history) ==
    IF Missing(v) THEN "NONE"
    ELSE IF ~Missing(FirstOffer(f, ctx)) THEN FirstOffer(f, ctx).from
    ELSE IF ~Missing(incoming) THEN "INCOMING"
    ELSE IF v = history THEN "MMSI_HISTORY" ELSE "DERIVED"

\* enrichment_provenance: by comparison of the final value with the offers.
Label(f, incoming, v, ctx, history) ==
    IF Missing(v) THEN "NONE"
    ELSE IF ~Missing(incoming) THEN "INCOMING"
    ELSE IF \E s \in Sources : Offer(s, f, ctx[s]) = v THEN v.from
    ELSE IF v = history THEN "MMSI_HISTORY"
    ELSE "DERIVED"

\* upsert: what is not blank is laid over what was known.
Kept(f, v, history) == IF f \in HistoryFields /\ ~Missing(v) THEN v ELSE history
=============================================================================
