-------------------------- MODULE RecordPath_proofs --------------------------
(***************************************************************************)
(* Theorems about RecordPath, for every field, every content of the        *)
(* reference stores and any number of messages.                            *)
(***************************************************************************)
EXTENDS RecordPath, FiniteSetTheorems, TLAPS

-----------------------------------------------------------------------------
(* Defaults stay in the three categories                                   *)

Undefaulted(f, v) == v.from = "default" => f \in Categories

DefaultsAreConfined ==
    /\ Undefaulted(field, incoming)
    /\ Undefaulted(field, aisState)
    /\ Undefaulted(field, history)

\* The normaliser gives a default to the categories only.
LEMMA NormalizedUndefaulted ==
  ASSUME NEW feed, NEW f, NEW v, Undefaulted(f, v)
  PROVE  Undefaulted(f, Normalized(feed, f, v))
<1>1. Undefaulted(f, Described(v)) /\ Undefaulted(f, Clean(v)) /\ Undefaulted(f, Nothing)
  BY DEF Undefaulted, Described, Clean, Value, Blank, Nothing
<1>2. Undefaulted(f, FromCommon(f, v))
  BY <1>1 DEF FromCommon, Undefaulted, Categories
<1>3. Undefaulted(f, FromTrack(f, v))
  BY <1>1 DEF FromTrack, Undefaulted
<1> QED
  BY <1>2, <1>3 DEF Normalized

\* What a row offers is no default.
LEMMA OfferUndefaulted ==
  ASSUME NEW s \in Sources, NEW f, NEW row
  PROVE  Undefaulted(f, Offer(s, f, row))
  BY DEF Sources, Offer, Undefaulted, Nothing, Value

\* The first acceptable offer is the offer of a source.
LEMMA FirstOfferIsAnOffer ==
  ASSUME NEW f, NEW ctx
  PROVE  FirstOffer(f, ctx) = Nothing \/ \E s \in Sources : FirstOffer(f, ctx) = Offer(s, f, ctx[s])
<1> DEFINE offers == [i \in 1..3 |-> Offer(ReferenceOrder(f)[i], f, ctx[ReferenceOrder(f)[i]])]
           Good(i) == Acceptable(f, offers[i])
           First(i) == Good(i) /\ \A j \in 1..(i - 1) : ~Good(j)
<1>1. CASE \A i \in 1..3 : ~Good(i)
  BY <1>1 DEF FirstOffer
<1>2. CASE \E i \in 1..3 : Good(i)
  <2>1. \E i \in 1..3 : First(i)
    <3> HIDE DEF Good
    <3>1. 1..0 = {} /\ 1..1 = {1} /\ 1..2 = {1, 2} /\ 1..3 = {1, 2, 3}
      OBVIOUS
    <3>2. Good(1) \/ Good(2) \/ Good(3)
      BY <1>2, <3>1
    <3>3. 1 - 1 = 0 /\ 2 - 1 = 1 /\ 3 - 1 = 2
      OBVIOUS
    <3>4. CASE Good(1)
      <4>1. First(1)
        BY <3>1, <3>3, <3>4
      <4> QED  BY <3>1, <4>1
    <3>5. CASE ~Good(1) /\ Good(2)
      <4>1. First(2)
        BY <3>1, <3>3, <3>5
      <4> QED  BY <3>1, <4>1
    <3>6. CASE ~Good(1) /\ ~Good(2) /\ Good(3)
      <4>1. First(3)
        BY <3>1, <3>3, <3>6
      <4> QED  BY <3>1, <4>1
    <3> QED
      BY <3>2, <3>4, <3>5, <3>6
  <2> DEFINE i == CHOOSE i \in 1..3 : First(i)
  <2>2. i \in 1..3
    <3> HIDE DEF First
    <3> QED BY <2>1
  <2>3. FirstOffer(f, ctx) = offers[i]
    BY <1>2 DEF FirstOffer
  <2>4. ReferenceOrder(f)[i] \in Sources
    <3> HIDE DEF i
    <3> QED BY <2>2 DEF ReferenceOrder, Sources
  <2>5. offers[i] = Offer(ReferenceOrder(f)[i], f, ctx[ReferenceOrder(f)[i]])
    <3> HIDE DEF i
    <3> QED BY <2>2
  <2> HIDE DEF i, offers
  <2> QED
    BY <2>3, <2>4, <2>5
<1> QED
  BY <1>1, <1>2

\* The enrichment takes a value from the record, the AIS state, a row or the
\* history, and invents none.
LEMMA EnrichedUndefaulted ==
  ASSUME NEW f, NEW v, NEW state, NEW ctx, NEW known, NEW scored, NEW m,
         Undefaulted(f, v), Undefaulted(f, state), Undefaulted(f, known)
  PROVE  Undefaulted(f, Enriched(f, v, state, ctx, known, scored, m))
<1> DEFINE first == Mapped(f, v, state)
           filled == Filled(f, v, first, ctx)
           over == Overwritten(f, filled, ctx, scored, m)
<1>0. ASSUME NEW x, Undefaulted(f, x) PROVE Undefaulted(f, Resolved(f, x))
  BY <1>0 DEF Undefaulted, Resolved, Value
<1>1. Undefaulted(f, first)
  BY DEF Mapped
<1>2. Undefaulted(f, FirstOffer(f, ctx))
  BY FirstOfferIsAnOffer, OfferUndefaulted DEF Undefaulted, Nothing, Value
<1>3. Undefaulted(f, filled)
  BY <1>0, <1>1, <1>2 DEF Filled, Blank, Value, Undefaulted
<1>4. Undefaulted(f, over)
  BY <1>3, OfferUndefaulted DEF Overwritten, Undefaulted, Value, Sources
<1>5. Undefaulted(f, Recovered(f, over, known))
  BY <1>0, <1>4 DEF Recovered
<1> QED
  BY <1>5 DEF Enriched

\* A message brings no default.
LEMMA ParsedUndefaulted ==
  ASSUME NEW feed, NEW f, NEW k, NEW m
  PROVE  Undefaulted(f, Parsed(feed, f, IF k = "none" THEN Nothing ELSE Value(k, "message", m)))
  BY DEF Undefaulted, Parsed, Nothing, Value

\* Initially nothing is known.
LEMMA DefaultsInit == Init => DefaultsAreConfined
<1>1. Undefaulted(field, Nothing)
  BY DEF Undefaulted, Nothing, Value
<1> QED
  BY <1>1 DEF Init, DefaultsAreConfined

\* Every step keeps defaults where they are.
LEMMA DefaultsStep == DefaultsAreConfined /\ [Next]_vars => DefaultsAreConfined'
<1> SUFFICES ASSUME DefaultsAreConfined, [Next]_vars PROVE DefaultsAreConfined'
  OBVIOUS
<1>1. CASE ReceiveAny
  <2>1. PICK feed \in Feeds, id \in Identities, k \in Transmitted(field), scored \in BOOLEAN :
            Receive(feed, k, id, scored)
    BY <1>1 DEF ReceiveAny
  <2> DEFINE m == [feed |-> feed, kind |-> k, id |-> id, scored |-> scored]
             v == Parsed(feed, field, IF k = "none" THEN Nothing ELSE Value(k, "message", count + 1))
  <2>2. field' = field /\ history' = history
    BY <2>1 DEF Receive, setup
  <2>3. CASE UNCHANGED <<incoming, aisState>>
    BY <2>2, <2>3 DEF DefaultsAreConfined
  <2>4. CASE Accept(m, v)
    <3>1. Undefaulted(field, v)
      BY ParsedUndefaulted
    <3>2. Undefaulted(field, Merged(m, v))
      BY <3>1 DEF Merged, DefaultsAreConfined
    <3>3. Undefaulted(field, Normalized(m.feed, field, Merged(m, v)))
      BY <3>2, NormalizedUndefaulted
    <3> QED
      BY <2>2, <2>4, <3>2, <3>3 DEF Accept, DefaultsAreConfined
  <2> QED
    BY <2>1, <2>3, <2>4 DEF Receive
<1>2. CASE Enrich
  <2> DEFINE ctx == Context(db, LookupId)
             known == IF HasMmsi(ctx) THEN history ELSE Nothing
             state == IF configured /\ HasState(msg) THEN aisState ELSE Nothing
             result == Enriched(field, incoming, state, ctx, known, msg.scored, count)
  <2>1. Undefaulted(field, known) /\ Undefaulted(field, state) /\ Undefaulted(field, incoming)
    BY DEF DefaultsAreConfined, Undefaulted, Nothing, Value
  <2>2. Undefaulted(field, result)
    BY <2>1, EnrichedUndefaulted
  <2>3. UNCHANGED <<field, incoming, aisState>>
        /\ history' = IF HasMmsi(ctx) THEN Kept(field, result, history) ELSE history
    BY <1>2 DEF Enrich, setup
  <2> QED
    BY <2>2, <2>3 DEF DefaultsAreConfined, Kept
<1>3. CASE Emit \/ Reject
  BY <1>3 DEF Emit, Reject, setup, DefaultsAreConfined
<1>4. CASE UNCHANGED vars
  BY <1>4 DEF vars, DefaultsAreConfined
<1> QED
  BY <1>1, <1>2, <1>3, <1>4 DEF Next

\* What is known of a vessel is not erased, and a default replaces it in the
\* three categories only.  (enricher.py:526-528, track_state.py:18-19)
THEOREM KnowledgeIsKept == Spec => KnownIsKept
<1>1. DefaultsAreConfined /\ DefaultsAreConfined' /\ [Next]_vars =>
        [~Missing(history) =>
            /\ ~Missing(history')
            /\ history'.from = "default" => history.from = "default" \/ field \in Categories]_vars
  <2> SUFFICES ASSUME DefaultsAreConfined', Next, ~Missing(history)
               PROVE  /\ ~Missing(history')
                      /\ history'.from = "default" => history.from = "default" \/ field \in Categories
    OBVIOUS
  <2>1. field' = field
    BY DEF Next, ReceiveAny, Receive, Enrich, Emit, Reject, setup
  <2>2. history'.from = "default" => field \in Categories
    BY <2>1 DEF DefaultsAreConfined, Undefaulted
  <2>3. CASE history' = history
    BY <2>2, <2>3
  <2>4. CASE Enrich
    BY <2>2, <2>4 DEF Enrich, Kept
  <2> QED
    BY <2>3, <2>4 DEF Next, ReceiveAny, Receive, Emit, Reject, setup
<1> QED
  BY <1>1, DefaultsInit, DefaultsStep, PTL DEF Spec, KnownIsKept

-----------------------------------------------------------------------------
(* An illegal character comes from a message or a row                      *)

Harmless(v) == v.kind # "illegal"

IllegalIsNoted ==
    \/ Harmless(value) /\ Harmless(incoming) /\ Harmless(aisState) /\ Harmless(history)
    \/ poisoned

Unanswered ==
    \/ stage = "idle"
    \/ answer = "" /\ ~emitted

AnswerInv == IllegalIsNoted /\ Unanswered /\ AnswerIsTrue

\* The normaliser makes no text illegal.
LEMMA NormalizedHarmless ==
  ASSUME NEW feed, NEW f, NEW v, Harmless(v)
  PROVE  Harmless(Normalized(feed, f, v))
<1>1. Harmless(Described(v)) /\ Harmless(Clean(v)) /\ Harmless(Nothing) /\ Harmless(Value("value", "default", 0))
  BY DEF Harmless, Described, Clean, Value, Blank, Nothing
<1>2. Harmless(FromCommon(f, v))
  BY <1>1 DEF FromCommon
<1>3. Harmless(FromTrack(f, v))
  BY <1>1 DEF FromTrack
<1> QED
  BY <1>2, <1>3 DEF Normalized

\* The enrichment from legal texts makes no text illegal.
LEMMA EnrichedHarmless ==
  ASSUME NEW ctx, NEW f, NEW v, NEW state, NEW known, NEW scored, NEW m,
         \A s \in Sources : Harmless(Offer(s, f, ctx[s])),
         Harmless(v), Harmless(state), Harmless(known)
  PROVE  Harmless(Enriched(f, v, state, ctx, known, scored, m))
<1> DEFINE first == Mapped(f, v, state)
           filled == Filled(f, v, first, ctx)
           over == Overwritten(f, filled, ctx, scored, m)
<1>0. ASSUME NEW x, Harmless(x) PROVE Harmless(Resolved(f, x))
  BY <1>0 DEF Harmless, Resolved, Value
<1>1. Harmless(first)
  BY DEF Mapped
<1>2. Harmless(FirstOffer(f, ctx))
  BY FirstOfferIsAnOffer DEF Harmless, Nothing, Value
<1>3. Harmless(filled)
  BY <1>0, <1>1, <1>2 DEF Filled, Blank, Value, Harmless
<1>4. Harmless(over)
  <2>1. Harmless(Offer("WRS", f, ctx["WRS"]))
    BY DEF Sources
  <2> QED
    BY <1>3, <2>1 DEF Overwritten, Harmless, Value
<1>5. Harmless(Recovered(f, over, known))
  BY <1>0, <1>4 DEF Recovered
<1> QED
  BY <1>5 DEF Enriched

\* Initially no message has come and nothing is known.
LEMMA AnswerInit == Init => AnswerInv
<1>1. Harmless(Nothing) /\ Nothing.kind # "illegal"
  BY DEF Harmless, Nothing, Value
<1> QED
  BY <1>1 DEF Init, AnswerInv, IllegalIsNoted, Unanswered, AnswerIsTrue

\* The receipt of a message preserves the invariant.
LEMMA ReceiveAnswer ==
  ASSUME AnswerInv, NEW feed \in Feeds, NEW id \in Identities, NEW k \in Transmitted(field),
         NEW scored \in BOOLEAN, Receive(feed, k, id, scored)
  PROVE  AnswerInv'
<1> DEFINE m == [feed |-> feed, kind |-> k, id |-> id, scored |-> scored]
           given == IF k = "none" THEN Nothing ELSE Value(k, "message", count + 1)
           v == Parsed(feed, field, given)
<1>1. /\ db' = db /\ history' = history /\ msg' = m /\ ~emitted'
      /\ msg'.feed = feed /\ msg'.kind = k
      /\ poisoned' = (poisoned \/ k = "illegal")
  BY DEF Receive, setup
<1>2. given.kind = k
  BY DEF Nothing, Value
<1>3. v.kind = k \/ v.kind = "none"
  BY <1>2 DEF Parsed, Nothing, Value
<1>4. CASE LeftOut(feed, k) /\ Finish("ack") /\ UNCHANGED <<value, incoming, aisState>>
  BY <1>1, <1>4 DEF AnswerInv, IllegalIsNoted, Unanswered, AnswerIsTrue, Finish, Harmless
<1>5. CASE ParserRaises(feed, field, v) /\ Finish("nack") /\ UNCHANGED <<value, incoming, aisState>>
  <2>1. k = "junk"
    BY <1>3, <1>5 DEF ParserRaises
  <2> QED
    BY <1>1, <1>5, <2>1 DEF AnswerInv, IllegalIsNoted, Unanswered, AnswerIsTrue, Finish, Harmless
<1>6. CASE Accept(m, v)
  <2>1. \/ Harmless(v) /\ Harmless(aisState) /\ Harmless(history)
        \/ poisoned'
    BY <1>1, <1>3 DEF Harmless, AnswerInv, IllegalIsNoted
  <2>2. \/ Harmless(Merged(m, v)) /\ Harmless(aisState) /\ Harmless(history)
        \/ poisoned'
    BY <2>1 DEF Merged
  <2>3. Harmless(Normalized(m.feed, field, Merged(m, v))) \/ poisoned'
    BY <2>2, NormalizedHarmless
  <2>4. /\ aisState' \in {Merged(m, v), aisState}
        /\ value' = Normalized(m.feed, field, Merged(m, v)) /\ incoming' = value'
        /\ answer' = ""
    BY <1>6 DEF Accept
  <2>5. IllegalIsNoted'
    BY <1>1, <2>2, <2>3, <2>4 DEF IllegalIsNoted, Harmless
  <2> QED
    BY <1>1, <2>4, <2>5 DEF AnswerInv, Unanswered, AnswerIsTrue
<1> QED
  BY <1>4, <1>5, <1>6 DEF Receive

\* Every step preserves the invariant.
LEMMA AnswerStep == AnswerInv /\ [Next]_vars => AnswerInv'
<1> SUFFICES ASSUME AnswerInv, [Next]_vars PROVE AnswerInv'
  OBVIOUS
<1>1. CASE ReceiveAny
  BY <1>1, ReceiveAnswer DEF ReceiveAny
<1>2. CASE Enrich
  <2> DEFINE ctx == Context(db, LookupId)
             known == IF HasMmsi(ctx) THEN history ELSE Nothing
             state == IF configured /\ HasState(msg) THEN aisState ELSE Nothing
             result == Enriched(field, incoming, state, ctx, known, msg.scored, count)
  <2>1. /\ UNCHANGED <<field, db, msg, incoming, aisState, document, answer, emitted>>
        /\ poisoned' = (poisoned \/ \E s \in Sources : Offer(s, field, ctx[s]).kind = "illegal")
        /\ value' = result /\ stage = "enrich"
        /\ history' = IF HasMmsi(ctx) THEN Kept(field, result, history) ELSE history
    BY <1>2 DEF Enrich, setup
  <2>2. \/ Harmless(known) /\ Harmless(state) /\ Harmless(incoming) /\ Harmless(history) /\ Harmless(aisState)
        \/ poisoned'
    BY <2>1 DEF AnswerInv, IllegalIsNoted, Harmless, Nothing, Value
  <2>3. (\A s \in Sources : Harmless(Offer(s, field, ctx[s]))) \/ poisoned'
    BY <2>1 DEF Harmless
  <2> HIDE DEF ctx, known, state
  <2>4. Harmless(result) \/ poisoned'
    BY <2>2, <2>3, EnrichedHarmless
  <2>5. Harmless(history') \/ poisoned'
    BY <2>1, <2>2, <2>4 DEF Kept
  <2>6. IllegalIsNoted'
    BY <2>1, <2>2, <2>4, <2>5 DEF IllegalIsNoted, Harmless
  <2>7. answer = "" /\ ~emitted
    BY <2>1 DEF AnswerInv, Unanswered
  <2> QED
    BY <2>1, <2>6, <2>7 DEF AnswerInv, Unanswered, AnswerIsTrue
<1>3. CASE Emit
  <2>1. Harmless(value) /\ Harmless(Text(field, value))
    BY <1>3 DEF Emit, WellFormed, Text, Harmless, Nothing, Blank, Value
  <2>2. /\ UNCHANGED <<db, msg, value, incoming, aisState, history, poisoned>>
        /\ document' = Text(field, value) /\ emitted' = TRUE
        /\ stage' = "idle" /\ answer' = "ack"
    BY <1>3 DEF Emit, Finish, setup
  <2>3. IllegalIsNoted'
    BY <2>2 DEF AnswerInv, IllegalIsNoted, Harmless
  <2>4. document'.kind # "illegal"
    BY <2>1, <2>2 DEF Harmless
  <2>5. emitted' /\ answer' # "nack"
    BY <2>2
  <2>6. Unanswered'
    BY <2>2 DEF Unanswered
  <2>7. AnswerIsTrue'
    BY <2>4, <2>5 DEF AnswerIsTrue
  <2> QED
    BY <2>3, <2>6, <2>7 DEF AnswerInv
<1>4. CASE Reject
  <2>1. /\ UNCHANGED <<field, db, msg, value, incoming, aisState, history, document, emitted, poisoned>>
        /\ stage' = "idle" /\ answer' = "nack"
    BY <1>4 DEF Reject, Finish, setup
  <2>2. IllegalIsNoted' /\ Unanswered'
    BY <2>1 DEF AnswerInv, IllegalIsNoted, Harmless, Unanswered
  <2>3. ~emitted
    BY <1>4 DEF Reject, AnswerInv, Unanswered
  <2>4. LookupRaises(db, LookupId)' \/ poisoned'
    <3>1. CASE stage = "enrich" /\ LookupRaises(db, LookupId)
      <4>1. LookupId' = LookupId
        BY <2>1 DEF LookupId, KeyField
      <4> QED
        BY <2>1, <3>1, <4>1 DEF LookupRaises, Hits
    <3>2. CASE stage = "emit" /\ ~WellFormed(value)
      BY <2>1, <3>2 DEF AnswerInv, IllegalIsNoted, Harmless, WellFormed
    <3> QED
      BY <1>4, <3>1, <3>2 DEF Reject
  <2>5. AnswerIsTrue'
    BY <2>1, <2>3, <2>4 DEF AnswerIsTrue
  <2> QED
    BY <2>2, <2>5 DEF AnswerInv
<1>5. CASE UNCHANGED vars
  <2>1. LookupId' = LookupId /\ db' = db
    BY <1>5 DEF vars, LookupId, KeyField
  <2>2. LookupRaises(db, LookupId)' <=> LookupRaises(db, LookupId)
    BY <2>1 DEF LookupRaises, Hits
  <2> QED
    BY <1>5, <2>2 DEF vars, AnswerInv, IllegalIsNoted, Harmless, Unanswered, AnswerIsTrue
<1> QED
  BY <1>1, <1>2, <1>3, <1>4, <1>5 DEF Next

\* Whatever the stores hold, and whether their rows can be made or not, an ACK
\* means a document that can be read, and a NACK a message that could not be
\* parsed, a vessel whose row cannot be made, or an illegal character that a
\* message of the vessel or a row has brought.  (processor.py:115-203)
THEOREM AnswersAreTrue == Spec => []AnswerIsTrue
<1>1. AnswerInv /\ [Next]_vars => AnswerInv'
  BY AnswerStep
<1>2. AnswerInv => AnswerIsTrue
  BY DEF AnswerInv
<1> QED
  BY <1>1, <1>2, AnswerInit, PTL DEF Spec

-----------------------------------------------------------------------------
(* What is transmitted is emitted                                          *)

OverwrittenByWrs(f, v) == f \in OverwrittenFields /\ v.from = "WRS" /\ v.kind \notin {"none", "blank", "control"}

\* A value a field may have, that counts as present wherever it is looked at.
Solid(f, v) ==
    /\ v.kind \in {"zero", "code", "value"}
    /\ v.kind = "code" => f = "voyage.destination"
    /\ v.kind = "zero" => f \in Numbers \ {"id.imo"}

\* The last message has a value that is not one of the zeros a feed loses.
Real ==
    /\ msg.kind \in {"zero", "code", "value"} /\ field \in Carries(msg.feed)
    /\ msg.kind = "zero" => ~ZeroIsLost

OfMessage(v) == v.from = "message" /\ v.at = count

EmissionInv ==
    /\ field \in Observable
    /\ stage = "enrich" /\ Real => OfMessage(incoming) /\ Solid(field, incoming)
    /\ stage = "emit" /\ Real =>
          \/ OfMessage(value) /\ value.kind \in {"zero", "value"}
          \/ OverwrittenByWrs(field, value)
    /\ TransmittedIsEmitted

\* A real value passes the parser and the normaliser as it is.
LEMMA SentIsSolid ==
  ASSUME NEW f \in Observable, NEW feed \in Feeds, f \in Carries(feed), NEW n,
         NEW k \in Transmitted(f), k \in {"zero", "code", "value"},
         k = "zero" => f # "id.imo" /\ f \notin ZeroIsNone(feed) /\ ~(feed = "XML" /\ f \in ReadWithOr)
  PROVE  LET sent == Value(k, "message", n)
             normal == Normalized(feed, f, sent)
         IN /\ Parsed(feed, f, sent) = sent
            /\ normal.from = "message" /\ normal.at = n
            /\ Solid(f, normal)
<1> DEFINE sent == Value(k, "message", n)
<1>1. sent.kind = k /\ sent.from = "message" /\ sent.at = n
  BY DEF Value
<1>2. Parsed(feed, f, sent) = sent
  BY <1>1 DEF Parsed
<1>3. k = "zero" => f \in (Numbers \ {"id.imo"}) \cup Coded
  BY DEF Transmitted
<1>4. k = "code" => f \in Coded \cup {"voyage.destination"}
  BY DEF Transmitted
<1>5. CASE f \in Coded
  <2>1. f \notin Categories /\ f \notin ReadWithOr /\ f \notin Times /\ f \notin Sanitized
    BY <1>5 DEF Coded, Categories, ReadWithOr, Times, Angles, Lengths, Sanitized, Places
  <2>2. Normalized(feed, f, sent) = Described(sent)
    BY <1>1, <1>5, <2>1 DEF Normalized, FromTrack, FromCommon, Categories
  <2> QED
    BY <1>1, <1>2, <2>2 DEF Described, Value, Solid
<1>6. CASE f \notin Coded
  <2>1. feed # "XML" => f \notin {"cat.category", "cat.identity"}
    BY DEF Feeds, Carries, AisFields, MsisFields, LritFields, TmvtdFields, MappedRecordFields,
           Common, Voyage, Identity, Sizes, Position, Lengths
  <2>2. Normalized(feed, f, sent) = sent
    BY <1>1, <1>6, <2>1 DEF Normalized, FromTrack, FromCommon, Missing, Clean
  <2> QED
    BY <1>1, <1>2, <1>3, <1>4, <1>6, <2>2 DEF Solid
<1> QED
  BY <1>5, <1>6

\* No source fills a field that has a real value: only WRS overwrites three of
\* them, and the vigilance score of the message the identity.
LEMMA EnrichedKeepsSolid ==
  ASSUME NEW f \in Observable, NEW v, NEW state, NEW ctx, NEW known, NEW scored, NEW m, Solid(f, v)
  PROVE  LET result == Enriched(f, v, state, ctx, known, scored, m)
         IN \/ result.from = v.from /\ result.at = v.at /\ result.kind \in {"zero", "value"}
            \/ f = "cat.identity" /\ result = Value("value", "message", m)
            \/ f \in OverwrittenFields /\ result = Value("value", "WRS", 0)
            \/ /\ f \in OverwrittenFields /\ result = Offer("WRS", f, ctx["WRS"])
               /\ ~Missing(result)
<1> DEFINE filled == Filled(f, v, v, ctx)
           over == Overwritten(f, filled, ctx, scored, m)
<1>1. ~Missing(v) /\ Mapped(f, v, state) = v
  BY DEF Solid, Missing, Mapped
<1>2. ~Wanting(f, v)
  <2>1. f \in {"vessel.name", "id.imo"} => v.kind = "value"
    BY DEF Solid, Numbers, Lengths, Sizes, Movement, Angles, Position
  <2>2. f \in {"id.callsign"} \cup Places \cup Times => v.kind \in {"code", "value"}
    BY DEF Solid, Numbers, Lengths, Sizes, Movement, Angles, Position, Places, Times
  <2>3. v.kind # "none"
    BY DEF Solid
  <2> QED
    BY <2>1, <2>2, <2>3 DEF Wanting, Falsy
<1>3. filled = Resolved(f, v)
  BY <1>2 DEF Filled
<1>4. filled.from = v.from /\ filled.at = v.at /\ filled.kind \in {"zero", "value"}
  BY <1>3 DEF Resolved, Solid, Value
<1>5. \/ over = filled
      \/ f = "cat.identity" /\ over = Value("value", "message", m)
      \/ f \in OverwrittenFields /\ over = Value("value", "WRS", 0)
      \/ f \in OverwrittenFields /\ over = Offer("WRS", f, ctx["WRS"]) /\ ~Missing(over)
  BY DEF Overwritten, OverwrittenFields
<1>6. ~Missing(over)
  BY <1>4, <1>5 DEF Missing, Value
<1>7. Enriched(f, v, state, ctx, known, scored, m) = over
  BY <1>1, <1>6 DEF Enriched, Recovered
<1> HIDE DEF filled, over
<1> QED
  BY <1>4, <1>5, <1>6, <1>7

\* A match is a row of the store.
LEMMA MatchIsARow ==
  ASSUME NEW d, NEW s, NEW id
  PROVE  Match(d, s, id) = NoRow \/ Match(d, s, id) \in d[s]
<1> DEFINE First(i) == Decides(d, s, id, i) /\ \A j \in 1..(i - 1) : ~Decides(d, s, id, j)
           i == CHOOSE i \in 1..4 : First(i)
           hits == Hits(d, s, id, MatchOrder(s)[i])
<1>1. CASE \A j \in 1..4 : ~Decides(d, s, id, j)
  BY <1>1 DEF Match
<1>2. CASE \E j \in 1..4 : Decides(d, s, id, j)
  <2>1. \E j \in 1..4 : First(j)
    <3> DEFINE D(j) == Decides(d, s, id, j)
    <3>1. First(1) <=> D(1)
      OBVIOUS
    <3>2. First(2) <=> D(2) /\ ~D(1)
      OBVIOUS
    <3>3. First(3) <=> D(3) /\ ~D(2) /\ ~D(1)
      OBVIOUS
    <3>4. First(4) <=> D(4) /\ ~D(3) /\ ~D(2) /\ ~D(1)
      OBVIOUS
    <3>5. D(1) \/ D(2) \/ D(3) \/ D(4)
      BY <1>2
    <3> HIDE DEF D, First
    <3> QED
      BY <3>1, <3>2, <3>3, <3>4, <3>5
  <2>2. First(i)
    <3> HIDE DEF First
    <3> QED BY <2>1
  <2>3. hits # {}
    <3>1. Cardinality(hits) = 1
      <4> HIDE DEF i
      <4> QED BY <2>2 DEF Decides
    <3> HIDE DEF hits
    <3> QED BY <3>1, FS_EmptySet
  <2>4. Match(d, s, id) = CHOOSE r \in hits : TRUE
    BY <1>2 DEF Match
  <2>5. hits \subseteq d[s]
    BY DEF Hits
  <2> HIDE DEF hits
  <2> QED
    BY <2>3, <2>4, <2>5
<1> QED
  BY <1>1, <1>2

\* No text of WRS consists of control characters alone.  The CSV files it is
\* built from could hold one: the document would have an empty element for it.
WrsTextsAreReadable == \A d \in Databases : \A r \in d["WRS"] : r.kind # "control"

\* An offer of WRS is a text or a number that the document can hold.
LEMMA WrsOffer ==
  ASSUME WrsTextsAreReadable, NEW d \in Databases, NEW id, NEW f,
         ~Missing(Offer("WRS", f, Context(d, id)["WRS"]))
  PROVE  /\ Offer("WRS", f, Context(d, id)["WRS"]).from = "WRS"
         /\ Offer("WRS", f, Context(d, id)["WRS"]).kind \notin {"none", "blank", "control"}
<1> DEFINE row == Context(d, id)["WRS"]
<1>1. row = NoRow \/ row.kind # "control"
  BY MatchIsARow DEF Context, WrsTextsAreReadable, Sources
<1>2. row # NoRow
  BY DEF Offer, Missing, Nothing, Value
<1> HIDE DEF row
<1>3. Offer("WRS", f, row) \in {Nothing, Value("value", "WRS", 0), Value("junk", "WRS", 0), Value(row.kind, "WRS", 0)}
  BY DEF Offer
<1>4. ~Missing(Offer("WRS", f, row))
  BY DEF row
<1>5. Offer("WRS", f, row).kind \notin {"none", "blank"} /\ Offer("WRS", f, row) # Nothing
  BY <1>4 DEF Missing, Nothing, Value
<1>6. Offer("WRS", f, row).from = "WRS" /\ Offer("WRS", f, row).kind # "control"
  BY <1>1, <1>2, <1>3, <1>5 DEF Value
<1> QED
  BY <1>5, <1>6 DEF row

\* Nothing is emitted at first.
LEMMA EmissionInit == Init => EmissionInv
  BY FollowedAssumption DEF Init, EmissionInv, TransmittedIsEmitted

\* The receipt of a message preserves the invariant.
LEMMA ReceiveEmission ==
  ASSUME EmissionInv, NEW feed \in Feeds, NEW id \in Identities, NEW k \in Transmitted(field),
         NEW scored \in BOOLEAN, Receive(feed, k, id, scored)
  PROVE  EmissionInv'
<1> DEFINE m == [feed |-> feed, kind |-> k, id |-> id, scored |-> scored]
           given == IF k = "none" THEN Nothing ELSE Value(k, "message", count + 1)
           v == Parsed(feed, field, given)
<1>1. /\ field' = field /\ count' = count + 1 /\ msg' = m /\ ~emitted'
      /\ msg'.feed = feed /\ msg'.kind = k
  BY DEF Receive, setup
<1>2. TransmittedIsEmitted'
  BY <1>1 DEF TransmittedIsEmitted
<1>3. CASE stage' = "idle"
  BY <1>1, <1>2, <1>3 DEF EmissionInv
<1>4. CASE Accept(m, v)
  <2>1. ASSUME Real' PROVE OfMessage(incoming)' /\ Solid(field', incoming')
    <3>1. /\ k \in {"zero", "code", "value"} /\ field \in Carries(feed)
          /\ k = "zero" =>
                field # "id.imo" /\ field \notin ZeroIsNone(feed) /\ ~(feed = "XML" /\ field \in ReadWithOr)
      BY <1>1, <2>1 DEF Real, ZeroIsLost
    <3>2. given = Value(k, "message", count + 1) /\ given.kind # "none"
      BY <3>1 DEF Value
    <3>3. /\ v = given
          /\ Normalized(feed, field, given).from = "message"
          /\ Normalized(feed, field, given).at = count + 1
          /\ Solid(field, Normalized(feed, field, given))
      BY <3>1, <3>2, SentIsSolid DEF EmissionInv
    <3>4. Merged(m, v) = given
      BY <3>2, <3>3 DEF Merged
    <3>5. incoming' = Normalized(feed, field, given)
      BY <1>4, <3>4 DEF Accept
    <3> QED
      BY <1>1, <3>3, <3>5 DEF OfMessage
  <2>2. stage' = "enrich"
    BY <1>4 DEF Accept
  <2> QED
    BY <1>1, <1>2, <2>1, <2>2 DEF EmissionInv
<1> QED
  BY <1>3, <1>4 DEF Receive, Finish

\* Every step preserves the invariant.
LEMMA EmissionStep ==
  WrsTextsAreReadable /\ db \in Databases /\ EmissionInv /\ [Next]_vars => EmissionInv'
<1> SUFFICES ASSUME WrsTextsAreReadable, db \in Databases, EmissionInv, [Next]_vars PROVE EmissionInv'
  OBVIOUS
<1>1. CASE ReceiveAny
  BY <1>1, ReceiveEmission DEF ReceiveAny
<1>2. CASE Enrich
  <2> DEFINE ctx == Context(db, LookupId)
             known == IF HasMmsi(ctx) THEN history ELSE Nothing
             state == IF configured /\ HasState(msg) THEN aisState ELSE Nothing
             result == Enriched(field, incoming, state, ctx, known, msg.scored, count)
  <2>1. /\ UNCHANGED <<field, count, msg, document, emitted>>
        /\ stage = "enrich" /\ stage' = "emit" /\ value' = result
    BY <1>2 DEF Enrich, setup
  <2>2. Real' => Real
    BY <2>1 DEF Real, ZeroIsLost
  <2>3. TransmittedIsEmitted'
    BY <2>1 DEF EmissionInv, TransmittedIsEmitted, ZeroIsLost
  <2>4. ASSUME Real
        PROVE  \/ OfMessage(result) /\ result.kind \in {"zero", "value"}
               \/ OverwrittenByWrs(field, result)
    <3>1. OfMessage(incoming) /\ Solid(field, incoming) /\ field \in Observable
      BY <2>1, <2>4 DEF EmissionInv
    <3>2. \/ result.from = incoming.from /\ result.at = incoming.at /\ result.kind \in {"zero", "value"}
          \/ field = "cat.identity" /\ result = Value("value", "message", count)
          \/ field \in OverwrittenFields /\ result = Value("value", "WRS", 0)
          \/ field \in OverwrittenFields /\ result = Offer("WRS", field, ctx["WRS"]) /\ ~Missing(result)
      <4> HIDE DEF ctx, known, state
      <4> QED BY <3>1, EnrichedKeepsSolid
    <3>3. CASE result.from = incoming.from /\ result.at = incoming.at /\ result.kind \in {"zero", "value"}
      <4> HIDE DEF result
      <4> QED BY <3>1, <3>3 DEF OfMessage
    <3>4. CASE field = "cat.identity" /\ result = Value("value", "message", count)
      <4> HIDE DEF result
      <4> QED BY <3>4 DEF OfMessage, Value
    <3>5. CASE field \in OverwrittenFields /\ result = Value("value", "WRS", 0)
      <4> HIDE DEF result
      <4> QED BY <3>5 DEF OverwrittenByWrs, Value
    <3>6. CASE field \in OverwrittenFields /\ result = Offer("WRS", field, ctx["WRS"]) /\ ~Missing(result)
      <4> HIDE DEF result
      <4> QED BY <3>6, WrsOffer DEF OverwrittenByWrs
    <3> QED
      BY <3>2, <3>3, <3>4, <3>5, <3>6
  <2> HIDE DEF result
  <2> QED
    BY <2>1, <2>2, <2>3, <2>4 DEF EmissionInv, OfMessage, OverwrittenByWrs
<1>3. CASE Emit
  <2>1. /\ UNCHANGED <<field, count, msg>>
        /\ stage = "emit" /\ stage' = "idle" /\ document' = Text(field, value)
    BY <1>3 DEF Emit, Finish, setup
  <2>2. ASSUME Real
        PROVE  \/ document'.from = "message" /\ document'.at = count /\ document'.kind # "code"
               \/ field \in OverwrittenFields /\ document'.from = "WRS"
    <3>1. \/ OfMessage(value) /\ value.kind \in {"zero", "value"}
          \/ OverwrittenByWrs(field, value)
      BY <2>1, <2>2 DEF EmissionInv
    <3>2. field \in OverwrittenFields => field \notin Times
      BY DEF OverwrittenFields, Times
    <3>3. Text(field, value) = value
      BY <3>1, <3>2 DEF Text, Missing, OverwrittenByWrs
    <3> QED
      BY <2>1, <3>1, <3>3 DEF OfMessage, OverwrittenByWrs
  <2>3. TransmittedIsEmitted'
    BY <2>1, <2>2 DEF Real, TransmittedIsEmitted, ZeroIsLost
  <2> QED
    BY <2>1, <2>3 DEF EmissionInv
<1>4. CASE Reject
  BY <1>4 DEF Reject, Finish, setup, EmissionInv, TransmittedIsEmitted, ZeroIsLost
<1>5. CASE UNCHANGED vars
  BY <1>5 DEF vars, EmissionInv, TransmittedIsEmitted, ZeroIsLost, Real, OfMessage, OverwrittenByWrs
<1> QED
  BY <1>1, <1>2, <1>3, <1>4, <1>5 DEF Next

\* A real value that a message brings is the one in its document: no
\* reference, AIS state or history takes its place, but for the three fields
\* WRS overwrites.  (enricher.py:56-57, 141-146, 341-363)
THEOREM TransmissionIsKept ==
  ASSUME WrsTextsAreReadable
  PROVE  Spec => []TransmittedIsEmitted
<1> DEFINE Inv == db \in Databases /\ EmissionInv
<1>1. Init => Inv
  BY EmissionInit DEF Init
<1>2. Inv /\ [Next]_vars => Inv'
  <2>1. db \in Databases /\ [Next]_vars => (db \in Databases)'
    BY DEF Next, ReceiveAny, Receive, Enrich, Emit, Reject, setup, vars
  <2> QED
    BY <2>1, EmissionStep
<1>3. Inv => TransmittedIsEmitted
  BY DEF EmissionInv
<1> QED
  BY <1>1, <1>2, <1>3, PTL DEF Spec

-----------------------------------------------------------------------------
(* Provenance                                                              *)

\* A value as a message brings it.
AsSent(f, v) ==
    /\ v.kind \in Transmitted(f)
    /\ v.kind = "junk" => f \in Times
    /\ v.kind # "none" => v.from = "message"

\* What the normaliser makes of it.
Usable(f, v) ==
    /\ ~Missing(v) => v.from \in {"message", "default"}
    /\ f \in {"vessel.name", "id.imo"} =>
          v.kind \in {"none", "blank", "zero", "value", "illegal", "placeholder"}
    /\ f \in {"id.callsign"} \cup Places \cup Times => v.kind # "zero"
    /\ f = "cat.identity" => ~Missing(v)

Past(n, v) == v.at \in Nat /\ (v.from = "message" => v.at <= n)

ProvenanceInv ==
    /\ field \in Observable /\ count \in Nat
    /\ AsSent(field, aisState) /\ Past(count, aisState)
    /\ ~Missing(history) => field \in HistoryFields
    /\ Past(count, history)
    /\ stage = "enrich" =>
          /\ history.from = "message" => history.at < count
          /\ Usable(field, incoming) /\ Past(count, incoming)
          /\ Missing(incoming) /\ HasState(msg) /\ field \in MappedFields =>
                Missing(aisState) \/ aisState.kind = "control"
    /\ ProvenanceIsTrue

\* What a parser finds is what was sent, or nothing.
LEMMA ParsedAsSent ==
  ASSUME NEW feed, NEW f, NEW k \in Transmitted(f), NEW n \in Nat
  PROVE  LET v == Parsed(feed, f, IF k = "none" THEN Nothing ELSE Value(k, "message", n))
         IN AsSent(f, v) /\ Past(n, v)
<1> DEFINE given == IF k = "none" THEN Nothing ELSE Value(k, "message", n)
           v == Parsed(feed, f, given)
<1>1. /\ given.kind = k /\ given.at \in Nat
      /\ k # "none" => given.from = "message" /\ given.at = n
      /\ k = "none" => given.from = "-"
  BY DEF Nothing, Value
<1>2. Nothing.kind = "none" /\ Nothing.from = "-" /\ Nothing.at = 0 /\ "none" \in Transmitted(f)
  BY DEF Nothing, Value, Transmitted
<1> SUFFICES AsSent(f, v) /\ Past(n, v)
  OBVIOUS
<1>3. v = Nothing \/ (v = given /\ ~(k = "junk" /\ f \notin Times))
  BY <1>1 DEF Parsed
<1> HIDE DEF v, given
<1>4. CASE v = Nothing
  BY <1>2, <1>4 DEF AsSent, Past
<1>5. CASE v = given /\ ~(k = "junk" /\ f \notin Times)
  BY <1>1, <1>5 DEF AsSent, Past
<1> QED
  BY <1>3, <1>4, <1>5

\* What the normaliser makes of a value as it was sent.
LEMMA NormalizedUsable ==
  ASSUME NEW f \in Observable, NEW feed, NEW n, NEW v, AsSent(f, v), Past(n, v)
  PROVE  LET normal == Normalized(feed, f, v)
         IN /\ Usable(f, normal) /\ Past(n, normal)
            /\ feed # "XML" /\ Missing(normal) => Missing(v) \/ v.kind = "control"
<1> DEFINE default == Value("value", "default", 0)
           normal == Normalized(feed, f, v)
<1> SUFFICES /\ Usable(f, normal) /\ Past(n, normal)
             /\ feed # "XML" /\ Missing(normal) => Missing(v) \/ v.kind = "control"
  OBVIOUS
<1>1. /\ default.kind = "value" /\ default.from = "default" /\ default.at = 0
      /\ Nothing.kind = "none" /\ Nothing.from = "-" /\ Nothing.at = 0
      /\ Blank.kind = "blank" /\ Blank.from = "-" /\ Blank.at = 0
  BY DEF Value, Nothing, Blank
<1>2. \/ normal = default /\ f \in Categories
      \/ normal = Described(v) /\ f \in Coded
      \/ normal = Clean(v) /\ f \in Sanitized
      \/ /\ normal = Nothing /\ feed = "XML"
         /\ f \in ReadWithOr \/ f \in Times
      \/ /\ normal = v /\ f \notin Coded \cup Sanitized
         /\ f = "cat.identity" => ~Missing(v)
  BY DEF Normalized, FromCommon, FromTrack, Categories
<1> HIDE DEF default, normal
<1>3. f \in Categories \/ f \in Coded \/ f \in ReadWithOr \/ f \in Times =>
        f \notin Sanitized
  BY DEF Categories, Coded, ReadWithOr, Times, Angles, Lengths, Sanitized, Places
<1>4. CASE normal = default /\ f \in Categories
  BY <1>1, <1>4 DEF Usable, Past, Missing, Categories
<1>5. CASE normal = Described(v) /\ f \in Coded
  <2>1. f \notin {"vessel.name", "id.imo", "id.callsign", "cat.identity"} \cup Places \cup Times
    BY <1>5 DEF Coded, Places, Times
  <2>2. v.kind \in {"none", "zero", "code"}
    BY <1>5 DEF AsSent, Transmitted, Coded, Numbers, Lengths, Sizes, Movement, Angles, Position
  <2>3. CASE v.kind = "none"
    <3>1. normal = v
      BY <1>5, <2>3 DEF Described
    <3> QED
      BY <2>1, <2>3, <3>1 DEF Usable, Past, Missing
  <2>4. CASE v.kind \in {"zero", "code"}
    <3>1. normal.kind = "value" /\ normal.from = v.from /\ normal.at = v.at
      BY <1>5, <2>4 DEF Described, Value
    <3> QED
      BY <2>1, <2>4, <3>1 DEF Usable, Past, Missing, AsSent
  <2> QED
    BY <2>2, <2>3, <2>4
<1>6. CASE normal = Clean(v) /\ f \in Sanitized
  <2>1. f \notin Numbers \cup Coded \cup Times \cup {"cat.identity", "id.imo"}
    BY <1>6 DEF Sanitized, Places, Numbers, Lengths, Sizes, Movement, Angles, Position, Coded, Times
  <2>2. v.kind \in {"none", "value", "code", "placeholder", "control", "illegal"}
        /\ (f = "vessel.name" => v.kind # "code")
    BY <2>1 DEF AsSent, Transmitted
  <2>3. CASE v.kind \in {"none", "control"}
    <3>1. normal = Blank
      BY <1>6, <2>3 DEF Clean
    <3> QED
      BY <1>1, <2>1, <2>3, <3>1 DEF Usable, Past, Missing
  <2>4. CASE v.kind \notin {"none", "control"}
    <3>1. normal = v
      BY <1>6, <2>4 DEF Clean
    <3> QED
      BY <2>1, <2>2, <2>4, <3>1 DEF Usable, Missing, AsSent
  <2> QED
    BY <2>3, <2>4
<1>7. CASE normal = Nothing /\ feed = "XML" /\ (f \in ReadWithOr \/ f \in Times)
  <2>1. f # "cat.identity"
    BY <1>7 DEF ReadWithOr, Times, Angles, Lengths
  <2> QED
    BY <1>1, <1>7, <2>1 DEF Usable, Past, Missing
<1>8. CASE normal = v /\ f \notin Coded \cup Sanitized /\ (f = "cat.identity" => ~Missing(v))
  <2>1. ~Missing(v) => v.from \in {"message", "default"}
    BY DEF AsSent, Missing
  <2>2. f # "vessel.name"
    BY <1>8 DEF Sanitized
  <2>3. f = "id.imo" => v.kind \in {"none", "zero", "value", "placeholder"}
    <3>1. f = "id.imo" => f \in Numbers /\ f \notin Times
      BY DEF Numbers, Times
    <3> QED
      BY <3>1 DEF AsSent, Transmitted
  <2>4. f \in {"id.callsign"} \cup Places \cup Times => v.kind # "zero"
    <3>1. f \in {"id.callsign"} \cup Places => f \in Sanitized
      BY DEF Sanitized
    <3>2. f \in Times => f \notin Numbers \cup Coded
      BY DEF Times, Numbers, Lengths, Sizes, Movement, Angles, Position, Coded
    <3>3. f \in Times => v.kind # "zero"
      BY <3>2 DEF AsSent, Transmitted
    <3> QED
      BY <1>8, <3>1, <3>3
  <2> QED
    BY <1>8, <2>1, <2>2, <2>3, <2>4 DEF Usable
<1> QED
  BY <1>2, <1>4, <1>5, <1>6, <1>7, <1>8

\* A source that offers something offers its own.
LEMMA OfferIsOwn ==
  ASSUME NEW s \in Sources, NEW f, NEW row
  PROVE  /\ Past(0, Offer(s, f, row))
         /\ ~Missing(Offer(s, f, row)) => Offer(s, f, row).from = s
<1>1. \/ Offer(s, f, row) = Nothing
      \/ \E k : Offer(s, f, row) = Value(k, s, 0)
  BY DEF Offer
<1>2. s # "message"
  BY DEF Sources
<1> QED
  BY <1>1, <1>2 DEF Past, Missing, Nothing, Value

\* What the enrichment makes of a value that came.
LEMMA EnrichedPresent ==
  ASSUME NEW f \in Observable, NEW v, NEW state, NEW ctx, NEW known, NEW scored, NEW m,
         Usable(f, v), ~Missing(v)
  PROVE  LET result == Enriched(f, v, state, ctx, known, scored, m)
         IN \/ result.from \in {"message", "default"}
            \/ f \in OverwrittenFields
            \/ v.kind \in {"placeholder", "zero"} /\ f \in {"vessel.name", "id.imo"}
<1> DEFINE filled == Filled(f, v, v, ctx)
<1>1. SUFFICES ASSUME f \notin OverwrittenFields,
                      ~(v.kind \in {"placeholder", "zero"} /\ f \in {"vessel.name", "id.imo"})
               PROVE  Enriched(f, v, state, ctx, known, scored, m).from \in {"message", "default"}
  OBVIOUS
<1>2. Mapped(f, v, state) = v
  BY DEF Mapped
<1>3. ~Wanting(f, v)
  BY <1>1 DEF Usable, Wanting, Falsy, Missing
<1>4. filled = Resolved(f, v)
  BY <1>3 DEF Filled
<1>5. filled.from = v.from /\ ~Missing(filled)
  BY <1>4 DEF Resolved, Missing, Value
<1>6. Overwritten(f, filled, ctx, scored, m) = filled
  BY <1>1 DEF Overwritten, OverwrittenFields
<1>7. Enriched(f, v, state, ctx, known, scored, m) = filled
  BY <1>2, <1>5, <1>6 DEF Enriched, Recovered
<1> QED
  BY <1>5, <1>7 DEF Usable

\* What the enrichment makes of a value that did not come.
LEMMA EnrichedAbsent ==
  ASSUME NEW f \in Observable, NEW v, NEW state, NEW ctx, NEW known, NEW scored, NEW m,
         Missing(v), f # "cat.identity",
         f \in MappedFields => Missing(state) \/ state.kind = "control"
  PROVE  LET result == Enriched(f, v, state, ctx, known, scored, m)
         IN \/ Missing(result)
            \/ \E s \in Sources : Offer(s, f, ctx[s]) = result
            \/ result = known
            \/ f = "voyage.destination" \/ result.kind = "control"
<1> SUFFICES ASSUME f # "voyage.destination"
             PROVE  LET result == Enriched(f, v, state, ctx, known, scored, m)
                    IN \/ Missing(result)
                       \/ \E s \in Sources : Offer(s, f, ctx[s]) = result
                       \/ result = known
                       \/ result.kind = "control"
  OBVIOUS
<1> DEFINE first == Mapped(f, v, state)
           filled == Filled(f, v, first, ctx)
           over == Overwritten(f, filled, ctx, scored, m)
           Offered(x) == \E s \in Sources : Offer(s, f, ctx[s]) = x
<1>1. \A x : Resolved(f, x) = x
  BY DEF Resolved
<1>2. Missing(first) \/ first.kind = "control"
  BY DEF Mapped
<1>3. Missing(Blank) /\ Missing(Nothing)
  BY DEF Missing, Blank, Nothing, Value
<1>4. FirstOffer(f, ctx) = Nothing \/ Offered(FirstOffer(f, ctx))
  BY FirstOfferIsAnOffer
<1> HIDE DEF first
<1>5. \/ filled = first \/ filled = v \/ filled = Blank
      \/ filled = FirstOffer(f, ctx) /\ ~Missing(filled)
  BY <1>1 DEF Filled
<1>6. Missing(filled) \/ Offered(filled) \/ filled.kind = "control"
  <2> HIDE DEF filled, Offered
  <2> QED BY <1>2, <1>3, <1>4, <1>5
<1> HIDE DEF filled
<1>7. over = filled \/ over = Offer("WRS", f, ctx["WRS"])
  BY DEF Overwritten
<1>8. Missing(over) \/ Offered(over) \/ over.kind = "control"
  <2>1. Offered(Offer("WRS", f, ctx["WRS"]))
    BY DEF Sources
  <2> HIDE DEF over, Offered
  <2> QED BY <1>6, <1>7, <2>1
<1>9. Recovered(f, over, known) = over \/ Recovered(f, over, known) = known
  BY <1>1 DEF Recovered
<1>10. Enriched(f, v, state, ctx, known, scored, m) = Recovered(f, over, known)
  BY DEF Enriched, over, filled, first
<1> HIDE DEF over, Offered
<1>11. LET result == Enriched(f, v, state, ctx, known, scored, m)
       IN Missing(result) \/ Offered(result) \/ result = known \/ result.kind = "control"
  BY <1>8, <1>9, <1>10
<1> QED
  BY <1>11 DEF Offered

\* The enrichment takes nothing from a later message.
LEMMA EnrichedPast ==
  ASSUME NEW f, NEW v, NEW state, NEW ctx, NEW known, NEW scored, NEW m \in Nat,
         Past(m, v), Past(m, state), Past(m, known)
  PROVE  Past(m, Enriched(f, v, state, ctx, known, scored, m))
<1> DEFINE first == Mapped(f, v, state)
           filled == Filled(f, v, first, ctx)
           over == Overwritten(f, filled, ctx, scored, m)
<1>0. ASSUME NEW x, Past(m, x) PROVE Past(m, Resolved(f, x))
  BY <1>0 DEF Past, Resolved, Value
<1>1. Past(m, first)
  BY DEF Mapped
<1>2. Past(m, Nothing) /\ Past(m, Blank) /\ Past(m, Value("value", "WRS", 0))
      /\ Past(m, Value("value", "message", m))
  BY DEF Past, Nothing, Blank, Value
<1>3. ASSUME NEW s \in Sources PROVE Past(m, Offer(s, f, ctx[s]))
  BY OfferIsOwn DEF Past
<1>4. Past(m, FirstOffer(f, ctx))
  BY <1>2, <1>3, FirstOfferIsAnOffer
<1> HIDE DEF first
<1>5. Past(m, filled)
  BY <1>0, <1>1, <1>2, <1>4 DEF Filled
<1> HIDE DEF filled
<1>6. Past(m, over)
  BY <1>2, <1>3, <1>5 DEF Overwritten, Sources
<1>7. Past(m, Recovered(f, over, known))
  BY <1>0, <1>6 DEF Recovered
<1> QED
  BY <1>7 DEF Enriched, over, filled, first

\* Initially nothing is known.
LEMMA ProvenanceInit == Init => ProvenanceInv
<1>1. AsSent(field, Nothing) /\ Past(0, Nothing) /\ Missing(Nothing)
  BY DEF AsSent, Past, Missing, Nothing, Value, Transmitted
<1> SUFFICES ASSUME Init PROVE ProvenanceInv
  OBVIOUS
<1>2. stage = "idle" /\ count = 0 /\ history = Nothing /\ aisState = Nothing /\ field \in Observable
  BY FollowedAssumption DEF Init
<1>3. ProvenanceIsTrue
  BY <1>2 DEF ProvenanceIsTrue
<1> QED
  BY <1>1, <1>2, <1>3 DEF ProvenanceInv

\* The receipt of a message preserves the invariant.
LEMMA ReceiveProvenance ==
  ASSUME ProvenanceInv, NEW feed \in Feeds, NEW id \in Identities, NEW k \in Transmitted(field),
         NEW scored \in BOOLEAN, Receive(feed, k, id, scored)
  PROVE  ProvenanceInv'
<1> DEFINE m == [feed |-> feed, kind |-> k, id |-> id, scored |-> scored]
           v == Parsed(feed, field, IF k = "none" THEN Nothing ELSE Value(k, "message", count + 1))
           merged == Merged(m, v)
<1>1. field' = field /\ count' = count + 1 /\ msg' = m /\ history' = history
  BY DEF Receive, setup
<1>2. field \in Observable /\ count \in Nat /\ count + 1 \in Nat
  BY DEF ProvenanceInv
<1>3. AsSent(field, aisState) /\ Past(count + 1, aisState)
  BY <1>2 DEF ProvenanceInv, Past
<1>4. /\ ~Missing(history) => field \in HistoryFields
      /\ Past(count + 1, history)
      /\ history.from = "message" => history.at < count + 1
  BY <1>2 DEF ProvenanceInv, Past
<1>5. CASE stage' = "idle" /\ aisState' = aisState
  BY <1>1, <1>2, <1>3, <1>4, <1>5 DEF ProvenanceInv, ProvenanceIsTrue
<1>6. CASE Accept(m, v)
  <2>1. AsSent(field, v) /\ Past(count + 1, v)
    BY <1>2, ParsedAsSent
  <2>2. AsSent(field, merged) /\ Past(count + 1, merged)
    BY <1>3, <2>1 DEF Merged
  <2>3. /\ aisState' = IF HasState(m) /\ field \in StateFields THEN merged ELSE aisState
        /\ incoming' = Normalized(feed, field, merged) /\ stage' = "enrich"
    BY <1>6 DEF Accept
  <2> HIDE DEF merged
  <2>4. /\ Usable(field, incoming') /\ Past(count + 1, incoming')
        /\ feed # "XML" /\ Missing(incoming') => Missing(merged) \/ merged.kind = "control"
    BY <1>2, <2>2, <2>3, NormalizedUsable
  <2>5. AsSent(field, aisState') /\ Past(count + 1, aisState')
    BY <1>3, <2>2, <2>3
  <2>6. HasState(m) => feed # "XML"
    BY DEF HasState
  <2>7. field \in MappedFields => field \in StateFields
    BY DEF MappedFields
  <2>8. Missing(incoming') /\ HasState(msg') /\ field \in MappedFields =>
            Missing(aisState') \/ aisState'.kind = "control"
    BY <1>1, <2>3, <2>4, <2>6, <2>7
  <2>9. HasState(msg)' <=> HasState(msg')
    BY DEF HasState
  <2>10. ProvenanceIsTrue'
    BY <2>3 DEF ProvenanceIsTrue
  <2> QED
    BY <1>1, <1>2, <1>4, <2>4, <2>5, <2>8, <2>9, <2>10 DEF ProvenanceInv
<1> QED
  BY <1>5, <1>6 DEF Receive, Finish

\* The enrichment says where the value came from.
LEMMA EnrichProvenance ==
  ASSUME ProvenanceInv, Enrich
  PROVE  ProvenanceInv'
<1> DEFINE ctx == Context(db, LookupId)
           known == IF HasMmsi(ctx) THEN history ELSE Nothing
           state == IF configured /\ HasState(msg) THEN aisState ELSE Nothing
           result == Enriched(field, incoming, state, ctx, known, msg.scored, count)
<1>1. /\ UNCHANGED <<field, count, msg, incoming, aisState>>
      /\ stage = "enrich" /\ stage' = "emit" /\ value' = result
      /\ label' = Label(field, incoming, result, ctx, known)
      /\ history' = IF HasMmsi(ctx) THEN Kept(field, result, history) ELSE history
  BY DEF Enrich, setup
<1>2. /\ field \in Observable /\ count \in Nat
      /\ AsSent(field, aisState) /\ Past(count, aisState)
      /\ ~Missing(history) => field \in HistoryFields
      /\ Past(count, history)
      /\ history.from = "message" => history.at < count
      /\ Usable(field, incoming) /\ Past(count, incoming)
      /\ Missing(incoming) /\ HasState(msg) /\ field \in MappedFields =>
            Missing(aisState) \/ aisState.kind = "control"
  BY <1>1 DEF ProvenanceInv
<1>3. Missing(Nothing) /\ Past(count, Nothing) /\ Nothing.from = "-"
  BY <1>2 DEF Missing, Past, Nothing, Value
<1>4. /\ Past(count, known)
      /\ ~Missing(known) => field \in HistoryFields
      /\ known.from = "message" => known.at < count
  BY <1>2, <1>3
<1>5. /\ Past(count, state)
      /\ Missing(incoming) /\ field \in MappedFields => Missing(state) \/ state.kind = "control"
  BY <1>2, <1>3
<1> HIDE DEF ctx, known, state
<1>6. Past(count, result)
  BY <1>2, <1>4, <1>5, EnrichedPast
<1>7. CASE Missing(incoming)
  <2>1. field # "cat.identity"
    BY <1>2, <1>7 DEF Usable
  <2>2. \/ Missing(result)
        \/ \E s \in Sources : Offer(s, field, ctx[s]) = result
        \/ result = known
        \/ field = "voyage.destination" \/ result.kind = "control"
    BY <1>2, <1>5, <1>7, <2>1, EnrichedAbsent
  <2> HIDE DEF result
  <2>3. ProvenanceIsTrue'
    <3>1. CASE Missing(result)
      <4>1. label' = "NONE"
        BY <1>1, <3>1 DEF Label
      <4>2. Missing(value')
        BY <1>1, <3>1
      <4> QED
        BY <4>1, <4>2 DEF ProvenanceIsTrue, Sources
    <3>2. CASE ~Missing(result) /\ \E s \in Sources : Offer(s, field, ctx[s]) = result
      <4>1. result.from \in Sources
        BY <3>2, OfferIsOwn
      <4>2. label' = result.from
        BY <1>1, <1>7, <3>2 DEF Label
      <4>3. PICK s \in Sources : label' = s /\ value'.from = s
        BY <1>1, <4>1, <4>2
      <4> QED
        BY <4>3, Zenon DEF ProvenanceIsTrue, Sources
    <3>3. CASE ~Missing(result) /\ ~(\E s \in Sources : Offer(s, field, ctx[s]) = result) /\ result = known
      <4>1. label' = "MMSI_HISTORY"
        BY <1>1, <1>7, <3>3 DEF Label
      <4>2. field' \in HistoryFields /\ (value'.from = "message" => value'.at < count')
        BY <1>1, <1>4, <3>3
      <4> QED
        BY <4>1, <4>2 DEF ProvenanceIsTrue, Sources
    <3>4. CASE ~Missing(result) /\ ~(\E s \in Sources : Offer(s, field, ctx[s]) = result) /\ result # known
      <4>1. label' = "DERIVED"
        BY <1>1, <1>7, <3>4 DEF Label
      <4>2. field' = "voyage.destination" \/ value'.kind = "control"
        BY <1>1, <2>2, <3>4
      <4> QED
        BY <4>1, <4>2 DEF ProvenanceIsTrue, Sources
    <3> QED
      BY <3>1, <3>2, <3>3, <3>4
  <2> QED
    BY <1>1, <1>2, <1>6, <2>3 DEF ProvenanceInv, Kept
<1>8. CASE ~Missing(incoming)
  <2>1. \/ result.from \in {"message", "default"}
        \/ field \in OverwrittenFields
        \/ incoming.kind \in {"placeholder", "zero"} /\ field \in {"vessel.name", "id.imo"}
    BY <1>2, <1>8, EnrichedPresent
  <2> HIDE DEF result
  <2>2. ProvenanceIsTrue'
    <3>1. CASE Missing(result)
      <4>1. label' = "NONE"
        BY <1>1, <3>1 DEF Label
      <4>2. Missing(value')
        BY <1>1, <3>1
      <4> QED
        BY <4>1, <4>2 DEF ProvenanceIsTrue, Sources
    <3>2. CASE ~Missing(result)
      <4>1. label' = "INCOMING"
        BY <1>1, <1>8, <3>2 DEF Label
      <4>2. \/ value'.from \in {"message", "default"}
            \/ field' \in OverwrittenFields
            \/ incoming'.kind \in {"placeholder", "zero"} /\ field' \in {"vessel.name", "id.imo"}
        BY <1>1, <2>1
      <4> QED
        BY <4>1, <4>2 DEF ProvenanceIsTrue, Sources
    <3> QED
      BY <3>1, <3>2
  <2> QED
    BY <1>1, <1>2, <1>6, <2>2 DEF ProvenanceInv, Kept
<1> QED
  BY <1>7, <1>8

\* Every step preserves the invariant.
LEMMA ProvenanceStep == ProvenanceInv /\ [Next]_vars => ProvenanceInv'
<1> SUFFICES ASSUME ProvenanceInv, [Next]_vars PROVE ProvenanceInv'
  OBVIOUS
<1>1. CASE ReceiveAny
  BY <1>1, ReceiveProvenance DEF ReceiveAny
<1>2. CASE Enrich
  BY <1>2, EnrichProvenance
<1>3. CASE Emit \/ Reject
  BY <1>3 DEF Emit, Reject, Finish, setup, ProvenanceInv, ProvenanceIsTrue
<1>4. CASE UNCHANGED vars
  BY <1>4 DEF vars, ProvenanceInv, ProvenanceIsTrue, HasState
<1> QED
  BY <1>1, <1>2, <1>3, <1>4 DEF Next

\* The provenance of a value is where it came from, whatever the stores hold
\* and however many messages went before.  (enricher.py:460-521)
THEOREM LabelsAreTrue == Spec => []ProvenanceIsTrue
<1>1. ProvenanceInv => ProvenanceIsTrue
  BY DEF ProvenanceInv
<1> QED
  BY <1>1, ProvenanceInit, ProvenanceStep, PTL DEF Spec
=============================================================================
