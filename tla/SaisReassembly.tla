--------------------------- MODULE SaisReassembly ---------------------------
(***************************************************************************)
(* How the one SAISParser of the process puts the sentences of a two-part  *)
(* AIS message together again (parser/app/parsers/sais.py).  All handler   *)
(* threads use its two dictionaries, _fragment_cache and _fragment_meta,   *)
(* without a lock, and a switch of threads may come between any two of     *)
(* their operations.                                                       *)
(*                                                                         *)
(* The messages of an instance that have two parts share one key (source,  *)
(* sequence id, count): sequence ids are single digits that a feed uses    *)
(* again and again.  Entries under other keys do not meet.  A message is   *)
(* known by its id, its first part carries the MMSI and the name, its      *)
(* second part the destination.                                            *)
(***************************************************************************)
EXTENDS Naturals, FiniteSets

CONSTANTS
    Threads,        \* handler threads of the endpoint
    Messages,       \* AIS messages
    TwoPart,        \* those of two sentences
    Objects,        \* identities of the dictionaries under the key
    NoObject, NoMessage

ASSUME TwoPartAssumption == TwoPart \subseteq Messages
ASSUME NoMessageAssumption == NoMessage \notin Messages
ASSUME ThreadsAssumption == IsFiniteSet(Threads)
ASSUME ObjectsAssumption ==
    NoObject \notin Objects /\ IsFiniteSet(Objects) /\ Cardinality(Objects) > Cardinality(Threads)

VARIABLES
    cache,  \* _fragment_cache[key]
    parts,  \* dictionary -> sequence number -> the message of the part in it
    meta,   \* _fragment_meta[key], by the message whose first part it came from
    mine    \* thread -> the dictionary its local variable `cache` refers to

reassemblyVars == <<cache, parts, meta, mine>>

Message == Messages \cup {NoMessage}

ReassemblyInit ==
    /\ cache = NoObject
    /\ parts = [o \in Objects |-> [s \in 1..2 |-> NoMessage]]
    /\ meta = NoMessage
    /\ mine = [t \in Threads |-> NoObject]

Referenced(o) == o = cache \/ \E t \in Threads : mine[t] = o

\* setdefault(key, {}): the dictionary that is there, or a new one.
SetDefault(t) ==
    IF cache # NoObject
    THEN mine' = [mine EXCEPT ![t] = cache] /\ UNCHANGED <<cache, parts>>
    ELSE LET o == CHOOSE x \in Objects : ~Referenced(x)
         IN /\ cache' = o
            /\ mine' = [mine EXCEPT ![t] = o]
            /\ parts' = [parts EXCEPT ![o] = [s \in 1..2 |-> NoMessage]]

PutPart(t, s, m) == parts' = [parts EXCEPT ![mine[t]][s] = m]

\* Faulty variant: the count is one short, `len(cache) < total - 1`.
MissingFirst(t) == parts[mine[t]][1] = NoMessage

\* len(cache) < total
Missing(t) == \E s \in 1..2 : parts[mine[t]][s] = NoMessage

Joined(t) == parts[mine[t]]

\* Faulty variant: the joined parts stay in the cache.
KeepCache == UNCHANGED cache

\* _fragment_cache.pop(key, None), whatever is there by now.
PopCache == cache' = NoObject

\* _fragment_meta.pop(key, None)
PopMeta == meta' = NoMessage

\* The dictionaries die with the process.
LoseReassembly ==
    /\ cache' = NoObject
    /\ meta' = NoMessage
    /\ mine' = [t \in Threads |-> NoObject]
    /\ UNCHANGED parts
=============================================================================
