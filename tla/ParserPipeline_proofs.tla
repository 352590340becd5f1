----------------------- MODULE ParserPipeline_proofs -----------------------
(***************************************************************************)
(* Proofs about ParserPipeline, for all sets of handler threads, messages  *)
(* and vessels, every feed and any number of deaths of the process.        *)
(***************************************************************************)
EXTENDS ParserPipeline, FiniteSetTheorems, TLAPS

Pcs == {"idle", "bind", "put", "meta", "inspect", "popCache", "popMeta", "check",
        "readState", "writeState", "enrich", "readHistory", "writeHistory",
        "open", "write", "replace", "ack", "nack"}

\* Where a thread has a dictionary, has no record yet, works on the vessel.
WithParts   == {"put", "meta", "inspect"}
WithoutRec  == {"idle", "bind", "put", "meta", "inspect"}
WithVessel  == {"readState", "writeState", "enrich", "readHistory", "writeHistory"}

TypeInv ==
    /\ cache \in Objects \cup {NoObject}
    /\ parts \in [Objects -> [1..2 -> Message]]
    /\ meta \in Message
    /\ mine \in [Threads -> Objects \cup {NoObject}]
    /\ pc \in [Threads -> Pcs]
    /\ line \in [Threads -> Lines \cup {NoLine}]
    /\ rec \in [Threads -> Records]
    /\ seen \in [Threads -> Values]
    /\ alarm \in [Threads -> BOOLEAN]
    /\ fd \in [Threads -> {"part", "spool", "none"}]
    /\ ais \in [Vessels -> Values]
    /\ reference \in [Vessels -> Values]
    /\ partFiles \subseteq Files
    /\ spool \subseteq Files
    /\ sent \in [Lines -> Nat]
    /\ acked \subseteq Lines
    /\ deaths \in Nat

\* What a thread holds at each point of its way.
ThreadInv(t) ==
    /\ pc[t] # "idle" => line[t] \in Lines
    /\ pc[t] = "idle" => line[t] = NoLine
    /\ mine[t] # NoObject <=> pc[t] \in WithParts
    /\ InReassembly(t) => line[t].msg \in TwoPart
    /\ pc[t] = "meta" => line[t].part = 1
    /\ pc[t] \in WithoutRec => rec[t] = NoRecord
    /\ pc[t] \in WithVessel => rec[t].vessel \in Vessels
    /\ pc[t] # "idle" /\ line[t].msg \notin TwoPart => rec[t].vessel = VesselOf[line[t].msg]
    /\ fd[t] # "none" => pc[t] = "write"

PipelineInv == TypeInv /\ \A t \in Threads : ThreadInv(t)

-----------------------------------------------------------------------------
(* What the operators return                                               *)

\* A line belongs to a message; only those of two sentences have a part 2.
LEMMA LineFields ==
    ASSUME NEW l \in Lines
    PROVE  /\ l.msg \in Messages
           /\ l.part \in 1..2
           /\ l.part = 2 => l.msg \in TwoPart
           /\ VesselOf[l.msg] \in Vessels
BY TwoPartAssumption, VesselOfAssumption DEF Lines

\* An idle thread has no line.
LEMMA NoLineIsNone == NoLine \notin Lines
BY LineFields, NoMessageAssumption DEF NoLine

\* The merges yield values.
LEMMA MergesAreValues ==
    ASSUME NEW a \in Values, NEW b \in Values
    PROVE  /\ Over(a, b) \in Values
           /\ FromHistory(a, b) \in Values
           /\ NewHistory(a, b) \in Values
<1>1. \A c \in Values, d \in Values : Over(c, d) \in Values
    BY DEF Values, Over
<1>2. \A c \in Values, d \in Values : FromHistory(c, d) \in Values
    BY <1>1 DEF Values, FromHistory
<1>3. [b EXCEPT !["position"] = NoMessage] \in Values
    BY DEF Values, Message
<1> QED
    BY <1>1, <1>2, <1>3 DEF NewHistory

\* Records made from messages.
LEMMA NewValues ==
    /\ NoValues \in Values
    /\ NoRecord \in Records
    /\ \A m \in Messages : [NoValues EXCEPT !["position"] = m] \in Values
    /\ \A m, n \in Messages :
          [NoValues EXCEPT !["name"] = m, !["destination"] = n] \in Values
BY DEF NoValues, NoRecord, Records, Values, Message

\* There is a dictionary for a thread that needs a new one.
LEMMA FreeObject ==
    ASSUME TypeInv, cache = NoObject, NEW t \in Threads, mine[t] = NoObject
    PROVE  \E x \in Objects : ~Referenced(x)
<1> SUFFICES ASSUME \A x \in Objects : Referenced(x) PROVE FALSE
    OBVIOUS
<1>1. \A x \in Objects : \E u \in Threads : mine[u] = x
    BY ObjectsAssumption DEF Referenced
<1> DEFINE holder == [x \in Objects |-> CHOOSE u \in Threads : mine[u] = x]
<1>2. \A x \in Objects : holder[x] \in Threads /\ mine[holder[x]] = x
    BY <1>1
<1>3. holder \in Injection(Objects, Threads)
    BY <1>2 DEF Injection, IsInjective
<1> HIDE DEF holder
<1>4. Cardinality(Objects) <= Cardinality(Threads)
    BY <1>3, ThreadsAssumption, FS_Injection
<1>5. Cardinality(Objects) \in Nat /\ Cardinality(Threads) \in Nat
    BY ObjectsAssumption, ThreadsAssumption, FS_CardinalityType
<1> QED
    BY <1>4, <1>5, ObjectsAssumption

-----------------------------------------------------------------------------
(* Types                                                                   *)

LEMMA TypeInit == Init => PipelineInv
<1> SUFFICES ASSUME Init PROVE PipelineInv
    OBVIOUS
<1>1. TypeInv
    BY NewValues, NoMessageAssumption
       DEF Init, ReassemblyInit, TypeInv, Pcs, Message
<1>2. \A t \in Threads : ThreadInv(t)
    BY DEF Init, ReassemblyInit, ThreadInv, InReassembly, WithParts, WithoutRec, WithVessel
<1> QED
    BY <1>1, <1>2 DEF PipelineInv

LEMMA TypeStep == PipelineInv /\ [Next]_vars => PipelineInv'
<1> SUFFICES ASSUME PipelineInv, [Next]_vars PROVE PipelineInv'
    OBVIOUS
<1>t. TypeInv /\ \A t \in Threads : ThreadInv(t)
    BY DEF PipelineInv
<1> DEFINE Others(t) ==
        \A u \in Threads \ {t} :
            /\ pc'[u] = pc[u] /\ line'[u] = line[u] /\ rec'[u] = rec[u]
            /\ mine'[u] = mine[u] /\ fd'[u] = fd[u]
<1>o. ASSUME NEW t \in Threads, Others(t), ThreadInv(t)'
      PROVE  \A u \in Threads : ThreadInv(u)'
    BY <1>t, <1>o DEF ThreadInv, InReassembly
<1> USE DEF At, PipelineInv
<1>1. ASSUME NEW t \in Threads, NEW l \in Lines, Receive(t, l)
      PROVE  PipelineInv'
    <2>0. l.msg \in Messages /\ VesselOf[l.msg] \in Vessels
        BY LineFields
    <2>a. pc' \in [Threads -> Pcs]
        BY <1>t, <1>1 DEF Receive, TypeInv, Pcs
    <2>b. rec' \in [Threads -> Records]
        <3>1. [vessel |-> VesselOf[l.msg],
               values |-> [NoValues EXCEPT !["position"] = l.msg]] \in Records
            BY <2>0, NewValues, SMTT(30) DEF Records
        <3> QED
            BY <1>t, <1>1, <3>1, SMTT(30) DEF Receive, TypeInv
    <2>c. sent' \in [Lines -> Nat] /\ line' \in [Threads -> Lines \cup {NoLine}]
        BY <1>t, <1>1 DEF Receive, TypeInv
    <2>1. TypeInv'
        BY <1>t, <1>1, <2>a, <2>b, <2>c
           DEF Receive, TypeInv, reassemblyVars, storeVars, fileVars
    <2>2. Others(t)
        BY <1>t, <1>1 DEF Receive, TypeInv, reassemblyVars
    <2>3. ThreadInv(t)'
        BY <1>t, <1>1 DEF Receive, TypeInv, ThreadInv, InReassembly, WithParts, WithoutRec,
                          WithVessel, reassemblyVars
    <2> QED
        BY <1>o, <2>1, <2>2, <2>3
<1>2. ASSUME NEW t \in Threads, Bind(t)
      PROVE  PipelineInv'
    <2>1. /\ cache' \in Objects /\ parts' \in [Objects -> [1..2 -> Message]]
          /\ mine' = [mine EXCEPT ![t] = cache']
        <3>1. CASE cache # NoObject
            BY <1>t, <1>2, <3>1 DEF Bind, SetDefault, TypeInv
        <3>2. CASE cache = NoObject
            <4> DEFINE o == CHOOSE x \in Objects : ~Referenced(x)
            <4>1. mine[t] = NoObject
                BY <1>t, <1>2 DEF Bind, ThreadInv, WithParts
            <4>2. o \in Objects
                BY <1>t, <3>2, <4>1, FreeObject
            <4>3. /\ cache' = o /\ mine' = [mine EXCEPT ![t] = o]
                  /\ parts' = [parts EXCEPT ![o] = [s \in 1..2 |-> NoMessage]]
                BY <1>2, <3>2 DEF Bind, SetDefault
            <4> HIDE DEF o
            <4> QED
                BY <1>t, <4>2, <4>3 DEF TypeInv, Message
        <3> QED
            BY <3>1, <3>2
    <2>2. TypeInv'
        BY <1>t, <1>2, <2>1 DEF Bind, TypeInv, Pcs, storeVars, fileVars, ghostVars
    <2>3. Others(t)
        BY <1>t, <1>2, <2>1 DEF Bind, TypeInv
    <2>4. ThreadInv(t)'
        BY <1>t, <1>2, <2>1, ObjectsAssumption
           DEF Bind, TypeInv, ThreadInv, InReassembly, WithParts, WithoutRec, WithVessel
    <2> QED
        BY <1>o, <2>2, <2>3, <2>4
<1>3. ASSUME NEW t \in Threads, Put(t) \/ NoteMeta(t)
      PROVE  PipelineInv'
    <2>1. /\ line[t] \in Lines /\ line[t].msg \in Messages /\ line[t].part \in 1..2
          /\ mine[t] \in Objects
        BY <1>t, <1>3, LineFields DEF Put, NoteMeta, TypeInv, ThreadInv, WithParts
    <2>a. pc' \in [Threads -> Pcs]
        BY <1>t, <1>3 DEF Put, NoteMeta, TypeInv, Pcs
    <2>b. parts' \in [Objects -> [1..2 -> Message]] /\ meta' \in Message
        BY <1>t, <1>3, <2>1 DEF Put, PutPart, NoteMeta, TypeInv, Message
    <2>2. TypeInv'
        BY <1>t, <1>3, <2>a, <2>b
           DEF Put, NoteMeta, TypeInv, storeVars, fileVars, ghostVars
    <2>3. Others(t)
        BY <1>t, <1>3 DEF Put, NoteMeta, TypeInv
    <2>4. ThreadInv(t)'
        BY <1>t, <1>3 DEF Put, NoteMeta, TypeInv, ThreadInv, InReassembly, WithParts,
                          WithoutRec, WithVessel
    <2> QED
        BY <1>o, <2>2, <2>3, <2>4
<1>4. ASSUME NEW t \in Threads, EmitFragment(t)
      PROVE  PipelineInv'
    <2>1. TypeInv'
        BY <1>t, <1>4, VesselOfAssumption
           DEF EmitFragment, TypeInv, Pcs, Records, Message, storeVars, fileVars, ghostVars
    <2>2. Others(t)
        BY <1>t, <1>4 DEF EmitFragment, TypeInv
    <2>3. ThreadInv(t)'
        BY <1>t, <1>4 DEF EmitFragment, TypeInv, ThreadInv, InReassembly, WithParts,
                          WithoutRec, WithVessel
    <2> QED
        BY <1>o, <2>1, <2>2, <2>3
<1>5. ASSUME NEW t \in Threads, EmitComplete(t)
      PROVE  PipelineInv'
    <2>1. /\ mine[t] \in Objects
          /\ Joined(t)[1] \in Messages /\ Joined(t)[2] \in Messages
        BY <1>t, <1>5 DEF EmitComplete, TypeInv, ThreadInv, WithParts, Missing, Joined, Message
    <2>2. TypeInv'
        BY <1>t, <1>5, <2>1, VesselOfAssumption, NewValues
           DEF EmitComplete, TypeInv, Pcs, Records, storeVars, fileVars, ghostVars
    <2>3. Others(t)
        BY <1>t, <1>5 DEF EmitComplete, TypeInv
    <2>4. ThreadInv(t)'
        BY <1>t, <1>5 DEF EmitComplete, TypeInv, ThreadInv, InReassembly, WithParts,
                          WithoutRec, WithVessel
    <2> QED
        BY <1>o, <2>2, <2>3, <2>4
<1>6. ASSUME NEW t \in Threads, DropCache(t) \/ DropMeta(t)
      PROVE  PipelineInv'
    <2>1. TypeInv'
        BY <1>t, <1>6 DEF DropCache, DropMeta, PopCache, PopMeta, TypeInv, Pcs, Message,
                          storeVars, fileVars, ghostVars
    <2>2. Others(t)
        BY <1>t, <1>6 DEF DropCache, DropMeta, TypeInv
    <2>3. ThreadInv(t)'
        BY <1>t, <1>6 DEF DropCache, DropMeta, TypeInv, ThreadInv, InReassembly, WithParts,
                          WithoutRec, WithVessel
    <2> QED
        BY <1>o, <2>1, <2>2, <2>3
<1>7. ASSUME NEW t \in Threads, CheckPosition(t)
      PROVE  PipelineInv'
    <2>a. pc' \in [Threads -> Pcs]
        BY <1>t, <1>7 DEF CheckPosition, TypeInv, Pcs
    <2>b. alarm' \in [Threads -> BOOLEAN]
        <3> DEFINE jump == IsJump(t, ais[Vessel(t)])
        <3>1. jump \in BOOLEAN
            BY DEF IsJump
        <3>2. alarm' = alarm \/ alarm' = [alarm EXCEPT ![t] = jump]
            BY <1>7 DEF CheckPosition
        <3> HIDE DEF jump
        <3> QED
            BY <1>t, <3>1, <3>2 DEF TypeInv
    <2>1. TypeInv'
        BY <1>t, <1>7, <2>a, <2>b
           DEF CheckPosition, TypeInv, reassemblyVars, storeVars, fileVars, ghostVars
    <2>2. Others(t)
        BY <1>t, <1>7 DEF CheckPosition, TypeInv, reassemblyVars
    <2>3. rec[t].vessel \in Vessels \cup {NoVessel}
        BY <1>t DEF TypeInv, Records
    <2>4. ThreadInv(t)'
        BY <1>t, <1>7, <2>3
           DEF CheckPosition, Vessel, TypeInv, ThreadInv, InReassembly, WithParts,
               WithoutRec, WithVessel, reassemblyVars
    <2> QED
        BY <1>o, <2>1, <2>2, <2>4
<1>8. ASSUME NEW t \in Threads,
             ReadState(t) \/ LookupRaises(t) \/ ReadHistory(t) \/ WriteHistory(t)
      PROVE  PipelineInv'
    <2>1. rec[t] \in Records /\ rec[t].vessel \in Vessels
        BY <1>t, <1>8 DEF ReadState, LookupRaises, ReadHistory, WriteHistory, TypeInv,
                          ThreadInv, WithVessel
    <2>2. NewHistory(seen[t], rec[t].values) \in Values
        BY <1>t, <2>1, MergesAreValues DEF TypeInv, Records
    <2>3. TypeInv'
        BY <1>t, <1>8, <2>1, <2>2
           DEF ReadState, LookupRaises, ReadHistory, WriteHistory, Vessel, TypeInv, Pcs,
               reassemblyVars, storeVars, fileVars, ghostVars
    <2>4. Others(t)
        BY <1>t, <1>8 DEF ReadState, LookupRaises, ReadHistory, WriteHistory, TypeInv,
                          reassemblyVars
    <2>5. ThreadInv(t)'
        BY <1>t, <1>8 DEF ReadState, LookupRaises, ReadHistory, WriteHistory, TypeInv,
                          ThreadInv, InReassembly, WithParts, WithoutRec, WithVessel,
                          reassemblyVars
    <2> QED
        BY <1>o, <2>3, <2>4, <2>5
<1>9. ASSUME NEW t \in Threads, WriteState(t) \/ Enrich(t)
      PROVE  PipelineInv'
    <2>1. rec[t] \in Records /\ rec[t].vessel \in Vessels /\ rec[t].values \in Values
        BY <1>t, <1>9 DEF WriteState, Enrich, TypeInv, ThreadInv, WithVessel, Records
    <2>2. /\ Over(rec[t].values, seen[t]) \in Values
          /\ FromHistory(rec[t].values, reference[rec[t].vessel]) \in Values
        BY <1>t, <2>1, MergesAreValues DEF TypeInv
    <2>3. PICK vals \in Values : rec' = [rec EXCEPT ![t].values = vals]
        BY <1>9, <2>2 DEF WriteState, Enrich, Vessel
    <2>4. rec' \in [Threads -> Records] /\ rec'[t].vessel = rec[t].vessel
        BY <1>t, <2>1, <2>3 DEF TypeInv, Records
    <2>5. TypeInv'
        BY <1>t, <1>9, <2>1, <2>2, <2>4
           DEF WriteState, Enrich, Vessel, TypeInv, Pcs, reassemblyVars, storeVars, fileVars,
               ghostVars
    <2>6. Others(t)
        BY <1>t, <1>9 DEF WriteState, Enrich, TypeInv, reassemblyVars
    <2>7. ThreadInv(t)'
        BY <1>t, <1>9, <2>4 DEF WriteState, Enrich, TypeInv, ThreadInv, InReassembly,
                                WithParts, WithoutRec, WithVessel, reassemblyVars
    <2> QED
        BY <1>o, <2>5, <2>6, <2>7
<1>10. ASSUME NEW t \in Threads, SpoolXml(t)
       PROVE  PipelineInv'
    <2>1. /\ pc[t] # "idle" /\ Document(t) \in Documents
          /\ File(Document(t), TRUE) \in Files /\ File(Document(t), FALSE) \in Files
        BY <1>t, <1>10 DEF SpoolXml, OpenPart, Write, Replace, ReplaceFails, TypeInv,
                           ThreadInv, Document, Documents, File, Files
    <2>2. partFiles' \subseteq Files /\ spool' \subseteq Files
        BY <1>t, <1>10, <2>1 DEF SpoolXml, OpenPart, Write, Replace, ReplaceFails, TypeInv,
                                 Without, Completed, fileVars
    <2>3. fd' \in [Threads -> {"part", "spool", "none"}]
        BY <1>t, <1>10 DEF SpoolXml, OpenPart, Write, Replace, ReplaceFails, TypeInv, MovedFd
    <2>4. /\ pc' \in [Threads -> Pcs]
          /\ UNCHANGED <<cache, parts, meta, mine, line, rec, seen, alarm, ais, reference,
                         sent, acked, deaths>>
        BY <1>t, <1>10 DEF SpoolXml, OpenPart, Write, Replace, ReplaceFails, TypeInv, Pcs,
                           reassemblyVars, storeVars, ghostVars
    <2>5. TypeInv'
        BY <1>t, <2>2, <2>3, <2>4 DEF TypeInv
    <2>6. \A u \in Threads : fd'[u] # "none" => pc'[u] = "write"
        BY <1>t, <1>10 DEF SpoolXml, OpenPart, Write, Replace, ReplaceFails, TypeInv,
                           ThreadInv, MovedFd
    <2>7. pc[t] \in {"open", "write", "replace"} /\ pc'[t] \in {"write", "replace", "ack", "nack"}
          /\ \A u \in Threads \ {t} : pc'[u] = pc[u]
        BY <1>t, <1>10 DEF SpoolXml, OpenPart, Write, Replace, ReplaceFails, TypeInv
    <2>8. \A u \in Threads : ThreadInv(u)'
        BY <1>t, <2>4, <2>6, <2>7 DEF ThreadInv, InReassembly, WithParts, WithoutRec,
                                      WithVessel
    <2> QED
        BY <2>5, <2>8
<1>11. ASSUME NEW t \in Threads, Answer(t)
       PROVE  PipelineInv'
    <2>0. line[t] \in Lines
        BY <1>t, <1>11 DEF Answer, ThreadInv
    <2>1. TypeInv'
        BY <1>t, <1>11, <2>0, NewValues
           DEF Answer, TypeInv, Pcs, reassemblyVars, storeVars, fileVars
    <2>2. Others(t)
        BY <1>t, <1>11 DEF Answer, TypeInv, reassemblyVars
    <2>3. ThreadInv(t)'
        BY <1>t, <1>11 DEF Answer, TypeInv, ThreadInv, InReassembly, WithParts, WithoutRec,
                           WithVessel, reassemblyVars
    <2> QED
        BY <1>o, <2>1, <2>2, <2>3
<1>12. ASSUME Die
       PROVE  PipelineInv'
    <2>1. TypeInv'
        BY <1>t, <1>12, NewValues DEF Die, LoseReassembly, TypeInv, Pcs, Message, storeVars,
                                      fileVars
    <2>2. \A t \in Threads : ThreadInv(t)'
        BY <1>12 DEF Die, LoseReassembly, ThreadInv, InReassembly, WithParts, WithoutRec,
                     WithVessel
    <2> QED
        BY <2>1, <2>2
<1>13. ASSUME UNCHANGED vars
       PROVE  PipelineInv'
    BY <1>t, <1>13 DEF vars, reassemblyVars, threadVars, storeVars, fileVars, ghostVars,
                       TypeInv, ThreadInv, InReassembly
<1> QED
    BY <1>1, <1>2, <1>3, <1>4, <1>5, <1>6, <1>7, <1>8, <1>9, <1>10, <1>11, <1>12, <1>13
       DEF Next, ParseLine, NormalizeRecord, EnrichOne

LEMMA PipelineInvariance == Spec => []PipelineInv
BY TypeInit, TypeStep, PTL DEF Spec

-----------------------------------------------------------------------------
(* The files of the spool.                                                 *)

Spooling(t) == pc[t] \in {"write", "replace"}

\* The document of a thread that spools it is in one of its two places; while
\* its .part file is not whole somebody has it open; an acknowledged line's
\* document stays in the spool.
FileInv ==
    /\ \A t \in Threads : Spooling(t) => Document(t) \in Names(partFiles) \cup Names(spool)
    /\ \A t \in Threads : Spooling(t) =>
          \A f \in partFiles : f.doc = Document(t) /\ ~f.full =>
              \E u \in Threads : fd[u] = "part" /\ Document(u) = Document(t)
    /\ \A t \in Threads : pc[t] = "ack" => Document(t) \in Names(spool)
    /\ AckedIsSpooled

\* A step that leaves the files, and the threads that spool, alone.
Quiet ==
    /\ UNCHANGED <<partFiles, spool, fd, deaths>>
    /\ \A u \in Threads :
          \/ pc'[u] \notin {"write", "replace", "ack"} /\ ~Spooling(u) /\ fd[u] = "none"
          \/ pc'[u] = pc[u] /\ Document(u)' = Document(u)
    /\ \A l \in acked' : l \in acked \/ \E u \in Threads : pc[u] = "ack" /\ line[u] = l

LEMMA StepKinds == PipelineInv /\ [Next]_vars => Quiet \/ Die \/ \E t \in Threads : SpoolXml(t)
<1> SUFFICES ASSUME PipelineInv, [Next]_vars, ~Die, \A t \in Threads : ~SpoolXml(t)
             PROVE  Quiet
    OBVIOUS
<1>t. /\ TypeInv /\ \A u \in Threads : ThreadInv(u)
      /\ pc \in [Threads -> Pcs] /\ line \in [Threads -> Lines \cup {NoLine}]
      /\ rec \in [Threads -> Records] /\ alarm \in [Threads -> BOOLEAN]
      /\ fd \in [Threads -> {"part", "spool", "none"}]
    BY DEF PipelineInv, TypeInv
<1>f. \A u \in Threads : fd[u] # "none" => pc[u] = "write"
    BY <1>t DEF ThreadInv
<1> DEFINE Others(t) ==
        \A u \in Threads \ {t} :
            /\ pc'[u] = pc[u] /\ line'[u] = line[u] /\ rec'[u] = rec[u] /\ alarm'[u] = alarm[u]
<1>o. ASSUME NEW t \in Threads, Others(t), UNCHANGED <<partFiles, spool, fd, deaths>>,
             pc[t] \notin {"write", "replace"}, pc'[t] \notin {"write", "replace", "ack"},
             acked' = acked \/ (acked' = acked \cup {line[t]} /\ pc[t] = "ack")
      PROVE  Quiet
    BY <1>f, <1>o DEF Quiet, Spooling, Document
<1> USE DEF At
<1>1. ASSUME NEW t \in Threads, NEW l \in Lines, Receive(t, l)
      PROVE  Quiet
    <2>1. Others(t) /\ pc'[t] \in {"bind", "check"} /\ pc[t] = "idle"
        BY <1>t, <1>1 DEF Receive
    <2> QED
        BY <1>o, <1>1, <2>1 DEF Receive, fileVars
<1>2. ASSUME NEW t \in Threads, ParseLine(t)
      PROVE  Quiet
    <2>1. Others(t) /\ pc[t] \in WithParts \cup {"bind", "popCache", "popMeta"}
          /\ pc'[t] \in WithParts \cup {"popCache", "popMeta", "check"}
        BY <1>t, <1>2 DEF ParseLine, Bind, Put, NoteMeta, EmitFragment, EmitComplete, DropCache,
                          DropMeta, WithParts
    <2>2. UNCHANGED <<partFiles, spool, fd, deaths, acked>>
        BY <1>2 DEF ParseLine, Bind, Put, NoteMeta, EmitFragment, EmitComplete, DropCache,
                    DropMeta, fileVars, ghostVars
    <2> QED
        BY <1>o, <2>1, <2>2 DEF WithParts
<1>3. ASSUME NEW t \in Threads, NormalizeRecord(t) \/ EnrichOne(t)
      PROVE  Quiet
    <2>1. Others(t) /\ pc[t] \in WithVessel \cup {"check"}
          /\ pc'[t] \in WithVessel \cup {"open", "nack"}
        BY <1>t, <1>3 DEF NormalizeRecord, CheckPosition, ReadState, WriteState, EnrichOne,
                          LookupRaises, Enrich, ReadHistory, WriteHistory, WithVessel
    <2>2. UNCHANGED <<partFiles, spool, fd, deaths, acked>>
        BY <1>3 DEF NormalizeRecord, CheckPosition, ReadState, WriteState, EnrichOne,
                    LookupRaises, Enrich, ReadHistory, WriteHistory, fileVars, ghostVars
    <2> QED
        BY <1>o, <2>1, <2>2 DEF WithVessel
<1>4. ASSUME NEW t \in Threads, Answer(t)
      PROVE  Quiet
    <2>1. Others(t) /\ pc[t] \in {"ack", "nack"} /\ pc'[t] = "idle"
        BY <1>t, <1>4 DEF Answer
    <2>2. /\ UNCHANGED <<partFiles, spool, fd, deaths>>
          /\ acked' = acked \/ (acked' = acked \cup {line[t]} /\ pc[t] = "ack")
        BY <1>4 DEF Answer, fileVars
    <2> QED
        BY <1>o, <2>1, <2>2
<1>5. ASSUME UNCHANGED vars
      PROVE  Quiet
    BY <1>5 DEF Quiet, vars, threadVars, fileVars, ghostVars, Document
<1> QED
    BY <1>1, <1>2, <1>3, <1>4, <1>5 DEF Next

\* What the steps of _spool_xml leave alone.
LEMMA SpoolFrame ==
    ASSUME NEW t \in Threads, SpoolXml(t)
    PROVE  /\ UNCHANGED <<line, rec, alarm, acked, deaths, sent, due, ais, reference, pending,
                          disorder, seen, cache, parts, meta, mine>>
           /\ \A u : Document(u)' = Document(u)
BY DEF SpoolXml, OpenPart, Write, Replace, ReplaceFails, Document, reassemblyVars, storeVars,
       ghostVars

\* The documents of a directory after its files were changed.
LEMMA NamesAfter ==
    ASSUME NEW files, NEW d
    PROVE  /\ Names(Without(files, d)) = Names(files) \ {d}
           /\ \A x : x.doc = d => Names(Without(files, d) \cup {x}) = Names(files) \cup {d}
           /\ Names(Completed(files, d)) = Names(files)
<1>1. Names(Without(files, d)) = Names(files) \ {d}
    BY DEF Names, Without
<1>2. \A A, x : Names(A \cup {x}) = Names(A) \cup {x.doc}
    BY DEF Names
<1>3. \A x : x.doc = d => Names(Without(files, d) \cup {x}) = Names(files) \cup {d}
    BY <1>1, <1>2
<1>4. File(d, TRUE).doc = d
    BY DEF File
<1> QED
    BY <1>1, <1>3, <1>4 DEF Completed

\* Nothing is removed from the spool but to make place for the same document.
LEMMA SpoolGrows ==
    ASSUME PipelineInv, [Next]_vars
    PROVE  Names(spool) \subseteq Names(spool)'
<1>1. CASE Quiet \/ Die
    BY <1>1 DEF Quiet, Die, fileVars, Names
<1>2. ASSUME NEW t \in Threads, SpoolXml(t)
      PROVE  Names(spool) \subseteq Names(spool)'
    <2> DEFINE d == Document(t)
    <2>1. CASE OpenPart(t) \/ ReplaceFails(t)
        BY <2>1 DEF OpenPart, ReplaceFails, fileVars, Names
    <2>2. CASE Write(t)
        BY <2>2, NamesAfter DEF Write, Names
    <2>3. CASE Replace(t)
        <3>1. /\ d \in Names(partFiles)
              /\ spool' = Without(spool, d) \cup {f \in partFiles : f.doc = d}
            BY <2>3 DEF Replace
        <3> QED
            BY <3>1 DEF Names, Without
    <2> QED
        BY <1>2, <2>1, <2>2, <2>3 DEF SpoolXml
<1> QED
    BY <1>1, <1>2, StepKinds

LEMMA FileStep == PipelineInv /\ FileInv /\ [Next]_vars => FileInv'
<1> SUFFICES ASSUME PipelineInv, FileInv, [Next]_vars PROVE FileInv'
    OBVIOUS
<1>t. /\ pc \in [Threads -> Pcs] /\ fd \in [Threads -> {"part", "spool", "none"}]
      /\ \A u \in Threads : fd[u] # "none" => pc[u] = "write"
    BY DEF PipelineInv, TypeInv, ThreadInv
<1>g. Names(spool) \subseteq Names(spool)'
    BY SpoolGrows
<1>n. AckedIsSpooled <=> \A l \in acked : \E d \in Names(spool) : d.line = l
    BY DEF AckedIsSpooled, Names
<1>m. AckedIsSpooled' <=> \A l \in acked' : \E d \in Names(spool)' : d.line = l
    BY DEF AckedIsSpooled, Names
<1>1. CASE Quiet
    <2>1. \A u \in Threads : pc'[u] \in {"write", "replace", "ack"} =>
              pc'[u] = pc[u] /\ Document(u)' = Document(u)
        BY <1>1 DEF Quiet
    <2>2. \A u \in Threads : fd[u] = "part" => Document(u)' = Document(u)
        BY <1>1 DEF Quiet
    <2>3. AckedIsSpooled'
        <3> SUFFICES ASSUME NEW l \in acked' PROVE \E d \in Names(spool)' : d.line = l
            BY <1>m
        <3>1. CASE l \in acked
            BY <1>g, <1>n, <3>1 DEF FileInv
        <3>2. CASE \E u \in Threads : pc[u] = "ack" /\ line[u] = l
            BY <1>g, <3>2 DEF FileInv, Document
        <3> QED
            BY <1>1, <3>1, <3>2 DEF Quiet
    <2> QED
        BY <1>1, <2>1, <2>2, <2>3 DEF Quiet, FileInv, Spooling, Names
<1>2. CASE Die
    <2>1. pc' = [t \in Threads |-> "idle"] /\ UNCHANGED <<spool, acked>>
        BY <1>2 DEF Die, fileVars
    <2> QED
        BY <2>1 DEF FileInv, Spooling, AckedIsSpooled
<1>3. ASSUME NEW t \in Threads, SpoolXml(t)
      PROVE  FileInv'
    <2> DEFINE d == Document(t)
    <2>0. /\ \A u : Document(u)' = Document(u)
          /\ acked' = acked
          /\ \A u \in Threads \ {t} : pc'[u] = pc[u]
        BY <1>t, <1>3, SpoolFrame DEF SpoolXml, OpenPart, Write, Replace, ReplaceFails, At
    <2>a. AckedIsSpooled'
        BY <1>g, <1>m, <1>n, <2>0 DEF FileInv
    <2>1. CASE OpenPart(t)
        <3>1. /\ partFiles' = Without(partFiles, d) \cup {File(d, FALSE)} /\ spool' = spool
              /\ fd' = [fd EXCEPT ![t] = "part"] /\ pc'[t] = "write"
            BY <1>t, <2>1 DEF OpenPart, At
        <3>2. Names(partFiles)' = Names(partFiles) \cup {d}
            <4>1. File(d, FALSE).doc = d
                BY DEF File
            <4>2. PICK x : x.doc = d /\ partFiles' = Without(partFiles, d) \cup {x}
                BY <3>1, <4>1
            <4>3. Names(partFiles') = Names(partFiles) \cup {d}
                BY <4>2, NamesAfter
            <4> QED
                BY <4>3 DEF Names
        <3>3. \A u \in Threads : Spooling(u)' =>
                  Document(u)' \in Names(partFiles)' \cup Names(spool)'
            BY <2>0, <1>g, <3>2 DEF FileInv, Spooling
        <3>4. \A u \in Threads : Spooling(u)' =>
                  \A f \in partFiles' : f.doc = Document(u)' /\ ~f.full =>
                      \E w \in Threads : fd'[w] = "part" /\ Document(w)' = Document(u)'
            <4> SUFFICES ASSUME NEW u \in Threads, Spooling(u)', NEW f \in partFiles',
                                f.doc = Document(u), ~f.full
                         PROVE  \E w \in Threads : fd'[w] = "part" /\ Document(w) = Document(u)
                BY <2>0
            <4>1. CASE Document(u) = d
                BY <1>t, <3>1, <4>1
            <4>2. CASE Document(u) # d
                <5>1. f \in partFiles /\ Spooling(u)
                    BY <2>0, <3>1, <4>2 DEF Without, File, Spooling
                <5>2. PICK w \in Threads : fd[w] = "part" /\ Document(w) = Document(u)
                    BY <5>1 DEF FileInv
                <5> QED
                    BY <1>t, <3>1, <5>2
            <4> QED
                BY <4>1, <4>2
        <3>5. \A u \in Threads : pc'[u] = "ack" => Document(u)' \in Names(spool)'
            BY <1>g, <2>0, <3>1 DEF FileInv
        <3> QED
            BY <2>a, <3>3, <3>4, <3>5 DEF FileInv
    <2>2. CASE Write(t)
        <3>1. /\ partFiles' = IF fd[t] = "part" THEN Completed(partFiles, d) ELSE partFiles
              /\ fd' = [fd EXCEPT ![t] = "none"] /\ pc[t] = "write" /\ pc'[t] = "replace"
            BY <1>t, <2>2 DEF Write, At
        <3>2. Names(partFiles)' = Names(partFiles)
            BY <3>1, NamesAfter DEF Names
        <3>3. \A u \in Threads : Spooling(u)' =>
                  Document(u)' \in Names(partFiles)' \cup Names(spool)'
            BY <2>0, <1>g, <3>1, <3>2 DEF FileInv, Spooling
        <3>4. \A u \in Threads : Spooling(u)' =>
                  \A f \in partFiles' : f.doc = Document(u)' /\ ~f.full =>
                      \E w \in Threads : fd'[w] = "part" /\ Document(w)' = Document(u)'
            <4> SUFFICES ASSUME NEW u \in Threads, Spooling(u)', NEW f \in partFiles',
                                f.doc = Document(u), ~f.full
                         PROVE  \E w \in Threads : fd'[w] = "part" /\ Document(w) = Document(u)
                BY <2>0
            <4>1. f \in partFiles /\ Spooling(u)
                BY <2>0, <3>1 DEF Without, Completed, File, Spooling
            <4>2. PICK w \in Threads : fd[w] = "part" /\ Document(w) = Document(u)
                BY <4>1 DEF FileInv
            <4>3. w # t
                <5> SUFFICES ASSUME w = t PROVE FALSE
                    OBVIOUS
                <5>1. partFiles' = Without(partFiles, d) \cup {File(d, TRUE)}
                    BY <3>1, <4>1, <4>2 DEF Completed, Names
                <5> QED
                    BY <4>2, <5>1 DEF Without, File
            <4> QED
                BY <1>t, <3>1, <4>2, <4>3
        <3>5. \A u \in Threads : pc'[u] = "ack" => Document(u)' \in Names(spool)'
            BY <1>g, <2>0, <3>1 DEF FileInv
        <3> QED
            BY <2>a, <3>3, <3>4, <3>5 DEF FileInv
    <2>3. CASE Replace(t)
        <3>1. /\ d \in Names(partFiles)
              /\ spool' = Without(spool, d) \cup {f \in partFiles : f.doc = d}
              /\ partFiles' = Without(partFiles, d)
              /\ \A u \in Threads : fd'[u] = MovedFd(u, d)
              /\ pc'[t] = "ack"
            BY <1>t, <2>3 DEF Replace, At
        <3>2. /\ d \in Names(spool)'
              /\ Names(partFiles)' = Names(partFiles) \ {d}
            BY <3>1 DEF Names, Without
        <3>3. \A u \in Threads : Spooling(u)' =>
                  Document(u)' \in Names(partFiles)' \cup Names(spool)'
            BY <2>0, <1>g, <3>1, <3>2 DEF FileInv, Spooling
        <3>4. \A u \in Threads : Spooling(u)' =>
                  \A f \in partFiles' : f.doc = Document(u)' /\ ~f.full =>
                      \E w \in Threads : fd'[w] = "part" /\ Document(w)' = Document(u)'
            <4> SUFFICES ASSUME NEW u \in Threads, Spooling(u)', NEW f \in partFiles',
                                f.doc = Document(u), ~f.full
                         PROVE  \E w \in Threads : fd'[w] = "part" /\ Document(w) = Document(u)
                BY <2>0
            <4>1. f \in partFiles /\ Spooling(u) /\ Document(u) # d
                BY <2>0, <3>1 DEF Without, Spooling
            <4>2. PICK w \in Threads : fd[w] = "part" /\ Document(w) = Document(u)
                BY <4>1 DEF FileInv
            <4> QED
                BY <3>1, <4>1, <4>2 DEF MovedFd
        <3>5. \A u \in Threads : pc'[u] = "ack" => Document(u)' \in Names(spool)'
            BY <1>g, <2>0, <3>2 DEF FileInv
        <3> QED
            BY <2>a, <3>3, <3>4, <3>5 DEF FileInv
    <2>4. CASE ReplaceFails(t)
        <3>1. pc'[t] = "nack" /\ UNCHANGED <<partFiles, spool, fd>>
            BY <1>t, <2>4 DEF ReplaceFails, At, fileVars
        <3> QED
            BY <2>0, <2>a, <3>1 DEF FileInv, Spooling, Names
    <2> QED
        BY <1>3, <2>1, <2>2, <2>3, <2>4 DEF SpoolXml
<1> QED
    BY <1>1, <1>2, <1>3, StepKinds

LEMMA FileInvariance == Spec => []FileInv
<1>1. Init => FileInv
    BY DEF Init, FileInv, Spooling, AckedIsSpooled
<1> QED
    BY PipelineInvariance, <1>1, FileStep, PTL DEF Spec

\* No line is acknowledged without a document of it in the spool, whatever the
\* copies of a document do to each other's files and whenever the process dies.
THEOREM AcknowledgedIsSpooled == Spec => []AckedIsSpooled
<1>1. FileInv => AckedIsSpooled
    BY DEF FileInv
<1> QED
    BY FileInvariance, <1>1, PTL

\* A file in the spool that is not whole has a thread that is writing it, but
\* for those a death of the process left behind: whole documents stay whole.
THEOREM SpoolIsWhole == Spec => OnlyDeathTruncates
<1> DEFINE Kept == Abandoned' \subseteq Abandoned \/ deaths' # deaths
<1>1. PipelineInv /\ FileInv /\ [Next]_vars => [Kept]_vars
    <2> SUFFICES ASSUME PipelineInv, FileInv, [Next]_vars, deaths' = deaths,
                        NEW x \in Abandoned', x \notin Abandoned
                 PROVE  FALSE
        OBVIOUS
    <2>t. /\ pc \in [Threads -> Pcs] /\ fd \in [Threads -> {"part", "spool", "none"}]
          /\ \A u \in Threads : fd[u] # "none" => pc[u] = "write"
        BY DEF PipelineInv, TypeInv, ThreadInv
    <2>x. /\ x \in spool' /\ ~x.full
          /\ \A u \in Threads : ~(fd'[u] = "spool" /\ Document(u)' = x.doc)
        BY DEF Abandoned
    <2>w. x \in spool => \E u \in Threads : fd[u] = "spool" /\ Document(u) = x.doc
        BY <2>x DEF Abandoned
    <2>1. CASE Quiet
        BY <2>1, <2>x, <2>w DEF Quiet
    <2>2. CASE Die
        BY <2>2 DEF Die, PipelineInv, TypeInv
    <2>3. ASSUME NEW t \in Threads, SpoolXml(t)
          PROVE  FALSE
        <3> DEFINE d == Document(t)
        <3>0. \A u : Document(u)' = Document(u)
            BY <2>3, SpoolFrame
        <3>1. CASE OpenPart(t) \/ ReplaceFails(t)
            <4>1. spool' = spool /\ \A u \in Threads : fd[u] = "spool" => fd'[u] = "spool"
                BY <2>t, <3>1 DEF OpenPart, ReplaceFails, At, fileVars
            <4> QED
                BY <2>x, <2>w, <3>0, <4>1
        <3>2. CASE Write(t)
            <4>1. /\ spool' = IF fd[t] = "spool" THEN Completed(spool, d) ELSE spool
                  /\ \A u \in Threads \ {t} : fd'[u] = fd[u]
                BY <2>t, <3>2 DEF Write
            <4>2. x \in spool
                BY <2>x, <4>1 DEF Completed, Without, File
            <4>3. fd[t] = "spool" /\ x.doc = d
                BY <2>x, <2>w, <3>0, <4>1, <4>2
            <4>4. spool' = Without(spool, d) \cup {File(d, TRUE)}
                BY <4>1, <4>2, <4>3 DEF Completed, Names
            <4> QED
                BY <2>x, <4>3, <4>4 DEF Without, File
        <3>3. CASE Replace(t)
            <4>1. /\ spool' = Without(spool, d) \cup {f \in partFiles : f.doc = d}
                  /\ \A u \in Threads : fd'[u] = MovedFd(u, d)
                  /\ Spooling(t)
                BY <3>3 DEF Replace, At, Spooling
            <4>2. CASE x.doc = d
                <5>1. x \in partFiles
                    BY <2>x, <4>1, <4>2 DEF Without
                <5>2. PICK u \in Threads : fd[u] = "part" /\ Document(u) = d
                    BY <2>x, <4>1, <4>2, <5>1 DEF FileInv
                <5> QED
                    BY <2>x, <3>0, <4>1, <4>2, <5>2 DEF MovedFd
            <4>3. CASE x.doc # d
                BY <2>x, <2>w, <3>0, <4>1, <4>3 DEF Without, MovedFd
            <4> QED
                BY <4>2, <4>3
        <3> QED
            BY <2>3, <3>1, <3>2, <3>3 DEF SpoolXml
    <2> QED
        BY <2>1, <2>2, <2>3, StepKinds
<1>2. OnlyDeathTruncates <=> [][Kept]_vars
    BY DEF OnlyDeathTruncates
<1> HIDE DEF Kept
<1> QED
    BY PipelineInvariance, FileInvariance, <1>1, <1>2, PTL DEF Spec

-----------------------------------------------------------------------------
(* The history of a vessel.                                                *)

\* Only the write of a history that has changed since it was read erases a
\* known value, whichever vessels, threads and messages there are.
THEOREM HistoryIsKept == Spec => OnlyRacesErase
<1> DEFINE Erased ==
        \A v \in Vessels, f \in HistoryFields :
            reference[v][f] # NoMessage /\ reference'[v][f] = NoMessage
                => \E t \in Threads : Vessel(t) = v /\ Stale(t)
<1>1. PipelineInv /\ [Next]_vars => [Erased]_vars
    <2> SUFFICES ASSUME PipelineInv, [Next]_vars, NEW v \in Vessels, NEW f \in HistoryFields,
                        reference[v][f] # NoMessage, reference'[v][f] = NoMessage
                 PROVE  \E t \in Threads : Vessel(t) = v /\ Stale(t)
        OBVIOUS
    <2>1. PICK t \in Threads : WriteHistory(t)
        BY DEF Next, vars, storeVars, Receive, ParseLine, Bind, Put, NoteMeta, EmitFragment,
               EmitComplete, DropCache, DropMeta, NormalizeRecord, CheckPosition, ReadState,
               WriteState, EnrichOne, LookupRaises, Enrich, ReadHistory, SpoolXml, OpenPart,
               Write, Replace, ReplaceFails, Answer, Die
    <2>2. /\ pc[t] = "writeHistory"
          /\ reference' = [reference EXCEPT ![Vessel(t)] = NewHistory(seen[t], rec[t].values)]
          /\ reference \in [Vessels -> Values]
        BY <2>1 DEF WriteHistory, At, PipelineInv, TypeInv
    <2>3. v = Vessel(t) /\ NewHistory(seen[t], rec[t].values)[f] = NoMessage
        BY <2>2
    <2>4. f \in Fields /\ f # "position"
        BY DEF HistoryFields, Fields
    <2>5. seen[t][f] = NoMessage
        BY <2>3, <2>4 DEF NewHistory, FromHistory, Over
    <2> QED
        BY <2>2, <2>3, <2>5 DEF Stale
<1>2. OnlyRacesErase <=> [][Erased]_vars
    BY DEF OnlyRacesErase
<1> HIDE DEF Erased
<1> QED
    BY PipelineInvariance, <1>1, <1>2, PTL DEF Spec

-----------------------------------------------------------------------------
(* Reported jumps.                                                         *)

\* A thread that has seen the jump is on its way to the spool with it.
Reporting(t, l) ==
    /\ line[t] = l /\ alarm[t]
    /\ pc[t] \notin {"idle", "check", "ack", "nack"}

\* No copy of the line has been compared yet, and the position with which it
\* came as a jump is still there.
ToBeFound(l) ==
    /\ <<ais[VesselOf[l.msg]]["position"], l.msg>> \in Jumps
    /\ \E t \in Threads : line[t] = l
    /\ \A t \in Threads : line[t] = l => pc[t] = "check"

Reported(l) == \E d \in Names(spool) : d.line = l /\ d.alarm

JumpInv ==
    /\ \A l \in Lines : sent[l] = 0 => \A t \in Threads : line[t] # l
    /\ \A t \in Threads : pc[t] = "check" /\ line[t].msg \notin TwoPart =>
          rec[t].values["position"] = line[t].msg
    /\ \A l \in due : l \in Lines /\ l.msg \notin TwoPart
    /\ \A l \in due : VesselOf[l.msg] \notin Known =>
          Reported(l) \/ (\E t \in Threads : Reporting(t, l)) \/ ToBeFound(l)

\* Every step keeps the reports that are due on their way.
LEMMA JumpStep == PipelineInv /\ FileInv /\ JumpInv /\ [Next]_vars => JumpInv'
<1> SUFFICES ASSUME PipelineInv, FileInv, JumpInv, [Next]_vars PROVE JumpInv'
    OBVIOUS
<1>t. /\ pc \in [Threads -> Pcs] /\ line \in [Threads -> Lines \cup {NoLine}]
      /\ rec \in [Threads -> Records] /\ alarm \in [Threads -> BOOLEAN]
      /\ sent \in [Lines -> Nat] /\ ais \in [Vessels -> Values]
      /\ \A u \in Threads : ThreadInv(u)
    BY DEF PipelineInv, TypeInv
<1>n. \A u \in Threads : pc[u] = "idle" <=> line[u] \notin Lines
    BY <1>t, NoLineIsNone DEF ThreadInv
<1>g. \A l : Reported(l) => Reported(l)'
    BY SpoolGrows DEF Reported
<1> DEFINE OnItsWay(l) == Reported(l) \/ (\E u \in Threads : Reporting(u, l)) \/ ToBeFound(l)
           Unsent == \A l \in Lines : sent[l] = 0 => \A u \in Threads : line[u] # l
           AtCheck == \A u \in Threads : pc[u] = "check" /\ line[u].msg \notin TwoPart =>
                          rec[u].values["position"] = line[u].msg
           Others(t) ==
               \A u \in Threads \ {t} :
                   pc'[u] = pc[u] /\ line'[u] = line[u] /\ rec'[u] = rec[u] /\ alarm'[u] = alarm[u]
<1>j. /\ Unsent /\ AtCheck
      /\ \A l \in due : l \in Lines /\ l.msg \notin TwoPart
      /\ \A l \in due : VesselOf[l.msg] \notin Known => OnItsWay(l)
    BY DEF JumpInv
<1>q. ASSUME Unsent', AtCheck',
             \A l \in due' : l \in Lines /\ l.msg \notin TwoPart,
             \A l \in due' : VesselOf[l.msg] \notin Known => OnItsWay(l)'
      PROVE  JumpInv'
    BY <1>q DEF JumpInv
\* A thread goes on with its line and leaves the positions as they are.
<1>f. ASSUME NEW t \in Threads, Others(t), UNCHANGED <<ais, due, sent>>,
             line'[t] = line[t], alarm'[t] = alarm[t],
             pc[t] \notin {"idle", "check"}, pc'[t] \notin {"idle", "ack", "nack"},
             pc'[t] = "check" => line[t].msg \in TwoPart
      PROVE  JumpInv'
    <2>1. Unsent' /\ AtCheck'
        BY <1>f, <1>j
    <2>2. ASSUME NEW l \in due, OnItsWay(l) PROVE OnItsWay(l)'
        <3>1. CASE Reported(l)
            BY <1>g, <3>1
        <3>2. ASSUME NEW u \in Threads, Reporting(u, l) PROVE OnItsWay(l)'
            <4>1. pc'[u] # "check"
                BY <1>f, <1>j, <3>2 DEF Reporting
            <4> QED
                BY <1>f, <3>2, <4>1 DEF Reporting
        <3>3. CASE ToBeFound(l)
            BY <1>f, <3>3 DEF ToBeFound
        <3> QED
            BY <2>2, <3>1, <3>2, <3>3
    <2> QED
        BY <1>f, <1>j, <1>q, <2>1, <2>2
<1> USE DEF At
<1>1. ASSUME NEW t \in Threads, NEW k \in Lines, Receive(t, k)
      PROVE  JumpInv'
    <2>1. /\ pc[t] = "idle" /\ Others(t) /\ line'[t] = k /\ alarm'[t] = alarm[t]
          /\ sent' = [sent EXCEPT ![k] = @ + 1] /\ UNCHANGED <<ais, spool>>
          /\ k.msg \in TwoPart => pc'[t] = "bind"
          /\ k.msg \notin TwoPart =>
                pc'[t] = "check" /\ rec'[t].values = [NoValues EXCEPT !["position"] = k.msg]
        BY <1>t, <1>1 DEF Receive, storeVars, fileVars
    <2>2. Unsent'
        BY <1>t, <1>j, <2>1
    <2>3. AtCheck'
        BY <1>j, <2>1 DEF NoValues, Fields
    <2>4. \A l \in due' : \/ l \in due
                          \/ /\ l = k /\ sent[k] = 0
                             /\ <<ais[VesselOf[k.msg]]["position"], k.msg>> \in Jumps
        BY <1>1 DEF Receive
    <2>5. \A l \in due' : l \in Lines /\ l.msg \notin TwoPart
        BY <1>j, <2>4, JumpsAssumption
    <2>6. ASSUME NEW l \in due, OnItsWay(l) PROVE OnItsWay(l)'
        <3>1. CASE Reported(l)
            BY <1>g, <3>1
        <3>2. ASSUME NEW u \in Threads, Reporting(u, l) PROVE OnItsWay(l)'
            BY <2>1, <3>2 DEF Reporting
        <3>3. CASE ToBeFound(l)
            BY <1>j, <2>1, <3>3 DEF ToBeFound
        <3> QED
            BY <2>6, <3>1, <3>2, <3>3
    <2>7. ASSUME k \in due', k \notin due PROVE ToBeFound(k)'
        <3>1. \A u \in Threads \ {t} : line'[u] # k
            BY <1>j, <2>1, <2>4, <2>7
        <3> QED
            BY <2>1, <2>4, <2>5, <2>7, <3>1 DEF ToBeFound
    <2>8. \A l \in due' : VesselOf[l.msg] \notin Known => OnItsWay(l)'
        BY <1>j, <2>4, <2>6, <2>7
    <2> QED
        BY <1>q, <2>2, <2>3, <2>5, <2>8
<1>2. ASSUME NEW t \in Threads, ParseLine(t)
      PROVE  JumpInv'
    <2>1. /\ Others(t) /\ line' = line /\ alarm' = alarm
          /\ pc[t] \in WithParts \cup {"bind", "popCache", "popMeta"}
          /\ pc'[t] \in WithParts \cup {"popCache", "popMeta", "check"}
        BY <1>t, <1>2 DEF ParseLine, Bind, Put, NoteMeta, EmitFragment, EmitComplete, DropCache,
                          DropMeta, WithParts
    <2>2. UNCHANGED <<ais, due, sent>>
        BY <1>2 DEF ParseLine, Bind, Put, NoteMeta, EmitFragment, EmitComplete, DropCache,
                    DropMeta, storeVars, ghostVars
    <2>3. line[t].msg \in TwoPart
        BY <1>t, <2>1 DEF ThreadInv, InReassembly, WithParts
    <2> QED
        BY <1>f, <2>1, <2>2, <2>3 DEF WithParts
<1>3. ASSUME NEW t \in Threads, CheckPosition(t)
      PROVE  JumpInv'
    <2>1. /\ Others(t) /\ UNCHANGED <<line, rec, ais, due, sent, spool>> /\ pc[t] = "check"
          /\ pc'[t] \in {"open", "readState"}
          /\ Vessel(t) # NoVessel => alarm'[t] = IsJump(t, ais[Vessel(t)])
        BY <1>t, <1>3 DEF CheckPosition, storeVars, fileVars, ghostVars
    <2>2. Unsent' /\ AtCheck'
        BY <1>j, <2>1
    <2>3. ASSUME NEW l \in due, OnItsWay(l) PROVE OnItsWay(l)'
        <3>1. CASE Reported(l)
            BY <1>g, <3>1
        <3>2. ASSUME NEW u \in Threads, Reporting(u, l) PROVE OnItsWay(l)'
            BY <2>1, <3>2 DEF Reporting
        <3>3. CASE ToBeFound(l) /\ line[t] = l
            <4>1. /\ rec[t].vessel = VesselOf[l.msg]
                  /\ rec[t].values["position"] = l.msg
                BY <1>j, <1>t, <2>1, <3>3 DEF ThreadInv
            <4>2. VesselOf[l.msg] # NoVessel
                BY <1>j, LineFields, NoVesselAssumption
            <4>3. alarm'[t]
                BY <2>1, <3>3, <4>1, <4>2 DEF Vessel, IsJump, ToBeFound
            <4> QED
                BY <2>1, <3>3, <4>3 DEF Reporting
        <3>4. CASE ToBeFound(l) /\ line[t] # l
            BY <2>1, <3>4 DEF ToBeFound
        <3> QED
            BY <2>3, <3>1, <3>2, <3>3, <3>4
    <2> QED
        BY <1>j, <1>q, <2>1, <2>2, <2>3
<1>4. ASSUME NEW t \in Threads, ReadState(t) \/ Enrich(t) \/ ReadHistory(t) \/ WriteHistory(t)
      PROVE  JumpInv'
    <2>1. /\ Others(t) /\ UNCHANGED <<line, alarm, ais, due, sent>>
          /\ pc[t] \in WithVessel /\ pc'[t] \in WithVessel \cup {"open"}
        BY <1>t, <1>4 DEF ReadState, Enrich, ReadHistory, WriteHistory, WithVessel, storeVars,
                          ghostVars
    <2> QED
        BY <1>f, <2>1 DEF WithVessel
<1>5. ASSUME NEW t \in Threads, WriteState(t)
      PROVE  JumpInv'
    <2>1. /\ Others(t) /\ UNCHANGED <<line, alarm, sent, spool>>
          /\ pc[t] = "writeState" /\ pc'[t] = "enrich"
          /\ due' = due \ Overtaken(t)
          /\ \A v \in Vessels : v # Vessel(t) => ais'[v] = ais[v]
        BY <1>t, <1>5 DEF WriteState, fileVars
    <2>2. Unsent' /\ AtCheck'
        BY <1>j, <2>1
    <2>3. ASSUME NEW l \in due', OnItsWay(l) PROVE OnItsWay(l)'
        <3>1. CASE Reported(l)
            BY <1>g, <3>1
        <3>2. ASSUME NEW u \in Threads, Reporting(u, l) PROVE OnItsWay(l)'
            BY <2>1, <3>2 DEF Reporting
        <3>3. CASE ToBeFound(l)
            <4>1. l \in Lines /\ VesselOf[l.msg] \in Vessels /\ line[t] # l
                BY <1>j, <2>1, <3>3, LineFields DEF ToBeFound
            <4>2. VesselOf[l.msg] # Vessel(t)
                BY <2>1, <3>3, <4>1 DEF Overtaken, ToBeFound
            <4> QED
                BY <2>1, <3>3, <4>1, <4>2 DEF ToBeFound
        <3> QED
            BY <2>3, <3>1, <3>2, <3>3
    <2> QED
        BY <1>j, <1>q, <2>1, <2>2, <2>3
<1>6. ASSUME NEW t \in Threads, LookupRaises(t) \/ SpoolXml(t)
      PROVE  JumpInv'
    <2>1. /\ Others(t) /\ UNCHANGED <<line, alarm, ais, due, sent>>
          /\ pc[t] \notin {"idle", "check"} /\ pc'[t] \notin {"idle", "check"}
        BY <1>t, <1>6 DEF LookupRaises, SpoolXml, OpenPart, Write, Replace, ReplaceFails,
                          storeVars, ghostVars
    <2>2. Unsent' /\ AtCheck'
        BY <1>j, <2>1
    <2>3. ASSUME NEW l \in due, VesselOf[l.msg] \notin Known, Reporting(t, l),
                 pc'[t] \in {"ack", "nack"}
          PROVE  Reported(l)'
        <3>1. /\ l.msg \notin TwoPart /\ rec[t].vessel = VesselOf[l.msg]
            BY <1>j, <1>t, <2>1, <2>3 DEF ThreadInv, Reporting
        <3>2. Replace(t) \/ ReplaceFails(t)
            BY <1>6, <1>t, <2>3, <3>1 DEF LookupRaises, Vessel, SpoolXml, OpenPart, Write
        <3>3. Document(t).line = l /\ Document(t).alarm
            BY <2>3 DEF Reporting, Document
        <3>4. Document(t) \in Names(spool)'
            <4>1. CASE Replace(t)
                BY <4>1 DEF Replace, Names, Without
            <4>2. CASE ReplaceFails(t)
                BY <4>2 DEF ReplaceFails, FileInv, Spooling, fileVars, Names
            <4> QED
                BY <3>2, <4>1, <4>2
        <3> QED
            BY <3>3, <3>4 DEF Reported
    <2>4. ASSUME NEW l \in due, VesselOf[l.msg] \notin Known, OnItsWay(l) PROVE OnItsWay(l)'
        <3>1. CASE Reported(l)
            BY <1>g, <3>1
        <3>2. ASSUME NEW u \in Threads, Reporting(u, l) PROVE OnItsWay(l)'
            BY <2>1, <2>3, <2>4, <3>2 DEF Reporting
        <3>3. CASE ToBeFound(l)
            BY <2>1, <3>3 DEF ToBeFound
        <3> QED
            BY <2>4, <3>1, <3>2, <3>3
    <2> QED
        BY <1>j, <1>q, <2>1, <2>2, <2>4
<1>7. ASSUME NEW t \in Threads, Answer(t)
      PROVE  JumpInv'
    <2>1. /\ Others(t) /\ UNCHANGED <<ais, due, sent, spool>>
          /\ pc[t] \in {"ack", "nack"} /\ pc'[t] = "idle" /\ line'[t] = NoLine
        BY <1>t, <1>7 DEF Answer, storeVars, fileVars
    <2>2. Unsent' /\ AtCheck'
        BY <1>j, <2>1, NoLineIsNone
    <2>3. ASSUME NEW l \in due, OnItsWay(l) PROVE OnItsWay(l)'
        <3>1. CASE Reported(l)
            BY <1>g, <3>1
        <3>2. ASSUME NEW u \in Threads, Reporting(u, l) PROVE OnItsWay(l)'
            BY <2>1, <3>2 DEF Reporting
        <3>3. CASE ToBeFound(l)
            BY <1>j, <2>1, <3>3, NoLineIsNone DEF ToBeFound
        <3> QED
            BY <2>3, <3>1, <3>2, <3>3
    <2> QED
        BY <1>j, <1>q, <2>1, <2>2, <2>3
<1>8. ASSUME Die
      PROVE  JumpInv'
    <2>1. /\ \A u \in Threads : pc'[u] = "idle" /\ line'[u] = NoLine
          /\ due' = due \ {line[u] : u \in Threads} /\ UNCHANGED <<sent, spool, ais>>
        BY <1>8 DEF Die, storeVars, fileVars
    <2>2. Unsent' /\ AtCheck'
        BY <2>1, NoLineIsNone
    <2>3. \A l \in due' : OnItsWay(l) => Reported(l)
        BY <2>1 DEF Reporting, ToBeFound
    <2> QED
        BY <1>g, <1>j, <1>q, <2>1, <2>2, <2>3
<1>9. ASSUME UNCHANGED vars
      PROVE  JumpInv'
    <2>1. UNCHANGED <<pc, line, rec, alarm, ais, spool, sent, due>>
        BY <1>9 DEF vars, threadVars, storeVars, fileVars, ghostVars
    <2> QED
        BY <2>1 DEF JumpInv, Reported, Reporting, ToBeFound, Names
<1> QED
    BY <1>1, <1>2, <1>3, <1>4, <1>5, <1>6, <1>7, <1>8, <1>9
       DEF Next, NormalizeRecord, EnrichOne

\* A position that came as a jump is reported with the remark by one of its
\* copies, however many there are and whatever they do to each other.
THEOREM JumpsAreReported == Spec => []JumpIsReported
<1>1. Init => JumpInv
    BY NoLineIsNone DEF Init, JumpInv
<1>2. JumpInv => JumpIsReported
    <2> SUFFICES ASSUME JumpInv, NEW l \in due, VesselOf[l.msg] \notin Known
                 PROVE  \/ \E x \in spool : x.doc.line = l /\ x.doc.alarm
                        \/ \E t \in Threads : line[t] = l
        BY DEF JumpIsReported
    <2>1. Reported(l) \/ (\E t \in Threads : Reporting(t, l)) \/ ToBeFound(l)
        BY DEF JumpInv
    <2>2. Reported(l) => \E x \in spool : x.doc.line = l /\ x.doc.alarm
        BY DEF Reported, Names
    <2> QED
        BY <2>1, <2>2 DEF Reporting, ToBeFound
<1> QED
    BY PipelineInvariance, FileInvariance, <1>1, JumpStep, <1>2, PTL DEF Spec

-----------------------------------------------------------------------------
(* A feed that is in order.                                                *)

\* What the cache and the threads hold of message m after its first part.
FirstPart(m) == [s \in 1..2 |-> IF s = 1 THEN m ELSE NoMessage]
BothParts(m) == [s \in 1..2 |-> m]

Empty == cache = NoObject /\ meta = NoMessage
HasFirst(m) == cache \in Objects /\ parts[cache] = FirstPart(m) /\ meta = m

OfLine(t) ==
    LET m == line[t].msg IN
    IF line[t].part = 1
    THEN /\ pending = m
         /\ pc[t] = "bind" => Empty
         /\ pc[t] = "put" => mine[t] = cache /\ meta = NoMessage
                             /\ parts[cache] = [s \in 1..2 |-> NoMessage]
         /\ pc[t] = "meta" => mine[t] = cache /\ meta = NoMessage /\ parts[cache] = FirstPart(m)
         /\ pc[t] = "inspect" => mine[t] = cache /\ HasFirst(m)
         /\ pc[t] \notin {"popCache", "popMeta"}
    ELSE /\ pending = NoMessage
         /\ pc[t] = "bind" => HasFirst(m)
         /\ pc[t] = "put" => mine[t] = cache /\ HasFirst(m)
         /\ pc[t] = "inspect" => mine[t] = cache /\ parts[cache] = BothParts(m)
         /\ pc[t] = "popMeta" => cache = NoObject

\* A record has values of its own vessel only, and that of a second part has
\* those of both its parts.
OwnRecord(t) ==
    /\ rec[t].vessel # NoVessel => Owned(rec[t].values, rec[t].vessel)
    /\ line[t].part = 2 /\ pc[t] \notin WithoutRec =>
          rec[t].values["name"] = line[t].msg /\ rec[t].values["destination"] = line[t].msg
    /\ pc[t] \in {"writeState", "writeHistory"} => Owned(seen[t], rec[t].vessel)

OwnDocument(d) == d.record.vessel # NoVessel => Owned(d.record.values, d.record.vessel)

WholeIsSpooled ==
    \A l \in acked : l.part = 2 =>
        \E d \in Names(spool) :
            d.line = l /\ d.record.values["name"] = l.msg /\ d.record.values["destination"] = l.msg

OrderInv ==
    ~disorder =>
        /\ \A t, u \in Threads : InReassembly(t) /\ InReassembly(u) => t = u
        /\ \A t \in Threads : InReassembly(t) => OfLine(t)
        /\ (\A t \in Threads : ~InReassembly(t)) =>
              IF pending = NoMessage THEN Empty ELSE HasFirst(pending)

OwnInv ==
    ~disorder =>
        /\ \A t \in Threads : OwnRecord(t)
        /\ \A v \in Vessels : Owned(ais[v], v) /\ Owned(reference[v], v)
        /\ \A d \in Names(partFiles) \cup Names(spool) : OwnDocument(d)
        /\ WholeIsSpooled

\* The order of the feed is lost for good.
LEMMA DisorderStays == [Next]_vars /\ disorder => disorder'
BY ZenonT(30) DEF Next, vars, Receive, NoteOrder, ParseLine, Bind, Put, NoteMeta, EmitFragment,
       EmitComplete, DropCache, DropMeta, NormalizeRecord, CheckPosition, ReadState, WriteState,
       EnrichOne, LookupRaises, Enrich, ReadHistory, WriteHistory, SpoolXml, OpenPart, Write,
       Replace, ReplaceFails, Answer, Die, ghostVars

\* In an ordered feed one line at a time is in reassembly, and the cache holds
\* what the lines before it left there.
LEMMA OrderStep == PipelineInv /\ OrderInv /\ [Next]_vars => OrderInv'
<1> SUFFICES ASSUME PipelineInv, OrderInv, [Next]_vars, ~disorder' PROVE OrderInv'
    BY DEF OrderInv
<1>t. /\ pc \in [Threads -> Pcs] /\ line \in [Threads -> Lines \cup {NoLine}]
      /\ mine \in [Threads -> Objects \cup {NoObject}]
      /\ cache \in Objects \cup {NoObject}
      /\ parts \in [Objects -> [1..2 -> Message]]
      /\ \A u \in Threads : ThreadInv(u)
    BY DEF PipelineInv, TypeInv
<1>i. /\ \A u, w \in Threads : InReassembly(u) /\ InReassembly(w) => u = w
      /\ \A u \in Threads : InReassembly(u) => OfLine(u)
      /\ (\A u \in Threads : ~InReassembly(u)) =>
            IF pending = NoMessage THEN Empty ELSE HasFirst(pending)
    BY DisorderStays DEF OrderInv
<1> DEFINE Alone(t) == \A u \in Threads \ {t} : ~InReassembly(u)'
           Between == IF pending = NoMessage THEN Empty ELSE HasFirst(pending)
<1>a. ASSUME NEW t \in Threads, Alone(t), InReassembly(t)', OfLine(t)'
      PROVE  OrderInv'
    BY <1>a DEF OrderInv
<1>b. ASSUME \A u \in Threads : ~InReassembly(u)', Between'
      PROVE  OrderInv'
    BY <1>b DEF OrderInv
<1>c. ASSUME NEW t \in Threads, ~InReassembly(t), ~InReassembly(t)',
             UNCHANGED <<cache, parts, meta, mine, pending>>,
             \A u \in Threads \ {t} : pc'[u] = pc[u] /\ line'[u] = line[u]
      PROVE  OrderInv'
    <2>1. \A u \in Threads : InReassembly(u)' <=> InReassembly(u)
        BY <1>c DEF InReassembly
    <2>2. \A u \in Threads : InReassembly(u) /\ OfLine(u) => OfLine(u)'
        BY <1>c DEF OfLine, Empty, HasFirst
    <2>3. Between => Between'
        BY <1>c DEF Empty, HasFirst
    <2> QED
        BY <1>i, <2>1, <2>2, <2>3 DEF OrderInv
<1> USE DEF At
<1>1. ASSUME NEW t \in Threads, NEW l \in Lines, Receive(t, l)
      PROVE  OrderInv'
    <2>1. pc[t] = "idle" /\ \A u \in Threads \ {t} : pc'[u] = pc[u] /\ line'[u] = line[u]
        BY <1>t, <1>1 DEF Receive
    <2>2. CASE l.msg \notin TwoPart
        <3>1. pc'[t] = "check" /\ UNCHANGED <<cache, parts, meta, mine, pending>>
            BY <1>t, <1>1, <2>2 DEF Receive, NoteOrder, reassemblyVars
        <3> QED
            BY <1>c, <2>1, <3>1 DEF InReassembly
    <2>3. CASE l.msg \in TwoPart
        <3>1. /\ pc'[t] = "bind" /\ line'[t] = l /\ InOrder(l)
              /\ pending' = IF l.part = 1 THEN l.msg ELSE NoMessage
              /\ UNCHANGED <<cache, parts, meta, mine>>
            BY <1>t, <1>1, <2>3 DEF Receive, NoteOrder, reassemblyVars
        <3>2. l.msg # NoMessage /\ l.part \in 1..2
            BY LineFields, NoMessageAssumption
        <3>3. Between /\ (IF l.part = 1 THEN pending = NoMessage ELSE pending = l.msg)
            BY <1>i, <3>1 DEF InOrder
        <3>4. OfLine(t)'
            BY <3>1, <3>2, <3>3 DEF OfLine, Empty, HasFirst
        <3>5. Alone(t) /\ InReassembly(t)'
            BY <2>1, <3>1 DEF InOrder, InReassembly
        <3> QED
            BY <1>a, <3>4, <3>5
    <2> QED
        BY <2>2, <2>3
<1>2. ASSUME NEW t \in Threads, ParseLine(t)
      PROVE  OrderInv'
    <2>1. /\ InReassembly(t) /\ line' = line /\ pending' = pending
          /\ \A u \in Threads \ {t} : pc'[u] = pc[u]
        BY <1>t, <1>2 DEF ParseLine, Bind, Put, NoteMeta, EmitFragment, EmitComplete, DropCache,
                          DropMeta, InReassembly, ghostVars
    <2>2. Alone(t) /\ OfLine(t)
        BY <1>i, <2>1 DEF InReassembly
    <2> DEFINE m == line[t].msg
    <2>3. m \in Messages /\ m # NoMessage /\ line[t].part \in 1..2
        BY <1>t, <2>1, LineFields, NoMessageAssumption DEF ThreadInv, InReassembly
    <2>4. CASE Bind(t)
        <3>1. pc[t] = "bind" /\ pc'[t] = "put" /\ meta' = meta
            BY <1>t, <2>4 DEF Bind
        <3>2. CASE line[t].part = 1
            <4>1. pending = m /\ Empty
                BY <2>2, <3>1, <3>2 DEF OfLine
            <4>2. mine[t] = NoObject
                BY <1>t, <3>1 DEF ThreadInv, WithParts
            <4>3. PICK o \in Objects :
                      /\ cache' = o /\ mine' = [mine EXCEPT ![t] = o]
                      /\ parts' = [parts EXCEPT ![o] = [s \in 1..2 |-> NoMessage]]
                BY <2>4, <4>1, <4>2, FreeObject DEF Bind, SetDefault, Empty, PipelineInv
            <4>4. mine'[t] = cache' /\ parts'[cache'] = [s \in 1..2 |-> NoMessage]
                BY <1>t, <4>3
            <4>5. OfLine(t)'
                BY <2>1, <3>1, <3>2, <4>1, <4>4 DEF OfLine, Empty
            <4> QED
                BY <1>a, <2>2, <3>1, <4>5 DEF InReassembly
        <3>3. CASE line[t].part = 2
            <4>1. pending = NoMessage /\ HasFirst(m)
                BY <2>2, <3>1, <3>3 DEF OfLine
            <4>2. cache' = cache /\ parts' = parts /\ mine'[t] = cache
                BY <1>t, <2>4, <4>1, ObjectsAssumption DEF Bind, SetDefault, HasFirst
            <4>3. OfLine(t)'
                BY <2>1, <3>1, <3>3, <4>1, <4>2 DEF OfLine, HasFirst
            <4> QED
                BY <1>a, <2>2, <3>1, <4>3 DEF InReassembly
        <3> QED
            BY <2>3, <3>2, <3>3
    <2>5. CASE Put(t)
        <3>1. /\ pc[t] = "put" /\ UNCHANGED <<cache, meta, mine>>
              /\ pc'[t] = IF line[t].part = 1 THEN "meta" ELSE "inspect"
              /\ parts' = [parts EXCEPT ![mine[t]][line[t].part] = m]
            BY <1>t, <2>5 DEF Put, PutPart
        <3>2. mine[t] \in Objects /\ mine[t] = cache
            BY <1>t, <2>2, <3>1 DEF OfLine, ThreadInv, WithParts
        <3>3. parts'[cache] = [parts[cache] EXCEPT ![line[t].part] = m]
            BY <1>t, <3>1, <3>2
        <3>4. CASE line[t].part = 1
            <4>1. parts[cache] = [s \in 1..2 |-> NoMessage] /\ pending = m /\ meta = NoMessage
                BY <2>2, <3>1, <3>4 DEF OfLine
            <4>2. parts'[cache] = FirstPart(m)
                BY <3>3, <3>4, <4>1 DEF FirstPart
            <4>3. OfLine(t)'
                BY <2>1, <3>1, <3>2, <3>4, <4>1, <4>2 DEF OfLine
            <4> QED
                BY <1>a, <2>2, <3>1, <3>4, <4>3 DEF InReassembly
        <3>5. CASE line[t].part = 2
            <4>1. parts[cache] = FirstPart(m) /\ pending = NoMessage
                BY <2>2, <3>1, <3>5 DEF OfLine, HasFirst
            <4>2. parts'[cache] = BothParts(m)
                BY <3>3, <3>5, <4>1 DEF FirstPart, BothParts
            <4>3. OfLine(t)'
                BY <2>1, <3>1, <3>2, <3>5, <4>1, <4>2 DEF OfLine
            <4> QED
                BY <1>a, <2>2, <3>1, <3>5, <4>3 DEF InReassembly
        <3> QED
            BY <2>3, <3>4, <3>5
    <2>6. CASE NoteMeta(t)
        <3>1. /\ pc[t] = "meta" /\ pc'[t] = "inspect" /\ meta' = m
              /\ UNCHANGED <<cache, parts, mine>>
            BY <1>t, <2>6 DEF NoteMeta
        <3>2. line[t].part = 1 /\ mine[t] \in Objects
            BY <1>t, <3>1 DEF ThreadInv, WithParts
        <3>3. OfLine(t)'
            BY <2>1, <2>2, <3>1, <3>2 DEF OfLine, HasFirst
        <3> QED
            BY <1>a, <2>2, <3>1, <3>3 DEF InReassembly
    <2>7. CASE EmitFragment(t)
        <3>1. /\ pc[t] = "inspect" /\ pc'[t] = "check" /\ Missing(t)
              /\ UNCHANGED <<cache, parts, meta>>
            BY <1>t, <2>7 DEF EmitFragment
        <3>2. line[t].part = 1
            <4> SUFFICES ASSUME line[t].part = 2 PROVE FALSE
                BY <2>3
            <4>1. parts[mine[t]] = BothParts(m)
                BY <2>2, <3>1 DEF OfLine
            <4> QED
                BY <2>3, <3>1, <4>1 DEF Missing, BothParts
        <3>3. pending = m /\ HasFirst(m)
            BY <2>2, <3>1, <3>2 DEF OfLine
        <3>4. Between'
            BY <2>1, <2>3, <3>1, <3>3 DEF HasFirst
        <3> QED
            BY <1>b, <2>2, <3>1, <3>4 DEF InReassembly
    <2>8. CASE EmitComplete(t)
        <3>1. /\ pc[t] = "inspect" /\ pc'[t] = "popCache" /\ ~Missing(t)
            BY <1>t, <2>8 DEF EmitComplete
        <3>2. line[t].part = 2
            <4> SUFFICES ASSUME line[t].part = 1 PROVE FALSE
                BY <2>3
            <4>1. parts[mine[t]] = FirstPart(m)
                BY <2>2, <3>1 DEF OfLine, HasFirst
            <4> QED
                BY <3>1, <4>1 DEF Missing, FirstPart
        <3>3. OfLine(t)'
            BY <2>1, <2>2, <3>1, <3>2 DEF OfLine
        <3> QED
            BY <1>a, <2>2, <3>1, <3>3 DEF InReassembly
    <2>9. CASE DropCache(t)
        <3>1. pc[t] = "popCache" /\ pc'[t] = "popMeta" /\ cache' = NoObject
            BY <1>t, <2>9 DEF DropCache, PopCache
        <3>2. line[t].part = 2
            BY <2>2, <2>3, <3>1 DEF OfLine
        <3>3. OfLine(t)'
            BY <2>1, <2>2, <3>1, <3>2 DEF OfLine
        <3> QED
            BY <1>a, <2>2, <3>1, <3>3 DEF InReassembly
    <2>10. CASE DropMeta(t)
        <3>1. pc[t] = "popMeta" /\ pc'[t] = "check" /\ cache' = cache /\ meta' = NoMessage
            BY <1>t, <2>10 DEF DropMeta, PopMeta
        <3>2. line[t].part = 2
            BY <2>2, <2>3, <3>1 DEF OfLine
        <3>3. Between'
            BY <2>1, <2>2, <3>1, <3>2 DEF OfLine, Empty
        <3> QED
            BY <1>b, <2>2, <3>1, <3>3 DEF InReassembly
    <2> QED
        BY <1>2, <2>4, <2>5, <2>6, <2>7, <2>8, <2>9, <2>10 DEF ParseLine
<1>3. ASSUME NEW t \in Threads, NormalizeRecord(t) \/ EnrichOne(t)
      PROVE  OrderInv'
    <2>1. /\ pc[t] \in WithVessel \cup {"check"} /\ pc'[t] \in WithVessel \cup {"open", "nack"}
          /\ \A u \in Threads \ {t} : pc'[u] = pc[u] /\ line'[u] = line[u]
        BY <1>t, <1>3 DEF NormalizeRecord, CheckPosition, ReadState, WriteState, EnrichOne,
                          LookupRaises, Enrich, ReadHistory, WriteHistory, WithVessel
    <2>2. UNCHANGED <<cache, parts, meta, mine, pending>>
        BY <1>3 DEF NormalizeRecord, CheckPosition, ReadState, WriteState, EnrichOne,
                    LookupRaises, Enrich, ReadHistory, WriteHistory, reassemblyVars, ghostVars
    <2> QED
        BY <1>c, <2>1, <2>2 DEF InReassembly, WithVessel
<1>4. ASSUME NEW t \in Threads, SpoolXml(t) \/ Answer(t)
      PROVE  OrderInv'
    <2>1. /\ ~InReassembly(t) /\ ~InReassembly(t)'
          /\ \A u \in Threads \ {t} : pc'[u] = pc[u] /\ line'[u] = line[u]
        BY <1>t, <1>4 DEF SpoolXml, OpenPart, Write, Replace, ReplaceFails, Answer, InReassembly
    <2>2. UNCHANGED <<cache, parts, meta, mine, pending>>
        BY <1>4 DEF SpoolXml, OpenPart, Write, Replace, ReplaceFails, Answer, reassemblyVars,
                    ghostVars
    <2> QED
        BY <1>c, <2>1, <2>2
<1>5. ASSUME Die
      PROVE  OrderInv'
    BY <1>5 DEF Die, LoseReassembly, OrderInv, InReassembly, Empty
<1>6. ASSUME UNCHANGED vars
      PROVE  OrderInv'
    <2>1. UNCHANGED <<cache, parts, meta, mine, pending, pc, line, disorder>>
        BY <1>6 DEF vars, reassemblyVars, threadVars, ghostVars
    <2> QED
        BY <1>i, <2>1 DEF OrderInv, InReassembly, OfLine, Empty, HasFirst
<1> QED
    BY <1>1, <1>2, <1>3, <1>4, <1>5, <1>6 DEF Next

LEMMA OrderInvariance == Spec => []OrderInv
<1>1. Init => OrderInv
    BY DEF Init, ReassemblyInit, OrderInv, InReassembly, Empty
<1> QED
    BY PipelineInvariance, <1>1, OrderStep, PTL DEF Spec

\* A merge of values of one vessel has values of that vessel, and keeps what
\* the record has.
LEMMA OwnedMerges ==
    ASSUME NEW v, NEW a \in Values, NEW b \in Values, Owned(a, v), Owned(b, v)
    PROVE  /\ Owned(Over(a, b), v)
           /\ Owned(FromHistory(a, b), v)
           /\ Owned(NewHistory(a, b), v)
           /\ \A f \in Fields : a[f] # NoMessage =>
                 Over(a, b)[f] = a[f] /\ FromHistory(a, b)[f] = a[f]
<1>1. ASSUME NEW c, NEW d, NEW f \in Fields
      PROVE  /\ Over(c, d)[f] = IF c[f] # NoMessage THEN c[f] ELSE d[f]
             /\ FromHistory(c, d)[f] = IF f \in HistoryFields THEN Over(c, d)[f] ELSE c[f]
    BY DEF Over, FromHistory
<1> DEFINE c == [b EXCEPT !["position"] = NoMessage]
<1>2. \A f \in Fields : c[f] = IF f \in HistoryFields THEN b[f] ELSE NoMessage
    BY DEF HistoryFields, Fields, Values
<1>3. NewHistory(a, b) = FromHistory(c, a)
    BY DEF NewHistory
<1> HIDE DEF c
<1>4. ASSUME NEW f \in Fields
      PROVE  NewHistory(a, b)[f] =
                IF f \in HistoryFields THEN IF b[f] # NoMessage THEN b[f] ELSE a[f] ELSE NoMessage
    BY <1>1, <1>2, <1>3
<1>5. Owned(NewHistory(a, b), v)
    BY <1>4 DEF Owned
<1>6. Owned(Over(a, b), v) /\ Owned(FromHistory(a, b), v)
    BY <1>1 DEF Owned
<1> QED
    BY <1>1, <1>5, <1>6

\* In an ordered feed whatever a thread reads, makes and writes is of one vessel.
LEMMA OwnStep == PipelineInv /\ FileInv /\ OrderInv /\ OwnInv /\ [Next]_vars => OwnInv'
<1> SUFFICES ASSUME PipelineInv, FileInv, OrderInv, OwnInv, [Next]_vars, ~disorder'
             PROVE  OwnInv'
    BY DEF OwnInv
<1>t. /\ pc \in [Threads -> Pcs] /\ line \in [Threads -> Lines \cup {NoLine}]
      /\ rec \in [Threads -> Records] /\ seen \in [Threads -> Values]
      /\ ais \in [Vessels -> Values] /\ reference \in [Vessels -> Values]
      /\ mine \in [Threads -> Objects \cup {NoObject}]
      /\ \A u \in Threads : ThreadInv(u)
    BY DEF PipelineInv, TypeInv
<1>r. \A u \in Threads : rec[u].vessel \in Vessels \cup {NoVessel} /\ rec[u].values \in Values
    BY <1>t DEF Records
<1>i. /\ \A u \in Threads : InReassembly(u) => OfLine(u)
      /\ \A u \in Threads : OwnRecord(u)
      /\ \A v \in Vessels : Owned(ais[v], v) /\ Owned(reference[v], v)
      /\ \A d \in Names(partFiles) \cup Names(spool) : OwnDocument(d)
      /\ WholeIsSpooled
    BY DisorderStays DEF OrderInv, OwnInv
<1>w. WholeIsSpooled'
    <2> SUFFICES ASSUME NEW l \in acked', l.part = 2
                 PROVE  \E d \in Names(spool)' :
                            /\ d.line = l
                            /\ d.record.values["name"] = l.msg
                            /\ d.record.values["destination"] = l.msg
        BY DEF WholeIsSpooled
    <2>1. l \in acked \/ \E u \in Threads : pc[u] = "ack" /\ line[u] = l
        BY StepKinds, SpoolFrame DEF Quiet, Die
    <2>2. CASE l \in acked
        BY <1>i, <2>2, SpoolGrows DEF WholeIsSpooled
    <2>3. ASSUME NEW u \in Threads, pc[u] = "ack", line[u] = l
          PROVE  /\ Document(u) \in Names(spool)' /\ Document(u).line = l
                 /\ Document(u).record.values["name"] = l.msg
                 /\ Document(u).record.values["destination"] = l.msg
        BY <1>i, <2>3, SpoolGrows DEF FileInv, OwnRecord, WithoutRec, Document
    <2> QED
        BY <2>1, <2>2, <2>3
<1>d. \A d \in Names(partFiles)' \cup Names(spool)' : OwnDocument(d)
    <2>1. CASE Quiet \/ Die
        BY <1>i, <2>1 DEF Quiet, Die, fileVars, Names
    <2>2. ASSUME NEW t \in Threads, SpoolXml(t), NEW d \in Names(partFiles)' \cup Names(spool)'
          PROVE  OwnDocument(d)
        <3>1. OwnDocument(Document(t))
            BY <1>i DEF OwnRecord, OwnDocument, Document
        <3>2. d \in Names(partFiles) \cup Names(spool) \cup {Document(t)}
            <4>1. CASE OpenPart(t)
                BY <2>2, <4>1 DEF OpenPart, Names, Without, File
            <4>2. CASE Write(t)
                BY <2>2, <4>2, NamesAfter DEF Write, Names
            <4>3. CASE Replace(t)
                BY <2>2, <4>3 DEF Replace, Names, Without
            <4>4. CASE ReplaceFails(t)
                BY <2>2, <4>4 DEF ReplaceFails, fileVars, Names
            <4> QED
                BY <2>2, <4>1, <4>2, <4>3, <4>4 DEF SpoolXml
        <3> QED
            BY <1>i, <3>1, <3>2
    <2> QED
        BY <2>1, <2>2, StepKinds
<1>q. ASSUME \A u \in Threads : OwnRecord(u)',
             \A v \in Vessels : Owned(ais'[v], v) /\ Owned(reference'[v], v)
      PROVE  OwnInv'
    BY <1>w, <1>d, <1>q DEF OwnInv
<1> DEFINE Others(t) == \A u \in Threads \ {t} :
        pc'[u] = pc[u] /\ line'[u] = line[u] /\ rec'[u] = rec[u] /\ seen'[u] = seen[u]
<1>o. ASSUME NEW t \in Threads, Others(t), OwnRecord(t)'
      PROVE  \A u \in Threads : OwnRecord(u)'
    BY <1>i, <1>o DEF OwnRecord
<1> USE DEF At
<1>1. ASSUME NEW t \in Threads, NEW l \in Lines, Receive(t, l)
      PROVE  OwnInv'
    <2>1. Others(t) /\ line'[t] = l /\ UNCHANGED <<ais, reference>> /\ pc[t] = "idle"
        BY <1>t, <1>1 DEF Receive, storeVars
    <2>2. rec[t] = NoRecord
        BY <1>t, <2>1 DEF ThreadInv, WithoutRec
    <2>3. CASE l.msg \in TwoPart
        <3>1. pc'[t] = "bind" /\ rec'[t] = NoRecord
            BY <1>t, <1>1, <2>2, <2>3 DEF Receive
        <3>2. OwnRecord(t)'
            BY <3>1 DEF OwnRecord, WithoutRec, NoRecord
        <3> QED
            BY <1>i, <1>o, <1>q, <2>1, <3>2
    <2>4. CASE l.msg \notin TwoPart
        <3>1. pc'[t] = "check" /\ l.part # 2
              /\ rec'[t] = [vessel |-> VesselOf[l.msg],
                            values |-> [NoValues EXCEPT !["position"] = l.msg]]
            BY <1>t, <1>1, <2>4, LineFields DEF Receive
        <3>2. Owned(rec'[t].values, rec'[t].vessel)
            BY <3>1 DEF Owned, NoValues
        <3>3. OwnRecord(t)'
            BY <2>1, <3>1, <3>2 DEF OwnRecord
        <3> QED
            BY <1>i, <1>o, <1>q, <2>1, <3>3
    <2> QED
        BY <2>3, <2>4
<1>2. ASSUME NEW t \in Threads, ParseLine(t)
      PROVE  OwnInv'
    <2>1. Others(t) /\ line' = line /\ seen' = seen /\ UNCHANGED <<ais, reference>>
        BY <1>t, <1>2 DEF ParseLine, Bind, Put, NoteMeta, EmitFragment, EmitComplete, DropCache,
                          DropMeta, storeVars
    <2>2. InReassembly(t) /\ OfLine(t) /\ line[t] \in Lines
        BY <1>i, <1>t, <1>2 DEF ParseLine, Bind, Put, NoteMeta, EmitFragment, EmitComplete,
                                DropCache, DropMeta, InReassembly, ThreadInv
    <2> DEFINE m == line[t].msg
    <2>3. m \in Messages /\ m # NoMessage /\ line[t].part \in 1..2
        BY <2>2, LineFields, NoMessageAssumption
    <2>4. CASE Bind(t) \/ Put(t) \/ NoteMeta(t)
        <3>1. pc'[t] \in WithoutRec /\ rec' = rec /\ pc[t] \in WithoutRec
            BY <1>t, <2>4 DEF Bind, Put, NoteMeta, WithoutRec
        <3>2. OwnRecord(t)'
            BY <1>t, <3>1 DEF ThreadInv, OwnRecord, WithoutRec, NoRecord
        <3> QED
            BY <1>i, <1>o, <1>q, <2>1, <3>2
    <2>5. CASE EmitFragment(t)
        <3>1. pc[t] = "inspect" /\ pc'[t] = "check" /\ Missing(t) /\ rec[t] = NoRecord
              /\ rec'[t].values = rec[t].values
            BY <1>t, <2>5 DEF EmitFragment, ThreadInv, WithoutRec, Records
        <3>2. line[t].part # 2
            <4> SUFFICES ASSUME line[t].part = 2 PROVE FALSE
                OBVIOUS
            <4>1. parts[mine[t]] = BothParts(m)
                BY <2>2, <3>1 DEF OfLine
            <4> QED
                BY <2>3, <3>1, <4>1 DEF Missing, BothParts
        <3>3. \A v : Owned(rec'[t].values, v)
            BY <3>1 DEF NoRecord, NoValues, Owned
        <3>4. OwnRecord(t)'
            BY <2>1, <3>1, <3>2, <3>3 DEF OwnRecord
        <3> QED
            BY <1>i, <1>o, <1>q, <2>1, <3>4
    <2>6. CASE EmitComplete(t)
        <3>1. pc[t] = "inspect" /\ pc'[t] = "popCache" /\ ~Missing(t)
            BY <1>t, <2>6 DEF EmitComplete
        <3>2. line[t].part = 2
            <4> SUFFICES ASSUME line[t].part = 1 PROVE FALSE
                BY <2>3
            <4>1. parts[mine[t]] = FirstPart(m)
                BY <2>2, <3>1 DEF OfLine, HasFirst
            <4> QED
                BY <3>1, <4>1 DEF Missing, FirstPart
        <3>3. Joined(t)[1] = m /\ Joined(t)[2] = m
            BY <2>2, <3>1, <3>2 DEF OfLine, Joined, BothParts
        <3>4. rec'[t] = [vessel |-> VesselOf[m],
                         values |-> [NoValues EXCEPT !["name"] = m, !["destination"] = m]]
            BY <1>t, <2>6, <3>3 DEF EmitComplete
        <3>5. /\ Owned(rec'[t].values, rec'[t].vessel)
              /\ rec'[t].values["name"] = m /\ rec'[t].values["destination"] = m
            BY <3>4 DEF Owned, NoValues, Fields
        <3>6. OwnRecord(t)'
            BY <2>1, <3>1, <3>5 DEF OwnRecord
        <3> QED
            BY <1>i, <1>o, <1>q, <2>1, <3>6
    <2>7. CASE DropCache(t) \/ DropMeta(t)
        <3>1. /\ pc[t] \in {"popCache", "popMeta"} /\ pc'[t] \in {"popMeta", "check"}
              /\ rec' = rec
            BY <1>t, <2>7 DEF DropCache, DropMeta
        <3>2. OwnRecord(t)'
            BY <1>i, <2>1, <3>1 DEF OwnRecord, WithoutRec
        <3> QED
            BY <1>i, <1>o, <1>q, <2>1, <3>2
    <2> QED
        BY <1>2, <2>4, <2>5, <2>6, <2>7 DEF ParseLine
<1>3. ASSUME NEW t \in Threads, CheckPosition(t) \/ LookupRaises(t) \/ SpoolXml(t)
      PROVE  OwnInv'
    <2>1. Others(t) /\ UNCHANGED <<line, rec, seen, ais, reference>>
        BY <1>t, <1>3 DEF CheckPosition, LookupRaises, SpoolXml, OpenPart, Write, Replace,
                          ReplaceFails, storeVars
    <2>2. pc[t] \notin WithoutRec /\ pc'[t] \notin WithoutRec \cup {"writeState", "writeHistory"}
        BY <1>t, <1>3 DEF CheckPosition, LookupRaises, SpoolXml, OpenPart, Write, Replace,
                          ReplaceFails, WithoutRec
    <2>3. OwnRecord(t)'
        BY <1>i, <2>1, <2>2 DEF OwnRecord
    <2> QED
        BY <1>i, <1>o, <1>q, <2>1, <2>3
<1>4. ASSUME NEW t \in Threads, ReadState(t) \/ ReadHistory(t)
      PROVE  OwnInv'
    <2>1. /\ Others(t) /\ UNCHANGED <<line, rec, ais, reference>>
          /\ seen'[t] \in {ais[rec[t].vessel], reference[rec[t].vessel]}
          /\ pc[t] \in WithVessel
        BY <1>t, <1>4 DEF ReadState, ReadHistory, storeVars, Vessel, WithVessel
    <2>2. rec[t].vessel \in Vessels
        BY <1>t, <2>1 DEF ThreadInv
    <2>3. OwnRecord(t)'
        BY <1>i, <2>1, <2>2 DEF OwnRecord, WithVessel, WithoutRec
    <2> QED
        BY <1>i, <1>o, <1>q, <2>1, <2>3
<1>5. ASSUME NEW t \in Threads, WriteState(t) \/ Enrich(t) \/ WriteHistory(t)
      PROVE  OwnInv'
    <2> DEFINE v == rec[t].vessel
               a == rec[t].values
    <2>1. /\ Others(t) /\ UNCHANGED <<line, seen>>
          /\ pc[t] \in {"writeState", "enrich", "writeHistory"}
          /\ pc'[t] \in {"enrich", "readHistory", "open"}
        BY <1>t, <1>5 DEF WriteState, Enrich, WriteHistory, Vessel
    <2>2. v \in Vessels /\ v # NoVessel /\ a \in Values
        BY <1>r, <1>t, <2>1, NoVesselAssumption DEF ThreadInv, WithVessel
    <2>3. Owned(a, v) /\ (pc[t] # "enrich" => Owned(seen[t], v)) /\ Owned(reference[v], v)
        BY <1>i, <2>1, <2>2 DEF OwnRecord
    <2>4. line[t].part = 2 => a["name"] = line[t].msg /\ a["destination"] = line[t].msg
        BY <1>i, <2>1 DEF OwnRecord, WithoutRec
    <2>5. line[t].part = 2 => line[t].msg # NoMessage
        BY <1>t, <2>1, LineFields, NoMessageAssumption DEF ThreadInv
    <2>6. ASSUME NEW b \in Values, Owned(b, v), NEW vals \in {a, Over(a, b), FromHistory(a, b)},
                 rec'[t].vessel = v, rec'[t].values = vals
          PROVE  OwnRecord(t)'
        <3>1. /\ Owned(vals, v)
              /\ \A f \in Fields : a[f] # NoMessage => vals[f] = a[f]
            BY <2>2, <2>3, <2>6, OwnedMerges
        <3> QED
            BY <2>1, <2>4, <2>5, <2>6, <3>1 DEF OwnRecord, Fields
    <2>7. CASE WriteState(t)
        <3>1. /\ rec' = [rec EXCEPT ![t].values = Over(a, seen[t])] /\ reference' = reference
              /\ ais' = [ais EXCEPT ![v] = Over(a, seen[t])] /\ pc[t] = "writeState"
            BY <2>7 DEF WriteState, Vessel
        <3>2. rec'[t].vessel = v /\ rec'[t].values = Over(a, seen[t])
            BY <1>t, <3>1 DEF Records
        <3>3. OwnRecord(t)'
            BY <1>t, <2>3, <2>6, <3>1, <3>2
        <3>4. Owned(Over(a, seen[t]), v)
            BY <1>t, <2>2, <2>3, <3>1, OwnedMerges
        <3>5. \A w \in Vessels : Owned(ais'[w], w)
            BY <1>i, <1>t, <3>1, <3>4
        <3> QED
            BY <1>i, <1>o, <1>q, <2>1, <3>1, <3>3, <3>5
    <2>8. CASE Enrich(t)
        <3>1. /\ rec' = [rec EXCEPT ![t].values = FromHistory(a, reference[v])]
              /\ UNCHANGED <<ais, reference>>
            BY <2>8 DEF Enrich, Vessel, storeVars
        <3>2. rec'[t].vessel = v /\ rec'[t].values = FromHistory(a, reference[v])
            BY <1>t, <3>1 DEF Records
        <3>3. OwnRecord(t)'
            BY <1>t, <2>2, <2>3, <2>6, <3>2
        <3> QED
            BY <1>i, <1>o, <1>q, <2>1, <3>1, <3>3
    <2>9. CASE WriteHistory(t)
        <3>1. /\ rec' = rec /\ ais' = ais /\ pc[t] = "writeHistory"
              /\ reference' = [reference EXCEPT ![v] = NewHistory(seen[t], a)]
            BY <2>9 DEF WriteHistory, Vessel
        <3>2. OwnRecord(t)'
            BY <1>t, <2>2, <2>3, <2>6, <3>1
        <3>3. Owned(NewHistory(seen[t], a), v)
            BY <1>t, <2>2, <2>3, <3>1, OwnedMerges
        <3>4. \A w \in Vessels : Owned(reference'[w], w)
            BY <1>i, <1>t, <3>1, <3>3
        <3> QED
            BY <1>i, <1>o, <1>q, <2>1, <3>1, <3>2, <3>4
    <2> QED
        BY <1>5, <2>7, <2>8, <2>9
<1>6. ASSUME NEW t \in Threads, Answer(t)
      PROVE  OwnInv'
    <2>1. Others(t) /\ pc'[t] = "idle" /\ rec'[t] = NoRecord /\ UNCHANGED <<ais, reference>>
        BY <1>t, <1>6 DEF Answer, storeVars
    <2>2. OwnRecord(t)'
        BY <2>1 DEF OwnRecord, WithoutRec, NoRecord
    <2> QED
        BY <1>i, <1>o, <1>q, <2>1, <2>2
<1>7. ASSUME Die
      PROVE  OwnInv'
    <2>1. \A u \in Threads : OwnRecord(u)'
        BY <1>7 DEF Die, OwnRecord, WithoutRec, NoRecord
    <2> QED
        BY <1>7, <1>i, <1>q, <2>1 DEF Die, storeVars
<1>8. ASSUME UNCHANGED vars
      PROVE  OwnInv'
    <2>1. UNCHANGED <<pc, line, rec, seen, ais, reference>>
        BY <1>8 DEF vars, threadVars, storeVars
    <2>2. \A u \in Threads : OwnRecord(u)'
        BY <1>i, <2>1 DEF OwnRecord
    <2> QED
        BY <1>i, <1>q, <2>1, <2>2
<1> QED
    BY <1>1, <1>2, <1>3, <1>4, <1>5, <1>6, <1>7, <1>8 DEF Next, NormalizeRecord, EnrichOne

LEMMA OwnInvariance == Spec => []OwnInv
<1>1. Init => OwnInv
    BY DEF Init, OwnInv, OwnRecord, WithoutRec, NoRecord, NoValues, Owned, Names, WholeIsSpooled
<1> QED
    BY PipelineInvariance, FileInvariance, OrderInvariance, <1>1, OwnStep, PTL DEF Spec

\* In an ordered feed, nothing that is stored or spooled for a vessel has a
\* value of another.
THEOREM VesselsAreKeptApart == Spec => []NoForeignValues
<1>1. OwnInv => NoForeignValues
    BY DEF OwnInv, NoForeignValues, OwnDocument, Names
<1> QED
    BY OwnInvariance, <1>1, PTL

\* In an ordered feed, an acknowledged message of two parts is in the spool
\* with the data of both.
THEOREM OrderedIsWhole == Spec => []OrderedMessageIsWhole
<1>1. OwnInv => OrderedMessageIsWhole
    <2> SUFFICES ASSUME OwnInv, ~disorder, NEW l \in acked, l.part = 2
                 PROVE  \E x \in spool :
                            /\ x.doc.line = l
                            /\ x.doc.record.values["name"] = l.msg
                            /\ x.doc.record.values["destination"] = l.msg
        BY DEF OrderedMessageIsWhole
    <2> QED
        BY DEF OwnInv, WholeIsSpooled, Names
<1> QED
    BY OwnInvariance, <1>1, PTL
=============================================================================
