-------------------------- MODULE Forwarder_proofs --------------------------
(***************************************************************************)
(* Proofs about Forwarder, for every set of files and destinations, every  *)
(* number of attempts, and any interleaving of the worker, the API, halts  *)
(* and restarts.  The bounds on spooled files, edits and restarts are      *)
(* never used.                                                             *)
(***************************************************************************)
EXTENDS Forwarder, TLAPS

\* The worker is in the middle of a file, or of a delivery.
OnFile     == pc \in {"dests", "attempt", "transfer", "sent"}
Delivering == pc \in {"attempt", "transfer", "sent"}

\* The types, inductive once they say when `file` and `dest` are real.
TypeInv ==
    /\ TypeOK
    /\ OnFile => file \in Files
    /\ Delivering => dest \in Dests


\* The initial state has the types.
LEMMA TypeInit == Init => TypeInv
  BY DestsAssumption, AttemptsAssumption
  DEF Init, TypeInv, TypeOK, OnFile, Delivering, Roots, States, Pcs

\* Writing a state into a record keeps the store's type.
LEMMA MarkType ==
  ASSUME rec \in [Roots -> [Files \X Dests -> States]], store \in Roots,
         NEW f, NEW d, NEW st \in States, Mark(f, d, st)
  PROVE  rec' \in [Roots -> [Files \X Dests -> States]]
  BY DEF Mark

LEMMA EnsureType ==
  ASSUME rec \in [Roots -> [Files \X Dests -> States]], store \in Roots,
         NEW f, NEW d, Ensure(f, d)
  PROVE  rec' \in [Roots -> [Files \X Dests -> States]]
  BY MarkType DEF Ensure, States

\* What a delivery that raises may do to the destinations.
LEMMA RaisesType ==
  ASSUME TypeInv, file \in Files, dest \in Dests, DeliverRaises
  PROVE  /\ received' \in [Dests -> SUBSET Files]
         /\ present' \in [Dests -> SUBSET Files]
  <1> USE DEF TypeInv, TypeOK
  <1>1. CASE UNCHANGED destVars
    BY <1>1 DEF destVars
  <1>2. CASE Arrives(dest, file)
    BY <1>2 DEF Arrives
  <1>3. CASE /\ present' = [present EXCEPT ![dest] = @ \ {file}]
             /\ UNCHANGED received
    BY <1>3
  <1>4. QED
    BY <1>1, <1>2, <1>3 DEF DeliverRaises

\* Every step keeps the types.
LEMMA TypeStep == TypeInv /\ [Next]_vars => TypeInv'
  <1> SUFFICES ASSUME TypeInv, [Next]_vars PROVE TypeInv'
    OBVIOUS
  <1> USE DEF TypeInv, TypeOK, OnFile, Delivering, Pcs, workVars, destVars, boundVars, confVars
  <1>1. CASE Environment
    <2>1. ASSUME NEW f \in Files, Spool(f) PROVE TypeInv'
      BY <2>1 DEF Spool
    <2>2. ASSUME NEW d \in Dests, NEW f \in Files, Collect(d, f) PROVE TypeInv'
      BY <2>2 DEF Collect
    <2>3. QED
      BY <1>1, <2>1, <2>2 DEF Environment
  <1>2. CASE PollSpool
    <2>1. CASE ListSpool
      BY <2>1 DEF ListSpool, Visible
    <2>2. CASE StartCycle
      BY <2>2 DEF StartCycle
    <2>3. CASE NothingEnabled
      BY <2>3 DEF NothingEnabled
    <2>4. ASSUME NEW f \in batch, PickFile(f) PROVE TypeInv'
      BY <2>4 DEF PickFile
    <2>5. ASSUME NEW f \in batch, SkipUnreadable(f) PROVE TypeInv'
      BY <2>5 DEF SkipUnreadable
    <2>6. CASE EndCycle
      BY <2>6 DEF EndCycle
    <2>7. QED
      BY <1>2, <2>1, <2>2, <2>3, <2>4, <2>5, <2>6 DEF PollSpool
  <1>3. CASE ServeFile
    <2>1. ASSUME NEW d \in todo, SkipDelivered(d) PROVE TypeInv'
      BY <2>1 DEF SkipDelivered
    <2>2. ASSUME NEW d \in todo, BeginDest(d) PROVE TypeInv'
      <3>1. rec' \in [Roots -> [Files \X Dests -> States]]
        BY <2>2, EnsureType DEF BeginDest
      <3>2. 1 \in 0 .. MaxAttempts
        BY AttemptsAssumption
      <3>3. QED
        BY <2>2, <3>1, <3>2 DEF BeginDest
    <2>3. ASSUME NEW d \in todo, AbortCycle(d) PROVE TypeInv'
      <3>1. rec' \in [Roots -> [Files \X Dests -> States]]
        BY <2>3, EnsureType DEF AbortCycle
      <3>2. QED
        BY <2>3, <3>1 DEF AbortCycle
    <2>4. CASE Archive
      BY <2>4 DEF Archive
    <2>5. CASE KeepFile
      BY <2>5 DEF KeepFile
    <2>6. CASE ArchiveFails
      BY <2>6 DEF ArchiveFails
    <2>7. QED
      BY <1>3, <2>1, <2>2, <2>3, <2>4, <2>5, <2>6 DEF ServeFile
  <1>4. CASE DeliverRetrying
    <2>1. CASE StartAttempt
      <3>1. rec' \in [Roots -> [Files \X Dests -> States]]
        BY <2>1, MarkType DEF StartAttempt, States
      <3>2. QED
        BY <2>1, <3>1 DEF StartAttempt
    <2>2. CASE Deliver
      BY <2>2 DEF Deliver, Arrives
    <2>3. CASE MarkDelivered
      <3>1. rec' \in [Roots -> [Files \X Dests -> States]]
        BY <2>3, MarkType DEF MarkDelivered, States
      <3>2. QED
        BY <2>3, <3>1 DEF MarkDelivered
    <2>4. CASE Retry
      <3>1. rec' \in [Roots -> [Files \X Dests -> States]]
        BY <2>4, MarkType DEF Retry, States
      <3>2. /\ received' \in [Dests -> SUBSET Files]
            /\ present' \in [Dests -> SUBSET Files]
        BY <2>4, RaisesType DEF Retry
      <3>3. attempt + 1 \in 0 .. MaxAttempts
        BY <2>4, AttemptsAssumption DEF Retry
      <3>4. QED
        BY <2>4, <3>1, <3>2, <3>3 DEF Retry
    <2>5. CASE GiveUp
      <3>1. rec' \in [Roots -> [Files \X Dests -> States]]
        BY <2>5, MarkType DEF GiveUp, States
      <3>2. /\ received' \in [Dests -> SUBSET Files]
            /\ present' \in [Dests -> SUBSET Files]
        BY <2>5, RaisesType DEF GiveUp
      <3>3. QED
        BY <2>5, <3>1, <3>2 DEF GiveUp
    <2>6. QED
      BY <1>4, <2>1, <2>2, <2>3, <2>4, <2>5 DEF DeliverRetrying
  <1>5. CASE Api
    <2>1. CASE Reload
      BY <2>1, RootAssumption DEF Reload
    <2>4. CASE SwapStore
      BY <2>4 DEF SwapStore
    <2>2. ASSUME NEW d \in Dests, EditDestination(d) PROVE TypeInv'
      BY <2>2, RootAssumption DEF EditDestination
    <2>3. QED
      BY <1>5, <2>1, <2>2, <2>4 DEF Api
  <1>6. CASE Process
    <2>1. CASE Halt
      <3>1. 0 \in 0 .. MaxAttempts
        BY AttemptsAssumption
      <3>2. QED
        BY <2>1, <3>1 DEF Halt, Roots
    <2>2. CASE Restart
      BY <2>2 DEF Restart, Roots
    <2>3. QED
      BY <1>6, <2>1, <2>2 DEF Process
  <1>7. CASE IdlePoll \/ UNCHANGED vars
    BY <1>7 DEF IdlePoll, vars
  <1>8. QED
    BY <1>1, <1>2, <1>3, <1>4, <1>5, <1>6, <1>7 DEF Next

\* Every variable keeps its type, and no delivery of the worker
\* (_deliver_with_retry) makes more than max_attempts attempts.
THEOREM TypeCorrect == Spec => []TypeOK
  <1>1. Spec => []TypeInv
    BY TypeInit, TypeStep, PTL DEF Spec
  <1>2. TypeInv => TypeOK
    BY DEF TypeInv
  <1>3. QED
    BY <1>1, <1>2, PTL

-----------------------------------------------------------------------------
(* What a step may do to the records and to what has been received.        *)

\* Mark changes one record of the store in use.
LEMMA MarkAt ==
  ASSUME TypeInv, NEW f \in Files, NEW d \in Dests, NEW st, Mark(f, d, st)
  PROVE  \A r \in Roots, g \in Files, e \in Dests :
             rec'[r][<<g, e>>] =
                 IF r = store /\ g = f /\ e = d THEN st ELSE rec[r][<<g, e>>]
  BY DEF Mark, TypeInv, TypeOK

\* The steps that write a record: Ensure, or a Mark of the delivery in hand.
MarkStep(st) == Delivering /\ Mark(file, dest, st)

LEMMA RecordSteps ==
  ASSUME TypeInv, [Next]_vars
  PROVE  \/ UNCHANGED rec
         \/ pc = "dests" /\ \E d \in todo : Ensure(file, d)
         \/ \E st \in {"TRANSFERRING", "RETRYING", "FAILED"} : MarkStep(st)
         \/ MarkDelivered
  <1> USE DEF MarkStep, Delivering, workVars, destVars, boundVars, confVars
  <1>1. CASE Environment
    BY <1>1 DEF Environment, Spool, Collect
  <1>2. CASE PollSpool
    BY <1>2 DEF PollSpool, ListSpool, StartCycle, NothingEnabled, PickFile,
                SkipUnreadable, EndCycle
  <1>3. CASE ServeFile
    BY <1>3 DEF ServeFile, SkipDelivered, BeginDest, AbortCycle, Archive, KeepFile,
                ArchiveFails
  <1>4. CASE DeliverRetrying
    BY <1>4 DEF DeliverRetrying, StartAttempt, Deliver, Retry, GiveUp
  <1>5. CASE Api
    BY <1>5 DEF Api, Reload, SwapStore, EditDestination
  <1>6. CASE Process
    BY <1>6 DEF Process, Halt, Restart
  <1>7. CASE IdlePoll \/ UNCHANGED vars
    BY <1>7 DEF IdlePoll, vars
  <1>8. QED
    BY <1>1, <1>2, <1>3, <1>4, <1>5, <1>6, <1>7 DEF Next

\* What has arrived at a destination has arrived for good.
LEMMA ReceivedGrows ==
  ASSUME TypeInv, [Next]_vars, NEW d \in Dests
  PROVE  received[d] \subseteq received'[d]
  <1> USE DEF TypeInv, TypeOK, workVars, destVars, boundVars, confVars
  <1>1. ASSUME NEW f, NEW e, Arrives(e, f) PROVE received[d] \subseteq received'[d]
    BY <1>1 DEF Arrives
  <1>2. CASE DeliverRetrying
    BY <1>1, <1>2 DEF DeliverRetrying, StartAttempt, Deliver, MarkDelivered, Retry, GiveUp,
                      DeliverRaises
  <1>3. CASE Environment
    BY <1>3 DEF Environment, Spool, Collect
  <1>4. CASE PollSpool
    BY <1>4 DEF PollSpool, ListSpool, StartCycle, NothingEnabled, PickFile,
                SkipUnreadable, EndCycle
  <1>5. CASE ServeFile
    BY <1>5 DEF ServeFile, SkipDelivered, BeginDest, AbortCycle, Archive, KeepFile,
                ArchiveFails
  <1>6. CASE Api
    BY <1>6 DEF Api, Reload, SwapStore, EditDestination
  <1>7. CASE Process
    BY <1>7 DEF Process, Halt, Restart
  <1>8. CASE IdlePoll \/ UNCHANGED vars
    BY <1>8 DEF IdlePoll, vars
  <1>9. QED
    BY <1>2, <1>3, <1>4, <1>5, <1>6, <1>7, <1>8 DEF Next

-----------------------------------------------------------------------------
(* A record of a delivery is true.                                         *)

\* Between the delivery and its record the worker knows that it arrived.
SentInv == pc = "sent" => file \in received[dest]

\* Only Deliver leads to "sent", and nothing moves the worker's hand there.
LEMMA SentStep == TypeInv /\ SentInv /\ [Next]_vars => SentInv'
  <1> SUFFICES ASSUME TypeInv, SentInv, [Next]_vars, pc' = "sent"
               PROVE  file' \in received'[dest']
    BY DEF SentInv
  <1> USE DEF workVars, destVars, boundVars, confVars
  <1>1. CASE Deliver
    BY <1>1 DEF Deliver, Arrives, TypeInv, TypeOK, Delivering
  <1>2. CASE ~Deliver
    <2>1. /\ pc = "sent"
          /\ UNCHANGED <<file, dest>>
      <3>1. CASE Environment \/ PollSpool
        BY <3>1 DEF Environment, Spool, Collect, PollSpool, ListSpool, StartCycle,
                    NothingEnabled, PickFile, SkipUnreadable, EndCycle
      <3>2. CASE ServeFile \/ DeliverRetrying
        BY <1>2, <3>2 DEF ServeFile, SkipDelivered, BeginDest, AbortCycle, Archive,
                   KeepFile, ArchiveFails, DeliverRetrying, StartAttempt, MarkDelivered,
                   Retry, GiveUp
      <3>3. CASE Api \/ Process
        BY <3>3 DEF Api, Reload, SwapStore, EditDestination, Process, Halt, Restart
      <3>4. CASE IdlePoll \/ UNCHANGED vars
        BY <3>4 DEF IdlePoll, vars
      <3>5. QED
        BY <3>1, <3>2, <3>3, <3>4 DEF Next
    <2>2. dest \in Dests
      BY <2>1 DEF TypeInv, Delivering
    <2>3. QED
      BY <2>1, <2>2, ReceivedGrows DEF SentInv
  <1>3. QED
    BY <1>1, <1>2

\* A record says DELIVERED only of a delivery that arrived.
LEMMA DeliveredStep ==
  TypeInv /\ SentInv /\ DeliveredIsTrue /\ [Next]_vars => DeliveredIsTrue'
  <1> SUFFICES ASSUME TypeInv, SentInv, DeliveredIsTrue, [Next]_vars,
                      NEW r \in Roots, NEW f \in Files, NEW d \in Dests,
                      rec'[r][<<f, d>>] = "DELIVERED"
               PROVE  f \in received'[d]
    BY DEF DeliveredIsTrue
  <1>1. \/ rec[r][<<f, d>>] = "DELIVERED"
        \/ pc = "sent" /\ f = file /\ d = dest
    <2>1. CASE UNCHANGED rec
      BY <2>1
    <2>2. CASE pc = "dests" /\ \E e \in todo : Ensure(file, e)
      <3>1. PICK e \in todo : Ensure(file, e)
        BY <2>2
      <3>2. file \in Files /\ e \in Dests
        BY <2>2 DEF TypeInv, TypeOK, OnFile
      <3>3. CASE Mark(file, e, "PENDING")
        BY <3>2, <3>3, MarkAt
      <3>4. QED
        BY <3>1, <3>3 DEF Ensure
    <2>3. CASE \E st \in {"TRANSFERRING", "RETRYING", "FAILED"} : MarkStep(st)
      <3>1. file \in Files /\ dest \in Dests
        BY <2>3 DEF TypeInv, OnFile, Delivering, MarkStep
      <3>2. QED
        BY <2>3, <3>1, MarkAt DEF MarkStep
    <2>4. CASE MarkDelivered
      <3>1. file \in Files /\ dest \in Dests /\ pc = "sent"
        BY <2>4 DEF TypeInv, OnFile, Delivering, MarkDelivered
      <3>2. QED
        BY <2>4, <3>1, MarkAt DEF MarkDelivered
    <2>5. QED
      BY <2>1, <2>2, <2>3, <2>4, RecordSteps
  <1>2. f \in received[d]
    BY <1>1 DEF DeliveredIsTrue, SentInv
  <1>3. QED
    BY <1>2, ReceivedGrows

\* Whatever the edits, reloads, halts and restarts, a record in any store says
\* DELIVERED only if the file has reached the destination: process_once never
\* skips a destination that has not got the file.
THEOREM RecordsAreTrue == Spec => []DeliveredIsTrue
  <1>1. Init => SentInv /\ DeliveredIsTrue
    BY DEF Init, SentInv, DeliveredIsTrue
  <1>2. Spec => [](TypeInv /\ SentInv /\ DeliveredIsTrue)
    BY <1>1, TypeInit, TypeStep, SentStep, DeliveredStep, PTL DEF Spec
  <1>3. QED
    BY <1>2, PTL

-----------------------------------------------------------------------------
(* A file leaves the spool only when it has been delivered.                *)

\* all_delivered is true of the destinations served so far.
ServedInv ==
    OnFile /\ ok => \A d \in snapshot \ todo : file \in received[d]

\* Serving a destination keeps all_delivered true of what is behind.
LEMMA ServedStep ==
  TypeInv /\ SentInv /\ DeliveredIsTrue /\ ServedInv /\ [Next]_vars => ServedInv'
  <1> SUFFICES ASSUME TypeInv, SentInv, DeliveredIsTrue, ServedInv, [Next]_vars,
                      OnFile', ok', NEW d \in snapshot' \ todo'
               PROVE  file' \in received'[d]
    BY DEF ServedInv
  <1> USE DEF OnFile, workVars, destVars, boundVars, confVars
  <1>1. \/ /\ OnFile /\ ok /\ file' = file /\ snapshot' = snapshot
           /\ \/ d \notin todo
              \/ pc = "dests" /\ Recorded(file, d) = "DELIVERED"
              \/ pc = "sent" /\ d = dest
        \/ todo' = snapshot'
    <2>1. CASE Environment \/ PollSpool
      BY <2>1 DEF Environment, Spool, Collect, PollSpool, ListSpool, StartCycle,
                  NothingEnabled, PickFile, SkipUnreadable, EndCycle
    <2>2. CASE ServeFile
      BY <2>2 DEF ServeFile, SkipDelivered, BeginDest, AbortCycle, Archive, KeepFile,
                  ArchiveFails
    <2>3. CASE DeliverRetrying
      BY <2>3 DEF DeliverRetrying, StartAttempt, Deliver, MarkDelivered, Retry, GiveUp
    <2>4. CASE Api \/ Process
      BY <2>4 DEF Api, Reload, SwapStore, EditDestination, Process, Halt, Restart
    <2>5. CASE IdlePoll \/ UNCHANGED vars
      BY <2>5 DEF IdlePoll, vars
    <2>6. QED
      BY <2>1, <2>2, <2>3, <2>4, <2>5 DEF Next
  <1>2. SUFFICES ASSUME OnFile, ok, file' = file, snapshot' = snapshot,
                        \/ d \notin todo
                        \/ pc = "dests" /\ Recorded(file, d) = "DELIVERED"
                        \/ pc = "sent" /\ d = dest
                 PROVE  file \in received'[d]
    BY <1>1
  <1>3. d \in snapshot /\ d \in Dests /\ file \in Files /\ store \in Roots
    BY <1>2 DEF TypeInv, TypeOK
  <1>4. file \in received[d]
    BY <1>2, <1>3 DEF ServedInv, DeliveredIsTrue, SentInv, Recorded
  <1>5. QED
    BY <1>3, <1>4, ReceivedGrows

\* The only step that takes a file from the spool is _process_file's move to
\* the archive, and the file has then reached every destination of this poll:
\* those that were skipped because their record says DELIVERED as well.
THEOREM ArchivingIsSafe == Spec => ArchivedWasDelivered
  <1>1. Init => SentInv /\ DeliveredIsTrue /\ ServedInv
    BY DEF Init, SentInv, DeliveredIsTrue, ServedInv, OnFile
  <1> DEFINE Inv == TypeInv /\ SentInv /\ DeliveredIsTrue /\ ServedInv
  <1>2. Spec => []Inv
    BY <1>1, TypeInit, TypeStep, SentStep, DeliveredStep, ServedStep, PTL DEF Spec
  <1>3. Inv /\ [Next]_vars =>
            [\A f \in spool \ spool' : \A d \in snapshot : f \in received[d]]_vars
    <2> SUFFICES ASSUME Inv, [Next]_vars, NEW f \in spool \ spool', NEW d \in snapshot
                 PROVE  f \in received[d]
      OBVIOUS
    <2> USE DEF workVars, destVars, boundVars, confVars
    <2>1. CASE Archive
      BY <2>1 DEF Archive, ServedInv, OnFile
    <2>2. CASE ~Archive
      <3>1. CASE Environment \/ PollSpool
        BY <3>1 DEF Environment, Spool, Collect, PollSpool, ListSpool, StartCycle,
                    NothingEnabled, PickFile, SkipUnreadable, EndCycle
      <3>2. CASE ServeFile \/ DeliverRetrying
        BY <2>2, <3>2 DEF ServeFile, SkipDelivered, BeginDest, AbortCycle, KeepFile,
                    ArchiveFails, DeliverRetrying, StartAttempt, Deliver, MarkDelivered,
                    Retry, GiveUp
      <3>3. CASE Api \/ Process
        BY <3>3 DEF Api, Reload, SwapStore, EditDestination, Process, Halt, Restart
      <3>4. CASE IdlePoll \/ UNCHANGED vars
        BY <3>4 DEF IdlePoll, vars
      <3>5. QED
        BY <3>1, <3>2, <3>3, <3>4 DEF Next
    <2>3. QED
      BY <2>1, <2>2
  <1>4. QED
    BY <1>2, <1>3, PTL DEF Spec, ArchivedWasDelivered

-----------------------------------------------------------------------------
(* A recorded delivery is final, as far as the store stays in use.         *)

\* Only reloads move the root, and the store follows it once.
RootInv ==
    /\ root \in {"project", ReloadRoot}
    /\ root = "project" => store = "project"
    /\ store = "project" /\ Delivering => began = "project"
    /\ Delivering => up

\* The delivery in hand is not recorded as done in the store in use, if that
\* is the one it began with.
HandInv == Delivering /\ began = store => rec[store][<<file, dest>>] # "DELIVERED"

FinalInv == RootInv /\ HandInv

\* The store is "project"'s until a swap, and again after a restart, which
\* ends every delivery.
LEMMA RootStep == TypeInv /\ RootInv /\ [Next]_vars => RootInv'
  <1> SUFFICES ASSUME TypeInv, RootInv, [Next]_vars PROVE RootInv'
    OBVIOUS
  <1> USE DEF RootInv, Delivering, workVars, destVars, boundVars, confVars
  <1>1. CASE Environment \/ PollSpool
    BY <1>1 DEF Environment, Spool, Collect, PollSpool, ListSpool, StartCycle,
                NothingEnabled, PickFile, SkipUnreadable, EndCycle
  <1>2. CASE ServeFile \/ DeliverRetrying
    BY <1>2 DEF ServeFile, SkipDelivered, BeginDest, AbortCycle, Archive, KeepFile, ArchiveFails,
                DeliverRetrying, StartAttempt, Deliver, MarkDelivered, Retry, GiveUp
  <1>3. CASE Api
    BY <1>3, RootAssumption DEF Api, Reload, SwapStore, EditDestination, Roots, TypeInv, TypeOK
  <1>4. CASE Process
    BY <1>4 DEF Process, Halt, Restart, TypeInv
  <1>5. CASE IdlePoll \/ UNCHANGED vars
    BY <1>5 DEF IdlePoll, vars
  <1>6. QED
    BY <1>1, <1>2, <1>3, <1>4, <1>5 DEF Next

\* _process_file begins no delivery whose record says DELIVERED, and nobody
\* but the worker writes the record meanwhile.
LEMMA FinalStep == TypeInv /\ FinalInv /\ [Next]_vars => FinalInv'
  <1> SUFFICES ASSUME TypeInv, RootInv, HandInv, [Next]_vars PROVE HandInv'
    BY RootStep DEF FinalInv
  <1> USE DEF HandInv, Delivering, workVars, destVars, boundVars, confVars
  <1>1. CASE Environment \/ PollSpool
    BY <1>1 DEF Environment, Spool, Collect, PollSpool, ListSpool, StartCycle,
                NothingEnabled, PickFile, SkipUnreadable, EndCycle
  <1>2. CASE ServeFile
    <2>1. ASSUME NEW d \in todo, BeginDest(d) PROVE HandInv'
      <3>1. d \in Dests /\ file \in Files /\ store \in Roots
        BY <2>1 DEF TypeInv, TypeOK, OnFile, BeginDest
      <3>2. rec'[store][<<file, d>>] # "DELIVERED"
        BY <2>1, <3>1, MarkAt DEF BeginDest, Ensure, Recorded
      <3>3. QED
        BY <2>1, <3>2 DEF BeginDest
    <2>2. CASE ~(\E d \in todo : BeginDest(d))
      BY <1>2, <2>2 DEF ServeFile, SkipDelivered, AbortCycle, Archive, KeepFile,
                        ArchiveFails
    <2>3. QED
      BY <2>1, <2>2
  <1>3. CASE DeliverRetrying
    <2>1. CASE pc' = "dests"
      BY <1>3, <2>1 DEF DeliverRetrying, StartAttempt, Deliver, MarkDelivered, Retry, GiveUp
    <2>2. CASE Deliver
      BY <2>2 DEF Deliver
    <2>3. CASE StartAttempt \/ Retry
      <3>1. file \in Files /\ dest \in Dests /\ store \in Roots
        BY <2>3 DEF TypeInv, TypeOK, OnFile, StartAttempt, Retry
      <3>2. PICK st \in {"TRANSFERRING", "RETRYING"} : Mark(file, dest, st)
        BY <2>3 DEF StartAttempt, Retry
      <3>3. rec'[store][<<file, dest>>] = st
        BY <3>1, <3>2, MarkAt
      <3>4. QED
        BY <2>3, <3>2, <3>3 DEF StartAttempt, Retry
    <2>4. QED
      BY <1>3, <2>1, <2>2, <2>3 DEF DeliverRetrying, MarkDelivered, GiveUp
  <1>4. CASE Api \/ Process
    <2>1. CASE SwapStore
      <3>1. store = "project" /\ store' = "above"
        BY <2>1 DEF SwapStore, RootInv, TypeInv, TypeOK, Roots
      <3>2. QED
        BY <2>1, <3>1 DEF SwapStore, RootInv
    <2>2. CASE Process
      BY <2>2 DEF RootInv, Process, Halt, Restart
    <2>3. QED
      BY <1>4, <2>1, <2>2 DEF Api, Reload, EditDestination
  <1>5. CASE IdlePoll \/ UNCHANGED vars
    BY <1>5 DEF IdlePoll, vars
  <1>6. QED
    BY <1>1, <1>2, <1>3, <1>4, <1>5 DEF Next

\* Wherever a reload leads, a record that says DELIVERED says something else
\* again only if a reload has given the worker this store since it found the
\* delivery not to be recorded: a delivery that has been recorded is repeated
\* neither after a restart nor after a second spooling of the document.
THEOREM RecordsAreFinal == Spec => DeliveredIsFinal
  <1>1. Init => FinalInv
    BY DEF Init, FinalInv, RootInv, HandInv, Delivering
  <1>2. Spec => [](TypeInv /\ FinalInv)
    BY <1>1, TypeInit, TypeStep, FinalStep, PTL DEF Spec
  <1>3. TypeInv /\ FinalInv /\ [Next]_vars =>
            [\A r \in Roots, f \in Files, d \in Dests :
                rec[r][<<f, d>>] = "DELIVERED" /\ rec'[r][<<f, d>>] # "DELIVERED" =>
                    r = store /\ store # began]_vars
    <2> SUFFICES ASSUME TypeInv, FinalInv, [Next]_vars,
                        NEW r \in Roots, NEW f \in Files, NEW d \in Dests,
                        rec[r][<<f, d>>] = "DELIVERED", rec'[r][<<f, d>>] # "DELIVERED"
                 PROVE  r = store /\ store # began
      OBVIOUS
    <2>1. CASE UNCHANGED rec
      BY <2>1
    <2>2. CASE pc = "dests" /\ \E e \in todo : Ensure(file, e)
      <3>1. PICK e \in todo : Ensure(file, e)
        BY <2>2
      <3>2. file \in Files /\ e \in Dests
        BY <2>2 DEF TypeInv, TypeOK, OnFile
      <3>3. CASE Recorded(file, e) = "NONE"
        <4>1. Mark(file, e, "PENDING")
          BY <3>1, <3>3 DEF Ensure
        <4>2. QED
          BY <3>2, <3>3, <4>1, MarkAt DEF Recorded
      <3>4. QED
        BY <3>1, <3>3 DEF Ensure
    <2>3. CASE \E st \in {"TRANSFERRING", "RETRYING", "FAILED"} : MarkStep(st)
      <3>1. file \in Files /\ dest \in Dests
        BY <2>3 DEF TypeInv, OnFile, Delivering, MarkStep
      <3>2. QED
        BY <2>3, <3>1, MarkAt DEF MarkStep, FinalInv, HandInv
    <2>4. CASE MarkDelivered
      <3>1. file \in Files /\ dest \in Dests
        BY <2>4 DEF TypeInv, OnFile, Delivering, MarkDelivered
      <3>2. QED
        BY <2>4, <3>1, MarkAt DEF MarkDelivered
    <2>5. QED
      BY <2>1, <2>2, <2>3, <2>4, RecordSteps
  <1>4. QED
    BY <1>2, <1>3, PTL DEF Spec, DeliveredIsFinal

=============================================================================
