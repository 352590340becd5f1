------------------------------ MODULE Delivery ------------------------------
(***************************************************************************)
(* What ParserConnectionManager.deliver promises its caller, and all that  *)
(* the delivery step of Router relies on: a message is offered to the      *)
(* parser any number of times, one offer at a time, also when it has been  *)
(* acknowledged; every offer is answered; an acknowledgement means that    *)
(* the parser has handled the message; and a failed offer means nothing:   *)
(* the parser may have handled it, or may handle it still.                 *)
(***************************************************************************)
CONSTANT Messages

VARIABLES
    offer,      \* message -> "idle" or "pending"
    offered,    \* messages that have been offered at least once
    acked,      \* messages with an acknowledged offer
    handled     \* messages the parser has handled

vars == <<offer, offered, acked, handled>>

Init ==
    /\ offer = [m \in Messages |-> "idle"]
    /\ offered = {}
    /\ acked = {}
    /\ handled = {}

Ask(m) ==
    /\ offer[m] = "idle"
    /\ offer' = [offer EXCEPT ![m] = "pending"]
    /\ offered' = offered \cup {m}
    /\ UNCHANGED <<acked, handled>>

\* At any time after the first offer, however that ended.
Handle(m) ==
    /\ m \in offered
    /\ handled' = handled \cup {m}
    /\ UNCHANGED <<offer, offered, acked>>

Ack(m) ==
    /\ offer[m] = "pending"
    /\ m \in handled
    /\ offer' = [offer EXCEPT ![m] = "idle"]
    /\ acked' = acked \cup {m}
    /\ UNCHANGED <<offered, handled>>

Fail(m) ==
    /\ offer[m] = "pending"
    /\ offer' = [offer EXCEPT ![m] = "idle"]
    /\ UNCHANGED <<offered, acked, handled>>

Next == \E m \in Messages : Ask(m) \/ Handle(m) \/ Ack(m) \/ Fail(m)

\* Every offer is answered.
Spec ==
    /\ Init /\ [][Next]_vars
    /\ \A m \in Messages : WF_vars(Ack(m) \/ Fail(m))
=============================================================================
