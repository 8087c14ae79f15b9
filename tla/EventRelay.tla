----------------------------- MODULE EventRelay -----------------------------
(***************************************************************************)
(* What an outbox promises: an event that was accepted waits until a copy  *)
(* of it is confirmed to have reached the queues, or until MaxTries tries  *)
(* failed.  Copies are made only while it waits, and may be many.          *)
(***************************************************************************)
EXTENDS Naturals

CONSTANTS Events, MaxTries

VARIABLES state, tries, copies

relayVars == <<state, tries, copies>>

Init ==
    /\ state  = [e \in Events |-> "absent"]
    /\ tries  = [e \in Events |-> 0]
    /\ copies = [e \in Events |-> 0]

Accept(e) ==
    /\ state[e] = "absent"
    /\ state' = [state EXCEPT ![e] = "waiting"]
    /\ UNCHANGED <<tries, copies>>

Deliver(e) ==
    /\ state[e] = "waiting"
    /\ copies' = [copies EXCEPT ![e] = @ + 1]
    /\ UNCHANGED <<state, tries>>

Confirm(e) ==
    /\ state[e] = "waiting"
    /\ copies[e] > 0
    /\ state' = [state EXCEPT ![e] = "delivered"]
    /\ tries' = [tries EXCEPT ![e] = @ + 1]
    /\ UNCHANGED copies

Fail(e) ==
    /\ state[e] = "waiting"
    /\ tries' = [tries EXCEPT ![e] = @ + 1]
    /\ state' = [state EXCEPT ![e] = IF tries[e] + 1 = MaxTries THEN "given up" ELSE "waiting"]
    /\ UNCHANGED copies

Next == \E e \in Events : Accept(e) \/ Deliver(e) \/ Confirm(e) \/ Fail(e)

Spec == Init /\ [][Next]_relayVars

=============================================================================
