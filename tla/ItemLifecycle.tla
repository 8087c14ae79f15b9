--------------------------- MODULE ItemLifecycle ---------------------------
(***************************************************************************)
(* What item-service promises about items, with no transactions in sight:  *)
(* every accepted change of an item is one atomic move that starts from    *)
(* the item's current status and adds one to its version, and a recovery   *)
(* claims or releases all the items it names together.                     *)
(***************************************************************************)
EXTENDS Naturals, ItemTypes

CONSTANT Items

VARIABLES status, version

lifecycleVars == <<status, version>>

Init ==
    /\ status  = [i \in Items |-> "NONE"]
    /\ version = [i \in Items |-> 0]

Registered(i) == status[i] # "NONE"

\* Every item of S moves to s; each gets its next version.
MoveAll(S, s) ==
    /\ status'  = [i \in Items |-> IF i \in S THEN s ELSE status[i]]
    /\ version' = [i \in Items |-> IF i \in S THEN version[i] + 1 ELSE version[i]]

Register(i) ==
    /\ ~Registered(i)
    /\ MoveAll({i}, "AVAILABLE")

Edit(i) ==
    /\ Registered(i)
    /\ MoveAll({i}, status[i])

Decide(i, s) ==
    /\ Registered(i)
    /\ s \in PublicTransitions[status[i]]
    /\ MoveAll({i}, s)

ClaimForRecovery(S) ==
    /\ \A i \in S : status[i] \in OpenableStatuses
    /\ MoveAll(S, "IN_RECOVERY")

LeaveRecovery(S, s) ==
    /\ s \in OpenableStatuses \cup {"RECOVERED"}
    /\ \A i \in S : status[i] = "IN_RECOVERY"
    /\ MoveAll(S, s)

Next ==
    \/ \E i \in Items : Register(i) \/ Edit(i)
    \/ \E i \in Items, s \in Statuses : Decide(i, s)
    \/ \E S \in (SUBSET Items) \ {{}} :
          ClaimForRecovery(S) \/ \E s \in Statuses : LeaveRecovery(S, s)

Spec == Init /\ [][Next]_lifecycleVars

=============================================================================
