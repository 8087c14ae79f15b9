---------------------------- MODULE CaseLifecycle ----------------------------
(***************************************************************************)
(* What the recovery of items promises, with no calls between services in  *)
(* sight: a case opens and claims both items of its match in one step, it  *)
(* closes and releases them in one step, and a closed case is done with.   *)
(* An opening that is refused leaves the items alone and may be tried      *)
(* again; so may that of a case whose cancellation reads as a failed       *)
(* opening, which RETRYABLE stands for.                                    *)
(***************************************************************************)
EXTENDS ItemTypes

CONSTANTS Items, Matches, LostOf, FoundOf

VARIABLES
    status,   \* of the case of a match
    item      \* status of an item

lifecycleVars == <<status, item>>

ItemsOf(m) == {LostOf[m], FoundOf[m]}

Init ==
    /\ status = [m \in Matches |-> "NONE"]
    /\ item   = [i \in Items |-> "AVAILABLE"]

Unopened(m) == status[m] \in {"NONE", "RETRYABLE"}

\* Both items of the match go from a status of S to s.
MoveItems(m, S, s) ==
    /\ \A i \in ItemsOf(m) : item[i] \in S
    /\ item' = [i \in Items |-> IF i \in ItemsOf(m) THEN s ELSE item[i]]

Open(m) ==
    /\ Unopened(m)
    /\ MoveItems(m, OpenableStatuses, "IN_RECOVERY")
    /\ status' = [status EXCEPT ![m] = "IN_PROGRESS"]

Refuse(m) ==
    /\ Unopened(m)
    /\ status' = [status EXCEPT ![m] = "RETRYABLE"]
    /\ UNCHANGED item

Cancel(m) ==
    /\ status[m] = "IN_PROGRESS"
    /\ \E s \in OpenableStatuses : MoveItems(m, {"IN_RECOVERY"}, s)
    /\ \E r \in {"CANCELLED", "RETRYABLE"} : status' = [status EXCEPT ![m] = r]

Complete(m) ==
    /\ status[m] = "IN_PROGRESS"
    /\ MoveItems(m, {"IN_RECOVERY"}, "RECOVERED")
    /\ status' = [status EXCEPT ![m] = "COMPLETED"]

\* Users move items that are in no case.
UserMoves(i) ==
    /\ \E s \in PublicTransitions[item[i]] : item' = [item EXCEPT ![i] = s]
    /\ UNCHANGED status

Next ==
    \/ \E m \in Matches : Open(m) \/ Refuse(m) \/ Cancel(m) \/ Complete(m)
    \/ \E i \in Items : UserMoves(i)

Spec == Init /\ [][Next]_lifecycleVars

=============================================================================
