----------------------------- MODULE ItemTypes -----------------------------
(***************************************************************************)
(* The vocabulary of an item of item-service: its statuses and the moves   *)
(* the service allows between them.  NONE stands for the from_status of    *)
(* the entry that registers an item, and for an item not registered yet.   *)
(***************************************************************************)

Statuses ==
    {"AVAILABLE", "MATCHED", "IN_RECOVERY", "RECOVERED", "CANCELLED", "CLOSED"}

TerminalStatuses == {"CANCELLED", "CLOSED"}

\* Moves a user may ask for.  An item in recovery is left to the recovery flow.
PublicTransitions ==
    [s \in Statuses |->
        CASE s = "AVAILABLE" -> {"MATCHED", "CANCELLED", "CLOSED"}
          [] s = "MATCHED"   -> {"AVAILABLE", "CANCELLED", "CLOSED"}
          [] s = "RECOVERED" -> {"CLOSED"}
          [] OTHER           -> {}]

\* Statuses set by the recovery flow alone.
ReservedStatuses == {"IN_RECOVERY", "RECOVERED"}

\* Statuses an item can be claimed from, and returned to.
OpenableStatuses == {"AVAILABLE", "MATCHED"}

=============================================================================
