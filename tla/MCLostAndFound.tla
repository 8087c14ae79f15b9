--------------------------- MODULE MCLostAndFound ---------------------------
(***************************************************************************)
(* An instance of LostAndFound: one lost item that two found ones match,   *)
(* and two threads that close cases.                                       *)
(***************************************************************************)
EXTENDS LostAndFound

CONSTANTS l1, f1, f2, d1, c1, c2

MCLost     == {l1}
MCFound    == {f1, f2}
MCDeciders == {d1}
MCClosers  == {c1, c2}

MCClosings ==
    {[op |-> "cancel",   target |-> "AVAILABLE", result |-> "CANCELLED"],
     [op |-> "complete", target |-> "RECOVERED", result |-> "COMPLETED"]}

=============================================================================
