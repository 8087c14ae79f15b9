--------------------------- MODULE MCItemService ---------------------------
(***************************************************************************)
(* Instances of ItemService: a lost and a found item, which recovery       *)
(* requests name together, and the requests users send on one of them.     *)
(***************************************************************************)
EXTENDS ItemService

CONSTANTS lost, found, d1, d2, t1, t2

MCItems   == {lost, found}
MCDetails == {d1, d2}
MCTxns    == {t1, t2}

Ask(op, items, target, details) ==
    [op |-> op, items |-> items, target |-> target, details |-> details]

UserRequests ==
    {Ask("status", <<lost>>, s, Blank) : s \in {"MATCHED", "CLOSED", "RECOVERED"}}
        \cup {Ask("update", <<lost>>, Blank, d2)}

\* recovery-case-service names the lost item first, always.
RecoveryRequests ==
    {Ask("open", <<lost, found>>, Blank, Blank),
     Ask("complete", <<lost, found>>, Blank, Blank),
     Ask("cancel", <<lost, found>>, "AVAILABLE", Blank)}

\* The endpoint takes the items in any order: another caller may name the
\* found item first.
ReversedRequests == {Ask("open", <<found, lost>>, Blank, Blank)}

MCRequests == UserRequests \cup RecoveryRequests \cup ReversedRequests

\* With requests on either item alone, two threads can be busy at once without overlapping.
MCSerializedRequests ==
    UserRequests \cup RecoveryRequests
        \cup {Ask("status", <<found>>, "CANCELLED", Blank), Ask("update", <<found>>, Blank, d2)}

=============================================================================
