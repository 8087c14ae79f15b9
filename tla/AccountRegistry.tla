--------------------------- MODULE AccountRegistry ---------------------------
(***************************************************************************)
(* What auth-service promises its clients behind the gateway: registering  *)
(* and logging in take effect at one instant, and an answer tells what     *)
(* happened at that instant.  A call whose answer is unknown may have      *)
(* taken effect, may yet do so, or never.                                  *)
(***************************************************************************)
CONSTANTS
    Calls,        \* the calls clients make
    Mailboxes,    \* e-mail addresses, however spelled
    Passwords

VARIABLES
    account,    \* the password of a mailbox's account, if it has one
    asked,      \* what a call asks for
    verdict,    \* what came of it
    told        \* what its client was told

vars == <<account, asked, verdict, told>>

None == "NONE"

Query == [kind : {"register", "login"}, mailbox : Mailboxes, password : Passwords]

NoQuery == [kind |-> None, mailbox |-> None, password |-> None]

Init ==
    /\ account = [m \in Mailboxes |-> {}]
    /\ asked   = [r \in Calls |-> NoQuery]
    /\ verdict = [r \in Calls |-> None]
    /\ told    = [r \in Calls |-> None]

Ask(r, query) ==
    /\ asked[r] = NoQuery
    /\ asked' = [asked EXCEPT ![r] = query]
    /\ UNCHANGED <<account, verdict, told>>

Decide(r, v) == verdict[r] = None /\ verdict' = [verdict EXCEPT ![r] = v]

Register(r) ==
    /\ asked[r].kind = "register"
    /\ account[asked[r].mailbox] = {}
    /\ account' = [account EXCEPT ![asked[r].mailbox] = {asked[r].password}]
    /\ Decide(r, "created")
    /\ UNCHANGED <<asked, told>>

\* The mailbox has an account.
Refuse(r) ==
    /\ asked[r].kind = "register"
    /\ account[asked[r].mailbox] # {}
    /\ Decide(r, "refused")
    /\ UNCHANGED <<account, asked, told>>

Login(r) ==
    /\ asked[r].kind = "login"
    /\ Decide(r, IF asked[r].password \in account[asked[r].mailbox] THEN "welcome" ELSE "denied")
    /\ UNCHANGED <<account, asked, told>>

Tell(r) ==
    /\ asked[r] # NoQuery
    /\ told[r] = None
    /\ \/ verdict[r] # None /\ told' = [told EXCEPT ![r] = verdict[r]]
       \/ told' = [told EXCEPT ![r] = "unknown"]
    /\ UNCHANGED <<account, asked, verdict>>

Next ==
    \E r \in Calls :
        \/ \E query \in Query : Ask(r, query)
        \/ Register(r) \/ Refuse(r) \/ Login(r) \/ Tell(r)

Spec == Init /\ [][Next]_vars

=============================================================================
