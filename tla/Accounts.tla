------------------------------ MODULE Accounts ------------------------------
(***************************************************************************)
(* auth-service behind the gateway.  The gateway checks the token of every *)
(* call but a registration or a login, forwards the call once and waits    *)
(* for the answer until it gives up; the service goes on with a call that  *)
(* was given up, and one that is lost, or that the service dies with, takes *)
(* no further step.  auth-service looks an e-mail up before it stores it,  *)
(* with the hashing of the password in between, and relies on a unique     *)
(* index.                                                                  *)
(*                                                                         *)
(* Accounts are never changed, deactivated or deleted, and every one has   *)
(* the role USER, which all routes admit.                                  *)
(***************************************************************************)
EXTENDS Naturals

CONSTANTS
    Addresses,    \* e-mail addresses as they are spelled in calls
    Canonical,    \* the address without spaces, in lower case
    Passwords,
    Lifetime,     \* of a token
    MaxCalls,     \* bound: calls in a behaviour
    MaxTime       \* bound: time

ASSUME AddressesAssumption ==
    /\ Canonical \in [Addresses -> Addresses]
    /\ \A a \in Addresses : Canonical[Canonical[a]] = Canonical[a]

ASSUME BoundsAssumption == Lifetime \in Nat /\ MaxCalls \in Nat /\ MaxTime \in Nat

VARIABLES
    clock,
    users,       \* table users; an account has the number of the call that created it
    made,        \* calls made so far, numbered as they come
    call,        \* what a call asks for
    phase,       \* how far the service is with it
    response,    \* what the service answered
    answer       \* status the client was answered by the gateway

vars == <<clock, users, made, call, phase, response, answer>>

Calls == 1..MaxCalls

Mailboxes == {Canonical[a] : a \in Addresses}

None == "NONE"

User == [id : Calls, email : Mailboxes, password : Passwords]

Token == [subject : Calls, exp : Nat]

NoToken == [subject |-> 0, exp |-> 0]

\* "use" stands for the routes of the other services.
PublicKinds == {"register", "login"}

Kinds == PublicKinds \cup {"me", "use"}

Request ==
    [kind : PublicKinds, address : Addresses, password : Passwords, token : {NoToken}]
      \cup [kind : Kinds \ PublicKinds, address : {None}, password : {None}, token : Token \cup {NoToken}]

NoRequest == [kind |-> None, address |-> None, password |-> None, token |-> NoToken]

\* Statuses of answers; 0 is none yet, and 504 stands for 502 too.
Statuses == {200, 201, 401, 409, 500}

Response == [status : Statuses, token : Token \cup {NoToken}]

NoResponse == [status |-> 0, token |-> NoToken]

-----------------------------------------------------------------------------
(* The services' rules. *)

\* Mutant: addresses are compared as they are spelled.
AsSpelled(address) == address

NormalizeEmail(address) == Canonical[address]

\* The token has expired, for the gateway and auth-service alike.
Expired(token) == token.exp < clock

\* The gateway lets the call through.
Admitted(request) ==
    request.kind \in PublicKinds \/ (request.token # NoToken /\ ~Expired(request.token))

\* get_user_by_email
AccountsOf(address) == {u \in users : u.email = NormalizeEmail(address)}

\* The accounts a login gives access to.
Authenticated(request) == {u \in AccountsOf(request.address) : u.password = request.password}

\* Mutant: the token is made out to the call.
TokenOfCall(r, u) == [subject |-> r, exp |-> clock + Lifetime]

\* Mutant: the token names the account by its e-mail.
TokenByEmail(r, u) == [subject |-> u.email, exp |-> clock + Lifetime]

\* create_access_token
TokenFor(r, u) == [subject |-> u.id, exp |-> clock + Lifetime]

-----------------------------------------------------------------------------
Init ==
    /\ clock    = 0
    /\ users    = {}
    /\ made     = 0
    /\ call     = [r \in Calls |-> NoRequest]
    /\ phase    = [r \in Calls |-> "absent"]
    /\ response = [r \in Calls |-> NoResponse]
    /\ answer   = [r \in Calls |-> 0]

Tick ==
    /\ clock < MaxTime
    /\ clock' = clock + 1
    /\ UNCHANGED <<users, made, call, phase, response, answer>>

\* The tokens that clients were given.
Held == {response[r].token : r \in {q \in Calls : answer[q] = 200}} \cup {NoToken}

\* A client calls the gateway, with a token it was given if with any: the call
\* is forwarded, or refused with 401.
Make(request) ==
    LET r == made + 1 IN
    /\ made < MaxCalls
    /\ request.token \in Held
    /\ made' = r
    /\ call' = [call EXCEPT ![r] = request]
    /\ IF Admitted(request)
       THEN phase' = [phase EXCEPT ![r] = "sent"] /\ UNCHANGED answer
       ELSE answer' = [answer EXCEPT ![r] = 401] /\ UNCHANGED phase
    /\ UNCHANGED <<clock, users, response>>

Respond(r, status, token) ==
    /\ phase'    = [phase EXCEPT ![r] = "answered"]
    /\ response' = [response EXCEPT ![r] = [status |-> status, token |-> token]]

Working(r, kind) == phase[r] = "sent" /\ call[r].kind = kind

\* register_user looks for the e-mail.
LookUp(r) ==
    /\ Working(r, "register")
    /\ IF AccountsOf(call[r].address) # {}
       THEN Respond(r, 409, NoToken)
       ELSE phase' = [phase EXCEPT ![r] = "hashed"] /\ UNCHANGED response
    /\ UNCHANGED <<clock, users, made, call, answer>>

\* Mutant: there is no unique index.
StoreAlways(r) ==
    /\ phase[r] = "hashed"
    /\ users' = users \cup {[id |-> r, email |-> NormalizeEmail(call[r].address), password |-> call[r].password]}
    /\ phase' = [phase EXCEPT ![r] = "stored"]
    /\ UNCHANGED <<clock, made, call, response, answer>>

\* The account is committed, unless another one with its e-mail was first: the
\* unique index refuses the row, which nobody handles.
Store(r) ==
    /\ phase[r] = "hashed"
    /\ IF AccountsOf(call[r].address) = {}
       THEN /\ users' = users \cup {[id       |-> r,
                                     email    |-> NormalizeEmail(call[r].address),
                                     password |-> call[r].password]}
            /\ phase' = [phase EXCEPT ![r] = "stored"]
            /\ UNCHANGED response
       ELSE Respond(r, 500, NoToken) /\ UNCHANGED users
    /\ UNCHANGED <<clock, made, call, answer>>

\* The committed account is read back, and the call answered.
Created(r) ==
    /\ phase[r] = "stored"
    /\ Respond(r, 201, NoToken)
    /\ UNCHANGED <<clock, users, made, call, answer>>

\* authenticate_user
Login(r) ==
    /\ Working(r, "login")
    /\ \/ \E u \in Authenticated(call[r]) : Respond(r, 200, TokenFor(r, u))
       \/ Authenticated(call[r]) = {} /\ Respond(r, 401, NoToken)
    /\ UNCHANGED <<clock, users, made, call, answer>>

\* auth-service checks the token once more, and that its subject exists.
Me(r) ==
    LET token == call[r].token IN
    /\ Working(r, "me")
    /\ Respond(r, IF ~Expired(token) /\ \E u \in users : u.id = token.subject THEN 200 ELSE 401, NoToken)
    /\ UNCHANGED <<clock, users, made, call, answer>>

\* The other services look at no token.
Use(r) ==
    /\ Working(r, "use")
    /\ Respond(r, 200, NoToken)
    /\ UNCHANGED <<clock, users, made, call, answer>>

\* The database fails, which nobody handles: when the e-mail is looked up, at
\* the commit, or after it, when the account is read back.  A token is checked
\* before the database is asked for its subject.
Fail(r) ==
    /\ phase[r] \in {"sent", "hashed", "stored"}
    /\ call[r].kind = "me" => ~Expired(call[r].token)
    /\ Respond(r, 500, NoToken)
    /\ UNCHANGED <<clock, users, made, call, answer>>

Waiting(r) == r <= made /\ answer[r] = 0

Relay(r) ==
    /\ Waiting(r)
    /\ phase[r] = "answered"
    /\ answer' = [answer EXCEPT ![r] = response[r].status]
    /\ UNCHANGED <<clock, users, made, call, phase, response>>

\* No answer in time, or the connection broke.
GiveUp(r) ==
    /\ Waiting(r)
    /\ answer' = [answer EXCEPT ![r] = 504]
    /\ UNCHANGED <<clock, users, made, call, phase, response>>

Done ==
    /\ made = MaxCalls
    /\ \A r \in Calls : answer[r] # 0
    /\ UNCHANGED vars

Next ==
    \/ Tick
    \/ \E request \in [kind : PublicKinds, address : Addresses, password : Passwords, token : {NoToken}]
                        \cup [kind : Kinds \ PublicKinds, address : {None}, password : {None}, token : Held] :
          Make(request)
    \/ \E r \in Calls :
          \/ LookUp(r) \/ Store(r) \/ Created(r) \/ Login(r) \/ Me(r) \/ Use(r)
          \/ Fail(r) \/ Relay(r) \/ GiveUp(r)
    \/ Done

Spec == Init /\ [][Next]_vars

-----------------------------------------------------------------------------
(* Properties. *)

TypeOK ==
    /\ clock \in 0..MaxTime
    /\ users \subseteq User
    /\ made \in 0..MaxCalls
    /\ call \in [Calls -> Request \cup {NoRequest}]
    /\ phase \in [Calls -> {"absent", "sent", "hashed", "stored", "answered"}]
    /\ response \in [Calls -> Response \cup {NoResponse}]
    /\ answer \in [Calls -> Statuses \cup {0, 504}]

\* However two registrations race, and however their e-mails are spelled, a
\* mailbox has one account.
OneAccountPerMailbox ==
    \A u, v \in users : Canonical[u.email] = Canonical[v.email] => u = v

\* A client is refused on a protected route only without a token, or with one
\* that has expired, though gateway and service check it at different times.
TokensAreHonoured ==
    \A r \in Calls :
        answer[r] = 401 /\ call[r].kind \notin PublicKinds =>
            call[r].token = NoToken \/ Expired(call[r].token)

-----------------------------------------------------------------------------
(* The registry as its clients see it. *)

\* What an answer tells of a registration or a login.  A failed call tells as
\* little as one without an answer: its account may have been created.
Verdict(status) ==
    CASE status = 201          -> "created"
      [] status = 409          -> "refused"
      [] status = 200          -> "welcome"
      [] status = 401          -> "denied"
      [] status \in {500, 504} -> "unknown"
      [] status = 0            -> None

\* The call created an account.
HasAccount(r) == \E u \in users : u.id = r

\* What came of it, known from the moment of the commit or of the refusal.
Outcome(r) ==
    IF HasAccount(r) THEN "created"
    ELSE IF response[r].status \in {0, 500} THEN None
    ELSE Verdict(response[r].status)

Registering(r) == call[r].kind \in PublicKinds

AccountIn(m) == {u.password : u \in {v \in users : v.email = m}}

Asked(r) ==
    IF Registering(r)
    THEN [kind |-> call[r].kind, mailbox |-> Canonical[call[r].address], password |-> call[r].password]
    ELSE [kind |-> None, mailbox |-> None, password |-> None]

Registry == INSTANCE AccountRegistry WITH
    account <- [m \in Mailboxes |-> AccountIn(m)],
    asked   <- [r \in Calls |-> Asked(r)],
    verdict <- [r \in Calls |-> IF Registering(r) THEN Outcome(r) ELSE None],
    told    <- [r \in Calls |-> IF Registering(r) THEN Verdict(answer[r]) ELSE None]

\* auth-service behind the gateway is a registry: an account is created by one
\* of the calls that ask for it, at once, and every answer but "unknown" tells
\* what its call came to.  A database error, before the commit or after it, and
\* the unique index (500) tell nothing.
ImplementsRegistry == Registry!Spec

=============================================================================
