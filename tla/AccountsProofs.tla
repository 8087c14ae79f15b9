--------------------------- MODULE AccountsProofs ---------------------------
(***************************************************************************)
(* Proofs about Accounts, for every set of addresses and passwords, every  *)
(* lifetime of tokens and every number of calls.                           *)
(***************************************************************************)
EXTENDS Accounts, TLAPS

-----------------------------------------------------------------------------
(* The inductive invariant. *)

\* A call that was not made has left no trace.
UnmadeInv ==
    \A r \in Calls :
        r > made => /\ call[r] = NoRequest /\ phase[r] = "absent"
                    /\ response[r] = NoResponse /\ answer[r] = 0

\* The service answers a call as the last thing it does with it.
ResponseInv ==
    \A r \in Calls :
        /\ phase[r] # "answered" => response[r] = NoResponse
        /\ phase[r] = "answered" => response[r].status # 0
        /\ phase[r] \in {"hashed", "stored"} => call[r].kind = "register"

UniqueInv == \A u, v \in users : u.email = v.email => u = v

\* A token is of an account.
Names(token) == token # NoToken => \E u \in users : u.id = token.subject

TokenInv == \A r \in Calls : Names(call[r].token) /\ Names(response[r].token)

Refused(status, r) ==
    status = 401 /\ call[r].kind \notin PublicKinds => call[r].token = NoToken \/ Expired(call[r].token)

RefusalInv == \A r \in Calls : Refused(response[r].status, r) /\ Refused(answer[r], r)

\* A call has an account from its commit on, whatever becomes of its answer.
AccountInv ==
    \A r \in Calls :
        /\ phase[r] = "stored" \/ response[r].status = 201 => HasAccount(r)
        /\ HasAccount(r) => phase[r] \in {"stored", "answered"} /\ response[r].status \in {0, 201, 500}

IInv == TypeOK /\ UnmadeInv /\ ResponseInv /\ UniqueInv /\ TokenInv /\ RefusalInv /\ AccountInv

-----------------------------------------------------------------------------
(* What the actions do, said once. *)

LEMMA Vocabulary ==
    /\ NoRequest.token = NoToken /\ NoRequest.kind = None
    /\ NoResponse.token = NoToken /\ NoResponse.status = 0
    /\ None \notin Kinds /\ PublicKinds \subseteq Kinds
    /\ \A q \in Request : q.kind \in Kinds /\ q.token \in Token \cup {NoToken}
    /\ \A q \in Request : q.kind \in PublicKinds => q.address \in Addresses /\ q.password \in Passwords
    /\ \A q \in Response \cup {NoResponse} : q.status \in Statuses \cup {0} /\ q.token \in Token \cup {NoToken}
    /\ \A a \in Addresses : NormalizeEmail(a) \in Mailboxes
    BY DEF NoRequest, NoResponse, NoToken, None, Kinds, PublicKinds, Request, Response, Statuses,
           NormalizeEmail, Mailboxes

LEMMA MailboxesAreCanonical == \A m \in Mailboxes : m \in Addresses /\ Canonical[m] = m
    BY AddressesAssumption DEF Mailboxes

\* Every handler of the service ends in one of these; only a registration that
\* was committed may be answered 201, and it is answered 201 or fails.
Handled(r, status, token) ==
    /\ phase[r] \in {"sent", "hashed", "stored"}
    /\ IF phase[r] = "stored" THEN status \in {201, 500} ELSE status # 201
    /\ status \in Statuses
    /\ token \in Token \cup {NoToken}
    /\ Names(token)
    /\ Refused(status, r)
    /\ Respond(r, status, token)
    /\ UNCHANGED <<clock, users, made, call, answer>>

LEMMA LookUpHandles ==
    ASSUME IInv, NEW r \in Calls, LookUp(r)
    PROVE  \/ Handled(r, 409, NoToken)
           \/ /\ phase[r] = "sent" /\ call[r].kind = "register"
              /\ phase' = [phase EXCEPT ![r] = "hashed"]
              /\ UNCHANGED <<clock, users, made, call, response, answer>>
    BY DEF LookUp, Working, Handled, Names, Refused, Statuses

LEMMA StoreHandles ==
    ASSUME IInv, NEW r \in Calls, Store(r)
    PROVE  \/ AccountsOf(call[r].address) # {} /\ Handled(r, 500, NoToken)
           \/ /\ AccountsOf(call[r].address) = {}
              /\ phase[r] = "hashed"
              /\ users' = users \cup {[id       |-> r,
                                       email    |-> NormalizeEmail(call[r].address),
                                       password |-> call[r].password]}
              /\ phase' = [phase EXCEPT ![r] = "stored"]
              /\ UNCHANGED <<clock, made, call, response, answer>>
  <1>1. CASE AccountsOf(call[r].address) = {}
    BY <1>1 DEF Store
  <1>2. CASE AccountsOf(call[r].address) # {}
    BY <1>2 DEF Store, Handled, Names, Refused, Statuses
  <1>3. QED
    BY <1>1, <1>2

LEMMA CreatedHandles ==
    ASSUME IInv, NEW r \in Calls, Created(r)
    PROVE  call[r].kind = "register" /\ phase[r] = "stored" /\ Handled(r, 201, NoToken)
    BY DEF Created, Handled, Names, Refused, Statuses, IInv, ResponseInv

LEMMA FailHandles ==
    ASSUME IInv, NEW r \in Calls, Fail(r)
    PROVE  Handled(r, 500, NoToken)
    BY DEF Fail, Handled, Names, Refused, Statuses

LEMMA LoginHandles ==
    ASSUME IInv, NEW r \in Calls, Login(r)
    PROVE  \/ Authenticated(call[r]) = {} /\ Handled(r, 401, NoToken)
           \/ \E u \in Authenticated(call[r]) : Handled(r, 200, TokenFor(r, u))
  <1>0. phase[r] = "sent" /\ call[r].kind = "login" /\ UNCHANGED <<clock, users, made, call, answer>>
    BY DEF Login, Working
  <1>1. CASE Authenticated(call[r]) = {} /\ Respond(r, 401, NoToken)
    BY <1>0, <1>1 DEF Handled, Names, Refused, Statuses, PublicKinds
  <1>2. ASSUME NEW u \in Authenticated(call[r]), Respond(r, 200, TokenFor(r, u))
        PROVE  Handled(r, 200, TokenFor(r, u))
    <2>1. u \in users /\ u \in User /\ TokenFor(r, u).subject = u.id
      BY DEF Authenticated, AccountsOf, IInv, TypeOK, TokenFor
    <2>2. TokenFor(r, u) \in Token
      <3>1. clock + Lifetime \in Nat
        BY BoundsAssumption DEF IInv, TypeOK
      <3>2. QED
        BY <2>1, <3>1 DEF TokenFor, Token, User
    <2>3. QED
      BY <1>0, <1>2, <2>1, <2>2 DEF Handled, Names, Refused, Statuses
  <1>3. QED
    BY <1>1, <1>2 DEF Login

LEMMA MeHandles ==
    ASSUME IInv, NEW r \in Calls, Me(r)
    PROVE  /\ call[r].kind = "me"
           /\ Handled(r, 200, NoToken) \/ Handled(r, 401, NoToken)
  <1> DEFINE honoured == ~Expired(call[r].token) /\ \E u \in users : u.id = call[r].token.subject
  <1>0. phase[r] = "sent" /\ call[r].kind = "me" /\ UNCHANGED <<clock, users, made, call, answer>>
    BY DEF Me, Working
  <1>1. CASE honoured
    <2>1. Respond(r, 200, NoToken)
      BY <1>1 DEF Me
    <2>2. QED
      BY <1>0, <2>1 DEF Handled, Names, Refused, Statuses
  <1>2. CASE ~honoured
    <2>1. Respond(r, 401, NoToken)
      BY <1>2 DEF Me
    <2>2. Refused(401, r)
      BY <1>2 DEF Refused, IInv, TokenInv, Names
    <2>3. QED
      BY <1>0, <2>1, <2>2 DEF Handled, Names, Statuses
  <1>3. QED
    BY <1>0, <1>1, <1>2

LEMMA UseHandles ==
    ASSUME IInv, NEW r \in Calls, Use(r)
    PROVE  call[r].kind = "use" /\ Handled(r, 200, NoToken)
    BY DEF Use, Working, Handled, Names, Refused, Statuses

LEMMA MakeAsks ==
    ASSUME IInv, NEW request, request.token \in Held, Make(request)
    PROVE  /\ made + 1 \in Calls /\ made' = made + 1
           /\ call' = [call EXCEPT ![made + 1] = request]
           /\ \/ phase' = [phase EXCEPT ![made + 1] = "sent"] /\ UNCHANGED answer
              \/ /\ request.kind \notin PublicKinds
                 /\ request.token = NoToken \/ Expired(request.token)
                 /\ answer' = [answer EXCEPT ![made + 1] = 401] /\ UNCHANGED phase
           /\ UNCHANGED <<clock, users, response>>
  <1>1. made + 1 \in Calls
    BY BoundsAssumption DEF Make, Calls, IInv, TypeOK
  <1>2. QED
    BY <1>1 DEF Make, Admitted

LEMMA HeldTokens ==
    ASSUME IInv, NEW token \in Held
    PROVE  token \in Token \cup {NoToken} /\ Names(token)
    BY Vocabulary DEF IInv, TypeOK, TokenInv, Held, Names

\* What a client may ask for.
Requests ==
    [kind : PublicKinds, address : Addresses, password : Passwords, token : {NoToken}]
      \cup [kind : Kinds \ PublicKinds, address : {None}, password : {None}, token : Held]

LEMMA RequestsAreTyped ==
    ASSUME IInv, NEW request \in Requests
    PROVE  request \in Request /\ request.token \in Held /\ Names(request.token)
  <1>1. NoToken \in Held
    BY DEF Held
  <1>2. Held \subseteq Token \cup {NoToken}
    BY HeldTokens
  <1>3. CASE request \in [kind : PublicKinds, address : Addresses, password : Passwords, token : {NoToken}]
    BY <1>1, <1>3 DEF Request, Names
  <1>4. CASE request \in [kind : Kinds \ PublicKinds, address : {None}, password : {None}, token : Held]
    <2>1. request.token \in Held
      BY <1>4
    <2>2. Names(request.token)
      BY <2>1, HeldTokens
    <2>3. QED
      BY <1>2, <1>4, <2>1, <2>2 DEF Request
  <1>5. QED
    BY <1>3, <1>4 DEF Requests

-----------------------------------------------------------------------------
(* The invariant is inductive. *)

LEMMA InitInv == Init => IInv
  <1> SUFFICES ASSUME Init PROVE IInv
    OBVIOUS
  <1>1. TypeOK
    BY BoundsAssumption DEF Init, TypeOK
  <1>2. UnmadeInv /\ ResponseInv /\ UniqueInv
    BY DEF Init, UnmadeInv, ResponseInv, UniqueInv
  <1>3. TokenInv /\ RefusalInv
    BY Vocabulary DEF Init, TokenInv, RefusalInv, Names, Refused
  <1>4. AccountInv
    BY Vocabulary DEF Init, AccountInv, HasAccount
  <1>5. QED
    BY <1>1, <1>2, <1>3, <1>4 DEF IInv

\* A step in which the service answers a call keeps the invariant.
LEMMA HandledInv ==
    ASSUME IInv, NEW r \in Calls, NEW status, NEW token, Handled(r, status, token)
    PROVE  IInv'
  <1>0. /\ phase' = [phase EXCEPT ![r] = "answered"]
        /\ response' = [response EXCEPT ![r] = [status |-> status, token |-> token]]
        /\ UNCHANGED <<clock, users, made, call, answer>>
    BY DEF Handled, Respond
  <1>1. TypeOK'
    BY <1>0 DEF Handled, IInv, TypeOK, Response
  <1>2. UnmadeInv'
    BY <1>0 DEF Handled, IInv, UnmadeInv, TypeOK
  <1>3. ResponseInv'
    BY <1>0 DEF Handled, IInv, ResponseInv, TypeOK, Statuses
  <1>4. UniqueInv'
    BY <1>0 DEF IInv, UniqueInv
  <1>5. TokenInv'
    BY <1>0 DEF Handled, IInv, TokenInv, TypeOK, Names
  <1>6. RefusalInv'
    BY <1>0 DEF Handled, IInv, RefusalInv, TypeOK, Refused, Expired
  <1>7. AccountInv'
    BY <1>0 DEF Handled, IInv, AccountInv, TypeOK, HasAccount
  <1>8. QED
    BY <1>1, <1>2, <1>3, <1>4, <1>5, <1>6, <1>7 DEF IInv

LEMMA MakeInv ==
    ASSUME IInv, NEW request \in Requests, Make(request)
    PROVE  IInv'
  <1> DEFINE r == made + 1
  <1>0. request \in Request /\ request.token \in Held /\ Names(request.token)
    BY RequestsAreTyped
  <1>a. /\ r \in Calls /\ made' = r
        /\ call' = [call EXCEPT ![r] = request]
        /\ \/ phase' = [phase EXCEPT ![r] = "sent"] /\ UNCHANGED answer
           \/ /\ request.kind \notin PublicKinds
              /\ request.token = NoToken \/ Expired(request.token)
              /\ answer' = [answer EXCEPT ![r] = 401] /\ UNCHANGED phase
        /\ UNCHANGED <<clock, users, response>>
    BY <1>0, MakeAsks
  <1>b. /\ call[r] = NoRequest /\ phase[r] = "absent"
        /\ response[r] = NoResponse /\ answer[r] = 0
    BY <1>a DEF IInv, UnmadeInv, TypeOK
  <1> HIDE DEF r
  <1>1. TypeOK'
    <2>1. made' \in 0..MaxCalls
      BY <1>a DEF Calls, IInv, TypeOK
    <2>2. QED
      BY <1>0, <1>a, <2>1 DEF IInv, TypeOK, Statuses
  <1>2. UnmadeInv'
    <2>1. ASSUME NEW q \in Calls, q > made' PROVE q > made /\ q # r
      BY <1>a, <2>1 DEF r, Calls, IInv, TypeOK
    <2>2. QED
      BY <1>a, <2>1 DEF IInv, UnmadeInv, TypeOK
  <1>3. ResponseInv'
    BY <1>a, <1>b DEF IInv, ResponseInv, TypeOK
  <1>4. UniqueInv'
    BY <1>a DEF IInv, UniqueInv
  <1>5. TokenInv'
    BY <1>0, <1>a DEF IInv, TokenInv, TypeOK, Names
  <1>6. RefusalInv'
    BY <1>a, <1>b, Vocabulary DEF IInv, RefusalInv, TypeOK, Refused, Expired
  <1>7. AccountInv'
    BY <1>a, <1>b DEF IInv, AccountInv, TypeOK, HasAccount
  <1>8. QED
    BY <1>1, <1>2, <1>3, <1>4, <1>5, <1>6, <1>7 DEF IInv

LEMMA StoreInv ==
    ASSUME IInv, NEW r \in Calls, Store(r)
    PROVE  IInv'
  <1>1. CASE Handled(r, 500, NoToken)
    BY <1>1, HandledInv
  <1>2. CASE ~Handled(r, 500, NoToken)
    <2> DEFINE u == [id |-> r, email |-> NormalizeEmail(call[r].address), password |-> call[r].password]
    <2>0. /\ AccountsOf(call[r].address) = {}
          /\ phase[r] = "hashed"
          /\ users' = users \cup {u}
          /\ phase' = [phase EXCEPT ![r] = "stored"]
          /\ UNCHANGED <<clock, made, call, response, answer>>
      BY <1>2, StoreHandles
    <2>1. u \in User /\ u.email = NormalizeEmail(call[r].address)
      <3>1. call[r].kind = "register" /\ call[r] \in Request
        BY <2>0, Vocabulary DEF IInv, ResponseInv, TypeOK, Kinds, PublicKinds
      <3>2. call[r].address \in Addresses /\ call[r].password \in Passwords
        BY <3>1, Vocabulary DEF PublicKinds
      <3>3. QED
        BY <3>2, Vocabulary DEF User
    <2>2. \A v \in users : v.email # u.email
      BY <2>0, <2>1 DEF AccountsOf
    <2> HIDE DEF u
    <2>3. TypeOK'
      BY <2>0, <2>1 DEF IInv, TypeOK, Response, Statuses
    <2>4. UnmadeInv'
      BY <2>0 DEF IInv, UnmadeInv, TypeOK
    <2>5. ResponseInv'
      BY <2>0 DEF IInv, ResponseInv, TypeOK
    <2>6. UniqueInv'
      BY <2>0, <2>2 DEF IInv, UniqueInv
    <2>7. TokenInv'
      BY <2>0 DEF IInv, TokenInv, TypeOK, Names
    <2>8. RefusalInv'
      BY <2>0 DEF IInv, RefusalInv, TypeOK, Refused, Expired
    <2>9. AccountInv'
      <3>1. u.id = r
        BY DEF u
      <3>2. response[r].status = 0
        BY <2>0, Vocabulary DEF IInv, ResponseInv
      <3>3. ASSUME NEW q \in Calls PROVE HasAccount(q)' <=> HasAccount(q) \/ q = r
        BY <2>0, <3>1 DEF HasAccount
      <3>4. QED
        BY <2>0, <3>2, <3>3 DEF IInv, AccountInv, TypeOK
    <2>10. QED
      BY <2>3, <2>4, <2>5, <2>6, <2>7, <2>8, <2>9 DEF IInv
  <1>3. QED
    BY <1>1, <1>2

\* A step that only moves a call on, or answers a client.
LEMMA QuietInv ==
    ASSUME IInv, NEW r \in Calls,
           \/ LookUp(r) /\ ~Handled(r, 409, NoToken)
           \/ Relay(r) \/ GiveUp(r)
    PROVE  IInv'
  <1>1. CASE phase[r] = "sent" /\ call[r].kind = "register" /\ phase' = [phase EXCEPT ![r] = "hashed"]
             /\ UNCHANGED <<clock, users, made, call, response, answer>>
    <2>1. TypeOK' /\ UnmadeInv' /\ ResponseInv' /\ AccountInv'
      BY <1>1 DEF IInv, TypeOK, UnmadeInv, ResponseInv, AccountInv, HasAccount
    <2>2. UniqueInv' /\ TokenInv' /\ RefusalInv'
      BY <1>1 DEF IInv, UniqueInv, TokenInv, RefusalInv, Names, Refused, Expired
    <2>3. QED
      BY <2>1, <2>2 DEF IInv
  <1>3. ASSUME NEW status \in Statuses \cup {0, 504}, r <= made, Refused(status, r),
               answer' = [answer EXCEPT ![r] = status],
               UNCHANGED <<clock, users, made, call, phase, response>>
        PROVE  IInv'
    <2>1. TypeOK' /\ ResponseInv' /\ AccountInv'
      BY <1>3 DEF IInv, TypeOK, ResponseInv, AccountInv, HasAccount
    <2>2. UnmadeInv'
      <3>1. \A q \in Calls : q > made => q # r
        BY <1>3 DEF Calls, IInv, TypeOK
      <3>2. QED
        BY <1>3, <3>1 DEF IInv, TypeOK, UnmadeInv
    <2>3. UniqueInv' /\ TokenInv'
      BY <1>3 DEF IInv, UniqueInv, TokenInv, Names
    <2>4. RefusalInv'
      BY <1>3 DEF IInv, TypeOK, RefusalInv, Refused, Expired
    <2>5. QED
      BY <2>1, <2>2, <2>3, <2>4 DEF IInv
  <1>4. CASE Relay(r)
    <2>1. response[r].status \in Statuses \cup {0, 504} /\ Refused(response[r].status, r)
      BY Vocabulary DEF IInv, TypeOK, RefusalInv
    <2>2. QED
      BY <1>3, <1>4, <2>1 DEF Relay, Waiting
  <1>5. CASE GiveUp(r)
    <2>1. Refused(504, r)
      BY DEF Refused
    <2>2. QED
      BY <1>3, <1>5, <2>1 DEF GiveUp, Waiting
  <1>6. QED
    BY <1>1, <1>4, <1>5, LookUpHandles

LEMMA NextInv ==
    ASSUME IInv, [Next]_vars
    PROVE  IInv'
  <1>1. CASE Tick
    <2>1. clock <= clock' /\ clock \in Nat /\ clock' \in 0..MaxTime
      BY <1>1, BoundsAssumption DEF Tick, IInv, TypeOK
    <2>2. TypeOK' /\ UnmadeInv' /\ ResponseInv' /\ UniqueInv' /\ AccountInv'
      BY <1>1, <2>1 DEF Tick, IInv, TypeOK, UnmadeInv, ResponseInv, UniqueInv, AccountInv, HasAccount
    <2>3. TokenInv'
      BY <1>1 DEF Tick, IInv, TokenInv, Names
    <2>4. RefusalInv'
      <3>1. ASSUME NEW token \in Token, Expired(token) PROVE Expired(token)'
        BY <2>1, <3>1 DEF Token, Expired
      <3>2. \A r \in Calls : call[r].token \in Token \cup {NoToken}
        BY Vocabulary DEF IInv, TypeOK
      <3>3. UNCHANGED <<call, response, answer>>
        BY <1>1 DEF Tick
      <3>4. QED
        BY <3>1, <3>2, <3>3 DEF IInv, RefusalInv, Refused
    <2>5. QED
      BY <2>2, <2>3, <2>4 DEF IInv
  <1>2. ASSUME NEW request \in Requests, Make(request) PROVE IInv'
    BY <1>2, MakeInv
  <1>3. ASSUME NEW r \in Calls, LookUp(r) PROVE IInv'
    BY <1>3, HandledInv, QuietInv
  <1>4. ASSUME NEW r \in Calls, Store(r) PROVE IInv'
    BY <1>4, StoreInv
  <1>5. ASSUME NEW r \in Calls, Login(r) PROVE IInv'
    BY <1>5, LoginHandles, HandledInv
  <1>6. ASSUME NEW r \in Calls, Me(r) PROVE IInv'
    BY <1>6, MeHandles, HandledInv
  <1>7. ASSUME NEW r \in Calls, Use(r) PROVE IInv'
    BY <1>7, UseHandles, HandledInv
  <1>8. ASSUME NEW r \in Calls, Relay(r) \/ GiveUp(r) PROVE IInv'
    BY <1>8, QuietInv
  <1>9. CASE UNCHANGED vars
    <2>1. TypeOK' /\ UnmadeInv' /\ ResponseInv' /\ UniqueInv' /\ AccountInv'
      BY <1>9 DEF vars, IInv, TypeOK, UnmadeInv, ResponseInv, UniqueInv, AccountInv, HasAccount
    <2>2. TokenInv' /\ RefusalInv'
      BY <1>9 DEF vars, IInv, TokenInv, RefusalInv, Names, Refused, Expired
    <2>3. QED
      BY <2>1, <2>2 DEF IInv
  <1>10. ASSUME NEW r \in Calls, Created(r) \/ Fail(r) PROVE IInv'
    BY <1>10, CreatedHandles, FailHandles, HandledInv
  <1>11. QED
    BY <1>1, <1>2, <1>3, <1>4, <1>5, <1>6, <1>7, <1>8, <1>9, <1>10 DEF Next, Done, Requests

\* The inductive invariant holds in every state.
THEOREM AccountsInvariant == Spec => []IInv
    BY InitInv, NextInv, PTL DEF Spec

\* The state of auth-service and of the gateway always has the shape it is
\* declared with.
THEOREM TypeCorrect == Spec => []TypeOK
    BY AccountsInvariant, PTL DEF IInv

\* A mailbox has one account, for any number of racing registrations and any
\* spelling of addresses.
THEOREM OneAccount == Spec => []OneAccountPerMailbox
  <1>1. IInv => OneAccountPerMailbox
    BY MailboxesAreCanonical DEF IInv, UniqueInv, OneAccountPerMailbox, TypeOK, User
  <1>2. QED
    BY <1>1, AccountsInvariant, PTL

\* A token that a login gave is refused by nobody until it expires.
THEOREM TokensHonoured == Spec => []TokensAreHonoured
  <1>1. IInv => TokensAreHonoured
    BY DEF IInv, RefusalInv, Refused, TokensAreHonoured
  <1>2. QED
    BY <1>1, AccountsInvariant, PTL

-----------------------------------------------------------------------------
(* The service implements the registry. *)

Accounted == [m \in Mailboxes |-> AccountIn(m)]

Queries == [r \in Calls |-> Asked(r)]

VerdictOn(r, status) == IF Registering(r) THEN Verdict(status) ELSE None

Verdicts == [r \in Calls |-> IF Registering(r) THEN Outcome(r) ELSE None]

\* What comes of a call without an account that is answered.
Sentence(r, status) == IF status = 500 THEN None ELSE VerdictOn(r, status)

Told == [r \in Calls |-> VerdictOn(r, answer[r])]

LEMMA RegistryVocabulary ==
    /\ Registry!Init <=> /\ Accounted = [m \in Mailboxes |-> {}]
                         /\ Queries = [r \in Calls |-> Registry!NoQuery]
                         /\ Verdicts = [r \in Calls |-> None]
                         /\ Told = [r \in Calls |-> None]
    /\ (UNCHANGED Registry!vars) <=> UNCHANGED <<Accounted, Queries, Verdicts, Told>>
    /\ Registry!NoQuery = [kind |-> None, mailbox |-> None, password |-> None]
    /\ Registry!Query = [kind : {"register", "login"}, mailbox : Mailboxes, password : Passwords]
    BY DEF Registry!Init, Registry!vars, Registry!NoQuery, Registry!Query, Registry!None, None,
           Accounted, Queries, Verdicts, Told, VerdictOn

LEMMA RegistrySteps ==
    ASSUME NEW r \in Calls,
           \/ \E q \in Registry!Query : Registry!Ask(r, q)
           \/ Registry!Register(r) \/ Registry!Refuse(r) \/ Registry!Login(r) \/ Registry!Tell(r)
    PROVE  Registry!Next
    BY DEF Registry!Next

LEMMA RegistryAsk ==
    ASSUME NEW r \in Calls, NEW q,
           Queries[r] = Registry!NoQuery, Queries' = [Queries EXCEPT ![r] = q],
           UNCHANGED <<Accounted, Verdicts, Told>>
    PROVE  Registry!Ask(r, q)
    BY DEF Registry!Ask, Accounted, Queries, Verdicts, Told, VerdictOn

LEMMA RegistryRegister ==
    ASSUME NEW r \in Calls,
           Queries[r].kind = "register", Accounted[Queries[r].mailbox] = {},
           Accounted' = [Accounted EXCEPT ![Queries[r].mailbox] = {Queries[r].password}],
           Verdicts[r] = None, Verdicts' = [Verdicts EXCEPT ![r] = "created"],
           UNCHANGED <<Queries, Told>>
    PROVE  Registry!Register(r)
    BY DEF Registry!Register, Registry!Decide, Registry!None, None,
           Accounted, Queries, Verdicts, Told, VerdictOn

LEMMA RegistryRefuse ==
    ASSUME NEW r \in Calls,
           Queries[r].kind = "register", Accounted[Queries[r].mailbox] # {},
           Verdicts[r] = None, Verdicts' = [Verdicts EXCEPT ![r] = "refused"],
           UNCHANGED <<Accounted, Queries, Told>>
    PROVE  Registry!Refuse(r)
    BY DEF Registry!Refuse, Registry!Decide, Registry!None, None,
           Accounted, Queries, Verdicts, Told, VerdictOn

LEMMA RegistryLogin ==
    ASSUME NEW r \in Calls,
           Queries[r].kind = "login", Verdicts[r] = None,
           Verdicts' = [Verdicts EXCEPT ![r] =
              IF Queries[r].password \in Accounted[Queries[r].mailbox] THEN "welcome" ELSE "denied"],
           UNCHANGED <<Accounted, Queries, Told>>
    PROVE  Registry!Login(r)
    BY DEF Registry!Login, Registry!Decide, Registry!None, None,
           Accounted, Queries, Verdicts, Told, VerdictOn

LEMMA RegistryTell ==
    ASSUME NEW r \in Calls,
           Queries[r] # Registry!NoQuery, Told[r] = None,
           \/ Verdicts[r] # None /\ Told' = [Told EXCEPT ![r] = Verdicts[r]]
           \/ Told' = [Told EXCEPT ![r] = "unknown"],
           UNCHANGED <<Accounted, Queries, Verdicts>>
    PROVE  Registry!Tell(r)
    BY DEF Registry!Tell, Registry!None, None, Accounted, Queries, Verdicts, Told, VerdictOn

\* A call that registers or logs in, told in the registry's words.
LEMMA RegisteringCall ==
    ASSUME IInv, NEW r \in Calls, Registering(r)
    PROVE  /\ Queries[r].kind = call[r].kind
           /\ Queries[r].mailbox = NormalizeEmail(call[r].address)
           /\ Queries[r].password = call[r].password
           /\ Queries[r].mailbox \in Mailboxes
           /\ Queries[r] # Registry!NoQuery
           /\ Accounted[Queries[r].mailbox] = {} <=> AccountsOf(call[r].address) = {}
           /\ call[r].password \in Accounted[Queries[r].mailbox] <=> Authenticated(call[r]) # {}
           /\ call[r].address \in Addresses /\ call[r].password \in Passwords
  <1>1. call[r] \in Request
    BY Vocabulary DEF IInv, TypeOK, Registering
  <1>2. call[r].address \in Addresses /\ call[r].password \in Passwords
    BY <1>1, Vocabulary DEF Registering
  <1>3. Queries[r] = [kind     |-> call[r].kind,
                      mailbox  |-> NormalizeEmail(call[r].address),
                      password |-> call[r].password]
    BY DEF Queries, Asked, NormalizeEmail
  <1>4. /\ Queries[r].kind = call[r].kind
        /\ Queries[r].mailbox = NormalizeEmail(call[r].address)
        /\ Queries[r].password = call[r].password
    BY <1>3
  <1>5. Queries[r].mailbox \in Mailboxes
    BY <1>2, <1>4, Vocabulary
  <1>6. Queries[r] # Registry!NoQuery
    BY <1>4, Vocabulary, RegistryVocabulary DEF Registering
  <1>7. Accounted[Queries[r].mailbox] = {u.password : u \in AccountsOf(call[r].address)}
    BY <1>4, <1>5 DEF Accounted, AccountIn, AccountsOf
  <1>8. Accounted[Queries[r].mailbox] = {} <=> AccountsOf(call[r].address) = {}
    BY <1>7
  <1>9. call[r].password \in Accounted[Queries[r].mailbox] <=> Authenticated(call[r]) # {}
    BY <1>7 DEF Authenticated
  <1>10. QED
    BY <1>2, <1>4, <1>5, <1>6, <1>8, <1>9

\* Who touches neither accounts nor calls leaves the registry's view of them.
LEMMA SameView ==
    /\ UNCHANGED users => UNCHANGED Accounted
    /\ UNCHANGED call => UNCHANGED Queries
    /\ UNCHANGED <<users, call, response>> => UNCHANGED Verdicts
    /\ UNCHANGED <<call, answer>> => UNCHANGED Told
    BY DEF Accounted, AccountIn, Queries, Asked, Verdicts, Told, VerdictOn, Registering, Outcome, HasAccount

\* The service's answer is a verdict on a call that was not committed.
LEMMA ResponseIsVerdict ==
    ASSUME IInv, NEW r \in Calls, NEW status, NEW token, Handled(r, status, token)
    PROVE  /\ phase[r] = "stored" => UNCHANGED Verdicts
           /\ phase[r] # "stored" => /\ Verdicts[r] = None
                                     /\ Verdicts' = [Verdicts EXCEPT ![r] = Sentence(r, status)]
  <1>1. /\ response' = [response EXCEPT ![r] = [status |-> status, token |-> token]]
        /\ UNCHANGED <<users, call>> /\ status \in Statuses
    BY DEF Handled, Respond
  <1>2. response[r].status = 0 /\ response \in [Calls -> Response \cup {NoResponse}]
    BY Vocabulary DEF Handled, IInv, ResponseInv, TypeOK
  <1>3. ASSUME NEW q \in Calls
        PROVE  response'[q].status = IF q = r THEN status ELSE response[q].status
    BY <1>1, <1>2
  <1>4. ASSUME NEW q \in Calls, q # r PROVE Verdicts'[q] = Verdicts[q]
    BY <1>1, <1>3, <1>4 DEF Verdicts, Outcome, HasAccount, Registering
  <1>5. HasAccount(r)' = HasAccount(r) /\ Registering(r)' = Registering(r)
    BY <1>1 DEF HasAccount, Registering
  <1>6. CASE phase[r] = "stored"
    <2>1. HasAccount(r)
      BY <1>6 DEF IInv, AccountInv
    <2>2. Verdicts'[r] = Verdicts[r]
      BY <1>5, <2>1 DEF Verdicts, Outcome
    <2>3. QED
      BY <1>4, <1>6, <2>2 DEF Verdicts
  <1>7. CASE phase[r] # "stored"
    <2>1. ~HasAccount(r)
      BY <1>7 DEF Handled, IInv, AccountInv
    <2>2. Verdicts[r] = None
      BY <1>2, <2>1 DEF Verdicts, Outcome
    <2>3. Verdicts'[r] = Sentence(r, status)
      <3>1. status # 0
        BY <1>1 DEF Statuses
      <3>2. QED
        BY <1>3, <1>5, <2>1, <3>1 DEF Verdicts, Outcome, Sentence, VerdictOn
    <2>4. QED
      BY <1>4, <1>7, <2>2, <2>3 DEF Verdicts
  <1>8. QED
    BY <1>6, <1>7

\* An answer to the client is told to it.
LEMMA AnswerIsTold ==
    ASSUME IInv, NEW r \in Calls, NEW status,
           answer[r] = 0, answer' = [answer EXCEPT ![r] = status],
           UNCHANGED <<users, call, response>>
    PROVE  /\ UNCHANGED <<Accounted, Queries, Verdicts>>
           /\ Told[r] = None
           /\ Told' = [Told EXCEPT ![r] = VerdictOn(r, status)]
  <1>1. ASSUME NEW q \in Calls
        PROVE  Told'[q] = IF q = r THEN VerdictOn(r, status) ELSE Told[q]
    BY DEF Told, VerdictOn, Registering, IInv, TypeOK
  <1>2. Told' = [Told EXCEPT ![r] = VerdictOn(r, status)]
    BY <1>1 DEF Told
  <1>3. Told[r] = None
    BY DEF Told, VerdictOn, Verdict
  <1>4. QED
    BY <1>2, <1>3, SameView

LEMMA InitRegistry == Init => Registry!Init
  <1> SUFFICES ASSUME Init PROVE Registry!Init
    OBVIOUS
  <1>1. \A r \in Calls : ~Registering(r)
    BY Vocabulary DEF Init, Registering
  <1>2. Accounted = [m \in Mailboxes |-> {}]
    BY DEF Init, Accounted, AccountIn
  <1>3. Queries = [r \in Calls |-> Registry!NoQuery]
    BY <1>1, RegistryVocabulary DEF Queries, Asked
  <1>4. Verdicts = [r \in Calls |-> None] /\ Told = [r \in Calls |-> None]
    BY <1>1 DEF Verdicts, Told, VerdictOn
  <1>5. QED
    BY <1>2, <1>3, <1>4, RegistryVocabulary

LEMMA MakeIsAsk ==
    ASSUME IInv, NEW request \in Requests, Make(request)
    PROVE  [Registry!Next]_(Registry!vars)
  <1>r. PICK r \in Calls : r = made + 1
    BY RequestsAreTyped, MakeAsks
  <1>0. /\ r \in Calls
        /\ call' = [call EXCEPT ![r] = request]
        /\ \/ UNCHANGED answer
           \/ request.kind \notin PublicKinds /\ answer' = [answer EXCEPT ![r] = 401]
        /\ UNCHANGED <<users, response>>
        /\ request \in Request
        /\ ~HasAccount(r)
    <2>1. ~HasAccount(r)
      BY <1>r DEF IInv, UnmadeInv, AccountInv, TypeOK
    <2>2. QED
      BY <2>1, <1>r, RequestsAreTyped, MakeAsks
  <1>1. call[r] = NoRequest /\ response[r] = NoResponse /\ answer[r] = 0
    BY <1>r DEF IInv, UnmadeInv, TypeOK
  <1>2. ~Registering(r) /\ Queries[r] = Registry!NoQuery /\ Verdicts[r] = None /\ Told[r] = None
    BY <1>0, <1>1, Vocabulary, RegistryVocabulary
       DEF Registering, Queries, Asked, Verdicts, Told, VerdictOn, Outcome
  <1>3. \A q \in Calls \ {r} : call'[q] = call[q] /\ answer'[q] = answer[q]
    BY <1>0 DEF IInv, TypeOK
  <1>4. call'[r] = request /\ (Registering(r)' => answer'[r] = 0)
    <2>1. call'[r] = request /\ (request.kind \in PublicKinds => answer'[r] = 0)
      BY <1>0, <1>1 DEF IInv, TypeOK
    <2>2. Registering(r)' => call'[r].kind \in PublicKinds
      BY DEF Registering
    <2>3. QED
      BY <2>1, <2>2
  <1>5. UNCHANGED <<Accounted, Verdicts, Told>>
    <2>1. UNCHANGED Accounted
      BY <1>0, SameView
    <2>2. ASSUME NEW q \in Calls PROVE Verdicts'[q] = Verdicts[q] /\ Told'[q] = Told[q]
      <3>1. CASE q = r
        <4>1. Verdicts'[q] = None
          <5>1. ~HasAccount(r)' /\ response'[r].status = 0
            BY <1>0, <1>1, Vocabulary DEF HasAccount
          <5>2. QED
            BY <3>1, <5>1 DEF Verdicts, Outcome
        <4>2. Told'[q] = IF Registering(r)' THEN Verdict(answer'[r]) ELSE None
          BY <3>1 DEF Told, VerdictOn, Registering
        <4>3. Verdict(0) = None
          BY DEF Verdict
        <4>4. QED
          BY <1>2, <1>4, <3>1, <4>1, <4>2, <4>3
      <3>2. CASE q # r
        BY <1>0, <1>3, <3>2 DEF Verdicts, Told, VerdictOn, Registering, Outcome, HasAccount
      <3>3. QED
        BY <3>1, <3>2
    <2>3. QED
      BY <2>1, <2>2 DEF Verdicts, Told
  <1>6. \A q \in Calls \ {r} : Queries'[q] = Queries[q]
    BY <1>3 DEF Queries, Asked, Registering
  <1>7. CASE request.kind \in PublicKinds
    <2> DEFINE query == [kind |-> request.kind, mailbox |-> Canonical[request.address], password |-> request.password]
    <2>1. Queries'[r] = query
      BY <1>0, <1>4, <1>7 DEF Queries, Asked, Registering
    <2>2. query \in Registry!Query
      BY <1>0, <1>7, Vocabulary, RegistryVocabulary DEF PublicKinds, NormalizeEmail
    <2> HIDE DEF query
    <2>3. Queries' = [Queries EXCEPT ![r] = query]
      BY <1>6, <2>1 DEF Queries
    <2>4. Registry!Ask(r, query)
      BY <1>2, <1>5, <2>3, RegistryAsk
    <2>5. QED
      BY <2>2, <2>4, RegistrySteps
  <1>8. CASE request.kind \notin PublicKinds
    <2>1. Queries'[r] = Registry!NoQuery
      BY <1>0, <1>4, <1>8, RegistryVocabulary DEF Queries, Asked, Registering
    <2>2. UNCHANGED Queries
      BY <1>2, <1>6, <2>1 DEF Queries
    <2>3. QED
      BY <1>5, <2>2, RegistryVocabulary
  <1>9. QED
    BY <1>7, <1>8

\* A registration that finds its e-mail taken when it looks.
LEMMA TakenIsRefuse ==
    ASSUME IInv, NEW r \in Calls, phase[r] = "sent",
           call[r].kind = "register", AccountsOf(call[r].address) # {},
           Handled(r, 409, NoToken)
    PROVE  Registry!Refuse(r)
  <1>1. Registering(r)
    BY DEF Registering, PublicKinds
  <1>2. Queries[r].kind = "register" /\ Accounted[Queries[r].mailbox] # {}
    BY <1>1, RegisteringCall
  <1>3. Verdicts[r] = None /\ Verdicts' = [Verdicts EXCEPT ![r] = Sentence(r, 409)]
    BY ResponseIsVerdict
  <1>4. Sentence(r, 409) = "refused"
    BY <1>1 DEF Sentence, VerdictOn, Verdict
  <1>5. UNCHANGED <<Accounted, Queries, Told>>
    BY SameView DEF Handled
  <1>6. QED
    BY <1>2, <1>3, <1>4, <1>5, RegistryRefuse

\* A call that fails, or that the unique index refuses, comes to nothing the
\* registry sees; nor does the answer to a call that was committed.
LEMMA SilentStutters ==
    ASSUME IInv, NEW r \in Calls, NEW status, NEW token, Handled(r, status, token),
           phase[r] = "stored" \/ status = 500 \/ ~Registering(r)
    PROVE  UNCHANGED Registry!vars
  <1>1. CASE phase[r] = "stored"
    BY <1>1, ResponseIsVerdict, SameView, RegistryVocabulary DEF Handled
  <1>2. CASE phase[r] # "stored"
    <2>1. Verdicts[r] = None /\ Verdicts' = [Verdicts EXCEPT ![r] = Sentence(r, status)]
      BY <1>2, ResponseIsVerdict
    <2>2. Sentence(r, status) = None
      BY <1>2 DEF Sentence, VerdictOn
    <2>3. UNCHANGED Verdicts
      BY <2>1, <2>2 DEF Verdicts
    <2>4. QED
      BY <2>3, SameView, RegistryVocabulary DEF Handled
  <1>3. QED
    BY <1>1, <1>2

LEMMA StoreIsRegister ==
    ASSUME IInv, NEW r \in Calls, Store(r)
    PROVE  Registry!Register(r) \/ UNCHANGED Registry!vars
  <1>0. phase[r] = "hashed" /\ call[r].kind = "register"
    BY DEF Store, IInv, ResponseInv
  <1>1. CASE AccountsOf(call[r].address) # {} /\ Handled(r, 500, NoToken)
    BY <1>1, SilentStutters
  <1>2. CASE AccountsOf(call[r].address) = {}
    <2>a. PICK m : m = NormalizeEmail(call[r].address)
      OBVIOUS
    <2>b. PICK u : u = [id |-> r, email |-> m, password |-> call[r].password]
      OBVIOUS
    <2>0. /\ users' = users \cup {u}
          /\ UNCHANGED <<clock, made, call, response, answer>>
      BY <1>2, <2>a, <2>b, StoreHandles DEF Handled
    <2>1. Registering(r)
      BY <1>0 DEF Registering, PublicKinds
    <2>2. /\ Queries[r].kind = "register" /\ Queries[r].mailbox = m
          /\ Queries[r].password = call[r].password
          /\ Accounted[m] = {} /\ m \in Mailboxes
      BY <1>0, <1>2, <2>1, <2>a, RegisteringCall
    <2>3. Accounted' = [Accounted EXCEPT ![m] = {call[r].password}]
      <3>1. u.email = m /\ u.password = call[r].password
        BY <2>b
      <3>2. {v \in users : v.email = m} = {}
        BY <1>2, <2>a DEF AccountsOf
      <3>3. ASSUME NEW n \in Mailboxes, n # m PROVE AccountIn(n)' = AccountIn(n)
        BY <2>0, <3>1, <3>3 DEF AccountIn
      <3>4. AccountIn(m)' = {call[r].password}
        <4>1. {v \in users' : v.email = m} = {u}
          BY <2>0, <3>1, <3>2
        <4>2. QED
          BY <3>1, <4>1 DEF AccountIn
      <3>5. QED
        BY <3>3, <3>4 DEF Accounted
    <2>4. Verdicts[r] = None
      <3>1. ~HasAccount(r) /\ response[r].status = 0
        BY <1>0, Vocabulary DEF IInv, AccountInv, ResponseInv
      <3>2. QED
        BY <3>1 DEF Verdicts, Outcome
    <2>5. Verdicts' = [Verdicts EXCEPT ![r] = "created"]
      <3>1. u.id = r
        BY <2>b
      <3>2. ASSUME NEW q \in Calls PROVE HasAccount(q)' <=> HasAccount(q) \/ q = r
        BY <2>0, <3>1 DEF HasAccount
      <3>3. ASSUME NEW q \in Calls
            PROVE  Verdicts'[q] = IF q = r THEN "created" ELSE Verdicts[q]
        BY <2>0, <2>1, <3>2 DEF Verdicts, Outcome, Registering
      <3>4. QED
        BY <3>3 DEF Verdicts
    <2>6. UNCHANGED <<Queries, Told>>
      BY <2>0, SameView
    <2>7. QED
      BY <2>2, <2>3, <2>4, <2>5, <2>6, RegistryRegister
  <1>3. QED
    BY <1>1, <1>2, StoreHandles

LEMMA LoginIsLogin ==
    ASSUME IInv, NEW r \in Calls, Login(r)
    PROVE  Registry!Login(r)
  <1>0. call[r].kind = "login" /\ Registering(r)
    BY DEF Login, Working, Registering, PublicKinds
  <1> DEFINE welcome == call[r].password \in Accounted[Queries[r].mailbox]
  <1>1. Queries[r].kind = "login" /\ Queries[r].password = call[r].password
    BY <1>0, RegisteringCall
  <1>2. welcome <=> Authenticated(call[r]) # {}
    BY <1>0, RegisteringCall
  <1>3. \E status, token : /\ Handled(r, status, token)
                           /\ status = IF welcome THEN 200 ELSE 401
    BY <1>2, LoginHandles
  <1>4. PICK status, token : Handled(r, status, token) /\ status = IF welcome THEN 200 ELSE 401
    BY <1>3
  <1>5. Verdicts[r] = None /\ Verdicts' = [Verdicts EXCEPT ![r] = Sentence(r, status)]
    BY <1>4, ResponseIsVerdict DEF Login, Working
  <1>6. Sentence(r, status) = IF welcome THEN "welcome" ELSE "denied"
    BY <1>0, <1>4 DEF Sentence, VerdictOn, Verdict
  <1>7. UNCHANGED <<Accounted, Queries, Told>>
    BY <1>4, SameView DEF Handled
  <1>8. QED
    BY <1>1, <1>5, <1>6, <1>7, RegistryLogin

LEMMA AnswerIsTell ==
    ASSUME IInv, NEW r \in Calls, NEW status,
           answer[r] = 0, answer' = [answer EXCEPT ![r] = status],
           UNCHANGED <<users, call, response>>,
           status = 504 \/ (status = response[r].status /\ status # 0)
    PROVE  [Registry!Next]_(Registry!vars)
  <1>1. /\ UNCHANGED <<Accounted, Queries, Verdicts>>
        /\ Told[r] = None
        /\ Told' = [Told EXCEPT ![r] = VerdictOn(r, status)]
    BY AnswerIsTold
  <1>2. CASE Registering(r)
    <2>1. Queries[r] # Registry!NoQuery
      BY <1>2, RegisteringCall
    <2>2. CASE status \in {500, 504}
      <3>1. VerdictOn(r, status) = "unknown"
        BY <1>2, <2>2 DEF VerdictOn, Verdict
      <3>2. Registry!Tell(r)
        BY <1>1, <2>1, <3>1, RegistryTell
      <3>3. QED
        BY <3>2, RegistrySteps
    <2>3. CASE status = response[r].status /\ status \notin {0, 500}
      <3>1. status \in Statuses
        BY <2>3, Vocabulary DEF IInv, TypeOK
      <3>2. VerdictOn(r, status) = Verdicts[r]
        <4>1. Verdict(201) = "created"
          BY DEF Verdict
        <4>2. HasAccount(r) <=> status = 201
          BY <2>3, <3>1 DEF IInv, AccountInv
        <4>3. Outcome(r) = Verdict(status)
          BY <2>3, <4>1, <4>2 DEF Outcome
        <4>4. QED
          BY <1>2, <4>3 DEF Verdicts, VerdictOn
      <3>3. Verdict(status) # None
        BY <3>1 DEF Verdict, Statuses, None
      <3>4. Verdicts[r] # None
        BY <1>2, <3>2, <3>3 DEF VerdictOn
      <3>5. QED
        BY <1>1, <2>1, <3>2, <3>4, RegistryTell, RegistrySteps
    <2>4. QED
      BY <2>2, <2>3
  <1>3. CASE ~Registering(r)
    <2>1. UNCHANGED Told
      BY <1>1, <1>3 DEF VerdictOn, Told
    <2>2. QED
      BY <1>1, <2>1, RegistryVocabulary
  <1>4. QED
    BY <1>2, <1>3

LEMMA NextRegistry ==
    ASSUME IInv, [Next]_vars
    PROVE  [Registry!Next]_(Registry!vars)
  <1>1. CASE Tick \/ Done \/ UNCHANGED vars
    <2>1. UNCHANGED <<users, call, response, answer>>
      BY <1>1 DEF Tick, Done, vars
    <2>2. QED
      BY <2>1, SameView, RegistryVocabulary
  <1>2. ASSUME NEW request \in Requests, Make(request) PROVE [Registry!Next]_(Registry!vars)
    BY <1>2, MakeIsAsk
  <1>3. ASSUME NEW r \in Calls, LookUp(r) PROVE [Registry!Next]_(Registry!vars)
    <2>1. call[r].kind = "register"
      BY <1>3 DEF LookUp, Working
    <2>2. CASE AccountsOf(call[r].address) # {}
      <3>1. Handled(r, 409, NoToken) /\ phase[r] = "sent"
        BY <1>3, <2>2 DEF LookUp, Working, Handled, Names, Refused, Statuses
      <3>2. QED
        BY <2>1, <2>2, <3>1, TakenIsRefuse, RegistrySteps
    <2>3. CASE AccountsOf(call[r].address) = {}
      BY <1>3, <2>3, SameView, RegistryVocabulary DEF LookUp
    <2>4. QED
      BY <2>2, <2>3
  <1>4. ASSUME NEW r \in Calls, Store(r) PROVE [Registry!Next]_(Registry!vars)
    BY <1>4, StoreIsRegister, RegistrySteps
  <1>5. ASSUME NEW r \in Calls, Login(r) PROVE Registry!Next
    BY <1>5, LoginIsLogin, RegistrySteps
  <1>6. ASSUME NEW r \in Calls, Me(r) \/ Use(r) PROVE UNCHANGED Registry!vars
    BY <1>6, MeHandles, UseHandles, SilentStutters DEF Registering, PublicKinds
  <1>7. ASSUME NEW r \in Calls, Created(r) \/ Fail(r) PROVE UNCHANGED Registry!vars
    BY <1>7, CreatedHandles, FailHandles, SilentStutters
  <1>8. ASSUME NEW r \in Calls, Relay(r) PROVE [Registry!Next]_(Registry!vars)
    <2>1. response[r].status # 0
      BY <1>8 DEF Relay, IInv, ResponseInv
    <2>2. QED
      BY <1>8, <2>1, AnswerIsTell DEF Relay, Waiting
  <1>9. ASSUME NEW r \in Calls, GiveUp(r) PROVE [Registry!Next]_(Registry!vars)
    BY <1>9, AnswerIsTell DEF GiveUp, Waiting
  <1>10. QED
    BY <1>1, <1>2, <1>3, <1>4, <1>5, <1>6, <1>7, <1>8, <1>9 DEF Next, Requests

\* auth-service behind the gateway implements the registry: registrations and
\* logins take effect at one instant, and every answer but "unknown" tells
\* what happened then, for any number of calls that race, are lost or given up.
THEOREM AccountsImplementRegistry == Spec => ImplementsRegistry
  <1>1. IInv /\ [Next]_vars => [Registry!Next]_(Registry!vars)
    BY NextRegistry
  <1>2. QED
    BY <1>1, InitRegistry, AccountsInvariant, PTL DEF Spec, ImplementsRegistry, Registry!Spec

=============================================================================
