# Lost & found: a TLA+ project for its services

The repository is a lost-and-found system of five FastAPI services. Each has its
own PostgreSQL database; three of them talk through RabbitMQ, and one calls
another over HTTP. This directory holds TLA+ models of the parts that keep state
and race with each other, TLC runs over small instances, and TLAPS proofs of
theorems that hold for instances of any size.

Contents: [the system](#the-system) - [the modules](#the-modules) -
[the runs](#the-runs) - [the proofs](#the-proofs) -
[disagreements found](#disagreements-found) - [not modelled](#what-is-not-modelled) -
[plan](#plan).

## The system

| component | state | operations | talks to |
|---|---|---|---|
| item-service | `items` (status, version, fields), `item_status_history`, outbox | create, update, change status (users); open, cancel, complete recovery (internal) | writes its outbox; answers recovery-case-service over HTTP |
| outbox and publisher (the same code in item, matching and recovery) | `outbox_events` (status, publish_attempts, available_at) | enqueue in the domain transaction; a loop publishes batches and marks each event PUBLISHED, FAILED or EXHAUSTED | RabbitMQ, with publisher confirms and `mandatory` |
| matching-service | `item_projections`, `match_suggestions`, `processed_events`, outbox | consume ItemCreated/ItemUpdated; accept or reject a suggestion | consumes item events; publishes MatchSuggested/Accepted/Rejected |
| recovery-case-service | `recovery_cases`, `saga_steps`, `case_events`, `processed_events`, outbox | consume MatchAccepted and open a case; cancel or complete a case | HTTP calls to item-service between read and commit |
| auth-service | `users`, an outbox nobody writes | register, log in, check a token | the gateway and clients |
| gateway | none | check the token, forward the body unchanged with three headers and a correlation id, relay the answer | all services, with a timeout and no retry |
| PostgreSQL, RabbitMQ | external | READ COMMITTED, row locks; a topic exchange with dead-letter queues | |

How it runs, and what makes it hard:

- Endpoints are plain functions: FastAPI runs them in a thread pool, one session
  (one transaction) each. Nothing uses `SELECT ... FOR UPDATE` but the outbox and
  nothing checks a version on UPDATE, so **transactions that overlap on a row read
  old values and overwrite each other**, limited to the columns the ORM saw change.
- A publisher is one asyncio task per process; its session holds the locks of a
  batch only until the first commit. A crash between publishing and committing,
  or a lost confirmation, sends an event again; retry delays let later events
  overtake earlier ones.
- A consumer is one asyncio task that handles one message at a time
  (`process(requeue=False)`: an exception sends the message to the dead-letter
  queue), beside the threads that serve users. Its handler is synchronous and blocks
  the event loop, so requests *arrive* between messages only; those already in a
  thread go on beside it, which is enough for every interleaving modelled here.
- The recovery saga spans two databases and one HTTP call with a timeout. The
  call may be executed although the caller saw it fail.

What each component must get right:

- item-service: statuses follow the state machine, a recovery moves both items or
  none, the audit trail and the events agree with the row, versions number changes.
- outbox: nothing marked published that did not arrive; retries end; duplicates
  are bounded; every event is settled in the end.
- matching: projections hold the newest version known; what is offered holds for
  the projections; a pair is decided once and the decision announced.
- recovery: an active case holds its items, no found item has two active cases, a
  closed case stays closed, an event is registered only with its case.
- auth and gateway: one account per mailbox, however registrations race; a token is
  refused only when it has expired; an answer tells what its call came to, unless
  the gateway gave up on it.
- all together: what is offered is free once the events are in, an accepted pair
  gets a case, cases and item statuses agree.

PROJECT.json lists the hazards in the code, line by line, each with the properties
that cover it.

## The modules

Dependencies (an arrow is EXTENDS unless marked):

    ItemTypes <- ItemLifecycle <- (INSTANCE) ItemService <- MCItemService
                                              ItemService <- ItemServiceProofs
    EventRelay <- (INSTANCE) OutboxPublisher <- MCOutboxPublisher, OutboxPublisherProofs
    ItemTypes <- Matching <- MatchRaces <- ScoredMatching <- MCMatching
                          MatchCriteria <- ScoredMatching
    MatchingProofs <- MatchRacesProofs <- MatchCriteriaProofs
    ItemTypes <- CaseLifecycle <- (INSTANCE) RecoveryCases <- MCRecoveryCases, RecoveryCasesProofs
    Matching, RecoveryCases <- (INSTANCE) LostAndFound <- MCLostAndFound, LostAndFoundProofs
    MatchingProofs, RecoveryCasesProofs <- (INSTANCE) LostAndFoundProofs
    AccountRegistry <- (INSTANCE) Accounts <- MCAccounts, AccountsProofs

The components meet in `LostAndFound`, and through what one assumes and another
shows.

`Matching` takes from item-service a stream of events each numbered one after
*some* earlier one, for a lost update may fall back any number of versions (1, 2, 3,
2): that is what `VersionsNeverSkip` leaves open when requests overlap. The broker may
deliver them in any order, again or never, as the outbox allows. `RecoveryCases`
calls item-service in two steps, its unlocked read with the decision and its commit,
so that calls overlap there as the transactions of `ItemService` do; `ItemService`
shows what a single call keeps (both items or none) through flushes, locks and aborts.

### ItemTypes, ItemLifecycle, ItemService

`ItemTypes` has the six statuses and the move tables of `item_service.py:38-46`.
`ItemService` models every writing endpoint as a transaction of a thread:

- `Begin` is the ORM's SELECT (`get_item_by_id`, `get_items_by_ids`), no lock;
- `Stamp` sets the item's `updated_at`, which becomes its history entry's `occurred_at`,
  before the UPDATE waits for the row lock (`item_service.py:248-249`);
- `Flush` is one `session.flush()` of `update_item` or `apply_status_transition`:
  the rules are checked against the row read, and the UPDATE takes the row lock;
- `Reject` is the raised error: the session closes, flushed items are undone;
- `Commit` makes rows, history and events visible together. `Overwrite` is the
  UPDATE: status or fields (whichever the ORM saw change) and version, over what
  the table holds by then. `Changed` is the ORM's object, which the event carries;
- `Abort` is a lost thread or connection, `DeadlockVictim` PostgreSQL breaking a
  cycle of lock waits. `Create` is one step: nobody knows the id before it commits.

The version is computed in Python from the row read (`item.version += 1`), so a
lost update repeats a version. The history is a set of dated rows: the sequence in
`history` is the order of commits, which the program cannot see, and no property
relies on it. Dates are readings of one clock that never repeat; only the order of
those given to one item matters, so `clock` counts them per item.

`SerializedSpec` keeps the steps and restricts the behaviours to those in which no two
requests in progress name the same item.

`ItemLifecycle` is the promise without transactions: atomic legal moves from the
current status, one version each, a recovery's items together. `ImplementsLifecycle`
maps `status` and `version` to the row's columns.

Abstracted: field values to `Details`; reasons, actors; ItemCreated and
ItemUpdated differ by name only.

### EventRelay, OutboxPublisher

One module for three copies of the code (`publisher.py` and `outbox_repository.py`
of item, matching and recovery). An event is the number that orders it by
`occurred_at`. `Connect` is the loop reaching the broker, which it must do before a
batch is selected; as long as it fails no attempt is counted. `Select` takes the first
`BatchSize` due rows that nobody has locked and keeps the objects read (`copy`); `Route`
and `Refuse` are `exchange.publish` (routed, with or without its confirmation; refused,
unroutable or broker away), which has no timeout and may stay without an answer; `Record`
writes PUBLISHED, FAILED or EXHAUSTED from the *copy* and commits, which ends all locks; a
failure ends the batch. `Written` follows the
ORM: a column whose value does not differ from the copy is not in the UPDATE.
`BecomeDue` is the end of a retry delay, `Lose` a stop, crash or database error.

`EventRelay` is an at-least-once relay with finite retry: copies are made only of
waiting events, and waiting ends with a confirmed copy or after `MaxTries` tries.

### Matching, MatchCriteria, MatchRaces, ScoredMatching

`Issue` is item-service committing an event, numbered by its own `version += 1` over a
version read without a lock (`item_service.py:247`, `:336-359`): one after any earlier
number (`NextVersions`), not only the last. `Receive` and
`FinishEvent` are `consume_item_event`: the suggestions are read, then the
projection, the suggestions, their MatchSuggested events and the processed event
are committed together. `IsNewer` is the version check of
`upsert_item_projection`; `Verdict` joins `expire_invalid_matches_for_item` and
`generate_match_suggestions_for_item`: what an event makes of a pair. `FailEvent`
is an error or a crash. `Retrieve`, `Recheck` and `Decide` or `Expire` are
`accept_match` and `reject_match`: the suggestion is read and refused unless
SUGGESTED, the projections are read, and the status is written by primary key.

What two items' reports are worth together is the constant function `Score` on
`Details`, 0 for no pair; a suggestion on offer is scored anew with every event that concerns it.
`MatchCriteria` is the function of the code, `is_match_candidate_pair` (0 when
it says no): the same category, and at least one of color (20), common
words of the places (15), dates within 3 days (15) or 7 (10), common words of title
and description (10), over a base of 40. A text is its set of words; a word has a
name, a spelling that `lower()` forgets, and a length; `tokenize` keeps the words of at
least 3 letters that are no stopwords. `ScoredMatching` composes the two: details stand
for reports (`Described`), and `Score` is what the criteria make of them. `MCMatching`
has two reports, *near* and *far*.

`MatchRaces` adds one history variable, `raced`: the pairs on which a decision was in
progress beside another one, or beside an event of one of the pair's items. Nothing
in the code prevents such races (MatchDecided is one). What the code promises of a
pair is stated for the others, so that it is checked and proved while races go on
elsewhere, on pairs that share the same items included.

Abstracted: the handler's queries for single pairs are one read of all suggestions.
The properties speak of one pair at a time, and a pair is only read twice (once for
expiring, once for offering) through the session's identity map, which keeps the
first result.

### CaseLifecycle, RecoveryCases

`ConsumeToOpen` and `ConsumeKnown` are `consume_match_accepted` up to writing the case
as OPEN, which `FlushOpening` does: it locks the row, if there was one, until the commit
(`RowLocked`), and sends the call. `RequestClose` is the first half of
`cancel_recovery_case` and `complete_recovery_case`, which write nothing before the
answer. A call then goes through item-service in two steps: `Validate` is its unlocked
read of both items and its decision (`item_service.py:181`, `:236-244`), `Write` its
UPDATEs and commit, which put both items where the call says *whatever the rows hold by
then* (`:249`, `:194`, `:212`), and the answer arriving. `LoseAnswer`, `TimeOut` and
`Crash` are the ways an answer does not arrive; an abandoned call goes on in
`ValidateLate` and `WriteLate`. `Settle` is the second half of the saga: case, saga step,
event and processed event in one commit. `UserReads` and `UserWrites` are a user's own
move of an item in item-service, in the same two steps.

RETRYABLE is CANCELLED with a reason that starts with `OPEN_FAILURE_PREFIX`. The service
writes one when an opening fails, and a redelivered event opens the case again. A user's
reason is stored as it is and may start so, too: then the case that a user cancelled
reads as a failed opening and may be opened again, which `Results("cancel")` and
`CaseLifecycle.Cancel` allow. Of other reasons nothing is kept. `steps` are the kinds of
a case's SUCCEEDED saga steps.

With one consumer per queue the `IntegrityError` branch at
`recovery_case_service.py:166` cannot be reached, and the model has none. An answer
that cannot be parsed behaves like a crash after the answer.

`CaseLifecycle` is the promise without calls: a case opens and claims both items in one
step, closes and releases them in one step, and is then done with; a refused opening, or
a cancellation that reads like one, may be tried again. `ImplementsLifecycle` maps the
status of a case to what its row will say once every answer that came is recorded
(`StatusOf`): the step of the lifecycle is item-service's commit, and recording the answer
is none. The code keeps this promise while the saga is `Undisturbed`:

- every call was answered (`faults = 0`): there is no compensation, so a lost answer leaves
  items in recovery without a case, or a case without its items;
- item-service is between its read and its commit for one request on an item at a time
  (`NoOverlap`). *Nothing in the code sees to it*: it takes no lock between the two. Of two
  overlapping closings of one case both read IN_RECOVERY, both are accepted and both
  recorded (RecoveryClosed); and
- no two threads are closing a case of which other matches share *both* items. A call
  names items and not a case, so the second closing may be executed, without any overlap,
  upon items that other cases took to IN_RECOVERY in the meantime. A case with an item
  of its own (`Lone`) may be closed by any number of threads.

`ProcessedHasCase` and `OneActiveCasePerFoundItem` need none of this: they hold through
every overlap and every fault.

### AccountRegistry, Accounts

One module for auth-service and the gateway, as neither promises much without the
other. `Make` is the gateway taking a call: `get_current_claims` refuses a
missing or expired token, and what passes is forwarded once. `LookUp`,
`Store` and `Created` are `register_user`: the e-mail is looked up, the password is hashed,
the row is committed unless the unique index has one by then, and the committed row is
read back (`session.refresh`) for the answer. `Fail` is a database error at the look-up,
at the commit or at the read-back: 500, the last with the account created. `Login`
is `authenticate_user`, `Me` is `/auth/me` (the token is checked a second time, later,
and its subject must exist), `Use` stands for every route of the other services, which
look at no token. A service that dies takes no further step, `Relay` is the gateway's answer and `GiveUp` its 504 (or 502), after which the service goes on all the same:
`proxy_service.py` has a timeout, no retry and no cancellation.

`AccountRegistry` is what a client can rely on: registering and logging in happen at
one instant, and every answer but "unknown" tells what was so at that instant. A 500 is
"unknown", as a 504 is: it may come of the unique index, before the commit or after it.
`ImplementsRegistry` maps the row of a mailbox to its password, and the service's
response and the gateway's answer to the verdict and to what the client was told.

Abstracted: passwords are compared, not hashed; a token is its subject and expiry. No
route changes, deactivates or deletes a user, and every user has the role USER, which
every route that asks for a token admits. The gateway does not put the token's subject into the
body: who a request says is its actor is what its client wrote.

### LostAndFound

The composition: `Matching` and `RecoveryCases` are INSTANCEs over one set of
variables. `item` is the table of statuses both see. When item-service reads for a call
of recovery-case-service, `See` keeps the versions it read in `seen`; when it commits,
`Publish` appends an event to `issued` for each item moved, numbered one after what was
*read*, so overlapping calls would give two changes one version here as in
`ItemService`. matching-service may consume events at any later time and in any order.
`ConsumeAcceptance` takes the MatchAccepted events that `announced` holds. `Proceed` is an
actor of recovery-case-service, or item-service with its call, going on.

`Next` lets calls overlap inside item-service. What is promised of the whole fails then:
the second event of a version is ignored (`matching_service.py:152`) and a pair whose
item has gone stays on offer, or one case is closed twice. `SerialSpec` therefore makes
the hypothesis explicit: every state is `Undisturbed`, that is, at most one call at
work on an item in item-service (with one lost item every case has a found item of its
own). The properties of this module are checked and proved of `SerialSpec`: they say what
the services make of it *together*, not that the code ensures it. There are no faults, and
no user moves items but through cases: what both can do to a component is in its own runs.

## The runs

All runs check deadlock; a step that only stutters is allowed when the bounds are
used up and nothing is in progress.

| run | states | question |
|---|---:|---|
| ItemConcurrent | 60,307 | what survives every interleaving of two threads on two items |
| ItemSerialized | 171,566 | the full promise when requests on one item do not overlap |
| ItemTerminal | violated | can overlapping requests revive a CANCELLED or CLOSED item? yes |
| OutboxSingle | 336,701 | is the outbox an at-least-once relay with one publisher? |
| OutboxShared | 61,638 | what survives two publishers on one table; are events settled? |
| OutboxSimultaneous | violated | do two publishers keep off each other's events? no |
| MatchRaced | 573,205 | the consumer beside two deciding threads: what holds always, and of the pairs no race touched |
| MatchDecided | violated | is a suggestion decided at most once? no |
| Accounts | 913,194 | is auth-service behind the gateway a registry whose answers can be believed? |
| EndToEnd | 221,632 | do offers, cases and item statuses agree across the services, if calls do not overlap in item-service? |
| RecoveryFaults | 1,629,865 | what survives a timeout, a lost answer, a crash, an overlap in item-service |
| RecoveryClosed | violated | does a closed case stay closed? no |

What they show:

- **ItemConcurrent** (`FairSpec`): though updates are lost, the newest event always
  has the row's version (`NewestEventHasRowVersion`), the row's status is on record
  and every entry starts from a status on record with an earlier date
  (`TrailIsGrounded`; that the last-dated entry is the row's status is false, as the date
  is taken before the wait for the lock), every entry is a legal move
  (`AuditIsLegal`), versions repeat but never skip (`VersionsNeverSkip`), a
  recovery moves both items through refusals and deadlocks
  (`RecoveryMovesBothItems`: items that recoveries name together have entered and left
  IN_RECOVERY equally often), and every request ends (`RequestsAreAnswered`).
- **ItemSerialized**: versions number the events, the history, read by its dates, is a
  chain, the newest event is the row, and the service refines `ItemLifecycle`, of which terminal
  statuses being final is a consequence (`TerminalStaysTerminal`).
- **OutboxSingle**: exhaustion comes after exactly `MaxAttempts` attempts; a copy
  beyond the confirmed one is accounted for by a failed attempt or a lost batch;
  settled rows are left alone; refinement of `EventRelay`.
- **OutboxShared** (`FairSpec`): two publishers do publish the same events at once
  and write through stale copies; still an event marked PUBLISHED was sent, an
  event to be retried has attempts left, and wherever the broker answers
  (`BrokerAnswers`) every event is settled for good, even if it refuses all of them.
- **MatchRaced**: under repeated, reordered and lost events and repeated versions a
  projection is the newest version consumed, what is offered holds for the
  projections and has their score (`OfferedScoreIsCurrent`), and the last event of a
  suggestion tells its status. Of the pairs no race touched: candidates are offered
  or decided, and offered again after expiring (`CandidatesAreOffered`); they are
  decided once and finally (`SparedDecidedOnce`, `DecisionIsFinal`).
  `CriteriaAreFair` holds each report in a projection against 160 reports at the
  edges of the criteria (days 0, 3, 4, 7 and 8, words of 2 letters, 3 letters and
  stopwords, two spellings): a pair scores the same in both orders and 50 to 100; a
  category and a week are enough; a nearer date never scores less.
- **Accounts**: one account per mailbox though registrations spell it differently
  and race; tokens are honoured though gateway and service check them at different
  times; refinement of `AccountRegistry`, in which a call that was given up or failed may
  have taken effect, may yet, or never.
- **EndToEnd** (`SerialSpec`, which has the fairness and the hypothesis): two found items
  match one lost item. A pair on offer has both items AVAILABLE once the events are in (`OfferedIsFree`), an accepted
  pair gets a case or another case has its found item (`AcceptedGetsCase`), an active
  case holds its items until a closing call is committed (`ActiveCaseHoldsItems`), an item
  in recovery has a case (`RecoveryHasCase`), and the cases with their items refine
  `CaseLifecycle` (`CasesFollowLifecycle`), of which closed cases staying closed is a
  consequence. Two cases may compete for the *lost* item, which
  recovery-case-service does not check: item-service refuses the second opening.
- **RecoveryFaults**: two matches share the *found* item. With one fault anywhere, and
  calls and users' moves overlapping inside item-service, a registered event has a case,
  and no two active cases have the same found item.
  That active cases hold their items is *not* among the properties: after a lost
  answer, or an overlap, it is false, and the code has no compensation.

Bounds. `MaxRequests`, `MaxEvents`, `MaxDecisions`, `MaxDeliveries`, `MaxLosses`,
`MaxFaults`, `MaxCalls`, `MaxTime`, `Closings` and `UserTargets` exist for TLC only. Two
items are what one recovery names and the least that lets lock orders cross; two threads give
every race the code has between two transactions, and three requests (five when they
do not overlap) let a third one follow a race, or race with its loser. Three events in batches of two leave an event behind each batch; three attempts separate first, middle and last. Four item
events let a pair become a candidate, cease to be one and become one again; a second
found item gives an event two pairs, and three decisions let two race on one pair and
a third follow. Two publishers with two events in batches of two are enough for
a batch to outlive its locks. Two deliveries of one event allow one retry of a failed opening,
a second event of the same match a competitor; two threads allow a cancellation and a
completion at once, and one user who closes an item gets between a call's read and its commit.
In EndToEnd a cancellation returns the items to AVAILABLE, so that they are offered anew,
and a completion takes them away (`Closings`). Three calls are two
registrations that race and a login between or after them, or a registration, a login
and a use of its token; `Lifetime` 0 and `MaxTime` 1 let a token expire between any
two steps. Two decisions accept both pairs; two closings end both
cases, or are made on one.

Symmetry is used in MatchRaced (found items, threads), Accounts (passwords) and
RecoveryFaults (threads): no property of these runs names one of them or is a liveness
property.

Fairness. In `ItemService` threads keep running (weak fairness of Stamp, Reject,
Commit and the deadlock breaker) and PostgreSQL grants row locks in the order of arrival
(strong fairness of Flush); no request has to be sent, and Abort never has to
happen. In `OutboxPublisher` time passes (BecomeDue), a connected loop polls (Select) and
a result is recorded (strong, again for the lock). Nothing is assumed of the broker there:
no loop has to reach it, and a publish may stay without an answer for ever, as the code
sets no timeout. With a broker that is down events stay PENDING and are never exhausted,
so `EventsAreSettled` is an implication: *if* one loop can connect again and again and every
publish is answered, be it by a refusal, every event is settled in the end.
`Matching`, `RecoveryCases` and `Accounts` state safety only: nothing obliges the
broker to deliver, and item-service, a client or auth-service need not go on.
`LostAndFound` assumes, of the fault-free system it is, that RabbitMQ delivers a
queued MatchAccepted (weak fairness of ConsumeAcceptance) and that while an actor of
recovery-case-service or a call it made can go on, some do (weak fairness of Service). Users
need not decide or close anything, and matching-service's consumer may lag for ever.

## The proofs

The eight `*Proofs` modules are checked by TLAPS to the last leaf, from the modules'
named assumptions: finite or well-formed parameters (requests that pass the
schemas' validators, events that are a finite set of numbers, at least one attempt,
a consumer that is not a thread, addresses whose canonical form is canonical). Items,
threads, publishers, matches, requests, reports, the score function and bounds are arbitrary.

- **ItemServiceProofs.** The properties of the tables are not inductive, as a commit
  writes what was computed from rows read before. `IInv` adds what is known of an
  open transaction: the rows it read existed, had versions no greater than the number of
  events by now and are on record before the date of the change made of them, and each
  item it flushed was allowed by the row it read.
  Proved for `Spec`: `TypeOK`, `NewestEventHasRowVersion`, `TrailIsGrounded`,
  `AuditIsLegal`, `VersionsNeverSkip`, and `RecoveryMovesBothItems`, for any set of
  requests: only a commit writes a history, `RecoveryMoveIs` says which moves are
  a recovery's, and two items that every recovery names together gain an entry each or
  none (`CountAfterAppend` counts them). For `SerializedSpec` the invariant `SIInv`
  adds that the rows read are the rows of the table (`ReadsAreCurrent`), whence
  consecutive versions, the chained history, the newest event being the row,
  `TerminalIsFinal` and the refinement of `ItemLifecycle` (`StepImplements`: a commit
  is one abstract move, every other step a stutter).
- **OutboxPublisherProofs.** For any number of publishers `IInv` says that objects
  still in a batch had attempts left when read, that their rows exist, and that a
  confirmation in hand is of an event that was sent. For one publisher (`OnlyOne(p)`)
  `SoleInv` adds that the objects read are the rows; from it follow exact
  exhaustion, the account of duplicates, `SettledIsFinal` and the refinement of
  `EventRelay`.
- **MatchingProofs.** The key conjunct is `OffersAreSeen`: only the consumer offers,
  so a suggestion that is SUGGESTED while an event is consumed was SUGGESTED when
  its handler read it, and the handler expires all that no longer hold and scores the
  rest anew. Proved: `TypeOK`, `ProjectionIsNewest`, `SuggestedIsCandidate`,
  `OfferedScoreIsCurrent`, `StatusIsAnnounced`.
- **MatchRacesProofs.** `HistoryInv` says of a spared pair that what a handler or a
  thread read of it is still what the table holds, that a candidate is offered or
  decided, and that its announced events hold a decision exactly when it is decided.
  The argument is by pairs: a step leaves a pair alone, or is the one step of the one
  actor at work on it (`WorkerIsAlone`). Proved: `CandidatesAreOffered`,
  `SparedDecidedOnce`, `DecisionIsFinal`.
- **MatchCriteriaProofs.** `ScoresEvenly` and `ScoresByDate` for any reports with integer
  dates; then what they make of the suggestions of `ScoredMatching`, for any stopwords and
  reports: `CriteriaAreFair`; what is offered is of one category and shows the score of
  its reports of the moment, 50 to 100 (`OffersKeepCriteria`); two available items of a
  category reported within a week are offered or were decided on, whatever the order of
  events, unless a race touched the pair (`WeekApartIsOffered`). The last two join the
  theorems of the other two modules and are in no run of their own.
- **AccountsProofs.** `IInv` adds to the types that e-mails are unique, that a token,
  wherever it is, names an account, that only registrations are ever half done, and
  that a refusal in hand is of a token that is missing or expired (time only goes on,
  so it stays so). The refinement has a lemma per step: `Store` is Register or a stutter
  (the loser of the index learns nothing), `LookUp` Refuse or a stutter, `Created` and
  `Fail` are stutters, `Relay` and `GiveUp` are Tell. Proved: `TypeOK`,
  `OneAccountPerMailbox`, `TokensAreHonoured`, `ImplementsRegistry`.
- **RecoveryCasesProofs.** Only the consumer opens cases (`ConsumerOpens`,
  `ThreadsClose`), and while it waits for an answer nobody else can make its found
  item taken: the check made before the call still holds after it. Proved, through
  every fault and every overlap: `TypeOK`, `ProcessedHasCase`, `OneActiveCasePerFoundItem`
  (`AbandonedOnce` counts the calls that nobody waits for). What relates cases to items is
  false after a lost answer or an overlap, so it is proved under `[]Undisturbed` (see
  *CaseLifecycle, RecoveryCases*), for any items, matches, threads and users. `HeldInv` is
  `Held` and `Pending`. `Held` says who holds an item: a match `Holds` its items from the
  commit of the call that opens its case to that of the call that closes it. Holders have
  both items in recovery, every item in recovery has a holder, no two holders share an
  item, at most one thread was told that it closed a case. `Pending` says what a call in
  item-service relies on between its read and its commit: what it read is still so
  (`StillAccepted`, `StillLegal`), because `NoOverlap` keeps every other writer of its
  items out; and a thread that is closing a shared case closes an active one. The step
  that needs all of it is the commit of a closing (`ClosesItsOwn`): the items it found in
  recovery are the case's own, either because one of them is in no other match, or because
  nobody else can have closed the case. From `HeldInv` follow `ActiveCaseHoldsItems`,
  `RecoveryHasCase`, `ClosedCaseIsFinal` and the refinement of `CaseLifecycle`
  (`OpeningOpens`, `ClosingIsAStep`; a settled case is a stutter, a refused opening is Refuse).
- **LostAndFoundProofs.** The whole inherits what its parts prove. Every step of
  `LostAndFound` is a step of `RecoveryCases` or leaves it alone (`SagaIsFollowed`, of any
  behaviour), so the theorems of `RecoveryCasesProofs`, instantiated, give
  `ActiveCaseHoldsItems`, `RecoveryHasCase`, the finality of closed cases and
  `CasesFollowLifecycle` for `SerialSpec`, whose every state is `Undisturbed`
  (`SerialSaga`). matching-service's events are issued by another action there, so its part
  is not an instance of `Matching!Next`: the lemmas of `MatchingProofs` per action are used
  instead. `OffersInv` adds that what item-service read for a call it is about to commit is
  current (`ReadsAreCurrent`: it needs `NoOverlap`, and is what makes version numbers count
  changes), so that an item's events are numbered without gaps or repetitions and the last
  tells its status (`EventsTellItems`). Then a consumer that has caught up has current
  projections (`CaughtIsCurrent`), and `OfferedIsFree` follows. Without the hypothesis it is
  false: two changes of one version leave the projection at the first.

Model-checked only: the liveness properties (`RequestsAreAnswered`,
`EventsAreSettled`, `AcceptedGetsCase`), as temporal proofs under fairness are out of
TLAPS's reach. Every other property of a passing run is stated by a theorem. Those that
relate cases to items carry the hypothesis `[]Undisturbed`, or are of `SerialSpec`, which
has it; the code does not ensure it, and RecoveryClosed shows what comes of that.

## Disagreements found

Four runs end in a counterexample to what the repository says of itself:

1. *ItemTerminal.* "Itens CANCELLED ou CLOSED não podem voltar ao fluxo de
   matching" (`item_service.py:272`): one request closes an item between another's
   read and its UPDATE, which overwrites CLOSED.
2. *OutboxSimultaneous.* The item-service README says SKIP LOCKED lets several
   publishers work without processing the same event at once; the commit after the
   first event of a batch ends the locks of the rest. With the one publisher per
   service that docker-compose.yml starts, this does not happen.
3. *MatchDecided.* "Match já foi rejeitado", "Match já foi aceito": two requests
   both read SUGGESTED; both decisions are committed and announced.
4. *RecoveryClosed.* "Recovery case cancelado não pode ser concluído" (and the reverse): a
   cancellation and a completion of one case overlap; item-service reads IN_RECOVERY for
   both, accepts and commits both, and the case goes from CANCELLED to COMPLETED or back.

Two more, in the models without a run of their own. In *Accounts*: `register_user` documents
DuplicateEmailError for an e-mail in use (`user_service.py:34`), which the route
answers with 409. The loser of two racing registrations meets the unique index at the
commit instead; nothing handles the `IntegrityError`, and its client is answered 500,
which tells it nothing. In *RecoveryCases*: a user may cancel a case with a reason that
starts with OPEN_FAILED: and `recovery_case_service.py:298-302` takes the case for one whose
opening failed, so a further MatchAccepted opens it again.

## What is not modelled

- Hashing, signatures, a deactivated or deleted user and roles other than USER (no
  route makes one), the gateway's internal paths and its rewriting of headers.
- Which characters make a word, validation of field formats, the snapshot of the
  criteria stored with a suggestion.
- Logging, metrics, tracing, migrations, health checks, the e2e script.
- The dead-letter queues as state: a message there is one that may or may not be
  delivered again. No code in the repository reads them.
- Compensation of a lost HTTP answer: there is none in the code.
- Two dates of an item that are equal, or a clock that is set back.

## Plan

The order was the order of importance: items, outbox, matching, recovery, then the
criteria, the accounts and the composition. Done: the modules, runs and theorems
above. What would come next:

1. *LostAndFound with overlap*: an invariant that bounds how far offers and projections
   may fall behind the items by the number of calls that overlapped, in place of the
   hypothesis of `SerialSpec`.
2. *An abstract specification for matching* (a pair is offered, decided or withdrawn),
   with a refinement for the pairs that races spare.
3. *LostAndFound with faults*: one message lost to a dead-letter queue, and what then
   remains of `AcceptedGetsCase`; users who move items beside the cases.
4. *What a lost answer leaves*: which items and cases disagree after one fault, as an
   invariant of `RecoveryCases` that bounds the damage by the number of faults.
