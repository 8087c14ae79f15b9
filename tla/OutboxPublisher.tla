--------------------------- MODULE OutboxPublisher ---------------------------
(***************************************************************************)
(* The outbox of item-service, matching-service and recovery-case-service: *)
(* a loop connects to the broker, selects a batch of due events, FOR UPDATE *)
(* SKIP LOCKED, publishes them one by one and commits the result of each.  *)
(*                                                                         *)
(* The locks of a batch end with its first commit; the objects read with   *)
(* them are used to its end.                                               *)
(*                                                                         *)
(* An event is the number that orders it by occurred_at.                   *)
(***************************************************************************)
EXTENDS Naturals, FiniteSets

CONSTANTS
    Events,        \* events the services write
    Publishers,    \* publisher loops on the same table
    MaxAttempts,   \* settings.outbox_publish_max_attempts
    BatchSize,     \* settings.outbox_publish_batch_size
    MaxLosses      \* bound: connections lost to a stop, a crash or a database error

ASSUME EventsAssumption == Events \subseteq Nat /\ IsFiniteSet(Events)

ASSUME SettingsAssumption == MaxAttempts \in Nat \ {0} /\ BatchSize \in Nat \ {0}

ASSUME LossesAssumption == MaxLosses \in Nat

VARIABLES
    row,       \* table outbox_events: status and publish_attempts
    connected, \* the publisher has a channel and declared its queues
    due,       \* the events whose available_at has passed
    batch,     \* what a publisher has left of the batch it selected
    copy,      \* the objects it read with the batch
    locked,    \* the rows it has locked
    outcome,   \* what exchange.publish said of the batch's next event
    sent,      \* how many times the broker routed an event to its queues
    losses     \* connections lost so far

vars == <<row, connected, due, batch, copy, locked, outcome, sent, losses>>

Statuses == {"PENDING", "FAILED", "PUBLISHED", "EXHAUSTED"}

Row == [status : Statuses \cup {"NONE"}, attempts : 0..MaxAttempts]

NoRow == [status |-> "NONE", attempts |-> 0]

\* Mutants: settled events are selected; failed ones are not.
EligibleAll(r) == r.status # "NONE"
EligiblePending(r) == r.status = "PENDING"

\* The rows the SELECT is after.
Eligible(r) == r.status \in {"PENDING", "FAILED"}

Settled(r) == r.status \in {"PUBLISHED", "EXHAUSTED"}

\* Mutants: one attempt too many; one too few.
LastAttemptLate(r) == r.attempts + 1 > MaxAttempts
LastAttemptEarly(r) == r.attempts + 2 >= MaxAttempts

LastAttempt(r) == r.attempts + 1 >= MaxAttempts

\* What the publisher makes of an event.
Result(r, answer) ==
    IF answer = "confirmed" THEN "PUBLISHED"
    ELSE IF LastAttempt(r) THEN "EXHAUSTED" ELSE "FAILED"

\* Mutant: a failed attempt is not counted.
WrittenUncounted(r, answer, current) ==
    [status   |-> IF Result(r, answer) = r.status THEN current.status ELSE Result(r, answer),
     attempts |-> IF answer = "confirmed" THEN r.attempts + 1 ELSE r.attempts]

\* The row as the UPDATE leaves it: the ORM names the columns that differ
\* from the object it read, so a row that failed before keeps whatever status
\* the table holds by now when it fails again.
Written(r, answer, current) ==
    [status   |-> IF Result(r, answer) = r.status THEN current.status ELSE Result(r, answer),
     attempts |-> r.attempts + 1]

\* The batch is worked off in the order of occurred_at.
Oldest(S) == CHOOSE e \in S : \A f \in S : e <= f

Current(p) == Oldest(batch[p])

Working(p) == batch[p] # {}

LockFree(p, e) == \A q \in Publishers \ {p} : e \notin locked[q]

\* The rows a SELECT ... SKIP LOCKED sees, and the first of them.
Ready(p) == {e \in due : Eligible(row[e]) /\ LockFree(p, e)}

FirstOf(S) == {e \in S : Cardinality({f \in S : f < e}) < BatchSize}

Init ==
    /\ row     = [e \in Events |-> NoRow]
    /\ connected = [p \in Publishers |-> FALSE]
    /\ due     = {}
    /\ batch   = [p \in Publishers |-> {}]
    /\ copy    = [p \in Publishers |-> [e \in Events |-> NoRow]]
    /\ locked  = [p \in Publishers |-> {}]
    /\ outcome = [p \in Publishers |-> "none"]
    /\ sent    = [e \in Events |-> 0]
    /\ losses  = 0

\* A request commits an event with the change it tells of.  Requests commit
\* in any order, whatever their events' occurred_at.
Enqueue(e) ==
    /\ row[e] = NoRow
    /\ row' = [row EXCEPT ![e] = [status |-> "PENDING", attempts |-> 0]]
    /\ due' = due \cup {e}
    /\ UNCHANGED <<connected, batch, copy, locked, outcome, sent, losses>>

\* The retry delay of a failed event is over.
BecomeDue(e) ==
    /\ Eligible(row[e])
    /\ e \notin due
    /\ due' = due \cup {e}
    /\ UNCHANGED <<row, connected, batch, copy, locked, outcome, sent, losses>>

\* A loop reaches the broker.  Until it does it tries again and again, and
\* counts no attempt of any event.
Connect(p) ==
    /\ ~connected[p]
    /\ connected' = [connected EXCEPT ![p] = TRUE]
    /\ UNCHANGED <<row, due, batch, copy, locked, outcome, sent, losses>>

Select(p) ==
    /\ connected[p]
    /\ ~Working(p)
    /\ Ready(p) # {}
    /\ batch'  = [batch EXCEPT ![p] = FirstOf(Ready(p))]
    /\ locked' = [locked EXCEPT ![p] = FirstOf(Ready(p))]
    /\ copy'   = [copy EXCEPT ![p] = row]
    /\ UNCHANGED <<row, connected, due, outcome, sent, losses>>

\* The broker routes the message; its confirmation may be lost.
Route(p) ==
    /\ Working(p)
    /\ outcome[p] = "none"
    /\ sent' = [sent EXCEPT ![Current(p)] = @ + 1]
    /\ \E answer \in {"confirmed", "failed"} : outcome' = [outcome EXCEPT ![p] = answer]
    /\ UNCHANGED <<row, connected, due, batch, copy, locked, losses>>

\* Mutant: the channel has no publisher confirms, a refusal goes unnoticed.
RefuseUnnoticed(p) ==
    /\ Working(p)
    /\ outcome[p] = "none"
    /\ outcome' = [outcome EXCEPT ![p] = "confirmed"]
    /\ UNCHANGED <<row, connected, due, batch, copy, locked, sent, losses>>

\* The broker is away, refuses the message or returns it as unroutable.
Refuse(p) ==
    /\ Working(p)
    /\ outcome[p] = "none"
    /\ outcome' = [outcome EXCEPT ![p] = "failed"]
    /\ UNCHANGED <<row, connected, due, batch, copy, locked, sent, losses>>

\* The result is written and committed, which ends the row locks; a failure
\* ends the batch.  The UPDATE waits for another publisher's lock.  An event
\* that is settled or failed again is due as before.
Record(p) ==
    LET e == Current(p)
        r == copy[p][e]
    IN
    /\ outcome[p] # "none"
    /\ LockFree(p, e)
    /\ row'     = [row EXCEPT ![e] = Written(r, outcome[p], row[e])]
    /\ due'     = IF Result(r, outcome[p]) = "FAILED" THEN due \ {e} ELSE due
    /\ batch'   = [batch EXCEPT ![p] = IF outcome[p] = "confirmed" THEN @ \ {e} ELSE {}]
    /\ locked'  = [locked EXCEPT ![p] = {}]
    /\ outcome' = [outcome EXCEPT ![p] = "none"]
    /\ UNCHANGED <<connected, copy, sent, losses>>

\* The loop is stopped, its process dies or its database connection is lost;
\* the open transaction, and with it the locks, end, and the loop starts over.
Lose(p) ==
    /\ connected[p]
    /\ losses < MaxLosses
    /\ connected' = [connected EXCEPT ![p] = FALSE]
    /\ batch'   = [batch EXCEPT ![p] = {}]
    /\ locked'  = [locked EXCEPT ![p] = {}]
    /\ outcome' = [outcome EXCEPT ![p] = "none"]
    /\ losses'  = losses + 1
    /\ UNCHANGED <<row, due, copy, sent>>

AllSettled ==
    /\ \A e \in Events : Settled(row[e])
    /\ \A p \in Publishers : ~Working(p)
    /\ UNCHANGED vars

Next ==
    \/ \E e \in Events : Enqueue(e) \/ BecomeDue(e)
    \/ \E p \in Publishers : Connect(p) \/ Select(p) \/ Route(p) \/ Refuse(p) \/ Record(p) \/ Lose(p)
    \/ AllSettled

Spec == Init /\ [][Next]_vars

\* Time passes, a connected loop polls, and what was answered is recorded;
\* row locks are granted in the order of arrival.  Nothing has to be enqueued,
\* and the broker owes nothing: no loop has to reach it, and a publish, which
\* has no timeout, may stay without an answer.
Fairness ==
    /\ \A e \in Events : WF_vars(BecomeDue(e))
    /\ \A p \in Publishers : WF_vars(Select(p)) /\ SF_vars(Record(p))

FairSpec == Spec /\ Fairness

-----------------------------------------------------------------------------
(* Properties. *)

TypeOK ==
    /\ row \in [Events -> Row]
    /\ connected \in [Publishers -> BOOLEAN]
    /\ due \subseteq Events
    /\ batch \in [Publishers -> SUBSET Events]
    /\ copy \in [Publishers -> [Events -> Row]]
    /\ locked \in [Publishers -> SUBSET Events]
    /\ outcome \in [Publishers -> {"none", "confirmed", "failed"}]
    /\ sent \in [Events -> Nat]
    /\ losses \in 0..MaxLosses

\* An event marked PUBLISHED reached its queues, whoever marked it and however
\* stale the object it was marked through.
PublishedWasSent ==
    \A e \in Events : row[e].status = "PUBLISHED" => sent[e] > 0

\* An event that will be tried again has attempts left, though attempts are
\* counted on objects read before other publishers counted theirs.
RetriesAreLeft ==
    \A e \in Events : Eligible(row[e]) => row[e].attempts < MaxAttempts

\* With one publisher, an event is given up after MaxAttempts attempts, no fewer.
ExhaustedAfterAllAttempts ==
    \A e \in Events : row[e].status = "EXHAUSTED" => row[e].attempts = MaxAttempts

\* With one publisher, each copy of an event the consumers see beyond the one
\* that was confirmed is due to a failed attempt on record or to a lost batch.
DuplicatesAreAccountedFor ==
    \A e \in Events :
        sent[e] <= row[e].attempts + losses
                     + Cardinality({p \in Publishers : outcome[p] # "none" /\ Current(p) = e})

\* With one publisher, a settled event is left alone.
SettledIsFinal ==
    [][\A e \in Events : Settled(row[e]) => row'[e] = row[e]]_vars

\* The publisher waits for the broker to answer a publish.
Unanswered(p) == Working(p) /\ outcome[p] = "none"

\* What the broker must do: one loop can connect to it again and again, and it
\* answers every publish, if only to refuse it.
BrokerAnswers ==
    /\ \E p \in Publishers : []<>connected[p]
    /\ \A p \in Publishers : []<>~Unanswered(p)

\* Where the broker answers, every event is settled in the end and stays so,
\* even if it refuses everything and publishers undo each other's marks on the
\* way.  Where it does not, an event stays PENDING and is never given up.
EventsAreSettled ==
    BrokerAnswers => \A e \in Events : row[e] # NoRow ~> [](Settled(row[e]))

\* "permitindo que mais de um publisher possa operar sem processar o mesmo
\* evento simultaneamente" (item-service/README.md).
NoSimultaneousProcessing ==
    \A p, q \in Publishers :
        p # q /\ Working(p) /\ Working(q) => Current(p) # Current(q)

StateOf(r) ==
    CASE r.status = "NONE"      -> "absent"
      [] r.status = "PUBLISHED" -> "delivered"
      [] r.status = "EXHAUSTED" -> "given up"
      [] OTHER                  -> "waiting"

Relay ==
    INSTANCE EventRelay WITH
        MaxTries <- MaxAttempts,
        state    <- [e \in Events |-> StateOf(row[e])],
        tries    <- [e \in Events |-> row[e].attempts],
        copies   <- sent

\* With one publisher, the outbox is an at-least-once relay: no copy is made
\* of an event that is not waiting, a lost batch leaves no trace but copies.
ImplementsRelay == Relay!Spec

=============================================================================
