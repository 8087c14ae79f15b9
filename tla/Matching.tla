------------------------------ MODULE Matching ------------------------------
(***************************************************************************)
(* matching-service: projections of item-service's items, built from its   *)
(* events, and the suggestions derived from them.  One consumer handles    *)
(* events one at a time; users' decisions run in threads beside it.  Every *)
(* handler is a transaction that reads rows without locking them, and      *)
(* writes, by primary key, the columns it changed.                         *)
(*                                                                         *)
(* The broker delivers an event that was issued any number of times and in *)
(* any order, or never.                                                    *)
(***************************************************************************)
EXTENDS Naturals, Sequences, FiniteSets, ItemTypes

CONSTANTS
    Lost, Found,    \* the items, by classification
    Details,        \* what the criteria compare: category, color, place, date, words
    Score,          \* score of two details, 0 if they do not meet the criteria
    Contents,       \* status and details the items' events may carry
    Threads,        \* threads serving decisions
    MaxEvents,      \* bound: events issued in a behaviour
    MaxDecisions    \* bound: decisions admitted in a behaviour

ASSUME ItemsAssumption == Lost \cap Found = {}

ASSUME ContentsAssumption ==
    /\ Contents \subseteq [status : Statuses, details : Details]
    /\ Score \in [Details \X Details -> Nat]

ASSUME BoundsAssumption == MaxEvents \in Nat /\ MaxDecisions \in Nat

VARIABLES
    issued,       \* item-service's events, per item
    processed,    \* table processed_events
    projection,   \* table item_projections
    match,        \* status column of match_suggestions, per pair
    score,        \* its score column
    announced,    \* outbox events, per pair
    consumer,     \* the event being consumed and the suggestions read for it
    worker,       \* the decision a thread is serving
    admitted      \* decisions admitted so far

vars == <<issued, processed, projection, match, score, announced, consumer, worker, admitted>>

Items == Lost \cup Found

Pairs == Lost \X Found

Decisions == {"ACCEPTED", "REJECTED"}

MatchStatuses == Decisions \cup {"SUGGESTED", "EXPIRED"}

None == "NONE"

Projection == [status : Statuses, details : Details, version : Nat]

NoProjection == [status |-> None, details |-> None, version |-> 0]

\* An event is named by its item and its place among the item's events.
EventIds == Items \X Nat

Consumption ==
    [event : EventIds \cup {<<>>}, seen : [Pairs -> MatchStatuses \cup {None}]]

NoConsumption == [event |-> <<>>, seen |-> [p \in Pairs |-> None]]

Work ==
    [pair     : Pairs \cup {<<>>},
     decision : Decisions \cup {None},
     phase    : {"idle", "retrieved", "deciding", "expiring"}]

NoWork == [pair |-> <<>>, decision |-> None, phase |-> "idle"]

-----------------------------------------------------------------------------
(* The service's rules. *)

Touches(p, i) == p[1] = i \/ p[2] = i

\* The score of a pair of items that have projections.
ScoreOf(proj, p) == Score[<<proj[p[1]].details, proj[p[2]].details>>]

\* is_match_candidate_pair: both items are AVAILABLE and meet the criteria.
Candidate(proj, p) ==
    /\ proj[p[1]].status = "AVAILABLE"
    /\ proj[p[2]].status = "AVAILABLE"
    /\ ScoreOf(proj, p) > 0

\* Mutant: events are applied in the order they come.
IsNewerUnchecked(e, current) == e.version > 0

IsNewer(e, current) == e.version > current.version

\* Mutant: suggestions are generated without expiring the others.
VerdictKeeping(seen, candidate) ==
    IF candidate /\ seen \in {None, "EXPIRED"} THEN "SUGGESTED" ELSE seen

\* Mutant: a decided pair is suggested again.
VerdictReopening(seen, candidate) ==
    CASE ~candidate /\ seen = "SUGGESTED" -> "EXPIRED"
      [] candidate                        -> "SUGGESTED"
      [] OTHER                            -> seen

\* Mutant: expired pairs are not offered again.
VerdictOnce(seen, candidate) ==
    CASE ~candidate /\ seen = "SUGGESTED" -> "EXPIRED"
      [] candidate /\ seen = None         -> "SUGGESTED"
      [] OTHER                            -> seen

\* Mutant: a status the enumeration does not have.
VerdictLapsed(seen, candidate) ==
    CASE ~candidate /\ seen = "SUGGESTED"        -> "LAPSED"
      [] candidate /\ seen \in {None, "EXPIRED"} -> "SUGGESTED"
      [] OTHER                                   -> seen

\* What an event makes of a suggestion of its item: one that no longer holds
\* expires, one that holds is offered, or offered again, unless decided.
Verdict(seen, candidate) ==
    CASE ~candidate /\ seen = "SUGGESTED"        -> "EXPIRED"
      [] candidate /\ seen \in {None, "EXPIRED"} -> "SUGGESTED"
      [] OTHER                                   -> seen

-----------------------------------------------------------------------------
Init ==
    /\ issued     = [i \in Items |-> <<>>]
    /\ processed  = {}
    /\ projection = [i \in Items |-> NoProjection]
    /\ match      = [p \in Pairs |-> None]
    /\ score      = [p \in Pairs |-> 0]
    /\ announced  = [p \in Pairs |-> <<>>]
    /\ consumer   = NoConsumption
    /\ worker     = [t \in Threads |-> NoWork]
    /\ admitted   = 0

IssuedIds == {id \in Items \X (1..MaxEvents) : id[2] <= Len(issued[id[1]])}

\* Every change adds one to the version its request read, which may be that of
\* any change before it: requests overwrite each other, and numbers may come
\* again (see VersionsNeverSkip and NewestEventHasRowVersion of ItemService).
NextVersions(i) ==
    IF issued[i] = <<>> THEN {1} ELSE {issued[i][k].version + 1 : k \in DOMAIN issued[i]}

\* item-service commits an event of the item: AVAILABLE at first.
Issue(i, c, v) ==
    /\ Cardinality(IssuedIds) < MaxEvents
    /\ v \in NextVersions(i)
    /\ issued[i] = <<>> => c.status = "AVAILABLE"
    /\ issued' = [issued EXCEPT ![i] =
                    Append(@, [status |-> c.status, details |-> c.details, version |-> v])]
    /\ UNCHANGED <<processed, projection, match, score, announced, consumer, worker, admitted>>

-----------------------------------------------------------------------------
(* The consumer. *)

Consuming == consumer # NoConsumption

\* An event is delivered and was not processed before; the handler reads the
\* suggestions of its item.  A repeated event is dropped without a trace.
Receive(i, k) ==
    /\ ~Consuming
    /\ <<i, k>> \notin processed
    /\ consumer' = [event |-> <<i, k>>, seen |-> match]
    /\ UNCHANGED <<issued, processed, projection, match, score, announced, worker, admitted>>

EventItem == consumer.event[1]

EventBody == issued[EventItem][consumer.event[2]]

Projected == [projection EXCEPT ![EventItem] = EventBody]

\* The event is about the pair, and newer than what is known of the item.
Concerns(p) == IsNewer(EventBody, projection[EventItem]) /\ Touches(p, EventItem)

\* What the handler makes of a suggestion it read.
NewStatus(p) ==
    IF Concerns(p)
    THEN Verdict(consumer.seen[p], Candidate(Projected, p))
    ELSE consumer.seen[p]

\* Mutant: only a suggestion that is new or expired is given its score.
ScoredOnOffer(p) ==
    IF Concerns(p) /\ Candidate(Projected, p) /\ consumer.seen[p] \in {None, "EXPIRED"}
    THEN ScoreOf(Projected, p) ELSE score[p]

\* A suggestion that holds is given its score anew, unless it was decided.
NewScore(p) ==
    IF Concerns(p) /\ Candidate(Projected, p) /\ consumer.seen[p] \notin Decisions
    THEN ScoreOf(Projected, p) ELSE score[p]

\* The projection, the suggestions, their events and the processed event
\* become visible together.  A suggestion is written only if the handler
\* changed it, whatever was decided in the meantime.
FinishEvent ==
    /\ Consuming
    /\ projection' = IF IsNewer(EventBody, projection[EventItem]) THEN Projected ELSE projection
    /\ match'      = [p \in Pairs |->
                        IF NewStatus(p) # consumer.seen[p] THEN NewStatus(p) ELSE match[p]]
    /\ score'      = [p \in Pairs |-> NewScore(p)]
    /\ announced'  = [p \in Pairs |->
                        IF NewStatus(p) # consumer.seen[p] /\ NewStatus(p) = "SUGGESTED"
                        THEN Append(announced[p], "SUGGESTED") ELSE announced[p]]
    /\ processed'  = processed \cup {consumer.event}
    /\ consumer'   = NoConsumption
    /\ UNCHANGED <<issued, worker, admitted>>

\* The handler fails or dies: nothing is kept.  The message goes to the
\* dead-letter queue or is delivered again.
FailEvent ==
    /\ Consuming
    /\ consumer' = NoConsumption
    /\ UNCHANGED <<issued, processed, projection, match, score, announced, worker, admitted>>

-----------------------------------------------------------------------------
(* Decisions. *)

\* Mutant: only a rejected suggestion is refused.
RetrieveUnlessRejected(t, p, d) ==
    /\ worker[t] = NoWork
    /\ admitted < MaxDecisions
    /\ match[p] \in {"SUGGESTED", "ACCEPTED"}
    /\ worker'   = [worker EXCEPT ![t] = [pair |-> p, decision |-> d, phase |-> "retrieved"]]
    /\ admitted' = admitted + 1
    /\ UNCHANGED <<issued, processed, projection, match, score, announced, consumer>>

\* A decided or expired suggestion is refused at once.
Retrieve(t, p, d) ==
    /\ worker[t] = NoWork
    /\ admitted < MaxDecisions
    /\ match[p] = "SUGGESTED"
    /\ worker'   = [worker EXCEPT ![t] = [pair |-> p, decision |-> d, phase |-> "retrieved"]]
    /\ admitted' = admitted + 1
    /\ UNCHANGED <<issued, processed, projection, match, score, announced, consumer>>

\* The projections are read after the suggestion.
Recheck(t) ==
    /\ worker[t].phase = "retrieved"
    /\ worker' = [worker EXCEPT ![t].phase =
                     IF Candidate(projection, worker[t].pair) THEN "deciding" ELSE "expiring"]
    /\ UNCHANGED <<issued, processed, projection, match, score, announced, consumer, admitted>>

\* Mutant: the event is lost when the decision is committed.
DecideSilently(t) ==
    /\ worker[t].phase = "deciding"
    /\ match'  = [match EXCEPT ![worker[t].pair] = worker[t].decision]
    /\ worker' = [worker EXCEPT ![t] = NoWork]
    /\ UNCHANGED <<issued, processed, projection, score, announced, consumer, admitted>>

Decide(t) ==
    LET w == worker[t] IN
    /\ w.phase = "deciding"
    /\ match'     = [match EXCEPT ![w.pair] = w.decision]
    /\ announced' = [announced EXCEPT ![w.pair] = Append(@, w.decision)]
    /\ worker'    = [worker EXCEPT ![t] = NoWork]
    /\ UNCHANGED <<issued, processed, projection, score, consumer, admitted>>

\* The pair was no candidate any more: the suggestion expires, the user is refused.
Expire(t) ==
    /\ worker[t].phase = "expiring"
    /\ match'  = [match EXCEPT ![worker[t].pair] = "EXPIRED"]
    /\ worker' = [worker EXCEPT ![t] = NoWork]
    /\ UNCHANGED <<issued, processed, projection, score, announced, consumer, admitted>>

Abort(t) ==
    /\ worker[t] # NoWork
    /\ worker' = [worker EXCEPT ![t] = NoWork]
    /\ UNCHANGED <<issued, processed, projection, match, score, announced, consumer, admitted>>

Quiescent ==
    /\ admitted = MaxDecisions \/ \A p \in Pairs : match[p] # "SUGGESTED"
    /\ Cardinality(IssuedIds) = MaxEvents
    /\ ~Consuming /\ \A t \in Threads : worker[t] = NoWork
    /\ UNCHANGED vars

Next ==
    \/ \E i \in Items : \/ \E c \in Contents, v \in 1..MaxEvents : Issue(i, c, v)
                        \/ \E k \in DOMAIN issued[i] : Receive(i, k)
    \/ FinishEvent
    \/ FailEvent
    \/ \E t \in Threads :
          \/ \E p \in Pairs, d \in Decisions : Retrieve(t, p, d)
          \/ Recheck(t) \/ Decide(t) \/ Expire(t) \/ Abort(t)
    \/ Quiescent

Spec == Init /\ [][Next]_vars

-----------------------------------------------------------------------------
(* Properties. *)

TypeOK ==
    /\ issued \in [Items -> Seq(Projection)]
    /\ processed \subseteq EventIds
    /\ projection \in [Items -> Projection \cup {NoProjection}]
    /\ match \in [Pairs -> MatchStatuses \cup {None}]
    /\ score \in [Pairs -> Nat]
    /\ announced \in [Pairs -> Seq(MatchStatuses)]
    /\ consumer \in Consumption
    /\ worker \in [Threads -> Work]
    /\ admitted \in 0..MaxDecisions

ProcessedEvents(i) ==
    {issued[i][k] : k \in {n \in DOMAIN issued[i] : <<i, n>> \in processed}}

\* Whatever the order, repetition or loss of events, a projection holds the
\* newest version of those processed, and the content of one that had it.
ProjectionIsNewest ==
    \A i \in Items :
        /\ projection[i] \in ProcessedEvents(i) \cup {NoProjection}
        /\ \A e \in ProcessedEvents(i) : e.version <= projection[i].version

\* A suggestion that is offered holds for the projections of the moment, under
\* every interleaving of events and decisions.
SuggestedIsCandidate ==
    \A p \in Pairs : match[p] = "SUGGESTED" => Candidate(projection, p)

\* The score shown with a suggestion is the one of its items as they are known
\* now, though only one of them changed and the suggestion was offered before.
OfferedScoreIsCurrent ==
    \A p \in Pairs : match[p] = "SUGGESTED" => score[p] = ScoreOf(projection, p)

\* The last event about a suggestion tells its status, unless it expired.
StatusIsAnnounced ==
    \A p \in Pairs :
        match[p] \notin {None, "EXPIRED"} =>
            announced[p] # <<>> /\ announced[p][Len(announced[p])] = match[p]

DecisionsOn(p) == {k \in DOMAIN announced[p] : announced[p][k] \in Decisions}

\* "Match ja foi aceito", "Match ja foi rejeitado": a suggestion is decided at
\* most once.
DecidedOnce ==
    \A p \in Pairs : \A j, k \in DecisionsOn(p) : j = k

=============================================================================
