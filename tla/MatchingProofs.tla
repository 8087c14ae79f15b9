--------------------------- MODULE MatchingProofs ---------------------------
(***************************************************************************)
(* Theorems about Matching: what holds of projections and suggestions for  *)
(* any items, criteria and events, any number of threads, and under every  *)
(* interleaving of decisions with the consumer.                            *)
(***************************************************************************)
EXTENDS Matching, TLAPS

-----------------------------------------------------------------------------
(* The invariant.  Only the consumer offers a suggestion, so one that is     *)
(* offered while an event is being consumed was offered when the handler     *)
(* read it: the handler sees every suggestion it may have to expire.         *)

Known(id) == id \in EventIds /\ id[2] \in DOMAIN issued[id[1]]

KnownEvents ==
    /\ \A id \in processed : Known(id)
    /\ Consuming => Known(consumer.event)

OffersAreSeen ==
    Consuming => \A p \in Pairs : match[p] = "SUGGESTED" => consumer.seen[p] = "SUGGESTED"

WorkersDecide ==
    \A t \in Threads :
        worker[t].phase # "idle" => worker[t].pair \in Pairs /\ worker[t].decision \in Decisions

IInv ==
    /\ TypeOK
    /\ KnownEvents
    /\ OffersAreSeen
    /\ WorkersDecide
    /\ ProjectionIsNewest
    /\ SuggestedIsCandidate
    /\ OfferedScoreIsCurrent
    /\ StatusIsAnnounced

-----------------------------------------------------------------------------
(* Lemmas. *)

\* The three things an event can make of a suggestion.
LEMMA VerdictIs ==
    ASSUME NEW seen, NEW candidate \in BOOLEAN
    PROVE  /\ ~candidate /\ seen = "SUGGESTED"        => Verdict(seen, candidate) = "EXPIRED"
           /\ candidate /\ seen \in {None, "EXPIRED"} => Verdict(seen, candidate) = "SUGGESTED"
           /\ candidate /\ seen \notin {None, "EXPIRED"} => Verdict(seen, candidate) = seen
           /\ ~candidate /\ seen # "SUGGESTED"        => Verdict(seen, candidate) = seen
  <1>1. CASE ~candidate /\ seen = "SUGGESTED"
    BY <1>1 DEF Verdict
  <1>2. CASE candidate /\ seen \in {None, "EXPIRED"}
    BY <1>2 DEF Verdict
  <1>3. CASE candidate /\ seen \notin {None, "EXPIRED"}
    BY <1>3 DEF Verdict
  <1>4. CASE ~candidate /\ seen # "SUGGESTED"
    BY <1>4 DEF Verdict
  <1>5. QED
    BY <1>1, <1>2, <1>3, <1>4

LEMMA BodyIsTyped ==
    ASSUME IInv, Consuming
    PROVE  /\ EventItem \in Items
           /\ consumer.event[2] \in DOMAIN issued[EventItem]
           /\ consumer.event = <<EventItem, consumer.event[2]>>
           /\ EventBody \in Projection
           /\ Projected \in [Items -> Projection \cup {NoProjection}]
  <1>1. Known(consumer.event)
    BY DEF IInv, KnownEvents
  <1>2. /\ EventItem \in Items
        /\ consumer.event = <<EventItem, consumer.event[2]>>
        /\ consumer.event[2] \in DOMAIN issued[EventItem]
    BY <1>1 DEF Known, EventIds, EventItem
  <1>3. issued[EventItem] \in Seq(Projection)
    BY <1>2 DEF IInv, TypeOK
  <1>4. EventBody \in Projection
    BY <1>2, <1>3 DEF EventBody
  <1>5. QED
    BY <1>2, <1>4 DEF IInv, TypeOK, Projected

\* A suggestion changes only to SUGGESTED, when it holds for the projections
\* that are written with it, or to EXPIRED.
LEMMA NewStatusIs ==
    ASSUME IInv, Consuming, NEW p \in Pairs, NewStatus(p) # consumer.seen[p]
    PROVE  /\ IsNewer(EventBody, projection[EventItem])
           /\ \/ NewStatus(p) = "SUGGESTED" /\ Candidate(Projected, p)
              \/ NewStatus(p) = "EXPIRED"
  <1>1. /\ IsNewer(EventBody, projection[EventItem])
        /\ Touches(p, EventItem)
        /\ NewStatus(p) = Verdict(consumer.seen[p], Candidate(Projected, p))
    BY DEF NewStatus, Concerns
  <1>2. Candidate(Projected, p) \in BOOLEAN
    BY DEF Candidate
  <1>3. QED
    BY <1>1, <1>2, VerdictIs

\* Steps that leave the tables as they are keep what is said of them.
LEMMA TablesUntouched ==
    ASSUME IInv, UNCHANGED <<issued, processed, projection, match, score, announced>>
    PROVE  (ProjectionIsNewest /\ SuggestedIsCandidate /\ OfferedScoreIsCurrent /\ StatusIsAnnounced)'
  <1>1. ProjectionIsNewest'
    BY DEF IInv, ProjectionIsNewest, ProcessedEvents
  <1>2. SuggestedIsCandidate'
    BY DEF IInv, SuggestedIsCandidate, Candidate, ScoreOf
  <1>3. StatusIsAnnounced'
    BY DEF IInv, StatusIsAnnounced
  <1>4. OfferedScoreIsCurrent'
    BY DEF IInv, OfferedScoreIsCurrent, ScoreOf
  <1>5. QED
    BY <1>1, <1>2, <1>3, <1>4

-----------------------------------------------------------------------------
(* One lemma per action. *)

\* Whatever events were issued before the service started, it has done nothing.
LEMMA NothingConsumed ==
    ASSUME issued \in [Items -> Seq(Projection)],
           processed  = {},
           projection = [i \in Items |-> NoProjection],
           match      = [p \in Pairs |-> None],
           score      = [p \in Pairs |-> 0],
           announced  = [p \in Pairs |-> <<>>],
           consumer   = NoConsumption,
           worker     = [t \in Threads |-> NoWork],
           admitted   = 0
    PROVE  IInv
  <1>1. TypeOK
    <2>1. NoConsumption \in Consumption /\ NoWork \in Work
      BY DEF NoConsumption, Consumption, NoWork, Work
    <2>2. QED
      BY <2>1, BoundsAssumption DEF TypeOK
  <1>2. ~Consuming
    BY DEF Consuming
  <1>3. ProjectionIsNewest
    BY DEF ProjectionIsNewest, ProcessedEvents
  <1>4. QED
    BY <1>1, <1>2, <1>3
    DEF IInv, KnownEvents, OffersAreSeen, WorkersDecide, SuggestedIsCandidate,
        OfferedScoreIsCurrent, StatusIsAnnounced, NoWork, None

LEMMA InitEstablishes == Init => IInv
  <1> SUFFICES ASSUME Init PROVE IInv
    OBVIOUS
  <1>1. issued \in [Items -> Seq(Projection)]
    BY DEF Init
  <1>2. QED
    BY <1>1, NothingConsumed DEF Init

\* Events are added to those issued, of any items.
LEMMA IssuingKeeps ==
    ASSUME IInv, issued' \in [Items -> Seq(Projection)],
           \A j \in Items : /\ DOMAIN issued[j] \subseteq DOMAIN issued'[j]
                            /\ \A k \in DOMAIN issued[j] : issued'[j][k] = issued[j][k],
           UNCHANGED <<processed, projection, match, score, announced, consumer, worker, admitted>>
    PROVE  IInv'
  <1>1. TypeOK'
    BY DEF IInv, TypeOK
  <1>2. KnownEvents'
    BY DEF IInv, KnownEvents, Known, EventIds, Consuming
  <1>3. /\ OffersAreSeen' /\ WorkersDecide' /\ SuggestedIsCandidate'
        /\ OfferedScoreIsCurrent' /\ StatusIsAnnounced'
    BY DEF IInv, OffersAreSeen, WorkersDecide, SuggestedIsCandidate, OfferedScoreIsCurrent,
           StatusIsAnnounced, Candidate, ScoreOf, Consuming
  <1>4. ProjectionIsNewest'
    <2>1. ASSUME NEW j \in Items PROVE ProcessedEvents(j)' = ProcessedEvents(j)
      <3>1. \A n : <<j, n>> \in processed => n \in DOMAIN issued[j]
        BY DEF IInv, KnownEvents, Known
      <3>2. {n \in DOMAIN issued'[j] : <<j, n>> \in processed} =
            {n \in DOMAIN issued[j] : <<j, n>> \in processed}
        BY <3>1
      <3>3. QED
        BY <3>2 DEF ProcessedEvents
    <2>2. QED
      BY <2>1 DEF IInv, ProjectionIsNewest
  <1>5. QED
    BY <1>1, <1>2, <1>3, <1>4 DEF IInv

LEMMA IssueKeeps ==
    ASSUME IInv, NEW i \in Items, NEW c \in Contents, NEW v \in 1..MaxEvents, Issue(i, c, v)
    PROVE  IInv'
  <1> DEFINE e == [status |-> c.status, details |-> c.details, version |-> v]
  <1>1. e \in Projection
    BY ContentsAssumption, BoundsAssumption DEF Projection
  <1>2. issued' = [issued EXCEPT ![i] = Append(issued[i], e)]
    BY DEF Issue
  <1>3. issued \in [Items -> Seq(Projection)]
    BY DEF IInv, TypeOK
  <1>4. ASSUME NEW j \in Items
        PROVE  /\ DOMAIN issued[j] \subseteq DOMAIN issued'[j]
               /\ \A k \in DOMAIN issued[j] : issued'[j][k] = issued[j][k]
    <2>1. CASE j = i
      <3>1. issued[i] \in Seq(Projection) /\ issued'[i] = Append(issued[i], e)
        BY <1>2, <1>3
      <3>2. QED
        BY <1>1, <2>1, <3>1
    <2>2. CASE j # i
      BY <1>2, <1>3, <2>2
    <2>3. QED
      BY <2>1, <2>2
  <1>5. issued' \in [Items -> Seq(Projection)]
    BY <1>1, <1>2, <1>3
  <1>6. QED
    BY <1>4, <1>5, IssuingKeeps DEF Issue

LEMMA ReceiveKeeps ==
    ASSUME IInv, NEW i \in Items, NEW k \in DOMAIN issued[i], Receive(i, k)
    PROVE  IInv'
  <1>1. k \in Nat
    <2>1. issued[i] \in Seq(Projection)
      BY DEF IInv, TypeOK
    <2>2. QED
      BY <2>1
  <1>2. consumer' = [event |-> <<i, k>>, seen |-> match]
    BY DEF Receive
  <1>3. TypeOK'
    BY <1>1, <1>2 DEF IInv, TypeOK, Receive, Consumption, EventIds
  <1>4. KnownEvents'
    BY <1>1, <1>2 DEF IInv, KnownEvents, Known, EventIds, Receive
  <1>5. OffersAreSeen' /\ WorkersDecide'
    BY <1>2 DEF IInv, OffersAreSeen, WorkersDecide, Receive
  <1>6. QED
    BY <1>3, <1>4, <1>5, TablesUntouched DEF IInv, Receive

LEMMA NewScoreIsTyped ==
    ASSUME IInv, FinishEvent
    PROVE  \A p \in Pairs : NewScore(p) \in Nat
  <1> SUFFICES ASSUME NEW p \in Pairs PROVE NewScore(p) \in Nat
    OBVIOUS
  <1>1. score[p] \in Nat
    BY DEF IInv, TypeOK
  <1>2. ASSUME Candidate(Projected, p) PROVE ScoreOf(Projected, p) \in Nat
    <2>1. p[1] \in Items /\ p[2] \in Items
      BY DEF Pairs, Items
    <2>2. Projected[p[1]] \in Projection /\ Projected[p[2]] \in Projection
      BY <1>2, <2>1, BodyIsTyped DEF Candidate, FinishEvent, NoProjection, None
    <2>3. Projected[p[1]].details \in Details /\ Projected[p[2]].details \in Details
      BY <2>2 DEF Projection
    <2>4. QED
      BY <2>3, ContentsAssumption DEF ScoreOf
  <1>3. QED
    BY <1>1, <1>2 DEF NewScore

\* A suggestion offered once the event is handled was given its score by it, or
\* is about other items and keeps the one it has.
LEMMA FinishEventScores ==
    ASSUME IInv, FinishEvent
    PROVE  OfferedScoreIsCurrent'
  <1> SUFFICES ASSUME NEW p \in Pairs, match'[p] = "SUGGESTED"
               PROVE  score'[p] = ScoreOf(projection', p)
    BY DEF OfferedScoreIsCurrent, ScoreOf
  <1>1. Consuming /\ score'[p] = NewScore(p)
    BY DEF FinishEvent
  <1>2. match'[p] = IF NewStatus(p) # consumer.seen[p] THEN NewStatus(p) ELSE match[p]
    BY DEF FinishEvent
  <1>3. NewStatus(p) = "SUGGESTED" /\ consumer.seen[p] \notin Decisions
    <2>1. CASE NewStatus(p) # consumer.seen[p]
      <3>1. NewStatus(p) = "SUGGESTED" /\ NewStatus(p) = Verdict(consumer.seen[p], Candidate(Projected, p))
        BY <1>2, <2>1 DEF NewStatus
      <3>2. Candidate(Projected, p) \in BOOLEAN
        BY DEF Candidate
      <3>3. QED
        BY <2>1, <3>1, <3>2, VerdictIs DEF Decisions, None
    <2>2. CASE NewStatus(p) = consumer.seen[p]
      BY <1>1, <1>2, <2>2 DEF IInv, OffersAreSeen, Decisions
    <2>3. QED
      BY <2>1, <2>2
  <1>4. CASE Concerns(p)
    <2>1. Verdict(consumer.seen[p], Candidate(Projected, p)) = "SUGGESTED"
      BY <1>3, <1>4 DEF NewStatus
    <2>2. Candidate(Projected, p) \in BOOLEAN
      BY DEF Candidate
    <2>3. Candidate(Projected, p)
      BY <2>1, <2>2, VerdictIs
    <2>4. QED
      BY <1>1, <1>3, <1>4, <2>3 DEF NewScore, Concerns, FinishEvent
  <1>5. CASE ~Concerns(p)
    <2>1. score'[p] = score[p] /\ match[p] = "SUGGESTED"
      BY <1>1, <1>2, <1>5 DEF NewScore, NewStatus
    <2>2. score[p] = ScoreOf(projection, p)
      BY <2>1 DEF IInv, OfferedScoreIsCurrent
    <2>3. CASE IsNewer(EventBody, projection[EventItem])
      <3>1. p[1] \in Items /\ p[2] \in Items /\ p[1] # EventItem /\ p[2] # EventItem
        BY <1>5, <2>3 DEF Concerns, Touches, Pairs, Items
      <3>2. Projected[p[1]] = projection[p[1]] /\ Projected[p[2]] = projection[p[2]]
        BY <3>1 DEF Projected, IInv, TypeOK
      <3>3. QED
        BY <2>1, <2>2, <2>3, <3>2 DEF ScoreOf, FinishEvent
    <2>4. CASE ~IsNewer(EventBody, projection[EventItem])
      BY <2>1, <2>2, <2>4 DEF FinishEvent
    <2>5. QED
      BY <2>3, <2>4
  <1>6. QED
    BY <1>4, <1>5

LEMMA FinishEventKeeps ==
    ASSUME IInv, FinishEvent
    PROVE  IInv'
  <1> DEFINE newer == IsNewer(EventBody, projection[EventItem])
             k     == consumer.event[2]
  <1>1. /\ Consuming
        /\ EventItem \in Items
        /\ k \in DOMAIN issued[EventItem]
        /\ consumer.event = <<EventItem, k>>
        /\ EventBody \in Projection /\ EventBody = issued[EventItem][k]
        /\ Projected \in [Items -> Projection \cup {NoProjection}]
    BY BodyIsTyped DEF FinishEvent, EventBody
  <1>2. projection' = IF newer THEN Projected ELSE projection
    BY DEF FinishEvent
  <1>3. \A p \in Pairs : match'[p] = IF NewStatus(p) # consumer.seen[p] THEN NewStatus(p) ELSE match[p]
    BY DEF FinishEvent
  <1>4. \A p \in Pairs :
           announced'[p] = IF NewStatus(p) # consumer.seen[p] /\ NewStatus(p) = "SUGGESTED"
                           THEN Append(announced[p], "SUGGESTED") ELSE announced[p]
    BY DEF FinishEvent
  <1>5. processed' = processed \cup {consumer.event} /\ issued' = issued
    BY DEF FinishEvent
  <1>6. ~Consuming'
    BY DEF FinishEvent, Consuming
  <1>7. \A p \in Pairs : NewStatus(p) # consumer.seen[p] => NewStatus(p) \in {"SUGGESTED", "EXPIRED"}
    BY <1>1, NewStatusIs
  <1>8. TypeOK'
    <2>1. match' \in [Pairs -> MatchStatuses \cup {None}]
      BY <1>7 DEF IInv, TypeOK, FinishEvent, MatchStatuses
    <2>2. announced' \in [Pairs -> Seq(MatchStatuses)]
      <3>1. \A p \in Pairs : announced[p] \in Seq(MatchStatuses)
        BY DEF IInv, TypeOK
      <3>2. "SUGGESTED" \in MatchStatuses
        BY DEF MatchStatuses
      <3>3. \A p \in Pairs : Append(announced[p], "SUGGESTED") \in Seq(MatchStatuses)
        BY <3>1, <3>2
      <3>4. QED
        BY <3>1, <3>3 DEF FinishEvent
    <2>3. processed' \subseteq EventIds
      BY <1>1, <1>5 DEF IInv, TypeOK, KnownEvents, Known
    <2>4. NoConsumption \in Consumption
      BY DEF NoConsumption, Consumption
    <2>5. score' \in [Pairs -> Nat]
      BY NewScoreIsTyped DEF FinishEvent
    <2>6. QED
      BY <1>1, <1>2, <2>1, <2>2, <2>3, <2>4, <2>5 DEF IInv, TypeOK, FinishEvent
  <1>9. KnownEvents' /\ OffersAreSeen'
    BY <1>1, <1>5, <1>6 DEF IInv, KnownEvents, OffersAreSeen, Known
  <1>10. WorkersDecide'
    BY DEF IInv, WorkersDecide, FinishEvent
  <1>11. ProjectionIsNewest'
    <2>0. PICK i \in Items : i = EventItem
      BY <1>1
    <2> HIDE DEF k
    <2>1. ASSUME NEW j \in Items, j # i
          PROVE  ProcessedEvents(j)' = ProcessedEvents(j) /\ projection'[j] = projection[j]
      <3>1. {n \in DOMAIN issued[j] : <<j, n>> \in processed'} =
            {n \in DOMAIN issued[j] : <<j, n>> \in processed}
        BY <1>1, <1>5, <2>0, <2>1
      <3>2. QED
        BY <1>2, <1>5, <2>0, <2>1, <3>1 DEF ProcessedEvents, Projected, IInv, TypeOK
    <2>2. ProcessedEvents(i)' = ProcessedEvents(i) \cup {EventBody}
      <3>1. ProcessedEvents(i)' =
               {issued[i][n] : n \in {n \in DOMAIN issued[i] :
                                                  <<i, n>> \in processed \cup {<<i, k>>}}}
        BY <1>1, <1>5, <2>0 DEF ProcessedEvents
      <3>2. {n \in DOMAIN issued[i] : <<i, n>> \in processed \cup {<<i, k>>}} =
            {n \in DOMAIN issued[i] : <<i, n>> \in processed} \cup {k}
        BY <1>1, <2>0
      <3>3. QED
        BY <1>1, <2>0, <3>1, <3>2 DEF ProcessedEvents
    <2>3. /\ projection[i] \in ProcessedEvents(i) \cup {NoProjection}
          /\ \A e \in ProcessedEvents(i) : e.version <= projection[i].version
      BY <1>1 DEF IInv, ProjectionIsNewest
    <2>4. /\ projection[i].version \in Nat
          /\ EventBody.version \in Nat
          /\ \A e \in ProcessedEvents(i) : e.version \in Nat
      <3>1. issued[i] \in Seq(Projection)
        BY <1>1 DEF IInv, TypeOK
      <3>2. \A n \in DOMAIN issued[i] : issued[i][n] \in Projection
        BY <3>1
      <3>3. projection[i] \in Projection \cup {NoProjection}
        BY DEF IInv, TypeOK
      <3>4. projection[i].version \in Nat
        BY <3>3 DEF Projection, NoProjection
      <3>5. EventBody.version \in Nat
        BY <1>1 DEF Projection
      <3>6. \A e \in ProcessedEvents(i) : e.version \in Nat
        BY <3>2 DEF Projection, ProcessedEvents
      <3>7. QED
        BY <3>4, <3>5, <3>6
    <2>5. CASE newer
      <3>1. projection'[i] = EventBody
        BY <1>1, <1>2, <2>0, <2>5 DEF IInv, TypeOK, Projected
      <3>2. projection[i].version < EventBody.version
        BY <2>0, <2>4, <2>5 DEF IsNewer
      <3>3. \A e \in ProcessedEvents(i)' : e.version <= projection'[i].version
        BY <2>2, <2>3, <2>4, <3>1, <3>2
      <3>4. QED
        BY <2>1, <2>2, <3>1, <3>3 DEF IInv, ProjectionIsNewest
    <2>6. CASE ~newer
      <3>1. projection' = projection
        BY <1>2, <2>6
      <3>2. EventBody.version <= projection[i].version
        BY <2>0, <2>4, <2>6 DEF IsNewer
      <3>3. \A e \in ProcessedEvents(i)' : e.version <= projection[i].version
        BY <2>2, <2>3, <3>2
      <3>4. QED
        BY <2>1, <2>2, <2>3, <3>1, <3>3 DEF IInv, ProjectionIsNewest
    <2>7. QED
      BY <2>5, <2>6
  <1>12. SuggestedIsCandidate'
    <2> SUFFICES ASSUME NEW p \in Pairs, match'[p] = "SUGGESTED" PROVE Candidate(projection', p)
      BY DEF SuggestedIsCandidate, Candidate
    <2>1. CASE NewStatus(p) # consumer.seen[p]
      <3>1. NewStatus(p) = "SUGGESTED"
        BY <1>3, <2>1
      <3>2. newer /\ Candidate(Projected, p)
        BY <1>1, <2>1, <3>1, NewStatusIs
      <3>3. QED
        BY <1>2, <3>2
    <2>2. CASE NewStatus(p) = consumer.seen[p]
      <3>1. match[p] = "SUGGESTED"
        BY <1>3, <2>2
      <3>2. consumer.seen[p] = "SUGGESTED" /\ Candidate(projection, p)
        BY <1>1, <3>1 DEF IInv, OffersAreSeen, SuggestedIsCandidate
      <3>3. CASE newer /\ Touches(p, EventItem)
        <4>1. Verdict("SUGGESTED", Candidate(Projected, p)) = "SUGGESTED"
          BY <2>2, <3>2, <3>3 DEF NewStatus, Concerns
        <4>2. Candidate(Projected, p) \in BOOLEAN
          BY DEF Candidate
        <4>3. Candidate(Projected, p)
          BY <4>1, <4>2, VerdictIs
        <4>4. QED
          BY <1>2, <3>3, <4>3
      <3>4. CASE newer /\ ~Touches(p, EventItem)
        <4>1. p[1] \in Items /\ p[2] \in Items /\ p[1] # EventItem /\ p[2] # EventItem
          BY <3>4 DEF Touches, Pairs, Items
        <4>2. Projected[p[1]] = projection[p[1]] /\ Projected[p[2]] = projection[p[2]]
          BY <4>1 DEF Projected, IInv, TypeOK
        <4>3. QED
          BY <1>2, <3>2, <3>4, <4>2 DEF Candidate, ScoreOf
      <3>5. CASE ~newer
        BY <1>2, <3>2, <3>5
      <3>6. QED
        BY <3>3, <3>4, <3>5
    <2>3. QED
      BY <2>1, <2>2
  <1>13. StatusIsAnnounced'
    <2> SUFFICES ASSUME NEW p \in Pairs, match'[p] \notin {None, "EXPIRED"}
                 PROVE  announced'[p] # <<>> /\ announced'[p][Len(announced'[p])] = match'[p]
      BY DEF StatusIsAnnounced
    <2>1. announced[p] \in Seq(MatchStatuses) /\ "SUGGESTED" \in MatchStatuses
      BY DEF IInv, TypeOK, MatchStatuses
    <2>2. CASE NewStatus(p) # consumer.seen[p]
      <3>1. match'[p] = "SUGGESTED" /\ announced'[p] = Append(announced[p], "SUGGESTED")
        BY <1>3, <1>4, <1>7, <2>2
      <3>2. QED
        BY <2>1, <3>1
    <2>3. CASE NewStatus(p) = consumer.seen[p]
      BY <1>3, <1>4, <2>3 DEF IInv, StatusIsAnnounced
    <2>4. QED
      BY <2>2, <2>3
  <1>14. OfferedScoreIsCurrent'
    BY FinishEventScores
  <1>15. QED
    BY <1>8, <1>9, <1>10, <1>11, <1>12, <1>13, <1>14 DEF IInv

LEMMA FailEventKeeps ==
    ASSUME IInv, FailEvent
    PROVE  IInv'
  <1>1. TypeOK'
    <2>1. NoConsumption \in Consumption
      BY DEF NoConsumption, Consumption
    <2>2. QED
      BY <2>1 DEF IInv, TypeOK, FailEvent
  <1>2. KnownEvents' /\ OffersAreSeen' /\ WorkersDecide'
    BY DEF IInv, KnownEvents, OffersAreSeen, WorkersDecide, Known, Consuming, FailEvent
  <1>3. QED
    BY <1>1, <1>2, TablesUntouched DEF IInv, FailEvent

\* A thread takes up, checks or drops a decision: nothing is written.
LEMMA ThreadReadsKeeps ==
    ASSUME IInv, NEW t \in Threads, NEW w \in Work,
           w.phase # "idle" => w.pair \in Pairs /\ w.decision \in Decisions,
           worker' = [worker EXCEPT ![t] = w], admitted' \in 0..MaxDecisions,
           UNCHANGED <<issued, processed, projection, match, score, announced, consumer>>
    PROVE  IInv'
  <1>1. TypeOK'
    BY DEF IInv, TypeOK
  <1>2. KnownEvents' /\ OffersAreSeen'
    BY DEF IInv, KnownEvents, OffersAreSeen, Known, Consuming
  <1>3. WorkersDecide'
    BY DEF IInv, TypeOK, WorkersDecide
  <1>4. QED
    BY <1>1, <1>2, <1>3, TablesUntouched DEF IInv

LEMMA NoWorkIsTyped == NoWork \in Work /\ NoWork.phase = "idle"
  BY DEF NoWork, Work

LEMMA RetrieveKeeps ==
    ASSUME IInv, NEW t \in Threads, NEW p \in Pairs, NEW d \in Decisions, Retrieve(t, p, d)
    PROVE  IInv'
  <1> DEFINE w == [pair |-> p, decision |-> d, phase |-> "retrieved"]
  <1>1. w \in Work
    BY DEF Work
  <1>2. admitted' \in 0..MaxDecisions
    BY BoundsAssumption DEF IInv, TypeOK, Retrieve
  <1>3. QED
    BY <1>1, <1>2, ThreadReadsKeeps DEF Retrieve

LEMMA RecheckKeeps ==
    ASSUME IInv, NEW t \in Threads, Recheck(t)
    PROVE  IInv'
  <1>1. worker[t] \in Work /\ worker[t].pair \in Pairs /\ worker[t].decision \in Decisions
    BY DEF IInv, TypeOK, WorkersDecide, Recheck
  <1>2. PICK ph \in {"deciding", "expiring"} : worker' = [worker EXCEPT ![t].phase = ph]
    BY DEF Recheck
  <1> DEFINE w == [worker[t] EXCEPT !.phase = ph]
  <1>3. w \in Work /\ w.pair \in Pairs /\ w.decision \in Decisions
    BY <1>1 DEF Work
  <1>4. worker' = [worker EXCEPT ![t] = w]
    BY <1>2
  <1>5. admitted' \in 0..MaxDecisions
    BY DEF IInv, TypeOK, Recheck
  <1>6. QED
    BY <1>3, <1>4, <1>5, ThreadReadsKeeps DEF Recheck

LEMMA AbortKeeps ==
    ASSUME IInv, NEW t \in Threads, Abort(t)
    PROVE  IInv'
  <1>1. admitted' \in 0..MaxDecisions
    BY DEF IInv, TypeOK, Abort
  <1>2. QED
    BY <1>1, NoWorkIsTyped, ThreadReadsKeeps DEF Abort

\* A thread writes a decision, with its event, or that the suggestion expired.
LEMMA ThreadWritesKeeps ==
    ASSUME IInv, NEW t \in Threads, Decide(t) \/ Expire(t)
    PROVE  IInv'
  <1> DEFINE p == worker[t].pair
             d == worker[t].decision
  <1>1. p \in Pairs /\ d \in Decisions
    BY DEF IInv, WorkersDecide, Decide, Expire
  <1>2. /\ worker' = [worker EXCEPT ![t] = NoWork]
        /\ UNCHANGED <<issued, processed, projection, score, consumer, admitted>>
    BY DEF Decide, Expire
  <1>3. \/ /\ match' = [match EXCEPT ![p] = d]
           /\ announced' = [announced EXCEPT ![p] = Append(announced[p], d)]
        \/ match' = [match EXCEPT ![p] = "EXPIRED"] /\ announced' = announced
    BY DEF Decide, Expire
  <1>4. announced[p] \in Seq(MatchStatuses) /\ d \in MatchStatuses
    BY <1>1 DEF IInv, TypeOK, MatchStatuses
  <1>5. Append(announced[p], d) \in Seq(MatchStatuses)
    BY <1>4
  <1>6. TypeOK'
    <2>1. match' \in [Pairs -> MatchStatuses \cup {None}]
      BY <1>1, <1>3 DEF IInv, TypeOK, MatchStatuses
    <2>2. announced' \in [Pairs -> Seq(MatchStatuses)]
      BY <1>3, <1>5 DEF IInv, TypeOK
    <2>3. worker' \in [Threads -> Work]
      BY <1>2, NoWorkIsTyped DEF IInv, TypeOK
    <2>4. QED
      BY <1>2, <2>1, <2>2, <2>3 DEF IInv, TypeOK
  <1>7. KnownEvents'
    BY <1>2 DEF IInv, KnownEvents, Known, Consuming
  <1>8. \A q \in Pairs : match'[q] = "SUGGESTED" => match[q] = "SUGGESTED"
    BY <1>1, <1>3 DEF IInv, TypeOK, Decisions
  <1>9. OffersAreSeen'
    BY <1>2, <1>8 DEF IInv, OffersAreSeen, Consuming
  <1>10. WorkersDecide'
    BY <1>2, NoWorkIsTyped DEF IInv, TypeOK, WorkersDecide
  <1>11. ProjectionIsNewest'
    BY <1>2 DEF IInv, ProjectionIsNewest, ProcessedEvents
  <1>12. SuggestedIsCandidate'
    BY <1>2, <1>8 DEF IInv, SuggestedIsCandidate, Candidate, ScoreOf
  <1>15. OfferedScoreIsCurrent'
    BY <1>2, <1>8 DEF IInv, OfferedScoreIsCurrent, ScoreOf
  <1>13. StatusIsAnnounced'
    <2> SUFFICES ASSUME NEW q \in Pairs, match'[q] \notin {None, "EXPIRED"}
                 PROVE  announced'[q] # <<>> /\ announced'[q][Len(announced'[q])] = match'[q]
      BY DEF StatusIsAnnounced
    <2>1. CASE q = p
      <3>1. match'[p] = d /\ announced'[p] = Append(announced[p], d)
        BY <1>1, <1>3, <2>1 DEF IInv, TypeOK
      <3>2. QED
        BY <1>4, <2>1, <3>1
    <2>2. CASE q # p
      <3>1. match'[q] = match[q] /\ announced'[q] = announced[q]
        BY <1>3, <2>2 DEF IInv, TypeOK
      <3>2. QED
        BY <3>1 DEF IInv, StatusIsAnnounced
    <2>3. QED
      BY <2>1, <2>2
  <1>14. QED
    BY <1>6, <1>7, <1>9, <1>10, <1>11, <1>12, <1>13, <1>15 DEF IInv

LEMMA StutterKeeps ==
    ASSUME IInv, UNCHANGED vars
    PROVE  IInv'
  <1>1. TypeOK'
    BY DEF IInv, TypeOK, vars
  <1>2. KnownEvents' /\ OffersAreSeen' /\ WorkersDecide'
    BY DEF IInv, KnownEvents, OffersAreSeen, WorkersDecide, Known, Consuming, vars
  <1>3. QED
    BY <1>1, <1>2, TablesUntouched DEF IInv, vars

LEMMA NextKeeps == IInv /\ [Next]_vars => IInv'
  <1> SUFFICES ASSUME IInv, [Next]_vars PROVE IInv'
    OBVIOUS
  <1>1. ASSUME NEW i \in Items, NEW c \in Contents, NEW v \in 1..MaxEvents, Issue(i, c, v) PROVE IInv'
    BY <1>1, IssueKeeps
  <1>2. ASSUME NEW i \in Items, NEW k \in DOMAIN issued[i], Receive(i, k) PROVE IInv'
    BY <1>2, ReceiveKeeps
  <1>3. CASE FinishEvent
    BY <1>3, FinishEventKeeps
  <1>4. CASE FailEvent
    BY <1>4, FailEventKeeps
  <1>5. ASSUME NEW t \in Threads, NEW p \in Pairs, NEW d \in Decisions, Retrieve(t, p, d) PROVE IInv'
    BY <1>5, RetrieveKeeps
  <1>6. ASSUME NEW t \in Threads, Recheck(t) PROVE IInv'
    BY <1>6, RecheckKeeps
  <1>7. ASSUME NEW t \in Threads, Decide(t) \/ Expire(t) PROVE IInv'
    BY <1>7, ThreadWritesKeeps
  <1>8. ASSUME NEW t \in Threads, Abort(t) PROVE IInv'
    BY <1>8, AbortKeeps
  <1>9. CASE Quiescent \/ UNCHANGED vars
    BY <1>9, StutterKeeps DEF Quiescent
  <1>10. QED
    BY <1>1, <1>2, <1>3, <1>4, <1>5, <1>6, <1>7, <1>8, <1>9 DEF Next

-----------------------------------------------------------------------------
(* Theorems. *)

\* The invariant holds in every behaviour of the service.
THEOREM InductiveInvariant == Spec => []IInv
  BY InitEstablishes, NextKeeps, PTL DEF Spec

\* Tables, events and work keep their types.
THEOREM TypesAreRight == Spec => []TypeOK
  <1>1. IInv => TypeOK
    BY DEF IInv
  <1>2. QED
    BY <1>1, InductiveInvariant, PTL

\* upsert_item_projection keeps the newest version of the events processed, in
\* whatever order and however often they are delivered.
THEOREM ProjectionsAreNewest == Spec => []ProjectionIsNewest
  <1>1. IInv => ProjectionIsNewest
    BY DEF IInv
  <1>2. QED
    BY <1>1, InductiveInvariant, PTL

\* A suggestion that is offered holds for the projections it is offered with,
\* however many decisions are taken while an event is being consumed.
THEOREM OffersHold == Spec => []SuggestedIsCandidate
  <1>1. IInv => SuggestedIsCandidate
    BY DEF IInv
  <1>2. QED
    BY <1>1, InductiveInvariant, PTL

\* The score shown with a suggestion is that of its items as they are known.
THEOREM ScoresAreCurrent == Spec => []OfferedScoreIsCurrent
  <1>1. IInv => OfferedScoreIsCurrent
    BY DEF IInv
  <1>2. QED
    BY <1>1, InductiveInvariant, PTL

\* Whoever follows a match's events knows its status, though decisions
\* overwrite each other, unless the match expired.
THEOREM StatusesAreAnnounced == Spec => []StatusIsAnnounced
  <1>1. IInv => StatusIsAnnounced
    BY DEF IInv
  <1>2. QED
    BY <1>1, InductiveInvariant, PTL

=============================================================================
