--------------------------- MODULE MatchRacesProofs ---------------------------
(***************************************************************************)
(* Theorems about MatchRaces: what the service promises of the pairs that  *)
(* races spared, however many races there were on other pairs.             *)
(***************************************************************************)
EXTENDS MatchRaces, MatchingProofs

-----------------------------------------------------------------------------
(* The invariant of a pair that was spared.  Nobody but its one worker, or   *)
(* the consumer when it has none, writes its suggestion: what they read of   *)
(* it still holds when they write.                                           *)

PairInv(p) ==
    /\ Consuming /\ Touches(p, EventItem) => consumer.seen[p] = match[p]
    /\ \A t \in Threads :
          DecidesOn(t, p) => /\ match[p] = "SUGGESTED"
                             /\ worker[t].phase = "expiring" => ~Candidate(projection, p)
    /\ DecisionsOn(p) # {} => match[p] \in Decisions
    /\ Candidate(projection, p) => match[p] \notin {None, "EXPIRED"}
    /\ \A j, k \in DecisionsOn(p) : j = k

HistoryInv ==
    /\ IInv
    /\ Overlapping \subseteq raced
    /\ \A p \in Spared : PairInv(p)

-----------------------------------------------------------------------------
(* Lemmas. *)

LEMMA DecisionsAppended ==
    ASSUME NEW s \in Seq(MatchStatuses), NEW x
    PROVE  {k \in DOMAIN Append(s, x) : Append(s, x)[k] \in Decisions} =
              {k \in DOMAIN s : s[k] \in Decisions}
                 \cup (IF x \in Decisions THEN {Len(s) + 1} ELSE {})
  <1>1. DOMAIN Append(s, x) = DOMAIN s \cup {Len(s) + 1} /\ Len(s) + 1 \notin DOMAIN s
    OBVIOUS
  <1>2. Append(s, x)[Len(s) + 1] = x /\ \A k \in DOMAIN s : Append(s, x)[k] = s[k]
    OBVIOUS
  <1>3. QED
    BY <1>1, <1>2

\* Who works on a spared pair is alone with it.
LEMMA WorkerIsAlone ==
    ASSUME NEW p \in Pairs, p \notin Overlapping, NEW t \in Threads, DecidesOn(t, p)
    PROVE  /\ \A u \in Threads : DecidesOn(u, p) => u = t
           /\ ~(Consuming /\ Touches(p, EventItem))
  BY DEF Overlapping

\* Steps that write nothing, and give the pair no other work than they show.
LEMMA PairUntouched ==
    ASSUME NEW p \in Pairs, PairInv(p), UNCHANGED <<projection, match, announced>>,
           (Consuming /\ Touches(p, EventItem) => consumer.seen[p] = match[p])',
           \A t \in Threads :
              DecidesOn(t, p)' =>
                 \/ UNCHANGED worker[t]
                 \/ /\ match[p] = "SUGGESTED"
                    /\ worker'[t].phase = "expiring" => ~Candidate(projection, p)
    PROVE  PairInv(p)'
  <1>1. Candidate(projection, p)' = Candidate(projection, p) /\ DecisionsOn(p)' = DecisionsOn(p)
    BY DEF Candidate, ScoreOf, DecisionsOn
  <1>2. ASSUME NEW t \in Threads, DecidesOn(t, p)'
        PROVE  match[p] = "SUGGESTED" /\ (worker'[t].phase = "expiring" => ~Candidate(projection, p))
    <2>1. CASE UNCHANGED worker[t]
      BY <1>2, <2>1 DEF PairInv, DecidesOn
    <2>2. QED
      BY <1>2, <2>1
  <1>3. QED
    BY <1>1, <1>2 DEF PairInv

-----------------------------------------------------------------------------
(* One lemma per action. *)

LEMMA ConsumerReadsKeepPair ==
    ASSUME NEW p \in Pairs, PairInv(p),
           \/ \E i \in Items, c \in Contents, v \in 1..MaxEvents : Issue(i, c, v)
           \/ \E i \in Items : \E k \in DOMAIN issued[i] : Receive(i, k)
           \/ FailEvent
           \/ UNCHANGED vars
    PROVE  PairInv(p)'
  <1>1. UNCHANGED <<projection, match, announced, worker>>
    BY DEF Issue, Receive, FailEvent, vars
  <1>2. (Consuming /\ Touches(p, EventItem) => consumer.seen[p] = match[p])'
    <2>1. CASE consumer' = consumer
      BY <1>1, <2>1 DEF PairInv, Consuming, Touches, EventItem
    <2>2. CASE consumer'.seen = match
      BY <1>1, <2>2
    <2>3. CASE consumer' = NoConsumption
      BY <2>3 DEF Consuming
    <2>4. consumer' = consumer \/ consumer'.seen = match \/ consumer' = NoConsumption
      <3>1. ASSUME NEW i \in Items, NEW k \in DOMAIN issued[i], Receive(i, k)
            PROVE  consumer'.seen = match
        BY <3>1 DEF Receive
      <3>2. ASSUME NEW i \in Items, NEW c \in Contents, NEW v \in 1..MaxEvents, Issue(i, c, v)
            PROVE  consumer' = consumer
        BY <3>2 DEF Issue
      <3>3. QED
        BY <3>1, <3>2 DEF FailEvent, vars
    <2>5. QED
      BY <2>1, <2>2, <2>3, <2>4
  <1>3. QED
    BY <1>1, <1>2, PairUntouched

LEMMA FinishEventKeepsPair ==
    ASSUME IInv, NEW p \in Pairs, PairInv(p), p \notin Overlapping, FinishEvent
    PROVE  /\ PairInv(p)'
           /\ match[p] \in Decisions => match'[p] = match[p]
  <1> DEFINE newer == IsNewer(EventBody, projection[EventItem])
  <1>1. Consuming /\ ~Consuming' /\ worker' = worker
    BY DEF FinishEvent, Consuming
  <1>2. projection' = IF newer THEN Projected ELSE projection
    BY DEF FinishEvent
  <1>3. /\ match'[p] = IF NewStatus(p) # consumer.seen[p] THEN NewStatus(p) ELSE match[p]
        /\ announced'[p] = IF NewStatus(p) # consumer.seen[p] /\ NewStatus(p) = "SUGGESTED"
                           THEN Append(announced[p], "SUGGESTED") ELSE announced[p]
    BY DEF FinishEvent
  <1>4. CASE Concerns(p)
    <2>1. newer /\ Touches(p, EventItem)
      BY <1>4 DEF Concerns
    <2>2. \A t \in Threads : ~DecidesOn(t, p)
      BY <1>1, <2>1 DEF Overlapping
    <2>3. consumer.seen[p] = match[p] /\ NewStatus(p) = Verdict(match[p], Candidate(Projected, p))
      BY <1>1, <1>4, <2>1 DEF PairInv, NewStatus
    <2>4. match'[p] = Verdict(match[p], Candidate(Projected, p)) /\ projection' = Projected
      BY <1>2, <1>3, <2>1, <2>3
    <2>5. Candidate(Projected, p) \in BOOLEAN /\ Candidate(projection, p)' = Candidate(Projected, p)
      BY <2>4 DEF Candidate, ScoreOf
    <2>6. Candidate(projection, p)' => match'[p] \notin {None, "EXPIRED"}
      <3>1. CASE ~Candidate(Projected, p)
        BY <2>5, <3>1
      <3>2. CASE Candidate(Projected, p) /\ match[p] \in {None, "EXPIRED"}
        BY <2>4, <3>2, VerdictIs DEF None
      <3>3. CASE Candidate(Projected, p) /\ match[p] \notin {None, "EXPIRED"}
        BY <2>4, <3>3, VerdictIs
      <3>4. QED
        BY <2>5, <3>1, <3>2, <3>3
    <2>7. match[p] \in Decisions => match'[p] = match[p]
      BY <2>4, <2>5, VerdictIs DEF Decisions, None
    <2>8. DecisionsOn(p)' = DecisionsOn(p)
      <3>1. CASE NewStatus(p) # consumer.seen[p] /\ NewStatus(p) = "SUGGESTED"
        <4>1. announced[p] \in Seq(MatchStatuses) /\ "SUGGESTED" \notin Decisions
          BY DEF IInv, TypeOK, Decisions
        <4>2. QED
          BY <1>3, <3>1, <4>1, DecisionsAppended DEF DecisionsOn
      <3>2. CASE ~(NewStatus(p) # consumer.seen[p] /\ NewStatus(p) = "SUGGESTED")
        BY <1>3, <3>2 DEF DecisionsOn
      <3>3. QED
        BY <3>1, <3>2
    <2>9. \A t \in Threads : ~DecidesOn(t, p)'
      BY <1>1, <2>2 DEF DecidesOn
    <2>10. QED
      BY <1>1, <2>6, <2>7, <2>8, <2>9 DEF PairInv
  <1>5. CASE ~Concerns(p)
    <2>1. match'[p] = match[p] /\ announced'[p] = announced[p]
      BY <1>3, <1>5 DEF NewStatus
    <2>2. Candidate(projection, p)' = Candidate(projection, p)
      <3>1. CASE newer
        <4>1. p[1] \in Items /\ p[2] \in Items /\ p[1] # EventItem /\ p[2] # EventItem
          BY <1>5, <3>1 DEF Concerns, Touches, Pairs, Items
        <4>2. Projected[p[1]] = projection[p[1]] /\ Projected[p[2]] = projection[p[2]]
          BY <4>1 DEF Projected, IInv, TypeOK
        <4>3. QED
          BY <1>2, <3>1, <4>2 DEF Candidate, ScoreOf
      <3>2. CASE ~newer
        BY <1>2, <3>2 DEF Candidate, ScoreOf
      <3>3. QED
        BY <3>1, <3>2
    <2>3. DecisionsOn(p)' = DecisionsOn(p) /\ \A t \in Threads : DecidesOn(t, p)' = DecidesOn(t, p)
      BY <1>1, <2>1 DEF DecisionsOn, DecidesOn
    <2>4. QED
      BY <1>1, <2>1, <2>2, <2>3 DEF PairInv
  <1>6. QED
    BY <1>4, <1>5

LEMMA ThreadReadsKeepPair ==
    ASSUME IInv, NEW p \in Pairs, PairInv(p), NEW t \in Threads,
           \/ \E q \in Pairs, d \in Decisions : Retrieve(t, q, d)
           \/ Recheck(t)
           \/ Abort(t)
    PROVE  PairInv(p)'
  <1>1. UNCHANGED <<projection, match, announced, consumer>>
    BY DEF Retrieve, Recheck, Abort
  <1>2. (Consuming /\ Touches(p, EventItem) => consumer.seen[p] = match[p])'
    BY <1>1 DEF PairInv, Consuming, Touches, EventItem
  <1>3. \A u \in Threads : u # t => UNCHANGED worker[u]
    BY DEF IInv, TypeOK, Retrieve, Recheck, Abort
  <1>4. ASSUME DecidesOn(t, p)'
        PROVE  /\ match[p] = "SUGGESTED"
               /\ worker'[t].phase = "expiring" => ~Candidate(projection, p)
    <2>1. ASSUME NEW q \in Pairs, NEW d \in Decisions, Retrieve(t, q, d)
          PROVE  match[p] = "SUGGESTED" /\ worker'[t].phase # "expiring"
      <3>1. worker'[t] = [pair |-> q, decision |-> d, phase |-> "retrieved"] /\ match[q] = "SUGGESTED"
        BY <2>1 DEF Retrieve, IInv, TypeOK
      <3>2. q = p
        BY <1>4, <3>1 DEF DecidesOn
      <3>3. QED
        BY <3>1, <3>2
    <2>2. CASE Recheck(t)
      <3>1. worker[t] \in Work /\ worker[t].phase = "retrieved"
        BY <2>2 DEF Recheck, IInv, TypeOK
      <3>2. PICK ph : /\ ph = IF Candidate(projection, worker[t].pair) THEN "deciding" ELSE "expiring"
                      /\ worker'[t] = [worker[t] EXCEPT !.phase = ph]
        BY <2>2 DEF Recheck, IInv, TypeOK
      <3>3. worker'[t].pair = worker[t].pair /\ worker'[t].phase = ph
        BY <3>1, <3>2 DEF Work
      <3>4. worker[t].pair = p /\ worker[t] # NoWork
        BY <1>4, <3>1, <3>3 DEF DecidesOn, NoWork
      <3>5. match[p] = "SUGGESTED"
        BY <3>4 DEF PairInv, DecidesOn
      <3>6. QED
        BY <3>2, <3>3, <3>4, <3>5
    <2>3. CASE Abort(t)
      BY <1>4, <2>3 DEF Abort, IInv, TypeOK, DecidesOn
    <2>4. QED
      BY <2>1, <2>2, <2>3
  <1>5. QED
    BY <1>1, <1>2, <1>3, <1>4, PairUntouched

LEMMA ThreadWritesKeepPair ==
    ASSUME IInv, NEW p \in Pairs, PairInv(p), p \notin Overlapping, NEW t \in Threads,
           Decide(t) \/ Expire(t)
    PROVE  /\ PairInv(p)'
           /\ match[p] \in Decisions => match'[p] = match[p]
  <1> DEFINE q == worker[t].pair
             d == worker[t].decision
  <1>1. q \in Pairs /\ d \in Decisions /\ worker[t] # NoWork
    BY DEF IInv, WorkersDecide, Decide, Expire, NoWork
  <1>2. /\ worker' = [worker EXCEPT ![t] = NoWork]
        /\ UNCHANGED <<projection, consumer>>
    BY DEF Decide, Expire
  <1>3. \/ /\ match' = [match EXCEPT ![q] = d]
           /\ announced' = [announced EXCEPT ![q] = Append(announced[q], d)]
        \/ /\ match' = [match EXCEPT ![q] = "EXPIRED"] /\ announced' = announced
           /\ worker[t].phase = "expiring"
    BY DEF Decide, Expire
  <1>4. Candidate(projection, p)' = Candidate(projection, p)
    BY <1>2 DEF Candidate, ScoreOf
  <1>5. \A u \in Threads : DecidesOn(u, p)' => u # t /\ DecidesOn(u, p) /\ worker'[u] = worker[u]
    BY <1>2 DEF IInv, TypeOK, DecidesOn
  <1>6. CASE q = p
    <2>1. DecidesOn(t, p)
      BY <1>1, <1>6 DEF DecidesOn
    <2>2. \A u \in Threads : ~DecidesOn(u, p)'
      BY <1>5, <2>1, WorkerIsAlone
    <2>3. ~(Consuming /\ Touches(p, EventItem))'
      BY <1>2, <2>1, WorkerIsAlone DEF Consuming, EventItem
    <2>4. /\ match[p] = "SUGGESTED"
          /\ worker[t].phase = "expiring" => ~Candidate(projection, p)
      BY <2>1 DEF PairInv
    <2>5. match[p] \notin Decisions /\ DecisionsOn(p) = {}
      BY <2>4 DEF PairInv, Decisions
    <2>6. CASE match' = [match EXCEPT ![q] = d] /\ announced' = [announced EXCEPT ![q] = Append(announced[q], d)]
      <3>1. match'[p] = d /\ announced'[p] = Append(announced[p], d) /\ announced[p] \in Seq(MatchStatuses)
        BY <1>6, <2>6 DEF IInv, TypeOK
      <3>2. DecisionsOn(p)' = DecisionsOn(p) \cup {Len(announced[p]) + 1}
        BY <1>1, <3>1, DecisionsAppended DEF DecisionsOn
      <3>3. match'[p] \in Decisions /\ match'[p] \notin {None, "EXPIRED"}
        BY <1>1, <3>1 DEF Decisions, None
      <3>4. QED
        BY <2>2, <2>3, <2>5, <3>2, <3>3 DEF PairInv
    <2>7. CASE match' = [match EXCEPT ![q] = "EXPIRED"] /\ announced' = announced /\ worker[t].phase = "expiring"
      <3>1. DecisionsOn(p)' = {}
        BY <2>5, <2>7 DEF DecisionsOn
      <3>2. QED
        BY <1>4, <2>2, <2>3, <2>4, <2>5, <2>7, <3>1 DEF PairInv
    <2>8. QED
      BY <1>3, <2>6, <2>7
  <1>7. CASE q # p
    <2>1. match'[p] = match[p] /\ announced'[p] = announced[p]
      BY <1>3, <1>7 DEF IInv, TypeOK
    <2>2. DecisionsOn(p)' = DecisionsOn(p)
      BY <2>1 DEF DecisionsOn
    <2>3. (Consuming /\ Touches(p, EventItem) => consumer.seen[p] = match[p])'
      BY <1>2, <2>1 DEF PairInv, Consuming, EventItem
    <2>4. QED
      BY <1>4, <1>5, <2>1, <2>2, <2>3 DEF PairInv
  <1>8. QED
    BY <1>6, <1>7

LEMMA PairKept ==
    ASSUME IInv, NEW p \in Pairs, PairInv(p), p \notin Overlapping, [Next]_vars
    PROVE  /\ PairInv(p)'
           /\ match[p] \in Decisions => match'[p] = match[p]
  <1>1. CASE \/ \E i \in Items, c \in Contents, v \in 1..MaxEvents : Issue(i, c, v)
             \/ \E i \in Items : \E k \in DOMAIN issued[i] : Receive(i, k)
             \/ FailEvent
             \/ UNCHANGED vars
    <2>1. match' = match
      BY <1>1 DEF Issue, Receive, FailEvent, vars
    <2>2. QED
      BY <1>1, <2>1, ConsumerReadsKeepPair
  <1>2. CASE FinishEvent
    BY <1>2, FinishEventKeepsPair
  <1>3. ASSUME NEW t \in Threads,
               (\E q \in Pairs, d \in Decisions : Retrieve(t, q, d)) \/ Recheck(t) \/ Abort(t)
        PROVE  PairInv(p)' /\ (match[p] \in Decisions => match'[p] = match[p])
    <2>1. match' = match
      BY <1>3 DEF Retrieve, Recheck, Abort
    <2>2. QED
      BY <1>3, <2>1, ThreadReadsKeepPair
  <1>4. ASSUME NEW t \in Threads, Decide(t) \/ Expire(t)
        PROVE  PairInv(p)' /\ (match[p] \in Decisions => match'[p] = match[p])
    BY <1>4, ThreadWritesKeepPair
  <1>5. QED
    BY <1>1, <1>2, <1>3, <1>4 DEF Next, Quiescent

LEMMA HistoryKept ==
    ASSUME HistoryInv, [HistoryNext]_historyVars
    PROVE  /\ HistoryInv'
           /\ \A p \in Pairs : match[p] \in Decisions /\ p \notin raced' => match'[p] = match[p]
  <1>1. [Next]_vars /\ raced \subseteq raced' /\ Overlapping' \subseteq raced'
    <2>1. CASE HistoryNext
      BY <2>1 DEF HistoryNext
    <2>2. CASE UNCHANGED historyVars
      <3>1. Overlapping' = Overlapping
        BY <2>2 DEF historyVars, vars, Overlapping, DecidesOn, Consuming, EventItem
      <3>2. QED
        BY <2>2, <3>1 DEF historyVars, HistoryInv
    <2>3. QED
      BY <2>1, <2>2
  <1>2. IInv'
    BY <1>1, NextKeeps DEF HistoryInv
  <1>3. ASSUME NEW p \in Pairs, p \notin raced'
        PROVE  PairInv(p)' /\ (match[p] \in Decisions => match'[p] = match[p])
    <2>1. PairInv(p) /\ p \notin Overlapping /\ IInv
      BY <1>1, <1>3 DEF HistoryInv, Spared
    <2>2. QED
      BY <1>1, <2>1, PairKept
  <1>4. QED
    BY <1>1, <1>2, <1>3 DEF HistoryInv, Spared

LEMMA HistoryBegins == HistoryInit => HistoryInv
  <1> SUFFICES ASSUME HistoryInit PROVE HistoryInv
    OBVIOUS
  <1>1. IInv /\ ~Consuming
    BY InitEstablishes DEF HistoryInit, Init, Consuming
  <1>2. \A t \in Threads, p \in Pairs : ~DecidesOn(t, p)
    BY DEF HistoryInit, Init, DecidesOn
  <1>3. ASSUME NEW p \in Pairs PROVE PairInv(p)
    <2>1. DecisionsOn(p) = {}
      BY DEF HistoryInit, Init, DecisionsOn
    <2>2. ~Candidate(projection, p)
      <3>1. p[1] \in Items
        BY DEF Pairs, Items
      <3>2. QED
        BY <3>1 DEF HistoryInit, Init, Candidate, NoProjection, None
    <2>3. QED
      BY <1>1, <1>2, <2>1, <2>2 DEF PairInv
  <1>4. Overlapping = {}
    BY <1>1, <1>2 DEF Overlapping
  <1>5. QED
    BY <1>1, <1>3, <1>4 DEF HistoryInv, Spared

-----------------------------------------------------------------------------
(* Theorems. *)

THEOREM HistoryInvariant == HistorySpec => []HistoryInv
  BY HistoryBegins, HistoryKept, PTL DEF HistorySpec

\* Every pair that holds for the projections is offered, or was decided, unless
\* a decision on that very pair ran into another one or into an event.
THEOREM CandidatesOffered == HistorySpec => []CandidatesAreOffered
  <1>1. HistoryInv => CandidatesAreOffered
    BY DEF HistoryInv, PairInv, CandidatesAreOffered
  <1>2. QED
    BY <1>1, HistoryInvariant, PTL

\* A suggestion that no race touched is decided at most once, for any number of
\* threads and whatever races touched the others.
THEOREM DecidedAtMostOnce == HistorySpec => []SparedDecidedOnce
  <1>1. HistoryInv => SparedDecidedOnce
    BY DEF HistoryInv, PairInv, SparedDecidedOnce
  <1>2. QED
    BY <1>1, HistoryInvariant, PTL

\* A decision stands, unless a race touched its pair.
THEOREM DecisionsAreFinal == HistorySpec => DecisionIsFinal
  <1>1. HistoryInv /\ [HistoryNext]_historyVars =>
           [\A p \in Pairs : match[p] \in Decisions /\ p \notin raced' => match'[p] = match[p]]_historyVars
    BY HistoryKept
  <1>2. QED
    BY <1>1, HistoryInvariant, PTL DEF HistorySpec, DecisionIsFinal

=============================================================================
