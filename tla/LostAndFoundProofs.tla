------------------------- MODULE LostAndFoundProofs -------------------------
(***************************************************************************)
(* Theorems about LostAndFound.  A step of the services together is a step *)
(* of each of them or leaves it alone, so what was proved of each holds of *)
(* the whole: the theorems and lemmas of its proof module are used, with   *)
(* the constants and variables it has in LostAndFound.                     *)
(***************************************************************************)
EXTENDS LostAndFound, TLAPS

RP == INSTANCE RecoveryCasesProofs WITH
    Matches       <- Pairs,
    LostOf        <- [p \in Pairs |-> p[1]],
    FoundOf       <- [p \in Pairs |-> p[2]],
    Events        <- Acceptances,
    MatchOf       <- [e \in Acceptances |-> e[1]],
    Consumer      <- "consumer",
    Threads       <- Closers,
    Users         <- {},
    UserTargets   <- {},
    MaxDeliveries <- [e \in Acceptances |-> 1],
    MaxFaults     <- 0,
    processed     <- registered

MP == INSTANCE MatchingProofs WITH
    Details   <- {Alike},
    Score     <- [d \in {Alike} \X {Alike} |-> 1],
    Contents  <- [status : Statuses, details : {Alike}],
    Threads   <- Deciders,
    MaxEvents <- 0,
    processed <- consumed

-----------------------------------------------------------------------------
(* The recovery saga.  RP has the definitions of Recovery under names of its *)
(* own.                                                                      *)

\* RecoveryCases' assumptions hold of the instance.
LEMMA RecoveryAssumptions ==
    /\ [p \in Pairs |-> p[1]] \in [Pairs -> Items]
    /\ [p \in Pairs |-> p[2]] \in [Pairs -> Items]
    /\ [e \in Acceptances |-> e[1]] \in [Acceptances -> Pairs]
    /\ "consumer" \notin Closers
    /\ {} \subseteq RP!Statuses
    /\ [e \in Acceptances |-> 1] \in [Acceptances -> Nat]
    /\ 0 \in Nat /\ MaxRequests \in Nat
  BY ActorsAssumption, BoundsAssumption DEF Pairs, Items, Acceptances

LEMMA SameNames ==
    /\ Recovery!NoWork = RP!NoWork /\ Recovery!None = RP!None
    /\ Recovery!Actors = RP!Actors /\ Recovery!Phases = RP!Phases
    /\ Recovery!OpenableStatuses = RP!OpenableStatuses /\ Recovery!Statuses = RP!Statuses
    /\ \A m : Recovery!ItemsOf(m) = RP!ItemsOf(m)
    /\ \A op : Recovery!Targets(op) = RP!Targets(op)
    /\ \A op : Recovery!Results(op) = RP!Results(op)
  <1>1. /\ Recovery!NoWork = RP!NoWork /\ Recovery!None = RP!None
        /\ Recovery!Actors = RP!Actors /\ Recovery!Phases = RP!Phases
        /\ Recovery!OpenableStatuses = RP!OpenableStatuses /\ Recovery!Statuses = RP!Statuses
    BY DEF Recovery!NoWork, RP!NoWork, Recovery!NoCall, RP!NoCall, Recovery!None, RP!None,
           Recovery!Actors, RP!Actors, Recovery!Phases, RP!Phases,
           Recovery!OpenableStatuses, RP!OpenableStatuses, Recovery!Statuses, RP!Statuses
  <1>2. \A m : Recovery!ItemsOf(m) = RP!ItemsOf(m)
    BY DEF Recovery!ItemsOf, RP!ItemsOf
  <1>3. ASSUME NEW op PROVE Recovery!Targets(op) = RP!Targets(op)
    BY <1>1, Zenon DEF Recovery!Targets, RP!Targets
  <1>4. ASSUME NEW op PROVE Recovery!Results(op) = RP!Results(op)
    BY Zenon DEF Recovery!Results, RP!Results
  <1>5. QED
    BY <1>1, <1>2, <1>3, <1>4

LEMMA SameBusy ==
    ASSUME NEW a
    PROVE  /\ Recovery!Busy(a) <=> RP!Busy(a)
           /\ \A ph : Recovery!In(a, ph) <=> RP!In(a, ph)
           /\ \A p, ops : Recovery!Knows(a, p, ops) <=> RP!Knows(a, p, ops)
           /\ \A p : Recovery!Closing(a, p) <=> RP!Closing(a, p)
  BY SameNames DEF Recovery!Busy, RP!Busy, Recovery!In, RP!In, Recovery!Knows, RP!Knows,
                   Recovery!Closing, RP!Closing

LEMMA SameInit == Recovery!Init <=> RP!Init
  <1>1. Recovery!Call = RP!Call
    BY SameNames DEF Recovery!Call, RP!Call, Recovery!Ops, RP!Ops
  <1>2. Recovery!NoMove = RP!NoMove
    BY SameNames DEF Recovery!NoMove, RP!NoMove
  <1>3. QED
    BY <1>1, <1>2, SameNames DEF Recovery!Init, RP!Init

LEMMA SameConsumer ==
    /\ \A e \in Acceptances : /\ Recovery!ConsumeToOpen(e) <=> RP!ConsumeToOpen(e)
                              /\ Recovery!ConsumeKnown(e) <=> RP!ConsumeKnown(e)
    /\ Recovery!FlushOpening <=> RP!FlushOpening
  BY SameNames, SameBusy
  DEF Recovery!ConsumeToOpen, RP!ConsumeToOpen, Recovery!ConsumeKnown, RP!ConsumeKnown,
      Recovery!FlushOpening, RP!FlushOpening,
      Recovery!Openable, RP!Openable, Recovery!FoundItemIsFree, RP!FoundItemIsFree

LEMMA SameClosing ==
    ASSUME NEW t, NEW p, NEW op, NEW s, NEW r
    PROVE  Recovery!RequestClose(t, p, op, s, r) <=> RP!RequestClose(t, p, op, s, r)
  BY SameNames, SameBusy DEF Recovery!RequestClose, RP!RequestClose

LEMMA SameCall ==
    ASSUME NEW a
    PROVE  /\ Recovery!Accepts(work[a].call) <=> RP!Accepts(work[a].call)
           /\ Recovery!Validate(a) <=> RP!Validate(a)
           /\ Recovery!Write(a) <=> RP!Write(a)
  <1>1. Recovery!Accepts(work[a].call) <=> RP!Accepts(work[a].call)
    BY SameNames DEF Recovery!Accepts, RP!Accepts
  <1>2. Recovery!Validate(a) <=> RP!Validate(a)
    BY <1>1, SameBusy DEF Recovery!Validate, RP!Validate
  <1>3. Recovery!Moved(work[a].call) = RP!Moved(work[a].call)
    BY SameNames DEF Recovery!Moved, RP!Moved
  <1>4. Recovery!Write(a) <=> RP!Write(a)
    BY <1>3, SameBusy DEF Recovery!Write, RP!Write
  <1>5. QED
    BY <1>1, <1>2, <1>4

LEMMA SameSettle ==
    ASSUME NEW a
    PROVE  Recovery!Settle(a) <=> RP!Settle(a)
  <1>1. Recovery!Outcome(a) = RP!Outcome(a)
    BY Zenon DEF Recovery!Outcome, RP!Outcome
  <1>2. Recovery!Registered(a) = RP!Registered(a)
    BY DEF Recovery!Registered, RP!Registered
  <1>3. \A p : Recovery!RowLocked(p) <=> RP!RowLocked(p)
    BY SameNames, SameBusy DEF Recovery!RowLocked, RP!RowLocked
  <1>4. QED
    BY <1>1, <1>2, <1>3, SameNames, SameBusy DEF Recovery!Settle, RP!Settle

LEMMA SameUndisturbed == Recovery!Undisturbed <=> RP!Undisturbed
  <1>1. Recovery!NoOverlap <=> RP!NoOverlap
    BY SameNames, SameBusy DEF Recovery!NoOverlap, RP!NoOverlap
  <1>2. \A p \in Pairs : Recovery!Lone(p) <=> RP!Lone(p)
    BY SameNames DEF Recovery!Lone, RP!Lone
  <1>3. QED
    BY <1>1, <1>2, SameBusy DEF Recovery!Undisturbed, RP!Undisturbed

\* What the services do is a step of the saga, or none of its business.
LEMMA RecoverySteps == [Next]_vars => [RP!Next]_(RP!vars)
  <1> SUFFICES ASSUME [Next]_vars PROVE RP!Next \/ UNCHANGED RP!vars
    OBVIOUS
  <1>1. ASSUME UNCHANGED <<item, recoveryVars>> PROVE UNCHANGED RP!vars
    BY <1>1 DEF recoveryVars, RP!vars
  <1>2. CASE \/ ConsumeItemEvent
             \/ \E t \in Deciders : Request(t) \/ ServeDecision(t)
             \/ Done \/ UNCHANGED vars
    BY <1>1, <1>2 DEF ConsumeItemEvent, Request, ServeDecision, Done, vars
  <1>3. CASE ConsumeAcceptance
    <2>1. \E e \in Acceptances : RP!ConsumeToOpen(e) \/ RP!ConsumeKnown(e)
      BY <1>3, SameConsumer DEF ConsumeAcceptance
    <2>2. QED
      BY <2>1 DEF RP!Next
  <1>4. CASE RequestClose
    <2>1. PICK t \in Closers, p \in Pairs, c \in Closings :
             RP!RequestClose(t, p, c.op, c.target, c.result)
      BY <1>4, SameClosing DEF RequestClose
    <2>2. c.op \in RP!Ops \ {"open"} /\ c.target \in RP!Statuses /\ c.result \in RP!CaseStatuses
      <3>1. c.op \in {"cancel", "complete"} /\ c.target \in Statuses
        BY BoundsAssumption
      <3>2. c.result \in RP!Results(c.op)
        BY <2>1 DEF RP!RequestClose
      <3>3. QED
        BY <3>1, <3>2 DEF RP!Ops, RP!Results, RP!CaseStatuses, Statuses, RP!Statuses
    <2>3. QED
      BY <2>1, <2>2 DEF RP!Next
  <1>5. CASE Service
    <2>1. PICK a \in Recovery!Actors : Proceed(a)
      BY <1>5 DEF Service
    <2>2. a \in RP!Actors
      BY <2>1, SameNames
    <2>3. RP!Validate(a) \/ RP!Write(a) \/ RP!Settle(a) \/ RP!FlushOpening
      BY <2>1, SameCall, SameSettle, SameConsumer DEF Proceed
    <2>4. QED
      BY <2>2, <2>3 DEF RP!Next
  <1>6. QED
    BY <1>2, <1>3, <1>4, <1>5 DEF Next

LEMMA SameHolding ==
    /\ RP!ActiveCaseHoldsItems => ActiveCaseHoldsItems
    /\ RP!RecoveryHasCase => RecoveryHasCase
  <1>1. RP!ActiveCaseHoldsItems => ActiveCaseHoldsItems
    BY SameNames, SameBusy
    DEF ActiveCaseHoldsItems, Recovery!ActiveCaseHoldsItems, RP!ActiveCaseHoldsItems,
        Recovery!Active, RP!Active
  <1>2. RP!RecoveryHasCase => RecoveryHasCase
    BY SameNames, SameBusy
    DEF RecoveryHasCase, Recovery!RecoveryHasCase, RP!RecoveryHasCase,
        Recovery!Active, RP!Active
  <1>3. QED
    BY <1>1, <1>2

\* The cases look the same, before and after a step.
LEMMA SameChoice == \A S, T : S = T => (CHOOSE t \in S : TRUE) = (CHOOSE t \in T : TRUE)
  OBVIOUS

LEMMA SameStatusOf ==
    /\ [p \in Pairs |-> Recovery!StatusOf(p)] = [p \in Pairs |-> RP!StatusOf(p)]
    /\ [p \in Pairs |-> Recovery!StatusOf(p)]' = [p \in Pairs |-> RP!StatusOf(p)]'
  <1>1. ASSUME NEW a, NEW p, NEW ops
        PROVE  /\ RP!Knows(a, p, ops) <=> Recovery!Knows(a, p, ops)
               /\ RP!Knows(a, p, ops)' <=> Recovery!Knows(a, p, ops)'
    BY SameNames DEF Recovery!Knows, RP!Knows, Recovery!In, RP!In, Recovery!Busy, RP!Busy
  <1>2. ASSUME NEW p \in Pairs
        PROVE  /\ Recovery!ClosersOf(p) = RP!ClosersOf(p)
               /\ Recovery!ClosersOf(p)' = RP!ClosersOf(p)'
    BY <1>1 DEF Recovery!ClosersOf, RP!ClosersOf
  <1>3. ASSUME NEW p \in Pairs
        PROVE  /\ Recovery!StatusOf(p) = RP!StatusOf(p)
               /\ Recovery!StatusOf(p)' = RP!StatusOf(p)'
    <2>1. (CHOOSE t \in Recovery!ClosersOf(p) : TRUE) = (CHOOSE t \in RP!ClosersOf(p) : TRUE)
      BY <1>2, SameChoice
    <2>2. (CHOOSE t \in Recovery!ClosersOf(p)' : TRUE) = (CHOOSE t \in RP!ClosersOf(p)' : TRUE)
      BY <1>2, SameChoice
    <2>3. Recovery!StatusOf(p) = RP!StatusOf(p)
      BY <1>1, <1>2, <2>1 DEF Recovery!StatusOf, RP!StatusOf
    <2>4. Recovery!StatusOf(p)' = RP!StatusOf(p)'
      BY <1>1, <1>2, <2>2 DEF Recovery!StatusOf, RP!StatusOf
    <2>5. QED
      BY <2>3, <2>4
  <1>4. QED
    BY <1>3

LEMMA SameLifecycle ==
    /\ Recovery!Lifecycle!Init <=> RP!Lifecycle!Init
    /\ Recovery!Lifecycle!Next <=> RP!Lifecycle!Next
    /\ UNCHANGED Recovery!Lifecycle!lifecycleVars <=> UNCHANGED RP!Lifecycle!lifecycleVars
  <1>1. /\ Recovery!Lifecycle!OpenableStatuses = RP!Lifecycle!OpenableStatuses
        /\ Recovery!Lifecycle!PublicTransitions = RP!Lifecycle!PublicTransitions
    BY DEF Recovery!Lifecycle!OpenableStatuses, RP!Lifecycle!OpenableStatuses,
           Recovery!Lifecycle!PublicTransitions, RP!Lifecycle!PublicTransitions,
           Recovery!Lifecycle!Statuses, RP!Lifecycle!Statuses
  <1>2. ASSUME NEW p, NEW from, NEW s
        PROVE  Recovery!Lifecycle!MoveItems(p, from, s) <=> RP!Lifecycle!MoveItems(p, from, s)
    BY DEF Recovery!Lifecycle!MoveItems, RP!Lifecycle!MoveItems,
           Recovery!Lifecycle!ItemsOf, RP!Lifecycle!ItemsOf
  <1>3. ASSUME NEW p \in Pairs
        PROVE  /\ Recovery!Lifecycle!Open(p) <=> RP!Lifecycle!Open(p)
               /\ Recovery!Lifecycle!Refuse(p) <=> RP!Lifecycle!Refuse(p)
               /\ Recovery!Lifecycle!Cancel(p) <=> RP!Lifecycle!Cancel(p)
               /\ Recovery!Lifecycle!Complete(p) <=> RP!Lifecycle!Complete(p)
    BY <1>1, <1>2, SameStatusOf
    DEF Recovery!Lifecycle!Open, RP!Lifecycle!Open, Recovery!Lifecycle!Refuse, RP!Lifecycle!Refuse,
        Recovery!Lifecycle!Cancel, RP!Lifecycle!Cancel,
        Recovery!Lifecycle!Complete, RP!Lifecycle!Complete,
        Recovery!Lifecycle!Unopened, RP!Lifecycle!Unopened
  <1>4. ASSUME NEW i \in Items
        PROVE  Recovery!Lifecycle!UserMoves(i) <=> RP!Lifecycle!UserMoves(i)
    BY <1>1, SameStatusOf DEF Recovery!Lifecycle!UserMoves, RP!Lifecycle!UserMoves
  <1>5. Recovery!Lifecycle!Init <=> RP!Lifecycle!Init
    BY SameStatusOf DEF Recovery!Lifecycle!Init, RP!Lifecycle!Init
  <1>6. Recovery!Lifecycle!Next <=> RP!Lifecycle!Next
    BY <1>3, <1>4 DEF Recovery!Lifecycle!Next, RP!Lifecycle!Next
  <1>7. QED
    BY <1>5, <1>6, SameStatusOf DEF Recovery!Lifecycle!lifecycleVars, RP!Lifecycle!lifecycleVars

-----------------------------------------------------------------------------
(* matching-service. It consumes events as in Matching, of which            *)
(* item-service commits one with every change of an item; they are numbered *)
(* without gaps, and the last one tells the item's status.                  *)

LEMMA MatchingAssumptions ==
    /\ Lost \cap Found = {}
    /\ [status : Statuses, details : {Alike}] \subseteq [status : MP!Statuses, details : {Alike}]
    /\ [d \in {Alike} \X {Alike} |-> 1] \in [{Alike} \X {Alike} -> Nat]
    /\ 0 \in Nat /\ MaxDecisions \in Nat
  BY ItemsAssumption, BoundsAssumption DEF Statuses, MP!Statuses

LEMMA SameConsumption ==
    /\ \A i, k : Matching!Receive(i, k) <=> MP!Receive(i, k)
    /\ Matching!FinishEvent <=> MP!FinishEvent
  <1>1. \A i, k : Matching!Receive(i, k) <=> MP!Receive(i, k)
    BY DEF Matching!Receive, MP!Receive, Matching!Consuming, MP!Consuming,
           Matching!NoConsumption, MP!NoConsumption, Matching!None, MP!None, Matching!Pairs, MP!Pairs
  <1>2. ASSUME NEW was, NEW c PROVE Matching!Verdict(was, c) = MP!Verdict(was, c)
    BY Zenon DEF Matching!Verdict, MP!Verdict, Matching!None, MP!None
  <1>3. ASSUME NEW proj, NEW p PROVE Matching!Candidate(proj, p) <=> MP!Candidate(proj, p)
    BY DEF Matching!Candidate, MP!Candidate, Matching!ScoreOf, MP!ScoreOf
  <1>4. /\ Matching!EventBody = MP!EventBody /\ Matching!EventItem = MP!EventItem
        /\ Matching!Projected = MP!Projected
    BY DEF Matching!EventBody, MP!EventBody, Matching!EventItem, MP!EventItem,
           Matching!Projected, MP!Projected
  <1>5. \A p : Matching!Concerns(p) <=> MP!Concerns(p)
    BY <1>4 DEF Matching!Concerns, MP!Concerns, Matching!IsNewer, MP!IsNewer,
                Matching!Touches, MP!Touches
  <1>6. \A p : Matching!NewStatus(p) = MP!NewStatus(p)
    BY <1>2, <1>3, <1>4, <1>5 DEF Matching!NewStatus, MP!NewStatus
  <1>7. \A p : Matching!NewScore(p) = MP!NewScore(p)
    BY <1>3, <1>4, <1>5
    DEF Matching!NewScore, MP!NewScore, Matching!ScoreOf, MP!ScoreOf,
        Matching!Decisions, MP!Decisions
  <1>8. Matching!FinishEvent <=> MP!FinishEvent
    BY <1>4, <1>6, <1>7
    DEF Matching!FinishEvent, MP!FinishEvent, Matching!Consuming, MP!Consuming,
        Matching!NoConsumption, MP!NoConsumption, Matching!None, MP!None,
        Matching!Pairs, MP!Pairs, Matching!IsNewer, MP!IsNewer
  <1>9. QED
    BY <1>1, <1>8

LEMMA SameDecisions ==
    ASSUME NEW t
    PROVE  /\ \A p, d : Matching!Retrieve(t, p, d) <=> MP!Retrieve(t, p, d)
           /\ Matching!Recheck(t) <=> MP!Recheck(t)
           /\ Matching!Decide(t) <=> MP!Decide(t)
           /\ Matching!Expire(t) <=> MP!Expire(t)
  BY DEF Matching!Retrieve, MP!Retrieve, Matching!Recheck, MP!Recheck, Matching!Decide, MP!Decide,
         Matching!Expire, MP!Expire, Matching!NoWork, MP!NoWork, Matching!None, MP!None,
         Matching!Candidate, MP!Candidate, Matching!ScoreOf, MP!ScoreOf

Calling(a) == RP!In(a, {"validated"})

ItemsCalled(a) == RP!ItemsOf(work[a].call.match)

\* The last event of an item tells what its row says.
EventsTellItems ==
    \A i \in Items :
        /\ issued[i] # <<>>
        /\ \A k \in DOMAIN issued[i] : issued[i][k].version = k
        /\ issued[i][Len(issued[i])].status = item[i]

\* What item-service read for a call that it is about to commit is still so.
ReadsAreCurrent ==
    \A a \in RP!Actors : Calling(a) =>
        \A i \in ItemsCalled(a) : seen[a][i] = Len(issued[i])

OffersInv ==
    /\ MP!IInv
    /\ EventsTellItems
    /\ seen \in [RP!Actors -> [Items -> Nat]]
    /\ ReadsAreCurrent

LEMMA EventsAreTyped ==
    ASSUME OffersInv
    PROVE  /\ issued \in [Items -> Seq(MP!Projection)]
           /\ \A i \in Items : /\ issued[i] \in Seq(MP!Projection)
                               /\ Len(issued[i]) \in Nat /\ Len(issued[i]) \in DOMAIN issued[i]
                               /\ Version(i) = Len(issued[i])
  <1>1. issued \in [Items -> Seq(MP!Projection)]
    BY DEF OffersInv, MP!IInv, MP!TypeOK, Items, MP!Items
  <1>2. ASSUME NEW i \in Items
        PROVE  Len(issued[i]) \in Nat /\ Len(issued[i]) \in DOMAIN issued[i]
    <2>1. issued[i] \in Seq(MP!Projection) /\ issued[i] # <<>>
      BY <1>1 DEF OffersInv, EventsTellItems
    <2>2. QED
      BY <2>1
  <1>3. QED
    BY <1>1, <1>2 DEF OffersInv, EventsTellItems, Version

LEMMA ItemsAreTyped == \A p \in Pairs : RP!ItemsOf(p) = {p[1], p[2]} /\ RP!ItemsOf(p) \subseteq Items
  BY DEF RP!ItemsOf, Pairs, Items

LEMMA InitOffers == Init => OffersInv
  <1> SUFFICES ASSUME Init PROVE OffersInv
    OBVIOUS
  <1>1. issued = [i \in Items |-> <<Content("AVAILABLE", 1)>>] /\ item = [i \in Items |-> "AVAILABLE"]
    BY DEF Init, Recovery!Init
  <1>2. Content("AVAILABLE", 1) \in MP!Projection /\ Items = MP!Items
    BY DEF Content, MP!Projection, MP!Statuses, Items, MP!Items
  <1>3. issued \in [MP!Items -> Seq(MP!Projection)]
    BY <1>1, <1>2
  <1>4. MP!IInv
    BY <1>2, <1>3, MatchingAssumptions, MP!NothingConsumed
    DEF MP!NothingConsumed, Init, Matching!NoProjection, MP!NoProjection, Matching!None, MP!None,
        Matching!NoConsumption, MP!NoConsumption, Matching!NoWork, MP!NoWork, Pairs, MP!Pairs,
        Matching!Pairs
  <1>5. EventsTellItems
    BY <1>1 DEF EventsTellItems, Content
  <1>6. seen \in [RP!Actors -> [Items -> Nat]]
    BY SameNames DEF Init, Unseen
  <1>7. ReadsAreCurrent
    <2>1. \A a \in RP!Actors : work[a] = RP!NoWork
      BY SameNames DEF Init, Recovery!Init
    <2>2. QED
      BY <2>1 DEF ReadsAreCurrent, Calling, RP!In, RP!Busy
  <1>8. QED
    BY <1>4, <1>5, <1>6, <1>7 DEF OffersInv

\* The events of the items of a call that item-service commits.
LEMMA PublishKeeps ==
    ASSUME OffersInv, RP!IInv, RP!NoOverlap, item' \in [Items -> Statuses],
           NEW a \in RP!Actors, RP!Write(a), Publish(a), UNCHANGED matchingVars
    PROVE  OffersInv'
  <1> DEFINE I == ItemsCalled(a)
  <1>1. issued \in [Items -> Seq(MP!Projection)] /\ Items = MP!Items
    BY EventsAreTyped DEF Items, MP!Items
  <1>2. Calling(a) /\ RP!Busy(a) /\ work' = [work EXCEPT ![a].phase = "ok"]
    BY DEF RP!Write, Calling, RP!In
  <1>3. work[a].call.match \in Pairs /\ "ok" \in RP!Phases
    <2>1. work[a].call \in RP!Call
      BY <1>2, RecoveryAssumptions, RP!BusyCalls DEF RP!BusyCalls
    <2>2. QED
      BY <2>1, RecoveryAssumptions, RP!CallsAreTyped DEF RP!CallsAreTyped, RP!Phases
  <1>4. I \subseteq Items /\ I = CallItems(a)
    BY <1>3, ItemsAreTyped, SameNames DEF ItemsCalled, CallItems
  <1>5. \A i \in Items : i \notin I => item'[i] = item[i] /\ issued'[i] = issued[i]
    BY <1>4 DEF RP!Write, RP!Moved, ItemsCalled, Publish
  <1>6. \A i \in I : issued'[i] = Append(issued[i], Content(item'[i], Len(issued[i]) + 1))
    BY <1>2, <1>4 DEF OffersInv, ReadsAreCurrent, Publish
  <1>7. ASSUME NEW i \in Items
        PROVE  /\ issued'[i] \in Seq(MP!Projection)
               /\ DOMAIN issued[i] \subseteq DOMAIN issued'[i]
               /\ \A k \in DOMAIN issued[i] : issued'[i][k] = issued[i][k]
               /\ issued'[i] # <<>>
               /\ \A k \in DOMAIN issued'[i] : issued'[i][k].version = k
               /\ issued'[i][Len(issued'[i])].status = item'[i]
    <2> DEFINE e == Content(item'[i], Len(issued[i]) + 1)
    <2>1. /\ issued[i] \in Seq(MP!Projection) /\ issued[i] # <<>>
          /\ \A k \in DOMAIN issued[i] : issued[i][k].version = k
          /\ issued[i][Len(issued[i])].status = item[i]
      BY <1>1 DEF OffersInv, EventsTellItems
    <2>2. e \in MP!Projection /\ e.version = Len(issued[i]) + 1 /\ e.status = item'[i]
      BY <2>1 DEF Content, MP!Projection, Statuses, MP!Statuses
    <2>3. CASE i \notin I
      BY <1>5, <2>1, <2>3
    <2>4. CASE i \in I
      <3>1. issued'[i] = Append(issued[i], e)
        BY <1>6, <2>4
      <3> HIDE DEF e
      <3>2. /\ issued'[i] \in Seq(MP!Projection)
            /\ Len(issued'[i]) = Len(issued[i]) + 1
            /\ \A k \in DOMAIN issued[i] : issued'[i][k] = issued[i][k]
            /\ issued'[i][Len(issued[i]) + 1] = e
            /\ DOMAIN issued'[i] = DOMAIN issued[i] \cup {Len(issued[i]) + 1}
        BY <2>1, <2>2, <3>1
      <3>3. QED
        BY <2>1, <2>2, <3>2
    <2>5. QED
      BY <2>3, <2>4
  <1>8. issued' \in [MP!Items -> Seq(MP!Projection)]
    BY <1>1, <1>7 DEF Publish
  <1>9. MP!IInv'
    BY <1>1, <1>7, <1>8, MatchingAssumptions, MP!IssuingKeeps
    DEF MP!IssuingKeeps, OffersInv, matchingVars
  <1>10. seen' \in [RP!Actors -> [Items -> Nat]]
    BY DEF Publish, OffersInv, Unseen
  <1>11. ReadsAreCurrent'
    <2> SUFFICES ASSUME NEW b \in RP!Actors, Calling(b)', NEW i \in ItemsCalled(b)'
                 PROVE  seen'[b][i] = Len(issued'[i])
      BY DEF ReadsAreCurrent
    <2>1. /\ \A c \in RP!Actors : c # a => work'[c] = work[c]
          /\ work'[a].phase = "ok"
      BY <1>2, <1>3, RecoveryAssumptions, RP!AdvanceIs DEF RP!AdvanceIs
    <2>2. b # a /\ work'[b] = work[b]
      BY <2>1 DEF Calling, RP!In
    <2>3. Calling(b) /\ i \in ItemsCalled(b)
      BY <2>2 DEF Calling, ItemsCalled, RP!In, RP!Busy, RP!ItemsOf
    <2>4. seen[b][i] = Len(issued[i]) /\ seen'[b] = seen[b]
      BY <2>2, <2>3 DEF OffersInv, ReadsAreCurrent, Publish
    <2>5. i \in Items
      <3>1. work[b].call \in RP!Call
        BY <2>3, RecoveryAssumptions, RP!BusyCalls DEF RP!BusyCalls, Calling, RP!In
      <3>2. work[b].call.match \in Pairs
        BY <3>1, RecoveryAssumptions, RP!CallsAreTyped DEF RP!CallsAreTyped
      <3>3. QED
        BY <2>3, <3>2, ItemsAreTyped DEF ItemsCalled
    <2>6. i \notin I
      BY <1>2, <2>2, <2>3 DEF RP!NoOverlap, Calling, ItemsCalled
    <2>7. QED
      BY <1>5, <2>4, <2>5, <2>6
  <1>12. QED
    BY <1>7, <1>9, <1>10, <1>11 DEF OffersInv, EventsTellItems

\* item-service reads the items of a call, or refuses it.
LEMMA ValidateKeeps ==
    ASSUME OffersInv, RP!IInv, NEW a \in RP!Actors, RP!Validate(a), See(a),
           issued' = issued, UNCHANGED matchingVars
    PROVE  OffersInv'
  <1>1. PICK ph \in {"validated", "failed"} :
           /\ work' = [work EXCEPT ![a].phase = ph]
           /\ ph = "validated" <=> RP!Accepts(work[a].call)
    BY DEF RP!Validate
  <1>2. RP!Busy(a) /\ ph \in RP!Phases /\ item' = item
    BY DEF RP!Validate, RP!In, RP!Phases
  <1>3. /\ work[a].call \in RP!Call /\ work[a].call.match \in Pairs
        /\ work'[a].call = work[a].call /\ work'[a].phase = ph
        /\ \A b \in RP!Actors : b # a => work'[b] = work[b]
    BY <1>1, <1>2, RecoveryAssumptions, RP!AdvanceIs DEF RP!AdvanceIs
  <1>4. /\ seen' \in [RP!Actors -> [Items -> Nat]]
        /\ \A b \in RP!Actors : b # a => seen'[b] = seen[b]
        /\ RP!Accepts(work[a].call) =>
              \A i \in ItemsCalled(a) : i \in Items /\ seen'[a][i] = Len(issued[i])
    <2>1. CallItems(a) = ItemsCalled(a) /\ ItemsCalled(a) \subseteq Items
      BY <1>3, ItemsAreTyped, SameNames DEF CallItems, ItemsCalled
    <2>2. \A i \in Items : Version(i) \in Nat /\ Version(i) = Len(issued[i])
      BY EventsAreTyped
    <2>3. Recovery!Accepts(work[a].call) <=> RP!Accepts(work[a].call)
      BY SameCall
    <2>4. seen' = [seen EXCEPT ![a] =
                      [i \in Items |-> IF RP!Accepts(work[a].call) /\ i \in ItemsCalled(a)
                                       THEN Version(i) ELSE 0]]
      BY <2>1, <2>3 DEF See
    <2>5. seen \in [RP!Actors -> [Items -> Nat]]
      BY DEF OffersInv
    <2>6. QED
      BY <2>1, <2>2, <2>4, <2>5
  <1>5. ReadsAreCurrent'
    <2> SUFFICES ASSUME NEW b \in RP!Actors, Calling(b)', NEW i \in ItemsCalled(b)'
                 PROVE  seen'[b][i] = Len(issued[i])
      BY DEF ReadsAreCurrent
    <2>1. CASE b = a
      BY <1>1, <1>3, <1>4, <2>1 DEF Calling, ItemsCalled, RP!In, RP!ItemsOf
    <2>2. CASE b # a
      <3>1. work'[b] = work[b] /\ seen'[b] = seen[b]
        BY <1>3, <1>4, <2>2
      <3>2. Calling(b) /\ i \in ItemsCalled(b)
        BY <3>1 DEF Calling, ItemsCalled, RP!In, RP!Busy, RP!ItemsOf
      <3>3. QED
        BY <3>1, <3>2 DEF OffersInv, ReadsAreCurrent
    <2>3. QED
      BY <2>1, <2>2
  <1>6. MP!IInv'
    BY MatchingAssumptions, MP!StutterKeeps
    DEF MP!StutterKeeps, MP!vars, matchingVars, OffersInv
  <1>7. QED
    BY <1>2, <1>4, <1>5, <1>6 DEF OffersInv, EventsTellItems

\* Nothing that item-service has read or written changes, and no call of its
\* is accepted.
LEMMA OthersKeep ==
    ASSUME OffersInv, MP!IInv', item' = item, issued' = issued, seen' = seen,
           \A b \in RP!Actors : Calling(b)' => Calling(b) /\ work'[b] = work[b]
    PROVE  OffersInv'
  <1>1. ReadsAreCurrent'
    BY DEF OffersInv, ReadsAreCurrent, ItemsCalled, RP!ItemsOf
  <1>2. QED
    BY <1>1 DEF OffersInv, EventsTellItems

\* What recovery-case-service does by itself.
LEMMA RecoveryKeeps ==
    ASSUME OffersInv, RP!IInv, item' = item, issued' = issued, seen' = seen, UNCHANGED matchingVars,
           NEW a \in RP!Actors, NEW w, w.phase # "validated", work' = [work EXCEPT ![a] = w]
    PROVE  OffersInv'
  <1>1. work'[a] = w /\ \A b \in RP!Actors : b # a => work'[b] = work[b]
    BY DEF RP!IInv, RP!TypeOK
  <1>2. \A b \in RP!Actors : Calling(b)' => Calling(b) /\ work'[b] = work[b]
    BY <1>1 DEF Calling, RP!In, RP!Busy
  <1>3. MP!IInv'
    BY MatchingAssumptions, MP!StutterKeeps
    DEF MP!StutterKeeps, MP!vars, matchingVars, OffersInv
  <1>4. QED
    BY <1>2, <1>3, OthersKeep

LEMMA ConsumeAcceptanceKeeps ==
    ASSUME OffersInv, RP!IInv, ConsumeAcceptance
    PROVE  OffersInv'
  <1>1. PICK e \in Acceptances : RP!ConsumeToOpen(e) \/ RP!ConsumeKnown(e)
    BY SameConsumer DEF ConsumeAcceptance
  <1>2. "consumer" \in RP!Actors /\ item' = item /\ issued' = issued /\ seen' = seen
        /\ UNCHANGED matchingVars
    BY <1>1 DEF ConsumeAcceptance, RP!Actors, RP!ConsumeToOpen, RP!ConsumeKnown
  <1>3. CASE RP!ConsumeToOpen(e)
    <2> DEFINE w == [call    |-> [op |-> "open", match |-> [f \in Acceptances |-> f[1]][e],
                                  target |-> "IN_RECOVERY"],
                     event   |-> e,
                     becomes |-> "IN_PROGRESS",
                     phase   |-> "unsent"]
    <2>1. work' = [work EXCEPT !["consumer"] = w] /\ w.phase # "validated"
      BY <1>3 DEF RP!ConsumeToOpen
    <2>2. QED
      BY <1>2, <2>1, RecoveryKeeps
  <1>4. CASE RP!ConsumeKnown(e)
    <2>1. work' = work
      BY <1>4 DEF RP!ConsumeKnown
    <2>2. MP!IInv'
      BY <1>2, MatchingAssumptions, MP!StutterKeeps
      DEF MP!StutterKeeps, MP!vars, matchingVars, OffersInv
    <2>3. QED
      BY <1>2, <2>1, <2>2, OthersKeep DEF Calling, RP!In, RP!Busy
  <1>5. QED
    BY <1>1, <1>3, <1>4

LEMMA RequestCloseKeeps ==
    ASSUME OffersInv, RP!IInv, RequestClose
    PROVE  OffersInv'
  <1>1. PICK t \in Closers, p \in Pairs, c \in Closings :
           RP!RequestClose(t, p, c.op, c.target, c.result)
    BY SameClosing DEF RequestClose
  <1> DEFINE w == [call    |-> [op |-> c.op, match |-> p, target |-> c.target],
                   event   |-> <<>>,
                   becomes |-> c.result,
                   phase   |-> "awaited"]
  <1>2. t \in RP!Actors /\ item' = item /\ issued' = issued /\ seen' = seen /\ UNCHANGED matchingVars
    BY <1>1 DEF RequestClose, RP!RequestClose, RP!Actors
  <1>3. work' = [work EXCEPT ![t] = w] /\ w.phase # "validated"
    BY <1>1 DEF RP!RequestClose
  <1>4. QED
    BY <1>2, <1>3, RecoveryKeeps

LEMMA ProceedKeeps ==
    ASSUME OffersInv, RP!IInv, RP!IInv', RP!NoOverlap, NEW a \in RP!Actors, Proceed(a)
    PROVE  OffersInv'
  <1>1. CASE Recovery!Validate(a) /\ See(a) /\ UNCHANGED issued
    <2>1. RP!Validate(a) /\ issued' = issued /\ UNCHANGED matchingVars
      BY <1>1, SameCall DEF Proceed
    <2>2. QED
      BY <1>1, <2>1, ValidateKeeps
  <1>2. CASE Recovery!Write(a) /\ Publish(a)
    <2>1. RP!Write(a) /\ UNCHANGED matchingVars
      BY <1>2, SameCall DEF Proceed
    <2>2. item' \in [Items -> Statuses]
      BY DEF RP!IInv, RP!TypeOK, Statuses, RP!Statuses
    <2>3. QED
      BY <1>2, <2>1, <2>2, PublishKeeps
  <1>3. CASE /\ Recovery!Settle(a) \/ (a = "consumer" /\ Recovery!FlushOpening)
             /\ UNCHANGED <<issued, seen>>
    <2>1. UNCHANGED matchingVars /\ issued' = issued /\ seen' = seen
      BY <1>3 DEF Proceed
    <2>2. CASE Recovery!Settle(a)
      <3>1. RP!Settle(a)
        BY <2>2, SameSettle
      <3>2. item' = item /\ work' = [work EXCEPT ![a] = RP!NoWork]
        BY <3>1 DEF RP!Settle
      <3>3. RP!NoWork.phase # "validated"
        BY DEF RP!NoWork
      <3>4. QED
        BY <2>1, <3>2, <3>3, RecoveryKeeps
    <2>3. CASE a = "consumer" /\ Recovery!FlushOpening
      <3>1. RP!FlushOpening
        BY <2>3, SameConsumer
      <3>2. item' = item /\ work' = [work EXCEPT ![a].phase = "awaited"]
        BY <2>3, <3>1 DEF RP!FlushOpening
      <3>3. RP!Busy(a) /\ "awaited" \in RP!Phases
        BY <2>3, <3>1 DEF RP!FlushOpening, RP!In, RP!Phases
      <3>4. /\ work'[a].phase = "awaited"
            /\ \A b \in RP!Actors : b # a => work'[b] = work[b]
        BY <3>2, <3>3, RecoveryAssumptions, RP!AdvanceIs DEF RP!AdvanceIs
      <3>5. \A b \in RP!Actors : Calling(b)' => Calling(b) /\ work'[b] = work[b]
        BY <3>4 DEF Calling, RP!In, RP!Busy
      <3>6. MP!IInv'
        BY <2>1, MatchingAssumptions, MP!StutterKeeps
        DEF MP!StutterKeeps, MP!vars, matchingVars, OffersInv
      <3>7. QED
        BY <2>1, <3>2, <3>5, <3>6, OthersKeep
    <2>4. QED
      BY <1>3, <2>2, <2>3
  <1>4. QED
    BY <1>1, <1>2, <1>3 DEF Proceed

LEMMA MatchingSteps ==
    ASSUME OffersInv, item' = item, issued' = issued, seen' = seen, work' = work,
           \/ \E i \in Items : \E k \in DOMAIN issued[i] : Matching!Receive(i, k)
           \/ Matching!FinishEvent
           \/ \E t \in Deciders :
                 \/ \E p \in Pairs, d \in Matching!Decisions : Matching!Retrieve(t, p, d)
                 \/ Matching!Recheck(t) \/ Matching!Decide(t) \/ Matching!Expire(t)
           \/ UNCHANGED matchingVars
    PROVE  OffersInv'
  <1>1. MP!IInv
    BY DEF OffersInv
  <1>2. ASSUME NEW i \in Items, NEW k \in DOMAIN issued[i], Matching!Receive(i, k) PROVE MP!IInv'
    BY <1>1, <1>2, SameConsumption, MatchingAssumptions, MP!ReceiveKeeps
    DEF MP!ReceiveKeeps, Items, MP!Items
  <1>3. ASSUME Matching!FinishEvent PROVE MP!IInv'
    BY <1>1, <1>3, SameConsumption, MatchingAssumptions, MP!FinishEventKeeps DEF MP!FinishEventKeeps
  <1>4. ASSUME NEW t \in Deciders, NEW p \in Pairs, NEW d \in Matching!Decisions,
               Matching!Retrieve(t, p, d)
        PROVE  MP!IInv'
    BY <1>1, <1>4, SameDecisions, MatchingAssumptions, MP!RetrieveKeeps
    DEF MP!RetrieveKeeps, Pairs, MP!Pairs, Matching!Decisions, MP!Decisions
  <1>5. ASSUME NEW t \in Deciders, Matching!Recheck(t) PROVE MP!IInv'
    BY <1>1, <1>5, SameDecisions, MatchingAssumptions, MP!RecheckKeeps DEF MP!RecheckKeeps
  <1>6. ASSUME NEW t \in Deciders, Matching!Decide(t) \/ Matching!Expire(t) PROVE MP!IInv'
    BY <1>1, <1>6, SameDecisions, MatchingAssumptions, MP!ThreadWritesKeeps DEF MP!ThreadWritesKeeps
  <1>7. ASSUME UNCHANGED matchingVars PROVE MP!IInv'
    BY <1>1, <1>7, MatchingAssumptions, MP!StutterKeeps DEF MP!StutterKeeps, MP!vars, matchingVars
  <1>8. MP!IInv'
    BY <1>2, <1>3, <1>4, <1>5, <1>6, <1>7
  <1>9. QED
    BY <1>8, OthersKeep DEF Calling, RP!In, RP!Busy

LEMMA NextOffers ==
    OffersInv /\ RP!IInv /\ RP!IInv' /\ RP!Undisturbed /\ [Next]_vars => OffersInv'
  <1> SUFFICES ASSUME OffersInv, RP!IInv, RP!IInv', RP!Undisturbed, [Next]_vars PROVE OffersInv'
    OBVIOUS
  <1>1. CASE ConsumeItemEvent
    <2>1. item' = item /\ issued' = issued /\ seen' = seen /\ work' = work
      BY <1>1 DEF ConsumeItemEvent, recoveryVars, Matching!Receive, Matching!FinishEvent
    <2>2. QED
      BY <1>1, <2>1, MatchingSteps DEF ConsumeItemEvent
  <1>2. ASSUME NEW t \in Deciders, Request(t) \/ ServeDecision(t) PROVE OffersInv'
    <2>1. item' = item /\ issued' = issued /\ seen' = seen /\ work' = work
      BY <1>2 DEF Request, ServeDecision, recoveryVars, Matching!Retrieve, Matching!Recheck,
                  Matching!Decide, Matching!Expire
    <2>2. QED
      BY <1>2, <2>1, MatchingSteps DEF Request, ServeDecision
  <1>3. CASE Done \/ UNCHANGED vars
    <2>1. /\ item' = item /\ issued' = issued /\ seen' = seen /\ work' = work
          /\ UNCHANGED matchingVars
      BY <1>3 DEF Done, vars, recoveryVars
    <2>2. QED
      BY <2>1, MatchingSteps
  <1>4. CASE Service
    <2>1. PICK a \in RP!Actors : Proceed(a)
      BY <1>4, SameNames DEF Service
    <2>2. RP!NoOverlap
      BY DEF RP!Undisturbed
    <2>3. QED
      BY <2>1, <2>2, ProceedKeeps
  <1>5. QED
    BY <1>1, <1>2, <1>3, <1>4, ConsumeAcceptanceKeeps, RequestCloseKeeps DEF Next

\* What the newest event says of an item, its projection says once the event
\* was consumed.
LEMMA CaughtIsCurrent ==
    ASSUME OffersInv, Caught, NEW i \in Items
    PROVE  projection[i].status = item[i]
  <1> DEFINE n == Len(issued[i])
  <1>1. /\ issued[i] \in Seq(MP!Projection) /\ issued[i] # <<>>
        /\ \A k \in DOMAIN issued[i] : issued[i][k].version = k
        /\ issued[i][n].status = item[i]
    BY DEF OffersInv, EventsTellItems, MP!IInv, MP!TypeOK, Items, MP!Items
  <1>2. n \in DOMAIN issued[i] /\ n \in Nat /\ n > 0
    BY <1>1
  <1>3. issued[i][n] \in MP!ProcessedEvents(i)
    BY <1>2 DEF Caught, MP!ProcessedEvents
  <1>4. /\ projection[i] \in MP!ProcessedEvents(i) \cup {MP!NoProjection}
        /\ n <= projection[i].version
    BY <1>1, <1>2, <1>3 DEF OffersInv, MP!IInv, MP!ProjectionIsNewest, Items, MP!Items
  <1>5. projection[i] # MP!NoProjection
    BY <1>2, <1>4 DEF MP!NoProjection
  <1>6. PICK k \in DOMAIN issued[i] : projection[i] = issued[i][k]
    BY <1>4, <1>5 DEF MP!ProcessedEvents
  <1>7. k = n
    BY <1>1, <1>2, <1>4, <1>6
  <1>8. QED
    BY <1>1, <1>6, <1>7

LEMMA OffersSay == OffersInv => OfferedIsFree
  <1> SUFFICES ASSUME OffersInv, Caught, NEW p \in Pairs, match[p] = "SUGGESTED",
                      NEW i \in {p[1], p[2]}
               PROVE  item[i] = "AVAILABLE"
    BY DEF OfferedIsFree
  <1>1. i \in Items
    BY DEF Pairs, Items
  <1>2. projection[i].status = "AVAILABLE"
    BY DEF OffersInv, MP!IInv, MP!SuggestedIsCandidate, MP!Candidate, Pairs, MP!Pairs
  <1>3. QED
    BY <1>1, <1>2, CaughtIsCurrent

-----------------------------------------------------------------------------
(* Theorems about the cases. *)

LEMMA InitUndisturbed == Init => RP!Undisturbed
  <1> SUFFICES ASSUME Init PROVE RP!Undisturbed
    OBVIOUS
  <1>1. \A a \in RP!Actors : work[a] = RP!NoWork
    BY SameNames DEF Init, Recovery!Init
  <1>2. \A t \in Closers, p \in Pairs : ~RP!Closing(t, p)
    BY <1>1 DEF RP!Closing, RP!Busy, RP!Actors
  <1>3. RP!NoOverlap
    BY <1>1 DEF RP!NoOverlap, RP!In, RP!Busy
  <1>4. faults = 0
    BY DEF Init, Recovery!Init
  <1>5. QED
    BY <1>2, <1>3, <1>4 DEF RP!Undisturbed

\* The services together do what RecoveryCases says of the saga, whatever
\* overlaps in item-service; its theorems are theorems of the whole.
THEOREM SagaIsFollowed == Init /\ [][Next]_vars => RP!Spec
  <1>1. Init => RP!Init
    BY SameInit DEF Init
  <1>2. QED
    BY <1>1, RecoverySteps, PTL DEF RP!Spec

LEMMA SerialSaga == SerialSpec => RP!Spec /\ []RP!Undisturbed
  <1>1. SerialSpec => Init /\ [][Next]_vars /\ [][Recovery!Undisturbed']_vars
    BY PTL DEF SerialSpec
  <1>2. RP!Undisturbed /\ [Recovery!Undisturbed']_vars => RP!Undisturbed'
    <2> SUFFICES ASSUME RP!Undisturbed, [Recovery!Undisturbed']_vars PROVE RP!Undisturbed'
      OBVIOUS
    <2>1. Recovery!Undisturbed' <=> RP!Undisturbed'
      BY SameUndisturbed, PTL
    <2>2. CASE UNCHANGED vars
      <3>1. work' = work /\ faults' = faults
        BY <2>2 DEF vars, recoveryVars
      <3>2. /\ \A a : \A ph : RP!In(a, ph)' <=> RP!In(a, ph)
            /\ \A t, p : RP!Closing(t, p)' <=> RP!Closing(t, p)
        BY <3>1 DEF RP!In, RP!Busy, RP!Closing
      <3>3. RP!NoOverlap'
        BY <3>1, <3>2 DEF RP!Undisturbed, RP!NoOverlap, RP!ItemsOf
      <3>4. QED
        BY <3>1, <3>2, <3>3 DEF RP!Undisturbed, RP!Lone, RP!ItemsOf
    <2>3. QED
      BY <2>1, <2>2
  <1>3. QED
    BY <1>1, <1>2, InitUndisturbed, SagaIsFollowed, PTL

\* Between the events, the decisions and the calls of all services, an active
\* case has both its items in recovery until its closing is answered.
THEOREM ActiveCasesHoldTheirItems == SerialSpec => []ActiveCaseHoldsItems
  <1>1. RP!Spec /\ []RP!Undisturbed => []RP!ActiveCaseHoldsItems
    BY RecoveryAssumptions, RP!ActiveCasesHoldTheirItems DEF RP!ActiveCasesHoldTheirItems
  <1>2. QED
    BY <1>1, SerialSaga, SameHolding, PTL

\* An item in recovery is some active case's, or the case is about to be
\* recorded.
THEOREM ItemsInRecoveryHaveACase == SerialSpec => []RecoveryHasCase
  <1>1. RP!Spec /\ []RP!Undisturbed => []RP!RecoveryHasCase
    BY RecoveryAssumptions, RP!ItemsInRecoveryHaveACase DEF RP!ItemsInRecoveryHaveACase
  <1>2. QED
    BY <1>1, SerialSaga, SameHolding, PTL

\* A closed case keeps its status, though its pair may be suggested, accepted
\* and consumed again.
THEOREM ClosedCasesStayClosed == SerialSpec => Recovery!ClosedCaseIsFinal
  <1> DEFINE Kept   == \A m \in Pairs : RP!Closed(m) => case'[m] = case[m]
             KeptIn == \A m \in Pairs : Recovery!Closed(m) => case'[m] = case[m]
  <1>1. RP!Spec /\ []RP!Undisturbed => RP!ClosedCaseIsFinal
    BY RecoveryAssumptions, RP!ClosedCasesStayClosed DEF RP!ClosedCasesStayClosed
  <1>2. RP!ClosedCaseIsFinal => [][Kept]_(RP!vars)
    BY PTL DEF RP!ClosedCaseIsFinal
  <1>3. [Kept]_(RP!vars) => [KeptIn]_(Recovery!vars)
    BY DEF RP!vars, Recovery!vars, RP!Closed, Recovery!Closed
  <1>4. [][Kept]_(RP!vars) => [][KeptIn]_(Recovery!vars)
    BY <1>3, PTL
  <1>5. [][KeptIn]_(Recovery!vars) => Recovery!ClosedCaseIsFinal
    BY PTL DEF Recovery!ClosedCaseIsFinal
  <1>6. QED
    BY <1>1, <1>2, <1>4, <1>5, SerialSaga, PTL

\* The cases of the whole implement CaseLifecycle: a case and its items change
\* as one object, and a closed case is done with.
THEOREM CasesImplementLifecycle == SerialSpec => CasesFollowLifecycle
  <1>1. RP!Spec /\ []RP!Undisturbed => RP!ImplementsLifecycle
    BY RecoveryAssumptions, RP!SagaImplementsLifecycle DEF RP!SagaImplementsLifecycle
  <1>2. RP!Lifecycle!Init => Recovery!Lifecycle!Init
    BY SameLifecycle
  <1>3. [RP!Lifecycle!Next]_(RP!Lifecycle!lifecycleVars)
            => [Recovery!Lifecycle!Next]_(Recovery!Lifecycle!lifecycleVars)
    BY SameLifecycle
  <1>4. RP!ImplementsLifecycle => CasesFollowLifecycle
    BY <1>2, <1>3, PTL
    DEF CasesFollowLifecycle, RP!ImplementsLifecycle, Recovery!ImplementsLifecycle,
        RP!Lifecycle!Spec, Recovery!Lifecycle!Spec
  <1>5. QED
    BY <1>1, <1>4, SerialSaga, PTL

-----------------------------------------------------------------------------
(* Theorems about the offers. *)

\* What matching-service knows and offers, throughout.
THEOREM OffersInvariant == SerialSpec => []OffersInv
  <1>1. RP!Spec => []RP!IInv
    BY RecoveryAssumptions, RP!InductiveInvariant DEF RP!InductiveInvariant
  <1>2. SerialSpec => Init /\ [][Next]_vars
    BY PTL DEF SerialSpec
  <1>3. QED
    BY <1>1, <1>2, SerialSaga, InitOffers, NextOffers, PTL

\* Once matching-service has caught up, whatever the order in which it
\* consumed the events and whatever was decided and closed meanwhile, it
\* offers no pair of which an item is in a case or has left the flow.
THEOREM OffersAreFree == SerialSpec => []OfferedIsFree
  BY OffersInvariant, OffersSay, PTL

\* The rules of Matching hold of the whole: an offered suggestion holds for the
\* projections of the moment, though events and decisions interleave with the
\* saga that changes the items.
THEOREM OffersHold == SerialSpec => []Matching!SuggestedIsCandidate
  <1>1. OffersInv => Matching!SuggestedIsCandidate
    BY DEF OffersInv, MP!IInv, MP!SuggestedIsCandidate, Matching!SuggestedIsCandidate,
           MP!Candidate, Matching!Candidate, MP!ScoreOf, Matching!ScoreOf, MP!Pairs, Matching!Pairs
  <1>2. QED
    BY <1>1, OffersInvariant, PTL

=============================================================================
