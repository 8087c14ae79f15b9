---------------------------- MODULE LostAndFound ----------------------------
(***************************************************************************)
(* The services together, from a registered item to a closed case:         *)
(* matching-service (Matching) consumes the events item-service commits    *)
(* with every change of an item, offers pairs and announces what users     *)
(* decide; recovery-case-service (RecoveryCases) consumes the accepted     *)
(* pairs and moves their items through item-service, whose events go back  *)
(* to matching-service.                                                    *)
(*                                                                         *)
(* The composition is fault-free, and users move items through cases only: *)
(* events are delivered in any order and handlers do not fail.  What else  *)
(* users do, and what faults do, is in the components' modules.            *)
(*                                                                         *)
(* Next is what the services do; calls that overlap inside item-service    *)
(* give two changes of an item one version, and close one case twice.      *)
(* SerialSpec supposes that they do not overlap there, and what is checked *)
(* and proved here is what the services then make of it together.          *)
(***************************************************************************)
EXTENDS Naturals, Sequences, FiniteSets, ItemTypes

CONSTANTS
    Lost, Found,     \* the items; they are alike enough to match
    Deciders,        \* matching-service's threads
    Closers,         \* recovery-case-service's threads
    Closings,        \* bound: what users ask of cases
    MaxDecisions,    \* bound: decisions admitted
    MaxRequests      \* bound: requests to close a case

ASSUME ItemsAssumption == Lost \cap Found = {}

ASSUME ActorsAssumption == "consumer" \notin Closers

ASSUME BoundsAssumption ==
    /\ Closings \subseteq [op : {"cancel", "complete"}, target : Statuses, result : STRING]
    /\ MaxDecisions \in Nat /\ MaxRequests \in Nat

VARIABLES
    \* item-service
    item,
    issued,     \* the events of an item's changes; the last tells its row's version
    seen,       \* the versions item-service read for the call of an actor
    \* matching-service
    consumed, projection, match, score, announced, consumer, worker, admitted,
    \* recovery-case-service
    case, steps, registered, work, late, underway, move, deliveries, requests, faults

matchingVars == <<consumed, projection, match, score, announced, consumer, worker, admitted>>

recoveryVars == <<case, steps, registered, work, late, underway, move, deliveries, requests, faults>>

vars == <<item, issued, seen, matchingVars, recoveryVars>>

Items == Lost \cup Found

Pairs == Lost \X Found

Alike == "ALIKE"

Content(status, version) == [status |-> status, details |-> Alike, version |-> version]

Unseen == [i \in Items |-> 0]

\* The MatchAccepted event of the n-th time a pair was accepted.
Acceptances == Pairs \X (1..MaxDecisions)

Matching == INSTANCE Matching WITH
    Details   <- {Alike},
    Score     <- [d \in {Alike} \X {Alike} |-> 1],
    Contents  <- [status : Statuses, details : {Alike}],
    Threads   <- Deciders,
    MaxEvents <- 0,
    processed <- consumed

Recovery == INSTANCE RecoveryCases WITH
    Matches       <- Pairs,
    LostOf        <- [p \in Pairs |-> p[1]],
    FoundOf       <- [p \in Pairs |-> p[2]],
    Events        <- Acceptances,
    MatchOf       <- [e \in Acceptances |-> e[1]],
    Consumer      <- "consumer",
    Threads       <- Closers,
    Users         <- {},
    UserTargets   <- {},
    MaxDeliveries <- [e \in Acceptances |-> 1],
    MaxFaults     <- 0,
    processed     <- registered

-----------------------------------------------------------------------------
Init ==
    /\ Recovery!Init
    /\ issued     = [i \in Items |-> <<Content("AVAILABLE", 1)>>]
    /\ seen       = [a \in Recovery!Actors |-> Unseen]
    /\ consumed   = {}
    /\ projection = [i \in Items |-> Matching!NoProjection]
    /\ match      = [p \in Pairs |-> Matching!None]
    /\ score      = [p \in Pairs |-> 0]
    /\ announced  = [p \in Pairs |-> <<>>]
    /\ consumer   = Matching!NoConsumption
    /\ worker     = [t \in Deciders |-> Matching!NoWork]
    /\ admitted   = 0

Version(i) == issued[i][Len(issued[i])].version

CallItems(a) == Recovery!ItemsOf(work[a].call.match)

\* What item-service reads of the items of an accepted call.
See(a) ==
    seen' = [seen EXCEPT ![a] =
        [i \in Items |-> IF Recovery!Accepts(work[a].call) /\ i \in CallItems(a) THEN Version(i) ELSE 0]]

\* Mutant: the event has the version that was read.
PublishUnnumbered(a) ==
    /\ issued' = [i \in Items |->
           IF i \in CallItems(a) THEN Append(issued[i], Content(item'[i], seen[a][i])) ELSE issued[i]]
    /\ seen' = [seen EXCEPT ![a] = Unseen]

\* It commits an event with every change of an item, numbered after what it
\* read.
Publish(a) ==
    /\ issued' = [i \in Items |->
           IF i \in CallItems(a) THEN Append(issued[i], Content(item'[i], seen[a][i] + 1)) ELSE issued[i]]
    /\ seen' = [seen EXCEPT ![a] = Unseen]

ConsumeItemEvent ==
    /\ \/ \E i \in Items : \E k \in DOMAIN issued[i] : Matching!Receive(i, k)
       \/ Matching!FinishEvent
    /\ UNCHANGED <<item, seen, recoveryVars>>

Request(t) ==
    /\ \E p \in Pairs, d \in Matching!Decisions : Matching!Retrieve(t, p, d)
    /\ UNCHANGED <<item, seen, recoveryVars>>

ServeDecision(t) ==
    /\ Matching!Recheck(t) \/ Matching!Decide(t) \/ Matching!Expire(t)
    /\ UNCHANGED <<item, seen, recoveryVars>>

Accepted(p) == {k \in DOMAIN announced[p] : announced[p][k] = "ACCEPTED"}

ConsumeAcceptance ==
    /\ \E e \in Acceptances :
          /\ Cardinality(Accepted(e[1])) >= e[2]
          /\ Recovery!ConsumeToOpen(e) \/ Recovery!ConsumeKnown(e)
    /\ UNCHANGED <<issued, seen, matchingVars>>

RequestClose ==
    /\ \E t \in Closers, p \in Pairs, c \in Closings :
          Recovery!RequestClose(t, p, c.op, c.target, c.result)
    /\ UNCHANGED <<issued, seen, matchingVars>>

\* An actor of recovery-case-service goes on, or item-service with its call.
Proceed(a) ==
    /\ \/ Recovery!Validate(a) /\ See(a) /\ UNCHANGED issued
       \/ Recovery!Write(a) /\ Publish(a)
       \/ /\ Recovery!Settle(a) \/ (a = "consumer" /\ Recovery!FlushOpening)
          /\ UNCHANGED <<issued, seen>>
    /\ UNCHANGED matchingVars

Service == \E a \in Recovery!Actors : Proceed(a)

Done ==
    /\ ~Matching!Consuming
    /\ \A t \in Deciders : worker[t] = Matching!NoWork
    /\ \A a \in Recovery!Actors : ~Recovery!Busy(a)
    /\ UNCHANGED vars

Next ==
    \/ ConsumeItemEvent \/ ConsumeAcceptance \/ RequestClose
    \/ \E t \in Deciders : Request(t) \/ ServeDecision(t)
    \/ Service
    \/ Done

\* The broker delivers the accepted pairs, and while recovery-case-service's
\* actors or their calls can go on, some do; neither users nor
\* matching-service's consumer need to do anything.
Fairness == WF_vars(ConsumeAcceptance) /\ WF_vars(Service)

\* Every state has at most one call at work on an item in item-service.  When
\* a call waits for that, another can go on.
SerialSpec == Init /\ [][Next /\ Recovery!Undisturbed']_vars /\ Fairness

-----------------------------------------------------------------------------
(* Properties. *)

Caught == \A i \in Items : \A k \in DOMAIN issued[i] : <<i, k>> \in consumed

\* Once matching-service has consumed every event, however they came, it
\* offers no pair of which an item has left the flow or is held by a case.
OfferedIsFree ==
    Caught => \A p \in Pairs : match[p] = "SUGGESTED" =>
        \A i \in {p[1], p[2]} : item[i] = "AVAILABLE"

\* A pair that was accepted gets a case, be it one that could not be opened,
\* or another case has its found item.
AcceptedGetsCase ==
    \A p \in Pairs :
        match[p] = "ACCEPTED" ~> case[p] # Recovery!None \/ ~Recovery!FoundItemIsFree(p)

ActiveCaseHoldsItems == Recovery!ActiveCaseHoldsItems

RecoveryHasCase == Recovery!RecoveryHasCase

\* Among the events and decisions of the whole, a case and its items change in
\* one step, and a closed case is done with.
CasesFollowLifecycle == Recovery!ImplementsLifecycle

=============================================================================
