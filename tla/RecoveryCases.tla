---------------------------- MODULE RecoveryCases ----------------------------
(***************************************************************************)
(* The recovery saga: recovery-case-service opens a case for an accepted   *)
(* match and closes it on a user's request, each time with one HTTP call   *)
(* to item-service between reading the case and committing the result.     *)
(*                                                                         *)
(* item-service handles a call in two steps: it reads both items and       *)
(* decides, and it commits both.  Nothing is locked in between, and what   *)
(* it commits does not depend on what the rows hold by then.  Users' moves *)
(* of single items go the same way.  ItemService has those transactions in *)
(* detail; here an item is its status.                                     *)
(*                                                                         *)
(* The service has one consumer, which handles events one at a time, and   *)
(* threads for users' requests.  A call whose answer never comes may have  *)
(* been executed, may be executed later, or never.                         *)
(***************************************************************************)
EXTENDS Naturals, ItemTypes

CONSTANTS
    Items,          \* the items
    Matches,        \* the accepted matches
    LostOf,         \* the lost item of a match
    FoundOf,        \* the found item of a match
    Events,         \* MatchAccepted events
    MatchOf,        \* the match an event is about
    Consumer,       \* the process that consumes the events
    Threads,        \* threads serving requests
    Users,          \* threads of item-service that serve users' moves
    UserTargets,    \* bound: the statuses users move items to
    MaxDeliveries,  \* bound: times an event's delivery leads to a call, by event
    MaxRequests,    \* bound: requests to close a case
    MaxFaults       \* bound: lost answers and crashes

ASSUME MatchesAssumption ==
    /\ LostOf \in [Matches -> Items]
    /\ FoundOf \in [Matches -> Items]
    /\ MatchOf \in [Events -> Matches]

ASSUME ActorsAssumption == Consumer \notin Threads

ASSUME BoundsAssumption ==
    /\ UserTargets \subseteq Statuses
    /\ MaxDeliveries \in [Events -> Nat]
    /\ MaxRequests \in Nat /\ MaxFaults \in Nat

VARIABLES
    case,        \* status of the match's row in recovery_cases
    steps,       \* the kinds of its SUCCEEDED rows in saga_steps; each has its
                 \* event in case_events and in the outbox
    processed,   \* table processed_events
    item,        \* item-service's items
    work,        \* what an actor is doing, and how far its call is
    late,        \* calls given up by their caller that item-service has not read yet
    underway,    \* calls given up by their caller that it is about to commit
    move,        \* the users' moves that it is about to commit
    deliveries,  \* times an event led to a call so far
    requests,    \* requests so far
    faults       \* lost answers and crashes so far

vars == <<case, steps, processed, item, work, late, underway, move, deliveries, requests, faults>>

Actors == Threads \cup {Consumer}

None == "NONE"

\* OPEN is never seen outside the transaction that opens the case.  RETRYABLE
\* stands for CANCELLED with a reason that starts with OPEN_FAILURE_PREFIX: the
\* service writes one when an opening fails, and a user's reason may be one.
CaseStatuses == {None, "IN_PROGRESS", "COMPLETED", "CANCELLED", "RETRYABLE"}

Ops == {"open", "cancel", "complete"}

\* What a call asks of item-service: where the items of a match shall go.
Targets(op) ==
    CASE op = "open"     -> {"IN_RECOVERY"}
      [] op = "cancel"   -> OpenableStatuses
      [] op = "complete" -> {"RECOVERED"}

\* What becomes of the case if the call succeeds; the reason of a cancellation
\* is the user's.
Results(op) ==
    CASE op = "open"     -> {"IN_PROGRESS"}
      [] op = "cancel"   -> {"CANCELLED", "RETRYABLE"}
      [] op = "complete" -> {"COMPLETED"}

Call == UNION {[op : {op}, match : Matches, target : Targets(op)] : op \in Ops}

NoCall == [op |-> None, match |-> <<>>, target |-> None]

\* unsent: the case was read; awaited: the call was sent; validated:
\* item-service has read and accepted it; ok and failed: the answer.
Phases == {"unsent", "awaited", "validated", "ok", "failed"}

Work ==
    [call    : Call \cup {NoCall},
     event   : Events \cup {<<>>},
     becomes : CaseStatuses,
     phase   : Phases]

NoWork == [call |-> NoCall, event |-> <<>>, becomes |-> None, phase |-> "unsent"]

Move == [item : Items, target : Statuses]

NoMove == [item |-> <<>>, target |-> None]

-----------------------------------------------------------------------------
(* The services' rules. *)

Busy(a) == work[a] # NoWork

In(a, phases) == Busy(a) /\ work[a].phase \in phases

ItemsOf(m) == {LostOf[m], FoundOf[m]}

\* There is no case yet, or it reads as one whose opening failed.
Openable(m) == case[m] \in {None, "RETRYABLE"}

\* Mutant: the found item is not looked up.
FoundItemUnchecked(m) == TRUE

FoundItemIsFree(m) ==
    \A n \in Matches : case[n] = "IN_PROGRESS" => FoundOf[n] # FoundOf[m]

\* Mutant: a case is closed whatever its items' statuses.
AcceptsAnyClosing(c) ==
    \A i \in ItemsOf(c.match) : c.op = "open" => item[i] \in OpenableStatuses

\* item-service accepts the call: both items are where the operation starts.
Accepts(c) ==
    \A i \in ItemsOf(c.match) :
        IF c.op = "open" THEN item[i] \in OpenableStatuses ELSE item[i] = "IN_RECOVERY"

\* Mutant: a closing names the found item only.
MovedFound(c) ==
    [i \in Items |->
        IF i = FoundOf[c.match] \/ (c.op = "open" /\ i = LostOf[c.match]) THEN c.target ELSE item[i]]

\* item-service commits the call, whatever the rows hold by now.
Moved(c) == [i \in Items |-> IF i \in ItemsOf(c.match) THEN c.target ELSE item[i]]

\* Mutant: a case is closed though the call was refused.
OutcomeRegardless(a) ==
    IF work[a].phase = "ok" \/ work[a].call.op # "open" THEN work[a].becomes ELSE "RETRYABLE"

\* The status of its case once an actor knows the answer: a failed closing
\* leaves the case alone.
Outcome(a) ==
    CASE work[a].phase = "ok"                                -> work[a].becomes
      [] work[a].phase = "failed" /\ work[a].call.op = "open" -> "RETRYABLE"
      [] work[a].phase = "failed" /\ work[a].call.op # "open" -> case[work[a].call.match]

\* The consumer has written to the row of a case it opens, and not committed.
\* Of a case that did not exist yet nobody else can know.
RowLocked(m) ==
    /\ In(Consumer, Phases \ {"unsent"})
    /\ work[Consumer].call.match = m

-----------------------------------------------------------------------------
Init ==
    /\ case       = [m \in Matches |-> None]
    /\ steps      = [m \in Matches |-> {}]
    /\ processed  = {}
    /\ item       = [i \in Items |-> "AVAILABLE"]
    /\ work       = [a \in Actors |-> NoWork]
    /\ late       = [c \in Call |-> 0]
    /\ underway   = [c \in Call |-> 0]
    /\ move       = [u \in Users |-> NoMove]
    /\ deliveries = [e \in Events |-> 0]
    /\ requests   = 0
    /\ faults     = 0

\* A user asks item-service's own endpoint for a move; one that its item's
\* status does not allow is refused at once.
UserReads(u, i, s) ==
    /\ move[u] = NoMove
    /\ s \in PublicTransitions[item[i]] \cap UserTargets
    /\ move' = [move EXCEPT ![u] = [item |-> i, target |-> s]]
    /\ UNCHANGED <<case, steps, processed, item, work, late, underway, deliveries, requests, faults>>

UserWrites(u) ==
    /\ move[u] # NoMove
    /\ item' = [item EXCEPT ![move[u].item] = move[u].target]
    /\ move' = [move EXCEPT ![u] = NoMove]
    /\ UNCHANGED <<case, steps, processed, work, late, underway, deliveries, requests, faults>>

\* An event that was processed is dropped, and one whose found item has a case
\* already goes to the dead-letter queue: both leave no trace.  Any event may
\* be delivered again.
ConsumeToOpen(e) ==
    LET m == MatchOf[e] IN
    /\ ~Busy(Consumer)
    /\ e \notin processed
    /\ Openable(m)
    /\ FoundItemIsFree(m)
    /\ work' = [work EXCEPT ![Consumer] =
                  [call    |-> [op |-> "open", match |-> m, target |-> "IN_RECOVERY"],
                   event   |-> e,
                   becomes |-> "IN_PROGRESS",
                   phase   |-> "unsent"]]
    /\ deliveries[e] < MaxDeliveries[e]
    /\ deliveries' = [deliveries EXCEPT ![e] = @ + 1]
    /\ UNCHANGED <<case, steps, processed, item, late, underway, move, requests, faults>>

\* The case is written as OPEN, which locks its row, and the call is sent.
FlushOpening ==
    /\ In(Consumer, {"unsent"})
    /\ work' = [work EXCEPT ![Consumer].phase = "awaited"]
    /\ UNCHANGED <<case, steps, processed, item, late, underway, move, deliveries, requests, faults>>

\* The match has its case already.
ConsumeKnown(e) ==
    /\ ~Busy(Consumer)
    /\ e \notin processed
    /\ ~Openable(MatchOf[e])
    /\ processed' = processed \cup {e}
    /\ UNCHANGED <<case, steps, item, work, late, underway, move, deliveries, requests, faults>>

\* A user asks to cancel or to complete a case; one that is not active is
\* refused at once.  The case's row is not written before the answer.
RequestClose(t, m, op, target, result) ==
    /\ ~Busy(t)
    /\ requests < MaxRequests
    /\ case[m] = "IN_PROGRESS"
    /\ target \in Targets(op)
    /\ result \in Results(op)
    /\ work' = [work EXCEPT ![t] =
                  [call    |-> [op |-> op, match |-> m, target |-> target],
                   event   |-> <<>>,
                   becomes |-> result,
                   phase   |-> "awaited"]]
    /\ requests' = requests + 1
    /\ UNCHANGED <<case, steps, processed, item, late, underway, move, deliveries, faults>>

\* item-service reads both items and goes on with the call, or its refusal
\* arrives.
Validate(a) ==
    /\ In(a, {"awaited"})
    /\ work' = [work EXCEPT ![a].phase = IF Accepts(work[a].call) THEN "validated" ELSE "failed"]
    /\ UNCHANGED <<case, steps, processed, item, late, underway, move, deliveries, requests, faults>>

\* item-service commits the call and its answer arrives.
Write(a) ==
    /\ In(a, {"validated"})
    /\ item' = Moved(work[a].call)
    /\ work' = [work EXCEPT ![a].phase = "ok"]
    /\ UNCHANGED <<case, steps, processed, late, underway, move, deliveries, requests, faults>>

\* The call is committed but its answer is lost.
LoseAnswer(a) ==
    /\ In(a, {"validated"})
    /\ faults < MaxFaults
    /\ item'   = Moved(work[a].call)
    /\ work'   = [work EXCEPT ![a].phase = "failed"]
    /\ faults' = faults + 1
    /\ UNCHANGED <<case, steps, processed, late, underway, move, deliveries, requests>>

\* Nobody waits for an actor's call any more: the call goes on.
Abandon(a) ==
    /\ late'     = IF In(a, {"awaited"}) THEN [late EXCEPT ![work[a].call] = @ + 1] ELSE late
    /\ underway' = IF In(a, {"validated"}) THEN [underway EXCEPT ![work[a].call] = @ + 1] ELSE underway

\* The caller gives up.
TimeOut(a) ==
    /\ In(a, {"awaited", "validated"})
    /\ faults < MaxFaults
    /\ Abandon(a)
    /\ work'   = [work EXCEPT ![a].phase = "failed"]
    /\ faults' = faults + 1
    /\ UNCHANGED <<case, steps, processed, item, move, deliveries, requests>>

\* A call nobody waits for is read, and refused or gone on with.
ValidateLate(c) ==
    /\ late[c] > 0
    /\ late'     = [late EXCEPT ![c] = @ - 1]
    /\ underway' = IF Accepts(c) THEN [underway EXCEPT ![c] = @ + 1] ELSE underway
    /\ UNCHANGED <<case, steps, processed, item, work, move, deliveries, requests, faults>>

WriteLate(c) ==
    /\ underway[c] > 0
    /\ item'     = Moved(c)
    /\ underway' = [underway EXCEPT ![c] = @ - 1]
    /\ UNCHANGED <<case, steps, processed, work, late, move, deliveries, requests, faults>>

\* Mutant: closing a case registers an event too, of which there is none.
RegisteredByAnyone(a) ==
    IF work[a].phase = "ok" THEN processed \cup {work[a].event} ELSE processed

\* Mutant: an event is registered whatever came of it.
RegisteredAlways(a) == (processed \cup {work[a].event}) \ {<<>>}

\* An event is registered once its case is open.
Registered(a) ==
    IF work[a].call.op = "open" /\ work[a].phase = "ok"
    THEN processed \cup {work[a].event}
    ELSE processed

\* The case, the saga step and the event that tells of it are committed.  A
\* failed opening leaves the event unregistered, in the dead-letter queue.  A
\* thread that closes a case waits for the consumer to commit its row; a failed
\* closing does not write it.
Settle(a) ==
    LET m == work[a].call.match IN
    /\ In(a, {"ok", "failed"})
    /\ a # Consumer /\ work[a].phase = "ok" => ~RowLocked(m)
    /\ case'      = [case EXCEPT ![m] = Outcome(a)]
    /\ steps'     = IF work[a].phase = "ok" THEN [steps EXCEPT ![m] = @ \cup {work[a].call.op}] ELSE steps
    /\ processed' = Registered(a)
    /\ work'      = [work EXCEPT ![a] = NoWork]
    /\ UNCHANGED <<item, late, underway, move, deliveries, requests, faults>>

\* The actor is lost with its transaction; a call it had sent goes on.
Crash(a) ==
    /\ Busy(a)
    /\ faults < MaxFaults
    /\ Abandon(a)
    /\ work'   = [work EXCEPT ![a] = NoWork]
    /\ faults' = faults + 1
    /\ UNCHANGED <<case, steps, processed, item, move, deliveries, requests>>

Idle ==
    /\ \A a \in Actors : ~Busy(a)
    /\ \A u \in Users : move[u] = NoMove
    /\ UNCHANGED vars

Next ==
    \/ \E u \in Users : UserWrites(u) \/ \E i \in Items, s \in Statuses : UserReads(u, i, s)
    \/ \E e \in Events : ConsumeToOpen(e) \/ ConsumeKnown(e)
    \/ FlushOpening
    \/ \E t \in Threads, m \in Matches, op \in Ops \ {"open"}, s \in Statuses, r \in CaseStatuses :
          RequestClose(t, m, op, s, r)
    \/ \E a \in Actors :
          Validate(a) \/ Write(a) \/ LoseAnswer(a) \/ TimeOut(a) \/ Settle(a) \/ Crash(a)
    \/ \E c \in Call : ValidateLate(c) \/ WriteLate(c)
    \/ Idle

Spec == Init /\ [][Next]_vars

-----------------------------------------------------------------------------
(* Properties. *)

TypeOK ==
    /\ case \in [Matches -> CaseStatuses]
    /\ steps \in [Matches -> SUBSET Ops]
    /\ processed \subseteq Events
    /\ item \in [Items -> Statuses]
    /\ work \in [Actors -> Work]
    /\ late \in [Call -> 0..faults]
    /\ underway \in [Call -> 0..faults]
    /\ move \in [Users -> Move \cup {NoMove}]
    /\ deliveries \in [Events -> Nat]
    /\ requests \in 0..MaxRequests
    /\ faults \in 0..MaxFaults

Opened(m) == "open" \in steps[m]

\* An event that was registered has a case that was opened, through every
\* failure, crash and retry: the conflict raised for a registered event
\* without a case never comes up, and no event is lost to a failed opening.
ProcessedHasCase ==
    \A e \in processed : case[MatchOf[e]] # None /\ Opened(MatchOf[e])

Active(m) == case[m] = "IN_PROGRESS"

\* Two active cases never have the same found item.
OneActiveCasePerFoundItem ==
    \A m, n \in Matches : m # n /\ Active(m) /\ Active(n) => FoundOf[m] # FoundOf[n]

Knows(a, m, ops) == In(a, {"ok"}) /\ work[a].call.match = m /\ work[a].call.op \in ops

Closing(t, m) == Busy(t) /\ work[t].call.match = m

\* One of the match's items is in no other match.
Lone(m) == \E i \in ItemsOf(m) : \A n \in Matches : i \in ItemsOf(n) => n = m

\* item-service is between its read and its commit for at most one of the
\* requests on an item.  Nothing in the code sees to it.
NoOverlap ==
    LET OfCall(a) == IF In(a, {"validated"}) THEN ItemsOf(work[a].call.match) ELSE {}
        OfMove(u) == IF move[u] # NoMove THEN {move[u].item} ELSE {}
    IN
    /\ \A a, b \in Actors : a # b => OfCall(a) \cap OfCall(b) = {}
    /\ \A u, v \in Users : u # v => OfMove(u) \cap OfMove(v) = {}
    /\ \A a \in Actors, u \in Users : OfCall(a) \cap OfMove(u) = {}

\* What the next properties need: every call is answered, item-service handles
\* the requests on an item one after the other, and no two threads close a
\* case of which other matches share both items.
Undisturbed ==
    /\ faults = 0
    /\ NoOverlap
    /\ \A t, u \in Threads, m \in Matches : Closing(t, m) /\ Closing(u, m) => t = u \/ Lone(m)

\* Undisturbed, an active case has both its items in
\* recovery, until a closing call is answered and about to be recorded.
ActiveCaseHoldsItems ==
    \A m \in Matches :
        Active(m) => \/ \A i \in ItemsOf(m) : item[i] = "IN_RECOVERY"
                     \/ \E a \in Actors : Knows(a, m, {"cancel", "complete"})

\* Undisturbed, an item in recovery has an active case, or
\* one about to be recorded as open.
RecoveryHasCase ==
    \A i \in Items :
        item[i] = "IN_RECOVERY" =>
            \E m \in Matches : i \in ItemsOf(m) /\ (Active(m) \/ \E a \in Actors : Knows(a, m, {"open"}))

Closed(m) == case[m] \in {"CANCELLED", "COMPLETED"}

\* "Recovery case cancelado nao pode ser concluido", "Recovery case concluido
\* nao pode ser cancelado": a closed case keeps its status.
ClosedCaseIsFinal ==
    [][\A m \in Matches : Closed(m) => case'[m] = case[m]]_vars

ClosersOf(m) == {t \in Threads : Knows(t, m, {"cancel", "complete"})}

\* A case is what its row will say once every answer that came is recorded.
\* A thread that closes the case records it after the consumer that opens it.
StatusOf(m) ==
    IF ClosersOf(m) # {} THEN work[CHOOSE t \in ClosersOf(m) : TRUE].becomes
    ELSE IF Knows(Consumer, m, {"open"}) THEN "IN_PROGRESS"
    ELSE case[m]

Lifecycle == INSTANCE CaseLifecycle WITH status <- [m \in Matches |-> StatusOf(m)]

\* Undisturbed, the saga is the lifecycle: a case and its items change in one
\* step, though the case's row is read before the call to item-service that
\* moves the items and written after it.
ImplementsLifecycle == Lifecycle!Spec

=============================================================================
