------------------------ MODULE RecoveryCasesProofs ------------------------
(***************************************************************************)
(* Theorems about RecoveryCases: what holds of the recovery cases whatever *)
(* fails and whatever overlaps in item-service, and what holds as long as  *)
(* nothing does, for any items, matches, events, threads and users.        *)
(***************************************************************************)
EXTENDS RecoveryCases, TLAPS

-----------------------------------------------------------------------------
(* The invariant.  The consumer alone opens cases, and the found item it     *)
(* looked up before its call is still free when the call is answered:        *)
(* threads close only cases that were opened, and closing makes none active. *)

CallOf(a) == work[a].call

OpensForAnEvent(a) ==
    /\ CallOf(a).op = "open"
    /\ CallOf(a).match \in Matches
    /\ work[a].event \in Events
    /\ MatchOf[work[a].event] = CallOf(a).match
    /\ work[a].becomes = "IN_PROGRESS"

ConsumerOpens ==
    Busy(Consumer) =>
        /\ OpensForAnEvent(Consumer)
        /\ FoundItemIsFree(CallOf(Consumer).match)

ThreadsClose ==
    \A t \in Threads :
        Busy(t) => /\ CallOf(t).op \in {"cancel", "complete"}
                   /\ CallOf(t).match \in Matches
                   /\ Opened(CallOf(t).match)
                   /\ work[t].becomes \in Results(CallOf(t).op)

\* A case says that it was opened unless it can be opened, and there is one if
\* it was.
CasesTell ==
    \A m \in Matches : /\ ~Openable(m) => Opened(m)
                       /\ Opened(m) => case[m] # None

\* A call that its caller gave up is in one place.
AbandonedOnce == \A c \in Call : late[c] + underway[c] <= faults

\* What is said of the cases and of who works on them.
CaseInv ==
    /\ ConsumerOpens
    /\ ThreadsClose
    /\ CasesTell
    /\ ProcessedHasCase
    /\ OneActiveCasePerFoundItem

IInv == TypeOK /\ AbandonedOnce /\ CaseInv

-----------------------------------------------------------------------------
(* Lemmas about calls. *)

LEMMA CallsAreTyped ==
    /\ \A op \in Ops, m \in Matches : \A s \in Targets(op) :
          [op |-> op, match |-> m, target |-> s] \in Call
    /\ \A c \in Call : /\ c.op \in Ops
                       /\ c.match \in Matches
                       /\ c.target \in Statuses
                       /\ c.target \in Targets(c.op)
    /\ NoWork \in Work
  <1>1. ASSUME NEW op \in Ops, NEW m \in Matches, NEW s \in Targets(op)
        PROVE  [op |-> op, match |-> m, target |-> s] \in Call
    <2> DEFINE Of(o) == [op : {o}, match : Matches, target : Targets(o)]
    <2>1. [op |-> op, match |-> m, target |-> s] \in Of(op)
      OBVIOUS
    <2>2. Of(op) \in {Of(o) : o \in Ops}
      OBVIOUS
    <2>3. QED
      BY <2>1, <2>2 DEF Call
  <1>2. ASSUME NEW c \in Call
        PROVE  /\ c.op \in Ops /\ c.match \in Matches
               /\ c.target \in Statuses /\ c.target \in Targets(c.op)
    <2>1. PICK o \in Ops : c \in [op : {o}, match : Matches, target : Targets(o)]
      BY DEF Call
    <2>2. Targets(o) \subseteq Statuses
      BY <2>1 DEF Ops, Targets, OpenableStatuses, Statuses
    <2>3. QED
      BY <2>1, <2>2
  <1>3. NoWork \in Work
    BY DEF NoWork, Work, NoCall, CaseStatuses, Phases
  <1>4. QED
    BY <1>1, <1>2, <1>3

\* A closing makes no case active.
LEMMA ClosingCloses ==
    \A op \in {"cancel", "complete"} : Results(op) \subseteq {"CANCELLED", "RETRYABLE", "COMPLETED"}
  BY DEF Results

\* An actor at work has a call.
LEMMA BusyCalls ==
    ASSUME IInv, NEW a \in Actors, Busy(a)
    PROVE  work[a].call \in Call /\ work[a] \in Work
  <1>1. work[a] \in Work /\ work[a].call \in Call \cup {NoCall}
    BY DEF IInv, TypeOK, Work
  <1>2. CASE a = Consumer
    <2>1. work[a].call.op = "open"
      BY <1>2 DEF IInv, CaseInv, ConsumerOpens, OpensForAnEvent, CallOf
    <2>2. QED
      BY <1>1, <2>1 DEF NoCall, None
  <1>3. CASE a \in Threads
    <2>1. work[a].call.op \in {"cancel", "complete"}
      BY <1>3 DEF IInv, CaseInv, ThreadsClose, CallOf
    <2>2. QED
      BY <1>1, <2>1 DEF NoCall, None
  <1>4. QED
    BY <1>2, <1>3 DEF Actors

\* Whatever the call, the items keep statuses of the enumeration.
LEMMA MovedType ==
    ASSUME item \in [Items -> Statuses], NEW c \in Call
    PROVE  Moved(c) \in [Items -> Statuses]
  <1>1. c.target \in Statuses
    BY CallsAreTyped
  <1>2. QED
    BY <1>1 DEF Moved

\* What is written when the answer to each kind of call is known.
LEMMA OutcomeByCall ==
    ASSUME NEW a, work[a].phase \in {"ok", "failed"}
    PROVE  /\ work[a].phase = "ok" => Outcome(a) = work[a].becomes
           /\ work[a].phase = "failed" /\ work[a].call.op = "open" => Outcome(a) = "RETRYABLE"
           /\ work[a].phase = "failed" /\ work[a].call.op # "open" => Outcome(a) = case[work[a].call.match]
  <1>1. CASE work[a].phase = "ok"
    BY <1>1 DEF Outcome
  <1>2. CASE work[a].phase = "failed" /\ work[a].call.op = "open"
    BY <1>2 DEF Outcome
  <1>3. CASE work[a].phase = "failed" /\ work[a].call.op # "open"
    BY <1>3 DEF Outcome
  <1>4. QED
    BY <1>1, <1>2, <1>3

\* Steps that leave the cases, the processed events and the calls as they are
\* keep what is said of them.
LEMMA CasesUntouched ==
    ASSUME IInv, UNCHANGED <<case, steps, processed>>,
           \A a \in Actors : /\ work'[a].call = work[a].call
                             /\ work'[a].event = work[a].event
                             /\ work'[a].becomes = work[a].becomes,
           \A a \in Actors : Busy(a)' => Busy(a)
    PROVE  CaseInv'
  <1>1. ConsumerOpens'
    BY DEF IInv, CaseInv, ConsumerOpens, OpensForAnEvent, CallOf, FoundItemIsFree, Actors
  <1>2. ThreadsClose'
    BY DEF IInv, CaseInv, ThreadsClose, CallOf, Opened, Actors
  <1>3. (CasesTell /\ ProcessedHasCase /\ OneActiveCasePerFoundItem)'
    BY DEF IInv, CaseInv, CasesTell, ProcessedHasCase, OneActiveCasePerFoundItem, Openable, Opened, Active
  <1>4. QED
    BY <1>1, <1>2, <1>3 DEF CaseInv

\* An actor that stops, whatever it did, leaves the others' promises alone.
LEMMA ActorStops ==
    ASSUME IInv, UNCHANGED <<case, steps, processed>>, NEW a \in Actors,
           work' = [work EXCEPT ![a] = NoWork]
    PROVE  CaseInv'
  <1>1. ~Busy(a)' /\ \A b \in Actors : b # a => work'[b] = work[b]
    BY DEF IInv, TypeOK, Busy
  <1>2. ConsumerOpens'
    BY <1>1 DEF IInv, CaseInv, ConsumerOpens, OpensForAnEvent, CallOf, FoundItemIsFree, Actors, Busy
  <1>3. ThreadsClose'
    BY <1>1 DEF IInv, CaseInv, ThreadsClose, CallOf, Opened, Actors, Busy
  <1>4. (CasesTell /\ ProcessedHasCase /\ OneActiveCasePerFoundItem)'
    BY DEF IInv, CaseInv, CasesTell, ProcessedHasCase, OneActiveCasePerFoundItem, Openable, Opened, Active
  <1>5. QED
    BY <1>2, <1>3, <1>4 DEF CaseInv

\* A call that gets further is the same call.
LEMMA CallAdvances ==
    ASSUME IInv, UNCHANGED <<case, steps, processed>>, NEW a \in Actors, Busy(a),
           NEW ph \in Phases, work' = [work EXCEPT ![a].phase = ph]
    PROVE  work' \in [Actors -> Work] /\ CaseInv'
  <1>1. work' \in [Actors -> Work]
    BY DEF IInv, TypeOK, Work
  <1>2. \A b \in Actors : /\ work'[b].call = work[b].call
                          /\ work'[b].event = work[b].event
                          /\ work'[b].becomes = work[b].becomes
    BY DEF IInv, TypeOK, Work
  <1>3. \A b \in Actors : Busy(b)' => Busy(b)
    BY DEF IInv, TypeOK, Busy
  <1>4. QED
    BY <1>1, <1>2, <1>3, CasesUntouched

-----------------------------------------------------------------------------
(* One lemma per action. *)

LEMMA InitEstablishes == Init => IInv
  <1> SUFFICES ASSUME Init PROVE IInv
    OBVIOUS
  <1>1. TypeOK
    BY CallsAreTyped, BoundsAssumption
    DEF Init, TypeOK, CaseStatuses, Statuses
  <1>2. \A a \in Actors : ~Busy(a)
    BY DEF Init, Busy
  <1>3. \A m \in Matches : ~Opened(m) /\ Openable(m) /\ ~Active(m)
    BY DEF Init, Opened, Openable, Active, None
  <1>4. AbandonedOnce
    BY DEF Init, AbandonedOnce
  <1>5. QED
    BY <1>1, <1>2, <1>3, <1>4
    DEF Init, IInv, CaseInv, ConsumerOpens, ThreadsClose, CasesTell, ProcessedHasCase,
        OneActiveCasePerFoundItem, Actors

LEMMA UserReadsKeeps ==
    ASSUME IInv, NEW u \in Users, NEW i \in Items, NEW s \in Statuses, UserReads(u, i, s)
    PROVE  IInv'
  <1>1. TypeOK' /\ AbandonedOnce'
    BY DEF IInv, TypeOK, AbandonedOnce, UserReads, Move
  <1>2. CaseInv'
    BY CasesUntouched DEF UserReads, Busy
  <1>3. QED
    BY <1>1, <1>2 DEF IInv

LEMMA UserWritesKeeps ==
    ASSUME IInv, NEW u \in Users, UserWrites(u)
    PROVE  IInv'
  <1>1. move[u].target \in Statuses
    BY DEF IInv, TypeOK, UserWrites, Move
  <1>2. TypeOK' /\ AbandonedOnce'
    BY <1>1 DEF IInv, TypeOK, AbandonedOnce, UserWrites
  <1>3. CaseInv'
    BY CasesUntouched DEF UserWrites, Busy
  <1>4. QED
    BY <1>2, <1>3 DEF IInv

LEMMA ConsumeToOpenKeeps ==
    ASSUME IInv, NEW e \in Events, ConsumeToOpen(e)
    PROVE  IInv'
  <1> DEFINE m == MatchOf[e]
             c == [op |-> "open", match |-> m, target |-> "IN_RECOVERY"]
             w == [call |-> c, event |-> e, becomes |-> "IN_PROGRESS", phase |-> "unsent"]
  <1>1. m \in Matches
    BY MatchesAssumption
  <1>2. c \in Call
    <2>1. "IN_RECOVERY" \in Targets("open") /\ "open" \in Ops
      BY DEF Targets, Ops
    <2>2. QED
      BY <1>1, <2>1, CallsAreTyped
  <1>3. work' = [work EXCEPT ![Consumer] = w] /\ w \in Work
    BY <1>2 DEF ConsumeToOpen, Work, CaseStatuses, Phases
  <1>4. Consumer \in Actors /\ Consumer \notin Threads
    BY ActorsAssumption DEF Actors
  <1>5. TypeOK' /\ AbandonedOnce'
    <2>1. deliveries' \in [Events -> Nat]
      BY DEF IInv, TypeOK, ConsumeToOpen
    <2>2. QED
      BY <1>3, <2>1 DEF IInv, TypeOK, AbandonedOnce, ConsumeToOpen
  <1>6. work'[Consumer] = w /\ \A t \in Threads : work'[t] = work[t]
    BY <1>3, <1>4 DEF IInv, TypeOK, Actors
  <1>7. ConsumerOpens'
    BY <1>1, <1>6
    DEF ConsumeToOpen, ConsumerOpens, OpensForAnEvent, CallOf, FoundItemIsFree
  <1>8. ThreadsClose'
    BY <1>6 DEF IInv, CaseInv, ThreadsClose, CallOf, Opened, Busy, ConsumeToOpen
  <1>9. (CasesTell /\ ProcessedHasCase /\ OneActiveCasePerFoundItem)'
    BY DEF IInv, CaseInv, CasesTell, ProcessedHasCase, OneActiveCasePerFoundItem, Openable,
           Opened, Active, ConsumeToOpen
  <1>10. QED
    BY <1>5, <1>7, <1>8, <1>9 DEF IInv, CaseInv

LEMMA FlushOpeningKeeps ==
    ASSUME IInv, FlushOpening
    PROVE  IInv'
  <1>1. Consumer \in Actors /\ "awaited" \in Phases
    BY DEF Actors, Phases
  <1>2. work' \in [Actors -> Work] /\ CaseInv'
    BY <1>1, CallAdvances DEF FlushOpening, In
  <1>3. QED
    BY <1>2 DEF IInv, TypeOK, AbandonedOnce, FlushOpening

LEMMA ConsumeKnownKeeps ==
    ASSUME IInv, NEW e \in Events, ConsumeKnown(e)
    PROVE  IInv'
  <1>1. TypeOK' /\ AbandonedOnce'
    BY DEF IInv, TypeOK, AbandonedOnce, ConsumeKnown
  <1>2. ConsumerOpens'
    BY DEF IInv, CaseInv, ConsumerOpens, OpensForAnEvent, CallOf, FoundItemIsFree, Busy, ConsumeKnown
  <1>3. ThreadsClose'
    BY DEF IInv, CaseInv, ThreadsClose, CallOf, Opened, Busy, ConsumeKnown
  <1>4. ProcessedHasCase' /\ CasesTell'
    BY MatchesAssumption
    DEF IInv, TypeOK, CaseInv, CasesTell, ProcessedHasCase, Openable, Opened, ConsumeKnown
  <1>5. OneActiveCasePerFoundItem'
    BY DEF IInv, CaseInv, OneActiveCasePerFoundItem, Active, ConsumeKnown
  <1>6. QED
    BY <1>1, <1>2, <1>3, <1>4, <1>5 DEF IInv, CaseInv

LEMMA RequestCloseKeeps ==
    ASSUME IInv, NEW t \in Threads, NEW m \in Matches, NEW op \in Ops \ {"open"},
           NEW s \in Statuses, NEW r \in CaseStatuses, RequestClose(t, m, op, s, r)
    PROVE  IInv'
  <1> DEFINE c == [op |-> op, match |-> m, target |-> s]
             w == [call |-> c, event |-> <<>>, becomes |-> r, phase |-> "awaited"]
  <1>1. c \in Call
    BY CallsAreTyped DEF RequestClose
  <1>2. work' = [work EXCEPT ![t] = w] /\ w \in Work
    BY <1>1 DEF RequestClose, Work, Phases
  <1>3. t \in Actors /\ t # Consumer
    BY ActorsAssumption DEF Actors
  <1>4. TypeOK' /\ AbandonedOnce'
    <2>1. requests' \in 0..MaxRequests
      BY BoundsAssumption DEF IInv, TypeOK, RequestClose
    <2>2. QED
      BY <1>2, <2>1 DEF IInv, TypeOK, AbandonedOnce, RequestClose
  <1>5. work'[t] = w /\ \A a \in Actors : a # t => work'[a] = work[a]
    BY <1>2, <1>3 DEF IInv, TypeOK
  <1>6. ConsumerOpens'
    BY <1>3, <1>5
    DEF IInv, CaseInv, ConsumerOpens, OpensForAnEvent, CallOf, FoundItemIsFree, Busy,
        RequestClose, Actors
  <1>7. Opened(m)' /\ r \in Results(op) /\ op \in {"cancel", "complete"}
    BY DEF IInv, CaseInv, CasesTell, RequestClose, Openable, None, Opened, Ops
  <1>8. ThreadsClose'
    BY <1>5, <1>7 DEF IInv, CaseInv, ThreadsClose, CallOf, Opened, Busy, RequestClose, Actors
  <1>9. (CasesTell /\ ProcessedHasCase /\ OneActiveCasePerFoundItem)'
    BY DEF IInv, CaseInv, CasesTell, ProcessedHasCase, OneActiveCasePerFoundItem, Openable,
           Opened, Active, RequestClose
  <1>10. QED
    BY <1>4, <1>6, <1>8, <1>9 DEF IInv, CaseInv

LEMMA ValidateKeeps ==
    ASSUME IInv, NEW a \in Actors, Validate(a)
    PROVE  IInv'
  <1>1. PICK ph \in {"validated", "failed"} : work' = [work EXCEPT ![a].phase = ph]
    BY DEF Validate
  <1>2. work' \in [Actors -> Work] /\ CaseInv'
    BY <1>1, CallAdvances DEF Validate, In, Phases
  <1>3. QED
    BY <1>2 DEF IInv, TypeOK, AbandonedOnce, Validate

LEMMA WriteKeeps ==
    ASSUME IInv, NEW a \in Actors, Write(a) \/ LoseAnswer(a)
    PROVE  IInv'
  <1>1. Busy(a) /\ item' = Moved(work[a].call) /\ UNCHANGED <<case, steps, processed>>
    BY DEF Write, LoseAnswer, In
  <1>2. PICK ph \in {"ok", "failed"} : work' = [work EXCEPT ![a].phase = ph]
    BY DEF Write, LoseAnswer
  <1>3. work' \in [Actors -> Work] /\ CaseInv'
    BY <1>1, <1>2, CallAdvances DEF Phases
  <1>4. item' \in [Items -> Statuses]
    BY <1>1, BusyCalls, MovedType DEF IInv, TypeOK
  <1>5. faults' \in 0..MaxFaults /\ faults <= faults'
    BY BoundsAssumption DEF IInv, TypeOK, Write, LoseAnswer
  <1>6. late' \in [Call -> 0..faults'] /\ underway' \in [Call -> 0..faults']
    BY <1>5, BoundsAssumption DEF IInv, TypeOK, Write, LoseAnswer
  <1>7. AbandonedOnce'
    <2>1. \A c \in Call : late[c] \in Nat /\ underway[c] \in Nat
      BY BoundsAssumption DEF IInv, TypeOK
    <2>2. UNCHANGED <<late, underway>> /\ faults \in Nat /\ faults' \in Nat
      BY <1>5, BoundsAssumption DEF IInv, TypeOK, Write, LoseAnswer
    <2>3. QED
      BY <1>5, <2>1, <2>2 DEF IInv, AbandonedOnce
  <1>8. QED
    BY <1>3, <1>4, <1>5, <1>6, <1>7 DEF IInv, TypeOK, Write, LoseAnswer

\* The call of an actor that gives up is counted once.
LEMMA AbandonKeeps ==
    ASSUME IInv, NEW a \in Actors, Busy(a), faults < MaxFaults, Abandon(a), faults' = faults + 1
    PROVE  /\ late' \in [Call -> 0..faults'] /\ underway' \in [Call -> 0..faults']
           /\ faults' \in 0..MaxFaults
           /\ AbandonedOnce'
  <1> DEFINE c == work[a].call
  <1>1. c \in Call
    BY BusyCalls
  <1>2. faults \in Nat /\ faults' \in Nat /\ faults' \in 0..MaxFaults
    BY BoundsAssumption DEF IInv, TypeOK
  <1>3. late \in [Call -> Nat] /\ underway \in [Call -> Nat]
    BY BoundsAssumption DEF IInv, TypeOK
  <1>4. \A d \in Call : late[d] + underway[d] <= faults
    BY DEF IInv, AbandonedOnce
  <1>5. \/ UNCHANGED <<late, underway>>
        \/ late' = [late EXCEPT ![c] = @ + 1] /\ UNCHANGED underway
        \/ underway' = [underway EXCEPT ![c] = @ + 1] /\ UNCHANGED late
    BY DEF Abandon, In
  <1>6. /\ late' \in [Call -> Nat] /\ underway' \in [Call -> Nat]
        /\ \A d \in Call : late'[d] + underway'[d] <= faults'
    <2>1. CASE UNCHANGED <<late, underway>>
      BY <1>2, <1>3, <1>4, <2>1
    <2>2. CASE late' = [late EXCEPT ![c] = @ + 1] /\ UNCHANGED underway
      BY <1>1, <1>2, <1>3, <1>4, <2>2
    <2>3. CASE underway' = [underway EXCEPT ![c] = @ + 1] /\ UNCHANGED late
      BY <1>1, <1>2, <1>3, <1>4, <2>3
    <2>4. QED
      BY <1>5, <2>1, <2>2, <2>3
  <1>7. \A d \in Call : late'[d] \in 0..faults' /\ underway'[d] \in 0..faults'
    BY <1>2, <1>6
  <1>8. QED
    BY <1>2, <1>6, <1>7 DEF AbandonedOnce

LEMMA TimeOutKeeps ==
    ASSUME IInv, NEW a \in Actors, TimeOut(a)
    PROVE  IInv'
  <1>1. Busy(a) /\ "failed" \in Phases
    BY DEF TimeOut, In, Phases
  <1>2. work' \in [Actors -> Work] /\ CaseInv'
    BY <1>1, CallAdvances DEF TimeOut
  <1>3. /\ late' \in [Call -> 0..faults'] /\ underway' \in [Call -> 0..faults']
        /\ faults' \in 0..MaxFaults /\ AbandonedOnce'
    BY <1>1, AbandonKeeps DEF TimeOut
  <1>4. QED
    BY <1>2, <1>3 DEF IInv, TypeOK, TimeOut

LEMMA LateKeeps ==
    ASSUME IInv, NEW c \in Call, ValidateLate(c) \/ WriteLate(c)
    PROVE  IInv'
  <1>1. /\ late \in [Call -> Nat] /\ underway \in [Call -> Nat] /\ faults \in Nat
        /\ \A d \in Call : late[d] + underway[d] <= faults
    BY BoundsAssumption DEF IInv, TypeOK, AbandonedOnce
  <1>2. /\ late' \in [Call -> Nat] /\ underway' \in [Call -> Nat] /\ faults' = faults
        /\ \A d \in Call : late'[d] + underway'[d] <= faults
    <2>1. CASE ValidateLate(c)
      <3>1. CASE Accepts(c)
        BY <1>1, <2>1, <3>1 DEF ValidateLate
      <3>2. CASE ~Accepts(c)
        BY <1>1, <2>1, <3>2 DEF ValidateLate
      <3>3. QED
        BY <3>1, <3>2
    <2>2. CASE WriteLate(c)
      BY <1>1, <2>2 DEF WriteLate
    <2>3. QED
      BY <2>1, <2>2
  <1>3. \A d \in Call : late'[d] \in 0..faults' /\ underway'[d] \in 0..faults'
    BY <1>1, <1>2
  <1>4. item' \in [Items -> Statuses]
    BY MovedType DEF IInv, TypeOK, ValidateLate, WriteLate
  <1>5. TypeOK' /\ AbandonedOnce'
    BY <1>2, <1>3, <1>4 DEF IInv, TypeOK, AbandonedOnce, ValidateLate, WriteLate
  <1>6. CaseInv'
    BY CasesUntouched DEF ValidateLate, WriteLate, Busy
  <1>7. QED
    BY <1>5, <1>6 DEF IInv

LEMMA CrashKeeps ==
    ASSUME IInv, NEW a \in Actors, Crash(a)
    PROVE  IInv'
  <1>1. /\ late' \in [Call -> 0..faults'] /\ underway' \in [Call -> 0..faults']
        /\ faults' \in 0..MaxFaults /\ AbandonedOnce'
    BY AbandonKeeps DEF Crash
  <1>2. work' \in [Actors -> Work]
    BY CallsAreTyped DEF IInv, TypeOK, Crash
  <1>3. CaseInv'
    BY ActorStops DEF Crash
  <1>4. QED
    BY <1>1, <1>2, <1>3 DEF IInv, TypeOK, Crash

\* What an actor records, and of which case.
LEMMA SettleIs ==
    ASSUME IInv, NEW a \in Actors, Settle(a)
    PROVE  LET w == work[a] IN
           /\ w.call \in Call /\ w.call.match \in Matches /\ w.phase \in {"ok", "failed"}
           /\ Busy(a) /\ w \in Work
           /\ case' \in [Matches -> CaseStatuses]
           /\ \A n \in Matches : n # w.call.match => case'[n] = case[n]
           /\ w.phase = "ok" => case'[w.call.match] = w.becomes
           /\ w.phase = "failed" /\ w.call.op = "open" => case'[w.call.match] = "RETRYABLE"
           /\ w.phase = "failed" /\ w.call.op # "open" => case' = case
           /\ \A n \in Matches : Opened(n) => Opened(n)'
           /\ w.call.op = "open" /\ w.phase = "ok" => "open" \in steps'[w.call.match]
           /\ ~(w.call.op = "open" /\ w.phase = "ok") => \A n \in Matches : Opened(n)' => Opened(n)
           /\ \A n \in Matches : n # w.call.match => (Opened(n)' => Opened(n))
           /\ work' \in [Actors -> Work]
           /\ ~Busy(a)' /\ \A b \in Actors : b # a => work'[b] = work[b]
           /\ item' = item
  <1> DEFINE w == work[a]
             m == work[a].call.match
             o == Outcome(a)
  <1>1. Busy(a) /\ w \in Work /\ w.phase \in {"ok", "failed"}
    BY DEF Settle, In, IInv, TypeOK
  <1>2. w.call \in Call /\ m \in Matches /\ w.call.op \in Ops
    BY <1>1, BusyCalls, CallsAreTyped
  <1>3. case' = [case EXCEPT ![m] = o]
    BY DEF Settle
  <1>4. /\ w.phase = "ok" => o = w.becomes
        /\ w.phase = "failed" /\ w.call.op = "open" => o = "RETRYABLE"
        /\ w.phase = "failed" /\ w.call.op # "open" => o = case[m]
    BY <1>1, OutcomeByCall
  <1>5. o \in CaseStatuses
    BY <1>1, <1>2, <1>4 DEF IInv, TypeOK, Work, CaseStatuses
  <1>6. /\ case' \in [Matches -> CaseStatuses] /\ case'[m] = o
        /\ \A n \in Matches : n # m => case'[n] = case[n]
    BY <1>2, <1>3, <1>5 DEF IInv, TypeOK
  <1>7. w.phase = "failed" /\ w.call.op # "open" => case' = case
    BY <1>3, <1>4 DEF IInv, TypeOK
  <1>8. \A n \in Matches :
           steps'[n] = IF n = m /\ w.phase = "ok" THEN steps[n] \cup {w.call.op} ELSE steps[n]
    BY <1>2 DEF Settle, IInv, TypeOK
  <1>9. work' \in [Actors -> Work] /\ ~Busy(a)' /\ \A b \in Actors : b # a => work'[b] = work[b]
    BY CallsAreTyped DEF Settle, IInv, TypeOK, Busy
  <1>10. item' = item
    BY DEF Settle
  <1>11. /\ \A n \in Matches : Opened(n) => Opened(n)'
         /\ w.call.op = "open" /\ w.phase = "ok" => "open" \in steps'[m]
         /\ ~(w.call.op = "open" /\ w.phase = "ok") => \A n \in Matches : Opened(n)' => Opened(n)
         /\ \A n \in Matches : n # m => (Opened(n)' => Opened(n))
    BY <1>2, <1>8 DEF Opened
  <1>12. QED
    BY <1>1, <1>2, <1>4, <1>6, <1>7, <1>9, <1>10, <1>11

LEMMA SettleTypes ==
    ASSUME IInv, NEW a \in Actors, Settle(a)
    PROVE  TypeOK' /\ AbandonedOnce'
  <1>1. /\ case' \in [Matches -> CaseStatuses] /\ work' \in [Actors -> Work]
        /\ work[a].call \in Call /\ Busy(a)
    BY SettleIs
  <1>2. steps' \in [Matches -> SUBSET Ops]
    <2>1. work[a].call.op \in Ops
      BY <1>1, CallsAreTyped
    <2>2. QED
      BY <2>1 DEF IInv, TypeOK, Settle
  <1>3. processed' \subseteq Events
    <2>1. CASE work[a].call.op = "open" /\ work[a].phase = "ok"
      <3>1. a = Consumer
        BY <1>1, <2>1 DEF IInv, CaseInv, ThreadsClose, CallOf, Actors
      <3>2. work[a].event \in Events
        BY <1>1, <3>1 DEF IInv, CaseInv, ConsumerOpens, OpensForAnEvent
      <3>3. QED
        BY <2>1, <3>2 DEF IInv, TypeOK, Settle, Registered
    <2>2. CASE ~(work[a].call.op = "open" /\ work[a].phase = "ok")
      BY <2>2 DEF IInv, TypeOK, Settle, Registered
    <2>3. QED
      BY <2>1, <2>2
  <1>4. QED
    BY <1>1, <1>2, <1>3 DEF IInv, TypeOK, AbandonedOnce, Settle

\* The consumer records what came of an opening.
LEMMA ConsumerSettles ==
    ASSUME IInv, Settle(Consumer)
    PROVE  IInv'
  <1> DEFINE m == work[Consumer].call.match
             e == work[Consumer].event
             r == work[Consumer].phase
  <1>1. /\ Consumer \in Actors
        /\ \A t \in Threads : t \in Actors /\ t # Consumer
    BY ActorsAssumption DEF Actors
  <1>2. Busy(Consumer) /\ r \in {"ok", "failed"} /\ m \in Matches
    BY <1>1, SettleIs
  <1>3. /\ work[Consumer].call.op = "open"
        /\ e \in Events /\ MatchOf[e] = m
        /\ work[Consumer].becomes = "IN_PROGRESS"
        /\ FoundItemIsFree(m)
    BY <1>2 DEF IInv, CaseInv, ConsumerOpens, OpensForAnEvent, CallOf
  <1>4. /\ \A n \in Matches : n # m => case'[n] = case[n]
        /\ case'[m] = IF r = "ok" THEN "IN_PROGRESS" ELSE "RETRYABLE"
    BY <1>1, <1>2, <1>3, SettleIs
  <1>5. /\ ~Busy(Consumer)' /\ \A t \in Threads : work'[t] = work[t]
        /\ \A n \in Matches : Opened(n) => Opened(n)'
        /\ r = "ok" => "open" \in steps'[m]
        /\ \A n \in Matches : n # m => (Opened(n)' => Opened(n))
    BY <1>1, <1>3, SettleIs
  <1>6. processed' = IF r = "ok" THEN processed \cup {e} ELSE processed
    BY <1>3 DEF Settle, Registered
  <1>7. ConsumerOpens'
    BY <1>5 DEF ConsumerOpens
  <1>8. ThreadsClose'
    <2> SUFFICES ASSUME NEW t \in Threads, Busy(t)'
                 PROVE  /\ work'[t].call.op \in {"cancel", "complete"}
                        /\ work'[t].call.match \in Matches
                        /\ "open" \in steps'[work'[t].call.match]
                        /\ work'[t].becomes \in Results(work'[t].call.op)
      BY DEF ThreadsClose, CallOf, Opened
    <2>1. work'[t] = work[t] /\ Busy(t)
      BY <1>5 DEF Busy
    <2>2. QED
      BY <1>5, <2>1 DEF IInv, CaseInv, ThreadsClose, CallOf, Opened
  <1>9. CasesTell'
    <2> SUFFICES ASSUME NEW n \in Matches
                 PROVE  /\ case'[n] \notin {None, "RETRYABLE"} => Opened(n)'
                        /\ Opened(n)' => case'[n] # None
      BY DEF CasesTell, Openable, Opened
    <2>1. CASE n = m
      BY <1>4, <1>5, <2>1 DEF None, Opened
    <2>2. CASE n # m
      BY <1>4, <1>5, <2>2 DEF IInv, CaseInv, CasesTell, Openable
    <2>3. QED
      BY <2>1, <2>2
  <1>10. ProcessedHasCase'
    <2> SUFFICES ASSUME NEW f \in processed' PROVE case'[MatchOf[f]] # None /\ Opened(MatchOf[f])'
      BY DEF ProcessedHasCase, Opened
    <2>1. Opened(MatchOf[f])' /\ MatchOf[f] \in Matches
      <3>1. CASE f \in processed
        BY <1>5, <3>1, MatchesAssumption DEF IInv, CaseInv, TypeOK, ProcessedHasCase
      <3>2. CASE f \notin processed
        BY <1>2, <1>3, <1>5, <1>6, <3>2 DEF Opened
      <3>3. QED
        BY <3>1, <3>2
    <2>2. QED
      BY <1>9, <2>1 DEF CasesTell, Opened
  <1>11. OneActiveCasePerFoundItem'
    <2> SUFFICES ASSUME NEW n \in Matches, NEW k \in Matches, n # k,
                        case'[n] = "IN_PROGRESS", case'[k] = "IN_PROGRESS"
                 PROVE  FoundOf[n] # FoundOf[k]
      BY DEF OneActiveCasePerFoundItem, Active
    <2>1. CASE n = m
      BY <1>3, <1>4, <2>1 DEF FoundItemIsFree
    <2>2. CASE k = m
      BY <1>3, <1>4, <2>2 DEF FoundItemIsFree
    <2>3. CASE n # m /\ k # m
      BY <1>4, <2>3 DEF IInv, CaseInv, OneActiveCasePerFoundItem, Active
    <2>4. QED
      BY <2>1, <2>2, <2>3
  <1>12. QED
    BY <1>1, SettleTypes, <1>7, <1>8, <1>9, <1>10, <1>11 DEF IInv, CaseInv

\* A thread records what came of closing a case.
LEMMA ThreadSettles ==
    ASSUME IInv, NEW t \in Threads, Settle(t)
    PROVE  IInv'
  <1> DEFINE m == work[t].call.match
             r == work[t].phase
  <1>1. t \in Actors /\ t # Consumer /\ Consumer \in Actors /\ \A u \in Threads : u \in Actors
    BY ActorsAssumption DEF Actors
  <1>2. Busy(t) /\ r \in {"ok", "failed"} /\ m \in Matches
    BY <1>1, SettleIs
  <1>3. /\ work[t].call.op \in {"cancel", "complete"} /\ Opened(m)
        /\ work[t].becomes \in {"CANCELLED", "RETRYABLE", "COMPLETED"}
    BY <1>2, ClosingCloses DEF IInv, CaseInv, ThreadsClose, CallOf
  <1>4. /\ \A n \in Matches : n # m => case'[n] = case[n]
        /\ case'[m] \in {"CANCELLED", "RETRYABLE", "COMPLETED", case[m]}
    BY <1>1, <1>2, <1>3, SettleIs
  <1>5. /\ ~Busy(t)' /\ \A a \in Actors : a # t => work'[a] = work[a]
        /\ \A n \in Matches : Opened(n)' <=> Opened(n)
    BY <1>1, <1>3, SettleIs
  <1>6. processed' = processed
    BY <1>3 DEF Settle, Registered
  <1>7. \A n \in Matches : case'[n] = "IN_PROGRESS" => case[n] = "IN_PROGRESS"
    BY <1>4
  <1>8. ConsumerOpens'
    <2> SUFFICES ASSUME Busy(Consumer)'
                 PROVE  /\ OpensForAnEvent(Consumer)'
                        /\ \A n \in Matches : case'[n] = "IN_PROGRESS" =>
                              FoundOf[n] # FoundOf[work'[Consumer].call.match]
      BY DEF ConsumerOpens, FoundItemIsFree, CallOf
    <2>1. work'[Consumer] = work[Consumer] /\ Busy(Consumer)
      BY <1>1, <1>5 DEF Busy
    <2>2. OpensForAnEvent(Consumer) /\ FoundItemIsFree(CallOf(Consumer).match)
      BY <2>1 DEF IInv, CaseInv, ConsumerOpens
    <2>3. OpensForAnEvent(Consumer)'
      BY <2>1, <2>2 DEF OpensForAnEvent, CallOf
    <2>4. QED
      BY <1>7, <2>1, <2>2, <2>3 DEF FoundItemIsFree, CallOf
  <1>9. ThreadsClose'
    <2> SUFFICES ASSUME NEW u \in Threads, Busy(u)'
                 PROVE  /\ work'[u].call.op \in {"cancel", "complete"}
                        /\ work'[u].call.match \in Matches
                        /\ "open" \in steps'[work'[u].call.match]
                        /\ work'[u].becomes \in Results(work'[u].call.op)
      BY DEF ThreadsClose, CallOf, Opened
    <2>1. work'[u] = work[u] /\ Busy(u)
      BY <1>1, <1>5 DEF Busy
    <2>2. QED
      BY <1>5, <2>1 DEF IInv, CaseInv, ThreadsClose, CallOf, Opened
  <1>10. CasesTell'
    <2> SUFFICES ASSUME NEW n \in Matches
                 PROVE  /\ case'[n] \notin {None, "RETRYABLE"} => Opened(n)'
                        /\ Opened(n)' => case'[n] # None
      BY DEF CasesTell, Openable, Opened
    <2>1. (Opened(n) => case[n] # None) /\ (case[n] \notin {None, "RETRYABLE"} => Opened(n))
      BY DEF IInv, CaseInv, CasesTell, Openable
    <2>2. CASE n = m
      BY <1>3, <1>4, <1>5, <2>1, <2>2 DEF None
    <2>3. CASE n # m
      BY <1>4, <1>5, <2>1, <2>3
    <2>4. QED
      BY <2>2, <2>3
  <1>11. ProcessedHasCase'
    <2> SUFFICES ASSUME NEW f \in processed' PROVE case'[MatchOf[f]] # None /\ Opened(MatchOf[f])'
      BY DEF ProcessedHasCase, Opened
    <2>1. Opened(MatchOf[f])' /\ MatchOf[f] \in Matches
      BY <1>5, <1>6, MatchesAssumption DEF IInv, CaseInv, TypeOK, ProcessedHasCase
    <2>2. QED
      BY <1>10, <2>1 DEF CasesTell, Opened
  <1>12. OneActiveCasePerFoundItem'
    BY <1>7 DEF IInv, CaseInv, OneActiveCasePerFoundItem, Active
  <1>13. QED
    BY <1>1, SettleTypes, <1>8, <1>9, <1>10, <1>11, <1>12 DEF IInv, CaseInv

LEMMA StutterKeeps ==
    ASSUME IInv, UNCHANGED vars
    PROVE  IInv'
  <1>1. TypeOK' /\ AbandonedOnce'
    BY DEF IInv, TypeOK, AbandonedOnce, vars
  <1>2. CaseInv'
    BY CasesUntouched DEF vars, Busy
  <1>3. QED
    BY <1>1, <1>2 DEF IInv

LEMMA NextKeeps == IInv /\ [Next]_vars => IInv'
  <1> SUFFICES ASSUME IInv, [Next]_vars PROVE IInv'
    OBVIOUS
  <1>1. ASSUME NEW u \in Users, UserWrites(u) \/ \E i \in Items, s \in Statuses : UserReads(u, i, s)
        PROVE  IInv'
    BY <1>1, UserReadsKeeps, UserWritesKeeps
  <1>2. ASSUME NEW e \in Events, ConsumeToOpen(e) PROVE IInv'
    BY <1>2, ConsumeToOpenKeeps
  <1>3. ASSUME NEW e \in Events, ConsumeKnown(e) PROVE IInv'
    BY <1>3, ConsumeKnownKeeps
  <1>4. ASSUME NEW t \in Threads, NEW m \in Matches, NEW op \in Ops \ {"open"},
               NEW s \in Statuses, NEW r \in CaseStatuses, RequestClose(t, m, op, s, r)
        PROVE  IInv'
    BY <1>4, RequestCloseKeeps
  <1>5. ASSUME NEW a \in Actors, Validate(a) PROVE IInv'
    BY <1>5, ValidateKeeps
  <1>6. ASSUME NEW a \in Actors, Write(a) \/ LoseAnswer(a) PROVE IInv'
    BY <1>6, WriteKeeps
  <1>7. ASSUME NEW a \in Actors, TimeOut(a) PROVE IInv'
    BY <1>7, TimeOutKeeps
  <1>8. ASSUME NEW a \in Actors, Settle(a) PROVE IInv'
    BY <1>8, ConsumerSettles, ThreadSettles DEF Actors
  <1>9. ASSUME NEW a \in Actors, Crash(a) PROVE IInv'
    BY <1>9, CrashKeeps
  <1>10. ASSUME NEW c \in Call, ValidateLate(c) \/ WriteLate(c) PROVE IInv'
    BY <1>10, LateKeeps
  <1>11. CASE FlushOpening
    BY <1>11, FlushOpeningKeeps
  <1>12. CASE Idle \/ UNCHANGED vars
    BY <1>12, StutterKeeps DEF Idle
  <1>13. QED
    BY <1>1, <1>2, <1>3, <1>4, <1>5, <1>6, <1>7, <1>8, <1>9, <1>10, <1>11, <1>12 DEF Next

-----------------------------------------------------------------------------
(* The items of a case.  A match holds its items from the commit of the call *)
(* that opens its case to the commit of the one that closes it, both of      *)
(* which come before the case tells.  The items in recovery are those held,  *)
(* each by one match: so a call that closes a case finds its items in        *)
(* recovery through other cases only if there are two of them, one for each  *)
(* item, and someone else closed the case in the meantime.  A call that was  *)
(* accepted stays acceptable, as nobody else moves its items.                *)

Returned(t, m) == Knows(t, m, {"cancel", "complete"})

IsOpen(m) == Active(m) \/ Knows(Consumer, m, {"open"})

Holds(m) == IsOpen(m) /\ \A t \in Threads : ~Returned(t, m)

HoldersHold ==
    \A m \in Matches : Holds(m) => \A i \in ItemsOf(m) : item[i] = "IN_RECOVERY"

HeldHasHolder ==
    \A i \in Items : item[i] = "IN_RECOVERY" => \E m \in Matches : i \in ItemsOf(m) /\ Holds(m)

HoldersApart ==
    \A m, n \in Matches : Holds(m) /\ Holds(n) /\ m # n => ItemsOf(m) \cap ItemsOf(n) = {}

ReturnedOnce ==
    \A t \in Threads, m \in Matches :
        Returned(t, m) => IsOpen(m) /\ \A u \in Threads : Returned(u, m) => t = u

Held == HoldersHold /\ HeldHasHolder /\ HoldersApart /\ ReturnedOnce

SharedIsActive == \A t \in Threads, m \in Matches : Closing(t, m) => Lone(m) \/ Active(m)

OpensAnew == Busy(Consumer) => Openable(CallOf(Consumer).match)

StillAccepted == \A a \in Actors : In(a, {"validated"}) => Accepts(CallOf(a))

StillLegal ==
    \A u \in Users : move[u] # NoMove => move[u].target \in PublicTransitions[item[move[u].item]]

Pending == SharedIsActive /\ OpensAnew /\ StillAccepted /\ StillLegal

HeldInv == Held /\ Pending

InRecovery(i) == item[i] = "IN_RECOVERY"

\* An actor learns nothing and records nothing.
Quiet(a) ==
    \/ work'[a] = work[a]
    \/ ~In(a, {"ok"}) /\ ~In(a, {"ok"})'

-----------------------------------------------------------------------------
(* Lemmas for several actions. *)

LEMMA KnowsTyped ==
    /\ Consumer \in Actors /\ Consumer \notin Threads
    /\ \A t \in Threads : t \in Actors /\ t # Consumer
    /\ \A m \in Matches : ItemsOf(m) \subseteq Items /\ LostOf[m] \in ItemsOf(m)
  BY ActorsAssumption, MatchesAssumption DEF Actors, ItemsOf

\* An actor that waits for an answer has a phase before it.
LEMMA QuietKnows ==
    ASSUME NEW a, Quiet(a), NEW m, NEW ops
    PROVE  Knows(a, m, ops)' <=> Knows(a, m, ops)
  BY DEF Quiet, Knows, In, Busy

\* A call that gets further.
LEMMA AdvanceIs ==
    ASSUME IInv, NEW a \in Actors, Busy(a), NEW ph \in Phases,
           work' = [work EXCEPT ![a].phase = ph]
    PROVE  /\ work[a].call \in Call /\ work[a].call.match \in Matches
           /\ work'[a].call = work[a].call /\ work'[a].becomes = work[a].becomes
           /\ work'[a].phase = ph
           /\ \A b \in Actors : b # a => work'[b] = work[b]
           /\ \A b \in Actors : (Busy(b)' <=> Busy(b)) /\ work'[b].call = work[b].call
  <1>1. work[a].call \in Call /\ work[a] \in Work /\ work[a].call.match \in Matches
    BY BusyCalls, CallsAreTyped
  <1>2. /\ work'[a] = [work[a] EXCEPT !.phase = ph]
        /\ \A b \in Actors : b # a => work'[b] = work[b]
    BY DEF IInv, TypeOK
  <1>3. work'[a].call = work[a].call /\ work'[a].becomes = work[a].becomes /\ work'[a].phase = ph
    BY <1>1, <1>2 DEF Work
  <1>4. work[a].call # NoCall
    <2>1. work[a].call.op \in Ops
      BY <1>1, CallsAreTyped
    <2>2. QED
      BY <2>1 DEF NoCall, None, Ops
  <1>5. Busy(a)'
    BY <1>3, <1>4 DEF Busy, NoWork
  <1>6. QED
    BY <1>1, <1>2, <1>3, <1>5 DEF Busy

\* Steps after which the same matches hold their items, and the same items
\* are in recovery.
LEMMA HoldingsUntouched ==
    ASSUME Held,
           \A m \in Matches : IsOpen(m)' <=> IsOpen(m),
           \A i \in Items : InRecovery(i)' <=> InRecovery(i),
           \A t \in Threads, m \in Matches : Returned(t, m)' <=> Returned(t, m)
    PROVE  Held'
  <1>1. \A m \in Matches : Holds(m)' <=> Holds(m)
    BY DEF Holds
  <1>2. HoldersHold'
    BY <1>1, KnowsTyped DEF Held, HoldersHold, InRecovery, ItemsOf
  <1>3. HeldHasHolder'
    BY <1>1 DEF Held, HeldHasHolder, InRecovery, ItemsOf
  <1>4. HoldersApart'
    BY <1>1 DEF Held, HoldersApart, ItemsOf
  <1>5. ReturnedOnce'
    BY DEF Held, ReturnedOnce
  <1>6. QED
    BY <1>2, <1>3, <1>4, <1>5 DEF Held

LEMMA QuietHolds ==
    ASSUME Held, UNCHANGED case, \A a \in Actors : Quiet(a),
           \A i \in Items : InRecovery(i)' <=> InRecovery(i)
    PROVE  Held'
  <1>1. \A m \in Matches : IsOpen(m)' <=> IsOpen(m)
    BY QuietKnows, KnowsTyped DEF IsOpen, Active
  <1>2. \A t \in Threads, m \in Matches : Returned(t, m)' <=> Returned(t, m)
    BY QuietKnows, KnowsTyped DEF Returned
  <1>3. QED
    BY <1>1, <1>2, HoldingsUntouched

\* Steps that start no call and record none.
LEMMA SameCallers ==
    ASSUME HeldInv, UNCHANGED case,
           \A a \in Actors : Busy(a)' => Busy(a) /\ work'[a].call = work[a].call
    PROVE  SharedIsActive' /\ OpensAnew'
  <1>1. SharedIsActive'
    <2> SUFFICES ASSUME NEW t \in Threads, NEW m \in Matches, Closing(t, m)'
                 PROVE  Lone(m) \/ case'[m] = "IN_PROGRESS"
      BY DEF SharedIsActive, Lone, Active, ItemsOf
    <2>1. Closing(t, m)
      BY KnowsTyped DEF Closing
    <2>2. QED
      BY <2>1 DEF HeldInv, Pending, SharedIsActive, Active
  <1>2. OpensAnew'
    BY KnowsTyped DEF HeldInv, Pending, OpensAnew, Openable, CallOf
  <1>3. QED
    BY <1>1, <1>2

\* Steps after which item-service is about to commit nothing new.
LEMMA SameCommits ==
    ASSUME HeldInv, UNCHANGED <<item, move>>,
           \A a \in Actors :
               In(a, {"validated"})' => In(a, {"validated"}) /\ work'[a].call = work[a].call
    PROVE  StillAccepted' /\ StillLegal'
  BY DEF HeldInv, Pending, StillAccepted, StillLegal, CallOf, Accepts, ItemsOf

LEMMA InitHolds == Init => HeldInv
  <1> SUFFICES ASSUME Init PROVE HeldInv
    OBVIOUS
  <1>1. \A a \in Actors : ~Busy(a)
    BY DEF Init, Busy
  <1>2. /\ \A m \in Matches : ~IsOpen(m) /\ ~Holds(m)
        /\ \A t \in Threads, m \in Matches : ~Returned(t, m) /\ ~Closing(t, m)
    BY <1>1, KnowsTyped DEF Init, Active, Holds, IsOpen, Knows, In, Returned, Closing, None
  <1>3. \A i \in Items : item[i] # "IN_RECOVERY"
    BY DEF Init
  <1>4. Held
    BY <1>2, <1>3 DEF Held, HoldersHold, HeldHasHolder, HoldersApart, ReturnedOnce
  <1>5. Pending
    BY <1>1, <1>2, KnowsTyped
    DEF Init, Pending, SharedIsActive, OpensAnew, StillAccepted, StillLegal, In
  <1>6. QED
    BY <1>4, <1>5 DEF HeldInv

-----------------------------------------------------------------------------
(* Users neither move an item into recovery nor out of it. *)

LEMMA UserReadsHolds ==
    ASSUME IInv, HeldInv, NEW u \in Users, NEW i \in Items, NEW s \in Statuses, UserReads(u, i, s)
    PROVE  HeldInv'
  <1>1. UNCHANGED <<case, item, work>>
    BY DEF UserReads
  <1>2. Held'
    BY <1>1, QuietHolds DEF HeldInv, Quiet, InRecovery
  <1>3. SharedIsActive' /\ OpensAnew'
    BY <1>1, SameCallers DEF Busy
  <1>4. StillAccepted'
    BY <1>1 DEF HeldInv, Pending, StillAccepted, CallOf, Accepts, ItemsOf, In, Busy
  <1>5. StillLegal'
    <2> SUFFICES ASSUME NEW v \in Users, move'[v] # NoMove
                 PROVE  move'[v].target \in PublicTransitions[item[move'[v].item]]
      BY <1>1 DEF StillLegal
    <2>1. CASE v = u
      BY <2>1 DEF UserReads, IInv, TypeOK
    <2>2. CASE v # u
      BY <2>2 DEF UserReads, IInv, TypeOK, HeldInv, Pending, StillLegal
    <2>3. QED
      BY <2>1, <2>2
  <1>6. QED
    BY <1>2, <1>3, <1>4, <1>5 DEF HeldInv, Pending

LEMMA UserWritesHolds ==
    ASSUME IInv, HeldInv, Undisturbed, NEW u \in Users, UserWrites(u)
    PROVE  HeldInv'
  <1> DEFINE i == move[u].item
             s == move[u].target
  <1>1. /\ i \in Items /\ s \in Statuses /\ move[u] # NoMove
        /\ s \in PublicTransitions[item[i]] /\ item[i] \in Statuses
    BY DEF UserWrites, IInv, TypeOK, Move, HeldInv, Pending, StillLegal
  <1>2. item[i] # "IN_RECOVERY" /\ s # "IN_RECOVERY"
    BY <1>1 DEF PublicTransitions, Statuses
  <1>3. /\ UNCHANGED <<case, work>>
        /\ \A j \in Items : item'[j] = IF j = i THEN s ELSE item[j]
        /\ \A v \in Users : v # u => move'[v] = move[v]
        /\ move'[u] = NoMove
    BY <1>1 DEF UserWrites, IInv, TypeOK
  <1>4. Held'
    <2>1. \A j \in Items : InRecovery(j)' <=> InRecovery(j)
      BY <1>2, <1>3 DEF InRecovery
    <2>2. QED
      BY <1>3, <2>1, QuietHolds DEF HeldInv, Quiet
  <1>5. SharedIsActive' /\ OpensAnew'
    BY <1>3, SameCallers DEF Busy
  <1>6. StillAccepted'
    <2> SUFFICES ASSUME NEW a \in Actors, In(a, {"validated"})
                 PROVE  \A j \in ItemsOf(work[a].call.match) :
                           IF work[a].call.op = "open" THEN item'[j] \in OpenableStatuses
                                                       ELSE item'[j] = "IN_RECOVERY"
      BY <1>3 DEF StillAccepted, CallOf, Accepts, ItemsOf, In, Busy
    <2>1. i \notin ItemsOf(work[a].call.match)
      BY <1>1 DEF Undisturbed, NoOverlap
    <2>2. work[a].call.match \in Matches
      BY BusyCalls, CallsAreTyped DEF In
    <2>3. \A j \in ItemsOf(work[a].call.match) : item'[j] = item[j]
      BY <1>3, <2>1, <2>2, KnowsTyped
    <2>4. Accepts(work[a].call)
      BY DEF HeldInv, Pending, StillAccepted, CallOf
    <2>5. QED
      BY <2>3, <2>4 DEF Accepts
  <1>7. StillLegal'
    <2> SUFFICES ASSUME NEW v \in Users, move'[v] # NoMove
                 PROVE  move'[v].target \in PublicTransitions[item'[move'[v].item]]
      BY DEF StillLegal
    <2>1. v # u /\ move'[v] = move[v] /\ move[v].item \in Items
      BY <1>3 DEF IInv, TypeOK, Move
    <2>2. move[v].item # i
      BY <1>1, <2>1 DEF Undisturbed, NoOverlap
    <2>3. QED
      BY <1>3, <2>1, <2>2 DEF HeldInv, Pending, StillLegal
  <1>8. QED
    BY <1>4, <1>5, <1>6, <1>7 DEF HeldInv, Pending

-----------------------------------------------------------------------------
(* Calls are made and read. *)

\* A call that an actor starts has no answer yet.
LEMMA StartHolds ==
    ASSUME IInv, HeldInv, NEW a \in Actors, ~Busy(a), NEW w, w.phase \notin {"validated", "ok"},
           work' = [work EXCEPT ![a] = w], case' = case, item' = item, move' = move,
           IF a = Consumer THEN Openable(w.call.match)
                           ELSE \A m \in Matches : w.call.match = m => Active(m)
    PROVE  HeldInv' /\ \A b \in Actors : Quiet(b)
  <1>1. work'[a] = w /\ \A b \in Actors : b # a => work'[b] = work[b]
    BY DEF IInv, TypeOK
  <1>2. \A b \in Actors : Quiet(b)
    BY <1>1 DEF Quiet, In, Busy
  <1>3. Held'
    BY <1>2, QuietHolds DEF HeldInv, InRecovery
  <1>4. SharedIsActive'
    <2> SUFFICES ASSUME NEW t \in Threads, NEW m \in Matches, Closing(t, m)'
                 PROVE  Lone(m) \/ case[m] = "IN_PROGRESS"
      BY DEF SharedIsActive, Lone, Active, ItemsOf
    <2>1. CASE t = a
      BY <1>1, <2>1, KnowsTyped DEF Closing, Active
    <2>2. CASE t # a
      BY <1>1, <2>2, KnowsTyped DEF HeldInv, Pending, SharedIsActive, Closing, Busy, Active
    <2>3. QED
      BY <2>1, <2>2
  <1>5. OpensAnew'
    <2>1. CASE a = Consumer
      BY <1>1, <2>1 DEF OpensAnew, Openable, CallOf
    <2>2. CASE a # Consumer
      BY <1>1, <2>2, KnowsTyped DEF HeldInv, Pending, OpensAnew, Openable, CallOf, Busy
    <2>3. QED
      BY <2>1, <2>2
  <1>6. StillAccepted' /\ StillLegal'
    <2>1. \A b \in Actors :
             In(b, {"validated"})' => In(b, {"validated"}) /\ work'[b].call = work[b].call
      BY <1>1 DEF In, Busy
    <2>2. QED
      BY <2>1, SameCommits
  <1>7. QED
    BY <1>2, <1>3, <1>4, <1>5, <1>6 DEF HeldInv, Pending

LEMMA ConsumeToOpenHolds ==
    ASSUME IInv, HeldInv, NEW e \in Events, ConsumeToOpen(e)
    PROVE  HeldInv' /\ \A b \in Actors : Quiet(b)
  <1> DEFINE w == [call    |-> [op |-> "open", match |-> MatchOf[e], target |-> "IN_RECOVERY"],
                   event   |-> e,
                   becomes |-> "IN_PROGRESS",
                   phase   |-> "unsent"]
  <1>1. /\ work' = [work EXCEPT ![Consumer] = w] /\ case' = case /\ item' = item /\ move' = move
        /\ ~Busy(Consumer) /\ Openable(MatchOf[e])
    BY DEF ConsumeToOpen
  <1>2. /\ w.phase \notin {"validated", "ok"}
        /\ IF Consumer = Consumer THEN Openable(w.call.match)
                                  ELSE \A m \in Matches : w.call.match = m => Active(m)
    BY <1>1
  <1>3. Consumer \in Actors
    BY KnowsTyped
  <1> HIDE DEF w
  <1>4. HeldInv'
    BY <1>1, <1>2, <1>3, StartHolds
  <1>5. QED
    BY <1>1, <1>2, <1>3, <1>4, StartHolds

LEMMA RequestCloseHolds ==
    ASSUME IInv, HeldInv, NEW t \in Threads, NEW m \in Matches, NEW op \in Ops \ {"open"},
           NEW s \in Statuses, NEW r \in CaseStatuses, RequestClose(t, m, op, s, r)
    PROVE  HeldInv' /\ \A b \in Actors : Quiet(b)
  <1> DEFINE w == [call    |-> [op |-> op, match |-> m, target |-> s],
                   event   |-> <<>>,
                   becomes |-> r,
                   phase   |-> "awaited"]
  <1>1. /\ work' = [work EXCEPT ![t] = w] /\ case' = case /\ item' = item /\ move' = move
        /\ ~Busy(t) /\ Active(m)
    BY DEF RequestClose, Active
  <1>2. w.phase \notin {"validated", "ok"} /\ w.call.match = m
    OBVIOUS
  <1>3. t \in Actors /\ t # Consumer
    BY KnowsTyped
  <1>4. IF t = Consumer THEN Openable(w.call.match)
                        ELSE \A n \in Matches : w.call.match = n => Active(n)
    BY <1>1, <1>2, <1>3
  <1> HIDE DEF w
  <1>5. QED
    BY <1>1, <1>2, <1>3, <1>4, StartHolds

LEMMA FlushOpeningHolds ==
    ASSUME IInv, HeldInv, FlushOpening
    PROVE  HeldInv' /\ \A b \in Actors : Quiet(b)
  <1>1. /\ Consumer \in Actors /\ Busy(Consumer) /\ "awaited" \in Phases
        /\ work[Consumer].phase = "unsent"
        /\ work' = [work EXCEPT ![Consumer].phase = "awaited"]
        /\ UNCHANGED <<case, item, move>>
    BY KnowsTyped DEF FlushOpening, In, Phases
  <1>2. /\ work'[Consumer].phase = "awaited"
        /\ \A b \in Actors : b # Consumer => work'[b] = work[b]
        /\ \A b \in Actors : (Busy(b)' <=> Busy(b)) /\ work'[b].call = work[b].call
    BY <1>1, AdvanceIs
  <1>3. \A b \in Actors : Quiet(b)
    BY <1>1, <1>2 DEF Quiet, In
  <1>4. Held'
    BY <1>1, <1>3, QuietHolds DEF HeldInv, InRecovery
  <1>5. SharedIsActive' /\ OpensAnew'
    BY <1>1, <1>2, SameCallers
  <1>6. StillAccepted' /\ StillLegal'
    <2>1. \A b \in Actors :
             In(b, {"validated"})' => In(b, {"validated"}) /\ work'[b].call = work[b].call
      BY <1>1, <1>2 DEF In
    <2>2. QED
      BY <1>1, <2>1, SameCommits
  <1>7. QED
    BY <1>3, <1>4, <1>5, <1>6 DEF HeldInv, Pending

LEMMA ValidateHolds ==
    ASSUME IInv, HeldInv, NEW a \in Actors, Validate(a)
    PROVE  HeldInv' /\ \A b \in Actors : Quiet(b)
  <1>1. PICK ph \in {"validated", "failed"} : /\ work' = [work EXCEPT ![a].phase = ph]
                                              /\ ph = "validated" => Accepts(work[a].call)
    BY DEF Validate
  <1>2. Busy(a) /\ work[a].phase = "awaited" /\ UNCHANGED <<case, item, move>> /\ ph \in Phases
    BY DEF Validate, In, Phases
  <1>3. /\ work'[a].phase = ph
        /\ \A b \in Actors : b # a => work'[b] = work[b]
        /\ \A b \in Actors : (Busy(b)' <=> Busy(b)) /\ work'[b].call = work[b].call
    BY <1>1, <1>2, AdvanceIs
  <1>4. \A b \in Actors : Quiet(b)
    BY <1>2, <1>3 DEF Quiet, In
  <1>5. Held'
    BY <1>2, <1>4, QuietHolds DEF HeldInv, InRecovery
  <1>6. SharedIsActive' /\ OpensAnew'
    BY <1>2, <1>3, SameCallers
  <1>7. StillLegal'
    BY <1>2 DEF HeldInv, Pending, StillLegal
  <1>8. StillAccepted'
    <2> SUFFICES ASSUME NEW b \in Actors, In(b, {"validated"})'
                 PROVE  Accepts(work[b].call)
      BY <1>2, <1>3 DEF StillAccepted, CallOf, Accepts, ItemsOf
    <2>1. CASE b = a
      BY <1>1, <1>3, <2>1 DEF In
    <2>2. CASE b # a
      BY <1>3, <2>2 DEF HeldInv, Pending, StillAccepted, CallOf, In
    <2>3. QED
      BY <2>1, <2>2
  <1>9. QED
    BY <1>4, <1>5, <1>6, <1>7, <1>8 DEF HeldInv, Pending

-----------------------------------------------------------------------------
(* item-service commits a call.  Whatever else it is about to commit is of   *)
(* other items.                                                              *)

\* What is committed, of both items of a match.
LEMMA WriteIs ==
    ASSUME IInv, HeldInv, Undisturbed, NEW a \in Actors, Write(a)
    PROVE  LET c == work[a].call IN
           /\ c \in Call /\ c.match \in Matches /\ Accepts(c) /\ c.target \in Targets(c.op)
           /\ In(a, {"validated"}) /\ case' = case /\ move' = move
           /\ work'[a].call = c /\ work'[a].becomes = work[a].becomes
           /\ In(a, {"ok"})'
           /\ \A b \in Actors : b # a => work'[b] = work[b]
           /\ \A b \in Actors : (Busy(b)' <=> Busy(b)) /\ work'[b].call = work[b].call
           /\ \A i \in Items : item'[i] = IF i \in ItemsOf(c.match) THEN c.target ELSE item[i]
           /\ Pending'
  <1> DEFINE c == work[a].call
  <1>1. /\ In(a, {"validated"}) /\ UNCHANGED <<case, move>> /\ "ok" \in Phases
        /\ work' = [work EXCEPT ![a].phase = "ok"]
        /\ item' = Moved(c)
    BY DEF Write, Phases
  <1>2. /\ c \in Call /\ c.match \in Matches
        /\ work'[a].call = c /\ work'[a].becomes = work[a].becomes /\ work'[a].phase = "ok"
        /\ \A b \in Actors : b # a => work'[b] = work[b]
        /\ \A b \in Actors : (Busy(b)' <=> Busy(b)) /\ work'[b].call = work[b].call
    BY <1>1, AdvanceIs DEF In
  <1>3. Accepts(c)
    BY <1>1 DEF HeldInv, Pending, StillAccepted, CallOf
  <1>4. In(a, {"ok"})'
    BY <1>1, <1>2 DEF In
  <1>5. \A i \in Items : item'[i] = IF i \in ItemsOf(c.match) THEN c.target ELSE item[i]
    BY <1>1 DEF Moved
  <1>6. SharedIsActive' /\ OpensAnew'
    BY <1>1, <1>2, SameCallers
  <1>7. StillAccepted'
    <2> SUFFICES ASSUME NEW b \in Actors, In(b, {"validated"})'
                 PROVE  \A j \in ItemsOf(work[b].call.match) :
                           IF work[b].call.op = "open" THEN item'[j] \in OpenableStatuses
                                                       ELSE item'[j] = "IN_RECOVERY"
      BY <1>2 DEF StillAccepted, CallOf, Accepts, ItemsOf
    <2>1. b # a /\ In(b, {"validated"})
      BY <1>2 DEF In
    <2>2. ItemsOf(c.match) \cap ItemsOf(work[b].call.match) = {}
      BY <1>1, <2>1 DEF Undisturbed, NoOverlap
    <2>3. work[b].call.match \in Matches
      BY <2>1, BusyCalls, CallsAreTyped DEF In
    <2>4. \A j \in ItemsOf(work[b].call.match) : item'[j] = item[j]
      BY <1>5, <2>2, <2>3, KnowsTyped
    <2>5. Accepts(work[b].call)
      BY <2>1 DEF HeldInv, Pending, StillAccepted, CallOf
    <2>6. QED
      BY <2>4, <2>5 DEF Accepts
  <1>8. StillLegal'
    <2> SUFFICES ASSUME NEW u \in Users, move[u] # NoMove
                 PROVE  move[u].target \in PublicTransitions[item'[move[u].item]]
      BY <1>1 DEF StillLegal
    <2>1. move[u].item \in Items
      BY DEF IInv, TypeOK, Move
    <2>2. move[u].item \notin ItemsOf(c.match)
      BY <1>1 DEF Undisturbed, NoOverlap
    <2>3. QED
      BY <1>5, <2>1, <2>2 DEF HeldInv, Pending, StillLegal
  <1>9. c.target \in Targets(c.op)
    BY <1>2, CallsAreTyped
  <1>10. QED
    BY <1>1, <1>2, <1>3, <1>4, <1>5, <1>6, <1>7, <1>8, <1>9 DEF Pending

\* A match whose case is opened had none, and held nothing.
LEMMA OpensItsOwn ==
    ASSUME IInv, HeldInv, Undisturbed, Write(Consumer)
    PROVE  LET m == work[Consumer].call.match IN
           /\ work[Consumer].call.op = "open" /\ work[Consumer].call.target = "IN_RECOVERY"
           /\ work[Consumer].becomes = "IN_PROGRESS"
           /\ Openable(m)
           /\ \A i \in ItemsOf(m) : item[i] \in OpenableStatuses
           /\ ~IsOpen(m) /\ ~Holds(m)
           /\ \A t \in Threads : ~Returned(t, m)
  <1>c. PICK c \in Call : c = work[Consumer].call
    BY KnowsTyped, WriteIs
  <1>m. PICK m \in Matches : m = c.match
    BY <1>c, KnowsTyped, WriteIs
  <1>1. In(Consumer, {"validated"}) /\ Accepts(c) /\ c.target \in Targets(c.op)
    BY <1>c, KnowsTyped, WriteIs
  <1>2. c.op = "open" /\ work[Consumer].becomes = "IN_PROGRESS" /\ Openable(m)
    BY <1>1, <1>c, <1>m
    DEF IInv, CaseInv, ConsumerOpens, OpensForAnEvent, CallOf, In, HeldInv, Pending, OpensAnew
  <1>3. c.target = "IN_RECOVERY"
    BY <1>1, <1>2 DEF Targets
  <1>4. ~IsOpen(m)
    BY <1>1, <1>2 DEF IsOpen, Active, Openable, None, Knows, In
  <1>5. ~Holds(m) /\ \A t \in Threads : ~Returned(t, m)
    BY <1>4 DEF Holds, HeldInv, Held, ReturnedOnce
  <1>6. \A i \in ItemsOf(m) : item[i] \in OpenableStatuses
    BY <1>1, <1>2, <1>m DEF Accepts
  <1>7. QED
    BY <1>c, <1>m, <1>2, <1>3, <1>4, <1>5, <1>6

\* The items of a case about to open were held by no match.
LEMMA OpeningHolds ==
    ASSUME IInv, HeldInv, Undisturbed, Write(Consumer)
    PROVE  HeldInv'
  <1>c. PICK c \in Call : c = work[Consumer].call
    BY KnowsTyped, WriteIs
  <1>m. PICK m \in Matches : m = c.match
    BY <1>c, KnowsTyped, WriteIs
  <1>1. /\ c.op = "open" /\ c.target = "IN_RECOVERY"
        /\ \A i \in ItemsOf(m) : item[i] \in OpenableStatuses
        /\ ~IsOpen(m)
        /\ \A t \in Threads : ~Returned(t, m)
    BY <1>c, <1>m, OpensItsOwn
  <1>2. /\ \A i \in ItemsOf(m) : item[i] # "IN_RECOVERY"
        /\ \A i \in Items : item'[i] = IF i \in ItemsOf(m) THEN "IN_RECOVERY" ELSE item[i]
    BY <1>1, <1>c, <1>m, KnowsTyped, WriteIs DEF OpenableStatuses
  <1>3. /\ work'[Consumer].call = c /\ In(Consumer, {"ok"})' /\ In(Consumer, {"validated"})
        /\ \A t \in Threads : work'[t] = work[t]
        /\ case' = case
    BY <1>c, KnowsTyped, WriteIs
  <1>4. /\ \A t \in Threads, n \in Matches : Returned(t, n)' <=> Returned(t, n)
        /\ \A n \in Matches : n # m => (IsOpen(n)' <=> IsOpen(n))
    BY <1>c, <1>m, <1>3 DEF Returned, IsOpen, Active, Knows, In, Busy
  <1>5. IsOpen(m)'
    BY <1>m, <1>1, <1>3 DEF IsOpen, Knows
  <1>6. Holds(m)' /\ \A n \in Matches : n # m => (Holds(n)' <=> Holds(n))
    BY <1>1, <1>4, <1>5 DEF Holds
  <1>7. \A n \in Matches : Holds(n) => ItemsOf(n) \cap ItemsOf(m) = {}
    BY <1>2 DEF HeldInv, Held, HoldersHold
  <1>8. HoldersHold'
    <2> SUFFICES ASSUME NEW n \in Matches, Holds(n)', NEW i \in ItemsOf(n)
                 PROVE  item'[i] = "IN_RECOVERY"
      BY DEF HoldersHold, ItemsOf
    <2>1. i \in Items
      BY KnowsTyped
    <2>2. QED
      BY <1>2, <1>6, <2>1 DEF HeldInv, Held, HoldersHold
  <1>9. HeldHasHolder'
    <2> SUFFICES ASSUME NEW i \in Items, item'[i] = "IN_RECOVERY"
                 PROVE  \E n \in Matches : i \in ItemsOf(n) /\ Holds(n)'
      BY DEF HeldHasHolder, ItemsOf
    <2>1. CASE i \in ItemsOf(m)
      BY <1>6, <2>1
    <2>2. CASE i \notin ItemsOf(m)
      <3>1. PICK n \in Matches : i \in ItemsOf(n) /\ Holds(n)
        BY <1>2, <2>2 DEF HeldInv, Held, HeldHasHolder
      <3>2. QED
        BY <1>6, <2>2, <3>1
    <2>3. QED
      BY <2>1, <2>2
  <1>10. HoldersApart'
    <2> SUFFICES ASSUME NEW n \in Matches, NEW k \in Matches, Holds(n)', Holds(k)', n # k
                 PROVE  ItemsOf(n) \cap ItemsOf(k) = {}
      BY DEF HoldersApart, ItemsOf
    <2>1. QED
      BY <1>6, <1>7 DEF HeldInv, Held, HoldersApart
  <1>11. ReturnedOnce'
    BY <1>1, <1>4 DEF HeldInv, Held, ReturnedOnce
  <1>12. Pending'
    BY KnowsTyped, WriteIs
  <1>13. QED
    BY <1>8, <1>9, <1>10, <1>11, <1>12 DEF HeldInv, Held

\* A closing that item-service accepts is that of an active case, which nobody
\* else has closed: its items are in recovery, and they are its own.
LEMMA ClosesItsOwn ==
    ASSUME IInv, HeldInv, Undisturbed, NEW t \in Threads, Write(t)
    PROVE  LET c == work[t].call IN
           /\ c.op \in {"cancel", "complete"}
           /\ work[t].becomes \in Results(c.op)
           /\ \A i \in ItemsOf(c.match) : item[i] = "IN_RECOVERY"
           /\ Holds(c.match)
  <1>c. PICK c \in Call : c = work[t].call
    BY KnowsTyped, WriteIs
  <1>m. PICK m \in Matches : m = c.match
    BY <1>c, KnowsTyped, WriteIs
  <1>1. In(t, {"validated"}) /\ Accepts(c)
    BY <1>c, KnowsTyped, WriteIs
  <1>2. c.op \in {"cancel", "complete"} /\ work[t].becomes \in Results(c.op)
    BY <1>1, <1>c DEF IInv, CaseInv, ThreadsClose, CallOf, In
  <1>3. \A i \in ItemsOf(m) : item[i] = "IN_RECOVERY"
    BY <1>1, <1>2, <1>m DEF Accepts
  <1>4. Holds(m)
    <2>1. CASE Lone(m)
      <3>1. PICK i \in ItemsOf(m) : \A n \in Matches : i \in ItemsOf(n) => n = m
        BY <2>1 DEF Lone
      <3>2. QED
        BY <1>3, <3>1, KnowsTyped DEF HeldInv, Held, HeldHasHolder
    <2>2. CASE ~Lone(m)
      <3>1. Closing(t, m) /\ Active(m)
        BY <1>c, <1>m, <1>1, <2>2 DEF HeldInv, Pending, SharedIsActive, Closing, In
      <3>2. \A u \in Threads : Returned(u, m) => u = t
        BY <2>2, <3>1 DEF Undisturbed, Returned, Knows, Closing, In
      <3>3. ~Returned(t, m)
        BY <1>1 DEF Returned, Knows, In
      <3>4. QED
        BY <3>1, <3>2, <3>3 DEF Holds, IsOpen
    <2>3. QED
      BY <2>1, <2>2
  <1>5. QED
    BY <1>c, <1>m, <1>2, <1>3, <1>4

\* What the others hold is not what a closing gives back.
LEMMA ClosingHolds ==
    ASSUME IInv, HeldInv, Undisturbed, NEW t \in Threads, Write(t)
    PROVE  HeldInv'
  <1>c. PICK c \in Call : c = work[t].call
    BY KnowsTyped, WriteIs
  <1>m. PICK m \in Matches : m = c.match
    BY <1>c, KnowsTyped, WriteIs
  <1>1. c.op \in {"cancel", "complete"} /\ Holds(m)
    BY <1>c, <1>m, ClosesItsOwn
  <1>2. /\ c.target # "IN_RECOVERY"
        /\ \A i \in Items : item'[i] = IF i \in ItemsOf(m) THEN c.target ELSE item[i]
    <2>1. c.target \in Targets(c.op)
      BY CallsAreTyped
    <2>2. c.target # "IN_RECOVERY"
      BY <1>1, <2>1 DEF Targets, OpenableStatuses
    <2>3. QED
      BY <1>c, <1>m, <2>2, KnowsTyped, WriteIs
  <1>3. /\ work'[t].call = c /\ In(t, {"ok"})' /\ In(t, {"validated"})
        /\ \A b \in Actors : b # t => work'[b] = work[b]
        /\ case' = case
    BY <1>c, KnowsTyped, WriteIs
  <1>4. IsOpen(m) /\ \A u \in Threads : ~Returned(u, m)
    BY <1>1 DEF Holds
  <1>5. \A n \in Matches : IsOpen(n)' <=> IsOpen(n)
    BY <1>3, KnowsTyped DEF IsOpen, Active, Knows, In, Busy
  <1>6. Returned(t, m)'
    BY <1>m, <1>1, <1>3 DEF Returned, Knows
  <1>7. \A u \in Threads, n \in Matches : u # t \/ n # m => (Returned(u, n)' <=> Returned(u, n))
    <2> SUFFICES ASSUME NEW u \in Threads, NEW n \in Matches, u # t \/ n # m
                 PROVE  Returned(u, n)' <=> Returned(u, n)
      OBVIOUS
    <2>1. CASE u = t
      BY <1>m, <1>3, <2>1 DEF Returned, Knows, In
    <2>2. CASE u # t
      BY <1>3, <2>2, KnowsTyped DEF Returned, Knows, In, Busy
    <2>3. QED
      BY <2>1, <2>2
  <1>8. ~Holds(m)' /\ \A n \in Matches : n # m => (Holds(n)' <=> Holds(n))
    BY <1>5, <1>6, <1>7 DEF Holds
  <1>9. HoldersHold'
    <2> SUFFICES ASSUME NEW n \in Matches, Holds(n)', NEW i \in ItemsOf(n)
                 PROVE  item'[i] = "IN_RECOVERY"
      BY DEF HoldersHold, ItemsOf
    <2>1. i \in Items /\ n # m /\ Holds(n)
      BY <1>8, KnowsTyped
    <2>2. i \notin ItemsOf(m)
      BY <1>1, <2>1 DEF HeldInv, Held, HoldersApart
    <2>3. QED
      BY <1>2, <2>1, <2>2 DEF HeldInv, Held, HoldersHold
  <1>10. HeldHasHolder'
    <2> SUFFICES ASSUME NEW i \in Items, item'[i] = "IN_RECOVERY"
                 PROVE  \E n \in Matches : i \in ItemsOf(n) /\ Holds(n)'
      BY DEF HeldHasHolder, ItemsOf
    <2>1. i \notin ItemsOf(m) /\ item[i] = "IN_RECOVERY"
      BY <1>2
    <2>2. PICK n \in Matches : i \in ItemsOf(n) /\ Holds(n)
      BY <2>1 DEF HeldInv, Held, HeldHasHolder
    <2>3. QED
      BY <1>8, <2>1, <2>2
  <1>11. HoldersApart'
    <2> SUFFICES ASSUME NEW n \in Matches, NEW k \in Matches, Holds(n)', Holds(k)', n # k
                 PROVE  ItemsOf(n) \cap ItemsOf(k) = {}
      BY DEF HoldersApart, ItemsOf
    <2>1. QED
      BY <1>8 DEF HeldInv, Held, HoldersApart
  <1>12. ReturnedOnce'
    <2> SUFFICES ASSUME NEW u \in Threads, NEW n \in Matches, Returned(u, n)'
                 PROVE  IsOpen(n)' /\ \A v \in Threads : Returned(v, n)' => u = v
      BY DEF ReturnedOnce
    <2>1. CASE n = m
      BY <1>4, <1>5, <1>7, <2>1
    <2>2. CASE n # m
      BY <1>5, <1>7, <2>2 DEF HeldInv, Held, ReturnedOnce
    <2>3. QED
      BY <2>1, <2>2
  <1>13. Pending'
    BY KnowsTyped, WriteIs
  <1>14. QED
    BY <1>9, <1>10, <1>11, <1>12, <1>13 DEF HeldInv, Held

-----------------------------------------------------------------------------
(* The actors record what came of their calls. *)

LEMMA SettlePending ==
    ASSUME IInv, HeldInv, NEW a \in Actors, Settle(a)
    PROVE  StillAccepted' /\ StillLegal'
  <1>1. \A b \in Actors :
           In(b, {"validated"})' => In(b, {"validated"}) /\ work'[b].call = work[b].call
    BY SettleIs DEF In, Busy
  <1>2. UNCHANGED <<item, move>>
    BY DEF Settle
  <1>3. QED
    BY <1>1, <1>2, SameCommits

\* The match whose case is recorded as open held its items already; one whose
\* opening failed holds none.
LEMMA ConsumerSettleHolds ==
    ASSUME IInv, HeldInv, Settle(Consumer)
    PROVE  HeldInv'
  <1>c. PICK c \in Call, r \in {"ok", "failed"} : c = work[Consumer].call /\ r = work[Consumer].phase
    BY KnowsTyped, SettleIs
  <1>m. PICK m \in Matches : m = c.match
    BY <1>c, KnowsTyped, SettleIs
  <1>1. Busy(Consumer)
    BY KnowsTyped, SettleIs
  <1>2. c.op = "open" /\ work[Consumer].becomes = "IN_PROGRESS" /\ Openable(m)
    BY <1>1, <1>c, <1>m
    DEF IInv, CaseInv, ConsumerOpens, OpensForAnEvent, CallOf, HeldInv, Pending, OpensAnew
  <1>3. /\ \A n \in Matches : n # m => case'[n] = case[n]
        /\ case'[m] = IF r = "ok" THEN "IN_PROGRESS" ELSE "RETRYABLE"
        /\ ~Busy(Consumer)'
        /\ \A t \in Threads : work'[t] = work[t]
        /\ item' = item
    BY <1>c, <1>m, <1>2, KnowsTyped, SettleIs
  <1>4. \A n \in Matches : n # m => (IsOpen(n)' <=> IsOpen(n))
    BY <1>c, <1>m, <1>3 DEF IsOpen, Active, Knows, In
  <1>5. IsOpen(m)' <=> IsOpen(m)
    <2>1. CASE r = "ok"
      <3>1. IsOpen(m)
        BY <1>c, <1>m, <1>1, <1>2, <2>1 DEF IsOpen, Knows, In
      <3>2. IsOpen(m)'
        BY <1>3, <2>1 DEF IsOpen, Active
      <3>3. QED
        BY <3>1, <3>2
    <2>2. CASE r = "failed"
      <3>1. ~IsOpen(m)
        BY <1>c, <1>2, <2>2 DEF IsOpen, Active, Openable, None, Knows, In
      <3>2. ~IsOpen(m)'
        BY <1>3, <2>2 DEF IsOpen, Active, Knows, In
      <3>3. QED
        BY <3>1, <3>2
    <2>3. QED
      BY <2>1, <2>2
  <1>6. \A t \in Threads, n \in Matches : /\ Returned(t, n)' <=> Returned(t, n)
                                          /\ Closing(t, n)' <=> Closing(t, n)
    BY <1>3 DEF Returned, Closing, Knows, In, Busy
  <1>7. Held'
    BY <1>3, <1>4, <1>5, <1>6, HoldingsUntouched DEF HeldInv, InRecovery
  <1>8. SharedIsActive'
    <2>1. \A n \in Matches : Active(n) => Active(n)'
      BY <1>2, <1>3 DEF Active, Openable, None
    <2>2. QED
      BY <1>6, <2>1 DEF HeldInv, Pending, SharedIsActive, Lone, ItemsOf
  <1>9. OpensAnew'
    BY <1>3 DEF OpensAnew
  <1>10. QED
    BY <1>7, <1>8, <1>9, KnowsTyped, SettlePending DEF HeldInv, Pending

\* A thread that was told its case is closed finds it active, whatever happened
\* since it read it.
LEMMA RecordsAnActiveCase ==
    ASSUME IInv, HeldInv, NEW t \in Threads, Settle(t), work[t].phase = "ok"
    PROVE  LET m == work[t].call.match IN
           /\ Returned(t, m) /\ Active(m) /\ ~Knows(Consumer, m, {"open"})
           /\ \A u \in Threads : Returned(u, m) => u = t
  <1>c. PICK c \in Call : c = work[t].call
    BY KnowsTyped, SettleIs
  <1>m. PICK m \in Matches : m = c.match
    BY <1>c, KnowsTyped, SettleIs
  <1>1. Busy(t) /\ t # Consumer
    BY KnowsTyped, SettleIs
  <1>2. Returned(t, m)
    BY <1>c, <1>m, <1>1 DEF Returned, Knows, In, IInv, CaseInv, ThreadsClose, CallOf
  <1>3. ~Knows(Consumer, m, {"open"})
    BY <1>c, <1>m, <1>1 DEF Settle, RowLocked, Knows, In, Phases
  <1>4. Active(m) /\ \A u \in Threads : Returned(u, m) => u = t
    BY <1>2, <1>3 DEF HeldInv, Held, ReturnedOnce, IsOpen
  <1>5. QED
    BY <1>c, <1>m, <1>2, <1>3, <1>4

\* The items of the case that is recorded as closed were free since the answer
\* came.
LEMMA ThreadSettleHolds ==
    ASSUME IInv, HeldInv, Undisturbed, NEW t \in Threads, Settle(t)
    PROVE  HeldInv'
  <1>c. PICK c \in Call, r \in {"ok", "failed"} : c = work[t].call /\ r = work[t].phase
    BY KnowsTyped, SettleIs
  <1>m. PICK m \in Matches : m = c.match
    BY <1>c, KnowsTyped, SettleIs
  <1>1. /\ Busy(t) /\ ~Busy(t)'
        /\ \A b \in Actors : b # t => work'[b] = work[b]
        /\ item' = item
        /\ \A n \in Matches : n # m => case'[n] = case[n]
    BY <1>c, <1>m, KnowsTyped, SettleIs
  <1>2. c.op \in {"cancel", "complete"} /\ work[t].becomes \in {"CANCELLED", "RETRYABLE", "COMPLETED"}
    BY <1>1, <1>c, ClosingCloses DEF IInv, CaseInv, ThreadsClose, CallOf
  <1>3. \A u \in Threads, n \in Matches :
           u # t => /\ Returned(u, n)' <=> Returned(u, n)
                    /\ Closing(u, n)' <=> Closing(u, n)
    BY <1>1, KnowsTyped DEF Returned, Closing, Knows, In, Busy
  <1>4. \A n \in Matches : /\ ~Returned(t, n)' /\ ~Closing(t, n)'
                           /\ n # m => ~Returned(t, n)
    BY <1>1, <1>c, <1>m DEF Returned, Closing, Knows, In
  <1>5. \A n \in Matches : Knows(Consumer, n, {"open"})' <=> Knows(Consumer, n, {"open"})
    BY <1>1, KnowsTyped DEF Knows, In, Busy
  <1>6. \A n \in Matches : n # m => /\ IsOpen(n)' <=> IsOpen(n)
                                    /\ Active(n)' <=> Active(n)
    BY <1>1, <1>5 DEF IsOpen, Active
  <1>7. Closing(t, m)
    BY <1>1, <1>c, <1>m DEF Closing
  <1>8. CASE r = "ok"
    <2>1. /\ Returned(t, m) /\ Active(m) /\ ~Knows(Consumer, m, {"open"})
          /\ \A u \in Threads : Returned(u, m) => u = t
      BY <1>c, <1>m, <1>8, RecordsAnActiveCase
    <2>2. case'[m] \in {"CANCELLED", "RETRYABLE", "COMPLETED"}
      BY <1>c, <1>m, <1>2, <1>8, KnowsTyped, SettleIs
    <2>3. ~IsOpen(m)' /\ ~Active(m)'
      BY <1>5, <2>1, <2>2 DEF IsOpen, Active
    <2>4. \A n \in Matches : Holds(n)' <=> Holds(n)
      BY <1>3, <1>4, <1>6, <2>1, <2>3 DEF Holds
    <2>5. HoldersHold' /\ HeldHasHolder' /\ HoldersApart'
      BY <1>1, <2>4 DEF HeldInv, Held, HoldersHold, HeldHasHolder, HoldersApart, ItemsOf
    <2>6. ReturnedOnce'
      BY <1>3, <1>4, <1>6, <2>1 DEF HeldInv, Held, ReturnedOnce
    <2>7. SharedIsActive'
      <3>1. \A u \in Threads : u # t /\ Closing(u, m) => Lone(m)
        BY <1>7 DEF Undisturbed
      <3>2. QED
        BY <1>3, <1>4, <1>6, <3>1 DEF HeldInv, Pending, SharedIsActive, Lone, ItemsOf
    <2>8. OpensAnew'
      <3> SUFFICES ASSUME Busy(Consumer)'
                   PROVE  case'[work'[Consumer].call.match] \in {None, "RETRYABLE"}
        BY DEF OpensAnew, Openable, CallOf
      <3>1. work'[Consumer] = work[Consumer] /\ Busy(Consumer)
        BY <1>1, KnowsTyped DEF Busy
      <3>2. work[Consumer].call.match \in Matches /\ Openable(work[Consumer].call.match)
        BY <3>1 DEF IInv, CaseInv, ConsumerOpens, OpensForAnEvent, CallOf, HeldInv, Pending, OpensAnew
      <3>3. work[Consumer].call.match # m
        BY <2>1, <3>2 DEF Active, Openable, None
      <3>4. QED
        BY <1>1, <3>1, <3>2, <3>3 DEF Openable
    <2>9. QED
      BY <2>5, <2>6, <2>7, <2>8, KnowsTyped, SettlePending DEF HeldInv, Held, Pending
  <1>9. CASE r = "failed"
    <2>1. case' = case
      BY <1>c, <1>2, <1>9, KnowsTyped, SettleIs
    <2>2. \A b \in Actors : Quiet(b)
      BY <1>1, <1>c, <1>9 DEF Quiet, In
    <2>3. Held'
      BY <1>1, <2>1, <2>2, QuietHolds DEF HeldInv, InRecovery
    <2>4. SharedIsActive' /\ OpensAnew'
      BY <1>1, <2>1, SameCallers DEF Busy
    <2>5. QED
      BY <2>3, <2>4, KnowsTyped, SettlePending DEF HeldInv, Pending
  <1>10. QED
    BY <1>8, <1>9

-----------------------------------------------------------------------------
(* Every step that Undisturbed allows. *)

\* No answer is lost, no caller gives up, and no call goes on without one.
LEMMA NoFaults ==
    ASSUME IInv, Undisturbed, Undisturbed'
    PROVE  /\ \A a \in Actors : ~LoseAnswer(a) /\ ~TimeOut(a) /\ ~Crash(a)
           /\ \A c \in Call : ~ValidateLate(c) /\ ~WriteLate(c)
  <1>1. faults = 0 /\ faults' = 0
    BY DEF Undisturbed
  <1>2. \A a \in Actors : ~LoseAnswer(a) /\ ~TimeOut(a) /\ ~Crash(a)
    BY <1>1 DEF LoseAnswer, TimeOut, Crash
  <1>3. \A c \in Call : late[c] = 0 /\ underway[c] = 0
    BY <1>1 DEF IInv, TypeOK
  <1>4. QED
    BY <1>2, <1>3 DEF ValidateLate, WriteLate

LEMMA SameHolds ==
    ASSUME HeldInv, UNCHANGED <<case, item, work, move>>
    PROVE  HeldInv'
  <1>1. Held'
    BY QuietHolds DEF HeldInv, Quiet, InRecovery
  <1>2. SharedIsActive' /\ OpensAnew'
    BY SameCallers DEF Busy
  <1>3. StillAccepted' /\ StillLegal'
    BY SameCommits DEF In, Busy
  <1>4. QED
    BY <1>1, <1>2, <1>3 DEF HeldInv, Pending

LEMMA NextHolds == IInv /\ HeldInv /\ Undisturbed /\ Undisturbed' /\ [Next]_vars => HeldInv'
  <1> SUFFICES ASSUME IInv, HeldInv, Undisturbed, Undisturbed', [Next]_vars PROVE HeldInv'
    OBVIOUS
  <1>1. ASSUME NEW u \in Users, UserWrites(u) \/ \E i \in Items, s \in Statuses : UserReads(u, i, s)
        PROVE  HeldInv'
    BY <1>1, UserReadsHolds, UserWritesHolds
  <1>2. ASSUME NEW e \in Events, ConsumeToOpen(e) PROVE HeldInv'
    BY <1>2, ConsumeToOpenHolds
  <1>3. ASSUME NEW t \in Threads, NEW m \in Matches, NEW op \in Ops \ {"open"},
               NEW s \in Statuses, NEW r \in CaseStatuses, RequestClose(t, m, op, s, r)
        PROVE  HeldInv'
    BY <1>3, RequestCloseHolds
  <1>4. CASE FlushOpening
    BY <1>4, FlushOpeningHolds
  <1>5. ASSUME NEW a \in Actors, Validate(a) PROVE HeldInv'
    BY <1>5, ValidateHolds
  <1>6. ASSUME NEW a \in Actors, Write(a) PROVE HeldInv'
    BY <1>6, OpeningHolds, ClosingHolds DEF Actors
  <1>7. ASSUME NEW a \in Actors, Settle(a) PROVE HeldInv'
    BY <1>7, ConsumerSettleHolds, ThreadSettleHolds DEF Actors
  <1>8. CASE \/ \E e \in Events : ConsumeKnown(e)
             \/ Idle
             \/ UNCHANGED vars
    BY <1>8, SameHolds DEF ConsumeKnown, Idle, vars
  <1>9. QED
    BY <1>1, <1>2, <1>3, <1>4, <1>5, <1>6, <1>7, <1>8, NoFaults DEF Next

LEMMA HeldSays == HeldInv => ActiveCaseHoldsItems /\ RecoveryHasCase
  <1> SUFFICES ASSUME HeldInv PROVE ActiveCaseHoldsItems /\ RecoveryHasCase
    OBVIOUS
  <1>1. ActiveCaseHoldsItems
    BY KnowsTyped DEF HeldInv, Held, HoldersHold, Holds, IsOpen, Returned, ActiveCaseHoldsItems
  <1>2. RecoveryHasCase
    BY KnowsTyped DEF HeldInv, Held, HeldHasHolder, Holds, IsOpen, RecoveryHasCase
  <1>3. QED
    BY <1>1, <1>2

\* A thread closes an active case, and the consumer opens none that was closed.
LEMMA ClosedStays ==
    ASSUME IInv, HeldInv, [Next]_vars, NEW m \in Matches, Closed(m)
    PROVE  case'[m] = case[m]
  <1>1. ASSUME NEW a \in Actors, Settle(a) PROVE case'[m] = case[m]
    <2>1. PICK c \in Call : c = work[a].call
      BY <1>1, SettleIs
    <2>2. /\ Busy(a) /\ work[a].phase \in {"ok", "failed"}
          /\ \A n \in Matches : n # c.match => case'[n] = case[n]
      BY <1>1, <2>1, SettleIs
    <2>3. CASE a = Consumer
      <3>1. Openable(c.match)
        BY <2>1, <2>2, <2>3 DEF HeldInv, Pending, OpensAnew, CallOf
      <3>2. QED
        BY <2>2, <3>1 DEF Openable, Closed, None
    <2>4. CASE a \in Threads
      <3>1. c.op \in {"cancel", "complete"}
        BY <2>1, <2>2, <2>4 DEF IInv, CaseInv, ThreadsClose, CallOf
      <3>2. CASE work[a].phase = "ok"
        <4>1. Active(c.match)
          BY <1>1, <2>1, <2>4, <3>2, RecordsAnActiveCase
        <4>2. QED
          BY <2>2, <4>1 DEF Active, Closed
      <3>3. CASE work[a].phase = "failed"
        BY <1>1, <2>1, <3>1, <3>3, SettleIs
      <3>4. QED
        BY <2>2, <3>2, <3>3
    <2>5. QED
      BY <2>3, <2>4 DEF Actors
  <1>2. ASSUME UNCHANGED case PROVE case'[m] = case[m]
    BY <1>2
  <1>3. QED
    BY <1>1, <1>2
    DEF Next, UserReads, UserWrites, ConsumeToOpen, FlushOpening, ConsumeKnown, RequestClose, Validate,
        Write, LoseAnswer, TimeOut, Crash, ValidateLate, WriteLate, Idle, vars

-----------------------------------------------------------------------------
(* The saga is the lifecycle of CaseLifecycle.  A case opens and closes when *)
(* item-service commits the call; what the actor records afterwards was      *)
(* known from the answer, so recording it is no step of the lifecycle.  Only *)
(* a refused opening is a step when it is recorded.                          *)

LEMMA SameVocabulary ==
    /\ Lifecycle!Statuses = Statuses
    /\ Lifecycle!PublicTransitions = PublicTransitions
    /\ Lifecycle!OpenableStatuses = OpenableStatuses
    /\ \A m : Lifecycle!ItemsOf(m) = ItemsOf(m)
  BY DEF Lifecycle!Statuses, Statuses, Lifecycle!PublicTransitions, PublicTransitions,
         Lifecycle!OpenableStatuses, OpenableStatuses, Lifecycle!ItemsOf, ItemsOf

LEMMA OnlyOne == \A t : (CHOOSE u \in {t} : TRUE) = t
  OBVIOUS

\* Who knows what of a case, said of this state and of the next.
LEMMA StatusFromRow ==
    ASSUME NEW m \in Matches
    PROVE  /\ (\A t \in Threads : ~Returned(t, m)) =>
                  StatusOf(m) = IF Knows(Consumer, m, {"open"}) THEN "IN_PROGRESS" ELSE case[m]
           /\ (\A t \in Threads : ~Returned(t, m)') =>
                  StatusOf(m)' = IF Knows(Consumer, m, {"open"})' THEN "IN_PROGRESS" ELSE case'[m]
  BY DEF StatusOf, ClosersOf, Returned

LEMMA StatusFromCloser ==
    ASSUME NEW m \in Matches, NEW t \in Threads
    PROVE  /\ Returned(t, m) /\ (\A u \in Threads : Returned(u, m) => u = t) =>
                  StatusOf(m) = work[t].becomes
           /\ Returned(t, m)' /\ (\A u \in Threads : Returned(u, m)' => u = t) =>
                  StatusOf(m)' = work'[t].becomes
  <1>1. Returned(t, m) /\ (\A u \in Threads : Returned(u, m) => u = t) =>
           StatusOf(m) = work[t].becomes
    <2> SUFFICES ASSUME Returned(t, m), \A u \in Threads : Returned(u, m) => u = t
                 PROVE  StatusOf(m) = work[t].becomes
      OBVIOUS
    <2>1. ClosersOf(m) = {t}
      BY DEF ClosersOf, Returned
    <2>2. (CHOOSE u \in ClosersOf(m) : TRUE) = t
      BY <2>1, OnlyOne
    <2>3. QED
      BY <2>1, <2>2 DEF StatusOf
  <1>2. Returned(t, m)' /\ (\A u \in Threads : Returned(u, m)' => u = t) =>
           StatusOf(m)' = work'[t].becomes
    <2> SUFFICES ASSUME Returned(t, m)', \A u \in Threads : Returned(u, m)' => u = t
                 PROVE  StatusOf(m)' = work'[t].becomes
      OBVIOUS
    <2>1. ClosersOf(m)' = {t}
      BY DEF ClosersOf, Returned
    <2>2. (CHOOSE u \in ClosersOf(m)' : TRUE) = t
      BY <2>1, OnlyOne
    <2>3. QED
      BY <2>1, <2>2 DEF StatusOf
  <1>3. QED
    BY <1>1, <1>2

\* What nobody learns and nobody records leaves the case where it is.
LEMMA SameStatus ==
    ASSUME Held, NEW m \in Matches, case'[m] = case[m],
           Knows(Consumer, m, {"open"})' <=> Knows(Consumer, m, {"open"}),
           \A t \in Threads : /\ Returned(t, m)' <=> Returned(t, m)
                              /\ Returned(t, m) => work'[t].becomes = work[t].becomes
    PROVE  StatusOf(m)' = StatusOf(m)
  <1>1. CASE \A t \in Threads : ~Returned(t, m)
    BY <1>1, StatusFromRow
  <1>2. ASSUME NEW t \in Threads, Returned(t, m) PROVE StatusOf(m)' = StatusOf(m)
    <2>1. \A u \in Threads : Returned(u, m) => u = t
      BY <1>2 DEF Held, ReturnedOnce
    <2>2. StatusOf(m) = work[t].becomes /\ StatusOf(m)' = work'[t].becomes
      BY <1>2, <2>1, StatusFromCloser
    <2>3. QED
      BY <1>2, <2>2
  <1>3. QED
    BY <1>1, <1>2

LEMMA SameStatuses ==
    ASSUME \A m \in Matches : StatusOf(m)' = StatusOf(m)
    PROVE  [m \in Matches |-> StatusOf(m)]' = [m \in Matches |-> StatusOf(m)]
  OBVIOUS

LEMMA OneStatus ==
    ASSUME NEW m \in Matches, NEW s, StatusOf(m)' = s,
           \A n \in Matches : n # m => StatusOf(n)' = StatusOf(n)
    PROVE  [n \in Matches |-> StatusOf(n)]' = [[n \in Matches |-> StatusOf(n)] EXCEPT ![m] = s]
  OBVIOUS

\* The answer of one actor tells of the case of its own call only.
LEMMA OthersStatus ==
    ASSUME Held, NEW a \in Actors, NEW m \in Matches, case'[m] = case[m],
           \A b \in Actors : b # a => work'[b] = work[b],
           ~In(a, {"ok"}) \/ work[a].call.match # m,
           ~In(a, {"ok"})' \/ work'[a].call.match # m
    PROVE  StatusOf(m)' = StatusOf(m)
  <1>1. \A ops : ~Knows(a, m, ops) /\ ~Knows(a, m, ops)'
    BY DEF Knows
  <1>2. \A b \in Actors : \A ops : /\ Knows(b, m, ops)' <=> Knows(b, m, ops)
                                   /\ Knows(b, m, ops) => work'[b] = work[b]
    BY <1>1 DEF Knows, In, Busy
  <1>3. QED
    BY <1>2, SameStatus, KnowsTyped DEF Returned

LEMMA QuietIsNoStep ==
    ASSUME Held, UNCHANGED <<case, item>>, \A a \in Actors : Quiet(a)
    PROVE  UNCHANGED Lifecycle!lifecycleVars
  <1>1. \A a \in Actors : \A m, ops : /\ Knows(a, m, ops)' <=> Knows(a, m, ops)
                                      /\ Knows(a, m, ops) => work'[a] = work[a]
    BY DEF Quiet, Knows, In, Busy
  <1>2. \A m \in Matches : StatusOf(m)' = StatusOf(m)
    BY <1>1, SameStatus, KnowsTyped DEF Returned
  <1>3. QED
    BY <1>2, SameStatuses DEF Lifecycle!lifecycleVars

LEMMA InitLifecycle == Init => Lifecycle!Init
  <1> SUFFICES ASSUME Init PROVE Lifecycle!Init
    OBVIOUS
  <1>1. \A a \in Actors : \A m, ops : ~Knows(a, m, ops)
    BY DEF Init, Knows, In, Busy
  <1>2. \A m \in Matches : StatusOf(m) = "NONE"
    BY <1>1, StatusFromRow, KnowsTyped DEF Returned, Init, None
  <1>3. QED
    BY <1>2 DEF Init, Lifecycle!Init

LEMMA UserWritesMoves ==
    ASSUME IInv, HeldInv, NEW u \in Users, UserWrites(u)
    PROVE  Lifecycle!Next
  <1>1. /\ move[u].item \in Items
        /\ move[u].target \in PublicTransitions[item[move[u].item]]
        /\ item' = [item EXCEPT ![move[u].item] = move[u].target]
        /\ UNCHANGED <<case, work>>
    BY DEF UserWrites, IInv, TypeOK, Move, HeldInv, Pending, StillLegal
  <1>2. \A m \in Matches : StatusOf(m)' = StatusOf(m)
    BY <1>1 DEF StatusOf, ClosersOf, Knows, In, Busy
  <1>3. Lifecycle!UserMoves(move[u].item)
    BY <1>1, <1>2, SameStatuses, SameVocabulary DEF Lifecycle!UserMoves
  <1>4. QED
    BY <1>1, <1>3 DEF Lifecycle!Next

LEMMA OpeningOpens ==
    ASSUME IInv, HeldInv, Undisturbed, Write(Consumer)
    PROVE  Lifecycle!Next
  <1>c. PICK c \in Call : c = work[Consumer].call
    BY KnowsTyped, WriteIs
  <1>m. PICK m \in Matches : m = c.match
    BY <1>c, KnowsTyped, WriteIs
  <1>1. /\ c.op = "open" /\ c.target = "IN_RECOVERY" /\ Openable(m)
        /\ \A i \in ItemsOf(m) : item[i] \in OpenableStatuses
        /\ ~IsOpen(m)
        /\ \A t \in Threads : ~Returned(t, m)
    BY <1>c, <1>m, OpensItsOwn
  <1>2. /\ work'[Consumer].call = c /\ In(Consumer, {"ok"})' /\ In(Consumer, {"validated"})
        /\ \A b \in Actors : b # Consumer => work'[b] = work[b]
        /\ case' = case
    BY <1>c, KnowsTyped, WriteIs
  <1>3. \A t \in Threads : ~Returned(t, m)'
    BY <1>1, <1>2, KnowsTyped DEF Returned, Knows, In, Busy
  <1>4. Knows(Consumer, m, {"open"})' /\ ~Knows(Consumer, m, {"open"})
    BY <1>m, <1>1, <1>2 DEF Knows, In
  <1>5. StatusOf(m) = case[m] /\ StatusOf(m)' = "IN_PROGRESS"
    BY <1>1, <1>3, <1>4, StatusFromRow
  <1>6. \A n \in Matches : n # m => StatusOf(n)' = StatusOf(n)
    BY <1>c, <1>m, <1>2, KnowsTyped, OthersStatus DEF HeldInv
  <1>7. Lifecycle!Unopened(m)
    BY <1>1, <1>5 DEF Openable, None, Lifecycle!Unopened
  <1>8. Lifecycle!MoveItems(m, OpenableStatuses, "IN_RECOVERY")
    <2>1. item' = [i \in Items |-> IF i \in ItemsOf(m) THEN "IN_RECOVERY" ELSE item[i]]
      BY <1>1, <1>c, <1>m DEF Write, Moved
    <2>2. QED
      BY <1>1, <2>1, SameVocabulary DEF Lifecycle!MoveItems
  <1>9. Lifecycle!Open(m)
    BY <1>5, <1>6, <1>7, <1>8, OneStatus, SameVocabulary DEF Lifecycle!Open
  <1>10. QED
    BY <1>9 DEF Lifecycle!Next

LEMMA ClosingIsAStep ==
    ASSUME IInv, HeldInv, Undisturbed, NEW t \in Threads, Write(t)
    PROVE  Lifecycle!Next
  <1>c. PICK c \in Call : c = work[t].call
    BY KnowsTyped, WriteIs
  <1>m. PICK m \in Matches : m = c.match
    BY <1>c, KnowsTyped, WriteIs
  <1>1. /\ c.op \in {"cancel", "complete"} /\ work[t].becomes \in Results(c.op)
        /\ \A i \in ItemsOf(m) : item[i] = "IN_RECOVERY"
        /\ IsOpen(m) /\ \A u \in Threads : ~Returned(u, m)
    BY <1>c, <1>m, ClosesItsOwn DEF Holds
  <1>2. /\ work'[t].call = c /\ work'[t].becomes = work[t].becomes
        /\ In(t, {"ok"})' /\ In(t, {"validated"})
        /\ \A b \in Actors : b # t => work'[b] = work[b]
        /\ case' = case
        /\ c.target \in Targets(c.op)
    BY <1>c, KnowsTyped, WriteIs
  <1>3. StatusOf(m) = "IN_PROGRESS"
    BY <1>1, StatusFromRow DEF IsOpen, Active
  <1>4. Returned(t, m)' /\ \A u \in Threads : Returned(u, m)' => u = t
    BY <1>m, <1>1, <1>2, KnowsTyped DEF Returned, Knows, In, Busy
  <1>5. StatusOf(m)' \in Results(c.op)
    BY <1>1, <1>2, <1>4, StatusFromCloser
  <1>6. \A n \in Matches : n # m => StatusOf(n)' = StatusOf(n)
    BY <1>c, <1>m, <1>2, KnowsTyped, OthersStatus DEF HeldInv
  <1>7. Lifecycle!MoveItems(m, {"IN_RECOVERY"}, c.target)
    <2>1. item' = [i \in Items |-> IF i \in ItemsOf(m) THEN c.target ELSE item[i]]
      BY <1>c, <1>m DEF Write, Moved
    <2>2. QED
      BY <1>1, <2>1, SameVocabulary DEF Lifecycle!MoveItems
  <1>8. [n \in Matches |-> StatusOf(n)]' = [[n \in Matches |-> StatusOf(n)] EXCEPT ![m] = StatusOf(m)']
    BY <1>6
  <1>9. CASE c.op = "cancel"
    <2>1. c.target \in Lifecycle!OpenableStatuses /\ StatusOf(m)' \in {"CANCELLED", "RETRYABLE"}
      BY <1>2, <1>5, <1>9, SameVocabulary DEF Targets, Results
    <2>2. Lifecycle!Cancel(m)
      BY <1>3, <1>7, <1>8, <2>1 DEF Lifecycle!Cancel
    <2>3. QED
      BY <2>2 DEF Lifecycle!Next
  <1>10. CASE c.op = "complete"
    <2>1. c.target = "RECOVERED" /\ StatusOf(m)' = "COMPLETED"
      BY <1>2, <1>5, <1>10 DEF Targets, Results
    <2>2. Lifecycle!Complete(m)
      BY <1>3, <1>7, <1>8, <2>1 DEF Lifecycle!Complete
    <2>3. QED
      BY <2>2 DEF Lifecycle!Next
  <1>11. QED
    BY <1>1, <1>9, <1>10

\* The consumer records what it knew, or that the opening was refused.
LEMMA ConsumerSettlesCase ==
    ASSUME IInv, HeldInv, Settle(Consumer)
    PROVE  Lifecycle!Next \/ UNCHANGED Lifecycle!lifecycleVars
  <1>c. PICK c \in Call, r \in {"ok", "failed"} : c = work[Consumer].call /\ r = work[Consumer].phase
    BY KnowsTyped, SettleIs
  <1>m. PICK m \in Matches : m = c.match
    BY <1>c, KnowsTyped, SettleIs
  <1>1. Busy(Consumer)
    BY KnowsTyped, SettleIs
  <1>2. c.op = "open" /\ work[Consumer].becomes = "IN_PROGRESS" /\ Openable(m)
    BY <1>1, <1>c, <1>m
    DEF IInv, CaseInv, ConsumerOpens, OpensForAnEvent, CallOf, HeldInv, Pending, OpensAnew
  <1>3. /\ \A n \in Matches : n # m => case'[n] = case[n]
        /\ case'[m] = IF r = "ok" THEN "IN_PROGRESS" ELSE "RETRYABLE"
        /\ ~Busy(Consumer)'
        /\ \A b \in Actors : b # Consumer => work'[b] = work[b]
        /\ item' = item
    BY <1>c, <1>m, <1>2, KnowsTyped, SettleIs
  <1>4. \A n \in Matches : n # m => StatusOf(n)' = StatusOf(n)
    BY <1>c, <1>m, <1>3, KnowsTyped, OthersStatus DEF HeldInv, In
  <1>5. \A t \in Threads : /\ Returned(t, m)' <=> Returned(t, m)
                           /\ work'[t] = work[t]
    BY <1>3, KnowsTyped DEF Returned, Knows, In, Busy
  <1>6. ~Knows(Consumer, m, {"open"})'
    BY <1>3 DEF Knows, In
  <1>7. CASE r = "ok"
    <2>1. Knows(Consumer, m, {"open"})
      BY <1>c, <1>m, <1>1, <1>2, <1>7 DEF Knows, In
    <2>2. StatusOf(m)' = StatusOf(m)
      <3>1. CASE \A t \in Threads : ~Returned(t, m)
        BY <1>3, <1>5, <1>6, <1>7, <2>1, <3>1, StatusFromRow
      <3>2. ASSUME NEW t \in Threads, Returned(t, m) PROVE StatusOf(m)' = StatusOf(m)
        <4>1. \A u \in Threads : Returned(u, m) => u = t
          BY <3>2 DEF HeldInv, Held, ReturnedOnce
        <4>2. StatusOf(m) = work[t].becomes /\ StatusOf(m)' = work'[t].becomes
          BY <1>5, <3>2, <4>1, StatusFromCloser
        <4>3. QED
          BY <1>5, <4>2
      <3>3. QED
        BY <3>1, <3>2
    <2>3. QED
      BY <1>3, <1>4, <2>2, SameStatuses DEF Lifecycle!lifecycleVars
  <1>8. CASE r = "failed"
    <2>1. ~IsOpen(m) /\ ~Knows(Consumer, m, {"open"})
      BY <1>c, <1>2, <1>8 DEF IsOpen, Active, Openable, None, Knows, In
    <2>2. \A t \in Threads : ~Returned(t, m)
      BY <2>1 DEF HeldInv, Held, ReturnedOnce
    <2>3. StatusOf(m) = case[m] /\ StatusOf(m)' = "RETRYABLE"
      BY <1>3, <1>5, <1>6, <1>8, <2>1, <2>2, StatusFromRow
    <2>4. Lifecycle!Refuse(m)
      BY <1>2, <1>3, <1>4, <2>3, OneStatus DEF Lifecycle!Refuse, Lifecycle!Unopened, Openable, None
    <2>5. QED
      BY <2>4 DEF Lifecycle!Next
  <1>9. QED
    BY <1>7, <1>8

LEMMA ThreadSettlesCase ==
    ASSUME IInv, HeldInv, NEW t \in Threads, Settle(t)
    PROVE  UNCHANGED Lifecycle!lifecycleVars
  <1>c. PICK c \in Call, r \in {"ok", "failed"} : c = work[t].call /\ r = work[t].phase
    BY KnowsTyped, SettleIs
  <1>m. PICK m \in Matches : m = c.match
    BY <1>c, KnowsTyped, SettleIs
  <1>1. /\ Busy(t) /\ ~Busy(t)'
        /\ \A b \in Actors : b # t => work'[b] = work[b]
        /\ item' = item
        /\ \A n \in Matches : n # m => case'[n] = case[n]
    BY <1>c, <1>m, KnowsTyped, SettleIs
  <1>2. CASE r = "failed"
    <2>1. c.op # "open"
      BY <1>1, <1>c DEF IInv, CaseInv, ThreadsClose, CallOf
    <2>2. case' = case
      BY <1>c, <1>2, <2>1, KnowsTyped, SettleIs
    <2>3. \A b \in Actors : Quiet(b)
      BY <1>1, <1>c, <1>2 DEF Quiet, In
    <2>4. QED
      BY <1>1, <2>2, <2>3, QuietIsNoStep DEF HeldInv
  <1>3. CASE r = "ok"
    <2>1. /\ Returned(t, m) /\ ~Knows(Consumer, m, {"open"})
          /\ \A u \in Threads : Returned(u, m) => u = t
      BY <1>c, <1>m, <1>3, RecordsAnActiveCase
    <2>2. StatusOf(m) = work[t].becomes /\ case'[m] = work[t].becomes
      BY <1>c, <1>m, <1>3, <2>1, StatusFromCloser, KnowsTyped, SettleIs
    <2>3. /\ \A u \in Threads : ~Returned(u, m)'
          /\ ~Knows(Consumer, m, {"open"})'
      BY <1>1, <2>1, KnowsTyped DEF Returned, Knows, In, Busy
    <2>4. StatusOf(m)' = StatusOf(m)
      BY <2>2, <2>3, StatusFromRow
    <2>5. \A n \in Matches : n # m => StatusOf(n)' = StatusOf(n)
      BY <1>c, <1>m, <1>1, KnowsTyped, OthersStatus DEF HeldInv, In
    <2>6. QED
      BY <1>1, <2>4, <2>5, SameStatuses DEF Lifecycle!lifecycleVars
  <1>4. QED
    BY <1>2, <1>3

\* Every step of the saga that Undisturbed allows is a step of the lifecycle or
\* none.
LEMMA NextLifecycle ==
    IInv /\ HeldInv /\ Undisturbed /\ Undisturbed' /\ [Next]_vars
        => [Lifecycle!Next]_(Lifecycle!lifecycleVars)
  <1> SUFFICES ASSUME IInv, HeldInv, Undisturbed, Undisturbed', [Next]_vars
               PROVE  Lifecycle!Next \/ UNCHANGED Lifecycle!lifecycleVars
    OBVIOUS
  <1>1. ASSUME UNCHANGED <<case, item>>, \A a \in Actors : Quiet(a)
        PROVE  UNCHANGED Lifecycle!lifecycleVars
    BY <1>1, QuietIsNoStep DEF HeldInv
  <1>2. ASSUME NEW u \in Users, UserWrites(u) PROVE Lifecycle!Next
    BY <1>2, UserWritesMoves
  <1>3. ASSUME NEW e \in Events, ConsumeToOpen(e) PROVE UNCHANGED Lifecycle!lifecycleVars
    BY <1>1, <1>3, ConsumeToOpenHolds DEF ConsumeToOpen
  <1>4. ASSUME NEW t \in Threads, NEW m \in Matches, NEW op \in Ops \ {"open"},
               NEW s \in Statuses, NEW r \in CaseStatuses, RequestClose(t, m, op, s, r)
        PROVE  UNCHANGED Lifecycle!lifecycleVars
    BY <1>1, <1>4, RequestCloseHolds DEF RequestClose
  <1>5. ASSUME FlushOpening PROVE UNCHANGED Lifecycle!lifecycleVars
    BY <1>1, <1>5, FlushOpeningHolds DEF FlushOpening
  <1>6. ASSUME NEW a \in Actors, Validate(a) PROVE UNCHANGED Lifecycle!lifecycleVars
    BY <1>1, <1>6, ValidateHolds DEF Validate
  <1>7. ASSUME NEW a \in Actors, Write(a) PROVE Lifecycle!Next
    BY <1>7, OpeningOpens, ClosingIsAStep DEF Actors
  <1>8. ASSUME NEW a \in Actors, Settle(a)
        PROVE  Lifecycle!Next \/ UNCHANGED Lifecycle!lifecycleVars
    BY <1>8, ConsumerSettlesCase, ThreadSettlesCase DEF Actors
  <1>9. ASSUME \/ \E e \in Events : ConsumeKnown(e)
               \/ \E u \in Users : \E i \in Items, s \in Statuses : UserReads(u, i, s)
               \/ Idle
               \/ UNCHANGED vars
        PROVE  UNCHANGED Lifecycle!lifecycleVars
    <2>1. UNCHANGED <<case, work, item>>
      BY <1>9 DEF ConsumeKnown, UserReads, Idle, vars
    <2>2. QED
      BY <1>1, <2>1 DEF Quiet
  <1>10. QED
    BY <1>2, <1>3, <1>4, <1>5, <1>6, <1>7, <1>8, <1>9, NoFaults DEF Next

-----------------------------------------------------------------------------
(* Theorems. *)

\* The invariant holds in every behaviour of the saga.
THEOREM InductiveInvariant == Spec => []IInv
  BY InitEstablishes, NextKeeps, PTL DEF Spec

\* Rows, calls and counters keep the types of the code's enumerations.
THEOREM TypesAreRight == Spec => []TypeOK
  <1>1. IInv => TypeOK
    BY DEF IInv
  <1>2. QED
    BY <1>1, InductiveInvariant, PTL

\* An event is registered only with a case that was opened: the conflict that
\* consume_match_accepted raises for a registered event without a case never
\* comes up, whatever calls time out, answers are lost and processes crash.
THEOREM RegisteredEventsHaveCases == Spec => []ProcessedHasCase
  <1>1. IInv => ProcessedHasCase
    BY DEF IInv, CaseInv
  <1>2. QED
    BY <1>1, InductiveInvariant, PTL

\* No two active cases have the same found item, though the check precedes the
\* HTTP call by seconds and users close cases in the meantime.
THEOREM FoundItemsAreNotShared == Spec => []OneActiveCasePerFoundItem
  <1>1. IInv => OneActiveCasePerFoundItem
    BY DEF IInv, CaseInv
  <1>2. QED
    BY <1>1, InductiveInvariant, PTL

\* As long as every call is answered, item-service reads and commits for one
\* request on an item at a time, and cases whose items are both shared are
\* closed by one thread at a time, the items are where the cases say between
\* any two steps, and what was accepted is acceptable when it is committed.
THEOREM ItemsAreHeld == Spec /\ []Undisturbed => []HeldInv
  <1>1. HeldInv /\ IInv /\ Undisturbed /\ Undisturbed' /\ [Next]_vars => HeldInv'
    BY NextHolds
  <1>2. QED
    BY <1>1, InitHolds, InductiveInvariant, PTL DEF Spec

\* As long as that is so, an active case has both its items in recovery until
\* a closing call is answered: update_item_status moves both or none, and no
\* other case moves them.
THEOREM ActiveCasesHoldTheirItems == Spec /\ []Undisturbed => []ActiveCaseHoldsItems
  BY ItemsAreHeld, HeldSays, PTL

\* As long as that is so, every item in recovery is some active case's, or the
\* case is about to be recorded: no item is stranded in IN_RECOVERY.
THEOREM ItemsInRecoveryHaveACase == Spec /\ []Undisturbed => []RecoveryHasCase
  BY ItemsAreHeld, HeldSays, PTL

\* As long as that is so, a closed case keeps its status, though the threads
\* read it before their calls and write it after.
THEOREM ClosedCasesStayClosed == Spec /\ []Undisturbed => ClosedCaseIsFinal
  <1> DEFINE Final == \A m \in Matches : Closed(m) => case'[m] = case[m]
  <1>1. IInv /\ HeldInv /\ [Next]_vars => Final
    BY ClosedStays
  <1>2. Spec /\ []Undisturbed => [][Final]_vars
    BY <1>1, InductiveInvariant, ItemsAreHeld, PTL DEF Spec
  <1>3. QED
    BY <1>2 DEF ClosedCaseIsFinal

\* As long as that is so, the saga implements CaseLifecycle: what the rows, the
\* calls on their way and the items say together changes as if a case and its
\* items were one object.
THEOREM SagaImplementsLifecycle == Spec /\ []Undisturbed => ImplementsLifecycle
  <1>1. Spec /\ []Undisturbed => [][Lifecycle!Next]_(Lifecycle!lifecycleVars)
    BY NextLifecycle, InductiveInvariant, ItemsAreHeld, PTL DEF Spec
  <1>2. QED
    BY <1>1, InitLifecycle, PTL DEF Spec, ImplementsLifecycle, Lifecycle!Spec

=============================================================================
