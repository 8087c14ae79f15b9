---------------------------- MODULE ItemService ----------------------------
(***************************************************************************)
(* item-service: items, their status history and the outbox events written *)
(* with them.  Each request is a database transaction of its own, run by a *)
(* thread of the server's pool at READ COMMITTED:                          *)
(*                                                                         *)
(*   Begin   the ORM reads the rows the request names, without locking;    *)
(*   Stamp   the next item is validated against the row READ, and the      *)
(*           change of its status is dated;                                *)
(*   Flush   its UPDATE takes the row lock, once that is free, and keeps   *)
(*           it to the end;                                                *)
(*   Commit  the rows, history entries and events become visible together. *)
(*                                                                         *)
(* The UPDATE is by primary key, with no version check, and names only the *)
(* columns the ORM saw change.  The event carries the ORM's object, that   *)
(* is the row read at Begin with this request's change.                    *)
(*                                                                         *)
(* Dates are readings of one clock that are never equal, and only the      *)
(* order of those given to one item matters: clock[i] counts them.         *)
(***************************************************************************)
EXTENDS Naturals, Sequences, FiniteSets, ItemTypes

CONSTANTS
    Items,        \* ids of items
    Txns,         \* threads serving requests
    Details,      \* values of an item's descriptive fields
    Requests,     \* requests on existing items the clients may send
    MaxRequests   \* bound: requests admitted in a behaviour

VARIABLES
    row,          \* committed rows of table items
    history,      \* committed rows of item_status_history, per item; the program
                  \* knows no order of them but that of their dates
    outbox,       \* committed outbox events, per item, in commit order
    req,          \* the request a thread is serving
    snap,         \* the rows the thread read for it
    stamp,        \* the date it gave to its change of an item, 0 for none
    flushed,      \* how many of the request's items it has flushed
    clock,        \* dates given to changes of an item so far
    admitted      \* requests admitted so far

vars == <<row, history, outbox, req, snap, stamp, flushed, clock, admitted>>

Blank == "NONE"

\* A request: the operation, the items in the order the caller names them
\* (repetitions already dropped), the status and the fields it asks for.
Request ==
    [op      : {"update", "status", "open", "cancel", "complete"},
     items   : Seq(Items),
     target  : Statuses \cup {Blank},
     details : Details \cup {Blank}]

NoRequest == [op |-> Blank, items |-> <<>>, target |-> Blank, details |-> Blank]

WellFormed(r) ==
    /\ r.items # <<>>
    /\ \A j, k \in DOMAIN r.items : r.items[j] = r.items[k] => j = k
    /\ r.op \in {"update", "status"} => Len(r.items) = 1
    /\ r.op = "update" => r.details \in Details
    /\ r.op = "status" => r.target \in Statuses
    /\ r.op = "cancel" => r.target \in OpenableStatuses

ASSUME RequestsAssumption ==
    /\ Requests \subseteq Request
    /\ \A r \in Requests : WellFormed(r)

ASSUME BlankAssumption == Blank \notin Details

ASSUME BoundAssumption == MaxRequests \in Nat

Row ==
    [status  : Statuses \cup {Blank},
     version : Nat,
     details : Details \cup {Blank}]

NoRow == [status |-> Blank, version |-> 0, details |-> Blank]

HistoryEntry == [from : Statuses \cup {Blank}, to : Statuses, at : Nat]

\* ItemCreated and ItemUpdated differ by name only: both carry the object.
Event == Row

-----------------------------------------------------------------------------
(* The service's rules. *)

Running(t) == req[t] # NoRequest

ItemsOf(r) == {r.items[k] : k \in DOMAIN r.items}

\* Mutant: the recovery operations forget their own target.
TargetFromRequest(r) == r.target

\* Where a request takes an item.
Target(r) ==
    CASE r.op = "open"     -> "IN_RECOVERY"
      [] r.op = "complete" -> "RECOVERED"
      [] OTHER             -> r.target

\* Mutant: a completion is accepted whatever the item's status.
ValidTransitionAnyCompletion(r, old) ==
    /\ Target(r) # old.status
    /\ \/ /\ r.op = "status"
          /\ Target(r) \notin ReservedStatuses
          /\ Target(r) \in PublicTransitions[old.status]
       \/ r.op = "open" /\ old.status \in OpenableStatuses
       \/ r.op = "cancel" /\ old.status = "IN_RECOVERY"
       \/ r.op = "complete"

ValidTransition(r, old) ==
    /\ Target(r) # old.status
    /\ old.status \notin TerminalStatuses
    /\ \/ /\ r.op = "status"
          /\ Target(r) \notin ReservedStatuses
          /\ Target(r) \in PublicTransitions[old.status]
       \/ /\ r.op = "open"
          /\ old.status \in OpenableStatuses
       \/ /\ r.op \in {"cancel", "complete"}
          /\ old.status = "IN_RECOVERY"

\* An update must change something; a change of status must be a valid one.
Allowed(r, old) ==
    IF r.op = "update" THEN r.details # old.details ELSE ValidTransition(r, old)

\* Mutant: the event is recorded before the version is incremented.
ChangedBeforeIncrement(r, old) ==
    [status  |-> IF r.op = "update" THEN old.status ELSE Target(r),
     version |-> old.version,
     details |-> IF r.op = "update" THEN r.details ELSE old.details]

\* Mutant: the event is recorded before the status is assigned.
ChangedBeforeStatus(r, old) ==
    [status  |-> old.status,
     version |-> old.version + 1,
     details |-> IF r.op = "update" THEN r.details ELSE old.details]

\* The ORM's object once the request has changed it.
Changed(r, old) ==
    [status  |-> IF r.op = "update" THEN old.status ELSE Target(r),
     version |-> old.version + 1,
     details |-> IF r.op = "update" THEN r.details ELSE old.details]

\* Mutant: the version is incremented once per field changed.
OverwritePerField(r, old, current) ==
    [status  |-> IF r.op = "update" THEN current.status ELSE Target(r),
     version |-> old.version + (IF r.op = "update" THEN 2 ELSE 1),
     details |-> IF r.op = "update" THEN r.details ELSE current.details]

\* The row as the UPDATE leaves it: the columns the ORM saw change over what
\* the table holds by then, whoever wrote that.
Overwrite(r, old, current) ==
    [status  |-> IF r.op = "update" THEN current.status ELSE Target(r),
     version |-> old.version + 1,
     details |-> IF r.op = "update" THEN r.details ELSE current.details]

\* Mutant: the moves of the recovery flow leave no history.
AuditsUserMoves(r) == r.op = "status"

\* Changes of status leave a history entry, updates of fields do not.
Audits(r) == r.op # "update"

-----------------------------------------------------------------------------
(* Transactions. *)

Held(t) == {req[t].items[k] : k \in 1..flushed[t]}

FlushedAll(t) == flushed[t] = Len(req[t].items)

NextItem(t) == req[t].items[flushed[t] + 1]

\* The change of the next item is dated; one that leaves no entry needs no date.
Dated(t) == Audits(req[t]) => stamp[t][NextItem(t)] # 0

LockFree(t, i) == \A u \in Txns \ {t} : i \notin Held(u)

\* The thread is done with its request; nothing of it is kept.
Finish(t) ==
    /\ req'     = [req EXCEPT ![t] = NoRequest]
    /\ snap'    = [snap EXCEPT ![t] = [i \in Items |-> NoRow]]
    /\ stamp'   = [stamp EXCEPT ![t] = [i \in Items |-> 0]]
    /\ flushed' = [flushed EXCEPT ![t] = 0]

\* Mutant: the entry takes the item's date before it is set anew.
EntryOfDatedBefore(t, i) ==
    [from |-> snap[t][i].status, to |-> Target(req[t]), at |-> stamp[t][i] - 1]

\* What a change of status leaves in the history.
EntryOf(t, i) ==
    [from |-> snap[t][i].status, to |-> Target(req[t]), at |-> stamp[t][i]]

\* What the transaction wrote becomes visible.
Publish(t) ==
    LET r == req[t] IN
    /\ row'     = [i \in Items |->
                     IF i \in Held(t) THEN Overwrite(r, snap[t][i], row[i]) ELSE row[i]]
    /\ history' = [i \in Items |->
                     IF i \in Held(t) /\ Audits(r)
                     THEN Append(history[i], EntryOf(t, i))
                     ELSE history[i]]
    /\ outbox'  = [i \in Items |->
                     IF i \in Held(t) THEN Append(outbox[i], Changed(r, snap[t][i])) ELSE outbox[i]]

Discard(t) ==
    /\ Finish(t)
    /\ UNCHANGED <<row, history, outbox, clock, admitted>>

Init ==
    /\ row      = [i \in Items |-> NoRow]
    /\ history  = [i \in Items |-> <<>>]
    /\ outbox   = [i \in Items |-> <<>>]
    /\ req      = [t \in Txns |-> NoRequest]
    /\ snap     = [t \in Txns |-> [i \in Items |-> NoRow]]
    /\ stamp    = [t \in Txns |-> [i \in Items |-> 0]]
    /\ flushed  = [t \in Txns |-> 0]
    /\ clock    = [i \in Items |-> 0]
    /\ admitted = 0

\* The id is fresh, so no other request can name the item before the commit:
\* one step stands for the transaction.
Create(i, d) ==
    LET new   == [status |-> "AVAILABLE", version |-> 1, details |-> d]
        entry == [from |-> Blank, to |-> "AVAILABLE", at |-> clock[i] + 1]
    IN
    /\ row[i] = NoRow
    /\ row'     = [row EXCEPT ![i] = new]
    /\ history' = [history EXCEPT ![i] = Append(@, entry)]
    /\ clock'   = [clock EXCEPT ![i] = @ + 1]
    /\ outbox'  = [outbox EXCEPT ![i] = Append(@, new)]
    /\ UNCHANGED <<req, snap, stamp, flushed, admitted>>

\* One SELECT reads all the rows.  A request naming an item that does not
\* exist is answered at once and leaves no trace.
Begin(t, r) ==
    /\ ~Running(t)
    /\ admitted < MaxRequests
    /\ \A i \in ItemsOf(r) : row[i] # NoRow
    /\ req'      = [req EXCEPT ![t] = r]
    /\ snap'     = [snap EXCEPT ![t] = [i \in Items |-> IF i \in ItemsOf(r) THEN row[i] ELSE NoRow]]
    /\ admitted' = admitted + 1
    /\ UNCHANGED <<row, history, outbox, stamp, flushed, clock>>

\* The next item is valid and its change is dated, before its row is locked.
Stamp(t) ==
    /\ Running(t)
    /\ ~FlushedAll(t)
    /\ Allowed(req[t], snap[t][NextItem(t)])
    /\ ~Dated(t)
    /\ clock' = [clock EXCEPT ![NextItem(t)] = @ + 1]
    /\ stamp' = [stamp EXCEPT ![t][NextItem(t)] = clock[NextItem(t)] + 1]
    /\ UNCHANGED <<row, history, outbox, req, snap, flushed, admitted>>

\* The next item is valid, its change dated and its row lock free: the UPDATE
\* is sent.
Flush(t) ==
    /\ Running(t)
    /\ ~FlushedAll(t)
    /\ Allowed(req[t], snap[t][NextItem(t)])
    /\ Dated(t)
    /\ LockFree(t, NextItem(t))
    /\ flushed' = [flushed EXCEPT ![t] = @ + 1]
    /\ UNCHANGED <<row, history, outbox, req, snap, stamp, clock, admitted>>

\* Mutant: the items flushed before the refused one are committed.
RejectKeepingFlushed(t) ==
    /\ Running(t)
    /\ ~FlushedAll(t)
    /\ ~Allowed(req[t], snap[t][NextItem(t)])
    /\ Publish(t)
    /\ Finish(t)
    /\ UNCHANGED <<clock, admitted>>

\* Mutant: the session is not closed once something was flushed.
RejectLeavingSession(t) ==
    /\ Running(t)
    /\ flushed[t] = 0
    /\ ~Allowed(req[t], snap[t][NextItem(t)])
    /\ Discard(t)

\* The next item is refused: the error undoes the items flushed before it.
Reject(t) ==
    /\ Running(t)
    /\ ~FlushedAll(t)
    /\ ~Allowed(req[t], snap[t][NextItem(t)])
    /\ Discard(t)

Commit(t) ==
    /\ Running(t)
    /\ FlushedAll(t)
    /\ Publish(t)
    /\ Finish(t)
    /\ UNCHANGED <<clock, admitted>>

\* The thread or its connection is lost before the commit.
Abort(t) ==
    /\ Running(t)
    /\ Discard(t)

\* t waits for a row lock that u holds.
WaitsFor(t, u) ==
    /\ Running(t)
    /\ ~FlushedAll(t)
    /\ Allowed(req[t], snap[t][NextItem(t)])
    /\ Dated(t)
    /\ NextItem(t) \in Held(u)

Deadlocked(t) ==
    \E S \in SUBSET Txns :
        /\ t \in S
        /\ \A u \in S : (\E v \in S : WaitsFor(u, v)) /\ (\E v \in S : WaitsFor(v, u))

\* The database breaks a cycle of lock waits by failing one of its members.
DeadlockVictim(t) ==
    /\ Deadlocked(t)
    /\ Discard(t)

\* Every admitted request was answered and no more will come.
Quiescent ==
    /\ admitted = MaxRequests
    /\ \A t \in Txns : ~Running(t)
    /\ UNCHANGED vars

Next ==
    \/ \E i \in Items, d \in Details : Create(i, d)
    \/ \E t \in Txns :
          \/ \E r \in Requests : Begin(t, r)
          \/ Stamp(t)
          \/ Flush(t)
          \/ Reject(t)
          \/ Commit(t)
          \/ Abort(t)
          \/ DeadlockVictim(t)
    \/ Quiescent

Spec == Init /\ [][Next]_vars

\* Threads keep running and row locks are granted in the order of arrival, so a
\* lock that is freed again and again is granted; nobody has to send requests.
Fairness ==
    \A t \in Txns :
        /\ WF_vars(Stamp(t))
        /\ SF_vars(Flush(t))
        /\ WF_vars(Reject(t))
        /\ WF_vars(Commit(t))
        /\ WF_vars(DeadlockVictim(t))

FairSpec == Spec /\ Fairness

\* No two requests in progress name the same item.
NoOverlap ==
    \A t, u \in Txns :
        t # u => ItemsOf(req[t]) \cap ItemsOf(req[u]) = {}

SerializedSpec == Init /\ [][Next /\ NoOverlap']_vars

-----------------------------------------------------------------------------
(* Properties. *)

TypeOK ==
    /\ row \in [Items -> Row]
    /\ history \in [Items -> Seq(HistoryEntry)]
    /\ outbox \in [Items -> Seq(Event)]
    /\ req \in [Txns -> Requests \cup {NoRequest}]
    /\ snap \in [Txns -> [Items -> Row]]
    /\ stamp \in [Txns -> [Items -> Nat]]
    /\ flushed \in [Txns -> Nat]
    /\ clock \in [Items -> Nat]
    /\ admitted \in 0..MaxRequests

LastOf(s) == s[Len(s)]

\* The newest event of an item carries the version its row has, however the
\* requests interleave: what the consumers saw last is never behind the table
\* by a version, nor ahead of it (record_item_event after the increment, in
\* the same transaction).
NewestEventHasRowVersion ==
    \A i \in Items :
        row[i] # NoRow => outbox[i] # <<>> /\ LastOf(outbox[i]).version = row[i].version

\* The entries in h record a move to status s before date n.
Reached(h, s, n) == \E k \in DOMAIN h : h[k].to = s /\ h[k].at < n

\* The status of an item is on record, and so is, with an earlier date, every
\* status that a later entry says the item was in, even when requests overwrote
\* each other's changes.  No more holds: the date is taken before the wait for
\* the row lock, so of two overlapping moves the one with the later date may be
\* the one that was overwritten.
TrailIsGrounded ==
    \A i \in Items :
        /\ row[i] # NoRow => \E k \in DOMAIN history[i] : history[i][k].to = row[i].status
        /\ \A k \in DOMAIN history[i] :
              \/ history[i][k].from = Blank
              \/ Reached(history[i], history[i][k].from, history[i][k].at)

\* An entry a request may leave in the history.
LegalMove(e) ==
    \/ e.from = Blank /\ e.to = "AVAILABLE"
    \/ e.from \in Statuses /\ e.to \in PublicTransitions[e.from]
    \/ e.from \in OpenableStatuses /\ e.to = "IN_RECOVERY"
    \/ e.from = "IN_RECOVERY" /\ e.to \in OpenableStatuses \cup {"RECOVERED"}

\* Every move on record is one the status machine has, under every
\* interleaving; no entry ever leaves CANCELLED or CLOSED.
AuditIsLegal ==
    \A i \in Items : \A k \in DOMAIN history[i] : LegalMove(history[i][k])

Entries(moves) == {k \in DOMAIN moves : moves[k].to = "IN_RECOVERY"}

Exits(moves) == {k \in DOMAIN moves : moves[k].from = "IN_RECOVERY"}

\* Every recovery request names both items or neither.
Partners(i, j) ==
    \A r \in Requests :
        r.op \in {"open", "cancel", "complete"} => (i \in ItemsOf(r) <=> j \in ItemsOf(r))

\* The two items of a recovery enter and leave it together, under every
\* interleaving, refusal, crash and lock wait: their histories hold as many
\* entries into IN_RECOVERY, and as many out of it.
RecoveryMovesBothItems ==
    \A i, j \in Items :
        Partners(i, j) =>
            /\ Cardinality(Entries(history[i])) = Cardinality(Entries(history[j]))
            /\ Cardinality(Exits(history[i])) = Cardinality(Exits(history[j]))

\* A version never exceeds the number of changes committed: lost updates
\* repeat versions and never skip one.
VersionsNeverSkip ==
    \A i \in Items : row[i].version <= Len(outbox[i])

Numbered(events) == \A k \in DOMAIN events : events[k].version = k

\* When requests on one item do not overlap, event k of an item has version k
\* and the row has the last of them ("Incrementar versao do agregado a cada
\* alteracao de dominio", item-service/README.md).
VersionsAreConsecutive ==
    \A i \in Items : row[i].version = Len(outbox[i]) /\ Numbered(outbox[i])

\* Of the entries in h before n, k has the latest date.
LatestBefore(h, k, n) ==
    /\ h[k].at < n
    /\ \A j \in DOMAIN h : h[j].at < n => h[j].at <= h[k].at

\* By their dates, every entry starts where the one before ended and s is
\* where the last one ended.
Chained(h, s) ==
    /\ \A k \in DOMAIN h :
          \/ h[k].from = Blank /\ \A j \in DOMAIN h : h[k].at <= h[j].at
          \/ \E j \in DOMAIN h : LatestBefore(h, j, h[k].at) /\ h[k].from = h[j].to
    /\ \A k \in DOMAIN h : (\A j \in DOMAIN h : h[j].at <= h[k].at) => h[k].to = s

\* When requests on one item do not overlap, its history read by dates
\* (list_history_for_item) is a chain that ends in the item's status.
AuditIsChained == \A i \in Items : Chained(history[i], row[i].status)

\* When requests on one item do not overlap, the newest event of an item is its row.
NewestEventIsRow ==
    \A i \in Items :
        row[i] # NoRow => outbox[i] # <<>> /\ LastOf(outbox[i]) = row[i]

\* "Itens CANCELLED ou CLOSED nao podem voltar ao fluxo de matching": an item
\* that reached a terminal status stays in it.
TerminalIsFinal ==
    [][\A i \in Items :
          row[i].status \in TerminalStatuses => row'[i].status = row[i].status]_vars

\* A request that was admitted is answered: threads waiting for each other's
\* row locks are always released.
RequestsAreAnswered ==
    \A t \in Txns : Running(t) ~> ~Running(t)

Lifecycle ==
    INSTANCE ItemLifecycle WITH
        status  <- [i \in Items |-> row[i].status],
        version <- [i \in Items |-> row[i].version]

\* When requests on one item do not overlap, the service implements the
\* lifecycle of ItemLifecycle: each commit is one legal atomic move.
ImplementsLifecycle == Lifecycle!Spec

=============================================================================
