------------------------- MODULE ItemServiceProofs -------------------------
(***************************************************************************)
(* Theorems about ItemService for every set of items, threads, details and *)
(* requests.                                                               *)
(***************************************************************************)
EXTENDS ItemService, FiniteSetTheorems, TLAPS

-----------------------------------------------------------------------------
(* Lemmas about sequences and about the service's rules. *)

LEMMA AppendFacts ==
    ASSUME NEW S, NEW s \in Seq(S), NEW e \in S
    PROVE  /\ Append(s, e) \in Seq(S)
           /\ Append(s, e) # <<>>
           /\ Len(Append(s, e)) = Len(s) + 1
           /\ DOMAIN Append(s, e) = 1..(Len(s) + 1)
           /\ LastOf(Append(s, e)) = e
           /\ \A k \in DOMAIN s : Append(s, e)[k] = s[k]
           /\ Append(s, e)[Len(s) + 1] = e
    BY DEF LastOf

LEMMA EntryFacts ==
    ASSUME NEW h \in Seq(HistoryEntry), NEW k \in DOMAIN h
    PROVE  h[k] \in HistoryEntry /\ h[k].at \in Nat
  <1>1. h[k] \in HistoryEntry
    OBVIOUS
  <1>2. QED
    BY <1>1 DEF HistoryEntry

LEMMA NoRequestFacts == /\ NoRequest \notin Requests
                        /\ ItemsOf(NoRequest) = {}
    BY RequestsAssumption DEF NoRequest, Request, Blank, ItemsOf

\* What a request may ask for is a status; what it changes a row to is a row.
LEMMA TargetIsStatus ==
    ASSUME NEW r \in Requests, r.op # "update"
    PROVE  Target(r) \in Statuses
    BY RequestsAssumption DEF Request, WellFormed, Target, Statuses, OpenableStatuses

LEMMA RowTypes ==
    ASSUME NEW r \in Requests, NEW old \in Row, NEW current \in Row
    PROVE  /\ Changed(r, old) \in Row
           /\ Overwrite(r, old, current) \in Row
    BY TargetIsStatus, RequestsAssumption
       DEF Request, WellFormed, Changed, Overwrite, Row

LEMMA HeldItems ==
    ASSUME TypeOK, NEW t \in Txns, Running(t), flushed[t] <= Len(req[t].items)
    PROVE  /\ req[t] \in Requests
           /\ Held(t) \subseteq ItemsOf(req[t])
           /\ ItemsOf(req[t]) \subseteq Items
  <1>1. req[t] \in Requests
    BY DEF TypeOK, Running
  <1>2. req[t].items \in Seq(Items)
    BY <1>1, RequestsAssumption DEF Request
  <1>3. QED
    BY <1>1, <1>2 DEF Held, ItemsOf, TypeOK

-----------------------------------------------------------------------------
(* The inductive invariant.                                                *)
(*                                                                         *)
(* A property of the tables alone is not inductive: what a commit writes   *)
(* is computed from rows read earlier.  So it is strengthened with what is *)
(* known of each open transaction: the rows it read were rows of existing  *)
(* items, no newer than the item's newest event and on record before the   *)
(* date of its own change, and every item it has flushed was validated     *)
(* against them and its change dated.                                      *)

\* The earliest date the change of item i by thread t can have.
When(t, i) == IF stamp[t][i] = 0 THEN clock[i] + 1 ELSE stamp[t][i]

OpenTransaction(t) ==
    /\ flushed[t] <= Len(req[t].items)
    /\ \A i \in ItemsOf(req[t]) :
          /\ row[i].status \in Statuses
          /\ snap[t][i].status \in Statuses
          /\ snap[t][i].version <= Len(outbox[i])
          /\ stamp[t][i] <= clock[i]
          /\ Reached(history[i], snap[t][i].status, When(t, i))
    /\ \A i \in Held(t) :
          /\ Allowed(req[t], snap[t][i])
          /\ Audits(req[t]) => stamp[t][i] # 0

IdleThread(t) == flushed[t] = 0 /\ \A i \in Items : stamp[t][i] = 0

TransactionsOK ==
    \A t \in Txns :
        /\ ~Running(t) => IdleThread(t)
        /\ Running(t) => OpenTransaction(t)

\* An item without a row has no history and no event; any other has a status.
RowsOK ==
    \A i \in Items :
        \/ row[i] = NoRow /\ history[i] = <<>>
        \/ row[i].status \in Statuses

\* No entry is dated after the last date given.
DatesOK ==
    \A i \in Items : \A k \in DOMAIN history[i] : history[i][k].at <= clock[i]

TablesOK ==
    /\ RowsOK
    /\ DatesOK
    /\ NewestEventHasRowVersion
    /\ TrailIsGrounded
    /\ AuditIsLegal
    /\ VersionsNeverSkip

IInv == TypeOK /\ TransactionsOK /\ TablesOK

LEMMA InitIInv == Init => IInv
  <1> SUFFICES ASSUME Init PROVE IInv
    OBVIOUS
  <1> USE DEF Init, NoRow, Blank
  <1>1. TypeOK
    BY BoundAssumption DEF TypeOK, Row, Event
  <1>2. TransactionsOK
    BY DEF TransactionsOK, Running, IdleThread
  <1>3. TablesOK
    BY DEF TablesOK, RowsOK, DatesOK, NewestEventHasRowVersion, TrailIsGrounded, Reached,
           AuditIsLegal, VersionsNeverSkip
  <1>4. QED
    BY <1>1, <1>2, <1>3 DEF IInv

\* The tables are as before: what was true of them still is.
LEMMA SameTables ==
    ASSUME TablesOK, UNCHANGED <<row, history, outbox, clock>>
    PROVE  TablesOK'
    BY DEF TablesOK, RowsOK, DatesOK, NewestEventHasRowVersion, TrailIsGrounded, Reached,
           AuditIsLegal, VersionsNeverSkip, LastOf

LEMMA FinishTypes ==
    ASSUME TypeOK, NEW t \in Txns, Finish(t)
    PROVE  /\ req' \in [Txns -> Requests \cup {NoRequest}]
           /\ snap' \in [Txns -> [Items -> Row]]
           /\ stamp' \in [Txns -> [Items -> Nat]]
           /\ flushed' \in [Txns -> Nat]
    BY DEF TypeOK, Finish, NoRow, Row, Blank

\* What is on record stays on record.
LEMMA ReachedStays ==
    ASSUME NEW i, NEW e, history[i] \in Seq(HistoryEntry), e \in HistoryEntry,
           history'[i] = history[i] \/ history'[i] = Append(history[i], e)
    PROVE  \A s, n : Reached(history[i], s, n) => Reached(history'[i], s, n)
  <1>1. \A k \in DOMAIN history[i] : k \in DOMAIN history'[i] /\ history'[i][k] = history[i][k]
    BY AppendFacts
  <1>2. QED
    BY <1>1 DEF Reached

\* Ending one transaction leaves the others as they were.
LEMMA FinishTransactions ==
    ASSUME IInv, NEW t \in Txns, Finish(t), clock' = clock,
           \A i \in Items : \A s, n : Reached(history[i], s, n) => Reached(history'[i], s, n),
           \A i \in Items : /\ row[i].status \in Statuses => row'[i].status \in Statuses
                            /\ Len(outbox[i]) <= Len(outbox'[i]),
           outbox' \in [Items -> Seq(Event)]
    PROVE  TransactionsOK'
  <1> SUFFICES ASSUME NEW u \in Txns
               PROVE  /\ ~Running(u)' => IdleThread(u)'
                      /\ Running(u)' => OpenTransaction(u)'
    BY DEF TransactionsOK
  <1>1. CASE u = t
    BY <1>1 DEF Finish, Running, IInv, TypeOK, IdleThread
  <1>2. CASE u # t
    <2>1. /\ req'[u] = req[u]
          /\ snap'[u] = snap[u]
          /\ stamp'[u] = stamp[u]
          /\ flushed'[u] = flushed[u]
      BY <1>2 DEF Finish, IInv, TypeOK
    <2>2. CASE ~Running(u)
      BY <2>1, <2>2 DEF Running, IInv, TransactionsOK, IdleThread
    <2>3. CASE Running(u)
      <3>1. OpenTransaction(u)
        BY <2>3 DEF IInv, TransactionsOK
      <3>2. ItemsOf(req[u]) \subseteq Items
        BY <3>1, <2>3, HeldItems DEF IInv, OpenTransaction
      <3>3. Held(u)' = Held(u)
        BY <2>1 DEF Held
      <3>4. \A i \in ItemsOf(req[u]) :
               /\ snap[u][i].version \in Nat
               /\ Len(outbox[i]) \in Nat
               /\ Len(outbox'[i]) \in Nat
        BY <3>2 DEF IInv, TypeOK, Row
      <3>5. OpenTransaction(u)'
        <4>1. \A i \in ItemsOf(req[u]) :
                 /\ When(u, i)' = When(u, i)
                 /\ Reached(history[i], snap[u][i].status, When(u, i))
                       => Reached(history'[i], snap[u][i].status, When(u, i)')
          <5>1. \A i : When(u, i)' = When(u, i)
            BY <2>1 DEF When
          <5>2. QED
            BY <3>2, <5>1
        <4>2. QED
          BY <2>1, <3>1, <3>2, <3>3, <3>4, <4>1 DEF OpenTransaction, Reached
      <3>6. QED
        BY <2>1, <2>3, <3>5 DEF Running
    <2>4. QED
      BY <2>2, <2>3
  <1>3. QED
    BY <1>1, <1>2

LEMMA DiscardIInv ==
    ASSUME IInv, NEW t \in Txns, Discard(t)
    PROVE  IInv'
  <1>1. TypeOK'
    BY FinishTypes DEF IInv, Discard, TypeOK
  <1>2. TransactionsOK'
    <2>1. \A i \in Items : Len(outbox[i]) \in Nat
      BY DEF IInv, TypeOK
    <2>2. QED
      BY <1>1, <2>1, FinishTransactions DEF Discard, TypeOK, Reached
  <1>3. TablesOK'
    BY SameTables DEF IInv, Discard
  <1>4. QED
    BY <1>1, <1>2, <1>3 DEF IInv

LEMMA CreateIInv ==
    ASSUME IInv, NEW i \in Items, NEW d \in Details, Create(i, d)
    PROVE  IInv'
  <1> DEFINE new == [status |-> "AVAILABLE", version |-> 1, details |-> d]
             entry == [from |-> Blank, to |-> "AVAILABLE", at |-> clock[i] + 1]
  <1>0. clock[i] \in Nat
    BY DEF IInv, TypeOK
  <1>1. new \in Row /\ entry \in HistoryEntry
    BY <1>0 DEF Row, HistoryEntry, Statuses
  <1>2. /\ row' = [row EXCEPT ![i] = new]
        /\ history' = [history EXCEPT ![i] = Append(history[i], entry)]
        /\ outbox' = [outbox EXCEPT ![i] = Append(outbox[i], new)]
        /\ clock' = [clock EXCEPT ![i] = clock[i] + 1]
        /\ UNCHANGED <<req, snap, stamp, flushed, admitted>>
        /\ row[i] = NoRow
    BY DEF Create
  <1>3. /\ history[i] \in Seq(HistoryEntry)
        /\ outbox[i] \in Seq(Event)
    BY DEF IInv, TypeOK
  <1>4. TypeOK'
    <2>1. /\ Append(history[i], entry) \in Seq(HistoryEntry)
          /\ Append(outbox[i], new) \in Seq(Event)
      BY <1>1, <1>3, AppendFacts DEF Event
    <2> HIDE DEF new, entry
    <2>2. QED
      BY <1>0, <1>1, <1>2, <2>1 DEF IInv, TypeOK
  <1>5. \A j \in Items : /\ j # i => /\ row'[j] = row[j]
                                    /\ history'[j] = history[j]
                                    /\ outbox'[j] = outbox[j]
                                    /\ clock'[j] = clock[j]
                         /\ row'[j].status = IF j = i THEN "AVAILABLE" ELSE row[j].status
                         /\ Len(outbox[j]) <= Len(outbox'[j])
    BY <1>1, <1>2, <1>3, AppendFacts DEF IInv, TypeOK, Event
  <1>6. TransactionsOK'
    <2> SUFFICES ASSUME NEW u \in Txns, Running(u)
                 PROVE  OpenTransaction(u)'
      BY <1>2 DEF IInv, TransactionsOK, Running, IdleThread
    <2>1. OpenTransaction(u) /\ ItemsOf(req[u]) \subseteq Items
      BY HeldItems DEF IInv, TransactionsOK, OpenTransaction
    <2>2. \A j \in ItemsOf(req[u]) : /\ snap[u][j].version \in Nat
                                     /\ Len(outbox[j]) \in Nat
                                     /\ Len(outbox'[j]) \in Nat
      <3>1. /\ snap[u] \in [Items -> Row]
            /\ outbox \in [Items -> Seq(Event)]
            /\ outbox' \in [Items -> Seq(Event)]
        BY <1>4 DEF IInv, TypeOK
      <3>2. QED
        BY <2>1, <3>1 DEF Row
    <2>3. Held(u)' = Held(u)
      BY <1>2 DEF Held
    <2>4. ASSUME NEW j \in ItemsOf(req[u])
          PROVE  /\ row'[j].status \in Statuses
                 /\ snap[u][j].status \in Statuses
                 /\ snap[u][j].version <= Len(outbox'[j])
                 /\ stamp[u][j] <= clock'[j]
                 /\ Reached(history'[j], snap[u][j].status, When(u, j)')
      <3>1. j # i /\ j \in Items
        BY <1>2, <2>1 DEF OpenTransaction, NoRow, Blank, Statuses
      <3>2. row'[j] = row[j] /\ outbox'[j] = outbox[j] /\ history'[j] = history[j] /\ clock'[j] = clock[j]
        BY <1>5, <3>1
      <3>3. When(u, j)' = When(u, j)
        BY <1>2, <3>2 DEF When
      <3>4. QED
        BY <1>2, <2>1, <3>2, <3>3 DEF OpenTransaction, Reached
    <2>5. QED
      BY <1>2, <2>1, <2>3, <2>4 DEF OpenTransaction, Reached
  <1>7. TablesOK'
    <2>1. RowsOK'
      BY <1>5 DEF IInv, TablesOK, RowsOK, Statuses
    <2>2. NewestEventHasRowVersion'
      <3>1. /\ outbox'[i] # <<>> /\ LastOf(outbox'[i]) = new
            /\ row'[i] = new
        <4> HIDE DEF new, entry
        <4>1. outbox'[i] = Append(outbox[i], new) /\ row'[i] = new
          BY <1>2 DEF IInv, TypeOK
        <4>2. QED
          BY <1>1, <1>3, <4>1, AppendFacts DEF Event
      <3> HIDE DEF new, entry
      <3>2. QED
        BY <1>5, <3>1 DEF IInv, TablesOK, NewestEventHasRowVersion, LastOf
    <2>3. TrailIsGrounded' /\ DatesOK'
      <3>1. ASSUME NEW j \in Items, j # i
            PROVE  /\ row'[j] # NoRow => \E k \in DOMAIN history'[j] : history'[j][k].to = row'[j].status
                   /\ \A k \in DOMAIN history'[j] :
                         /\ history'[j][k].from = Blank \/ Reached(history'[j], history'[j][k].from, history'[j][k].at)
                         /\ history'[j][k].at <= clock'[j]
        BY <1>5, <3>1 DEF IInv, TablesOK, TrailIsGrounded, DatesOK, Reached
      <3>2. /\ history'[i] = <<entry>>
            /\ clock'[i] = clock[i] + 1
        <4>1. history[i] = <<>>
          BY <1>2 DEF IInv, TablesOK, RowsOK, NoRow, Blank, Statuses
        <4>2. QED
          BY <1>2, <4>1 DEF IInv, TypeOK
      <3>3. QED
        BY <1>0, <1>5, <3>1, <3>2 DEF TrailIsGrounded, DatesOK, Reached
    <2>4. AuditIsLegal'
      <3>1. LegalMove(entry)
        BY DEF LegalMove
      <3>2. ASSUME NEW j \in Items, NEW k \in DOMAIN history'[j]
            PROVE  LegalMove(history'[j][k])
        BY <1>1, <1>2, <1>3, <1>5, <3>1, AppendFacts
           DEF IInv, TablesOK, AuditIsLegal, TypeOK
      <3>3. QED
        BY <3>2 DEF AuditIsLegal, LegalMove
    <2>5. VersionsNeverSkip'
      <3>1. Len(outbox'[i]) = Len(outbox[i]) + 1 /\ Len(outbox[i]) \in Nat /\ row'[i].version = 1
        BY <1>1, <1>2, <1>3, AppendFacts DEF IInv, TypeOK, Event
      <3>2. QED
        BY <3>1, <1>5 DEF IInv, TablesOK, VersionsNeverSkip
    <2>6. QED
      BY <2>1, <2>2, <2>3, <2>4, <2>5 DEF TablesOK
  <1>8. QED
    BY <1>4, <1>6, <1>7 DEF IInv

LEMMA BeginIInv ==
    ASSUME IInv, NEW t \in Txns, NEW r \in Requests, Begin(t, r)
    PROVE  IInv'
  <1>1. /\ ~Running(t)
        /\ \A i \in ItemsOf(r) : row[i] # NoRow
        /\ req' = [req EXCEPT ![t] = r]
        /\ snap' = [snap EXCEPT ![t] = [i \in Items |-> IF i \in ItemsOf(r) THEN row[i] ELSE NoRow]]
        /\ UNCHANGED <<row, history, outbox, stamp, flushed, clock>>
    BY DEF Begin
  <1>2. ItemsOf(r) \subseteq Items
    BY RequestsAssumption DEF Request, ItemsOf
  <1>3. TypeOK'
    <2>1. [i \in Items |-> IF i \in ItemsOf(r) THEN row[i] ELSE NoRow] \in [Items -> Row]
      BY DEF IInv, TypeOK, NoRow, Row
    <2>2. admitted' \in 0..MaxRequests
      BY BoundAssumption DEF Begin, IInv, TypeOK
    <2>3. QED
      BY <1>1, <2>1, <2>2 DEF IInv, TypeOK
  <1>4. TransactionsOK'
    <2> SUFFICES ASSUME NEW u \in Txns
                 PROVE  /\ ~Running(u)' => IdleThread(u)'
                        /\ Running(u)' => OpenTransaction(u)'
      BY DEF TransactionsOK
    <2>1. CASE u = t
      <3>1. flushed'[u] = 0 /\ Held(u)' = {} /\ \A i \in Items : stamp[u][i] = 0
        BY <1>1, <2>1 DEF IInv, TransactionsOK, IdleThread, Held
      <3>2. r.items \in Seq(Items)
        BY RequestsAssumption DEF Request
      <3>3. \A i \in ItemsOf(r) : /\ row[i].status \in Statuses
                                  /\ snap'[u][i] = row[i]
                                  /\ row[i].version <= Len(outbox[i])
                                  /\ stamp[u][i] <= clock[i]
                                  /\ Reached(history[i], row[i].status, When(u, i))
        <4> SUFFICES ASSUME NEW i \in ItemsOf(r)
                     PROVE  /\ row[i].status \in Statuses
                            /\ snap'[u][i] = row[i]
                            /\ row[i].version <= Len(outbox[i])
                            /\ stamp[u][i] <= clock[i]
                            /\ Reached(history[i], row[i].status, When(u, i))
          OBVIOUS
        <4>1. i \in Items /\ clock[i] \in Nat /\ row[i] # NoRow /\ history[i] \in Seq(HistoryEntry)
          BY <1>1, <1>2 DEF IInv, TypeOK
        <4>2. When(u, i) = clock[i] + 1 /\ stamp[u][i] <= clock[i]
          BY <3>1, <4>1 DEF When
        <4>3. Reached(history[i], row[i].status, clock[i] + 1)
          <5>1. PICK k \in DOMAIN history[i] : history[i][k].to = row[i].status
            BY <4>1 DEF IInv, TablesOK, TrailIsGrounded
          <5>2. history[i][k].at <= clock[i] /\ history[i][k].at \in Nat
            BY <4>1, <5>1, EntryFacts DEF IInv, TablesOK, DatesOK
          <5>3. QED
            BY <4>1, <5>1, <5>2 DEF Reached
        <4>4. QED
          BY <1>1, <1>2, <2>1, <4>1, <4>2, <4>3 DEF IInv, TypeOK, TablesOK, RowsOK, VersionsNeverSkip
      <3>4. req'[u] = r
        BY <1>1, <2>1 DEF IInv, TypeOK
      <3>5. \A i : When(u, i)' = When(u, i)
        BY <1>1 DEF When
      <3>6. OpenTransaction(u)'
        BY <1>1, <3>1, <3>2, <3>3, <3>4, <3>5 DEF OpenTransaction, Reached
      <3>7. Running(u)'
        BY <3>4, NoRequestFacts DEF Running
      <3>8. QED
        BY <3>6, <3>7
    <2>2. CASE u # t
      <3>1. req'[u] = req[u] /\ snap'[u] = snap[u] /\ Held(u)' = Held(u)
        BY <1>1, <2>2 DEF IInv, TypeOK, Held
      <3>2. QED
        BY <1>1, <3>1 DEF IInv, TransactionsOK, Running, OpenTransaction, IdleThread, Reached, When
    <2>3. QED
      BY <2>1, <2>2
  <1>5. TablesOK'
    BY <1>1, SameTables DEF IInv
  <1>6. QED
    BY <1>3, <1>4, <1>5 DEF IInv

\* What dating a change does: one item of the request gets the next date.
LEMMA StampFacts ==
    ASSUME IInv, NEW t \in Txns, Stamp(t)
    PROVE  \E i \in ItemsOf(req[t]) :
              /\ i \in Items /\ clock[i] \in Nat
              /\ Running(t)
              /\ stamp[t][i] = 0
              /\ clock' = [clock EXCEPT ![i] = clock[i] + 1]
              /\ stamp' = [stamp EXCEPT ![t] = [stamp[t] EXCEPT ![i] = clock[i] + 1]]
              /\ UNCHANGED <<row, history, outbox, req, snap, flushed, admitted>>
  <1>1. Running(t) /\ OpenTransaction(t) /\ req[t] \in Requests
    BY HeldItems DEF Stamp, IInv, TransactionsOK, OpenTransaction
  <1>2. /\ req[t].items \in Seq(Items)
        /\ flushed[t] \in Nat /\ flushed[t] <= Len(req[t].items)
        /\ flushed[t] # Len(req[t].items)
    BY <1>1, RequestsAssumption DEF IInv, TypeOK, Request, OpenTransaction, Stamp, FlushedAll
  <1>3. flushed[t] + 1 \in DOMAIN req[t].items
    BY <1>2
  <1>4. NextItem(t) \in ItemsOf(req[t]) /\ NextItem(t) \in Items
    BY <1>2, <1>3 DEF NextItem, ItemsOf
  <1>5. QED
    BY <1>1, <1>4 DEF Stamp, Dated, IInv, TypeOK

LEMMA StampIInv ==
    ASSUME IInv, NEW t \in Txns, Stamp(t)
    PROVE  IInv'
  <1>1. PICK i \in ItemsOf(req[t]) :
              /\ i \in Items /\ clock[i] \in Nat
              /\ Running(t)
              /\ stamp[t][i] = 0
              /\ clock' = [clock EXCEPT ![i] = clock[i] + 1]
              /\ stamp' = [stamp EXCEPT ![t] = [stamp[t] EXCEPT ![i] = clock[i] + 1]]
              /\ UNCHANGED <<row, history, outbox, req, snap, flushed, admitted>>
    BY StampFacts
  <1>2. TypeOK'
    BY <1>1 DEF IInv, TypeOK
  <1>3. ASSUME NEW j \in Items
        PROVE  clock[j] \in Nat /\ clock'[j] \in Nat /\ clock[j] <= clock'[j]
    BY <1>1 DEF IInv, TypeOK
  <1>4. TransactionsOK'
    <2> SUFFICES ASSUME NEW u \in Txns
                 PROVE  /\ ~Running(u)' => IdleThread(u)'
                        /\ Running(u)' => OpenTransaction(u)'
      BY DEF TransactionsOK
    <2>1. CASE ~Running(u)
      BY <1>1, <2>1 DEF IInv, TypeOK, TransactionsOK, Running, IdleThread
    <2>2. CASE Running(u)
      <3>1. OpenTransaction(u) /\ ItemsOf(req[u]) \subseteq Items
        BY <2>2, HeldItems DEF IInv, TransactionsOK, OpenTransaction
      <3>2. Held(u)' = Held(u) /\ ItemsOf(req[u])' = ItemsOf(req[u])
        BY <1>1 DEF Held, ItemsOf
      <3>3. Held(u) \subseteq Items
        BY <2>2, <3>1, HeldItems DEF IInv, OpenTransaction
      <3>4. ASSUME NEW j \in Items
            PROVE  /\ stamp'[u][j] = IF u = t /\ j = i THEN clock[i] + 1 ELSE stamp[u][j]
                   /\ clock'[j] = IF j = i THEN clock[j] + 1 ELSE clock[j]
                   /\ stamp[u][j] \in Nat
        BY <1>1 DEF IInv, TypeOK
      <3>5. ASSUME NEW j \in ItemsOf(req[u])
            PROVE  stamp'[u][j] <= clock'[j] /\ Reached(history'[j], snap[u][j].status, When(u, j)')
        <4>1. /\ stamp[u][j] <= clock[j]
              /\ Reached(history[j], snap[u][j].status, When(u, j))
              /\ j \in Items
          BY <3>1 DEF OpenTransaction
        <4>2. stamp'[u][j] <= clock'[j]
          BY <1>1, <1>3, <3>4, <4>1
        <4>3. When(u, j) <= When(u, j)' /\ When(u, j) \in Nat /\ When(u, j)' \in Nat
          BY <1>1, <1>3, <3>4, <4>1 DEF When
        <4>4. history[j] \in Seq(HistoryEntry)
          BY <4>1 DEF IInv, TypeOK
        <4>5. PICK k \in DOMAIN history[j] :
                 history[j][k].to = snap[u][j].status /\ history[j][k].at < When(u, j)
          BY <4>1 DEF Reached
        <4>6. history[j][k].at \in Nat
          BY <4>4, EntryFacts
        <4>7. history[j][k].at < When(u, j)'
          BY <4>3, <4>5, <4>6
        <4>8. QED
          BY <1>1, <4>2, <4>5, <4>7 DEF Reached
      <3>6. ASSUME NEW j \in Held(u), Audits(req[u])
            PROVE  stamp'[u][j] # 0
        <4>1. stamp[u][j] # 0 /\ j \in Items
          BY <3>1, <3>3, <3>6 DEF OpenTransaction
        <4>2. QED
          BY <1>1, <3>4, <4>1
      <3>7. OpenTransaction(u)'
        BY <1>1, <3>1, <3>2, <3>5, <3>6 DEF OpenTransaction, Reached
      <3>8. QED
        BY <1>1, <2>2, <3>7 DEF Running
    <2>3. Running(u)' <=> Running(u)
      BY <1>1 DEF Running
    <2>4. QED
      BY <2>1, <2>2, <2>3
  <1>5. TablesOK'
    <2>1. DatesOK'
      <3> SUFFICES ASSUME NEW j \in Items, NEW k \in DOMAIN history[j]
                   PROVE  history[j][k].at <= clock'[j]
        BY <1>1 DEF DatesOK
      <3>1. history[j] \in Seq(HistoryEntry) /\ history[j][k].at <= clock[j]
        BY DEF IInv, TypeOK, TablesOK, DatesOK
      <3>2. history[j][k].at \in Nat
        BY <3>1, EntryFacts
      <3>3. QED
        BY <1>3, <3>1, <3>2
    <2>2. QED
      BY <1>1, <2>1 DEF IInv, TablesOK, RowsOK, NewestEventHasRowVersion, TrailIsGrounded, Reached,
                        AuditIsLegal, VersionsNeverSkip, LastOf
  <1>6. QED
    BY <1>2, <1>4, <1>5 DEF IInv

LEMMA FlushIInv ==
    ASSUME IInv, NEW t \in Txns, Flush(t)
    PROVE  IInv'
  <1>1. /\ Running(t)
        /\ ~FlushedAll(t)
        /\ Allowed(req[t], snap[t][NextItem(t)])
        /\ Dated(t)
        /\ flushed' = [flushed EXCEPT ![t] = flushed[t] + 1]
        /\ UNCHANGED <<row, history, outbox, req, snap, stamp, clock, admitted>>
    BY DEF Flush
  <1>2. TypeOK'
    BY <1>1 DEF IInv, TypeOK
  <1>3. TransactionsOK'
    <2> SUFFICES ASSUME NEW u \in Txns
                 PROVE  /\ ~Running(u)' => IdleThread(u)'
                        /\ Running(u)' => OpenTransaction(u)'
      BY DEF TransactionsOK
    <2>1. CASE u = t
      <3>1. OpenTransaction(t) /\ req[t] \in Requests
        BY <1>1, HeldItems DEF IInv, TransactionsOK, OpenTransaction
      <3>2. flushed[t] \in Nat /\ Len(req[t].items) \in Nat
        BY <3>1, RequestsAssumption DEF IInv, TypeOK, Request
      <3>3. flushed'[t] = flushed[t] + 1 /\ flushed'[t] <= Len(req[t].items)
        BY <1>1, <3>1, <3>2 DEF IInv, TypeOK, OpenTransaction, FlushedAll
      <3>4. Held(t)' = Held(t) \cup {NextItem(t)}
        BY <1>1, <3>2, <3>3 DEF Held, NextItem
      <3>5. QED
        BY <1>1, <2>1, <3>1, <3>3, <3>4 DEF OpenTransaction, Running, Dated, Reached, When
    <2>2. CASE u # t
      <3>1. flushed'[u] = flushed[u] /\ Held(u)' = Held(u)
        BY <1>1, <2>2 DEF IInv, TypeOK, Held
      <3>2. QED
        BY <1>1, <3>1 DEF IInv, TransactionsOK, Running, OpenTransaction, IdleThread, Reached, When
    <2>3. QED
      BY <2>1, <2>2
  <1>4. TablesOK'
    BY <1>1, SameTables DEF IInv
  <1>5. QED
    BY <1>2, <1>3, <1>4 DEF IInv

\* What a commit does to each item, for the invariants of the tables.
LEMMA CommitFacts ==
    ASSUME IInv, NEW t \in Txns, Commit(t)
    PROVE  /\ req[t] \in Requests
           /\ Held(t) = ItemsOf(req[t])
           /\ Held(t) \subseteq Items
           /\ \A i \in Items \ Held(t) :
                 /\ row'[i] = row[i]
                 /\ history'[i] = history[i]
                 /\ outbox'[i] = outbox[i]
           /\ \A i \in Held(t) :
                 /\ snap[t][i] \in Row
                 /\ row[i] \in Row
                 /\ row[i].status \in Statuses
                 /\ snap[t][i].status \in Statuses
                 /\ snap[t][i].version <= Len(outbox[i])
                 /\ Allowed(req[t], snap[t][i])
                 /\ stamp[t][i] \in Nat /\ stamp[t][i] <= clock[i]
                 /\ req[t].op # "update" => Reached(history[i], snap[t][i].status, stamp[t][i])
                 /\ row'[i] = Overwrite(req[t], snap[t][i], row[i])
                 /\ outbox'[i] = Append(outbox[i], Changed(req[t], snap[t][i]))
                 /\ IF req[t].op = "update"
                    THEN history'[i] = history[i]
                    ELSE history'[i] = Append(history[i], EntryOf(t, i))
  <1>1. OpenTransaction(t)
    BY DEF Commit, IInv, TransactionsOK
  <1>2. /\ req[t] \in Requests
        /\ Held(t) \subseteq Items
    BY <1>1, HeldItems DEF Commit, IInv, OpenTransaction
  <1>3. Held(t) = ItemsOf(req[t])
    <2>1. req[t].items \in Seq(Items)
      BY <1>2, RequestsAssumption DEF Request
    <2>2. QED
      BY <2>1 DEF Commit, FlushedAll, Held, ItemsOf
  <1>4. \A i \in Held(t) : snap[t][i] \in Row /\ row[i] \in Row
    BY <1>2 DEF IInv, TypeOK
  <1>5. \A i \in Items \ Held(t) : /\ row'[i] = row[i]
                                  /\ history'[i] = history[i]
                                  /\ outbox'[i] = outbox[i]
    BY DEF Commit, Publish
  <1>6. \A i \in Held(t) :
          /\ row'[i] = Overwrite(req[t], snap[t][i], row[i])
          /\ outbox'[i] = Append(outbox[i], Changed(req[t], snap[t][i]))
          /\ IF req[t].op = "update"
             THEN history'[i] = history[i]
             ELSE history'[i] = Append(history[i], EntryOf(t, i))
    BY <1>2 DEF Commit, Publish, Audits
  <1>7. \A i \in Held(t) :
          /\ row[i].status \in Statuses
          /\ snap[t][i].status \in Statuses
          /\ snap[t][i].version <= Len(outbox[i])
          /\ Allowed(req[t], snap[t][i])
          /\ stamp[t][i] \in Nat /\ stamp[t][i] <= clock[i]
          /\ req[t].op # "update" => Reached(history[i], snap[t][i].status, stamp[t][i])
    <2>1. \A i \in Held(t) : stamp[t][i] \in Nat
      BY <1>2 DEF IInv, TypeOK
    <2>2. QED
      BY <1>1, <1>3, <2>1 DEF OpenTransaction, When, Audits
  <1>8. QED
    BY <1>2, <1>3, <1>4, <1>5, <1>6, <1>7

\* What a change of status writes is an entry.
LEMMA EntryTypes ==
    ASSUME IInv, NEW t \in Txns, Commit(t), req[t].op # "update", NEW i \in Held(t)
    PROVE  /\ EntryOf(t, i) \in HistoryEntry
           /\ EntryOf(t, i).from = snap[t][i].status
           /\ EntryOf(t, i).to = Target(req[t])
           /\ EntryOf(t, i).at = stamp[t][i]
  <1>1. snap[t][i].status \in Statuses /\ Target(req[t]) \in Statuses /\ stamp[t][i] \in Nat
    BY CommitFacts, TargetIsStatus
  <1>2. QED
    BY <1>1 DEF EntryOf, HistoryEntry

\* The entry a valid change of status leaves is a legal move.
LEMMA AllowedMoveIsLegal ==
    ASSUME NEW r \in Requests, NEW old \in Row, old.status \in Statuses,
           r.op # "update", Allowed(r, old),
           NEW e, e.from = old.status, e.to = Target(r)
    PROVE  LegalMove(e)
  <1>1. ValidTransition(r, old)
    BY DEF Allowed
  <1>2. CASE r.op = "status"
    BY <1>1, <1>2 DEF ValidTransition, LegalMove
  <1>3. CASE r.op = "open"
    BY <1>1, <1>3 DEF ValidTransition, LegalMove, Target
  <1>4. CASE r.op = "cancel"
    <2>1. Target(r) \in OpenableStatuses
      BY <1>4, RequestsAssumption DEF WellFormed, Target
    <2>2. old.status = "IN_RECOVERY"
      BY <1>1, <1>4 DEF ValidTransition
    <2>3. QED
      BY <2>1, <2>2 DEF LegalMove
  <1>5. CASE r.op = "complete"
    BY <1>1, <1>5 DEF ValidTransition, LegalMove, Target
  <1>6. QED
    BY <1>2, <1>3, <1>4, <1>5, RequestsAssumption DEF Request

LEMMA CommitTypeOK ==
    ASSUME IInv, NEW t \in Txns, Commit(t)
    PROVE  TypeOK'
  <1> DEFINE r == req[t]
  <1>1. r \in Requests
    BY CommitFacts
  <1>2. ASSUME NEW i \in Items
        PROVE  row'[i] \in Row /\ history'[i] \in Seq(HistoryEntry) /\ outbox'[i] \in Seq(Event)
    <2>1. CASE i \notin Held(t)
      BY <2>1, CommitFacts DEF IInv, TypeOK
    <2>2. CASE i \in Held(t)
      <3>1. Overwrite(r, snap[t][i], row[i]) \in Row /\ Changed(r, snap[t][i]) \in Event
        BY <2>2, <1>1, CommitFacts, RowTypes DEF Event
      <3>2. r.op # "update" => EntryOf(t, i) \in HistoryEntry
        BY <2>2, EntryTypes
      <3>3. history[i] \in Seq(HistoryEntry) /\ outbox[i] \in Seq(Event)
        BY DEF IInv, TypeOK
      <3> DEFINE event == Changed(r, snap[t][i])
                 entry == EntryOf(t, i)
      <3>4. /\ row'[i] = Overwrite(r, snap[t][i], row[i])
            /\ outbox'[i] = Append(outbox[i], event)
            /\ history'[i] = IF r.op = "update" THEN history[i] ELSE Append(history[i], entry)
        BY <2>2, CommitFacts
      <3> HIDE DEF event, entry
      <3>5. Append(outbox[i], event) \in Seq(Event)
        BY <3>1, <3>3, AppendFacts DEF event
      <3>6. r.op # "update" => Append(history[i], entry) \in Seq(HistoryEntry)
        BY <3>2, <3>3, AppendFacts DEF entry
      <3>7. QED
        BY <3>1, <3>3, <3>4, <3>5, <3>6
    <2>3. QED
      BY <2>1, <2>2
  <1>3. /\ row' = [i \in Items |-> row'[i]]
        /\ history' = [i \in Items |-> history'[i]]
        /\ outbox' = [i \in Items |-> outbox'[i]]
    BY DEF Commit, Publish
  <1>4. row' \in [Items -> Row] /\ history' \in [Items -> Seq(HistoryEntry)] /\ outbox' \in [Items -> Seq(Event)]
    BY <1>2, <1>3
  <1>5. QED
    BY <1>4, FinishTypes DEF Commit, IInv, TypeOK

LEMMA CommitTablesOK ==
    ASSUME IInv, NEW t \in Txns, Commit(t)
    PROVE  TablesOK'
  <1> DEFINE r == req[t]
  <1>1. r \in Requests
    BY CommitFacts
  <1>2. TypeOK /\ TypeOK' /\ TablesOK
    BY CommitTypeOK DEF IInv
  <1>3. ASSUME NEW i \in Held(t)
        PROVE  /\ i \in Items
               /\ outbox'[i] # <<>>
               /\ LastOf(outbox'[i]).version = row'[i].version
               /\ Len(outbox'[i]) = Len(outbox[i]) + 1
               /\ Len(outbox[i]) \in Nat
               /\ row'[i].version <= Len(outbox[i]) + 1
               /\ row'[i].status = IF r.op = "update" THEN row[i].status ELSE Target(r)
    <2>1. i \in Items /\ outbox[i] \in Seq(Event) /\ Changed(r, snap[t][i]) \in Event
      BY <1>1, <1>2, CommitFacts, RowTypes DEF TypeOK, Event
    <2>2. /\ outbox'[i] # <<>>
          /\ Len(outbox'[i]) = Len(outbox[i]) + 1
          /\ LastOf(outbox'[i]) = Changed(r, snap[t][i])
      <3>1. outbox'[i] = Append(outbox[i], Changed(r, snap[t][i]))
        BY CommitFacts
      <3> HIDE DEF r
      <3>2. QED
        BY <2>1, <3>1, AppendFacts
    <2>3. row'[i] = Overwrite(r, snap[t][i], row[i])
      BY CommitFacts
    <2>4. snap[t][i].version <= Len(outbox[i]) /\ snap[t][i].version \in Nat /\ Len(outbox[i]) \in Nat
      <3>1. snap[t][i].version <= Len(outbox[i]) /\ snap[t][i] \in Row
        BY CommitFacts
      <3>2. QED
        BY <2>1, <3>1 DEF Row
    <2>5. QED
      BY <2>1, <2>2, <2>3, <2>4 DEF Overwrite, Changed
  <1>4. RowsOK'
    BY <1>1, <1>2, <1>3, CommitFacts, TargetIsStatus DEF TablesOK, RowsOK
  <1>5. NewestEventHasRowVersion'
    BY <1>2, <1>3, CommitFacts DEF TablesOK, NewestEventHasRowVersion, LastOf
  <1>6. ASSUME NEW i \in Held(t), r.op # "update"
        PROVE  /\ history'[i] # <<>>
               /\ LastOf(history'[i]).to = row'[i].status
               /\ \A k \in DOMAIN history'[i] :
                     LegalMove(history'[i][k]) /\ history'[i][k].at <= clock[i]
               /\ \A k \in DOMAIN history'[i] :
                     history'[i][k].from = Blank \/ Reached(history'[i], history'[i][k].from, history'[i][k].at)
    <2> DEFINE e == EntryOf(t, i)
    <2>1. /\ e \in HistoryEntry /\ LegalMove(e)
          /\ e.at <= clock[i]
          /\ Reached(history[i], e.from, e.at)
      BY <1>1, <1>6, CommitFacts, EntryTypes, AllowedMoveIsLegal
    <2>2. history[i] \in Seq(HistoryEntry)
      BY <1>2, <1>3 DEF TypeOK
    <2>3. history'[i] = Append(history[i], e)
      BY <1>6, CommitFacts
    <2>4. e.to = row'[i].status
      BY <1>3, <1>6, EntryTypes
    <2>5. \A k \in DOMAIN history[i] :
             /\ LegalMove(history[i][k]) /\ history[i][k].at <= clock[i]
             /\ history[i][k].from = Blank \/ Reached(history[i], history[i][k].from, history[i][k].at)
      BY <1>2, <1>3 DEF TablesOK, AuditIsLegal, DatesOK, TrailIsGrounded
    <2> HIDE DEF e
    <2>8. \A s, n : Reached(history[i], s, n) => Reached(history'[i], s, n)
      BY <2>1, <2>2, <2>3, ReachedStays
    <2>6. ASSUME NEW k \in DOMAIN history'[i]
          PROVE  /\ LegalMove(history'[i][k]) /\ history'[i][k].at <= clock[i]
                 /\ history'[i][k].from = Blank \/ Reached(history'[i], history'[i][k].from, history'[i][k].at)
      <3>1. CASE k \in DOMAIN history[i]
        <4>1. history'[i][k] = history[i][k]
          BY <2>1, <2>2, <2>3, <3>1, AppendFacts
        <4>2. QED
          BY <2>5, <2>8, <3>1, <4>1
      <3>2. CASE k \notin DOMAIN history[i]
        <4>1. history'[i][k] = e
          <5>1. k = Len(history[i]) + 1
            BY <2>2, <2>3, <2>6, <3>2
          <5>2. QED
            BY <2>1, <2>2, <2>3, <5>1, AppendFacts
        <4>2. QED
          BY <2>1, <2>8, <4>1
      <3>3. QED
        BY <3>1, <3>2
    <2>7. QED
      BY <2>1, <2>2, <2>3, <2>4, <2>6, AppendFacts
  <1>7. ASSUME NEW i \in Items, i \notin Held(t) \/ r.op = "update"
        PROVE  history'[i] = history[i] /\ row'[i].status = row[i].status
    BY <1>3, <1>7, CommitFacts
  <1>8. TrailIsGrounded' /\ DatesOK'
    <2> SUFFICES ASSUME NEW i \in Items
                 PROVE  /\ row'[i] # NoRow => \E k \in DOMAIN history'[i] : history'[i][k].to = row'[i].status
                        /\ \A k \in DOMAIN history'[i] :
                              /\ history'[i][k].at <= clock[i]
                              /\ \/ history'[i][k].from = Blank
                                 \/ Reached(history'[i], history'[i][k].from, history'[i][k].at)
      BY DEF TrailIsGrounded, DatesOK, Reached, Commit
    <2>1. CASE i \in Held(t) /\ r.op # "update"
      <3>1. history'[i] # <<>> /\ LastOf(history'[i]).to = row'[i].status
        BY <2>1, <1>6
      <3>2. Len(history'[i]) \in DOMAIN history'[i]
        BY <1>2, <3>1 DEF TypeOK
      <3>3. QED
        BY <2>1, <1>6, <3>1, <3>2 DEF LastOf
    <2>2. CASE ~(i \in Held(t) /\ r.op # "update")
      <3>1. row'[i] # NoRow => row[i] # NoRow
        <4>1. CASE i \in Held(t)
          <5>1. row[i].status \in Statuses
            BY <4>1, CommitFacts
          <5>2. QED
            BY <5>1 DEF NoRow, Blank, Statuses
        <4>2. CASE i \notin Held(t)
          BY <4>2, CommitFacts
        <4>3. QED
          BY <4>1, <4>2
      <3>2. history'[i] = history[i] /\ row'[i].status = row[i].status
        BY <2>2, <1>7
      <3>3. QED
        BY <3>1, <3>2, <1>2 DEF TablesOK, TrailIsGrounded, DatesOK, Reached
    <2>3. QED
      BY <2>1, <2>2
  <1>9. AuditIsLegal'
    <2> SUFFICES ASSUME NEW i \in Items, NEW k \in DOMAIN history'[i]
                 PROVE  LegalMove(history'[i][k])
      BY DEF AuditIsLegal, LegalMove
    <2>1. CASE i \in Held(t) /\ r.op # "update"
      BY <2>1, <1>6
    <2>2. CASE ~(i \in Held(t) /\ r.op # "update")
      BY <2>2, <1>2, <1>7 DEF TablesOK, AuditIsLegal
    <2>3. QED
      BY <2>1, <2>2
  <1>10. VersionsNeverSkip'
    <2> SUFFICES ASSUME NEW i \in Items
                 PROVE  row'[i].version <= Len(outbox'[i])
      BY DEF VersionsNeverSkip
    <2>1. CASE i \in Held(t)
      BY <2>1, <1>3
    <2>2. CASE i \notin Held(t)
      BY <2>2, <1>2, CommitFacts DEF TablesOK, VersionsNeverSkip
    <2>3. QED
      BY <2>1, <2>2
  <1>11. QED
    BY <1>4, <1>5, <1>8, <1>9, <1>10 DEF TablesOK

LEMMA CommitIInv ==
    ASSUME IInv, NEW t \in Txns, Commit(t)
    PROVE  IInv'
  <1>1. TypeOK' /\ TablesOK'
    BY CommitTypeOK, CommitTablesOK
  <1>2. ASSUME NEW i \in Items
        PROVE  /\ row[i].status \in Statuses => row'[i].status \in Statuses
               /\ Len(outbox[i]) <= Len(outbox'[i])
    <2>1. CASE i \notin Held(t)
      <3>1. Len(outbox[i]) \in Nat
        BY DEF IInv, TypeOK
      <3>2. QED
        BY <2>1, <3>1, CommitFacts
    <2>2. CASE i \in Held(t)
      <3>1. Changed(req[t], snap[t][i]) \in Event /\ outbox[i] \in Seq(Event)
        BY <2>2, CommitFacts, RowTypes DEF Event, IInv, TypeOK
      <3>2. Len(outbox[i]) <= Len(outbox'[i])
        <4>1. outbox'[i] = Append(outbox[i], Changed(req[t], snap[t][i]))
          BY <2>2, CommitFacts
        <4>2. Len(outbox'[i]) = Len(outbox[i]) + 1 /\ Len(outbox[i]) \in Nat
          BY <3>1, <4>1, AppendFacts
        <4>3. QED
          BY <4>2
      <3>3. /\ row'[i] = Overwrite(req[t], snap[t][i], row[i])
            /\ row[i].status \in Statuses
            /\ req[t] \in Requests
        BY <2>2, CommitFacts
      <3>4. row'[i].status \in Statuses
        BY <3>3, TargetIsStatus DEF Overwrite
      <3>5. QED
        BY <3>2, <3>4
    <2>3. QED
      BY <2>1, <2>2
  <1>3. ASSUME NEW i \in Items
        PROVE  \A s, n : Reached(history[i], s, n) => Reached(history'[i], s, n)
    <2>1. history[i] \in Seq(HistoryEntry)
      BY DEF IInv, TypeOK
    <2>2. CASE i \in Held(t) /\ req[t].op # "update"
      <3>1. history'[i] = Append(history[i], EntryOf(t, i))
        BY <2>2, CommitFacts
      <3>2. QED
        BY <2>1, <2>2, <3>1, EntryTypes, ReachedStays
    <2>3. CASE ~(i \in Held(t) /\ req[t].op # "update")
      <3>1. history'[i] = history[i]
        BY <2>3, CommitFacts
      <3>2. QED
        BY <3>1 DEF Reached
    <2>4. QED
      BY <2>2, <2>3
  <1>4. TransactionsOK'
    BY <1>1, <1>2, <1>3, FinishTransactions DEF Commit, TypeOK
  <1>5. QED
    BY <1>1, <1>4 DEF IInv

LEMMA NextIInv == IInv /\ [Next]_vars => IInv'
  <1> SUFFICES ASSUME IInv, [Next]_vars PROVE IInv'
    OBVIOUS
  <1>1. ASSUME NEW i \in Items, NEW d \in Details, Create(i, d) PROVE IInv'
    BY <1>1, CreateIInv
  <1>2. ASSUME NEW t \in Txns, NEW r \in Requests, Begin(t, r) PROVE IInv'
    BY <1>2, BeginIInv
  <1>8. ASSUME NEW t \in Txns, Stamp(t) PROVE IInv'
    BY <1>8, StampIInv
  <1>3. ASSUME NEW t \in Txns, Flush(t) PROVE IInv'
    BY <1>3, FlushIInv
  <1>4. ASSUME NEW t \in Txns, Reject(t) \/ Abort(t) \/ DeadlockVictim(t) PROVE IInv'
    BY <1>4, DiscardIInv DEF Reject, Abort, DeadlockVictim
  <1>5. ASSUME NEW t \in Txns, Commit(t) PROVE IInv'
    BY <1>5, CommitIInv
  <1>6. ASSUME UNCHANGED vars PROVE IInv'
    BY <1>6 DEF vars, IInv, TypeOK, TransactionsOK, OpenTransaction, Running, Held, TablesOK,
                IdleThread, When, Reached, RowsOK, DatesOK, NewestEventHasRowVersion, TrailIsGrounded, AuditIsLegal, VersionsNeverSkip, LastOf
  <1>7. QED
    BY <1>1, <1>2, <1>3, <1>4, <1>5, <1>6, <1>8 DEF Next, Quiescent

LEMMA SpecIInv == Spec => []IInv
  BY InitIInv, NextIInv, PTL DEF Spec

-----------------------------------------------------------------------------
(* What holds under every interleaving. *)

\* The tables and the open transactions are well typed.
THEOREM TypesAreRight == Spec => []TypeOK
  BY SpecIInv, PTL DEF IInv

\* However requests interleave, an item's newest event carries the version of
\* its row (item_service.record_item_event).
THEOREM NewestEventIsCurrent == Spec => []NewestEventHasRowVersion
  BY SpecIInv, PTL DEF IInv, TablesOK

\* However requests interleave, an item's status is on record and every entry
\* starts from a status recorded with an earlier date
\* (item_service.apply_status_transition).
THEOREM HistoryIsGrounded == Spec => []TrailIsGrounded
  BY SpecIInv, PTL DEF IInv, TablesOK

\* However requests interleave, no entry of the history is a move the status
\* machine forbids (item_service.validate_transition).
THEOREM HistoryIsLegal == Spec => []AuditIsLegal
  BY SpecIInv, PTL DEF IInv, TablesOK

\* However requests interleave, a version never exceeds the number of changes.
THEOREM VersionsAreBounded == Spec => []VersionsNeverSkip
  BY SpecIInv, PTL DEF IInv, TablesOK

-----------------------------------------------------------------------------
(* The two items of a recovery.  A commit writes one entry for each of the  *)
(* items its request names, all of them into IN_RECOVERY, all of them out   *)
(* of it or none of them either: every one was validated before.            *)

LEMMA CountAfterAppend ==
    ASSUME NEW h \in Seq(HistoryEntry), NEW e \in HistoryEntry
    PROVE  /\ Cardinality(Entries(h)) \in Nat /\ Cardinality(Exits(h)) \in Nat
           /\ Cardinality(Entries(Append(h, e))) =
                 Cardinality(Entries(h)) + (IF e.to = "IN_RECOVERY" THEN 1 ELSE 0)
           /\ Cardinality(Exits(Append(h, e))) =
                 Cardinality(Exits(h)) + (IF e.from = "IN_RECOVERY" THEN 1 ELSE 0)
  <1> DEFINE n == Len(h)
  <1>1. n \in Nat /\ DOMAIN h = 1..n /\ n + 1 \notin DOMAIN h
    OBVIOUS
  <1>2. IsFiniteSet(DOMAIN h)
    BY <1>1, FS_Interval
  <1>3. IsFiniteSet(Entries(h)) /\ IsFiniteSet(Exits(h))
    BY <1>2, FS_Subset DEF Entries, Exits
  <1>4. n + 1 \notin Entries(h) /\ n + 1 \notin Exits(h)
    BY <1>1 DEF Entries, Exits
  <1>5. /\ DOMAIN Append(h, e) = DOMAIN h \cup {n + 1}
        /\ Append(h, e)[n + 1] = e
        /\ \A k \in DOMAIN h : Append(h, e)[k] = h[k]
    BY <1>1, AppendFacts
  <1>6. Entries(Append(h, e)) = IF e.to = "IN_RECOVERY" THEN Entries(h) \cup {n + 1} ELSE Entries(h)
    BY <1>1, <1>5 DEF Entries
  <1>7. Exits(Append(h, e)) = IF e.from = "IN_RECOVERY" THEN Exits(h) \cup {n + 1} ELSE Exits(h)
    BY <1>1, <1>5 DEF Exits
  <1>8. /\ Cardinality(Entries(h)) \in Nat /\ Cardinality(Exits(h)) \in Nat
        /\ Cardinality(Entries(h) \cup {n + 1}) = Cardinality(Entries(h)) + 1
        /\ Cardinality(Exits(h) \cup {n + 1}) = Cardinality(Exits(h)) + 1
    BY <1>3, <1>4, FS_CardinalityType, FS_AddElement
  <1>9. QED
    BY <1>6, <1>7, <1>8

\* Only an opening takes an item into recovery, only a closing out of it.
LEMMA RecoveryMoveIs ==
    ASSUME NEW r \in Requests, NEW old \in Row, old.status \in Statuses,
           r.op # "update", Allowed(r, old)
    PROVE  /\ Target(r) = "IN_RECOVERY" <=> r.op = "open"
           /\ old.status = "IN_RECOVERY" <=> r.op \in {"cancel", "complete"}
  <1>1. ValidTransition(r, old)
    BY DEF Allowed
  <1>2. CASE r.op = "status"
    BY <1>1, <1>2 DEF ValidTransition, ReservedStatuses, PublicTransitions, Statuses, Target
  <1>3. CASE r.op = "open"
    BY <1>1, <1>3 DEF ValidTransition, OpenableStatuses, Target
  <1>4. CASE r.op = "cancel"
    <2>1. Target(r) \in OpenableStatuses
      BY <1>4, RequestsAssumption DEF WellFormed, Target
    <2>2. QED
      BY <1>1, <1>4, <2>1 DEF ValidTransition, OpenableStatuses
  <1>5. CASE r.op = "complete"
    BY <1>1, <1>5 DEF ValidTransition, Target
  <1>6. QED
    BY <1>2, <1>3, <1>4, <1>5, RequestsAssumption DEF Request

LEMMA CommitMovesBoth ==
    ASSUME IInv, RecoveryMovesBothItems, NEW t \in Txns, Commit(t)
    PROVE  RecoveryMovesBothItems'
  <1>1. PICK r \in Requests : r = req[t]
    BY CommitFacts
  <1>2. ASSUME NEW i \in Items
        PROVE  /\ Cardinality(Entries(history[i])) \in Nat
               /\ Cardinality(Exits(history[i])) \in Nat
               /\ Cardinality(Entries(history'[i])) = Cardinality(Entries(history[i]))
                     + (IF i \in ItemsOf(r) /\ r.op = "open" THEN 1 ELSE 0)
               /\ Cardinality(Exits(history'[i])) = Cardinality(Exits(history[i]))
                     + (IF i \in ItemsOf(r) /\ r.op \in {"cancel", "complete"} THEN 1 ELSE 0)
    <2>1. history[i] \in Seq(HistoryEntry)
      BY DEF IInv, TypeOK
    <2>2. Cardinality(Entries(history[i])) \in Nat /\ Cardinality(Exits(history[i])) \in Nat
      <3>1. [from |-> Blank, to |-> "AVAILABLE", at |-> 0] \in HistoryEntry
        BY DEF HistoryEntry, Statuses
      <3>2. QED
        BY <2>1, <3>1, CountAfterAppend
    <2>3. CASE i \in ItemsOf(r) /\ r.op # "update"
      <3> DEFINE e == EntryOf(t, i)
      <3>1. /\ snap[t][i] \in Row /\ snap[t][i].status \in Statuses
            /\ Allowed(r, snap[t][i])
            /\ history'[i] = Append(history[i], e)
        BY <1>1, <2>3, CommitFacts
      <3>2. /\ e.to = "IN_RECOVERY" <=> r.op = "open"
            /\ e.from = "IN_RECOVERY" <=> r.op \in {"cancel", "complete"}
        BY <1>1, <2>3, <3>1, CommitFacts, EntryTypes, RecoveryMoveIs
      <3>3. e \in HistoryEntry
        BY <1>1, <2>3, CommitFacts, EntryTypes
      <3> HIDE DEF e
      <3>4. QED
        BY <2>1, <2>2, <2>3, <3>1, <3>2, <3>3, CountAfterAppend
    <2>4. CASE ~(i \in ItemsOf(r) /\ r.op # "update")
      <3>1. history'[i] = history[i]
        BY <1>1, <2>4, CommitFacts
      <3>2. QED
        BY <2>2, <2>4, <3>1
    <2>5. QED
      BY <2>3, <2>4
  <1>3. ASSUME NEW i \in Items, NEW j \in Items, Partners(i, j)
        PROVE  /\ Cardinality(Entries(history'[i])) = Cardinality(Entries(history'[j]))
               /\ Cardinality(Exits(history'[i])) = Cardinality(Exits(history'[j]))
    <2>1. /\ Cardinality(Entries(history[i])) = Cardinality(Entries(history[j]))
          /\ Cardinality(Exits(history[i])) = Cardinality(Exits(history[j]))
      BY <1>3 DEF RecoveryMovesBothItems
    <2>2. r.op \in {"open", "cancel", "complete"} => (i \in ItemsOf(r) <=> j \in ItemsOf(r))
      BY <1>3 DEF Partners
    <2>3. QED
      BY <1>2, <2>1, <2>2
  <1>4. QED
    BY <1>3 DEF RecoveryMovesBothItems, Entries, Exits

LEMMA CreateMovesNone ==
    ASSUME IInv, RecoveryMovesBothItems, NEW i \in Items, NEW d \in Details, Create(i, d)
    PROVE  RecoveryMovesBothItems'
  <1> DEFINE entry == [from |-> Blank, to |-> "AVAILABLE", at |-> clock[i] + 1]
  <1>0. clock[i] \in Nat
    BY DEF IInv, TypeOK
  <1>1. /\ entry \in HistoryEntry
        /\ entry.to # "IN_RECOVERY" /\ entry.from # "IN_RECOVERY"
    BY <1>0 DEF HistoryEntry, Statuses, Blank
  <1>2. history' = [history EXCEPT ![i] = Append(history[i], entry)]
    BY DEF Create
  <1> HIDE DEF entry
  <1>3. ASSUME NEW j \in Items
        PROVE  /\ Cardinality(Entries(history'[j])) = Cardinality(Entries(history[j]))
               /\ Cardinality(Exits(history'[j])) = Cardinality(Exits(history[j]))
    <2>1. history[j] \in Seq(HistoryEntry)
      BY DEF IInv, TypeOK
    <2>2. CASE j = i
      <3>1. history'[j] = Append(history[j], entry)
        BY <1>2, <2>2 DEF IInv, TypeOK
      <3>2. QED
        BY <1>1, <2>1, <3>1, CountAfterAppend
    <2>3. CASE j # i
      BY <1>2, <2>3 DEF IInv, TypeOK
    <2>4. QED
      BY <2>2, <2>3
  <1>4. QED
    BY <1>3 DEF RecoveryMovesBothItems, Entries, Exits

LEMMA NextMovesBoth == IInv /\ RecoveryMovesBothItems /\ [Next]_vars => RecoveryMovesBothItems'
  <1> SUFFICES ASSUME IInv, RecoveryMovesBothItems, [Next]_vars PROVE RecoveryMovesBothItems'
    OBVIOUS
  <1>1. ASSUME NEW i \in Items, NEW d \in Details, Create(i, d) PROVE RecoveryMovesBothItems'
    BY <1>1, CreateMovesNone
  <1>2. ASSUME NEW t \in Txns, Commit(t) PROVE RecoveryMovesBothItems'
    BY <1>2, CommitMovesBoth
  <1>3. ASSUME UNCHANGED history PROVE RecoveryMovesBothItems'
    BY <1>3 DEF RecoveryMovesBothItems
  <1>4. QED
    BY <1>1, <1>2, <1>3
    DEF Next, Begin, Stamp, Flush, Reject, Abort, DeadlockVictim, Discard, Quiescent, vars

\* The items of a recovery enter and leave it together: no interleaving, lock
\* wait, refusal or lost thread commits one item's move without the other's
\* (item_service's recovery operations, one transaction for all items).
THEOREM RecoveryMovesAllOrNone == Spec => []RecoveryMovesBothItems
  <1>1. Init => RecoveryMovesBothItems
    BY DEF Init, RecoveryMovesBothItems
  <1>2. QED
    BY <1>1, SpecIInv, NextMovesBoth, PTL DEF Spec

-----------------------------------------------------------------------------
(* What holds as long as requests on one item do not overlap.              *)
(*                                                                         *)
(* Then a row read by an open transaction is still the row of the table    *)
(* when the transaction commits, its change is dated after every entry of  *)
(* the item, and the rest follows.                                         *)

ReadsAreCurrent ==
    \A t \in Txns : \A i \in ItemsOf(req[t]) :
        /\ snap[t][i] = row[i]
        /\ stamp[t][i] # 0 => \A k \in DOMAIN history[i] : history[i][k].at < stamp[t][i]

\* The entries were committed in the order of their dates, and each starts
\* where the one before ended.
InOrder(h) == \A j, k \in DOMAIN h : j < k => h[j].at < h[k].at

Linked(h) == \A k \in DOMAIN h : h[k].from = IF k = 1 THEN Blank ELSE h[k - 1].to

HistoryIsLinked ==
    \A i \in Items :
        /\ InOrder(history[i])
        /\ Linked(history[i])
        /\ row[i] # NoRow => history[i] # <<>> /\ LastOf(history[i]).to = row[i].status

SerialTablesOK ==
    /\ VersionsAreConsecutive
    /\ HistoryIsLinked
    /\ NewestEventIsRow

SIInv == IInv /\ NoOverlap /\ ReadsAreCurrent /\ SerialTablesOK

SerialNext == Next /\ NoOverlap'

LEMMA InitSIInv == Init => SIInv
  <1> SUFFICES ASSUME Init PROVE SIInv
    OBVIOUS
  <1>1. \A t \in Txns : ItemsOf(req[t]) = {}
    BY NoRequestFacts DEF Init
  <1>2. NoOverlap /\ ReadsAreCurrent
    BY <1>1 DEF NoOverlap, ReadsAreCurrent
  <1>3. SerialTablesOK
    BY DEF Init, SerialTablesOK, VersionsAreConsecutive, HistoryIsLinked, NewestEventIsRow,
           Numbered, InOrder, Linked, NoRow
  <1>4. QED
    BY <1>2, <1>3, InitIInv DEF SIInv

LEMMA SameSerialTables ==
    ASSUME SerialTablesOK, UNCHANGED <<row, history, outbox>>
    PROVE  SerialTablesOK'
    BY DEF SerialTablesOK, VersionsAreConsecutive, HistoryIsLinked, NewestEventIsRow, LastOf

\* The items of an open transaction have rows; those of an idle thread are none.
LEMMA OpenItems ==
    ASSUME IInv, NEW t \in Txns
    PROVE  /\ ItemsOf(req[t]) \subseteq Items
           /\ \A i \in ItemsOf(req[t]) : Running(t) /\ row[i].status \in Statuses
  <1>1. CASE Running(t)
    BY <1>1, HeldItems DEF IInv, TransactionsOK, OpenTransaction
  <1>2. CASE ~Running(t)
    BY <1>2, NoRequestFacts DEF Running
  <1>3. QED
    BY <1>1, <1>2

LEMMA DiscardSerial ==
    ASSUME SIInv, NEW t \in Txns, Discard(t)
    PROVE  ReadsAreCurrent' /\ SerialTablesOK'
  <1>1. SerialTablesOK'
    BY SameSerialTables DEF SIInv, Discard
  <1>2. ASSUME NEW u \in Txns, NEW i \in ItemsOf(req'[u])
        PROVE  /\ snap'[u][i] = row'[i]
               /\ stamp'[u][i] # 0 => \A k \in DOMAIN history'[i] : history'[i][k].at < stamp'[u][i]
    <2>1. u # t
      BY <1>2, NoRequestFacts DEF Discard, Finish, SIInv, IInv, TypeOK
    <2>2. QED
      BY <1>2, <2>1 DEF Discard, Finish, SIInv, ReadsAreCurrent, IInv, TypeOK
  <1>3. QED
    BY <1>1, <1>2 DEF ReadsAreCurrent, ItemsOf

LEMMA CreateSerial ==
    ASSUME SIInv, NEW i \in Items, NEW d \in Details, Create(i, d)
    PROVE  ReadsAreCurrent' /\ SerialTablesOK'
  <1> DEFINE new == [status |-> "AVAILABLE", version |-> 1, details |-> d]
             entry == [from |-> Blank, to |-> "AVAILABLE", at |-> clock[i] + 1]
  <1>1. /\ row' = [row EXCEPT ![i] = new]
        /\ history' = [history EXCEPT ![i] = Append(history[i], entry)]
        /\ outbox' = [outbox EXCEPT ![i] = Append(outbox[i], new)]
        /\ UNCHANGED <<req, snap, stamp>>
        /\ row[i] = NoRow
    BY DEF Create
  <1>2. ReadsAreCurrent'
    <2> SUFFICES ASSUME NEW u \in Txns, NEW j \in ItemsOf(req[u])
                 PROVE  /\ snap'[u][j] = row'[j]
                        /\ stamp'[u][j] # 0 => \A k \in DOMAIN history'[j] : history'[j][k].at < stamp'[u][j]
      BY <1>1 DEF ReadsAreCurrent
    <2>1. j # i /\ j \in Items
      BY <1>1, OpenItems DEF SIInv, NoRow, Statuses, Blank
    <2>2. QED
      BY <1>1, <2>1 DEF SIInv, ReadsAreCurrent, IInv, TypeOK
  <1>3. outbox[i] = <<>> /\ history[i] = <<>>
    <2>1. Len(outbox[i]) = 0 /\ outbox[i] \in Seq(Event)
      BY <1>1 DEF SIInv, SerialTablesOK, VersionsAreConsecutive, NoRow, IInv, TypeOK
    <2>2. history[i] = <<>>
      BY <1>1 DEF SIInv, IInv, TablesOK, RowsOK, NoRow, Statuses, Blank
    <2>3. QED
      BY <2>1, <2>2
  <1>4. /\ row'[i] = new
        /\ outbox'[i] = <<new>>
        /\ history'[i] = <<entry>>
    BY <1>1, <1>3 DEF SIInv, IInv, TypeOK
  <1>5. ASSUME NEW j \in Items
        PROVE  /\ row'[j].version = Len(outbox'[j]) /\ Numbered(outbox'[j])
               /\ InOrder(history'[j]) /\ Linked(history'[j])
               /\ row'[j] # NoRow => history'[j] # <<>> /\ LastOf(history'[j]).to = row'[j].status
               /\ row'[j] # NoRow => outbox'[j] # <<>> /\ LastOf(outbox'[j]) = row'[j]
    <2>1. CASE j = i
      <3>1. Numbered(<<new>>) /\ LastOf(<<new>>) = new /\ Len(<<new>>) = 1
        BY DEF Numbered, LastOf
      <3>2. /\ InOrder(<<entry>>) /\ Linked(<<entry>>)
            /\ LastOf(<<entry>>).to = new.status
        BY DEF InOrder, Linked, LastOf
      <3>3. <<new>> # <<>> /\ <<entry>> # <<>> /\ new.version = 1
        OBVIOUS
      <3> HIDE DEF new, entry
      <3>4. QED
        BY <1>4, <2>1, <3>1, <3>2, <3>3
    <2>2. CASE j # i
      <3>1. row'[j] = row[j] /\ outbox'[j] = outbox[j] /\ history'[j] = history[j]
        BY <1>1, <2>2 DEF SIInv, IInv, TypeOK
      <3>2. QED
        BY <3>1 DEF SIInv, SerialTablesOK, VersionsAreConsecutive, HistoryIsLinked, NewestEventIsRow
    <2>3. QED
      BY <2>1, <2>2
  <1>6. SerialTablesOK'
    BY <1>5 DEF SerialTablesOK, VersionsAreConsecutive, HistoryIsLinked, NewestEventIsRow,
                Numbered, InOrder, Linked, LastOf
  <1>7. QED
    BY <1>2, <1>6

LEMMA NextEvent ==
    ASSUME NEW s \in Seq(Event), NEW e \in Event, Numbered(s), e.version = Len(s) + 1
    PROVE  Numbered(Append(s, e))
    BY AppendFacts DEF Numbered

LEMMA NextEntry ==
    ASSUME NEW s \in Seq(HistoryEntry), NEW e \in HistoryEntry, Linked(s), s # <<>>,
           e.from = LastOf(s).to,
           InOrder(s), \A k \in DOMAIN s : s[k].at < e.at
    PROVE  Linked(Append(s, e)) /\ InOrder(Append(s, e))
  <1>1. Len(s) \in Nat /\ Len(s) # 0 /\ DOMAIN s = 1..Len(s)
    OBVIOUS
  <1>2. ASSUME NEW k \in DOMAIN Append(s, e)
        PROVE  Append(s, e)[k].from = IF k = 1 THEN Blank ELSE Append(s, e)[k - 1].to
    <2>1. CASE k = Len(s) + 1
      <3>1. Append(s, e)[k] = e /\ k # 1 /\ k - 1 = Len(s)
        BY <1>1, <2>1
      <3>2. Append(s, e)[Len(s)] = s[Len(s)]
        <4>1. Len(s) \in DOMAIN s
          BY <1>1
        <4>2. \A j \in DOMAIN s : Append(s, e)[j] = s[j]
          BY AppendFacts
        <4>3. QED
          BY <4>1, <4>2
      <3>3. QED
        BY <3>1, <3>2 DEF LastOf
    <2>2. CASE k # Len(s) + 1
      <3>1. k \in DOMAIN s /\ Append(s, e)[k] = s[k]
        BY <1>1, <1>2, <2>2
      <3>2. k # 1 => k - 1 \in DOMAIN s /\ Append(s, e)[k - 1] = s[k - 1]
        BY <1>1, <3>1
      <3>3. QED
        BY <3>1, <3>2 DEF Linked
    <2>3. QED
      BY <2>1, <2>2
  <1>3. ASSUME NEW j \in DOMAIN Append(s, e), NEW k \in DOMAIN Append(s, e), j < k
        PROVE  Append(s, e)[j].at < Append(s, e)[k].at
    <2>1. j \in DOMAIN s /\ Append(s, e)[j] = s[j]
      BY <1>1, <1>3
    <2>2. CASE k \in DOMAIN s
      BY <1>1, <1>3, <2>1, <2>2, AppendFacts DEF InOrder
    <2>3. CASE k \notin DOMAIN s
      <3>1. k = Len(s) + 1
        BY <1>1, <1>3, <2>3
      <3>2. QED
        BY <2>1, <3>1, AppendFacts
    <2>4. QED
      BY <2>2, <2>3
  <1>4. QED
    BY <1>2, <1>3 DEF Linked, InOrder

\* Entries linked in the order of their dates are a chain by their dates.
LEMMA LinkedIsChained ==
    ASSUME NEW h \in Seq(HistoryEntry), InOrder(h), Linked(h),
           NEW s, h # <<>> => LastOf(h).to = s
    PROVE  Chained(h, s)
  <1>1. \A k \in DOMAIN h : h[k].at \in Nat
    BY EntryFacts
  <1>2. Len(h) \in Nat /\ DOMAIN h = 1..Len(h)
    OBVIOUS
  <1>3. ASSUME NEW j \in DOMAIN h, NEW k \in DOMAIN h
        PROVE  h[j].at < h[k].at <=> j < k
    <2>1. j \in Nat /\ k \in Nat
      BY <1>2
    <2>2. j < k \/ j = k \/ k < j
      BY <2>1
    <2>3. QED
      BY <1>1, <2>1, <2>2 DEF InOrder
  <1>4. ASSUME NEW k \in DOMAIN h
        PROVE  \/ h[k].from = Blank /\ \A j \in DOMAIN h : h[k].at <= h[j].at
               \/ \E j \in DOMAIN h : LatestBefore(h, j, h[k].at) /\ h[k].from = h[j].to
    <2>1. CASE k = 1
      <3>1. \A j \in DOMAIN h : ~(h[j].at < h[k].at)
        BY <1>2, <1>3, <2>1
      <3>2. \A j \in DOMAIN h : h[k].at <= h[j].at
        BY <1>1, <3>1
      <3>3. QED
        BY <2>1, <3>2 DEF Linked
    <2>2. CASE k # 1
      <3>1. k - 1 \in DOMAIN h /\ k - 1 < k /\ h[k].from = h[k - 1].to
        BY <1>2, <2>2 DEF Linked
      <3>2. h[k - 1].at < h[k].at
        BY <3>1 DEF InOrder
      <3>3. ASSUME NEW j \in DOMAIN h, h[j].at < h[k].at
            PROVE  h[j].at <= h[k - 1].at
        <4>1. ~(k - 1 < j)
          BY <1>2, <1>3, <3>3
        <4>2. ~(h[k - 1].at < h[j].at)
          BY <1>3, <3>1, <4>1
        <4>3. QED
          BY <1>1, <3>1, <4>2
      <3>4. QED
        BY <3>1, <3>2, <3>3 DEF LatestBefore
    <2>3. QED
      BY <2>1, <2>2
  <1>5. ASSUME NEW k \in DOMAIN h, \A j \in DOMAIN h : h[j].at <= h[k].at
        PROVE  h[k].to = s
    <2>1. Len(h) \in DOMAIN h
      BY <1>2
    <2>2. ~(h[k].at < h[Len(h)].at)
      BY <1>1, <1>5, <2>1
    <2>3. ~(k < Len(h))
      BY <1>3, <2>1, <2>2
    <2>4. k = Len(h)
      BY <1>2, <2>3
    <2>5. QED
      BY <1>2, <2>4 DEF LastOf
  <1>6. QED
    BY <1>4, <1>5 DEF Chained

\* With the row read still current, the UPDATE leaves what the event carries.
LEMMA NoLostUpdate ==
    ASSUME NEW r, NEW old \in Row
    PROVE  Overwrite(r, old, old) = Changed(r, old)
    BY DEF Overwrite, Changed

LEMMA CommitSerial ==
    ASSUME SIInv, NEW t \in Txns, Commit(t)
    PROVE  ReadsAreCurrent' /\ SerialTablesOK'
  <1> DEFINE r == req[t]
  <1>1. IInv /\ IInv'
    BY CommitIInv DEF SIInv
  <1>2. ReadsAreCurrent'
    <2> SUFFICES ASSUME NEW u \in Txns, NEW j \in ItemsOf(req'[u])
                 PROVE  /\ snap'[u][j] = row'[j]
                        /\ stamp'[u][j] # 0 => \A k \in DOMAIN history'[j] : history'[j][k].at < stamp'[u][j]
      BY DEF ReadsAreCurrent, ItemsOf
    <2>1. u # t
      BY <1>1, NoRequestFacts DEF Commit, Finish, IInv, TypeOK
    <2>2. req'[u] = req[u] /\ snap'[u] = snap[u] /\ stamp'[u] = stamp[u]
      BY <1>1, <2>1 DEF Commit, Finish, IInv, TypeOK
    <2>3. j \in Items /\ j \notin Held(t)
      BY <1>1, <2>1, <2>2, OpenItems, CommitFacts DEF SIInv, NoOverlap
    <2>4. QED
      BY <1>1, <2>2, <2>3, CommitFacts DEF SIInv, ReadsAreCurrent
  <1>3. ASSUME NEW i \in Items
        PROVE  /\ row'[i].version = Len(outbox'[i]) /\ Numbered(outbox'[i])
               /\ InOrder(history'[i]) /\ Linked(history'[i])
               /\ row'[i] # NoRow => history'[i] # <<>> /\ LastOf(history'[i]).to = row'[i].status
               /\ row'[i] # NoRow => outbox'[i] # <<>> /\ LastOf(outbox'[i]) = row'[i]
    <2> DEFINE event == Changed(r, row[i])
               entry == EntryOf(t, i)
    <2>1. CASE i \in Held(t)
      <3>1. /\ snap[t][i] = row[i]
            /\ r \in Requests
            /\ row[i] \in Row
            /\ row[i].status \in Statuses
        BY <1>1, <2>1, CommitFacts DEF SIInv, ReadsAreCurrent
      <3>2. /\ row'[i] = event
            /\ outbox'[i] = Append(outbox[i], event)
            /\ history'[i] = IF r.op = "update" THEN history[i] ELSE Append(history[i], entry)
        <4>1. /\ row'[i] = Overwrite(r, snap[t][i], row[i])
              /\ outbox'[i] = Append(outbox[i], Changed(r, snap[t][i]))
              /\ r.op = "update" => history'[i] = history[i]
              /\ r.op # "update" =>
                    history'[i] = Append(history[i], entry)
          BY <1>1, <2>1, CommitFacts
        <4>2. Overwrite(r, row[i], row[i]) = Changed(r, row[i])
          BY <3>1, NoLostUpdate
        <4>3. QED
          BY <3>1, <4>1, <4>2
      <3>3. event \in Event /\ outbox[i] \in Seq(Event)
        BY <1>1, <3>1, RowTypes DEF IInv, TypeOK, Event
      <3>4. event.version = Len(outbox[i]) + 1 /\ Numbered(outbox[i])
        BY DEF SIInv, SerialTablesOK, VersionsAreConsecutive, Changed
      <3>5. r.op # "update" =>
               /\ entry \in HistoryEntry
               /\ entry.from = row[i].status
               /\ entry.to = row'[i].status
               /\ \A k \in DOMAIN history[i] : history[i][k].at < entry.at
        <4>1. r.op # "update" => /\ entry \in HistoryEntry
                                 /\ entry.from = row[i].status
                                 /\ entry.to = Target(r)
                                 /\ entry.at = stamp[t][i]
          BY <1>1, <2>1, <3>1, EntryTypes
        <4>2. r.op # "update" => stamp[t][i] # 0
          BY <2>1, <1>1 DEF IInv, TransactionsOK, OpenTransaction, Commit, Audits
        <4>3. r.op # "update" => row'[i].status = Target(r)
          BY <3>2 DEF Changed
        <4>4. i \in ItemsOf(r)
          BY <1>1, <2>1, CommitFacts
        <4>5. QED
          BY <4>1, <4>2, <4>3, <4>4 DEF SIInv, ReadsAreCurrent
      <3>6. /\ history[i] \in Seq(HistoryEntry)
            /\ history[i] # <<>>
            /\ LastOf(history[i]).to = row[i].status
            /\ Linked(history[i]) /\ InOrder(history[i])
        <4>1. row[i] # NoRow
          BY <3>1 DEF NoRow, Statuses, Blank
        <4>2. QED
          BY <1>1, <4>1 DEF IInv, TypeOK, SIInv, SerialTablesOK, HistoryIsLinked
      <3>7. r.op # "update" => entry.from = LastOf(history[i]).to
        BY <3>5, <3>6
      <3>12. row'[i].status = IF r.op = "update" THEN row[i].status ELSE row'[i].status
        BY <3>2 DEF Changed
      <3> HIDE DEF event, entry
      <3>8. Numbered(outbox'[i])
        BY <3>2, <3>3, <3>4, NextEvent
      <3>9. InOrder(history'[i]) /\ Linked(history'[i])
        BY <3>2, <3>5, <3>6, <3>7, NextEntry
      <3>13. history'[i] # <<>> /\ LastOf(history'[i]).to = row'[i].status
        BY <3>2, <3>5, <3>6, <3>12, AppendFacts
      <3>10. /\ outbox'[i] # <<>>
             /\ LastOf(outbox'[i]) = event
             /\ Len(outbox'[i]) = Len(outbox[i]) + 1
        BY <3>2, <3>3, AppendFacts
      <3>11. QED
        BY <3>2, <3>4, <3>8, <3>9, <3>10, <3>13
    <2>2. CASE i \notin Held(t)
      <3>1. row'[i] = row[i] /\ outbox'[i] = outbox[i] /\ history'[i] = history[i]
        BY <1>1, <2>2, CommitFacts
      <3>2. QED
        BY <3>1 DEF SIInv, SerialTablesOK, VersionsAreConsecutive, HistoryIsLinked, NewestEventIsRow
    <2>3. QED
      BY <2>1, <2>2
  <1>4. SerialTablesOK'
    BY <1>3 DEF SerialTablesOK, VersionsAreConsecutive, HistoryIsLinked, NewestEventIsRow,
                Numbered, InOrder, Linked, LastOf
  <1>5. QED
    BY <1>2, <1>4

LEMMA FlushSerial ==
    ASSUME SIInv, NEW t \in Txns, Flush(t)
    PROVE  ReadsAreCurrent' /\ SerialTablesOK'
  <1>1. UNCHANGED <<row, history, outbox, req, snap, stamp>>
    BY DEF Flush
  <1>2. QED
    BY <1>1, SameSerialTables DEF SIInv, ReadsAreCurrent

LEMMA StampSerial ==
    ASSUME SIInv, NEW t \in Txns, Stamp(t)
    PROVE  ReadsAreCurrent' /\ SerialTablesOK'
  <1>1. PICK i \in ItemsOf(req[t]) :
              /\ i \in Items /\ clock[i] \in Nat
              /\ stamp' = [stamp EXCEPT ![t] = [stamp[t] EXCEPT ![i] = clock[i] + 1]]
              /\ UNCHANGED <<row, history, outbox, req, snap>>
    BY StampFacts DEF SIInv
  <1>2. \A k \in DOMAIN history[i] : history[i][k].at < clock[i] + 1
    <2>1. history[i] \in Seq(HistoryEntry)
      BY <1>1 DEF SIInv, IInv, TypeOK
    <2>2. \A k \in DOMAIN history[i] : history[i][k].at \in Nat /\ history[i][k].at <= clock[i]
      BY <1>1, <2>1, EntryFacts DEF SIInv, IInv, TablesOK, DatesOK
    <2>3. QED
      BY <1>1, <2>2
  <1>3. ASSUME NEW u \in Txns, NEW j \in ItemsOf(req[u]), stamp'[u][j] # 0
        PROVE  \A k \in DOMAIN history[j] : history[j][k].at < stamp'[u][j]
    <2>1. j \in Items
      BY OpenItems DEF SIInv
    <2>2. CASE u = t /\ j = i
      BY <1>1, <1>2, <2>2 DEF SIInv, IInv, TypeOK
    <2>3. CASE ~(u = t /\ j = i)
      <3>1. stamp'[u][j] = stamp[u][j]
        BY <1>1, <2>1, <2>3 DEF SIInv, IInv, TypeOK
      <3>2. QED
        BY <1>3, <3>1 DEF SIInv, ReadsAreCurrent
    <2>4. QED
      BY <2>2, <2>3
  <1>4. QED
    BY <1>1, <1>3, SameSerialTables DEF SIInv, ReadsAreCurrent

LEMMA BeginSerial ==
    ASSUME SIInv, NEW t \in Txns, NEW r \in Requests, Begin(t, r)
    PROVE  ReadsAreCurrent' /\ SerialTablesOK'
  <1>1. SerialTablesOK'
    BY SameSerialTables DEF SIInv, Begin
  <1>2. ItemsOf(r) \subseteq Items
    BY RequestsAssumption DEF Request, ItemsOf
  <1>3. ASSUME NEW u \in Txns, NEW i \in ItemsOf(req'[u])
        PROVE  /\ snap'[u][i] = row'[i]
               /\ stamp'[u][i] # 0 => \A k \in DOMAIN history'[i] : history'[i][k].at < stamp'[u][i]
    <2>1. CASE u = t
      <3>1. stamp'[u][i] = 0
        BY <1>2, <1>3, <2>1 DEF Begin, SIInv, IInv, TypeOK, TransactionsOK, IdleThread
      <3>2. QED
        BY <1>2, <1>3, <2>1, <3>1 DEF Begin, SIInv, IInv, TypeOK
    <2>2. CASE u # t
      BY <1>3, <2>2 DEF Begin, SIInv, IInv, TypeOK, ReadsAreCurrent
    <2>3. QED
      BY <2>1, <2>2
  <1>4. QED
    BY <1>1, <1>3 DEF ReadsAreCurrent, ItemsOf

LEMMA NextSIInv == SIInv /\ [SerialNext]_vars => SIInv'
  <1> SUFFICES ASSUME SIInv, [SerialNext]_vars PROVE SIInv'
    OBVIOUS
  <1>1. CASE UNCHANGED vars
    <2>1. IInv'
      BY <1>1, NextIInv DEF SIInv
    <2>2. UNCHANGED <<row, history, outbox, req, snap, stamp>>
      BY <1>1 DEF vars
    <2>3. NoOverlap' /\ ReadsAreCurrent' /\ SerialTablesOK'
      BY <2>2, SameSerialTables DEF SIInv, NoOverlap, ReadsAreCurrent
    <2>4. QED
      BY <2>1, <2>3 DEF SIInv
  <1>2. CASE SerialNext
    <2>1. IInv' /\ NoOverlap'
      BY <1>2, NextIInv DEF SIInv, SerialNext
    <2> DEFINE Goal == ReadsAreCurrent' /\ SerialTablesOK'
    <2>2. ASSUME NEW i \in Items, NEW d \in Details, Create(i, d) PROVE Goal
      BY <2>2, CreateSerial
    <2>3. ASSUME NEW t \in Txns, NEW r \in Requests, Begin(t, r) PROVE Goal
      BY <2>3, BeginSerial
    <2>4. ASSUME NEW t \in Txns, Stamp(t) \/ Flush(t) PROVE Goal
      BY <2>4, StampSerial, FlushSerial
    <2>5. ASSUME NEW t \in Txns, Reject(t) \/ Abort(t) \/ DeadlockVictim(t) PROVE Goal
      BY <2>5, DiscardSerial DEF Reject, Abort, DeadlockVictim
    <2>6. ASSUME NEW t \in Txns, Commit(t) PROVE Goal
      BY <2>6, CommitSerial
    <2>7. ASSUME UNCHANGED vars PROVE Goal
      <3>1. UNCHANGED <<row, history, outbox, req, snap, stamp>>
        BY <2>7 DEF vars
      <3>2. QED
        BY <3>1, SameSerialTables DEF SIInv, ReadsAreCurrent
    <2> HIDE DEF Goal
    <2>8. Goal
      BY <1>2, <2>2, <2>3, <2>4, <2>5, <2>6, <2>7 DEF SerialNext, Next, Quiescent
    <2>9. QED
      BY <2>1, <2>8 DEF SIInv, Goal
  <1>3. QED
    BY <1>1, <1>2

LEMMA SerializedSIInv == SerializedSpec => []SIInv
  BY InitSIInv, NextSIInv, PTL DEF SerializedSpec, SerialNext

\* Without overlapping requests on one item, its events are numbered from one
\* without a gap and its version is the last number.
THEOREM VersionsCountChanges == SerializedSpec => []VersionsAreConsecutive
  BY SerializedSIInv, PTL DEF SIInv, SerialTablesOK

\* Without overlapping requests on one item, its history read by dates is a
\* chain: an entry starts from the status the one before it ended in, and the
\* last one ends in the item's status.
THEOREM HistoryIsAChain == SerializedSpec => []AuditIsChained
  <1>1. SIInv => AuditIsChained
    <2> SUFFICES ASSUME SIInv, NEW i \in Items
                 PROVE  Chained(history[i], row[i].status)
      BY DEF AuditIsChained
    <2>1. history[i] \in Seq(HistoryEntry)
      BY DEF SIInv, IInv, TypeOK
    <2>2. InOrder(history[i]) /\ Linked(history[i])
      BY DEF SIInv, SerialTablesOK, HistoryIsLinked
    <2>3. history[i] # <<>> => LastOf(history[i]).to = row[i].status
      BY DEF SIInv, IInv, TablesOK, RowsOK, SerialTablesOK, HistoryIsLinked, NoRow, Blank, Statuses
    <2>4. QED
      BY <2>1, <2>2, <2>3, LinkedIsChained
  <1>2. QED
    BY <1>1, SerializedSIInv, PTL

\* Without overlapping requests on one item, what consumers are told last of an
\* item is the item: its newest event carries the row.
THEOREM NewestEventTellsTheRow == SerializedSpec => []NewestEventIsRow
  BY SerializedSIInv, PTL DEF SIInv, SerialTablesOK

-----------------------------------------------------------------------------
(* The service implements the lifecycle of ItemLifecycle. *)

\* The lifecycle speaks of the same statuses.
LEMMA SameVocabulary ==
    /\ Lifecycle!Statuses = Statuses
    /\ Lifecycle!PublicTransitions = PublicTransitions
    /\ Lifecycle!OpenableStatuses = OpenableStatuses
    BY DEF Lifecycle!Statuses, Statuses, Lifecycle!PublicTransitions, PublicTransitions,
           Lifecycle!OpenableStatuses, OpenableStatuses

LEMMA StutterLifecycle ==
    ASSUME UNCHANGED row
    PROVE  UNCHANGED Lifecycle!lifecycleVars
    BY DEF Lifecycle!lifecycleVars

LEMMA CreateRegisters ==
    ASSUME SIInv, NEW i \in Items, NEW d \in Details, Create(i, d)
    PROVE  Lifecycle!Register(i)
  <1>1. /\ row[i] = NoRow
        /\ row' = [row EXCEPT ![i] = [status |-> "AVAILABLE", version |-> 1, details |-> d]]
    BY DEF Create
  <1>2. ~Lifecycle!Registered(i)
    BY <1>1 DEF Lifecycle!Registered, NoRow, Blank
  <1>3. Lifecycle!MoveAll({i}, "AVAILABLE")
    BY <1>1 DEF Lifecycle!MoveAll, NoRow, SIInv, IInv, TypeOK
  <1>4. QED
    BY <1>2, <1>3 DEF Lifecycle!Register

\* A commit moves exactly the items of its request, from their current rows.
LEMMA CommitMoves ==
    ASSUME SIInv, NEW t \in Txns, Commit(t)
    PROVE  /\ req[t] \in Requests
           /\ ItemsOf(req[t]) \subseteq Items
           /\ \A i \in ItemsOf(req[t]) :
                 /\ row[i].status \in Statuses
                 /\ Allowed(req[t], row[i])
                 /\ row'[i] = Changed(req[t], row[i])
           /\ \A i \in Items \ ItemsOf(req[t]) : row'[i] = row[i]
  <1>1. IInv
    BY DEF SIInv
  <1>2. ASSUME NEW i \in ItemsOf(req[t])
        PROVE  /\ row[i].status \in Statuses
               /\ Allowed(req[t], row[i])
               /\ row'[i] = Changed(req[t], row[i])
    <2>1. i \in Held(t) /\ snap[t][i] = row[i]
      BY <1>1, CommitFacts DEF SIInv, ReadsAreCurrent
    <2>2. /\ row[i] \in Row
          /\ row[i].status \in Statuses
          /\ Allowed(req[t], row[i])
          /\ row'[i] = Overwrite(req[t], row[i], row[i])
      BY <1>1, <2>1, CommitFacts
    <2>3. QED
      BY <2>2, NoLostUpdate
  <1>3. QED
    BY <1>1, <1>2, CommitFacts

LEMMA CommitMoveAll ==
    ASSUME SIInv, NEW t \in Txns, Commit(t), req[t].op # "update",
           NEW S, NEW s, S = ItemsOf(req[t]), s = Target(req[t])
    PROVE  Lifecycle!MoveAll(S, s)
  <1>1. ASSUME NEW i \in Items
        PROVE  /\ row'[i].status = IF i \in S THEN s ELSE row[i].status
               /\ row'[i].version = IF i \in S THEN row[i].version + 1 ELSE row[i].version
    <2>1. CASE i \in S
      <3>1. row'[i] = Changed(req[t], row[i])
        BY <2>1, CommitMoves
      <3>2. QED
        BY <2>1, <3>1 DEF Changed
    <2>2. CASE i \notin S
      BY <2>2, CommitMoves
    <2>3. QED
      BY <2>1, <2>2
  <1>2. QED
    BY <1>1 DEF Lifecycle!MoveAll

LEMMA CommitImplements ==
    ASSUME SIInv, NEW t \in Txns, Commit(t)
    PROVE  Lifecycle!Next
  <1>0. PICK r \in Requests, S \in SUBSET Items : r = req[t] /\ S = ItemsOf(r)
    BY CommitMoves
  <1>1. r \in Requests /\ r \in Request /\ WellFormed(r) /\ r.items \in Seq(Items)
    BY RequestsAssumption DEF Request
  <1>2. S \in SUBSET Items /\ S # {}
    <2>1. 1 \in DOMAIN r.items
      BY <1>1 DEF WellFormed
    <2>2. QED
      BY <1>0, <2>1 DEF ItemsOf
  <1>3. CASE r.op \in {"update", "status"}
    <2>1. Len(r.items) = 1
      BY <1>1, <1>3 DEF WellFormed
    <2>2. PICK i \in Items : S = {i}
      <3>1. DOMAIN r.items = {1} /\ r.items[1] \in Items
        BY <1>1, <2>1
      <3>2. QED
        BY <1>0, <3>1 DEF ItemsOf
    <2>3. Lifecycle!Registered(i)
      <3>1. row[i].status \in Statuses
        BY <1>0, <2>2, CommitMoves
      <3>2. QED
        BY <3>1 DEF Lifecycle!Registered, Statuses
    <2>4. CASE r.op = "update"
      <3>1. ASSUME NEW j \in Items
            PROVE  /\ row'[j].status = row[j].status
                   /\ row'[j].version = IF j \in {i} THEN row[j].version + 1 ELSE row[j].version
        <4>1. CASE j = i
          <5>1. row'[j] = Changed(r, row[j])
            BY <1>0, <2>2, <4>1, CommitMoves
          <5>2. QED
            BY <2>4, <4>1, <5>1 DEF Changed
        <4>2. CASE j # i
          BY <1>0, <2>2, <4>2, CommitMoves
        <4>3. QED
          BY <4>1, <4>2
      <3>2. Lifecycle!MoveAll({i}, [j \in Items |-> row[j].status][i])
        BY <3>1 DEF Lifecycle!MoveAll
      <3>3. Lifecycle!Edit(i)
        BY <2>3, <3>2 DEF Lifecycle!Edit, Lifecycle!MoveAll
      <3>4. QED
        BY <3>3 DEF Lifecycle!Next
    <2>5. CASE r.op = "status"
      <3>1. Lifecycle!MoveAll({i}, Target(r))
        BY <1>0, <2>2, <2>5, CommitMoveAll
      <3>2. Allowed(r, row[i])
        BY <1>0, <2>2, CommitMoves
      <3>3. Target(r) \in PublicTransitions[row[i].status]
        BY <2>5, <3>2 DEF Allowed, ValidTransition
      <3>4. Lifecycle!Decide(i, Target(r))
        BY <2>3, <3>1, <3>3, SameVocabulary DEF Lifecycle!Decide
      <3>5. Target(r) \in Statuses
        BY <1>1, <2>5, TargetIsStatus
      <3>6. QED
        BY <3>4, <3>5, SameVocabulary DEF Lifecycle!Next
    <2>6. QED
      BY <1>3, <2>4, <2>5
  <1>4. CASE r.op = "open"
    <2>1. Lifecycle!MoveAll(S, "IN_RECOVERY")
      <3>1. Lifecycle!MoveAll(S, Target(r))
        BY <1>0, <1>4, CommitMoveAll
      <3>2. Target(r) = "IN_RECOVERY"
        BY <1>4 DEF Target
      <3>3. QED
        BY <3>1, <3>2 DEF Lifecycle!MoveAll
    <2>2. ASSUME NEW i \in S
          PROVE  row[i].status \in OpenableStatuses
      <3>1. Allowed(r, row[i])
        BY <1>0, CommitMoves
      <3>2. QED
        BY <1>4, <3>1 DEF Allowed, ValidTransition
    <2>3. Lifecycle!ClaimForRecovery(S)
      BY <1>2, <2>1, <2>2, SameVocabulary DEF Lifecycle!ClaimForRecovery
    <2>4. QED
      BY <1>2, <2>3 DEF Lifecycle!Next
  <1>5. CASE r.op \in {"cancel", "complete"}
    <2>1. Lifecycle!MoveAll(S, Target(r))
      BY <1>0, <1>5, CommitMoveAll
    <2>2. ASSUME NEW i \in S
          PROVE  row[i].status = "IN_RECOVERY"
      <3>1. Allowed(r, row[i])
        BY <1>0, CommitMoves
      <3>2. QED
        BY <1>5, <3>1 DEF Allowed, ValidTransition
    <2>3. Target(r) \in OpenableStatuses \cup {"RECOVERED"}
      BY <1>1, <1>5 DEF WellFormed, Target
    <2>4. Target(r) \in Statuses
      BY <2>3 DEF Statuses, OpenableStatuses
    <2>5. Lifecycle!LeaveRecovery(S, Target(r))
      BY <1>2, <2>1, <2>2, <2>3, SameVocabulary DEF Lifecycle!LeaveRecovery
    <2>6. QED
      BY <1>2, <2>4, <2>5, SameVocabulary DEF Lifecycle!Next
  <1>6. QED
    BY <1>1, <1>3, <1>4, <1>5 DEF Request

LEMMA StepImplements ==
    SIInv /\ [SerialNext]_vars => [Lifecycle!Next]_(Lifecycle!lifecycleVars)
  <1> SUFFICES ASSUME SIInv, [SerialNext]_vars
               PROVE  Lifecycle!Next \/ UNCHANGED Lifecycle!lifecycleVars
    OBVIOUS
  <1>1. ASSUME NEW i \in Items, NEW d \in Details, Create(i, d)
        PROVE  Lifecycle!Next
    BY <1>1, CreateRegisters DEF Lifecycle!Next
  <1>2. ASSUME NEW t \in Txns, Commit(t)
        PROVE  Lifecycle!Next
    BY <1>2, CommitImplements
  <1>3. ASSUME NEW t \in Txns,
               \/ \E r \in Requests : Begin(t, r)
               \/ Stamp(t) \/ Flush(t) \/ Reject(t) \/ Abort(t) \/ DeadlockVictim(t)
        PROVE  UNCHANGED row
    BY <1>3 DEF Begin, Stamp, Flush, Reject, Abort, DeadlockVictim, Discard
  <1>4. UNCHANGED vars => UNCHANGED row
    BY DEF vars
  <1>5. QED
    BY <1>1, <1>2, <1>3, <1>4, StutterLifecycle DEF SerialNext, Next, Quiescent

\* Without overlapping requests on one item, item-service implements the
\* lifecycle: every commit is one legal atomic move of all its items.
THEOREM ServiceImplementsLifecycle == SerializedSpec => ImplementsLifecycle
  <1>1. Init => Lifecycle!Init
    BY DEF Init, Lifecycle!Init, NoRow, Blank
  <1>2. QED
    BY <1>1, SerializedSIInv, StepImplements, PTL
       DEF SerializedSpec, SerialNext, ImplementsLifecycle, Lifecycle!Spec

\* Without overlapping requests on one item, CANCELLED and CLOSED are final.
THEOREM TerminalStaysTerminal == SerializedSpec => TerminalIsFinal
  <1> DEFINE Final == \A i \in Items :
                        row[i].status \in TerminalStatuses => row'[i].status = row[i].status
  <1>1. SIInv /\ [SerialNext]_vars => [Final]_vars
    <2> SUFFICES ASSUME SIInv, SerialNext PROVE Final
      BY DEF vars
    <2>1. ASSUME NEW t \in Txns, Commit(t) PROVE Final
      <3> SUFFICES ASSUME NEW i \in Items, row[i].status \in TerminalStatuses
                   PROVE  row'[i].status = row[i].status
        OBVIOUS
      <3>1. CASE i \in ItemsOf(req[t])
        <4>1. Allowed(req[t], row[i]) /\ row'[i] = Changed(req[t], row[i])
          BY <2>1, <3>1, CommitMoves
        <4>2. req[t].op = "update"
          BY <4>1 DEF Allowed, ValidTransition
        <4>3. QED
          BY <4>1, <4>2 DEF Changed
      <3>2. CASE i \notin ItemsOf(req[t])
        BY <2>1, <3>2, CommitMoves
      <3>3. QED
        BY <3>1, <3>2
    <2>2. ASSUME NEW i \in Items, NEW d \in Details, Create(i, d) PROVE Final
      BY <2>2 DEF Create, SIInv, IInv, TypeOK, NoRow, Blank, TerminalStatuses
    <2>3. ASSUME UNCHANGED row PROVE Final
      BY <2>3
    <2>4. ASSUME NEW t \in Txns,
                 \/ \E r \in Requests : Begin(t, r)
                 \/ Stamp(t) \/ Flush(t) \/ Reject(t) \/ Abort(t) \/ DeadlockVictim(t)
          PROVE  UNCHANGED row
      BY <2>4 DEF Begin, Stamp, Flush, Reject, Abort, DeadlockVictim, Discard
    <2> HIDE DEF Final
    <2>5. QED
      BY <2>1, <2>2, <2>3, <2>4 DEF SerialNext, Next, Quiescent, vars
  <1>2. QED
    BY <1>1, SerializedSIInv, PTL DEF SerializedSpec, SerialNext, TerminalIsFinal

=============================================================================
