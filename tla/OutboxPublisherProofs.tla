----------------------- MODULE OutboxPublisherProofs -----------------------
(***************************************************************************)
(* Theorems about OutboxPublisher: first for any number of publishers on   *)
(* the table, then for the single publisher every service runs.            *)
(***************************************************************************)
EXTENDS OutboxPublisher, FiniteSetTheorems, WellFoundedInduction, TLAPS

-----------------------------------------------------------------------------
(* Lemmas about a batch and about the rules for a row. *)

LEMMA OldestIsMember ==
    ASSUME NEW S \in SUBSET Events, S # {}
    PROVE  Oldest(S) \in S
  <1>1. S \subseteq Nat
    BY EventsAssumption
  <1>2. PICK e \in S : \A f \in S : ~ (<<f, e>> \in OpToRel(<, Nat))
    BY <1>1, NatLessThanWellFounded, WFMin
  <1>3. ASSUME NEW f \in S PROVE e <= f
    <2>1. e \in Nat /\ f \in Nat /\ <<f, e>> \in Nat \X Nat
      BY <1>1
    <2>2. <<f, e>> \notin {ss \in Nat \X Nat : ss[1] < ss[2]}
      BY <1>2 DEF OpToRel
    <2>3. ~ (f < e)
      BY <2>1, <2>2
    <2>4. QED
      BY <2>1, <2>3
  <1>4. QED
    BY <1>3 DEF Oldest

LEMMA ConfirmedResult ==
    ASSUME NEW r
    PROVE  Result(r, "confirmed") = "PUBLISHED"
    BY DEF Result

LEMMA CurrentInBatch ==
    ASSUME TypeOK, NEW p \in Publishers, Working(p)
    PROVE  /\ Current(p) \in batch[p]
           /\ Current(p) \in Events
  <1>1. batch[p] \in SUBSET Events
    BY DEF TypeOK
  <1>2. QED
    BY <1>1, OldestIsMember DEF Working, Current

\* An object that may be tried again yields a row, and one that may be tried
\* again only if an attempt is left.
LEMMA WrittenRow ==
    ASSUME NEW r \in Row, Eligible(r), r.attempts < MaxAttempts,
           NEW answer \in {"confirmed", "failed"},
           NEW current \in Row
    PROVE  LET w == Written(r, answer, current) IN
           /\ w \in Row
           /\ w.attempts = r.attempts + 1
           /\ w.status = "PUBLISHED" => \/ answer = "confirmed"
                                        \/ current.status = "PUBLISHED"
           /\ Eligible(w) => w.attempts < MaxAttempts
           /\ w.status = "NONE" => current.status = "NONE"
  <1>1. /\ r.attempts \in 0..MaxAttempts
        /\ MaxAttempts \in Nat
    BY SettingsAssumption DEF Row
  <1>2. /\ Result(r, answer) \in {"PUBLISHED", "EXHAUSTED", "FAILED"}
        /\ Result(r, answer) = "PUBLISHED" => answer = "confirmed"
        /\ Result(r, answer) = "FAILED" => r.attempts + 1 < MaxAttempts
    BY <1>1 DEF Result, LastAttempt
  <1>3. Written(r, answer, current).status \in Statuses \cup {"NONE"}
    BY <1>2 DEF Written, Row, Statuses
  <1>4. Written(r, answer, current).attempts = r.attempts + 1
    BY DEF Written
  <1>5. Written(r, answer, current) \in Row
    BY <1>1, <1>3, <1>4 DEF Written, Row
  <1>6. Eligible(Written(r, answer, current)) => Result(r, answer) = "FAILED"
    BY <1>2 DEF Written, Eligible
  <1>7. QED
    BY <1>1, <1>2, <1>4, <1>5, <1>6 DEF Written, Eligible

-----------------------------------------------------------------------------
(* Any number of publishers.                                               *)
(*                                                                         *)
(* What a publisher records is computed from the objects it read with the  *)
(* batch, and by then the table may say something else.  The invariant is  *)
(* strengthened with what is known of the objects: those still in a batch  *)
(* had attempts left when they were read, their rows exist, and a          *)
(* confirmation in hand is of an event that was sent.                      *)

PublisherOK(p) ==
    /\ \A e \in batch[p] : /\ Eligible(copy[p][e])
                           /\ copy[p][e].attempts < MaxAttempts
                           /\ row[e].status # "NONE"
    /\ outcome[p] # "none" => Working(p)
    /\ outcome[p] = "confirmed" => sent[Current(p)] > 0

IInv ==
    /\ TypeOK
    /\ PublishedWasSent
    /\ RetriesAreLeft
    /\ \A p \in Publishers : PublisherOK(p)

LEMMA InitIInv == Init => IInv
  <1> SUFFICES ASSUME Init PROVE IInv
    OBVIOUS
  <1>1. NoRow \in Row
    BY SettingsAssumption DEF NoRow, Row
  <1>2. TypeOK
    BY <1>1, LossesAssumption DEF Init, TypeOK
  <1>3. PublishedWasSent /\ RetriesAreLeft
    BY DEF Init, PublishedWasSent, RetriesAreLeft, NoRow, Eligible
  <1>4. \A p \in Publishers : PublisherOK(p)
    BY DEF Init, PublisherOK
  <1>5. QED
    BY <1>2, <1>3, <1>4 DEF IInv

\* A step that leaves the rows and a publisher's batch alone, and takes back
\* nothing that was sent, leaves what is known of the publisher.
LEMMA OtherPublisher ==
    ASSUME IInv, NEW p \in Publishers,
           \A e \in Events : row[e].status # "NONE" => row'[e].status # "NONE",
           \A e \in Events : sent[e] > 0 => sent'[e] > 0,
           batch'[p] = batch[p], copy'[p] = copy[p], outcome'[p] = outcome[p]
    PROVE  PublisherOK(p)'
  <1>1. PublisherOK(p) /\ batch[p] \subseteq Events
    BY DEF IInv, TypeOK
  <1>2. Current(p)' = Current(p) /\ (Working(p)' <=> Working(p))
    BY DEF Current, Working
  <1>3. Working(p) => Current(p) \in Events
    BY CurrentInBatch DEF IInv
  <1>4. QED
    BY <1>1, <1>2, <1>3 DEF PublisherOK

LEMMA EnqueueIInv ==
    ASSUME IInv, NEW e \in Events, Enqueue(e)
    PROVE  IInv'
  <1> USE DEF IInv, Enqueue
  <1>1. [status |-> "PENDING", attempts |-> 0] \in Row
    BY SettingsAssumption DEF Row, Statuses
  <1>2. TypeOK'
    BY <1>1 DEF TypeOK
  <1>3. PublishedWasSent' /\ RetriesAreLeft'
    BY SettingsAssumption DEF PublishedWasSent, RetriesAreLeft, TypeOK, Eligible
  <1>4. \A f \in Events : row[f].status # "NONE" => row'[f].status # "NONE"
    BY DEF TypeOK
  <1>5. \A p \in Publishers : PublisherOK(p)'
    BY <1>4, OtherPublisher
  <1>6. QED
    BY <1>2, <1>3, <1>5

LEMMA BecomeDueIInv ==
    ASSUME IInv, NEW e \in Events, BecomeDue(e)
    PROVE  IInv'
  <1> USE DEF IInv, BecomeDue
  <1>1. TypeOK' /\ PublishedWasSent' /\ RetriesAreLeft'
    BY DEF TypeOK, PublishedWasSent, RetriesAreLeft
  <1>2. \A p \in Publishers : PublisherOK(p)'
    BY OtherPublisher
  <1>3. QED
    BY <1>1, <1>2

LEMMA SelectIInv ==
    ASSUME IInv, NEW p \in Publishers, Select(p)
    PROVE  IInv'
  <1> USE DEF IInv, Select
  <1>1. FirstOf(Ready(p)) \subseteq {e \in due : Eligible(row[e])}
    BY DEF FirstOf, Ready
  <1>2. TypeOK'
    BY <1>1 DEF TypeOK
  <1>3. PublishedWasSent' /\ RetriesAreLeft'
    BY DEF PublishedWasSent, RetriesAreLeft
  <1>4. PublisherOK(p)'
    <2>1. \A e \in batch'[p] : e \in Events /\ Eligible(row[e]) /\ copy'[p][e] = row[e]
      BY <1>1 DEF TypeOK
    <2>2. \A e \in batch'[p] : row[e].attempts < MaxAttempts /\ row[e].status # "NONE"
      BY <2>1 DEF RetriesAreLeft, Eligible
    <2>3. outcome'[p] = "none"
      BY DEF PublisherOK
    <2>4. QED
      BY <2>1, <2>2, <2>3 DEF PublisherOK
  <1>5. \A q \in Publishers \ {p} : PublisherOK(q)'
    BY OtherPublisher DEF TypeOK
  <1>6. QED
    BY <1>2, <1>3, <1>4, <1>5

LEMMA RouteIInv ==
    ASSUME IInv, NEW p \in Publishers, Route(p)
    PROVE  IInv'
  <1> USE DEF IInv, Route
  <1>1. Current(p) \in Events
    BY CurrentInBatch
  <1>2. \A e \in Events : sent[e] > 0 => sent'[e] > 0
    BY <1>1 DEF TypeOK
  <1>3. TypeOK'
    BY <1>1 DEF TypeOK
  <1>4. PublishedWasSent' /\ RetriesAreLeft'
    BY <1>2 DEF PublishedWasSent, RetriesAreLeft
  <1>5. PublisherOK(p)'
    <2>1. sent'[Current(p)] > 0
      BY <1>1 DEF TypeOK
    <2>2. Current(p)' = Current(p) /\ Working(p)'
      BY DEF Current, Working
    <2>3. QED
      BY <2>1, <2>2 DEF PublisherOK
  <1>6. \A q \in Publishers \ {p} : PublisherOK(q)'
    BY <1>2, OtherPublisher DEF TypeOK
  <1>7. QED
    BY <1>3, <1>4, <1>5, <1>6

LEMMA RefuseIInv ==
    ASSUME IInv, NEW p \in Publishers, Refuse(p)
    PROVE  IInv'
  <1> USE DEF IInv, Refuse
  <1>1. TypeOK' /\ PublishedWasSent' /\ RetriesAreLeft'
    BY DEF TypeOK, PublishedWasSent, RetriesAreLeft
  <1>2. outcome'[p] = "failed" /\ Working(p)'
    BY DEF TypeOK, Working
  <1>3. PublisherOK(p)'
    BY <1>2 DEF PublisherOK
  <1>4. \A q \in Publishers \ {p} : PublisherOK(q)'
    BY OtherPublisher DEF TypeOK
  <1>5. QED
    BY <1>1, <1>3, <1>4

LEMMA RecordIInv ==
    ASSUME IInv, NEW p \in Publishers, Record(p)
    PROVE  IInv'
  <1> DEFINE e == Current(p)
             w == Written(copy[p][e], outcome[p], row[e])
  <1>1. PublisherOK(p) /\ TypeOK /\ outcome[p] \in {"confirmed", "failed"}
    BY DEF IInv, Record, TypeOK
  <1>2. e \in batch[p] /\ e \in Events
    BY <1>1, CurrentInBatch DEF Record, PublisherOK
  <1>3. /\ w \in Row
        /\ w.status = "PUBLISHED" => outcome[p] = "confirmed" \/ row[e].status = "PUBLISHED"
        /\ Eligible(w) => w.attempts < MaxAttempts
        /\ w.status # "NONE"
    <2>1. copy[p][e] \in Row /\ row[e] \in Row
      BY <1>1, <1>2 DEF TypeOK
    <2>2. /\ Eligible(copy[p][e])
          /\ copy[p][e].attempts < MaxAttempts
          /\ row[e].status # "NONE"
      BY <1>1, <1>2 DEF PublisherOK
    <2>3. QED
      BY <1>1, <2>1, <2>2, WrittenRow
  <1> HIDE DEF w
  <1>4. row' = [row EXCEPT ![e] = w]
    BY DEF Record, w
  <1>5. TypeOK'
    <2>1. row' \in [Events -> Row]
      BY <1>1, <1>3, <1>4 DEF TypeOK
    <2>2. due' \subseteq Events
      BY <1>1 DEF TypeOK, Record
    <2>3. batch'[p] \in SUBSET Events
      BY <1>1 DEF TypeOK, Record
    <2>4. batch' \in [Publishers -> SUBSET Events]
      BY <1>1 DEF TypeOK, Record
    <2>5. QED
      BY <1>1, <2>1, <2>2, <2>4 DEF TypeOK, Record
  <1>6. PublishedWasSent'
    <2>1. outcome[p] = "confirmed" => sent[e] > 0
      BY <1>1 DEF PublisherOK
    <2>2. row'[e].status = "PUBLISHED" => sent[e] > 0
      BY <1>1, <1>2, <1>3, <1>4, <2>1 DEF PublishedWasSent, IInv, TypeOK
    <2>3. QED
      BY <1>1, <1>4, <2>2 DEF PublishedWasSent, IInv, TypeOK, Record
  <1>7. RetriesAreLeft'
    BY <1>1, <1>3, <1>4 DEF RetriesAreLeft, IInv, TypeOK
  <1>8. PublisherOK(p)'
    <2>1. batch'[p] \subseteq batch[p] /\ outcome'[p] = "none" /\ copy' = copy
      BY <1>1 DEF Record, TypeOK
    <2>2. \A f \in batch'[p] : row'[f].status # "NONE"
      BY <1>1, <1>3, <1>4, <2>1 DEF PublisherOK, TypeOK
    <2>3. QED
      BY <1>1, <2>1, <2>2 DEF PublisherOK
  <1>9. \A f \in Events : row[f].status # "NONE" => row'[f].status # "NONE"
    BY <1>1, <1>3, <1>4 DEF TypeOK
  <1>10. \A q \in Publishers \ {p} : PublisherOK(q)'
    <2> SUFFICES ASSUME NEW q \in Publishers \ {p} PROVE PublisherOK(q)'
      OBVIOUS
    <2>1. batch'[q] = batch[q] /\ copy'[q] = copy[q] /\ outcome'[q] = outcome[q] /\ sent' = sent
      BY <1>1 DEF Record, TypeOK
    <2>2. QED
      BY <1>9, <2>1, OtherPublisher
  <1>11. QED
    BY <1>5, <1>6, <1>7, <1>8, <1>10 DEF IInv

LEMMA LoseIInv ==
    ASSUME IInv, NEW p \in Publishers, Lose(p)
    PROVE  IInv'
  <1> USE DEF IInv, Lose
  <1>1. TypeOK'
    BY LossesAssumption DEF TypeOK
  <1>2. PublishedWasSent' /\ RetriesAreLeft'
    BY DEF PublishedWasSent, RetriesAreLeft
  <1>3. PublisherOK(p)'
    BY DEF PublisherOK, TypeOK
  <1>4. \A q \in Publishers \ {p} : PublisherOK(q)'
    BY OtherPublisher DEF TypeOK
  <1>5. QED
    BY <1>1, <1>2, <1>3, <1>4

\* A step that at most connects a publisher.
LEMMA UnchangedIInv ==
    ASSUME IInv, connected' \in [Publishers -> BOOLEAN],
           UNCHANGED <<row, due, batch, copy, locked, outcome, sent, losses>>
    PROVE  IInv'
  <1> USE DEF IInv
  <1>1. TypeOK' /\ PublishedWasSent' /\ RetriesAreLeft'
    BY DEF TypeOK, PublishedWasSent, RetriesAreLeft
  <1>2. \A p \in Publishers : PublisherOK(p)'
    BY OtherPublisher
  <1>3. QED
    BY <1>1, <1>2

LEMMA NextIInv == IInv /\ [Next]_vars => IInv'
  <1> SUFFICES ASSUME IInv, [Next]_vars PROVE IInv'
    OBVIOUS
  <1>1. ASSUME NEW e \in Events, Enqueue(e) PROVE IInv'
    BY <1>1, EnqueueIInv
  <1>2. ASSUME NEW e \in Events, BecomeDue(e) PROVE IInv'
    BY <1>2, BecomeDueIInv
  <1>3. ASSUME NEW p \in Publishers, Select(p) PROVE IInv'
    BY <1>3, SelectIInv
  <1>4. ASSUME NEW p \in Publishers, Route(p) PROVE IInv'
    BY <1>4, RouteIInv
  <1>5. ASSUME NEW p \in Publishers, Refuse(p) PROVE IInv'
    BY <1>5, RefuseIInv
  <1>6. ASSUME NEW p \in Publishers, Record(p) PROVE IInv'
    BY <1>6, RecordIInv
  <1>7. ASSUME NEW p \in Publishers, Lose(p) PROVE IInv'
    BY <1>7, LoseIInv
  <1>8. CASE UNCHANGED vars \/ AllSettled
    BY <1>8, UnchangedIInv DEF AllSettled, vars, IInv, TypeOK
  <1>9. ASSUME NEW p \in Publishers, Connect(p) PROVE IInv'
    BY <1>9, UnchangedIInv DEF Connect, IInv, TypeOK
  <1>10. QED
    BY <1>1, <1>2, <1>3, <1>4, <1>5, <1>6, <1>7, <1>8, <1>9 DEF Next

THEOREM InductiveInvariant == Spec => []IInv
  <1>1. QED
    BY InitIInv, NextIInv, PTL DEF Spec

\* The state of the outbox always has its type; in particular no row ever
\* counts more than MaxAttempts attempts, whatever the number of publishers.
THEOREM TypesAreRight == Spec => []TypeOK
  <1>1. IInv => TypeOK
    BY DEF IInv
  <1>2. QED
    BY <1>1, InductiveInvariant, PTL

\* An event marked PUBLISHED was routed by the broker at least once, for any
\* number of publishers.
THEOREM PublishedEventsWereSent == Spec => []PublishedWasSent
  <1>1. IInv => PublishedWasSent
    BY DEF IInv
  <1>2. QED
    BY <1>1, InductiveInvariant, PTL

\* An event that waits for another try has attempts left, for any number of
\* publishers.
THEOREM RetriesRemain == Spec => []RetriesAreLeft
  <1>1. IInv => RetriesAreLeft
    BY DEF IInv
  <1>2. QED
    BY <1>1, InductiveInvariant, PTL

-----------------------------------------------------------------------------
(* One publisher.                                                          *)
(*                                                                         *)
(* With nobody else writing the table, the objects of a batch are the rows *)
(* still: that is what makes the counts exact and the marks final.         *)

OnlyOne(p) == Publishers = {p}

InHand(p, e) == outcome[p] # "none" /\ Current(p) = e

CopiesAreCurrent == \A p \in Publishers : \A e \in batch[p] : copy[p][e] = row[e]

SoleInv == CopiesAreCurrent /\ ExhaustedAfterAllAttempts /\ DuplicatesAreAccountedFor

LEMMA CountOfOne ==
    ASSUME NEW p, NEW S, S \subseteq {p}
    PROVE  Cardinality(S) = IF p \in S THEN 1 ELSE 0
  <1>1. CASE p \in S
    BY <1>1, S = {p}, FS_Singleton
  <1>2. CASE p \notin S
    BY <1>2, S = {}, FS_EmptySet
  <1>3. QED
    BY <1>1, <1>2

\* The account of one event, without the count.
AccountedFor(p, e) ==
    sent[e] <= row[e].attempts + losses + (IF InHand(p, e) THEN 1 ELSE 0)

LEMMA Accounts ==
    ASSUME NEW p, OnlyOne(p)
    PROVE  /\ DuplicatesAreAccountedFor <=> \A e \in Events : AccountedFor(p, e)
           /\ DuplicatesAreAccountedFor' <=> \A e \in Events : AccountedFor(p, e)'
  <1> DEFINE Hands(e) == {q \in Publishers : outcome[q] # "none" /\ Current(q) = e}
  <1>1. \A e \in Events : /\ Hands(e) \subseteq {p}
                          /\ p \in Hands(e) <=> InHand(p, e)
    BY DEF OnlyOne, InHand
  <1>2. \A e \in Events : /\ Hands(e)' \subseteq {p}
                          /\ p \in Hands(e)' <=> InHand(p, e)'
    BY DEF OnlyOne, InHand
  <1> HIDE DEF Hands
  <1>3. \A e \in Events :
           /\ Cardinality(Hands(e)) = IF InHand(p, e) THEN 1 ELSE 0
           /\ Cardinality(Hands(e)') = IF InHand(p, e)' THEN 1 ELSE 0
    BY <1>1, <1>2, CountOfOne
  <1>4. DuplicatesAreAccountedFor <=>
           \A e \in Events : sent[e] <= row[e].attempts + losses + Cardinality(Hands(e))
    BY DEF DuplicatesAreAccountedFor, Hands
  <1>5. DuplicatesAreAccountedFor' <=>
           \A e \in Events : sent'[e] <= row'[e].attempts + losses' + Cardinality(Hands(e)')
    BY DEF DuplicatesAreAccountedFor, Hands
  <1>6. QED
    BY <1>3, <1>4, <1>5 DEF AccountedFor

\* What an event's account rests on is untouched, or grows as it must.
LEMMA InitSole ==
    ASSUME NEW p, OnlyOne(p), Init
    PROVE  SoleInv
  <1> USE DEF Init
  <1>1. CopiesAreCurrent
    BY DEF CopiesAreCurrent
  <1>2. ExhaustedAfterAllAttempts
    BY DEF ExhaustedAfterAllAttempts, NoRow
  <1>3. \A e \in Events : AccountedFor(p, e)
    BY DEF AccountedFor, NoRow, OnlyOne, InHand
  <1>4. QED
    BY <1>1, <1>2, <1>3, Accounts DEF SoleInv

LEMMA EnqueueSole ==
    ASSUME NEW p, OnlyOne(p), IInv, SoleInv, NEW e \in Events, Enqueue(e)
    PROVE  SoleInv'
  <1> USE DEF Enqueue
  <1>1. TypeOK /\ PublisherOK(p) /\ p \in Publishers
    BY DEF IInv, OnlyOne
  <1>2. e \notin batch[p]
    BY <1>1 DEF PublisherOK, NoRow
  <1>3. CopiesAreCurrent'
    BY <1>1, <1>2 DEF CopiesAreCurrent, SoleInv, OnlyOne, TypeOK
  <1>4. ExhaustedAfterAllAttempts'
    BY <1>1 DEF ExhaustedAfterAllAttempts, SoleInv, TypeOK
  <1>5. \A f \in Events : row'[f].attempts = row[f].attempts
    BY <1>1 DEF NoRow, TypeOK
  <1>6. \A f \in Events : InHand(p, f)' <=> InHand(p, f)
    BY DEF InHand, Current
  <1>7. \A f \in Events : AccountedFor(p, f)
    BY Accounts DEF SoleInv
  <1>8. \A f \in Events : AccountedFor(p, f)'
    BY <1>5, <1>6, <1>7 DEF AccountedFor
  <1>9. QED
    BY <1>3, <1>4, <1>8, Accounts DEF SoleInv

LEMMA BecomeDueSole ==
    ASSUME NEW p, OnlyOne(p), SoleInv, UNCHANGED <<row, batch, copy, outcome, sent, losses>>
    PROVE  SoleInv'
  <1>1. CopiesAreCurrent' /\ ExhaustedAfterAllAttempts'
    BY DEF CopiesAreCurrent, ExhaustedAfterAllAttempts, SoleInv
  <1>2. \A f \in Events : InHand(p, f)' <=> InHand(p, f)
    BY DEF InHand, Current
  <1>3. \A f \in Events : AccountedFor(p, f)
    BY Accounts DEF SoleInv
  <1>4. \A f \in Events : AccountedFor(p, f)'
    BY <1>2, <1>3 DEF AccountedFor
  <1>5. QED
    BY <1>1, <1>4, Accounts DEF SoleInv

LEMMA SelectSole ==
    ASSUME NEW p, OnlyOne(p), IInv, SoleInv, Select(p)
    PROVE  SoleInv'
  <1> USE DEF Select
  <1>1. TypeOK /\ PublisherOK(p) /\ p \in Publishers
    BY DEF IInv, OnlyOne
  <1>2. CopiesAreCurrent'
    BY <1>1 DEF CopiesAreCurrent, OnlyOne, TypeOK
  <1>3. ExhaustedAfterAllAttempts'
    BY DEF ExhaustedAfterAllAttempts, SoleInv
  <1>4. \A f \in Events : ~InHand(p, f)' /\ ~InHand(p, f)
    BY <1>1 DEF InHand, PublisherOK
  <1>5. \A f \in Events : AccountedFor(p, f)
    BY Accounts DEF SoleInv
  <1>6. \A f \in Events : AccountedFor(p, f)'
    BY <1>4, <1>5 DEF AccountedFor
  <1>7. QED
    BY <1>2, <1>3, <1>6, Accounts DEF SoleInv

LEMMA PublishSole ==
    ASSUME NEW p, OnlyOne(p), IInv, SoleInv, Route(p) \/ Refuse(p)
    PROVE  SoleInv'
  <1>1. TypeOK /\ p \in Publishers
    BY DEF IInv, OnlyOne
  <1>2. /\ UNCHANGED <<row, batch, copy, losses>>
        /\ outcome[p] = "none" /\ outcome'[p] # "none"
    BY <1>1 DEF Route, Refuse, TypeOK
  <1>3. CopiesAreCurrent' /\ ExhaustedAfterAllAttempts'
    BY <1>2 DEF CopiesAreCurrent, ExhaustedAfterAllAttempts, SoleInv
  <1>4. \A f \in Events : ~InHand(p, f) /\ (InHand(p, f)' <=> f = Current(p))
    BY <1>2 DEF InHand, Current
  <1>5. \A f \in Events : /\ sent[f] \in Nat
                          /\ sent'[f] = sent[f] \/ sent'[f] = sent[f] + 1
                          /\ f # Current(p) => sent'[f] = sent[f]
    BY <1>1 DEF Route, Refuse, TypeOK
  <1>6. \A f \in Events : row[f].attempts \in Nat /\ losses \in Nat
    BY <1>1, SettingsAssumption, LossesAssumption DEF TypeOK, Row
  <1>7. \A f \in Events : AccountedFor(p, f)
    BY Accounts DEF SoleInv
  <1>8. \A f \in Events : AccountedFor(p, f)'
    <2> SUFFICES ASSUME NEW f \in Events PROVE AccountedFor(p, f)'
      OBVIOUS
    <2>1. sent[f] <= row[f].attempts + losses
      BY <1>4, <1>6, <1>7 DEF AccountedFor
    <2>2. sent'[f] <= row[f].attempts + losses + (IF InHand(p, f)' THEN 1 ELSE 0)
      BY <1>4, <1>5, <1>6, <2>1
    <2>3. QED
      BY <1>2, <2>2 DEF AccountedFor
  <1>9. QED
    BY <1>3, <1>8, Accounts DEF SoleInv

\* What Record makes of a row, when the object is the row.
LEMMA RecordedRow ==
    ASSUME NEW p, OnlyOne(p), IInv, SoleInv, Record(p)
    PROVE  LET e == Current(p) IN
           /\ e \in batch[p] /\ e \in Events
           /\ Eligible(row[e]) /\ row[e].attempts < MaxAttempts
           /\ row[e].attempts \in Nat
           /\ row'[e].attempts = row[e].attempts + 1
           /\ outcome[p] \in {"confirmed", "failed"}
           /\ outcome[p] = "confirmed" => row'[e].status = "PUBLISHED" /\ sent[e] > 0
           /\ outcome[p] = "failed" =>
                 row'[e].status = IF row[e].attempts + 1 = MaxAttempts THEN "EXHAUSTED" ELSE "FAILED"
           /\ \A f \in Events \ {e} : row'[f] = row[f]
  <1> DEFINE e == Current(p)
  <1>1. TypeOK /\ PublisherOK(p) /\ p \in Publishers
    BY DEF IInv, OnlyOne
  <1>2. outcome[p] \in {"confirmed", "failed"} /\ Working(p)
    BY <1>1 DEF Record, TypeOK, PublisherOK
  <1>3. e \in batch[p] /\ e \in Events
    BY <1>1, <1>2, CurrentInBatch
  <1>4. copy[p][e] = row[e]
    BY <1>1, <1>3 DEF SoleInv, CopiesAreCurrent
  <1>5. Eligible(row[e]) /\ row[e].attempts < MaxAttempts
    BY <1>1, <1>3, <1>4 DEF PublisherOK
  <1>6. row[e].attempts \in Nat /\ MaxAttempts \in Nat
    BY <1>1, <1>3, SettingsAssumption DEF TypeOK, Row
  <1>7. /\ row'[e] = Written(row[e], outcome[p], row[e])
        /\ \A f \in Events \ {e} : row'[f] = row[f]
    BY <1>1, <1>3, <1>4 DEF Record, TypeOK
  <1>8. row'[e].attempts = row[e].attempts + 1 /\ row'[e].status = Result(row[e], outcome[p])
    BY <1>7 DEF Written
  <1>9. outcome[p] = "confirmed" => Result(row[e], outcome[p]) = "PUBLISHED"
    BY ConfirmedResult
  <1>10. outcome[p] = "failed" =>
            Result(row[e], outcome[p])
              = IF row[e].attempts + 1 = MaxAttempts THEN "EXHAUSTED" ELSE "FAILED"
    BY <1>5, <1>6 DEF Result, LastAttempt
  <1>11. outcome[p] = "confirmed" => sent[e] > 0
    BY <1>1 DEF PublisherOK
  <1>12. QED
    BY <1>2, <1>3, <1>5, <1>6, <1>7, <1>8, <1>9, <1>10, <1>11

LEMMA RecordSole ==
    ASSUME NEW p, OnlyOne(p), IInv, SoleInv, Record(p)
    PROVE  SoleInv'
  <1>1. TypeOK /\ p \in Publishers
    BY DEF IInv, OnlyOne
  <1> DEFINE e == Current(p)
  <1>2. /\ e \in batch[p] /\ e \in Events
        /\ row'[e].attempts = row[e].attempts + 1
        /\ row'[e].status = "EXHAUSTED" => row[e].attempts + 1 = MaxAttempts
        /\ \A f \in Events \ {e} : row'[f] = row[f]
    BY RecordedRow
  <1>3. /\ batch'[p] \subseteq batch[p] \ {e}
        /\ UNCHANGED <<copy, sent, losses>>
        /\ outcome[p] # "none" /\ outcome'[p] = "none"
    BY <1>1 DEF Record, TypeOK
  <1> HIDE DEF e
  <1>4. CopiesAreCurrent'
    BY <1>1, <1>2, <1>3 DEF CopiesAreCurrent, SoleInv, OnlyOne, TypeOK
  <1>5. ExhaustedAfterAllAttempts'
    BY <1>2 DEF ExhaustedAfterAllAttempts, SoleInv
  <1>6. \A f \in Events : ~InHand(p, f)' /\ (InHand(p, f) => f = e)
    BY <1>3 DEF InHand, e
  <1>7. \A f \in Events : /\ sent[f] \in Nat /\ row[f].attempts \in Nat /\ losses \in Nat
    BY <1>1, SettingsAssumption, LossesAssumption DEF TypeOK, Row
  <1>8. \A f \in Events : AccountedFor(p, f)
    BY Accounts DEF SoleInv
  <1>9. \A f \in Events : AccountedFor(p, f)'
    <2> SUFFICES ASSUME NEW f \in Events PROVE AccountedFor(p, f)'
      OBVIOUS
    <2>1. CASE f = e
      <3>1. sent[f] <= row[f].attempts + losses + 1
        BY <1>7, <1>8 DEF AccountedFor
      <3>2. QED
        BY <1>2, <1>3, <1>6, <1>7, <2>1, <3>1 DEF AccountedFor
    <2>2. CASE f # e
      BY <1>2, <1>3, <1>6, <1>7, <1>8, <2>2 DEF AccountedFor
    <2>3. QED
      BY <2>1, <2>2
  <1>10. QED
    BY <1>4, <1>5, <1>9, Accounts DEF SoleInv

LEMMA LoseSole ==
    ASSUME NEW p, OnlyOne(p), IInv, SoleInv, Lose(p)
    PROVE  SoleInv'
  <1> USE DEF Lose
  <1>1. TypeOK /\ p \in Publishers
    BY DEF IInv, OnlyOne
  <1>2. CopiesAreCurrent'
    BY <1>1 DEF CopiesAreCurrent, OnlyOne, TypeOK
  <1>3. ExhaustedAfterAllAttempts'
    BY DEF ExhaustedAfterAllAttempts, SoleInv
  <1>4. \A f \in Events : ~InHand(p, f)'
    BY <1>1 DEF InHand, TypeOK
  <1>5. \A f \in Events : /\ sent[f] \in Nat /\ row[f].attempts \in Nat /\ losses \in Nat
    BY <1>1, SettingsAssumption, LossesAssumption DEF TypeOK, Row
  <1>6. \A f \in Events : AccountedFor(p, f)
    BY Accounts DEF SoleInv
  <1>7. \A f \in Events : AccountedFor(p, f)'
    <2> SUFFICES ASSUME NEW f \in Events PROVE AccountedFor(p, f)'
      OBVIOUS
    <2>1. sent[f] <= row[f].attempts + losses + 1
      BY <1>5, <1>6 DEF AccountedFor
    <2>2. QED
      BY <1>4, <1>5, <2>1 DEF AccountedFor
  <1>8. QED
    BY <1>2, <1>3, <1>7, Accounts DEF SoleInv

LEMMA NextSole ==
    ASSUME NEW p, OnlyOne(p), IInv, SoleInv, [Next]_vars
    PROVE  SoleInv'
  <1>1. ASSUME NEW e \in Events, Enqueue(e) PROVE SoleInv'
    BY <1>1, EnqueueSole
  <1>2. ASSUME NEW e \in Events, BecomeDue(e) PROVE SoleInv'
    BY <1>2, BecomeDueSole DEF BecomeDue
  <1>3. CASE Select(p)
    BY <1>3, SelectSole
  <1>4. CASE Route(p) \/ Refuse(p)
    BY <1>4, PublishSole
  <1>5. CASE Record(p)
    BY <1>5, RecordSole
  <1>6. CASE Lose(p)
    BY <1>6, LoseSole
  <1>7. CASE UNCHANGED vars \/ AllSettled \/ Connect(p)
    BY <1>7, BecomeDueSole DEF AllSettled, vars, Connect
  <1>8. QED
    BY <1>1, <1>2, <1>3, <1>4, <1>5, <1>6, <1>7 DEF Next, OnlyOne

THEOREM SoleInductiveInvariant ==
    ASSUME NEW p, OnlyOne(p)
    PROVE  Spec => [](IInv /\ SoleInv)
  <1>1. Init => SoleInv
    BY InitSole
  <1>2. IInv /\ SoleInv /\ [Next]_vars => SoleInv'
    BY NextSole
  <1>3. QED
    BY <1>1, <1>2, InitIInv, NextIInv, PTL DEF Spec

\* With one publisher an event is given up after exactly MaxAttempts attempts.
THEOREM NoEarlyExhaustion ==
    ASSUME NEW p, OnlyOne(p)
    PROVE  Spec => []ExhaustedAfterAllAttempts
  <1>1. SoleInv => ExhaustedAfterAllAttempts
    BY DEF SoleInv
  <1>2. QED
    BY <1>1, SoleInductiveInvariant, PTL

\* With one publisher no copy of an event is made that a recorded attempt, a
\* lost batch or the publication in hand does not account for.
THEOREM DuplicatesAreBounded ==
    ASSUME NEW p, OnlyOne(p)
    PROVE  Spec => []DuplicatesAreAccountedFor
  <1>1. SoleInv => DuplicatesAreAccountedFor
    BY DEF SoleInv
  <1>2. QED
    BY <1>1, SoleInductiveInvariant, PTL

-----------------------------------------------------------------------------
(* One publisher implements the relay. *)

Abstract == [e \in Events |-> StateOf(row[e])]

AbstractTries == [e \in Events |-> row[e].attempts]

\* The refinement's actions, in the terms of this module.
LEMMA RelayVocabulary ==
    /\ Relay!Init <=> /\ Abstract = [e \in Events |-> "absent"]
                      /\ AbstractTries = [e \in Events |-> 0]
                      /\ sent = [e \in Events |-> 0]
    /\ \A e \in Events :
          /\ Relay!Accept(e) <=>
                /\ Abstract[e] = "absent"
                /\ Abstract' = [Abstract EXCEPT ![e] = "waiting"]
                /\ UNCHANGED <<AbstractTries, sent>>
          /\ Relay!Deliver(e) <=>
                /\ Abstract[e] = "waiting"
                /\ sent' = [sent EXCEPT ![e] = @ + 1]
                /\ UNCHANGED <<Abstract, AbstractTries>>
          /\ Relay!Confirm(e) <=>
                /\ Abstract[e] = "waiting"
                /\ sent[e] > 0
                /\ Abstract' = [Abstract EXCEPT ![e] = "delivered"]
                /\ AbstractTries' = [AbstractTries EXCEPT ![e] = @ + 1]
                /\ UNCHANGED sent
          /\ Relay!Fail(e) <=>
                /\ Abstract[e] = "waiting"
                /\ AbstractTries' = [AbstractTries EXCEPT ![e] = @ + 1]
                /\ Abstract' = [Abstract EXCEPT ![e] =
                       IF AbstractTries[e] + 1 = MaxAttempts THEN "given up" ELSE "waiting"]
                /\ UNCHANGED sent
    /\ Relay!Next <=>
          \E e \in Events :
             Relay!Accept(e) \/ Relay!Deliver(e) \/ Relay!Confirm(e) \/ Relay!Fail(e)
    /\ (UNCHANGED Relay!relayVars) <=> UNCHANGED <<Abstract, AbstractTries, sent>>
    BY DEF Relay!Init, Relay!Accept, Relay!Deliver, Relay!Confirm, Relay!Fail, Relay!Next,
           Relay!relayVars, Abstract, AbstractTries

LEMMA InitRelay == Init => Relay!Init
  <1> SUFFICES ASSUME Init PROVE Relay!Init
    OBVIOUS
  <1>1. StateOf(NoRow) = "absent"
    BY DEF StateOf, NoRow
  <1>2. QED
    BY <1>1, RelayVocabulary DEF Init, Abstract, AbstractTries, NoRow

LEMMA EligibleIsWaiting ==
    ASSUME NEW r, Eligible(r)
    PROVE  StateOf(r) = "waiting"
  <1>1. r.status = "PENDING" \/ r.status = "FAILED"
    BY DEF Eligible
  <1>2. QED
    BY <1>1 DEF StateOf

\* A step that leaves rows and deliveries alone is a stutter of the relay.
LEMMA Stutter ==
    ASSUME UNCHANGED <<row, sent>>
    PROVE  UNCHANGED Relay!relayVars
    BY RelayVocabulary DEF Abstract, AbstractTries

LEMMA EnqueueIsAccept ==
    ASSUME TypeOK, NEW e \in Events, Enqueue(e)
    PROVE  Relay!Accept(e)
  <1> USE DEF Enqueue, TypeOK
  <1>1. StateOf(row[e]) = "absent"
    BY DEF StateOf, NoRow
  <1>2. StateOf(row'[e]) = "waiting" /\ row'[e].attempts = row[e].attempts
    BY EligibleIsWaiting DEF NoRow, Eligible
  <1>3. \A f \in Events \ {e} : row'[f] = row[f]
    OBVIOUS
  <1>4. Abstract' = [Abstract EXCEPT ![e] = "waiting"]
    BY <1>2, <1>3 DEF Abstract
  <1>5. AbstractTries' = AbstractTries
    BY <1>2, <1>3 DEF AbstractTries
  <1>6. QED
    BY <1>1, <1>4, <1>5, RelayVocabulary DEF Abstract

LEMMA RouteIsDeliver ==
    ASSUME IInv, SoleInv, NEW p \in Publishers, Route(p)
    PROVE  Relay!Deliver(Current(p)) /\ Current(p) \in Events
  <1>1. /\ Current(p) \in batch[p]
        /\ Current(p) \in Events
    BY CurrentInBatch DEF Route, IInv
  <1>2. Eligible(row[Current(p)])
    BY <1>1 DEF IInv, PublisherOK, SoleInv, CopiesAreCurrent
  <1>3. Abstract[Current(p)] = "waiting"
    BY <1>1, <1>2, EligibleIsWaiting DEF Abstract
  <1>4. sent' = [sent EXCEPT ![Current(p)] = @ + 1] /\ UNCHANGED <<Abstract, AbstractTries>>
    BY DEF Route, Abstract, AbstractTries
  <1>5. QED
    BY <1>1, <1>3, <1>4, RelayVocabulary

LEMMA RecordIsConfirmOrFail ==
    ASSUME NEW p, OnlyOne(p), IInv, SoleInv, Record(p)
    PROVE  \E e \in Events : Relay!Confirm(e) \/ Relay!Fail(e)
  <1>0. PICK e : e = Current(p)
    OBVIOUS
  <1>1. /\ e \in batch[p] /\ e \in Events
        /\ Eligible(row[e]) /\ row[e].attempts < MaxAttempts
        /\ row[e].attempts \in Nat
        /\ row'[e].attempts = row[e].attempts + 1
        /\ outcome[p] \in {"confirmed", "failed"}
        /\ outcome[p] = "confirmed" => row'[e].status = "PUBLISHED" /\ sent[e] > 0
        /\ outcome[p] = "failed" =>
              row'[e].status = IF row[e].attempts + 1 = MaxAttempts THEN "EXHAUSTED" ELSE "FAILED"
        /\ \A f \in Events \ {e} : row'[f] = row[f]
    BY <1>0, RecordedRow
  <1>2. UNCHANGED sent /\ p \in Publishers
    BY DEF Record, OnlyOne
  <1>3. Abstract[e] = "waiting"
    BY <1>1, EligibleIsWaiting DEF Abstract
  <1>4. AbstractTries' = [AbstractTries EXCEPT ![e] = @ + 1]
    BY <1>1 DEF AbstractTries
  <1>5. AbstractTries[e] = row[e].attempts
    BY <1>1 DEF AbstractTries
  <1>6. ASSUME NEW s, StateOf(row'[e]) = s
        PROVE  Abstract' = [Abstract EXCEPT ![e] = s]
    BY <1>1, <1>6 DEF Abstract
  <1>7. CASE outcome[p] = "confirmed"
    <2>1. StateOf(row'[e]) = "delivered"
      BY <1>1, <1>7 DEF StateOf
    <2>2. Abstract' = [Abstract EXCEPT ![e] = "delivered"]
      BY <1>6, <2>1
    <2>3. Relay!Confirm(e)
      BY <1>1, <1>2, <1>3, <1>4, <1>7, <2>2, RelayVocabulary
    <2>4. QED
      BY <1>1, <2>3
  <1>8. CASE outcome[p] = "failed"
    <2> DEFINE s == IF row[e].attempts + 1 = MaxAttempts THEN "given up" ELSE "waiting"
    <2>1. StateOf(row'[e]) = s
      BY <1>1, <1>8 DEF StateOf
    <2>2. Abstract' = [Abstract EXCEPT ![e] = s]
      BY <1>6, <2>1
    <2>3. Relay!Fail(e)
      BY <1>1, <1>2, <1>3, <1>4, <1>5, <2>2, RelayVocabulary
    <2>4. QED
      BY <1>1, <2>3
  <1>9. QED
    BY <1>1, <1>7, <1>8

LEMMA NextRelay ==
    ASSUME NEW p, OnlyOne(p), IInv, SoleInv, [Next]_vars
    PROVE  [Relay!Next]_(Relay!relayVars)
  <1>1. ASSUME NEW e \in Events, Enqueue(e) PROVE Relay!Next
    BY <1>1, EnqueueIsAccept, RelayVocabulary DEF IInv
  <1>2. ASSUME NEW e \in Events, BecomeDue(e) PROVE UNCHANGED Relay!relayVars
    BY <1>2, Stutter DEF BecomeDue
  <1>3. CASE Connect(p) \/ Select(p) \/ Refuse(p) \/ Lose(p)
    BY <1>3, Stutter DEF Connect, Select, Refuse, Lose
  <1>4. CASE Route(p)
    BY <1>4, RouteIsDeliver, RelayVocabulary DEF OnlyOne
  <1>5. CASE Record(p)
    BY <1>5, RecordIsConfirmOrFail, RelayVocabulary
  <1>6. CASE UNCHANGED vars \/ AllSettled
    BY <1>6, Stutter DEF AllSettled, vars
  <1>7. QED
    BY <1>1, <1>2, <1>3, <1>4, <1>5, <1>6 DEF Next, OnlyOne

\* With one publisher the outbox implements the at-least-once relay of
\* EventRelay, for every number of events, attempts and lost batches.
THEOREM OutboxImplementsRelay ==
    ASSUME NEW p, OnlyOne(p)
    PROVE  Spec => ImplementsRelay
  <1>1. IInv /\ SoleInv /\ [Next]_vars => [Relay!Next]_(Relay!relayVars)
    BY NextRelay
  <1>2. QED
    BY <1>1, InitRelay, SoleInductiveInvariant, PTL DEF Spec, ImplementsRelay, Relay!Spec

\* With one publisher a step never changes the row of a settled event.
THEOREM SettledStaysSettled ==
    ASSUME NEW p, OnlyOne(p)
    PROVE  Spec => SettledIsFinal
  <1>1. ASSUME IInv, SoleInv, [Next]_vars
        PROVE  [\A e \in Events : Settled(row[e]) => row'[e] = row[e]]_vars
    <2>1. ASSUME NEW e \in Events, Enqueue(e), NEW f \in Events, Settled(row[f])
          PROVE  row'[f] = row[f]
      BY <1>1, <2>1 DEF Enqueue, Settled, NoRow, IInv, TypeOK
    <2>2. ASSUME Record(p), NEW f \in Events, Settled(row[f])
          PROVE  row'[f] = row[f]
      <3>1. Eligible(row[Current(p)]) /\ \A g \in Events \ {Current(p)} : row'[g] = row[g]
        BY <1>1, <2>2, RecordedRow
      <3>2. f # Current(p)
        BY <2>2, <3>1 DEF Settled, Eligible
      <3>3. QED
        BY <3>1, <3>2
    <2>3. ASSUME UNCHANGED row PROVE \A f \in Events : row'[f] = row[f]
      BY <2>3
    <2>4. QED
      BY <1>1, <2>1, <2>2, <2>3
         DEF Next, OnlyOne, BecomeDue, Connect, Select, Route, Refuse, Lose, AllSettled, vars
  <1>2. QED
    BY <1>1, SoleInductiveInvariant, PTL DEF Spec, SettledIsFinal

=============================================================================
