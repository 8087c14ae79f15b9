--------------------------- MODULE ScoredMatching ---------------------------
(***************************************************************************)
(* matching-service with its criteria: what Matching knows of an item's    *)
(* details is a report, and two items score what MatchCriteria makes of    *)
(* their reports.                                                          *)
(***************************************************************************)
EXTENDS MatchRaces, MatchCriteria

CONSTANTS
    Described,    \* the report that details stand for
    Reports       \* the reports to hold the known ones against

ASSUME ReportsAssumption ==
    /\ \A d \in Details : Described[d].date \in Int
    /\ \A f \in Reports : f.date \in Int

ASSUME ScoreAssumption ==
    \A d \in Details \X Details : Score[d] = PairScore(Described[d[1]], Described[d[2]])

-----------------------------------------------------------------------------
(* Properties. *)

HasProjection(i) == projection[i] # NoProjection

\* What matching-service holds to be reported of an item.
ReportOf(i) == Described[projection[i].details]

Fair ==
    [d \in Details |-> ScoresEvenly(Described[d], Reports) /\ ScoresByDate(Described[d], Reports)]

\* Every report that is known is fairly held against any report at the edges of
\* the criteria: whichever item is named first, a pair scores the same, 50 at
\* least; reports of a category within a week are a pair; a nearer date never
\* scores less.
CriteriaAreFair ==
    \A i \in Items : HasProjection(i) => Fair[projection[i].details]

\* What is offered is a pair by the criteria, and shows its score, though the
\* reports may have changed since it was offered first.
OffersKeepCriteria ==
    \A p \in Pairs :
        match[p] = "SUGGESTED" =>
            /\ SameCategory(ReportOf(p[1]), ReportOf(p[2]))
            /\ score[p] = PairScore(ReportOf(p[1]), ReportOf(p[2]))
            /\ score[p] \in 50..100

Available(i) == projection[i].status = "AVAILABLE"

\* Two available items of one category, reported within a week of each other,
\* are offered or were decided on, in whatever order their events came, unless
\* a race touched the pair.
WeekApartIsOffered ==
    \A p \in Spared :
        LET l == ReportOf(p[1])
            f == ReportOf(p[2])
        IN  /\ Available(p[1]) /\ Available(p[2])
            /\ SameCategory(l, f) /\ DaysApart(l, f) <= 7
            => match[p] \in Decisions \cup {"SUGGESTED"}

=============================================================================
