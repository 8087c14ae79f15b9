------------------------- MODULE MatchCriteriaProofs -------------------------
(***************************************************************************)
(* Theorems about MatchCriteria: what the criteria promise of any reports, *)
(* whatever their texts, spellings and dates; and about ScoredMatching:    *)
(* what that makes of the suggestions.                                     *)
(***************************************************************************)
EXTENDS ScoredMatching, MatchRacesProofs

Dated(reports) == \A r \in reports : r.date \in Int

-----------------------------------------------------------------------------
(* Lemmas. *)

\* The values each criterion can add.
LEMMA PointsAre ==
    ASSUME NEW l, NEW f
    PROVE  /\ ColorPoints(l, f) \in {0, 20}
           /\ LocationPoints(l, f) \in {0, 15}
           /\ DatePoints(l, f) \in {0, 10, 15}
           /\ KeywordPoints(l, f) \in {0, 10}
  <1>1. DatePoints(l, f) \in {0, 10, 15}
    BY DEF DatePoints
  <1>2. QED
    BY <1>1 DEF ColorPoints, LocationPoints, KeywordPoints

\* Every criterion compares both reports in the same way.
LEMMA PointsAreEven ==
    ASSUME NEW l, NEW f, l.date \in Int, f.date \in Int
    PROVE  /\ ColorPoints(l, f) = ColorPoints(f, l)
           /\ LocationPoints(l, f) = LocationPoints(f, l)
           /\ DatePoints(l, f) = DatePoints(f, l)
           /\ KeywordPoints(l, f) = KeywordPoints(f, l)
           /\ SameCategory(l, f) = SameCategory(f, l)
  <1>1. DaysApart(l, f) = DaysApart(f, l)
    BY DEF DaysApart
  <1>2. \A s, t : s \cap t = t \cap s
    OBVIOUS
  <1>3. LocationPoints(l, f) = LocationPoints(f, l)
    BY <1>2 DEF LocationPoints
  <1>4. KeywordPoints(l, f) = KeywordPoints(f, l)
    BY <1>2 DEF KeywordPoints
  <1>5. QED
    BY <1>1, <1>3, <1>4 DEF ColorPoints, DatePoints, SameCategory

\* A date that is nearer scores no less.
LEMMA NearerScoresNoLess ==
    ASSUME NEW l, NEW f, NEW g, l.date \in Int, f.date \in Int, g.date \in Int,
           DaysApart(l, f) <= DaysApart(l, g)
    PROVE  DatePoints(l, f) >= DatePoints(l, g)
  <1> DEFINE near == DaysApart(l, f)
             far  == DaysApart(l, g)
  <1>1. near \in Nat /\ far \in Nat /\ near <= far
    BY DEF DaysApart
  <1>2. /\ DatePoints(l, f) = CASE near <= 3 -> 15 [] near \in 4..7 -> 10 [] OTHER -> 0
        /\ DatePoints(l, g) = CASE far <= 3 -> 15 [] far \in 4..7 -> 10 [] OTHER -> 0
    BY DEF DatePoints
  <1> HIDE DEF near, far
  <1>3. CASE near <= 3
    <2>1. DatePoints(l, f) = 15
      BY <1>1, <1>2, <1>3
    <2>2. QED
      BY <2>1, PointsAre
  <1>4. CASE near \in 4..7
    <2>1. DatePoints(l, f) = 10
      BY <1>1, <1>2, <1>4
    <2>2. ~(far <= 3)
      BY <1>1, <1>4
    <2>3. DatePoints(l, g) \in {0, 10}
      BY <1>2, <2>2
    <2>4. QED
      BY <2>1, <2>3
  <1>5. CASE near > 7
    <2>1. ~(far <= 3) /\ far \notin 4..7
      BY <1>1, <1>5
    <2>2. DatePoints(l, g) = 0
      BY <1>2, <2>1
    <2>3. QED
      BY <2>2, PointsAre
  <1>6. QED
    BY <1>1, <1>3, <1>4, <1>5

-----------------------------------------------------------------------------
(* Theorems about the criteria. *)

\* is_match_candidate_pair gives a pair one score whichever item comes first;
\* it is at least 50, and at most 100, when they are a pair.
THEOREM CriteriaAreEven ==
    ASSUME NEW l, NEW reports, l.date \in Int, Dated(reports)
    PROVE  ScoresEvenly(l, reports)
  <1> SUFFICES ASSUME NEW f \in reports
               PROVE  PairScore(l, f) = PairScore(f, l) /\ PairScore(l, f) \in {0} \cup 50..100
    BY DEF ScoresEvenly
  <1>1. f.date \in Int
    BY DEF Dated
  <1>2. AdditionalPoints(l, f) = AdditionalPoints(f, l) /\ SameCategory(l, f) = SameCategory(f, l)
    BY <1>1, PointsAreEven DEF AdditionalPoints
  <1>3. AdditionalPoints(l, f) \in {0} \cup 10..60
    BY PointsAre DEF AdditionalPoints
  <1>4. QED
    BY <1>2, <1>3 DEF PairScore

\* Reports of one category within a week are a pair, and a nearer date never
\* lowers the score of reports that are alike otherwise.
THEOREM CriteriaFollowDates ==
    ASSUME NEW l, NEW reports, l.date \in Int, Dated(reports)
    PROVE  ScoresByDate(l, reports)
  <1> SUFFICES ASSUME NEW f \in reports
               PROVE  /\ SameCategory(l, f) /\ DaysApart(l, f) <= 7 => PairScore(l, f) > 0
                      /\ \A g \in reports :
                            DifferInDate(f, g) /\ DaysApart(l, f) <= DaysApart(l, g) =>
                                PairScore(l, f) >= PairScore(l, g)
    BY DEF ScoresByDate
  <1>1. f.date \in Int
    BY DEF Dated
  <1>2. ASSUME SameCategory(l, f), DaysApart(l, f) <= 7
        PROVE  PairScore(l, f) > 0
    <2>1. DaysApart(l, f) \in Nat
      BY <1>1 DEF DaysApart
    <2>2. DaysApart(l, f) <= 3 \/ DaysApart(l, f) \in 4..7
      BY <1>2, <2>1
    <2>3. DatePoints(l, f) > 0
      BY <2>2 DEF DatePoints
    <2>4. AdditionalPoints(l, f) > 0 /\ AdditionalPoints(l, f) \in Nat
      BY <2>3, PointsAre DEF AdditionalPoints
    <2>5. QED
      BY <1>2, <2>4 DEF PairScore
  <1>3. ASSUME NEW g \in reports, DifferInDate(f, g), DaysApart(l, f) <= DaysApart(l, g)
        PROVE  PairScore(l, f) >= PairScore(l, g)
    <2>1. g.date \in Int
      BY DEF Dated
    <2>2. /\ SameCategory(l, f) = SameCategory(l, g)
          /\ ColorPoints(l, f) = ColorPoints(l, g)
          /\ LocationPoints(l, f) = LocationPoints(l, g)
          /\ KeywordPoints(l, f) = KeywordPoints(l, g)
      BY <1>3 DEF DifferInDate, SameCategory, ColorPoints, LocationPoints, KeywordPoints
    <2>3. DatePoints(l, f) >= DatePoints(l, g)
      BY <1>1, <1>3, <2>1, NearerScoresNoLess
    <2>4. AdditionalPoints(l, f) >= AdditionalPoints(l, g)
      BY <2>2, <2>3, PointsAre DEF AdditionalPoints
    <2>5. AdditionalPoints(l, f) \in Nat /\ AdditionalPoints(l, g) \in Nat
      BY PointsAre DEF AdditionalPoints
    <2>6. QED
      BY <2>2, <2>4, <2>5 DEF PairScore
  <1>4. QED
    BY <1>2, <1>3

-----------------------------------------------------------------------------
(* Theorems about the suggestions that the criteria score. *)

\* An item with a projection has a report, and so has an available one.
LEMMA KnownAreDescribed ==
    ASSUME IInv, NEW i \in Items, HasProjection(i) \/ Available(i)
    PROVE  projection[i].details \in Details /\ ReportOf(i).date \in Int
  <1>1. projection[i] \in Projection \cup {NoProjection}
    BY DEF IInv, TypeOK
  <1>2. projection[i] # NoProjection
    BY DEF HasProjection, Available, NoProjection, None
  <1>3. projection[i].details \in Details
    BY <1>1, <1>2 DEF Projection
  <1>4. QED
    BY <1>3, ReportsAssumption DEF ReportOf

\* The suggestion's score is the one the criteria give the two reports.
LEMMA ScoredByCriteria ==
    ASSUME IInv, NEW p \in Pairs, Available(p[1]), Available(p[2])
    PROVE  /\ ReportOf(p[1]).date \in Int /\ ReportOf(p[2]).date \in Int
           /\ ScoreOf(projection, p) = PairScore(ReportOf(p[1]), ReportOf(p[2]))
  <1>1. p[1] \in Items /\ p[2] \in Items
    BY DEF Pairs, Items
  <1> DEFINE d == <<projection[p[1]].details, projection[p[2]].details>>
  <1>2. d \in Details \X Details
    BY <1>1, KnownAreDescribed
  <1>3. Score[d] = PairScore(Described[d[1]], Described[d[2]])
    BY <1>2, ScoreAssumption
  <1>4. QED
    BY <1>1, <1>3, KnownAreDescribed DEF ScoreOf, ReportOf

\* Every report that comes in with an event is fairly held against any other:
\* CriteriaAreEven and CriteriaFollowDates hold of what the projections have.
THEOREM KnownReportsAreFair == HistorySpec => []CriteriaAreFair
  <1>1. ASSUME IInv, NEW i \in Items, HasProjection(i) PROVE Fair[projection[i].details]
    <2>1. projection[i].details \in Details /\ Described[projection[i].details].date \in Int
      BY <1>1, KnownAreDescribed DEF ReportOf
    <2>2. Dated(Reports)
      BY ReportsAssumption DEF Dated
    <2>3. QED
      BY <2>1, <2>2, CriteriaAreEven, CriteriaFollowDates DEF Fair
  <1>2. HistoryInv => CriteriaAreFair
    BY <1>1 DEF HistoryInv, CriteriaAreFair
  <1>3. QED
    BY <1>2, HistoryInvariant, PTL

\* match_suggestions offers only pairs of one category, with the score that
\* their reports of the moment have, 50 to 100, under every interleaving of
\* events and decisions.
THEOREM OffersAreByCriteria == HistorySpec => []OffersKeepCriteria
  <1>1. ASSUME IInv, NEW p \in Pairs, match[p] = "SUGGESTED"
        PROVE  /\ SameCategory(ReportOf(p[1]), ReportOf(p[2]))
               /\ score[p] = PairScore(ReportOf(p[1]), ReportOf(p[2]))
               /\ score[p] \in 50..100
    <2> DEFINE l == ReportOf(p[1])
               f == ReportOf(p[2])
    <2>1. Candidate(projection, p) /\ score[p] = ScoreOf(projection, p)
      BY <1>1 DEF IInv, SuggestedIsCandidate, OfferedScoreIsCurrent
    <2>2. /\ l.date \in Int /\ f.date \in Int
          /\ score[p] = PairScore(l, f) /\ score[p] > 0
      BY <1>1, <2>1, ScoredByCriteria DEF Candidate, Available
    <2> HIDE DEF l, f
    <2>3. ScoresEvenly(l, {f})
      BY <2>2, CriteriaAreEven DEF Dated
    <2>4. score[p] \in 50..100
      BY <2>2, <2>3 DEF ScoresEvenly
    <2>5. SameCategory(l, f)
      BY <2>2 DEF PairScore
    <2>6. QED
      BY <2>2, <2>4, <2>5 DEF l, f
  <1>2. HistoryInv => OffersKeepCriteria
    BY <1>1 DEF HistoryInv, OffersKeepCriteria
  <1>3. QED
    BY <1>2, HistoryInvariant, PTL

\* Two available items of one category, reported within a week of each other,
\* are offered or were decided on, whatever came before, unless a race touched
\* the pair: no event order makes generate_match_suggestions_for_item miss them.
THEOREM WeekApartAreOffered == HistorySpec => []WeekApartIsOffered
  <1>1. ASSUME HistoryInv, NEW p \in Spared, Available(p[1]), Available(p[2]),
               SameCategory(ReportOf(p[1]), ReportOf(p[2])),
               DaysApart(ReportOf(p[1]), ReportOf(p[2])) <= 7
        PROVE  match[p] \in Decisions \cup {"SUGGESTED"}
    <2> DEFINE l == ReportOf(p[1])
               f == ReportOf(p[2])
    <2>1. p \in Pairs /\ IInv
      BY <1>1 DEF Spared, HistoryInv
    <2>2. /\ l.date \in Int /\ f.date \in Int
          /\ ScoreOf(projection, p) = PairScore(l, f)
      BY <1>1, <2>1, ScoredByCriteria
    <2>3. SameCategory(l, f) /\ DaysApart(l, f) <= 7
      BY <1>1
    <2> HIDE DEF l, f
    <2>4. ScoresByDate(l, {f})
      BY <2>2, CriteriaFollowDates DEF Dated
    <2>5. PairScore(l, f) > 0
      BY <2>3, <2>4 DEF ScoresByDate
    <2>6. Candidate(projection, p)
      BY <1>1, <2>2, <2>5 DEF Candidate, Available
    <2>7. match[p] \notin {None, "EXPIRED"}
      BY <1>1, <2>6 DEF HistoryInv, PairInv
    <2>8. QED
      BY <2>1, <2>7 DEF IInv, TypeOK, MatchStatuses
  <1>2. HistoryInv => WeekApartIsOffered
    BY <1>1 DEF WeekApartIsOffered
  <1>3. QED
    BY <1>2, HistoryInvariant, PTL

=============================================================================
