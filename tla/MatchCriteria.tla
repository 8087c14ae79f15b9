---------------------------- MODULE MatchCriteria ----------------------------
(***************************************************************************)
(* The criteria of matching-service: what a lost and a found item must     *)
(* have in common for one to be suggested as the other, and the score of   *)
(* the suggestion.                                                         *)
(*                                                                         *)
(* A category, a color and a word have a name and a spelling (case, spaces *)
(* around); a text is its set of words; a date is a number of days.        *)
(***************************************************************************)
EXTENDS Integers

CONSTANT Stopwords    \* names of the words that tell nothing of an item

\* lower() and strip() forget how a value is spelled.
NormalizeValue(value) == value.name

Tokenize(text) ==
    {NormalizeValue(word) : word \in {w \in text : w.letters >= 3 /\ w.name \notin Stopwords}}

SameCategory(l, f) == NormalizeValue(l.category) = NormalizeValue(f.category)

\* Mutant: the item is taken to be found after it was lost.
DaysSince(l, f) == f.date - l.date

DaysApart(l, f) == IF l.date < f.date THEN f.date - l.date ELSE l.date - f.date

ColorPoints(l, f) == IF NormalizeValue(l.color) = NormalizeValue(f.color) THEN 20 ELSE 0

LocationPoints(l, f) ==
    IF Tokenize(l.location) \cap Tokenize(f.location) # {} THEN 15 ELSE 0

DatePoints(l, f) ==
    CASE DaysApart(l, f) <= 3 -> 15
      [] DaysApart(l, f) \in 4..7 -> 10
      [] OTHER -> 0

KeywordPoints(l, f) ==
    IF Tokenize(l.title \cup l.description) \cap Tokenize(f.title \cup f.description) # {}
    THEN 10 ELSE 0

AdditionalPoints(l, f) ==
    ColorPoints(l, f) + LocationPoints(l, f) + DatePoints(l, f) + KeywordPoints(l, f)

\* The category alone makes no pair: a pair that is none scores 0.
PairScore(l, f) ==
    IF SameCategory(l, f) /\ AdditionalPoints(l, f) > 0 THEN 40 + AdditionalPoints(l, f) ELSE 0

-----------------------------------------------------------------------------
(* What the criteria promise of a report, held against those of a set. *)

\* Whichever item is named first, a pair scores the same, 50 at least.
ScoresEvenly(l, reports) ==
    \A f \in reports : PairScore(l, f) = PairScore(f, l) /\ PairScore(l, f) \in {0} \cup 50..100

DifferInDate(f, g) ==
    /\ f.category = g.category /\ f.color = g.color /\ f.location = g.location
    /\ f.title = g.title /\ f.description = g.description

\* Two items of one category reported within a week are a pair though nothing
\* else agrees, and the nearer the dates, the higher the score.
ScoresByDate(l, reports) ==
    \A f \in reports :
        /\ SameCategory(l, f) /\ DaysApart(l, f) <= 7 => PairScore(l, f) > 0
        /\ \A g \in reports :
              DifferInDate(f, g) /\ DaysApart(l, f) <= DaysApart(l, g) =>
                  PairScore(l, f) >= PairScore(l, g)

=============================================================================
