----------------------------- MODULE MCMatching -----------------------------
(***************************************************************************)
(* Instances of ScoredMatching: items whose events make them available,    *)
(* leave the flow, or change in what the criteria compare.                 *)
(***************************************************************************)
EXTENDS ScoredMatching, TLC

CONSTANTS l1, f1, f2, near, far, t1, t2

MCLost       == {l1}
MCOneFound   == {f1}
MCTwoFound   == {f1, f2}
MCThreads    == {t1, t2}
MCSymmetry   == Permutations(MCTwoFound) \cup Permutations(MCThreads)

-----------------------------------------------------------------------------
(* Reports, and their scores. *)

MCStopwords == {"with"}

Spelled(name, spelling) == [name |-> name, spelling |-> spelling]

Word(name, letters) == [name |-> name, letters |-> letters]

Texts == {{Word("with", 4), Word("at", 2)}, {Word("lab", 3), Word("at", 2)}}

Report(category, color, location, date, description) ==
    [category |-> category, color |-> color, location |-> location, date |-> date,
     title |-> {Word("with", 4)}, description |-> description]

\* Reports that differ in each criterion, and in spelling, at the dates where
\* the score changes.
MCReports ==
    {Report(Spelled(c, "lower"), Spelled(k, s), l, d, w) :
        c \in {"bag", "phone"}, k \in {"red", "blue"}, s \in {"lower", "upper"},
        l \in Texts, d \in {0, 3, 4, 7, 8}, w \in Texts}

MCDetails == {near, far}

\* Together they score 70; 100 is what near scores with itself.
MCDescribed ==
    LET text == {Word("lab", 3)} IN
    (near  :> Report(Spelled("bag", "lower"), Spelled("red", "lower"), text, 0, text)) @@
    (far   :> Report(Spelled("bag", "upper"), Spelled("red", "upper"), {}, 7, text))

MCScore ==
    [d \in MCDetails \X MCDetails |-> PairScore(Described[d[1]], Described[d[2]])]

-----------------------------------------------------------------------------
(* What the items' events carry. *)

Body(s, d) == [status |-> s, details |-> d]

MCComesAndGoes == {Body("AVAILABLE", near), Body("IN_RECOVERY", near)}
MCContents     == MCComesAndGoes \cup {Body("AVAILABLE", far)}

=============================================================================
