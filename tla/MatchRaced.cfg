SPECIFICATION HistorySpec
CONSTANTS
    l1 = l1
    f1 = f1
    f2 = f2
    near = near
    far = far
    t1 = t1
    t2 = t2
    Lost <- MCLost
    Found <- MCTwoFound
    Details <- MCDetails
    Score <- MCScore
    Stopwords <- MCStopwords
    Described <- MCDescribed
    Reports <- MCReports
    Contents <- MCContents
    Threads <- MCThreads
    MaxEvents = 4
    MaxDecisions = 3
SYMMETRY MCSymmetry
INVARIANTS
    TypeOK
    ProjectionIsNewest
    SuggestedIsCandidate
    OfferedScoreIsCurrent
    StatusIsAnnounced
    CandidatesAreOffered
    SparedDecidedOnce
    CriteriaAreFair
PROPERTY
    DecisionIsFinal
CHECK_DEADLOCK TRUE
