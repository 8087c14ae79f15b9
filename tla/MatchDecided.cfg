SPECIFICATION HistorySpec
CONSTANTS
    l1 = l1
    f1 = f1
    f2 = f2
    near = near
    far = far
    t1 = t1
    t2 = t2
    Lost <- MCLost
    Found <- MCOneFound
    Details <- MCDetails
    Score <- MCScore
    Stopwords <- MCStopwords
    Described <- MCDescribed
    Reports <- MCReports
    Contents <- MCComesAndGoes
    Threads <- MCThreads
    MaxEvents = 4
    MaxDecisions = 2
INVARIANT
    DecidedOnce
CHECK_DEADLOCK TRUE
