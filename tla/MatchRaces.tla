------------------------------ MODULE MatchRaces ------------------------------
(***************************************************************************)
(* Matching with a history of the races it runs into: the pairs on which a *)
(* decision was in progress beside another one, or while an event of one   *)
(* of the pair's items was being consumed.  The service does not prevent   *)
(* them; what it promises of a decision holds for the pairs they spared.   *)
(***************************************************************************)
EXTENDS Matching

VARIABLE raced    \* pairs on which decisions overlapped with each other or with an event

historyVars == <<vars, raced>>

DecidesOn(t, p) == worker[t] # NoWork /\ worker[t].pair = p

Overlapping ==
    {p \in Pairs :
        \/ \E t, u \in Threads : t # u /\ DecidesOn(t, p) /\ DecidesOn(u, p)
        \/ Consuming /\ Touches(p, EventItem) /\ \E t \in Threads : DecidesOn(t, p)}

HistoryInit == Init /\ raced = {}

HistoryNext == Next /\ raced' = raced \cup Overlapping'

HistorySpec == HistoryInit /\ [][HistoryNext]_historyVars

-----------------------------------------------------------------------------
(* Properties. *)

Spared == Pairs \ raced

\* A pair that no race touched, and that holds for the projections, was offered
\* and is offered still, or decided: no candidate is forgotten, whatever races
\* there were on other pairs of its items.
CandidatesAreOffered ==
    \A p \in Spared : Candidate(projection, p) => match[p] \notin {None, "EXPIRED"}

\* A pair that no race touched is decided at most once.
SparedDecidedOnce ==
    \A p \in Spared : \A j, k \in DecisionsOn(p) : j = k

\* A decision on a pair that no race touched is final: neither another decision
\* nor an event changes it.
DecisionIsFinal ==
    [][\A p \in Pairs : match[p] \in Decisions /\ p \notin raced' => match'[p] = match[p]]_historyVars

=============================================================================
