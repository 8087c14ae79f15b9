--------------------------- MODULE MCRecoveryCases ---------------------------
(***************************************************************************)
(* An instance of RecoveryCases: two lost items matched with one found     *)
(* item; the first match was accepted twice.                               *)
(***************************************************************************)
EXTENDS RecoveryCases, TLC

CONSTANTS l1, l2, f1, m1, m2, e1, e2, e3, consumer, t1, t2, u1

MCItems   == {l1, l2, f1}
MCMatches == {m1, m2}
MCLostOf  == (m1 :> l1) @@ (m2 :> l2)
MCFoundOf == [m \in MCMatches |-> f1]
MCEvents  == {e1, e2, e3}
MCMatchOf == (e1 :> m1) @@ (e2 :> m2) @@ (e3 :> m1)
MCDeliveries    == (e1 :> 2) @@ (e2 :> 1) @@ (e3 :> 1)
MCOneDelivery   == [e \in MCEvents |-> 1]
MCThreads == {t1, t2}
MCUsers   == {u1}
MCSymmetry == Permutations(MCThreads)

=============================================================================
