-------------------------- MODULE MCOutboxPublisher --------------------------
(***************************************************************************)
(* Instances of OutboxPublisher: three events in batches of two or three,  *)
(* so that a batch leaves an event behind or outlives its locks.           *)
(***************************************************************************)
EXTENDS OutboxPublisher

CONSTANTS p1, p2

MCEvents == 1..3
MCTwoEvents == 1..2
OnePublisher == {p1}
TwoPublishers == {p1, p2}

=============================================================================
