------------------------------- MODULE MCReader -------------------------------
(* LedgerReader on small instances.                                         *)
EXTENDS LedgerReader, TLC

CONSTANTS p1, p2

\* A writer that rotates and an operator that archives, beside the reader.
RotatorArchiver == (p1 :> {"append", "rotate"}) @@ (p2 :> {"apply"})
SameOperator == [p \in Proc |-> "alice"]

\* The lock-free reader reports no break that nobody caused, and calls verified
\* neither a short nor a mixed snapshot.
ReaderSound == NoFalseBreak /\ ReadComplete
=============================================================================
