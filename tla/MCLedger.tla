------------------------------- MODULE MCLedger -------------------------------
(***************************************************************************)
(* LedgerStore on small instances: who does what in each run, and what the   *)
(* runs ask of it beyond the properties of LedgerStore.                     *)
(***************************************************************************)
EXTENDS LedgerStore, TLC

CONSTANTS p1, p2, p3

\* Two writers that both rotate.
Writers == [p \in {p1, p2} |-> {"append", "rotate"}]
\* A writer that rotates, an operator that archives, another that holds.
Holding == (p1 :> {"append", "rotate"}) @@ (p2 :> {"apply"}) @@ (p3 :> {"place", "release"})
\* A writer that rotates and holds, two operators that archive.
TwoArchiversHold == (p1 :> {"append", "rotate", "place", "release"})
                      @@ (p2 :> {"apply"}) @@ (p3 :> {"apply"})

SameOperator == [p \in Proc |-> "alice"]

-----------------------------------------------------------------------------
(* What the runs ask, by theme *)

\* Archiving a segment keeps the evidence it holds of earlier archivals, and
\* leaves each archived segment its sidecar.
RetentionEvidence == EvidenceCarried /\ ArchivedHasSidecar
=============================================================================
