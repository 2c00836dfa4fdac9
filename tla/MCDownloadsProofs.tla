------------------------- MODULE MCDownloadsProofs -------------------------
(* The invariants of the proofs on a small instance.                       *)
EXTENDS DownloadsLedger, DownloadsProofs, TLC

GidSymmetry == Permutations(Gids)

\* A fault or an edit: a fault is not followed further while an edit is at work or
\* its status still stands.
FaultOrEdit == faults > 0 => edited = {} /\ (\A w \in Editors : job[w].at = "idle")

=============================================================================
