----------------------------- MODULE MCProwlarr -----------------------------
(* Prowlarr with model values for the directories and for the requests that *)
(* save the configuration, interchangeable in each case.                     *)
EXTENDS Prowlarr, TLC

Symmetry == Permutations(Dirs) \cup Permutations(Savers)

=============================================================================
