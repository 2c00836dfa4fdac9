---------------------------- MODULE MCDownloads ----------------------------
(* Downloads on small instances: the cfg files give the constants.          *)
EXTENDS DownloadsLifecycle, DownloadsAnswers, TLC

\* Gids are opaque and only compared for equality.
GidSymmetry == Permutations(Gids)

=============================================================================
