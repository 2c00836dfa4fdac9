--------------------------- MODULE MCPollSchedule ---------------------------
(* PollSchedule on small numbers: every third minute, one date, no date.      *)
EXTENDS PollSchedule

SomeCrontabs == {{3, 6, 9}, {5}, {}}

\* Unset, below zero, usual ones, and one that overflows.
SomeIntervals == {-1, 0, 1, 3, 9}

=============================================================================
