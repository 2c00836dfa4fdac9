------------------------------ MODULE MCFeeds ------------------------------
(* Feeds on a small instance: two entries of one feed.                       *)
EXTENDS Feeds

OneFeed == [e \in Entries |-> 1]

\* An include pattern that matches both entries, and no exclude pattern.
BothKept == {[include |-> {Entries}, exclude |-> {}]}

=============================================================================
