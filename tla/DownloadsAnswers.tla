-------------------------- MODULE DownloadsAnswers --------------------------
(***************************************************************************)
(* Downloads says of a gid only which phase it is in.  Here each answer    *)
(* aria2 can give in that phase is read as the code reads it.              *)
(***************************************************************************)
EXTENDS Downloads, Aria2Answers

\* What is concluded from answer a about a download in phase p.
ReadAs(p, a) ==
  /\ TaskState(a) = "error"   <=> p = "error"
  /\ TaskState(a) = "removed" <=> p = "removed"
  /\ IsAria2DownloadReady(a)  <=> p = "complete"
  /\ p = "complete" /\ a.files # <<>> =>
       LET i == DownloadPath(a)
       IN  /\ a.files[i].name = "entity"
           /\ EntryComplete(a.files[i]) \/ ~\E other \in RealFiles(a) : EntryComplete(a.files[other])

\* Whatever aria2 answers about a download it has taken, with or without
\* totals, with counts of files that lag, files left out or zero bytes, the
\* code concludes what has happened: completed only when its entity is
\* there and never on [METADATA] alone, and the path kept is that of an entity.
AnswersAreRead == \A g \in Gids : \A a \in AnswersIn(phase[g]) : ReadAs(phase[g], a)

=============================================================================
