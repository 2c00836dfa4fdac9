------------------------- MODULE DownloadsLifecycle -------------------------
(***************************************************************************)
(* How the tables of Downloads are read as the lifecycle promised by       *)
(* DownloadLifecycle: download_status gives the stage of an item, a row of *)
(* download_tasks is an attempt.  Jobs, gids and aria2 are not seen.       *)
(***************************************************************************)
EXTENDS Downloads

Stage(status) == IF status \in {"pending", "preview"} THEN "waiting"
                 ELSE IF status = "submitted" THEN "open" ELSE status

AttemptOf(t) == [item  |-> task[t].item,
                 state |-> IF task[t].status = "submitted" THEN "open" ELSE task[t].status,
                 told  |-> notified[t]]

StageOf     == [i \in Items |-> Stage(item[i])]
AttemptRows == [t \in Tasks |-> AttemptOf(t)]

Lifecycle == INSTANCE DownloadLifecycle
               WITH Attempts <- Tasks, stage <- StageOf, attempt <- AttemptRows

\* While the scheduler is the only worker, whatever statement fails, whatever
\* answer is lost and whenever the process is killed, the service does what
\* DownloadLifecycle promises.
KeepsLifecycle == Lifecycle!Spec

=============================================================================
