--------------------------- MODULE DownloadsLedger ---------------------------
(***************************************************************************)
(* How Downloads is read as the ledger of DownloadLedger.  The fate of a   *)
(* row is that of its download: of the last stage, whichever gid the row   *)
(* has by now.  A worker that has closed a row owes an announcement.       *)
(***************************************************************************)
EXTENDS DownloadsLifecycle

RowOf(t) == [item  |-> task[t].item,
             state |-> IF task[t].status = "submitted" THEN "open" ELSE task[t].status]

EndOf(p) == CASE p = "complete" -> "completed"
              [] p = "error"    -> "failed"
              [] p = "removed"  -> "removed"
              [] OTHER          -> "none"

\* aria2 has dropped a stage of the download that has gid g.
Forgotten(g) == NotFound(g) \/ \E p \in purged : follow[p] = g

FateOf(t) ==
  IF task[t].status = "free" THEN [end |-> "none", forgotten |-> FALSE]
  ELSE [end       |-> EndOf(phase[Effective(task[t].gid)]),
        forgotten |-> Forgotten(task[t].gid)]

TaskRows == [t \in Tasks |-> RowOf(t)]
FateRows == [t \in Tasks |-> FateOf(t)]
Due      == {<<w, job[w].cur>> : w \in {v \in Workers : job[v].at = "notify"}}

Ledger == INSTANCE DownloadLedger
            WITH Attempts <- Tasks, Reporters <- Workers, stage <- StageOf,
                 attempt <- TaskRows, fate <- FateRows, due <- Due, told <- notified

\* Whoever is at work, the service keeps the books of DownloadLedger: a row
\* goes with one download, is closed only for what that download has come to,
\* together with its item, and each closing is announced at most once.
KeepsLedger == Ledger!Spec

=============================================================================
