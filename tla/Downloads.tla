------------------------------ MODULE Downloads ------------------------------
(***************************************************************************)
(* The life of a download: a feed item is queued, submitted to aria2 and   *)
(* recorded as a row of download_tasks, and the row is closed when aria2   *)
(* reports the end of the download, either to a polling pass or through    *)
(* its hook.                                                               *)
(*                                                                         *)
(* Every goroutine that works on these tables is a worker: the scheduler,  *)
(* which runs a queue pass and then a polling pass, and one worker for     *)
(* each HTTP request in progress.  They share nothing but the database,    *)
(* so each database statement or transaction, and each answer of aria2,    *)
(* is one step; what a worker read earlier lives in its own record, job.   *)
(***************************************************************************)
EXTENDS Naturals, FiniteSets

CONSTANTS
  Items,         \* ids of feed_items
  NoUrlItems,    \* items whose download_url is empty
  RefusedItems,  \* items whose URL aria2.addUri always refuses
  MaxTasks,      \* bound: how many rows with a gid download_tasks can get
  Gids,          \* bound: the gids aria2 can hand out
  NoGid,         \* stands for an empty aria2_gid
  Scheduler,     \* the goroutine of Scheduler.Run
  QueuePasses,   \* workers that run SubmitPendingDownloads
  ItemSubmits,   \* workers that run SubmitItemDownload
  SyncPasses,    \* workers that run SyncAria2DownloadStatus
  Hooks,         \* workers that run HandleAria2Hook
  Editors,       \* workers that run BatchUpdateItemDownloadStatus
  CompleteEvents,\* names under which the hook script reports a completion
  QueueLimit,    \* LIMIT of PendingDownloads (50 in the code)
  SyncLimit,     \* LIMIT of ListSubmittedDownloadTasks (100 in the code)
  MaxFaults      \* bound: crashes, lost answers, database errors, aria2 errors

ASSUME IdsAssumption ==
  /\ Items \subseteq Nat \ {0}
  /\ NoUrlItems \subseteq Items
  /\ RefusedItems \subseteq Items
  /\ MaxTasks \in Nat
  /\ NoGid \notin Gids
  /\ IsFiniteSet(Gids) /\ Cardinality(Gids) <= MaxTasks

ASSUME WorkersAssumption ==
  /\ QueuePasses \cap ItemSubmits = {}
  /\ (QueuePasses \cup ItemSubmits) \cap Hooks = {}
  /\ (QueuePasses \cup ItemSubmits \cup SyncPasses \cup Hooks) \cap Editors = {}
  /\ SyncPasses \cap (ItemSubmits \cup Hooks) = {}
  /\ QueuePasses \cap SyncPasses \subseteq {Scheduler}
  /\ Scheduler \notin ItemSubmits \cup Hooks \cup Editors

ASSUME BoundsAssumption ==
  /\ CompleteEvents \subseteq {"file-complete", "bt-complete", "complete"}
  /\ QueueLimit \in Nat /\ SyncLimit \in Nat /\ MaxFaults \in Nat

VARIABLES
  item,      \* item[i]: download_status of feed item i, "absent" before its row exists
  task,      \* task[t]: row t of download_tasks, for the rows that carry a gid
  lastTask,  \* the last auto-increment id used
  rejected,  \* items that have a "failed" row without a gid (never looked up again)
  phase,     \* phase[g]: what aria2 has made of gid g
  follow,    \* follow[g]: the first gid of followedBy of g
  purged,    \* gids aria2 no longer knows
  job,       \* job[w]: where worker w stands and its local variables
  notified,  \* notified[t]: notifications queued for task t
  faults,    \* how many faults have happened
  lost,      \* history: items whose submitter died after marking them
  leaked,    \* history: gids aria2 accepted and no worker could record
  edited     \* history: items whose status was last written by hand

dbVars    == <<item, task, lastTask, rejected>>
aria2Vars == <<phase, follow, purged>>
histVars  == <<lost, leaked, edited>>
vars      == <<dbVars, aria2Vars, job, notified, faults, histVars>>

-----------------------------------------------------------------------------

Workers  == {Scheduler} \cup QueuePasses \cup ItemSubmits \cup SyncPasses
              \cup Hooks \cup Editors
Requests == Workers \ {Scheduler}
Tasks    == 1..MaxTasks

ItemStatus == {"absent", "pending", "preview", "skipped",
               "submitting", "submitted", "completed", "failed"}
TaskStatus == {"free", "submitted", "completed", "failed"}
Phase      == {"unused", "active", "meta", "complete", "error", "removed"}
Places     == {"idle", "next", "mark", "adduri", "record",
               "list", "scan", "switch", "decide", "finish", "notify", "edit"}
Says       == {"none", "error", "gone", "pending", "submitted", "skipped",
               "file-complete", "bt-complete", "complete"}

TaskRow == [item : Items \cup {0}, gid : Gids \cup {NoGid}, status : TaskStatus]
FreeRow == [item |-> 0, gid |-> NoGid, status |-> "free"]

\* at: where the worker stands; todo, seen: the ids of its snapshot still to do
\* and the gids it read with them; cur, gid, says: what it is working on.
Job  == [at : Places, todo : SUBSET Nat, seen : [Tasks -> Gids \cup {NoGid}],
         cur : Nat, gid : Gids \cup {NoGid}, says : Says]
Rest == [at |-> "idle", todo |-> {}, seen |-> [t \in Tasks |-> NoGid],
         cur |-> 0, gid |-> NoGid, says |-> "none"]

TypeOK ==
  /\ item \in [Items -> ItemStatus]
  /\ task \in [Tasks -> TaskRow]
  /\ lastTask \in 0..MaxTasks
  /\ rejected \subseteq Items
  /\ phase \in [Gids -> Phase]
  /\ follow \in [Gids -> Gids \cup {NoGid}]
  /\ purged \subseteq Gids
  /\ job \in [Workers -> Job]
  /\ notified \in [Tasks -> Nat]
  /\ faults \in Nat
  /\ lost \subseteq Items /\ leaked \subseteq Gids /\ edited \subseteq Items

Init ==
  /\ item = [i \in Items |-> "absent"]
  /\ task = [t \in Tasks |-> FreeRow]
  /\ lastTask = 0
  /\ rejected = {}
  /\ phase = [g \in Gids |-> "unused"]
  /\ follow = [g \in Gids |-> NoGid]
  /\ purged = {}
  /\ job = [w \in Workers |-> Rest]
  /\ notified = [t \in Tasks |-> 0]
  /\ faults = 0
  /\ lost = {} /\ leaked = {} /\ edited = {}

-----------------------------------------------------------------------------
(* Helpers.                                                                *)

\* A pass works through its snapshot in the order of the ids.
IsNext(w, id) == id \in job[w].todo /\ \A other \in job[w].todo : id <= other

\* ORDER BY id ASC LIMIT n
FirstByID(S, n) == {id \in S : Cardinality({other \in S : other < id}) < n}

\* Mutants of the selection: everything that is not done; previews left out.
PendingNotDone == {i \in Items : item[i] \notin {"absent", "skipped", "completed"}
                                  /\ i \notin NoUrlItems}
PendingNoPreview == {i \in Items : item[i] \in {"pending", "failed"} /\ i \notin NoUrlItems}

\* The rows PendingDownloads and ListSubmittedDownloadTasks select.
Pending   == {i \in Items : item[i] \in {"pending", "preview", "failed"}
                             /\ i \notin NoUrlItems}
Submitted == {t \in Tasks : task[t].status = "submitted"}

\* SubmitPendingDownloads goes on with its loop, SubmitItemDownload returns.
Resume(w) == IF w \in QueuePasses THEN "next" ELSE "idle"
\* The scheduler polls after its queue pass, a request is over.
AfterQueue(w) == IF w = Scheduler /\ w \in SyncPasses THEN "list" ELSE "idle"

\* A worker is done with one id and goes on at place p with the rest.
Back(w, p) == [job[w] EXCEPT !.at = p, !.cur = 0, !.gid = NoGid, !.says = "none"]

\* A polling pass takes task t from its snapshot.
Taken(w, t) == [job[w] EXCEPT !.todo = @ \ {t}, !.seen[t] = NoGid]

\* The gid TellStatusEffective ends on.  aria2 only lets the first stage of
\* a download (metadata or .torrent) be followed, so the chain has one hop.
Effective(g) == IF follow[g] \in Gids THEN follow[g] ELSE g
NotFound(g)  == g \in purged \/ Effective(g) \in purged

\* Mutant: a download that was removed has ended, too.
IsReadyOrRemoved(g) == phase[g] \in {"complete", "removed"}

\* IsAria2DownloadReady: complete, with an entity file and not [METADATA] only.
IsReady(g) == phase[g] = "complete"

\* A worker between MarkDownloadSubmitting and RecordDownloadResult.
InFlight(w) == job[w].at \in {"adduri", "record"}

Fault == faults < MaxFaults /\ faults' = faults + 1

\* The status of item i is overwritten by the service.
Overwritten(i) == lost' = lost \ {i} /\ edited' = edited \ {i}

-----------------------------------------------------------------------------
(* Feed items.                                                             *)

\* SaveFeedItems inserts a new entry; an entry already there keeps its status.
SaveFeedItem(i, previewOnly) ==
  /\ item[i] = "absent"
  /\ item' = [item EXCEPT ![i] = IF i \in NoUrlItems THEN "skipped"
                                 ELSE IF previewOnly THEN "preview"
                                 ELSE "pending"]
  /\ UNCHANGED <<task, lastTask, rejected, aria2Vars, job, notified, faults, histVars>>

\* BatchUpdateItemDownloadStatus reads the row and refuses a "submitting" one ...
BatchRead(w, i, target) ==
  /\ job[w].at = "idle"
  /\ item[i] \notin {"absent", "submitting"}
  /\ LET next == IF target = "submitted" /\ i \in NoUrlItems THEN "skipped" ELSE target
     IN  /\ item[i] # next
         /\ job' = [job EXCEPT ![w] = [@ EXCEPT !.at = "edit", !.cur = i, !.says = next]]
  /\ UNCHANGED <<dbVars, aria2Vars, notified, faults, histVars>>

\* ... and then writes the new status whatever the row holds by now.
BatchWrite(w) ==
  /\ job[w].at = "edit"
  /\ item' = [item EXCEPT ![job[w].cur] = job[w].says]
  /\ job' = [job EXCEPT ![w] = Rest]
  /\ edited' = edited \cup {job[w].cur}
  /\ lost' = lost \ {job[w].cur}
  /\ UNCHANGED <<task, lastTask, rejected, aria2Vars, notified, faults, leaked>>

-----------------------------------------------------------------------------
(* Submission.                                                             *)

\* PendingDownloads: the snapshot a queue pass works through.
ListPending(w) ==
  /\ job[w].at = "idle"
  /\ job' = [job EXCEPT ![w] = [@ EXCEPT !.at = "next", !.todo = FirstByID(Pending, QueueLimit)]]
  /\ UNCHANGED <<dbVars, aria2Vars, notified, faults, histVars>>

\* Mutant: the item stays in the snapshot.
MarkNextAgain(w, i) ==
  /\ job[w].at = "next"
  /\ IsNext(w, i)
  /\ item' = [item EXCEPT ![i] = "submitting"]
  /\ job' = [job EXCEPT ![w] = [@ EXCEPT !.at = "adduri", !.cur = i]]
  /\ Overwritten(i)
  /\ UNCHANGED <<task, lastTask, rejected, aria2Vars, notified, faults, leaked>>

\* MarkDownloadSubmitting on the next item of the snapshot, with no second look.
MarkNext(w, i) ==
  /\ job[w].at = "next"
  /\ IsNext(w, i)
  /\ item' = [item EXCEPT ![i] = "submitting"]
  /\ job' = [job EXCEPT ![w] =
               [@ EXCEPT !.at = "adduri", !.cur = i, !.todo = job[w].todo \ {i}]]
  /\ Overwritten(i)
  /\ UNCHANGED <<task, lastTask, rejected, aria2Vars, notified, faults, leaked>>

EndQueuePass(w) ==
  /\ job[w].at = "next"
  /\ job[w].todo = {}
  /\ job' = [job EXCEPT ![w] = [Rest EXCEPT !.at = AfterQueue(w)]]
  /\ UNCHANGED <<dbVars, aria2Vars, notified, faults, histVars>>

\* A database error of PendingDownloads or MarkDownloadSubmitting ends the pass.
QueuePassFails(w) ==
  /\ \/ job[w].at = "next" /\ job[w].todo # {}
     \/ job[w].at = "idle" /\ w = Scheduler
  /\ Fault
  /\ job' = [job EXCEPT ![w] = [Rest EXCEPT !.at = AfterQueue(w)]]
  /\ UNCHANGED <<dbVars, aria2Vars, notified, histVars>>

\* SubmitItemDownload reads the item and refuses only a "submitting" one.
ReadItem(w, i) ==
  /\ job[w].at = "idle"
  /\ i \notin NoUrlItems
  /\ item[i] \notin {"absent", "submitting"}
  /\ job' = [job EXCEPT ![w] = [@ EXCEPT !.at = "mark", !.cur = i]]
  /\ UNCHANGED <<dbVars, aria2Vars, notified, faults, histVars>>

\* After resolving the URL it marks the item, whatever its status is by now ...
MarkRead(w) ==
  /\ job[w].at = "mark"
  /\ item' = [item EXCEPT ![job[w].cur] = "submitting"]
  /\ job' = [job EXCEPT ![w] = [@ EXCEPT !.at = "adduri"]]
  /\ Overwritten(job[w].cur)
  /\ UNCHANGED <<task, lastTask, rejected, aria2Vars, notified, faults, leaked>>

\* ... or returns because the Mikan page could not be resolved.
ResolveFails(w) ==
  /\ job[w].at = "mark"
  /\ job' = [job EXCEPT ![w] = Rest]
  /\ UNCHANGED <<dbVars, aria2Vars, notified, faults, histVars>>

\* aria2.addUri succeeds and hands out a fresh gid.
AddURI(w, g) ==
  /\ job[w].at = "adduri"
  /\ job[w].cur \notin RefusedItems
  /\ phase[g] = "unused"
  /\ phase' = [phase EXCEPT ![g] = "active"]
  /\ job' = [job EXCEPT ![w] = [@ EXCEPT !.at = "record", !.gid = g]]
  /\ UNCHANGED <<dbVars, follow, purged, notified, faults, histVars>>

\* aria2 answers with an error; it does so to everything once its gids run out.
AddURIRefused(w) ==
  /\ job[w].at = "adduri"
  /\ job[w].cur \in RefusedItems \/ \A g \in Gids : phase[g] # "unused"
  /\ job' = [job EXCEPT ![w] = [@ EXCEPT !.at = "record"]]
  /\ UNCHANGED <<dbVars, aria2Vars, notified, faults, histVars>>

\* The call fails in transit: before aria2 saw it, or after aria2 accepted it.
AddURIFails(w) ==
  /\ job[w].at = "adduri"
  /\ Fault
  /\ job' = [job EXCEPT ![w] = [@ EXCEPT !.at = "record"]]
  /\ \/ UNCHANGED <<phase, leaked>>
     \/ \E g \in Gids :
          /\ phase[g] = "unused"
          /\ phase' = [phase EXCEPT ![g] = "active"]
          /\ leaked' = leaked \cup {g}
  /\ UNCHANGED <<dbVars, follow, purged, notified, lost, edited>>

\* Mutants: the transaction is repeated after it has been committed; the row is
\* not inserted.
RecordSubmittedTwice(w) ==
  /\ job[w].at = "record"
  /\ job[w].gid # NoGid
  /\ lastTask < MaxTasks
  /\ lastTask' = lastTask + 1
  /\ task' = [task EXCEPT ![lastTask + 1] =
                [item |-> job[w].cur, gid |-> job[w].gid, status |-> "submitted"]]
  /\ item' = [item EXCEPT ![job[w].cur] = "submitted"]
  /\ UNCHANGED <<rejected, aria2Vars, job, notified, faults, histVars>>

RecordItemOnly(w) ==
  /\ job[w].at = "record"
  /\ job[w].gid # NoGid
  /\ item' = [item EXCEPT ![job[w].cur] = "submitted"]
  /\ job' = [job EXCEPT ![w] = Back(w, Resume(w))]
  /\ Overwritten(job[w].cur)
  /\ UNCHANGED <<task, lastTask, rejected, aria2Vars, notified, faults, leaked>>

\* RecordDownloadResult: one transaction inserts the task and sets the item.
RecordSubmitted(w) ==
  /\ job[w].at = "record"
  /\ job[w].gid # NoGid
  /\ lastTask < MaxTasks
  /\ lastTask' = lastTask + 1
  /\ task' = [task EXCEPT ![lastTask + 1] =
                [item |-> job[w].cur, gid |-> job[w].gid, status |-> "submitted"]]
  /\ item' = [item EXCEPT ![job[w].cur] = "submitted"]
  /\ job' = [job EXCEPT ![w] = Back(w, Resume(w))]
  /\ Overwritten(job[w].cur)
  /\ UNCHANGED <<rejected, aria2Vars, notified, faults, leaked>>

\* Mutant: the row is inserted, the item is not updated.
RecordFailedRowOnly(w) ==
  /\ job[w].at = "record"
  /\ job[w].gid = NoGid
  /\ rejected' = rejected \cup {job[w].cur}
  /\ job' = [job EXCEPT ![w] = Back(w, Resume(w))]
  /\ UNCHANGED <<item, task, lastTask, aria2Vars, notified, faults, histVars>>

RecordFailed(w) ==
  /\ job[w].at = "record"
  /\ job[w].gid = NoGid
  /\ item' = [item EXCEPT ![job[w].cur] = "failed"]
  /\ rejected' = rejected \cup {job[w].cur}
  /\ job' = [job EXCEPT ![w] = Back(w, Resume(w))]
  /\ Overwritten(job[w].cur)
  /\ UNCHANGED <<task, lastTask, aria2Vars, notified, faults, leaked>>

\* The transaction fails: with a gid in hand the error ends the pass,
\* without one it is ignored; the item stays "submitting" either way.
RecordFails(w) ==
  /\ job[w].at = "record"
  /\ Fault
  /\ lost' = lost \cup {job[w].cur}
  /\ \/ /\ job[w].gid # NoGid
        /\ leaked' = leaked \cup {job[w].gid}
        /\ job' = [job EXCEPT ![w] = [Rest EXCEPT !.at = AfterQueue(w)]]
     \/ /\ job[w].gid = NoGid
        /\ UNCHANGED leaked
        /\ job' = [job EXCEPT ![w] = Back(w, Resume(w))]
  /\ UNCHANGED <<dbVars, aria2Vars, notified, edited>>

-----------------------------------------------------------------------------
(* Polling aria2.                                                          *)

ListSubmitted(w) ==
  /\ job[w].at = (IF w = Scheduler /\ w \in QueuePasses THEN "list" ELSE "idle")
  /\ LET S == FirstByID(Submitted, SyncLimit)
     IN  job' = [job EXCEPT ![w] = [@ EXCEPT !.at = "scan", !.todo = S,
                   !.seen = [t \in Tasks |-> IF t \in S THEN task[t].gid ELSE NoGid]]]
  /\ UNCHANGED <<dbVars, aria2Vars, notified, faults, histVars>>

EndSyncPass(w) ==
  /\ job[w].at = "scan"
  /\ job[w].todo = {}
  /\ job' = [job EXCEPT ![w] = Rest]
  /\ UNCHANGED <<dbVars, aria2Vars, notified, faults, histVars>>

\* A database error of ListSubmittedDownloadTasks ends the scheduler's cycle.
SyncPassFails(w) ==
  /\ job[w].at = "list"
  /\ Fault
  /\ job' = [job EXCEPT ![w] = Rest]
  /\ UNCHANGED <<dbVars, aria2Vars, notified, histVars>>

\* Mutant: "not found" is treated like any other error of the call.
TellStatusNotFoundSkips(w, t) ==
  /\ job[w].at = "scan"
  /\ IsNext(w, t)
  /\ NotFound(job[w].seen[t])
  /\ job' = [job EXCEPT ![w] = Taken(w, t)]
  /\ UNCHANGED <<dbVars, aria2Vars, notified, faults, histVars>>

\* tellStatusForDownloadTask asks for the gid of the snapshot and finds no
\* such gid: the task counts as completed.
TellStatusNotFound(w, t) ==
  /\ job[w].at = "scan"
  /\ IsNext(w, t)
  /\ NotFound(job[w].seen[t])
  /\ job' = [job EXCEPT ![w] = [Taken(w, t) EXCEPT !.at = "finish", !.cur = t,
                                                   !.says = "gone"]]
  /\ UNCHANGED <<dbVars, aria2Vars, notified, faults, histVars>>

\* It finds one, writes a followed gid back, and the pass turns to the
\* status: an ended download is recorded next, any other is left for later.
TellStatus(w, t) ==
  /\ job[w].at = "scan"
  /\ IsNext(w, t)
  /\ ~NotFound(job[w].seen[t])
  /\ LET seen == job[w].seen[t]
         e    == Effective(seen)
     IN  /\ task' = IF e = seen THEN task ELSE [task EXCEPT ![t].gid = e]
         /\ \/ /\ IsReady(e) \/ phase[e] = "error"
               /\ job' = [job EXCEPT ![w] = [Taken(w, t) EXCEPT !.at = "finish", !.cur = t,
                            !.says = IF phase[e] = "error" THEN "error" ELSE "complete"]]
            \/ /\ phase[e] \in {"active", "meta", "removed"}
               /\ job' = [job EXCEPT ![w] = Taken(w, t)]
  /\ UNCHANGED <<item, lastTask, rejected, aria2Vars, notified, faults, histVars>>

\* An unreachable aria2, or a gid that cannot be written back: next task.
TellStatusFails(w, t) ==
  /\ job[w].at = "scan"
  /\ IsNext(w, t)
  /\ Fault
  /\ job' = [job EXCEPT ![w] = Taken(w, t)]
  /\ UNCHANGED <<dbVars, aria2Vars, notified, histVars>>

\* Mutants: aria2's word for the end is written; the item is left out; the task is.
FinishInAria2Words(w) ==
  /\ job[w].at = "finish"
  /\ LET t   == job[w].cur
         end == IF job[w].says = "error" THEN "error" ELSE "complete"
     IN  /\ task' = [task EXCEPT ![t].status = end]
         /\ item' = [item EXCEPT ![task[t].item] = end]
         /\ Overwritten(task[t].item)
  /\ job' = [job EXCEPT ![w] = [@ EXCEPT !.at = "notify"]]
  /\ UNCHANGED <<lastTask, rejected, aria2Vars, notified, faults, leaked>>

FinishTaskOnly(w) ==
  /\ job[w].at = "finish"
  /\ task' = [task EXCEPT ![job[w].cur].status =
                IF job[w].says = "error" THEN "failed" ELSE "completed"]
  /\ job' = [job EXCEPT ![w] = [@ EXCEPT !.at = "notify"]]
  /\ UNCHANGED <<item, lastTask, rejected, aria2Vars, notified, faults, histVars>>

FinishItemOnly(w) ==
  /\ job[w].at = "finish"
  /\ item' = [item EXCEPT ![task[job[w].cur].item] =
                IF job[w].says = "error" THEN "failed" ELSE "completed"]
  /\ Overwritten(task[job[w].cur].item)
  /\ job' = [job EXCEPT ![w] = [@ EXCEPT !.at = "notify"]]
  /\ UNCHANGED <<task, lastTask, rejected, aria2Vars, notified, faults, leaked>>

\* CompleteDownloadTask or FailDownloadTaskFromAria2: one transaction that
\* writes the task and its item by id, whatever they hold by now.
Finish(w) ==
  /\ job[w].at = "finish"
  /\ LET t   == job[w].cur
         end == IF job[w].says = "error" THEN "failed" ELSE "completed"
     IN  /\ task' = [task EXCEPT ![t].status = end]
         /\ item' = [item EXCEPT ![task[t].item] = end]
         /\ Overwritten(task[t].item)
  /\ job' = [job EXCEPT ![w] = [@ EXCEPT !.at = "notify"]]
  /\ UNCHANGED <<lastTask, rejected, aria2Vars, notified, faults, leaked>>

\* A pass goes on with its loop, a hook request returns.
AfterFinish(w) == IF w \in SyncPasses THEN "scan" ELSE "idle"

FinishFails(w) ==
  /\ job[w].at = "finish"
  /\ Fault
  /\ job' = [job EXCEPT ![w] = Back(w, AfterFinish(w))]
  /\ UNCHANGED <<dbVars, aria2Vars, notified, histVars>>

\* notifyDownloadComplete, notifyDownloadFail.
Notify(w) ==
  /\ job[w].at = "notify"
  /\ notified' = [notified EXCEPT ![job[w].cur] = @ + 1]
  /\ job' = [job EXCEPT ![w] = Back(w, AfterFinish(w))]
  /\ UNCHANGED <<dbVars, aria2Vars, faults, histVars>>

-----------------------------------------------------------------------------
(* The aria2 hook.                                                         *)

\* What aria2 can have reported about gid g, now or long ago: of a download that
\* goes on, that one of its files is complete.
HookEvents(g) ==
  CASE phase[g] \in {"complete", "meta"} -> CompleteEvents
    [] phase[g] = "active" -> CompleteEvents \cap {"file-complete", "complete"}
    [] phase[g] = "error"  -> {"error"}
    [] OTHER -> {}

\* DownloadTaskByAria2GID: the latest task with this gid.
TaskOf(t, g) == /\ task[t].gid = g
                /\ \A u \in Tasks : task[u].gid = g => u <= t

\* Where a hook goes on with an open task: an error is recorded at once, a
\* completion is looked into first.
AfterLookup(event) == IF event = "error" THEN "finish" ELSE "decide"

\* A task that is already closed is left alone.
HookFindsTask(w, g, event, t) ==
  /\ job[w].at = "idle"
  /\ event \in HookEvents(g)
  /\ TaskOf(t, g)
  /\ task[t].status = "submitted"
  /\ job' = [job EXCEPT ![w] = [@ EXCEPT !.at = AfterLookup(event),
                        !.cur = t, !.gid = g, !.says = event]]
  /\ UNCHANGED <<dbVars, aria2Vars, notified, faults, histVars>>

\* findDownloadTaskForAria2Hook: no task has the gid, but one has the gid it is
\* "following".  The row is read here (todo holds the task if it was open) ...
HookFindsParent(w, g, event, t) ==
  /\ job[w].at = "idle"
  /\ event \in HookEvents(g)
  /\ \A u \in Tasks : task[u].gid # g
  /\ g \notin purged
  /\ \E parent \in Gids : follow[parent] = g /\ TaskOf(t, parent)
  /\ job' = [job EXCEPT ![w] = [@ EXCEPT !.at = "switch", !.cur = t, !.gid = g,
                        !.says = event,
                        !.todo = IF task[t].status = "submitted" THEN {t} ELSE {}]]
  /\ UNCHANGED <<dbVars, aria2Vars, notified, faults, histVars>>

\* ... and moved on to the new gid here; what follows goes by the row as read.
HookSwitchesGid(w) ==
  /\ job[w].at = "switch"
  /\ task' = [task EXCEPT ![job[w].cur].gid = job[w].gid]
  /\ job' = [job EXCEPT ![w] =
               IF job[w].todo = {} THEN Rest
               ELSE [@ EXCEPT !.todo = {},
                              !.at = AfterLookup(job[w].says)]]
  /\ UNCHANGED <<item, lastTask, rejected, aria2Vars, notified, faults, histVars>>

\* Mutant: the reported path alone decides.
ShouldFinalizeByPath(g, path) == path = "entity"

\* shouldFinalizeAria2Hook.  The path reported for a first stage may be that of
\* the [METADATA] placeholder; once aria2 has forgotten the gid, any path counts.
ShouldFinalize(g, path) ==
  /\ path # "metadata"
  /\ IF NotFound(g) THEN path # "none" ELSE IsReady(Effective(g))

HookDecides(w, path) ==
  /\ job[w].at = "decide"
  /\ path = "metadata" => phase[job[w].gid] = "meta"
  /\ job' = IF ShouldFinalize(job[w].gid, path)
            THEN [job EXCEPT ![w] = [@ EXCEPT !.at = "finish"]]
            ELSE [job EXCEPT ![w] = Rest]
  /\ UNCHANGED <<dbVars, aria2Vars, notified, faults, histVars>>

-----------------------------------------------------------------------------
(* Failures.                                                               *)

\* What is left behind when the workers W stop where they are.
Abandon(W) ==
  /\ lost' = lost \cup {job[w].cur : w \in {v \in W : InFlight(v)}}
  /\ leaked' = leaked \cup ({job[w].gid : w \in {v \in W : job[v].at = "record"}} \ {NoGid})
  /\ job' = [w \in Workers |-> IF w \in W THEN Rest ELSE job[w]]
  /\ UNCHANGED <<dbVars, aria2Vars, notified, edited>>

\* The client goes away: the context of the request is cancelled, every later
\* statement fails, and so does the attempt to record the failure.
ClientGone(w) ==
  /\ job[w].at # "idle"
  /\ Fault
  /\ Abandon({w})

\* The process dies and is started again; main has no recovery step.
Crash ==
  /\ \E w \in Workers : job[w].at # "idle"
  /\ Fault
  /\ Abandon(Workers)

-----------------------------------------------------------------------------
(* aria2 (external).                                                       *)

IsFirstStage(g) == \A p \in Gids : follow[p] # g

Aria2Completes(g) ==
  /\ phase[g] = "active" /\ g \notin purged
  /\ phase' = [phase EXCEPT ![g] = "complete"]
  /\ UNCHANGED <<dbVars, follow, purged, job, notified, faults, histVars>>

\* A first stage ends; aria2 adds the download that follows it, if it may.
Aria2EndsFirstStage(g) ==
  /\ phase[g] = "active" /\ g \notin purged
  /\ IsFirstStage(g)
  /\ \/ /\ phase' = [phase EXCEPT ![g] = "meta"]
        /\ UNCHANGED follow
     \/ \E child \in Gids :
          /\ phase[child] = "unused"
          /\ phase' = [phase EXCEPT ![g] = "meta", ![child] = "active"]
          /\ follow' = [follow EXCEPT ![g] = child]
  /\ UNCHANGED <<dbVars, purged, job, notified, faults, histVars>>

Aria2Errs(g) ==
  /\ phase[g] = "active" /\ g \notin purged
  /\ Fault
  /\ phase' = [phase EXCEPT ![g] = "error"]
  /\ UNCHANGED <<dbVars, follow, purged, job, notified, histVars>>

\* Somebody removes the download in aria2.
Aria2Removes(g) ==
  /\ phase[g] = "active" /\ g \notin purged
  /\ phase' = [phase EXCEPT ![g] = "removed"]
  /\ UNCHANGED <<dbVars, follow, purged, job, notified, faults, histVars>>

\* An ended download drops out of the list of results (max-download-result);
\* an unfinished one only when aria2 restarts without its session.
Aria2Forgets(g) ==
  /\ phase[g] # "unused" /\ g \notin purged
  /\ IF phase[g] = "active" THEN Fault ELSE UNCHANGED faults
  /\ purged' = purged \cup {g}
  /\ UNCHANGED <<dbVars, phase, follow, job, notified, histVars>>

-----------------------------------------------------------------------------

QueueStep(w) ==
  \/ ListPending(w)
  \/ \E i \in Items : MarkNext(w, i)
  \/ EndQueuePass(w)

SubmitStep(w) ==
  \/ \E g \in Gids : AddURI(w, g)
  \/ AddURIRefused(w)
  \/ RecordSubmitted(w)
  \/ RecordFailed(w)

SyncStep(w) ==
  \/ ListSubmitted(w)
  \/ \E t \in Tasks : TellStatusNotFound(w, t) \/ TellStatus(w, t)
  \/ EndSyncPass(w)

FinishStep(w) == Finish(w) \/ Notify(w)

HookStep(w) ==
  \/ \E g \in Gids, event \in CompleteEvents \cup {"error"}, t \in Tasks :
       HookFindsTask(w, g, event, t) \/ HookFindsParent(w, g, event, t)
  \/ HookSwitchesGid(w)
  \/ \E path \in {"entity", "metadata", "none"} : HookDecides(w, path)

Aria2Step(g) ==
  \/ Aria2Completes(g)
  \/ Aria2EndsFirstStage(g)
  \/ Aria2Errs(g)
  \/ Aria2Removes(g)
  \/ Aria2Forgets(g)

Failure ==
  \/ \E w \in QueuePasses : QueuePassFails(w)
  \/ \E w \in QueuePasses \cup ItemSubmits : AddURIFails(w) \/ RecordFails(w)
  \/ \E w \in SyncPasses : SyncPassFails(w) \/ \E t \in Tasks : TellStatusFails(w, t)
  \/ \E w \in SyncPasses \cup Hooks : FinishFails(w)
  \/ \E w \in Requests : ClientGone(w)
  \/ Crash

Next ==
  \/ \E i \in Items, previewOnly \in BOOLEAN : SaveFeedItem(i, previewOnly)
  \/ \E w \in QueuePasses : QueueStep(w)
  \/ \E w \in ItemSubmits : (\E i \in Items : ReadItem(w, i)) \/ MarkRead(w) \/ ResolveFails(w)
  \/ \E w \in QueuePasses \cup ItemSubmits : SubmitStep(w)
  \/ \E w \in SyncPasses : SyncStep(w)
  \/ \E w \in Hooks : HookStep(w)
  \/ \E w \in SyncPasses \cup Hooks : FinishStep(w)
  \/ \E w \in Editors :
       \/ \E i \in Items, target \in {"pending", "submitted"} : BatchRead(w, i, target)
       \/ BatchWrite(w)
  \/ \E g \in Gids : Aria2Step(g)
  \/ Failure

Spec == Init /\ [][Next]_vars

\* The ticker starts the scheduler's cycle again and again, and nothing in it
\* blocks for ever: every call has a timeout.  Requests, hooks, users and
\* aria2 owe nothing.
SchedulerStep ==
  \/ Scheduler \in QueuePasses /\ (QueueStep(Scheduler) \/ SubmitStep(Scheduler))
  \/ Scheduler \in SyncPasses /\ (SyncStep(Scheduler) \/ FinishStep(Scheduler))

FairSpec == Spec /\ WF_vars(SchedulerStep)

-----------------------------------------------------------------------------
(* Safety.                                                                 *)

\* No two tasks ever claim the same aria2 download, although a task changes
\* its gid when a magnet's metadata is followed by its content and several
\* passes and hooks do so at once: otherwise one end would close two tasks,
\* or DownloadTaskByAria2GID would close the wrong one.
GidOwnedOnce ==
  \A t, u \in Tasks :
    task[t].status # "free" /\ task[u].status # "free" /\ task[t].gid = task[u].gid
      => t = u

\* "submitting" is never left without a worker that will replace it, unless
\* that worker was killed: every path of SubmitItemDownload and of
\* SubmitPendingDownloads, whoever interferes, records a result.
SubmittingHasOwner ==
  \A i \in Items : item[i] = "submitting" =>
    \/ i \in lost
    \/ \E w \in Workers : InFlight(w) /\ job[w].cur = i

\* A status reached through aria2 is backed by a row that says the same: the
\* two tables agree, although many workers write both by id from old reads.
ItemAgreesWithTask ==
  \A i \in Items : item[i] \in {"submitted", "completed", "failed"} =>
    \/ i \in edited
    \/ item[i] = "failed" /\ i \in rejected
    \/ \E t \in Tasks : task[t].item = i /\ task[t].status = item[i]

\* What aria2 has accepted is tracked by a task or about to be, unless the
\* answer or the worker that held it was lost.
DownloadAccounted ==
  \A g \in Gids : phase[g] # "unused" /\ IsFirstStage(g) =>
    \/ g \in leaked
    \/ \E t \in Tasks : task[t].status # "free" /\ task[t].gid \in {g, follow[g]}
    \/ \E w \in Workers : job[w].at = "record" /\ job[w].gid = g

\* A task is closed as "failed" only if aria2 reported an error for it, and as
\* "completed" only if the entity download has completed or aria2 had lost
\* track of it; in particular never on the metadata stage of a magnet.
EndIsJustified ==
  \A t \in Tasks :
    LET g == task[t].gid
    IN  /\ task[t].status = "failed" => phase[g] = "error"
        /\ task[t].status = "completed" =>
             \/ phase[Effective(g)] = "complete"
             \/ NotFound(g)
             \/ \E p \in purged : follow[p] = g

\* The downloads of item i that aria2 is working on and the service knows of:
\* by a row, open or closed, or by the worker that is about to insert it.
Downloading(i) ==
  {g \in Gids : phase[g] = "active" /\ g \notin purged /\
     \/ \E t \in Tasks : /\ task[t].item = i /\ task[t].status # "free"
                         /\ Effective(task[t].gid) = g
     \/ \E w \in Workers : /\ job[w].at = "record" /\ job[w].cur = i
                           /\ job[w].gid \in Gids /\ Effective(job[w].gid) = g}

\* aria2 works on one download of an item at most, a row being closed early or
\* a pass being cut short notwithstanding.  What nobody knows of does not count:
\* after a lost answer of addUri, or a failed statement behind it (leaked), the
\* item is submitted once more and aria2 downloads it twice.
OneLiveDownload == \A i \in Items : \A g, h \in Downloading(i) : g = h

\* A queue pass only submits what is still waiting: an item that has been
\* triggered is not triggered again.
QueueOnlyUntriggered ==
  [][\A w \in QueuePasses :
       job[w].at = "next" /\ job'[w].at = "adduri"
         => item[job'[w].cur] \in {"pending", "preview", "failed"}]_vars

\* The end of a download is recorded by the first that learns of it: nobody
\* writes over a task that is already closed.
FirstRecordWins ==
  [][\A w \in Workers :
       job[w].at = "finish" /\ job'[w].at = "notify"
         => task[job[w].cur].status = "submitted"]_vars

\* The user hears of the end of a download once.
NotifiedOnce == \A t \in Tasks : notified[t] <= 1

-----------------------------------------------------------------------------
(* Liveness.                                                               *)

\* Older items that aria2 refuses in every pass: "failed" waits again.
RefusedBefore(i) ==
  {j \in Items \ NoUrlItems : /\ j < i /\ j \in rejected /\ j \notin lost
                             /\ item[j] \in {"failed", "submitting"}}

\* A waiting item with a URL is eventually submitted, or refused, by the
\* scheduler, unless a crash comes between.  Only older items that are refused
\* for ever, enough of them to fill the list of a pass, keep it waiting.
WaitingIsSubmitted ==
  \A i \in Items \ NoUrlItems :
    \/ <>[](Cardinality(RefusedBefore(i)) >= QueueLimit)
    \/ item[i] \in {"pending", "preview"}
         ~> item[i] \in {"submitted", "completed", "failed"} \/ i \in lost

\* Older open tasks whose download goes on, waits for its content or has been
\* removed in aria2.
UnendedBefore(t) ==
  {u \in Submitted : /\ u < t /\ ~NotFound(task[u].gid)
                     /\ phase[Effective(task[u].gid)] \in {"active", "meta", "removed"}}

\* The end of a tracked download, or that aria2 has forgotten it, is eventually
\* recorded by polling, whatever happens to the hooks.  Only older tasks that
\* never end, enough of them to fill the list of a pass, hide it.
EndIsRecorded ==
  \A t \in Tasks :
    \/ <>[](Cardinality(UnendedBefore(t)) >= SyncLimit)
    \/ /\ task[t].status = "submitted"
       /\ \/ NotFound(task[t].gid)
          \/ phase[Effective(task[t].gid)] \in {"complete", "error"}
       ~> task[t].status \in {"completed", "failed"}

=============================================================================
