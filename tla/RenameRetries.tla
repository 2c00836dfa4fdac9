---------------------------- MODULE RenameRetries ----------------------------
(***************************************************************************)
(* What happens to the file of a finished download: it is renamed to the   *)
(* name its episode should have, and when that fails a row of              *)
(* rename_retries has it tried again, up to three times.  A user can have  *)
(* it renamed at any time.                                                 *)
(*                                                                         *)
(* Workers share the database and the download directory.  A worker holds  *)
(* what it read in its record job; asking the AI for the name may take     *)
(* minutes, so anything can happen between reading a task and moving its   *)
(* file, and between moving the file and recording where it went.          *)
(***************************************************************************)
EXTENDS Naturals, FiniteSets

CONSTANTS
  Tasks,         \* ids of the rows of download_tasks, all in one directory
  PlainTasks,    \* tasks whose subscription has ai_rename_enabled off
  Scheduler,     \* the goroutine of Scheduler.Run
  Hooks,         \* requests that run HandleAria2Hook for a completion
  Clicks,        \* requests that run RetryCompletedDownloadRename
  MaxRetries,    \* maxRenameAutoRetries, the length of renameRetryDelays (3)
  PassLimit,     \* LIMIT of ListDueRenameRetries (50 in the code)
  MaxFaults      \* bound: crashes, cancelled requests, failed statements

ASSUME RenameAssumption ==
  /\ Tasks \subseteq Nat \ {0} /\ IsFiniteSet(Tasks)
  /\ PlainTasks \subseteq Tasks
  /\ Hooks \cap Clicks = {} /\ Scheduler \notin Hooks \cup Clicks
  /\ MaxRetries \in Nat \ {0} /\ PassLimit \in Nat \ {0} /\ MaxFaults \in Nat

VARIABLES
  task,       \* task[t]: status and final_path of row t of download_tasks
  retry,      \* retry[t]: the row of rename_retries whose task_id is t
  file,       \* file[t]: where the file that task t downloaded is
  job,        \* job[w]: where worker w stands and its local variables
  announced,  \* announced[t]: "retries exhausted" notifications of task t
  faults,     \* how many faults have happened
  crossed,    \* history: tasks that two workers held at once
  cut,        \* history: tasks whose worker was cut short
  unseen      \* history: tasks recorded completed without a path

dbVars   == <<task, retry>>
histVars == <<crossed, cut, unseen>>
vars     == <<dbVars, file, job, announced, faults, histVars>>

-----------------------------------------------------------------------------

Requests == Hooks \cup Clicks
Workers  == {Scheduler} \cup Requests

\* A path is the name aria2 gave the file of a task, or the name its episode
\* should have; NoPath is an empty final_path.
NoPath   == [kind |-> "none", of |-> 0]
Raw(t)   == [kind |-> "raw", of |-> t]
Named(t) == [kind |-> "named", of |-> t]
Paths    == [kind : {"raw", "named"}, of : Tasks]

TaskRow  == [status : {"submitted", "completed", "deleted"}, final : Paths \cup {NoPath}]
RetryRow == [status : {"none", "pending", "succeeded", "abandoned"},
             count : 0..MaxRetries, due : BOOLEAN]
NoRow    == [status |-> "none", count |-> 0, due |-> FALSE]

Places == {"idle", "poll", "rename", "enqueue", "complete",
           "list", "pass", "attempt", "save", "settle"}

\* todo, count: the snapshot of a pass, with the counts it read; cur, path,
\* says: the task at hand, the path of its file, what the attempt came to.
Job  == [at : Places, todo : SUBSET Tasks, count : [Tasks -> 0..MaxRetries],
         cur : Tasks \cup {0}, path : Paths \cup {NoPath},
         says : {"none", "ok", "failed", "unfinished"}]
Rest == [at |-> "idle", todo |-> {}, count |-> [t \in Tasks |-> 0],
         cur |-> 0, path |-> NoPath, says |-> "none"]

TypeOK ==
  /\ task \in [Tasks -> TaskRow]
  /\ retry \in [Tasks -> RetryRow]
  /\ file \in [Tasks -> Paths]
  /\ job \in [Workers -> Job]
  /\ announced \in [Tasks -> Nat]
  /\ faults \in Nat
  /\ crossed \subseteq Tasks /\ cut \subseteq Tasks /\ unseen \subseteq Tasks

Init ==
  /\ task = [t \in Tasks |-> [status |-> "submitted", final |-> NoPath]]
  /\ retry = [t \in Tasks |-> NoRow]
  /\ file = [t \in Tasks |-> Raw(t)]
  /\ job = [w \in Workers |-> Rest]
  /\ announced = [t \in Tasks |-> 0]
  /\ faults = 0
  /\ crossed = {} /\ cut = {} /\ unseen = {}

-----------------------------------------------------------------------------
(* Helpers.                                                                *)

Present(p)  == \E t \in Tasks : file[t] = p
Holds(j, t) == t \in j.todo \/ j.cur = t

\* Every step notes the tasks that two workers now hold.
Watch == crossed' = crossed \cup
           {t \in Tasks : \E v, w \in Workers : v # w /\ Holds(job'[v], t) /\ Holds(job'[w], t)}

\* RenameFile: the source must be there and the target must not.
Move(p, q) == /\ Present(p) /\ ~Present(q)
              /\ file' = [t \in Tasks |-> IF file[t] = p THEN q ELSE file[t]]

\* The AI names the episode from the file's name and the item's title.
Targets(t, p) == {Named(t), Named(p.of)}

\* Worker w is done with its task: the scheduler goes on with its snapshot at
\* place p, a request is over.
Done(w, p) == job' = [job EXCEPT ![w] =
  IF w = Scheduler
    THEN [Rest EXCEPT !.at = p, !.todo = job[w].todo,
                      !.count = [job[w].count EXCEPT ![job[w].cur] = 0]]
    ELSE Rest]

\* The scheduler takes task t out of its snapshot and goes on with it at place p.
Taken(t, p) == [job[Scheduler] EXCEPT !.at = p, !.todo = @ \ {t}, !.cur = t]

Fault(T) == /\ faults < MaxFaults
            /\ faults' = faults + 1
            /\ cut' = cut \cup T
Calm     == UNCHANGED <<faults, cut>>

Submitted == {t \in Tasks : task[t].status = "submitted"}

\* Mutant: the status is forgotten in the WHERE clause.
DueAny == {t \in Tasks : retry[t].due}
Due    == {t \in Tasks : retry[t].status = "pending" /\ retry[t].due}

-----------------------------------------------------------------------------
(* The end of a download: resolveDownloadFinalPath, CompleteDownloadTask.  *)

\* The polling pass lists the submitted tasks.
Poll ==
  /\ job[Scheduler].at = "idle"
  /\ job' = [job EXCEPT ![Scheduler] = [Rest EXCEPT !.at = "poll", !.todo = Submitted]]
  /\ Watch /\ Calm
  /\ UNCHANGED <<dbVars, file, announced, unseen>>

\* A listed task has not ended, or aria2 could not be asked.
StillRunning(t) ==
  /\ job[Scheduler].at = "poll" /\ t \in job[Scheduler].todo
  /\ job' = [job EXCEPT ![Scheduler].todo = @ \ {t}]
  /\ Watch /\ Calm
  /\ UNCHANGED <<dbVars, file, announced, unseen>>

\* A listed task has ended, its path is known, and it is to be renamed.
SeenByPoll(t) ==
  /\ job[Scheduler].at = "poll" /\ t \in job[Scheduler].todo
  /\ job' = [job EXCEPT ![Scheduler] = [Taken(t, "rename") EXCEPT !.path = Raw(t)]]
  /\ Watch /\ Calm
  /\ UNCHANGED <<dbVars, file, announced, unseen>>

\* aria2 no longer knows a listed task, or not its files: it is completed
\* without a path.
ForgottenByAria2(t) ==
  /\ job[Scheduler].at = "poll" /\ t \in job[Scheduler].todo
  /\ job' = [job EXCEPT ![Scheduler] = Taken(t, "complete")]
  /\ Watch /\ Calm
  /\ UNCHANGED <<dbVars, file, announced, unseen>>

\* aria2 calls the hook with the path of the file, or without one and does not
\* tell it when asked: then there is nothing to rename.
HookCall(h, t) ==
  /\ job[h] = Rest
  /\ task[t].status = "submitted"
  /\ \/ job' = [job EXCEPT ![h] = [Rest EXCEPT !.at = "rename", !.cur = t, !.path = Raw(t)]]
     \/ job' = [job EXCEPT ![h] = [Rest EXCEPT !.at = "complete", !.cur = t]]
  /\ Watch /\ Calm
  /\ UNCHANGED <<dbVars, file, announced, unseen>>

\* No renaming is wanted, or the subscription cannot be read.
SkipRename(w) ==
  LET t == job[w].cur IN
  /\ job[w].at = "rename"
  /\ \/ (t \in PlainTasks \/ task[t].status = "deleted") /\ Calm
     \/ Fault({t})
  /\ job' = [job EXCEPT ![w].at = "complete"]
  /\ Watch
  /\ UNCHANGED <<dbVars, file, announced, unseen>>

\* The AI answers and the file is moved.
Rename(w) ==
  LET t == job[w].cur IN
  /\ job[w].at = "rename" /\ t \notin PlainTasks
  /\ Move(job[w].path, Named(t))
  /\ job' = [job EXCEPT ![w].at = "complete", ![w].path = Named(t)]
  /\ Watch /\ Calm
  /\ UNCHANGED <<dbVars, announced, unseen>>

\* The AI, the scrape or the move fails: the old path goes to the queue.
RenameFails(w) ==
  /\ job[w].at = "rename" /\ job[w].cur \notin PlainTasks
  /\ job' = [job EXCEPT ![w].at = "enqueue"]
  /\ Watch /\ Calm
  /\ UNCHANGED <<dbVars, file, announced, unseen>>

\* Mutant: ON DUPLICATE KEY UPDATE.
InsertOver(t) == [NoRow EXCEPT !.status = "pending"]
\* EnqueueRenameRetry: INSERT IGNORE, so a task has one row for ever.
Insert(t) == IF retry[t].status = "none" THEN [NoRow EXCEPT !.status = "pending"] ELSE retry[t]

Enqueue(w) ==
  LET t == job[w].cur IN
  /\ job[w].at = "enqueue"
  /\ \/ retry' = [retry EXCEPT ![t] = Insert(t)] /\ Calm
     \/ UNCHANGED retry /\ Fault({t})
  /\ job' = [job EXCEPT ![w].at = "complete"]
  /\ Watch
  /\ UNCHANGED <<task, file, announced, unseen>>

\* Mutant: the path the download had before it was renamed.
CompletedOld(t, p) == IF task[t].status = "deleted" THEN task[t]
                      ELSE [status |-> "completed",
                            final |-> IF p = NoPath THEN task[t].final ELSE Raw(t)]
\* What CompleteDownloadTask writes: the status, and the path if there is one.
Completed(t, p) == IF task[t].status = "deleted" THEN task[t]
                   ELSE [status |-> "completed",
                         final |-> IF p = NoPath THEN task[t].final ELSE p]

Complete(w) ==
  LET t == job[w].cur IN
  /\ job[w].at = "complete"
  /\ task' = [task EXCEPT ![t] = Completed(t, job[w].path)]
  /\ unseen' = IF job[w].path = NoPath THEN unseen \cup {t} ELSE unseen
  /\ Done(w, "poll")
  /\ Watch /\ Calm
  /\ UNCHANGED <<retry, file, announced>>

\* The transaction fails: the task stays submitted although its file may have
\* been moved.
CompleteFails(w) ==
  /\ job[w].at = "complete"
  /\ Fault({job[w].cur})
  /\ Done(w, "poll")
  /\ Watch
  /\ UNCHANGED <<dbVars, file, announced, unseen>>

-----------------------------------------------------------------------------
(* The retry pass: ProcessDueRenameRetries.                                *)

\* renameRetryDelays have passed since the first failure.
ComesDue(t) ==
  /\ retry[t].status # "none" /\ ~retry[t].due
  /\ retry' = [retry EXCEPT ![t].due = TRUE]
  /\ Calm
  /\ UNCHANGED <<task, file, job, announced, crossed, unseen>>

EndPoll ==
  /\ job[Scheduler].at = "poll" /\ job[Scheduler].todo = {}
  /\ job' = [job EXCEPT ![Scheduler] = [Rest EXCEPT !.at = "list"]]
  /\ Watch /\ Calm
  /\ UNCHANGED <<dbVars, file, announced, unseen>>

\* ListDueRenameRetries; which rows come first is left open.
ListDue ==
  /\ job[Scheduler].at = "list"
  /\ \E S \in SUBSET Due :
       /\ Cardinality(S) <= PassLimit /\ (S = Due \/ Cardinality(S) = PassLimit)
       /\ job' = [job EXCEPT ![Scheduler] =
            [Rest EXCEPT !.at = "pass", !.todo = S,
                         !.count = [t \in Tasks |-> IF t \in S THEN retry[t].count ELSE 0]]]
  /\ Watch /\ Calm
  /\ UNCHANGED <<dbVars, file, announced, unseen>>

EndPass ==
  /\ job[Scheduler].at = "pass" /\ job[Scheduler].todo = {}
  /\ job' = [job EXCEPT ![Scheduler] = Rest]
  /\ Watch /\ Calm
  /\ UNCHANGED <<dbVars, file, announced, unseen>>

\* The task of a listed row was deleted, or it cannot be read: the row is
\* left as it is.
SkipRow(t) ==
  /\ job[Scheduler].at = "pass" /\ t \in job[Scheduler].todo
  /\ \/ task[t].status = "deleted" /\ Calm
     \/ Fault({t})
  /\ job' = [job EXCEPT ![Scheduler].todo = @ \ {t},
                        ![Scheduler].count = [@ EXCEPT ![t] = 0]]
  /\ Watch
  /\ UNCHANGED <<dbVars, file, announced, unseen>>

\* The task is not completed: the row is to be abandoned.
RowUnfinished(t) ==
  /\ job[Scheduler].at = "pass" /\ t \in job[Scheduler].todo
  /\ task[t].status = "submitted"
  /\ job' = [job EXCEPT ![Scheduler] = [Taken(t, "settle") EXCEPT !.says = "unfinished"]]
  /\ Watch /\ Calm
  /\ UNCHANGED <<dbVars, file, announced, unseen>>

\* Mutant: final_path is not consulted.
AnyPaths(t) == {p \in Paths : Present(p)}
\* resolveCompletedDownloadFilePath: the recorded path if a file is there, else
\* the path aria2 reports, else the largest media file of the directory.  What
\* aria2 still knows and the sizes are left open: it may be any file.
CompletedPaths(t) == IF Present(task[t].final) THEN {task[t].final}
                     ELSE {p \in Paths : Present(p)}

\* resolveRenameRetryFilePath: the path queued with the row comes first.
RetryPaths(t) == IF Present(Raw(t)) THEN {Raw(t)} ELSE CompletedPaths(t)

RowTaken(t) ==
  /\ job[Scheduler].at = "pass" /\ t \in job[Scheduler].todo
  /\ task[t].status = "completed"
  /\ \E p \in RetryPaths(t) :
       job' = [job EXCEPT ![Scheduler] = [Taken(t, "attempt") EXCEPT !.path = p]]
  /\ Watch /\ Calm
  /\ UNCHANGED <<dbVars, file, announced, unseen>>

-----------------------------------------------------------------------------
(* One attempt, by the pass or by a user.                                  *)

\* RetryCompletedDownloadRename reads the task and finds its file.
Click(c, t) ==
  /\ job[c] = Rest
  /\ task[t].status = "completed"
  /\ \E p \in CompletedPaths(t) : job' = [job EXCEPT ![c] =
       [Rest EXCEPT !.at = "attempt", !.cur = t, !.path = p]]
  /\ Watch /\ Calm
  /\ UNCHANGED <<dbVars, file, announced, unseen>>

\* The file already has the name the AI gives it, or it is moved there.  The
\* pass does not rename for a subscription that has renaming turned off.
Attempt(w) ==
  LET t == job[w].cur  p == job[w].path IN
  /\ job[w].at = "attempt"
  /\ w = Scheduler => t \notin PlainTasks
  /\ \E q \in Targets(t, p) :
       /\ \/ q = p /\ UNCHANGED file
          \/ Move(p, q)
       /\ job' = [job EXCEPT ![w].at = "save", ![w].path = q, ![w].says = "ok"]
  /\ Watch /\ Calm
  /\ UNCHANGED <<dbVars, announced, unseen>>

AttemptFails(w) ==
  /\ job[w].at = "attempt"
  /\ IF w = Scheduler
       THEN job' = [job EXCEPT ![w].at = "settle", ![w].says = "failed", ![w].path = NoPath]
       ELSE Done(w, "idle")
  /\ Watch /\ Calm
  /\ UNCHANGED <<dbVars, file, announced, unseen>>

\* UpdateDownloadTaskFinalPath; when it fails the worker goes on all the same.
Save(w) ==
  LET t == job[w].cur IN
  /\ job[w].at = "save"
  /\ \/ /\ task' = IF task[t].status = "deleted" THEN task
                   ELSE [task EXCEPT ![t].final = job[w].path]
        /\ Calm
     \/ UNCHANGED task /\ Fault({t})
  /\ job' = [job EXCEPT ![w].at = "settle", ![w].path = NoPath]
  /\ Watch
  /\ UNCHANGED <<retry, file, announced, unseen>>

\* Mutants: one attempt too few, one too many, and a count that is not raised.
AfterAttemptEarly(row, n, says) ==
  IF says = "ok" THEN [row EXCEPT !.status = "succeeded", !.count = n]
  ELSE IF says = "unfinished" THEN [row EXCEPT !.status = "abandoned", !.count = n]
  ELSE IF n + 2 >= MaxRetries THEN [row EXCEPT !.status = "abandoned", !.count = n + 1]
  ELSE [status |-> "pending", count |-> n + 1, due |-> FALSE]
AfterAttemptLate(row, n, says) ==
  IF says = "ok" THEN [row EXCEPT !.status = "succeeded", !.count = n]
  ELSE IF says = "unfinished" THEN [row EXCEPT !.status = "abandoned", !.count = n]
  ELSE IF n + 1 > MaxRetries THEN [row EXCEPT !.status = "abandoned", !.count = n + 1]
  ELSE [status |-> "pending", count |-> n + 1, due |-> FALSE]
AfterAttemptSame(row, n, says) ==
  IF says = "failed" THEN [status |-> "pending", count |-> n, due |-> FALSE]
  ELSE [row EXCEPT !.status = IF says = "ok" THEN "succeeded" ELSE "abandoned", !.count = n]

\* What processRenameRetry writes to the row it listed with count n.
AfterAttempt(row, n, says) ==
  IF says = "ok" THEN [row EXCEPT !.status = "succeeded", !.count = n]
  ELSE IF says = "unfinished" THEN [row EXCEPT !.status = "abandoned", !.count = n]
  ELSE IF n + 1 >= MaxRetries THEN [row EXCEPT !.status = "abandoned", !.count = n + 1]
  ELSE [status |-> "pending", count |-> n + 1, due |-> FALSE]

Exhausted(w) == job[w].says = "failed" /\ job[w].count[job[w].cur] + 1 >= MaxRetries

\* UpdateRenameRetryAfterAttempt; the third failure is announced whether or not
\* the row could be written.
SettleRow ==
  LET w == Scheduler  t == job[w].cur IN
  /\ job[w].at = "settle"
  /\ \/ /\ retry' = [retry EXCEPT ![t] = AfterAttempt(@, job[w].count[t], job[w].says)]
        /\ Calm
     \/ UNCHANGED retry /\ Fault({t})
  /\ announced' = IF Exhausted(w) THEN [announced EXCEPT ![t] = @ + 1] ELSE announced
  /\ Done(w, "pass")
  /\ Watch
  /\ UNCHANGED <<task, file, unseen>>

\* MarkRenameRetrySucceeded, for a row that is pending.
MarkSucceeded(c) ==
  LET t == job[c].cur IN
  /\ c \in Clicks /\ job[c].at = "settle"
  /\ \/ /\ retry' = IF retry[t].status = "pending"
                      THEN [retry EXCEPT ![t].status = "succeeded"] ELSE retry
        /\ Calm
     \/ UNCHANGED retry /\ Fault({t})
  /\ Done(c, "idle")
  /\ Watch
  /\ UNCHANGED <<task, file, announced, unseen>>

-----------------------------------------------------------------------------
(* The rest of the world.                                                  *)

\* The subscription is deleted with its tasks; rows of rename_retries and files
\* stay.
DeleteTask(t) ==
  /\ task[t].status # "deleted"
  /\ task' = [task EXCEPT ![t] = [status |-> "deleted", final |-> NoPath]]
  /\ Calm
  /\ UNCHANGED <<retry, file, job, announced, crossed, unseen>>

\* The process stops (all workers) or the client of one request goes away.
Die(W) ==
  /\ \E w \in W : job[w] # Rest
  /\ Fault({t \in Tasks : \E w \in W : job[w].cur = t})
  /\ job' = [w \in Workers |-> IF w \in W THEN Rest ELSE job[w]]
  /\ Watch
  /\ UNCHANGED <<dbVars, file, announced, unseen>>

SchedulerStep ==
  \/ Poll \/ EndPoll \/ ListDue \/ EndPass
  \/ \E t \in Tasks : \/ StillRunning(t) \/ SeenByPoll(t) \/ ForgottenByAria2(t)
                      \/ SkipRow(t) \/ RowUnfinished(t) \/ RowTaken(t)
  \/ SettleRow

WorkerStep(w) ==
  \/ SkipRename(w) \/ Rename(w) \/ RenameFails(w) \/ Enqueue(w)
  \/ Complete(w) \/ CompleteFails(w)
  \/ Attempt(w) \/ AttemptFails(w) \/ Save(w)

Next ==
  \/ SchedulerStep
  \/ \E w \in Workers : WorkerStep(w)
  \/ \E h \in Hooks, t \in Tasks : HookCall(h, t)
  \/ \E c \in Clicks : MarkSucceeded(c) \/ \E t \in Tasks : Click(c, t)
  \/ \E t \in Tasks : ComesDue(t) \/ DeleteTask(t)
  \/ Die(Workers) \/ \E w \in Requests : Die({w})

Spec == Init /\ [][Next]_vars

\* The scheduler goes on whatever happens, and time passes; nothing is owed by
\* aria2, by users or by the clients of requests.
FairSpec == /\ Spec
            /\ WF_vars(SchedulerStep \/ WorkerStep(Scheduler))
            /\ \A t \in Tasks : WF_vars(ComesDue(t))

-----------------------------------------------------------------------------
(* Properties.                                                             *)

NoMishap == crossed = {} /\ cut = {} /\ unseen = {}
Busy(t)  == \E w \in Workers : job[w].cur = t

\* Worker w moves the file of task t in this step.
MovesFile(w, t) == /\ file'[t] # file[t]
                   /\ job[w].at \in {"rename", "attempt"} /\ job'[w].at # job[w].at

\* The user is told once that the three retries of a task have failed, and
\* only then: no second insert, stale snapshot or manual rename starts the
\* count again (service_rename_retry.go:130-138).
AnnouncedOnce == \A t \in Tasks \ cut : announced[t] =
  IF retry[t].status = "abandoned" /\ retry[t].count = MaxRetries THEN 1 ELSE 0

\* A completed task whose path was recorded and whose file still has the name
\* aria2 gave it will be retried, or all retries have failed: no file is
\* silently left behind (rename.go:34-41).
EveryRawIsRetried == \A t \in Tasks \ (PlainTasks \cup crossed \cup cut \cup unseen) :
  (task[t].status = "completed" /\ file[t] = Raw(t) /\ ~Busy(t))
    => \/ retry[t].status = "pending"
       \/ retry[t].status = "abandoned" /\ retry[t].count = MaxRetries

\* Where the table says the file of a completed task is, it is: however
\* renames by hook, polling, retries and users alternate, final_path follows
\* the file, as long as no two of them hold one task at once and none is cut
\* short (download_sync.go:114).
FinalPathValid == NoMishap => \A t \in Tasks :
  (task[t].status = "completed" /\ ~Busy(t)) => task[t].final = file[t]

\* A worker moves the file of its own task and of no other, although the last
\* way to find a file is to take any in the directory (locate.go:16).
OwnFileOnly == [][NoMishap => \A t \in Tasks, w \in Workers :
                    MovesFile(w, t) => job[w].cur = t]_vars

\* A row that has succeeded or was abandoned is not taken up again, unless a
\* pass had listed it before a user's rename settled it
\* (store/rename_retry.go:57, 88).
SettledStays == [][\A t \in Tasks \ crossed : retry[t].status \in {"succeeded", "abandoned"}
                     => retry'[t].status = retry[t].status]_vars

\* A row that waits for a retry is settled sooner or later unless its task is
\* deleted, also with crashes, failed statements and manual renames in between
\* (service_rename_retry.go:68).
RetrySettles == \A t \in Tasks : retry[t].status = "pending"
                  ~> (retry[t].status # "pending" \/ task[t].status = "deleted")

\* final_path is written so that a later rename finds the file of its task
\* (download_sync.go:114), and the files of other tasks remain where they are
\* (service_rename_retry_test.go:169): what a worker takes up for a task with a
\* recorded path is that task's file.  The code breaks this: when hook and
\* polling both complete a task, the second finds the file moved, records the
\* path it had before, and the next rename takes any file of the directory.
RecordedPathIsKept == [][\A t \in Tasks \ unseen, w \in Workers :
  (job[w].at # "attempt" /\ job'[w].at = "attempt" /\ job'[w].cur = t)
    => job'[w].path = file[t]]_vars

=============================================================================
