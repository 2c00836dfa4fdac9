------------------------- MODULE RenameRetriesProofs -------------------------
(***************************************************************************)
(* Theorems about RenameRetries for every value of its constants: the      *)
(* retries of a task are exhausted and announced once, a settled row stays *)
(* settled, no file is left behind with the name aria2 gave it, final_path *)
(* follows the file, and a worker moves its own file only.                 *)
(***************************************************************************)
EXTENDS RenameRetries, TLAPS

\* Where a worker has a task, a path to move, and the outcome of an attempt.
WellFormed(j) ==
  /\ j.at \in {"rename", "enqueue", "complete", "attempt", "save", "settle"} => j.cur \in Tasks
  /\ j.at = "attempt" => j.path \in Paths
  /\ j.at \in {"save", "settle"} => j.says # "none"

\* The retry pass has listed the row of t and not settled it yet.
InPass(t) == /\ job[Scheduler].at \in {"pass", "attempt", "save", "settle"}
             /\ Holds(job[Scheduler], t)

\* A row that waits has a retry left.
PendingBelow == \A t \in Tasks : retry[t].status = "pending" => retry[t].count < MaxRetries

\* What the pass read in a row is still so, except that a user's rename may have
\* settled the row, and then both held its task.
PassRows == \A t \in Tasks : InPass(t) =>
  /\ retry[t].status \in {"pending", "succeeded"}
  /\ retry[t].count = job[Scheduler].count[t]
  /\ retry[t].count < MaxRetries
  /\ t \notin crossed => retry[t].status = "pending"

\* The task at hand is no longer in the snapshot.
TakenOut == job[Scheduler].cur \notin job[Scheduler].todo

\* Two workers at one task are noted.
CrossedNoted == \A t \in Tasks, v, w \in Workers :
  (v # w /\ Holds(job[v], t) /\ Holds(job[w], t)) => t \in crossed

TypeInv == TypeOK /\ \A w \in Workers : WellFormed(job[w])
RowInv  == PendingBelow /\ PassRows /\ TakenOut /\ AnnouncedOnce
IInv    == TypeInv /\ RowInv /\ CrossedNoted

-----------------------------------------------------------------------------
(* Types.                                                                  *)

LEMMA RestIsJob ==
  /\ Rest \in Job /\ WellFormed(Rest) /\ Rest.cur = 0 /\ Rest.todo = {} /\ Rest.at = "idle"
  /\ \A t \in Tasks : Rest.count[t] = 0
BY RenameAssumption DEF Rest, Job, WellFormed, Places

LEMMA InitInv == Init => IInv
<1> SUFFICES ASSUME Init PROVE IInv
  OBVIOUS
<1>1. TypeInv
  BY RestIsJob, RenameAssumption
  DEF Init, TypeInv, TypeOK, TaskRow, RetryRow, NoRow, Paths, Raw
<1>2. RowInv
  BY RestIsJob, RenameAssumption
  DEF Init, RowInv, PendingBelow, PassRows, TakenOut, AnnouncedOnce, InPass, NoRow, Workers
<1>3. CrossedNoted
  BY RestIsJob, RenameAssumption DEF Init, CrossedNoted, Holds
<1> QED BY <1>1, <1>2, <1>3 DEF IInv

\* A step that replaces the record of one worker by a well-formed one.
LEMMA JobMoves ==
  ASSUME TypeInv, NEW w \in Workers, NEW j, j \in Job, WellFormed(j),
         job' = [job EXCEPT ![w] = j]
  PROVE  /\ job' \in [Workers -> Job]
         /\ \A v \in Workers : WellFormed(job'[v])
         /\ job'[w] = j
         /\ \A v \in Workers : v # w => job'[v] = job[v]
BY DEF TypeInv, TypeOK

\* What a worker becomes when it is done with its task.
DoneJob(w, p) ==
  IF w = Scheduler
    THEN [Rest EXCEPT !.at = p, !.todo = job[w].todo,
                      !.count = [job[w].count EXCEPT ![job[w].cur] = 0]]
    ELSE Rest

LEMMA DoneIsJob ==
  ASSUME TypeInv, NEW w \in Workers, NEW p \in {"idle", "poll", "pass"}
  PROVE  DoneJob(w, p) \in Job /\ WellFormed(DoneJob(w, p))
<1>1. job[w] \in Job
  BY DEF TypeInv, TypeOK
<1>2. [job[w].count EXCEPT ![job[w].cur] = 0] \in [Tasks -> 0..MaxRetries]
  <2>1. job[w].count \in [Tasks -> 0..MaxRetries]
    BY <1>1 DEF Job
  <2>2. 0 \in 0..MaxRetries
    BY RenameAssumption
  <2> QED BY <2>1, <2>2
<1> QED BY <1>1, <1>2, RestIsJob DEF DoneJob, Rest, Job, WellFormed, Places

LEMMA TakenIsJob ==
  ASSUME TypeInv, NEW t \in Tasks, NEW p \in {"rename", "complete", "settle", "attempt"}
  PROVE  Taken(t, p) \in Job /\ Taken(t, p).at = p /\ Taken(t, p).cur = t
<1>1. job[Scheduler] \in Job
  BY DEF TypeInv, TypeOK, Workers
<1> QED BY <1>1 DEF Taken, Job, Places

LEMMA FaultTypes ==
  ASSUME TypeInv, NEW T \in SUBSET Tasks, Fault(T)
  PROVE  faults' \in Nat /\ cut' \subseteq Tasks
BY DEF Fault, TypeInv, TypeOK

LEMMA MoveTypes ==
  ASSUME TypeInv, NEW p, NEW q \in Paths, Move(p, q)
  PROVE  file' \in [Tasks -> Paths]
BY DEF Move, TypeInv, TypeOK

\* What the actions of the scheduler and of requests have in common.
LEMMA FrameTypes ==
  ASSUME TypeInv, NEW w \in Workers, NEW j, j \in Job, WellFormed(j),
         job' = [job EXCEPT ![w] = j], Watch,
         task' \in [Tasks -> TaskRow], retry' \in [Tasks -> RetryRow],
         file' \in [Tasks -> Paths], announced' \in [Tasks -> Nat],
         faults' \in Nat, cut' \subseteq Tasks, unseen' \subseteq Tasks
  PROVE  TypeInv'
BY JobMoves DEF TypeInv, TypeOK, Watch

LEMMA SchedulerReads ==
  ASSUME TypeInv, NEW j, j \in Job, WellFormed(j),
         job' = [job EXCEPT ![Scheduler] = j], Watch,
         Calm, UNCHANGED <<dbVars, file, announced, unseen>>
  PROVE  TypeInv'
BY FrameTypes DEF TypeInv, TypeOK, Calm, dbVars, Workers

LEMMA TypeStep ==
  ASSUME IInv, [Next]_vars
  PROVE  TypeInv'
<1> USE DEF Workers
<1>0. TypeInv /\ \A w \in Workers : job[w] \in Job /\ WellFormed(job[w])
  BY DEF IInv, TypeInv, TypeOK
<1>1. CASE Poll
  <2> DEFINE j == [Rest EXCEPT !.at = "poll", !.todo = Submitted]
  <2>1. j \in Job /\ WellFormed(j)
    BY RestIsJob DEF Rest, Job, WellFormed, Places, Submitted
  <2> QED BY <1>0, <1>1, <2>1, SchedulerReads DEF Poll
<1>2. CASE EndPoll
  <2> DEFINE j == [Rest EXCEPT !.at = "list"]
  <2>1. j \in Job /\ WellFormed(j)
    BY RestIsJob DEF Rest, Job, WellFormed, Places
  <2> QED BY <1>0, <1>2, <2>1, SchedulerReads DEF EndPoll
<1>3. CASE ListDue
  <2>1. PICK S \in SUBSET Due : job' = [job EXCEPT ![Scheduler] =
            [Rest EXCEPT !.at = "pass", !.todo = S,
                         !.count = [t \in Tasks |-> IF t \in S THEN retry[t].count ELSE 0]]]
    BY <1>3 DEF ListDue
  <2> DEFINE c == [t \in Tasks |-> IF t \in S THEN retry[t].count ELSE 0]
             j == [Rest EXCEPT !.at = "pass", !.todo = S, !.count = c]
  <2>2. c \in [Tasks -> 0..MaxRetries]
    BY <1>0, RenameAssumption DEF TypeInv, TypeOK, RetryRow
  <2>3. S \subseteq Tasks
    BY DEF Due
  <2> HIDE DEF c
  <2>4. j \in Job /\ WellFormed(j)
    BY <2>2, <2>3, RestIsJob DEF Rest, Job, WellFormed, Places
  <2> USE DEF c
  <2> QED BY <1>0, <1>3, <2>1, <2>4, SchedulerReads DEF ListDue
<1>4. CASE EndPass
  BY <1>0, <1>4, RestIsJob, SchedulerReads DEF EndPass
<1>5. ASSUME NEW t \in Tasks, StillRunning(t) PROVE TypeInv'
  <2> DEFINE j == [job[Scheduler] EXCEPT !.todo = @ \ {t}]
  <2>1. j \in Job /\ WellFormed(j)
    BY <1>0 DEF Job, WellFormed
  <2> QED BY <1>0, <1>5, <2>1, SchedulerReads DEF StillRunning
<1>6. ASSUME NEW t \in Tasks, SeenByPoll(t) PROVE TypeInv'
  <2> DEFINE j == [Taken(t, "rename") EXCEPT !.path = Raw(t)]
  <2>1. j \in Job /\ WellFormed(j)
    BY <1>0, TakenIsJob DEF Job, WellFormed, Raw, Paths
  <2>2. job' = [job EXCEPT ![Scheduler] = j]
    BY <1>6 DEF SeenByPoll
  <2> QED BY <1>0, <1>6, <2>1, <2>2, SchedulerReads DEF SeenByPoll
<1>7. ASSUME NEW t \in Tasks, ForgottenByAria2(t) PROVE TypeInv'
  <2> DEFINE j == Taken(t, "complete")
  <2>1. j \in Job /\ WellFormed(j)
    BY <1>0, TakenIsJob DEF Job, WellFormed
  <2>2. job' = [job EXCEPT ![Scheduler] = j]
    BY <1>7 DEF ForgottenByAria2
  <2> QED BY <1>0, <1>7, <2>1, <2>2, SchedulerReads DEF ForgottenByAria2
<1>8. ASSUME NEW t \in Tasks, SkipRow(t) PROVE TypeInv'
  <2> DEFINE j == [job[Scheduler] EXCEPT !.todo = @ \ {t}, !.count = [@ EXCEPT ![t] = 0]]
  <2>1. 0 \in 0..MaxRetries
    BY RenameAssumption
  <2>2. job[Scheduler].count \in [Tasks -> 0..MaxRetries]
    BY <1>0 DEF Job
  <2>3. [job[Scheduler].count EXCEPT ![t] = 0] \in [Tasks -> 0..MaxRetries]
    BY <2>1, <2>2
  <2>4. j \in Job /\ WellFormed(j)
    BY <1>0, <2>3 DEF Job, WellFormed
  <2>5. faults' \in Nat /\ cut' \subseteq Tasks
    BY <1>0, <1>8, FaultTypes DEF SkipRow, Calm, TypeInv, TypeOK
  <2>6. job' = [job EXCEPT ![Scheduler] = j]
    BY <1>8 DEF SkipRow
  <2> QED BY <1>0, <1>8, <2>4, <2>5, <2>6, FrameTypes DEF SkipRow, dbVars, TypeInv, TypeOK
<1>9. ASSUME NEW t \in Tasks, RowUnfinished(t) PROVE TypeInv'
  <2> DEFINE j == [Taken(t, "settle") EXCEPT !.says = "unfinished"]
  <2>1. j \in Job /\ WellFormed(j)
    BY <1>0, TakenIsJob DEF Job, WellFormed
  <2>2. job' = [job EXCEPT ![Scheduler] = j]
    BY <1>9 DEF RowUnfinished
  <2> QED BY <1>0, <1>9, <2>1, <2>2, SchedulerReads DEF RowUnfinished
<1>10. ASSUME NEW t \in Tasks, RowTaken(t) PROVE TypeInv'
  <2>1. PICK p \in RetryPaths(t) : 
         job' = [job EXCEPT ![Scheduler] = [Taken(t, "attempt") EXCEPT !.path = p]]
    BY <1>10 DEF RowTaken
  <2>2. p \in Paths
    BY <1>0 DEF RetryPaths, CompletedPaths, Raw, Paths, Present, TypeInv, TypeOK
  <2> DEFINE j == [Taken(t, "attempt") EXCEPT !.path = p]
  <2>3. j \in Job /\ WellFormed(j)
    BY <1>0, <2>2, TakenIsJob DEF Job, WellFormed
  <2>4. job' = [job EXCEPT ![Scheduler] = j]
    BY <2>1
  <2> QED BY <1>0, <1>10, <2>3, <2>4, SchedulerReads DEF RowTaken
<1>11. CASE SettleRow
  <2> DEFINE t == job[Scheduler].cur
             n == job[Scheduler].count[t]
  <2>1. t \in Tasks /\ n \in 0..MaxRetries /\ n < MaxRetries
    BY <1>0, <1>11 DEF SettleRow, IInv, RowInv, PassRows, InPass, Holds, WellFormed, Job
  <2>2. n + 1 \in 0..MaxRetries
    BY <2>1, RenameAssumption
  <2> HIDE DEF t, n
  <2>3. retry[t] \in RetryRow
    BY <1>0, <2>1 DEF TypeInv, TypeOK
  <2>4. AfterAttempt(retry[t], n, job[Scheduler].says) \in RetryRow
    BY <2>1, <2>2, <2>3 DEF AfterAttempt, RetryRow
  <2>5. retry' = retry \/ retry' = [retry EXCEPT ![t] = AfterAttempt(@, n, job[Scheduler].says)]
    BY <1>11 DEF SettleRow, t, n
  <2>6. retry' \in [Tasks -> RetryRow]
    BY <1>0, <2>4, <2>5 DEF TypeInv, TypeOK
  <2> USE DEF t, n
  <2>7. announced' = announced \/ announced' = [announced EXCEPT ![job[Scheduler].cur] = @ + 1]
    BY <1>11 DEF SettleRow
  <2>8. announced' \in [Tasks -> Nat]
    BY <1>0, <2>7 DEF TypeInv, TypeOK
  <2>9. faults' \in Nat /\ cut' \subseteq Tasks
    BY <1>0, <1>11, <2>1, FaultTypes DEF SettleRow, Calm, TypeInv, TypeOK
  <2>10. job' = [job EXCEPT ![Scheduler] = DoneJob(Scheduler, "pass")]
    BY <1>11 DEF SettleRow, Done, DoneJob
  <2> QED BY <1>0, <1>11, <2>6, <2>8, <2>9, <2>10, DoneIsJob, FrameTypes
       DEF SettleRow, TypeInv, TypeOK
<1>12. ASSUME NEW w \in Workers, SkipRename(w) PROVE TypeInv'
  <2> DEFINE j == [job[w] EXCEPT !.at = "complete"]
  <2>1. j \in Job /\ WellFormed(j)
    BY <1>0, <1>12 DEF SkipRename, Job, WellFormed, Places
  <2>2. faults' \in Nat /\ cut' \subseteq Tasks
    BY <1>0, <1>12, FaultTypes DEF SkipRename, Calm, TypeInv, TypeOK, WellFormed
  <2> QED BY <1>0, <1>12, <2>1, <2>2, FrameTypes DEF SkipRename, dbVars, TypeInv, TypeOK
<1>13. ASSUME NEW w \in Workers, Rename(w) PROVE TypeInv'
  <2> DEFINE q == Named(job[w].cur)
             j == [job[w] EXCEPT !.at = "complete", !.path = q]
  <2>1. q \in Paths
    BY <1>0, <1>13 DEF Rename, WellFormed, Named, Paths
  <2>2. j \in Job /\ WellFormed(j)
    BY <1>0, <1>13, <2>1 DEF Rename, Job, WellFormed, Places
  <2>3. job' = [job EXCEPT ![w] = j]
    BY <1>13 DEF Rename
  <2> QED BY <1>0, <1>13, <2>1, <2>2, <2>3, MoveTypes, FrameTypes
       DEF Rename, Calm, dbVars, TypeInv, TypeOK
<1>14. ASSUME NEW w \in Workers, RenameFails(w) PROVE TypeInv'
  <2> DEFINE j == [job[w] EXCEPT !.at = "enqueue"]
  <2>1. j \in Job /\ WellFormed(j)
    BY <1>0, <1>14 DEF RenameFails, Job, WellFormed, Places
  <2> QED BY <1>0, <1>14, <2>1, FrameTypes DEF RenameFails, Calm, dbVars, TypeInv, TypeOK
<1>15. ASSUME NEW w \in Workers, Enqueue(w) PROVE TypeInv'
  <2> DEFINE j == [job[w] EXCEPT !.at = "complete"]
  <2>1. j \in Job /\ WellFormed(j)
    BY <1>0, <1>15 DEF Enqueue, Job, WellFormed, Places
  <2>2. faults' \in Nat /\ cut' \subseteq Tasks
    BY <1>0, <1>15, FaultTypes DEF Enqueue, Calm, TypeInv, TypeOK, WellFormed
  <2>3. [NoRow EXCEPT !.status = "pending"] \in RetryRow
    <3>1. 0 \in 0..MaxRetries
      BY RenameAssumption
    <3> QED BY <3>1 DEF NoRow, RetryRow
  <2>4. Insert(job[w].cur) \in RetryRow \/ job[w].cur \notin Tasks
    BY <1>0, <2>3 DEF Insert, TypeInv, TypeOK
  <2>5. retry' \in [Tasks -> RetryRow]
    BY <1>0, <1>15, <2>4 DEF Enqueue, TypeInv, TypeOK
  <2> QED BY <1>0, <1>15, <2>1, <2>2, <2>5, FrameTypes DEF Enqueue, TypeInv, TypeOK
<1>16. ASSUME NEW w \in Workers, Complete(w) PROVE TypeInv'
  <2>1. job[w].cur \in Tasks /\ job[w].path \in Paths \cup {NoPath}
    BY <1>0, <1>16 DEF Complete, WellFormed, Job
  <2>2. Completed(job[w].cur, job[w].path) \in TaskRow
    BY <1>0, <2>1 DEF Completed, TaskRow, TypeInv, TypeOK
  <2>3. task' \in [Tasks -> TaskRow] /\ unseen' \subseteq Tasks
    BY <1>0, <1>16, <2>1, <2>2 DEF Complete, TypeInv, TypeOK
  <2>4. job' = [job EXCEPT ![w] = DoneJob(w, "poll")]
    BY <1>16 DEF Complete, Done, DoneJob
  <2> QED BY <1>0, <1>16, <2>3, <2>4, DoneIsJob, FrameTypes
       DEF Complete, Calm, TypeInv, TypeOK
<1>17. ASSUME NEW w \in Workers, CompleteFails(w) PROVE TypeInv'
  <2>1. job' = [job EXCEPT ![w] = DoneJob(w, "poll")]
    BY <1>17 DEF CompleteFails, Done, DoneJob
  <2>2. faults' \in Nat /\ cut' \subseteq Tasks
    BY <1>0, <1>17, FaultTypes DEF CompleteFails, WellFormed
  <2> QED BY <1>0, <1>17, <2>1, <2>2, DoneIsJob, FrameTypes
       DEF CompleteFails, dbVars, TypeInv, TypeOK
<1>18. ASSUME NEW w \in Workers, Attempt(w) PROVE TypeInv'
  <2>1. PICK q \in Targets(job[w].cur, job[w].path) :
          /\ (q = job[w].path /\ UNCHANGED file) \/ Move(job[w].path, q)
          /\ job' = [job EXCEPT ![w].at = "save", ![w].path = q, ![w].says = "ok"]
    BY <1>18 DEF Attempt
  <2>2. q \in Paths
    BY <1>0, <1>18 DEF Attempt, Targets, Named, WellFormed, Paths
  <2> DEFINE j == [job[w] EXCEPT !.at = "save", !.path = q, !.says = "ok"]
  <2>3. j \in Job /\ WellFormed(j)
    <3>1. job[w] \in Job /\ job[w].cur \in Tasks
      BY <1>0, <1>18 DEF Attempt, WellFormed
    <3>2. j \in Job
      BY <2>2, <3>1 DEF Job, Places
    <3>3. j.at = "save" /\ j.says = "ok" /\ j.cur = job[w].cur
      BY <3>1 DEF Job
    <3> QED BY <3>1, <3>2, <3>3 DEF WellFormed
  <2>4. file' \in [Tasks -> Paths]
    BY <1>0, <2>1, <2>2, MoveTypes DEF TypeInv, TypeOK
  <2>5. job' = [job EXCEPT ![w] = j]
    BY <2>1
  <2> QED BY <1>0, <1>18, <2>3, <2>4, <2>5, FrameTypes DEF Attempt, Calm, dbVars, TypeInv, TypeOK
<1>19. ASSUME NEW w \in Workers, AttemptFails(w) PROVE TypeInv'
  <2>1. CASE w = Scheduler
    <3> DEFINE j == [job[w] EXCEPT !.at = "settle", !.says = "failed", !.path = NoPath]
    <3>1. j \in Job /\ WellFormed(j)
      BY <1>0, <1>19 DEF AttemptFails, Job, WellFormed, Places
    <3>2. job' = [job EXCEPT ![w] = j]
      BY <1>19, <2>1 DEF AttemptFails
    <3> QED BY <1>0, <1>19, <3>1, <3>2, FrameTypes DEF AttemptFails, Calm, dbVars, TypeInv, TypeOK
  <2>2. CASE w # Scheduler
    <3>1. job' = [job EXCEPT ![w] = DoneJob(w, "idle")]
      BY <1>19, <2>2 DEF AttemptFails, Done, DoneJob
    <3> QED BY <1>0, <1>19, <3>1, DoneIsJob, FrameTypes
         DEF AttemptFails, Calm, dbVars, TypeInv, TypeOK
  <2> QED BY <2>1, <2>2
<1>20. ASSUME NEW w \in Workers, Save(w) PROVE TypeInv'
  <2> DEFINE j == [job[w] EXCEPT !.at = "settle", !.path = NoPath]
  <2>1. j \in Job /\ WellFormed(j)
    BY <1>0, <1>20 DEF Save, Job, WellFormed, Places
  <2>2. faults' \in Nat /\ cut' \subseteq Tasks
    BY <1>0, <1>20, FaultTypes DEF Save, Calm, TypeInv, TypeOK, WellFormed
  <2>3. job[w].path \in Paths \cup {NoPath} /\ job[w].cur \in Tasks
    BY <1>0, <1>20 DEF Save, Job, WellFormed
  <2>4. task' \in [Tasks -> TaskRow]
    BY <1>0, <1>20, <2>3 DEF Save, TaskRow, TypeInv, TypeOK
  <2>5. job' = [job EXCEPT ![w] = j]
    BY <1>20 DEF Save
  <2> QED BY <1>0, <1>20, <2>1, <2>2, <2>4, <2>5, FrameTypes DEF Save, TypeInv, TypeOK
<1>21. ASSUME NEW h \in Hooks, NEW t \in Tasks, HookCall(h, t) PROVE TypeInv'
  <2> DEFINE a == [Rest EXCEPT !.at = "rename", !.cur = t, !.path = Raw(t)]
             b == [Rest EXCEPT !.at = "complete", !.cur = t]
  <2>1. PICK j : job' = [job EXCEPT ![h] = j] /\ (j = a \/ j = b)
    BY <1>21 DEF HookCall
  <2>2. h \in Workers
    BY DEF Requests
  <2>3. j \in Job /\ WellFormed(j)
    <3>1. a \in Job /\ WellFormed(a)
      BY RestIsJob DEF Rest, Job, WellFormed, Places, Raw, Paths
    <3>2. b \in Job /\ WellFormed(b)
      BY RestIsJob DEF Rest, Job, WellFormed, Places, Raw, Paths
    <3> QED BY <2>1, <3>1, <3>2
  <2> QED BY <1>0, <1>21, <2>1, <2>2, <2>3, FrameTypes DEF HookCall, Calm, dbVars, TypeInv, TypeOK
<1>22. ASSUME NEW c \in Clicks, MarkSucceeded(c) PROVE TypeInv'
  <2>1. c \in Workers /\ job[c].cur \in Tasks
    BY <1>0, <1>22 DEF MarkSucceeded, Requests, WellFormed
  <2>2. job' = [job EXCEPT ![c] = DoneJob(c, "idle")]
    BY <1>22 DEF MarkSucceeded, Done, DoneJob
  <2>3. retry' \in [Tasks -> RetryRow]
    BY <1>0, <1>22, <2>1 DEF MarkSucceeded, RetryRow, TypeInv, TypeOK
  <2>4. faults' \in Nat /\ cut' \subseteq Tasks
    BY <1>0, <1>22, <2>1, FaultTypes DEF MarkSucceeded, Calm, TypeInv, TypeOK
  <2> QED BY <1>0, <1>22, <2>1, <2>2, <2>3, <2>4, DoneIsJob, FrameTypes
       DEF MarkSucceeded, TypeInv, TypeOK
<1>23. ASSUME NEW c \in Clicks, NEW t \in Tasks, Click(c, t) PROVE TypeInv'
  <2>1. PICK p \in CompletedPaths(t) : job' = [job EXCEPT ![c] =
           [Rest EXCEPT !.at = "attempt", !.cur = t, !.path = p]]
    BY <1>23 DEF Click
  <2>2. p \in Paths
    BY <1>0 DEF CompletedPaths, Present, TypeInv, TypeOK
  <2> DEFINE j == [Rest EXCEPT !.at = "attempt", !.cur = t, !.path = p]
  <2>3. j \in Job /\ WellFormed(j)
    BY <2>2, RestIsJob DEF Rest, Job, WellFormed, Places
  <2>4. c \in Workers
    BY DEF Requests
  <2> QED BY <1>0, <1>23, <2>1, <2>3, <2>4, FrameTypes DEF Click, Calm, dbVars, TypeInv, TypeOK
<1>24. ASSUME NEW t \in Tasks, ComesDue(t) PROVE TypeInv'
  BY <1>0, <1>24 DEF ComesDue, Calm, RetryRow, TypeInv, TypeOK
<1>25. ASSUME NEW t \in Tasks, DeleteTask(t) PROVE TypeInv'
  <2>1. [status |-> "deleted", final |-> NoPath] \in TaskRow
    BY DEF TaskRow
  <2> QED BY <1>0, <1>25, <2>1 DEF DeleteTask, Calm, TypeInv, TypeOK
<1>26. ASSUME NEW W \in SUBSET Workers, Die(W) PROVE TypeInv'
  <2>1. faults' \in Nat /\ cut' \subseteq Tasks
    BY <1>0, <1>26, FaultTypes DEF Die
  <2>2. job' \in [Workers -> Job] /\ \A v \in Workers : WellFormed(job'[v])
    BY <1>0, <1>26, RestIsJob DEF Die
  <2> QED BY <1>0, <1>26, <2>1, <2>2 DEF Die, Watch, dbVars, TypeInv, TypeOK
<1>27. CASE UNCHANGED vars
  BY <1>0, <1>27 DEF vars, dbVars, histVars, TypeInv, TypeOK
<1> QED BY <1>1, <1>2, <1>3, <1>4, <1>5, <1>6, <1>7, <1>8, <1>9, <1>10, <1>11, <1>12, <1>13,
  <1>14, <1>15, <1>16, <1>17, <1>18, <1>19, <1>20, <1>21, <1>22, <1>23, <1>24, <1>25, <1>26,
  <1>27 DEF Next, SchedulerStep, WorkerStep, Requests

-----------------------------------------------------------------------------
(* Rows: what the pass read stays true until it has settled the row.       *)

\* Every step notes the tasks that two workers hold.
LEMMA WatchNotes ==
  ASSUME Watch
  PROVE  CrossedNoted' /\ crossed \subseteq crossed'
BY DEF Watch, CrossedNoted

LEMMA CutGrows ==
  ASSUME NEW T, Calm \/ Fault(T)
  PROVE  cut \subseteq cut' /\ (Calm => cut' = cut) /\ (Fault(T) => T \subseteq cut')
BY DEF Calm, Fault

\* A step that leaves the rows alone and takes no new row into the pass.
LEMMA QuietStep ==
  ASSUME IInv, UNCHANGED <<retry, announced>>,
         crossed \subseteq crossed', cut \subseteq cut', TakenOut',
         \A t \in Tasks : InPass(t)' =>
           InPass(t) /\ job'[Scheduler].count[t] = job[Scheduler].count[t]
  PROVE  RowInv'
<1>1. PendingBelow'
  BY DEF IInv, RowInv, PendingBelow
<1>2. AnnouncedOnce'
  BY DEF IInv, RowInv, AnnouncedOnce
<1>3. PassRows'
  BY DEF IInv, RowInv, PassRows
<1> QED BY <1>1, <1>2, <1>3 DEF RowInv

\* A step of a request that leaves the rows alone.
LEMMA QuietRequest ==
  ASSUME IInv, UNCHANGED <<retry, announced>>,
         crossed \subseteq crossed', cut \subseteq cut', job'[Scheduler] = job[Scheduler]
  PROVE  RowInv'
BY QuietStep DEF InPass, Holds, TakenOut, IInv, RowInv

\* A step of the scheduler outside the retry pass.
LEMMA OutsidePass ==
  ASSUME IInv, Watch, cut \subseteq cut', UNCHANGED <<retry, announced>>,
         job'[Scheduler].at \notin {"pass", "attempt", "save", "settle"}, TakenOut'
  PROVE  RowInv' /\ CrossedNoted'
BY WatchNotes, QuietStep DEF InPass

\* What the pass writes to a row that has a retry left.
LEMMA AfterAttemptRows ==
  ASSUME NEW row \in RetryRow, NEW n \in Nat, n < MaxRetries,
         NEW says \in {"ok", "failed", "unfinished"}
  PROVE  LET r == AfterAttempt(row, n, says) IN
         /\ r.status = "pending" => r.count < MaxRetries
         /\ (r.status = "abandoned" /\ r.count = MaxRetries)
              <=> (says = "failed" /\ n + 1 >= MaxRetries)
<1>1. MaxRetries \in Nat
  BY RenameAssumption
<1>2. CASE says = "ok"
  BY <1>1, <1>2 DEF AfterAttempt, RetryRow
<1>3. CASE says = "unfinished"
  BY <1>1, <1>3 DEF AfterAttempt, RetryRow
<1>4. CASE says = "failed" /\ n + 1 >= MaxRetries
  BY <1>1, <1>4 DEF AfterAttempt, RetryRow
<1>5. CASE says = "failed" /\ ~(n + 1 >= MaxRetries)
  BY <1>1, <1>5 DEF AfterAttempt, RetryRow
<1> QED BY <1>2, <1>3, <1>4, <1>5

LEMMA RowStep ==
  ASSUME IInv, [Next]_vars
  PROVE  RowInv' /\ CrossedNoted'
<1>0. /\ job \in [Workers -> Job] /\ Scheduler \in Workers
      /\ \A w \in Workers : WellFormed(job[w])
      /\ retry \in [Tasks -> RetryRow] /\ announced \in [Tasks -> Nat]
      /\ TakenOut /\ PassRows /\ PendingBelow /\ AnnouncedOnce /\ CrossedNoted
      /\ 0 \notin Tasks
  BY RenameAssumption DEF IInv, TypeInv, TypeOK, RowInv, Workers
<1>1. CASE Poll \/ EndPoll \/ EndPass
  <2>1. Watch /\ cut \subseteq cut' /\ UNCHANGED <<retry, announced>>
    BY <1>1, CutGrows DEF Poll, EndPoll, EndPass, dbVars
  <2>2. job'[Scheduler].at \in {"idle", "poll", "list"} /\ job'[Scheduler].cur = 0
    <3>1. CASE Poll
      BY <1>0, <3>1 DEF Poll, Rest
    <3>2. CASE EndPoll
      BY <1>0, <3>2 DEF EndPoll, Rest
    <3>3. CASE EndPass
      BY <1>0, <3>3, RestIsJob DEF EndPass
    <3> QED BY <1>1, <3>1, <3>2, <3>3
  <2>3. job'[Scheduler].todo \subseteq Tasks
    BY <1>0, TypeStep DEF TypeInv, TypeOK, Job
  <2> QED BY <1>0, <2>1, <2>2, <2>3, OutsidePass DEF TakenOut
<1>2. ASSUME NEW t \in Tasks, StillRunning(t) PROVE RowInv' /\ CrossedNoted'
  <2>1. Watch /\ cut \subseteq cut' /\ UNCHANGED <<retry, announced>>
    BY <1>2, CutGrows DEF StillRunning, dbVars
  <2>2. job'[Scheduler].at = "poll" /\ job'[Scheduler].cur = job[Scheduler].cur
        /\ job'[Scheduler].todo \subseteq job[Scheduler].todo
    BY <1>0, <1>2 DEF StillRunning, Job
  <2> QED BY <1>0, <2>1, <2>2, OutsidePass DEF TakenOut
<1>3. ASSUME NEW t \in Tasks, SeenByPoll(t) \/ ForgottenByAria2(t)
       PROVE  RowInv' /\ CrossedNoted'
  <2>1. Watch /\ cut \subseteq cut' /\ UNCHANGED <<retry, announced>>
    BY <1>3, CutGrows DEF SeenByPoll, ForgottenByAria2, dbVars
  <2>2. /\ job'[Scheduler].at \in {"rename", "complete"} /\ job'[Scheduler].cur = t
        /\ job'[Scheduler].todo = job[Scheduler].todo \ {t}
    <3>1. CASE SeenByPoll(t)
      BY <1>0, <3>1 DEF SeenByPoll, Taken, Job
    <3>2. CASE ForgottenByAria2(t)
      BY <1>0, <3>2 DEF ForgottenByAria2, Taken, Job
    <3> QED BY <1>3, <3>1, <3>2
  <2> QED BY <2>1, <2>2, OutsidePass DEF TakenOut
<1>4. CASE ListDue
  <2>1. PICK S \in SUBSET Due : job' = [job EXCEPT ![Scheduler] =
            [Rest EXCEPT !.at = "pass", !.todo = S,
                         !.count = [t \in Tasks |-> IF t \in S THEN retry[t].count ELSE 0]]]
    BY <1>4 DEF ListDue
  <2>2. Watch /\ Calm /\ UNCHANGED <<retry, announced>>
    BY <1>4 DEF ListDue, dbVars
  <2>3. /\ job'[Scheduler].todo = S /\ job'[Scheduler].cur = 0
        /\ \A t \in S : t \in Tasks /\ job'[Scheduler].count[t] = retry[t].count
    BY <1>0, <2>1, RestIsJob DEF Rest, Due
  <2>4. PassRows'
    <3> SUFFICES ASSUME NEW t \in Tasks, InPass(t)'
                 PROVE  /\ retry[t].status = "pending" /\ retry[t].count < MaxRetries
                        /\ retry[t].count = job'[Scheduler].count[t]
      BY <2>2 DEF PassRows
    <3>1. t \in S
      BY <1>0, <2>3 DEF InPass, Holds
    <3> QED BY <1>0, <2>3, <3>1 DEF Due, PendingBelow
  <2>5. TakenOut'
    BY <1>0, <2>3 DEF TakenOut
  <2> QED BY <1>0, <2>2, <2>4, <2>5, WatchNotes DEF RowInv, PendingBelow, AnnouncedOnce, Calm
<1>5. ASSUME NEW t \in Tasks, SkipRow(t) PROVE RowInv' /\ CrossedNoted'
  <2>1. Watch /\ UNCHANGED <<retry, announced>> /\ cut \subseteq cut'
    BY <1>5, CutGrows DEF SkipRow, dbVars
  <2>2. /\ job'[Scheduler].at = job[Scheduler].at /\ job'[Scheduler].cur = job[Scheduler].cur
        /\ job'[Scheduler].todo = job[Scheduler].todo \ {t}
        /\ job'[Scheduler].count = [job[Scheduler].count EXCEPT ![t] = 0]
    BY <1>0, <1>5 DEF SkipRow, Job
  <2>3. ASSUME NEW u \in Tasks, InPass(u)'
        PROVE  InPass(u) /\ job'[Scheduler].count[u] = job[Scheduler].count[u]
    <3>1. u # t
      BY <1>0, <1>5, <2>2, <2>3 DEF InPass, Holds, TakenOut, SkipRow
    <3>2. job[Scheduler].count \in [Tasks -> 0..MaxRetries]
      BY <1>0 DEF Job
    <3> QED BY <2>2, <2>3, <3>1, <3>2 DEF InPass, Holds
  <2>4. TakenOut'
    BY <1>0, <2>2 DEF TakenOut
  <2> QED BY <2>1, <2>3, <2>4, WatchNotes, QuietStep
<1>6. ASSUME NEW t \in Tasks, RowUnfinished(t) \/ RowTaken(t) PROVE RowInv' /\ CrossedNoted'
  <2>1. Watch /\ Calm /\ UNCHANGED <<retry, announced>>
    BY <1>6 DEF RowUnfinished, RowTaken, dbVars
  <2>2. /\ job[Scheduler].at = "pass" /\ t \in job[Scheduler].todo
        /\ job'[Scheduler].cur = t
        /\ job'[Scheduler].todo = job[Scheduler].todo \ {t}
        /\ job'[Scheduler].count = job[Scheduler].count
    <3>1. CASE RowUnfinished(t)
      BY <1>0, <3>1 DEF RowUnfinished, Taken, Job
    <3>2. CASE RowTaken(t)
      <4>1. PICK p \in RetryPaths(t) :
              job' = [job EXCEPT ![Scheduler] = [Taken(t, "attempt") EXCEPT !.path = p]]
        BY <3>2 DEF RowTaken
      <4> QED BY <1>0, <3>2, <4>1 DEF RowTaken, Taken, Job
    <3> QED BY <1>6, <3>1, <3>2
  <2>3. \A u \in Tasks : InPass(u)' => InPass(u)
    BY <2>2 DEF InPass, Holds
  <2>4. TakenOut'
    BY <2>2 DEF TakenOut
  <2> QED BY <2>1, <2>2, <2>3, <2>4, WatchNotes, CutGrows, QuietStep
<1>7. CASE SettleRow
  <2> DEFINE t == job[Scheduler].cur
             n == job[Scheduler].count[t]
             says == job[Scheduler].says
  <2>1. /\ t \in Tasks /\ InPass(t) /\ t \notin job[Scheduler].todo
        /\ job[Scheduler].at = "settle" /\ says \in {"ok", "failed", "unfinished"}
    BY <1>0, <1>7 DEF SettleRow, InPass, Holds, WellFormed, TakenOut, Job
  <2>2. /\ retry[t].status \in {"pending", "succeeded"} /\ retry[t].count = n
        /\ n \in Nat /\ n < MaxRetries
    BY <1>0, <2>1 DEF PassRows, RetryRow
  <2>3. /\ job'[Scheduler].at = "pass" /\ job'[Scheduler].cur = 0
        /\ job'[Scheduler].todo = job[Scheduler].todo
        /\ job'[Scheduler].count = [job[Scheduler].count EXCEPT ![t] = 0]
    BY <1>0, <1>7 DEF SettleRow, Done, Rest
  <2>4. Watch
    BY <1>7 DEF SettleRow
  <2>5. \A u \in Tasks : u # t => retry'[u] = retry[u] /\ announced'[u] = announced[u]
    BY <1>0, <1>7, <2>1 DEF SettleRow
  <2>6. \/ (retry'[t] = retry[t] /\ t \in cut')
        \/ (retry'[t] = AfterAttempt(retry[t], n, says) /\ cut' = cut)
    BY <1>0, <1>7, <2>1, CutGrows DEF SettleRow
  <2>7. cut \subseteq cut'
    BY <1>7, CutGrows DEF SettleRow
  <2>8. announced'[t] = IF says = "failed" /\ n + 1 >= MaxRetries
                          THEN announced[t] + 1 ELSE announced[t]
    BY <1>0, <1>7, <2>1 DEF SettleRow, Exhausted
  <2>9. retry[t] \in RetryRow
    BY <1>0, <2>1
  <2> HIDE DEF t, n, says
  <2>10. t \notin cut => announced[t] = 0
    BY <1>0, <2>1, <2>2 DEF AnnouncedOnce
  <2>11. PendingBelow'
    <3>1. retry'[t].status = "pending" => retry'[t].count < MaxRetries
      BY <2>1, <2>2, <2>6, <2>9, AfterAttemptRows
    <3> QED BY <1>0, <2>5, <3>1 DEF PendingBelow
  <2>12. AnnouncedOnce'
    <3>1. t \notin cut' => announced'[t] =
            IF retry'[t].status = "abandoned" /\ retry'[t].count = MaxRetries THEN 1 ELSE 0
      BY <2>1, <2>2, <2>6, <2>7, <2>8, <2>9, <2>10, AfterAttemptRows
    <3> QED BY <1>0, <2>5, <2>7, <3>1 DEF AnnouncedOnce
  <2>13. PassRows'
    <3> SUFFICES ASSUME NEW u \in Tasks, InPass(u)'
                 PROVE  /\ u # t /\ InPass(u)
                        /\ job'[Scheduler].count[u] = job[Scheduler].count[u]
      BY <1>0, <2>4, <2>5, WatchNotes DEF PassRows
    <3>1. u # t /\ InPass(u)
      BY <1>0, <2>1, <2>3 DEF InPass, Holds
    <3>2. job[Scheduler].count \in [Tasks -> 0..MaxRetries]
      BY <1>0 DEF Job
    <3> QED BY <2>3, <3>1, <3>2
  <2>14. TakenOut'
    BY <1>0, <2>3 DEF TakenOut, Job
  <2> QED BY <2>4, <2>11, <2>12, <2>13, <2>14, WatchNotes DEF RowInv
<1>8. ASSUME NEW w \in Workers, Enqueue(w) PROVE RowInv' /\ CrossedNoted'
  <2> DEFINE t == job[w].cur
  <2>1. Watch /\ announced' = announced /\ cut \subseteq cut' /\ t \in Tasks
    BY <1>0, <1>8, CutGrows DEF Enqueue, WellFormed
  <2>2. \A u \in Tasks : \/ retry'[u] = retry[u]
                          \/ /\ retry[u].status = "none"
                             /\ retry'[u] = [NoRow EXCEPT !.status = "pending"]
    <3>1. retry' = retry \/ retry' = [retry EXCEPT ![t] = Insert(t)]
      BY <1>8 DEF Enqueue
    <3> QED BY <1>0, <2>1, <3>1 DEF Insert
  <2>3. PendingBelow' /\ AnnouncedOnce'
    BY <1>0, <2>1, <2>2, RenameAssumption DEF PendingBelow, AnnouncedOnce, NoRow
  <2>4. ASSUME NEW u \in Tasks, InPass(u)' PROVE InPass(u) /\ job'[Scheduler] = job[Scheduler]
    <3>1. w # Scheduler
      BY <1>0, <1>8, <2>4 DEF Enqueue, InPass, Job
    <3>2. job'[Scheduler] = job[Scheduler]
      BY <1>0, <1>8, <3>1 DEF Enqueue
    <3> QED BY <2>4, <3>2 DEF InPass
  <2>5. PassRows'
    BY <1>0, <2>1, <2>2, <2>4, WatchNotes DEF PassRows
  <2>6. TakenOut'
    BY <1>0, <1>8 DEF TakenOut, Enqueue, Job
  <2> QED BY <2>1, <2>3, <2>5, <2>6, WatchNotes DEF RowInv
<1>9. ASSUME NEW c \in Clicks, MarkSucceeded(c) PROVE RowInv' /\ CrossedNoted'
  <2> DEFINE t == job[c].cur
  <2>1. /\ Watch /\ announced' = announced /\ cut \subseteq cut'
        /\ c \in Workers /\ c # Scheduler /\ t \in Tasks
    BY <1>0, <1>9, CutGrows, RenameAssumption DEF MarkSucceeded, Workers, Requests, WellFormed
  <2>2. job'[Scheduler] = job[Scheduler]
    BY <1>0, <1>9, <2>1 DEF MarkSucceeded, Done
  <2>3. \A u \in Tasks : \/ retry'[u] = retry[u]
                          \/ /\ u = t /\ retry[u].status = "pending"
                             /\ retry'[u].status = "succeeded" /\ retry'[u].count = retry[u].count
    BY <1>0, <1>9, <2>1 DEF MarkSucceeded, RetryRow
  <2>4. PendingBelow' /\ AnnouncedOnce'
    BY <1>0, <2>1, <2>3 DEF PendingBelow, AnnouncedOnce
  <2>5. \A u \in Tasks : InPass(u)' => InPass(u)
    BY <2>2 DEF InPass
  <2>6. InPass(t) => t \in crossed
    BY <1>0, <2>1 DEF InPass, CrossedNoted, Holds
  <2>7. PassRows'
    BY <1>0, <2>1, <2>2, <2>3, <2>5, <2>6, WatchNotes DEF PassRows
  <2>8. TakenOut'
    BY <1>0, <2>2 DEF TakenOut
  <2> QED BY <2>1, <2>4, <2>7, <2>8, WatchNotes DEF RowInv
<1>10. ASSUME NEW w \in Workers,
             \/ SkipRename(w) \/ Rename(w) \/ RenameFails(w) \/ Complete(w) \/ CompleteFails(w)
      PROVE  RowInv' /\ CrossedNoted'
  <2>1. Watch /\ UNCHANGED <<retry, announced>> /\ cut \subseteq cut'
    BY <1>10, CutGrows DEF SkipRename, Rename, RenameFails, Complete, CompleteFails, dbVars
  <2>2. CASE w = Scheduler
    <3>1. CASE Complete(w) \/ CompleteFails(w)
      <4>1. job' = [job EXCEPT ![w] = DoneJob(w, "poll")]
        BY <3>1 DEF Complete, CompleteFails, Done, DoneJob
      <4>2. /\ job'[Scheduler].at = "poll" /\ job'[Scheduler].cur = 0
            /\ job'[Scheduler].todo \subseteq Tasks
        BY <1>0, <2>2, <4>1 DEF DoneJob, Rest, Job
      <4> QED BY <1>0, <2>1, <4>2, OutsidePass DEF TakenOut
    <3>2. CASE SkipRename(w) \/ Rename(w) \/ RenameFails(w)
      <4>1. /\ job'[Scheduler].at \in {"complete", "enqueue"}
            /\ job'[Scheduler].cur = job[Scheduler].cur
            /\ job'[Scheduler].todo = job[Scheduler].todo
        <5>1. CASE SkipRename(w)
          BY <1>0, <2>2, <5>1 DEF SkipRename, Job
        <5>2. CASE Rename(w)
          BY <1>0, <2>2, <5>2 DEF Rename, Job
        <5>3. CASE RenameFails(w)
          BY <1>0, <2>2, <5>3 DEF RenameFails, Job
        <5> QED BY <3>2, <5>1, <5>2, <5>3
      <4> QED BY <1>0, <2>1, <4>1, OutsidePass DEF TakenOut
    <3> QED BY <1>10, <3>1, <3>2
  <2>3. CASE w # Scheduler
    <3>1. job'[Scheduler] = job[Scheduler]
      BY <1>0, <1>10, <2>3 DEF SkipRename, Rename, RenameFails, Complete, CompleteFails, Done
    <3> QED BY <2>1, <3>1, WatchNotes, QuietRequest
  <2> QED BY <2>2, <2>3
<1>11. ASSUME NEW w \in Workers, Attempt(w) \/ AttemptFails(w) \/ Save(w)
      PROVE  RowInv' /\ CrossedNoted'
  <2>1. Watch /\ UNCHANGED <<retry, announced>> /\ cut \subseteq cut'
    BY <1>11, CutGrows DEF Attempt, AttemptFails, Save, dbVars
  <2>2. CASE w = Scheduler
    <3>1. /\ job[Scheduler].at \in {"attempt", "save"}
          /\ job'[Scheduler].cur = job[Scheduler].cur
          /\ job'[Scheduler].todo = job[Scheduler].todo
          /\ job'[Scheduler].count = job[Scheduler].count
      <4>1. CASE Attempt(w)
        BY <1>0, <2>2, <4>1 DEF Attempt, Job
      <4>2. CASE AttemptFails(w)
        BY <1>0, <2>2, <4>2 DEF AttemptFails, Job
      <4>3. CASE Save(w)
        BY <1>0, <2>2, <4>3 DEF Save, Job
      <4> QED BY <1>11, <4>1, <4>2, <4>3
    <3>2. TakenOut' /\ \A u \in Tasks : InPass(u)' => InPass(u)
      BY <1>0, <3>1 DEF TakenOut, InPass, Holds
    <3> QED BY <2>1, <3>1, <3>2, WatchNotes, QuietStep
  <2>3. CASE w # Scheduler
    <3>1. job'[Scheduler] = job[Scheduler]
      BY <1>0, <1>11, <2>3 DEF Attempt, AttemptFails, Save, Done
    <3> QED BY <2>1, <3>1, WatchNotes, QuietRequest
  <2> QED BY <2>2, <2>3
<1>12. ASSUME NEW r \in Requests, NEW t \in Tasks, HookCall(r, t) \/ Click(r, t)
       PROVE  RowInv' /\ CrossedNoted'
  <2>1. /\ Watch /\ UNCHANGED <<retry, announced>> /\ cut \subseteq cut'
        /\ r # Scheduler
    BY <1>12, CutGrows, RenameAssumption DEF HookCall, Click, dbVars, Requests
  <2>2. job'[Scheduler] = job[Scheduler]
    BY <1>0, <1>12, <2>1 DEF HookCall, Click
  <2> QED BY <2>1, <2>2, WatchNotes, QuietRequest
<1>13. ASSUME NEW t \in Tasks, ComesDue(t) PROVE RowInv' /\ CrossedNoted'
  <2>1. \A u \in Tasks : retry'[u].status = retry[u].status /\ retry'[u].count = retry[u].count
    BY <1>0, <1>13 DEF ComesDue, RetryRow
  <2>2. UNCHANGED <<job, announced, crossed, cut>>
    BY <1>13 DEF ComesDue, Calm
  <2>3. PendingBelow' /\ AnnouncedOnce'
    BY <1>0, <2>1, <2>2 DEF PendingBelow, AnnouncedOnce
  <2>4. PassRows' /\ TakenOut' /\ CrossedNoted'
    BY <1>0, <2>1, <2>2 DEF PassRows, TakenOut, CrossedNoted, InPass, Holds
  <2> QED BY <2>3, <2>4 DEF RowInv
<1>14. ASSUME NEW W \in SUBSET Workers, Die(W) PROVE RowInv' /\ CrossedNoted'
  <2>1. Watch /\ UNCHANGED <<retry, announced>> /\ cut \subseteq cut'
    BY <1>14, CutGrows DEF Die, dbVars
  <2>2. job'[Scheduler] = Rest \/ job'[Scheduler] = job[Scheduler]
    BY <1>0, <1>14 DEF Die
  <2>3. CASE job'[Scheduler] = Rest
    <3>1. TakenOut' /\ \A u \in Tasks : ~InPass(u)'
      BY <2>3, RestIsJob DEF TakenOut, InPass
    <3> QED BY <2>1, <3>1, WatchNotes, QuietStep
  <2> QED BY <2>1, <2>2, <2>3, WatchNotes, QuietRequest
<1>15. CASE UNCHANGED vars \/ \E t \in Tasks : DeleteTask(t)
  <2>1. UNCHANGED <<job, retry, announced, crossed, cut>>
    BY <1>15 DEF vars, dbVars, histVars, DeleteTask, Calm
  <2>2. CrossedNoted'
    BY <1>0, <2>1 DEF CrossedNoted, Holds
  <2> QED BY <2>1, <2>2, QuietRequest
<1> QED BY <1>1, <1>4, <1>5, <1>6, <1>7, <1>8, <1>9, <1>10, <1>11, <1>12, <1>13, <1>14,
  <1>15, <1>2, <1>3
  DEF Next, SchedulerStep, WorkerStep, Requests, Workers

-----------------------------------------------------------------------------
(* Files: where they are, and what workers and rows know of it.            *)

Good(t)    == t \notin crossed \cup cut \cup unseen
RawHere(t) == file[t] = Raw(t)
HeldAt(t, p) == \E w \in Workers : job[w].at = p /\ job[w].cur = t
GivenUp(t) == retry[t].status = "abandoned" /\ retry[t].count = MaxRetries

\* No file gets the name that aria2 gave another.
RawOnly == \A t, u \in Tasks : file[u] = Raw(t) => u = t

\* Between two tasks a worker holds nothing.
FreeHands == \A w \in Workers :
  job[w].at \in {"idle", "poll", "list", "pass"} => job[w].cur = 0 /\ job[w].path = NoPath

\* What the polling pass has listed is not completed by anybody else.
Polled == \A t \in Tasks :
  (/\ Good(t) /\ t \in job[Scheduler].todo
   /\ job[Scheduler].at \in {"poll", "rename", "enqueue", "complete"})
     => task[t].status # "completed"

\* What worker w knows of the task it has in hand.
Told(w) == LET j == job[w]  t == j.cur IN t \in Tasks /\ Good(t) =>
  /\ j.at \in {"rename", "enqueue"} => j.path = Raw(t) /\ task[t].status # "completed"
  /\ j.at = "complete" =>
       /\ task[t].status # "completed"
       /\ j.path # NoPath /\ RawHere(t) =>
            /\ j.path = Raw(t)
            /\ t \in PlainTasks \/ task[t].status = "deleted" \/ retry[t].status = "pending"
  /\ j.at = "attempt" => task[t].status # "submitted" /\ (RawHere(t) => j.path = Raw(t))
  /\ j.at = "save" => task[t].status # "submitted" /\ j.says = "ok" /\ ~RawHere(t)
  /\ j.at = "settle" => /\ task[t].status # "submitted" /\ j.says # "unfinished"
                        /\ j.says = "ok" => ~RawHere(t)
                        /\ w # Scheduler => j.says = "ok"

\* What the rows of task t say of its file.
Kept(t) == Good(t) =>
  /\ task[t].status = "completed" /\ RawHere(t) =>
       /\ task[t].final = Raw(t)
       /\ t \in PlainTasks \/ retry[t].status = "pending" \/ GivenUp(t)
  /\ task[t].status = "submitted" => retry[t].status = "none" \/ HeldAt(t, "complete")

FileInv == RawOnly /\ FreeHands /\ Polled /\ (\A w \in Workers : Told(w)) /\ \A t \in Tasks : Kept(t)

\* Where nothing has gone wrong, files are where rows and workers say.
OwnFile(t) ==
  /\ file[t] \in {Raw(t), Named(t)}
  /\ task[t].status = "completed" => task[t].final = file[t] \/ HeldAt(t, "save")
  /\ task[t].status = "submitted" => RawHere(t) \/ HeldAt(t, "complete")

OwnPath(w) == LET j == job[w]  t == j.cur IN
  /\ j.at \in {"attempt", "save"} => j.path = file[t]
  /\ j.at = "complete" /\ j.path # NoPath => j.path = file[t] \/ task[t].status = "deleted"

CalmInv == NoMishap => (\A t \in Tasks : OwnFile(t)) /\ \A w \in Workers : OwnPath(w)

PathInv == FileInv /\ CalmInv

LEMMA PathInit == Init => PathInv
<1> SUFFICES ASSUME Init PROVE PathInv
  OBVIOUS
<1>1. FileInv
  BY RestIsJob, RenameAssumption DEF Init, FileInv, RawOnly, FreeHands, Polled, Told, Kept,
    RawHere, Raw, NoPath, NoRow, Rest, Workers
<1>2. CalmInv
  BY RestIsJob DEF Init, CalmInv, OwnFile, OwnPath, RawHere
<1> QED BY <1>1, <1>2 DEF PathInv

\* What has gone wrong is never forgotten.
Grows == crossed \subseteq crossed' /\ cut \subseteq cut' /\ unseen \subseteq unseen'

LEMMA GoodBefore ==
  ASSUME Grows
  PROVE  (\A t : Good(t)' => Good(t)) /\ (NoMishap' => NoMishap /\ \A t : Good(t)')
BY DEF Grows, Good, NoMishap

\* A task that nothing has happened to is in the hands of one worker.
LEMMA OneHolder ==
  ASSUME CrossedNoted, NEW t \in Tasks, Good(t), NEW v \in Workers, NEW w \in Workers,
         Holds(job[v], t), Holds(job[w], t)
  PROVE  v = w
BY DEF CrossedNoted, Good

\* Worker w moves, with task t in its hands before or after (or none, t = 0).
Hands(w, t) ==
  /\ \A v \in Workers \ {w} : job'[v] = job[v]
  /\ job[w].cur \in {t, 0}
  /\ t \in Tasks => Holds(job[w], t) \/ Holds(job'[w], t)
  /\ \A u \in Tasks \ {t} : task'[u] = task[u] /\ retry'[u] = retry[u]
  /\ \A u \in Tasks : RawHere(u)' => RawHere(u)

LEMMA WorkerMoves ==
  ASSUME IInv, IInv', PathInv, Grows, NEW w \in Workers, NEW t \in Tasks \cup {0}, Hands(w, t),
         RawOnly', Polled', Told(w)', t \in Tasks => Kept(t)',
         job'[w].at \in {"idle", "poll", "list", "pass"} => job'[w].cur = 0 /\ job'[w].path = NoPath,
         NoMishap' => /\ \A u \in Tasks \ {t} : file'[u] = file[u]
                      /\ t \in Tasks => OwnFile(t)'
                      /\ OwnPath(w)'
  PROVE  PathInv'
<1>0. 0 \notin Tasks
  BY RenameAssumption
<1>1. FreeHands'
  BY DEF PathInv, FileInv, FreeHands, Hands
<1>2. ASSUME NEW v \in Workers \ {w}, job[v].cur \in Tasks, Good(job[v].cur)'
      PROVE  job[v].cur # t
  <2>1. Holds(job[v], job[v].cur) /\ job'[v] = job[v]
    BY DEF Holds, Hands
  <2> QED BY <1>2, <2>1, OneHolder, GoodBefore DEF Hands, IInv, Holds, CrossedNoted, Good
<1>3. ASSUME NEW v \in Workers PROVE Told(v)'
  <2>1. CASE v # w
    <3> SUFFICES ASSUME job[v].cur \in Tasks, Good(job[v].cur)' PROVE Told(v)'
      BY <2>1 DEF Told, Hands
    <3>1. Told(v) /\ Good(job[v].cur) /\ job[v].cur # t /\ job'[v] = job[v]
      BY <1>2, <2>1, GoodBefore DEF PathInv, FileInv, Hands
    <3> QED BY <3>1 DEF Told, Hands
  <2> QED BY <2>1
<1>4. ASSUME NEW u \in Tasks PROVE Kept(u)'
  <2>1. CASE u # t /\ Good(u)'
    <3>1. Kept(u) /\ Good(u) /\ (RawHere(u)' => RawHere(u))
      BY <2>1, GoodBefore DEF PathInv, FileInv, Hands
    <3>2. HeldAt(u, "complete") => HeldAt(u, "complete")'
      BY <1>0, <2>1 DEF HeldAt, Hands
    <3> QED BY <2>1, <3>1, <3>2 DEF Kept, Hands, GivenUp
  <2> QED BY <2>1 DEF Kept
<1>5. FileInv'
  BY <1>1, <1>3, <1>4 DEF FileInv
<1>6. CalmInv'
  <2> SUFFICES ASSUME NoMishap' PROVE (\A u \in Tasks : OwnFile(u)') /\ \A v \in Workers : OwnPath(v)'
    BY DEF CalmInv
  <2>1. (\A u \in Tasks : OwnFile(u)) /\ \A v \in Workers : OwnPath(v)
    BY GoodBefore DEF PathInv, CalmInv
  <2>2. ASSUME NEW u \in Tasks PROVE OwnFile(u)'
    <3>1. CASE u # t
      <4>1. /\ HeldAt(u, "complete") => HeldAt(u, "complete")'
            /\ HeldAt(u, "save") => HeldAt(u, "save")'
        BY <1>0, <3>1 DEF HeldAt, Hands
      <4> QED BY <2>1, <3>1, <4>1 DEF OwnFile, RawHere, Hands
    <3> QED BY <3>1
  <2>3. ASSUME NEW v \in Workers PROVE OwnPath(v)'
    <3>1. CASE v # w /\ job[v].at \in {"attempt", "save", "complete"}
      <4>1. job[v].cur \in Tasks /\ Good(job[v].cur)' /\ job'[v] = job[v] /\ OwnPath(v)
        BY <2>1, <3>1, GoodBefore DEF IInv, TypeInv, WellFormed, Hands
      <4>2. job[v].cur # t
        BY <1>2, <3>1, <4>1
      <4> QED BY <4>1, <4>2 DEF OwnPath, Hands
    <3>2. CASE v # w /\ job[v].at \notin {"attempt", "save", "complete"}
      BY <3>2 DEF OwnPath, Hands
    <3> QED BY <3>1, <3>2
  <2> QED BY <2>2, <2>3
<1> QED BY <1>5, <1>6 DEF PathInv

\* Nothing new is polled, and nothing polled is completed.
LEMMA PolledStays ==
  ASSUME PathInv, Grows,
         \A u \in job'[Scheduler].todo :
           job'[Scheduler].at \in {"poll", "rename", "enqueue", "complete"} =>
             /\ u \in job[Scheduler].todo
             /\ job[Scheduler].at \in {"poll", "rename", "enqueue", "complete"},
         \A u \in Tasks : task'[u].status = "completed" =>
           task[u].status = "completed" \/ ~Good(u)' \/ u \notin job'[Scheduler].todo
  PROVE  Polled'
BY GoodBefore DEF PathInv, FileInv, Polled

\* What the steps need of the invariant of the rows.
LEMMA Basics ==
  ASSUME IInv
  PROVE  /\ job \in [Workers -> Job] /\ Scheduler \in Workers
         /\ \A w \in Workers : WellFormed(job[w])
         /\ task \in [Tasks -> TaskRow] /\ retry \in [Tasks -> RetryRow] /\ file \in [Tasks -> Paths]
         /\ 0 \notin Tasks /\ PassRows /\ TakenOut /\ CrossedNoted
BY RenameAssumption DEF IInv, TypeInv, TypeOK, RowInv, Workers

LEMMA HistoryGrows ==
  ASSUME [Next]_vars
  PROVE  Grows
<1>1. crossed \subseteq crossed'
  BY DEF Next, SchedulerStep, WorkerStep, vars, dbVars, histVars, Poll, EndPoll, ListDue, EndPass,
    StillRunning, SeenByPoll, ForgottenByAria2, SkipRow, RowUnfinished, RowTaken, SettleRow,
    SkipRename, Rename, RenameFails, Enqueue, Complete, CompleteFails, Attempt, AttemptFails, Save,
    HookCall, Click, MarkSucceeded, ComesDue, DeleteTask, Die, Watch
<1>2. cut \subseteq cut'
  BY DEF Next, SchedulerStep, WorkerStep, vars, dbVars, histVars, Poll, EndPoll, ListDue, EndPass,
    StillRunning, SeenByPoll, ForgottenByAria2, SkipRow, RowUnfinished, RowTaken, SettleRow,
    SkipRename, Rename, RenameFails, Enqueue, Complete, CompleteFails, Attempt, AttemptFails, Save,
    HookCall, Click, MarkSucceeded, ComesDue, DeleteTask, Die, Calm, Fault
<1>3. unseen \subseteq unseen'
  BY DEF Next, SchedulerStep, WorkerStep, vars, dbVars, histVars, Poll, EndPoll, ListDue, EndPass,
    StillRunning, SeenByPoll, ForgottenByAria2, SkipRow, RowUnfinished, RowTaken, SettleRow,
    SkipRename, Rename, RenameFails, Enqueue, Complete, CompleteFails, Attempt, AttemptFails, Save,
    HookCall, Click, MarkSucceeded, ComesDue, DeleteTask, Die
<1> QED BY <1>1, <1>2, <1>3 DEF Grows

\* A row and a file that nobody touched are as they were said to be.
LEMMA KeptStays ==
  ASSUME PathInv, Grows, NEW t \in Tasks, task'[t] = task[t], retry'[t] = retry[t],
         RawHere(t)' => RawHere(t),
         HeldAt(t, "complete") => HeldAt(t, "complete")' \/ ~Good(t)'
  PROVE  Kept(t)'
<1>1. Kept(t) /\ (Good(t)' => Good(t))
  BY GoodBefore DEF PathInv, FileInv
<1> QED BY <1>1 DEF Kept, GivenUp

LEMMA OwnFileStays ==
  ASSUME PathInv, Grows, NEW t \in Tasks, task'[t] = task[t], file'[t] = file[t], NoMishap',
         HeldAt(t, "complete") => HeldAt(t, "complete")',
         HeldAt(t, "save") => HeldAt(t, "save")'
  PROVE  OwnFile(t)'
<1>1. OwnFile(t)
  BY GoodBefore DEF PathInv, CalmInv
<1> QED BY <1>1 DEF OwnFile, RawHere

LEMMA RawOnlyStays ==
  ASSUME PathInv, UNCHANGED file
  PROVE  RawOnly'
BY DEF PathInv, FileInv, RawOnly

\* The scheduler goes on between two tasks.
LEMMA ScheduleMoves ==
  ASSUME IInv, IInv', PathInv, Grows, UNCHANGED <<task, retry, file>>, Polled',
         \A v \in Workers \ {Scheduler} : job'[v] = job[v],
         job[Scheduler].at \in {"idle", "poll", "list", "pass"},
         job'[Scheduler].at \in {"idle", "poll", "list", "pass"},
         job'[Scheduler].cur = 0, job'[Scheduler].path = NoPath
  PROVE  PathInv'
<1>1. Hands(Scheduler, 0)
  BY Basics DEF Hands, PathInv, FileInv, FreeHands, RawHere
<1>2. Told(Scheduler)' /\ OwnPath(Scheduler)'
  BY Basics DEF Told, OwnPath
<1> QED BY <1>1, <1>2, Basics, RawOnlyStays, WorkerMoves

LEMMA SchedulePath ==
  ASSUME IInv, IInv', PathInv, Grows,
         \/ Poll \/ EndPoll \/ ListDue \/ EndPass
         \/ \E t \in Tasks : StillRunning(t) \/ SkipRow(t)
  PROVE  PathInv'
<1>0. job \in [Workers -> Job] /\ Scheduler \in Workers
  BY Basics
<1>1. CASE Poll
  <2>1. /\ job[Scheduler].at = "idle" /\ job'[Scheduler].at = "poll" /\ job'[Scheduler].cur = 0
        /\ job'[Scheduler].path = NoPath /\ job'[Scheduler].todo = Submitted
        /\ UNCHANGED <<task, retry, file>>
        /\ \A v \in Workers \ {Scheduler} : job'[v] = job[v]
    BY <1>0, <1>1 DEF Poll, Rest, dbVars
  <2>2. Polled'
    BY <2>1 DEF Polled, Submitted
  <2> QED BY <2>1, <2>2, ScheduleMoves
<1>2. CASE EndPoll
  <2>1. /\ job[Scheduler].at = "poll" /\ job'[Scheduler].at = "list" /\ job'[Scheduler].cur = 0
        /\ job'[Scheduler].path = NoPath
        /\ UNCHANGED <<task, retry, file>>
        /\ \A v \in Workers \ {Scheduler} : job'[v] = job[v]
    BY <1>0, <1>2 DEF EndPoll, Rest, dbVars
  <2> QED BY <2>1, PolledStays, ScheduleMoves
<1>3. CASE ListDue
  <2>1. /\ job[Scheduler].at = "list" /\ job'[Scheduler].at = "pass" /\ job'[Scheduler].cur = 0
        /\ job'[Scheduler].path = NoPath
        /\ UNCHANGED <<task, retry, file>>
        /\ \A v \in Workers \ {Scheduler} : job'[v] = job[v]
    <3>1. PICK S \in SUBSET Due : job' = [job EXCEPT ![Scheduler] =
              [Rest EXCEPT !.at = "pass", !.todo = S,
                           !.count = [t \in Tasks |-> IF t \in S THEN retry[t].count ELSE 0]]]
      BY <1>3 DEF ListDue
    <3> QED BY <1>0, <1>3, <3>1 DEF ListDue, Rest, dbVars
  <2> QED BY <2>1, PolledStays, ScheduleMoves
<1>4. CASE EndPass
  <2>1. /\ job[Scheduler].at = "pass" /\ job'[Scheduler].at = "idle" /\ job'[Scheduler].cur = 0
        /\ job'[Scheduler].path = NoPath
        /\ UNCHANGED <<task, retry, file>>
        /\ \A v \in Workers \ {Scheduler} : job'[v] = job[v]
    BY <1>0, <1>4 DEF EndPass, Rest, dbVars
  <2> QED BY <2>1, PolledStays, ScheduleMoves
<1>5. ASSUME NEW t \in Tasks, StillRunning(t) \/ SkipRow(t) PROVE PathInv'
  <2>1. /\ job[Scheduler].at \in {"poll", "pass"} /\ job'[Scheduler].at = job[Scheduler].at
        /\ job'[Scheduler].cur = job[Scheduler].cur
        /\ job'[Scheduler].path = job[Scheduler].path
        /\ job'[Scheduler].todo \subseteq job[Scheduler].todo
        /\ UNCHANGED <<task, retry, file>>
        /\ \A v \in Workers \ {Scheduler} : job'[v] = job[v]
    <3>1. CASE StillRunning(t)
      BY <1>0, <3>1 DEF StillRunning, Job, dbVars
    <3>2. CASE SkipRow(t)
      <4> DEFINE j == [job[Scheduler] EXCEPT !.todo = @ \ {t}, !.count = [@ EXCEPT ![t] = 0]]
      <4>1. job' = [job EXCEPT ![Scheduler] = j]
        BY <3>2 DEF SkipRow
      <4>2. /\ j.at = job[Scheduler].at /\ j.cur = job[Scheduler].cur
            /\ j.path = job[Scheduler].path /\ j.todo \subseteq job[Scheduler].todo
        BY <1>0 DEF Job
      <4> HIDE DEF j
      <4> QED BY <1>0, <3>2, <4>1, <4>2 DEF SkipRow, dbVars
    <3> QED BY <1>5, <3>1, <3>2
  <2>2. job[Scheduler].cur = 0 /\ job[Scheduler].path = NoPath
    BY <1>0, <2>1 DEF PathInv, FileInv, FreeHands
  <2> QED BY <2>1, <2>2, PolledStays, ScheduleMoves
<1> QED BY <1>1, <1>2, <1>3, <1>4, <1>5

\* Worker w takes task t up or goes on with it; rows and files stay.
LEMMA HoldMoves ==
  ASSUME IInv, IInv', PathInv, Grows, UNCHANGED <<task, retry, file>>, Polled',
         NEW w \in Workers, NEW t \in Tasks,
         \A v \in Workers \ {w} : job'[v] = job[v],
         job[w].cur \in {t, 0}, job'[w].cur = t,
         job[w].at \notin {"complete", "save"},
         job'[w].at \notin {"idle", "poll", "list", "pass"},
         Told(w)', NoMishap' => OwnPath(w)'
  PROVE  PathInv'
<1>1. Hands(w, t)
  BY DEF Hands, RawHere, Holds
<1>2. /\ HeldAt(t, "complete") => HeldAt(t, "complete")'
      /\ HeldAt(t, "save") => HeldAt(t, "save")'
  BY DEF HeldAt
<1>3. Kept(t)'
  BY <1>2, KeptStays DEF RawHere
<1>4. NoMishap' => OwnFile(t)'
  BY <1>2, OwnFileStays
<1> QED BY <1>1, <1>3, <1>4, RawOnlyStays, WorkerMoves

LEMMA PollPath ==
  ASSUME IInv, IInv', PathInv, Grows, NEW t \in Tasks, SeenByPoll(t) \/ ForgottenByAria2(t)
  PROVE  PathInv'
<1>0. job \in [Workers -> Job] /\ Scheduler \in Workers /\ 0 \notin Tasks
  BY Basics
<1>1. /\ job[Scheduler].at = "poll" /\ t \in job[Scheduler].todo
      /\ job'[Scheduler].cur = t /\ job'[Scheduler].todo \subseteq job[Scheduler].todo
      /\ \/ job'[Scheduler].at = "rename" /\ job'[Scheduler].path = Raw(t)
         \/ job'[Scheduler].at = "complete" /\ job'[Scheduler].path = job[Scheduler].path
      /\ UNCHANGED <<task, retry, file>>
      /\ \A v \in Workers \ {Scheduler} : job'[v] = job[v]
  <2>1. CASE SeenByPoll(t)
    BY <1>0, <2>1 DEF SeenByPoll, Taken, Job, dbVars
  <2>2. CASE ForgottenByAria2(t)
    BY <1>0, <2>2 DEF ForgottenByAria2, Taken, Job, dbVars
  <2> QED BY <2>1, <2>2
<1>2. job[Scheduler].cur = 0 /\ job[Scheduler].path = NoPath
  BY <1>0, <1>1 DEF PathInv, FileInv, FreeHands
<1>3. Good(t)' => task[t].status # "completed"
  BY <1>1, GoodBefore DEF PathInv, FileInv, Polled
<1>4. Polled'
  BY <1>1, PolledStays
<1>5. Told(Scheduler)' /\ OwnPath(Scheduler)'
  BY <1>1, <1>2, <1>3 DEF Told, OwnPath
<1> QED BY <1>0, <1>1, <1>2, <1>4, <1>5, HoldMoves

LEMMA HookPath ==
  ASSUME IInv, IInv', PathInv, Grows, NEW h \in Hooks, NEW t \in Tasks, HookCall(h, t)
  PROVE  PathInv'
<1>0. job \in [Workers -> Job] /\ h \in Workers /\ h # Scheduler /\ 0 \notin Tasks
  BY Basics, RenameAssumption DEF Workers, Requests
<1>1. /\ job[h] = Rest /\ task[t].status = "submitted" /\ job'[h].cur = t
      /\ \/ job'[h].at = "rename" /\ job'[h].path = Raw(t)
         \/ job'[h].at = "complete" /\ job'[h].path = NoPath
      /\ UNCHANGED <<task, retry, file>>
      /\ \A v \in Workers \ {h} : job'[v] = job[v]
  BY <1>0 DEF HookCall, Rest, dbVars
<1>2. Polled'
  BY <1>0, <1>1, PolledStays, Basics
<1>3. Told(h)' /\ OwnPath(h)'
  BY <1>1 DEF Told, OwnPath
<1> QED BY <1>0, <1>1, <1>2, <1>3, RestIsJob, HoldMoves

\* Where a file still has the name aria2 gave it, a worker finds it there.
LEMMA FoundPaths ==
  ASSUME IInv, PathInv, NEW t \in Tasks, task[t].status = "completed", Good(t),
         NEW p \in RetryPaths(t) \cup CompletedPaths(t)
  PROVE  /\ RawHere(t) => p = Raw(t)
         /\ NoMishap /\ ~HeldAt(t, "save") => p = file[t]
<1>1. Kept(t) /\ RawOnly
  BY DEF PathInv, FileInv
<1>2. RawHere(t) => p = Raw(t)
  BY <1>1 DEF Kept, RawHere, RetryPaths, CompletedPaths, Present
<1>3. ASSUME NoMishap, ~HeldAt(t, "save") PROVE p = file[t]
  <2>1. OwnFile(t)
    BY <1>3 DEF PathInv, CalmInv
  <2>2. task[t].final = file[t] /\ Present(file[t])
    BY <1>3, <2>1 DEF OwnFile, Present
  <2>3. Present(Raw(t)) => RawHere(t)
    BY <1>1 DEF RawOnly, Present, RawHere
  <2> QED BY <1>2, <2>2, <2>3 DEF RetryPaths, CompletedPaths, RawHere
<1> QED BY <1>2, <1>3

LEMMA ClickPath ==
  ASSUME IInv, IInv', PathInv, Grows, NEW c \in Clicks, NEW t \in Tasks, Click(c, t)
  PROVE  PathInv'
<1>0. job \in [Workers -> Job] /\ c \in Workers /\ c # Scheduler /\ 0 \notin Tasks
  BY Basics, RenameAssumption DEF Workers, Requests
<1>1. PICK p \in CompletedPaths(t) :
        job' = [job EXCEPT ![c] = [Rest EXCEPT !.at = "attempt", !.cur = t, !.path = p]]
  BY DEF Click
<1>2. /\ job[c] = Rest /\ task[t].status = "completed"
      /\ job'[c].cur = t /\ job'[c].at = "attempt" /\ job'[c].path = p
      /\ UNCHANGED <<task, retry, file>>
      /\ \A v \in Workers \ {c} : job'[v] = job[v]
  BY <1>0, <1>1 DEF Click, Rest, dbVars
<1>3. Polled'
  BY <1>0, <1>2, PolledStays, Basics
<1>4. Good(t)' => Good(t) /\ ~HeldAt(t, "save")
  <2> SUFFICES ASSUME Good(t)', NEW v \in Workers, job[v].cur = t PROVE FALSE
    BY GoodBefore DEF HeldAt
  <2>1. v # c /\ job'[v].cur = t
    BY <1>0, <1>2, RestIsJob
  <2> QED BY <1>0, <1>2, <2>1 DEF Holds, IInv, CrossedNoted, Good
<1>5. Told(c)'
  BY <1>2, <1>4, FoundPaths DEF Told, RawHere
<1>6. NoMishap' => OwnPath(c)'
  BY <1>2, <1>4, FoundPaths, GoodBefore DEF OwnPath
<1> QED BY <1>0, <1>2, <1>3, <1>5, <1>6, RestIsJob, HoldMoves

\* A move takes no file to a name that aria2 gave.
LEMMA MoveNames ==
  ASSUME IInv, PathInv, NEW p, NEW u, Move(p, Named(u))
  PROVE  RawOnly' /\ \A t \in Tasks : RawHere(t)' => RawHere(t) /\ file[t] # p
BY Basics DEF PathInv, FileInv, RawOnly, RawHere, Move, Named, Raw

\* A task that is not completed has its file where aria2 left it.
LEMMA FirstPath ==
  ASSUME CrossedNoted, PathInv, NoMishap, NEW w \in Workers, NEW t \in Tasks, job[w].cur = t,
         job[w].at # "complete", task[t].status = "submitted"
  PROVE  RawHere(t)
<1>1. Good(t)
  BY DEF Good, NoMishap
<1>2. ~HeldAt(t, "complete")
  <2> SUFFICES ASSUME NEW v \in Workers, job[v].cur = t, job[v].at = "complete" PROVE FALSE
    BY DEF HeldAt
  <2> QED BY <1>1, OneHolder DEF Holds
<1>3. OwnFile(t)
  BY DEF PathInv, CalmInv
<1> QED BY <1>2, <1>3 DEF OwnFile

LEMMA FirstRow ==
  ASSUME CrossedNoted, PathInv, NEW t \in Tasks, Good(t), NEW w \in Workers, Holds(job[w], t),
         job[w].at # "complete", task[t].status = "submitted"
  PROVE  retry[t].status = "none"
<1>1. ~HeldAt(t, "complete")
  <2> SUFFICES ASSUME NEW v \in Workers, job[v].cur = t, job[v].at = "complete" PROVE FALSE
    BY DEF HeldAt
  <2> QED BY OneHolder DEF Holds
<1> QED BY <1>1 DEF PathInv, FileInv, Kept

LEMMA RenamePath ==
  ASSUME IInv, IInv', PathInv, Grows, NEW w \in Workers,
         SkipRename(w) \/ Rename(w) \/ RenameFails(w)
  PROVE  PathInv'
<1>0. /\ job \in [Workers -> Job] /\ Scheduler \in Workers /\ 0 \notin Tasks
      /\ task \in [Tasks -> TaskRow] /\ file \in [Tasks -> Paths] /\ CrossedNoted
  BY Basics
<1>1. PICK t \in Tasks : t = job[w].cur /\ job[w].at = "rename"
  BY Basics DEF SkipRename, Rename, RenameFails, WellFormed
<1>2. Good(t)' => Good(t) /\ job[w].path = Raw(t) /\ task[t].status # "completed"
  BY <1>1, GoodBefore DEF PathInv, FileInv, Told
<1>3. CASE SkipRename(w) \/ RenameFails(w)
  <2>1. /\ job'[w].cur = t /\ job'[w].path = job[w].path /\ job'[w].todo = job[w].todo
        /\ \/ SkipRename(w) /\ job'[w].at = "complete"
           \/ RenameFails(w) /\ job'[w].at = "enqueue"
        /\ UNCHANGED <<task, retry, file>>
        /\ \A v \in Workers \ {w} : job'[v] = job[v]
    <3>1. CASE SkipRename(w)
      BY <1>0, <1>1, <3>1 DEF SkipRename, Job, dbVars
    <3>2. CASE RenameFails(w)
      BY <1>0, <1>1, <3>2 DEF RenameFails, Job, dbVars
    <3> QED BY <1>3, <3>1, <3>2
  <2>2. Polled'
    BY <1>0, <1>1, <2>1, PolledStays
  <2>3. SkipRename(w) /\ Good(t)' => t \in PlainTasks \/ task[t].status = "deleted"
    BY <1>1 DEF SkipRename, Fault, Good
  <2>4. Told(w)'
    BY <1>2, <2>1, <2>3 DEF Told, Raw, NoPath, RawHere
  <2>5. NoMishap' => OwnPath(w)'
    <3> SUFFICES ASSUME NoMishap' PROVE OwnPath(w)'
      OBVIOUS
    <3>1. task[t].status \in {"submitted", "deleted"} /\ job[w].path = Raw(t) /\ NoMishap
      BY <1>0, <1>2, GoodBefore DEF TaskRow
    <3>2. task[t].status = "submitted" => RawHere(t)
      BY <1>0, <1>1, <3>1, FirstPath
    <3> QED BY <2>1, <3>1, <3>2 DEF OwnPath, RawHere
  <2> QED BY <1>1, <2>1, <2>2, <2>4, <2>5, HoldMoves
<1>4. CASE Rename(w)
  <2>1. Move(job[w].path, Named(t)) /\ UNCHANGED <<task, retry>>
    BY <1>1, <1>4 DEF Rename, dbVars
  <2>2. /\ job'[w].cur = t /\ job'[w].path = Named(t) /\ job'[w].todo = job[w].todo
        /\ job'[w].at = "complete"
        /\ \A v \in Workers \ {w} : job'[v] = job[v]
    BY <1>0, <1>1, <1>4 DEF Rename, Job
  <2>3. RawOnly' /\ \A u \in Tasks : RawHere(u)' => RawHere(u) /\ file[u] # job[w].path
    BY <2>1, MoveNames
  <2>4. Polled'
    BY <1>0, <1>1, <2>1, <2>2, PolledStays
  <2>5. Told(w)'
    BY <1>2, <2>1, <2>2, <2>3 DEF Told, RawHere
  <2>6. Hands(w, t)
    BY <1>1, <2>1, <2>2, <2>3 DEF Hands, Holds
  <2>7. Kept(t)'
    BY <2>1, <2>2, <2>3, KeptStays DEF HeldAt
  <2>8. ASSUME NoMishap'
        PROVE  (\A u \in Tasks \ {t} : file'[u] = file[u]) /\ OwnFile(t)' /\ OwnPath(w)'
    <3>1. job[w].path = Raw(t) /\ task[t].status # "completed" /\ RawOnly
      BY <1>2, <2>8, GoodBefore DEF PathInv, FileInv
    <3>2. file[t] = Raw(t) /\ \A u \in Tasks \ {t} : file[u] # Raw(t)
      BY <2>1, <3>1 DEF Move, Present, RawOnly
    <3>3. file'[t] = Named(t) /\ \A u \in Tasks \ {t} : file'[u] = file[u]
      BY <1>0, <2>1, <3>1, <3>2 DEF Move
    <3>4. HeldAt(t, "complete")'
      BY <2>2 DEF HeldAt
    <3> QED BY <2>1, <2>2, <3>1, <3>3, <3>4 DEF OwnFile, OwnPath
  <2> QED BY <2>2, <2>3, <2>4, <2>5, <2>6, <2>7, <2>8, WorkerMoves
<1> QED BY <1>3, <1>4

LEMMA EnqueuePath ==
  ASSUME IInv, IInv', PathInv, Grows, NEW w \in Workers, Enqueue(w)
  PROVE  PathInv'
<1>0. /\ job \in [Workers -> Job] /\ Scheduler \in Workers /\ 0 \notin Tasks
      /\ task \in [Tasks -> TaskRow] /\ retry \in [Tasks -> RetryRow] /\ CrossedNoted
  BY Basics
<1>1. PICK t \in Tasks : t = job[w].cur /\ job[w].at = "enqueue"
  BY Basics DEF Enqueue, WellFormed
<1>2. Good(t)' => Good(t) /\ job[w].path = Raw(t) /\ task[t].status \in {"submitted", "deleted"}
  BY <1>0, <1>1, GoodBefore DEF PathInv, FileInv, Told, TaskRow
<1>3. /\ job'[w].cur = t /\ job'[w].path = job[w].path /\ job'[w].todo = job[w].todo
      /\ job'[w].at = "complete" /\ UNCHANGED <<task, file>>
      /\ \A v \in Workers \ {w} : job'[v] = job[v]
  BY <1>0, <1>1 DEF Enqueue, Job
<1>4. /\ \A u \in Tasks \ {t} : retry'[u] = retry[u]
      /\ retry[t].status = "none" /\ Good(t)' => retry'[t].status = "pending"
  BY <1>0, <1>1 DEF Enqueue, Insert, NoRow, Fault, Good
<1>5. Polled'
  BY <1>0, <1>1, <1>3, PolledStays
<1>6. Told(w)'
  <2>1. Good(t)' /\ task[t].status = "submitted" => retry'[t].status = "pending"
    BY <1>0, <1>1, <1>2, <1>4, FirstRow DEF Holds
  <2> QED BY <1>2, <1>3, <2>1 DEF Told, RawHere
<1>7. Hands(w, t)
  BY <1>1, <1>3, <1>4 DEF Hands, Holds, RawHere
<1>8. HeldAt(t, "complete")' /\ ~(HeldAt(t, "save") /\ Good(t))
  <2>1. HeldAt(t, "complete")'
    BY <1>3 DEF HeldAt
  <2>2. ASSUME NEW v \in Workers, job[v].cur = t, job[v].at = "save", Good(t) PROVE FALSE
    BY <1>0, <1>1, <2>2, OneHolder DEF Holds
  <2> QED BY <2>1, <2>2 DEF HeldAt
<1>9. Kept(t)'
  BY <1>2, <1>3, <1>8 DEF Kept
<1>10. ASSUME NoMishap' PROVE OwnFile(t)' /\ OwnPath(w)'
  <2>1. NoMishap /\ Good(t) /\ Good(t)' /\ OwnFile(t)
    BY <1>10, GoodBefore DEF PathInv, CalmInv
  <2>2. OwnFile(t)'
    BY <1>2, <1>3, <1>8, <2>1 DEF OwnFile
  <2>3. task[t].status = "submitted" => RawHere(t)
    BY <1>0, <1>1, <2>1, FirstPath
  <2> QED BY <1>2, <1>3, <2>1, <2>2, <2>3 DEF OwnPath, RawHere
<1> QED BY <1>3, <1>5, <1>6, <1>7, <1>9, <1>10, RawOnlyStays, WorkerMoves

\* Worker w is done with task t, and its row is as it should be.
LEMMA ReleaseMoves ==
  ASSUME IInv, IInv', PathInv, Grows, NEW w \in Workers, NEW t \in Tasks, NEW p,
         job[w].cur = t, p \in {"idle", "poll", "pass"}, Done(w, p), UNCHANGED file,
         \A u \in Tasks \ {t} : task'[u] = task[u] /\ retry'[u] = retry[u],
         Polled', Kept(t)', NoMishap' => OwnFile(t)'
  PROVE  PathInv'
<1>1. /\ job'[w].cur = 0 /\ job'[w].path = NoPath /\ job'[w].at \in {"idle", "poll", "pass"}
      /\ \A v \in Workers \ {w} : job'[v] = job[v]
  BY Basics DEF Done, Rest
<1>2. Hands(w, t)
  BY <1>1 DEF Hands, Holds, RawHere
<1>3. Told(w)' /\ OwnPath(w)'
  BY <1>1, Basics DEF Told, OwnPath
<1> QED BY <1>1, <1>2, <1>3, RawOnlyStays, WorkerMoves

LEMMA DonePolled ==
  ASSUME IInv, PathInv, Grows, NEW w \in Workers, NEW t \in Tasks, NEW p,
         job[w].cur = t, Done(w, p),
         w = Scheduler => \/ job[w].at = "complete"
                          \/ p \notin {"poll", "rename", "enqueue", "complete"},
         \A u \in Tasks \ {t} : task'[u] = task[u]
  PROVE  Polled'
<1>1. \/ w = Scheduler /\ job'[w].todo = job[w].todo /\ job'[w].at = p /\ t \notin job[w].todo
      \/ w # Scheduler /\ job'[Scheduler] = job[Scheduler]
  BY Basics DEF Done, Rest, TakenOut
<1>2. t \in job'[Scheduler].todo => ~Good(t)'
  BY <1>1, Basics, GoodBefore DEF CrossedNoted, Holds, Good
<1> QED BY <1>1, <1>2, PolledStays

LEMMA CompletePath ==
  ASSUME IInv, IInv', PathInv, Grows, NEW w \in Workers, Complete(w) \/ CompleteFails(w)
  PROVE  PathInv'
<1>0. task \in [Tasks -> TaskRow]
  BY Basics
<1>1. PICK t \in Tasks : t = job[w].cur /\ job[w].at = "complete"
  BY Basics DEF Complete, CompleteFails, WellFormed
<1>2. CASE Complete(w)
  <2>1. /\ Done(w, "poll") /\ UNCHANGED <<retry, file>>
        /\ \A u \in Tasks \ {t} : task'[u] = task[u]
        /\ task'[t] = Completed(t, job[w].path)
        /\ job[w].path = NoPath => t \in unseen'
    BY <1>0, <1>1, <1>2 DEF Complete
  <2>2. Polled'
    BY <1>1, <2>1, DonePolled
  <2>3. Told(w) /\ Kept(t) /\ (Good(t)' => Good(t) /\ job[w].path # NoPath)
    BY <2>1, GoodBefore DEF PathInv, FileInv, Good
  <2>4. Kept(t)'
    BY <1>1, <2>1, <2>3 DEF Told, Kept, Completed, RawHere
  <2>5. NoMishap' => OwnFile(t)'
    <3> SUFFICES ASSUME NoMishap' PROVE OwnFile(t)'
      OBVIOUS
    <3>1. OwnFile(t) /\ OwnPath(w) /\ job[w].path # NoPath
      BY <2>3, GoodBefore DEF PathInv, CalmInv
    <3> QED BY <1>1, <2>1, <3>1 DEF OwnFile, OwnPath, Completed
  <2> QED BY <1>1, <2>1, <2>2, <2>4, <2>5, ReleaseMoves
<1>3. CASE CompleteFails(w)
  <2>1. Done(w, "poll") /\ UNCHANGED <<task, retry, file>> /\ t \in cut'
    BY <1>1, <1>3 DEF CompleteFails, Fault, dbVars
  <2>2. Polled'
    BY <1>1, <2>1, DonePolled
  <2>3. ~Good(t)' /\ ~NoMishap'
    BY <2>1 DEF Good, NoMishap
  <2> QED BY <1>1, <2>1, <2>2, <2>3, ReleaseMoves DEF Kept
<1> QED BY <1>2, <1>3

LEMMA RowPath ==
  ASSUME IInv, IInv', PathInv, Grows, NEW t \in Tasks, RowUnfinished(t) \/ RowTaken(t)
  PROVE  PathInv'
<1>0. /\ job \in [Workers -> Job] /\ Scheduler \in Workers /\ 0 \notin Tasks
      /\ CrossedNoted /\ PassRows
  BY Basics
<1>1. /\ job[Scheduler].at = "pass" /\ t \in job[Scheduler].todo
      /\ job[Scheduler].cur = 0 /\ job[Scheduler].path = NoPath
  BY <1>0 DEF RowUnfinished, RowTaken, PathInv, FileInv, FreeHands
<1>2. CASE RowUnfinished(t)
  <2>1. /\ job'[Scheduler].cur = t /\ job'[Scheduler].at = "settle"
        /\ UNCHANGED <<task, retry, file>> /\ task[t].status = "submitted"
        /\ \A v \in Workers \ {Scheduler} : job'[v] = job[v]
    BY <1>0, <1>2 DEF RowUnfinished, Taken, Job, dbVars
  <2>2. ~Good(t)'
    <3> SUFFICES ASSUME Good(t)' PROVE FALSE
      OBVIOUS
    <3>1. Good(t) /\ Holds(job[Scheduler], t)
      BY <1>1, GoodBefore DEF Holds
    <3>2. retry[t].status = "none"
      BY <1>0, <1>1, <2>1, <3>1, FirstRow
    <3> QED BY <1>0, <1>1, <3>1, <3>2 DEF PassRows, InPass
  <2>3. Polled' /\ Told(Scheduler)' /\ OwnPath(Scheduler)'
    BY <2>1, <2>2, PolledStays DEF Told, OwnPath
  <2> QED BY <1>0, <1>1, <2>1, <2>3, HoldMoves
<1>3. CASE RowTaken(t)
  <2>1. PICK p \in RetryPaths(t) :
          job' = [job EXCEPT ![Scheduler] = [Taken(t, "attempt") EXCEPT !.path = p]]
    BY <1>3 DEF RowTaken
  <2>2. /\ job'[Scheduler].cur = t /\ job'[Scheduler].at = "attempt" /\ job'[Scheduler].path = p
        /\ UNCHANGED <<task, retry, file>> /\ task[t].status = "completed"
        /\ \A v \in Workers \ {Scheduler} : job'[v] = job[v]
    <3> DEFINE k == Taken(t, "attempt")
               j == [k EXCEPT !.path = p]
    <3>1. k \in Job /\ k.at = "attempt" /\ k.cur = t
      BY TakenIsJob DEF IInv
    <3>2. job' = [job EXCEPT ![Scheduler] = j]
      BY <2>1
    <3> HIDE DEF k
    <3>3. j.at = "attempt" /\ j.cur = t /\ j.path = p
      BY <3>1 DEF Job
    <3> HIDE DEF j
    <3> QED BY <1>0, <1>3, <3>2, <3>3 DEF RowTaken, dbVars
  <2>3. Good(t)' => Good(t) /\ ~HeldAt(t, "save")
    <3> SUFFICES ASSUME Good(t)', NEW v \in Workers, job[v].cur = t, job[v].at = "save" PROVE FALSE
      BY GoodBefore DEF HeldAt
    <3> QED BY <1>0, <1>1, OneHolder, GoodBefore DEF Holds
  <2>4. Polled'
    BY <2>2, PolledStays
  <2>5. Told(Scheduler)'
    BY <2>2, <2>3, FoundPaths DEF Told, RawHere
  <2>6. NoMishap' => OwnPath(Scheduler)'
    BY <2>2, <2>3, FoundPaths, GoodBefore DEF OwnPath
  <2> QED BY <1>0, <1>1, <2>2, <2>4, <2>5, <2>6, HoldMoves
<1> QED BY <1>2, <1>3

LEMMA AttemptPath ==
  ASSUME IInv, IInv', PathInv, Grows, NEW w \in Workers, Attempt(w) \/ AttemptFails(w)
  PROVE  PathInv'
<1>0. /\ job \in [Workers -> Job] /\ Scheduler \in Workers /\ 0 \notin Tasks
      /\ file \in [Tasks -> Paths]
  BY Basics
<1>1. PICK t \in Tasks : t = job[w].cur /\ job[w].at = "attempt"
  BY Basics DEF Attempt, AttemptFails, WellFormed
<1>2. Good(t)' => Good(t) /\ task[t].status # "submitted" /\ (RawHere(t) => job[w].path = Raw(t))
  BY <1>1, GoodBefore DEF PathInv, FileInv, Told
<1>3. CASE Attempt(w)
  <2>1. PICK q \in Targets(t, job[w].path) :
          /\ (q = job[w].path /\ UNCHANGED file) \/ Move(job[w].path, q)
          /\ job' = [job EXCEPT ![w].at = "save", ![w].path = q, ![w].says = "ok"]
    BY <1>1, <1>3 DEF Attempt
  <2> DEFINE j == [job[w] EXCEPT !.at = "save", !.path = q, !.says = "ok"]
  <2>2. job' = [job EXCEPT ![w] = j]
    BY <2>1
  <2>3. j.at = "save" /\ j.cur = t /\ j.path = q /\ j.says = "ok" /\ j.todo = job[w].todo
    BY <1>0, <1>1 DEF Job
  <2> HIDE DEF j
  <2>4. /\ job'[w].cur = t /\ job'[w].path = q /\ job'[w].at = "save" /\ job'[w].says = "ok"
        /\ job'[w].todo = job[w].todo /\ UNCHANGED <<task, retry>>
        /\ \A v \in Workers \ {w} : job'[v] = job[v]
    BY <1>0, <1>3, <2>2, <2>3 DEF Attempt, dbVars
  <2>5. /\ RawOnly'
        /\ \A u \in Tasks : RawHere(u)' => RawHere(u) /\ (file[u] # job[w].path \/ q = job[w].path)
    <3>1. CASE UNCHANGED file /\ q = job[w].path
      BY <3>1, RawOnlyStays DEF RawHere
    <3>2. CASE Move(job[w].path, q)
      BY <3>2, MoveNames DEF Targets
    <3> QED BY <2>1, <3>1, <3>2
  <2>6. Polled'
    BY <1>0, <1>1, <2>4, PolledStays
  <2>7. Good(t)' => ~RawHere(t)'
    BY <1>2, <2>5 DEF RawHere, Targets, Named, Raw
  <2>8. Told(w)'
    BY <1>2, <2>4, <2>7 DEF Told
  <2>9. Hands(w, t)
    BY <1>1, <2>4, <2>5 DEF Hands, Holds
  <2>10. Kept(t)'
    BY <1>1, <2>4, <2>5, KeptStays DEF HeldAt
  <2>11. ASSUME NoMishap'
         PROVE  (\A u \in Tasks \ {t} : file'[u] = file[u]) /\ OwnFile(t)' /\ OwnPath(w)'
    <3>1. /\ NoMishap /\ Good(t)' /\ job[w].path = file[t]
          /\ \A u \in Tasks : file[u] \in {Raw(u), Named(u)}
      BY <1>1, <2>11, GoodBefore DEF PathInv, CalmInv, OwnFile, OwnPath
    <3>2. q = Named(t) /\ \A u \in Tasks \ {t} : file[u] # file[t]
      BY <3>1 DEF Targets, Raw, Named
    <3>3. file'[t] = Named(t) /\ \A u \in Tasks \ {t} : file'[u] = file[u]
      BY <1>0, <2>1, <3>1, <3>2 DEF Move
    <3>4. HeldAt(t, "save")'
      BY <2>4 DEF HeldAt
    <3> QED BY <1>2, <2>4, <3>1, <3>2, <3>3, <3>4 DEF OwnFile, OwnPath
  <2> QED BY <2>4, <2>5, <2>6, <2>8, <2>9, <2>10, <2>11, WorkerMoves
<1>4. CASE AttemptFails(w)
  <2>0. UNCHANGED <<task, retry, file>>
    BY <1>4 DEF AttemptFails, dbVars
  <2>1. CASE w = Scheduler
    <3> DEFINE j == [job[w] EXCEPT !.at = "settle", !.says = "failed", !.path = NoPath]
    <3>1. job' = [job EXCEPT ![w] = j]
      BY <1>4, <2>1 DEF AttemptFails
    <3>2. j.at = "settle" /\ j.says = "failed" /\ j.cur = t /\ j.todo = job[w].todo
      BY <1>0, <1>1 DEF Job
    <3> HIDE DEF j
    <3>3. /\ job'[w].cur = t /\ job'[w].at = "settle" /\ job'[w].says = "failed"
          /\ \A v \in Workers \ {w} : job'[v] = job[v]
      BY <1>0, <3>1, <3>2
    <3>4. Polled'
      BY <2>0, <2>1, <3>3, PolledStays
    <3>5. Told(w)' /\ OwnPath(w)'
      BY <1>2, <2>0, <2>1, <3>3 DEF Told, OwnPath
    <3> QED BY <1>1, <2>0, <3>3, <3>4, <3>5, HoldMoves
  <2>2. CASE w # Scheduler
    <3>1. Done(w, "idle")
      BY <1>4, <2>2 DEF AttemptFails
    <3>2. Polled'
      BY <1>1, <2>0, <2>2, <3>1, DonePolled
    <3>3. /\ HeldAt(t, "complete") => HeldAt(t, "complete")'
          /\ HeldAt(t, "save") => HeldAt(t, "save")'
      BY <1>0, <1>1, <2>2, <3>1 DEF HeldAt, Done
    <3>4. Kept(t)' /\ (NoMishap' => OwnFile(t)')
      BY <2>0, <3>3, KeptStays, OwnFileStays DEF RawHere
    <3> QED BY <1>1, <2>0, <3>1, <3>2, <3>4, ReleaseMoves
  <2> QED BY <2>1, <2>2
<1> QED BY <1>3, <1>4

LEMMA SavePath ==
  ASSUME IInv, IInv', PathInv, Grows, NEW w \in Workers, Save(w)
  PROVE  PathInv'
<1>0. /\ job \in [Workers -> Job] /\ task \in [Tasks -> TaskRow] /\ 0 \notin Tasks
  BY Basics
<1>1. PICK t \in Tasks : t = job[w].cur /\ job[w].at = "save"
  BY Basics DEF Save, WellFormed
<1>2. Good(t)' => Good(t) /\ task[t].status # "submitted" /\ job[w].says = "ok" /\ ~RawHere(t)
  BY <1>1, GoodBefore DEF PathInv, FileInv, Told
<1> DEFINE j == [job[w] EXCEPT !.at = "settle", !.path = NoPath]
<1>3. job' = [job EXCEPT ![w] = j]
  BY DEF Save
<1>4. j.at = "settle" /\ j.cur = t /\ j.says = job[w].says /\ j.todo = job[w].todo
  BY <1>0, <1>1 DEF Job
<1> HIDE DEF j
<1>5. /\ job'[w].cur = t /\ job'[w].at = "settle" /\ job'[w].says = job[w].says
      /\ job'[w].todo = job[w].todo /\ UNCHANGED <<retry, file>>
      /\ \A v \in Workers \ {w} : job'[v] = job[v]
  BY <1>0, <1>3, <1>4 DEF Save
<1>6. /\ \A u \in Tasks \ {t} : task'[u] = task[u]
      /\ task'[t].status = task[t].status
      /\ task[t].status # "deleted" => task'[t].final = job[w].path \/ t \in cut'
  BY <1>0, <1>1 DEF Save, TaskRow, Fault
<1>7. Polled'
  BY <1>0, <1>1, <1>5, <1>6, PolledStays, Basics
<1>8. Told(w)'
  BY <1>2, <1>5, <1>6 DEF Told, RawHere
<1>9. Hands(w, t)
  BY <1>1, <1>5, <1>6 DEF Hands, Holds, RawHere
<1>10. Kept(t)'
  BY <1>2, <1>5, <1>6 DEF Kept, RawHere
<1>11. NoMishap' => OwnFile(t)' /\ OwnPath(w)'
  <2> SUFFICES ASSUME NoMishap' PROVE OwnFile(t)' /\ OwnPath(w)'
    OBVIOUS
  <2>1. OwnFile(t) /\ OwnPath(w) /\ Good(t)'
    BY GoodBefore DEF PathInv, CalmInv
  <2> QED BY <1>1, <1>2, <1>5, <1>6, <2>1 DEF OwnFile, OwnPath, Good
<1> QED BY <1>5, <1>7, <1>8, <1>9, <1>10, <1>11, RawOnlyStays, WorkerMoves

LEMMA SettlePath ==
  ASSUME IInv, IInv', PathInv, Grows, SettleRow
  PROVE  PathInv'
<1>0. /\ job \in [Workers -> Job] /\ Scheduler \in Workers
      /\ retry \in [Tasks -> RetryRow] /\ PassRows
  BY Basics
<1>1. PICK t \in Tasks : t = job[Scheduler].cur /\ job[Scheduler].at = "settle"
  BY Basics DEF SettleRow, WellFormed
<1> DEFINE n    == job[Scheduler].count[t]
           says == job[Scheduler].says
<1>2. /\ Done(Scheduler, "pass") /\ UNCHANGED <<task, file>>
      /\ \A u \in Tasks \ {t} : retry'[u] = retry[u]
      /\ t \in cut' \/ retry'[t] = AfterAttempt(retry[t], n, says)
  BY <1>0, <1>1 DEF SettleRow, Fault
<1>3. /\ n = retry[t].count /\ n < MaxRetries /\ n \in Nat /\ MaxRetries \in Nat
      /\ says \in {"ok", "failed", "unfinished"} /\ retry[t] \in RetryRow
  BY <1>0, <1>1, Basics, RenameAssumption DEF PassRows, InPass, Holds, RetryRow, WellFormed, Job
<1>4. Good(t)' => /\ task[t].status # "submitted" /\ says # "unfinished" /\ Kept(t) /\ Good(t)
                  /\ says = "ok" => ~RawHere(t)
  BY <1>0, <1>1, GoodBefore DEF PathInv, FileInv, Told
<1> HIDE DEF n, says
<1>5. says = "failed" /\ t \notin cut' => retry'[t].status = "pending" \/ GivenUp(t)'
  <2> SUFFICES ASSUME says = "failed", retry'[t] = AfterAttempt(retry[t], n, says)
               PROVE  retry'[t].status = "pending" \/ GivenUp(t)'
    BY <1>2
  <2>1. CASE n + 1 >= MaxRetries
    BY <1>3, <2>1, AfterAttemptRows DEF GivenUp
  <2>2. CASE ~(n + 1 >= MaxRetries)
    BY <2>2 DEF AfterAttempt
  <2> QED BY <2>1, <2>2
<1>6. Kept(t)'
  BY <1>2, <1>3, <1>4, <1>5 DEF Kept, RawHere, Good
<1>7. Polled'
  BY <1>0, <1>1, <1>2, DonePolled
<1>8. NoMishap' => OwnFile(t)'
  <2>1. /\ HeldAt(t, "complete") => HeldAt(t, "complete")'
        /\ HeldAt(t, "save") => HeldAt(t, "save")'
    BY <1>0, <1>1, <1>2 DEF HeldAt, Done
  <2> QED BY <1>2, <2>1, OwnFileStays
<1> QED BY <1>0, <1>1, <1>2, <1>6, <1>7, <1>8, ReleaseMoves

LEMMA MarkPath ==
  ASSUME IInv, IInv', PathInv, Grows, NEW c \in Clicks, MarkSucceeded(c)
  PROVE  PathInv'
<1>0. /\ job \in [Workers -> Job] /\ c \in Workers /\ c # Scheduler
      /\ retry \in [Tasks -> RetryRow]
  BY Basics, RenameAssumption DEF Workers, Requests
<1>1. PICK t \in Tasks : t = job[c].cur /\ job[c].at = "settle"
  BY <1>0, Basics DEF MarkSucceeded, WellFormed
<1>2. /\ Done(c, "idle") /\ UNCHANGED <<task, file>>
      /\ \A u \in Tasks \ {t} : retry'[u] = retry[u]
  BY <1>0, <1>1 DEF MarkSucceeded
<1>3. Good(t)' => task[t].status # "submitted" /\ ~RawHere(t)
  BY <1>0, <1>1, GoodBefore DEF PathInv, FileInv, Told
<1>4. Kept(t)'
  BY <1>2, <1>3 DEF Kept, RawHere
<1>5. Polled'
  BY <1>0, <1>1, <1>2, DonePolled
<1>6. NoMishap' => OwnFile(t)'
  <2>1. /\ HeldAt(t, "complete") => HeldAt(t, "complete")'
        /\ HeldAt(t, "save") => HeldAt(t, "save")'
    BY <1>0, <1>1, <1>2 DEF HeldAt, Done
  <2> QED BY <1>2, <2>1, OwnFileStays
<1> QED BY <1>0, <1>1, <1>2, <1>4, <1>5, <1>6, ReleaseMoves

LEMMA DiePath ==
  ASSUME IInv, IInv', PathInv, Grows, NEW W \in SUBSET Workers, Die(W)
  PROVE  PathInv'
<1>0. job \in [Workers -> Job] /\ 0 \notin Tasks
  BY Basics
<1>1. /\ UNCHANGED <<task, retry, file>>
      /\ \A v \in Workers : job'[v] = job[v] \/ job'[v] = Rest
      /\ \A v \in Workers, t \in Tasks : job[v].cur = t /\ Good(t)' => job'[v] = job[v]
  <2>1. /\ UNCHANGED <<task, retry, file>>
        /\ \A v \in Workers : job'[v] = IF v \in W THEN Rest ELSE job[v]
        /\ {t \in Tasks : \E w \in W : job[w].cur = t} \subseteq cut'
    BY DEF Die, dbVars, Fault
  <2> QED BY <2>1 DEF Good
<1>2. Rest.cur = 0 /\ Rest.path = NoPath /\ Rest.todo = {} /\ Rest.at = "idle"
  BY DEF Rest
<1>3. ASSUME NEW t \in Tasks, Good(t)', NEW p
      PROVE  HeldAt(t, p) => HeldAt(t, p)'
  BY <1>1, <1>3 DEF HeldAt
<1>4. RawOnly' /\ FreeHands' /\ Polled'
  <2>1. FreeHands'
    BY <1>1, <1>2 DEF PathInv, FileInv, FreeHands
  <2>2. Polled'
    BY <1>1, <1>2, PolledStays, Basics
  <2> QED BY <1>1, <2>1, <2>2, RawOnlyStays
<1>5. ASSUME NEW v \in Workers PROVE Told(v)'
  BY <1>0, <1>1, <1>2, GoodBefore DEF PathInv, FileInv, Told, RawHere
<1>6. ASSUME NEW t \in Tasks PROVE Kept(t)'
  BY <1>1, <1>3, KeptStays DEF RawHere, Kept
<1>7. CalmInv'
  <2> SUFFICES ASSUME NoMishap' PROVE (\A t \in Tasks : OwnFile(t)') /\ \A v \in Workers : OwnPath(v)'
    BY DEF CalmInv
  <2>1. ASSUME NEW t \in Tasks PROVE OwnFile(t)'
    BY <1>1, <1>3, OwnFileStays, GoodBefore
  <2>2. ASSUME NEW v \in Workers PROVE OwnPath(v)'
    BY <1>1, <1>2, GoodBefore DEF PathInv, CalmInv, OwnPath
  <2> QED BY <2>1, <2>2
<1> QED BY <1>4, <1>5, <1>6, <1>7 DEF PathInv, FileInv

LEMMA WorldPath ==
  ASSUME IInv, IInv', PathInv, Grows,
         \/ UNCHANGED vars
         \/ \E t \in Tasks : ComesDue(t) \/ DeleteTask(t)
  PROVE  PathInv'
<1>0. /\ task \in [Tasks -> TaskRow] /\ retry \in [Tasks -> RetryRow]
  BY Basics
<1>1. /\ UNCHANGED <<file, job>>
      /\ \A t \in Tasks : /\ task'[t] = task[t] \/ task'[t].status = "deleted"
                          /\ retry'[t].status = retry[t].status /\ retry'[t].count = retry[t].count
  <2>1. CASE UNCHANGED vars
    BY <2>1 DEF vars, dbVars
  <2>2. ASSUME NEW t \in Tasks, ComesDue(t) PROVE <1>1!1 /\ <1>1!2
    BY <1>0, <2>2 DEF ComesDue, RetryRow
  <2>3. ASSUME NEW t \in Tasks, DeleteTask(t) PROVE <1>1!1 /\ <1>1!2
    BY <1>0, <2>3 DEF DeleteTask
  <2> QED BY <2>1, <2>2, <2>3
<1>2. RawOnly' /\ FreeHands' /\ Polled'
  BY <1>1, PolledStays, RawOnlyStays, Basics DEF PathInv, FileInv, FreeHands
<1>3. ASSUME NEW v \in Workers PROVE Told(v)'
  BY <1>1, GoodBefore DEF PathInv, FileInv, Told, RawHere
<1>4. ASSUME NEW t \in Tasks PROVE Kept(t)'
  BY <1>1, GoodBefore DEF PathInv, FileInv, Kept, RawHere, HeldAt, GivenUp
<1>5. CalmInv'
  <2> SUFFICES ASSUME NoMishap' PROVE (\A t \in Tasks : OwnFile(t)') /\ \A v \in Workers : OwnPath(v)'
    BY DEF CalmInv
  <2>1. (\A t \in Tasks : OwnFile(t)) /\ \A v \in Workers : OwnPath(v)
    BY GoodBefore DEF PathInv, CalmInv
  <2>2. ASSUME NEW t \in Tasks PROVE OwnFile(t)'
    BY <1>1, <2>1 DEF OwnFile, HeldAt, RawHere
  <2>3. ASSUME NEW v \in Workers PROVE OwnPath(v)'
    <3>1. job[v].at \in {"attempt", "save", "complete"} => job[v].cur \in Tasks
      BY Basics DEF WellFormed
    <3> QED BY <1>1, <2>1, <3>1 DEF OwnPath
  <2> QED BY <2>2, <2>3
<1> QED BY <1>2, <1>3, <1>4, <1>5 DEF PathInv, FileInv

LEMMA PathStep ==
  ASSUME IInv, IInv', PathInv, [Next]_vars
  PROVE  PathInv'
<1>1. Grows
  BY HistoryGrows
<1> QED BY <1>1, SchedulePath, PollPath, RowPath, SettlePath, RenamePath, EnqueuePath, CompletePath,
  AttemptPath, SavePath, HookPath, MarkPath, ClickPath, WorldPath, DiePath
  DEF Next, SchedulerStep, WorkerStep, Workers, Requests

-----------------------------------------------------------------------------
(* Theorems.                                                               *)

THEOREM Invariance == Spec => []IInv
<1>1. IInv /\ [Next]_vars => IInv'
  BY TypeStep, RowStep DEF IInv
<1> QED BY InitInv, <1>1, PTL DEF Spec

\* Every variable keeps its type, for any tasks, workers and bounds.
THEOREM TypeCorrect == Spec => []TypeOK
<1>1. IInv => TypeOK
  BY DEF IInv, TypeInv
<1> QED BY Invariance, <1>1, PTL

\* The end of the retries is announced exactly once for a task no worker of
\* which was cut short, for any number of tasks, hooks and users
\* (service_rename_retry.go:130-138).
THEOREM ExhaustedOnce == Spec => []AnnouncedOnce
<1>1. IInv => AnnouncedOnce
  BY DEF IInv, RowInv
<1> QED BY Invariance, <1>1, PTL

\* Only a pass that listed a row before a user's rename settled it can take the
\* row up again (store/rename_retry.go:57, 88).
THEOREM SettledForGood == Spec => SettledStays
<1> DEFINE A == \A t \in Tasks \ crossed : retry[t].status \in {"succeeded", "abandoned"}
                     => retry'[t].status = retry[t].status
<1>1. IInv /\ [Next]_vars => [A]_vars
  <2> SUFFICES ASSUME IInv, [Next]_vars, NEW t \in Tasks \ crossed,
                      retry[t].status \in {"succeeded", "abandoned"}
               PROVE  retry'[t].status = retry[t].status
    OBVIOUS
  <2>0. /\ retry \in [Tasks -> RetryRow] /\ job \in [Workers -> Job]
        /\ \A w \in Workers : WellFormed(job[w])
    BY DEF IInv, TypeInv, TypeOK
  <2>1. ~InPass(t)
    BY DEF IInv, RowInv, PassRows
  <2>2. CASE SettleRow
    <3>1. job[Scheduler].cur # t
      BY <2>1, <2>2 DEF SettleRow, InPass, Holds
    <3> QED BY <2>0, <2>2, <3>1 DEF SettleRow
  <2>3. CASE \E w \in Workers : Enqueue(w)
    BY <2>0, <2>3 DEF Enqueue, Insert
  <2>4. CASE \E c \in Clicks : MarkSucceeded(c)
    BY <2>0, <2>4 DEF MarkSucceeded
  <2>5. CASE \E u \in Tasks : ComesDue(u)
    BY <2>0, <2>5 DEF ComesDue, RetryRow
  <2>6. CASE retry' = retry
    BY <2>6
  <2> QED BY <2>2, <2>3, <2>4, <2>5, <2>6
    DEF Next, SchedulerStep, WorkerStep, vars, dbVars, Poll, EndPoll, ListDue, EndPass,
      StillRunning, SeenByPoll, ForgottenByAria2, SkipRow, RowUnfinished, RowTaken, SkipRename,
      Rename, RenameFails, Complete, CompleteFails, Attempt, AttemptFails, Save, HookCall, Click,
      DeleteTask, Die
<1> QED BY Invariance, <1>1, PTL DEF Spec, SettledStays

\* Rows, workers and files agree, whatever has gone wrong elsewhere.
THEOREM Files == Spec => []PathInv
<1>1. PathInv /\ IInv /\ IInv' /\ [Next]_vars => PathInv'
  BY PathStep
<1> QED BY PathInit, Invariance, <1>1, PTL DEF Spec

\* A completed task whose path was recorded and whose file still has the name
\* aria2 gave it is retried, or all its retries have failed, for any number of
\* tasks, hooks, users and faults elsewhere (rename.go:34-41).
THEOREM NoFileLeftBehind == Spec => []EveryRawIsRetried
<1>1. PathInv => EveryRawIsRetried
  BY DEF PathInv, FileInv, Kept, Good, RawHere, GivenUp, EveryRawIsRetried
<1> QED BY Files, <1>1, PTL

\* Where nothing was cut short and no two workers held one task at once, the
\* table says where the file of every completed task is (download_sync.go:114).
THEOREM PathFollowsFile == Spec => []FinalPathValid
<1>1. PathInv => FinalPathValid
  BY DEF PathInv, CalmInv, OwnFile, HeldAt, Busy, FinalPathValid
<1> QED BY Files, <1>1, PTL

\* There a worker moves the file of its own task only (locate.go:16).
THEOREM MovesOwnFile == Spec => OwnFileOnly
<1> DEFINE A == NoMishap => \A t \in Tasks, w \in Workers : MovesFile(w, t) => job[w].cur = t
<1>1. IInv /\ PathInv /\ [Next]_vars => [A]_vars
  <2> SUFFICES ASSUME IInv, PathInv, Next, NoMishap, NEW t \in Tasks, NEW w \in Workers,
                      MovesFile(w, t)
               PROVE  job[w].cur = t
    BY DEF vars
  <2>0. job \in [Workers -> Job] /\ file \in [Tasks -> Paths]
    BY Basics
  <2>1. PICK v \in Workers : Rename(v) \/ Attempt(v)
    BY DEF MovesFile, Next, SchedulerStep, WorkerStep, Poll, EndPoll, ListDue, EndPass,
      StillRunning, SeenByPoll, ForgottenByAria2, SkipRow, RowUnfinished, RowTaken, SettleRow,
      SkipRename, RenameFails, Enqueue, Complete, CompleteFails, AttemptFails, Save, HookCall,
      Click, MarkSucceeded, ComesDue, DeleteTask, Die
  <2>2. v = w
    <3>1. CASE Rename(v)
      BY <2>0, <3>1 DEF MovesFile, Rename
    <3>2. CASE Attempt(v)
      BY <2>0, <3>2 DEF MovesFile, Attempt
    <3> QED BY <2>1, <3>1, <3>2
  <2>3. file[t] = job[w].path
    <3>1. CASE Rename(w)
      BY <2>0, <3>1 DEF MovesFile, Rename, Move
    <3>2. CASE Attempt(w)
      BY <2>0, <3>2 DEF MovesFile, Attempt, Move
    <3> QED BY <2>1, <2>2, <3>1, <3>2
  <2>4. PICK u \in Tasks : u = job[w].cur
    BY Basics DEF MovesFile, WellFormed
  <2>5. Good(u) /\ \A x \in Tasks : file[x] \in {Raw(x), Named(x)}
    BY DEF PathInv, CalmInv, OwnFile, Good, NoMishap
  <2>6. CASE job[w].at = "rename"
    BY <2>3, <2>4, <2>5, <2>6 DEF PathInv, FileInv, Told, RawOnly
  <2>7. CASE job[w].at = "attempt"
    <3>1. job[w].path = file[u]
      BY <2>4, <2>7 DEF PathInv, CalmInv, OwnPath
    <3> QED BY <2>3, <2>4, <2>5, <3>1 DEF Raw, Named
  <2> QED BY <2>6, <2>7 DEF MovesFile
<1> QED BY Invariance, Files, <1>1, PTL DEF Spec, OwnFileOnly

=============================================================================
