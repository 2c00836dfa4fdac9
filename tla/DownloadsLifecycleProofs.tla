---------------------- MODULE DownloadsLifecycleProofs ----------------------
(***************************************************************************)
(* While the scheduler is the only worker, Downloads implements            *)
(* DownloadLifecycle: an item is triggered while it waits, has one open    *)
(* download, and its end is recorded and announced once, for any number of *)
(* items, rows and gids, whatever fails or is killed.  Whoever else is at  *)
(* work, it implements DownloadLedger.                                     *)
(***************************************************************************)
EXTENDS DownloadsLedger, DownloadsProofs

\* No request, hook or user: the scheduler submits and polls, one after the
\* other, and is the only worker.
SchedulerAlone ==
  /\ QueuePasses = {Scheduler} /\ SyncPasses = {Scheduler}
  /\ ItemSubmits = {} /\ Hooks = {} /\ Editors = {}

Triggerable == {i \in Items : item[i] \in {"pending", "preview", "failed"}}

\* An open row is the one open row of its item, which says so, and its end has
\* not been announced; neither has that of a row that is not in use.
OpenRows ==
  \A t \in Submitted :
    /\ task[t].item \in Items /\ item[task[t].item] = "submitted"
    /\ notified[t] = 0
OneOpenRow ==
  \A t, u \in Submitted : task[t].item = task[u].item => t = u
SpareRows == \A t \in Tasks : lastTask < t => notified[t] = 0

\* With nobody else at work, what the scheduler has read stays true until it
\* acts on it.
StillTrue(j) ==
  /\ j.at \in {"next", "adduri", "record"} => j.todo \subseteq Triggerable
  /\ j.at \in {"adduri", "record"} => item[j.cur] = "submitting"
  /\ j.at \in {"scan", "finish", "notify"} => j.todo \subseteq Submitted
  /\ j.at = "finish" => j.cur \in Submitted /\ j.cur \notin j.todo
  /\ j.at = "notify" =>
       task[j.cur].status \in {"completed", "failed"} /\ notified[j.cur] = 0

AloneInv ==
  /\ OpenRows /\ SpareRows /\ OneOpenRow /\ NotifiedOnce
  /\ StillTrue(job[Scheduler])

Inv == TypeInv /\ GidInv /\ AloneInv

-----------------------------------------------------------------------------
(* What a step of the scheduler has to show.                               *)

LEMMA AloneWorkers ==
  ASSUME SchedulerAlone
  PROVE  Workers = {Scheduler} /\ Requests = {} /\ Scheduler \in Workers
BY DEF SchedulerAlone, Workers, Requests

\* Steps that leave statuses and announcements alone.
TablesStay ==
  /\ UNCHANGED <<item, lastTask, notified>>
  /\ \A t \in Tasks : task'[t].item = task[t].item /\ task'[t].status = task[t].status

LEMMA SameTables ==
  ASSUME TablesStay
  PROVE  Submitted' = Submitted /\ Triggerable' = Triggerable
BY DEF TablesStay, Submitted, Triggerable

\* What a step does to the lifecycle, and that it triggers what is waiting.
Implements == [Lifecycle!Next]_(Lifecycle!vars)
Untriggered ==
  job[Scheduler].at = "next" /\ job'[Scheduler].at = "adduri"
    => item[job'[Scheduler].cur] \in {"pending", "preview", "failed"}
Good == AloneInv' /\ Implements /\ Untriggered

\* A step the lifecycle does not see: the scheduler moves on to record j.
LEMMA QuietStep ==
  ASSUME TypeInv, AloneInv, TablesStay, NEW j, WellFormed(j), StillTrue(j),
         job'[Scheduler] = j, j.at # "adduri" \/ j = job[Scheduler]
  PROVE  Good
<1>1. Submitted' = Submitted /\ Triggerable' = Triggerable
  BY SameTables
<1>2. StillTrue(job[Scheduler])'
  <2>1. /\ j.at \in {"next", "adduri", "record"} => j.todo \subseteq Triggerable'
        /\ j.at \in {"adduri", "record"} => item'[j.cur] = "submitting"
        /\ j.at \in {"scan", "finish", "notify"} => j.todo \subseteq Submitted'
        /\ j.at = "finish" => j.cur \in Submitted' /\ j.cur \notin j.todo
    BY <1>1 DEF StillTrue, TablesStay
  <2>2. j.at = "notify" => task'[j.cur].status \in {"completed", "failed"} /\ notified'[j.cur] = 0
    BY DEF StillTrue, TablesStay, WellFormed
  <2> QED
    BY <2>1, <2>2 DEF StillTrue
<1>3. OpenRows'
  <2>1. \A t \in Submitted : t \in Tasks
    BY DEF Submitted
  <2> QED
    BY <1>1, <2>1 DEF AloneInv, OpenRows, TablesStay
<1>4. SpareRows' /\ NotifiedOnce'
  BY DEF AloneInv, SpareRows, NotifiedOnce, TablesStay
<1>5. OneOpenRow'
  <2>1. \A t \in Submitted : t \in Tasks
    BY DEF Submitted
  <2> QED
    BY <1>1, <2>1 DEF AloneInv, OneOpenRow, TablesStay
<1>6. UNCHANGED Lifecycle!vars
  <2>1. \A t \in Tasks : AttemptOf(t)' = AttemptOf(t)
    BY DEF TablesStay, AttemptOf
  <2> QED
    BY <2>1 DEF Lifecycle!vars, StageOf, AttemptRows, TablesStay
<1>7. Untriggered
  BY DEF Untriggered
<1> QED
  BY <1>2, <1>3, <1>4, <1>5, <1>6, <1>7 DEF AloneInv, Good, Implements

\* How the lifecycle sees a new status of one item, and a new record of one row.
LEMMA StageMoves ==
  ASSUME TypeInv, NEW i \in Items, NEW s, item' = [item EXCEPT ![i] = s]
  PROVE  StageOf' = [StageOf EXCEPT ![i] = Stage(s)]
BY DEF StageOf, TypeInv, TypeOK

LEMMA AttemptMoves ==
  ASSUME NEW t \in Tasks, NEW a,
         \A u \in Tasks \ {t} : task'[u] = task[u] /\ notified'[u] = notified[u],
         a = [item  |-> task'[t].item,
              state |-> IF task'[t].status = "submitted" THEN "open" ELSE task'[t].status,
              told  |-> notified'[t]]
  PROVE  AttemptRows' = [AttemptRows EXCEPT ![t] = a]
<1>1. \A u \in Tasks : AttemptRows'[u] = IF u = t THEN a ELSE AttemptRows[u]
  BY DEF AttemptRows, AttemptOf
<1> QED
  BY <1>1 DEF AttemptRows

LEMMA OpenAttempts ==
  ASSUME TypeInv, NEW i
  PROVE  Lifecycle!Open(i) = {t \in Submitted : task[t].item = i}
<1>1. \A t \in Tasks : task[t].status # "open"
  BY DEF TypeInv, TypeOK, TaskRow, TaskStatus
<1>2. \A t \in Tasks : /\ AttemptRows[t].item = task[t].item
                       /\ AttemptRows[t].state = "open" <=> task[t].status = "submitted"
  BY <1>1 DEF AttemptRows, AttemptOf
<1> QED
  BY <1>2 DEF Lifecycle!Open, Submitted

\* An item that is not "submitted" has no open row.
LEMMA NoneOpen ==
  ASSUME TypeInv, AloneInv, NEW i \in Items, item[i] # "submitted"
  PROVE  Lifecycle!Open(i) = {} /\ \A t \in Submitted : task[t].item # i
BY OpenAttempts DEF AloneInv, OpenRows

-----------------------------------------------------------------------------
(* The steps the lifecycle sees.                                           *)

LEMMA SaveKeeps ==
  ASSUME TypeInv, AloneInv, NEW i \in Items, NEW previewOnly, SaveFeedItem(i, previewOnly)
  PROVE  Good
<1> DEFINE s == IF i \in NoUrlItems THEN "skipped" ELSE IF previewOnly THEN "preview" ELSE "pending"
<1>1. s \in {"skipped", "preview", "pending"} /\ item' = [item EXCEPT ![i] = s]
  BY DEF SaveFeedItem
<1> HIDE DEF s
<1>2. item[i] = "absent" /\ UNCHANGED <<task, lastTask, job, notified>>
  BY DEF SaveFeedItem
<1>3. \A k \in Items : item[k] # "absent" => item'[k] = item[k]
  BY <1>1, <1>2 DEF TypeInv, TypeOK
<1>4. OpenRows' /\ SpareRows' /\ OneOpenRow' /\ NotifiedOnce'
  BY <1>2, <1>3 DEF AloneInv, OpenRows, SpareRows, OneOpenRow, NotifiedOnce, Submitted
<1>5. StillTrue(job[Scheduler])'
  <2>1. Triggerable \subseteq Triggerable'
    BY <1>3 DEF Triggerable
  <2>2. job[Scheduler].at \in {"adduri", "record"} => job[Scheduler].cur \in Items
    BY DEF TypeInv, WellFormed, Workers
  <2> QED
    BY <1>2, <1>3, <2>1, <2>2 DEF AloneInv, StillTrue, Submitted
<1>6. Lifecycle!Discover(i, Stage(s))
  <2>1. StageOf' = [StageOf EXCEPT ![i] = Stage(s)]
    BY <1>1, StageMoves
  <2>2. StageOf[i] = "absent" /\ Stage(s) \in {"skipped", "waiting"}
    BY <1>1, <1>2 DEF StageOf, Stage
  <2>3. UNCHANGED AttemptRows
    BY <1>2 DEF AttemptRows, AttemptOf
  <2> QED
    BY <2>1, <2>2, <2>3 DEF Lifecycle!Discover
<1>7. Lifecycle!Next
  <2>1. Stage(s) \in Lifecycle!Stages
    BY <1>1 DEF Stage, Lifecycle!Stages
  <2> QED
    BY <1>6, <2>1 DEF Lifecycle!Next
<1>8. Untriggered
  BY <1>2 DEF Untriggered
<1> QED
  BY <1>4, <1>5, <1>7, <1>8 DEF AloneInv, Good, Implements

LEMMA MarkKeeps ==
  ASSUME TypeInv, AloneInv, NEW i \in Items, MarkNext(Scheduler, i)
  PROVE  Good
<1>1. job[Scheduler] \in Job /\ Scheduler \in Workers
  BY DEF TypeInv, WellFormed, Workers
<1> DEFINE old == job[Scheduler]  new == job'[Scheduler]
<1>2. /\ old.at = "next" /\ i \in old.todo
      /\ new.at = "adduri" /\ new.cur = i /\ new.todo = old.todo \ {i}
  BY <1>1 DEF MarkNext, IsNext, TypeInv, TypeOK, Job
<1>3. item' = [item EXCEPT ![i] = "submitting"] /\ UNCHANGED <<task, lastTask, notified>>
  BY DEF MarkNext
<1> HIDE DEF old, new
<1>4. old.todo \subseteq Triggerable
  BY <1>2 DEF AloneInv, StillTrue, old
<1>5. item[i] \in {"pending", "preview", "failed"}
  BY <1>2, <1>4 DEF Triggerable
<1>6. item'[i] = "submitting" /\ \A k \in Items \ {i} : item'[k] = item[k]
  BY <1>3 DEF TypeInv, TypeOK
<1>7. Submitted' = Submitted /\ \A t \in Submitted : task[t].item # i
  BY <1>3, <1>5, NoneOpen DEF Submitted
<1>8. OpenRows' /\ SpareRows' /\ OneOpenRow' /\ NotifiedOnce'
  BY <1>3, <1>6, <1>7 DEF AloneInv, OpenRows, SpareRows, OneOpenRow, NotifiedOnce
<1>9. StillTrue(job[Scheduler])'
  <2>1. new.todo \subseteq Triggerable'
    BY <1>2, <1>4, <1>6 DEF Triggerable
  <2> QED
    BY <1>2, <1>6, <2>1 DEF StillTrue, new
<1>10. Lifecycle!Trigger(i)
  <2>1. StageOf' = [StageOf EXCEPT ![i] = "submitting"]
    BY <1>3, StageMoves DEF Stage
  <2>2. StageOf[i] \in {"waiting", "failed"}
    BY <1>5 DEF StageOf, Stage
  <2>3. UNCHANGED AttemptRows
    BY <1>3 DEF AttemptRows, AttemptOf
  <2> QED
    BY <1>5, <2>1, <2>2, <2>3, NoneOpen DEF Lifecycle!Trigger
<1>11. Untriggered
  BY <1>2, <1>5 DEF Untriggered, old, new
<1> QED
  BY <1>8, <1>9, <1>10, <1>11 DEF AloneInv, Good, Implements, Lifecycle!Next

LEMMA RecordKeeps ==
  ASSUME SchedulerAlone, TypeInv, Rows, AloneInv, RecordSubmitted(Scheduler)
  PROVE  Good
<1>1. job[Scheduler] \in Job /\ Scheduler \in Workers /\ lastTask \in Nat
  BY DEF TypeInv, TypeOK, WellFormed, Workers
<1> DEFINE old == job[Scheduler]  new == job'[Scheduler]  i == old.cur  t == lastTask + 1
<1>2. old.at = "record" /\ new.at = "next" /\ new.todo = old.todo /\ i \in Items
  BY <1>1 DEF RecordSubmitted, Back, Resume, SchedulerAlone, TypeInv, TypeOK, WellFormed, Job
<1>3. t \in Tasks /\ t > lastTask /\ lastTask' = t /\ notified' = notified
  BY <1>1, IdsAssumption DEF RecordSubmitted, Tasks
<1>4. /\ task' = [task EXCEPT ![t] = [item |-> i, gid |-> old.gid, status |-> "submitted"]]
      /\ item' = [item EXCEPT ![i] = "submitted"]
  BY DEF RecordSubmitted
<1>5. task[t] = FreeRow /\ notified[t] = 0
  BY <1>1, <1>3 DEF Rows, AloneInv, SpareRows, Tasks
<1> HIDE DEF old, new, i, t
<1>6. old.todo \subseteq Triggerable /\ item[i] = "submitting"
  BY <1>2 DEF AloneInv, StillTrue, old, i
<1>7. item'[i] = "submitted" /\ \A k \in Items \ {i} : item'[k] = item[k]
  BY <1>2, <1>4 DEF TypeInv, TypeOK
<1>8. /\ task'[t].item = i /\ task'[t].status = "submitted"
      /\ \A u \in Tasks \ {t} : task'[u] = task[u]
  BY <1>3, <1>4 DEF TypeInv, TypeOK
<1>9. \A u \in Submitted : u \in Tasks /\ u # t /\ task[u].item # i
  BY <1>2, <1>5, <1>6, NoneOpen DEF Submitted, FreeRow
<1>10. Submitted' = Submitted \cup {t}
  BY <1>3, <1>8, <1>9 DEF Submitted
<1>11. OpenRows'
  BY <1>2, <1>3, <1>5, <1>7, <1>8, <1>9, <1>10 DEF AloneInv, OpenRows
<1>12. OneOpenRow'
  BY <1>8, <1>9, <1>10 DEF AloneInv, OneOpenRow
<1>13. SpareRows' /\ NotifiedOnce'
  BY <1>1, <1>3 DEF AloneInv, SpareRows, NotifiedOnce, Tasks
<1>14. StillTrue(job[Scheduler])'
  <2>1. new.todo \subseteq Triggerable'
    BY <1>2, <1>6, <1>7 DEF Triggerable
  <2> QED
    BY <1>2, <2>1 DEF StillTrue, new
<1>15. Lifecycle!Accept(i, t)
  <2>1. StageOf' = [StageOf EXCEPT ![i] = "open"]
    BY <1>2, <1>4, StageMoves DEF Stage
  <2>2. StageOf[i] = "submitting"
    BY <1>2, <1>6 DEF StageOf, Stage
  <2>3. AttemptRows[t] = Lifecycle!Unused
    BY <1>3, <1>5 DEF AttemptRows, AttemptOf, FreeRow, Lifecycle!Unused
  <2> DEFINE a == [item |-> i, state |-> "open", told |-> 0]
  <2>4. AttemptRows' = [AttemptRows EXCEPT ![t] = a]
    <3>1. task'[t].item = i /\ task'[t].status = "submitted" /\ notified'[t] = 0
      BY <1>3, <1>5, <1>8
    <3>2. a = [item  |-> task'[t].item,
               state |-> IF task'[t].status = "submitted" THEN "open" ELSE task'[t].status,
               told  |-> notified'[t]]
      BY <3>1
    <3>3. \A u \in Tasks \ {t} : task'[u] = task[u] /\ notified'[u] = notified[u]
      BY <1>3, <1>8
    <3> HIDE DEF a
    <3> QED
      BY <1>3, <3>2, <3>3, AttemptMoves
  <2>5. Lifecycle!Open(i) = {}
    BY <1>2, <1>6, NoneOpen
  <2> QED
    BY <2>1, <2>2, <2>3, <2>4, <2>5 DEF Lifecycle!Accept
<1>16. Untriggered
  BY <1>2 DEF Untriggered, old
<1> QED
  BY <1>2, <1>3, <1>11, <1>12, <1>13, <1>14, <1>15, <1>16
     DEF AloneInv, Good, Implements, Lifecycle!Next

LEMMA RefusalKeeps ==
  ASSUME SchedulerAlone, TypeInv, AloneInv, RecordFailed(Scheduler)
  PROVE  Good
<1>1. job[Scheduler] \in Job /\ Scheduler \in Workers
  BY DEF TypeInv, WellFormed, Workers
<1> DEFINE old == job[Scheduler]  new == job'[Scheduler]  i == old.cur
<1>2. old.at = "record" /\ new.at = "next" /\ new.todo = old.todo /\ i \in Items
  BY <1>1 DEF RecordFailed, Back, Resume, SchedulerAlone, TypeInv, TypeOK, WellFormed, Job
<1>3. item' = [item EXCEPT ![i] = "failed"] /\ UNCHANGED <<task, lastTask, notified>>
  BY DEF RecordFailed
<1> HIDE DEF old, new, i
<1>4. old.todo \subseteq Triggerable /\ item[i] = "submitting"
  BY <1>2 DEF AloneInv, StillTrue, old, i
<1>5. item'[i] = "failed" /\ \A k \in Items \ {i} : item'[k] = item[k]
  BY <1>2, <1>3 DEF TypeInv, TypeOK
<1>6. Submitted' = Submitted /\ \A t \in Submitted : task[t].item # i
  BY <1>2, <1>3, <1>4, NoneOpen DEF Submitted
<1>7. OpenRows' /\ SpareRows' /\ OneOpenRow' /\ NotifiedOnce'
  BY <1>3, <1>5, <1>6 DEF AloneInv, OpenRows, SpareRows, OneOpenRow, NotifiedOnce
<1>8. StillTrue(job[Scheduler])'
  <2>1. new.todo \subseteq Triggerable'
    BY <1>2, <1>4, <1>5 DEF Triggerable
  <2> QED
    BY <1>2, <2>1 DEF StillTrue, new
<1>9. Lifecycle!Refuse(i)
  <2>1. StageOf' = [StageOf EXCEPT ![i] = "failed"]
    BY <1>2, <1>3, StageMoves DEF Stage
  <2>2. StageOf[i] = "submitting"
    BY <1>2, <1>4 DEF StageOf, Stage
  <2>3. UNCHANGED AttemptRows
    BY <1>3 DEF AttemptRows, AttemptOf
  <2> QED
    BY <2>1, <2>2, <2>3 DEF Lifecycle!Refuse
<1>10. Untriggered
  BY <1>2 DEF Untriggered, old
<1> QED
  BY <1>2, <1>7, <1>8, <1>9, <1>10 DEF AloneInv, Good, Implements, Lifecycle!Next

LEMMA FinishKeeps ==
  ASSUME TypeInv, AloneInv, Finish(Scheduler)
  PROVE  Good
<1>1. job[Scheduler] \in Job /\ Scheduler \in Workers
  BY DEF TypeInv, WellFormed, Workers
<1> DEFINE old == job[Scheduler]  new == job'[Scheduler]  t == old.cur  i == task[t].item
           end == IF old.says = "error" THEN "failed" ELSE "completed"
<1>2. old.at = "finish" /\ new = [old EXCEPT !.at = "notify"]
  BY <1>1 DEF Finish, TypeInv, TypeOK
<1>3. /\ task' = [task EXCEPT ![t].status = end]
      /\ item' = [item EXCEPT ![i] = end]
      /\ UNCHANGED <<lastTask, notified>>
  BY DEF Finish
<1>4. end \in {"failed", "completed"}
  OBVIOUS
<1>5. new.at = "notify" /\ new.cur = t /\ new.todo = old.todo
  BY <1>1, <1>2 DEF Job
<1>6. t \in Submitted /\ t \notin old.todo /\ old.todo \subseteq Submitted
  BY <1>2 DEF AloneInv, StillTrue
<1> HIDE DEF old, new, t, end
<1>7. /\ t \in Tasks /\ task[t].status = "submitted" /\ notified[t] = 0
      /\ i \in Items /\ item[i] = "submitted"
  BY <1>6 DEF AloneInv, OpenRows, Submitted
<1>8. /\ task'[t] = [task[t] EXCEPT !.status = end]
      /\ \A u \in Tasks \ {t} : task'[u] = task[u]
  BY <1>3, <1>7 DEF TypeInv, TypeOK
<1>9. task'[t].item = i /\ task'[t].status = end
  BY <1>7, <1>8 DEF TypeInv, TypeOK, TaskRow
<1> HIDE DEF i
<1>10. item'[i] = end /\ \A k \in Items \ {i} : item'[k] = item[k]
  BY <1>3, <1>7 DEF TypeInv, TypeOK
<1>11. Submitted' = Submitted \ {t}
  BY <1>4, <1>7, <1>8, <1>9 DEF Submitted
<1>12. \A u \in Submitted' : /\ u \in Submitted /\ u \in Tasks /\ u # t
                             /\ task'[u] = task[u] /\ task[u].item # i
  BY <1>6, <1>8, <1>11 DEF AloneInv, OneOpenRow, Submitted, i
<1>13. OpenRows' /\ OneOpenRow'
  BY <1>3, <1>10, <1>12 DEF AloneInv, OpenRows, OneOpenRow
<1>14. SpareRows' /\ NotifiedOnce'
  BY <1>3 DEF AloneInv, SpareRows, NotifiedOnce
<1>15. StillTrue(job[Scheduler])'
  <2>1. new.todo \subseteq Submitted'
    BY <1>5, <1>6, <1>11
  <2>2. task'[new.cur].status \in {"completed", "failed"} /\ notified'[new.cur] = 0
    BY <1>3, <1>4, <1>5, <1>7, <1>9
  <2> QED
    BY <1>5, <2>1, <2>2 DEF StillTrue, new
<1>16. Lifecycle!End(t, end)
  <2>1. StageOf' = [StageOf EXCEPT ![i] = end]
    <3>1. Stage(end) = end
      BY <1>4 DEF Stage
    <3> QED
      BY <1>3, <1>7, <3>1, StageMoves
  <2>2. /\ AttemptRows[t] = [item |-> i, state |-> "open", told |-> 0]
        /\ StageOf[i] = "open"
    BY <1>7 DEF AttemptRows, AttemptOf, StageOf, Stage, i
  <2> DEFINE a == [item |-> i, state |-> end, told |-> 0]
  <2>3. AttemptRows' = [AttemptRows EXCEPT ![t] = a]
    <3>1. task'[t].item = i /\ task'[t].status = end /\ task'[t].status # "submitted" /\ notified'[t] = 0
      BY <1>3, <1>4, <1>7, <1>9
    <3>2. a = [item  |-> task'[t].item,
               state |-> IF task'[t].status = "submitted" THEN "open" ELSE task'[t].status,
               told  |-> notified'[t]]
      BY <3>1
    <3>3. \A u \in Tasks \ {t} : task'[u] = task[u] /\ notified'[u] = notified[u]
      BY <1>3, <1>8
    <3> HIDE DEF a
    <3> QED
      BY <1>7, <3>2, <3>3, AttemptMoves
  <2>4. a = [AttemptRows[t] EXCEPT !.state = end]
    BY <2>2
  <2> HIDE DEF a
  <2>5. AttemptRows' = [AttemptRows EXCEPT ![t].state = end]
    BY <2>3, <2>4
  <2>6. AttemptRows[t].item = i /\ AttemptRows[t].state = "open"
    BY <2>2
  <2> QED
    BY <1>4, <2>1, <2>2, <2>5, <2>6 DEF Lifecycle!End
<1>17. Lifecycle!Next
  BY <1>4, <1>7, <1>16 DEF Lifecycle!Next, Lifecycle!Stages
<1>18. Untriggered
  BY <1>2 DEF Untriggered, old
<1> QED
  BY <1>13, <1>14, <1>15, <1>17, <1>18 DEF AloneInv, Good, Implements

LEMMA NotifyKeeps ==
  ASSUME SchedulerAlone, TypeInv, Rows, AloneInv, Notify(Scheduler)
  PROVE  Good
<1>1. job[Scheduler] \in Job /\ Scheduler \in Workers
  BY DEF TypeInv, WellFormed, Workers
<1> DEFINE old == job[Scheduler]  new == job'[Scheduler]  t == old.cur
<1>2. old.at = "notify" /\ new.at = "scan" /\ new.todo = old.todo /\ t \in Tasks
  BY <1>1 DEF Notify, Back, AfterFinish, SchedulerAlone, TypeInv, TypeOK, WellFormed, Job
<1>3. notified' = [notified EXCEPT ![t] = @ + 1] /\ UNCHANGED <<item, task, lastTask>>
  BY DEF Notify, dbVars
<1>4. /\ old.todo \subseteq Submitted
      /\ task[t].status \in {"completed", "failed"} /\ notified[t] = 0
  BY <1>2 DEF AloneInv, StillTrue
<1> HIDE DEF old, new, t
<1>5. notified'[t] = 1 /\ \A u \in Tasks \ {t} : notified'[u] = notified[u]
  BY <1>2, <1>3, <1>4 DEF TypeInv, TypeOK
<1>6. Submitted' = Submitted /\ \A u \in Submitted : u \in Tasks /\ u # t
  BY <1>3, <1>4 DEF Submitted
<1>7. OpenRows' /\ OneOpenRow'
  BY <1>3, <1>5, <1>6 DEF AloneInv, OpenRows, OneOpenRow
<1>8. SpareRows' /\ NotifiedOnce'
  <2>1. ~(lastTask < t)
    <3>1. task[t] # FreeRow
      BY <1>4 DEF FreeRow
    <3> QED
      BY <1>2, <3>1 DEF Rows, TypeInv, TypeOK, Tasks
  <2> QED
    BY <1>2, <1>3, <1>5, <2>1 DEF AloneInv, SpareRows, NotifiedOnce
<1>9. StillTrue(job[Scheduler])'
  BY <1>2, <1>4, <1>6 DEF StillTrue, new
<1>10. Lifecycle!Announce(t)
  <2>1. UNCHANGED StageOf
    BY <1>3 DEF StageOf
  <2>2. AttemptRows[t] = [item |-> task[t].item, state |-> task[t].status, told |-> 0]
    BY <1>2, <1>4 DEF AttemptRows, AttemptOf
  <2> DEFINE a == [item |-> task[t].item, state |-> task[t].status, told |-> 1]
  <2>3. AttemptRows' = [AttemptRows EXCEPT ![t] = a]
    BY <1>2, <1>3, <1>4, <1>5, AttemptMoves
  <2>4. a = [AttemptRows[t] EXCEPT !.told = 1]
    BY <2>2
  <2> HIDE DEF a
  <2>5. AttemptRows' = [AttemptRows EXCEPT ![t].told = 1]
    BY <2>3, <2>4
  <2>6. AttemptRows[t].state = task[t].status /\ AttemptRows[t].told = 0
    BY <2>2
  <2> QED
    BY <1>4, <2>1, <2>5, <2>6 DEF Lifecycle!Announce
<1>11. Untriggered
  BY <1>2 DEF Untriggered, old
<1> QED
  BY <1>2, <1>7, <1>8, <1>9, <1>10, <1>11 DEF AloneInv, Good, Implements, Lifecycle!Next

-----------------------------------------------------------------------------
(* Every step.                                                             *)

\* Statements that write no status at all.
LEMMA Reads ==
  ASSUME UNCHANGED <<dbVars, notified>>
  PROVE  TablesStay
BY DEF TablesStay, dbVars

LEMMA ListsAreShort == \A S, n : FirstByID(S, n) \subseteq S
BY DEF FirstByID

LEMMA RestIsTrue == StillTrue(Rest) /\ StillTrue([Rest EXCEPT !.at = "list"])
BY DEF StillTrue, Rest

\* The scheduler goes on with its snapshot, or takes the next id from it.
LEMMA BackIsTrue ==
  ASSUME TypeInv, AloneInv,
         NEW p, \/ p = "next" /\ job[Scheduler].at = "record"
                \/ p = "scan" /\ job[Scheduler].at = "finish"
  PROVE  StillTrue(Back(Scheduler, p)) /\ Back(Scheduler, p).at = p
<1> DEFINE j == Back(Scheduler, p)
<1>1. j.at = p /\ j.todo = job[Scheduler].todo
  BY DEF TypeInv, WellFormed, Workers, Job, Back
<1> HIDE DEF j
<1>2. StillTrue(j)
  BY <1>1 DEF AloneInv, StillTrue
<1> QED
  BY <1>1, <1>2 DEF j

LEMMA TakenIsTrue ==
  ASSUME TypeInv, AloneInv, NEW t \in Tasks, job[Scheduler].at = "scan", t \in job[Scheduler].todo
  PROVE  /\ StillTrue(Taken(Scheduler, t)) /\ Taken(Scheduler, t).at = "scan"
         /\ \A s : LET j == [Taken(Scheduler, t) EXCEPT !.at = "finish", !.cur = t, !.says = s]
                   IN  StillTrue(j) /\ j.at = "finish"
<1> DEFINE j == Taken(Scheduler, t)
<1>1. j \in Job /\ j.at = "scan" /\ j.todo = job[Scheduler].todo \ {t}
  BY DEF TypeInv, WellFormed, Workers, Job, Taken
<1> HIDE DEF j
<1>2. StillTrue(j)
  BY <1>1 DEF AloneInv, StillTrue
<1>3. ASSUME NEW s
      PROVE  StillTrue([j EXCEPT !.at = "finish", !.cur = t, !.says = s])
             /\ [j EXCEPT !.at = "finish", !.cur = t, !.says = s].at = "finish"
  <2> DEFINE k == [j EXCEPT !.at = "finish", !.cur = t, !.says = s]
  <2>1. k.at = "finish" /\ k.cur = t /\ k.todo = j.todo
    BY <1>1 DEF Job
  <2> HIDE DEF k
  <2>2. StillTrue(k)
    BY <1>1, <2>1 DEF AloneInv, StillTrue
  <2> QED
    BY <2>1, <2>2 DEF k
<1> QED
  BY <1>1, <1>2, <1>3 DEF j

\* While a call to aria2 is made, the snapshot and the item are kept.
LEMMA CallIsTrue ==
  ASSUME TypeInv, AloneInv, job[Scheduler].at = "adduri",
         NEW j, j.at = "record", j.todo = job[Scheduler].todo, j.cur = job[Scheduler].cur
  PROVE  StillTrue(j)
BY DEF AloneInv, StillTrue

\* The step of a scheduler whose statement changed no status.
LEMMA MovesOn ==
  ASSUME TypeInv, TypeInv', AloneInv, TablesStay, NEW j, job' = [job EXCEPT ![Scheduler] = j],
         StillTrue(j), j.at # "adduri"
  PROVE  Good
<1>1. job'[Scheduler] = j
  BY DEF TypeInv, TypeOK, Workers
<1>2. WellFormed(job[Scheduler])'
  BY DEF TypeInv, Workers
<1>3. WellFormed(j)
  BY <1>1, <1>2 DEF WellFormed
<1> QED
  BY <1>1, <1>3, QuietStep

\* Steps of aria2.
LEMMA StandsBy ==
  ASSUME TypeInv, AloneInv, TablesStay, UNCHANGED job
  PROVE  Good
<1>1. WellFormed(job[Scheduler]) /\ StillTrue(job[Scheduler])
  BY DEF TypeInv, AloneInv, Workers
<1> QED
  BY <1>1, QuietStep

LEMMA AloneStep ==
  ASSUME SchedulerAlone, TypeInv, TypeInv', Rows, AloneInv, [Next]_vars
  PROVE  Good
<1> DEFINE s == Scheduler
<1> USE DEF SchedulerAlone
<1>1. ASSUME NEW i \in Items, NEW previewOnly \in BOOLEAN, SaveFeedItem(i, previewOnly) PROVE Good
  BY <1>1, SaveKeeps
<1>2. CASE ListPending(s)
  <2> DEFINE j == [job[s] EXCEPT !.at = "next", !.todo = FirstByID(Pending, QueueLimit)]
  <2>1. j.at = "next" /\ j.todo \subseteq Pending
    BY ListsAreShort DEF TypeInv, WellFormed, Workers, Job
  <2>2. job' = [job EXCEPT ![s] = j] /\ TablesStay
    BY <1>2, Reads DEF ListPending
  <2> HIDE DEF j
  <2>3. StillTrue(j)
    BY <2>1 DEF StillTrue, Pending, Triggerable
  <2> QED
    BY <2>1, <2>2, <2>3, MovesOn
<1>3. ASSUME NEW i \in Items, MarkNext(s, i) PROVE Good
  BY <1>3, MarkKeeps
<1>4. CASE EndQueuePass(s) \/ QueuePassFails(s)
  <2>1. job' = [job EXCEPT ![s] = [Rest EXCEPT !.at = "list"]] /\ TablesStay
    BY <1>4, Reads DEF EndQueuePass, QueuePassFails, AfterQueue
  <2>2. [Rest EXCEPT !.at = "list"].at = "list"
    BY DEF Rest
  <2> QED
    BY <2>1, <2>2, RestIsTrue, MovesOn
<1>5. ASSUME NEW g \in Gids, AddURI(s, g) PROVE Good
  <2> DEFINE j == [job[s] EXCEPT !.at = "record", !.gid = g]
  <2>1. j.at = "record" /\ j.todo = job[s].todo /\ j.cur = job[s].cur
    BY DEF TypeInv, WellFormed, Workers, Job
  <2>2. job' = [job EXCEPT ![s] = j] /\ TablesStay /\ job[s].at = "adduri"
    BY <1>5, Reads DEF AddURI
  <2> HIDE DEF j
  <2> QED
    BY <2>1, <2>2, CallIsTrue, MovesOn
<1>6. CASE AddURIRefused(s) \/ AddURIFails(s)
  <2> DEFINE j == [job[s] EXCEPT !.at = "record"]
  <2>1. j.at = "record" /\ j.todo = job[s].todo /\ j.cur = job[s].cur
    BY DEF TypeInv, WellFormed, Workers, Job
  <2>2. job' = [job EXCEPT ![s] = j] /\ TablesStay /\ job[s].at = "adduri"
    BY <1>6, Reads DEF AddURIRefused, AddURIFails
  <2> HIDE DEF j
  <2> QED
    BY <2>1, <2>2, CallIsTrue, MovesOn
<1>7. CASE RecordSubmitted(s)
  BY <1>7, RecordKeeps
<1>8. CASE RecordFailed(s)
  BY <1>8, RefusalKeeps
<1>9. CASE RecordFails(s)
  <2>1. job[s].at = "record" /\ TablesStay
    BY <1>9, Reads DEF RecordFails
  <2>2. CASE job' = [job EXCEPT ![s] = [Rest EXCEPT !.at = "list"]]
    <3>1. [Rest EXCEPT !.at = "list"].at = "list"
      BY DEF Rest
    <3> QED
      BY <2>1, <2>2, <3>1, RestIsTrue, MovesOn
  <2>3. CASE job' = [job EXCEPT ![s] = Back(s, "next")]
    BY <2>1, <2>3, BackIsTrue, MovesOn
  <2> QED
    BY <1>9, <2>2, <2>3 DEF RecordFails, AfterQueue, Resume
<1>10. CASE ListSubmitted(s)
  <2> DEFINE S == FirstByID(Submitted, SyncLimit)
             j == [job[s] EXCEPT !.at = "scan", !.todo = S,
                     !.seen = [t \in Tasks |-> IF t \in S THEN task[t].gid ELSE NoGid]]
  <2>1. job' = [job EXCEPT ![s] = j] /\ TablesStay
    BY <1>10, Reads DEF ListSubmitted
  <2>2. S \subseteq Submitted
    BY ListsAreShort
  <2> HIDE DEF S
  <2>3. j.at = "scan" /\ j.todo = S
    BY DEF TypeInv, WellFormed, Workers, Job
  <2> HIDE DEF j
  <2>4. StillTrue(j)
    BY <2>2, <2>3 DEF StillTrue
  <2> QED
    BY <2>1, <2>3, <2>4, MovesOn
<1>11. CASE EndSyncPass(s) \/ SyncPassFails(s)
  <2>1. job' = [job EXCEPT ![s] = Rest] /\ TablesStay
    BY <1>11, Reads DEF EndSyncPass, SyncPassFails
  <2> QED
    BY <2>1, RestIsTrue, MovesOn DEF Rest
<1>12. ASSUME NEW t \in Tasks, TellStatusNotFound(s, t) PROVE Good
  <2>1. job[s].at = "scan" /\ t \in job[s].todo /\ TablesStay
    BY <1>12, Reads DEF TellStatusNotFound, IsNext
  <2>2. job' = [job EXCEPT ![s] = [Taken(s, t) EXCEPT !.at = "finish", !.cur = t, !.says = "gone"]]
    BY <1>12 DEF TellStatusNotFound
  <2> QED
    BY <2>1, <2>2, TakenIsTrue, MovesOn
<1>13. ASSUME NEW t \in Tasks, TellStatus(s, t) PROVE Good
  <2>1. job[s].at = "scan" /\ t \in job[s].todo
    BY <1>13 DEF TellStatus, IsNext
  <2>2. TablesStay
    BY <1>13 DEF TellStatus, TablesStay, TypeInv, TypeOK, TaskRow
  <2>3. \/ \E says : job' = [job EXCEPT ![s] =
                              [Taken(s, t) EXCEPT !.at = "finish", !.cur = t, !.says = says]]
        \/ job' = [job EXCEPT ![s] = Taken(s, t)]
    BY <1>13 DEF TellStatus
  <2>4. CASE job' = [job EXCEPT ![s] = Taken(s, t)]
    BY <2>1, <2>2, <2>4, TakenIsTrue, MovesOn
  <2>5. ASSUME NEW says, job' = [job EXCEPT ![s] =
                              [Taken(s, t) EXCEPT !.at = "finish", !.cur = t, !.says = says]]
        PROVE  Good
    BY <2>1, <2>2, <2>5, TakenIsTrue, MovesOn
  <2> QED
    BY <2>3, <2>4, <2>5
<1>14. ASSUME NEW t \in Tasks, TellStatusFails(s, t) PROVE Good
  <2>1. job[s].at = "scan" /\ t \in job[s].todo /\ TablesStay
    BY <1>14, Reads DEF TellStatusFails, IsNext
  <2>2. job' = [job EXCEPT ![s] = Taken(s, t)]
    BY <1>14 DEF TellStatusFails
  <2> QED
    BY <2>1, <2>2, TakenIsTrue, MovesOn
<1>15. CASE Finish(s)
  BY <1>15, FinishKeeps
<1>16. CASE FinishFails(s)
  <2>1. job[s].at = "finish" /\ TablesStay /\ job' = [job EXCEPT ![s] = Back(s, "scan")]
    BY <1>16, Reads DEF FinishFails, AfterFinish
  <2> QED
    BY <2>1, BackIsTrue, MovesOn
<1>17. CASE Notify(s)
  BY <1>17, NotifyKeeps
<1>18. CASE Crash
  <2>1. job' = [job EXCEPT ![s] = Rest]
    BY <1>18, AloneWorkers DEF Crash, Abandon, TypeInv, TypeOK
  <2>2. TablesStay
    BY <1>18, Reads DEF Crash, Abandon
  <2> QED
    BY <2>1, <2>2, RestIsTrue, MovesOn DEF Rest
<1>19. ASSUME NEW g \in Gids, Aria2Step(g) PROVE Good
  <2>1. UNCHANGED <<dbVars, job, notified>>
    BY <1>19 DEF Aria2Step, Aria2Completes, Aria2EndsFirstStage, Aria2Errs, Aria2Removes,
                 Aria2Forgets
  <2> QED
    BY <2>1, Reads, StandsBy
<1>20. CASE UNCHANGED vars
  BY <1>20, Reads, StandsBy DEF vars
<1>21. Requests = {}
  BY AloneWorkers
<1> QED
  BY <1>1, <1>2, <1>3, <1>4, <1>5, <1>6, <1>7, <1>8, <1>9, <1>10, <1>11, <1>12, <1>13, <1>14,
     <1>15, <1>16, <1>17, <1>18, <1>19, <1>20, <1>21
     DEF Next, QueueStep, SubmitStep, SyncStep, FinishStep, HookStep, Failure

-----------------------------------------------------------------------------
(* The theorems about the scheduler alone.                                 *)

LEMMA AloneInit ==
  ASSUME SchedulerAlone, Init
  PROVE  AloneInv /\ Lifecycle!Init
<1>1. Submitted = {}
  BY DEF Init, Submitted, FreeRow
<1>2. StillTrue(job[Scheduler])
  BY RestIsTrue, AloneWorkers DEF Init
<1>3. AloneInv
  BY <1>1, <1>2 DEF AloneInv, OpenRows, SpareRows, OneOpenRow, NotifiedOnce, Init
<1>4. StageOf = [i \in Items |-> "absent"]
  BY DEF StageOf, Stage, Init
<1>5. AttemptRows = [t \in Tasks |-> Lifecycle!Unused]
  BY DEF AttemptRows, AttemptOf, Init, FreeRow, Lifecycle!Unused
<1> QED
  BY <1>3, <1>4, <1>5 DEF Lifecycle!Init

LEMMA InvStep ==
  ASSUME SchedulerAlone, Inv, [Next]_vars
  PROVE  Inv' /\ Implements /\ Untriggered
<1>1. TypeInv' /\ GidInv'
  BY TypeStep, GidStep DEF Inv
<1> QED
  BY <1>1, AloneStep DEF Inv, Good, GidInv

\* Alone, the scheduler keeps the promise of DownloadLifecycle, with any
\* failing statement, lost answer and crash: every item is handed over only
\* while it waits, has one open attempt, which ends once and is announced once.
THEOREM ImplementsLifecycle ==
  ASSUME SchedulerAlone
  PROVE  Spec => KeepsLifecycle
<1>1. Init => Inv /\ Lifecycle!Init
  BY TypeInit, GidInit, AloneInit DEF Inv
<1>2. Inv /\ [Next]_vars => Inv' /\ [Lifecycle!Next]_(Lifecycle!vars)
  BY InvStep DEF Implements
<1> QED
  BY <1>1, <1>2, PTL DEF Spec, KeepsLifecycle, Lifecycle!Spec

LEMMA InvHolds ==
  ASSUME SchedulerAlone
  PROVE  Spec => []Inv
<1>1. Init => Inv
  BY TypeInit, GidInit, AloneInit DEF Inv
<1>2. Inv /\ [Next]_vars => Inv'
  BY InvStep
<1> QED
  BY <1>1, <1>2, PTL DEF Spec

\* A row that stands, open or completed, is the only one of its item, which says
\* the same: while a row completed too early may leave its download running, the
\* item is "completed" and waits no more.
Standing == {t \in Tasks : task[t].status \in {"submitted", "completed"}}

StandingInv ==
  /\ \A t \in Standing : task[t].item \in Items /\ item[task[t].item] = task[t].status
  /\ \A t, u \in Standing : task[t].item = task[u].item => t = u

\* Items that say so, and therefore may have a standing row, are left alone.
LEMMA StandingStays ==
  ASSUME StandingInv,
         \A t \in Tasks : task'[t].item = task[t].item /\ task'[t].status = task[t].status,
         \A i \in Items : item[i] \in {"submitted", "completed"} => item'[i] = item[i]
  PROVE  StandingInv'
<1>1. Standing' = Standing /\ \A t \in Standing : t \in Tasks
  BY DEF Standing
<1>2. \A t \in Standing : item[task[t].item] \in {"submitted", "completed"}
  BY DEF StandingInv, Standing
<1> QED
  BY <1>1, <1>2 DEF StandingInv

LEMMA RecordStands ==
  ASSUME TypeInv, Rows, AloneInv, StandingInv, RecordSubmitted(Scheduler)
  PROVE  StandingInv'
<1>1. WellFormed(job[Scheduler]) /\ lastTask \in Nat
  BY DEF TypeInv, TypeOK, Workers
<1> DEFINE i == job[Scheduler].cur  t == lastTask + 1
<1>2. i \in Items /\ item[i] = "submitting"
  BY <1>1 DEF RecordSubmitted, WellFormed, AloneInv, StillTrue
<1>3. t \in Tasks /\ t > lastTask
  BY <1>1, IdsAssumption DEF RecordSubmitted, Tasks
<1>4. /\ task' = [task EXCEPT ![t] = [item |-> i, gid |-> job[Scheduler].gid, status |-> "submitted"]]
      /\ item' = [item EXCEPT ![i] = "submitted"]
  BY DEF RecordSubmitted
<1>5. t \notin Standing
  BY <1>1, <1>3 DEF Rows, Standing, FreeRow, Tasks
<1> HIDE DEF i, t
<1>6. /\ task'[t].item = i /\ task'[t].status = "submitted"
      /\ \A u \in Tasks \ {t} : task'[u] = task[u]
      /\ item'[i] = "submitted" /\ \A k \in Items \ {i} : item'[k] = item[k]
  BY <1>2, <1>3, <1>4 DEF TypeInv, TypeOK
<1>7. \A u \in Standing : u \in Tasks /\ u # t /\ task[u].item # i
  BY <1>2, <1>5 DEF StandingInv, Standing
<1>8. Standing' = Standing \cup {t}
  BY <1>3, <1>6, <1>7 DEF Standing
<1> QED
  BY <1>2, <1>6, <1>7, <1>8 DEF StandingInv

LEMMA FinishStands ==
  ASSUME TypeInv, AloneInv, StandingInv, Finish(Scheduler)
  PROVE  StandingInv'
<1> DEFINE t == job[Scheduler].cur  i == task[t].item
           end == IF job[Scheduler].says = "error" THEN "failed" ELSE "completed"
<1>1. t \in Submitted
  BY DEF Finish, AloneInv, StillTrue
<1>2. /\ task' = [task EXCEPT ![t].status = end]
      /\ item' = [item EXCEPT ![i] = end]
  BY DEF Finish
<1>3. end \in {"failed", "completed"}
  OBVIOUS
<1> HIDE DEF t, end
<1>4. t \in Tasks /\ t \in Standing /\ i \in Items
  BY <1>1 DEF Submitted, Standing, StandingInv
<1>5. /\ task'[t].item = i /\ task'[t].status = end
      /\ \A u \in Tasks \ {t} : task'[u] = task[u]
      /\ item'[i] = end /\ \A k \in Items \ {i} : item'[k] = item[k]
  BY <1>2, <1>4 DEF TypeInv, TypeOK, TaskRow
<1> HIDE DEF i
<1>6. \A u \in Standing \ {t} : u \in Tasks /\ task[u].item # i
  BY <1>4 DEF StandingInv, Standing, i
<1>7. Standing' \subseteq Standing
  BY <1>4, <1>5 DEF Standing
<1>8. \A u \in Standing' : task'[u].item = task[u].item /\ u \in Tasks
  BY <1>5 DEF Standing, i
<1>9. \A u \in Standing' : task'[u].item \in Items /\ item'[task'[u].item] = task'[u].status
  BY <1>3, <1>5, <1>6, <1>7, <1>8 DEF StandingInv
<1> QED
  BY <1>7, <1>8, <1>9 DEF StandingInv

LEMMA StandingStep ==
  ASSUME SchedulerAlone, TypeInv, Rows, AloneInv, StandingInv, [Next]_vars
  PROVE  StandingInv'
<1> DEFINE s == Scheduler
           Stay == /\ \A t \in Tasks : task'[t].item = task[t].item
                                      /\ task'[t].status = task[t].status
                   /\ \A i \in Items : item[i] \in {"submitted", "completed"} =>
                                      item'[i] = item[i]
<1> USE DEF SchedulerAlone
<1>1. ASSUME NEW i \in Items, NEW previewOnly \in BOOLEAN, SaveFeedItem(i, previewOnly) PROVE Stay
  BY <1>1 DEF SaveFeedItem, TypeInv, TypeOK
<1>2. ASSUME NEW i \in Items, MarkNext(s, i) PROVE Stay
  <2>1. i \in Triggerable
    BY <1>2 DEF MarkNext, IsNext, AloneInv, StillTrue
  <2> QED
    BY <1>2, <2>1 DEF MarkNext, Triggerable, TypeInv, TypeOK
<1>3. ASSUME RecordFailed(s) PROVE Stay
  <2>1. item[job[s].cur] = "submitting"
    BY <1>3 DEF RecordFailed, AloneInv, StillTrue
  <2> QED
    BY <1>3, <2>1 DEF RecordFailed, TypeInv, TypeOK
<1>4. ASSUME NEW t \in Tasks, TellStatus(s, t) PROVE Stay
  BY <1>4 DEF TellStatus, TypeInv, TypeOK, TaskRow
<1>5. ASSUME \/ ListPending(s) \/ EndQueuePass(s) \/ QueuePassFails(s)
             \/ (\E g \in Gids : AddURI(s, g)) \/ AddURIRefused(s) \/ AddURIFails(s)
             \/ RecordFails(s) \/ ListSubmitted(s) \/ EndSyncPass(s) \/ SyncPassFails(s)
             \/ (\E t \in Tasks : TellStatusNotFound(s, t) \/ TellStatusFails(s, t))
             \/ FinishFails(s) \/ Notify(s) \/ Crash
             \/ (\E g \in Gids : Aria2Step(g)) \/ UNCHANGED vars
      PROVE  Stay
  <2>1. UNCHANGED <<item, task>>
    BY <1>5 DEF ListPending, EndQueuePass, QueuePassFails, AddURI, AddURIRefused, AddURIFails,
                RecordFails, ListSubmitted, EndSyncPass, SyncPassFails, TellStatusNotFound,
                TellStatusFails, FinishFails, Notify, Crash, Abandon, Aria2Step, Aria2Completes,
                Aria2EndsFirstStage, Aria2Errs, Aria2Removes, Aria2Forgets, vars, dbVars
  <2> QED
    BY <2>1
<1>6. Requests = {}
  BY AloneWorkers
<1>7. Stay \/ RecordSubmitted(s) \/ Finish(s)
  <2> HIDE DEF Stay
  <2> QED
    BY <1>1, <1>2, <1>3, <1>4, <1>5, <1>6
       DEF Next, QueueStep, SubmitStep, SyncStep, FinishStep, HookStep, Failure
<1> QED
  BY <1>7, StandingStays, RecordStands, FinishStands

\* What a row or the scheduler knows of, aria2 is working on for a standing row
\* or for the item in the scheduler's hands, and of each there is one.
LEMMA StandingSuffices ==
  ASSUME SchedulerAlone, TypeInv, GidInv, EndInv, AloneInv, StandingInv
  PROVE  OneLiveDownload
<1>1. ASSUME NEW t \in Tasks, NEW g \in Gids, task[t].status # "free",
             Effective(task[t].gid) = g, phase[g] = "active"
      PROVE  t \in Standing
  <2>1. task[t].gid \in Gids
    BY <1>1 DEF GidInv, Rows, FreeRow
  <2>2. task[t].status # "failed"
    BY <1>1, <2>1 DEF EndInv, Closed, HasFailed, EndedStages, Effective
  <2> QED
    BY <1>1, <2>2 DEF Standing, TypeInv, TypeOK, TaskRow, TaskStatus
<1>2. job[Scheduler].at = "record" => item[job[Scheduler].cur] = "submitting"
  BY DEF AloneInv, StillTrue
<1>3. ASSUME NEW i \in Items, NEW g \in Downloading(i)
      PROVE  \/ \E t \in Standing : task[t].item = i /\ Effective(task[t].gid) = g
             \/ job[Scheduler].at = "record" /\ job[Scheduler].cur = i
                  /\ Effective(job[Scheduler].gid) = g
  BY <1>1, <1>3, AloneWorkers DEF Downloading
<1>4. ASSUME NEW i \in Items, NEW g \in Downloading(i), NEW h \in Downloading(i)
      PROVE  g = h
  <2>1. \A t, u \in Standing : task[t].item = i /\ task[u].item = i => t = u
    BY DEF StandingInv
  <2>2. \A t \in Standing : task[t].item = i => item[i] # "submitting"
    BY DEF StandingInv, Standing
  <2> QED
    BY <1>2, <1>3, <2>1, <2>2
<1> QED
  BY <1>4 DEF OneLiveDownload

\* Alone, the scheduler has one download of an item in aria2 that it knows of,
\* whatever fails, is refused, removed or killed between its statements: what a
\* queue pass marks it submits before the next pass reads the queue, and an item
\* waits again only after its download has failed
\* (src/internal/app/service.go, src/internal/store/store.go).
THEOREM OneAtATime ==
  ASSUME SchedulerAlone
  PROVE  Spec => []OneLiveDownload
<1>1. Init => EndInv /\ StandingInv
  BY IdsAssumption DEF Init, EndInv, EndedStages, Knows, Closed, Rest, FreeRow,
                      StandingInv, Standing
<1>2. Inv /\ EndInv /\ StandingInv /\ [Next]_vars => EndInv' /\ StandingInv'
  <2>1. Inv /\ [Next]_vars => Inv'
    BY InvStep
  <2> QED
    BY <2>1, EndStep, StandingStep DEF Inv, GidInv
<1>3. Inv /\ EndInv /\ StandingInv => OneLiveDownload
  BY StandingSuffices DEF Inv
<1> QED
  BY <1>1, <1>2, <1>3, InvHolds, PTL DEF Spec

\* ... announces no end twice, not even after a crash ...
THEOREM AnnouncedOnce ==
  ASSUME SchedulerAlone
  PROVE  Spec => []NotifiedOnce
<1>1. Inv => NotifiedOnce
  BY DEF Inv, AloneInv
<1> QED
  BY <1>1, InvHolds, PTL

\* ... triggers only what waits ...
THEOREM TriggersWaiting ==
  ASSUME SchedulerAlone
  PROVE  Spec => QueueOnlyUntriggered
<1>1. Inv /\ [Next]_vars =>
        [\A w \in QueuePasses : job[w].at = "next" /\ job'[w].at = "adduri"
           => item[job'[w].cur] \in {"pending", "preview", "failed"}]_vars
  BY InvStep DEF Untriggered, SchedulerAlone
<1> QED
  BY <1>1, InvHolds, PTL DEF Spec, QueueOnlyUntriggered

\* ... and writes over no row that is closed.
THEOREM RecordsFirst ==
  ASSUME SchedulerAlone
  PROVE  Spec => FirstRecordWins
<1>1. Inv /\ [Next]_vars =>
        [\A w \in Workers : job[w].at = "finish" /\ job'[w].at = "notify"
           => task[job[w].cur].status = "submitted"]_vars
  BY AloneWorkers DEF Inv, AloneInv, StillTrue, Submitted
<1> QED
  BY <1>1, InvHolds, PTL DEF Spec, FirstRecordWins

-----------------------------------------------------------------------------
(* Whoever is at work: the books are kept.                                 *)

\* An item in a worker's hands, or with a row, has not gone; a queue pass keeps its
\* snapshot while it submits.
HandsPresent(w) ==
  /\ job[w].at \in {"mark", "adduri", "record", "edit"} => item[job[w].cur] # "absent"
  /\ w \in QueuePasses /\ job[w].at \in {"next", "adduri", "record"} =>
       \A i \in job[w].todo : i \in Items /\ item[i] # "absent"

Present ==
  /\ \A t \in Tasks : Used(t) => task[t].item \in Items /\ item[task[t].item] # "absent"
  /\ \A w \in Workers : HandsPresent(w)

LedgerInv == TypeInv /\ GidInv /\ EndInv /\ Present

Books == [Ledger!Next]_(Ledger!vars)

\* Worker w moves, and neither owed an announcement nor owes one now.
MovesOwing(w) ==
  /\ \A v \in Workers \ {w} : job'[v] = job[v]
  /\ job[w].at # "notify" /\ job'[w].at # "notify"

LEMMA PresentStays ==
  ASSUME TypeInv, Present,
         \A i \in Items : item[i] # "absent" => item'[i] # "absent",
         \A t \in Tasks : Used(t)' =>
           \/ Used(t) /\ task'[t].item = task[t].item
           \/ task'[t].item \in Items /\ item'[task'[t].item] # "absent",
         \A w \in Workers : job'[w] = job[w] \/ HandsPresent(w)'
  PROVE  Present'
<1>1. \A t \in Tasks : Used(t)' => task'[t].item \in Items /\ item'[task'[t].item] # "absent"
  BY DEF Present
<1>2. ASSUME NEW w \in Workers, job'[w] = job[w] PROVE HandsPresent(w)'
  <2>1. job[w].at \in {"mark", "adduri", "record", "edit"} => job[w].cur \in Items
    BY DEF TypeInv, WellFormed
  <2>2. HandsPresent(w)
    BY DEF Present
  <2> QED
    BY <1>2, <2>1, <2>2 DEF HandsPresent
<1> QED
  BY <1>1, <1>2 DEF Present

-----------------------------------------------------------------------------
(* What the ledger sees.                                                   *)

LEMMA DueStays ==
  ASSUME \A w \in Workers : /\ job'[w].at = "notify" <=> job[w].at = "notify"
                            /\ job[w].at = "notify" => job'[w].cur = job[w].cur
  PROVE  Due' = Due
BY DEF Due

LEMMA NothingDue ==
  ASSUME NEW w \in Workers, MovesOwing(w)
  PROVE  Due' = Due
BY DueStays DEF MovesOwing

\* A row that moves on to the next stage of its download keeps its fate.
LEMMA FateFollows ==
  ASSUME TypeInv, GidInv, UNCHANGED aria2Vars, NEW t \in Tasks, Used(t), Used(t)',
         task'[t].gid \in {task[t].gid, follow[task[t].gid]} \cap Gids
  PROVE  FateOf(t)' = FateOf(t)
<1> DEFINE g == task[t].gid  h == task'[t].gid
<1>1. g \in Gids /\ h \in Gids /\ h \in {g, follow[g]}
  BY DEF GidInv, Rows, Used, FreeRow
<1>2. /\ FateOf(t) = [end |-> EndOf(phase[Effective(g)]), forgotten |-> Forgotten(g)]
      /\ FateOf(t)' = [end |-> EndOf(phase[Effective(h)]), forgotten |-> Forgotten(h)]
  BY DEF FateOf, Used, Effective, EndOf, Forgotten, NotFound, aria2Vars
<1> HIDE DEF g, h
<1>3. h # g => follow[g] = h /\ Effective(g) = h /\ Effective(h) = h
  BY <1>1, IdsAssumption DEF Effective, GidInv, Chains
<1>4. Effective(h) = Effective(g)
  BY <1>3
<1>5. Forgotten(h) = Forgotten(g)
  <2>1. CASE h # g
    <3>1. Forgotten(h) <=> h \in purged \/ g \in purged
      <4>1. \A p \in purged : follow[p] = h => p = g
        BY <1>1, <1>3, <2>1 DEF GidInv, Chains, TypeInv, TypeOK
      <4> QED
        BY <1>3, <2>1, <4>1 DEF Forgotten, NotFound
    <3>2. Forgotten(g) <=> h \in purged \/ g \in purged
      <4>1. \A p \in purged : follow[p] # g
        BY <1>1, <1>3, <2>1, IdsAssumption DEF GidInv, Chains, TypeInv, TypeOK
      <4> QED
        BY <1>3, <2>1, <4>1 DEF Forgotten, NotFound
    <3>3. Forgotten(h) \in BOOLEAN /\ Forgotten(g) \in BOOLEAN
      BY DEF Forgotten, NotFound
    <3> QED
      BY <3>1, <3>2, <3>3
  <2> QED
    BY <2>1
<1> QED
  BY <1>2, <1>4, <1>5

LEMMA FatesStay ==
  ASSUME UNCHANGED <<task, aria2Vars>>
  PROVE  FateRows' = FateRows /\ TaskRows' = TaskRows
<1>1. \A t \in Tasks : FateOf(t)' = FateOf(t) /\ RowOf(t)' = RowOf(t)
  BY DEF FateOf, Forgotten, NotFound, Effective, aria2Vars, RowOf
<1> QED
  BY <1>1 DEF FateRows, TaskRows

\* A step the ledger does not see.
LEMMA Unseen ==
  ASSUME UNCHANGED <<item, notified>>, Due' = Due,
         \A t \in Tasks : RowOf(t)' = RowOf(t) /\ FateOf(t)' = FateOf(t)
  PROVE  Books
<1>1. UNCHANGED <<StageOf, TaskRows, FateRows, Due, notified>>
  BY DEF StageOf, TaskRows, FateRows
<1> QED
  BY <1>1 DEF Books, Ledger!vars

\* Worker w alone moves; tables, aria2 and announcements are as before.
LEMMA QuietMove ==
  ASSUME TypeInv, Present, NEW w \in Workers, UNCHANGED <<item, task, aria2Vars, notified>>,
         MovesOwing(w), HandsPresent(w)'
  PROVE  Present' /\ Books
<1>1. Present'
  BY PresentStays DEF MovesOwing, Used
<1>2. \A t \in Tasks : FateOf(t)' = FateOf(t) /\ RowOf(t)' = RowOf(t)
  BY DEF FateOf, Forgotten, NotFound, Effective, aria2Vars, RowOf
<1> QED
  BY <1>1, <1>2, NothingDue, Unseen

-----------------------------------------------------------------------------
(* The steps the ledger sees.                                              *)

LEMMA StageWritten ==
  ASSUME TypeInv, NEW i \in Items, NEW s, item' = [item EXCEPT ![i] = s]
  PROVE  /\ StageOf' = [StageOf EXCEPT ![i] = Stage(s)]
         /\ item'[i] = s /\ \A k \in Items \ {i} : item'[k] = item[k]
BY DEF StageOf, TypeInv, TypeOK

LEMMA KnownItem ==
  ASSUME NEW i \in Items
  PROVE  item[i] # "absent" <=> Ledger!Known(i)
BY DEF Ledger!Known, StageOf, Stage

LEMMA TakenRow ==
  ASSUME TypeInv, GidInv, NEW t \in Tasks
  PROVE  /\ Used(t) => Ledger!Taken(t)
         /\ task[t] = FreeRow => ~Ledger!Taken(t)
BY DEF Ledger!Taken, Ledger!Unused, TaskRows, RowOf, Used, FreeRow

\* Only a status is written: a user's edit, a trigger or a refusal.
LEMMA ItemWritten ==
  ASSUME TypeInv, Present, NEW w \in Workers, NEW i \in Items,
         NEW s \in {"pending", "submitted", "skipped", "submitting", "failed"},
         item[i] # "absent", item' = [item EXCEPT ![i] = s],
         UNCHANGED <<task, aria2Vars, notified>>, MovesOwing(w),
         (\A k \in Items : item[k] # "absent" => item'[k] # "absent") => HandsPresent(w)'
  PROVE  Present' /\ Books
<1>1. /\ StageOf' = [StageOf EXCEPT ![i] = Stage(s)]
      /\ item'[i] = s /\ \A k \in Items \ {i} : item'[k] = item[k]
  BY StageWritten
<1>2. \A k \in Items : item[k] # "absent" => item'[k] # "absent"
  BY <1>1
<1>3. Present'
  BY <1>2, PresentStays DEF MovesOwing, Used
<1>4. UNCHANGED <<TaskRows, FateRows, Due, notified>>
  BY FatesStay, NothingDue
<1>5. Ledger!Edit(i) \/ Ledger!Trigger(i) \/ Ledger!Refuse(i)
  <2>1. Ledger!Known(i)
    BY KnownItem
  <2>2. CASE s \in {"pending", "submitted", "skipped"}
    <3>1. Stage(s) \in {"skipped", "waiting", "open"}
      BY <2>2 DEF Stage
    <3> QED
      BY <1>1, <1>4, <2>1, <3>1 DEF Ledger!Edit
  <2>3. CASE s = "submitting"
    BY <1>1, <1>4, <2>1, <2>3 DEF Ledger!Trigger, Stage
  <2>4. CASE s = "failed"
    BY <1>1, <1>4, <2>1, <2>4 DEF Ledger!Refuse, Stage
  <2> QED
    BY <2>2, <2>3, <2>4
<1> QED
  BY <1>3, <1>5 DEF Books, Ledger!Next

LEMMA SaveBooks ==
  ASSUME TypeInv, Present, NEW i \in Items, NEW previewOnly, SaveFeedItem(i, previewOnly)
  PROVE  Present' /\ Books
<1> DEFINE s == IF i \in NoUrlItems THEN "skipped" ELSE IF previewOnly THEN "preview" ELSE "pending"
<1>1. s \in {"skipped", "preview", "pending"} /\ item' = [item EXCEPT ![i] = s]
  BY DEF SaveFeedItem
<1> HIDE DEF s
<1>2. item[i] = "absent" /\ UNCHANGED <<task, aria2Vars, job, notified>>
  BY DEF SaveFeedItem
<1>3. /\ StageOf' = [StageOf EXCEPT ![i] = Stage(s)]
      /\ item'[i] = s /\ \A k \in Items \ {i} : item'[k] = item[k]
  BY <1>1, StageWritten
<1>4. Present'
  BY <1>1, <1>2, <1>3, PresentStays DEF Used
<1>5. UNCHANGED <<TaskRows, FateRows, Due, notified>>
  BY <1>2, FatesStay, DueStays
<1>6. Ledger!Discover(i)
  <2>1. ~Ledger!Known(i) /\ Stage(s) \in {"skipped", "waiting"}
    BY <1>1, <1>2, KnownItem DEF Stage
  <2> QED
    BY <1>3, <1>5, <2>1 DEF Ledger!Discover
<1> QED
  BY <1>4, <1>6 DEF Books, Ledger!Next

LEMMA EndIsAFate == \A p : EndOf(p) \in {"none", "completed", "failed", "removed"}
BY DEF EndOf

LEMMA FatesAre ==
  ASSUME NEW t \in Tasks
  PROVE  FateOf(t)' \in Ledger!Fates
<1>1. CASE Used(t)'
  <2> DEFINE e == EndOf(phase[Effective(task[t].gid)])'  b == Forgotten(task[t].gid)'
  <2>1. FateOf(t)' = [end |-> e, forgotten |-> b]
    BY <1>1 DEF FateOf, Used
  <2>2. e \in {"none", "completed", "failed", "removed"} /\ b \in BOOLEAN
    BY EndIsAFate DEF Forgotten, NotFound
  <2> HIDE DEF e, b
  <2> QED
    BY <2>1, <2>2 DEF Ledger!Fates
<1> QED
  BY <1>1 DEF FateOf, Ledger!Fates, Used

LEMMA RecordBooks ==
  ASSUME TypeInv, GidInv, Present, NEW w \in QueuePasses \cup ItemSubmits, RecordSubmitted(w)
  PROVE  Present' /\ Books
<1>1. w \in Workers /\ job[w] \in Job /\ WellFormed(job[w]) /\ lastTask \in Nat
  BY DEF TypeInv, TypeOK, WellFormed, Workers
<1> DEFINE old == job[w]  new == job'[w]  i == old.cur
<1>0. PICK t : t = lastTask + 1
  OBVIOUS
<1>2. /\ old.at = "record" /\ i \in Items /\ item[i] # "absent"
      /\ new.at = Resume(w) /\ new.todo = old.todo
  BY <1>1 DEF RecordSubmitted, Back, TypeInv, TypeOK, WellFormed, Job, Present, HandsPresent
<1>3. t \in Tasks /\ t > lastTask /\ UNCHANGED <<aria2Vars, notified>>
  BY <1>1, <1>0, IdsAssumption DEF RecordSubmitted, Tasks
<1>4. /\ task' = [task EXCEPT ![t] = [item |-> i, gid |-> old.gid, status |-> "submitted"]]
      /\ item' = [item EXCEPT ![i] = "submitted"]
      /\ \A v \in Workers \ {w} : job'[v] = job[v]
  BY <1>0 DEF RecordSubmitted, TypeInv, TypeOK
<1>5. task[t] = FreeRow
  BY <1>0, <1>1, <1>3 DEF GidInv, Rows, Tasks
<1> HIDE DEF old, new, i
<1>6. /\ StageOf' = [StageOf EXCEPT ![i] = "open"]
      /\ item'[i] = "submitted" /\ \A k \in Items \ {i} : item'[k] = item[k]
  BY <1>2, <1>4, StageWritten DEF Stage
<1>7. /\ task'[t] = [item |-> i, gid |-> old.gid, status |-> "submitted"]
      /\ \A u \in Tasks \ {t} : task'[u] = task[u]
  BY <1>3, <1>4 DEF TypeInv, TypeOK
<1>8. Due' = Due
  <2>1. MovesOwing(w)
    BY <1>2, <1>4 DEF MovesOwing, Resume, old, new
  <2> QED
    BY <1>1, <2>1, NothingDue
<1>9. TaskRows' = [TaskRows EXCEPT ![t] = [item |-> i, state |-> "open"]]
  <2>1. \A u \in Tasks : RowOf(u)' = IF u = t THEN [item |-> i, state |-> "open"] ELSE RowOf(u)
    BY <1>7 DEF RowOf
  <2> QED
    BY <2>1 DEF TaskRows
<1>10. \E f \in Ledger!Fates : FateRows' = [FateRows EXCEPT ![t] = f]
  <2>1. PICK f : f = FateOf(t)'
    OBVIOUS
  <2>2. f \in Ledger!Fates
    BY <1>3, <2>1, FatesAre
  <2>3. \A u \in Tasks \ {t} : FateOf(u)' = FateOf(u)
    BY <1>3, <1>7 DEF FateOf, Forgotten, NotFound, Effective, aria2Vars
  <2>4. FateRows' = [FateRows EXCEPT ![t] = f]
    BY <2>1, <2>3 DEF FateRows
  <2> QED
    BY <2>2, <2>4
<1>11. Ledger!Accept(i, t)
  BY <1>2, <1>3, <1>5, <1>6, <1>8, <1>9, <1>10, KnownItem, TakenRow DEF Ledger!Accept
<1>12. Present'
  <2>1. \A k \in Items : item[k] # "absent" => item'[k] # "absent"
    BY <1>6
  <2>2. HandsPresent(w)'
    <3>1. HandsPresent(w)
      BY <1>1 DEF Present
    <3>2. new.at \in {"next", "idle"} /\ (new.at = "next" => w \in QueuePasses)
      BY <1>2 DEF Resume
    <3> QED
      BY <1>2, <2>1, <3>1, <3>2 DEF HandsPresent, old, new
  <2>3. \A u \in Tasks : Used(u)' =>
           \/ Used(u) /\ task'[u].item = task[u].item
           \/ task'[u].item \in Items /\ item'[task'[u].item] # "absent"
    BY <1>2, <1>6, <1>7 DEF Used
  <2> QED
    BY <1>4, <2>1, <2>2, <2>3, PresentStays
<1> QED
  BY <1>2, <1>3, <1>11, <1>12 DEF Books, Ledger!Next

\* A row gets the gid its download has by now.
LEMMA SwitchUnseen ==
  ASSUME TypeInv, GidInv, GidInv', Present, NEW w \in Workers, NEW t \in Tasks, NEW e \in Gids,
         Used(t), e \in {task[t].gid, follow[task[t].gid]},
         task' = [task EXCEPT ![t].gid = e], UNCHANGED <<item, aria2Vars, notified>>,
         MovesOwing(w), HandsPresent(w)'
  PROVE  Present' /\ Books
<1>1. /\ task'[t].gid = e /\ task'[t].status = task[t].status /\ task'[t].item = task[t].item
      /\ \A u \in Tasks \ {t} : task'[u] = task[u]
  BY DEF TypeInv, TypeOK, TaskRow
<1>2. Present'
  BY <1>1, PresentStays DEF MovesOwing, Used
<1>3. FateOf(t)' = FateOf(t)
  BY <1>1, FateFollows DEF Used
<1>4. \A u \in Tasks : RowOf(u)' = RowOf(u)
  BY <1>1 DEF RowOf
<1>5. \A u \in Tasks \ {t} : FateOf(u)' = FateOf(u)
  BY <1>1 DEF FateOf, Forgotten, NotFound, Effective, aria2Vars
<1> QED
  BY <1>2, <1>3, <1>4, <1>5, NothingDue, Unseen

LEMMA FinishBooks ==
  ASSUME TypeInv, GidInv, EndInv, Present, NEW w \in SyncPasses \cup Hooks, Finish(w)
  PROVE  Present' /\ Books
<1>1. w \in Workers /\ job[w] \in Job /\ WellFormed(job[w])
  BY DEF TypeInv, WellFormed, Workers
<1> DEFINE end == IF job[w].says = "error" THEN "failed" ELSE "completed"
<1>0. PICK t, i : t = job[w].cur /\ i = task[t].item
  OBVIOUS
<1>2. job[w].at = "finish" /\ t \in Tasks /\ Used(t) /\ i \in Items /\ item[i] # "absent"
  BY <1>0, <1>1 DEF Finish, WellFormed, GidInv, ReadsOK, Present
<1>3. /\ job'[w].at = "notify" /\ job'[w].cur = t
      /\ \A v \in Workers \ {w} : job'[v] = job[v]
  BY <1>0, <1>1 DEF Finish, TypeInv, TypeOK, Job
<1>4. /\ task' = [task EXCEPT ![t].status = end] /\ item' = [item EXCEPT ![i] = end]
      /\ UNCHANGED <<aria2Vars, notified>>
  BY <1>0 DEF Finish
<1>5. end \in {"failed", "completed"}
  OBVIOUS
<1>6. end \in Ledger!Ends(FateOf(t))
  <2>1. FateOf(t) = [end |-> EndOf(phase[Effective(task[t].gid)]), forgotten |-> Forgotten(task[t].gid)]
    BY <1>2 DEF FateOf, Used
  <2>2. Knows(w) /\ EndedStages
    BY <1>1 DEF EndInv
  <2>3. CASE job[w].says = "error"
    <3>1. phase[task[t].gid] = "error"
      BY <1>0, <1>2, <2>2, <2>3 DEF Knows, HasFailed
    <3>2. Effective(task[t].gid) = task[t].gid
      <4>1. task[t].gid \in Gids
        BY <1>2 DEF GidInv, Rows, Used, FreeRow
      <4> QED
        BY <2>2, <3>1, <4>1 DEF Effective, EndedStages
    <3> QED
      BY <2>1, <2>3, <3>1, <3>2 DEF Ledger!Ends, EndOf
  <2>4. CASE job[w].says # "error"
    <3>1. phase[Effective(task[t].gid)] = "complete" \/ Forgotten(task[t].gid)
      BY <1>0, <1>2, <2>2, <2>4 DEF Knows, HasEnded, Forgotten
    <3> QED
      BY <2>1, <2>4, <3>1 DEF Ledger!Ends, EndOf
  <2> QED
    BY <2>3, <2>4
<1> HIDE DEF end
<1>7. /\ StageOf' = [StageOf EXCEPT ![i] = end]
      /\ item'[i] = end /\ \A k \in Items \ {i} : item'[k] = item[k]
  BY <1>2, <1>4, <1>5, StageWritten DEF Stage
<1>8. /\ task'[t].status = end /\ task'[t].gid = task[t].gid /\ task'[t].item = i
      /\ \A u \in Tasks \ {t} : task'[u] = task[u]
  BY <1>0, <1>2, <1>4 DEF TypeInv, TypeOK, TaskRow
<1>9. TaskRows' = [TaskRows EXCEPT ![t].state = end] /\ TaskRows[t].item = i
  <2>1. RowOf(t)' = [RowOf(t) EXCEPT !.state = end] /\ RowOf(t).item = i
    BY <1>0, <1>5, <1>8 DEF RowOf
  <2>2. \A u \in Tasks \ {t} : RowOf(u)' = RowOf(u)
    BY <1>8 DEF RowOf
  <2> QED
    BY <1>2, <2>1, <2>2 DEF TaskRows
<1>10. FateRows' = FateRows
  <2>1. FateOf(t)' = FateOf(t)
    BY <1>2, <1>4, <1>5, <1>8 DEF FateOf, Forgotten, NotFound, Effective, aria2Vars, Used
  <2>2. \A u \in Tasks \ {t} : FateOf(u)' = FateOf(u)
    BY <1>4, <1>8 DEF FateOf, Forgotten, NotFound, Effective, aria2Vars
  <2> QED
    BY <2>1, <2>2 DEF FateRows
<1>11. Due' = Due \cup {<<w, t>>} /\ \A b \in Tasks : <<w, b>> \notin Due
  BY <1>1, <1>2, <1>3 DEF Due
<1>12. Ledger!Close(w, t)
  <2>1. Ledger!Taken(t)
    BY <1>2, TakenRow
  <2>2. FateRows[t] = FateOf(t)
    BY <1>2 DEF FateRows
  <2> QED
    BY <1>4, <1>6, <1>7, <1>9, <1>10, <1>11, <2>1, <2>2 DEF Ledger!Close
<1>13. Present'
  <2>1. \A k \in Items : item[k] # "absent" => item'[k] # "absent"
    BY <1>5, <1>7
  <2>2. HandsPresent(w)'
    BY <1>3 DEF HandsPresent
  <2>3. \A u \in Tasks : Used(u)' => Used(u) /\ task'[u].item = task[u].item
    BY <1>0, <1>2, <1>8 DEF Used
  <2> QED
    BY <1>3, <2>1, <2>2, <2>3, PresentStays
<1> QED
  BY <1>1, <1>2, <1>12, <1>13 DEF Books, Ledger!Next

LEMMA NotifyBooks ==
  ASSUME TypeInv, Present, NEW w \in SyncPasses \cup Hooks, Notify(w)
  PROVE  Present' /\ Books
<1>1. w \in Workers /\ job[w] \in Job /\ WellFormed(job[w])
  BY DEF TypeInv, WellFormed, Workers
<1>0. PICK t : t = job[w].cur
  OBVIOUS
<1>2. /\ job[w].at = "notify" /\ t \in Tasks /\ UNCHANGED <<item, task, aria2Vars>>
      /\ notified' = [notified EXCEPT ![t] = notified[t] + 1]
  BY <1>0, <1>1 DEF Notify, WellFormed, dbVars
<1>3. job'[w].at \in {"scan", "idle"} /\ \A v \in Workers \ {w} : job'[v] = job[v]
  BY <1>1 DEF Notify, Back, AfterFinish, TypeInv, TypeOK, Job
<1>4. Due' = Due \ {<<w, t>>} /\ <<w, t>> \in Due
  BY <1>0, <1>1, <1>2, <1>3 DEF Due
<1>5. UNCHANGED <<StageOf, TaskRows, FateRows>>
  BY <1>2, FatesStay DEF StageOf
<1>6. Ledger!Announce(w, t)
  BY <1>2, <1>4, <1>5 DEF Ledger!Announce
<1>7. Present'
  BY <1>2, <1>3, PresentStays DEF HandsPresent, Used
<1> QED
  BY <1>1, <1>2, <1>6, <1>7 DEF Books, Ledger!Next

\* Workers that are stopped owe nothing.
LEMMA AbandonBooks ==
  ASSUME TypeInv, Present, NEW W \in SUBSET Workers, Abandon(W)
  PROVE  Present' /\ Books
<1>1. /\ UNCHANGED <<item, task, aria2Vars, notified>>
      /\ \A v \in Workers : job'[v] = IF v \in W THEN Rest ELSE job[v]
  BY DEF Abandon, dbVars
<1>2. Rest.at = "idle"
  BY DEF Rest
<1>3. Due' = {d \in Due : d[1] \notin W}
  BY <1>1, <1>2 DEF Due
<1>4. Ledger!Silence
  <2>1. UNCHANGED <<StageOf, TaskRows, FateRows, notified>>
    BY <1>1, FatesStay DEF StageOf
  <2> QED
    BY <1>3, <2>1 DEF Ledger!Silence
<1>5. Present'
  BY <1>1, <1>2, PresentStays DEF HandsPresent, Used
<1> QED
  BY <1>4, <1>5 DEF Books, Ledger!Next

\* aria2 may do something about one gid g: to the row whose download has it.
Concerns(g, t) == Used(t) /\ (task[t].gid = g \/ follow[task[t].gid] = g \/ follow[g] = task[t].gid)

LEMMA ConcernsOne ==
  ASSUME GidInv, NEW g \in Gids, NEW t \in Tasks, NEW u \in Tasks, Concerns(g, t), Concerns(g, u)
  PROVE  t = u
<1>1. task[t].gid \in Gids /\ task[u].gid \in Gids
  BY DEF GidInv, Rows, Concerns, Used, FreeRow
<1>2. SameDownload(task[t].gid, task[u].gid)
  BY <1>1, IdsAssumption DEF Concerns, SameDownload, GidInv, Chains
<1> QED
  BY <1>2 DEF GidInv, TasksApart, Concerns

LEMMA FateGoesOn ==
  ASSUME TypeInv, GidInv, Present, UNCHANGED <<item, task, job, notified>>, NEW g \in Gids,
         \A t \in Tasks : IF Concerns(g, t) THEN Ledger!GoesOn(FateOf(t), FateOf(t)')
                          ELSE FateOf(t)' = FateOf(t)
  PROVE  Present' /\ Books
<1>1. Present'
  BY PresentStays DEF Used
<1>2. \A t \in Tasks : RowOf(t)' = RowOf(t)
  BY DEF RowOf
<1>3. Due' = Due
  BY DueStays
<1>4. CASE \A t \in Tasks : ~Concerns(g, t)
  BY <1>1, <1>2, <1>3, <1>4, Unseen
<1>5. ASSUME NEW t \in Tasks, Concerns(g, t) PROVE Books
  <2>1. PICK f : f = FateOf(t)'
    OBVIOUS
  <2>2. f \in Ledger!Fates
    BY <2>1, FatesAre
  <2>3. \A u \in Tasks \ {t} : FateOf(u)' = FateOf(u)
    BY <1>5, ConcernsOne
  <2>4. FateRows' = [FateRows EXCEPT ![t] = f] /\ FateRows[t] = FateOf(t)
    BY <2>1, <2>3 DEF FateRows
  <2>5. UNCHANGED <<StageOf, TaskRows, Due, notified>>
    BY <1>2, <1>3 DEF StageOf, TaskRows
  <2>6. Ledger!GoesOn(FateRows[t], f)
    BY <1>5, <2>1, <2>4
  <2>7. Ledger!Taken(t)
    BY <1>5, TakenRow DEF Concerns
  <2> QED
    BY <2>2, <2>4, <2>5, <2>6, <2>7 DEF Books, Ledger!GoOn, Ledger!Next
<1> QED
  BY <1>1, <1>4, <1>5

\* A download that has not ended may end in any way, and be forgotten.
LEMMA MayGoOn ==
  ASSUME NEW t \in Tasks, UNCHANGED task, Used(t),
         LET e == phase[Effective(task[t].gid)]
         IN  e' = e \/ e \notin {"complete", "error", "removed"},
         Forgotten(task[t].gid) => Forgotten(task[t].gid)'
  PROVE  Ledger!GoesOn(FateOf(t), FateOf(t)')
<1> DEFINE e == phase[Effective(task[t].gid)]
<1>1. FateOf(t) = [end |-> EndOf(e), forgotten |-> Forgotten(task[t].gid)]
  BY DEF FateOf, Used
<1>2. FateOf(t)' = [end |-> EndOf(e'), forgotten |-> Forgotten(task[t].gid)']
  BY DEF FateOf, Used, EndOf, Forgotten, NotFound, Effective
<1>3. EndOf(e) \in {"none", EndOf(e')}
  BY DEF EndOf
<1> HIDE DEF e
<1> QED
  BY <1>1, <1>2, <1>3 DEF Ledger!GoesOn

\* The gid of a row in use, and its last stage.
LEMMA RowHasGid ==
  ASSUME TypeInv, GidInv, NEW t \in Tasks, Used(t)
  PROVE  /\ task[t].gid \in Gids /\ phase[task[t].gid] # "unused"
         /\ Effective(task[t].gid) \in Gids /\ phase[Effective(task[t].gid)] # "unused"
BY DEF GidInv, Rows, Chains, Used, FreeRow, Effective

LEMMA FreeFate ==
  ASSUME UNCHANGED task, NEW t \in Tasks, ~Used(t)
  PROVE  FateOf(t)' = FateOf(t)
BY DEF FateOf, Used

\* The download of g ends, in whatever way, or another stage of it begins.
LEMMA PhaseBooks ==
  ASSUME TypeInv, GidInv, Present, UNCHANGED <<item, task, job, notified, purged>>,
         NEW g \in Gids, phase[g] = "active", g \notin purged, NEW p,
         \/ phase' = [phase EXCEPT ![g] = p] /\ follow' = follow
         \/ /\ IsFirstStage(g) /\ p = "meta"
            /\ \E c \in Gids : /\ phase[c] = "unused"
                               /\ phase' = [phase EXCEPT ![g] = p, ![c] = "active"]
                               /\ follow' = [follow EXCEPT ![g] = c]
  PROVE  Present' /\ Books
<1>1. ASSUME NEW t \in Tasks, Used(t)
      PROVE  /\ Concerns(g, t) => Ledger!GoesOn(FateOf(t), FateOf(t)')
             /\ ~Concerns(g, t) => FateOf(t)' = FateOf(t)
  <2> DEFINE h == task[t].gid
  <2>1. h \in Gids /\ Effective(h) \in Gids /\ phase[Effective(h)] # "unused" /\ phase[h] # "unused"
    BY <1>1, RowHasGid
  <2>2. follow[g] = NoGid /\ NoGid \notin Gids
    BY IdsAssumption DEF GidInv, Chains
  <2>3. CASE phase' = [phase EXCEPT ![g] = p] /\ follow' = follow
    <3>1. /\ Effective(h)' = Effective(h) /\ Forgotten(h)' = Forgotten(h)
          /\ Effective(h) # g => phase'[Effective(h)] = phase[Effective(h)]
          /\ Effective(h) = g => Concerns(g, t) /\ phase[Effective(h)] = "active"
      BY <1>1, <2>1, <2>3 DEF Effective, Forgotten, NotFound, Concerns, TypeInv, TypeOK
    <3>2. Concerns(g, t) => Ledger!GoesOn(FateOf(t), FateOf(t)')
      BY <1>1, <3>1, MayGoOn
    <3>3. ~Concerns(g, t) => FateOf(t)' = FateOf(t)
      BY <3>1 DEF FateOf
    <3> QED
      BY <3>2, <3>3
  <2>4. ASSUME NEW c \in Gids, IsFirstStage(g), p = "meta", phase[c] = "unused",
               phase' = [phase EXCEPT ![g] = p, ![c] = "active"], follow' = [follow EXCEPT ![g] = c]
        PROVE  /\ Concerns(g, t) => Ledger!GoesOn(FateOf(t), FateOf(t)')
               /\ ~Concerns(g, t) => FateOf(t)' = FateOf(t)
    <3>1. CASE h = g
      <4>1. /\ Effective(h) = g /\ phase[Effective(h)] = "active"
            /\ Concerns(g, t)
        BY <1>1, <2>2, <3>1 DEF Effective, Concerns
      <4>2. Forgotten(h) => Forgotten(h)'
        BY <2>2, <2>4, <3>1 DEF Forgotten, NotFound, Effective, IsFirstStage, TypeInv, TypeOK
      <4> QED
        BY <1>1, <4>1, <4>2, MayGoOn
    <3>2. CASE h # g
      <4>1. h # c /\ Effective(h) # c /\ Effective(h) # g
        BY <2>1, <2>4, <3>2 DEF Effective, IsFirstStage
      <4>2. /\ Effective(h)' = Effective(h) /\ phase'[Effective(h)] = phase[Effective(h)]
            /\ follow'[h] = follow[h]
        BY <2>1, <2>4, <3>2, <4>1 DEF Effective, TypeInv, TypeOK
      <4>3. Forgotten(h)' = Forgotten(h)
        BY <2>1, <2>2, <2>4, <3>2, <4>1, <4>2 DEF Forgotten, NotFound, TypeInv, TypeOK
      <4>4. FateOf(t)' = FateOf(t)
        BY <4>2, <4>3 DEF FateOf
      <4>5. FateOf(t).forgotten = Forgotten(h)
        BY <1>1 DEF FateOf, Used
      <4>6. Ledger!GoesOn(FateOf(t), FateOf(t)')
        BY <1>1, <4>2, <4>3, MayGoOn
      <4> QED
        BY <4>4, <4>6
    <3> QED
      BY <3>1, <3>2
  <2> QED
    BY <2>3, <2>4
<1> QED
  BY <1>1, FreeFate, FateGoesOn DEF Concerns

LEMMA ForgetBooks ==
  ASSUME TypeInv, GidInv, Present, NEW g \in Gids, Aria2Forgets(g)
  PROVE  Present' /\ Books
<1>1. /\ UNCHANGED <<item, task, job, notified, phase, follow>> /\ purged' = purged \cup {g}
  BY DEF Aria2Forgets, dbVars
<1>2. ASSUME NEW t \in Tasks, Used(t)
      PROVE  /\ Concerns(g, t) => Ledger!GoesOn(FateOf(t), FateOf(t)')
             /\ ~Concerns(g, t) => FateOf(t)' = FateOf(t)
  <2> DEFINE h == task[t].gid
  <2>1. h \in Gids /\ Effective(h) \in Gids
    BY <1>2, RowHasGid
  <2>2. Effective(h)' = Effective(h) /\ (Forgotten(h) => Forgotten(h)')
    BY <1>1 DEF Effective, Forgotten, NotFound
  <2>3. ~Concerns(g, t) => Forgotten(h)' = Forgotten(h)
    BY <1>1, <1>2, <2>1 DEF Effective, Forgotten, NotFound, Concerns
  <2>4. Ledger!GoesOn(FateOf(t), FateOf(t)')
    BY <1>1, <1>2, <2>2, MayGoOn
  <2>5. ~Concerns(g, t) => FateOf(t)' = FateOf(t)
    BY <1>1, <2>2, <2>3 DEF FateOf
  <2> QED
    BY <2>4, <2>5
<1> QED
  BY <1>1, <1>2, FreeFate, FateGoesOn DEF Concerns

LEMMA Aria2Books ==
  ASSUME TypeInv, GidInv, Present, NEW g \in Gids, Aria2Step(g)
  PROVE  Present' /\ Books
<1>1. CASE Aria2Completes(g) \/ Aria2Errs(g) \/ Aria2Removes(g)
  <2>1. /\ UNCHANGED <<item, task, job, notified, purged, follow>>
        /\ phase[g] = "active" /\ g \notin purged
        /\ \E p : phase' = [phase EXCEPT ![g] = p]
    BY <1>1 DEF Aria2Completes, Aria2Errs, Aria2Removes, dbVars
  <2> QED
    BY <2>1, PhaseBooks
<1>2. CASE Aria2EndsFirstStage(g)
  <2>1. /\ UNCHANGED <<item, task, job, notified, purged>>
        /\ phase[g] = "active" /\ g \notin purged /\ IsFirstStage(g)
    BY <1>2 DEF Aria2EndsFirstStage, dbVars
  <2>2. \/ phase' = [phase EXCEPT ![g] = "meta"] /\ follow' = follow
        \/ \E c \in Gids : /\ phase[c] = "unused"
                           /\ phase' = [phase EXCEPT ![g] = "meta", ![c] = "active"]
                           /\ follow' = [follow EXCEPT ![g] = c]
    BY <1>2 DEF Aria2EndsFirstStage
  <2> QED
    BY <2>1, <2>2, PhaseBooks
<1> QED
  BY <1>1, <1>2, ForgetBooks DEF Aria2Step

\* aria2 takes a download that no row is about yet.
LEMMA AddedUnseen ==
  ASSUME TypeInv, GidInv, Present, NEW w \in Workers, NEW g \in Gids, phase[g] = "unused",
         phase' = [phase EXCEPT ![g] = "active"], UNCHANGED <<item, task, follow, purged, notified>>,
         MovesOwing(w), HandsPresent(w)'
  PROVE  Present' /\ Books
<1>1. Present'
  BY PresentStays DEF MovesOwing, Used
<1>2. ASSUME NEW t \in Tasks PROVE FateOf(t)' = FateOf(t)
  <2>1. CASE Used(t)
    <3>1. phase'[Effective(task[t].gid)] = phase[Effective(task[t].gid)]
      BY <2>1, RowHasGid DEF TypeInv, TypeOK
    <3> QED
      BY <3>1 DEF FateOf, Effective, Forgotten, NotFound
  <2> QED
    BY <2>1, FreeFate
<1>3. \A t \in Tasks : RowOf(t)' = RowOf(t)
  BY DEF RowOf
<1> QED
  BY <1>1, <1>2, <1>3, NothingDue, Unseen

-----------------------------------------------------------------------------
(* Every step keeps the books.                                             *)

LEMMA QueueBooks ==
  ASSUME TypeInv, Present, NEW w \in QueuePasses, QueueStep(w)
  PROVE  Present' /\ Books
<1>1. w \in Workers /\ job[w] \in Job /\ HandsPresent(w)
  BY DEF TypeInv, WellFormed, Workers, Present
<1>2. CASE ListPending(w)
  <2>1. /\ UNCHANGED <<item, task, aria2Vars, notified>> /\ MovesOwing(w)
        /\ job'[w].at = "next" /\ job'[w].todo \subseteq Pending
    BY <1>1, <1>2 DEF ListPending, MovesOwing, dbVars, FirstByID, TypeInv, TypeOK, Job
  <2>2. HandsPresent(w)'
    BY <2>1 DEF HandsPresent, Pending
  <2> QED
    BY <1>1, <2>1, <2>2, QuietMove
<1>3. ASSUME NEW i \in Items, MarkNext(w, i) PROVE Present' /\ Books
  <2>1. /\ item' = [item EXCEPT ![i] = "submitting"] /\ UNCHANGED <<task, aria2Vars, notified>>
        /\ MovesOwing(w) /\ i \in job[w].todo /\ job[w].at = "next"
        /\ job'[w].at = "adduri" /\ job'[w].cur = i /\ job'[w].todo = job[w].todo \ {i}
    BY <1>1, <1>3 DEF MarkNext, IsNext, MovesOwing, TypeInv, TypeOK, Job
  <2>2. item[i] # "absent"
    BY <1>1, <2>1 DEF HandsPresent
  <2>3. (\A k \in Items : item[k] # "absent" => item'[k] # "absent") => HandsPresent(w)'
    BY <1>1, <2>1, <2>2 DEF HandsPresent
  <2> QED
    BY <1>1, <2>1, <2>2, <2>3, ItemWritten
<1>4. CASE EndQueuePass(w)
  <2>1. /\ UNCHANGED <<item, task, aria2Vars, notified>> /\ MovesOwing(w)
        /\ job'[w].at \in {"list", "idle"}
    BY <1>1, <1>4 DEF EndQueuePass, AfterQueue, Rest, MovesOwing, dbVars, TypeInv, TypeOK
  <2> QED
    BY <1>1, <2>1, QuietMove DEF HandsPresent
<1> QED
  BY <1>2, <1>3, <1>4 DEF QueueStep

LEMMA ClickBooks ==
  ASSUME TypeInv, Present, NEW w \in ItemSubmits,
         (\E i \in Items : ReadItem(w, i)) \/ MarkRead(w) \/ ResolveFails(w)
  PROVE  Present' /\ Books
<1>1. /\ w \in Workers /\ job[w] \in Job /\ HandsPresent(w) /\ WellFormed(job[w])
      /\ w \notin QueuePasses
  BY WorkersAssumption DEF TypeInv, WellFormed, Workers, Present
<1>2. ASSUME NEW i \in Items, ReadItem(w, i) PROVE Present' /\ Books
  <2>1. /\ UNCHANGED <<item, task, aria2Vars, notified>> /\ MovesOwing(w)
        /\ job'[w].cur = i /\ item[i] # "absent"
    BY <1>1, <1>2 DEF ReadItem, MovesOwing, dbVars, TypeInv, TypeOK, Job
  <2> QED
    BY <1>1, <2>1, QuietMove DEF HandsPresent
<1>3. CASE MarkRead(w)
  <2>0. PICK i : i = job[w].cur
    OBVIOUS
  <2>1. /\ item' = [item EXCEPT ![i] = "submitting"] /\ UNCHANGED <<task, aria2Vars, notified>>
        /\ MovesOwing(w) /\ i \in Items /\ item[i] # "absent"
        /\ job'[w].at = "adduri" /\ job'[w].cur = i
    BY <1>1, <1>3, <2>0 DEF MarkRead, MovesOwing, TypeInv, TypeOK, Job, WellFormed, HandsPresent
  <2>2. (\A k \in Items : item[k] # "absent" => item'[k] # "absent") => HandsPresent(w)'
    BY <1>1, <2>1 DEF HandsPresent
  <2> QED
    BY <1>1, <2>1, <2>2, ItemWritten
<1>4. CASE ResolveFails(w)
  <2>1. /\ UNCHANGED <<item, task, aria2Vars, notified>> /\ MovesOwing(w)
        /\ job'[w].at = "idle"
    BY <1>1, <1>4 DEF ResolveFails, Rest, MovesOwing, dbVars, TypeInv, TypeOK
  <2> QED
    BY <1>1, <2>1, QuietMove DEF HandsPresent
<1> QED
  BY <1>2, <1>3, <1>4

\* A worker that submits keeps its item and its snapshot.
LEMMA StillSubmitting ==
  ASSUME NEW w \in Workers, HandsPresent(w), item' = item,
         job[w].at \in {"adduri", "record"}, job'[w].at = "record",
         job'[w].cur = job[w].cur, job'[w].todo = job[w].todo
  PROVE  HandsPresent(w)'
BY DEF HandsPresent

LEMMA SubmitBooks ==
  ASSUME TypeInv, GidInv, Present, NEW w \in QueuePasses \cup ItemSubmits,
         SubmitStep(w) \/ AddURIFails(w) \/ RecordFails(w)
  PROVE  Present' /\ Books
<1>1. w \in Workers /\ job[w] \in Job /\ HandsPresent(w) /\ WellFormed(job[w])
  BY DEF TypeInv, WellFormed, Workers, Present
<1>2. ASSUME NEW g \in Gids, AddURI(w, g) PROVE Present' /\ Books
  <2>1. /\ phase[g] = "unused" /\ phase' = [phase EXCEPT ![g] = "active"]
        /\ UNCHANGED <<item, task, follow, purged, notified>> /\ MovesOwing(w)
        /\ job[w].at = "adduri" /\ job'[w].at = "record"
        /\ job'[w].cur = job[w].cur /\ job'[w].todo = job[w].todo
    BY <1>1, <1>2 DEF AddURI, MovesOwing, dbVars, TypeInv, TypeOK, Job
  <2> QED
    BY <1>1, <2>1, StillSubmitting, AddedUnseen
<1>3. CASE AddURIRefused(w) \/ AddURIFails(w)
  <2>1. /\ UNCHANGED <<item, task, follow, purged, notified>> /\ MovesOwing(w)
        /\ job[w].at = "adduri" /\ job'[w].at = "record"
        /\ job'[w].cur = job[w].cur /\ job'[w].todo = job[w].todo
    BY <1>1, <1>3 DEF AddURIRefused, AddURIFails, MovesOwing, dbVars, aria2Vars, TypeInv, TypeOK, Job
  <2>2. HandsPresent(w)'
    BY <1>1, <2>1, StillSubmitting
  <2>3. \/ phase' = phase
        \/ \E g \in Gids : phase[g] = "unused" /\ phase' = [phase EXCEPT ![g] = "active"]
    BY <1>3 DEF AddURIRefused, AddURIFails, aria2Vars
  <2>4. CASE phase' = phase
    BY <1>1, <2>1, <2>2, <2>4, QuietMove DEF aria2Vars
  <2> QED
    BY <1>1, <2>1, <2>2, <2>3, <2>4, AddedUnseen
<1>4. CASE RecordFailed(w)
  <2>0. PICK i : i = job[w].cur
    OBVIOUS
  <2>1. /\ item' = [item EXCEPT ![i] = "failed"] /\ UNCHANGED <<task, aria2Vars, notified>>
        /\ job[w].at = "record" /\ i \in Items /\ item[i] # "absent"
        /\ job'[w].at = Resume(w) /\ job'[w].todo = job[w].todo
        /\ \A v \in Workers \ {w} : job'[v] = job[v]
    BY <1>1, <1>4, <2>0 DEF RecordFailed, Back, TypeInv, TypeOK, Job, WellFormed, HandsPresent
  <2>2. MovesOwing(w)
    BY <2>1 DEF MovesOwing, Resume
  <2>3. (\A k \in Items : item[k] # "absent" => item'[k] # "absent") => HandsPresent(w)'
    BY <1>1, <2>1 DEF HandsPresent, Resume
  <2> QED
    BY <1>1, <2>1, <2>2, <2>3, ItemWritten
<1>5. CASE RecordFails(w)
  <2>1. /\ UNCHANGED <<item, task, aria2Vars, notified>> /\ job[w].at = "record"
        /\ \A v \in Workers \ {w} : job'[v] = job[v]
    BY <1>5 DEF RecordFails, dbVars, TypeInv, TypeOK
  <2>2. \/ job'[w].at = AfterQueue(w)
        \/ job'[w].at = Resume(w) /\ job'[w].todo = job[w].todo
    <3>1. CASE job' = [job EXCEPT ![w] = [Rest EXCEPT !.at = AfterQueue(w)]]
      BY <1>1, <3>1 DEF Rest, TypeInv, TypeOK
    <3>2. CASE job' = [job EXCEPT ![w] = Back(w, Resume(w))]
      BY <1>1, <3>2 DEF Back, TypeInv, TypeOK, Job
    <3> QED
      BY <1>5, <3>1, <3>2 DEF RecordFails
  <2>3. MovesOwing(w) /\ HandsPresent(w)'
    BY <1>1, <2>1, <2>2 DEF MovesOwing, HandsPresent, AfterQueue, Resume
  <2> QED
    BY <1>1, <2>1, <2>3, QuietMove
<1> QED
  BY <1>2, <1>3, <1>4, <1>5, RecordBooks DEF SubmitStep

\* A worker that leaves the tables alone and holds no item afterwards.
LEMMA EmptyHands ==
  ASSUME TypeInv, Present, NEW w \in Workers, UNCHANGED <<item, task, aria2Vars, notified>>,
         MovesOwing(w), job'[w].at \in {"idle", "list", "scan", "switch", "decide", "finish"}
  PROVE  Present' /\ Books
BY QuietMove DEF HandsPresent

\* The worker that polls a task goes on scanning, or has an end to record.
LEMMA Turned ==
  ASSUME TypeInv, NEW w \in Workers, NEW t, Taken(w, t) \in Job, Taken(w, t).at = "scan",
         \/ job' = [job EXCEPT ![w] = Taken(w, t)]
         \/ \E says : job' = [job EXCEPT ![w] = [Taken(w, t) EXCEPT !.at = "finish",
                                                !.cur = t, !.says = says]]
  PROVE  job'[w].at \in {"scan", "finish"} /\ \A v \in Workers \ {w} : job'[v] = job[v]
<1> DEFINE T == Taken(w, t)
<1>1. T.at = "scan" /\ T \in Job
  OBVIOUS
<1>2. \/ job' = [job EXCEPT ![w] = T]
      \/ \E says : job' = [job EXCEPT ![w] = [T EXCEPT !.at = "finish", !.cur = t, !.says = says]]
  OBVIOUS
<1> HIDE DEF T
<1>3. CASE job' = [job EXCEPT ![w] = T]
  BY <1>1, <1>3 DEF TypeInv, TypeOK
<1>4. ASSUME NEW says, job' = [job EXCEPT ![w] = [T EXCEPT !.at = "finish", !.cur = t,
                                                        !.says = says]]
      PROVE  job'[w].at \in {"scan", "finish"} /\ \A v \in Workers \ {w} : job'[v] = job[v]
  BY <1>1, <1>4 DEF TypeInv, TypeOK, Job
<1> QED
  BY <1>2, <1>3, <1>4

LEMMA PollBooks ==
  ASSUME TypeInv, GidInv, GidInv', Present, NEW w \in SyncPasses,
         \/ SyncStep(w) \/ SyncPassFails(w)
         \/ \E t \in Tasks : TellStatusFails(w, t)
  PROVE  Present' /\ Books
<1>1. w \in Workers /\ job[w] \in Job
  BY DEF TypeInv, WellFormed, Workers
<1>2. CASE ListSubmitted(w) \/ EndSyncPass(w) \/ SyncPassFails(w)
  <2>1. /\ UNCHANGED <<item, task, aria2Vars, notified>> /\ MovesOwing(w)
        /\ job'[w].at \in {"idle", "scan"}
    <3>1. CASE ListSubmitted(w)
      BY <1>1, <3>1 DEF ListSubmitted, MovesOwing, dbVars, TypeInv, TypeOK, Job
    <3>2. CASE EndSyncPass(w) \/ SyncPassFails(w)
      BY <1>1, <3>2 DEF EndSyncPass, SyncPassFails, MovesOwing, dbVars, TypeInv, TypeOK, Rest
    <3> QED
      BY <1>2, <3>1, <3>2
  <2> QED
    BY <1>1, <2>1, EmptyHands
<1>3. ASSUME NEW t \in Tasks, TellStatusNotFound(w, t) \/ TellStatusFails(w, t)
      PROVE  Present' /\ Books
  <2>1. Taken(w, t) \in Job /\ Taken(w, t).at = "scan" /\ job[w].at = "scan"
    BY <1>1, <1>3 DEF TellStatusNotFound, TellStatusFails, Taken, Job
  <2>2. /\ UNCHANGED <<item, task, aria2Vars, notified>>
        /\ \A v \in Workers \ {w} : job'[v] = job[v]
        /\ job'[w].at \in {"scan", "finish"}
    <3>1. CASE TellStatusNotFound(w, t)
      BY <1>1, <2>1, <3>1, Turned DEF TellStatusNotFound, dbVars
    <3>2. CASE TellStatusFails(w, t)
      BY <1>1, <2>1, <3>2, Turned DEF TellStatusFails, dbVars
    <3> QED
      BY <1>3, <3>1, <3>2
  <2> QED
    BY <1>1, <2>1, <2>2, EmptyHands DEF MovesOwing
<1>4. ASSUME NEW t \in Tasks, TellStatus(w, t) PROVE Present' /\ Books
  <2>0. PICK s, e : s = job[w].seen[t] /\ e = Effective(s)
    OBVIOUS
  <2>1. Taken(w, t) \in Job /\ Taken(w, t).at = "scan" /\ job[w].at = "scan"
    BY <1>1, <1>4 DEF TellStatus, Taken, Job
  <2>2. /\ UNCHANGED <<item, aria2Vars, notified>>
        /\ \A v \in Workers \ {w} : job'[v] = job[v]
        /\ job'[w].at \in {"scan", "finish"}
    <3>1. \/ job' = [job EXCEPT ![w] = Taken(w, t)]
          \/ \E says : job' = [job EXCEPT ![w] = [Taken(w, t) EXCEPT !.at = "finish",
                                                 !.cur = t, !.says = says]]
      BY <1>4 DEF TellStatus
    <3>2. UNCHANGED <<item, aria2Vars, notified>>
      BY <1>4 DEF TellStatus
    <3> QED
      BY <1>1, <2>1, <3>1, <3>2, Turned
  <2>3. MovesOwing(w) /\ HandsPresent(w)'
    BY <2>1, <2>2 DEF MovesOwing, HandsPresent
  <2>4. task' = IF e = s THEN task ELSE [task EXCEPT ![t].gid = e]
    BY <1>4, <2>0 DEF TellStatus
  <2>5. CASE e = s
    BY <1>1, <2>2, <2>3, <2>4, <2>5, QuietMove
  <2>6. CASE e # s
    <3>1. s \in Gids /\ StillNames(t, s) /\ Used(t)
      BY <1>1, <1>4, <2>0, <2>1 DEF TellStatus, IsNext, GidInv, ReadsOK, StillNames
    <3>2. e \in Gids /\ e = follow[s] /\ e \in {task[t].gid, follow[task[t].gid]}
      BY <2>0, <2>6, <3>1 DEF Effective, StillNames
    <3> QED
      BY <1>1, <2>2, <2>3, <2>4, <2>6, <3>1, <3>2, SwitchUnseen
  <2> QED
    BY <2>5, <2>6
<1> QED
  BY <1>2, <1>3, <1>4 DEF SyncStep

LEMMA HookBooks ==
  ASSUME TypeInv, GidInv, GidInv', Present, NEW w \in Hooks, HookStep(w)
  PROVE  Present' /\ Books
<1>1. w \in Workers /\ job[w] \in Job /\ WellFormed(job[w])
  BY DEF TypeInv, WellFormed, Workers
<1>2. ASSUME NEW g \in Gids, NEW event, NEW t \in Tasks,
             HookFindsTask(w, g, event, t) \/ HookFindsParent(w, g, event, t)
      PROVE  Present' /\ Books
  <2>1. /\ UNCHANGED <<item, task, aria2Vars, notified>>
        /\ \A v \in Workers \ {w} : job'[v] = job[v]
        /\ job[w].at = "idle" /\ job'[w].at \in {"switch", "decide", "finish"}
    <3>1. CASE HookFindsTask(w, g, event, t)
      BY <1>1, <3>1 DEF HookFindsTask, AfterLookup, dbVars, TypeInv, TypeOK, Job
    <3>2. CASE HookFindsParent(w, g, event, t)
      BY <1>1, <3>2 DEF HookFindsParent, dbVars, TypeInv, TypeOK, Job
    <3> QED
      BY <1>2, <3>1, <3>2
  <2> QED
    BY <1>1, <2>1, EmptyHands DEF MovesOwing
<1>3. CASE HookSwitchesGid(w)
  <2>0. PICK t, e : t = job[w].cur /\ e = job[w].gid
    OBVIOUS
  <2>1. /\ UNCHANGED <<item, aria2Vars, notified>> /\ task' = [task EXCEPT ![t].gid = e]
        /\ \A v \in Workers \ {w} : job'[v] = job[v]
        /\ job[w].at = "switch"
    BY <1>3, <2>0 DEF HookSwitchesGid, TypeInv, TypeOK
  <2>2. job'[w].at \in {"idle", "decide", "finish"}
    BY <1>1, <1>3 DEF HookSwitchesGid, AfterLookup, Rest, TypeInv, TypeOK, Job
  <2>3. t \in Tasks /\ e \in Gids /\ Used(t) /\ e \in {task[t].gid, follow[task[t].gid]}
    BY <1>1, <2>0, <2>1 DEF WellFormed, GidInv, ReadsOK, EndsIn, Reaches
  <2>4. MovesOwing(w) /\ HandsPresent(w)'
    BY <2>1, <2>2 DEF MovesOwing, HandsPresent
  <2> QED
    BY <1>1, <2>1, <2>3, <2>4, SwitchUnseen
<1>4. ASSUME NEW path, HookDecides(w, path) PROVE Present' /\ Books
  <2>1. /\ UNCHANGED <<item, task, aria2Vars, notified>>
        /\ \A v \in Workers \ {w} : job'[v] = job[v]
        /\ job[w].at = "decide" /\ job'[w].at \in {"idle", "finish"}
    BY <1>1, <1>4 DEF HookDecides, Rest, dbVars, TypeInv, TypeOK, Job
  <2> QED
    BY <1>1, <2>1, EmptyHands DEF MovesOwing
<1> QED
  BY <1>2, <1>3, <1>4 DEF HookStep

LEMMA EditBooks ==
  ASSUME TypeInv, Present, NEW w \in Editors,
         (\E i \in Items, target \in {"pending", "submitted"} : BatchRead(w, i, target))
           \/ BatchWrite(w)
  PROVE  Present' /\ Books
<1>1. /\ w \in Workers /\ job[w] \in Job /\ HandsPresent(w) /\ WellFormed(job[w])
      /\ w \notin QueuePasses
  BY WorkersAssumption DEF TypeInv, WellFormed, Workers, Present
<1>2. ASSUME NEW i \in Items, NEW target, BatchRead(w, i, target) PROVE Present' /\ Books
  <2>1. /\ UNCHANGED <<item, task, aria2Vars, notified>> /\ MovesOwing(w)
        /\ job'[w].cur = i /\ item[i] # "absent"
    BY <1>1, <1>2 DEF BatchRead, MovesOwing, dbVars, TypeInv, TypeOK, Job
  <2> QED
    BY <1>1, <2>1, QuietMove DEF HandsPresent
<1>3. CASE BatchWrite(w)
  <2>0. PICK i, s : i = job[w].cur /\ s = job[w].says
    OBVIOUS
  <2>1. /\ item' = [item EXCEPT ![i] = s] /\ UNCHANGED <<task, aria2Vars, notified>>
        /\ MovesOwing(w) /\ i \in Items /\ item[i] # "absent"
        /\ s \in {"pending", "submitted", "skipped"} /\ job'[w].at = "idle"
    BY <1>1, <1>3, <2>0 DEF BatchWrite, MovesOwing, Rest, TypeInv, TypeOK, WellFormed, HandsPresent
  <2> QED
    BY <1>1, <2>1, ItemWritten DEF HandsPresent
<1> QED
  BY <1>2, <1>3

LEMMA FailureBooks ==
  ASSUME TypeInv, GidInv, GidInv', Present, Failure
  PROVE  Present' /\ Books
<1>1. CASE Crash \/ \E w \in Requests : ClientGone(w)
  BY <1>1, AbandonBooks DEF Crash, ClientGone, Requests
<1>2. ASSUME NEW w \in QueuePasses, QueuePassFails(w) PROVE Present' /\ Books
  <2>1. /\ w \in Workers /\ UNCHANGED <<item, task, aria2Vars, notified>> /\ MovesOwing(w)
        /\ job'[w].at \in {"list", "idle"}
    BY <1>2 DEF QueuePassFails, AfterQueue, Rest, MovesOwing, dbVars, TypeInv, TypeOK, Workers
  <2> QED
    BY <2>1, EmptyHands
<1>3. ASSUME NEW w \in SyncPasses \cup Hooks, FinishFails(w) PROVE Present' /\ Books
  <2>1. w \in Workers /\ job[w] \in Job
    BY DEF TypeInv, WellFormed, Workers
  <2>2. /\ UNCHANGED <<item, task, aria2Vars, notified>> /\ MovesOwing(w)
        /\ job'[w].at \in {"scan", "idle"}
    BY <1>3, <2>1 DEF FinishFails, Back, AfterFinish, MovesOwing, dbVars, TypeInv, TypeOK, Job
  <2> QED
    BY <2>1, <2>2, EmptyHands
<1> QED
  BY <1>1, <1>2, <1>3, SubmitBooks, PollBooks DEF Failure

LEMMA LedgerStep ==
  ASSUME LedgerInv, [Next]_vars
  PROVE  LedgerInv' /\ Books
<1> USE DEF LedgerInv
<1>1. TypeInv' /\ GidInv' /\ EndInv'
  BY TypeStep, GidStep, EndStep
<1>2. CASE UNCHANGED vars
  <2>1. UNCHANGED <<item, task, aria2Vars, job, notified>>
    BY <1>2 DEF vars, dbVars
  <2>2. \A t \in Tasks : RowOf(t)' = RowOf(t) /\ FateOf(t)' = FateOf(t)
    BY <2>1 DEF RowOf, FateOf, Forgotten, NotFound, Effective, aria2Vars
  <2> QED
    BY <1>1, <2>1, <2>2, PresentStays, DueStays, Unseen DEF Used
<1>3. ASSUME NEW w \in SyncPasses \cup Hooks, FinishStep(w) PROVE Present' /\ Books
  BY <1>3, FinishBooks, NotifyBooks DEF FinishStep
<1>4. CASE Next
  BY <1>1, <1>3, <1>4, SaveBooks, QueueBooks, ClickBooks, SubmitBooks, PollBooks, HookBooks,
     EditBooks, Aria2Books, FailureBooks DEF Next
<1> QED
  BY <1>1, <1>2, <1>4

LEMMA LedgerInit ==
  ASSUME Init
  PROVE  LedgerInv /\ Ledger!Init
<1>1. EndInv
  BY IdsAssumption DEF Init, EndInv, EndedStages, Knows, Closed, Rest, FreeRow
<1>2. Present
  BY DEF Init, Present, HandsPresent, Used, FreeRow, Rest
<1>3. StageOf = [i \in Items |-> "absent"]
  BY DEF StageOf, Stage, Init
<1>4. /\ TaskRows = [t \in Tasks |-> Ledger!Unused]
      /\ FateRows = [t \in Tasks |-> Ledger!Unknown]
  BY DEF TaskRows, RowOf, FateRows, FateOf, Init, FreeRow, Ledger!Unused, Ledger!Unknown
<1>5. Due = {}
  BY DEF Due, Init, Rest
<1>6. notified = [t \in Tasks |-> 0]
  BY DEF Init
<1> QED
  BY <1>1, <1>2, <1>3, <1>4, <1>5, <1>6, TypeInit, GidInit DEF LedgerInv, Ledger!Init

\* Whatever clicks, passes, hooks and edits overlap and whatever is killed, the
\* books are kept: each row has a download of its own, whose fate it keeps when it
\* moves from gid to gid, is closed only for what that fate allows, together with
\* its item, and each closing is announced at most once (internal/app/service.go,
\* service_sync.go, service_hook.go, internal/store/download_sync.go).
THEOREM ImplementsLedger == Spec => KeepsLedger
<1>1. Init => LedgerInv /\ Ledger!Init
  BY LedgerInit
<1>2. LedgerInv /\ [Next]_vars => LedgerInv' /\ [Ledger!Next]_(Ledger!vars)
  BY LedgerStep DEF Books
<1> QED
  BY <1>1, <1>2, PTL DEF Spec, KeepsLedger, Ledger!Spec

=============================================================================
