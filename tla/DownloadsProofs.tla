--------------------------- MODULE DownloadsProofs ---------------------------
(***************************************************************************)
(* Theorems about Downloads for every value of its constants.              *)
(*                                                                         *)
(* Types are kept, and an item that is being submitted is in somebody's    *)
(* hands.  Two tasks never own the same aria2 download, although polling   *)
(* passes and hooks move a task from the gid of a magnet's metadata to     *)
(* that of its content on the strength of what they have read some time    *)
(* before.  The rows agree with the items, every download is accounted     *)
(* for, and a row is closed only for an end that its download has come to. *)
(* What aria2 answers of a download is read for what it is: here the sums  *)
(* of Aria2Answers are reasoned about, over any number of files.           *)
(***************************************************************************)
EXTENDS DownloadsAnswers, FiniteSetTheorems, WellFoundedInduction, TLAPS

\* What TypeOK needs to be inductive: a worker that is about to write an item or
\* a task has one, and an editor holds one of the statuses it may write.
WellFormed(j) ==
  /\ j \in Job
  /\ j.at \in {"mark", "adduri", "record", "edit"} => j.cur \in Items
  /\ j.at \in {"switch", "decide", "finish", "notify"} => j.cur \in Tasks
  /\ j.at = "edit" => j.says \in {"pending", "submitted", "skipped"}

TypeInv == TypeOK /\ \A w \in Workers : WellFormed(job[w])

-----------------------------------------------------------------------------
(* What the parts of a worker's record can be replaced by.                 *)

LEMMA RestIsWellFormed ==
  ASSUME NEW p \in {"idle", "list"}
  PROVE  WellFormed(Rest) /\ WellFormed([Rest EXCEPT !.at = p])
BY DEF WellFormed, Rest, Job, Places, Says

\* A worker that goes back to its snapshot.
LEMMA BackIsWellFormed ==
  ASSUME TypeInv, NEW w \in Workers, NEW p \in {"idle", "next", "scan"}
  PROVE  WellFormed(Back(w, p))
BY DEF TypeInv, WellFormed, Back, Job, Places, Says

LEMMA TakenIsWellFormed ==
  ASSUME TypeInv, NEW w \in Workers, NEW t \in Tasks, job[w].at = "scan"
  PROVE  /\ WellFormed(Taken(w, t))
         /\ \A s \in Says : WellFormed([Taken(w, t) EXCEPT !.at = "finish", !.cur = t,
                                                           !.says = s])
<1>1. job[w] \in Job
  BY DEF TypeInv, WellFormed
<1>2. Taken(w, t) \in Job /\ Taken(w, t).at = "scan"
  BY <1>1 DEF Taken, Job
<1>3. WellFormed(Taken(w, t))
  BY <1>2 DEF WellFormed
<1>4. ASSUME NEW s \in Says
      PROVE  WellFormed([Taken(w, t) EXCEPT !.at = "finish", !.cur = t, !.says = s])
  <2>1. t \in Nat
    BY DEF Tasks
  <2>2. [Taken(w, t) EXCEPT !.at = "finish", !.cur = t, !.says = s] \in Job
    BY <1>2, <2>1 DEF Job, Places
  <2> QED BY <1>2, <2>2 DEF WellFormed, Job
<1> QED BY <1>3, <1>4

\* A step that replaces the record of one worker by a well-formed one.
LEMMA JobMoves ==
  ASSUME TypeInv, NEW w \in Workers, NEW j, WellFormed(j),
         job' = [job EXCEPT ![w] = j]
  PROVE  /\ job' \in [Workers -> Job]
         /\ \A v \in Workers : WellFormed(job'[v])
         /\ job'[w] = j
BY DEF TypeInv, TypeOK, WellFormed

LEMMA TypeInit == Init => TypeInv
<1> SUFFICES ASSUME Init PROVE TypeInv
  OBVIOUS
<1>1. TypeOK
  BY RestIsWellFormed, IdsAssumption, BoundsAssumption
  DEF Init, TypeOK, WellFormed, FreeRow, TaskRow, ItemStatus, TaskStatus, Phase
<1>2. \A w \in Workers : WellFormed(job[w])
  BY RestIsWellFormed DEF Init, Rest
<1> QED BY <1>1, <1>2 DEF TypeInv

-----------------------------------------------------------------------------
(* Type correctness is inductive: one step per action.                     *)

LEMMA AbandonTypes ==
  ASSUME TypeInv, NEW W \in SUBSET Workers, Abandon(W)
  PROVE  /\ lost' \subseteq Items /\ leaked' \subseteq Gids
         /\ job' \in [Workers -> Job]
         /\ \A v \in Workers : WellFormed(job'[v])
<1>1. \A v \in Workers : InFlight(v) => job[v].cur \in Items
  BY DEF TypeInv, WellFormed, InFlight
<1>2. \A v \in Workers : job[v].gid \in Gids \cup {NoGid}
  BY DEF TypeInv, WellFormed, Job
<1>3. \A v \in Workers : WellFormed(job'[v])
  BY RestIsWellFormed DEF Abandon, TypeInv
<1>4. job' \in [Workers -> Job]
  BY <1>3 DEF Abandon, WellFormed
<1> QED BY <1>1, <1>2, <1>3, <1>4 DEF Abandon, TypeInv, TypeOK

LEMMA TypeStep ==
  ASSUME TypeInv, [Next]_vars
  PROVE  TypeInv'
<1> USE DEF Workers
<1>1. ASSUME NEW i \in Items, NEW previewOnly \in BOOLEAN, SaveFeedItem(i, previewOnly)
       PROVE  TypeInv'
  BY <1>1 DEF SaveFeedItem, TypeInv, TypeOK, dbVars, aria2Vars, histVars, Phase,
    ItemStatus
<1>2. ASSUME NEW w \in QueuePasses, ListPending(w) PROVE TypeInv'
  <2> DEFINE j == [job[w] EXCEPT !.at = "next", !.todo = FirstByID(Pending, QueueLimit)]
  <2>1. WellFormed(j)
    BY IdsAssumption DEF TypeInv, WellFormed, Job, Places, Says, Tasks, FirstByID,
      Pending
  <2>2. job' = [job EXCEPT ![w] = j]
    BY <1>2 DEF ListPending
  <2> HIDE DEF j
  <2> QED BY <1>2, <2>1, <2>2, JobMoves DEF ListPending, TypeInv, TypeOK, dbVars, aria2Vars,
    histVars
<1>3. ASSUME NEW w \in QueuePasses, NEW i \in Items, MarkNext(w, i) PROVE TypeInv'
  <2> DEFINE j == [job[w] EXCEPT !.at = "adduri", !.cur = i, !.todo = job[w].todo \ {i}]
  <2>1. WellFormed(j)
    BY IdsAssumption DEF TypeInv, WellFormed, Job, Places, Says, Tasks
  <2>2. job' = [job EXCEPT ![w] = j]
    BY <1>3 DEF MarkNext
  <2>3. item' \in [Items -> ItemStatus]
    BY <1>3 DEF MarkNext, TypeInv, TypeOK, ItemStatus
  <2> HIDE DEF j
  <2> QED BY <1>3, <2>1, <2>2, <2>3, JobMoves DEF MarkNext, TypeInv, TypeOK, dbVars,
    aria2Vars, histVars, Overwritten
<1>4. ASSUME NEW w \in QueuePasses, EndQueuePass(w) PROVE TypeInv'
  <2> DEFINE j == [Rest EXCEPT !.at = AfterQueue(w)]
  <2>1. WellFormed(j)
    BY RestIsWellFormed DEF AfterQueue
  <2>2. job' = [job EXCEPT ![w] = j]
    BY <1>4 DEF EndQueuePass
  <2> HIDE DEF j
  <2> QED BY <1>4, <2>1, <2>2, JobMoves DEF EndQueuePass, TypeInv, TypeOK, dbVars,
    aria2Vars, histVars
<1>5. ASSUME NEW w \in ItemSubmits, NEW i \in Items, ReadItem(w, i) PROVE TypeInv'
  <2> DEFINE j == [job[w] EXCEPT !.at = "mark", !.cur = i]
  <2>1. WellFormed(j)
    BY IdsAssumption DEF TypeInv, WellFormed, Job, Places, Says, Tasks
  <2>2. job' = [job EXCEPT ![w] = j]
    BY <1>5 DEF ReadItem
  <2> HIDE DEF j
  <2> QED BY <1>5, <2>1, <2>2, JobMoves DEF ReadItem, TypeInv, TypeOK, dbVars, aria2Vars,
    histVars
<1>6. ASSUME NEW w \in ItemSubmits, MarkRead(w) PROVE TypeInv'
  <2> DEFINE j == [job[w] EXCEPT !.at = "adduri"]
  <2>1. WellFormed(j)
    BY <1>6 DEF MarkRead, TypeInv, WellFormed, Job, Places, Says, Tasks
  <2>2. job' = [job EXCEPT ![w] = j]
    BY <1>6 DEF MarkRead
  <2>3. item' \in [Items -> ItemStatus]
    BY <1>6 DEF MarkRead, TypeInv, TypeOK, ItemStatus
  <2> HIDE DEF j
  <2> QED BY <1>6, <2>1, <2>2, <2>3, JobMoves DEF MarkRead, TypeInv, TypeOK, dbVars,
    aria2Vars, histVars, Overwritten
<1>7. ASSUME NEW w \in ItemSubmits, ResolveFails(w) PROVE TypeInv'
  <2>1. job' = [job EXCEPT ![w] = Rest] /\ WellFormed(Rest)
    BY <1>7, RestIsWellFormed DEF ResolveFails
  <2> QED BY <1>7, <2>1, JobMoves DEF ResolveFails, TypeInv, TypeOK, dbVars, aria2Vars,
    histVars
<1>8. ASSUME NEW w \in QueuePasses \cup ItemSubmits, NEW g \in Gids, AddURI(w, g)
       PROVE  TypeInv'
  <2> DEFINE j == [job[w] EXCEPT !.at = "record", !.gid = g]
  <2>0. job[w] \in Job /\ job[w].cur \in Items
    BY <1>8 DEF AddURI, TypeInv, WellFormed
  <2>1. WellFormed(j)
    BY <2>0 DEF WellFormed, Job, Places
  <2>2. job' = [job EXCEPT ![w] = j]
    BY <1>8 DEF AddURI
  <2>3. phase' \in [Gids -> Phase]
    BY <1>8 DEF AddURI, TypeInv, TypeOK, Phase
  <2> HIDE DEF j
  <2> QED BY <1>8, <2>1, <2>2, <2>3, JobMoves DEF AddURI, TypeInv, TypeOK, dbVars,
    aria2Vars, histVars
<1>9. ASSUME NEW w \in QueuePasses \cup ItemSubmits, AddURIRefused(w) PROVE TypeInv'
  <2> DEFINE j == [job[w] EXCEPT !.at = "record"]
  <2>1. WellFormed(j)
    BY <1>9 DEF AddURIRefused, TypeInv, WellFormed, Job, Places, Says, Tasks
  <2>2. job' = [job EXCEPT ![w] = j]
    BY <1>9 DEF AddURIRefused
  <2> HIDE DEF j
  <2> QED BY <1>9, <2>1, <2>2, JobMoves DEF AddURIRefused, TypeInv, TypeOK, dbVars,
    aria2Vars, histVars
<1>10. ASSUME NEW w \in QueuePasses \cup ItemSubmits, RecordSubmitted(w)
       PROVE  TypeInv'
  <2> DEFINE j == Back(w, Resume(w))
  <2>1. WellFormed(j)
    BY BackIsWellFormed DEF Resume
  <2>2. job' = [job EXCEPT ![w] = j]
    BY <1>10 DEF RecordSubmitted
  <2>3. job[w].cur \in Items /\ job[w].gid \in Gids \cup {NoGid}
    BY <1>10 DEF RecordSubmitted, TypeInv, WellFormed, Job
  <2>4. [item |-> job[w].cur, gid |-> job[w].gid, status |-> "submitted"] \in TaskRow
    BY <1>10, <2>3 DEF TaskRow, TaskStatus
  <2>5. task' \in [Tasks -> TaskRow]
    BY <1>10, <2>4 DEF RecordSubmitted, TypeInv, TypeOK
  <2>6. item' \in [Items -> ItemStatus]
    BY <1>10, <2>3 DEF RecordSubmitted, TypeInv, TypeOK, ItemStatus
  <2>7. lastTask' \in 0..MaxTasks
    BY <1>10, IdsAssumption DEF RecordSubmitted, TypeInv, TypeOK
  <2> HIDE DEF j
  <2> QED BY <1>10, <2>1, <2>2, <2>3, <2>4, <2>5, <2>6, <2>7, JobMoves DEF RecordSubmitted,
    TypeInv, TypeOK, dbVars, aria2Vars, histVars, Overwritten
<1>11. ASSUME NEW w \in QueuePasses \cup ItemSubmits, RecordFailed(w) PROVE TypeInv'
  <2> DEFINE j == Back(w, Resume(w))
  <2>1. WellFormed(j)
    BY BackIsWellFormed DEF Resume
  <2>2. job' = [job EXCEPT ![w] = j]
    BY <1>11 DEF RecordFailed
  <2>3. job[w].cur \in Items
    BY <1>11 DEF RecordFailed, TypeInv, WellFormed
  <2>4. item' \in [Items -> ItemStatus] /\ rejected' \subseteq Items
    BY <1>11, <2>3 DEF RecordFailed, TypeInv, TypeOK, ItemStatus
  <2> HIDE DEF j
  <2> QED BY <1>11, <2>1, <2>2, <2>3, <2>4, JobMoves DEF RecordFailed, TypeInv, TypeOK,
    dbVars, aria2Vars, histVars, Overwritten
<1>12. ASSUME NEW w \in SyncPasses, ListSubmitted(w) PROVE TypeInv'
  <2> DEFINE S == FirstByID(Submitted, SyncLimit)
             j == [job[w] EXCEPT !.at = "scan", !.todo = S,
                     !.seen = [t \in Tasks |-> IF t \in S THEN task[t].gid ELSE NoGid]]
  <2>1. S \subseteq Nat
    BY DEF Tasks, FirstByID, Submitted
  <2>2. [t \in Tasks |-> IF t \in S THEN task[t].gid ELSE NoGid]
          \in [Tasks -> Gids \cup {NoGid}]
    BY DEF TypeInv, TypeOK, TaskRow
  <2>3. job' = [job EXCEPT ![w] = j]
    BY <1>12 DEF ListSubmitted
  <2> HIDE DEF S
  <2>4. WellFormed(j)
    BY <2>1, <2>2 DEF TypeInv, WellFormed, Job, Places
  <2> HIDE DEF j
  <2> QED BY <1>12, <2>3, <2>4, JobMoves
    DEF ListSubmitted, TypeInv, TypeOK, dbVars, aria2Vars, histVars
<1>13. ASSUME NEW w \in SyncPasses, NEW t \in Tasks, TellStatusNotFound(w, t)
       PROVE  TypeInv'
  <2> DEFINE j == [Taken(w, t) EXCEPT !.at = "finish", !.cur = t, !.says = "gone"]
  <2>1. WellFormed(j)
    BY <1>13, TakenIsWellFormed DEF TellStatusNotFound, Says
  <2>2. job' = [job EXCEPT ![w] = j]
    BY <1>13 DEF TellStatusNotFound
  <2> HIDE DEF j
  <2> QED BY <1>13, <2>1, <2>2, JobMoves DEF TellStatusNotFound, TypeInv, TypeOK, dbVars,
    aria2Vars, histVars
<1>14. ASSUME NEW w \in SyncPasses, NEW t \in Tasks, TellStatus(w, t) PROVE TypeInv'
  <2> DEFINE e == Effective(job[w].seen[t])
             says == IF phase[e] = "error" THEN "error" ELSE "complete"
             j == [Taken(w, t) EXCEPT !.at = "finish", !.cur = t, !.says = says]
  <2>1. WellFormed(j) /\ WellFormed(Taken(w, t))
    BY <1>14, TakenIsWellFormed DEF TellStatus, Says
  <2>2. job[w].seen[t] \in Gids \cup {NoGid}
    BY DEF TypeInv, WellFormed, Job
  <2>3. e \in Gids \cup {NoGid}
    BY <2>2 DEF Effective
  <2>4. \/ job' = [job EXCEPT ![w] = j]
        \/ job' = [job EXCEPT ![w] = Taken(w, t)]
    BY <1>14 DEF TellStatus
  <2>5. task' = task \/ task' = [task EXCEPT ![t].gid = e]
    BY <1>14 DEF TellStatus
  <2> HIDE DEF e, j
  <2>6. task' \in [Tasks -> TaskRow]
    BY <2>3, <2>5 DEF TypeInv, TypeOK, TaskRow
  <2>7. /\ job' \in [Workers -> Job]
        /\ \A v \in Workers : WellFormed(job'[v])
    BY <2>1, <2>4, JobMoves
  <2> QED BY <1>14, <2>6, <2>7 DEF TellStatus, TypeInv, TypeOK, aria2Vars, histVars
<1>15. ASSUME NEW w \in SyncPasses, EndSyncPass(w) PROVE TypeInv'
  <2>1. job' = [job EXCEPT ![w] = Rest] /\ WellFormed(Rest)
    BY <1>15, RestIsWellFormed DEF EndSyncPass
  <2> QED BY <1>15, <2>1, JobMoves DEF EndSyncPass, TypeInv, TypeOK, dbVars, aria2Vars,
    histVars
<1>16. ASSUME NEW w \in SyncPasses \cup Hooks, Finish(w) PROVE TypeInv'
  <2> DEFINE j == [job[w] EXCEPT !.at = "notify"]
  <2>1. WellFormed(j)
    BY <1>16 DEF Finish, TypeInv, WellFormed, Job, Places, Says, Tasks
  <2>2. job' = [job EXCEPT ![w] = j]
    BY <1>16 DEF Finish
  <2>3. job[w].cur \in Tasks
    BY <1>16 DEF Finish, TypeInv, WellFormed
  <2>4. task[job[w].cur] \in TaskRow
    BY <1>16, <2>3 DEF TypeInv, TypeOK
  <2>5. task' \in [Tasks -> TaskRow]
    BY <1>16, <2>3, <2>4 DEF Finish, TypeInv, TypeOK, TaskRow, TaskStatus
  <2>6. item' \in [Items -> ItemStatus]
    BY <1>16 DEF Finish, TypeInv, TypeOK, ItemStatus
  <2> HIDE DEF j
  <2> QED BY <1>16, <2>1, <2>2, <2>3, <2>4, <2>5, <2>6, JobMoves DEF Finish, TypeInv,
    TypeOK, dbVars, aria2Vars, histVars, Overwritten
<1>17. ASSUME NEW w \in SyncPasses \cup Hooks, Notify(w) PROVE TypeInv'
  <2> DEFINE j == Back(w, AfterFinish(w))
  <2>1. WellFormed(j)
    BY BackIsWellFormed DEF AfterFinish
  <2>2. job' = [job EXCEPT ![w] = j]
    BY <1>17 DEF Notify
  <2>3. job[w].cur \in Tasks
    BY <1>17 DEF Notify, TypeInv, WellFormed
  <2>4. notified' \in [Tasks -> Nat]
    BY <1>17, <2>3 DEF Notify, TypeInv, TypeOK
  <2> HIDE DEF j
  <2> QED BY <1>17, <2>1, <2>2, <2>3, <2>4, JobMoves DEF Notify, TypeInv, TypeOK, dbVars,
    aria2Vars, histVars
<1>18. ASSUME NEW w \in Hooks, NEW g \in Gids, NEW event \in CompleteEvents \cup
              {"error"}, NEW t \in Tasks, HookFindsTask(w, g, event, t)
       PROVE  TypeInv'
  <2> DEFINE j == [job[w] EXCEPT !.at = AfterLookup(event), !.cur = t, !.gid = g,
                                 !.says = event]
  <2>1. event \in Says /\ t \in Nat
    BY BoundsAssumption DEF Says, Tasks
  <2>2. AfterLookup(event) \in {"finish", "decide"}
    BY DEF AfterLookup
  <2>3. WellFormed(j)
    BY <2>1, <2>2 DEF TypeInv, WellFormed, Job, Places
  <2>4. job' = [job EXCEPT ![w] = j]
    BY <1>18 DEF HookFindsTask
  <2> HIDE DEF j
  <2> QED BY <1>18, <2>3, <2>4, JobMoves
    DEF HookFindsTask, TypeInv, TypeOK, dbVars, aria2Vars, histVars
<1>19. ASSUME NEW w \in Hooks, NEW g \in Gids, NEW event \in CompleteEvents \cup
              {"error"}, NEW t \in Tasks, HookFindsParent(w, g, event, t)
       PROVE  TypeInv'
  <2> DEFINE j == [job[w] EXCEPT !.at = "switch", !.cur = t, !.gid = g, !.says = event,
                     !.todo = IF task[t].status = "submitted" THEN {t} ELSE {}]
  <2>1. event \in Says /\ t \in Nat
    BY BoundsAssumption DEF Says, Tasks
  <2>2. WellFormed(j)
    BY <2>1 DEF TypeInv, WellFormed, Job, Places
  <2>3. job' = [job EXCEPT ![w] = j]
    BY <1>19 DEF HookFindsParent
  <2> HIDE DEF j
  <2> QED BY <1>19, <2>2, <2>3, JobMoves
    DEF HookFindsParent, TypeInv, TypeOK, dbVars, aria2Vars, histVars
<1>20. ASSUME NEW w \in Hooks, HookSwitchesGid(w) PROVE TypeInv'
  <2> DEFINE j == IF job[w].todo = {} THEN Rest
                  ELSE [job[w] EXCEPT !.todo = {}, !.at = AfterLookup(job[w].says)]
  <2>1. job[w] \in Job /\ job[w].cur \in Tasks
    BY <1>20 DEF HookSwitchesGid, TypeInv, WellFormed
  <2>2. AfterLookup(job[w].says) \in {"finish", "decide"}
    BY DEF AfterLookup
  <2>3. WellFormed(j)
    BY <2>1, <2>2, RestIsWellFormed DEF WellFormed, Job, Places
  <2>4. job' = [job EXCEPT ![w] = j]
    BY <1>20 DEF HookSwitchesGid
  <2>5. task' \in [Tasks -> TaskRow]
    <3>1. task[job[w].cur] \in TaskRow /\ job[w].gid \in Gids \cup {NoGid}
      BY <2>1 DEF TypeInv, TypeOK, Job
    <3> QED BY <1>20, <2>1, <3>1 DEF HookSwitchesGid, TypeInv, TypeOK, TaskRow
  <2> HIDE DEF j
  <2> QED BY <1>20, <2>3, <2>4, <2>5, JobMoves
    DEF HookSwitchesGid, TypeInv, TypeOK, aria2Vars, histVars
<1>21. ASSUME NEW w \in Hooks, NEW path \in {"entity", "metadata", "none"},
              HookDecides(w, path)
       PROVE  TypeInv'
  <2> DEFINE j == [job[w] EXCEPT !.at = "finish"]
  <2>1. WellFormed(j) /\ WellFormed(Rest)
    BY <1>21, RestIsWellFormed DEF HookDecides, TypeInv, WellFormed, Job, Places
  <2>2. job' = [job EXCEPT ![w] = j] \/ job' = [job EXCEPT ![w] = Rest]
    BY <1>21 DEF HookDecides
  <2> HIDE DEF j
  <2>3. /\ job' \in [Workers -> Job]
        /\ \A v \in Workers : WellFormed(job'[v])
    BY <2>1, <2>2, JobMoves
  <2> QED BY <1>21, <2>3 DEF HookDecides, TypeInv, TypeOK, dbVars, aria2Vars, histVars
<1>22. ASSUME NEW w \in Editors, NEW i \in Items, NEW target \in {"pending",
              "submitted"}, BatchRead(w, i, target)
       PROVE  TypeInv'
  <2> DEFINE j == [job[w] EXCEPT !.at = "edit", !.cur = i,
               !.says = IF target = "submitted" /\ i \in NoUrlItems THEN "skipped" ELSE target]
  <2>0. job[w] \in Job /\ i \in Nat
    BY IdsAssumption DEF TypeInv, WellFormed
  <2>1. WellFormed(j)
    BY <2>0 DEF WellFormed, Job, Places, Says
  <2>2. job' = [job EXCEPT ![w] = j]
    BY <1>22 DEF BatchRead
  <2> HIDE DEF j
  <2> QED BY <1>22, <2>1, <2>2, JobMoves DEF BatchRead, TypeInv, TypeOK, dbVars, aria2Vars,
    histVars
<1>23. ASSUME NEW w \in Editors, BatchWrite(w) PROVE TypeInv'
  <2> DEFINE j == Rest
  <2>1. WellFormed(j)
    BY RestIsWellFormed
  <2>2. job' = [job EXCEPT ![w] = j]
    BY <1>23 DEF BatchWrite
  <2>3. job[w].cur \in Items /\ job[w].says \in ItemStatus
    BY <1>23 DEF BatchWrite, TypeInv, WellFormed, ItemStatus
  <2>4. item' \in [Items -> ItemStatus] /\ edited' \subseteq Items
    BY <1>23, <2>3 DEF BatchWrite, TypeInv, TypeOK
  <2> HIDE DEF j
  <2> QED BY <1>23, <2>1, <2>2, <2>3, <2>4, JobMoves DEF BatchWrite, TypeInv, TypeOK,
    dbVars, aria2Vars, histVars
<1>24. ASSUME NEW g \in Gids, Aria2Completes(g) PROVE TypeInv'
  BY <1>24 DEF Aria2Completes, TypeInv, TypeOK, dbVars, aria2Vars, histVars, Phase,
    ItemStatus
<1>25. ASSUME NEW g \in Gids, Aria2EndsFirstStage(g) PROVE TypeInv'
  <2>1. phase' \in [Gids -> Phase] /\ follow' \in [Gids -> Gids \cup {NoGid}]
    BY <1>25 DEF Aria2EndsFirstStage, TypeInv, TypeOK, Phase
  <2> QED BY <1>25, <2>1 DEF Aria2EndsFirstStage, TypeInv, TypeOK, dbVars, histVars
<1>26. ASSUME NEW g \in Gids, Aria2Errs(g) PROVE TypeInv'
  BY <1>26 DEF Aria2Errs, TypeInv, TypeOK, dbVars, aria2Vars, histVars, Phase,
    ItemStatus, Fault
<1>27. ASSUME NEW g \in Gids, Aria2Removes(g) PROVE TypeInv'
  BY <1>27 DEF Aria2Removes, TypeInv, TypeOK, dbVars, aria2Vars, histVars, Phase,
    ItemStatus
<1>28. ASSUME NEW g \in Gids, Aria2Forgets(g) PROVE TypeInv'
  BY <1>28 DEF Aria2Forgets, TypeInv, TypeOK, dbVars, aria2Vars, histVars, Phase,
    ItemStatus, Fault
<1>29. ASSUME NEW w \in QueuePasses, QueuePassFails(w) PROVE TypeInv'
  <2> DEFINE j == [Rest EXCEPT !.at = AfterQueue(w)]
  <2>1. WellFormed(j)
    BY RestIsWellFormed DEF AfterQueue
  <2>2. job' = [job EXCEPT ![w] = j]
    BY <1>29 DEF QueuePassFails
  <2>3. faults' \in Nat
    BY <1>29 DEF QueuePassFails, Fault, TypeInv, TypeOK
  <2> HIDE DEF j
  <2> QED BY <1>29, <2>1, <2>2, <2>3, JobMoves DEF QueuePassFails, TypeInv, TypeOK, dbVars,
    aria2Vars, histVars
<1>30. ASSUME NEW w \in QueuePasses \cup ItemSubmits, AddURIFails(w) PROVE TypeInv'
  <2> DEFINE j == [job[w] EXCEPT !.at = "record"]
  <2>1. WellFormed(j)
    BY <1>30 DEF AddURIFails, TypeInv, WellFormed, Job, Places, Says, Tasks
  <2>2. job' = [job EXCEPT ![w] = j]
    BY <1>30 DEF AddURIFails
  <2>3. faults' \in Nat
    BY <1>30 DEF AddURIFails, Fault, TypeInv, TypeOK
  <2>4. phase' \in [Gids -> Phase] /\ leaked' \subseteq Gids
    BY <1>30 DEF AddURIFails, TypeInv, TypeOK, Phase
  <2> HIDE DEF j
  <2> QED BY <1>30, <2>1, <2>2, <2>3, <2>4, JobMoves DEF AddURIFails, TypeInv, TypeOK,
    dbVars, aria2Vars, histVars
<1>31. ASSUME NEW w \in QueuePasses \cup ItemSubmits, RecordFails(w) PROVE TypeInv'
  <2>1. job[w].cur \in Items /\ job[w].gid \in Gids \cup {NoGid}
    BY <1>31 DEF RecordFails, TypeInv, WellFormed, Job
  <2>2. /\ faults' \in Nat
        /\ lost' \subseteq Items /\ leaked' \subseteq Gids
    BY <1>31, <2>1 DEF RecordFails, Fault, TypeInv, TypeOK
  <2>3. /\ WellFormed([Rest EXCEPT !.at = AfterQueue(w)])
        /\ WellFormed(Back(w, Resume(w)))
    BY RestIsWellFormed, BackIsWellFormed DEF AfterQueue, Resume
  <2>4. \/ job' = [job EXCEPT ![w] = [Rest EXCEPT !.at = AfterQueue(w)]]
        \/ job' = [job EXCEPT ![w] = Back(w, Resume(w))]
    BY <1>31 DEF RecordFails
  <2>5. /\ job' \in [Workers -> Job]
        /\ \A v \in Workers : WellFormed(job'[v])
    BY <2>3, <2>4, JobMoves
  <2> QED BY <1>31, <2>2, <2>5 DEF RecordFails, TypeInv, TypeOK, dbVars, aria2Vars
<1>32. ASSUME NEW w \in SyncPasses, SyncPassFails(w) PROVE TypeInv'
  <2>1. job' = [job EXCEPT ![w] = Rest] /\ WellFormed(Rest)
    BY <1>32, RestIsWellFormed DEF SyncPassFails
  <2>2. faults' \in Nat
    BY <1>32 DEF SyncPassFails, Fault, TypeInv, TypeOK
  <2> QED BY <1>32, <2>1, <2>2, JobMoves DEF SyncPassFails, TypeInv, TypeOK, dbVars,
    aria2Vars, histVars
<1>33. ASSUME NEW w \in SyncPasses, NEW t \in Tasks, TellStatusFails(w, t)
       PROVE  TypeInv'
  <2> DEFINE j == Taken(w, t)
  <2>1. WellFormed(j)
    BY <1>33, TakenIsWellFormed DEF TellStatusFails
  <2>2. job' = [job EXCEPT ![w] = j]
    BY <1>33 DEF TellStatusFails
  <2>3. faults' \in Nat
    BY <1>33 DEF TellStatusFails, Fault, TypeInv, TypeOK
  <2> HIDE DEF j
  <2> QED BY <1>33, <2>1, <2>2, <2>3, JobMoves DEF TellStatusFails, TypeInv, TypeOK, dbVars,
    aria2Vars, histVars
<1>34. ASSUME NEW w \in SyncPasses \cup Hooks, FinishFails(w) PROVE TypeInv'
  <2> DEFINE j == Back(w, AfterFinish(w))
  <2>1. WellFormed(j)
    BY BackIsWellFormed DEF AfterFinish
  <2>2. job' = [job EXCEPT ![w] = j]
    BY <1>34 DEF FinishFails
  <2>3. faults' \in Nat
    BY <1>34 DEF FinishFails, Fault, TypeInv, TypeOK
  <2> HIDE DEF j
  <2> QED BY <1>34, <2>1, <2>2, <2>3, JobMoves DEF FinishFails, TypeInv, TypeOK, dbVars,
    aria2Vars, histVars
<1>35. ASSUME NEW w \in Requests, ClientGone(w) PROVE TypeInv'
  <2>1. /\ lost' \subseteq Items /\ leaked' \subseteq Gids
        /\ job' \in [Workers -> Job]
        /\ \A v \in Workers : WellFormed(job'[v])
    BY <1>35, AbandonTypes DEF ClientGone, Requests
  <2>2. faults' \in Nat
    BY <1>35 DEF ClientGone, Fault, TypeInv, TypeOK
  <2> QED BY <1>35, <2>1, <2>2
    DEF ClientGone, Abandon, TypeInv, TypeOK, dbVars, aria2Vars
<1>36. ASSUME Crash PROVE TypeInv'
  <2>1. /\ lost' \subseteq Items /\ leaked' \subseteq Gids
        /\ job' \in [Workers -> Job]
        /\ \A v \in Workers : WellFormed(job'[v])
    BY <1>36, AbandonTypes DEF Crash
  <2>2. faults' \in Nat
    BY <1>36 DEF Crash, Fault, TypeInv, TypeOK
  <2> QED BY <1>36, <2>1, <2>2
    DEF Crash, Abandon, TypeInv, TypeOK, dbVars, aria2Vars
<1>37. CASE UNCHANGED vars
  BY <1>37 DEF vars, dbVars, aria2Vars, histVars, TypeInv, TypeOK
<1> QED BY <1>1, <1>2, <1>3, <1>4, <1>5, <1>6, <1>7, <1>8, <1>9, <1>10, <1>11, <1>12,
  <1>13, <1>14, <1>15, <1>16, <1>17, <1>18, <1>19, <1>20, <1>21, <1>22, <1>23, <1>24,
  <1>25, <1>26, <1>27, <1>28, <1>29, <1>30, <1>31, <1>32, <1>33, <1>34, <1>35, <1>36,
  <1>37 DEF Next, QueueStep, SubmitStep, SyncStep, FinishStep, HookStep, Aria2Step,
  Failure

\* Every reachable state is well typed, in every instance.
THEOREM TypeCorrect == Spec => []TypeOK
<1>1. Init => TypeInv
  BY TypeInit
<1>2. TypeInv /\ [Next]_vars => TypeInv'
  BY TypeStep
<1>3. TypeInv => TypeOK
  BY DEF TypeInv
<1> QED BY <1>1, <1>2, <1>3, PTL DEF Spec

-----------------------------------------------------------------------------
(* Nobody but a killed worker leaves an item "submitting" behind.          *)

\* A step of worker w keeps the owners if every item that is "submitting" after
\* it is in the hands of w, is known as lost, or was neither of the two before
\* and has its owner still.
LEMMA OwnersStay ==
  ASSUME SubmittingHasOwner, NEW w \in Workers,
         \A v \in Workers \ {w} : job'[v] = job[v],
         \A i \in Items : item'[i] = "submitting" =>
           \/ InFlight(w)' /\ job'[w].cur = i
           \/ i \in lost'
           \/ item[i] = "submitting" /\ i \notin lost /\ ~(InFlight(w) /\ job[w].cur = i)
  PROVE  SubmittingHasOwner'
<1> SUFFICES ASSUME NEW i \in Items, item'[i] = "submitting", i \notin lost',
                    ~(InFlight(w)' /\ job'[w].cur = i)
             PROVE  \E v \in Workers : InFlight(v)' /\ job'[v].cur = i
  BY DEF SubmittingHasOwner
<1>1. /\ item[i] = "submitting" /\ i \notin lost
      /\ ~(InFlight(w) /\ job[w].cur = i)
  OBVIOUS
<1>2. PICK v \in Workers : InFlight(v) /\ job[v].cur = i
  BY <1>1 DEF SubmittingHasOwner
<1>3. v # w /\ job'[v] = job[v]
  BY <1>1, <1>2
<1> QED BY <1>2, <1>3 DEF InFlight

\* Neither do steps that touch no worker.
LEMMA OwnersStayStill ==
  ASSUME SubmittingHasOwner, UNCHANGED <<job, lost>>,
         \A i \in Items : item'[i] = "submitting" => item[i] = "submitting"
  PROVE  SubmittingHasOwner'
BY DEF SubmittingHasOwner, InFlight

\* When the workers W stop, what they had in hand is lost.
LEMMA OwnersAbandon ==
  ASSUME SubmittingHasOwner, NEW W \in SUBSET Workers, Abandon(W)
  PROVE  SubmittingHasOwner'
<1> SUFFICES ASSUME NEW i \in Items, item'[i] = "submitting", i \notin lost'
             PROVE  \E v \in Workers : InFlight(v)' /\ job'[v].cur = i
  BY DEF SubmittingHasOwner
<1>1. item[i] = "submitting" /\ i \notin lost
  BY DEF Abandon, dbVars
<1>2. PICK v \in Workers : InFlight(v) /\ job[v].cur = i
  BY <1>1 DEF SubmittingHasOwner
<1>3. v \notin W
  BY <1>2 DEF Abandon
<1> QED BY <1>2, <1>3 DEF Abandon, InFlight

LEMMA OwnerStep ==
  ASSUME TypeInv, SubmittingHasOwner, [Next]_vars
  PROVE  SubmittingHasOwner'
<1> USE DEF Workers
<1>1. ASSUME NEW i \in Items, NEW previewOnly \in BOOLEAN, SaveFeedItem(i, previewOnly)
       PROVE  SubmittingHasOwner'
  BY <1>1, OwnersStayStill DEF SaveFeedItem, dbVars, histVars, TypeInv, TypeOK
<1>2. ASSUME NEW w \in QueuePasses, ListPending(w) PROVE SubmittingHasOwner'
  BY <1>2, OwnersStay DEF ListPending, InFlight, dbVars, histVars, TypeInv, TypeOK
<1>3. ASSUME NEW w \in QueuePasses, NEW i \in Items, MarkNext(w, i)
       PROVE  SubmittingHasOwner'
  BY <1>3, OwnersStay DEF MarkNext, InFlight, dbVars, histVars, TypeInv, TypeOK,
    Overwritten
<1>4. ASSUME NEW w \in QueuePasses, EndQueuePass(w) PROVE SubmittingHasOwner'
  BY <1>4, OwnersStay DEF EndQueuePass, InFlight, dbVars, histVars, TypeInv, TypeOK,
    AfterQueue, Rest
<1>5. ASSUME NEW w \in ItemSubmits, NEW i \in Items, ReadItem(w, i)
       PROVE  SubmittingHasOwner'
  BY <1>5, OwnersStay DEF ReadItem, InFlight, dbVars, histVars, TypeInv, TypeOK
<1>6. ASSUME NEW w \in ItemSubmits, MarkRead(w) PROVE SubmittingHasOwner'
  BY <1>6, OwnersStay DEF MarkRead, InFlight, dbVars, histVars, TypeInv, TypeOK,
    Overwritten
<1>7. ASSUME NEW w \in ItemSubmits, ResolveFails(w) PROVE SubmittingHasOwner'
  BY <1>7, OwnersStay DEF ResolveFails, InFlight, dbVars, histVars, TypeInv, TypeOK,
    Rest
<1>8. ASSUME NEW w \in QueuePasses \cup ItemSubmits, NEW g \in Gids, AddURI(w, g)
       PROVE  SubmittingHasOwner'
  BY <1>8, OwnersStay DEF AddURI, InFlight, dbVars, histVars, TypeInv, TypeOK
<1>9. ASSUME NEW w \in QueuePasses \cup ItemSubmits, AddURIRefused(w)
       PROVE  SubmittingHasOwner'
  BY <1>9, OwnersStay DEF AddURIRefused, InFlight, dbVars, histVars, TypeInv, TypeOK
<1>10. ASSUME NEW w \in QueuePasses \cup ItemSubmits, RecordSubmitted(w)
       PROVE  SubmittingHasOwner'
  BY <1>10, OwnersStay DEF RecordSubmitted, InFlight, dbVars, histVars, TypeInv, TypeOK,
    Overwritten, Back, Resume
<1>11. ASSUME NEW w \in QueuePasses \cup ItemSubmits, RecordFailed(w)
       PROVE  SubmittingHasOwner'
  BY <1>11, OwnersStay DEF RecordFailed, InFlight, dbVars, histVars, TypeInv, TypeOK,
    Overwritten, Back, Resume
<1>12. ASSUME NEW w \in SyncPasses, ListSubmitted(w) PROVE SubmittingHasOwner'
  BY <1>12, OwnersStay DEF ListSubmitted, InFlight, dbVars, histVars, TypeInv, TypeOK
<1>13. ASSUME NEW w \in SyncPasses, NEW t \in Tasks, TellStatusNotFound(w, t)
       PROVE  SubmittingHasOwner'
  BY <1>13, OwnersStay DEF TellStatusNotFound, InFlight, dbVars, histVars, TypeInv,
    TypeOK, Taken
<1>14. ASSUME NEW w \in SyncPasses, NEW t \in Tasks, TellStatus(w, t)
       PROVE  SubmittingHasOwner'
  BY <1>14, OwnersStay DEF TellStatus, InFlight, dbVars, histVars, TypeInv, TypeOK,
    Taken
<1>15. ASSUME NEW w \in SyncPasses, EndSyncPass(w) PROVE SubmittingHasOwner'
  BY <1>15, OwnersStay DEF EndSyncPass, InFlight, dbVars, histVars, TypeInv, TypeOK,
    Rest
<1>16. ASSUME NEW w \in SyncPasses \cup Hooks, Finish(w)
       PROVE  SubmittingHasOwner'
  BY <1>16, OwnersStay DEF Finish, InFlight, dbVars, histVars, TypeInv, TypeOK,
    Overwritten
<1>17. ASSUME NEW w \in SyncPasses \cup Hooks, Notify(w)
       PROVE  SubmittingHasOwner'
  BY <1>17, OwnersStay DEF Notify, InFlight, dbVars, histVars, TypeInv, TypeOK, Back,
    AfterFinish
<1>18. ASSUME NEW w \in Hooks, NEW g \in Gids, NEW event \in CompleteEvents \cup
              {"error"}, NEW t \in Tasks, HookFindsTask(w, g, event, t)
       PROVE  SubmittingHasOwner'
  BY <1>18, OwnersStay DEF HookFindsTask, InFlight, dbVars, histVars, TypeInv, TypeOK,
    AfterLookup
<1>19. ASSUME NEW w \in Hooks, NEW g \in Gids, NEW event \in CompleteEvents \cup
              {"error"}, NEW t \in Tasks, HookFindsParent(w, g, event, t)
       PROVE  SubmittingHasOwner'
  BY <1>19, OwnersStay DEF HookFindsParent, InFlight, dbVars, histVars, TypeInv, TypeOK
<1>20. ASSUME NEW w \in Hooks, HookSwitchesGid(w) PROVE SubmittingHasOwner'
  BY <1>20, OwnersStay DEF HookSwitchesGid, InFlight, dbVars, histVars, TypeInv, TypeOK,
    Rest, AfterLookup
<1>21. ASSUME NEW w \in Hooks, NEW path \in {"entity", "metadata", "none"},
              HookDecides(w, path)
       PROVE  SubmittingHasOwner'
  BY <1>21, OwnersStay DEF HookDecides, InFlight, dbVars, histVars, TypeInv, TypeOK,
    Rest
<1>22. ASSUME NEW w \in Editors, NEW i \in Items, NEW target \in {"pending",
              "submitted"}, BatchRead(w, i, target)
       PROVE  SubmittingHasOwner'
  BY <1>22, OwnersStay DEF BatchRead, InFlight, dbVars, histVars, TypeInv, TypeOK
<1>23. ASSUME NEW w \in Editors, BatchWrite(w) PROVE SubmittingHasOwner'
  <2>1. job[w].cur \in Items /\ job[w].says # "submitting"
    BY <1>23 DEF BatchWrite, TypeInv, WellFormed
  <2> QED BY <1>23, <2>1, OwnersStay
    DEF BatchWrite, InFlight, TypeInv, TypeOK, Rest
<1>24. ASSUME NEW g \in Gids, Aria2Completes(g) PROVE SubmittingHasOwner'
  BY <1>24, OwnersStayStill DEF Aria2Completes, dbVars, histVars, TypeInv, TypeOK
<1>25. ASSUME NEW g \in Gids, Aria2EndsFirstStage(g) PROVE SubmittingHasOwner'
  BY <1>25, OwnersStayStill DEF Aria2EndsFirstStage, dbVars, histVars, TypeInv, TypeOK
<1>26. ASSUME NEW g \in Gids, Aria2Errs(g) PROVE SubmittingHasOwner'
  BY <1>26, OwnersStayStill DEF Aria2Errs, dbVars, histVars, TypeInv, TypeOK
<1>27. ASSUME NEW g \in Gids, Aria2Removes(g) PROVE SubmittingHasOwner'
  BY <1>27, OwnersStayStill DEF Aria2Removes, dbVars, histVars, TypeInv, TypeOK
<1>28. ASSUME NEW g \in Gids, Aria2Forgets(g) PROVE SubmittingHasOwner'
  BY <1>28, OwnersStayStill DEF Aria2Forgets, dbVars, histVars, TypeInv, TypeOK
<1>29. ASSUME NEW w \in QueuePasses, QueuePassFails(w) PROVE SubmittingHasOwner'
  BY <1>29, OwnersStay DEF QueuePassFails, InFlight, dbVars, histVars, TypeInv, TypeOK,
    AfterQueue, Rest
<1>30. ASSUME NEW w \in QueuePasses \cup ItemSubmits, AddURIFails(w)
       PROVE  SubmittingHasOwner'
  BY <1>30, OwnersStay DEF AddURIFails, InFlight, dbVars, histVars, TypeInv, TypeOK
<1>31. ASSUME NEW w \in QueuePasses \cup ItemSubmits, RecordFails(w)
       PROVE  SubmittingHasOwner'
  BY <1>31, OwnersStay DEF RecordFails, InFlight, dbVars, histVars, TypeInv, TypeOK,
    Back, Resume, AfterQueue, Rest
<1>32. ASSUME NEW w \in SyncPasses, SyncPassFails(w) PROVE SubmittingHasOwner'
  BY <1>32, OwnersStay DEF SyncPassFails, InFlight, dbVars, histVars, TypeInv, TypeOK,
    Rest
<1>33. ASSUME NEW w \in SyncPasses, NEW t \in Tasks, TellStatusFails(w, t)
       PROVE  SubmittingHasOwner'
  BY <1>33, OwnersStay DEF TellStatusFails, InFlight, dbVars, histVars, TypeInv, TypeOK,
    Taken
<1>34. ASSUME NEW w \in SyncPasses \cup Hooks, FinishFails(w)
       PROVE  SubmittingHasOwner'
  BY <1>34, OwnersStay DEF FinishFails, InFlight, dbVars, histVars, TypeInv, TypeOK,
    Back, AfterFinish
<1>35. ASSUME NEW w \in Requests, ClientGone(w) PROVE SubmittingHasOwner'
  BY <1>35, OwnersAbandon DEF ClientGone, Requests
<1>36. ASSUME Crash PROVE SubmittingHasOwner'
  BY <1>36, OwnersAbandon DEF Crash
<1>37. CASE UNCHANGED vars
  BY <1>37, OwnersStayStill DEF vars, dbVars, histVars
<1> QED BY <1>1, <1>2, <1>3, <1>4, <1>5, <1>6, <1>7, <1>8, <1>9, <1>10, <1>11, <1>12,
  <1>13, <1>14, <1>15, <1>16, <1>17, <1>18, <1>19, <1>20, <1>21, <1>22, <1>23, <1>24,
  <1>25, <1>26, <1>27, <1>28, <1>29, <1>30, <1>31, <1>32, <1>33, <1>34, <1>35, <1>36,
  <1>37 DEF Next, QueueStep, SubmitStep, SyncStep, FinishStep, HookStep, Aria2Step,
  Failure

\* An item stays "submitting" only in the hands of a worker, unless that worker
\* was killed: whoever interferes, every path records a result.
THEOREM NoneStuck == Spec => []SubmittingHasOwner
<1>1. Init => SubmittingHasOwner
  BY DEF Init, SubmittingHasOwner
<1>2. TypeInv /\ SubmittingHasOwner /\ [Next]_vars => SubmittingHasOwner'
  BY OwnerStep
<1> QED BY <1>1, <1>2, TypeInit, TypeStep, PTL DEF Spec

-----------------------------------------------------------------------------
(* Gids, tables and ends.                                                  *)

Used(t) == task[t].status # "free"

\* Two gids of one download: the same, or one follows the other.
SameDownload(g, h) == g = h \/ follow[g] = h \/ follow[h] = g

\* The rows of download_tasks that exist are the first lastTask ones.
Rows ==
  \A t \in Tasks :
    IF t <= lastTask
    THEN Used(t) /\ task[t].gid \in Gids /\ phase[task[t].gid] # "unused"
    ELSE task[t] = FreeRow

\* A stage is followed when it has ended, by one stage of its own and no more.
Chains ==
  /\ \A g \in Gids : phase[g] \in {"unused", "active"} => follow[g] = NoGid
  /\ \A g \in Gids : follow[g] \in Gids =>
       phase[follow[g]] # "unused" /\ follow[follow[g]] = NoGid
  /\ \A g, h \in Gids : follow[g] \in Gids /\ follow[g] = follow[h] => g = h

\* The downloads of two tasks have nothing in common, even before their gids
\* are brought up to date.
TasksApart ==
  \A t, u \in Tasks :
    Used(t) /\ Used(u) /\ t # u => ~SameDownload(task[t].gid, task[u].gid)

\* w holds a gid that aria2 has just handed out and that is not recorded yet.
Holds(w, g) == job[w].at = "record" /\ job[w].gid = g

HeldApart ==
  /\ \A w \in Workers, g \in Gids : Holds(w, g) =>
       /\ phase[g] # "unused" /\ IsFirstStage(g)
       /\ \A t \in Tasks : Used(t) => ~SameDownload(task[t].gid, g)
  /\ \A v, w \in Workers, g \in Gids : Holds(v, g) /\ Holds(w, g) => v = w

\* What worker w has read may be old, but still names the download of the task.
StillNames(t, g) == Used(t) /\ (task[t].gid = g \/ follow[g] = task[t].gid)

\* Gid g is that of task t or the next one.
Reaches(t, g) == task[t].gid = g \/ follow[task[t].gid] = g

\* Gid g is the second stage of the download of task t.
EndsIn(t, g) == Reaches(t, g) /\ ~IsFirstStage(g)

ReadsOK(w) ==
  /\ job[w].at \in {"idle", "next", "mark", "adduri", "list", "scan", "edit"}
       => job[w].gid = NoGid
  /\ \A t \in Tasks : job[w].seen[t] \in Gids => StillNames(t, job[w].seen[t])
  /\ w \in SyncPasses /\ job[w].at \in {"scan", "finish", "notify"} =>
       \A t \in Tasks : t \in job[w].todo => job[w].seen[t] \in Gids
  /\ job[w].at \in {"switch", "decide", "finish", "notify"} => Used(job[w].cur)
  /\ job[w].at = "switch" =>
       job[w].gid \in Gids /\ EndsIn(job[w].cur, job[w].gid)

GidInv == Rows /\ Chains /\ TasksApart /\ HeldApart /\ \A w \in Workers : ReadsOK(w)

-----------------------------------------------------------------------------
(* What a step may do to the rows, the phases and the reads.               *)

\* Used gids stay used, and a download that has ended never starts again.
PhasesGoOn ==
  \A g \in Gids :
    /\ phase[g] # "unused" => phase'[g] # "unused"
    /\ phase'[g] \in {"unused", "active"} => phase[g] \in {"unused", "active"}

\* Rows keep their gid; none appears.
RowsStay ==
  /\ lastTask' = lastTask
  /\ \A t \in Tasks :
       /\ task'[t].gid = task[t].gid
       /\ Used(t)' <=> Used(t)
       /\ ~Used(t) => task'[t] = task[t]

\* What was true of a task when it was read is still true.
ReadsHold ==
  \A t \in Tasks :
    /\ Used(t) => Used(t)'
    /\ \A g \in Gids : /\ StillNames(t, g) => StillNames(t, g)'
                       /\ Used(t) /\ EndsIn(t, g) => EndsIn(t, g)'

\* A worker that does nothing itself may rely on what it has read.
LEMMA ReadsStay ==
  ASSUME TypeInv, ReadsHold, NEW v \in Workers, ReadsOK(v), job'[v] = job[v]
  PROVE  ReadsOK(v)'
<1>1. job[v].at \in {"switch", "decide", "finish", "notify"} => job[v].cur \in Tasks
  BY DEF TypeInv, WellFormed
<1>2. \A t \in Tasks : job[v].seen[t] \in Gids => StillNames(t, job[v].seen[t])'
  BY DEF ReadsOK, ReadsHold
<1>3. job[v].at \in {"switch", "decide", "finish", "notify"} => Used(job[v].cur)'
  BY <1>1 DEF ReadsOK, ReadsHold
<1>4. job[v].at = "switch" =>
        job[v].gid \in Gids /\ EndsIn(job[v].cur, job[v].gid)'
  BY <1>1 DEF ReadsOK, ReadsHold
<1> QED BY <1>2, <1>3, <1>4 DEF ReadsOK

\* Rows and phases may go on, and worker w, with no new gid in its hands.
LEMMA WorkerMoves ==
  ASSUME TypeInv, GidInv, NEW w \in Workers,
         RowsStay, PhasesGoOn, follow' = follow,
         \A v \in Workers \ {w} : job'[v] = job[v],
         \A g \in Gids : Holds(w, g)' => Holds(w, g),
         ReadsOK(w)'
  PROVE  GidInv'
<1>1. Rows'
  <2> SUFFICES ASSUME NEW t \in Tasks
               PROVE  IF t <= lastTask'
                      THEN Used(t)' /\ task'[t].gid \in Gids /\ phase'[task'[t].gid] # "unused"
                      ELSE task'[t] = FreeRow
    BY DEF Rows
  <2>1. CASE t <= lastTask
    BY <2>1 DEF GidInv, Rows, RowsStay, PhasesGoOn
  <2>2. CASE ~(t <= lastTask)
    BY <2>2 DEF GidInv, Rows, RowsStay, Used, FreeRow
  <2> QED BY <2>1, <2>2
<1>2. Chains'
  BY DEF GidInv, Chains, PhasesGoOn
<1>3. TasksApart'
  BY DEF GidInv, TasksApart, RowsStay, SameDownload
<1>4. ReadsHold
  BY DEF RowsStay, ReadsHold, StillNames, EndsIn, Reaches, IsFirstStage
<1>5. \A v \in Workers : ReadsOK(v)'
  BY <1>4, ReadsStay DEF GidInv
<1>6. \A v \in Workers, g \in Gids : Holds(v, g)' => Holds(v, g)
  BY DEF Holds
<1>7. HeldApart'
  BY <1>6 DEF GidInv, HeldApart, RowsStay, PhasesGoOn, SameDownload, IsFirstStage
<1> QED BY <1>1, <1>2, <1>3, <1>5, <1>7 DEF GidInv

\* So may phases alone.
LEMMA PhasesMove ==
  ASSUME TypeInv, GidInv, PhasesGoOn, UNCHANGED <<task, lastTask, follow, job>>
  PROVE  GidInv'
<1>1. Scheduler \in Workers
  BY DEF Workers
<1>2. RowsStay
  BY DEF RowsStay, Used
<1>3. ReadsHold
  BY DEF ReadsHold, StillNames, EndsIn, Reaches, IsFirstStage, Used
<1>4. ReadsOK(Scheduler)'
  BY <1>1, <1>3, ReadsStay DEF GidInv
<1>5. \A g \in Gids : Holds(Scheduler, g)' => Holds(Scheduler, g)
  BY DEF Holds
<1> QED BY <1>1, <1>2, <1>4, <1>5, WorkerMoves

\* A task moves on from its gid to the one that follows it.
LEMMA GidSwitches ==
  ASSUME TypeInv, GidInv, NEW w \in Workers, NEW t \in Tasks, NEW e \in Gids,
         Used(t), Reaches(t, e),
         task' = [task EXCEPT ![t].gid = e],
         UNCHANGED <<lastTask, phase, follow>>,
         \A v \in Workers \ {w} : job'[v] = job[v],
         \A g \in Gids : ~Holds(w, g)',
         ReadsHold => ReadsOK(w)'
  PROVE  GidInv'
<1>1. /\ task[t].gid \in Gids /\ phase[task[t].gid] # "unused"
      /\ t <= lastTask
  BY DEF GidInv, Rows, FreeRow, Used
<1>2. phase[e] # "unused"
  BY <1>1 DEF GidInv, Chains, Reaches
<1>3. /\ task'[t].gid = e
      /\ \A u \in Tasks \ {t} : task'[u] = task[u]
      /\ \A u \in Tasks : Used(u)' <=> Used(u)
  BY DEF TypeInv, TypeOK, TaskRow, Used
<1>4. Rows'
  BY <1>1, <1>2, <1>3 DEF GidInv, Rows
<1>5. Chains'
  BY DEF GidInv, Chains
<1>6. ASSUME NEW h \in Gids, ~SameDownload(task[t].gid, h)
      PROVE  ~SameDownload(e, h)
  <2>1. CASE e = task[t].gid
    BY <1>6, <2>1
  <2>2. CASE follow[task[t].gid] = e
    BY <1>1, <1>6, <2>2, IdsAssumption DEF SameDownload, GidInv, Chains
  <2> QED BY <2>1, <2>2 DEF Reaches
<1>7. \A u \in Tasks : Used(u) => task[u].gid \in Gids
  BY DEF GidInv, Rows, FreeRow, Used
<1>8. TasksApart'
  <2> SUFFICES ASSUME NEW u \in Tasks, NEW x \in Tasks, Used(u), Used(x), u # x
               PROVE  ~SameDownload(task'[u].gid, task'[x].gid)
    BY <1>3 DEF TasksApart, SameDownload
  <2>1. ~SameDownload(task[u].gid, task[x].gid) /\ ~SameDownload(task[x].gid, task[u].gid)
    BY DEF GidInv, TasksApart
  <2>2. \A g, h : SameDownload(g, h) <=> SameDownload(h, g)
    BY DEF SameDownload
  <2> QED BY <1>3, <1>6, <1>7, <2>1, <2>2
<1>9. ReadsHold
  <2> SUFFICES ASSUME NEW u \in Tasks, Used(u)
               PROVE  /\ Used(u)'
                      /\ \A g \in Gids : /\ StillNames(u, g) => StillNames(u, g)'
                                         /\ EndsIn(u, g) => EndsIn(u, g)'
    BY DEF ReadsHold, StillNames
  <2>1. CASE u # t
    BY <1>3, <2>1 DEF StillNames, EndsIn, Reaches, IsFirstStage
  <2>2. CASE u = t
    <3>1. CASE e = task[t].gid
      BY <1>3, <2>2, <3>1 DEF StillNames, EndsIn, Reaches, IsFirstStage
    <3>2. CASE follow[task[t].gid] = e
      <4>1. follow[e] = NoGid
        BY <1>1, <3>2 DEF GidInv, Chains
      <4>2. \A g \in Gids : follow[g] = task[t].gid => FALSE
        BY <1>1, <3>2, IdsAssumption DEF GidInv, Chains
      <4>3. IsFirstStage(task[t].gid)
        BY <4>2 DEF IsFirstStage
      <4> QED BY <1>3, <2>2, <3>2, <4>1, <4>2, <4>3
        DEF StillNames, EndsIn, Reaches, IsFirstStage
    <3> QED BY <3>1, <3>2 DEF Reaches
  <2> QED BY <2>1, <2>2
<1>10. \A v \in Workers : ReadsOK(v)'
  BY <1>9, ReadsStay DEF GidInv
<1>11. \A v \in Workers, g \in Gids : Holds(v, g)' => Holds(v, g)
  BY DEF Holds
<1>12. HeldApart'
  <2>1. ASSUME NEW v \in Workers, NEW g \in Gids, Holds(v, g)', NEW u \in Tasks, Used(u)'
        PROVE  ~SameDownload(task'[u].gid, g)
    <3>1. ~SameDownload(task[u].gid, g)
      BY <1>3, <1>11, <2>1 DEF GidInv, HeldApart
    <3> QED BY <1>3, <1>6, <3>1
  <2>2. \A v \in Workers, g \in Gids : Holds(v, g)' => phase'[g] # "unused" /\ IsFirstStage(g)'
    BY <1>11 DEF GidInv, HeldApart, IsFirstStage
  <2>3. \A v, x \in Workers, g \in Gids : Holds(v, g)' /\ Holds(x, g)' => v = x
    BY <1>11 DEF GidInv, HeldApart
  <2> QED BY <2>1, <2>2, <2>3 DEF HeldApart, SameDownload
<1> QED BY <1>4, <1>5, <1>8, <1>10, <1>12 DEF GidInv

-----------------------------------------------------------------------------
(* One lemma for each step that creates or links gids.                     *)

\* A worker at rest has read nothing.
LEMMA RestReads ==
  ASSUME NEW v \in Workers, NEW p \in {"idle", "list"},
         job'[v] = Rest \/ job'[v] = [Rest EXCEPT !.at = p]
  PROVE  ReadsOK(v)' /\ \A g \in Gids : ~Holds(v, g)'
<1>1. job'[v].at \in {"idle", "list"} /\ job'[v].gid = NoGid
  BY DEF Rest
<1>2. \A t \in Tasks : job'[v].seen[t] \notin Gids
  BY IdsAssumption DEF Rest
<1> QED BY <1>1, <1>2 DEF ReadsOK, Holds

LEMMA AbandonKeeps ==
  ASSUME TypeInv, GidInv, NEW W \in SUBSET Workers, Abandon(W)
  PROVE  GidInv'
<1>1. UNCHANGED <<task, lastTask, phase, follow>>
  BY DEF Abandon, dbVars, aria2Vars
<1>2. \A v \in Workers : job'[v] = job[v] \/ job'[v] = Rest
  BY DEF Abandon
<1>3. ReadsHold
  BY <1>1 DEF ReadsHold, StillNames, EndsIn, Reaches, IsFirstStage, Used
<1>4. \A v \in Workers : ReadsOK(v)'
  BY <1>2, <1>3, ReadsStay, RestReads DEF GidInv
<1>5. \A v \in Workers, g \in Gids : Holds(v, g)' => Holds(v, g)
  BY <1>2, RestReads DEF Holds
<1>6. HeldApart'
  BY <1>1, <1>5 DEF GidInv, HeldApart, IsFirstStage, SameDownload, Used
<1>7. Rows' /\ Chains' /\ TasksApart'
  BY <1>1 DEF GidInv, Rows, Chains, TasksApart, SameDownload, Used
<1> QED BY <1>4, <1>6, <1>7 DEF GidInv

LEMMA AddURIKeeps ==
  ASSUME TypeInv, GidInv, NEW w \in Workers, NEW g \in Gids, AddURI(w, g)
  PROVE  GidInv'
<1>1. /\ UNCHANGED <<task, lastTask, follow>>
      /\ phase[g] = "unused" /\ phase' = [phase EXCEPT ![g] = "active"]
      /\ \A v \in Workers \ {w} : job'[v] = job[v]
  BY DEF AddURI, dbVars, TypeInv, TypeOK
<1>2. /\ job'[w].at = "record" /\ job'[w].gid = g
      /\ job'[w].seen = job[w].seen
  BY DEF AddURI, TypeInv, TypeOK, Job
<1>3. phase' \in [Gids -> Phase] /\ \A h \in Gids \ {g} : phase'[h] = phase[h]
  BY <1>1 DEF TypeInv, TypeOK, Phase
<1>4. follow[g] = NoGid /\ IsFirstStage(g)
  BY <1>1, IdsAssumption DEF GidInv, Chains, IsFirstStage
<1>5. \A t \in Tasks : Used(t) =>
        task[t].gid \in Gids /\ phase[task[t].gid] # "unused" /\ task[t].gid # g
  BY <1>1 DEF GidInv, Rows, FreeRow, Used
<1>6. Rows'
  BY <1>1, <1>3, <1>5 DEF GidInv, Rows, Used
<1>7. Chains'
  BY <1>1, <1>3, <1>4 DEF GidInv, Chains, IsFirstStage
<1>8. TasksApart'
  BY <1>1 DEF GidInv, TasksApart, SameDownload, Used
<1>9. ReadsHold
  BY <1>1 DEF ReadsHold, StillNames, EndsIn, Reaches, IsFirstStage, Used
<1>10. ReadsOK(w)'
  BY <1>1, <1>2 DEF GidInv, ReadsOK, StillNames, Used
<1>11. \A v \in Workers : ReadsOK(v)'
  BY <1>1, <1>9, <1>10, ReadsStay DEF GidInv
<1>12. HeldApart'
  <2>1. \A v \in Workers, h \in Gids : Holds(v, h)' => \/ v = w /\ h = g
                                                       \/ v # w /\ h # g /\ Holds(v, h)
    BY <1>1, <1>2 DEF GidInv, HeldApart, Holds
  <2>2. \A t \in Tasks : Used(t) => ~SameDownload(task[t].gid, g)
    BY <1>4, <1>5, IdsAssumption DEF SameDownload, IsFirstStage
  <2> QED BY <1>1, <1>3, <1>4, <2>1, <2>2
    DEF GidInv, HeldApart, IsFirstStage, SameDownload, Used
<1> QED BY <1>6, <1>7, <1>8, <1>11, <1>12 DEF GidInv

LEMMA RecordSubmittedKeeps ==
  ASSUME TypeInv, GidInv, NEW w \in Workers, RecordSubmitted(w)
  PROVE  GidInv'
<1> DEFINE n == lastTask + 1
           g == job[w].gid
<1>1. /\ n \in Tasks /\ lastTask' = n /\ g \in Gids /\ Holds(w, g)
      /\ UNCHANGED <<phase, follow>>
      /\ \A v \in Workers \ {w} : job'[v] = job[v]
  BY IdsAssumption
  DEF RecordSubmitted, aria2Vars, TypeInv, TypeOK, WellFormed, Job, Tasks, Holds
<1>2. /\ task'[n].gid = g /\ task'[n].status = "submitted"
      /\ \A t \in Tasks \ {n} : task'[t] = task[t]
  BY <1>1 DEF RecordSubmitted, TypeInv, TypeOK
<1>3. job'[w].at \in {"next", "idle"} /\ job'[w].gid = NoGid /\ job'[w].seen = job[w].seen
  BY DEF RecordSubmitted, Back, Resume, TypeInv, TypeOK, WellFormed, Job
<1>4. /\ ~Used(n) /\ lastTask \in Nat
      /\ \A t \in Tasks \ {n} : (t <= n) <=> (t <= lastTask)
  BY <1>1 DEF GidInv, Rows, FreeRow, Used, TypeInv, TypeOK, Tasks
<1>5. /\ phase[g] # "unused" /\ IsFirstStage(g)
      /\ \A t \in Tasks : Used(t) => ~SameDownload(task[t].gid, g)
  BY <1>1 DEF GidInv, HeldApart
<1>6. \A t \in Tasks : Used(t)' <=> (t = n \/ Used(t))
  BY <1>2 DEF Used
<1> HIDE DEF n, g
<1>7. Rows'
  BY <1>1, <1>2, <1>4, <1>5, <1>6 DEF GidInv, Rows, TypeInv, TypeOK, Tasks
<1>8. Chains'
  BY <1>1 DEF GidInv, Chains
<1>9. TasksApart'
  <2>1. \A x, y : SameDownload(x, y) <=> SameDownload(y, x)
    BY DEF SameDownload
  <2>2. \A x, y : SameDownload(x, y)' <=> (x = y \/ follow[x] = y \/ follow[y] = x)
    BY <1>1 DEF SameDownload
  <2> SUFFICES ASSUME NEW t \in Tasks, NEW u \in Tasks, Used(t)', Used(u)', t # u
               PROVE  ~SameDownload(task'[t].gid, task'[u].gid)
    BY <1>1 DEF TasksApart, SameDownload
  <2>3. CASE t # n /\ u # n
    BY <1>2, <1>6, <2>3 DEF GidInv, TasksApart
  <2>4. CASE t = n \/ u = n
    BY <1>2, <1>5, <1>6, <2>1, <2>4
  <2> QED BY <2>3, <2>4
<1>10. ReadsHold
  BY <1>1, <1>2, <1>4, <1>6 DEF ReadsHold, StillNames, EndsIn, Reaches, IsFirstStage
<1>11. ReadsOK(w)'
  <2>1. \A t \in Tasks : job[w].seen[t] \in Gids => StillNames(t, job[w].seen[t])'
    BY <1>3, <1>10 DEF GidInv, ReadsOK, ReadsHold
  <2> QED BY <1>3, <2>1 DEF ReadsOK
<1>12. \A v \in Workers : ReadsOK(v)'
  BY <1>1, <1>10, <1>11, ReadsStay DEF GidInv
<1>13. HeldApart'
  <2>1. \A v \in Workers, h \in Gids : Holds(v, h)' => v # w /\ h # g /\ Holds(v, h)
    BY <1>1, <1>3 DEF GidInv, HeldApart, Holds
  <2>2. \A v \in Workers, h \in Gids : Holds(v, h) => phase[h] # "unused" /\ IsFirstStage(h)
    BY DEF GidInv, HeldApart
  <2>3. \A h \in Gids : IsFirstStage(h) /\ h # g => ~SameDownload(g, h)
    BY <1>1, <1>5 DEF IsFirstStage, SameDownload
  <2>4. \A v \in Workers, h \in Gids : Holds(v, h)' =>
          \A t \in Tasks : Used(t)' => ~SameDownload(task'[t].gid, h)
    BY <1>2, <1>6, <2>1, <2>2, <2>3 DEF GidInv, HeldApart
  <2> QED BY <1>1, <2>1, <2>2, <2>4 DEF GidInv, HeldApart, IsFirstStage, SameDownload
<1> QED BY <1>7, <1>8, <1>9, <1>12, <1>13 DEF GidInv

LEMMA FirstStageEndsKeeps ==
  ASSUME TypeInv, GidInv, NEW g \in Gids, NEW child \in Gids,
         phase[g] = "active", IsFirstStage(g), phase[child] = "unused",
         phase' = [phase EXCEPT ![g] = "meta", ![child] = "active"],
         follow' = [follow EXCEPT ![g] = child],
         UNCHANGED <<task, lastTask, job>>
  PROVE  GidInv'
<1>1. g # child /\ follow[g] = NoGid /\ follow[child] = NoGid /\ IsFirstStage(child)
  BY IdsAssumption DEF GidInv, Chains, IsFirstStage
<1>2. /\ phase'[g] = "meta" /\ phase'[child] = "active"
      /\ \A h \in Gids \ {g, child} : phase'[h] = phase[h]
      /\ follow'[g] = child /\ \A h \in Gids \ {g} : follow'[h] = follow[h]
  BY <1>1 DEF TypeInv, TypeOK
<1>3. \A t \in Tasks : Used(t) =>
        task[t].gid \in Gids /\ phase[task[t].gid] # "unused" /\ task[t].gid # child
  BY DEF GidInv, Rows, FreeRow, Used
<1>4. \A x, y \in Gids \ {child} : SameDownload(x, y)' <=> SameDownload(x, y)
  BY <1>1, <1>2, IdsAssumption DEF SameDownload
<1>5. Rows'
  <2>1. \A h \in Gids : phase[h] # "unused" => phase'[h] # "unused"
    BY <1>2
  <2> QED BY <2>1 DEF GidInv, Rows, Used
<1>6. Chains'
  <2>1. \A h \in Gids : phase'[h] \in {"unused", "active"} => follow'[h] = NoGid
    BY <1>1, <1>2 DEF GidInv, Chains
  <2>2. ASSUME NEW h \in Gids, follow'[h] \in Gids
        PROVE  phase'[follow'[h]] # "unused" /\ follow'[follow'[h]] = NoGid
    <3>1. CASE h = g
      BY <1>1, <1>2, <3>1, IdsAssumption
    <3>2. CASE h # g
      <4>1. /\ follow[h] \in Gids /\ follow[h] # g /\ follow[h] # child
            /\ phase[follow[h]] # "unused" /\ follow[follow[h]] = NoGid
        BY <1>2, <2>2, <3>2 DEF GidInv, Chains, IsFirstStage
      <4> QED BY <1>2, <3>2, <4>1
    <3> QED BY <3>1, <3>2
  <2>3. ASSUME NEW h \in Gids, NEW k \in Gids, follow'[h] \in Gids, follow'[h] = follow'[k]
        PROVE  h = k
    BY <1>1, <1>2, <2>3 DEF GidInv, Chains, IsFirstStage
  <2> QED BY <2>1, <2>2, <2>3 DEF Chains
<1>7. TasksApart'
  BY <1>3, <1>4 DEF GidInv, TasksApart, Used, SameDownload
<1>8. ReadsHold
  <2> SUFFICES ASSUME NEW t \in Tasks, Used(t), NEW h \in Gids
               PROVE  /\ StillNames(t, h) => StillNames(t, h)'
                      /\ EndsIn(t, h) => EndsIn(t, h)'
    BY DEF ReadsHold, StillNames, Used
  <2>1. StillNames(t, h) => StillNames(t, h)'
    BY <1>1, <1>2, <1>3, IdsAssumption DEF StillNames, Used
  <2>2. Reaches(t, h) => Reaches(t, h)'
    BY <1>1, <1>2, <1>3, IdsAssumption DEF Reaches
  <2>3. ~IsFirstStage(h) => ~IsFirstStage(h)'
    BY <1>1, <1>2, IdsAssumption DEF IsFirstStage
  <2> QED BY <2>1, <2>2, <2>3 DEF EndsIn
<1>9. \A v \in Workers : ReadsOK(v)'
  BY <1>8, ReadsStay DEF GidInv
<1>10. HeldApart'
  <2>1. \A v \in Workers, h \in Gids : Holds(v, h)' => Holds(v, h) /\ h # child
    BY DEF Holds, GidInv, HeldApart
  <2>2. \A v \in Workers, h \in Gids : Holds(v, h)' => phase'[h] # "unused" /\ IsFirstStage(h)'
    <3>1. \A v \in Workers, h \in Gids : Holds(v, h) => phase[h] # "unused" /\ IsFirstStage(h)
      BY DEF GidInv, HeldApart
    <3>2. \A h \in Gids \ {child} : IsFirstStage(h) => IsFirstStage(h)'
      BY <1>2 DEF IsFirstStage
    <3>3. \A h \in Gids \ {child} : phase[h] # "unused" => phase'[h] # "unused"
      BY <1>1, <1>2
    <3> QED BY <2>1, <3>1, <3>2, <3>3
  <2>3. \A v \in Workers, h \in Gids : Holds(v, h)' =>
          \A t \in Tasks : Used(t)' => ~SameDownload(task[t].gid, h)'
    BY <1>3, <1>4, <2>1 DEF GidInv, HeldApart, Used
  <2> QED BY <2>1, <2>2, <2>3 DEF GidInv, HeldApart, SameDownload
<1> QED BY <1>5, <1>6, <1>7, <1>9, <1>10 DEF GidInv

-----------------------------------------------------------------------------
(* The invariant is inductive.                                              *)

LEMMA GidInit == Init => GidInv
<1> SUFFICES ASSUME Init PROVE GidInv
  OBVIOUS
<1>1. Rows
  BY DEF Init, Rows, Tasks
<1>2. Chains /\ TasksApart
  BY IdsAssumption DEF Init, Chains, TasksApart, Used, FreeRow
<1>3. HeldApart
  BY DEF Init, HeldApart, Holds, Rest
<1>4. \A w \in Workers : ReadsOK(w)
  BY IdsAssumption DEF Init, ReadsOK, Rest
<1> QED BY <1>1, <1>2, <1>3, <1>4 DEF GidInv

\* What becomes of the record of a polling pass that takes task t.
LEMMA TakenFields ==
  ASSUME TypeInv, NEW w \in Workers, NEW t \in Tasks
  PROVE  /\ Taken(w, t).at = job[w].at /\ Taken(w, t).gid = job[w].gid
         /\ Taken(w, t).cur = job[w].cur
         /\ Taken(w, t).todo = job[w].todo \ {t}
         /\ Taken(w, t).seen = [job[w].seen EXCEPT ![t] = NoGid]
<1>1. job[w] \in Job
  BY DEF TypeInv, WellFormed
<1> QED BY <1>1 DEF Taken, Job

\* The pass may rely on the rest of what it has read.
LEMMA TakenReads ==
  ASSUME TypeInv, GidInv, ReadsHold, NEW w \in SyncPasses, NEW t \in Tasks,
         job[w].at = "scan", t \in job[w].todo,
         job'[w].at \in {"scan", "finish"}, job'[w].gid = NoGid,
         job'[w].at = "finish" => job'[w].cur = t,
         job'[w].todo = job[w].todo \ {t},
         job'[w].seen = [job[w].seen EXCEPT ![t] = NoGid]
  PROVE  ReadsOK(w)'
<1>1. w \in Workers /\ ReadsOK(w) /\ job[w] \in Job
  BY DEF Workers, GidInv, TypeInv, WellFormed
<1>2. \A u \in Tasks : job'[w].seen[u] \in Gids => u # t /\ job'[w].seen[u] = job[w].seen[u]
  BY <1>1, IdsAssumption DEF Job
<1>3. ASSUME NEW u \in Tasks, NEW g \in Gids, job'[w].seen[u] = g
      PROVE  StillNames(u, g)'
  BY <1>1, <1>2, <1>3 DEF ReadsOK, ReadsHold
<1>4. \A u \in Tasks : u \in job'[w].todo => job'[w].seen[u] \in Gids
  BY <1>1 DEF ReadsOK, Job
<1>5. Used(t)'
  BY <1>1 DEF ReadsOK, ReadsHold, StillNames
<1> QED BY <1>3, <1>4, <1>5 DEF ReadsOK

LEMMA GidStep ==
  ASSUME TypeInv, GidInv, [Next]_vars
  PROVE  GidInv'
<1> USE DEF Workers
<1>1. ASSUME NEW i \in Items, NEW previewOnly \in BOOLEAN, SaveFeedItem(i, previewOnly)
       PROVE  GidInv'
  BY <1>1, PhasesMove DEF SaveFeedItem, aria2Vars, PhasesGoOn
<1>2. ASSUME NEW w \in QueuePasses, ListPending(w) PROVE GidInv'
  <2>1. RowsStay /\ PhasesGoOn /\ follow' = follow
        /\ \A v \in Workers \ {w} : job'[v] = job[v]
    BY <1>2 DEF ListPending, RowsStay, PhasesGoOn, Used, dbVars, aria2Vars, TypeInv,
      TypeOK
  <2>2. ReadsOK(w)' /\ \A g \in Gids : Holds(w, g)' => Holds(w, g)
    BY <1>2, <2>1, IdsAssumption, WorkersAssumption DEF ListPending, ReadsOK, Holds,
      GidInv, RowsStay, StillNames, TypeInv, TypeOK, WellFormed, Job
  <2> QED BY <2>1, <2>2, WorkerMoves
<1>3. ASSUME NEW w \in QueuePasses, NEW i \in Items, MarkNext(w, i) PROVE GidInv'
  <2>1. RowsStay /\ PhasesGoOn /\ follow' = follow
        /\ \A v \in Workers \ {w} : job'[v] = job[v]
    BY <1>3 DEF MarkNext, RowsStay, PhasesGoOn, Used, dbVars, aria2Vars, TypeInv, TypeOK
  <2>2. ReadsOK(w)' /\ \A g \in Gids : Holds(w, g)' => Holds(w, g)
    BY <1>3, <2>1, IdsAssumption, WorkersAssumption DEF MarkNext, ReadsOK, Holds,
      GidInv, RowsStay, StillNames, TypeInv, TypeOK, WellFormed, Job
  <2> QED BY <2>1, <2>2, WorkerMoves
<1>4. ASSUME NEW w \in QueuePasses, EndQueuePass(w) PROVE GidInv'
  <2>1. RowsStay /\ PhasesGoOn /\ follow' = follow
        /\ \A v \in Workers \ {w} : job'[v] = job[v]
    BY <1>4 DEF EndQueuePass, RowsStay, PhasesGoOn, Used, dbVars, aria2Vars, TypeInv,
      TypeOK
  <2>2. ReadsOK(w)' /\ \A g \in Gids : ~Holds(w, g)'
    <3>1. job'[w] = [Rest EXCEPT !.at = AfterQueue(w)]
      BY <1>4 DEF EndQueuePass, TypeInv, TypeOK
    <3> QED BY <3>1, RestReads DEF AfterQueue
  <2> QED BY <2>1, <2>2, WorkerMoves
<1>5. ASSUME NEW w \in ItemSubmits, NEW i \in Items, ReadItem(w, i) PROVE GidInv'
  <2>1. RowsStay /\ PhasesGoOn /\ follow' = follow
        /\ \A v \in Workers \ {w} : job'[v] = job[v]
    BY <1>5 DEF ReadItem, RowsStay, PhasesGoOn, Used, dbVars, aria2Vars, TypeInv, TypeOK
  <2>2. ReadsOK(w)' /\ \A g \in Gids : Holds(w, g)' => Holds(w, g)
    BY <1>5, <2>1, IdsAssumption, WorkersAssumption DEF ReadItem, ReadsOK, Holds,
      GidInv, RowsStay, StillNames, TypeInv, TypeOK, WellFormed, Job
  <2> QED BY <2>1, <2>2, WorkerMoves
<1>6. ASSUME NEW w \in ItemSubmits, MarkRead(w) PROVE GidInv'
  <2>1. RowsStay /\ PhasesGoOn /\ follow' = follow
        /\ \A v \in Workers \ {w} : job'[v] = job[v]
    BY <1>6 DEF MarkRead, RowsStay, PhasesGoOn, Used, dbVars, aria2Vars, TypeInv, TypeOK
  <2>2. ReadsOK(w)' /\ \A g \in Gids : Holds(w, g)' => Holds(w, g)
    BY <1>6, <2>1, IdsAssumption, WorkersAssumption DEF MarkRead, ReadsOK, Holds,
      GidInv, RowsStay, StillNames, TypeInv, TypeOK, WellFormed, Job
  <2> QED BY <2>1, <2>2, WorkerMoves
<1>7. ASSUME NEW w \in ItemSubmits, ResolveFails(w) PROVE GidInv'
  <2>1. RowsStay /\ PhasesGoOn /\ follow' = follow
        /\ \A v \in Workers \ {w} : job'[v] = job[v]
    BY <1>7 DEF ResolveFails, RowsStay, PhasesGoOn, Used, dbVars, aria2Vars, TypeInv,
      TypeOK
  <2>2. ReadsOK(w)' /\ \A g \in Gids : ~Holds(w, g)'
    <3>1. job'[w] = Rest
      BY <1>7 DEF ResolveFails, TypeInv, TypeOK
    <3> QED BY <3>1, RestReads
  <2> QED BY <2>1, <2>2, WorkerMoves
<1>8. ASSUME NEW w \in QueuePasses \cup ItemSubmits, NEW g \in Gids, AddURI(w, g)
       PROVE  GidInv'
  BY <1>8, AddURIKeeps
<1>9. ASSUME NEW w \in QueuePasses \cup ItemSubmits, AddURIRefused(w)
       PROVE  GidInv'
  <2>1. RowsStay /\ PhasesGoOn /\ follow' = follow
        /\ \A v \in Workers \ {w} : job'[v] = job[v]
    BY <1>9 DEF AddURIRefused, RowsStay, PhasesGoOn, Used, dbVars, aria2Vars, TypeInv,
      TypeOK
  <2>2. ReadsOK(w)' /\ \A g \in Gids : Holds(w, g)' => Holds(w, g)
    BY <1>9, <2>1, IdsAssumption, WorkersAssumption DEF AddURIRefused, ReadsOK, Holds,
      GidInv, RowsStay, StillNames, TypeInv, TypeOK, WellFormed, Job
  <2> QED BY <2>1, <2>2, WorkerMoves
<1>10. ASSUME NEW w \in QueuePasses \cup ItemSubmits, RecordSubmitted(w)
       PROVE  GidInv'
  BY <1>10, RecordSubmittedKeeps
<1>11. ASSUME NEW w \in QueuePasses \cup ItemSubmits, RecordFailed(w)
       PROVE  GidInv'
  <2>1. RowsStay /\ PhasesGoOn /\ follow' = follow
        /\ \A v \in Workers \ {w} : job'[v] = job[v]
    BY <1>11 DEF RecordFailed, RowsStay, PhasesGoOn, Used, dbVars, aria2Vars, TypeInv,
      TypeOK
  <2>2. ReadsOK(w)' /\ \A g \in Gids : Holds(w, g)' => Holds(w, g)
    BY <1>11, <2>1, IdsAssumption, WorkersAssumption DEF RecordFailed, ReadsOK, Holds,
      GidInv, RowsStay, StillNames, TypeInv, TypeOK, WellFormed, Job, Back, Resume
  <2> QED BY <2>1, <2>2, WorkerMoves
<1>12. ASSUME NEW w \in SyncPasses, ListSubmitted(w) PROVE GidInv'
  <2>1. /\ UNCHANGED <<task, lastTask, phase, follow>>
        /\ \A v \in Workers \ {w} : job'[v] = job[v]
    BY <1>12 DEF ListSubmitted, dbVars, aria2Vars, TypeInv, TypeOK
  <2>2. RowsStay /\ PhasesGoOn
    BY <2>1 DEF RowsStay, PhasesGoOn, Used
  <2>3. /\ job'[w].at = "scan" /\ job'[w].gid = NoGid
        /\ job'[w].todo \subseteq Submitted
        /\ \A t \in Tasks : job'[w].seen[t] = IF t \in job'[w].todo THEN task[t].gid ELSE NoGid
    BY <1>12 DEF ListSubmitted, FirstByID, TypeInv, TypeOK, Job, GidInv, ReadsOK
  <2>4. \A t \in Submitted : Used(t) /\ task[t].gid \in Gids
    BY DEF Submitted, Used, GidInv, Rows, FreeRow
  <2>5. ReadsOK(w)'
    BY <2>1, <2>3, <2>4, IdsAssumption DEF ReadsOK, StillNames, Used
  <2>6. \A g \in Gids : ~Holds(w, g)'
    BY <2>3 DEF Holds
  <2> QED BY <2>1, <2>2, <2>5, <2>6, WorkerMoves
<1>13. ASSUME NEW w \in SyncPasses, NEW t \in Tasks, TellStatusNotFound(w, t)
       PROVE  GidInv'
  <2>1. /\ UNCHANGED <<task, lastTask, phase, follow>>
        /\ \A v \in Workers \ {w} : job'[v] = job[v]
        /\ job[w].at = "scan" /\ t \in job[w].todo /\ job[w].gid = NoGid
    BY <1>13 DEF TellStatusNotFound, IsNext, dbVars, aria2Vars, GidInv, ReadsOK, TypeInv, TypeOK
  <2>2. Taken(w, t) \in Job
    BY <2>1, TakenIsWellFormed DEF WellFormed
  <2>3. /\ job'[w].at = "finish" /\ job'[w].gid = NoGid /\ job'[w].cur = t
        /\ job'[w].todo = job[w].todo \ {t}
        /\ job'[w].seen = [job[w].seen EXCEPT ![t] = NoGid]
    BY <1>13, <2>1, <2>2, TakenFields DEF TellStatusNotFound, TypeInv, TypeOK, Job
  <2>4. RowsStay /\ PhasesGoOn /\ ReadsHold
    BY <2>1 DEF RowsStay, PhasesGoOn, ReadsHold, StillNames, EndsIn, Reaches,
                IsFirstStage, Used
  <2>5. ReadsOK(w)' /\ \A g \in Gids : ~Holds(w, g)'
    BY <2>1, <2>3, <2>4, TakenReads DEF Holds
  <2> QED BY <2>1, <2>4, <2>5, WorkerMoves
<1>14. ASSUME NEW w \in SyncPasses, NEW t \in Tasks, TellStatus(w, t)
       PROVE  GidInv'
  <2> DEFINE s == job[w].seen[t]
             e == Effective(s)
  <2>1. /\ s \in Gids /\ StillNames(t, s) /\ t \in job[w].todo
        /\ job[w].at = "scan" /\ job[w].gid = NoGid
    BY <1>14 DEF TellStatus, IsNext, GidInv, ReadsOK
  <2>2. e \in Gids /\ Reaches(t, e) /\ Used(t)
    <3>1. task[t].gid \in Gids /\ Used(t)
      BY <2>1 DEF StillNames, GidInv, Rows, FreeRow, Used
    <3> QED BY <2>1, <3>1 DEF Effective, StillNames, Reaches
  <2>3. task' = IF e = s THEN task ELSE [task EXCEPT ![t].gid = e]
    BY <1>14 DEF TellStatus
  <2>4. /\ UNCHANGED <<lastTask, phase, follow>>
        /\ \A v \in Workers \ {w} : job'[v] = job[v]
    BY <1>14 DEF TellStatus, aria2Vars, TypeInv, TypeOK
  <2>5. /\ job'[w].at \in {"scan", "finish"} /\ job'[w].gid = NoGid
        /\ job'[w].at = "finish" => job'[w].cur = t
        /\ job'[w].todo = job[w].todo \ {t}
        /\ job'[w].seen = [job[w].seen EXCEPT ![t] = NoGid]
    <3>1. Taken(w, t) \in Job
      BY <2>1, TakenIsWellFormed DEF WellFormed
    <3>2. ASSUME NEW says, job' = [job EXCEPT ![w] = [Taken(w, t) EXCEPT !.at = "finish",
                                                    !.cur = t, !.says = says]]
          PROVE  /\ job'[w].at = "finish" /\ job'[w].gid = NoGid /\ job'[w].cur = t
                 /\ job'[w].todo = job[w].todo \ {t}
                 /\ job'[w].seen = [job[w].seen EXCEPT ![t] = NoGid]
      <4>1. job'[w] = [Taken(w, t) EXCEPT !.at = "finish", !.cur = t, !.says = says]
        BY <3>2 DEF TypeInv, TypeOK
      <4>2. /\ Taken(w, t).todo = job[w].todo \ {t} /\ Taken(w, t).gid = NoGid
            /\ Taken(w, t).seen = [job[w].seen EXCEPT ![t] = NoGid]
        BY <2>1, TakenFields
      <4> QED BY <3>1, <4>1, <4>2 DEF Job
    <3>3. CASE job' = [job EXCEPT ![w] = Taken(w, t)]
      BY <2>1, <3>3, TakenFields DEF TypeInv, TypeOK
    <3> QED BY <1>14, <3>2, <3>3 DEF TellStatus
  <2> HIDE DEF s, e
  <2>6. ReadsHold => ReadsOK(w)'
    BY <2>1, <2>5, TakenReads
  <2>7. \A g \in Gids : ~Holds(w, g)'
    BY <2>5 DEF Holds
  <2>8. CASE e # s
    BY <2>2, <2>3, <2>4, <2>6, <2>7, <2>8, GidSwitches
  <2>9. CASE e = s
    <3>1. RowsStay /\ PhasesGoOn /\ ReadsHold
      BY <2>3, <2>4, <2>9 DEF RowsStay, PhasesGoOn, ReadsHold, StillNames, EndsIn,
                              Reaches, IsFirstStage, Used
    <3> QED BY <2>4, <2>6, <2>7, <3>1, WorkerMoves
  <2> QED BY <2>8, <2>9
<1>15. ASSUME NEW w \in SyncPasses, EndSyncPass(w) PROVE GidInv'
  <2>1. RowsStay /\ PhasesGoOn /\ follow' = follow
        /\ \A v \in Workers \ {w} : job'[v] = job[v]
    BY <1>15 DEF EndSyncPass, RowsStay, PhasesGoOn, Used, dbVars, aria2Vars, TypeInv,
      TypeOK
  <2>2. ReadsOK(w)' /\ \A g \in Gids : ~Holds(w, g)'
    <3>1. job'[w] = Rest
      BY <1>15 DEF EndSyncPass, TypeInv, TypeOK
    <3> QED BY <3>1, RestReads
  <2> QED BY <2>1, <2>2, WorkerMoves
<1>16. ASSUME NEW w \in SyncPasses \cup Hooks, Finish(w) PROVE GidInv'
  <2>1. RowsStay /\ PhasesGoOn /\ follow' = follow
        /\ \A v \in Workers \ {w} : job'[v] = job[v]
    BY <1>16 DEF Finish, RowsStay, PhasesGoOn, Used, dbVars, aria2Vars, TypeInv, TypeOK,
      GidInv, ReadsOK, TaskRow
  <2>2. ReadsOK(w)' /\ \A g \in Gids : Holds(w, g)' => Holds(w, g)
    BY <1>16, <2>1, IdsAssumption, WorkersAssumption DEF Finish, ReadsOK, Holds, GidInv,
      RowsStay, StillNames, TypeInv, TypeOK, WellFormed, Job
  <2> QED BY <2>1, <2>2, WorkerMoves
<1>17. ASSUME NEW w \in SyncPasses \cup Hooks, Notify(w) PROVE GidInv'
  <2>1. RowsStay /\ PhasesGoOn /\ follow' = follow
        /\ \A v \in Workers \ {w} : job'[v] = job[v]
    BY <1>17 DEF Notify, RowsStay, PhasesGoOn, Used, dbVars, aria2Vars, TypeInv, TypeOK
  <2>2. ReadsOK(w)' /\ \A g \in Gids : Holds(w, g)' => Holds(w, g)
    BY <1>17, <2>1, IdsAssumption, WorkersAssumption DEF Notify, ReadsOK, Holds, GidInv,
      RowsStay, StillNames, TypeInv, TypeOK, WellFormed, Job, Back, AfterFinish
  <2> QED BY <2>1, <2>2, WorkerMoves
<1>18. ASSUME NEW w \in Hooks, NEW g \in Gids, NEW event \in CompleteEvents \cup
              {"error"}, NEW t \in Tasks, HookFindsTask(w, g, event, t)
       PROVE  GidInv'
  <2>1. /\ UNCHANGED <<task, lastTask, phase, follow>>
        /\ \A v \in Workers \ {w} : job'[v] = job[v]
    BY <1>18 DEF HookFindsTask, dbVars, aria2Vars, TypeInv, TypeOK
  <2>2. RowsStay /\ PhasesGoOn
    BY <2>1 DEF RowsStay, PhasesGoOn, Used
  <2>3. /\ job'[w].at \in {"finish", "decide"} /\ job'[w].cur = t
        /\ job'[w].gid = g /\ job'[w].seen = job[w].seen
    BY <1>18 DEF HookFindsTask, AfterLookup, TypeInv, TypeOK, Job
  <2>4. Used(t)
    BY <1>18, IdsAssumption
    DEF HookFindsTask, TaskOf, GidInv, Rows, FreeRow, Used
  <2>5. w \notin SyncPasses /\ ReadsOK(w)
    BY WorkersAssumption DEF GidInv
  <2>6. ReadsOK(w)' /\ \A h \in Gids : ~Holds(w, h)'
    BY <2>1, <2>3, <2>4, <2>5
    DEF ReadsOK, StillNames, Used, EndsIn, Reaches, IsFirstStage, Holds
  <2> QED BY <2>1, <2>2, <2>6, WorkerMoves
<1>19. ASSUME NEW w \in Hooks, NEW g \in Gids, NEW event \in CompleteEvents \cup
              {"error"}, NEW t \in Tasks, HookFindsParent(w, g, event, t)
       PROVE  GidInv'
  <2>1. /\ UNCHANGED <<task, lastTask, phase, follow>>
        /\ \A v \in Workers \ {w} : job'[v] = job[v]
    BY <1>19 DEF HookFindsParent, dbVars, aria2Vars, TypeInv, TypeOK
  <2>2. RowsStay /\ PhasesGoOn
    BY <2>1 DEF RowsStay, PhasesGoOn, Used
  <2>3. /\ job'[w].at \in {"switch"} /\ job'[w].cur = t
        /\ job'[w].gid = g /\ job'[w].seen = job[w].seen
    BY <1>19 DEF HookFindsParent, AfterLookup, TypeInv, TypeOK, Job
  <2>4. Used(t) /\ EndsIn(t, g)
    BY <1>19, IdsAssumption
    DEF HookFindsParent, TaskOf, GidInv, Rows, FreeRow, Used, EndsIn, Reaches,
        IsFirstStage
  <2>5. w \notin SyncPasses /\ ReadsOK(w)
    BY WorkersAssumption DEF GidInv
  <2>6. ReadsOK(w)' /\ \A h \in Gids : ~Holds(w, h)'
    BY <2>1, <2>3, <2>4, <2>5
    DEF ReadsOK, StillNames, Used, EndsIn, Reaches, IsFirstStage, Holds
  <2> QED BY <2>1, <2>2, <2>6, WorkerMoves
<1>20. ASSUME NEW w \in Hooks, HookSwitchesGid(w) PROVE GidInv'
  <2> DEFINE t == job[w].cur
             e == job[w].gid
  <2>1. /\ t \in Tasks /\ e \in Gids /\ Used(t) /\ Reaches(t, e)
        /\ \A u \in Tasks : job[w].seen[u] \in Gids => StillNames(u, job[w].seen[u])
    BY <1>20 DEF HookSwitchesGid, TypeInv, WellFormed, GidInv, ReadsOK, EndsIn
  <2>2. /\ task' = [task EXCEPT ![t].gid = e]
        /\ UNCHANGED <<lastTask, phase, follow>>
        /\ \A v \in Workers \ {w} : job'[v] = job[v]
    BY <1>20 DEF HookSwitchesGid, aria2Vars, TypeInv, TypeOK
  <2>3. \/ job'[w] = Rest
        \/ /\ job'[w].at \in {"finish", "decide"} /\ job'[w].cur = t
           /\ job'[w].seen = job[w].seen
    BY <1>20 DEF HookSwitchesGid, AfterLookup, TypeInv, TypeOK, WellFormed, Job
  <2>4. \A g \in Gids : ~Holds(w, g)'
    BY <2>3, RestReads DEF Holds
  <2> HIDE DEF t, e
  <2>5. ASSUME ReadsHold PROVE ReadsOK(w)'
    <3>1. CASE job'[w] = Rest
      BY <3>1, RestReads
    <3>2. CASE job'[w].at \in {"finish", "decide"} /\ job'[w].cur = t
               /\ job'[w].seen = job[w].seen
      <4>1. ASSUME NEW u \in Tasks, NEW g \in Gids, job[w].seen[u] = g
            PROVE  StillNames(u, g)'
        BY <2>1, <2>5, <4>1 DEF ReadsHold
      <4>2. \A u \in Tasks : Used(u) => Used(u)'
        BY <2>5 DEF ReadsHold
      <4>3. w \notin SyncPasses
        BY WorkersAssumption
      <4>4. Used(job[w].cur)'
        BY <2>1, <3>2, <4>2 DEF Used
      <4> QED BY <3>2, <4>1, <4>3, <4>4 DEF ReadsOK
    <3> QED BY <2>3, <3>1, <3>2
  <2> QED BY <2>1, <2>2, <2>4, <2>5, GidSwitches
<1>21. ASSUME NEW w \in Hooks, NEW path \in {"entity", "metadata", "none"},
              HookDecides(w, path)
       PROVE  GidInv'
  <2>1. RowsStay /\ PhasesGoOn /\ follow' = follow
        /\ \A v \in Workers \ {w} : job'[v] = job[v]
    BY <1>21 DEF HookDecides, RowsStay, PhasesGoOn, Used, dbVars, aria2Vars, TypeInv,
      TypeOK
  <2>2. job[w].at = "decide" /\ job[w] \in Job /\ w \notin SyncPasses
    BY <1>21, WorkersAssumption DEF HookDecides, TypeInv, WellFormed
  <2>3. job'[w] = Rest \/ job'[w] = [job[w] EXCEPT !.at = "finish"]
    BY <1>21 DEF HookDecides, TypeInv, TypeOK
  <2>4. CASE job'[w] = Rest
    BY <2>1, <2>4, RestReads, WorkerMoves
  <2>5. CASE job'[w] = [job[w] EXCEPT !.at = "finish"]
    <3>1. job'[w].at = "finish" /\ job'[w].cur = job[w].cur /\ job'[w].seen = job[w].seen
      BY <2>2, <2>5 DEF Job
    <3>2. ReadsOK(w) /\ job[w].cur \in Tasks
      BY <2>2 DEF GidInv, TypeInv, WellFormed
    <3>3. ReadsOK(w)'
      BY <2>1, <2>2, <3>1, <3>2 DEF ReadsOK, RowsStay, StillNames
    <3> QED BY <2>1, <3>1, <3>3, WorkerMoves DEF Holds
  <2> QED BY <2>3, <2>4, <2>5
<1>22. ASSUME NEW w \in Editors, NEW i \in Items, NEW target \in {"pending",
              "submitted"}, BatchRead(w, i, target)
       PROVE  GidInv'
  <2>1. RowsStay /\ PhasesGoOn /\ follow' = follow
        /\ \A v \in Workers \ {w} : job'[v] = job[v]
    BY <1>22 DEF BatchRead, RowsStay, PhasesGoOn, Used, dbVars, aria2Vars, TypeInv,
      TypeOK
  <2>2. ReadsOK(w)' /\ \A g \in Gids : Holds(w, g)' => Holds(w, g)
    BY <1>22, <2>1, IdsAssumption, WorkersAssumption DEF BatchRead, ReadsOK, Holds,
      GidInv, RowsStay, StillNames, TypeInv, TypeOK, WellFormed, Job
  <2> QED BY <2>1, <2>2, WorkerMoves
<1>23. ASSUME NEW w \in Editors, BatchWrite(w) PROVE GidInv'
  <2>1. RowsStay /\ PhasesGoOn /\ follow' = follow
        /\ \A v \in Workers \ {w} : job'[v] = job[v]
    BY <1>23 DEF BatchWrite, RowsStay, PhasesGoOn, Used, dbVars, aria2Vars, TypeInv,
      TypeOK
  <2>2. ReadsOK(w)' /\ \A g \in Gids : ~Holds(w, g)'
    <3>1. job'[w] = Rest
      BY <1>23 DEF BatchWrite, TypeInv, TypeOK
    <3> QED BY <3>1, RestReads
  <2> QED BY <2>1, <2>2, WorkerMoves
<1>24. ASSUME NEW g \in Gids, Aria2Completes(g) PROVE GidInv'
  BY <1>24, PhasesMove DEF Aria2Completes, PhasesGoOn, dbVars, TypeInv, TypeOK
<1>25. ASSUME NEW g \in Gids, Aria2EndsFirstStage(g) PROVE GidInv'
  <2>1. CASE follow' = follow
    BY <1>25, <2>1, PhasesMove
    DEF Aria2EndsFirstStage, PhasesGoOn, dbVars, TypeInv, TypeOK
  <2>2. CASE follow' # follow
    BY <1>25, <2>2, FirstStageEndsKeeps DEF Aria2EndsFirstStage, dbVars
  <2> QED BY <2>1, <2>2
<1>26. ASSUME NEW g \in Gids, Aria2Errs(g) PROVE GidInv'
  BY <1>26, PhasesMove DEF Aria2Errs, PhasesGoOn, dbVars, TypeInv, TypeOK
<1>27. ASSUME NEW g \in Gids, Aria2Removes(g) PROVE GidInv'
  BY <1>27, PhasesMove DEF Aria2Removes, PhasesGoOn, dbVars, TypeInv, TypeOK
<1>28. ASSUME NEW g \in Gids, Aria2Forgets(g) PROVE GidInv'
  BY <1>28, PhasesMove DEF Aria2Forgets, PhasesGoOn, dbVars, TypeInv, TypeOK
<1>29. ASSUME NEW w \in QueuePasses, QueuePassFails(w) PROVE GidInv'
  <2>1. RowsStay /\ PhasesGoOn /\ follow' = follow
        /\ \A v \in Workers \ {w} : job'[v] = job[v]
    BY <1>29 DEF QueuePassFails, RowsStay, PhasesGoOn, Used, dbVars, aria2Vars, TypeInv,
      TypeOK
  <2>2. ReadsOK(w)' /\ \A g \in Gids : ~Holds(w, g)'
    <3>1. job'[w] = [Rest EXCEPT !.at = AfterQueue(w)]
      BY <1>29 DEF QueuePassFails, TypeInv, TypeOK
    <3> QED BY <3>1, RestReads DEF AfterQueue
  <2> QED BY <2>1, <2>2, WorkerMoves
<1>30. ASSUME NEW w \in QueuePasses \cup ItemSubmits, AddURIFails(w) PROVE GidInv'
  <2>1. RowsStay /\ PhasesGoOn /\ follow' = follow
        /\ \A v \in Workers \ {w} : job'[v] = job[v]
    BY <1>30 DEF AddURIFails, RowsStay, PhasesGoOn, Used, dbVars, aria2Vars, TypeInv,
      TypeOK
  <2>2. ReadsOK(w)' /\ \A g \in Gids : Holds(w, g)' => Holds(w, g)
    BY <1>30, <2>1, IdsAssumption, WorkersAssumption DEF AddURIFails, ReadsOK, Holds,
      GidInv, RowsStay, StillNames, TypeInv, TypeOK, WellFormed, Job
  <2> QED BY <2>1, <2>2, WorkerMoves
<1>31. ASSUME NEW w \in QueuePasses \cup ItemSubmits, RecordFails(w) PROVE GidInv'
  <2>1. RowsStay /\ PhasesGoOn /\ follow' = follow
        /\ \A v \in Workers \ {w} : job'[v] = job[v]
    BY <1>31 DEF RecordFails, RowsStay, PhasesGoOn, Used, dbVars, aria2Vars, TypeInv, TypeOK
  <2>2. CASE job' = [job EXCEPT ![w] = [Rest EXCEPT !.at = AfterQueue(w)]]
    <3>1. job'[w] = [Rest EXCEPT !.at = AfterQueue(w)]
      BY <2>2 DEF TypeInv, TypeOK
    <3> QED BY <2>1, <3>1, RestReads, WorkerMoves DEF AfterQueue
  <2>3. CASE job' = [job EXCEPT ![w] = Back(w, Resume(w))]
    <3>1. /\ job'[w].at \in {"next", "idle"} /\ job'[w].gid = NoGid
          /\ job'[w].seen = job[w].seen
      BY <2>3 DEF Back, Resume, TypeInv, TypeOK, WellFormed, Job
    <3>2. ReadsOK(w)' /\ \A g \in Gids : ~Holds(w, g)'
      BY <2>1, <3>1 DEF ReadsOK, Holds, GidInv, RowsStay, StillNames
    <3> QED BY <2>1, <3>2, WorkerMoves
  <2> QED BY <1>31, <2>2, <2>3 DEF RecordFails
<1>32. ASSUME NEW w \in SyncPasses, SyncPassFails(w) PROVE GidInv'
  <2>1. RowsStay /\ PhasesGoOn /\ follow' = follow
        /\ \A v \in Workers \ {w} : job'[v] = job[v]
    BY <1>32 DEF SyncPassFails, RowsStay, PhasesGoOn, Used, dbVars, aria2Vars, TypeInv,
      TypeOK
  <2>2. ReadsOK(w)' /\ \A g \in Gids : ~Holds(w, g)'
    <3>1. job'[w] = Rest
      BY <1>32 DEF SyncPassFails, TypeInv, TypeOK
    <3> QED BY <3>1, RestReads
  <2> QED BY <2>1, <2>2, WorkerMoves
<1>33. ASSUME NEW w \in SyncPasses, NEW t \in Tasks, TellStatusFails(w, t)
       PROVE  GidInv'
  <2>1. RowsStay /\ PhasesGoOn /\ follow' = follow
        /\ \A v \in Workers \ {w} : job'[v] = job[v]
    BY <1>33 DEF TellStatusFails, RowsStay, PhasesGoOn, Used, dbVars, aria2Vars,
      TypeInv, TypeOK
  <2>2. ReadsOK(w)' /\ \A g \in Gids : Holds(w, g)' => Holds(w, g)
    BY <1>33, <2>1, IdsAssumption, WorkersAssumption DEF TellStatusFails, ReadsOK,
      Holds, GidInv, RowsStay, StillNames, TypeInv, TypeOK, WellFormed, Job, Taken
  <2> QED BY <2>1, <2>2, WorkerMoves
<1>34. ASSUME NEW w \in SyncPasses \cup Hooks, FinishFails(w) PROVE GidInv'
  <2>1. RowsStay /\ PhasesGoOn /\ follow' = follow
        /\ \A v \in Workers \ {w} : job'[v] = job[v]
    BY <1>34 DEF FinishFails, RowsStay, PhasesGoOn, Used, dbVars, aria2Vars, TypeInv,
      TypeOK
  <2>2. ReadsOK(w)' /\ \A g \in Gids : Holds(w, g)' => Holds(w, g)
    BY <1>34, <2>1, IdsAssumption, WorkersAssumption DEF FinishFails, ReadsOK, Holds,
      GidInv, RowsStay, StillNames, TypeInv, TypeOK, WellFormed, Job, Back, AfterFinish
  <2> QED BY <2>1, <2>2, WorkerMoves
<1>35. ASSUME NEW w \in Requests, ClientGone(w) PROVE GidInv'
  BY <1>35, AbandonKeeps DEF ClientGone, Requests
<1>36. ASSUME Crash PROVE GidInv'
  BY <1>36, AbandonKeeps DEF Crash
<1>37. CASE UNCHANGED vars
  BY <1>37, PhasesMove DEF vars, dbVars, aria2Vars, PhasesGoOn
<1> QED BY <1>1, <1>2, <1>3, <1>4, <1>5, <1>6, <1>7, <1>8, <1>9, <1>10, <1>11, <1>12,
  <1>13, <1>14, <1>15, <1>16, <1>17, <1>18, <1>19, <1>20, <1>21, <1>22, <1>23, <1>24,
  <1>25, <1>26, <1>27, <1>28, <1>29, <1>30, <1>31, <1>32, <1>33, <1>34, <1>35, <1>36,
  <1>37 DEF Next, QueueStep, SubmitStep, SyncStep, FinishStep, HookStep, Aria2Step,
  Failure

\* In every instance, and whatever passes, hooks, crashes and aria2 do, a gid
\* belongs to one task at most.
THEOREM GidsOwnedOnce == Spec => []GidOwnedOnce
<1>1. Init => TypeInv /\ GidInv
  BY TypeInit, GidInit
<1>2. TypeInv /\ GidInv /\ [Next]_vars => TypeInv' /\ GidInv'
  BY TypeStep, GidStep
<1>3. GidInv => GidOwnedOnce
  BY DEF GidInv, TasksApart, SameDownload, Used, GidOwnedOnce
<1> QED BY <1>1, <1>2, <1>3, PTL DEF Spec

-----------------------------------------------------------------------------
(* The tables agree, whoever works on them.                                *)

Backed(i) ==
  \/ i \in edited
  \/ item[i] = "failed" /\ i \in rejected
  \/ \E t \in Tasks : task[t].item = i /\ task[t].status = item[i]

BackedNext(i) ==
  \/ i \in edited'
  \/ item'[i] = "failed" /\ i \in rejected'
  \/ \E t \in Tasks : task'[t].item = i /\ task'[t].status = item'[i]

EndStatuses == {"submitted", "completed", "failed"}

\* Statements that write none of what the two tables agree on.
SameStatuses ==
  /\ UNCHANGED <<item, rejected, edited>>
  /\ \A t \in Tasks : task'[t].item = task[t].item /\ task'[t].status = task[t].status

LEMMA AgreementStays ==
  ASSUME ItemAgreesWithTask, SameStatuses
  PROVE  ItemAgreesWithTask'
BY DEF ItemAgreesWithTask, SameStatuses

\* One status is written; every other item keeps its own and what backs it.
LEMMA OneItemWritten ==
  ASSUME ItemAgreesWithTask, NEW k,
         \A i \in Items \ {k} : item'[i] = item[i] /\ (i \in edited => i \in edited')
                                /\ (i \in rejected => i \in rejected'),
         \A t \in Tasks : task[t].status \in EndStatuses /\ task[t].item # k =>
                            task'[t].item = task[t].item /\ task'[t].status = task[t].status,
         k \in Items /\ item'[k] \in EndStatuses => BackedNext(k)
  PROVE  ItemAgreesWithTask'
<1> SUFFICES ASSUME NEW i \in Items \ {k}, item'[i] \in EndStatuses PROVE BackedNext(i)
  BY DEF ItemAgreesWithTask, BackedNext, EndStatuses
<1>1. item[i] = item'[i] /\ Backed(i)
  BY DEF ItemAgreesWithTask, Backed, EndStatuses
<1> QED
  BY <1>1 DEF Backed, BackedNext

LEMMA SavedAgree ==
  ASSUME TypeInv, ItemAgreesWithTask, NEW i \in Items, NEW previewOnly,
         SaveFeedItem(i, previewOnly)
  PROVE  ItemAgreesWithTask'
<1>1. /\ item'[i] \notin EndStatuses /\ \A k \in Items \ {i} : item'[k] = item[k]
      /\ UNCHANGED <<task, rejected, edited>>
  BY DEF SaveFeedItem, TypeInv, TypeOK, EndStatuses, histVars
<1> QED
  BY <1>1, OneItemWritten

LEMMA MarkedAgree ==
  ASSUME TypeInv, ItemAgreesWithTask, NEW i \in Items, item' = [item EXCEPT ![i] = "submitting"],
         Overwritten(i), UNCHANGED <<task, rejected>>
  PROVE  ItemAgreesWithTask'
<1>1. item'[i] \notin EndStatuses /\ \A k \in Items \ {i} : item'[k] = item[k]
  BY DEF TypeInv, TypeOK, EndStatuses
<1> QED
  BY <1>1, OneItemWritten DEF Overwritten

LEMMA EditedAgree ==
  ASSUME TypeInv, ItemAgreesWithTask, NEW w \in Editors, BatchWrite(w)
  PROVE  ItemAgreesWithTask'
<1> DEFINE i == job[w].cur
<1>1. /\ \A k \in Items \ {i} : item'[k] = item[k]
      /\ edited' = edited \cup {i} /\ UNCHANGED <<task, rejected>>
  BY DEF BatchWrite, TypeInv, TypeOK
<1> HIDE DEF i
<1>2. i \in Items => BackedNext(i)
  BY <1>1 DEF BackedNext
<1> QED
  BY <1>1, <1>2, OneItemWritten

LEMMA RecordedAgree ==
  ASSUME TypeInv, Rows, ItemAgreesWithTask, NEW w \in Workers, RecordSubmitted(w)
  PROVE  ItemAgreesWithTask'
<1> DEFINE i == job[w].cur  t == lastTask + 1
<1>1. t \in Tasks /\ task[t] = FreeRow
  BY IdsAssumption DEF RecordSubmitted, TypeInv, TypeOK, Tasks, Rows
<1>2. /\ item' = [item EXCEPT ![i] = "submitted"]
      /\ task' = [task EXCEPT ![t] = [item |-> i, gid |-> job[w].gid, status |-> "submitted"]]
      /\ edited' = edited \ {i} /\ UNCHANGED rejected
  BY DEF RecordSubmitted, Overwritten
<1> HIDE DEF i, t
<1>3. \A k \in Items \ {i} : item'[k] = item[k]
  BY <1>2 DEF TypeInv, TypeOK
<1>4. /\ task'[t].item = i /\ task'[t].status = "submitted"
      /\ \A u \in Tasks \ {t} : task'[u] = task[u]
  BY <1>1, <1>2 DEF TypeInv, TypeOK
<1>5. \A u \in Tasks : task[u].status \in EndStatuses => task'[u] = task[u]
  BY <1>1, <1>4 DEF FreeRow, EndStatuses
<1>6. i \in Items => item'[i] = "submitted"
  BY <1>2 DEF TypeInv, TypeOK
<1>7. i \in Items => BackedNext(i)
  BY <1>1, <1>4, <1>6 DEF BackedNext
<1> QED
  BY <1>2, <1>3, <1>5, <1>7, OneItemWritten

LEMMA RefusedAgree ==
  ASSUME TypeInv, ItemAgreesWithTask, NEW w \in Workers, RecordFailed(w)
  PROVE  ItemAgreesWithTask'
<1> DEFINE i == job[w].cur
<1>1. /\ item' = [item EXCEPT ![i] = "failed"] /\ rejected' = rejected \cup {i}
      /\ edited' = edited \ {i} /\ UNCHANGED task
  BY DEF RecordFailed, Overwritten
<1> HIDE DEF i
<1>2. /\ \A k \in Items \ {i} : item'[k] = item[k]
      /\ i \in Items => item'[i] = "failed"
  BY <1>1 DEF TypeInv, TypeOK
<1>3. i \in Items => BackedNext(i)
  BY <1>1, <1>2 DEF BackedNext
<1> QED
  BY <1>1, <1>2, <1>3, OneItemWritten

LEMMA EndedAgree ==
  ASSUME TypeInv, ItemAgreesWithTask, NEW w \in Workers, Finish(w)
  PROVE  ItemAgreesWithTask'
<1> DEFINE t == job[w].cur  i == task[t].item
           end == IF job[w].says = "error" THEN "failed" ELSE "completed"
<1>1. /\ task' = [task EXCEPT ![t].status = end]
      /\ item' = [item EXCEPT ![i] = end]
      /\ edited' = edited \ {i} /\ UNCHANGED rejected
  BY DEF Finish, Overwritten
<1>2. t \in Tasks
  BY DEF Finish, TypeInv, WellFormed
<1> HIDE DEF t, end
<1>3. /\ task'[t].item = i /\ task'[t].status = end
      /\ \A u \in Tasks \ {t} : task'[u] = task[u]
  BY <1>1, <1>2 DEF TypeInv, TypeOK, TaskRow
<1>4. \A u \in Tasks : task[u].item # i => u # t
  OBVIOUS
<1> HIDE DEF i
<1>5. /\ \A k \in Items \ {i} : item'[k] = item[k]
      /\ i \in Items => item'[i] = end
  BY <1>1 DEF TypeInv, TypeOK
<1>6. i \in Items => BackedNext(i)
  BY <1>2, <1>3, <1>5 DEF BackedNext
<1> QED
  BY <1>1, <1>3, <1>4, <1>5, <1>6, OneItemWritten

LEMMA AgreementStep ==
  ASSUME TypeInv, Rows, ItemAgreesWithTask, [Next]_vars
  PROVE  ItemAgreesWithTask'
<1>1. ASSUME NEW i \in Items, NEW previewOnly \in BOOLEAN, SaveFeedItem(i, previewOnly)
      PROVE  ItemAgreesWithTask'
  BY <1>1, SavedAgree
<1>2. ASSUME NEW w \in QueuePasses, QueueStep(w) PROVE ItemAgreesWithTask'
  <2>1. CASE \E i \in Items : MarkNext(w, i)
    BY <2>1, MarkedAgree DEF MarkNext
  <2>2. CASE ListPending(w) \/ EndQueuePass(w)
    BY <2>2, AgreementStays DEF ListPending, EndQueuePass, SameStatuses, dbVars, histVars
  <2> QED
    BY <1>2, <2>1, <2>2 DEF QueueStep
<1>3. ASSUME NEW w \in ItemSubmits,
             (\E i \in Items : ReadItem(w, i)) \/ MarkRead(w) \/ ResolveFails(w)
      PROVE  ItemAgreesWithTask'
  <2>1. CASE MarkRead(w)
    <3>1. job[w].cur \in Items
      BY <2>1 DEF MarkRead, TypeInv, WellFormed, Workers
    <3> QED
      BY <2>1, <3>1, MarkedAgree DEF MarkRead
  <2>2. CASE (\E i \in Items : ReadItem(w, i)) \/ ResolveFails(w)
    BY <2>2, AgreementStays DEF ReadItem, ResolveFails, SameStatuses, dbVars, histVars
  <2> QED
    BY <1>3, <2>1, <2>2
<1>4. ASSUME NEW w \in QueuePasses \cup ItemSubmits, SubmitStep(w) PROVE ItemAgreesWithTask'
  <2>1. CASE RecordSubmitted(w) \/ RecordFailed(w)
    BY <2>1, RecordedAgree, RefusedAgree DEF Workers
  <2>2. CASE (\E g \in Gids : AddURI(w, g)) \/ AddURIRefused(w)
    BY <2>2, AgreementStays DEF AddURI, AddURIRefused, SameStatuses, dbVars, histVars
  <2> QED
    BY <1>4, <2>1, <2>2 DEF SubmitStep
<1>5. ASSUME NEW w \in SyncPasses, SyncStep(w) PROVE ItemAgreesWithTask'
  <2>1. ASSUME NEW t \in Tasks, TellStatus(w, t) PROVE ItemAgreesWithTask'
    <3>1. SameStatuses
      BY <2>1 DEF TellStatus, SameStatuses, TypeInv, TypeOK, TaskRow, histVars
    <3> QED
      BY <3>1, AgreementStays
  <2>2. CASE \/ ListSubmitted(w) \/ EndSyncPass(w)
             \/ \E t \in Tasks : TellStatusNotFound(w, t)
    BY <2>2, AgreementStays
       DEF ListSubmitted, EndSyncPass, TellStatusNotFound, SameStatuses, dbVars, histVars
  <2> QED
    BY <1>5, <2>1, <2>2 DEF SyncStep
<1>6. ASSUME NEW w \in Hooks, HookStep(w) PROVE ItemAgreesWithTask'
  <2>1. CASE HookSwitchesGid(w)
    <3>1. SameStatuses
      BY <2>1 DEF HookSwitchesGid, SameStatuses, TypeInv, TypeOK, TaskRow, histVars
    <3> QED
      BY <3>1, AgreementStays
  <2>2. CASE ~HookSwitchesGid(w)
    BY <1>6, <2>2, AgreementStays
       DEF HookStep, HookFindsTask, HookFindsParent, HookDecides, SameStatuses, dbVars, histVars
  <2> QED
    BY <2>1, <2>2
<1>7. ASSUME NEW w \in SyncPasses \cup Hooks, FinishStep(w) PROVE ItemAgreesWithTask'
  <2>1. CASE Finish(w)
    BY <2>1, EndedAgree DEF Workers
  <2>2. CASE Notify(w)
    BY <2>2, AgreementStays DEF Notify, SameStatuses, dbVars, histVars
  <2> QED
    BY <1>7, <2>1, <2>2 DEF FinishStep
<1>8. ASSUME NEW w \in Editors, NEW i \in Items, NEW target \in {"pending", "submitted"},
             BatchRead(w, i, target)
      PROVE  ItemAgreesWithTask'
  BY <1>8, AgreementStays DEF BatchRead, SameStatuses, dbVars, histVars
<1>9. ASSUME NEW w \in Editors, BatchWrite(w) PROVE ItemAgreesWithTask'
  BY <1>9, EditedAgree
<1>10. ASSUME NEW g \in Gids, Aria2Step(g) PROVE ItemAgreesWithTask'
  BY <1>10, AgreementStays
     DEF Aria2Step, Aria2Completes, Aria2EndsFirstStage, Aria2Errs, Aria2Removes, Aria2Forgets,
         SameStatuses, dbVars, histVars
<1>11. CASE Failure
  <2>1. UNCHANGED <<dbVars, edited>>
    BY <1>11 DEF Failure, QueuePassFails, AddURIFails, RecordFails, SyncPassFails,
                 TellStatusFails, FinishFails, ClientGone, Crash, Abandon, histVars
  <2> QED
    BY <2>1, AgreementStays DEF SameStatuses, dbVars
<1>12. CASE UNCHANGED vars
  BY <1>12, AgreementStays DEF vars, SameStatuses, dbVars, histVars
<1> QED
  BY <1>1, <1>2, <1>3, <1>4, <1>5, <1>6, <1>7, <1>8, <1>9, <1>10, <1>11, <1>12 DEF Next

\* However many workers write them from old reads, feed_items and
\* download_tasks agree: an item says "submitted", "completed" or "failed"
\* only if a row says the same, aria2 refused it, or a user wrote it.
THEOREM TablesAgree == Spec => []ItemAgreesWithTask
<1>1. Init => TypeInv /\ GidInv /\ ItemAgreesWithTask
  BY TypeInit, GidInit DEF Init, ItemAgreesWithTask
<1>2. TypeInv /\ GidInv /\ ItemAgreesWithTask /\ [Next]_vars
        => TypeInv' /\ GidInv' /\ ItemAgreesWithTask'
  BY TypeStep, GidStep, AgreementStep DEF GidInv
<1> QED
  BY <1>1, <1>2, PTL DEF Spec


-----------------------------------------------------------------------------
(* What aria2 has accepted is accounted for.                               *)

TrackedBy(t, g) == Used(t) /\ task[t].gid \in {g, follow[g]}

Accounted(g) ==
  \/ g \in leaked
  \/ \E t \in Tasks : TrackedBy(t, g)
  \/ \E w \in Workers : Holds(w, g)

Accepted(g) == phase[g] # "unused" /\ IsFirstStage(g)

LEMMA AccountDef == DownloadAccounted <=> \A g \in Gids : Accepted(g) => Accounted(g)
BY DEF DownloadAccounted, Accepted, Accounted, TrackedBy, Used, Holds

\* A step that loses nothing of what was accepted before.
LEMMA AccountStays ==
  ASSUME DownloadAccounted,
         \A g \in Gids : Accepted(g)' => Accepted(g) \/ Accounted(g)',
         leaked \subseteq leaked',
         \A g \in Gids, t \in Tasks : Accepted(g) /\ TrackedBy(t, g) => TrackedBy(t, g)',
         \A g \in Gids, w \in Workers : Holds(w, g) => Accounted(g)'
  PROVE  DownloadAccounted'
<1> SUFFICES ASSUME NEW g \in Gids, Accepted(g)' PROVE Accounted(g)'
  BY DEF DownloadAccounted, Accepted, Accounted, TrackedBy, Used, Holds
<1>1. CASE Accepted(g)
  <2>1. Accounted(g)
    BY <1>1, AccountDef
  <2>2. CASE g \in leaked
    BY <2>2 DEF Accounted
  <2>3. ASSUME NEW t \in Tasks, TrackedBy(t, g) PROVE Accounted(g)'
    BY <1>1, <2>3 DEF Accounted
  <2>4. ASSUME NEW w \in Workers, Holds(w, g) PROVE Accounted(g)'
    BY <2>4
  <2> QED
    BY <2>1, <2>2, <2>3, <2>4 DEF Accounted
<1> QED
  BY <1>1

\* A statement or a read that moves one worker, which held no gid.
LEMMA AccountMoves ==
  ASSUME DownloadAccounted, UNCHANGED <<task, phase, follow, leaked>>,
         \A w \in Workers, g \in Gids : Holds(w, g) => Holds(w, g)'
  PROVE  DownloadAccounted'
BY AccountStays DEF Accepted, Accounted, IsFirstStage, TrackedBy, Used

LEMMA OneMoves ==
  ASSUME TypeInv, NEW w \in Workers, job[w].at # "record", NEW j, job' = [job EXCEPT ![w] = j]
  PROVE  \A v \in Workers, g \in Gids : Holds(v, g) => Holds(v, g)'
BY DEF TypeInv, TypeOK, Holds

\* A row is moved to another gid by a worker that held none.
LEMMA AccountSwitches ==
  ASSUME TypeInv, GidInv, DownloadAccounted, UNCHANGED <<phase, follow, leaked>>,
         \A w \in Workers, g \in Gids : Holds(w, g) => Holds(w, g)',
         NEW t \in Tasks, NEW h \in Gids, Used(t),
         task' = [task EXCEPT ![t].gid = h],
         task[t].gid = h \/ follow[task[t].gid] = h
  PROVE  DownloadAccounted'
<1>1. \A u \in Tasks : Used(u) => Used(u)' /\ (u # t => task'[u].gid = task[u].gid)
  BY DEF Used, TypeInv, TypeOK, TaskRow
<1>2. task'[t].gid = h
  BY DEF TypeInv, TypeOK, TaskRow
<1>3. task[t].gid \in Gids
  BY DEF GidInv, Rows, Used, FreeRow
<1>4. ASSUME NEW g \in Gids, TrackedBy(t, g) PROVE TrackedBy(t, g)'
  <2>1. CASE task[t].gid = h
    BY <1>1, <1>2, <1>4, <2>1 DEF TrackedBy
  <2>2. CASE task[t].gid = g /\ follow[task[t].gid] = h
    BY <1>1, <1>2, <2>2 DEF TrackedBy
  <2>3. CASE task[t].gid = follow[g] /\ follow[task[t].gid] = h
    <3>1. follow[follow[g]] = NoGid
      BY <1>3, <2>3 DEF GidInv, Chains
    <3> QED
      BY <2>3, <3>1, IdsAssumption
  <2> QED
    BY <1>4, <2>1, <2>2, <2>3 DEF TrackedBy
<1>5. \A g \in Gids, u \in Tasks : TrackedBy(u, g) => TrackedBy(u, g)'
  BY <1>1, <1>4 DEF TrackedBy
<1>6. \A g \in Gids : Accepted(g)' => Accepted(g)
  BY DEF Accepted, IsFirstStage
<1> QED
  BY <1>5, <1>6, AccountStays DEF Accounted

\* What the workers W held when they stopped is known to be lost.
LEMMA AccountAbandons ==
  ASSUME TypeInv, DownloadAccounted, NEW W \in SUBSET Workers, Abandon(W)
  PROVE  DownloadAccounted'
<1>1. UNCHANGED <<task, phase, follow>> /\ leaked \subseteq leaked'
  BY DEF Abandon, dbVars, aria2Vars
<1>2. ASSUME NEW g \in Gids, NEW w \in Workers, Holds(w, g) PROVE Accounted(g)'
  <2>1. CASE w \in W
    BY <1>2, <2>1, IdsAssumption DEF Abandon, Holds, Accounted
  <2>2. CASE w \notin W
    <3>1. Holds(w, g)'
      BY <1>2, <2>2 DEF Abandon, Holds
    <3> QED
      BY <3>1 DEF Accounted
  <2> QED
    BY <2>1, <2>2
<1> QED
  BY <1>1, <1>2, AccountStays DEF Accepted, IsFirstStage, TrackedBy, Used

LEMMA AccountAccepts ==
  ASSUME TypeInv, DownloadAccounted, NEW w \in Workers, NEW g \in Gids, AddURI(w, g)
  PROVE  DownloadAccounted'
<1> DEFINE j == [job[w] EXCEPT !.at = "record", !.gid = g]
<1>1. /\ UNCHANGED <<task, follow, leaked>> /\ phase' = [phase EXCEPT ![g] = "active"]
      /\ job' = [job EXCEPT ![w] = j] /\ job[w].at # "record"
  BY DEF AddURI, dbVars, histVars
<1>2. j.at = "record" /\ j.gid = g
  BY DEF TypeInv, WellFormed, Job
<1> HIDE DEF j
<1>3. \A v \in Workers, h \in Gids : Holds(v, h) => Holds(v, h)'
  BY <1>1, OneMoves
<1>4. Accounted(g)'
  BY <1>1, <1>2 DEF Accounted, Holds, TypeInv, TypeOK
<1>5. \A h \in Gids : Accepted(h)' => Accepted(h) \/ h = g
  BY <1>1 DEF Accepted, IsFirstStage, TypeInv, TypeOK
<1> QED
  BY <1>1, <1>3, <1>4, <1>5, AccountStays DEF Accounted, TrackedBy, Used

\* The answer is lost: aria2 may have accepted a gid that nobody will record.
LEMMA AccountLoses ==
  ASSUME TypeInv, DownloadAccounted, NEW w \in Workers, AddURIFails(w)
  PROVE  DownloadAccounted'
<1>1. UNCHANGED <<task, follow>> /\ \A v \in Workers, h \in Gids : Holds(v, h) => Holds(v, h)'
  BY OneMoves DEF AddURIFails, dbVars
<1>2. CASE UNCHANGED <<phase, leaked>>
  BY <1>1, <1>2, AccountMoves
<1>3. ASSUME NEW g \in Gids, phase' = [phase EXCEPT ![g] = "active"], leaked' = leaked \cup {g}
      PROVE  DownloadAccounted'
  <2>1. \A h \in Gids : Accepted(h)' => Accepted(h) \/ h \in leaked'
    BY <1>1, <1>3 DEF Accepted, IsFirstStage, TypeInv, TypeOK
  <2> QED
    BY <1>1, <1>3, <2>1, AccountStays DEF Accounted, TrackedBy, Used
<1> QED
  BY <1>2, <1>3 DEF AddURIFails

LEMMA AccountRecords ==
  ASSUME TypeInv, GidInv, DownloadAccounted, NEW w \in Workers, RecordSubmitted(w)
  PROVE  DownloadAccounted'
<1> DEFINE t == lastTask + 1  g == job[w].gid
<1>1. t \in Tasks /\ task[t] = FreeRow
  BY IdsAssumption DEF RecordSubmitted, TypeInv, TypeOK, Tasks, GidInv, Rows
<1>2. /\ task' = [task EXCEPT ![t] = [item |-> job[w].cur, gid |-> g, status |-> "submitted"]]
      /\ job' = [job EXCEPT ![w] = Back(w, Resume(w))]
      /\ UNCHANGED <<phase, follow, leaked>>
  BY DEF RecordSubmitted, aria2Vars
<1> HIDE DEF t, g
<1>3. /\ task'[t].gid = g /\ task'[t].status = "submitted"
      /\ \A u \in Tasks \ {t} : task'[u] = task[u]
  BY <1>1, <1>2 DEF TypeInv, TypeOK
<1>4. \A h \in Gids, u \in Tasks : TrackedBy(u, h) => TrackedBy(u, h)'
  BY <1>1, <1>2, <1>3 DEF TrackedBy, Used, FreeRow
<1>5. ASSUME NEW h \in Gids, NEW v \in Workers, Holds(v, h) PROVE Accounted(h)'
  <2>1. CASE v = w
    <3>1. h = g
      BY <1>5, <2>1 DEF Holds, g
    <3> QED
      BY <1>1, <1>3, <3>1 DEF Accounted, TrackedBy, Used
  <2>2. CASE v # w
    <3>1. Holds(v, h)'
      BY <1>2, <1>5, <2>2 DEF Holds, TypeInv, TypeOK
    <3> QED
      BY <3>1 DEF Accounted
  <2> QED
    BY <2>1, <2>2
<1> QED
  BY <1>2, <1>4, <1>5, AccountStays DEF Accepted, IsFirstStage

\* The download that follows a first stage is no first stage itself.
LEMMA AccountFollows ==
  ASSUME TypeInv, GidInv, DownloadAccounted, NEW g \in Gids, Aria2EndsFirstStage(g)
  PROVE  DownloadAccounted'
<1>1. UNCHANGED <<task, job, leaked>> /\ phase[g] = "active"
  BY DEF Aria2EndsFirstStage, dbVars, histVars
<1>2. follow[g] = NoGid
  BY <1>1 DEF GidInv, Chains
<1>3. CASE phase' = [phase EXCEPT ![g] = "meta"] /\ UNCHANGED follow
  <2>1. \A h \in Gids : Accepted(h)' => Accepted(h)
    BY <1>1, <1>3 DEF Accepted, IsFirstStage, TypeInv, TypeOK
  <2> QED
    BY <1>1, <1>3, <2>1, AccountStays DEF Accounted, TrackedBy, Used, Holds
<1>4. ASSUME NEW child \in Gids, phase' = [phase EXCEPT ![g] = "meta", ![child] = "active"],
             follow' = [follow EXCEPT ![g] = child]
      PROVE  DownloadAccounted'
  <2>1. follow'[g] = child /\ \A h \in Gids \ {g} : follow'[h] = follow[h]
    BY <1>4 DEF TypeInv, TypeOK
  <2>2. \A h \in Gids : Accepted(h)' => Accepted(h)
    <3>1. \A h \in Gids : Accepted(h)' => h # child /\ \A p \in Gids : follow[p] # h
      BY <1>2, <2>1, IdsAssumption DEF Accepted, IsFirstStage
    <3>2. \A h \in Gids \ {child} : phase'[h] # "unused" => phase[h] # "unused"
      BY <1>1, <1>4 DEF TypeInv, TypeOK
    <3> QED
      BY <3>1, <3>2 DEF Accepted, IsFirstStage
  <2>3. \A h \in Gids, t \in Tasks : TrackedBy(t, h) => TrackedBy(t, h)'
    <3>1. \A t \in Tasks : Used(t) => task[t].gid # NoGid
      BY IdsAssumption DEF GidInv, Rows, Used, FreeRow
    <3> QED
      BY <1>1, <1>2, <2>1, <3>1 DEF TrackedBy, Used
  <2> QED
    BY <1>1, <2>2, <2>3, AccountStays DEF Accounted, Holds
<1> QED
  BY <1>3, <1>4 DEF Aria2EndsFirstStage

LEMMA AccountStep ==
  ASSUME TypeInv, GidInv, DownloadAccounted, [Next]_vars
  PROVE  DownloadAccounted'
<1> USE DEF Workers
<1>1. ASSUME NEW i \in Items, NEW previewOnly \in BOOLEAN, SaveFeedItem(i, previewOnly)
      PROVE  DownloadAccounted'
  BY <1>1, AccountMoves DEF SaveFeedItem, aria2Vars, histVars, Holds
<1>2. ASSUME NEW w \in QueuePasses, QueueStep(w) PROVE DownloadAccounted'
  <2>1. UNCHANGED <<task, phase, follow, leaked>>
        /\ \E j : job' = [job EXCEPT ![w] = j] /\ job[w].at # "record"
    BY <1>2 DEF QueueStep, ListPending, MarkNext, EndQueuePass, dbVars, aria2Vars, histVars
  <2> QED
    BY <2>1, OneMoves, AccountMoves
<1>3. ASSUME NEW w \in ItemSubmits,
             (\E i \in Items : ReadItem(w, i)) \/ MarkRead(w) \/ ResolveFails(w)
      PROVE  DownloadAccounted'
  <2>1. UNCHANGED <<task, phase, follow, leaked>>
        /\ \E j : job' = [job EXCEPT ![w] = j] /\ job[w].at # "record"
    BY <1>3 DEF ReadItem, MarkRead, ResolveFails, dbVars, aria2Vars, histVars
  <2> QED
    BY <2>1, OneMoves, AccountMoves
<1>4. ASSUME NEW w \in QueuePasses \cup ItemSubmits, SubmitStep(w) PROVE DownloadAccounted'
  <2>1. CASE (\E g \in Gids : AddURI(w, g)) \/ RecordSubmitted(w)
    BY <2>1, AccountAccepts, AccountRecords
  <2>2. CASE AddURIRefused(w)
    <3>1. UNCHANGED <<task, phase, follow, leaked>>
          /\ \E j : job' = [job EXCEPT ![w] = j] /\ job[w].at # "record"
      BY <2>2 DEF AddURIRefused, dbVars, aria2Vars, histVars
    <3> QED
      BY <3>1, OneMoves, AccountMoves
  <2>3. CASE RecordFailed(w)
    <3>1. \A v \in Workers, g \in Gids : Holds(v, g) => Holds(v, g)'
      BY <2>3, IdsAssumption DEF RecordFailed, Holds, TypeInv, TypeOK
    <3> QED
      BY <2>3, <3>1, AccountMoves DEF RecordFailed, aria2Vars
  <2> QED
    BY <1>4, <2>1, <2>2, <2>3 DEF SubmitStep
<1>5. ASSUME NEW w \in SyncPasses, SyncStep(w) PROVE DownloadAccounted'
  <2>1. CASE ListSubmitted(w) \/ EndSyncPass(w) \/ \E t \in Tasks : TellStatusNotFound(w, t)
    <3>1. UNCHANGED <<task, phase, follow, leaked>>
          /\ \E j : job' = [job EXCEPT ![w] = j] /\ job[w].at # "record"
      BY <2>1 DEF ListSubmitted, EndSyncPass, TellStatusNotFound, dbVars, aria2Vars, histVars
    <3> QED
      BY <3>1, OneMoves, AccountMoves
  <2>2. ASSUME NEW t \in Tasks, TellStatus(w, t) PROVE DownloadAccounted'
    <3> DEFINE seen == job[w].seen[t]
    <3>1. UNCHANGED <<phase, follow, leaked>>
          /\ \E j : job' = [job EXCEPT ![w] = j] /\ job[w].at # "record"
      BY <2>2 DEF TellStatus, aria2Vars, histVars
    <3>2. \A v \in Workers, g \in Gids : Holds(v, g) => Holds(v, g)'
      BY <3>1, OneMoves
    <3>3. seen \in Gids /\ StillNames(t, seen)
      BY <2>2 DEF TellStatus, IsNext, GidInv, ReadsOK
    <3>4. CASE Effective(seen) = seen \/ task[t].gid = follow[seen]
      <4>1. task' = task
        <5>1. Effective(seen) # seen => Effective(seen) = follow[seen]
          BY DEF Effective
        <5>2. task[t].gid = follow[seen] => [task EXCEPT ![t].gid = follow[seen]] = task
          BY DEF TypeInv, TypeOK, TaskRow
        <5> QED
          BY <2>2, <3>4, <5>1, <5>2 DEF TellStatus
      <4> QED
        BY <3>1, <3>2, <4>1, AccountMoves
    <3>5. CASE Effective(seen) # seen /\ task[t].gid # follow[seen]
      <4>1. follow[seen] \in Gids /\ Effective(seen) = follow[seen] /\ task[t].gid = seen /\ Used(t)
        BY <3>3, <3>5 DEF Effective, StillNames
      <4>2. task' = [task EXCEPT ![t].gid = follow[seen]]
        BY <2>2, <3>5, <4>1 DEF TellStatus
      <4> QED
        BY <3>1, <3>2, <4>1, <4>2, AccountSwitches
    <3> QED
      BY <3>4, <3>5
  <2> QED
    BY <1>5, <2>1, <2>2 DEF SyncStep
<1>6. ASSUME NEW w \in Hooks, HookStep(w) PROVE DownloadAccounted'
  <2>1. CASE HookSwitchesGid(w)
    <3>1. /\ task' = [task EXCEPT ![job[w].cur].gid = job[w].gid]
          /\ UNCHANGED <<phase, follow, leaked>>
          /\ \E j : job' = [job EXCEPT ![w] = j] /\ job[w].at = "switch"
      BY <2>1 DEF HookSwitchesGid, aria2Vars, histVars
    <3>2. \A v \in Workers, g \in Gids : Holds(v, g) => Holds(v, g)'
      BY <3>1, OneMoves
    <3>3. /\ job[w].cur \in Tasks /\ Used(job[w].cur)
          /\ job[w].gid \in Gids /\ EndsIn(job[w].cur, job[w].gid)
      BY <3>1 DEF TypeInv, WellFormed, GidInv, ReadsOK
    <3> QED
      BY <3>1, <3>2, <3>3, AccountSwitches DEF EndsIn, Reaches
  <2>2. CASE ~HookSwitchesGid(w)
    <3>1. UNCHANGED <<task, phase, follow, leaked>>
          /\ \E j : job' = [job EXCEPT ![w] = j] /\ job[w].at # "record"
      BY <1>6, <2>2
         DEF HookStep, HookFindsTask, HookFindsParent, HookDecides, dbVars, aria2Vars, histVars
    <3> QED
      BY <3>1, OneMoves, AccountMoves
  <2> QED
    BY <2>1, <2>2
<1>7. ASSUME NEW w \in SyncPasses \cup Hooks, FinishStep(w) PROVE DownloadAccounted'
  <2>1. CASE Notify(w)
    <3>1. UNCHANGED <<task, phase, follow, leaked>>
          /\ \E j : job' = [job EXCEPT ![w] = j] /\ job[w].at # "record"
      BY <2>1 DEF Notify, dbVars, aria2Vars, histVars
    <3> QED
      BY <3>1, OneMoves, AccountMoves
  <2>2. CASE Finish(w)
    <3>1. UNCHANGED <<phase, follow, leaked>>
          /\ \E j : job' = [job EXCEPT ![w] = j] /\ job[w].at # "record"
      BY <2>2 DEF Finish, aria2Vars
    <3>2. \A v \in Workers, g \in Gids : Holds(v, g) => Holds(v, g)'
      BY <3>1, OneMoves
    <3>3. \A t \in Tasks : task'[t].gid = task[t].gid /\ (Used(t) => Used(t)')
      BY <2>2 DEF Finish, Used, TypeInv, TypeOK, TaskRow
    <3>4. \A t \in Tasks, g \in Gids : TrackedBy(t, g) => TrackedBy(t, g)'
      BY <3>1, <3>3 DEF TrackedBy
    <3> QED
      BY <3>1, <3>2, <3>4, AccountStays DEF Accepted, IsFirstStage, Accounted
  <2> QED
    BY <1>7, <2>1, <2>2 DEF FinishStep
<1>8. ASSUME NEW w \in Editors,
             \/ \E i \in Items, target \in {"pending", "submitted"} : BatchRead(w, i, target)
             \/ BatchWrite(w)
      PROVE  DownloadAccounted'
  <2>1. UNCHANGED <<task, phase, follow, leaked>>
        /\ \E j : job' = [job EXCEPT ![w] = j] /\ job[w].at # "record"
    BY <1>8 DEF BatchRead, BatchWrite, dbVars, aria2Vars, histVars
  <2> QED
    BY <2>1, OneMoves, AccountMoves
<1>9. ASSUME NEW g \in Gids, Aria2Step(g) PROVE DownloadAccounted'
  <2>1. CASE Aria2EndsFirstStage(g)
    BY <2>1, AccountFollows
  <2>2. CASE ~Aria2EndsFirstStage(g)
    <3>1. /\ UNCHANGED <<task, follow, leaked, job>>
          /\ phase[g] # "unused"
      BY <1>9, <2>2 DEF Aria2Step, Aria2Completes, Aria2Errs, Aria2Removes, Aria2Forgets, dbVars,
                        histVars
    <3>2. \A h \in Gids : phase'[h] # "unused" => phase[h] # "unused"
      BY <1>9, <2>2 DEF Aria2Step, Aria2Completes, Aria2Errs, Aria2Removes, Aria2Forgets, TypeInv,
                        TypeOK
    <3> QED
      BY <3>1, <3>2, AccountStays DEF Accepted, IsFirstStage, Accounted, TrackedBy, Used, Holds
  <2> QED
    BY <2>1, <2>2
<1>10. CASE Failure
  <2>1. ASSUME NEW w \in Workers, AddURIFails(w) PROVE DownloadAccounted'
    BY <2>1, AccountLoses
  <2>2. ASSUME NEW w \in Workers, RecordFails(w) PROVE DownloadAccounted'
    <3>1. UNCHANGED <<task, phase, follow>> /\ leaked \subseteq leaked'
      BY <2>2 DEF RecordFails, dbVars, aria2Vars
    <3>2. \A v \in Workers, g \in Gids : Holds(v, g) => g \in leaked' \/ Holds(v, g)'
      BY <2>2, IdsAssumption DEF RecordFails, Holds, TypeInv, TypeOK
    <3> QED
      BY <3>1, <3>2, AccountStays DEF Accepted, IsFirstStage, Accounted, TrackedBy, Used
  <2>3. ASSUME NEW w \in Workers, \/ QueuePassFails(w) \/ SyncPassFails(w) \/ FinishFails(w)
                                  \/ \E t \in Tasks : TellStatusFails(w, t)
        PROVE  DownloadAccounted'
    <3>1. UNCHANGED <<task, phase, follow, leaked>>
          /\ \E j : job' = [job EXCEPT ![w] = j] /\ job[w].at # "record"
      BY <2>3 DEF QueuePassFails, SyncPassFails, FinishFails, TellStatusFails, dbVars, aria2Vars,
                  histVars
    <3> QED
      BY <3>1, OneMoves, AccountMoves
  <2>4. ASSUME NEW w \in Requests, ClientGone(w) PROVE DownloadAccounted'
    BY <2>4, AccountAbandons DEF ClientGone, Requests
  <2>5. CASE Crash
    BY <2>5, AccountAbandons DEF Crash
  <2> QED
    BY <1>10, <2>1, <2>2, <2>3, <2>4, <2>5 DEF Failure
<1>11. CASE UNCHANGED vars
  BY <1>11, AccountMoves DEF vars, dbVars, aria2Vars, histVars, Holds
<1> QED
  BY <1>1, <1>2, <1>3, <1>4, <1>5, <1>6, <1>7, <1>8, <1>9, <1>10, <1>11 DEF Next

\* Every download that aria2 has accepted has a row, or a worker about to write
\* one, or is known to be lost, although the row moves from the gid of the
\* metadata to that of the content in the hands of several passes and hooks.
THEOREM AllAccounted == Spec => []DownloadAccounted
<1>1. Init => TypeInv /\ GidInv /\ DownloadAccounted
  BY TypeInit, GidInit DEF Init, DownloadAccounted
<1>2. TypeInv /\ GidInv /\ DownloadAccounted /\ [Next]_vars
        => TypeInv' /\ GidInv' /\ DownloadAccounted'
  BY TypeStep, GidStep, AccountStep
<1> QED
  BY <1>1, <1>2, PTL DEF Spec

-----------------------------------------------------------------------------
(* Ends are justified.                                                     *)

\* Only a finished first stage is followed.
EndedStages == \A g \in Gids : follow[g] \in Gids => phase[g] = "meta"

HasFailed(t) == phase[task[t].gid] = "error"

HasEnded(t) ==
  \/ phase[Effective(task[t].gid)] = "complete"
  \/ NotFound(task[t].gid)
  \/ \E p \in purged : follow[p] = task[t].gid

Closed(t) == /\ task[t].status = "failed" => HasFailed(t)
             /\ task[t].status = "completed" => HasEnded(t)

\* What worker w has learned of the end of its task, now or some time ago,
\* still holds for the gid the task has by now.
Knows(w) ==
  /\ job[w].at = "switch" /\ job[w].says = "error" => phase[job[w].gid] = "error"
  /\ job[w].at = "decide" => /\ job[w].says # "error" /\ job[w].gid \in Gids
                             /\ StillNames(job[w].cur, job[w].gid)
  /\ job[w].at = "finish" => IF job[w].says = "error" THEN HasFailed(job[w].cur)
                             ELSE HasEnded(job[w].cur)

EndInv == EndedStages /\ (\A w \in Workers : Knows(w)) /\ \A t \in Tasks : Closed(t)

LEMMA EndInvJustifies == EndInv => EndIsJustified
BY DEF EndInv, Closed, HasFailed, HasEnded, EndIsJustified

\* Rows move along their own chain only.
RowsMoveOn ==
  \A t \in Tasks : Used(t) => Used(t)' /\ task'[t].gid \in {task[t].gid, follow[task[t].gid]}

\* What has ended stays as it is, and what aria2 forgot it never remembers.
Aria2GoesOn ==
  /\ purged \subseteq purged'
  /\ \A g \in Gids : /\ phase[g] \in {"meta", "complete", "error"} => phase'[g] = phase[g]
                     /\ follow'[g] # follow[g] => phase[g] = "active" /\ g \notin purged

\* Whatever was known of the end of a download stays true.
LEMMA EndsStay ==
  ASSUME TypeInv, GidInv, GidInv', EndedStages, RowsMoveOn, Aria2GoesOn,
         NEW t \in Tasks, Used(t)
  PROVE  /\ HasFailed(t) => HasFailed(t)'
         /\ HasEnded(t) => HasEnded(t)'
         /\ \A g \in Gids : StillNames(t, g) => StillNames(t, g)'
<1> DEFINE g == task[t].gid  h == task'[t].gid
<1>1. g \in Gids /\ h \in Gids /\ h \in {g, follow[g]}
  <2>1. Used(t)'
    BY DEF RowsMoveOn
  <2>2. t <= lastTask /\ t <= lastTask'
    BY <2>1 DEF GidInv, Rows, Used, FreeRow
  <2> QED
    BY <2>1, <2>2 DEF GidInv, Rows, RowsMoveOn
<1>2. NoGid \notin Gids /\ purged \subseteq Gids
  BY IdsAssumption DEF TypeInv, TypeOK
<1>3. /\ \A k \in Gids : follow[k] \in Gids =>
            follow[follow[k]] = NoGid /\ phase[k] = "meta" /\ follow'[k] = follow[k]
      /\ \A k \in Gids : phase[k] \in {"meta", "complete", "error"} \/ k \in purged =>
            follow'[k] = follow[k]
  BY DEF GidInv, Chains, EndedStages, Aria2GoesOn
<1> HIDE DEF g, h
<1>4. HasFailed(t) => HasFailed(t)'
  <2> SUFFICES ASSUME phase[g] = "error" PROVE phase'[h] = "error"
    BY DEF HasFailed, g, h
  <2>1. follow[g] \notin Gids
    BY <1>1, <1>3
  <2> QED
    BY <1>1, <2>1 DEF Aria2GoesOn
<1>5. ASSUME NEW k \in Gids, StillNames(t, k) PROVE StillNames(t, k)'
  <2>1. g = k \/ follow[k] = g
    BY <1>5 DEF StillNames, g
  <2>2. h = k \/ follow'[k] = h
    <3>1. CASE h = g
      BY <1>1, <1>3, <2>1, <3>1
    <3>2. CASE h = follow[g] /\ h # g
      <4>1. follow[k] # g
        BY <1>1, <1>2, <1>3, <3>2
      <4> QED
        BY <1>1, <1>3, <2>1, <3>2, <4>1
    <3> QED
      BY <1>1, <3>1, <3>2
  <2>3. Used(t)'
    BY DEF RowsMoveOn
  <2> QED
    BY <2>2, <2>3 DEF StillNames, h
<1>6. HasEnded(t) => HasEnded(t)'
  <2>1. CASE phase[Effective(g)] = "complete"
    <3>1. phase[h] = "complete" \/ (h = g /\ follow[g] \in Gids /\ phase[follow[g]] = "complete")
      BY <1>1, <1>3, <2>1 DEF Effective
    <3>2. CASE phase[h] = "complete"
      <4>1. follow'[h] = follow[h] /\ follow[h] \notin Gids
        BY <1>1, <1>3, <3>2
      <4>2. phase'[h] = "complete"
        BY <1>1, <3>2 DEF Aria2GoesOn
      <4> QED
        BY <4>1, <4>2 DEF HasEnded, Effective, h
    <3>3. CASE h = g /\ follow[g] \in Gids /\ phase[follow[g]] = "complete"
      <4>1. follow'[h] = follow[g] /\ phase'[follow[g]] = "complete"
        BY <1>1, <1>3, <3>3 DEF Aria2GoesOn
      <4> QED
        BY <3>3, <4>1 DEF HasEnded, Effective, h
    <3> QED
      BY <3>1, <3>2, <3>3
  <2>2. CASE g \in purged
    <3>1. g \in purged' /\ follow'[g] = follow[g]
      BY <1>1, <1>3, <2>2 DEF Aria2GoesOn
    <3> QED
      BY <1>1, <3>1 DEF HasEnded, NotFound, h
  <2>3. CASE follow[g] \in Gids /\ follow[g] \in purged
    <3>1. follow[g] \in purged' /\ follow'[g] = follow[g]
      BY <1>1, <1>3, <2>3 DEF Aria2GoesOn
    <3> QED
      BY <1>1, <2>3, <3>1 DEF HasEnded, NotFound, Effective, h
  <2>4. CASE \E p \in purged : follow[p] = g
    <3>1. PICK p \in purged : follow[p] = g
      BY <2>4
    <3>2. follow[g] = NoGid /\ follow'[p] = g /\ p \in purged'
      BY <1>1, <1>2, <1>3, <3>1 DEF Aria2GoesOn
    <3>3. h = g
      BY <1>1, <1>2, <3>2
    <3> QED
      BY <3>2, <3>3 DEF HasEnded, h
  <2> QED
    BY <2>1, <2>2, <2>3, <2>4 DEF HasEnded, NotFound, Effective, g
<1> QED
  BY <1>4, <1>5, <1>6

\* What a step has to show: that those it moves know the end of their task, and
\* that the row it closes has ended.
LEMMA EndsKept ==
  ASSUME TypeInv, GidInv, GidInv', EndInv, RowsMoveOn, Aria2GoesOn, EndedStages',
         \A v \in Workers : job'[v] = job[v] \/ Knows(v)',
         \A t \in Tasks : \/ Used(t) /\ task'[t].status = task[t].status
                          \/ task'[t].status \notin {"completed", "failed"}
                          \/ Closed(t)'
  PROVE  EndInv'
<1>1. ASSUME NEW v \in Workers, job'[v] = job[v] PROVE Knows(v)'
  <2>1. job[v].at \in {"decide", "finish"} => job[v].cur \in Tasks /\ Used(job[v].cur)
    BY DEF TypeInv, WellFormed, GidInv, ReadsOK
  <2>2. job[v].at = "switch" => job[v].gid \in Gids
    BY DEF GidInv, ReadsOK
  <2>3. Knows(v)
    BY DEF EndInv
  <2>4. job[v].at = "switch" /\ job[v].says = "error" => phase'[job[v].gid] = "error"
    BY <2>2, <2>3 DEF Knows, Aria2GoesOn
  <2>5. job[v].at = "decide" => /\ job[v].says # "error" /\ job[v].gid \in Gids
                                /\ StillNames(job[v].cur, job[v].gid)'
    BY <1>1, <2>1, <2>3, EndsStay DEF Knows, EndInv
  <2>6. job[v].at = "finish" => IF job[v].says = "error" THEN HasFailed(job[v].cur)'
                                ELSE HasEnded(job[v].cur)'
    BY <1>1, <2>1, <2>3, EndsStay DEF Knows, EndInv
  <2> QED
    BY <1>1, <2>4, <2>5, <2>6 DEF Knows
<1>2. ASSUME NEW t \in Tasks PROVE Closed(t)'
  <2>1. CASE Used(t) /\ task'[t].status = task[t].status
    BY <2>1, EndsStay DEF EndInv, Closed
  <2>2. CASE task'[t].status \notin {"completed", "failed"}
    BY <2>2 DEF Closed
  <2> QED
    BY <2>1, <2>2
<1> QED
  BY <1>1, <1>2 DEF EndInv

\* Where a worker knows something of an end.
Ending == {"switch", "decide", "finish"}

\* Most steps touch neither rows nor aria2, and their worker knows nothing.
LEMMA EndsUntouched ==
  ASSUME TypeInv, GidInv, GidInv', EndInv, UNCHANGED <<task, phase, follow, purged>>,
         \A v \in Workers : job'[v] = job[v] \/ Knows(v)'
  PROVE  EndInv'
<1>1. RowsMoveOn /\ Aria2GoesOn /\ EndedStages'
  BY DEF RowsMoveOn, Aria2GoesOn, EndInv, EndedStages, Used
<1>2. \A t \in Tasks : Closed(t)'
  BY DEF EndInv, Closed, HasFailed, HasEnded, Effective, NotFound
<1> QED
  BY <1>1, <1>2, EndsKept

\* Worker w alone moves, to where it knows of no end.
NothingNew(w) ==
  (\A v \in Workers \ {w} : job'[v] = job[v]) /\ job'[w].at \notin Ending

LEMMA NothingKnown ==
  ASSUME NEW w \in Workers, NothingNew(w)
  PROVE  \A v \in Workers : job'[v] = job[v] \/ Knows(v)'
BY DEF NothingNew, Ending, Knows

\* A gid that a worker read for its task, and what has become of it, says how
\* the task ended.
LEMMA ReadSaysEnd ==
  ASSUME TypeInv, GidInv, EndedStages, NEW t \in Tasks, NEW g \in Gids, StillNames(t, g)
  PROVE  /\ NotFound(g) => HasEnded(t)
         /\ phase[Effective(g)] = "complete" => HasEnded(t)
<1>1. task[t].gid \in Gids /\ (task[t].gid = g \/ follow[g] = task[t].gid)
  <2>1. t <= lastTask
    BY DEF GidInv, Rows, StillNames, Used, FreeRow
  <2> QED
    BY <2>1 DEF GidInv, Rows, StillNames
<1>2. follow[g] = task[t].gid => Effective(g) = task[t].gid /\ Effective(task[t].gid) = task[t].gid
  BY <1>1, IdsAssumption DEF GidInv, Chains, Effective
<1>3. NotFound(g) => HasEnded(t)
  BY <1>1, <1>2 DEF NotFound, HasEnded
<1> QED
  BY <1>1, <1>2, <1>3 DEF HasEnded

LEMMA PollKnows ==
  ASSUME TypeInv, GidInv, GidInv', EndInv, NEW w \in SyncPasses, NEW t \in Tasks,
         TellStatus(w, t) \/ TellStatusNotFound(w, t)
  PROVE  EndInv'
<1> DEFINE s == job[w].seen[t]
<1>1. w \in Workers /\ s \in Gids /\ StillNames(t, s) /\ Used(t)
  BY DEF TellStatus, TellStatusNotFound, IsNext, Workers, GidInv, ReadsOK, StillNames
<1>2. job[w] \in Job
  BY <1>1 DEF TypeInv, WellFormed
<1>3. task[t].gid \in Gids
  BY <1>1 DEF GidInv, Rows, Used, FreeRow, StillNames
<1> HIDE DEF s
<1>4. CASE TellStatusNotFound(w, t)
  <2>1. NotFound(s) /\ job'[w].at = "finish" /\ job'[w].cur = t /\ job'[w].says = "gone"
        /\ UNCHANGED <<task, phase, follow, purged>>
        /\ \A v \in Workers \ {w} : job'[v] = job[v]
    BY <1>1, <1>2, <1>4 DEF TellStatusNotFound, Taken, TypeInv, TypeOK, Job, dbVars, aria2Vars, s
  <2>2. HasEnded(t)'
    BY <1>1, <2>1, ReadSaysEnd DEF EndInv, HasEnded, NotFound, Effective
  <2>3. Knows(w)'
    BY <2>1, <2>2 DEF Knows
  <2> QED
    BY <2>1, <2>3, EndsUntouched
<1>5. CASE TellStatus(w, t)
  <2> DEFINE e == Effective(s)
  <2>1. /\ task' = IF e = s THEN task ELSE [task EXCEPT ![t].gid = e]
        /\ UNCHANGED <<phase, follow, purged>>
        /\ \A v \in Workers \ {w} : job'[v] = job[v]
    BY <1>5 DEF TellStatus, TypeInv, TypeOK, aria2Vars, s
  <2>2. e \in Gids /\ (follow[e] = NoGid \/ e = s) /\ (follow[s] \in Gids => e = follow[s])
    BY <1>1 DEF Effective, GidInv, Chains
  <2>3. /\ e \in {task[t].gid, follow[task[t].gid]}
        /\ e = s => task[t].gid = e
    BY <1>1, <1>3, IdsAssumption DEF StillNames, Effective, GidInv, Chains
  <2> HIDE DEF e
  <2>4. task'[t].gid = e /\ \A u \in Tasks : task'[u].status = task[u].status
        /\ (u # t => task'[u] = task[u])
    BY <2>1, <2>3 DEF TypeInv, TypeOK, TaskRow
  <2>5. RowsMoveOn
    BY <2>3, <2>4 DEF RowsMoveOn, Used
  <2>6. Aria2GoesOn /\ EndedStages'
    BY <2>1 DEF Aria2GoesOn, EndInv, EndedStages
  <2>7. Knows(w)'
    <3> DEFINE T == Taken(w, t)
    <3>1. T.at = "scan" /\ T \in [{"at", "todo", "seen", "cur", "gid", "says"} ->
                                  {T[f] : f \in {"at", "todo", "seen", "cur", "gid", "says"}}]
      BY <1>2, <1>5 DEF TellStatus, Taken, Job
    <3> HIDE DEF T
    <3>2. CASE job' = [job EXCEPT ![w] = T]
      <4>1. job'[w].at = "scan"
        BY <1>1, <3>1, <3>2 DEF TypeInv, TypeOK
      <4> QED
        BY <4>1 DEF Knows
    <3>3. CASE /\ phase[e] = "error" \/ phase[e] = "complete"
               /\ job' = [job EXCEPT ![w] = [T EXCEPT !.at = "finish", !.cur = t,
                      !.says = IF phase[e] = "error" THEN "error" ELSE "complete"]]
      <4>1. /\ job'[w].at = "finish" /\ job'[w].cur = t
            /\ job'[w].says = IF phase[e] = "error" THEN "error" ELSE "complete"
        BY <1>1, <3>1, <3>3 DEF TypeInv, TypeOK
      <4>2. phase[e] = "complete" => Effective(e) = e
        BY <2>2 DEF EndInv, EndedStages, Effective
      <4> QED
        BY <2>1, <2>4, <3>3, <4>1, <4>2 DEF Knows, HasFailed, HasEnded, Effective
    <3> QED
      BY <1>5, <3>2, <3>3 DEF TellStatus, IsReady, e, s, T
  <2>8. \A u \in Tasks : \/ Used(u) /\ task'[u].status = task[u].status
                         \/ task'[u].status \notin {"completed", "failed"}
    BY <2>4 DEF Used
  <2> QED
    BY <2>1, <2>5, <2>6, <2>7, <2>8, EndsKept
<1> QED
  BY <1>4, <1>5

LEMMA HookKnows ==
  ASSUME TypeInv, GidInv, GidInv', EndInv, NEW w \in Hooks, HookStep(w)
  PROVE  EndInv'
<1>1. w \in Workers /\ job[w] \in Job /\ Knows(w)
  BY DEF Workers, TypeInv, WellFormed, EndInv
<1>2. \A event \in CompleteEvents : event # "error"
  BY BoundsAssumption
<1>3. \A g \in Gids, event \in CompleteEvents \cup {"error"} :
        event \in HookEvents(g) /\ event = "error" => phase[g] = "error"
  BY <1>2 DEF HookEvents
<1>4. ASSUME NEW g \in Gids, NEW event \in CompleteEvents \cup {"error"}, NEW t \in Tasks,
             HookFindsTask(w, g, event, t)
      PROVE  EndInv'
  <2>1. /\ UNCHANGED <<task, phase, follow, purged>>
        /\ \A v \in Workers \ {w} : job'[v] = job[v]
        /\ job'[w].at = AfterLookup(event) /\ job'[w].cur = t /\ job'[w].gid = g
        /\ job'[w].says = event
    BY <1>1, <1>4 DEF HookFindsTask, TypeInv, TypeOK, Job, dbVars, aria2Vars
  <2>2. task[t].gid = g /\ Used(t) /\ (event = "error" => phase[g] = "error")
    BY <1>3, <1>4 DEF HookFindsTask, TaskOf, Used
  <2>3. Knows(w)'
    BY <2>1, <2>2 DEF Knows, AfterLookup, HasFailed, StillNames, Used
  <2> QED
    BY <2>1, <2>3, EndsUntouched
<1>5. ASSUME NEW g \in Gids, NEW event \in CompleteEvents \cup {"error"}, NEW t \in Tasks,
             HookFindsParent(w, g, event, t)
      PROVE  EndInv'
  <2>1. /\ UNCHANGED <<task, phase, follow, purged>>
        /\ \A v \in Workers \ {w} : job'[v] = job[v]
        /\ job'[w].at = "switch" /\ job'[w].gid = g /\ job'[w].says = event
    BY <1>1, <1>5 DEF HookFindsParent, TypeInv, TypeOK, Job, dbVars, aria2Vars
  <2>2. event = "error" => phase[g] = "error"
    BY <1>3, <1>5 DEF HookFindsParent
  <2>3. Knows(w)'
    BY <2>1, <2>2 DEF Knows
  <2> QED
    BY <2>1, <2>3, EndsUntouched
<1>6. CASE HookSwitchesGid(w)
  <2> PICK t \in Tasks, g \in Gids : t = job[w].cur /\ g = job[w].gid
    BY <1>1, <1>6 DEF HookSwitchesGid, TypeInv, WellFormed, GidInv, ReadsOK
  <2>1. /\ job[w].at = "switch" /\ t \in Tasks /\ Used(t) /\ g \in Gids
        /\ g \in {task[t].gid, follow[task[t].gid]}
    BY <1>1, <1>6 DEF HookSwitchesGid, TypeInv, WellFormed, GidInv, ReadsOK, EndsIn, Reaches
  <2>2. /\ task' = [task EXCEPT ![t].gid = g] /\ UNCHANGED <<phase, follow, purged>>
        /\ \A v \in Workers \ {w} : job'[v] = job[v]
    BY <1>6 DEF HookSwitchesGid, TypeInv, TypeOK, aria2Vars
  <2>3. \/ job'[w].at = "idle"
        \/ /\ job'[w].at = AfterLookup(job[w].says) /\ job'[w].cur = t /\ job'[w].gid = g
           /\ job'[w].says = job[w].says
    BY <1>1, <1>6 DEF HookSwitchesGid, Rest, TypeInv, TypeOK, Job
  <2>4. task'[t].gid = g /\ \A u \in Tasks : task'[u].status = task[u].status
        /\ (u # t => task'[u] = task[u])
    BY <2>1, <2>2 DEF TypeInv, TypeOK, TaskRow
  <2>5. RowsMoveOn
    BY <2>1, <2>4 DEF RowsMoveOn, Used
  <2>6. Aria2GoesOn /\ EndedStages'
    BY <2>2 DEF Aria2GoesOn, EndInv, EndedStages
  <2>7. job[w].says = "error" => phase[g] = "error"
    BY <1>1, <2>1 DEF Knows
  <2>8. Knows(w)'
    BY <2>1, <2>2, <2>3, <2>4, <2>7 DEF Knows, AfterLookup, HasFailed, StillNames, Used
  <2>9. \A u \in Tasks : \/ Used(u) /\ task'[u].status = task[u].status
                         \/ task'[u].status \notin {"completed", "failed"}
    BY <2>4 DEF Used
  <2> QED
    BY <2>2, <2>5, <2>6, <2>8, <2>9, EndsKept
<1>7. ASSUME NEW path \in {"entity", "metadata", "none"}, HookDecides(w, path) PROVE EndInv'
  <2> PICK t \in Tasks, g \in Gids : t = job[w].cur /\ g = job[w].gid
    BY <1>1, <1>7 DEF HookDecides, TypeInv, WellFormed, Knows
  <2>1. /\ job[w].at = "decide" /\ t \in Tasks /\ g \in Gids /\ StillNames(t, g)
        /\ job[w].says # "error"
    BY <1>1, <1>7 DEF HookDecides, TypeInv, WellFormed, Knows
  <2>2. /\ UNCHANGED <<task, phase, follow, purged>>
        /\ \A v \in Workers \ {w} : job'[v] = job[v]
    BY <1>7 DEF HookDecides, TypeInv, TypeOK, dbVars, aria2Vars
  <2>3. \/ job'[w].at = "idle"
        \/ /\ ShouldFinalize(g, path) /\ job'[w].at = "finish" /\ job'[w].cur = t
           /\ job'[w].says = job[w].says
    BY <1>1, <1>7 DEF HookDecides, Rest, TypeInv, TypeOK, Job
  <2>4. ShouldFinalize(g, path) => HasEnded(t)
    BY <2>1, ReadSaysEnd DEF ShouldFinalize, IsReady, EndInv
  <2>5. HasEnded(t) => HasEnded(t)'
    BY <2>2 DEF HasEnded, NotFound, Effective
  <2>6. Knows(w)'
    BY <2>1, <2>3, <2>4, <2>5 DEF Knows
  <2> QED
    BY <2>2, <2>6, EndsUntouched
<1> QED
  BY <1>4, <1>5, <1>6, <1>7 DEF HookStep

LEMMA FinishCloses ==
  ASSUME TypeInv, GidInv, GidInv', EndInv, NEW w \in Workers, Finish(w)
  PROVE  EndInv'
<1> PICK t \in Tasks, end \in {"failed", "completed"} :
       t = job[w].cur /\ end = IF job[w].says = "error" THEN "failed" ELSE "completed"
  BY DEF Finish, TypeInv, WellFormed
<1>1. /\ t \in Tasks /\ Used(t) /\ Knows(w) /\ job[w].at = "finish" /\ job[w] \in Job
  BY DEF Finish, TypeInv, WellFormed, GidInv, ReadsOK, EndInv
<1>2. /\ task' = [task EXCEPT ![t].status = end] /\ UNCHANGED <<phase, follow, purged>>
      /\ \A v \in Workers \ {w} : job'[v] = job[v]
      /\ job'[w].at = "notify"
  BY <1>1 DEF Finish, TypeInv, TypeOK, Job, aria2Vars
<1>3. IF end = "failed" THEN HasFailed(t) ELSE HasEnded(t)
  BY <1>1 DEF Knows
<1>4. end \in {"failed", "completed"}
  OBVIOUS
<1>5. /\ task'[t].gid = task[t].gid /\ task'[t].status = end
      /\ \A u \in Tasks : task'[u].gid = task[u].gid /\ (u # t => task'[u] = task[u])
  BY <1>1, <1>2 DEF TypeInv, TypeOK, TaskRow
<1>6. RowsMoveOn
  BY <1>4, <1>5 DEF RowsMoveOn, Used
<1>7. Aria2GoesOn /\ EndedStages'
  BY <1>2 DEF Aria2GoesOn, EndInv, EndedStages
<1>8. Closed(t)'
  <2>1. HasFailed(t)' <=> HasFailed(t)
    BY <1>2, <1>5 DEF HasFailed
  <2>2. HasEnded(t)' <=> HasEnded(t)
    BY <1>2, <1>5 DEF HasEnded, NotFound, Effective
  <2> QED
    BY <1>3, <1>5, <2>1, <2>2 DEF Closed
<1>9. Knows(w)'
  BY <1>2 DEF Knows
<1>10. \A u \in Tasks : \/ Used(u) /\ task'[u].status = task[u].status
                        \/ task'[u].status \notin {"completed", "failed"}
                        \/ Closed(u)'
  <2> TAKE u \in Tasks
  <2>1. CASE u = t
    BY <1>8, <2>1
  <2>2. CASE u # t
    BY <1>5, <2>2 DEF Used
  <2> QED
    BY <2>1, <2>2
<1> QED
  BY <1>2, <1>6, <1>7, <1>9, <1>10, EndsKept

\* A download that was never there before starts: nothing was known about it.
LEMMA AcceptedUnknown ==
  ASSUME TypeInv, GidInv, GidInv', EndInv, UNCHANGED <<task, follow, purged>>,
         NEW g \in Gids, phase[g] = "unused", phase' = [phase EXCEPT ![g] = "active"],
         NEW w \in Workers, NothingNew(w)
  PROVE  EndInv'
<1>1. \A h \in Gids \ {g} : phase'[h] = phase[h]
  BY DEF TypeInv, TypeOK
<1>2. RowsMoveOn /\ Aria2GoesOn
  BY <1>1 DEF RowsMoveOn, Aria2GoesOn, Used
<1>3. EndedStages'
  BY <1>1 DEF EndInv, EndedStages
<1>4. \A t \in Tasks : Used(t) \/ task'[t].status \notin {"completed", "failed"}
  BY DEF Used
<1> QED
  BY <1>2, <1>3, <1>4, NothingKnown, EndsKept

LEMMA RecordedOpen ==
  ASSUME TypeInv, GidInv, GidInv', EndInv, NEW w \in Workers, RecordSubmitted(w)
  PROVE  EndInv'
<1> PICK t \in Tasks : t = lastTask + 1 /\ task[t] = FreeRow
  BY IdsAssumption DEF RecordSubmitted, TypeInv, TypeOK, Tasks, GidInv, Rows
<1>1. /\ task'[t].status = "submitted" /\ \A u \in Tasks \ {t} : task'[u] = task[u]
      /\ UNCHANGED <<phase, follow, purged>>
  BY DEF RecordSubmitted, TypeInv, TypeOK, aria2Vars
<1>2. RowsMoveOn /\ Aria2GoesOn /\ EndedStages'
  BY <1>1 DEF RowsMoveOn, Aria2GoesOn, EndInv, EndedStages, Used, FreeRow
<1>3. \A u \in Tasks : \/ Used(u) /\ task'[u].status = task[u].status
                       \/ task'[u].status \notin {"completed", "failed"}
  BY <1>1 DEF Used
<1>4. NothingNew(w)
  BY DEF RecordSubmitted, Back, Resume, NothingNew, Ending, TypeInv, TypeOK, WellFormed, Job
<1> QED
  BY <1>2, <1>3, <1>4, NothingKnown, EndsKept

LEMMA Aria2Ends ==
  ASSUME TypeInv, GidInv, GidInv', EndInv, NEW g \in Gids, Aria2Step(g)
  PROVE  EndInv'
<1>1. UNCHANGED <<task, job>>
  BY DEF Aria2Step, Aria2Completes, Aria2EndsFirstStage, Aria2Errs, Aria2Removes,
    Aria2Forgets, dbVars
<1>2. RowsMoveOn
  BY <1>1 DEF RowsMoveOn, Used
<1>3. \A t \in Tasks : Used(t) \/ task'[t].status \notin {"completed", "failed"}
  BY <1>1 DEF Used
<1>4. Aria2GoesOn /\ EndedStages'
  <2>1. CASE Aria2Forgets(g)
    BY <2>1 DEF Aria2Forgets, Aria2GoesOn, EndInv, EndedStages
  <2>2. CASE Aria2Completes(g) \/ Aria2Errs(g) \/ Aria2Removes(g)
    <3>1. UNCHANGED <<follow, purged>> /\ phase[g] = "active"
          /\ \A h \in Gids \ {g} : phase'[h] = phase[h]
      BY <2>2 DEF Aria2Completes, Aria2Errs, Aria2Removes, TypeInv, TypeOK
    <3>2. follow[g] = NoGid
      BY <3>1 DEF GidInv, Chains
    <3> QED
      BY <3>1, <3>2, IdsAssumption DEF Aria2GoesOn, EndInv, EndedStages
  <2>3. CASE Aria2EndsFirstStage(g)
    <3>1. /\ phase[g] = "active" /\ g \notin purged /\ purged' = purged /\ phase'[g] = "meta"
          /\ \A h \in Gids \ {g} : follow'[h] = follow[h]
          /\ \A h \in Gids \ {g} : phase[h] # "unused" => phase'[h] = phase[h]
      BY <2>3 DEF Aria2EndsFirstStage, TypeInv, TypeOK
    <3> QED
      BY <3>1 DEF Aria2GoesOn, EndInv, EndedStages
  <2> QED
    BY <2>1, <2>2, <2>3 DEF Aria2Step
<1> QED
  BY <1>1, <1>2, <1>3, <1>4, EndsKept

LEMMA EndStep ==
  ASSUME TypeInv, GidInv, GidInv', EndInv, [Next]_vars
  PROVE  EndInv'
<1> USE DEF Workers
<1>1. ASSUME NEW i \in Items, NEW previewOnly \in BOOLEAN, SaveFeedItem(i, previewOnly)
      PROVE  EndInv'
  BY <1>1, EndsUntouched DEF SaveFeedItem, aria2Vars
<1>2. ASSUME NEW w \in QueuePasses, QueueStep(w) PROVE EndInv'
  <2>1. UNCHANGED <<task, phase, follow, purged>>
    BY <1>2 DEF QueueStep, ListPending, MarkNext, EndQueuePass, dbVars, aria2Vars
  <2>2. NothingNew(w)
    <3>1. CASE ListPending(w)
      BY <3>1 DEF ListPending, NothingNew, Ending,
        TypeInv, TypeOK, WellFormed, Job
    <3>2. CASE \E i \in Items : MarkNext(w, i)
      BY <3>2 DEF MarkNext, NothingNew, Ending,
        TypeInv, TypeOK, WellFormed, Job
    <3>3. CASE EndQueuePass(w)
      BY <3>3 DEF EndQueuePass, AfterQueue, Rest, NothingNew, Ending,
        TypeInv, TypeOK, WellFormed, Job
    <3> QED
      BY <1>2, <3>1, <3>2, <3>3 DEF QueueStep
  <2> QED
    BY <2>1, <2>2, NothingKnown, EndsUntouched
<1>3. ASSUME NEW w \in ItemSubmits,
             (\E i \in Items : ReadItem(w, i)) \/ MarkRead(w) \/ ResolveFails(w)
      PROVE  EndInv'
  <2>1. UNCHANGED <<task, phase, follow, purged>>
    BY <1>3 DEF ReadItem, MarkRead, ResolveFails, dbVars, aria2Vars
  <2>2. NothingNew(w)
    <3>1. CASE \E i \in Items : ReadItem(w, i)
      BY <3>1 DEF ReadItem, NothingNew, Ending,
        TypeInv, TypeOK, WellFormed, Job
    <3>2. CASE MarkRead(w)
      BY <3>2 DEF MarkRead, NothingNew, Ending,
        TypeInv, TypeOK, WellFormed, Job
    <3>3. CASE ResolveFails(w)
      BY <3>3 DEF ResolveFails, Rest, NothingNew, Ending,
        TypeInv, TypeOK, WellFormed, Job
    <3> QED
      BY <1>3, <3>1, <3>2, <3>3
  <2> QED
    BY <2>1, <2>2, NothingKnown, EndsUntouched
<1>4. ASSUME NEW w \in QueuePasses \cup ItemSubmits, SubmitStep(w) PROVE EndInv'
  <2>1. ASSUME NEW g \in Gids, AddURI(w, g) PROVE EndInv'
    <3>1. NothingNew(w)
      BY <2>1 DEF AddURI, NothingNew, Ending, TypeInv, TypeOK, WellFormed, Job
    <3> QED
      BY <2>1, <3>1, AcceptedUnknown DEF AddURI, dbVars
  <2>2. CASE RecordSubmitted(w)
    BY <2>2, RecordedOpen
  <2>3. CASE AddURIRefused(w) \/ RecordFailed(w)
    <3>1. NothingNew(w)
      <4>1. CASE AddURIRefused(w)
        BY <4>1 DEF AddURIRefused, NothingNew, Ending,
          TypeInv, TypeOK, WellFormed, Job
      <4>2. CASE RecordFailed(w)
        BY <4>2 DEF RecordFailed, Back, Resume, NothingNew, Ending,
          TypeInv, TypeOK, WellFormed, Job
      <4> QED
        BY <2>3, <4>1, <4>2
    <3> QED
      BY <2>3, <3>1, NothingKnown, EndsUntouched DEF AddURIRefused, RecordFailed, dbVars,
        aria2Vars
  <2> QED
    BY <1>4, <2>1, <2>2, <2>3 DEF SubmitStep
<1>5. ASSUME NEW w \in SyncPasses, SyncStep(w) PROVE EndInv'
  <2>1. CASE ListSubmitted(w) \/ EndSyncPass(w)
    <3>1. NothingNew(w)
      <4>1. CASE ListSubmitted(w)
        BY <4>1 DEF ListSubmitted, NothingNew, Ending,
          TypeInv, TypeOK, WellFormed, Job
      <4>2. CASE EndSyncPass(w)
        BY <4>2 DEF EndSyncPass, Rest, NothingNew, Ending,
          TypeInv, TypeOK, WellFormed, Job
      <4> QED
        BY <2>1, <4>1, <4>2
    <3> QED
      BY <2>1, <3>1, NothingKnown, EndsUntouched DEF ListSubmitted, EndSyncPass, dbVars, aria2Vars
  <2> QED
    BY <1>5, <2>1, PollKnows DEF SyncStep
<1>6. ASSUME NEW w \in Hooks, HookStep(w) PROVE EndInv'
  BY <1>6, HookKnows
<1>7. ASSUME NEW w \in SyncPasses \cup Hooks, FinishStep(w) PROVE EndInv'
  <2>1. CASE Notify(w)
    <3>1. NothingNew(w)
      BY <2>1 DEF Notify, Back, AfterFinish, NothingNew, Ending, TypeInv, TypeOK, WellFormed, Job
    <3> QED
      BY <2>1, <3>1, NothingKnown, EndsUntouched DEF Notify, dbVars, aria2Vars
  <2> QED
    BY <1>7, <2>1, FinishCloses DEF FinishStep
<1>8. ASSUME NEW w \in Editors,
             (\E i \in Items, target \in {"pending", "submitted"} : BatchRead(w, i, target))
               \/ BatchWrite(w)
      PROVE  EndInv'
  <2>1. NothingNew(w)
    <3>1. CASE BatchWrite(w)
      BY <3>1 DEF BatchWrite, Rest, NothingNew, Ending,
        TypeInv, TypeOK, WellFormed, Job
    <3>2. CASE \E i \in Items, target \in {"pending", "submitted"} : BatchRead(w, i, target)
      BY <3>2 DEF BatchRead, NothingNew, Ending,
        TypeInv, TypeOK, WellFormed, Job
    <3> QED
      BY <1>8, <3>1, <3>2
  <2> QED
    BY <1>8, <2>1, NothingKnown, EndsUntouched DEF BatchRead, BatchWrite, dbVars, aria2Vars
<1>9. ASSUME NEW g \in Gids, Aria2Step(g) PROVE EndInv'
  BY <1>9, Aria2Ends
<1>10. ASSUME Failure PROVE EndInv'
  <2>1. ASSUME NEW W \in SUBSET Workers, Abandon(W) PROVE EndInv'
    <3>1. \A v \in Workers : job'[v] = job[v] \/ job'[v].at = "idle"
      BY <2>1 DEF Abandon, Rest
    <3>2. \A v \in Workers : job'[v] = job[v] \/ Knows(v)'
      BY <3>1 DEF Knows
    <3> QED
      BY <2>1, <3>2, EndsUntouched DEF Abandon, dbVars, aria2Vars
  <2>2. CASE Crash \/ \E w \in Requests : ClientGone(w)
    BY <2>1, <2>2 DEF Crash, ClientGone, Requests
  <2>3. ASSUME NEW w \in QueuePasses, QueuePassFails(w) PROVE EndInv'
    <3>1. NothingNew(w)
      BY <2>3 DEF QueuePassFails, AfterQueue, Rest, NothingNew, Ending, TypeInv, TypeOK
    <3> QED
      BY <2>3, <3>1, NothingKnown, EndsUntouched DEF QueuePassFails, dbVars, aria2Vars
  <2>4. ASSUME NEW w \in QueuePasses \cup ItemSubmits, RecordFails(w) PROVE EndInv'
    <3>1. NothingNew(w)
      <4>1. CASE job' = [job EXCEPT ![w] = [Rest EXCEPT !.at = AfterQueue(w)]]
        BY <4>1 DEF AfterQueue, Rest, NothingNew, Ending, TypeInv, TypeOK
      <4>2. CASE job' = [job EXCEPT ![w] = Back(w, Resume(w))]
        BY <4>2 DEF Back, Resume, NothingNew, Ending, TypeInv, TypeOK, WellFormed, Job
      <4> QED
        BY <2>4, <4>1, <4>2 DEF RecordFails
    <3> QED
      BY <2>4, <3>1, NothingKnown, EndsUntouched DEF RecordFails, dbVars, aria2Vars
  <2>5. ASSUME NEW w \in QueuePasses \cup ItemSubmits, AddURIFails(w) PROVE EndInv'
    <3>1. NothingNew(w)
      BY <2>5 DEF AddURIFails, NothingNew, Ending, TypeInv, TypeOK, WellFormed, Job
    <3>2. UNCHANGED <<task, follow, purged>>
      BY <2>5 DEF AddURIFails, dbVars
    <3>3. CASE UNCHANGED phase
      BY <3>1, <3>2, <3>3, NothingKnown, EndsUntouched
    <3>4. CASE \E g \in Gids : phase[g] = "unused" /\ phase' = [phase EXCEPT ![g] = "active"]
      BY <3>1, <3>2, <3>4, AcceptedUnknown
    <3> QED
      BY <2>5, <3>3, <3>4 DEF AddURIFails
  <2>6. ASSUME NEW w \in SyncPasses, SyncPassFails(w) PROVE EndInv'
    <3>1. NothingNew(w)
      BY <2>6 DEF SyncPassFails, Rest, NothingNew, Ending, TypeInv, TypeOK
    <3> QED
      BY <2>6, <3>1, NothingKnown, EndsUntouched DEF SyncPassFails, dbVars, aria2Vars
  <2>7. ASSUME NEW w \in SyncPasses, NEW t \in Tasks, TellStatusFails(w, t) PROVE EndInv'
    <3>1. Taken(w, t).at = "scan"
      BY <2>7 DEF TellStatusFails, Taken, TypeInv, WellFormed, Job
    <3>2. NothingNew(w)
      BY <2>7, <3>1 DEF TellStatusFails, NothingNew, Ending, TypeInv, TypeOK
    <3> QED
      BY <2>7, <3>2, NothingKnown, EndsUntouched DEF TellStatusFails, dbVars, aria2Vars
  <2>8. ASSUME NEW w \in SyncPasses \cup Hooks, FinishFails(w) PROVE EndInv'
    <3>1. NothingNew(w)
      BY <2>8 DEF FinishFails, Back, AfterFinish, NothingNew, Ending, TypeInv, TypeOK, WellFormed,
        Job
    <3> QED
      BY <2>8, <3>1, NothingKnown, EndsUntouched DEF FinishFails, dbVars, aria2Vars
  <2> QED
    BY <1>10, <2>2, <2>3, <2>4, <2>5, <2>6, <2>7, <2>8 DEF Failure
<1>11. CASE UNCHANGED vars
  BY <1>11, EndsUntouched DEF vars, dbVars, aria2Vars
<1> QED
  BY <1>1, <1>2, <1>3, <1>4, <1>5, <1>6, <1>7, <1>8, <1>9, <1>10, <1>11 DEF Next

\* A row is closed as "failed" only for an error aria2 reported of its own
\* download, and as "completed" only when its last stage is complete or aria2
\* has forgotten it, although the worker that closes it asked some time before
\* and others moved the row to another gid meanwhile
\* (src/internal/app/service_sync.go, src/internal/app/aria2_hook.go).
THEOREM EndsJustified == Spec => []EndIsJustified
<1>1. Init => TypeInv /\ GidInv /\ EndInv
  BY TypeInit, GidInit, IdsAssumption DEF Init, EndInv, EndedStages, Knows, Closed, Rest, FreeRow
<1>2. TypeInv /\ GidInv /\ EndInv /\ [Next]_vars => TypeInv' /\ GidInv' /\ EndInv'
  BY TypeStep, GidStep, EndStep
<1>3. EndInv => EndIsJustified
  BY EndInvJustifies
<1> QED
  BY <1>1, <1>2, <1>3, PTL DEF Spec

-----------------------------------------------------------------------------
(* What aria2 answers, whatever files there are.                           *)

Pick(s) == CHOOSE x \in s : TRUE

\* g adds up the values of f over every set of at most n elements of S.
AddsUp(f, g, S, n) ==
  /\ g = [s \in SUBSET S |-> g[s]]
  /\ \A s \in SUBSET S : Cardinality(s) <= n =>
       g[s] = IF s = {} THEN 0 ELSE f[Pick(s)] + g[s \ {Pick(s)}]

LEMMA OneLess ==
  ASSUME NEW S, IsFiniteSet(S), S # {}
  PROVE  /\ Pick(S) \in S /\ IsFiniteSet(S \ {Pick(S)})
         /\ Cardinality(S) \in Nat /\ Cardinality(S \ {Pick(S)}) \in Nat
         /\ Cardinality(S \ {Pick(S)}) = Cardinality(S) - 1
<1>1. Pick(S) \in S
  BY DEF Pick
<1> QED BY <1>1, FS_RemoveElement, FS_CardinalityType

\* The smallest element of a set of numbers.
LEMMA HasSmallest ==
  ASSUME NEW T \in SUBSET Nat, T # {}
  PROVE  \E m \in T : \A n \in T : m <= n
<1>1. PICK m \in T : \A n \in T : ~(<<n, m>> \in OpToRel(<, Nat))
  BY NatLessThanWellFounded, WFMin
<1>2. \A n \in T : m <= n
  <2> TAKE n \in T
  <2>1. m \in Nat /\ n \in Nat
    OBVIOUS
  <2>2. ~(n < m)
    BY <1>1, <2>1 DEF OpToRel
  <2> QED BY <2>1, <2>2
<1> QED BY <1>2

LEMMA AdderExists ==
  ASSUME NEW S, IsFiniteSet(S), NEW f, NEW n \in Nat
  PROVE  \E g : AddsUp(f, g, S, n)
<1> DEFINE T == {k \in Nat : ~\E g : AddsUp(f, g, S, k)}
<1>1. SUFFICES ASSUME T # {} PROVE FALSE
  OBVIOUS
<1>2. PICK m \in T : \A k \in T : m <= k
  BY <1>1, HasSmallest
<1>3. \A s \in SUBSET S : IsFiniteSet(s) /\ Cardinality(s) \in Nat
                          /\ (Cardinality(s) = 0 <=> s = {})
  BY FS_Subset, FS_CardinalityType, FS_EmptySet
<1>4. CASE m = 0
  <2> DEFINE g == [s \in SUBSET S |-> 0]
  <2>1. AddsUp(f, g, S, 0)
    BY <1>3 DEF AddsUp
  <2> QED BY <1>2, <1>4, <2>1
<1>5. CASE m # 0
  <2>1. m - 1 \in Nat /\ m - 1 \notin T
    BY <1>2, <1>5
  <2>2. PICK g : AddsUp(f, g, S, m - 1)
    BY <2>1
  <2> DEFINE h == [s \in SUBSET S |-> IF Cardinality(s) <= m - 1 THEN g[s]
                                      ELSE f[Pick(s)] + g[s \ {Pick(s)}]]
  <2>3. ASSUME NEW s \in SUBSET S, Cardinality(s) <= m
        PROVE  h[s] = IF s = {} THEN 0 ELSE f[Pick(s)] + h[s \ {Pick(s)}]
    <3>1. CASE s = {}
      <4>1. Cardinality(s) = 0
        BY <1>3, <3>1
      <4>2. Cardinality(s) <= m - 1
        BY <2>1, <4>1
      <4>3. g[s] = 0
        BY <2>2, <3>1, <4>2 DEF AddsUp
      <4> QED BY <3>1, <4>2, <4>3
    <3>2. CASE s # {}
      <4>1. /\ s \ {Pick(s)} \in SUBSET S /\ Cardinality(s \ {Pick(s)}) <= m - 1
            /\ Cardinality(s) \in Nat
        BY <1>3, <2>1, <2>3, <3>2, OneLess
      <4>2. h[s \ {Pick(s)}] = g[s \ {Pick(s)}]
        BY <4>1
      <4>3. h[s] = f[Pick(s)] + g[s \ {Pick(s)}]
        BY <2>1, <2>2, <3>2, <4>1 DEF AddsUp
      <4> QED BY <3>2, <4>2, <4>3
    <3> QED BY <3>1, <3>2
  <2>4. AddsUp(f, h, S, m)
    BY <2>3 DEF AddsUp
  <2> QED BY <1>2, <2>4
<1> QED BY <1>4, <1>5

LEMMA SumIs ==
  ASSUME NEW S, IsFiniteSet(S), NEW f
  PROVE  \E g : AddsUp(f, g, S, Cardinality(S)) /\ SumFunctionOnSet(f, S) = g[S]
<1> DEFINE Sums(g) == g = [s \in SUBSET S |-> IF s = {} THEN 0
                             ELSE f[CHOOSE x \in s : TRUE] + g[s \ {CHOOSE x \in s : TRUE}]]
<1>1. \E g : Sums(g)
  <2>1. PICK g : AddsUp(f, g, S, Cardinality(S))
    BY FS_CardinalityType, AdderExists
  <2>2. \A s \in SUBSET S : Cardinality(s) <= Cardinality(S)
    BY FS_Subset
  <2>3. Sums(g)
    BY <2>1, <2>2 DEF AddsUp, Pick
  <2> QED BY <2>3
<1>2. PICK g : Sums(g) /\ g = CHOOSE h : Sums(h)
  BY <1>1
<1>3. SumFunctionOnSet(f, S) = g[S]
  BY <1>2 DEF SumFunctionOnSet, FoldFunctionOnSet, MapThenFoldSet
<1>4. AddsUp(f, g, S, Cardinality(S))
  BY <1>2 DEF AddsUp, Pick
<1> QED BY <1>3, <1>4

\* What SumFunctionOnSet gives for numbers: nothing only if they are all 0.
LEMMA SumOfNumbers ==
  ASSUME NEW S, IsFiniteSet(S), NEW f, \A i \in S : f[i] \in Nat
  PROVE  /\ SumFunctionOnSet(f, S) \in Nat
         /\ SumFunctionOnSet(f, S) = 0 <=> \A i \in S : f[i] = 0
<1>1. PICK g : AddsUp(f, g, S, Cardinality(S)) /\ SumFunctionOnSet(f, S) = g[S]
  BY SumIs
<1> DEFINE Right(s) == g[s] \in Nat /\ (g[s] = 0 <=> \A i \in s : f[i] = 0)
           T        == {k \in Nat : \E s \in SUBSET S : Cardinality(s) = k /\ ~Right(s)}
<1>2. \A s \in SUBSET S : /\ IsFiniteSet(s) /\ Cardinality(s) \in Nat
                          /\ Cardinality(s) <= Cardinality(S)
  BY FS_Subset, FS_CardinalityType
<1>3. SUFFICES ASSUME T # {} PROVE FALSE
  <2>1. S \in SUBSET S /\ (Right(S) \/ Cardinality(S) \in T)
    BY <1>2
  <2> QED BY <1>1, <1>3, <2>1
<1>4. PICK m \in T : \A k \in T : m <= k
  BY <1>3, HasSmallest
<1>5. PICK s \in SUBSET S : Cardinality(s) = m /\ ~Right(s)
  BY <1>4
<1>6. g[s] = IF s = {} THEN 0 ELSE f[Pick(s)] + g[s \ {Pick(s)}]
  BY <1>1, <1>2 DEF AddsUp
<1>7. s # {}
  BY <1>5, <1>6
<1> DEFINE r == s \ {Pick(s)}
<1>8. /\ Pick(s) \in s /\ r \in SUBSET S
      /\ Cardinality(r) \in Nat /\ Cardinality(r) = m - 1 /\ m \in Nat
  BY <1>2, <1>5, <1>7, OneLess
<1>9. Right(r)
  <2>1. ~(m <= m - 1)
    BY <1>8
  <2>2. m - 1 \notin T
    BY <1>4, <2>1
  <2> QED BY <1>8, <2>2
<1>10. g[s] = f[Pick(s)] + g[r] /\ f[Pick(s)] \in Nat
  BY <1>6, <1>7, <1>8
<1>11. g[s] \in Nat
  BY <1>9, <1>10
<1>12. g[s] = 0 <=> f[Pick(s)] = 0 /\ g[r] = 0
  BY <1>9, <1>10
<1>13. (\A i \in s : f[i] = 0) <=> f[Pick(s)] = 0 /\ \A i \in r : f[i] = 0
  BY <1>8
<1> QED BY <1>5, <1>9, <1>11, <1>12, <1>13


-----------------------------------------------------------------------------

\* An answer can have any number of entries.
LEMMA EntriesOf ==
  ASSUME NEW E, NEW a, a.files \in Seq(E)
  PROVE  /\ Len(a.files) \in Nat /\ DOMAIN a.files = 1..Len(a.files)
         /\ \A T \in SUBSET DOMAIN a.files : IsFiniteSet(T)
         /\ a.files = <<>> <=> DOMAIN a.files = {}
<1>1. a.files \in Seq(E)
  OBVIOUS
<1>2. Len(a.files) \in Nat /\ DOMAIN a.files = 1..Len(a.files)
  BY <1>1
<1>3. IsFiniteSet(1..Len(a.files))
  BY <1>2, FS_Interval
<1>4. \A T \in SUBSET DOMAIN a.files : IsFiniteSet(T)
  BY <1>2, <1>3, FS_Subset
<1>5. a.files = <<>> <=> DOMAIN a.files = {}
  <2>1. a.files = <<>> <=> Len(a.files) = 0
    BY <1>1
  <2> DEFINE n == Len(a.files)
  <2>2. ASSUME n > 0 PROVE 1 \in 1..n
    BY <1>2, <2>2
  <2>3. n = 0 => 1..n = {}
    OBVIOUS
  <2> QED BY <1>2, <2>1, <2>2, <2>3
<1> QED BY <1>2, <1>4, <1>5

\* IsAria2DownloadReady never goes by [METADATA] alone: if there are entries, one
\* of them is that of an entity (aria2_ready.go:21-43).
THEOREM ReadyHasEntity ==
  ASSUME NEW a, IsAria2DownloadReady(a), a.files # <<>>
  PROVE  TaskState(a) = "complete" /\ RealFiles(a) # {}
BY DEF IsAria2DownloadReady

\* Aria2DownloadPath is the path of an entity if there is one, and of a complete
\* one if there is one (aria2_path.go:8-48).
THEOREM PathOfEntity ==
  ASSUME NEW E, NEW a, a.files \in Seq(E), NEW e \in DOMAIN a.files, a.files[e].name = "entity"
  PROVE  LET i == DownloadPath(a)
         IN  /\ i \in DOMAIN a.files /\ a.files[i].name = "entity"
             /\ EntryComplete(a.files[e]) => EntryComplete(a.files[i])
<1> DEFINE entities == {i \in DOMAIN a.files : a.files[i].name = "entity"}
           complete == {i \in entities : EntryComplete(a.files[i])}
           n        == Len(a.files)
<1>1. n \in Nat /\ DOMAIN a.files = 1..n
  BY EntriesOf
<1>2. entities \in SUBSET (1..n) /\ complete \in SUBSET (1..n) /\ e \in entities
  BY <1>1
<1>3. CASE complete # {}
  <2>1. \E i \in complete : \A other \in complete : i <= other
    <3>1. complete \in SUBSET Nat
      BY <1>2
    <3> HIDE DEF complete
    <3> QED BY <1>3, <3>1, HasSmallest
  <2>2. DownloadPath(a) = CHOOSE i \in complete : \A other \in complete : i <= other
    BY <1>3 DEF DownloadPath
  <2>3. DownloadPath(a) \in complete
    BY <2>1, <2>2
  <2> QED BY <2>3
<1>4. CASE complete = {}
  <2> DEFINE T == {k \in Nat : n - k \in entities}
  <2>1. n - e \in T
    <3>1. e \in 1..n
      BY <1>2
    <3>2. n - e \in Nat /\ n - (n - e) = e
      BY <1>1, <3>1
    <3> QED BY <1>2, <3>2
  <2>2. PICK m \in T : \A k \in T : m <= k
    BY <2>1, HasSmallest
  <2>3. \A other \in entities : n - m >= other
    <3> TAKE other \in entities
    <3>1. other \in Nat /\ n - other \in T
      <4>1. other \in 1..n
        BY <1>2
      <4>2. n - other \in Nat /\ n - (n - other) = other
        BY <1>1, <4>1
      <4> QED BY <4>1, <4>2
    <3>2. m <= n - other /\ m \in Nat
      BY <2>2, <3>1
    <3> QED BY <1>1, <3>1, <3>2
  <2>4. \E i \in entities : \A other \in entities : i >= other
    BY <2>2, <2>3
  <2>5. DownloadPath(a) = CHOOSE i \in entities : \A other \in entities : i >= other
    BY <1>2, <1>4 DEF DownloadPath
  <2>6. DownloadPath(a) \in entities
    BY <2>4, <2>5
  <2> QED BY <1>2, <1>4, <2>6
<1> QED BY <1>3, <1>4

\* A complete download with an entity selected is ready if aria2 has counted the
\* selected entries, although the counts of the entries may lag: a total of 0
\* means that no entry ParseAria2Progress adds up has a byte (aria2_ready.go).
THEOREM CountedIsReady ==
  ASSUME NEW E, NEW a, a.files \in Seq(E), TaskState(a) = "complete", RealFiles(a) # {},
         \A i \in DOMAIN a.files : a.files[i].length \in Nat,
         a.total = SelectedTotal(a.files), a.completed = a.total
  PROVE  IsAria2DownloadReady(a)
<1> DEFINE files   == a.files
           chosen  == [i \in DOMAIN files |-> IF files[i].selected THEN files[i].length ELSE 0]
           counted == {i \in DOMAIN files : files[i].name # "metadata" /\ files[i].selected}
<1>1. IsFiniteSet(DOMAIN files) /\ IsFiniteSet(counted)
  BY EntriesOf
<1>2. SelectedTotal(files) = SumFunctionOnSet(chosen, DOMAIN files)
  BY DEF SelectedTotal, SumFunction
<1>3. \A i \in DOMAIN files : chosen[i] \in Nat
  OBVIOUS
<1>4. /\ a.total \in Nat
      /\ a.total = 0 <=> \A i \in DOMAIN files : chosen[i] = 0
  <2> HIDE DEF chosen
  <2> QED BY <1>1, <1>2, <1>3, SumOfNumbers
<1>5. Numeric(a.total) = a.total /\ Numeric(a.completed) = a.total
  BY <1>4 DEF Numeric, Missing
<1>6. CASE a.total > 0
  <2>1. Progress(a) = [total |-> a.total, completed |-> a.total]
    BY <1>5, <1>6 DEF Progress
  <2> QED BY <1>4, <2>1 DEF IsAria2DownloadReady
<1>7. CASE a.total = 0
  <2> DEFINE lengths == Lengths(files)
  <2>1. \A i \in counted : lengths[i] = 0
    <3> TAKE i \in counted
    <3>1. chosen[i] = 0 /\ files[i].selected
      BY <1>4, <1>7
    <3>2. files[i].length = 0
      BY <3>1
    <3> QED BY <3>2 DEF Lengths, Numeric
  <2>2. SumFunctionOnSet(lengths, counted) = 0
    BY <1>1, <2>1, SumOfNumbers
  <2>3. Progress(a).total = 0
    BY <1>5, <1>7, <2>2 DEF Progress
  <2> QED BY <2>3 DEF IsAria2DownloadReady
<1> QED BY <1>4, <1>6, <1>7

\* What aria2 can answer are answers.
LEMMA AnswersAre ==
  ASSUME NEW p, NEW a \in AnswersIn(p)
  PROVE  /\ a.status \in {"active", "waiting", "paused", "complete", "error", "removed"}
         /\ p \in {"active", "meta", "complete", "error", "removed"}
         /\ p = "active" <=> a.status \in {"active", "waiting", "paused"}
         /\ p = "error" <=> a.status = "error"
         /\ p = "removed" <=> a.status = "removed"
         /\ p = "meta" => a.files # <<>> /\ RealFiles(a) = {}
         /\ p = "complete" =>
              \/ a.files = <<>>
              \/ /\ a.files \in Seq(Selected \cup Deselected)
                 /\ \E i \in DOMAIN a.files : a.files[i].name = "entity" /\ a.files[i].selected
                 /\ \A i \in DOMAIN a.files :
                      a.files[i].length \in Nat /\ a.files[i].name = "entity"
                 /\ a.total = SelectedTotal(a.files) /\ a.completed = a.total
<1>1. CASE p = "active"
  BY <1>1 DEF AnswersIn, Answer
<1>2. CASE p = "meta"
  <2>1. PICK t \in {Missing, 1}, l \in {1, 2} :
          a = Answer("complete", t, t, <<Entry("metadata", l, l, TRUE)>>)
    BY <1>2 DEF AnswersIn
  <2>2. a.status = "complete" /\ a.files = <<Entry("metadata", l, l, TRUE)>>
    BY <2>1 DEF Answer
  <2>3. DOMAIN a.files = {1} /\ a.files[1].name = "metadata" /\ a.files # <<>>
    BY <2>2 DEF Entry
  <2> QED BY <1>2, <2>2, <2>3 DEF RealFiles
<1>3. CASE p \in {"error", "removed"}
  BY <1>3 DEF AnswersIn, Answer
<1>4. CASE p = "complete"
  <2>1. CASE a = Answer("complete", Missing, Missing, <<>>)
    BY <1>4, <2>1 DEF Answer
  <2>2. CASE \E files \in Ended : a = Answer("complete", SelectedTotal(files), SelectedTotal(files), files)
    <3>1. PICK files \in Ended : a = Answer("complete", SelectedTotal(files), SelectedTotal(files), files)
      BY <2>2
    <3>2. /\ a.status = "complete" /\ a.files = files
          /\ a.total = SelectedTotal(files) /\ a.completed = a.total
      BY <3>1 DEF Answer
    <3>3. \A f \in Selected \cup Deselected :
            /\ f.name = "entity" /\ f.length \in Nat
            /\ f \in Selected => f.selected
      <4>1. ASSUME NEW f \in Selected
            PROVE  f.name = "entity" /\ f.length \in Nat /\ f.selected
        <5>1. PICK l \in {0, 2}, c \in {0, 2} : f = Entry("entity", l, c, TRUE)
          BY DEF Selected, Entry
        <5> QED BY <5>1 DEF Entry
      <4>2. ASSUME NEW f \in Deselected
            PROVE  f.name = "entity" /\ f.length \in Nat
        <5>1. PICK l \in {1}, c \in {1} : f = Entry("entity", l, c, FALSE)
          BY DEF Deselected, Entry
        <5> QED BY <5>1 DEF Entry
      <4> QED BY <4>1, <4>2
    <3>4. \/ \E f \in Selected : files = <<f>>
          \/ \E f, h \in Selected \cup Deselected :
               files = <<f, h>> /\ (f \in Selected \/ h \in Selected)
      BY DEF Ended
    <3>5. /\ files \in Seq(Selected \cup Deselected)
          /\ \A i \in DOMAIN files : files[i].name = "entity" /\ files[i].length \in Nat
          /\ \E i \in DOMAIN files : files[i].selected
      <4>1. CASE \E f \in Selected : files = <<f>>
        BY <3>3, <4>1
      <4>2. ASSUME NEW f \in Selected \cup Deselected, NEW h \in Selected \cup Deselected,
                   files = <<f, h>>, f \in Selected \/ h \in Selected
            PROVE  <3>5
        <5>1. DOMAIN files = {1, 2} /\ files[1] = f /\ files[2] = h
          BY <4>2
        <5>2. files \in Seq(Selected \cup Deselected)
          BY <3>3, <4>2
        <5> QED BY <3>3, <4>2, <5>1, <5>2
      <4> QED BY <3>4, <4>1, <4>2
    <3> QED BY <1>4, <3>2, <3>5
  <2>3. a = Answer("complete", Missing, Missing, <<>>) \/
        \E files \in Ended : a = Answer("complete", SelectedTotal(files), SelectedTotal(files), files)
    BY <1>4 DEF AnswersIn
  <2> QED BY <2>1, <2>2, <2>3
<1> QED BY <1>1, <1>2, <1>3, <1>4 DEF AnswersIn

\* Whatever aria2 answers of a download, the code concludes what has happened.
THEOREM AnswersUnderstood == Spec => []AnswersAreRead
<1>1. ASSUME NEW p, NEW a \in AnswersIn(p)
      PROVE  ReadAs(p, a)
  <2>1. /\ p \in {"active", "meta", "complete", "error", "removed"}
        /\ TaskState(a) = "error" <=> p = "error"
        /\ TaskState(a) = "removed" <=> p = "removed"
        /\ TaskState(a) = "complete" <=> p \in {"meta", "complete"}
    BY AnswersAre DEF TaskState
  <2>2. CASE p # "complete"
    <3>1. ~IsAria2DownloadReady(a)
      <4>1. CASE p = "meta"
        <5>1. a.files # <<>> /\ RealFiles(a) = {}
          BY <4>1, AnswersAre
        <5> QED BY <5>1, ReadyHasEntity
      <4>2. CASE p # "meta"
        BY <2>1, <2>2, <4>2 DEF IsAria2DownloadReady
      <4> QED BY <4>1, <4>2
    <3> QED BY <2>1, <2>2, <3>1 DEF ReadAs
  <2>3. CASE p = "complete" /\ a.files = <<>>
    BY <2>1, <2>3 DEF ReadAs, IsAria2DownloadReady
  <2>4. CASE p = "complete" /\ a.files # <<>>
    <3>1. /\ a.files \in Seq(Selected \cup Deselected)
          /\ \A i \in DOMAIN a.files : a.files[i].length \in Nat /\ a.files[i].name = "entity"
          /\ a.total = SelectedTotal(a.files) /\ a.completed = a.total
      BY <2>4, AnswersAre
    <3>2. PICK e \in DOMAIN a.files : a.files[e].name = "entity" /\ a.files[e].selected
      BY <2>4, AnswersAre
    <3>3. RealFiles(a) # {}
      BY <3>2 DEF RealFiles
    <3>4. IsAria2DownloadReady(a)
      BY <2>1, <2>4, <3>1, <3>3, CountedIsReady
    <3>5. PICK i : i = DownloadPath(a)
      OBVIOUS
    <3>6. a.files[i].name = "entity"
      BY <3>1, <3>2, <3>5, PathOfEntity
    <3>7. \A other \in RealFiles(a) :
            EntryComplete(a.files[other]) => EntryComplete(a.files[i])
      BY <3>1, <3>5, PathOfEntity DEF RealFiles
    <3> QED BY <2>1, <2>4, <3>4, <3>5, <3>6, <3>7 DEF ReadAs
  <2> QED BY <2>2, <2>3, <2>4
<1>2. AnswersAreRead
  BY <1>1 DEF AnswersAreRead
<1> QED BY <1>2, PTL

=============================================================================
