------------------------------- MODULE Feeds -------------------------------
(***************************************************************************)
(* Subscriptions and the feed items a poll stores for them.  The scheduler *)
(* polls the subscriptions that are due and then submits what waits; a     *)
(* refresh request polls one subscription; a click submits one item; the   *)
(* administrator creates, changes and deletes subscriptions meanwhile.     *)
(*                                                                         *)
(* They share nothing but the database, whose tables have no foreign keys: *)
(* one step is one statement or one transaction, and what a worker read    *)
(* before it stays in its own record, job[w].  Submission is cut short     *)
(* here (aria2's answer and its recording are one step): the module        *)
(* Downloads tells what happens in between and afterwards.                 *)
(***************************************************************************)
EXTENDS Naturals, FiniteSets

CONSTANTS
  Subs,       \* ids of subscriptions, never handed out twice
  Entries,    \* (subscription_id, dedupe_key) pairs, numbered in feed order
  SubOf,      \* SubOf[e]: the subscription whose feed offers e
  Keywords,   \* keyword rules in use; a pattern is the set of entries it matches
  BareEntries,\* entries the feed offers without a download address
  NoSub, NoEntry,
  Scheduler,  \* the goroutine of Scheduler.Run
  Refreshers, \* requests that refresh a subscription
  Clicks,     \* requests that submit one item
  MaxEvents   \* bound: edits of subscriptions, crashes and database errors

ASSUME FeedsAssumption ==
  /\ Entries \subseteq Nat
  /\ SubOf \in [Entries -> Subs]
  /\ Keywords \subseteq [include : SUBSET SUBSET Entries, exclude : SUBSET SUBSET Entries]
  /\ BareEntries \subseteq Entries
  /\ NoSub \notin Subs /\ NoEntry \notin Entries
  /\ Refreshers \cap Clicks = {}
  /\ Scheduler \notin Refreshers \cup Clicks
  /\ MaxEvents \in Nat

VARIABLES
  sub,     \* sub[s]: the row of subscription s
  item,    \* item[e]: download_status of the row of feed_items of e, or "absent"
  tasks,   \* entries that have rows in download_tasks
  job,     \* job[w]: where worker w stands and its local variables
  events,  \* how many edits and faults there have been
  overlap  \* history: subscriptions deleted while a worker was busy with them

dbVars == <<sub, item, tasks>>
vars   == <<dbVars, job, events, overlap>>

-----------------------------------------------------------------------------

Workers == {Scheduler} \cup Refreshers \cup Clicks
Pollers == {Scheduler} \cup Refreshers

ItemStatus == {"absent", "pending", "preview", "skipped",
               "submitting", "submitted", "failed"}
Waiting    == {"pending", "preview", "failed"}
Places     == {"idle", "poll", "fetch", "lookup", "write", "readback", "mark",
               "list", "next", "submit", "record"}

Rules  == [include : SUBSET SUBSET Entries, exclude : SUBSET SUBSET Entries]
NoRule == [include |-> {}, exclude |-> {}]

\* on: enabled; rules: the include and exclude patterns; due: the poll schedule
\* says it is time; failed: last_error is set.
SubRow == [is : {"unborn", "live", "deleted"}, on : BOOLEAN,
           rules : Rules, due : BOOLEAN, failed : BOOLEAN]

\* due, rules: the rows DueSubscriptions or GetSubscription returned; cur: the
\* subscription being polled; got: the entries its feed offered
\* and its patterns keep; left: those still to store; entry, found: the
\* one being stored and whether the SELECT saw it; err: why the poll failed, if
\* it did; queue: the items PendingDownloads returned.
Job  == [at : Places, due : SUBSET Subs, rules : [Subs -> Rules],
         cur : Subs \cup {NoSub}, got : SUBSET Entries,
         left : SUBSET Entries, entry : Entries \cup {NoEntry}, found : BOOLEAN,
         err : BOOLEAN, queue : SUBSET Entries]
Rest == [at |-> "idle", due |-> {}, rules |-> [s \in Subs |-> NoRule],
         cur |-> NoSub, got |-> {}, left |-> {}, entry |-> NoEntry, found |-> FALSE,
         err |-> FALSE, queue |-> {}]

TypeOK ==
  /\ sub \in [Subs -> SubRow]
  /\ item \in [Entries -> ItemStatus]
  /\ tasks \subseteq Entries
  /\ job \in [Workers -> Job]
  /\ events \in Nat
  /\ overlap \subseteq Subs

Init ==
  /\ sub = [s \in Subs |-> [is |-> "unborn", on |-> FALSE, rules |-> NoRule,
                            due |-> FALSE, failed |-> FALSE]]
  /\ item = [e \in Entries |-> "absent"]
  /\ tasks = {}
  /\ job = [w \in Workers |-> Rest]
  /\ events = 0
  /\ overlap = {}

Live(s) == sub[s].is = "live"
Own(s)  == {e \in Entries : SubOf[e] = s}

\* Worker w still has work to do for subscription s.
Holds(w, s) == \/ s \in job[w].due \/ s = job[w].cur
               \/ \E e \in job[w].queue \cup {job[w].entry} : e \in Own(s)

Event == events < MaxEvents /\ events' = events + 1

-----------------------------------------------------------------------------
(* Time.                                                                   *)

\* The next poll time of an existing subscription is reached.
ComesDue(s) ==
  /\ Live(s) /\ ~sub[s].due
  /\ sub' = [sub EXCEPT ![s].due = TRUE]
  /\ UNCHANGED <<item, tasks, job, events, overlap>>

-----------------------------------------------------------------------------
(* The administrator.                                                      *)

\* A new subscription is not due before its first interval has passed.
CreateSubscription(s, on, rules) ==
  /\ sub[s].is = "unborn"
  /\ Event
  /\ sub' = [sub EXCEPT ![s] = [is |-> "live", on |-> on, rules |-> rules,
                                due |-> FALSE, failed |-> FALSE]]
  /\ UNCHANGED <<item, tasks, job, overlap>>

\* A change of the schedule can make the subscription due or not due at once.
UpdateSubscription(s, on, rules, due) ==
  /\ Live(s)
  /\ Event
  /\ sub' = [sub EXCEPT ![s] = [sub[s] EXCEPT !.on = on, !.rules = rules, !.due = due]]
  /\ UNCHANGED <<item, tasks, job, overlap>>

\* Mutant: the tasks stay.
DeleteKeepsTasks(s) ==
  /\ Live(s)
  /\ Event
  /\ item' = [e \in Entries |-> IF e \in Own(s) THEN "absent" ELSE item[e]]
  /\ sub' = [sub EXCEPT ![s].is = "deleted"]
  /\ overlap' = IF \E w \in Workers : Holds(w, s) THEN overlap \cup {s} ELSE overlap
  /\ UNCHANGED <<tasks, job>>

\* One transaction removes the tasks, the items and the subscription.
DeleteSubscription(s) ==
  /\ Live(s)
  /\ Event
  /\ tasks' = tasks \ Own(s)
  /\ item' = [e \in Entries |-> IF e \in Own(s) THEN "absent" ELSE item[e]]
  /\ sub' = [sub EXCEPT ![s].is = "deleted"]
  /\ overlap' = IF \E w \in Workers : Holds(w, s) THEN overlap \cup {s} ELSE overlap
  /\ UNCHANGED job

-----------------------------------------------------------------------------
(* PollSubscription, run by the scheduler and by refresh requests.         *)

\* The scheduler goes on with its list, a refresh request has its answer.
AfterPoll(w) == IF w = Scheduler
                THEN [Rest EXCEPT !.at = "poll", !.due = job[w].due, !.rules = job[w].rules]
                ELSE Rest

\* Mutant: a subscription whose last poll failed is left out.
ListHealthy ==
  LET due == {s \in Subs : Live(s) /\ sub[s].on /\ sub[s].due /\ ~sub[s].failed}
  IN  /\ job[Scheduler].at = "idle"
      /\ job' = [job EXCEPT ![Scheduler] = [Rest EXCEPT
                   !.at = "poll", !.due = due,
                   !.rules = [s \in Subs |-> IF s \in due THEN sub[s].rules ELSE NoRule]]]
      /\ UNCHANGED <<dbVars, events, overlap>>

\* Scheduler.runOnce: DueSubscriptions.
ListDue ==
  LET due == {s \in Subs : Live(s) /\ sub[s].on /\ sub[s].due}
  IN  /\ job[Scheduler].at = "idle"
      /\ job' = [job EXCEPT ![Scheduler] = [Rest EXCEPT
                   !.at = "poll", !.due = due,
                   !.rules = [s \in Subs |-> IF s \in due THEN sub[s].rules ELSE NoRule]]]
      /\ UNCHANGED <<dbVars, events, overlap>>

\* The next subscription of the list; the queue follows when there is none.
TakeDue(s) ==
  /\ job[Scheduler].at = "poll" /\ s \in job[Scheduler].due
  /\ job' = [job EXCEPT ![Scheduler] =
               [job[Scheduler] EXCEPT !.at = "fetch", !.cur = s,
                                      !.due = job[Scheduler].due \ {s}]]
  /\ UNCHANGED <<dbVars, events, overlap>>

DueDone ==
  /\ job[Scheduler].at = "poll" /\ job[Scheduler].due = {}
  /\ job' = [job EXCEPT ![Scheduler] = [Rest EXCEPT !.at = "list"]]
  /\ UNCHANGED <<dbVars, events, overlap>>

\* POST /api/subscriptions/:id/refresh: GetSubscription, then the same poll.
Refresh(w, s) ==
  /\ w \in Refreshers /\ job[w].at = "idle"
  /\ Live(s)
  /\ job' = [job EXCEPT ![w] = [Rest EXCEPT !.at = "fetch", !.cur = s,
                                            !.rules[s] = sub[s].rules]]
  /\ UNCHANGED <<dbVars, events, overlap>>

\* matchesKeywordFilters: no exclude pattern matches, and an include pattern does
\* if there are any.
Matches(rules, e) == /\ \A pattern \in rules.exclude : e \notin pattern
                     /\ rules.include = {} \/ \E pattern \in rules.include : e \in pattern

\* The feed answers with offered; the patterns read earlier select what is kept.
FetchOK(w, s, offered) ==
  LET got == {e \in offered : Matches(job[w].rules[s], e)}
  IN  /\ job[w].at = "fetch" /\ job[w].cur = s
      /\ offered \subseteq Own(s)
      /\ job' = [job EXCEPT ![w] = [job[w] EXCEPT
                   !.at = IF got = {} THEN "mark" ELSE "lookup",
                   !.rules[s] = NoRule, !.got = got, !.left = got]]
      /\ UNCHANGED <<dbVars, events, overlap>>

\* Mutant: the reason is not kept.
FailedSilently(w) == [job[w] EXCEPT !.at = "mark", !.left = {}, !.entry = NoEntry,
                                    !.found = FALSE]

\* The poll failed: what is left of it is to record why.
Failed(w) == [job[w] EXCEPT !.at = "mark", !.left = {}, !.entry = NoEntry,
                            !.found = FALSE, !.err = TRUE]

FetchFails(w) ==
  /\ job[w].at = "fetch"
  /\ job' = [job EXCEPT ![w] = [Failed(w) EXCEPT !.rules[job[w].cur] = NoRule]]
  /\ UNCHANGED <<dbVars, events, overlap>>

\* The proxy setting cannot be read: the poll ends and the row is not touched.
SettingFails(w) ==
  /\ job[w].at = "fetch" /\ Event
  /\ job' = [job EXCEPT ![w] = AfterPoll(w)]
  /\ UNCHANGED <<dbVars, overlap>>

\* SaveFeedItems, for one entry: SELECT id ...
Lookup(w, e) ==
  /\ job[w].at = "lookup" /\ e \in job[w].left
  /\ \A other \in job[w].left : e <= other
  /\ job' = [job EXCEPT ![w] = [job[w] EXCEPT !.at = "write", !.entry = e,
                              !.left = job[w].left \ {e}, !.found = item[e] # "absent"]]
  /\ UNCHANGED <<dbVars, events, overlap>>

\* Mutant: a status the tables do not know.
NewStatusQueued(w, e) == IF e \in BareEntries THEN "skipped" ELSE "queued"

\* NewFeedItemDownloadStatus
NewStatus(w, e) == IF e \in BareEntries THEN "skipped"
                   ELSE IF w \in Refreshers THEN "preview" ELSE "pending"

\* ... UPDATE of title and link, which a missing row does not make fail ...
UpdateRow(w) ==
  /\ job[w].at = "write" /\ job[w].found
  /\ job' = [job EXCEPT ![w].at = "readback"]
  /\ UNCHANGED <<dbVars, events, overlap>>

\* Mutant: INSERT ... ON DUPLICATE KEY UPDATE download_status.
InsertOrReplace(w) ==
  LET e == job[w].entry
  IN  /\ job[w].at = "write" /\ ~job[w].found
      /\ item' = [item EXCEPT ![e] = NewStatus(w, e)]
      /\ job' = [job EXCEPT ![w].at = "readback"]
      /\ UNCHANGED <<sub, tasks, events, overlap>>

\* ... or INSERT, whether or not the subscription still exists, unless another
\* worker inserted the same dedupe_key after the SELECT ...
InsertRow(w) ==
  LET e == job[w].entry
  IN  /\ job[w].at = "write" /\ ~job[w].found
      /\ item[e] = "absent"
      /\ item' = [item EXCEPT ![e] = NewStatus(w, e)]
      /\ job' = [job EXCEPT ![w].at = "readback"]
      /\ UNCHANGED <<sub, tasks, events, overlap>>

InsertClashes(w) ==
  /\ job[w].at = "write" /\ ~job[w].found
  /\ item[job[w].entry] # "absent"
  /\ job' = [job EXCEPT ![w] = Failed(w)]
  /\ UNCHANGED <<dbVars, events, overlap>>

\* ... and SELECT of the stored row by its id, which fails when it was deleted
\* meanwhile.  Another worker may have inserted the entry again by then: rows have
\* no ids here, so after a deletion an entry that is there may be that other row.
ReadBack(w) ==
  LET e == job[w].entry
  IN  /\ job[w].at = "readback"
      /\ \/ /\ item[e] = "absent" \/ ~Live(job[w].cur)
            /\ job' = [job EXCEPT ![w] = Failed(w)]
         \/ /\ item[e] # "absent"
            /\ job' = [job EXCEPT ![w] =
                         [job[w] EXCEPT !.at = IF job[w].left = {} THEN "mark" ELSE "lookup",
                                        !.entry = NoEntry, !.found = FALSE]]
      /\ UNCHANGED <<dbVars, events, overlap>>

\* A statement of SaveFeedItems fails: the entries left are not looked at.
SaveFails(w) ==
  /\ job[w].at \in {"lookup", "write", "readback"} /\ Event
  /\ job' = [job EXCEPT ![w] = Failed(w)]
  /\ UNCHANGED <<dbVars, overlap>>

\* MarkSubscriptionFetched, a no-op when the row is gone.
MarkFetched(w) ==
  LET s == job[w].cur
  IN  /\ job[w].at = "mark"
      /\ sub' = IF Live(s) THEN [sub EXCEPT ![s] = [sub[s] EXCEPT !.due = FALSE,
                                                           !.failed = job[w].err]]
                ELSE sub
      /\ job' = [job EXCEPT ![w] = AfterPoll(w)]
      /\ UNCHANGED <<item, tasks, events, overlap>>

MarkFails(w) ==
  /\ job[w].at = "mark" /\ Event
  /\ job' = [job EXCEPT ![w] = AfterPoll(w)]
  /\ UNCHANGED <<dbVars, overlap>>

-----------------------------------------------------------------------------
(* Submission, as far as subscriptions matter to it.                       *)

\* Mutant: PendingDownloads without the JOIN.
ListAllPending ==
  LET queue == {e \in Entries : item[e] \in Waiting}
  IN  /\ job[Scheduler].at = "list"
      /\ job' = [job EXCEPT ![Scheduler] =
                   IF queue = {} THEN Rest ELSE [Rest EXCEPT !.at = "next", !.queue = queue]]
      /\ UNCHANGED <<dbVars, events, overlap>>

\* PendingDownloads joins feed_items with subscriptions.
ListPending ==
  LET queue == {e \in Entries : item[e] \in Waiting /\ Live(SubOf[e])}
  IN  /\ job[Scheduler].at = "list"
      /\ job' = [job EXCEPT ![Scheduler] =
                   IF queue = {} THEN Rest ELSE [Rest EXCEPT !.at = "next", !.queue = queue]]
      /\ UNCHANGED <<dbVars, events, overlap>>

TakePending(e) ==
  /\ job[Scheduler].at = "next" /\ e \in job[Scheduler].queue
  /\ job' = [job EXCEPT ![Scheduler] = [job[Scheduler] EXCEPT
                   !.at = "submit", !.entry = e, !.queue = job[Scheduler].queue \ {e}]]
  /\ UNCHANGED <<dbVars, events, overlap>>

\* POST /api/items/:id/download: GetItem, GetSubscription and the checks.
Click(w, e) ==
  /\ w \in Clicks /\ job[w].at = "idle"
  /\ item[e] \notin {"absent", "skipped", "submitting"}
  /\ Live(SubOf[e])
  /\ job' = [job EXCEPT ![w] = [Rest EXCEPT !.at = "submit", !.entry = e]]
  /\ UNCHANGED <<dbVars, events, overlap>>

\* SubmitItemDownloads: the items of a batch follow one another, each as in
\* Click, whether or not the one before succeeded.
ClickItems(w) == \E e \in Entries : Click(w, e)

\* An UPDATE by id, silent when the row is gone.
SetStatus(e, status) == item' = IF item[e] = "absent" THEN item
                                ELSE [item EXCEPT ![e] = status]

MarkSubmitting(w) ==
  /\ job[w].at = "submit"
  /\ SetStatus(job[w].entry, "submitting")
  /\ job' = [job EXCEPT ![w].at = "record"]
  /\ UNCHANGED <<sub, tasks, events, overlap>>

\* aria2 accepts or refuses; RecordDownloadResult inserts the task in any case.
Submit(w, result) ==
  /\ job[w].at = "record"
  /\ SetStatus(job[w].entry, result)
  /\ tasks' = tasks \cup {job[w].entry}
  /\ job' = [job EXCEPT ![w] = IF w = Scheduler /\ job[w].queue # {}
                               THEN [job[w] EXCEPT !.at = "next", !.entry = NoEntry] ELSE Rest]
  /\ UNCHANGED <<sub, events, overlap>>

\* The process stops; every goroutine is lost, the database is not.
Crash ==
  /\ Event
  /\ job # [w \in Workers |-> Rest]
  /\ job' = [w \in Workers |-> Rest]
  /\ UNCHANGED <<dbVars, overlap>>

-----------------------------------------------------------------------------

Administration == \E s \in Subs :
  \/ \E on \in BOOLEAN, rules \in Keywords : CreateSubscription(s, on, rules)
  \/ \E on, due \in BOOLEAN, rules \in Keywords : UpdateSubscription(s, on, rules, due)
  \/ DeleteSubscription(s)

Fetch(w) == (\E s \in Subs : \E offered \in SUBSET Own(s) : FetchOK(w, s, offered)) \/ FetchFails(w)

Save(w)   == (\E e \in Entries : Lookup(w, e)) \/ UpdateRow(w) \/ InsertRow(w)
               \/ InsertClashes(w) \/ ReadBack(w)
PollStep(w) == Fetch(w) \/ Save(w) \/ MarkFetched(w)
SubmitStep(w) == MarkSubmitting(w) \/ (\E result \in {"submitted", "failed"} : Submit(w, result))
SchedulerStep == ListDue \/ (\E s \in Subs : TakeDue(s)) \/ DueDone
                   \/ ListPending \/ (\E e \in Entries : TakePending(e))

Next ==
  \/ \E s \in Subs : ComesDue(s)
  \/ Administration
  \/ SchedulerStep
  \/ \E w \in Refreshers, s \in Subs : Refresh(w, s)
  \/ \E w \in Clicks : ClickItems(w)
  \/ \E w \in Pollers : PollStep(w) \/ SettingFails(w) \/ SaveFails(w) \/ MarkFails(w)
  \/ \E w \in Workers : SubmitStep(w)
  \/ Crash

Spec == Init /\ [][Next]_vars

\* The ticker fires and the scheduler goes on, a request that polls goes on,
\* time passes, and a feed asked again and again answers in full in the end.
Fairness ==
  /\ WF_vars(SchedulerStep \/ PollStep(Scheduler) \/ SubmitStep(Scheduler))
  /\ \A w \in Refreshers : WF_vars(PollStep(w))
  /\ \A s \in Subs : WF_vars(ComesDue(s))
  /\ \A w \in Pollers, s \in Subs : SF_vars(FetchOK(w, s, Own(s)))

FairSpec == Spec /\ Fairness
-----------------------------------------------------------------------------
(* Properties.                                                             *)

\* A poll about to record success has stored every entry it fetched and kept,
\* whatever other polls inserted under its feet, unless the subscription was
\* deleted meanwhile.
SavedBeforeMarked ==
  \A w \in Pollers : job[w].at = "mark" /\ ~job[w].err /\ Live(job[w].cur)
    => \A e \in job[w].got : item[e] # "absent"

\* Deleting a subscription nobody is busy with leaves no item and no task,
\* then or later: rows without a subscription only come from a worker that
\* had read it before.
NothingLeftBehind ==
  \A s \in Subs : sub[s].is = "deleted" /\ s \notin overlap
    => \A e \in Own(s) : item[e] = "absent" /\ e \notin tasks

\* Once the workers busy with a deleted subscription are done with it, the rows
\* they left are dead: no later poll, queue pass or click takes them up.
DeletedIsQuiet ==
  [][\A s \in Subs : sub[s].is = "deleted" /\ (\A w \in Workers : ~Holds(w, s))
       => /\ \A w \in Workers : ~Holds(w, s)'
          /\ \A e \in Own(s) : item'[e] = item[e] /\ (e \in tasks' <=> e \in tasks)]_vars

\* Fetching an entry again never puts it back in the queue: what was handed
\* to aria2 is not handed over again because a poll raced with another.
PollNeverRequeues ==
  [][\A e \in Entries : item[e] \notin {"absent", "pending", "preview", "skipped"}
       => item'[e] \notin {"pending", "preview", "skipped"}]_vars

\* An entry the feed of an enabled subscription carries, and its patterns keep,
\* is stored in the end.
Wanted(e) == LET s == SubOf[e] IN Live(s) /\ sub[s].on /\ Matches(sub[s].rules, e)
EntrySaved == \A e \in Entries : Wanted(e) ~> (item[e] # "absent" \/ ~Wanted(e))

=============================================================================
