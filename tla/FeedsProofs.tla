---------------------------- MODULE FeedsProofs ----------------------------
(***************************************************************************)
(* Proofs about Feeds, for any number of subscriptions, entries, refresh   *)
(* requests and clicks: what a poll announces as saved is saved, a deleted *)
(* subscription leaves nothing behind and stays quiet, and no poll puts an *)
(* entry back in the queue.                                                *)
(***************************************************************************)
EXTENDS Feeds, TLAPS

Polling == {"fetch", "lookup", "write", "readback", "mark"}

Born(s) == sub[s].is # "unborn"

\* Worker w has local variables that fit its place: it polls a subscription
\* that existed when it was read, and what it has fetched belongs to it.
OnPath(w) ==
  /\ job[w].at \in Polling => w \in Pollers /\ job[w].cur \in Subs
  /\ job[w].at \in {"poll", "fetch"} => ~job[w].err
  /\ job[w].at \in {"poll", "fetch", "lookup", "mark"} => job[w].entry = NoEntry
  /\ job[w].at = "mark" => job[w].left = {}
  /\ job[w].at = "poll" => job[w].got = {} /\ job[w].left = {}
  /\ job[w].at \in {"write", "readback", "submit", "record"} => job[w].entry \in Entries
  /\ job[w].cur \in Subs => Born(job[w].cur)
  /\ \A s \in job[w].due : Born(s)
  /\ \A e \in job[w].got \cup job[w].left : SubOf[e] = job[w].cur

\* A poll that has not failed, of a subscription that still exists, has stored
\* the entries it is done with.
Stored(w) ==
  job[w].at \in Polling \ {"fetch"} /\ ~job[w].err /\ Live(job[w].cur)
    => \A e \in job[w].got : e \in job[w].left \/ e = job[w].entry \/ item[e] # "absent"

\* Nobody is busy with a deleted subscription that is not in overlap, and its
\* rows are gone.
Gone(s) ==
  sub[s].is = "deleted" /\ s \notin overlap =>
    /\ \A w \in Workers : ~Holds(w, s)
    /\ \A e \in Own(s) : item[e] = "absent" /\ e \notin tasks

IInv ==
  /\ TypeOK
  /\ \A w \in Workers : OnPath(w)
  /\ \A w \in Workers : Stored(w)
  /\ \A s \in Subs : Gone(s)

LEMMA RestIsJob == Rest \in Job
BY FeedsAssumption DEF Rest, Job, Places, Rules, NoRule

LEMMA AfterPollIsJob == ASSUME NEW w \in Workers, job[w] \in Job PROVE AfterPoll(w) \in Job
BY RestIsJob DEF Job, Places, AfterPoll

\* The step that starts a poll.
LEMMA FetchIsJob ==
  ASSUME NEW r \in Job, NEW s \in Subs, NEW rules \in Rules,
         NEW new, new = [r EXCEPT !.at = "fetch", !.cur = s, !.rules[s] = rules]
  PROVE  new \in Job
BY DEF Job, Places

\* The steps that take an entry.
LEMMA WriteIsJob ==
  ASSUME NEW r \in Job, NEW e \in Entries, NEW found \in BOOLEAN,
         NEW new, new = [r EXCEPT !.at = "write", !.entry = e, !.left = r.left \ {e}, !.found = found]
  PROVE  new \in Job
BY DEF Job, Places

LEMMA SubmitIsJob ==
  ASSUME NEW r \in Job, NEW e \in Entries,
         NEW new, new = [r EXCEPT !.at = "submit", !.entry = e, !.queue = r.queue \ {e}]
  PROVE  new \in Job
BY DEF Job, Places

LEMMA FailedIsJob == ASSUME NEW w \in Workers, job[w] \in Job PROVE Failed(w) \in Job
BY DEF Job, Places, Failed

-----------------------------------------------------------------------------
(* Types, paths and what is stored.                                        *)

DbTyped ==
  /\ sub \in [Subs -> SubRow]
  /\ item \in [Entries -> ItemStatus]
  /\ tasks \subseteq Entries
  /\ events \in Nat
  /\ overlap \subseteq Subs

\* Ids are not handed out twice, and only a deletion removes an item.
Forward ==
  /\ \A s \in Subs : Born(s) => Born(s)' /\ (Live(s)' => Live(s))
  /\ \A e \in Entries : item[e] # "absent" /\ Live(SubOf[e])' => item'[e] # "absent"

PInv == /\ TypeOK
        /\ \A w \in Workers : OnPath(w) /\ Stored(w)

\* A worker that does not move stays on its path when the others only move forward.
LEMMA StandsStill ==
  ASSUME PInv, NEW w \in Workers, job'[w] = job[w], Forward
  PROVE  OnPath(w)' /\ Stored(w)'
<1>1. job[w] \in Job /\ OnPath(w) /\ Stored(w)
  BY DEF PInv, TypeOK
<1>2. OnPath(w)'
  BY <1>1 DEF OnPath, Forward, Job
<1>3. Stored(w)'
  <2> SUFFICES ASSUME job[w].at \in Polling \ {"fetch"}, ~job[w].err, Live(job[w].cur)',
                      NEW e \in job[w].got
               PROVE  e \in job[w].left \/ e = job[w].entry \/ item'[e] # "absent"
    BY DEF Stored
  <2>1. job[w].cur \in Subs /\ Born(job[w].cur) /\ SubOf[e] = job[w].cur /\ e \in Entries
    BY <1>1 DEF OnPath, Job
  <2>2. Live(job[w].cur)
    BY <2>1 DEF Forward
  <2> QED
    BY <1>1, <2>1, <2>2 DEF Stored, Forward
<1> QED
  BY <1>2, <1>3

LEMMA WorkerMoves ==
  ASSUME PInv, NEW w \in Workers,
         job' = [job EXCEPT ![w] = job'[w]], job'[w] \in Job,
         DbTyped', Forward, OnPath(w)', Stored(w)'
  PROVE  PInv'
<1>1. job \in [Workers -> Job]
  BY DEF PInv, TypeOK
<1>2. job' \in [Workers -> Job] /\ \A v \in Workers \ {w} : job'[v] = job[v]
  BY <1>1
<1>3. \A v \in Workers \ {w} : OnPath(v)' /\ Stored(v)'
  BY <1>2, StandsStill
<1> QED
  BY <1>2, <1>3 DEF PInv, TypeOK, DbTyped

LEMMA NobodyMoves ==
  ASSUME PInv, UNCHANGED job, DbTyped', Forward
  PROVE  PInv'
<1>1. \A v \in Workers : OnPath(v)' /\ Stored(v)'
  BY StandsStill
<1> QED
  BY <1>1 DEF PInv, TypeOK, DbTyped

LEMMA InitPInv == Init => PInv
<1> SUFFICES ASSUME Init PROVE PInv
  OBVIOUS
<1>1. TypeOK
  BY RestIsJob, FeedsAssumption DEF Init, TypeOK, SubRow, Rules, NoRule, ItemStatus
<1>2. \A w \in Workers : OnPath(w) /\ Stored(w)
  BY FeedsAssumption DEF Init, OnPath, Stored, Rest, Polling
<1> QED
  BY <1>1, <1>2 DEF PInv

LEMMA NextPInv == PInv /\ [Next]_vars => PInv'
<1> SUFFICES ASSUME PInv, [Next]_vars PROVE PInv'
  OBVIOUS
<1>1. /\ DbTyped /\ job \in [Workers -> Job]
      /\ \A w \in Workers : OnPath(w) /\ Stored(w)
  BY DEF PInv, TypeOK, DbTyped
<1>2. Rest \in Job
  BY RestIsJob
<1>3. Keywords \subseteq Rules
  BY FeedsAssumption DEF Rules
<1>4. SubOf \in [Entries -> Subs] /\ NoSub \notin Subs /\ NoEntry \notin Entries
  BY FeedsAssumption
<1>5. ASSUME NEW s \in Subs,
             ComesDue(s)
      PROVE  PInv'
  <2>1. DbTyped'
    <3>1. sub[s] \in SubRow
      BY <1>1 DEF DbTyped
    <3>2. sub'[s] \in SubRow /\ sub' = [sub EXCEPT ![s] = sub'[s]]
      BY <1>1, <1>3, <1>5, <3>1 DEF ComesDue, DbTyped, SubRow
    <3> QED
      BY <1>1, <1>5, <3>2 DEF ComesDue, Event, DbTyped
  <2>2. Forward
    BY <1>1, <1>5 DEF ComesDue, Forward, Born, Live
  <2> QED
    BY <1>5, <2>1, <2>2, NobodyMoves DEF ComesDue
<1>6. ASSUME NEW s \in Subs, NEW on \in BOOLEAN, NEW rules \in Keywords,
             CreateSubscription(s, on, rules)
      PROVE  PInv'
  <2>1. DbTyped'
    <3>1. sub[s] \in SubRow
      BY <1>1 DEF DbTyped
    <3>2. sub'[s] \in SubRow /\ sub' = [sub EXCEPT ![s] = sub'[s]]
      BY <1>1, <1>3, <1>6, <3>1 DEF CreateSubscription, DbTyped, SubRow
    <3> QED
      BY <1>1, <1>6, <3>2 DEF CreateSubscription, Event, DbTyped
  <2>2. Forward
    BY <1>1, <1>6 DEF CreateSubscription, Forward, Born, Live
  <2> QED
    BY <1>6, <2>1, <2>2, NobodyMoves DEF CreateSubscription
<1>7. ASSUME NEW s \in Subs, NEW on \in BOOLEAN, NEW due \in BOOLEAN, NEW rules \in Keywords,
             UpdateSubscription(s, on, rules, due)
      PROVE  PInv'
  <2>1. DbTyped'
    <3>1. sub[s] \in SubRow
      BY <1>1 DEF DbTyped
    <3>2. sub'[s] \in SubRow /\ sub' = [sub EXCEPT ![s] = sub'[s]]
      BY <1>1, <1>3, <1>7, <3>1 DEF UpdateSubscription, DbTyped, SubRow
    <3> QED
      BY <1>1, <1>7, <3>2 DEF UpdateSubscription, Event, DbTyped
  <2>2. Forward
    BY <1>1, <1>7 DEF UpdateSubscription, Forward, Born, Live
  <2> QED
    BY <1>7, <2>1, <2>2, NobodyMoves DEF UpdateSubscription
<1>8. ASSUME NEW s \in Subs,
             DeleteSubscription(s)
      PROVE  PInv'
  <2>1. DbTyped'
    <3>1. sub[s] \in SubRow
      BY <1>1 DEF DbTyped
    <3>2. sub'[s] \in SubRow /\ sub' = [sub EXCEPT ![s] = sub'[s]]
      BY <1>1, <1>3, <1>8, <3>1 DEF DeleteSubscription, DbTyped, SubRow
    <3> QED
      BY <1>1, <1>8, <3>2 DEF DeleteSubscription, Event, DbTyped, ItemStatus
  <2>2. Forward
    BY <1>1, <1>8 DEF DeleteSubscription, Forward, Born, Live, DbTyped, Own
  <2> QED
    BY <1>8, <2>1, <2>2, NobodyMoves DEF DeleteSubscription
<1>9. CASE ListDue
  <2>1. Scheduler \in Workers /\ job[Scheduler] \in Job /\ OnPath(Scheduler) /\ Stored(Scheduler)
    BY <1>1 DEF Workers, Pollers
  <2>2. job' = [job EXCEPT ![Scheduler] = job'[Scheduler]]
    BY <1>1, <2>1, <1>9 DEF ListDue
  <2>3. PICK due \in SUBSET Subs, rules \in [Subs -> Rules] :
          job'[Scheduler] = [Rest EXCEPT !.at = "poll", !.due = due, !.rules = rules]
          /\ \A s \in due : Born(s)
    <3> DEFINE due == {s \in Subs : Live(s) /\ sub[s].on /\ sub[s].due}
               rules == [s \in Subs |-> IF s \in due THEN sub[s].rules ELSE NoRule]
    <3>1. due \in SUBSET Subs /\ \A s \in due : Born(s)
      BY DEF Live, Born
    <3>2. rules \in [Subs -> Rules]
      BY <1>1 DEF DbTyped, SubRow, NoRule, Rules
    <3>3. job'[Scheduler] = [Rest EXCEPT !.at = "poll", !.due = due, !.rules = rules]
      BY <1>1, <2>1, <1>9 DEF ListDue
    <3> QED
      BY <3>1, <3>2, <3>3
  <2>4. Scheduler \in Pollers
    BY <1>1, <2>1, <1>9 DEF Pollers
  <2>5. job'[Scheduler] \in Job
    BY <1>2, <1>4, <2>1, <2>3, <2>4 DEF Job, Places
  <2>6. DbTyped'
    BY <1>1, <2>1, <1>9 DEF ListDue, DbTyped, dbVars
  <2>7. Forward
    BY <1>1, <2>1, <1>9 DEF ListDue, Forward, Born, Live, dbVars
  <2>8. OnPath(Scheduler)'
    BY <1>4, <2>1, <2>3, <2>4, <2>7 DEF OnPath, Polling, Forward, Rest
  <2>9. Stored(Scheduler)'
    BY <1>4, <2>1, <2>3, <2>4, <2>7 DEF Stored, Rest
  <2> QED
    BY <2>1, <2>2, <2>5, <2>6, <2>7, <2>8, <2>9, WorkerMoves
<1>10. ASSUME NEW s \in Subs,
             TakeDue(s)
      PROVE  PInv'
  <2>1. Scheduler \in Workers /\ job[Scheduler] \in Job /\ OnPath(Scheduler) /\ Stored(Scheduler)
    BY <1>1 DEF Workers, Pollers
  <2>2. job' = [job EXCEPT ![Scheduler] = job'[Scheduler]]
    BY <1>1, <2>1, <1>10 DEF TakeDue
  <2>3. job'[Scheduler] = [job[Scheduler] EXCEPT !.at = "fetch", !.cur = s, !.due = job[Scheduler].due \ {s}]
    BY <1>1, <2>1, <1>10 DEF TakeDue
  <2>4. Scheduler \in Pollers /\ job[Scheduler].at = "poll" /\ Born(s)
    BY <1>1, <2>1, <1>10 DEF TakeDue, OnPath, Pollers
  <2>5. job'[Scheduler] \in Job
    BY <2>1, <2>3 DEF Job, Places
  <2>6. DbTyped'
    BY <1>1, <2>1, <1>10 DEF TakeDue, DbTyped, dbVars
  <2>7. Forward
    BY <1>1, <2>1, <1>10 DEF TakeDue, Forward, Born, Live, dbVars
  <2>8. OnPath(Scheduler)'
    <3>1. /\ job'[Scheduler].at = "fetch" /\ job'[Scheduler].cur = s
          /\ job'[Scheduler].due \subseteq job[Scheduler].due
          /\ job'[Scheduler].got = job[Scheduler].got /\ job'[Scheduler].left = job[Scheduler].left
          /\ job'[Scheduler].err = job[Scheduler].err /\ job'[Scheduler].entry = job[Scheduler].entry
      BY <2>1, <2>3 DEF Job
    <3> QED
      BY <1>4, <2>1, <2>4, <2>7, <3>1 DEF OnPath, Job, Forward
  <2>9. Stored(Scheduler)'
    BY <1>4, <2>1, <2>3, <2>4, <2>7 DEF Stored
  <2> QED
    BY <2>1, <2>2, <2>5, <2>6, <2>7, <2>8, <2>9, WorkerMoves
<1>11. CASE DueDone
  <2>1. Scheduler \in Workers /\ job[Scheduler] \in Job /\ OnPath(Scheduler) /\ Stored(Scheduler)
    BY <1>1 DEF Workers, Pollers
  <2>2. job' = [job EXCEPT ![Scheduler] = job'[Scheduler]]
    BY <1>1, <2>1, <1>11 DEF DueDone
  <2>3. job'[Scheduler] = [Rest EXCEPT !.at = "list"]
    BY <1>1, <2>1, <1>11 DEF DueDone
  <2>4. TRUE
    BY <1>1, <2>1, <1>11 DEF DueDone
  <2>5. job'[Scheduler] \in Job
    BY <1>2, <1>4, <2>1, <2>3, <2>4 DEF Job, Places
  <2>6. DbTyped'
    BY <1>1, <2>1, <1>11 DEF DueDone, DbTyped, Event, dbVars, OnPath
  <2>7. Forward
    BY <1>1, <2>1, <1>11 DEF DueDone, Forward, Born, Live, dbVars
  <2>8. OnPath(Scheduler)'
    BY <1>4, <2>1, <2>3, <2>4, <2>7 DEF OnPath, Polling, Rest
  <2>9. Stored(Scheduler)'
    BY <1>4, <2>1, <2>3, <2>4, <2>7 DEF Stored, Rest
  <2> QED
    BY <2>1, <2>2, <2>5, <2>6, <2>7, <2>8, <2>9, WorkerMoves
<1>12. CASE ListPending
  <2>1. Scheduler \in Workers /\ job[Scheduler] \in Job /\ OnPath(Scheduler) /\ Stored(Scheduler)
    BY <1>1 DEF Workers, Pollers
  <2>2. job' = [job EXCEPT ![Scheduler] = job'[Scheduler]]
    BY <1>1, <2>1, <1>12 DEF ListPending
  <2>3. PICK queue \in SUBSET Entries :
          job'[Scheduler] = IF queue = {} THEN Rest
                                           ELSE [Rest EXCEPT !.at = "next", !.queue = queue]
    <3> DEFINE queue == {e \in Entries : item[e] \in Waiting /\ Live(SubOf[e])}
    <3>1. job'[Scheduler] = IF queue = {} THEN Rest ELSE [Rest EXCEPT !.at = "next", !.queue = queue]
      BY <1>1, <2>1, <1>12 DEF ListPending
    <3> QED
      BY <3>1
  <2>4. Scheduler \in Pollers
    BY <1>1, <2>1, <1>12 DEF Pollers
  <2>5. job'[Scheduler] \in Job
    <3>1. CASE queue = {}
      BY <1>2, <2>3, <3>1
    <3>2. CASE queue # {}
      <4>1. job'[Scheduler] = [Rest EXCEPT !.at = "next", !.queue = queue]
        BY <2>3, <3>2
      <4> QED
        BY <1>2, <4>1 DEF Job, Places
    <3> QED
      BY <3>1, <3>2
  <2>6. DbTyped'
    BY <1>1, <2>1, <1>12 DEF ListPending, DbTyped, dbVars
  <2>7. Forward
    BY <1>1, <2>1, <1>12 DEF ListPending, Forward, Born, Live, dbVars
  <2>8. OnPath(Scheduler)'
    BY <1>4, <2>1, <2>3, <2>4, <2>7 DEF OnPath, Polling, Rest
  <2>9. Stored(Scheduler)'
    BY <1>4, <2>1, <2>3, <2>4, <2>7 DEF Stored, Rest
  <2> QED
    BY <2>1, <2>2, <2>5, <2>6, <2>7, <2>8, <2>9, WorkerMoves
<1>13. ASSUME NEW e \in Entries,
             TakePending(e)
      PROVE  PInv'
  <2>1. Scheduler \in Workers /\ job[Scheduler] \in Job /\ OnPath(Scheduler) /\ Stored(Scheduler)
    BY <1>1 DEF Workers, Pollers
  <2>2. job' = [job EXCEPT ![Scheduler] = job'[Scheduler]]
    BY <1>1, <2>1, <1>13 DEF TakePending
  <2>3. job'[Scheduler] = [job[Scheduler] EXCEPT !.at = "submit", !.entry = e, !.queue = job[Scheduler].queue \ {e}]
    BY <1>1, <2>1, <1>13 DEF TakePending
  <2>4. job[Scheduler].at = "next" /\ e \in job[Scheduler].queue
    BY <1>1, <2>1, <1>13 DEF TakePending
  <2>5. job'[Scheduler] \in Job
    BY <2>1, <2>3, SubmitIsJob
  <2>6. DbTyped'
    BY <1>1, <2>1, <1>13 DEF TakePending, DbTyped, dbVars
  <2>7. Forward
    BY <1>1, <2>1, <1>13 DEF TakePending, Forward, Born, Live, dbVars
  <2>8. OnPath(Scheduler)'
    BY <1>4, <2>1, <2>3, <2>4, <2>7 DEF OnPath, Polling, Job, Forward
  <2>9. Stored(Scheduler)'
    BY <1>4, <2>1, <2>3, <2>4, <2>7 DEF Stored, Polling
  <2> QED
    BY <2>1, <2>2, <2>5, <2>6, <2>7, <2>8, <2>9, WorkerMoves
<1>14. ASSUME NEW w \in Refreshers, NEW s \in Subs,
             Refresh(w, s)
      PROVE  PInv'
  <2>1. w \in Workers /\ job[w] \in Job /\ OnPath(w) /\ Stored(w)
    BY <1>1 DEF Workers, Pollers
  <2>2. job' = [job EXCEPT ![w] = job'[w]]
    BY <1>1, <2>1, <1>14 DEF Refresh
  <2>3. job'[w] = [Rest EXCEPT !.at = "fetch", !.cur = s, !.rules[s] = sub[s].rules]
    BY <1>1, <2>1, <1>14 DEF Refresh
  <2>4. Born(s) /\ w \in Pollers /\ sub[s].rules \in Rules
    BY <1>1, <2>1, <1>14 DEF Refresh, Live, Born, SubRow, DbTyped, Pollers
  <2>5. job'[w] \in Job
    <3>1. PICK rules \in Rules : job'[w] = [Rest EXCEPT !.at = "fetch", !.cur = s, !.rules[s] = rules]
      BY <2>3, <2>4
    <3> QED
      BY <1>2, <3>1, FetchIsJob
  <2>6. DbTyped'
    BY <1>1, <2>1, <1>14 DEF Refresh, DbTyped, Event, dbVars, OnPath
  <2>7. Forward
    BY <1>1, <2>1, <1>14 DEF Refresh, Forward, Born, Live, dbVars
  <2>8. OnPath(w)'
    BY <1>4, <2>1, <2>3, <2>4, <2>7 DEF OnPath, Forward, Rest
  <2>9. Stored(w)'
    BY <1>4, <2>1, <2>3, <2>4, <2>7 DEF Stored
  <2> QED
    BY <2>1, <2>2, <2>5, <2>6, <2>7, <2>8, <2>9, WorkerMoves
<1>15. ASSUME NEW w \in Clicks, NEW e \in Entries,
             Click(w, e)
      PROVE  PInv'
  <2>1. w \in Workers /\ job[w] \in Job /\ OnPath(w) /\ Stored(w)
    BY <1>1 DEF Workers, Pollers
  <2>2. job' = [job EXCEPT ![w] = job'[w]]
    BY <1>1, <2>1, <1>15 DEF Click
  <2>3. job'[w] = [Rest EXCEPT !.at = "submit", !.entry = e]
    BY <1>1, <2>1, <1>15 DEF Click
  <2>4. TRUE
    BY <1>1, <2>1, <1>15 DEF Click
  <2>5. job'[w] \in Job
    BY <1>2, <1>4, <2>1, <2>3, <2>4 DEF Job, Places
  <2>6. DbTyped'
    BY <1>1, <2>1, <1>15 DEF Click, DbTyped, Event, dbVars, OnPath
  <2>7. Forward
    BY <1>1, <2>1, <1>15 DEF Click, Forward, Born, Live, dbVars
  <2>8. OnPath(w)'
    BY <1>4, <2>1, <2>3, <2>4, <2>7 DEF OnPath, Polling, Rest
  <2>9. Stored(w)'
    BY <1>4, <2>1, <2>3, <2>4, <2>7 DEF Stored, Rest
  <2> QED
    BY <2>1, <2>2, <2>5, <2>6, <2>7, <2>8, <2>9, WorkerMoves
<1>16. ASSUME NEW w \in Pollers, NEW s \in Subs, NEW offered \in SUBSET Own(s),
             FetchOK(w, s, offered)
      PROVE  PInv'
  <2>1. w \in Workers /\ job[w] \in Job /\ OnPath(w) /\ Stored(w)
    BY <1>1 DEF Workers, Pollers
  <2>2. job' = [job EXCEPT ![w] = job'[w]]
    BY <1>1, <2>1, <1>16 DEF FetchOK
  <2>3. PICK got \in SUBSET Own(s) :
          job'[w] = [job[w] EXCEPT !.at = IF got = {} THEN "mark" ELSE "lookup",
                   !.rules[s] = NoRule, !.got = got, !.left = got]
    <3> DEFINE got == {e \in offered : Matches(job[w].rules[s], e)}
    <3>1. got \in SUBSET Own(s)
      OBVIOUS
    <3>2. job'[w] = [job[w] EXCEPT !.at = IF got = {} THEN "mark" ELSE "lookup",
                   !.rules[s] = NoRule, !.got = got, !.left = got]
      BY <1>1, <2>1, <1>16 DEF FetchOK
    <3> QED
      BY <3>1, <3>2
  <2>4. job[w].at = "fetch" /\ job[w].cur = s /\ UNCHANGED <<sub, item>>
    BY <1>1, <2>1, <1>16 DEF FetchOK, dbVars
  <2>5. job'[w] \in Job
    <3>1. NoRule \in Rules /\ got \in SUBSET Entries
      BY DEF NoRule, Rules, Own
    <3>2. PICK at \in Places, rules \in Rules :
             job'[w] = [job[w] EXCEPT !.at = at, !.rules[s] = rules, !.got = got, !.left = got]
      BY <2>3, <3>1 DEF Places
    <3> DEFINE old == job[w]
               new == job'[w]
    <3>3. old \in Job /\ new = [old EXCEPT !.at = at, !.rules[s] = rules, !.got = got, !.left = got]
      BY <2>1, <3>2
    <3> HIDE DEF old, new
    <3>4. new \in Job
      BY <3>1, <3>2, <3>3 DEF Job
    <3> QED
      BY <3>4 DEF new
  <2>6. DbTyped'
    BY <1>1, <2>1, <1>16 DEF FetchOK, DbTyped, dbVars
  <2>7. Forward
    BY <1>1, <2>1, <1>16 DEF FetchOK, Forward, Born, Live, dbVars
  <2>8. OnPath(w)'
    <3>1. got \subseteq Entries /\ \A e \in got : SubOf[e] = s
      BY DEF Own
    <3>2. job'[w].cur = s /\ job'[w].got = got /\ job'[w].left = got /\ job'[w].due = job[w].due
      BY <2>1, <2>3, <2>4 DEF Job
    <3>3. /\ job'[w].at \in {"mark", "lookup"} /\ job'[w].entry = job[w].entry
          /\ job'[w].at = "mark" => got = {}
      BY <2>1, <2>3, <2>4 DEF Job
    <3>4. job'[w].due \subseteq Subs /\ (\A t \in job'[w].due : Born(t)) /\ job[w].entry = NoEntry
      BY <2>1, <2>4, <3>2 DEF OnPath, Job
    <3>5. Born(s)' /\ \A t \in job'[w].due : Born(t)'
      BY <2>1, <2>4, <2>7, <3>4 DEF OnPath, Forward
    <3> QED
      BY <3>1, <3>2, <3>3, <3>4, <3>5 DEF OnPath
  <2>9. Stored(w)'
    BY <1>4, <2>1, <2>3, <2>4, <2>7 DEF Stored
  <2> QED
    BY <2>1, <2>2, <2>5, <2>6, <2>7, <2>8, <2>9, WorkerMoves
<1>17. ASSUME NEW w \in Pollers,
             FetchFails(w)
      PROVE  PInv'
  <2>1. w \in Workers /\ job[w] \in Job /\ OnPath(w) /\ Stored(w)
    BY <1>1 DEF Workers, Pollers
  <2>2. job' = [job EXCEPT ![w] = job'[w]]
    BY <1>1, <2>1, <1>17 DEF FetchFails
  <2>3. job'[w] = [Failed(w) EXCEPT !.rules[job[w].cur] = NoRule]
    BY <1>1, <2>1, <1>17 DEF FetchFails
  <2>4. job[w].at = "fetch"
    BY <1>1, <2>1, <1>17 DEF FetchFails, Workers
  <2>5. job'[w] \in Job
    <3>1. Failed(w) \in Job /\ job[w].cur \in Subs /\ NoRule \in Rules
      BY <2>1, <2>4, FailedIsJob DEF OnPath, Polling, NoRule, Rules
    <3> QED
      BY <2>3, <3>1 DEF Job
  <2>6. DbTyped'
    BY <1>1, <2>1, <1>17 DEF FetchFails, DbTyped, Event, dbVars, OnPath
  <2>7. Forward
    BY <1>1, <2>1, <1>17 DEF FetchFails, Forward, Born, Live, dbVars
  <2>8. OnPath(w)'
    BY <1>4, <2>1, <2>3, <2>4, <2>7 DEF OnPath, Polling, Job, Forward, Failed
  <2>9. Stored(w)'
    BY <1>4, <2>1, <2>3, <2>4, <2>7 DEF Stored, Failed
  <2> QED
    BY <2>1, <2>2, <2>5, <2>6, <2>7, <2>8, <2>9, WorkerMoves
<1>18. ASSUME NEW w \in Pollers, NEW e \in Entries,
             Lookup(w, e)
      PROVE  PInv'
  <2>1. w \in Workers /\ job[w] \in Job /\ OnPath(w) /\ Stored(w)
    BY <1>1 DEF Workers, Pollers
  <2>2. job' = [job EXCEPT ![w] = job'[w]]
    BY <1>1, <2>1, <1>18 DEF Lookup
  <2>3. job'[w] = [job[w] EXCEPT !.at = "write", !.entry = e, !.left = job[w].left \ {e}, !.found = item[e] # "absent"]
    BY <1>1, <2>1, <1>18 DEF Lookup
  <2>4. job[w].at = "lookup" /\ e \in job[w].left /\ UNCHANGED <<sub, item>>
    BY <1>1, <2>1, <1>18 DEF Lookup, dbVars
  <2>5. job'[w] \in Job
    BY <2>1, <2>3, WriteIsJob
  <2>6. DbTyped'
    BY <1>1, <2>1, <1>18 DEF Lookup, DbTyped, dbVars
  <2>7. Forward
    BY <1>1, <2>1, <1>18 DEF Lookup, Forward, Born, Live, dbVars
  <2>8. OnPath(w)'
    BY <1>4, <2>1, <2>3, <2>4, <2>7 DEF OnPath, Job, Forward
  <2>9. Stored(w)'
    BY <1>4, <2>1, <2>3, <2>4, <2>7 DEF OnPath, Stored, Polling, Job, Forward
  <2> QED
    BY <2>1, <2>2, <2>5, <2>6, <2>7, <2>8, <2>9, WorkerMoves
<1>19. ASSUME NEW w \in Pollers,
             UpdateRow(w)
      PROVE  PInv'
  <2>1. w \in Workers /\ job[w] \in Job /\ OnPath(w) /\ Stored(w)
    BY <1>1 DEF Workers, Pollers
  <2>2. job' = [job EXCEPT ![w] = job'[w]]
    BY <1>1, <2>1, <1>19 DEF UpdateRow
  <2>3. job'[w] = [job[w] EXCEPT !.at = "readback"]
    BY <1>1, <2>1, <1>19 DEF UpdateRow
  <2>4. job[w].at = "write" /\ UNCHANGED <<sub, item>>
    BY <1>1, <2>1, <1>19 DEF UpdateRow, dbVars
  <2>5. job'[w] \in Job
    BY <1>2, <1>4, <2>1, <2>3, <2>4 DEF Job, Places
  <2>6. DbTyped'
    BY <1>1, <2>1, <1>19 DEF UpdateRow, DbTyped, Event, dbVars, OnPath
  <2>7. Forward
    BY <1>1, <2>1, <1>19 DEF UpdateRow, Forward, Born, Live, dbVars
  <2>8. OnPath(w)'
    BY <1>4, <2>1, <2>3, <2>4, <2>7 DEF OnPath, Polling, Job, Forward
  <2>9. Stored(w)'
    BY <1>4, <2>1, <2>3, <2>4, <2>7 DEF OnPath, Stored, Polling, Forward
  <2> QED
    BY <2>1, <2>2, <2>5, <2>6, <2>7, <2>8, <2>9, WorkerMoves
<1>20. ASSUME NEW w \in Pollers,
             InsertRow(w)
      PROVE  PInv'
  <2>1. w \in Workers /\ job[w] \in Job /\ OnPath(w) /\ Stored(w)
    BY <1>1 DEF Workers, Pollers
  <2>2. job' = [job EXCEPT ![w] = job'[w]]
    BY <1>1, <2>1, <1>20 DEF InsertRow
  <2>3. job'[w] = [job[w] EXCEPT !.at = "readback"]
    BY <1>1, <2>1, <1>20 DEF InsertRow
  <2>4. job[w].at = "write" /\ UNCHANGED sub
    BY <1>1, <2>1, <1>20 DEF InsertRow, dbVars, Workers
  <2>5. job'[w] \in Job
    BY <1>2, <1>4, <2>1, <2>3, <2>4 DEF Job, Places
  <2>6. DbTyped'
    BY <1>1, <2>1, <1>20 DEF InsertRow, DbTyped, Event, dbVars, OnPath, NewStatus, ItemStatus
  <2>7. Forward
    BY <1>1, <2>1, <1>20 DEF InsertRow, Forward, Born, Live, dbVars
  <2>8. OnPath(w)'
    BY <1>4, <2>1, <2>3, <2>4, <2>7 DEF OnPath, Polling, Job, Forward
  <2>9. Stored(w)'
    BY <1>4, <2>1, <2>3, <2>4, <2>7 DEF OnPath, Stored, Polling, Job, Forward
  <2> QED
    BY <2>1, <2>2, <2>5, <2>6, <2>7, <2>8, <2>9, WorkerMoves
<1>21. ASSUME NEW w \in Pollers,
             InsertClashes(w)
      PROVE  PInv'
  <2>1. w \in Workers /\ job[w] \in Job /\ OnPath(w) /\ Stored(w)
    BY <1>1 DEF Workers, Pollers
  <2>2. job' = [job EXCEPT ![w] = job'[w]]
    BY <1>1, <2>1, <1>21 DEF InsertClashes
  <2>3. job'[w] = Failed(w)
    BY <1>1, <2>1, <1>21 DEF InsertClashes
  <2>4. job[w].at = "write" /\ UNCHANGED <<sub, item>>
    BY <1>1, <2>1, <1>21 DEF InsertClashes, dbVars
  <2>5. job'[w] \in Job
    BY <2>1, <2>3, FailedIsJob
  <2>6. DbTyped'
    BY <1>1, <2>1, <1>21 DEF InsertClashes, DbTyped, Event, dbVars, OnPath
  <2>7. Forward
    BY <1>1, <2>1, <1>21 DEF InsertClashes, Forward, Born, Live, dbVars
  <2>8. OnPath(w)'
    BY <1>4, <2>1, <2>3, <2>4, <2>7 DEF OnPath, Polling, Job, Forward, Failed
  <2>9. Stored(w)'
    BY <1>4, <2>1, <2>3, <2>4, <2>7 DEF Stored, Failed
  <2> QED
    BY <2>1, <2>2, <2>5, <2>6, <2>7, <2>8, <2>9, WorkerMoves
<1>22. ASSUME NEW w \in Pollers,
             ReadBack(w)
      PROVE  PInv'
  <2>1. w \in Workers /\ job[w] \in Job /\ OnPath(w) /\ Stored(w)
    BY <1>1 DEF Workers, Pollers
  <2>2. job' = [job EXCEPT ![w] = job'[w]]
    BY <1>1, <2>1, <1>22 DEF ReadBack
  <2>3. \/ job'[w] = Failed(w)
        \/ /\ item[job[w].entry] # "absent"
           /\ job'[w] = [job[w] EXCEPT !.at = IF job[w].left = {} THEN "mark" ELSE "lookup",
                                       !.entry = NoEntry, !.found = FALSE]
    BY <1>1, <2>1, <1>22 DEF ReadBack
  <2>4. job[w].at = "readback" /\ UNCHANGED <<sub, item>>
    BY <1>1, <2>1, <1>22 DEF ReadBack, dbVars
  <2>5. job'[w] \in Job
    <3>1. CASE job'[w] = Failed(w)
      BY <2>1, <3>1, FailedIsJob
    <3>2. CASE job'[w] = [job[w] EXCEPT !.at = IF job[w].left = {} THEN "mark" ELSE "lookup",
                                        !.entry = NoEntry, !.found = FALSE]
      <4> DEFINE at == IF job[w].left = {} THEN "mark" ELSE "lookup"
      <4>1. job'[w] = [job[w] EXCEPT !.at = at, !.entry = NoEntry, !.found = FALSE]
        BY <3>2
      <4>2. at \in Places
        BY DEF Places
      <4> HIDE DEF at
      <4> QED
        BY <2>1, <4>1, <4>2 DEF Job
    <3> QED
      BY <2>3, <3>1, <3>2
  <2>6. DbTyped'
    BY <1>1, <2>1, <1>22 DEF ReadBack, DbTyped, Event, dbVars, OnPath
  <2>7. Forward
    BY <1>1, <2>1, <1>22 DEF ReadBack, Forward, Born, Live, dbVars
  <2> DEFINE at == IF job[w].left = {} THEN "mark" ELSE "lookup"
             on == [job[w] EXCEPT !.at = at, !.entry = NoEntry, !.found = FALSE]
  <2>8. ASSUME job'[w] = Failed(w) PROVE OnPath(w)' /\ Stored(w)'
    <3>1. OnPath(w)'
      BY <1>4, <2>1, <2>4, <2>7, <2>8 DEF OnPath, Polling, Job, Forward, Failed
    <3>2. Stored(w)'
      BY <1>4, <2>1, <2>4, <2>7, <2>8 DEF OnPath, Stored, Polling, Forward, Failed
    <3> QED
      BY <3>1, <3>2
  <2>9. ASSUME item[job[w].entry] # "absent", job'[w] = on PROVE OnPath(w)' /\ Stored(w)'
    <3> HIDE DEF at
    <3>1. /\ job'[w].at = at
          /\ job'[w].entry = NoEntry /\ job'[w].cur = job[w].cur /\ job'[w].err = job[w].err
          /\ job'[w].due = job[w].due /\ job'[w].got = job[w].got /\ job'[w].left = job[w].left
      BY <2>1, <2>9 DEF Job
    <3>2. at \in {"mark", "lookup"} /\ (at = "mark" => job[w].left = {})
      BY DEF at
    <3> HIDE DEF on
    <3>3. job[w].at \in Polling /\ \A t \in Subs : Born(t) => Born(t)'
      BY <2>4, <2>7 DEF Polling, Forward
    <3>4. w \in Pollers /\ job[w].cur \in Subs /\ job[w].due \subseteq Subs
      BY <2>1, <3>3 DEF OnPath, Job
    <3>5. OnPath(w)'
      BY <2>1, <3>1, <3>2, <3>3, <3>4 DEF OnPath
    <3>6. Stored(w)'
      <4>1. Live(job[w].cur)' => Live(job[w].cur)
        BY <2>4, <3>1 DEF Live
      <4>2. ~job[w].err /\ Live(job[w].cur) =>
              \A e \in job[w].got : e \in job[w].left \/ item[e] # "absent"
        BY <2>1, <2>4, <2>9 DEF Stored, Polling
      <4> QED
        BY <2>4, <3>1, <4>1, <4>2 DEF Stored, Live
    <3> QED
      BY <3>5, <3>6
  <2>10. OnPath(w)' /\ Stored(w)'
    BY <2>3, <2>8, <2>9
  <2> QED
    BY <2>1, <2>2, <2>5, <2>6, <2>7, <2>10, WorkerMoves
<1>23. ASSUME NEW w \in Pollers,
             MarkFetched(w)
      PROVE  PInv'
  <2>1. w \in Workers /\ job[w] \in Job /\ OnPath(w) /\ Stored(w)
    BY <1>1 DEF Workers, Pollers
  <2>2. job' = [job EXCEPT ![w] = job'[w]]
    BY <1>1, <2>1, <1>23 DEF MarkFetched
  <2>3. job'[w] = AfterPoll(w)
    BY <1>1, <2>1, <1>23 DEF MarkFetched
  <2>4. job[w].at = "mark"
    BY <1>1, <2>1, <1>23 DEF MarkFetched, dbVars
  <2>5. job'[w] \in Job
    BY <2>1, <2>3, AfterPollIsJob
  <2>6. DbTyped'
    <3>1. job[w].cur \in Subs /\ job[w].err \in BOOLEAN
      BY <2>1, <2>4 DEF OnPath, Polling, Job
    <3>2. sub[job[w].cur] \in SubRow
      BY <1>1, <3>1 DEF DbTyped
    <3>3. [sub[job[w].cur] EXCEPT !.due = FALSE, !.failed = job[w].err] \in SubRow
      BY <3>1, <3>2 DEF SubRow
    <3>4. sub' \in [Subs -> SubRow]
      BY <1>1, <1>23, <3>1, <3>3 DEF MarkFetched, DbTyped
    <3> QED
      BY <1>1, <1>23, <3>4 DEF MarkFetched, DbTyped
  <2>7. Forward
    BY <1>1, <2>1, <1>23 DEF MarkFetched, Forward, Born, Live, dbVars
  <2>8. OnPath(w)'
    BY <1>4, <2>1, <2>3, <2>4, <2>7 DEF OnPath, Polling, Job, Forward, AfterPoll, Rest
  <2>9. Stored(w)'
    BY <1>4, <2>1, <2>3, <2>4, <2>7 DEF Stored, AfterPoll, Rest
  <2> QED
    BY <2>1, <2>2, <2>5, <2>6, <2>7, <2>8, <2>9, WorkerMoves
<1>24. ASSUME NEW w \in Pollers,
             SettingFails(w)
      PROVE  PInv'
  <2>1. w \in Workers /\ job[w] \in Job /\ OnPath(w) /\ Stored(w)
    BY <1>1 DEF Workers, Pollers
  <2>2. job' = [job EXCEPT ![w] = job'[w]]
    BY <1>1, <2>1, <1>24 DEF SettingFails
  <2>3. job'[w] = AfterPoll(w)
    BY <1>1, <2>1, <1>24 DEF SettingFails
  <2>4. job[w].at = "fetch"
    BY <1>1, <2>1, <1>24 DEF SettingFails
  <2>5. job'[w] \in Job
    BY <2>1, <2>3, AfterPollIsJob
  <2>6. DbTyped'
    BY <1>1, <2>1, <1>24 DEF SettingFails, DbTyped, Event, dbVars, OnPath
  <2>7. Forward
    BY <1>1, <2>1, <1>24 DEF SettingFails, Forward, Born, Live, dbVars
  <2>8. OnPath(w)'
    BY <1>4, <2>1, <2>3, <2>4, <2>7 DEF OnPath, Polling, Job, Forward, AfterPoll, Rest
  <2>9. Stored(w)'
    BY <1>4, <2>1, <2>3, <2>4, <2>7 DEF Stored, AfterPoll, Rest
  <2> QED
    BY <2>1, <2>2, <2>5, <2>6, <2>7, <2>8, <2>9, WorkerMoves
<1>25. ASSUME NEW w \in Pollers,
             SaveFails(w)
      PROVE  PInv'
  <2>1. w \in Workers /\ job[w] \in Job /\ OnPath(w) /\ Stored(w)
    BY <1>1 DEF Workers, Pollers
  <2>2. job' = [job EXCEPT ![w] = job'[w]]
    BY <1>1, <2>1, <1>25 DEF SaveFails
  <2>3. job'[w] = Failed(w)
    BY <1>1, <2>1, <1>25 DEF SaveFails
  <2>4. job[w].at \in {"lookup", "write", "readback"} /\ UNCHANGED <<sub, item>>
    BY <1>1, <2>1, <1>25 DEF SaveFails, dbVars
  <2>5. job'[w] \in Job
    BY <2>1, <2>3, FailedIsJob
  <2>6. DbTyped'
    BY <1>1, <2>1, <1>25 DEF SaveFails, DbTyped, Event, dbVars, OnPath
  <2>7. Forward
    BY <1>1, <2>1, <1>25 DEF SaveFails, Forward, Born, Live, dbVars
  <2>8. OnPath(w)'
    BY <1>4, <2>1, <2>3, <2>4, <2>7 DEF OnPath, Polling, Job, Forward, Failed
  <2>9. Stored(w)'
    BY <1>4, <2>1, <2>3, <2>4, <2>7 DEF Stored, Failed
  <2> QED
    BY <2>1, <2>2, <2>5, <2>6, <2>7, <2>8, <2>9, WorkerMoves
<1>26. ASSUME NEW w \in Pollers,
             MarkFails(w)
      PROVE  PInv'
  <2>1. w \in Workers /\ job[w] \in Job /\ OnPath(w) /\ Stored(w)
    BY <1>1 DEF Workers, Pollers
  <2>2. job' = [job EXCEPT ![w] = job'[w]]
    BY <1>1, <2>1, <1>26 DEF MarkFails
  <2>3. job'[w] = AfterPoll(w)
    BY <1>1, <2>1, <1>26 DEF MarkFails
  <2>4. job[w].at = "mark"
    BY <1>1, <2>1, <1>26 DEF MarkFails
  <2>5. job'[w] \in Job
    BY <2>1, <2>3, AfterPollIsJob
  <2>6. DbTyped'
    BY <1>1, <2>1, <1>26 DEF MarkFails, DbTyped, Event, dbVars, OnPath
  <2>7. Forward
    BY <1>1, <2>1, <1>26 DEF MarkFails, Forward, Born, Live, dbVars
  <2>8. OnPath(w)'
    BY <1>4, <2>1, <2>3, <2>4, <2>7 DEF OnPath, Polling, Job, Forward, AfterPoll, Rest
  <2>9. Stored(w)'
    BY <1>4, <2>1, <2>3, <2>4, <2>7 DEF Stored, AfterPoll, Rest
  <2> QED
    BY <2>1, <2>2, <2>5, <2>6, <2>7, <2>8, <2>9, WorkerMoves
<1>27. ASSUME NEW w \in Workers,
             MarkSubmitting(w)
      PROVE  PInv'
  <2>1. w \in Workers /\ job[w] \in Job /\ OnPath(w) /\ Stored(w)
    BY <1>1 DEF Workers, Pollers
  <2>2. job' = [job EXCEPT ![w] = job'[w]]
    BY <1>1, <2>1, <1>27 DEF MarkSubmitting
  <2>3. job'[w] = [job[w] EXCEPT !.at = "record"]
    BY <1>1, <2>1, <1>27 DEF MarkSubmitting
  <2>4. job[w].at = "submit"
    BY <1>1, <2>1, <1>27 DEF MarkSubmitting, dbVars, Workers
  <2>5. job'[w] \in Job
    BY <1>2, <1>4, <2>1, <2>3, <2>4 DEF Job, Places
  <2>6. DbTyped'
    BY <1>1, <2>1, <1>27 DEF MarkSubmitting, DbTyped, Event, dbVars, OnPath, SetStatus, ItemStatus
  <2>7. Forward
    BY <1>1, <2>1, <1>27 DEF MarkSubmitting, Forward, Born, Live, dbVars, SetStatus
  <2>8. OnPath(w)'
    BY <1>4, <2>1, <2>3, <2>4, <2>7 DEF OnPath, Polling, Job, Forward
  <2>9. Stored(w)'
    BY <1>4, <2>1, <2>3, <2>4, <2>7 DEF Stored, Polling
  <2> QED
    BY <2>1, <2>2, <2>5, <2>6, <2>7, <2>8, <2>9, WorkerMoves
<1>28. ASSUME NEW w \in Workers, NEW result \in {"submitted", "failed"},
             Submit(w, result)
      PROVE  PInv'
  <2>1. w \in Workers /\ job[w] \in Job /\ OnPath(w) /\ Stored(w)
    BY <1>1 DEF Workers, Pollers
  <2>2. job' = [job EXCEPT ![w] = job'[w]]
    BY <1>1, <2>1, <1>28 DEF Submit
  <2>3. job'[w] = IF w = Scheduler /\ job[w].queue # {}
               THEN [job[w] EXCEPT !.at = "next", !.entry = NoEntry] ELSE Rest
    BY <1>1, <2>1, <1>28 DEF Submit
  <2>4. job[w].at = "record"
    BY <1>1, <2>1, <1>28 DEF Submit, dbVars
  <2>5. job'[w] \in Job
    <3>1. CASE w = Scheduler /\ job[w].queue # {}
      <4>1. job'[w] = [job[w] EXCEPT !.at = "next", !.entry = NoEntry]
        BY <2>3, <3>1
      <4> QED
        BY <2>1, <4>1 DEF Job, Places
    <3>2. CASE ~(w = Scheduler /\ job[w].queue # {})
      BY <1>2, <2>3, <3>2
    <3> QED
      BY <3>1, <3>2
  <2>6. DbTyped'
    BY <1>1, <2>1, <1>28 DEF Submit, DbTyped, Event, dbVars, OnPath, SetStatus, ItemStatus
  <2>7. Forward
    BY <1>1, <2>1, <1>28 DEF Submit, Forward, Born, Live, dbVars, SetStatus
  <2>8. OnPath(w)'
    BY <1>4, <2>1, <2>3, <2>4, <2>7 DEF OnPath, Polling, Job, Forward, Rest
  <2>9. Stored(w)'
    BY <1>4, <2>1, <2>3, <2>4, <2>7 DEF Stored, Polling, Rest
  <2> QED
    BY <2>1, <2>2, <2>5, <2>6, <2>7, <2>8, <2>9, WorkerMoves
<1>29. CASE Crash
  <2>1. job' = [v \in Workers |-> Rest] /\ UNCHANGED <<sub, item, tasks, overlap>> /\ events' \in Nat
    BY <1>1, <1>29 DEF Crash, Event, dbVars, DbTyped
  <2>2. ASSUME NEW v \in Workers PROVE OnPath(v)' /\ Stored(v)'
    <3>1. job'[v] = Rest
      BY <2>1
    <3> QED
      BY <1>4, <3>1 DEF OnPath, Stored, Rest, Polling
  <2> QED
    BY <1>1, <1>2, <2>1, <2>2 DEF PInv, TypeOK
<1>30. CASE UNCHANGED vars
  <2>1. DbTyped' /\ Forward /\ UNCHANGED job
    BY <1>1, <1>30 DEF vars, dbVars, DbTyped, Forward, Born, Live
  <2> QED
    BY <2>1, NobodyMoves
<1> QED
  BY <1>5, <1>6, <1>7, <1>8, <1>9, <1>10, <1>11, <1>12, <1>13, <1>14, <1>15, <1>16, <1>17, <1>18,
     <1>19, <1>20, <1>21, <1>22, <1>23, <1>24, <1>25, <1>26, <1>27, <1>28, <1>29, <1>30
     DEF Next, Administration, SchedulerStep, PollStep, Fetch, Save, SubmitStep, ClickItems

-----------------------------------------------------------------------------
(* A deleted subscription.                                                 *)

\* A worker with the local variables j has nothing left to do for s.
Free(j, s) == /\ s \notin j.due /\ s # j.cur
              /\ \A e \in j.queue \cup {j.entry} : e \notin Own(s)

\* After the step nobody is busy with s, and the rows of s are as before.
Quiet(s) == /\ \A w \in Workers : ~Holds(w, s)'
            /\ \A e \in Own(s) : item'[e] = item[e] /\ (e \in tasks' <=> e \in tasks)

LEMMA RestIsFree == ASSUME NEW s \in Subs PROVE Free(Rest, s)
BY FeedsAssumption DEF Free, Rest, Own

LEMMA FailedIsFree ==
  ASSUME NEW w \in Workers, job[w] \in Job, NEW s \in Subs, ~Holds(w, s)
  PROVE  Free(Failed(w), s)
BY FeedsAssumption DEF Free, Holds, Failed, Own

\* One worker moves, and what it writes is not a row of s.
LEMMA OneMoves ==
  ASSUME NEW s \in Subs, \A v \in Workers : ~Holds(v, s),
         job \in [Workers -> Job], item \in [Entries -> ItemStatus],
         NEW w \in Workers, job' = [job EXCEPT ![w] = job'[w]], Free(job'[w], s),
         \/ UNCHANGED <<item, tasks>>
         \/ item' = [item EXCEPT ![job[w].entry] = item'[job[w].entry]] /\ UNCHANGED tasks
         \/ /\ item' = [item EXCEPT ![job[w].entry] = item'[job[w].entry]]
            /\ tasks' = tasks \cup {job[w].entry}
  PROVE  Quiet(s)
<1>1. \A v \in Workers \ {w} : job'[v] = job[v]
  OBVIOUS
<1>2. \A v \in Workers : ~Holds(v, s)'
  BY <1>1 DEF Holds, Free
<1>3. job[w].entry \notin Own(s)
  BY DEF Holds
<1>4. \A e \in Own(s) : e \in Entries /\ e # job[w].entry
  BY <1>3 DEF Own
<1> QED
  BY <1>2, <1>4 DEF Quiet

LEMMA StaysQuiet ==
  ASSUME PInv, [Next]_vars, NEW s \in Subs, sub[s].is = "deleted",
         \A w \in Workers : ~Holds(w, s)
  PROVE  Quiet(s)
<1>1. sub[s].is = "deleted" /\ \A w \in Workers : ~Holds(w, s)
  OBVIOUS
<1>2. /\ sub \in [Subs -> SubRow] /\ item \in [Entries -> ItemStatus]
      /\ job \in [Workers -> Job] /\ \A w \in Workers : OnPath(w)
  BY DEF PInv, TypeOK
<1>3. Free(Rest, s) /\ Rest.due = {} /\ Rest.queue = {} /\ Rest.entry = NoEntry
  BY RestIsFree DEF Rest
<1>4. ASSUME NEW t \in Subs,
             ComesDue(t)
      PROVE  Quiet(s)
  <2>1. UNCHANGED <<item, tasks, job>>
    BY <1>4 DEF ComesDue
  <2> QED
    BY <1>1, <2>1 DEF Holds, Quiet
<1>5. ASSUME NEW t \in Subs, NEW on \in BOOLEAN, NEW rules \in Keywords,
             CreateSubscription(t, on, rules)
      PROVE  Quiet(s)
  <2>1. UNCHANGED <<item, tasks, job>>
    BY <1>5 DEF CreateSubscription
  <2> QED
    BY <1>1, <2>1 DEF Holds, Quiet
<1>6. ASSUME NEW t \in Subs, NEW on \in BOOLEAN, NEW due \in BOOLEAN, NEW rules \in Keywords,
             UpdateSubscription(t, on, rules, due)
      PROVE  Quiet(s)
  <2>1. UNCHANGED <<item, tasks, job>>
    BY <1>6 DEF UpdateSubscription
  <2> QED
    BY <1>1, <2>1 DEF Holds, Quiet
<1>7. ASSUME NEW t \in Subs,
             DeleteSubscription(t)
      PROVE  Quiet(s)
  <2>1. UNCHANGED job /\ t # s
    BY <1>1, <1>7 DEF DeleteSubscription, Live
  <2>2. Own(s) \cap Own(t) = {}
    BY <2>1 DEF Own
  <2>3. \A e \in Own(s) : item'[e] = item[e] /\ (e \in tasks' <=> e \in tasks)
    BY <1>7, <2>2 DEF DeleteSubscription, Own
  <2> QED
    BY <1>1, <2>1, <2>3 DEF Holds, Quiet
<1>8. CASE ListDue
  <2>1. Scheduler \in Workers /\ job[Scheduler] \in Job /\ ~Holds(Scheduler, s) /\ OnPath(Scheduler)
    BY <1>1, <1>2 DEF Workers, Pollers
  <2>2. job' = [job EXCEPT ![Scheduler] = job'[Scheduler]]
    BY <1>2, <2>1, <1>8 DEF ListDue
  <2>3. Free(job'[Scheduler], s)
    BY <1>1, <1>2, <2>1, <1>3, <1>8 DEF ListDue, Free, Live
  <2>4. UNCHANGED <<item, tasks>>
    BY <1>2, <2>1, <1>8 DEF ListDue, dbVars
  <2> QED
    BY <1>1, <1>2, <2>1, <2>2, <2>3, <2>4, OneMoves
<1>9. ASSUME NEW t \in Subs,
             TakeDue(t)
      PROVE  Quiet(s)
  <2>1. Scheduler \in Workers /\ job[Scheduler] \in Job /\ ~Holds(Scheduler, s) /\ OnPath(Scheduler)
    BY <1>1, <1>2 DEF Workers, Pollers
  <2>2. job' = [job EXCEPT ![Scheduler] = job'[Scheduler]]
    BY <1>2, <2>1, <1>9 DEF TakeDue
  <2>3. Free(job'[Scheduler], s)
    BY <1>1, <1>2, <2>1, <1>9 DEF TakeDue, Free, Holds
  <2>4. UNCHANGED <<item, tasks>>
    BY <1>2, <2>1, <1>9 DEF TakeDue, dbVars
  <2> QED
    BY <1>1, <1>2, <2>1, <2>2, <2>3, <2>4, OneMoves
<1>10. CASE DueDone
  <2>1. Scheduler \in Workers /\ job[Scheduler] \in Job /\ ~Holds(Scheduler, s) /\ OnPath(Scheduler)
    BY <1>1, <1>2 DEF Workers, Pollers
  <2>2. job' = [job EXCEPT ![Scheduler] = job'[Scheduler]]
    BY <1>2, <2>1, <1>10 DEF DueDone
  <2>3. Free(job'[Scheduler], s)
    BY <1>1, <1>2, <2>1, <1>3, <1>10 DEF DueDone, Free
  <2>4. UNCHANGED <<item, tasks>>
    BY <1>2, <2>1, <1>10 DEF DueDone, dbVars
  <2> QED
    BY <1>1, <1>2, <2>1, <2>2, <2>3, <2>4, OneMoves
<1>11. CASE ListPending
  <2>1. Scheduler \in Workers /\ job[Scheduler] \in Job /\ ~Holds(Scheduler, s) /\ OnPath(Scheduler)
    BY <1>1, <1>2 DEF Workers, Pollers
  <2>2. job' = [job EXCEPT ![Scheduler] = job'[Scheduler]]
    BY <1>2, <2>1, <1>11 DEF ListPending
  <2>3. Free(job'[Scheduler], s)
    BY <1>1, <1>2, <2>1, <1>3, <1>11 DEF ListPending, Free, Live, Own
  <2>4. UNCHANGED <<item, tasks>>
    BY <1>2, <2>1, <1>11 DEF ListPending, dbVars
  <2> QED
    BY <1>1, <1>2, <2>1, <2>2, <2>3, <2>4, OneMoves
<1>12. ASSUME NEW e \in Entries,
             TakePending(e)
      PROVE  Quiet(s)
  <2>1. Scheduler \in Workers /\ job[Scheduler] \in Job /\ ~Holds(Scheduler, s) /\ OnPath(Scheduler)
    BY <1>1, <1>2 DEF Workers, Pollers
  <2>2. job' = [job EXCEPT ![Scheduler] = job'[Scheduler]]
    BY <1>2, <2>1, <1>12 DEF TakePending
  <2>3. Free(job'[Scheduler], s)
    BY <1>1, <1>2, <2>1, <1>12 DEF TakePending, Free, Holds
  <2>4. UNCHANGED <<item, tasks>>
    BY <1>2, <2>1, <1>12 DEF TakePending, dbVars
  <2> QED
    BY <1>1, <1>2, <2>1, <2>2, <2>3, <2>4, OneMoves
<1>13. ASSUME NEW w \in Refreshers, NEW t \in Subs,
             Refresh(w, t)
      PROVE  Quiet(s)
  <2>1. w \in Workers /\ job[w] \in Job /\ ~Holds(w, s) /\ OnPath(w)
    BY <1>1, <1>2 DEF Workers, Pollers
  <2>2. job' = [job EXCEPT ![w] = job'[w]]
    BY <1>2, <2>1, <1>13 DEF Refresh
  <2>3. Free(job'[w], s)
    BY <1>1, <1>2, <2>1, <1>3, <1>13 DEF Refresh, Free, Live
  <2>4. UNCHANGED <<item, tasks>>
    BY <1>2, <2>1, <1>13 DEF Refresh, dbVars
  <2> QED
    BY <1>1, <1>2, <2>1, <2>2, <2>3, <2>4, OneMoves
<1>14. ASSUME NEW w \in Clicks, NEW e \in Entries,
             Click(w, e)
      PROVE  Quiet(s)
  <2>1. w \in Workers /\ job[w] \in Job /\ ~Holds(w, s) /\ OnPath(w)
    BY <1>1, <1>2 DEF Workers, Pollers
  <2>2. job' = [job EXCEPT ![w] = job'[w]]
    BY <1>2, <2>1, <1>14 DEF Click
  <2>3. Free(job'[w], s)
    BY <1>1, <1>2, <2>1, <1>3, <1>14 DEF Click, Free, Live, Own
  <2>4. UNCHANGED <<item, tasks>>
    BY <1>2, <2>1, <1>14 DEF Click, dbVars
  <2> QED
    BY <1>1, <1>2, <2>1, <2>2, <2>3, <2>4, OneMoves
<1>15. ASSUME NEW w \in Pollers, NEW t \in Subs, NEW offered \in SUBSET Own(t),
             FetchOK(w, t, offered)
      PROVE  Quiet(s)
  <2>1. w \in Workers /\ job[w] \in Job /\ ~Holds(w, s) /\ OnPath(w)
    BY <1>1, <1>2 DEF Workers, Pollers
  <2>2. job' = [job EXCEPT ![w] = job'[w]]
    BY <1>2, <2>1, <1>15 DEF FetchOK
  <2>3. Free(job'[w], s)
    BY <1>1, <1>2, <2>1, <1>15 DEF FetchOK, Free, Holds
  <2>4. UNCHANGED <<item, tasks>>
    BY <1>2, <2>1, <1>15 DEF FetchOK, dbVars
  <2> QED
    BY <1>1, <1>2, <2>1, <2>2, <2>3, <2>4, OneMoves
<1>16. ASSUME NEW w \in Pollers,
             FetchFails(w)
      PROVE  Quiet(s)
  <2>1. w \in Workers /\ job[w] \in Job /\ ~Holds(w, s) /\ OnPath(w)
    BY <1>1, <1>2 DEF Workers, Pollers
  <2>2. job' = [job EXCEPT ![w] = job'[w]]
    BY <1>2, <2>1, <1>16 DEF FetchFails
  <2>3. Free(job'[w], s)
    <3>1. job'[w] = [Failed(w) EXCEPT !.rules[job[w].cur] = NoRule]
      BY <1>2, <2>1, <1>16 DEF FetchFails
    <3>2. Free(Failed(w), s)
      BY <2>1, FailedIsFree
    <3> QED
      BY <2>1, <3>1, <3>2 DEF Free
  <2>4. UNCHANGED <<item, tasks>>
    BY <1>2, <2>1, <1>16 DEF FetchFails, dbVars
  <2> QED
    BY <1>1, <1>2, <2>1, <2>2, <2>3, <2>4, OneMoves
<1>17. ASSUME NEW w \in Pollers, NEW e \in Entries,
             Lookup(w, e)
      PROVE  Quiet(s)
  <2>1. w \in Workers /\ job[w] \in Job /\ ~Holds(w, s) /\ OnPath(w)
    BY <1>1, <1>2 DEF Workers, Pollers
  <2>2. job' = [job EXCEPT ![w] = job'[w]]
    BY <1>2, <2>1, <1>17 DEF Lookup
  <2>3. Free(job'[w], s)
    <3>1. SubOf[e] = job[w].cur
      BY <2>1, <1>17 DEF Lookup, OnPath
    <3> QED
      BY <1>2, <2>1, <1>17, <3>1 DEF Lookup, Free, Holds, Own
  <2>4. UNCHANGED <<item, tasks>>
    BY <1>2, <2>1, <1>17 DEF Lookup, dbVars
  <2> QED
    BY <1>1, <1>2, <2>1, <2>2, <2>3, <2>4, OneMoves
<1>18. ASSUME NEW w \in Pollers,
             UpdateRow(w)
      PROVE  Quiet(s)
  <2>1. w \in Workers /\ job[w] \in Job /\ ~Holds(w, s) /\ OnPath(w)
    BY <1>1, <1>2 DEF Workers, Pollers
  <2>2. job' = [job EXCEPT ![w] = job'[w]]
    BY <1>2, <2>1, <1>18 DEF UpdateRow
  <2>3. Free(job'[w], s)
    BY <1>1, <1>2, <2>1, <1>18 DEF UpdateRow, Free, Holds
  <2>4. UNCHANGED <<item, tasks>>
    BY <1>2, <2>1, <1>18 DEF UpdateRow, dbVars
  <2> QED
    BY <1>1, <1>2, <2>1, <2>2, <2>3, <2>4, OneMoves
<1>19. ASSUME NEW w \in Pollers,
             InsertRow(w)
      PROVE  Quiet(s)
  <2>1. w \in Workers /\ job[w] \in Job /\ ~Holds(w, s) /\ OnPath(w)
    BY <1>1, <1>2 DEF Workers, Pollers
  <2>2. job' = [job EXCEPT ![w] = job'[w]]
    BY <1>2, <2>1, <1>19 DEF InsertRow
  <2>3. Free(job'[w], s)
    BY <1>1, <1>2, <2>1, <1>19 DEF InsertRow, Free, Holds
  <2>4. item' = [item EXCEPT ![job[w].entry] = item'[job[w].entry]] /\ UNCHANGED tasks
    BY <1>2, <2>1, <1>19 DEF InsertRow, dbVars
  <2> QED
    BY <1>1, <1>2, <2>1, <2>2, <2>3, <2>4, OneMoves
<1>20. ASSUME NEW w \in Pollers,
             InsertClashes(w)
      PROVE  Quiet(s)
  <2>1. w \in Workers /\ job[w] \in Job /\ ~Holds(w, s) /\ OnPath(w)
    BY <1>1, <1>2 DEF Workers, Pollers
  <2>2. job' = [job EXCEPT ![w] = job'[w]]
    BY <1>2, <2>1, <1>20 DEF InsertClashes
  <2>3. Free(job'[w], s)
    <3>1. job'[w] = Failed(w)
      BY <1>2, <2>1, <1>20 DEF InsertClashes
    <3> QED
      BY <2>1, <3>1, FailedIsFree
  <2>4. UNCHANGED <<item, tasks>>
    BY <1>2, <2>1, <1>20 DEF InsertClashes, dbVars
  <2> QED
    BY <1>1, <1>2, <2>1, <2>2, <2>3, <2>4, OneMoves
<1>21. ASSUME NEW w \in Pollers,
             ReadBack(w)
      PROVE  Quiet(s)
  <2>1. w \in Workers /\ job[w] \in Job /\ ~Holds(w, s) /\ OnPath(w)
    BY <1>1, <1>2 DEF Workers, Pollers
  <2>2. job' = [job EXCEPT ![w] = job'[w]]
    BY <1>2, <2>1, <1>21 DEF ReadBack
  <2>3. Free(job'[w], s)
    <3>1. CASE job'[w] = Failed(w)
      BY <2>1, <3>1, FailedIsFree
    <3>2. CASE job'[w] = [job[w] EXCEPT !.at = IF job[w].left = {} THEN "mark" ELSE "lookup",
                                   !.entry = NoEntry, !.found = FALSE]
      BY <2>1, <3>2, FeedsAssumption DEF Free, Holds, Own
    <3> QED
      BY <1>2, <2>1, <1>21, <3>1, <3>2 DEF ReadBack
  <2>4. UNCHANGED <<item, tasks>>
    BY <1>2, <2>1, <1>21 DEF ReadBack, dbVars
  <2> QED
    BY <1>1, <1>2, <2>1, <2>2, <2>3, <2>4, OneMoves
<1>22. ASSUME NEW w \in Pollers,
             MarkFetched(w)
      PROVE  Quiet(s)
  <2>1. w \in Workers /\ job[w] \in Job /\ ~Holds(w, s) /\ OnPath(w)
    BY <1>1, <1>2 DEF Workers, Pollers
  <2>2. job' = [job EXCEPT ![w] = job'[w]]
    BY <1>2, <2>1, <1>22 DEF MarkFetched
  <2>3. Free(job'[w], s)
    BY <1>1, <1>2, <2>1, <1>3, <1>22 DEF MarkFetched, Free, Holds, AfterPoll
  <2>4. UNCHANGED <<item, tasks>>
    BY <1>2, <2>1, <1>22 DEF MarkFetched, dbVars
  <2> QED
    BY <1>1, <1>2, <2>1, <2>2, <2>3, <2>4, OneMoves
<1>23. ASSUME NEW w \in Pollers,
             SettingFails(w)
      PROVE  Quiet(s)
  <2>1. w \in Workers /\ job[w] \in Job /\ ~Holds(w, s) /\ OnPath(w)
    BY <1>1, <1>2 DEF Workers, Pollers
  <2>2. job' = [job EXCEPT ![w] = job'[w]]
    BY <1>2, <2>1, <1>23 DEF SettingFails
  <2>3. Free(job'[w], s)
    BY <1>1, <1>2, <2>1, <1>3, <1>23 DEF SettingFails, Free, Holds, AfterPoll
  <2>4. UNCHANGED <<item, tasks>>
    BY <1>2, <2>1, <1>23 DEF SettingFails, dbVars
  <2> QED
    BY <1>1, <1>2, <2>1, <2>2, <2>3, <2>4, OneMoves
<1>24. ASSUME NEW w \in Pollers,
             SaveFails(w)
      PROVE  Quiet(s)
  <2>1. w \in Workers /\ job[w] \in Job /\ ~Holds(w, s) /\ OnPath(w)
    BY <1>1, <1>2 DEF Workers, Pollers
  <2>2. job' = [job EXCEPT ![w] = job'[w]]
    BY <1>2, <2>1, <1>24 DEF SaveFails
  <2>3. Free(job'[w], s)
    <3>1. job'[w] = Failed(w)
      BY <1>2, <2>1, <1>24 DEF SaveFails
    <3> QED
      BY <2>1, <3>1, FailedIsFree
  <2>4. UNCHANGED <<item, tasks>>
    BY <1>2, <2>1, <1>24 DEF SaveFails, dbVars
  <2> QED
    BY <1>1, <1>2, <2>1, <2>2, <2>3, <2>4, OneMoves
<1>25. ASSUME NEW w \in Pollers,
             MarkFails(w)
      PROVE  Quiet(s)
  <2>1. w \in Workers /\ job[w] \in Job /\ ~Holds(w, s) /\ OnPath(w)
    BY <1>1, <1>2 DEF Workers, Pollers
  <2>2. job' = [job EXCEPT ![w] = job'[w]]
    BY <1>2, <2>1, <1>25 DEF MarkFails
  <2>3. Free(job'[w], s)
    BY <1>1, <1>2, <2>1, <1>3, <1>25 DEF MarkFails, Free, Holds, AfterPoll
  <2>4. UNCHANGED <<item, tasks>>
    BY <1>2, <2>1, <1>25 DEF MarkFails, dbVars
  <2> QED
    BY <1>1, <1>2, <2>1, <2>2, <2>3, <2>4, OneMoves
<1>26. ASSUME NEW w \in Workers,
             MarkSubmitting(w)
      PROVE  Quiet(s)
  <2>1. w \in Workers /\ job[w] \in Job /\ ~Holds(w, s) /\ OnPath(w)
    BY <1>1, <1>2 DEF Workers, Pollers
  <2>2. job' = [job EXCEPT ![w] = job'[w]]
    BY <1>2, <2>1, <1>26 DEF MarkSubmitting
  <2>3. Free(job'[w], s)
    BY <1>1, <1>2, <2>1, <1>26 DEF MarkSubmitting, Free, Holds
  <2>4. item' = [item EXCEPT ![job[w].entry] = item'[job[w].entry]] /\ UNCHANGED tasks
    BY <1>2, <2>1, <1>26 DEF MarkSubmitting, dbVars, SetStatus
  <2> QED
    BY <1>1, <1>2, <2>1, <2>2, <2>3, <2>4, OneMoves
<1>27. ASSUME NEW w \in Workers, NEW result \in {"submitted", "failed"},
             Submit(w, result)
      PROVE  Quiet(s)
  <2>1. w \in Workers /\ job[w] \in Job /\ ~Holds(w, s) /\ OnPath(w)
    BY <1>1, <1>2 DEF Workers, Pollers
  <2>2. job' = [job EXCEPT ![w] = job'[w]]
    BY <1>2, <2>1, <1>27 DEF Submit
  <2>3. Free(job'[w], s)
    BY <1>1, <1>2, <2>1, <1>3, <1>27 DEF Submit, Free, Holds
  <2>4. item' = [item EXCEPT ![job[w].entry] = item'[job[w].entry]] /\ tasks' = tasks \cup {job[w].entry}
    BY <1>2, <2>1, <1>27 DEF Submit, dbVars, SetStatus
  <2> QED
    BY <1>1, <1>2, <2>1, <2>2, <2>3, <2>4, OneMoves
<1>28. CASE Crash
  <2>1. UNCHANGED <<item, tasks>> /\ job' = [v \in Workers |-> Rest]
    BY <1>28 DEF Crash, dbVars
  <2>2. ASSUME NEW v \in Workers PROVE ~Holds(v, s)'
    <3>1. job'[v] = Rest
      BY <2>1
    <3> QED
      BY <1>3, <3>1 DEF Holds, Free
  <2> QED
    BY <2>1, <2>2 DEF Quiet
<1>29. CASE UNCHANGED vars
  <2>1. UNCHANGED <<item, tasks, job>>
    BY <1>29 DEF vars, dbVars
  <2> QED
    BY <1>1, <2>1 DEF Holds, Quiet
<1> QED
  BY <1>4, <1>5, <1>6, <1>7, <1>8, <1>9, <1>10, <1>11, <1>12, <1>13, <1>14, <1>15, <1>16, <1>17,
     <1>18, <1>19, <1>20, <1>21, <1>22, <1>23, <1>24, <1>25, <1>26, <1>27, <1>28, <1>29
     DEF Next, Administration, SchedulerStep, PollStep, Fetch, Save, SubmitStep, ClickItems

\* Only DeleteSubscription(s) deletes s, and overlap only grows.
Dies(s) == /\ overlap \subseteq overlap'
           /\ sub[s].is # "deleted" /\ sub'[s].is = "deleted" => DeleteSubscription(s)

LEMMA OnlyDeletionDeletes ==
  ASSUME PInv, [Next]_vars, NEW s \in Subs
  PROVE  Dies(s)
<1>1. sub \in [Subs -> SubRow]
  BY DEF PInv, TypeOK
<1>2. ASSUME NEW t \in Subs,
             ComesDue(t)
      PROVE  Dies(s)
  BY <1>1, <1>2 DEF Dies, ComesDue
<1>3. ASSUME NEW t \in Subs, NEW on \in BOOLEAN, NEW rules \in Keywords,
             CreateSubscription(t, on, rules)
      PROVE  Dies(s)
  BY <1>1, <1>3 DEF Dies, CreateSubscription
<1>4. ASSUME NEW t \in Subs, NEW on \in BOOLEAN, NEW due \in BOOLEAN, NEW rules \in Keywords,
             UpdateSubscription(t, on, rules, due)
      PROVE  Dies(s)
  BY <1>1, <1>4 DEF Dies, UpdateSubscription
<1>5. ASSUME NEW t \in Subs,
             DeleteSubscription(t)
      PROVE  Dies(s)
  <2>1. CASE t = s
    BY <1>5, <2>1 DEF Dies, DeleteSubscription
  <2>2. CASE t # s
    BY <1>1, <1>5, <2>2 DEF Dies, DeleteSubscription
  <2> QED
    BY <2>1, <2>2
<1>6. CASE ListDue
  BY <1>6 DEF Dies, ListDue, dbVars
<1>7. ASSUME NEW t \in Subs,
             TakeDue(t)
      PROVE  Dies(s)
  BY <1>7 DEF Dies, TakeDue, dbVars
<1>8. CASE DueDone
  BY <1>8 DEF Dies, DueDone, dbVars
<1>9. CASE ListPending
  BY <1>9 DEF Dies, ListPending, dbVars
<1>10. ASSUME NEW e \in Entries,
             TakePending(e)
      PROVE  Dies(s)
  BY <1>10 DEF Dies, TakePending, dbVars
<1>11. ASSUME NEW w \in Refreshers, NEW t \in Subs,
             Refresh(w, t)
      PROVE  Dies(s)
  BY <1>11 DEF Dies, Refresh, dbVars
<1>12. ASSUME NEW w \in Clicks, NEW e \in Entries,
             Click(w, e)
      PROVE  Dies(s)
  BY <1>12 DEF Dies, Click, dbVars
<1>13. ASSUME NEW w \in Pollers, NEW t \in Subs, NEW offered \in SUBSET Own(t),
             FetchOK(w, t, offered)
      PROVE  Dies(s)
  BY <1>13 DEF Dies, FetchOK, dbVars
<1>14. ASSUME NEW w \in Pollers,
             FetchFails(w)
      PROVE  Dies(s)
  BY <1>14 DEF Dies, FetchFails, dbVars
<1>15. ASSUME NEW w \in Pollers, NEW e \in Entries,
             Lookup(w, e)
      PROVE  Dies(s)
  BY <1>15 DEF Dies, Lookup, dbVars
<1>16. ASSUME NEW w \in Pollers,
             UpdateRow(w)
      PROVE  Dies(s)
  BY <1>16 DEF Dies, UpdateRow, dbVars
<1>17. ASSUME NEW w \in Pollers,
             InsertRow(w)
      PROVE  Dies(s)
  BY <1>17 DEF Dies, InsertRow, dbVars
<1>18. ASSUME NEW w \in Pollers,
             InsertClashes(w)
      PROVE  Dies(s)
  BY <1>18 DEF Dies, InsertClashes, dbVars
<1>19. ASSUME NEW w \in Pollers,
             ReadBack(w)
      PROVE  Dies(s)
  BY <1>19 DEF Dies, ReadBack, dbVars
<1>20. ASSUME NEW w \in Pollers,
             MarkFetched(w)
      PROVE  Dies(s)
  BY <1>1, <1>20 DEF Dies, MarkFetched
<1>21. ASSUME NEW w \in Pollers,
             SettingFails(w)
      PROVE  Dies(s)
  BY <1>21 DEF Dies, SettingFails, dbVars
<1>22. ASSUME NEW w \in Pollers,
             SaveFails(w)
      PROVE  Dies(s)
  BY <1>22 DEF Dies, SaveFails, dbVars
<1>23. ASSUME NEW w \in Pollers,
             MarkFails(w)
      PROVE  Dies(s)
  BY <1>23 DEF Dies, MarkFails, dbVars
<1>24. ASSUME NEW w \in Workers,
             MarkSubmitting(w)
      PROVE  Dies(s)
  BY <1>24 DEF Dies, MarkSubmitting, dbVars
<1>25. ASSUME NEW w \in Workers, NEW result \in {"submitted", "failed"},
             Submit(w, result)
      PROVE  Dies(s)
  BY <1>25 DEF Dies, Submit, dbVars
<1>26. CASE Crash
  BY <1>26 DEF Dies, Crash, dbVars
<1>27. CASE UNCHANGED vars
  BY <1>27 DEF Dies, vars, dbVars
<1> QED
  BY <1>2, <1>3, <1>4, <1>5, <1>6, <1>7, <1>8, <1>9, <1>10, <1>11, <1>12, <1>13, <1>14, <1>15,
     <1>16, <1>17, <1>18, <1>19, <1>20, <1>21, <1>22, <1>23, <1>24, <1>25, <1>26, <1>27
     DEF Next, Administration, SchedulerStep, PollStep, Fetch, Save, SubmitStep, ClickItems

LEMMA NextGone ==
  ASSUME PInv, [Next]_vars, NEW s \in Subs, Gone(s)
  PROVE  Gone(s)'
<1> SUFFICES ASSUME sub'[s].is = "deleted", s \notin overlap'
             PROVE  /\ \A w \in Workers : ~Holds(w, s)'
                    /\ \A e \in Own(s) : item'[e] = "absent" /\ e \notin tasks'
  BY DEF Gone, Own
<1>1. s \notin overlap
  BY OnlyDeletionDeletes DEF Dies
<1>2. CASE sub[s].is = "deleted"
  <2>1. /\ \A w \in Workers : ~Holds(w, s)
        /\ \A e \in Own(s) : item[e] = "absent" /\ e \notin tasks
    BY <1>1, <1>2 DEF Gone
  <2>2. Quiet(s)
    BY <1>2, <2>1, StaysQuiet
  <2> QED
    BY <2>1, <2>2 DEF Quiet
<1>3. CASE sub[s].is # "deleted"
  <2>1. DeleteSubscription(s)
    BY <1>3, OnlyDeletionDeletes DEF Dies
  <2>2. \A w \in Workers : ~Holds(w, s)
    BY <1>1, <2>1 DEF DeleteSubscription
  <2>3. \A w \in Workers : ~Holds(w, s)'
    BY <2>1, <2>2 DEF DeleteSubscription, Holds
  <2>4. \A e \in Own(s) : item'[e] = "absent" /\ e \notin tasks'
    BY <2>1 DEF DeleteSubscription, Own
  <2> QED
    BY <2>3, <2>4
<1> QED
  BY <1>2, <1>3

-----------------------------------------------------------------------------
(* The theorems.                                                           *)

LEMMA Inductive ==
  /\ Init => IInv
  /\ IInv /\ [Next]_vars => IInv'
<1>1. Init => IInv
  <2> SUFFICES ASSUME Init PROVE IInv
    OBVIOUS
  <2>1. \A s \in Subs : Gone(s)
    BY DEF Init, Gone
  <2> QED
    BY <2>1, InitPInv DEF IInv, PInv
<1>2. ASSUME IInv, [Next]_vars PROVE IInv'
  <2>1. PInv /\ \A s \in Subs : Gone(s)
    BY <1>2 DEF IInv, PInv
  <2>2. PInv'
    BY <1>2, <2>1, NextPInv
  <2>3. \A s \in Subs : Gone(s)'
    BY <1>2, <2>1, NextGone
  <2> QED
    BY <2>2, <2>3 DEF IInv, PInv
<1> QED
  BY <1>1, <1>2

\* Every worker is on the path its place says, with what it has read of the rows.
THEOREM Invariance == Spec => []IInv
BY Inductive, PTL DEF Spec

\* Rows and snapshots keep their types, for any subscriptions, entries, rules and
\* workers.
THEOREM TypeCorrect == Spec => []TypeOK
<1>1. IInv => TypeOK
  BY DEF IInv
<1> QED
  BY <1>1, Invariance, PTL

\* A poll that is about to record success has stored every entry it fetched,
\* whoever else stored some of them meanwhile (service.go, PollSubscription).
THEOREM Saved == Spec => []SavedBeforeMarked
<1>1. IInv => SavedBeforeMarked
  <2> SUFFICES ASSUME IInv, NEW w \in Pollers, job[w].at = "mark", ~job[w].err,
                      Live(job[w].cur), NEW e \in job[w].got
               PROVE  item[e] # "absent"
    BY DEF SavedBeforeMarked
  <2>1. job[w] \in Job /\ OnPath(w) /\ Stored(w)
    BY DEF IInv, TypeOK, Workers, Pollers
  <2>2. e \in Entries /\ e # NoEntry
    BY <2>1, FeedsAssumption DEF Job
  <2> QED
    BY <2>1, <2>2 DEF OnPath, Stored, Polling
<1> QED
  BY <1>1, Invariance, PTL

\* A subscription deleted while nobody is busy with it leaves no row, then or
\* later (store.go, DeleteSubscription).
THEOREM Swept == Spec => []NothingLeftBehind
<1>1. IInv => NothingLeftBehind
  BY DEF IInv, Gone, NothingLeftBehind
<1> QED
  BY <1>1, Invariance, PTL

\* Once nobody is busy with a deleted subscription, nobody ever is again, and
\* the rows left of it are not touched.
THEOREM Quieted == Spec => DeletedIsQuiet
<1>1. ASSUME IInv, [Next]_vars
      PROVE  [\A s \in Subs : sub[s].is = "deleted" /\ (\A w \in Workers : ~Holds(w, s))
                => /\ \A w \in Workers : ~Holds(w, s)'
                   /\ \A e \in Own(s) : item'[e] = item[e] /\ (e \in tasks' <=> e \in tasks)]_vars
  <2>1. PInv
    BY <1>1 DEF IInv, PInv
  <2> QED
    BY <1>1, <2>1, StaysQuiet DEF Quiet
<1> QED
  BY <1>1, Invariance, PTL DEF Spec, DeletedIsQuiet

Kept(e) == item[e] \notin {"absent", "pending", "preview", "skipped"}
             => item'[e] \notin {"pending", "preview", "skipped"}

LEMMA NeverBack == ASSUME IInv, [Next]_vars, NEW e \in Entries PROVE Kept(e)
<1>1. item \in [Entries -> ItemStatus]
  BY DEF IInv, TypeOK
<1>2. ASSUME NEW s \in Subs,
             ComesDue(s)
      PROVE  Kept(e)
  BY <1>2 DEF ComesDue, Kept, dbVars
<1>3. ASSUME NEW s \in Subs, NEW on \in BOOLEAN, NEW rules \in Keywords,
             CreateSubscription(s, on, rules)
      PROVE  Kept(e)
  BY <1>3 DEF CreateSubscription, Kept, dbVars
<1>4. ASSUME NEW s \in Subs, NEW on \in BOOLEAN, NEW due \in BOOLEAN, NEW rules \in Keywords,
             UpdateSubscription(s, on, rules, due)
      PROVE  Kept(e)
  BY <1>4 DEF UpdateSubscription, Kept, dbVars
<1>5. ASSUME NEW s \in Subs,
             DeleteSubscription(s)
      PROVE  Kept(e)
  BY <1>1, <1>5 DEF DeleteSubscription, Kept
<1>6. CASE ListDue
  BY <1>6 DEF ListDue, Kept, dbVars
<1>7. ASSUME NEW s \in Subs,
             TakeDue(s)
      PROVE  Kept(e)
  BY <1>7 DEF TakeDue, Kept, dbVars
<1>8. CASE DueDone
  BY <1>8 DEF DueDone, Kept, dbVars
<1>9. CASE ListPending
  BY <1>9 DEF ListPending, Kept, dbVars
<1>10. ASSUME NEW x \in Entries,
             TakePending(x)
      PROVE  Kept(e)
  BY <1>10 DEF TakePending, Kept, dbVars
<1>11. ASSUME NEW w \in Refreshers, NEW s \in Subs,
             Refresh(w, s)
      PROVE  Kept(e)
  BY <1>11 DEF Refresh, Kept, dbVars
<1>12. ASSUME NEW w \in Clicks, NEW x \in Entries,
             Click(w, x)
      PROVE  Kept(e)
  BY <1>12 DEF Click, Kept, dbVars
<1>13. ASSUME NEW w \in Pollers, NEW s \in Subs, NEW offered \in SUBSET Own(s),
             FetchOK(w, s, offered)
      PROVE  Kept(e)
  BY <1>13 DEF FetchOK, Kept, dbVars
<1>14. ASSUME NEW w \in Pollers,
             FetchFails(w)
      PROVE  Kept(e)
  BY <1>14 DEF FetchFails, Kept, dbVars
<1>15. ASSUME NEW w \in Pollers, NEW x \in Entries,
             Lookup(w, x)
      PROVE  Kept(e)
  BY <1>15 DEF Lookup, Kept, dbVars
<1>16. ASSUME NEW w \in Pollers,
             UpdateRow(w)
      PROVE  Kept(e)
  BY <1>16 DEF UpdateRow, Kept, dbVars
<1>17. ASSUME NEW w \in Pollers,
             InsertRow(w)
      PROVE  Kept(e)
  BY <1>1, <1>17 DEF InsertRow, Kept
<1>18. ASSUME NEW w \in Pollers,
             InsertClashes(w)
      PROVE  Kept(e)
  BY <1>18 DEF InsertClashes, Kept, dbVars
<1>19. ASSUME NEW w \in Pollers,
             ReadBack(w)
      PROVE  Kept(e)
  BY <1>19 DEF ReadBack, Kept, dbVars
<1>20. ASSUME NEW w \in Pollers,
             MarkFetched(w)
      PROVE  Kept(e)
  BY <1>20 DEF MarkFetched, Kept, dbVars
<1>21. ASSUME NEW w \in Pollers,
             SettingFails(w)
      PROVE  Kept(e)
  BY <1>21 DEF SettingFails, Kept, dbVars
<1>22. ASSUME NEW w \in Pollers,
             SaveFails(w)
      PROVE  Kept(e)
  BY <1>22 DEF SaveFails, Kept, dbVars
<1>23. ASSUME NEW w \in Pollers,
             MarkFails(w)
      PROVE  Kept(e)
  BY <1>23 DEF MarkFails, Kept, dbVars
<1>24. ASSUME NEW w \in Workers,
             MarkSubmitting(w)
      PROVE  Kept(e)
  BY <1>1, <1>24 DEF MarkSubmitting, Kept, SetStatus
<1>25. ASSUME NEW w \in Workers, NEW result \in {"submitted", "failed"},
             Submit(w, result)
      PROVE  Kept(e)
  BY <1>1, <1>25 DEF Submit, Kept, SetStatus
<1>26. CASE Crash
  BY <1>26 DEF Crash, Kept, dbVars
<1>27. CASE UNCHANGED vars
  BY <1>27 DEF vars, dbVars, Kept
<1> QED
  BY <1>2, <1>3, <1>4, <1>5, <1>6, <1>7, <1>8, <1>9, <1>10, <1>11, <1>12, <1>13, <1>14, <1>15,
     <1>16, <1>17, <1>18, <1>19, <1>20, <1>21, <1>22, <1>23, <1>24, <1>25, <1>26, <1>27
     DEF Next, Administration, SchedulerStep, PollStep, Fetch, Save, SubmitStep, ClickItems

\* No poll puts an entry that was handed to aria2, or failed, back in the queue
\* as if it were new (store.go, SaveFeedItems).
THEOREM NeverRequeued == Spec => PollNeverRequeues
<1>1. ASSUME IInv, [Next]_vars
      PROVE  [\A e \in Entries : item[e] \notin {"absent", "pending", "preview", "skipped"}
                => item'[e] \notin {"pending", "preview", "skipped"}]_vars
  BY <1>1, NeverBack DEF Kept
<1> QED
  BY <1>1, Invariance, PTL DEF Spec, PollNeverRequeues

=============================================================================
