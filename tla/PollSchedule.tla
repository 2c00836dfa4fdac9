---------------------------- MODULE PollSchedule ----------------------------
(***************************************************************************)
(* When a subscription is polled.  The scheduler asks SubscriptionPollDue, *)
(* the pages show SubscriptionNextPollAt, and the administrator can change *)
(* the schedule or refresh by hand; the two functions are coded apart and  *)
(* have to agree on every row.                                             *)
(*                                                                         *)
(* Time is counted in minutes, the scheduler's tick.  A crontab is the set *)
(* of the minutes it fires at; cron.Schedule.Next returns the zero time    *)
(* when there is none within its horizon (an impossible date).             *)
(***************************************************************************)
EXTENDS Integers

CONSTANTS
  MaxTime,    \* bound: the last minute looked at
  Crontabs,   \* crontabs in use, each a set of minutes
  Intervals,  \* intervals in use, in minutes
  Default,    \* the interval of a request that gives none (30 in the code)
  Width       \* durations are kept in -Width .. Width - 1 (64 bits in the code)

ASSUME ScheduleAssumption ==
  /\ MaxTime \in Nat
  /\ Crontabs \subseteq SUBSET Nat
  /\ Intervals \subseteq Int
  /\ Width \in Nat \ {0}
  /\ Default \in 1 .. Width - 1

VARIABLES
  now,  \* the clock
  row   \* the row of the subscription

vars == <<now, row>>

-----------------------------------------------------------------------------

ZeroTime == 0
Never    == -1   \* last_fetched_at IS NULL

\* is: the expression is empty, does not parse (or its timezone does not), or
\* fires at the minutes of fires.
Cron  == [is : {"none", "bad", "ok"}, fires : SUBSET Nat]
NoCron  == [is |-> "none", fires |-> {}]
BadCron == [is |-> "bad", fires |-> {}]
Row  == [on : BOOLEAN, cron : Cron, interval : Int, created : Nat, fetched : Nat \cup {Never}]

\* time.Duration(n) * time.Minute
Minutes(n) == ((n + Width) % (2 * Width)) - Width

\* cron.Schedule.Next
NextFire(fires, t) == IF \E f \in fires : f > t
                  THEN CHOOSE f \in fires : f > t /\ \A g \in fires : g > t => f <= g
                  ELSE ZeroTime

\* Mutant: a row that was never fetched counts from the zero time.
FirstPollDueFromZero(r, t) ==
  \/ r.cron.is = "ok" /\ NextFire(r.cron.fires, ZeroTime) <= t
  \/ r.cron.is = "none" /\ r.interval > 0 /\ ZeroTime + Minutes(r.interval) <= t

\* SubscriptionPollDue, from created_at while nothing was fetched ...
FirstPollDue(r, t) ==
  /\ r.created # ZeroTime
  /\ \/ r.cron.is = "ok" /\ NextFire(r.cron.fires, r.created) <= t
     \/ r.cron.is = "none" /\ r.interval > 0 /\ r.created + Minutes(r.interval) <= t

\* Mutant: the deadline itself does not count.
NextPollDueLater(r, t) ==
  \/ r.cron.is = "ok" /\ NextFire(r.cron.fires, r.fetched) < t
  \/ r.cron.is = "none" /\ r.interval > 0 /\ r.fetched + Minutes(r.interval) < t

\* ... and from last_fetched_at afterwards.
NextPollDue(r, t) ==
  \/ r.cron.is = "ok" /\ NextFire(r.cron.fires, r.fetched) <= t
  \/ r.cron.is = "none" /\ r.interval > 0 /\ r.fetched + Minutes(r.interval) <= t

SubscriptionPollDue(r, t) == IF r.fetched = Never THEN FirstPollDue(r, t) ELSE NextPollDue(r, t)

Anchor(r) == IF r.fetched = Never THEN r.created ELSE r.fetched

\* SubscriptionNextPollAt: whether there is a next time, and which.
NextKnown(r) == /\ r.fetched = Never => r.created # ZeroTime
                /\ r.cron.is = "ok" \/ (r.cron.is = "none" /\ r.interval > 0)
NextPollAt(r) == IF r.cron.is = "ok" THEN NextFire(r.cron.fires, Anchor(r))
                 ELSE Anchor(r) + Minutes(r.interval)

\* validatePollSchedule
Valid(cron, interval) == cron.is = "ok" \/ (cron.is = "none" /\ interval > 0)

\* ApplySubscriptionNextPoll, PreviewSubscriptionNextPoll: the time on the
\* pages, if the schedule is valid and there is a next time.
Shown(r) == Valid(r.cron, r.interval) /\ NextKnown(r)

\* subscriptionInput.toSubscription
Requested(interval) == IF interval <= 0 THEN Default ELSE interval

-----------------------------------------------------------------------------

TypeOK == now \in Nat /\ row \in Row

Schedules == {NoCron, BadCron} \cup {[is |-> "ok", fires |-> c] : c \in Crontabs}

\* The row is new, or was stored before schedules were validated.
Init ==
  /\ now = 1
  /\ \E on \in BOOLEAN, cron \in Schedules, interval \in Intervals :
       row = [on |-> on, cron |-> cron, interval |-> interval, created |-> now, fetched |-> Never]

Tick ==
  /\ now < MaxTime
  /\ now' = now + 1
  /\ UNCHANGED row

\* DueSubscriptions selects the row and its poll ends, well or not, within the minute.
\* A poll that cannot read the proxy setting or write the row leaves it as it was
\* and comes again in the next round: a step that changes nothing.
Poll ==
  /\ row.on /\ SubscriptionPollDue(row, now)
  /\ row' = [row EXCEPT !.fetched = now]
  /\ UNCHANGED now

\* A refresh by hand asks no schedule.
Refresh ==
  /\ row' = [row EXCEPT !.fetched = now]
  /\ UNCHANGED now

\* UpdateSubscription leaves created_at and last_fetched_at as they are.
Update(on, cron, interval) ==
  /\ Valid(cron, Requested(interval))
  /\ row' = [row EXCEPT !.on = on, !.cron = cron, !.interval = Requested(interval)]
  /\ UNCHANGED now

Next == \/ Tick \/ Poll \/ Refresh
        \/ \E on \in BOOLEAN, cron \in Schedules, interval \in Intervals : Update(on, cron, interval)

Spec == Init /\ [][Next]_vars

-----------------------------------------------------------------------------
(* Properties.                                                             *)

\* A row is due exactly when the next time shown to the user has come.
DueAgrees == SubscriptionPollDue(row, now) <=> (Shown(row) /\ NextPollAt(row) <= now)

\* A new row is not polled at once, and a row is not polled twice in one
\* minute, if its crontab fires again and its interval fits a duration.
Regular(r) == IF r.cron.is = "ok" THEN \E f \in r.cron.fires : f > now
              ELSE r.interval < Width
JustTouched(r) == r.fetched = now \/ (r.fetched = Never /\ r.created = now)
NotAtOnce == JustTouched(row) /\ Regular(row) => ~SubscriptionPollDue(row, now)

=============================================================================
