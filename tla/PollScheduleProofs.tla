------------------------ MODULE PollScheduleProofs ------------------------
(***************************************************************************)
(* Proofs about PollSchedule: every row has its type, a row is due exactly *)
(* when the time shown for it has come, and no row is due in the minute it *)
(* was created or polled in, for every set of crontabs and intervals and   *)
(* every width of a duration.                                              *)
(***************************************************************************)
EXTENDS PollSchedule, TLAPS, WellFoundedInduction

-----------------------------------------------------------------------------
(* Arithmetic of the schedule.                                             *)

\* NextFire finds a minute after t, if there is one: the earliest.
LEMMA NextFireIsLater ==
  ASSUME NEW fires \in SUBSET Nat, NEW t \in Nat, NEW f \in fires, f > t
  PROVE  NextFire(fires, t) \in fires /\ NextFire(fires, t) > t
<1> DEFINE Later == {g \in fires : g > t}
<1>1. Later \subseteq Nat /\ Later # {}
  OBVIOUS
<1>2. PICK x \in Later : \A y \in Later : ~(<<y, x>> \in OpToRel(<, Nat))
  BY <1>1, NatLessThanWellFounded, WFMin, Zenon
<1>3. \A y \in Later : x <= y
  <2>1. TAKE y \in Later
  <2>2. x \in Nat /\ y \in Nat
    BY <1>1
  <2>3. ~(y < x)
    BY <1>2, <2>2 DEF OpToRel
  <2> QED
    BY <2>2, <2>3
<1>4. x \in fires /\ x > t /\ \A g \in fires : g > t => x <= g
  BY <1>3
<1>5. \E g \in fires : g > t /\ \A h \in fires : h > t => g <= h
  BY <1>4
<1> QED
  BY <1>5 DEF NextFire

\* A number of minutes that a duration holds is kept as it is.
LEMMA MinutesFit ==
  ASSUME NEW n \in Int, 0 < n, n < Width
  PROVE  Minutes(n) = n
<1>1. Width \in Nat \ {0}
  BY ScheduleAssumption
<1>2. n + Width \in 0 .. 2 * Width - 1
  BY <1>1
<1>3. (n + Width) % (2 * Width) = n + Width
  BY <1>1, <1>2, SMTT(60)
<1> QED
  BY <1>1, <1>3 DEF Minutes

-----------------------------------------------------------------------------
(* The types.                                                              *)

LEMMA SchedulesAreCrons == Schedules \subseteq Cron
<1>1. NoCron \in Cron /\ BadCron \in Cron
  BY DEF Cron, NoCron, BadCron
<1>2. ASSUME NEW c \in Crontabs PROVE [is |-> "ok", fires |-> c] \in Cron
  <2>1. c \in SUBSET Nat
    BY ScheduleAssumption
  <2> QED
    BY <2>1 DEF Cron
<1> QED
  BY <1>1, <1>2 DEF Schedules

\* Created and polled in the past.
Past == /\ row.created \in 1 .. now
        /\ row.fetched \in {Never} \cup (1 .. now)

Inv == TypeOK /\ Past

LEMMA InitInv == Init => Inv
BY ScheduleAssumption, SchedulesAreCrons DEF Init, Inv, TypeOK, Past, Row, Never

LEMMA NextInv == Inv /\ [Next]_vars => Inv'
<1> SUFFICES ASSUME Inv, [Next]_vars PROVE Inv'
  OBVIOUS
<1>1. now \in Nat /\ row \in Row /\ Past
  BY DEF Inv, TypeOK
<1>2. CASE Tick
  BY <1>1, <1>2 DEF Tick, Inv, TypeOK, Past, Row, Never
<1>3. ASSUME row' = [row EXCEPT !.fetched = now], UNCHANGED now
      PROVE  Inv'
  BY <1>1, <1>3 DEF Inv, TypeOK, Past, Row, Never
<1>4. ASSUME NEW on \in BOOLEAN, NEW cron \in Schedules, NEW interval \in Intervals,
             Update(on, cron, interval)
      PROVE  Inv'
  <2>1. cron \in Cron /\ Requested(interval) \in Int
    BY ScheduleAssumption, SchedulesAreCrons DEF Requested
  <2> QED
    BY <1>1, <1>4, <2>1 DEF Update, Inv, TypeOK, Past, Row, Never
<1>5. CASE UNCHANGED vars
  BY <1>1, <1>5 DEF vars, Inv, TypeOK, Past
<1> QED
  BY <1>2, <1>3, <1>4, <1>5 DEF Next, Poll, Refresh

\* The clock and the row have their types in every reachable state, and what
\* the row remembers is past: the guards that protect a row without created_at
\* are never needed for one the code wrote.
THEOREM TypeCorrect == Spec => []Inv
BY InitInv, NextInv, PTL DEF Spec

-----------------------------------------------------------------------------
(* What the schedule promises.                                             *)

\* SubscriptionPollDue and what the pages show agree in every state.
THEOREM DueAlwaysAgrees == Spec => []DueAgrees
<1>1. DueAgrees
  BY DEF DueAgrees, SubscriptionPollDue, FirstPollDue, NextPollDue, Shown, Valid,
         NextKnown, NextPollAt, Anchor
<1> QED
  BY <1>1, PTL

\* A row is not due in the minute it was created or polled in, unless its
\* crontab has no later date or its interval overflows.
LEMMA InvNotAtOnce == Inv => NotAtOnce
<1> SUFFICES ASSUME Inv, JustTouched(row), Regular(row) PROVE ~SubscriptionPollDue(row, now)
  BY DEF NotAtOnce
<1>1. /\ now \in Nat /\ row.interval \in Int /\ row.cron.fires \in SUBSET Nat
      /\ row.created \in Nat
  BY DEF Inv, TypeOK, Row, Cron
<1>2. Anchor(row) = now
  <2>1. now # Never
    BY <1>1 DEF Never
  <2> QED
    BY <2>1 DEF JustTouched, Anchor
<1>3. CASE row.cron.is = "ok"
  <2>1. PICK f \in row.cron.fires : f > now
    BY <1>3 DEF Regular
  <2>2. NextFire(row.cron.fires, now) \in Nat /\ NextFire(row.cron.fires, now) > now
    BY <1>1, <2>1, NextFireIsLater
  <2>3. ~(NextFire(row.cron.fires, now) <= now)
    BY <1>1, <2>2
  <2> QED
    BY <1>2, <1>3, <2>3 DEF SubscriptionPollDue, FirstPollDue, NextPollDue, Anchor
<1>4. CASE row.cron.is = "none" /\ row.interval > 0
  <2>1. Minutes(row.interval) = row.interval
    BY <1>1, <1>4, MinutesFit DEF Regular
  <2>2. ~(now + Minutes(row.interval) <= now)
    BY <1>1, <1>4, <2>1
  <2> QED
    BY <1>2, <1>4, <2>2 DEF SubscriptionPollDue, FirstPollDue, NextPollDue, Anchor
<1> QED
  BY <1>3, <1>4 DEF SubscriptionPollDue, FirstPollDue, NextPollDue

\* The scheduler never polls a regular row twice in one minute, whatever was
\* refreshed or changed by hand.
THEOREM NeverAtOnce == Spec => []NotAtOnce
BY TypeCorrect, InvNotAtOnce, PTL
=============================================================================
