-------------------------- MODULE NotifyBatchProofs --------------------------
(***************************************************************************)
(* NotifyBatch keeps its types, puts no notification into two messages and *)
(* never leaves a batch without a timer, for any number of notifications   *)
(* and flushes, whatever the settings and the crashes.                     *)
(*                                                                         *)
(* SentOnce rests on where a notification can be: with its caller, in the  *)
(* batch, or with one flush, and not sent while it is in any of these.     *)
(***************************************************************************)
EXTENDS NotifyBatch, TLAPS

\* Nobody shares what is held.
Apart == /\ \A m, n \in Notes : m # n => held[m] \cap held[n] = {}
         /\ \A n \in Notes : held[n] \cap batch = {}

\* What is held or waits has not been sent.
Unsent == /\ \A n \in batch : sent[n] = 0
          /\ \A m \in Notes : \A n \in held[m] : sent[n] = 0

\* A caller that has not passed its notification on is the only one with it.
Fresh == \A n \in Notes : go[n] \in {"new", "queue"} =>
  sent[n] = 0 /\ n \notin batch /\ \A m \in Notes : n \notin held[m]

\* Only a goroutine that is about to send holds anything.
HoldersSend == \A n \in Notes :
  held[n] # {} => go[n] \in {"direct", "config", "complete", "fail"}

\* The timer on record can still run its flush, and a batch has one.
TimerOnRecord == /\ current \in Notes => go[current] \in {"armed", "fired"}
                 /\ batch # {} => current \in Notes

\* As long as no timer fired too early to be stopped there is no other timer.
OneTimer == ~raced => \A n \in Notes : go[n] \in {"armed", "fired"} => n = current

\* The inductive invariant.
IInv == /\ TypeOK /\ Apart /\ Unsent /\ Fresh /\ HoldersSend /\ SentOnce
        /\ TimerOnRecord /\ OneTimer

-----------------------------------------------------------------------------

\* The first state satisfies the invariant.
LEMMA InitInv == Init => IInv
<1> SUFFICES ASSUME Init PROVE IInv
  OBVIOUS
<1>1. TypeOK
  BY DEF Init, TypeOK, Places, Config, Unread
<1>2. Apart /\ Unsent /\ Fresh /\ HoldersSend /\ SentOnce
  BY DEF Init, Apart, Unsent, Fresh, HoldersSend, SentOnce
<1>3. TimerOnRecord /\ OneTimer
  BY NotifyAssumption DEF Init, TimerOnRecord, OneTimer
<1> QED BY <1>1, <1>2, <1>3 DEF IInv

\* The count of faults stays a number.
LEMMA FaultType == ASSUME faults \in Nat, Fault \/ Calm PROVE faults' \in Nat
BY DEF Fault, Calm

\* Queueing: a note moves from its caller to the batch or to nobody else.
LEMMA AskStep == ASSUME IInv, NEW n \in Notes, Ask(n) PROVE IInv'
<1>1. faults' \in Nat
  BY FaultType DEF Ask, IInv, TypeOK
<1>2. CASE UNCHANGED <<read, held, dropped>> /\ go' = [go EXCEPT ![n] = "queue"]
  BY <1>1, <1>2 DEF Ask, IInv, TypeOK, Apart, Unsent, Fresh, HoldersSend, SentOnce,
     TimerOnRecord, OneTimer, Places
<1>3. CASE /\ go' = [go EXCEPT ![n] = "direct"] /\ read' = [read EXCEPT ![n] = cfg]
           /\ held' = [held EXCEPT ![n] = {n}] /\ UNCHANGED dropped
  <2>1. TypeOK'
    BY <1>1, <1>3 DEF Ask, IInv, TypeOK, Places
  <2>2. Apart' /\ Unsent' /\ Fresh'
    BY <1>3 DEF Ask, IInv, TypeOK, Apart, Unsent, Fresh
  <2>3. HoldersSend' /\ SentOnce' /\ TimerOnRecord' /\ OneTimer'
    BY <1>3 DEF Ask, IInv, TypeOK, HoldersSend, SentOnce, TimerOnRecord,
       OneTimer
  <2> QED BY <2>1, <2>2, <2>3 DEF IInv
<1>4. CASE /\ go' = [go EXCEPT ![n] = "over"] /\ dropped' = dropped \cup {n}
           /\ UNCHANGED <<read, held>>
  BY <1>1, <1>4 DEF Ask, IInv, TypeOK, Apart, Unsent, Fresh, HoldersSend, SentOnce,
     TimerOnRecord, OneTimer, Places
<1> QED BY <1>2, <1>3, <1>4 DEF Ask

\* Joining the batch stops the old timer and leaves one for the new batch.
LEMMA AppendStep == ASSUME IInv, NEW n \in Notes, Append(n) PROVE IInv'
<1>1. /\ go' \in [Notes -> Places] /\ go'[n] = "armed"
      /\ \A m \in Notes \ {n} : go'[m] = go[m] \/ (go[m] = "armed" /\ go'[m] = "over")
  BY DEF Append, Stopped, IInv, TypeOK, Places
<1>2. TypeOK'
  BY <1>1 DEF Append, Calm, IInv, TypeOK
<1>3. Apart' /\ Unsent' /\ Fresh'
  BY <1>1 DEF Append, IInv, TypeOK, Apart, Unsent, Fresh
<1>4. HoldersSend'
  BY <1>1 DEF Append, IInv, TypeOK, HoldersSend, Fresh
<1>5. OneTimer'
  BY NotifyAssumption, <1>1 DEF Append, Stopped, IInv, TypeOK, OneTimer, TimerOnRecord
<1> QED BY <1>1, <1>2, <1>3, <1>4, <1>5 DEF Append, IInv, SentOnce, TimerOnRecord

\* A timer that fires is still on record.
LEMMA FireStep == ASSUME IInv, NEW n \in Notes, Fire(n) PROVE IInv'
BY DEF Fire, Calm, IInv, TypeOK, Apart, Unsent, Fresh, HoldersSend, SentOnce,
   TimerOnRecord, OneTimer, Places

\* A flush takes the whole batch, so no two flushes have the same note.
LEMMA TakeStep == ASSUME IInv, NEW n \in Notes, Take(n) PROVE IInv'
<1>1. held[n] = {}
  BY DEF Take, IInv, HoldersSend
<1>2. TypeOK'
  BY DEF Take, Left, Calm, IInv, TypeOK, Places
<1>3. Apart' /\ Unsent' /\ Fresh'
  BY <1>1 DEF Take, Left, IInv, TypeOK, Apart, Unsent, Fresh
<1>4. HoldersSend' /\ SentOnce' /\ TimerOnRecord' /\ OneTimer'
  BY NotifyAssumption DEF Take, Left, IInv, TypeOK, HoldersSend, SentOnce, TimerOnRecord,
     OneTimer
<1> QED BY <1>2, <1>3, <1>4 DEF IInv

\* A goroutine that sends or gives up some of what it holds keeps the rest.
LEMMA HolderStep ==
  ASSUME IInv, NEW n \in Notes, NEW S \in SUBSET held[n], NEW p \in {"complete", "fail", "over"},
         go[n] \in {"direct", "config", "complete", "fail"},
         go' = [go EXCEPT ![n] = p],
         held' = [held EXCEPT ![n] = held[n] \ S],
         p = "over" => held'[n] = {},
         \/ UNCHANGED sent
         \/ sent' = [m \in Notes |-> IF m \in S THEN sent[m] + 1 ELSE sent[m]],
         UNCHANGED <<batch, current, raced>>
  PROVE  Apart' /\ Unsent' /\ Fresh' /\ HoldersSend' /\ SentOnce' /\ TimerOnRecord' /\ OneTimer'
<1>1. held'[n] = held[n] \ S /\ \A m \in Notes \ {n} : held'[m] = held[m]
  BY DEF IInv, TypeOK
<1>2. /\ \A m \in S : sent[m] = 0 /\ (sent'[m] = 0 \/ sent'[m] = 1)
      /\ \A m \in Notes \ S : sent'[m] = sent[m]
  BY DEF IInv, TypeOK, Unsent
<1>3. Apart'
  BY <1>1 DEF IInv, TypeOK, Apart
<1>4. Unsent'
  <2>1. ASSUME NEW m \in batch' PROVE sent'[m] = 0
    BY <1>2, <2>1 DEF IInv, TypeOK, Apart, Unsent
  <2>2. ASSUME NEW m \in Notes, NEW k \in held'[m] PROVE sent'[k] = 0
    BY <1>1, <1>2, <2>2 DEF IInv, TypeOK, Apart, Unsent
  <2> QED BY <2>1, <2>2 DEF Unsent
<1>5. Fresh'
  BY <1>1, <1>2 DEF IInv, TypeOK, Fresh
<1>6. HoldersSend' /\ TimerOnRecord' /\ OneTimer'
  BY <1>1 DEF IInv, TypeOK, HoldersSend, TimerOnRecord, OneTimer
<1>7. SentOnce'
  BY <1>2 DEF IInv, TypeOK, SentOnce
<1> QED BY <1>3, <1>4, <1>5, <1>6, <1>7

\* A flush keeps all it has taken or gives all of it up.
LEMMA ReadConfigStep == ASSUME IInv, NEW n \in Notes, ReadConfig(n) PROVE IInv'
<1>1. faults' \in Nat
  BY FaultType DEF ReadConfig, IInv, TypeOK
<1>2. TypeOK'
  BY <1>1 DEF ReadConfig, IInv, TypeOK, Places
<1>3. \E S \in SUBSET held[n], p \in {"complete", "fail", "over"} :
         /\ go' = [go EXCEPT ![n] = p] /\ held' = [held EXCEPT ![n] = held[n] \ S]
         /\ p = "over" => held'[n] = {}
  <2>1. CASE go' = [go EXCEPT ![n] = "complete"] /\ UNCHANGED held
    <3>1. held' = [held EXCEPT ![n] = held[n] \ {}]
      BY <2>1 DEF IInv, TypeOK
    <3> QED BY <2>1, <3>1
  <2>2. CASE go' = [go EXCEPT ![n] = "over"] /\ held' = [held EXCEPT ![n] = {}]
    <3>1. held' = [held EXCEPT ![n] = held[n] \ held[n]] /\ held'[n] = {}
      BY <2>2 DEF IInv, TypeOK
    <3> QED BY <2>2, <3>1
  <2> QED BY <2>1, <2>2 DEF ReadConfig
<1> QED BY <1>2, <1>3, HolderStep DEF ReadConfig, IInv

\* What Deliver does to the variables.
LEMMA DeliverTypes ==
  ASSUME IInv, NEW n \in Notes, NEW S \in SUBSET held[n], Deliver(n, S)
  PROVE  /\ faults' \in Nat /\ dropped' \subseteq Notes
         /\ held' \in [Notes -> SUBSET Notes] /\ sent' \in [Notes -> Nat]
         /\ held' = [held EXCEPT ![n] = held[n] \ S]
         /\ \/ UNCHANGED sent
            \/ sent' = [m \in Notes |-> IF m \in S THEN sent[m] + 1 ELSE sent[m]]
<1>1. S \subseteq Notes
  BY DEF IInv, TypeOK
<1>2. faults' \in Nat
  BY FaultType DEF Deliver, IInv, TypeOK
<1> QED BY <1>1, <1>2 DEF Deliver, IInv, TypeOK

\* A single notification leaves the hands of its caller.
LEMMA SendDirectStep == ASSUME IInv, NEW n \in Notes, SendDirect(n) PROVE IInv'
<1>1. /\ faults' \in Nat /\ dropped' \subseteq Notes
      /\ held' \in [Notes -> SUBSET Notes] /\ sent' \in [Notes -> Nat]
      /\ held' = [held EXCEPT ![n] = held[n] \ held[n]] /\ held'[n] = {}
      /\ \/ UNCHANGED sent
         \/ sent' = [m \in Notes |-> IF m \in held[n] THEN sent[m] + 1 ELSE sent[m]]
  BY DeliverTypes DEF SendDirect, IInv, TypeOK
<1>2. TypeOK'
  BY <1>1 DEF SendDirect, IInv, TypeOK, Places, Config, Unread
<1>3. Apart' /\ Unsent' /\ Fresh' /\ HoldersSend' /\ SentOnce' /\ TimerOnRecord' /\ OneTimer'
  BY <1>1, HolderStep DEF SendDirect
<1> QED BY <1>2, <1>3 DEF IInv

\* Completions are sent and failures kept.
LEMMA SendCompleteStep == ASSUME IInv, NEW n \in Notes, SendComplete(n) PROVE IInv'
<1> DEFINE S == held[n] \ FailNotes
<1>1. go[n] = "complete" /\ go' = [go EXCEPT ![n] = "fail"]
  BY DEF SendComplete, AfterComplete
<1>2. /\ faults' \in Nat /\ dropped' \subseteq Notes
      /\ held' \in [Notes -> SUBSET Notes] /\ sent' \in [Notes -> Nat]
      /\ held' = [held EXCEPT ![n] = held[n] \ S]
      /\ \/ UNCHANGED sent
         \/ sent' = [m \in Notes |-> IF m \in S THEN sent[m] + 1 ELSE sent[m]]
  <2>1. CASE S # {} /\ Deliver(n, S)
    BY <2>1, DeliverTypes
  <2>2. CASE S = {} /\ Calm /\ UNCHANGED <<sent, dropped, held>>
    BY <2>2, FaultType DEF IInv, TypeOK
  <2> QED BY <2>1, <2>2 DEF SendComplete
<1>3. TypeOK'
  BY <1>1, <1>2 DEF SendComplete, IInv, TypeOK, Places
<1>4. Apart' /\ Unsent' /\ Fresh' /\ HoldersSend' /\ SentOnce' /\ TimerOnRecord' /\ OneTimer'
  BY <1>1, <1>2, HolderStep DEF SendComplete
<1> QED BY <1>3, <1>4 DEF IInv

\* What is left is sent or given up.
LEMMA SendFailStep == ASSUME IInv, NEW n \in Notes, SendFail(n) PROVE IInv'
<1>1. /\ faults' \in Nat /\ dropped' \subseteq Notes
      /\ held' \in [Notes -> SUBSET Notes] /\ sent' \in [Notes -> Nat]
      /\ held' = [held EXCEPT ![n] = held[n] \ held[n]] /\ held'[n] = {}
      /\ \/ UNCHANGED sent
         \/ sent' = [m \in Notes |-> IF m \in held[n] THEN sent[m] + 1 ELSE sent[m]]
  <2>1. CASE Deliver(n, held[n])
    BY <2>1, DeliverTypes DEF IInv, TypeOK
  <2>2. CASE /\ dropped' = dropped \cup held[n] /\ held' = [held EXCEPT ![n] = {}]
             /\ Calm /\ UNCHANGED sent
    BY <2>2, FaultType DEF IInv, TypeOK
  <2> QED BY <2>1, <2>2 DEF SendFail
<1>2. TypeOK'
  BY <1>1 DEF SendFail, IInv, TypeOK, Places, Config, Unread
<1>3. Apart' /\ Unsent' /\ Fresh' /\ HoldersSend' /\ SentOnce' /\ TimerOnRecord' /\ OneTimer'
  BY <1>1, HolderStep DEF SendFail
<1> QED BY <1>2, <1>3 DEF IInv

\* Settings are not part of the invariant.
LEMMA SettingStep == ASSUME IInv, NEW c \in Config, SetSetting(c) PROVE IInv'
BY DEF SetSetting, Calm, IInv, TypeOK, Apart, Unsent, Fresh, HoldersSend, SentOnce,
   TimerOnRecord, OneTimer

\* A crash leaves nothing in the hands of anybody.
LEMMA CrashStep == ASSUME IInv, Crash PROVE IInv'
<1>1. TypeOK'
  BY FaultType DEF Crash, IInv, TypeOK, Places, Config, Unread
<1>2. Apart' /\ Unsent' /\ HoldersSend' /\ SentOnce'
  BY DEF Crash, IInv, Apart, Unsent, HoldersSend, SentOnce
<1>3. Fresh'
  BY DEF Crash, IInv, TypeOK, Fresh
<1>4. TimerOnRecord' /\ OneTimer'
  BY NotifyAssumption DEF Crash, TimerOnRecord, OneTimer
<1> QED BY <1>1, <1>2, <1>3, <1>4 DEF IInv

-----------------------------------------------------------------------------

\* IInv holds in every reachable state.
THEOREM Invariance == Spec => []IInv
<1>1. IInv /\ [Next]_vars => IInv'
  <2> SUFFICES ASSUME IInv, [Next]_vars PROVE IInv'
    OBVIOUS
  <2>1. ASSUME NEW n \in Notes, Ask(n) \/ Fire(n) \/ Step(n) PROVE IInv'
    BY <2>1, AskStep, FireStep, AppendStep, TakeStep, ReadConfigStep, SendDirectStep,
       SendCompleteStep, SendFailStep DEF Step
  <2>2. CASE UNCHANGED vars
    BY <2>2 DEF vars, IInv, TypeOK, Apart, Unsent, Fresh, HoldersSend, SentOnce, TimerOnRecord,
       OneTimer
  <2> QED BY <2>1, <2>2, SettingStep, CrashStep DEF Next
<1> QED BY InitInv, <1>1, PTL DEF Spec

\* The variables keep their types (service.go:28-31).
THEOREM TypeCorrect == Spec => []TypeOK
<1>1. IInv => TypeOK
  BY DEF IInv
<1> QED BY Invariance, <1>1, PTL

\* No notification is in two messages, however many flushes run
\* (service_notify.go:103-117).
THEOREM NoneTwice == Spec => []SentOnce
<1>1. IInv => SentOnce
  BY DEF IInv
<1> QED BY Invariance, <1>1, PTL

\* What waits in the batch has a timer that is running or whose flush is about
\* to take it (service_notify.go:116).
THEOREM NoneForgotten == Spec => []BatchWillGo
<1>1. IInv => BatchWillGo
  BY DEF IInv, TimerOnRecord, BatchWillGo
<1> QED BY Invariance, <1>1, PTL

\* No batch is taken before its window has passed unless a timer fired just
\* when it was to be stopped (service_notify.go:104).
THEOREM WindowsKept == Spec => WindowKept
<1>1. IInv /\ [Next]_vars => [\A n \in Notes :
        (~raced /\ go[n] = "fired" /\ go'[n] = "config") => n = current]_vars
  BY DEF IInv, OneTimer
<1> QED BY Invariance, <1>1, PTL DEF Spec, WindowKept

=============================================================================
