----------------------------- MODULE NotifyBatch -----------------------------
(***************************************************************************)
(* Feishu notifications.  Ends of downloads are announced by the goroutine *)
(* that records them: at once, or in a batch that a timer sends when no    *)
(* new notification has come for a while.  Every notification of a batch   *)
(* stops the timer and starts another, whose function runs in a goroutine  *)
(* of its own; a timer that has fired can no longer be stopped.            *)
(*                                                                         *)
(* A notification starts at most one timer, so goroutine n is the caller   *)
(* that queues notification n and later the flush that its timer runs.     *)
(***************************************************************************)
EXTENDS Naturals

CONSTANTS
  Notes,       \* notifications, each queued once
  FailNotes,   \* those of failed downloads
  NoTimer,     \* feishuBatchTimer is nil
  MaxEdits,    \* bound: settings that a user changes
  MaxFaults    \* bound: crashes, failed reads of the settings, refused messages

ASSUME NotifyAssumption ==
  /\ FailNotes \subseteq Notes /\ NoTimer \notin Notes
  /\ MaxEdits \in Nat /\ MaxFaults \in Nat

VARIABLES
  cfg,       \* the settings in the database
  go,        \* go[n]: where goroutine n stands
  read,      \* read[n]: the settings goroutine n works with
  held,      \* held[n]: the notifications it has taken out of the batch
  batch,     \* feishuBatchComplete and feishuBatchFail
  current,   \* feishuBatchTimer: the notification that started it, or NoTimer
  sent,      \* sent[n]: messages that announced n
  edits, faults,
  dropped,   \* history: notifications given up, by a setting or a fault
  raced      \* history: a timer was to be stopped that had fired

vars == <<cfg, go, read, held, batch, current, sent, edits, faults, dropped, raced>>

-----------------------------------------------------------------------------

\* Where notifications go: off is no notify_type, blank a webhook without URL,
\* nobody an API without recipients.
Config == [route : {"off", "blank", "nobody", "ok"}, fails : BOOLEAN, window : BOOLEAN]
Unread == [route |-> "off", fails |-> FALSE, window |-> FALSE]

Places == {"new", "queue", "direct", "armed", "fired", "config", "complete", "fail", "over"}

TypeOK ==
  /\ cfg \in Config
  /\ go \in [Notes -> Places]
  /\ read \in [Notes -> Config]
  /\ held \in [Notes -> SUBSET Notes]
  /\ batch \subseteq Notes
  /\ current \in Notes \cup {NoTimer}
  /\ sent \in [Notes -> Nat]
  /\ edits \in Nat /\ faults \in Nat
  /\ dropped \subseteq Notes /\ raced \in BOOLEAN

Init ==
  /\ cfg \in Config
  /\ go = [n \in Notes |-> "new"]
  /\ read = [n \in Notes |-> Unread]
  /\ held = [n \in Notes |-> {}]
  /\ batch = {} /\ current = NoTimer
  /\ sent = [n \in Notes |-> 0]
  /\ edits = 0 /\ faults = 0
  /\ dropped = {} /\ raced = FALSE

\* feishuNotifyEnabled.
Enabled(c) == c.route # "off"

Fault == faults < MaxFaults /\ faults' = faults + 1
Calm  == UNCHANGED faults

-----------------------------------------------------------------------------
(* queueFeishuNotify.                                                      *)

\* The settings decide what becomes of the notification.
Ask(n) ==
  /\ go[n] = "new"
  /\ \/ /\ Enabled(cfg) /\ (n \in FailNotes => cfg.fails) /\ cfg.window
        /\ go' = [go EXCEPT ![n] = "queue"]
        /\ Calm /\ UNCHANGED <<read, held, dropped>>
     \/ /\ Enabled(cfg) /\ (n \in FailNotes => cfg.fails) /\ ~cfg.window
        /\ go' = [go EXCEPT ![n] = "direct"]
        /\ read' = [read EXCEPT ![n] = cfg]
        /\ held' = [held EXCEPT ![n] = {n}]
        /\ Calm /\ UNCHANGED dropped
     \/ /\ \/ (~Enabled(cfg) \/ (n \in FailNotes /\ ~cfg.fails)) /\ Calm
           \/ Fault
        /\ go' = [go EXCEPT ![n] = "over"]
        /\ dropped' = dropped \cup {n}
        /\ UNCHANGED <<read, held>>
  /\ UNCHANGED <<cfg, batch, current, sent, edits, raced>>

\* Mutants: the timer that runs is not stopped; a stopped timer stays around.
StopNone == go
StopKeep == [m \in Notes |-> IF m = current /\ go[m] = "armed" THEN "stopped" ELSE go[m]]
\* Timer.Stop: a timer that has fired is not stopped.
Stopped == [m \in Notes |-> IF m = current /\ go[m] = "armed" THEN "over" ELSE go[m]]

\* Under feishuBatchMu the notification joins the batch and a new timer is
\* started.
Append(n) ==
  /\ go[n] = "queue"
  /\ batch' = batch \cup {n}
  /\ go' = [Stopped EXCEPT ![n] = "armed"]
  /\ current' = n
  /\ raced' = (raced \/ (current # NoTimer /\ go[current] = "fired"))
  /\ Calm
  /\ UNCHANGED <<cfg, read, held, sent, edits, dropped>>

-----------------------------------------------------------------------------
(* flushFeishuBatch.                                                       *)

\* The window has passed: the function waits for feishuBatchMu.
Fire(n) ==
  /\ go[n] = "armed"
  /\ go' = [go EXCEPT ![n] = "fired"]
  /\ Calm
  /\ UNCHANGED <<cfg, read, held, batch, current, sent, edits, dropped, raced>>

\* Mutants: what is taken stays in the batch, or failures do.
LeftAll  == batch
LeftFail == batch \cap FailNotes
\* What a flush leaves in the batch.
Left == {}

\* Under feishuBatchMu the whole batch is taken and the timer is forgotten,
\* whichever it is.
Take(n) ==
  /\ go[n] = "fired"
  /\ go' = [go EXCEPT ![n] = "config"]
  /\ held' = [held EXCEPT ![n] = batch]
  /\ batch' = Left
  /\ current' = NoTimer
  /\ Calm
  /\ UNCHANGED <<cfg, read, sent, edits, dropped, raced>>

\* The settings are read again; without them the batch is given up.
ReadConfig(n) ==
  /\ go[n] = "config"
  /\ \/ /\ Enabled(cfg)
        /\ go' = [go EXCEPT ![n] = "complete"]
        /\ read' = [read EXCEPT ![n] = cfg]
        /\ Calm /\ UNCHANGED <<held, dropped>>
     \/ /\ (~Enabled(cfg) /\ Calm) \/ Fault
        /\ go' = [go EXCEPT ![n] = "over"]
        /\ held' = [held EXCEPT ![n] = {}]
        /\ dropped' = dropped \cup held[n]
        /\ UNCHANGED read
  /\ UNCHANGED <<cfg, batch, current, sent, edits, raced>>

\* deliverFeishuNotify: one message for the notifications of S, to where the
\* settings say; it may be refused.
Deliver(n, S) ==
  /\ \/ /\ read[n].route = "ok"
        /\ sent' = [m \in Notes |-> IF m \in S THEN sent[m] + 1 ELSE sent[m]]
        /\ Calm /\ UNCHANGED dropped
     \/ /\ \/ read[n].route \in {"blank", "nobody"} /\ Calm
           \/ read[n].route = "ok" /\ Fault
        /\ dropped' = dropped \cup S
        /\ UNCHANGED sent
  /\ held' = [held EXCEPT ![n] = @ \ S]

SendDirect(n) ==
  /\ go[n] = "direct"
  /\ Deliver(n, held[n])
  /\ go' = [go EXCEPT ![n] = "over"]
  /\ read' = [read EXCEPT ![n] = Unread]
  /\ UNCHANGED <<cfg, batch, current, edits, raced>>

\* Mutant: failures are sent only when nothing was completed.
AfterCompleteOver(n) == IF held[n] \subseteq FailNotes THEN "fail" ELSE "over"
\* The message about completed downloads is followed by the one about failures.
AfterComplete(n) == "fail"

SendComplete(n) ==
  LET S == held[n] \ FailNotes IN
  /\ go[n] = "complete"
  /\ \/ S # {} /\ Deliver(n, S)
     \/ S = {} /\ Calm /\ UNCHANGED <<sent, dropped, held>>
  /\ go' = [go EXCEPT ![n] = AfterComplete(n)]
  /\ UNCHANGED <<cfg, read, batch, current, edits, raced>>

\* Failures are sent if that is still wanted.
SendFail(n) ==
  /\ go[n] = "fail"
  /\ \/ held[n] # {} /\ read[n].fails /\ Deliver(n, held[n])
     \/ /\ held[n] = {} \/ ~read[n].fails
        /\ dropped' = dropped \cup held[n]
        /\ held' = [held EXCEPT ![n] = {}]
        /\ Calm /\ UNCHANGED sent
  /\ go' = [go EXCEPT ![n] = "over"]
  /\ read' = [read EXCEPT ![n] = Unread]
  /\ UNCHANGED <<cfg, batch, current, edits, raced>>

-----------------------------------------------------------------------------

\* SaveFeishuNotifyConfig writes one setting after the other, and they are read
\* one after the other, so any mix of old and new ones can be met.
SetSetting(c) ==
  /\ edits < MaxEdits
  /\ \/ \E r \in {"off", "blank", "nobody", "ok"} : c = [cfg EXCEPT !.route = r]
     \/ \E b \in BOOLEAN : c \in {[cfg EXCEPT !.fails = b], [cfg EXCEPT !.window = b]}
  /\ cfg' = c /\ edits' = edits + 1
  /\ Calm
  /\ UNCHANGED <<go, read, held, batch, current, sent, dropped, raced>>

\* The process stops and starts again: what waits in memory is lost.
Crash ==
  /\ Fault
  /\ go' = [n \in Notes |-> IF go[n] = "new" THEN "new" ELSE "over"]
  /\ dropped' = dropped \cup {n \in Notes : go[n] = "queue" \/ n \in batch
                                            \/ \E m \in Notes : n \in held[m]}
  /\ held' = [n \in Notes |-> {}]
  /\ batch' = {} /\ current' = NoTimer
  /\ read' = [n \in Notes |-> Unread]
  /\ UNCHANGED <<cfg, sent, edits, raced>>

Step(n) == \/ Append(n) \/ Take(n) \/ ReadConfig(n)
           \/ SendDirect(n) \/ SendComplete(n) \/ SendFail(n)

Next ==
  \/ \E n \in Notes : Ask(n) \/ Fire(n) \/ Step(n)
  \/ \E c \in Config : SetSetting(c)
  \/ Crash

Spec == Init /\ [][Next]_vars

\* A goroutine that can run runs, and a timer that is not stopped fires.
FairSpec == Spec /\ \A n \in Notes : WF_vars(Step(n)) /\ WF_vars(Fire(n))

-----------------------------------------------------------------------------
(* Properties.                                                             *)

\* No notification is in two messages, although several flushes may be under
\* way for one batch (service_notify.go:103-117).
SentOnce == \A n \in Notes : sent[n] <= 1

\* Whenever something waits in the batch, the timer on record is running or
\* its function waits for the lock: no flush forgets a timer that it leaves
\* something to (service_notify.go:116).
BatchWillGo == batch # {} => current \in Notes /\ go[current] \in {"armed", "fired"}

\* A batch is sent when the window has passed since the last notification, as
\* long as no timer has fired just when it was to be stopped
\* (service_notify.go:104).
WindowKept == [][\A n \in Notes :
  (~raced /\ go[n] = "fired" /\ go'[n] = "config") => n = current]_vars

\* A notification that was queued is sent sooner or later, unless the settings
\* no longer want it, the process stops or Feishu refuses it.
Delivered == \A n \in Notes : go[n] = "queue" ~> (sent[n] = 1 \/ n \in dropped)

=============================================================================
