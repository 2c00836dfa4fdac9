-------------------------- MODULE DownloadLifecycle --------------------------
(***************************************************************************)
(* What the service promises of a feed item, without saying how: it waits, *)
(* it is handed to aria2 in attempts of which one is open at a time, an    *)
(* open attempt ends once, with the item, and its end is announced once.   *)
(* There is no aria2 here, no snapshot and no worker.                      *)
(***************************************************************************)
EXTENDS Naturals

CONSTANTS Items, Attempts

VARIABLES
  stage,   \* stage[i]: how far item i has come
  attempt  \* attempt[a]: the item it is for, how it stands and how often its
           \* end was announced

vars == <<stage, attempt>>

Stages  == {"absent", "skipped", "waiting", "submitting", "open", "completed", "failed"}
Unused  == [item |-> 0, state |-> "free", told |-> 0]
Open(i) == {a \in Attempts : attempt[a].item = i /\ attempt[a].state = "open"}

Init ==
  /\ stage = [i \in Items |-> "absent"]
  /\ attempt = [a \in Attempts |-> Unused]

Discover(i, s) ==
  /\ stage[i] = "absent" /\ s \in {"skipped", "waiting"}
  /\ stage' = [stage EXCEPT ![i] = s]
  /\ UNCHANGED attempt

\* Only an item that waits, or whose last attempt failed, is handed over.
Trigger(i) ==
  /\ stage[i] \in {"waiting", "failed"} /\ Open(i) = {}
  /\ stage' = [stage EXCEPT ![i] = "submitting"]
  /\ UNCHANGED attempt

Accept(i, a) ==
  /\ stage[i] = "submitting" /\ Open(i) = {}
  /\ attempt[a] = Unused
  /\ stage' = [stage EXCEPT ![i] = "open"]
  /\ attempt' = [attempt EXCEPT ![a] = [item |-> i, state |-> "open", told |-> 0]]

Refuse(i) ==
  /\ stage[i] = "submitting"
  /\ stage' = [stage EXCEPT ![i] = "failed"]
  /\ UNCHANGED attempt

End(a, end) ==
  /\ attempt[a].state = "open" /\ stage[attempt[a].item] = "open"
  /\ end \in {"completed", "failed"}
  /\ stage' = [stage EXCEPT ![attempt[a].item] = end]
  /\ attempt' = [attempt EXCEPT ![a].state = end]

Announce(a) ==
  /\ attempt[a].state \in {"completed", "failed"} /\ attempt[a].told = 0
  /\ attempt' = [attempt EXCEPT ![a].told = 1]
  /\ UNCHANGED stage

Next ==
  \/ \E i \in Items : \/ \E s \in Stages : Discover(i, s)
                      \/ Trigger(i) \/ Refuse(i)
                      \/ \E a \in Attempts : Accept(i, a)
  \/ \E a \in Attempts : Announce(a) \/ \E end \in Stages : End(a, end)

Spec == Init /\ [][Next]_vars

=============================================================================
