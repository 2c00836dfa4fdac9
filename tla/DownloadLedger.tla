--------------------------- MODULE DownloadLedger ---------------------------
(***************************************************************************)
(* What the service promises with everybody at work: clicks, polling, hooks*)
(* and edits at once.  An attempt has a row and a fate of its own, which   *)
(* only goes on.  A row is closed, perhaps more than once, for an end its  *)
(* fate has come to, together with its item, and each closing is announced *)
(* at most once, by who did it.  There are no gids, no stages of a magnet  *)
(* and no snapshots here.                                                  *)
(***************************************************************************)
EXTENDS Naturals

CONSTANTS Items, Attempts, Reporters

VARIABLES
  stage,    \* stage[i]: what is said of item i
  attempt,  \* attempt[a]: the item it is for, and what its row says
  fate,     \* fate[a]: what has become of its download
  due,      \* <<r, a>>: r has closed a and not announced it yet
  told      \* told[a]: announcements of a

vars == <<stage, attempt, fate, due, told>>

Fates   == [end : {"none", "completed", "failed", "removed"}, forgotten : BOOLEAN]
Unused  == [item |-> 0, state |-> "free"]
Unknown == [end |-> "none", forgotten |-> FALSE]

\* The ends that can be recorded of a download with fate f: what aria2 has
\* forgotten counts as completed.
Ends(f) == {end \in {"completed", "failed"} :
              f.end = end \/ (f.forgotten /\ end = "completed")}

\* What is settled stays settled.
GoesOn(f, g) == f.end \in {"none", g.end} /\ (f.forgotten => g.forgotten)

Known(i) == stage[i] # "absent"
Taken(a) == attempt[a] # Unused

Init ==
  /\ stage = [i \in Items |-> "absent"]
  /\ attempt = [a \in Attempts |-> Unused]
  /\ fate = [a \in Attempts |-> Unknown]
  /\ due = {}
  /\ told = [a \in Attempts |-> 0]

Discover(i) ==
  /\ ~Known(i)
  /\ \E s \in {"skipped", "waiting"} : stage' = [stage EXCEPT ![i] = s]
  /\ UNCHANGED <<told, due, attempt, fate>>

\* A user's edit.
Edit(i) ==
  /\ Known(i)
  /\ \E s \in {"skipped", "waiting", "open"} : stage' = [stage EXCEPT ![i] = s]
  /\ UNCHANGED <<told, due, attempt, fate>>

\* An item is triggered whatever is said of it, and aria2 refuses it.
Trigger(i) ==
  /\ Known(i)
  /\ stage' = [stage EXCEPT ![i] = "submitting"]
  /\ UNCHANGED <<told, due, attempt, fate>>

Refuse(i) ==
  /\ Known(i)
  /\ stage' = [stage EXCEPT ![i] = "failed"]
  /\ UNCHANGED <<told, due, attempt, fate>>

\* The download may have come to its end before it is recorded.
Accept(i, a) ==
  /\ Known(i) /\ ~Taken(a)
  /\ stage' = [stage EXCEPT ![i] = "open"]
  /\ attempt' = [attempt EXCEPT ![a] = [item |-> i, state |-> "open"]]
  /\ \E f \in Fates : fate' = [fate EXCEPT ![a] = f]
  /\ UNCHANGED <<due, told>>

\* A download goes on, and no other with it.
GoOn(a) ==
  /\ UNCHANGED <<told, due, stage, attempt>>
  /\ Taken(a)
  /\ \E f \in Fates : GoesOn(fate[a], f) /\ fate' = [fate EXCEPT ![a] = f]

Close(r, a) ==
  /\ Taken(a)
  /\ \A b \in Attempts : <<r, b>> \notin due
  /\ \E end \in Ends(fate[a]) :
       /\ stage' = [stage EXCEPT ![attempt[a].item] = end]
       /\ attempt' = [attempt EXCEPT ![a].state = end]
  /\ due' = due \cup {<<r, a>>}
  /\ UNCHANGED <<fate, told>>

Announce(r, a) ==
  /\ <<r, a>> \in due
  /\ due' = due \ {<<r, a>>}
  /\ told' = [told EXCEPT ![a] = told[a] + 1]
  /\ UNCHANGED <<stage, attempt, fate>>

\* Reporters that are killed announce nothing.
Silence ==
  /\ UNCHANGED <<told, stage, attempt, fate>>
  /\ \E R \in SUBSET Reporters : due' = {d \in due : d[1] \notin R}

Next ==
  \/ Silence
  \/ \E a \in Attempts : GoOn(a)
  \/ \E i \in Items : \/ Discover(i) \/ Edit(i) \/ Trigger(i) \/ Refuse(i)
                      \/ \E a \in Attempts : Accept(i, a)
  \/ \E r \in Reporters, a \in Attempts : Close(r, a) \/ Announce(r, a)

Spec == Init /\ [][Next]_vars

=============================================================================
