--------------------------- MODULE ClientsProofs ---------------------------
(***************************************************************************)
(* Proofs about Clients, for any number of workers, configurations and     *)
(* accounts: a message that went through the API is taken once, what is    *)
(* saved, running and used by the clients is one configuration, and a      *)
(* subtitle download that is alone gets its file.                          *)
(***************************************************************************)
EXTENDS Clients, FiniteSetTheorems, TLAPS

SavingPlaces == {"saving", "running", "aria2", "bot"}
Replacing    == {"running", "aria2", "bot"}

\* The local variables of a worker fit together: a save carries a
\* configuration, a message was taken by Feishu at most once per attempt, and
\* through the API only by the attempt that read the body.
SaveFits(j)  == j.at \in SavingPlaces => j.mode = "" /\ j.cfg \in Configs
CountFits(j) == j.taken <= j.n /\ j.n < Attempts
ApiFits(j)   == j.mode = "api" => j.taken <= 1 /\ (j.taken = 1 => j.unread = FALSE)
Fits(j)      == SaveFits(j) /\ CountFits(j) /\ ApiFits(j)

Consistent ==
  /\ running = IF saved = Unset THEN Env ELSE saved
  /\ aria2 = running
  /\ bot[feishu].cfg = running

\* Saves that overlap know it.
NoTwoAlone == \A v, w \in Workers : v # w /\ Saving(v) /\ Saving(w) => ~job[v].alone

\* A save that was alone so far has done what its place says.
DoneSoFar(w) == job[w].alone =>
  /\ job[w].at \in {"running", "aria2", "bot"} => saved = job[w].cfg
  /\ job[w].at \in {"aria2", "bot"} => running = job[w].cfg
  /\ job[w].at = "bot" => aria2 = job[w].cfg

\* When no save is half done, everything agrees.
Agreed == ~mixed /\ (\A w \in Workers : job[w].at \notin Replacing) => Consistent

ConfigInv == NoTwoAlone /\ (\A w \in Workers : DoneSoFar(w)) /\ Agreed

-----------------------------------------------------------------------------
(* Ids are enough for every client in use.                                 *)

LEMMA IdsFinite == Cardinality(Workers) \in Nat
BY ClientsAssumption, FS_CardinalityType

\* A worker and an id in use leave an id for the next client.
LEMMA FreshExists ==
  ASSUME NEW S \in SUBSET Workers, S # Workers, NEW inUse, NEW id, id = [v \in S |-> job[v].id]
  PROVE  \E i \in Ids : i # inUse /\ \A v \in S : job[v].id # i
<1>1. IsFiniteSet(S) /\ Cardinality(S) \in Nat /\ Cardinality(Workers) \in Nat
  BY ClientsAssumption, FS_Subset, FS_CardinalityType
<1>2. Cardinality(S) < Cardinality(Workers)
  BY <1>1, ClientsAssumption, FS_Subset
<1> DEFINE Used == {job[v].id : v \in S}
<1>3. id \in Surjection(S, Used)
  BY DEF Surjection
<1>4. IsFiniteSet(Used) /\ Cardinality(Used) <= Cardinality(S)
  BY <1>1, <1>3, FS_Surjection
<1>5. /\ IsFiniteSet(Used \cup {inUse}) /\ Cardinality(Used) \in Nat
      /\ Cardinality(Used \cup {inUse}) <= Cardinality(Used) + 1
  <2> HIDE DEF Used
  <2>1. Cardinality(Used) \in Nat
    BY <1>4, FS_CardinalityType
  <2>2. /\ IsFiniteSet(Used \cup {inUse})
        /\ Cardinality(Used \cup {inUse}) = IF inUse \in Used THEN Cardinality(Used)
                                            ELSE Cardinality(Used) + 1
    BY <1>4, FS_AddElement
  <2> QED
    BY <2>1, <2>2
<1>6. IsFiniteSet(Ids) /\ Cardinality(Ids) = Cardinality(Workers) + 1
  BY <1>1, FS_Interval DEF Ids
<1>7. ~(Ids \subseteq Used \cup {inUse})
  <2> HIDE DEF Used
  <2> SUFFICES ASSUME Ids \subseteq Used \cup {inUse} PROVE FALSE
    OBVIOUS
  <2>1. Cardinality(Ids) <= Cardinality(Used \cup {inUse}) /\ Cardinality(Used \cup {inUse}) \in Nat
    BY <1>5, FS_Subset, FS_CardinalityType
  <2> QED
    BY <1>1, <1>2, <1>4, <1>5, <1>6, <2>1
<1> QED
  BY <1>7

LEMMA FreshClient ==
  ASSUME NEW w \in Workers
  PROVE  Fresh(current, LAMBDA v : v # w /\ Subtitle(v)) \in Ids
<1> DEFINE S == {v \in Workers : v # w /\ Subtitle(v)}
<1>1. \E i \in Ids : i # current /\ \A v \in S : job[v].id # i
  BY FreshExists
<1>2. \E i \in Ids : i # current /\ \A v \in Workers : (v # w /\ Subtitle(v)) => job[v].id # i
  BY <1>1
<1> QED
  BY <1>2 DEF Fresh

LEMMA FreshBot ==
  ASSUME NEW w \in Workers, ~Sending(w)
  PROVE  Fresh(feishu, Sending) \in Ids
<1> DEFINE S == {v \in Workers : Sending(v)}
<1>1. \E i \in Ids : i # feishu /\ \A v \in S : job[v].id # i
  BY FreshExists
<1>2. \E i \in Ids : i # feishu /\ \A v \in Workers : Sending(v) => job[v].id # i
  BY <1>1
<1> QED
  BY <1>2 DEF Fresh

-----------------------------------------------------------------------------
(* Types and local variables.                                              *)

LEMMA RestFits == Rest \in Job /\ Fits(Rest)
BY IdsFinite DEF Rest, Job, Places, Ids, Tokens, Attempts, Fits, SaveFits, CountFits, ApiFits, SavingPlaces

LEMMA Numbers ==
  ASSUME NEW j \in Job, Fits(j)
  PROVE  j.n \in 0..3 /\ j.n < 3 /\ j.taken \in 0..3 /\ j.taken <= j.n
<1>1. j.n \in 0..Attempts /\ j.taken \in 0..Attempts
  BY DEF Job
<1> QED
  BY <1>1 DEF Fits, CountFits, Attempts

\* The next attempt of a message, or the end of it.
LEMMA RetriedFits ==
  ASSUME NEW j \in Job, j.n < Attempts, j.taken <= j.n + 1, ApiFits(j)
  PROVE  Retried(j) \in Job /\ Fits(Retried(j))
<1>1. CASE j.n + 1 < Attempts
  <2> DEFINE r == [j EXCEPT !.at = "post", !.n = j.n + 1]
  <2>1. j.n \in 0..Attempts /\ j.taken \in 0..Attempts
    BY DEF Job
  <2>2. j.n + 1 \in 0..Attempts
    BY <1>1, <2>1 DEF Attempts
  <2>3. r \in Job
    BY <2>2 DEF Job, Places
  <2>4. r.at = "post" /\ r.n = j.n + 1 /\ r.taken = j.taken /\ r.mode = j.mode /\ r.unread = j.unread
    BY DEF Job
  <2> HIDE DEF r
  <2>5. SaveFits(r)
    BY <2>4 DEF SaveFits, SavingPlaces
  <2>6. CountFits(r)
    BY <1>1, <2>4 DEF CountFits
  <2>7. ApiFits(r)
    BY <2>4 DEF ApiFits
  <2> QED
    BY <1>1, <2>3, <2>5, <2>6, <2>7 DEF Retried, r, Fits
<1>2. CASE ~(j.n + 1 < Attempts)
  BY <1>2, RestFits DEF Retried
<1> QED
  BY <1>1, <1>2

LEMMA NotAlone ==
  ASSUME NEW j \in Job, NEW new, new = [j EXCEPT !.alone = FALSE]
  PROVE  new.at = j.at /\ new.cfg = j.cfg /\ ~new.alone
BY DEF Job

LEMMA RetriedNumbers ==
  ASSUME NEW j \in Job, Fits(j)
  PROVE  Retried(j) \in Job /\ Fits(Retried(j))
<1>1. j.n < Attempts /\ j.taken <= j.n + 1
  BY Numbers DEF Attempts
<1> QED
  BY <1>1, RetriedFits DEF Fits

LEMMA AloneFits ==
  ASSUME NEW j \in Job, Fits(j), NEW alone \in BOOLEAN
  PROVE  [j EXCEPT !.alone = alone] \in Job /\ Fits([j EXCEPT !.alone = alone])
BY DEF Job, Fits, SaveFits, CountFits, ApiFits

DbTyped ==
  /\ saved \in Configs \cup {Unset} /\ running \in Configs /\ aria2 \in Configs
  /\ feishu \in Ids /\ bot \in [Ids -> [cfg : Configs, token : Tokens]]
  /\ account \in Accounts \cup {NoAccount}
  /\ current \in Ids /\ client \in [Ids -> [cred : Accounts \cup {NoAccount}, token : Tokens]]
  /\ events \in Nat /\ mixed \in BOOLEAN

PInv == DbTyped /\ job \in [Workers -> Job] /\ \A w \in Workers : Fits(job[w])

LEMMA OneMoves ==
  ASSUME PInv, NEW w \in Workers, NEW new, job' = [job EXCEPT ![w] = new],
         new \in Job, Fits(new), DbTyped'
  PROVE  PInv'
BY DEF PInv

LEMMA WorkerBegins ==
  ASSUME PInv, NEW w \in Workers, NEW j, j \in Job, Fits(j),
         NEW alone \in BOOLEAN, NEW S \in SUBSET Workers,
         job' = [v \in Workers |-> IF v = w THEN [j EXCEPT !.alone = alone]
                                   ELSE IF v \in S THEN [job[v] EXCEPT !.alone = FALSE] ELSE job[v]],
         DbTyped'
  PROVE  PInv'
<1>1. ASSUME NEW v \in Workers PROVE job'[v] \in Job /\ Fits(job'[v])
  <2>1. job[v] \in Job /\ Fits(job[v])
    BY DEF PInv
  <2>2. \/ job'[v] = [j EXCEPT !.alone = alone] \/ job'[v] = job[v]
        \/ job'[v] = [job[v] EXCEPT !.alone = FALSE]
    OBVIOUS
  <2>3. /\ [j EXCEPT !.alone = alone] \in Job /\ Fits([j EXCEPT !.alone = alone])
        /\ [job[v] EXCEPT !.alone = FALSE] \in Job /\ Fits([job[v] EXCEPT !.alone = FALSE])
    BY <2>1, AloneFits
  <2> QED
    BY <2>1, <2>2, <2>3
<1>2. job' = [v \in Workers |-> job'[v]]
  OBVIOUS
<1> QED
  BY <1>1, <1>2 DEF PInv

LEMMA InitPInv == Init => PInv
<1> SUFFICES ASSUME Init PROVE PInv
  OBVIOUS
<1>1. 0 \in Ids /\ Env \in Configs /\ "none" \in Tokens
  BY ClientsAssumption, IdsFinite DEF Ids, Tokens
<1>2. DbTyped
  BY <1>1 DEF Init, DbTyped
<1> QED
  BY <1>2, RestFits DEF Init, PInv

LEMMA NextPInv == PInv /\ [Next]_vars => PInv'
<1> SUFFICES ASSUME PInv, [Next]_vars PROVE PInv'
  OBVIOUS
<1>1. DbTyped /\ job \in [Workers -> Job] /\ \A v \in Workers : Fits(job[v])
  BY DEF PInv
<1>2. ASSUME NEW w \in Workers, NEW cfg \in Configs, BeginSave(w, cfg)
      PROVE  PInv'
  <2> DEFINE old == [Rest EXCEPT !.at = "saving", !.cfg = cfg]
  <2>1. old \in Job /\ Fits(old)
    BY <1>1, RestFits
       DEF Job, Places, Fits, SaveFits, CountFits, ApiFits, Rest, SavingPlaces, Attempts, DbTyped
  <2>2. PICK alone \in BOOLEAN, S \in SUBSET Workers :
          job' = [v \in Workers |-> IF v = w THEN [old EXCEPT !.alone = alone]
                                    ELSE IF v \in S THEN [job[v] EXCEPT !.alone = FALSE] ELSE job[v]]
    <3> DEFINE alone == \A u \in Workers : ~Saving(u)
               S == {v \in Workers : Saving(v)}
    <3> HIDE DEF old
    <3>1. job' = [v \in Workers |-> IF v = w THEN [old EXCEPT !.alone = alone]
                                    ELSE IF v \in S THEN [job[v] EXCEPT !.alone = FALSE] ELSE job[v]]
      BY <1>2 DEF BeginSave, Begun, old
    <3>2. alone \in BOOLEAN /\ S \in SUBSET Workers
      OBVIOUS
    <3> HIDE DEF alone, S
    <3> QED
      BY <3>1, <3>2
  <2> HIDE DEF old
  <2>3. DbTyped'
    BY <1>1, <1>2 DEF BeginSave, Event, DbTyped, runtimeVars, botVars, subVars
  <2> QED
    BY <2>1, <2>2, <2>3, WorkerBegins
<1>3. ASSUME NEW w \in Workers, SaveRuntime(w)
      PROVE  PInv'
  <2> DEFINE old == job[w]
             new == job'[w]
  <2>1. old \in Job /\ Fits(old)
    BY <1>1
  <2>2. job' = [job EXCEPT ![w] = new]
    BY <1>1, <1>3 DEF SaveRuntime
  <2>3. /\ new = [old EXCEPT !.at = "running"]
        /\ old.at = "saving"
    BY <1>1, <1>3, <2>1 DEF SaveRuntime, Job, old, new
  <2> HIDE DEF old, new
  <2>4. new \in Job /\ Fits(new)
    BY <2>1, <2>3 DEF Job, Places, Fits, SaveFits, CountFits, ApiFits, SavingPlaces
  <2>5. DbTyped'
    <3>1. job[w].cfg \in Configs
      BY <2>1, <2>3 DEF Fits, SaveFits, SavingPlaces, old
    <3> QED
      BY <1>1, <1>3, <3>1 DEF SaveRuntime, DbTyped, runtimeVars, botVars, subVars
  <2> QED
    BY <2>2, <2>4, <2>5, OneMoves
<1>4. ASSUME NEW w \in Workers, SaveFails(w)
      PROVE  PInv'
  <2> DEFINE old == job[w]
             new == job'[w]
  <2>1. old \in Job /\ Fits(old)
    BY <1>1
  <2>2. job' = [job EXCEPT ![w] = new]
    BY <1>1, <1>4 DEF SaveFails
  <2>3. new = Rest
    BY <1>1, <1>4, <2>1 DEF SaveFails, Job, old, new
  <2> HIDE DEF old, new
  <2>4. new \in Job /\ Fits(new)
    BY <2>3, RestFits
  <2>5. DbTyped'
    BY <1>1, <1>4 DEF SaveFails, Event, DbTyped, runtimeVars, botVars, subVars
  <2> QED
    BY <2>2, <2>4, <2>5, OneMoves
<1>5. ASSUME NEW w \in Workers, ReplaceRunning(w)
      PROVE  PInv'
  <2> DEFINE old == job[w]
             new == job'[w]
  <2>1. old \in Job /\ Fits(old)
    BY <1>1
  <2>2. job' = [job EXCEPT ![w] = new]
    BY <1>1, <1>5 DEF ReplaceRunning
  <2>3. /\ new = [old EXCEPT !.at = "aria2"]
        /\ old.at = "running"
    BY <1>1, <1>5, <2>1 DEF ReplaceRunning, Job, old, new
  <2> HIDE DEF old, new
  <2>4. new \in Job /\ Fits(new)
    BY <2>1, <2>3 DEF Job, Places, Fits, SaveFits, CountFits, ApiFits, SavingPlaces
  <2>5. DbTyped'
    <3>1. job[w].cfg \in Configs
      BY <2>1, <2>3 DEF Fits, SaveFits, SavingPlaces, old
    <3> QED
      BY <1>1, <1>5, <3>1 DEF ReplaceRunning, DbTyped, runtimeVars, botVars, subVars
  <2> QED
    BY <2>2, <2>4, <2>5, OneMoves
<1>6. ASSUME NEW w \in Workers, ReplaceAria2(w)
      PROVE  PInv'
  <2> DEFINE old == job[w]
             new == job'[w]
  <2>1. old \in Job /\ Fits(old)
    BY <1>1
  <2>2. job' = [job EXCEPT ![w] = new]
    BY <1>1, <1>6 DEF ReplaceAria2
  <2>3. /\ new = [old EXCEPT !.at = "bot"]
        /\ old.at = "aria2"
    BY <1>1, <1>6, <2>1 DEF ReplaceAria2, Job, old, new
  <2> HIDE DEF old, new
  <2>4. new \in Job /\ Fits(new)
    BY <2>1, <2>3 DEF Job, Places, Fits, SaveFits, CountFits, ApiFits, SavingPlaces
  <2>5. DbTyped'
    <3>1. job[w].cfg \in Configs
      BY <2>1, <2>3 DEF Fits, SaveFits, SavingPlaces, old
    <3> QED
      BY <1>1, <1>6, <3>1 DEF ReplaceAria2, DbTyped, runtimeVars, botVars, subVars
  <2> QED
    BY <2>2, <2>4, <2>5, OneMoves
<1>7. ASSUME NEW w \in Workers, ReplaceBot(w)
      PROVE  PInv'
  <2> DEFINE old == job[w]
             new == job'[w]
  <2>1. old \in Job /\ Fits(old)
    BY <1>1
  <2>2. job' = [job EXCEPT ![w] = new]
    BY <1>1, <1>7 DEF ReplaceBot
  <2>3. /\ new = Rest
        /\ old.at = "bot"
    BY <1>1, <1>7, <2>1 DEF ReplaceBot, Job, old, new
  <2> HIDE DEF old, new
  <2>4. new \in Job /\ Fits(new)
    BY <2>3, RestFits
  <2>5. DbTyped'
    <3>1. Fresh(feishu, Sending) \in Ids
      BY <2>1, <2>3, FreshBot DEF Fits, SaveFits, SavingPlaces, Sending, old
    <3>2. old.cfg \in Configs
      BY <2>1, <2>3 DEF Fits, SaveFits, SavingPlaces
    <3>3. [cfg |-> old.cfg, token |-> "none"] \in [cfg : Configs, token : Tokens]
      BY <3>2 DEF Tokens
    <3> QED
      BY <1>1, <1>7, <2>1, <3>1, <3>3
         DEF ReplaceBot, DbTyped, runtimeVars, botVars, subVars, Job, old
  <2> QED
    BY <2>2, <2>4, <2>5, OneMoves
<1>8. ASSUME NEW w \in Workers, NEW mode \in {"webhook", "api"}, BeginMessage(w, mode)
      PROVE  PInv'
  <2> DEFINE old == job[w]
             new == job'[w]
  <2>1. old \in Job /\ Fits(old)
    BY <1>1
  <2>2. job' = [job EXCEPT ![w] = new]
    BY <1>1, <1>8 DEF BeginMessage
  <2>3. /\ new = [Rest EXCEPT !.at = IF mode = "api" THEN "cache" ELSE "post", !.mode = mode, !.id = feishu]
        /\ feishu \in Ids
    BY <1>1, <1>8, <2>1 DEF BeginMessage, DbTyped, old, new
  <2> HIDE DEF old, new
  <2>4. new \in Job /\ Fits(new)
    <3>1. Rest \in Job /\ (IF mode = "api" THEN "cache" ELSE "post") \in Places
      BY RestFits DEF Places
    <3>2. new \in Job
      BY <2>3, <3>1 DEF Job
    <3>3. new.at \notin SavingPlaces /\ new.taken = 0 /\ new.n = 0
      BY <2>3 DEF Rest, SavingPlaces
    <3>4. SaveFits(new)
      BY <3>3 DEF SaveFits
    <3>5. CountFits(new)
      BY <3>3 DEF CountFits, Attempts
    <3>6. ApiFits(new)
      BY <3>3 DEF ApiFits
    <3> QED
      BY <3>2, <3>4, <3>5, <3>6 DEF Fits
  <2>5. DbTyped'
    BY <1>1, <1>8 DEF BeginMessage, DbTyped, runtimeVars, botVars, subVars
  <2> QED
    BY <2>2, <2>4, <2>5, OneMoves
<1>9. ASSUME NEW w \in Workers, ReadCache(w)
      PROVE  PInv'
  <2> DEFINE old == job[w]
             new == job'[w]
  <2>1. old \in Job /\ Fits(old)
    BY <1>1
  <2>2. job' = [job EXCEPT ![w] = new]
    BY <1>1, <1>9 DEF ReadCache
  <2>3. /\ \/ new = [old EXCEPT !.at = "post", !.tok = Cached(w)]
           \/ new = [old EXCEPT !.at = "lock"]
        /\ Cached(w) \in Tokens
    BY <1>1, <1>9, <2>1 DEF ReadCache, Ready, Cached, Job, DbTyped, old, new
  <2> HIDE DEF old, new
  <2>4. new \in Job /\ Fits(new)
    <3>1. CASE new = [old EXCEPT !.at = "post", !.tok = Cached(w)]
      BY <2>1, <2>3, <3>1 DEF Job, Places, Fits, SaveFits, CountFits, ApiFits, SavingPlaces
    <3>2. CASE new = [old EXCEPT !.at = "lock"]
      BY <2>1, <2>3, <3>2 DEF Job, Places, Fits, SaveFits, CountFits, ApiFits, SavingPlaces
    <3> QED
      BY <2>3, <3>1, <3>2
  <2>5. DbTyped'
    BY <1>1, <1>9 DEF ReadCache, DbTyped, runtimeVars, botVars, subVars
  <2> QED
    BY <2>2, <2>4, <2>5, OneMoves
<1>10. ASSUME NEW w \in Workers, TakeLock(w)
      PROVE  PInv'
  <2> DEFINE old == job[w]
             new == job'[w]
  <2>1. old \in Job /\ Fits(old)
    BY <1>1
  <2>2. job' = [job EXCEPT ![w] = new]
    BY <1>1, <1>10 DEF TakeLock
  <2>3. /\ \/ new = [old EXCEPT !.at = "post", !.tok = Cached(w)]
           \/ new = [old EXCEPT !.at = "fetch"]
        /\ Cached(w) \in Tokens
    BY <1>1, <1>10, <2>1 DEF TakeLock, Ready, Cached, Job, DbTyped, old, new
  <2> HIDE DEF old, new
  <2>4. new \in Job /\ Fits(new)
    <3>1. CASE new = [old EXCEPT !.at = "post", !.tok = Cached(w)]
      BY <2>1, <2>3, <3>1 DEF Job, Places, Fits, SaveFits, CountFits, ApiFits, SavingPlaces
    <3>2. CASE new = [old EXCEPT !.at = "fetch"]
      BY <2>1, <2>3, <3>2 DEF Job, Places, Fits, SaveFits, CountFits, ApiFits, SavingPlaces
    <3> QED
      BY <2>3, <3>1, <3>2
  <2>5. DbTyped'
    BY <1>1, <1>10 DEF TakeLock, DbTyped, runtimeVars, botVars, subVars
  <2> QED
    BY <2>2, <2>4, <2>5, OneMoves
<1>11. ASSUME NEW w \in Workers, NEW ok \in BOOLEAN, FetchToken(w, ok)
      PROVE  PInv'
  <2> DEFINE old == job[w]
             new == job'[w]
  <2>1. old \in Job /\ Fits(old)
    BY <1>1
  <2>2. job' = [job EXCEPT ![w] = new]
    BY <1>1, <1>11 DEF FetchToken
  <2>3. \/ new = [old EXCEPT !.at = "post", !.tok = "good"]
        \/ new = Rest
    BY <1>1, <1>11, <2>1 DEF FetchToken, Job, old, new
  <2> HIDE DEF old, new
  <2>4. new \in Job /\ Fits(new)
    <3>1. CASE new = [old EXCEPT !.at = "post", !.tok = "good"]
      BY <2>1, <2>3, <3>1 DEF Job, Places, Fits, SaveFits, CountFits, ApiFits, SavingPlaces, Tokens
    <3>2. CASE new = Rest
      BY <3>2, RestFits
    <3> QED
      BY <2>3, <3>1, <3>2
  <2>5. DbTyped'
    <3>1. job[w].id \in Ids
      BY <2>1 DEF Job, old
    <3> QED
      BY <1>1, <1>11, <3>1 DEF FetchToken, DbTyped, runtimeVars, botVars, subVars, Tokens
  <2> QED
    BY <2>2, <2>4, <2>5, OneMoves
<1>12. ASSUME NEW w \in Workers, Unreached(w)
      PROVE  PInv'
  <2> DEFINE old == job[w]
             new == job'[w]
  <2>1. old \in Job /\ Fits(old)
    BY <1>1
  <2>2. job' = [job EXCEPT ![w] = new]
    BY <1>1, <1>12 DEF Unreached
  <2>3. new = Retried(old)
    BY <1>1, <1>12, <2>1 DEF Unreached, Job, old, new
  <2> HIDE DEF old, new
  <2>4. new \in Job /\ Fits(new)
    BY <2>1, <2>3, RetriedNumbers
  <2>5. DbTyped'
    BY <1>1, <1>12 DEF Unreached, DbTyped, runtimeVars, botVars, subVars
  <2> QED
    BY <2>2, <2>4, <2>5, OneMoves
<1>13. ASSUME NEW w \in Workers, NEW answered \in BOOLEAN, TakenByFeishu(w, answered)
      PROVE  PInv'
  <2> DEFINE old == job[w]
             new == job'[w]
  <2>1. old \in Job /\ Fits(old)
    BY <1>1
  <2>2. job' = [job EXCEPT ![w] = new]
    BY <1>1, <1>13 DEF TakenByFeishu
  <2>3. /\ \/ new = Rest
           \/ new = Retried([old EXCEPT !.unread = FALSE, !.taken = old.taken + 1])
        /\ (old.mode = "webhook" \/ old.unread = TRUE)
    BY <1>1, <1>13, <2>1 DEF TakenByFeishu, BodyUnread, Sending, Job, old, new
  <2> HIDE DEF old, new
  <2>4. new \in Job /\ Fits(new)
    <3>1. CASE new = Rest
      BY <3>1, RestFits
    <3>2. CASE new = Retried([old EXCEPT !.unread = FALSE, !.taken = old.taken + 1])
      <4> DEFINE now == [old EXCEPT !.unread = FALSE, !.taken = old.taken + 1]
      <4>1. old.n \in 0..3 /\ old.n < 3 /\ old.taken \in 0..3 /\ old.taken <= old.n
        BY <2>1, Numbers
      <4>2. old.taken + 1 \in 0..Attempts
        BY <4>1 DEF Attempts
      <4>3. now \in Job /\ now.n = old.n /\ now.mode = old.mode /\ ~now.unread
        BY <2>1, <4>2 DEF Job
      <4>4. now.taken = old.taken + 1
        BY <2>1 DEF Job
      <4>5. now.mode = "api" => now.taken <= 1
        BY <2>1, <2>3, <4>1, <4>3, <4>4 DEF Fits, ApiFits
      <4>6. now.n < Attempts /\ now.taken <= now.n + 1
        BY <4>1, <4>3, <4>4 DEF Attempts
      <4>7. ApiFits(now)
        BY <4>3, <4>5 DEF ApiFits
      <4> HIDE DEF now
      <4> QED
        BY <3>2, <4>3, <4>6, <4>7, RetriedFits DEF now
    <3> QED
      BY <2>3, <3>1, <3>2
  <2>5. DbTyped'
    BY <1>1, <1>13 DEF TakenByFeishu, DbTyped, runtimeVars, botVars, subVars
  <2> QED
    BY <2>2, <2>4, <2>5, OneMoves
<1>14. ASSUME NEW w \in Workers, NEW why \in {"token", "garbled", "other"}, RefusedByFeishu(w, why)
      PROVE  PInv'
  <2> DEFINE old == job[w]
             new == job'[w]
  <2>1. old \in Job /\ Fits(old)
    BY <1>1
  <2>2. job' = [job EXCEPT ![w] = new]
    BY <1>1, <1>14 DEF RefusedByFeishu
  <2>3. \/ new = [old EXCEPT !.at = "drop", !.unread = FALSE]
        \/ new = Rest
        \/ new = Retried([old EXCEPT !.unread = FALSE])
    BY <1>1, <1>14, <2>1 DEF RefusedByFeishu, Job, old, new
  <2> HIDE DEF old, new
  <2>4. new \in Job /\ Fits(new)
    <3>1. CASE new = [old EXCEPT !.at = "drop", !.unread = FALSE]
      BY <2>1, <2>3, <3>1 DEF Job, Places, Fits, SaveFits, CountFits, ApiFits, SavingPlaces
    <3>2. CASE new = Rest
      BY <3>2, RestFits
    <3>3. CASE new = Retried([old EXCEPT !.unread = FALSE])
      <4> DEFINE now == [old EXCEPT !.unread = FALSE]
      <4>1. old.n \in 0..3 /\ old.n < 3 /\ old.taken \in 0..3 /\ old.taken <= old.n
        BY <2>1, Numbers
      <4>2. old.taken + 1 \in 0..Attempts
        BY <4>1 DEF Attempts
      <4>3. now \in Job /\ now.n = old.n /\ now.mode = old.mode /\ ~now.unread
        BY <2>1, <4>2 DEF Job
      <4>4. now.taken = old.taken
        BY <2>1 DEF Job
      <4>5. now.mode = "api" => now.taken <= 1
        BY <2>1, <2>3, <4>1, <4>3, <4>4 DEF Fits, ApiFits
      <4>6. now.n < Attempts /\ now.taken <= now.n + 1
        BY <4>1, <4>3, <4>4 DEF Attempts
      <4>7. ApiFits(now)
        BY <4>3, <4>5 DEF ApiFits
      <4> HIDE DEF now
      <4> QED
        BY <3>3, <4>3, <4>6, <4>7, RetriedFits DEF now
    <3> QED
      BY <2>3, <3>1, <3>2, <3>3
  <2>5. DbTyped'
    BY <1>1, <1>14 DEF RefusedByFeishu, DbTyped, runtimeVars, botVars, subVars
  <2> QED
    BY <2>2, <2>4, <2>5, OneMoves
<1>15. ASSUME NEW w \in Workers, RefusedLocally(w)
      PROVE  PInv'
  <2> DEFINE old == job[w]
             new == job'[w]
  <2>1. old \in Job /\ Fits(old)
    BY <1>1
  <2>2. job' = [job EXCEPT ![w] = new]
    BY <1>1, <1>15 DEF RefusedLocally
  <2>3. new = Retried(old)
    BY <1>1, <1>15, <2>1 DEF RefusedLocally, Job, old, new
  <2> HIDE DEF old, new
  <2>4. new \in Job /\ Fits(new)
    BY <2>1, <2>3, RetriedNumbers
  <2>5. DbTyped'
    BY <1>1, <1>15 DEF RefusedLocally, DbTyped, runtimeVars, botVars, subVars
  <2> QED
    BY <2>2, <2>4, <2>5, OneMoves
<1>16. ASSUME NEW w \in Workers, DropToken(w)
      PROVE  PInv'
  <2> DEFINE old == job[w]
             new == job'[w]
  <2>1. old \in Job /\ Fits(old)
    BY <1>1
  <2>2. job' = [job EXCEPT ![w] = new]
    BY <1>1, <1>16 DEF DropToken
  <2>3. new = Retried(old)
    BY <1>1, <1>16, <2>1 DEF DropToken, Job, old, new
  <2> HIDE DEF old, new
  <2>4. new \in Job /\ Fits(new)
    BY <2>1, <2>3, RetriedNumbers
  <2>5. DbTyped'
    <3>1. job[w].id \in Ids
      BY <2>1 DEF Job, old
    <3> QED
      BY <1>1, <1>16, <3>1 DEF DropToken, DbTyped, runtimeVars, botVars, subVars, Tokens
  <2> QED
    BY <2>2, <2>4, <2>5, OneMoves
<1>17. ASSUME NEW w \in Workers, NEW mode \in {"search", "subtitle"}, BeginSubtitle(w, mode)
      PROVE  PInv'
  <2> DEFINE old == [Rest EXCEPT !.at = "client", !.mode = mode, !.cred = account]
  <2>1. old \in Job /\ Fits(old)
    BY <1>1, RestFits
       DEF Job, Places, Fits, SaveFits, CountFits, ApiFits, Rest, SavingPlaces, Attempts, DbTyped
  <2>2. PICK alone \in BOOLEAN, S \in SUBSET Workers :
          job' = [v \in Workers |-> IF v = w THEN [old EXCEPT !.alone = alone]
                                    ELSE IF v \in S THEN [job[v] EXCEPT !.alone = FALSE] ELSE job[v]]
    <3> DEFINE alone == \A u \in Workers : ~Subtitle(u)
               S == {v \in Workers : Subtitle(v)}
    <3> HIDE DEF old
    <3>1. job' = [v \in Workers |-> IF v = w THEN [old EXCEPT !.alone = alone]
                                    ELSE IF v \in S THEN [job[v] EXCEPT !.alone = FALSE] ELSE job[v]]
      BY <1>17 DEF BeginSubtitle, Begun, old
    <3>2. alone \in BOOLEAN /\ S \in SUBSET Workers
      OBVIOUS
    <3> HIDE DEF alone, S
    <3> QED
      BY <3>1, <3>2
  <2> HIDE DEF old
  <2>3. DbTyped'
    BY <1>1, <1>17 DEF BeginSubtitle, Event, DbTyped, runtimeVars, botVars, subVars
  <2> QED
    BY <2>1, <2>2, <2>3, WorkerBegins
<1>18. ASSUME NEW w \in Workers, ClientFor(w)
      PROVE  PInv'
  <2> DEFINE old == job[w]
             new == job'[w]
  <2>1. old \in Job /\ Fits(old)
    BY <1>1
  <2>2. job' = [job EXCEPT ![w] = new]
    BY <1>1, <1>18 DEF ClientFor
  <2>3. /\ new = [old EXCEPT !.id = new.id, !.at = IF old.mode = "search" THEN "search" ELSE "ensure"]
        /\ new.id \in Ids
    <3> DEFINE c == IF client[current].cred = job[w].cred THEN current
                    ELSE Fresh(current, LAMBDA v : v # w /\ Subtitle(v))
    <3>1. c \in Ids
      BY <1>1, FreshClient DEF DbTyped
    <3>2. new = [old EXCEPT !.id = c, !.at = IF old.mode = "search" THEN "search" ELSE "ensure"]
      BY <1>1, <1>18 DEF ClientFor, old, new
    <3> HIDE DEF c, old, new
    <3> QED
      BY <2>1, <3>1, <3>2 DEF Job
  <2> HIDE DEF old, new
  <2>4. new \in Job /\ Fits(new)
    BY <2>1, <2>3 DEF Job, Places, Fits, SaveFits, CountFits, ApiFits, SavingPlaces
  <2>5. DbTyped'
    <3>1. Fresh(current, LAMBDA v : v # w /\ Subtitle(v)) \in Ids
      BY <1>1, FreshClient
    <3>2. [cred |-> old.cred, token |-> "none"] \in [cred : Accounts \cup {NoAccount}, token : Tokens]
      BY <2>1 DEF Job, Tokens
    <3> QED
      BY <1>1, <1>18, <3>1, <3>2 DEF ClientFor, DbTyped, runtimeVars, botVars, subVars, old
  <2> QED
    BY <2>2, <2>4, <2>5, OneMoves
<1>19. ASSUME NEW w \in Workers, EnsureToken(w)
      PROVE  PInv'
  <2> DEFINE old == job[w]
             new == job'[w]
  <2>1. old \in Job /\ Fits(old)
    BY <1>1
  <2>2. job' = [job EXCEPT ![w] = new]
    BY <1>1, <1>19 DEF EnsureToken
  <2>3. \/ new = [old EXCEPT !.at = "login"]
        \/ new = [old EXCEPT !.at = "request"]
    BY <1>1, <1>19, <2>1 DEF EnsureToken, Job, old, new
  <2> HIDE DEF old, new
  <2>4. new \in Job /\ Fits(new)
    <3>1. CASE new = [old EXCEPT !.at = "login"]
      BY <2>1, <2>3, <3>1 DEF Job, Places, Fits, SaveFits, CountFits, ApiFits, SavingPlaces
    <3>2. CASE new = [old EXCEPT !.at = "request"]
      BY <2>1, <2>3, <3>2 DEF Job, Places, Fits, SaveFits, CountFits, ApiFits, SavingPlaces
    <3> QED
      BY <2>3, <3>1, <3>2
  <2>5. DbTyped'
    BY <1>1, <1>19 DEF EnsureToken, DbTyped, runtimeVars, botVars, subVars
  <2> QED
    BY <2>2, <2>4, <2>5, OneMoves
<1>20. ASSUME NEW w \in Workers, Login(w)
      PROVE  PInv'
  <2> DEFINE old == job[w]
             new == job'[w]
  <2>1. old \in Job /\ Fits(old)
    BY <1>1
  <2>2. job' = [job EXCEPT ![w] = new]
    BY <1>1, <1>20 DEF Login
  <2>3. new = [old EXCEPT !.at = "request"]
    BY <1>1, <1>20, <2>1 DEF Login, Job, old, new
  <2> HIDE DEF old, new
  <2>4. new \in Job /\ Fits(new)
    BY <2>1, <2>3 DEF Job, Places, Fits, SaveFits, CountFits, ApiFits, SavingPlaces
  <2>5. DbTyped'
    <3>1. job[w].id \in Ids
      BY <2>1 DEF Job, old
    <3> QED
      BY <1>1, <1>20, <3>1 DEF Login, DbTyped, runtimeVars, botVars, subVars, Tokens
  <2> QED
    BY <2>2, <2>4, <2>5, OneMoves
<1>21. ASSUME NEW w \in Workers, PostDownload(w)
      PROVE  PInv'
  <2> DEFINE old == job[w]
             new == job'[w]
  <2>1. old \in Job /\ Fits(old)
    BY <1>1
  <2>2. job' = [job EXCEPT ![w] = new]
    BY <1>1, <1>21 DEF PostDownload
  <2>3. \/ new = [old EXCEPT !.at = "file"]
        \/ new = Rest
        \/ old.n = 0 /\ new = [old EXCEPT !.at = "clear", !.n = 1]
    BY <1>1, <1>21, <2>1 DEF PostDownload, Job, old, new
  <2> HIDE DEF old, new
  <2>4. new \in Job /\ Fits(new)
    <3>1. CASE new = [old EXCEPT !.at = "file"]
      BY <2>1, <2>3, <3>1 DEF Job, Places, Fits, SaveFits, CountFits, ApiFits, SavingPlaces
    <3>2. CASE new = Rest
      BY <3>2, RestFits
    <3>3. CASE old.n = 0 /\ new = [old EXCEPT !.at = "clear", !.n = 1]
      <4>1. old.taken \in 0..3 /\ old.taken <= 0
        BY <2>1, <3>3, Numbers
      <4>2. 1 \in 0..Attempts
        BY DEF Attempts
      <4>3. new \in Job
        BY <2>1, <4>2, <3>3 DEF Job, Places
      <4>4. /\ new.at = "clear" /\ new.n = 1 /\ new.taken = old.taken
            /\ new.mode = old.mode /\ new.unread = old.unread
        BY <2>1, <3>3 DEF Job
      <4>5. SaveFits(new)
        BY <4>4 DEF SaveFits, SavingPlaces
      <4>6. CountFits(new)
        BY <4>1, <4>4 DEF CountFits, Attempts
      <4>7. ApiFits(new)
        BY <2>1, <4>4 DEF Fits, ApiFits
      <4> QED
        BY <4>3, <4>5, <4>6, <4>7 DEF Fits
    <3> QED
      BY <2>3, <3>1, <3>2, <3>3
  <2>5. DbTyped'
    BY <1>1, <1>21 DEF PostDownload, DbTyped, runtimeVars, botVars, subVars
  <2> QED
    BY <2>2, <2>4, <2>5, OneMoves
<1>22. ASSUME NEW w \in Workers, ClearToken(w)
      PROVE  PInv'
  <2> DEFINE old == job[w]
             new == job'[w]
  <2>1. old \in Job /\ Fits(old)
    BY <1>1
  <2>2. job' = [job EXCEPT ![w] = new]
    BY <1>1, <1>22 DEF ClearToken
  <2>3. new = [old EXCEPT !.at = "ensure"]
    BY <1>1, <1>22, <2>1 DEF ClearToken, Job, old, new
  <2> HIDE DEF old, new
  <2>4. new \in Job /\ Fits(new)
    BY <2>1, <2>3 DEF Job, Places, Fits, SaveFits, CountFits, ApiFits, SavingPlaces
  <2>5. DbTyped'
    <3>1. job[w].id \in Ids
      BY <2>1 DEF Job, old
    <3> QED
      BY <1>1, <1>22, <3>1 DEF ClearToken, DbTyped, runtimeVars, botVars, subVars, Tokens
  <2> QED
    BY <2>2, <2>4, <2>5, OneMoves
<1>23. ASSUME NEW w \in Workers, Search(w)
      PROVE  PInv'
  <2> DEFINE old == job[w]
             new == job'[w]
  <2>1. old \in Job /\ Fits(old)
    BY <1>1
  <2>2. job' = [job EXCEPT ![w] = new]
    BY <1>1, <1>23 DEF Search
  <2>3. new = Rest
    BY <1>1, <1>23, <2>1 DEF Search, Job, old, new
  <2> HIDE DEF old, new
  <2>4. new \in Job /\ Fits(new)
    BY <2>3, RestFits
  <2>5. DbTyped'
    BY <1>1, <1>23 DEF Search, DbTyped, runtimeVars, botVars, subVars
  <2> QED
    BY <2>2, <2>4, <2>5, OneMoves
<1>24. ASSUME NEW w \in Workers, FetchFile(w)
      PROVE  PInv'
  <2> DEFINE old == job[w]
             new == job'[w]
  <2>1. old \in Job /\ Fits(old)
    BY <1>1
  <2>2. job' = [job EXCEPT ![w] = new]
    BY <1>1, <1>24 DEF FetchFile
  <2>3. new = [old EXCEPT !.at = "write"]
    BY <1>1, <1>24, <2>1 DEF FetchFile, Job, old, new
  <2> HIDE DEF old, new
  <2>4. new \in Job /\ Fits(new)
    BY <2>1, <2>3 DEF Job, Places, Fits, SaveFits, CountFits, ApiFits, SavingPlaces
  <2>5. DbTyped'
    BY <1>1, <1>24 DEF FetchFile, DbTyped, runtimeVars, botVars, subVars
  <2> QED
    BY <2>2, <2>4, <2>5, OneMoves
<1>25. ASSUME NEW w \in Workers, SaveFile(w)
      PROVE  PInv'
  <2> DEFINE old == job[w]
             new == job'[w]
  <2>1. old \in Job /\ Fits(old)
    BY <1>1
  <2>2. job' = [job EXCEPT ![w] = new]
    BY <1>1, <1>25 DEF SaveFile
  <2>3. new = Rest
    BY <1>1, <1>25, <2>1 DEF SaveFile, Job, old, new
  <2> HIDE DEF old, new
  <2>4. new \in Job /\ Fits(new)
    BY <2>3, RestFits
  <2>5. DbTyped'
    BY <1>1, <1>25 DEF SaveFile, DbTyped, runtimeVars, botVars, subVars
  <2> QED
    BY <2>2, <2>4, <2>5, OneMoves
<1>26. ASSUME NEW w \in Workers, SubtitleFails(w)
      PROVE  PInv'
  <2> DEFINE old == job[w]
             new == job'[w]
  <2>1. old \in Job /\ Fits(old)
    BY <1>1
  <2>2. job' = [job EXCEPT ![w] = new]
    BY <1>1, <1>26 DEF SubtitleFails
  <2>3. new = Rest
    BY <1>1, <1>26, <2>1 DEF SubtitleFails, Job, old, new
  <2> HIDE DEF old, new
  <2>4. new \in Job /\ Fits(new)
    BY <2>3, RestFits
  <2>5. DbTyped'
    BY <1>1, <1>26 DEF SubtitleFails, Event, DbTyped, runtimeVars, botVars, subVars
  <2> QED
    BY <2>2, <2>4, <2>5, OneMoves
<1>27. ASSUME NEW b \in Ids, TokenExpires(b)
      PROVE  PInv'
  <2>1. DbTyped' /\ UNCHANGED job
    BY <1>1, <1>27 DEF TokenExpires, Event, Tokens, DbTyped, runtimeVars, subVars
  <2> QED
    BY <1>1, <2>1 DEF PInv
<1>28. ASSUME NEW a \in Accounts, SaveAccount(a)
      PROVE  PInv'
  <2>1. DbTyped' /\ UNCHANGED job
    BY <1>1, <1>28 DEF SaveAccount, Event, DbTyped, runtimeVars, botVars
  <2> QED
    BY <1>1, <2>1 DEF PInv
<1>29. CASE FeishuRevokes
  <2>1. \A t \in Tokens : Dead(t) \in Tokens
    BY DEF Dead, Tokens
  <2>2. ASSUME NEW j \in Job, Fits(j)
        PROVE  [j EXCEPT !.tok = Dead(j.tok)] \in Job /\ Fits([j EXCEPT !.tok = Dead(j.tok)])
    BY <2>1, <2>2 DEF Job, Fits, SaveFits, CountFits, ApiFits
  <2>3. job' \in [Workers -> Job] /\ \A v \in Workers : Fits(job'[v])
    BY <1>1, <1>29, <2>2 DEF FeishuRevokes
  <2>4. \A b \in Ids : [bot[b] EXCEPT !.token = Dead(bot[b].token)] \in [cfg : Configs, token : Tokens]
    BY <1>1, <2>1 DEF DbTyped
  <2>5. DbTyped'
    BY <1>1, <1>29, <2>4 DEF FeishuRevokes, Event, DbTyped, runtimeVars, subVars
  <2> QED
    BY <2>3, <2>5 DEF PInv
<1>30. CASE SessionsEnd
  <2>1. \A t \in Tokens : Dead(t) \in Tokens
    BY DEF Dead, Tokens
  <2>2. job' \in [Workers -> Job] /\ \A v \in Workers : Fits(job'[v])
    BY <1>1, <1>30, AloneFits DEF SessionsEnd
  <2>3. \A c \in Ids : [client[c] EXCEPT !.token = Dead(client[c].token)]
                          \in [cred : Accounts \cup {NoAccount}, token : Tokens]
    BY <1>1, <2>1 DEF DbTyped
  <2>4. DbTyped'
    BY <1>1, <1>30, <2>3 DEF SessionsEnd, Event, DbTyped, runtimeVars, botVars
  <2> QED
    BY <2>2, <2>4 DEF PInv
<1>31. CASE Restart
  <2> DEFINE cfg == IF saved = Unset THEN Env ELSE saved
  <2>1. cfg \in Configs
    BY <1>1, ClientsAssumption DEF DbTyped
  <2>2. Startup(cfg) /\ UNCHANGED <<saved, account>> /\ events' \in Nat
    BY <1>1, <1>31 DEF Restart, Event, DbTyped
  <2> HIDE DEF cfg
  <2>3. 0 \in Ids
    BY IdsFinite DEF Ids
  <2>4. DbTyped'
    BY <1>1, <2>1, <2>2, <2>3 DEF Startup, DbTyped, Tokens
  <2>5. job' \in [Workers -> Job] /\ \A v \in Workers : Fits(job'[v])
    BY <2>2, RestFits DEF Startup
  <2> QED
    BY <2>4, <2>5 DEF PInv
<1>32. CASE UNCHANGED vars
  <2>1. DbTyped' /\ UNCHANGED job
    BY <1>1, <1>32 DEF vars, DbTyped, runtimeVars, botVars, subVars
  <2> QED
    BY <1>1, <2>1 DEF PInv
<1> QED
  BY <1>2, <1>3, <1>4, <1>5, <1>6, <1>7, <1>8, <1>9, <1>10, <1>11, <1>12, <1>13, <1>14, <1>15,
     <1>16, <1>17, <1>18, <1>19, <1>20, <1>21, <1>22, <1>23, <1>24, <1>25, <1>26, <1>27, <1>28,
     <1>29, <1>30, <1>31, <1>32
     DEF Next

-----------------------------------------------------------------------------
(* One configuration.                                                      *)

SameSave(v) ==
  job[v].at \in SavingPlaces \/ job'[v].at \in SavingPlaces
    => job'[v].at = job[v].at /\ job'[v].cfg = job[v].cfg /\ job'[v].alone = job[v].alone

LEMMA Unconcerned ==
  ASSUME ConfigInv, UNCHANGED <<saved, running, aria2, feishu, mixed>>,
         bot'[feishu].cfg = bot[feishu].cfg, \A v \in Workers : SameSave(v)
  PROVE  ConfigInv'
<1>1. \A v \in Workers : Saving(v)' => Saving(v) /\ job'[v].alone = job[v].alone
  BY DEF SameSave, Saving, SavingPlaces
<1>2. NoTwoAlone'
  BY <1>1 DEF ConfigInv, NoTwoAlone
<1>3. ASSUME NEW v \in Workers PROVE DoneSoFar(v)'
  BY DEF ConfigInv, DoneSoFar, SameSave, SavingPlaces
<1>4. Agreed'
  BY DEF ConfigInv, Agreed, Consistent, SameSave, SavingPlaces, Replacing
<1> QED
  BY <1>2, <1>3, <1>4 DEF ConfigInv

LEMMA NextConfigInv == PInv /\ ConfigInv /\ [Next]_vars => ConfigInv'
<1> SUFFICES ASSUME PInv, ConfigInv, [Next]_vars PROVE ConfigInv'
  OBVIOUS
<1>1. /\ DbTyped /\ job \in [Workers -> Job] /\ \A v \in Workers : Fits(job[v])
      /\ ConfigInv
  BY DEF PInv
<1>2. ASSUME NEW w \in Workers, NEW cfg \in Configs, BeginSave(w, cfg)
      PROVE  ConfigInv'
  <2> DEFINE alone == \A u \in Workers : ~Saving(u)
  <2>1. UNCHANGED <<saved, running, aria2, feishu, bot, mixed>> /\ job[w].at = "idle"
    BY <1>2 DEF BeginSave, runtimeVars, botVars, Idle
  <2>2. job'[w] = [[Rest EXCEPT !.at = "saving", !.cfg = cfg] EXCEPT !.alone = alone]
    BY <1>2 DEF BeginSave, Begun
  <2> HIDE DEF alone
  <2>3. job'[w].at = "saving" /\ job'[w].alone = alone
    BY <2>2 DEF Rest
  <2> USE DEF alone
  <2>4. ASSUME NEW v \in Workers, v # w, Saving(v)
        PROVE  job'[v].at = job[v].at /\ ~job'[v].alone /\ ~job'[w].alone
    <3>1. job'[v] = [job[v] EXCEPT !.alone = FALSE]
      BY <1>2, <2>4 DEF BeginSave, Begun
    <3>2. job'[v].at = job[v].at /\ job'[v].alone = FALSE
      BY <1>1, <3>1 DEF Job
    <3>3. job'[w].alone = FALSE
      BY <2>3, <2>4
    <3> QED
      BY <3>2, <3>3
  <2>5. ASSUME NEW v \in Workers, v # w, ~Saving(v)
        PROVE  job'[v] = job[v]
    BY <1>2, <2>5 DEF BeginSave, Begun
  <2>6. NoTwoAlone'
    BY <2>4, <2>5 DEF NoTwoAlone, Saving
  <2>7. ASSUME NEW v \in Workers PROVE DoneSoFar(v)'
    <3>1. CASE v = w
      BY <2>3, <3>1 DEF DoneSoFar
    <3>2. CASE v # w /\ Saving(v)
      BY <2>4, <3>2 DEF DoneSoFar
    <3>3. CASE v # w /\ ~Saving(v)
      BY <1>1, <2>1, <2>5, <3>3 DEF DoneSoFar, ConfigInv
    <3> QED
      BY <3>1, <3>2, <3>3
  <2>8. Agreed'
    <3>1. ASSUME \A v \in Workers : job'[v].at \notin Replacing
          PROVE  \A v \in Workers : job[v].at \notin Replacing
      <4> SUFFICES ASSUME NEW v \in Workers PROVE job[v].at \notin Replacing
        OBVIOUS
      <4>1. CASE v = w
        BY <2>1, <4>1 DEF Replacing
      <4>2. CASE v # w /\ Saving(v)
        BY <2>4, <3>1, <4>2
      <4>3. CASE v # w /\ ~Saving(v)
        BY <2>5, <3>1, <4>3
      <4> QED
        BY <4>1, <4>2, <4>3
    <3> QED
      BY <1>1, <2>1, <3>1 DEF Agreed, Consistent, ConfigInv
  <2> QED
    BY <2>6, <2>7, <2>8 DEF ConfigInv
<1>3. ASSUME NEW w \in Workers, SaveRuntime(w)
      PROVE  ConfigInv'
  <2>1. saved' = job[w].cfg /\ UNCHANGED <<running, aria2, feishu, bot, mixed>>
    BY <1>3 DEF SaveRuntime, runtimeVars, botVars
  <2>2. job'[w].at = "running" /\ job'[w].cfg = job[w].cfg /\ job'[w].alone = job[w].alone
    BY <1>1, <1>3 DEF SaveRuntime, Job
  <2>3. job[w].at = "saving"
    BY <1>3 DEF SaveRuntime
  <2>4. \A v \in Workers : v # w => job'[v] = job[v]
    BY <1>1, <1>3 DEF SaveRuntime
  <2>5. \A v \in Workers : v # w /\ Saving(v) => ~job[v].alone /\ ~job[w].alone
    BY <1>1, <2>3 DEF ConfigInv, NoTwoAlone, Saving
  <2>6. NoTwoAlone'
    BY <1>1, <2>2, <2>3, <2>4, <2>5 DEF ConfigInv, NoTwoAlone, Saving
  <2>7. ASSUME NEW v \in Workers PROVE DoneSoFar(v)'
    <3>1. CASE v = w
      BY <1>1, <2>1, <2>2, <2>3, <3>1 DEF ConfigInv, DoneSoFar
    <3>2. CASE v # w
      BY <1>1, <2>1, <2>4, <2>5, <3>2 DEF ConfigInv, DoneSoFar, Saving
    <3> QED
      BY <3>1, <3>2
  <2>8. Agreed'
    BY <2>2 DEF Agreed, Replacing
  <2> QED
    BY <2>6, <2>7, <2>8 DEF ConfigInv
<1>4. ASSUME NEW w \in Workers, SaveFails(w)
      PROVE  ConfigInv'
  <2>1. UNCHANGED <<saved, running, aria2, feishu, bot, mixed>>
    BY <1>4 DEF SaveFails, runtimeVars, botVars
  <2>2. job'[w].at = "idle"
    BY <1>1, <1>4 DEF SaveFails, Rest
  <2>3. job[w].at = "saving"
    BY <1>4 DEF SaveFails
  <2>4. \A v \in Workers : v # w => job'[v] = job[v]
    BY <1>1, <1>4 DEF SaveFails
  <2>5. \A v \in Workers : v # w /\ Saving(v) => ~job[v].alone /\ ~job[w].alone
    BY <1>1, <2>3 DEF ConfigInv, NoTwoAlone, Saving
  <2>6. NoTwoAlone'
    BY <1>1, <2>2, <2>3, <2>4, <2>5 DEF ConfigInv, NoTwoAlone, Saving
  <2>7. ASSUME NEW v \in Workers PROVE DoneSoFar(v)'
    <3>1. CASE v = w
      BY <1>1, <2>1, <2>2, <2>3, <3>1 DEF ConfigInv, DoneSoFar
    <3>2. CASE v # w
      BY <1>1, <2>1, <2>4, <2>5, <3>2 DEF ConfigInv, DoneSoFar, Saving
    <3> QED
      BY <3>1, <3>2
  <2>8. Agreed'
    BY <1>1, <2>1, <2>2, <2>3, <2>4 DEF Agreed, Consistent, Replacing, ConfigInv
  <2> QED
    BY <2>6, <2>7, <2>8 DEF ConfigInv
<1>5. ASSUME NEW w \in Workers, ReplaceRunning(w)
      PROVE  ConfigInv'
  <2>1. running' = job[w].cfg /\ UNCHANGED <<saved, aria2, feishu, bot, mixed>>
    BY <1>5 DEF ReplaceRunning, runtimeVars, botVars
  <2>2. job'[w].at = "aria2" /\ job'[w].cfg = job[w].cfg /\ job'[w].alone = job[w].alone
    BY <1>1, <1>5 DEF ReplaceRunning, Job
  <2>3. job[w].at = "running"
    BY <1>5 DEF ReplaceRunning
  <2>4. \A v \in Workers : v # w => job'[v] = job[v]
    BY <1>1, <1>5 DEF ReplaceRunning
  <2>5. \A v \in Workers : v # w /\ Saving(v) => ~job[v].alone /\ ~job[w].alone
    BY <1>1, <2>3 DEF ConfigInv, NoTwoAlone, Saving
  <2>6. NoTwoAlone'
    BY <1>1, <2>2, <2>3, <2>4, <2>5 DEF ConfigInv, NoTwoAlone, Saving
  <2>7. ASSUME NEW v \in Workers PROVE DoneSoFar(v)'
    <3>1. CASE v = w
      BY <1>1, <2>1, <2>2, <2>3, <3>1 DEF ConfigInv, DoneSoFar
    <3>2. CASE v # w
      BY <1>1, <2>1, <2>4, <2>5, <3>2 DEF ConfigInv, DoneSoFar, Saving
    <3> QED
      BY <3>1, <3>2
  <2>8. Agreed'
    BY <2>2 DEF Agreed, Replacing
  <2> QED
    BY <2>6, <2>7, <2>8 DEF ConfigInv
<1>6. ASSUME NEW w \in Workers, ReplaceAria2(w)
      PROVE  ConfigInv'
  <2>1. aria2' = job[w].cfg /\ UNCHANGED <<saved, running, feishu, bot, mixed>>
    BY <1>6 DEF ReplaceAria2, runtimeVars, botVars
  <2>2. job'[w].at = "bot" /\ job'[w].cfg = job[w].cfg /\ job'[w].alone = job[w].alone
    BY <1>1, <1>6 DEF ReplaceAria2, Job
  <2>3. job[w].at = "aria2"
    BY <1>6 DEF ReplaceAria2
  <2>4. \A v \in Workers : v # w => job'[v] = job[v]
    BY <1>1, <1>6 DEF ReplaceAria2
  <2>5. \A v \in Workers : v # w /\ Saving(v) => ~job[v].alone /\ ~job[w].alone
    BY <1>1, <2>3 DEF ConfigInv, NoTwoAlone, Saving
  <2>6. NoTwoAlone'
    BY <1>1, <2>2, <2>3, <2>4, <2>5 DEF ConfigInv, NoTwoAlone, Saving
  <2>7. ASSUME NEW v \in Workers PROVE DoneSoFar(v)'
    <3>1. CASE v = w
      BY <1>1, <2>1, <2>2, <2>3, <3>1 DEF ConfigInv, DoneSoFar
    <3>2. CASE v # w
      BY <1>1, <2>1, <2>4, <2>5, <3>2 DEF ConfigInv, DoneSoFar, Saving
    <3> QED
      BY <3>1, <3>2
  <2>8. Agreed'
    BY <2>2 DEF Agreed, Replacing
  <2> QED
    BY <2>6, <2>7, <2>8 DEF ConfigInv
<1>7. ASSUME NEW w \in Workers, ReplaceBot(w)
      PROVE  ConfigInv'
  <2>1. UNCHANGED <<saved, running, aria2>> /\ mixed' = ~job[w].alone
    BY <1>7 DEF ReplaceBot, runtimeVars, botVars
  <2>2. job'[w].at = "idle"
    BY <1>1, <1>7 DEF ReplaceBot, Rest
  <2>3. job[w].at = "bot"
    BY <1>7 DEF ReplaceBot
  <2>4. \A v \in Workers : v # w => job'[v] = job[v]
    BY <1>1, <1>7 DEF ReplaceBot
  <2>5. \A v \in Workers : v # w /\ Saving(v) => ~job[v].alone /\ ~job[w].alone
    BY <1>1, <2>3 DEF ConfigInv, NoTwoAlone, Saving
  <2>6. NoTwoAlone'
    BY <1>1, <2>2, <2>3, <2>4, <2>5 DEF ConfigInv, NoTwoAlone, Saving
  <2>7. ASSUME NEW v \in Workers PROVE DoneSoFar(v)'
    <3>1. CASE v = w
      BY <1>1, <2>1, <2>2, <2>3, <3>1 DEF ConfigInv, DoneSoFar
    <3>2. CASE v # w
      BY <1>1, <2>1, <2>4, <2>5, <3>2 DEF ConfigInv, DoneSoFar, Saving
    <3> QED
      BY <3>1, <3>2
  <2>8. Agreed'
    <3>1. SUFFICES ASSUME job[w].alone PROVE Consistent'
      BY <2>1 DEF Agreed
    <3>2. saved = job[w].cfg /\ running = job[w].cfg /\ aria2 = job[w].cfg
      BY <1>1, <2>3, <3>1 DEF ConfigInv, DoneSoFar
    <3>3. job[w].cfg \in Configs /\ ~Sending(w)
      BY <1>1, <2>3 DEF Fits, SaveFits, SavingPlaces, Sending
    <3>4. Fresh(feishu, Sending) \in Ids
      BY <3>3, FreshBot
    <3>5. bot'[feishu'].cfg = job[w].cfg
      BY <1>1, <1>7, <3>4 DEF ReplaceBot, DbTyped
    <3> QED
      BY <2>1, <3>2, <3>3, <3>5, ClientsAssumption DEF Consistent
  <2> QED
    BY <2>6, <2>7, <2>8 DEF ConfigInv
<1>8. ASSUME NEW w \in Workers, NEW mode \in {"webhook", "api"}, BeginMessage(w, mode)
      PROVE  ConfigInv'
  <2>1. UNCHANGED <<saved, running, aria2, feishu, mixed>> /\ bot'[feishu].cfg = bot[feishu].cfg
    BY <1>1, <1>8 DEF BeginMessage, runtimeVars, botVars
  <2>2. job[w].at \notin SavingPlaces
    BY <1>8 DEF BeginMessage, SavingPlaces, Idle
  <2>3. job'[w].at \notin SavingPlaces
    BY <1>1, <1>8 DEF BeginMessage, Idle, Rest, SavingPlaces, Job
  <2>4. \A v \in Workers : v # w => job'[v] = job[v]
    BY <1>1, <1>8 DEF BeginMessage
  <2> QED
    BY <1>1, <2>1, <2>2, <2>3, <2>4, Unconcerned DEF SameSave
<1>9. ASSUME NEW w \in Workers, ReadCache(w)
      PROVE  ConfigInv'
  <2>1. UNCHANGED <<saved, running, aria2, feishu, mixed>> /\ bot'[feishu].cfg = bot[feishu].cfg
    BY <1>1, <1>9 DEF ReadCache, runtimeVars, botVars
  <2>2. job[w].at \notin SavingPlaces
    BY <1>9 DEF ReadCache, SavingPlaces
  <2>3. job'[w].at \notin SavingPlaces
    BY <1>1, <1>9 DEF ReadCache, Ready, SavingPlaces, Job
  <2>4. \A v \in Workers : v # w => job'[v] = job[v]
    BY <1>1, <1>9 DEF ReadCache
  <2> QED
    BY <1>1, <2>1, <2>2, <2>3, <2>4, Unconcerned DEF SameSave
<1>10. ASSUME NEW w \in Workers, TakeLock(w)
      PROVE  ConfigInv'
  <2>1. UNCHANGED <<saved, running, aria2, feishu, mixed>> /\ bot'[feishu].cfg = bot[feishu].cfg
    BY <1>1, <1>10 DEF TakeLock, runtimeVars, botVars
  <2>2. job[w].at \notin SavingPlaces
    BY <1>10 DEF TakeLock, SavingPlaces
  <2>3. job'[w].at \notin SavingPlaces
    BY <1>1, <1>10 DEF TakeLock, Ready, SavingPlaces, Job
  <2>4. \A v \in Workers : v # w => job'[v] = job[v]
    BY <1>1, <1>10 DEF TakeLock
  <2> QED
    BY <1>1, <2>1, <2>2, <2>3, <2>4, Unconcerned DEF SameSave
<1>11. ASSUME NEW w \in Workers, NEW ok \in BOOLEAN, FetchToken(w, ok)
      PROVE  ConfigInv'
  <2>1. UNCHANGED <<saved, running, aria2, feishu, mixed>> /\ bot'[feishu].cfg = bot[feishu].cfg
    BY <1>1, <1>11 DEF FetchToken, runtimeVars, botVars, DbTyped
  <2>2. job[w].at \notin SavingPlaces
    BY <1>11 DEF FetchToken, SavingPlaces
  <2>3. job'[w].at \notin SavingPlaces
    BY <1>1, <1>11 DEF FetchToken, Rest, SavingPlaces, Job
  <2>4. \A v \in Workers : v # w => job'[v] = job[v]
    BY <1>1, <1>11 DEF FetchToken
  <2> QED
    BY <1>1, <2>1, <2>2, <2>3, <2>4, Unconcerned DEF SameSave
<1>12. ASSUME NEW w \in Workers, Unreached(w)
      PROVE  ConfigInv'
  <2>1. UNCHANGED <<saved, running, aria2, feishu, mixed>> /\ bot'[feishu].cfg = bot[feishu].cfg
    BY <1>1, <1>12 DEF Unreached, runtimeVars, botVars
  <2>2. job[w].at \notin SavingPlaces
    BY <1>12 DEF Unreached, SavingPlaces
  <2>3. job'[w].at \notin SavingPlaces
    BY <1>1, <1>12 DEF Unreached, Retried, Rest, SavingPlaces, Job
  <2>4. \A v \in Workers : v # w => job'[v] = job[v]
    BY <1>1, <1>12 DEF Unreached
  <2> QED
    BY <1>1, <2>1, <2>2, <2>3, <2>4, Unconcerned DEF SameSave
<1>13. ASSUME NEW w \in Workers, NEW answered \in BOOLEAN, TakenByFeishu(w, answered)
      PROVE  ConfigInv'
  <2>1. UNCHANGED <<saved, running, aria2, feishu, mixed>> /\ bot'[feishu].cfg = bot[feishu].cfg
    BY <1>1, <1>13 DEF TakenByFeishu, runtimeVars, botVars
  <2>2. job[w].at \notin SavingPlaces
    BY <1>13 DEF TakenByFeishu, SavingPlaces
  <2>3. job'[w].at \notin SavingPlaces
    <3> DEFINE j == [job[w] EXCEPT !.unread = FALSE, !.taken = job[w].taken + 1]
    <3>1. job'[w] = IF answered THEN Rest ELSE Retried(j)
      BY <1>1, <1>13 DEF TakenByFeishu
    <3>2. Retried(j).at \in {"post", "idle"}
      BY <1>1 DEF Retried, Rest, Job
    <3> HIDE DEF j
    <3>3. Rest.at = "idle"
      BY DEF Rest
    <3>4. job'[w] = Rest \/ job'[w] = Retried(j)
      BY <3>1
    <3> QED
      BY <3>2, <3>3, <3>4 DEF SavingPlaces
  <2>4. \A v \in Workers : v # w => job'[v] = job[v]
    BY <1>1, <1>13 DEF TakenByFeishu
  <2> QED
    BY <1>1, <2>1, <2>2, <2>3, <2>4, Unconcerned DEF SameSave
<1>14. ASSUME NEW w \in Workers, NEW why \in {"token", "garbled", "other"}, RefusedByFeishu(w, why)
      PROVE  ConfigInv'
  <2>1. UNCHANGED <<saved, running, aria2, feishu, mixed>> /\ bot'[feishu].cfg = bot[feishu].cfg
    BY <1>1, <1>14 DEF RefusedByFeishu, runtimeVars, botVars
  <2>2. job[w].at \notin SavingPlaces
    BY <1>14 DEF RefusedByFeishu, SavingPlaces
  <2>3. job'[w].at \notin SavingPlaces
    BY <1>1, <1>14 DEF RefusedByFeishu, Retried, Rest, SavingPlaces, Job
  <2>4. \A v \in Workers : v # w => job'[v] = job[v]
    BY <1>1, <1>14 DEF RefusedByFeishu
  <2> QED
    BY <1>1, <2>1, <2>2, <2>3, <2>4, Unconcerned DEF SameSave
<1>15. ASSUME NEW w \in Workers, RefusedLocally(w)
      PROVE  ConfigInv'
  <2>1. UNCHANGED <<saved, running, aria2, feishu, mixed>> /\ bot'[feishu].cfg = bot[feishu].cfg
    BY <1>1, <1>15 DEF RefusedLocally, runtimeVars, botVars
  <2>2. job[w].at \notin SavingPlaces
    BY <1>15 DEF RefusedLocally, SavingPlaces
  <2>3. job'[w].at \notin SavingPlaces
    BY <1>1, <1>15 DEF RefusedLocally, Retried, Rest, SavingPlaces, Job
  <2>4. \A v \in Workers : v # w => job'[v] = job[v]
    BY <1>1, <1>15 DEF RefusedLocally
  <2> QED
    BY <1>1, <2>1, <2>2, <2>3, <2>4, Unconcerned DEF SameSave
<1>16. ASSUME NEW w \in Workers, DropToken(w)
      PROVE  ConfigInv'
  <2>1. UNCHANGED <<saved, running, aria2, feishu, mixed>> /\ bot'[feishu].cfg = bot[feishu].cfg
    BY <1>1, <1>16 DEF DropToken, runtimeVars, botVars, DbTyped
  <2>2. job[w].at \notin SavingPlaces
    BY <1>16 DEF DropToken, SavingPlaces
  <2>3. job'[w].at \notin SavingPlaces
    BY <1>1, <1>16 DEF DropToken, Retried, Rest, SavingPlaces, Job
  <2>4. \A v \in Workers : v # w => job'[v] = job[v]
    BY <1>1, <1>16 DEF DropToken
  <2> QED
    BY <1>1, <2>1, <2>2, <2>3, <2>4, Unconcerned DEF SameSave
<1>17. ASSUME NEW w \in Workers, NEW mode \in {"search", "subtitle"}, BeginSubtitle(w, mode)
      PROVE  ConfigInv'
  <2>1. UNCHANGED <<saved, running, aria2, feishu, mixed, bot>>
    BY <1>17 DEF BeginSubtitle, runtimeVars, botVars
  <2>2. ASSUME NEW v \in Workers PROVE SameSave(v)
    <3>1. CASE v = w
      <4>1. job[w].at = "idle"
        BY <1>17 DEF BeginSubtitle, Idle
      <4> DEFINE alone == \A u \in Workers : ~Subtitle(u)
      <4>2. job'[w] = [[Rest EXCEPT !.at = "client", !.mode = mode, !.cred = account] EXCEPT !.alone = alone]
        BY <1>17 DEF BeginSubtitle, Begun
      <4> HIDE DEF alone
      <4>3. job'[w].at = "client"
        BY <4>2 DEF Rest
      <4> QED
        BY <3>1, <4>1, <4>3 DEF SameSave, SavingPlaces
    <3>2. CASE v # w /\ Subtitle(v)
      <4>1. job[v].at \notin SavingPlaces
        BY <1>1, <3>2 DEF Subtitle, Fits, SaveFits
      <4>2. job'[v] = [job[v] EXCEPT !.alone = FALSE]
        BY <1>17, <3>2 DEF BeginSubtitle, Begun
      <4>3. job'[v].at = job[v].at
        BY <1>1, <4>2, NotAlone
      <4> QED
        BY <4>1, <4>3 DEF SameSave
    <3>3. CASE v # w /\ ~Subtitle(v)
      <4>1. job'[v] = job[v]
        BY <1>17, <3>3 DEF BeginSubtitle, Begun
      <4> QED
        BY <4>1 DEF SameSave
    <3> QED
      BY <3>1, <3>2, <3>3
  <2> QED
    BY <1>1, <2>1, <2>2, Unconcerned
<1>18. ASSUME NEW w \in Workers, ClientFor(w)
      PROVE  ConfigInv'
  <2>1. UNCHANGED <<saved, running, aria2, feishu, mixed>> /\ bot'[feishu].cfg = bot[feishu].cfg
    BY <1>1, <1>18 DEF ClientFor, runtimeVars, botVars
  <2>2. job[w].at \notin SavingPlaces
    BY <1>18 DEF ClientFor, SavingPlaces
  <2>3. job'[w].at \notin SavingPlaces
    <3>1. job'[w].at \in {"search", "ensure"}
      BY <1>1, <1>18 DEF ClientFor, Job
    <3> QED
      BY <3>1 DEF SavingPlaces
  <2>4. \A v \in Workers : v # w => job'[v] = job[v]
    BY <1>1, <1>18 DEF ClientFor
  <2> QED
    BY <1>1, <2>1, <2>2, <2>3, <2>4, Unconcerned DEF SameSave
<1>19. ASSUME NEW w \in Workers, EnsureToken(w)
      PROVE  ConfigInv'
  <2>1. UNCHANGED <<saved, running, aria2, feishu, mixed>> /\ bot'[feishu].cfg = bot[feishu].cfg
    BY <1>1, <1>19 DEF EnsureToken, runtimeVars, botVars
  <2>2. job[w].at \notin SavingPlaces
    BY <1>19 DEF EnsureToken, SavingPlaces
  <2>3. job'[w].at \notin SavingPlaces
    BY <1>1, <1>19 DEF EnsureToken, SavingPlaces, Job
  <2>4. \A v \in Workers : v # w => job'[v] = job[v]
    BY <1>1, <1>19 DEF EnsureToken
  <2> QED
    BY <1>1, <2>1, <2>2, <2>3, <2>4, Unconcerned DEF SameSave
<1>20. ASSUME NEW w \in Workers, Login(w)
      PROVE  ConfigInv'
  <2>1. UNCHANGED <<saved, running, aria2, feishu, mixed>> /\ bot'[feishu].cfg = bot[feishu].cfg
    BY <1>1, <1>20 DEF Login, runtimeVars, botVars
  <2>2. job[w].at \notin SavingPlaces
    BY <1>20 DEF Login, SavingPlaces
  <2>3. job'[w].at \notin SavingPlaces
    BY <1>1, <1>20 DEF Login, SavingPlaces, Job
  <2>4. \A v \in Workers : v # w => job'[v] = job[v]
    BY <1>1, <1>20 DEF Login
  <2> QED
    BY <1>1, <2>1, <2>2, <2>3, <2>4, Unconcerned DEF SameSave
<1>21. ASSUME NEW w \in Workers, PostDownload(w)
      PROVE  ConfigInv'
  <2>1. UNCHANGED <<saved, running, aria2, feishu, mixed>> /\ bot'[feishu].cfg = bot[feishu].cfg
    BY <1>1, <1>21 DEF PostDownload, runtimeVars, botVars
  <2>2. job[w].at \notin SavingPlaces
    BY <1>21 DEF PostDownload, SavingPlaces
  <2>3. job'[w].at \notin SavingPlaces
    BY <1>1, <1>21 DEF PostDownload, Rest, SavingPlaces, Job
  <2>4. \A v \in Workers : v # w => job'[v] = job[v]
    BY <1>1, <1>21 DEF PostDownload
  <2> QED
    BY <1>1, <2>1, <2>2, <2>3, <2>4, Unconcerned DEF SameSave
<1>22. ASSUME NEW w \in Workers, ClearToken(w)
      PROVE  ConfigInv'
  <2>1. UNCHANGED <<saved, running, aria2, feishu, mixed>> /\ bot'[feishu].cfg = bot[feishu].cfg
    BY <1>1, <1>22 DEF ClearToken, runtimeVars, botVars
  <2>2. job[w].at \notin SavingPlaces
    BY <1>22 DEF ClearToken, SavingPlaces
  <2>3. job'[w].at \notin SavingPlaces
    BY <1>1, <1>22 DEF ClearToken, SavingPlaces, Job
  <2>4. \A v \in Workers : v # w => job'[v] = job[v]
    BY <1>1, <1>22 DEF ClearToken
  <2> QED
    BY <1>1, <2>1, <2>2, <2>3, <2>4, Unconcerned DEF SameSave
<1>23. ASSUME NEW w \in Workers, Search(w)
      PROVE  ConfigInv'
  <2>1. UNCHANGED <<saved, running, aria2, feishu, mixed>> /\ bot'[feishu].cfg = bot[feishu].cfg
    BY <1>1, <1>23 DEF Search, runtimeVars, botVars
  <2>2. job[w].at \notin SavingPlaces
    BY <1>23 DEF Search, SavingPlaces
  <2>3. job'[w].at \notin SavingPlaces
    BY <1>1, <1>23 DEF Search, Rest, SavingPlaces, Job
  <2>4. \A v \in Workers : v # w => job'[v] = job[v]
    BY <1>1, <1>23 DEF Search
  <2> QED
    BY <1>1, <2>1, <2>2, <2>3, <2>4, Unconcerned DEF SameSave
<1>24. ASSUME NEW w \in Workers, FetchFile(w)
      PROVE  ConfigInv'
  <2>1. UNCHANGED <<saved, running, aria2, feishu, mixed>> /\ bot'[feishu].cfg = bot[feishu].cfg
    BY <1>1, <1>24 DEF FetchFile, runtimeVars, botVars
  <2>2. job[w].at \notin SavingPlaces
    BY <1>24 DEF FetchFile, SavingPlaces
  <2>3. job'[w].at \notin SavingPlaces
    BY <1>1, <1>24 DEF FetchFile, SavingPlaces, Job
  <2>4. \A v \in Workers : v # w => job'[v] = job[v]
    BY <1>1, <1>24 DEF FetchFile
  <2> QED
    BY <1>1, <2>1, <2>2, <2>3, <2>4, Unconcerned DEF SameSave
<1>25. ASSUME NEW w \in Workers, SaveFile(w)
      PROVE  ConfigInv'
  <2>1. UNCHANGED <<saved, running, aria2, feishu, mixed>> /\ bot'[feishu].cfg = bot[feishu].cfg
    BY <1>1, <1>25 DEF SaveFile, runtimeVars, botVars
  <2>2. job[w].at \notin SavingPlaces
    BY <1>25 DEF SaveFile, SavingPlaces
  <2>3. job'[w].at \notin SavingPlaces
    BY <1>1, <1>25 DEF SaveFile, Rest, SavingPlaces, Job
  <2>4. \A v \in Workers : v # w => job'[v] = job[v]
    BY <1>1, <1>25 DEF SaveFile
  <2> QED
    BY <1>1, <2>1, <2>2, <2>3, <2>4, Unconcerned DEF SameSave
<1>26. ASSUME NEW w \in Workers, SubtitleFails(w)
      PROVE  ConfigInv'
  <2>1. UNCHANGED <<saved, running, aria2, feishu, mixed>> /\ bot'[feishu].cfg = bot[feishu].cfg
    BY <1>1, <1>26 DEF SubtitleFails, runtimeVars, botVars
  <2>2. job[w].at \notin SavingPlaces
    BY <1>26 DEF SubtitleFails, SavingPlaces
  <2>3. job'[w].at \notin SavingPlaces
    BY <1>1, <1>26 DEF SubtitleFails, Rest, SavingPlaces, Job
  <2>4. \A v \in Workers : v # w => job'[v] = job[v]
    BY <1>1, <1>26 DEF SubtitleFails
  <2> QED
    BY <1>1, <2>1, <2>2, <2>3, <2>4, Unconcerned DEF SameSave
<1>27. ASSUME NEW b \in Ids, TokenExpires(b)
      PROVE  ConfigInv'
  <2>1. UNCHANGED <<saved, running, aria2, feishu, mixed, job>> /\ bot'[feishu].cfg = bot[feishu].cfg
    BY <1>1, <1>27 DEF TokenExpires, runtimeVars, DbTyped
  <2> QED
    BY <1>1, <2>1, Unconcerned DEF SameSave
<1>28. ASSUME NEW a \in Accounts, SaveAccount(a)
      PROVE  ConfigInv'
  <2>1. UNCHANGED <<saved, running, aria2, feishu, mixed, job>> /\ bot'[feishu].cfg = bot[feishu].cfg
    BY <1>1, <1>28 DEF SaveAccount, runtimeVars, botVars
  <2> QED
    BY <1>1, <2>1, Unconcerned DEF SameSave
<1>29. CASE FeishuRevokes
  <2>1. UNCHANGED <<saved, running, aria2, feishu, mixed>> /\ bot'[feishu].cfg = bot[feishu].cfg
    BY <1>1, <1>29 DEF FeishuRevokes, runtimeVars, DbTyped
  <2>2. \A v \in Workers : SameSave(v)
    BY <1>1, <1>29 DEF FeishuRevokes, SameSave, Job
  <2> QED
    BY <1>1, <2>1, <2>2, Unconcerned
<1>30. CASE SessionsEnd
  <2>1. UNCHANGED <<saved, running, aria2, feishu, mixed, bot>>
    BY <1>30 DEF SessionsEnd, runtimeVars, botVars
  <2>2. ASSUME NEW v \in Workers PROVE SameSave(v)
    <3>1. CASE Subtitle(v)
      <4>1. job[v].at \notin SavingPlaces
        BY <1>1, <3>1 DEF Subtitle, Fits, SaveFits
      <4>2. job'[v] = [job[v] EXCEPT !.alone = FALSE]
        BY <1>30, <3>1 DEF SessionsEnd
      <4>3. job'[v].at = job[v].at
        BY <1>1, <4>2, NotAlone
      <4> QED
        BY <4>1, <4>3 DEF SameSave
    <3>2. CASE ~Subtitle(v)
      BY <1>30, <3>2 DEF SessionsEnd, SameSave
    <3> QED
      BY <3>1, <3>2
  <2> QED
    BY <1>1, <2>1, <2>2, Unconcerned
<1>31. CASE Restart
  <2> DEFINE cfg == IF saved = Unset THEN Env ELSE saved
  <2>1. Startup(cfg) /\ saved' = saved /\ 0 \in Ids
    BY <1>31, IdsFinite DEF Restart, Ids
  <2>2. Consistent'
    BY <2>1 DEF Startup, Consistent
  <2>3. \A v \in Workers : job'[v].at = "idle"
    BY <2>1 DEF Startup, Rest
  <2> QED
    BY <2>2, <2>3 DEF ConfigInv, NoTwoAlone, DoneSoFar, Agreed, Saving
<1>32. CASE UNCHANGED vars
  <2>1. UNCHANGED <<saved, running, aria2, feishu, mixed, job>> /\ bot'[feishu].cfg = bot[feishu].cfg
    BY <1>1, <1>32 DEF vars, runtimeVars, botVars
  <2> QED
    BY <1>1, <2>1, Unconcerned DEF SameSave
<1> QED
  BY <1>2, <1>3, <1>4, <1>5, <1>6, <1>7, <1>8, <1>9, <1>10, <1>11, <1>12, <1>13, <1>14, <1>15,
     <1>16, <1>17, <1>18, <1>19, <1>20, <1>21, <1>22, <1>23, <1>24, <1>25, <1>26, <1>27, <1>28,
     <1>29, <1>30, <1>31, <1>32
     DEF Next

-----------------------------------------------------------------------------
(* Subtitles.                                                              *)

SubtitlePlaces == {"client", "search", "ensure", "login", "request", "clear", "file", "write"}

\* A worker is at a subtitle or it is not.
SubtitleFits(w) == /\ job[w].at \in SubtitlePlaces <=> Subtitle(w)
                   /\ job[w].at = "search" => job[w].mode = "search"
                   /\ job[w].at = "client" => job[w].n = 0

\* Subtitle requests that overlap know it.
SubtitlesKnow == \A v, w \in Workers : v # w /\ Subtitle(v) /\ Subtitle(w) => ~job[v].alone

\* A download that is alone repeats its request with a token it has just got.
Renewed(w) == Subtitle(w) /\ job[w].alone /\ job[w].n # 0 =>
  /\ job[w].at = "ensure" => client[job[w].id].token = "none"
  /\ job[w].at = "request" => client[job[w].id].token = "good"

SubtitleInv == SubtitlesKnow /\ \A w \in Workers : SubtitleFits(w) /\ Renewed(w)

\* Worker w goes on with the subtitle it is at, or is at none afterwards.
SameSubtitle(w) ==
  \/ /\ job'[w].at = job[w].at /\ job'[w].mode = job[w].mode
     /\ job'[w].n = job[w].n /\ job'[w].id = job[w].id
     /\ job'[w].alone => job[w].alone
  \/ job'[w].at \notin SubtitlePlaces /\ job'[w].mode \notin {"search", "subtitle"}

LEMMA SubtitlesStay ==
  ASSUME SubtitleInv, UNCHANGED client, \A w \in Workers : SameSubtitle(w)
  PROVE  SubtitleInv'
<1>1. SubtitlesKnow'
  BY DEF SubtitleInv, SubtitlesKnow, SameSubtitle, Subtitle
<1>2. ASSUME NEW w \in Workers PROVE SubtitleFits(w)' /\ Renewed(w)'
  BY DEF SubtitleInv, SubtitleFits, Renewed, SameSubtitle, Subtitle, SubtitlePlaces
<1> QED
  BY <1>1, <1>2 DEF SubtitleInv

\* A step of one worker that is at no subtitle afterwards.
LEMMA SubtitlesApart ==
  ASSUME SubtitleInv, UNCHANGED client, NEW w \in Workers,
         \A v \in Workers \ {w} : job'[v] = job[v],
         job'[w].at \notin SubtitlePlaces, job'[w].mode \notin {"search", "subtitle"}
  PROVE  SubtitleInv'
BY SubtitlesStay DEF SameSubtitle

\* A step of a subtitle request: no other one is alone.
LEMMA SubtitleMoves ==
  ASSUME SubtitleInv, NEW w \in Workers, Subtitle(w),
         \A v \in Workers \ {w} : job'[v] = job[v],
         job'[w].mode = job[w].mode, job'[w].alone = job[w].alone,
         job'[w].at \in SubtitlePlaces \ {"client"},
         job'[w].at = "search" => job[w].mode = "search",
         Renewed(w)'
  PROVE  SubtitleInv'
<1>1. SubtitlesKnow'
  BY DEF SubtitleInv, SubtitlesKnow, Subtitle
<1>2. ASSUME NEW v \in Workers PROVE SubtitleFits(v)' /\ Renewed(v)'
  <2>1. CASE v = w
    BY <2>1 DEF SubtitleFits, Subtitle
  <2>2. CASE v # w
    BY <2>2 DEF SubtitleInv, SubtitlesKnow, SubtitleFits, Renewed, Subtitle
  <2> QED
    BY <2>1, <2>2
<1> QED
  BY <1>1, <1>2 DEF SubtitleInv

LEMMA InitSubtitleInv == Init => SubtitleInv
<1> SUFFICES ASSUME Init PROVE SubtitleInv
  OBVIOUS
<1>1. \A w \in Workers : job[w] = Rest
  BY DEF Init
<1>2. Rest.at = "idle" /\ Rest.mode = ""
  BY DEF Rest
<1> QED
  BY <1>1, <1>2 DEF SubtitleInv, SubtitlesKnow, SubtitleFits, Renewed, Subtitle, SubtitlePlaces

\* Where no subtitle is downloaded.
LEMMA ElsewhereStep ==
  ASSUME PInv, SubtitleInv, NEW w \in Workers,
         \/ \E cfg \in Configs : BeginSave(w, cfg)
         \/ SaveRuntime(w) \/ SaveFails(w) \/ ReplaceRunning(w) \/ ReplaceAria2(w) \/ ReplaceBot(w)
  PROVE  SubtitleInv' /\ \A v \in Workers : Subtitle(v) => job'[v].at # "idle"
<1>1. job \in [Workers -> Job] /\ Fits(job[w]) /\ UNCHANGED client
  BY DEF PInv, BeginSave, SaveRuntime, SaveFails, ReplaceRunning, ReplaceAria2, ReplaceBot, subVars
<1>2. /\ \A v \in Workers : SubtitleFits(v)
      /\ job[w].at \notin SubtitlePlaces /\ ~Subtitle(w)
  BY <1>1 DEF SubtitleInv, SubtitleFits, BeginSave, SaveRuntime, SaveFails, ReplaceRunning,
    ReplaceAria2, ReplaceBot, SubtitlePlaces, Idle
<1>3. ASSUME NEW cfg \in Configs, BeginSave(w, cfg)
      PROVE  \A v \in Workers : SameSubtitle(v) /\ (Subtitle(v) => job'[v].at # "idle")
  <2> SUFFICES ASSUME NEW v \in Workers
               PROVE  SameSubtitle(v) /\ (Subtitle(v) => job'[v].at # "idle")
    OBVIOUS
  <2>0. Subtitle(v) => job[v].at # "idle"
    BY <1>2 DEF SubtitleFits, SubtitlePlaces
  <2>1. CASE v = w
    <3> DEFINE alone == \A u \in Workers : ~Saving(u)
    <3>1. job'[w] = [[Rest EXCEPT !.at = "saving", !.cfg = cfg] EXCEPT !.alone = alone]
      BY <1>3 DEF BeginSave, Begun
    <3> HIDE DEF alone
    <3>2. job'[w].at = "saving" /\ job'[w].mode = ""
      BY <3>1 DEF Rest
    <3> QED
      BY <1>2, <2>1, <3>2 DEF SameSubtitle, SubtitlePlaces
  <2>2. CASE v # w /\ Saving(v)
    <3>1. job'[v] = [job[v] EXCEPT !.alone = FALSE]
      BY <1>3, <2>2 DEF BeginSave, Begun
    <3> QED
      BY <1>1, <2>0, <3>1 DEF SameSubtitle, Job
  <2>3. CASE v # w /\ ~Saving(v)
    <3>1. job'[v] = job[v]
      BY <1>3, <2>3 DEF BeginSave, Begun
    <3> QED
      BY <2>0, <3>1 DEF SameSubtitle
  <2> QED
    BY <2>1, <2>2, <2>3
<1>4. CASE SaveRuntime(w) \/ SaveFails(w) \/ ReplaceRunning(w) \/ ReplaceAria2(w) \/ ReplaceBot(w)
  <2>1. job'[w].at \in {"idle", "running", "aria2", "bot"} /\ job'[w].mode = ""
    <3>1. job[w] \in Job /\ job[w].mode = ""
      BY <1>1, <1>4 DEF SaveRuntime, SaveFails, ReplaceRunning, ReplaceAria2, ReplaceBot, PInv,
        Fits, SaveFits, SavingPlaces
    <3>2. CASE SaveFails(w) \/ ReplaceBot(w)
      <4>1. job'[w] = Rest /\ Rest.at = "idle" /\ Rest.mode = ""
        BY <1>1, <3>2 DEF SaveFails, ReplaceBot, Rest
      <4> QED
        BY <4>1
    <3>3. PICK p \in {"idle", "running", "aria2", "bot"} :
            job'[w] = [job[w] EXCEPT !.at = p] \/ SaveFails(w) \/ ReplaceBot(w)
      BY <1>1, <1>4 DEF SaveRuntime, ReplaceRunning, ReplaceAria2
    <3> QED
      BY <3>1, <3>2, <3>3 DEF Job
  <2>2. \A v \in Workers \ {w} : job'[v] = job[v]
    BY <1>1, <1>4 DEF SaveRuntime, SaveFails, ReplaceRunning, ReplaceAria2, ReplaceBot
  <2> QED
    BY <1>1, <1>2, <2>1, <2>2, SubtitlesApart DEF SubtitlePlaces, SubtitleFits
<1> QED
  BY <1>1, <1>3, <1>4, SubtitlesStay

LEMMA MessageStep ==
  ASSUME PInv, SubtitleInv, NEW w \in Workers,
         \/ \E mode \in {"webhook", "api"} : BeginMessage(w, mode)
         \/ ReadCache(w) \/ TakeLock(w) \/ \E ok \in BOOLEAN : FetchToken(w, ok)
         \/ Unreached(w) \/ \E answered \in BOOLEAN : TakenByFeishu(w, answered)
         \/ \E why \in {"token", "garbled", "other"} : RefusedByFeishu(w, why)
         \/ RefusedLocally(w) \/ DropToken(w)
  PROVE  SubtitleInv' /\ \A v \in Workers : Subtitle(v) => job'[v].at # "idle"
<1>1. job[w] \in Job /\ job \in [Workers -> Job] /\ UNCHANGED client
  BY DEF PInv, BeginMessage, ReadCache, TakeLock, FetchToken, Unreached, TakenByFeishu,
    RefusedByFeishu, RefusedLocally, DropToken, subVars
<1>2. /\ \A v \in Workers : SubtitleFits(v)
      /\ job[w].at \notin SubtitlePlaces /\ ~Subtitle(w)
  BY DEF SubtitleInv, SubtitleFits, SubtitlePlaces, Idle, BeginMessage, ReadCache, TakeLock,
    FetchToken, Unreached, TakenByFeishu, RefusedByFeishu, RefusedLocally, DropToken
<1>3. \A v \in Workers \ {w} : job'[v] = job[v]
  BY <1>1 DEF BeginMessage, ReadCache, TakeLock, FetchToken, Unreached, TakenByFeishu,
    RefusedByFeishu, RefusedLocally, DropToken
<1> DEFINE Apart(j) == /\ j.at \in {"idle", "cache", "lock", "fetch", "post", "drop"}
                       /\ j.mode \in {"", "webhook", "api"} \cup {job[w].mode}
<1>4. /\ Apart(Rest)
      /\ \A j \in Job : j.mode = job[w].mode => Apart(Retried(j))
  BY DEF Retried, Rest, Job
<1>5. Apart(job'[w])
  <2>1. CASE \E mode \in {"webhook", "api"} : BeginMessage(w, mode)
    <3>1. PICK mode \in {"webhook", "api"} : job'[w] =
            [Rest EXCEPT !.at = IF mode = "api" THEN "cache" ELSE "post", !.mode = mode, !.id = feishu]
      BY <1>1, <2>1 DEF BeginMessage
    <3>2. job'[w].at \in {"cache", "post"} /\ job'[w].mode = mode
      BY <3>1 DEF Rest
    <3> QED
      BY <3>2
  <2>2. CASE ReadCache(w) \/ TakeLock(w)
    <3>1. PICK p \in {"lock", "fetch"} : job'[w] = Ready(w) \/ job'[w] = [job[w] EXCEPT !.at = p]
      BY <1>1, <2>2 DEF ReadCache, TakeLock
    <3>2. /\ Ready(w).at = "post" /\ Ready(w).mode = job[w].mode
          /\ [job[w] EXCEPT !.at = p].at = p /\ [job[w] EXCEPT !.at = p].mode = job[w].mode
      BY <1>1 DEF Ready, Job
    <3> QED
      BY <3>1, <3>2
  <2>3. CASE \E ok \in BOOLEAN : FetchToken(w, ok)
    <3> DEFINE j == [job[w] EXCEPT !.at = "post", !.tok = "good"]
    <3>1. job'[w] = j \/ job'[w] = Rest
      BY <1>1, <2>3 DEF FetchToken
    <3>2. j.at = "post" /\ j.mode = job[w].mode
      BY <1>1 DEF Job
    <3> QED
      BY <1>4, <3>1, <3>2
  <2>4. CASE Unreached(w) \/ RefusedLocally(w) \/ DropToken(w)
    <3>1. job'[w] = Retried(job[w])
      BY <1>1, <2>4 DEF Unreached, RefusedLocally, DropToken
    <3> QED
      BY <1>1, <1>4, <3>1
  <2>5. ASSUME NEW answered \in BOOLEAN, TakenByFeishu(w, answered) PROVE Apart(job'[w])
    <3> DEFINE j == [job[w] EXCEPT !.unread = FALSE, !.taken = job[w].taken + 1]
    <3>1. job'[w] = Rest \/ job'[w] = Retried(j)
      BY <1>1, <2>5 DEF TakenByFeishu
    <3>2. Apart(Retried(j))
      BY <1>1 DEF Retried, Rest, Job
    <3> QED
      BY <1>4, <3>1, <3>2
  <2>6. ASSUME NEW why \in {"token", "garbled", "other"}, RefusedByFeishu(w, why)
        PROVE  Apart(job'[w])
    <3> DEFINE j == [job[w] EXCEPT !.unread = FALSE]
               k == [job[w] EXCEPT !.at = "drop", !.unread = FALSE]
    <3>1. job'[w] = Rest \/ job'[w] = Retried(j) \/ job'[w] = k
      BY <1>1, <2>6 DEF RefusedByFeishu
    <3>2. Apart(Retried(j)) /\ Apart(k)
      BY <1>1 DEF Retried, Rest, Job
    <3> QED
      BY <1>4, <3>1, <3>2
  <2> QED
    BY <2>1, <2>2, <2>3, <2>4, <2>5, <2>6
<1>6. \A v \in Workers : Subtitle(v) => job'[v].at # "idle"
  BY <1>2, <1>3 DEF SubtitleFits, SubtitlePlaces
<1> QED
  BY <1>1, <1>2, <1>3, <1>4, <1>5, <1>6, SubtitlesApart DEF Subtitle, SubtitlePlaces

LEMMA SubtitleStep ==
  ASSUME PInv, SubtitleInv, NEW w \in Workers,
         ClientFor(w) \/ EnsureToken(w) \/ Login(w) \/ PostDownload(w) \/ ClearToken(w) \/ FetchFile(w)
  PROVE  /\ SubtitleInv'
         /\ \A v \in Workers : Subtitle(v) /\ job[v].alone => job'[v].at # "idle"
<1>1. /\ job \in [Workers -> Job] /\ job[w] \in Job
      /\ client \in [Ids -> [cred : Accounts \cup {NoAccount}, token : Tokens]]
      /\ job[w].id \in Ids
  BY DEF PInv, DbTyped, Job
<1>2. /\ \A v \in Workers : SubtitleFits(v) /\ Renewed(v)
      /\ job[w].at \in SubtitlePlaces /\ Subtitle(w)
  BY DEF SubtitleInv, SubtitleFits, SubtitlePlaces, ClientFor, EnsureToken, Login, PostDownload,
    ClearToken, FetchFile
<1>3. \A v \in Workers \ {w} : job'[v] = job[v]
  BY <1>1 DEF ClientFor, EnsureToken, Login, PostDownload, ClearToken, FetchFile
<1>4. \/ job'[w] = Rest /\ ~job[w].alone /\ UNCHANGED client
      \/ /\ job'[w].mode = job[w].mode /\ job'[w].alone = job[w].alone
         /\ job'[w].at \in SubtitlePlaces \ {"client"}
         /\ (job'[w].at = "search" => job[w].mode = "search") /\ Renewed(w)'
  <2>1. CASE ClientFor(w)
    <3>1. PICK c : job'[w] = [job[w] EXCEPT !.id = c,
                     !.at = IF job[w].mode = "search" THEN "search" ELSE "ensure"]
      BY <1>1, <2>1 DEF ClientFor
    <3>2. job[w].n = 0
      BY <1>2, <2>1 DEF ClientFor, SubtitleFits
    <3> QED
      BY <1>1, <3>1, <3>2 DEF Job, SubtitlePlaces, Renewed
  <2>2. CASE EnsureToken(w)
    BY <1>1, <1>2, <2>2 DEF EnsureToken, Job, SubtitlePlaces, Renewed, Subtitle, subVars
  <2>3. CASE Login(w)
    <3>1. job'[w] = [job[w] EXCEPT !.at = "request"] /\ client'[job[w].id].token = "good"
      BY <1>1, <2>3 DEF Login
    <3> QED
      BY <1>1, <3>1 DEF Job, SubtitlePlaces, Renewed
  <2>4. CASE PostDownload(w)
    BY <1>1, <1>2, <2>4 DEF PostDownload, Job, SubtitlePlaces, Renewed, subVars
  <2>5. CASE ClearToken(w)
    <3>1. job'[w] = [job[w] EXCEPT !.at = "ensure"] /\ client'[job[w].id].token = "none"
      BY <1>1, <2>5 DEF ClearToken
    <3> QED
      BY <1>1, <3>1 DEF Job, SubtitlePlaces, Renewed
  <2>6. CASE FetchFile(w)
    BY <1>1, <1>2, <2>6 DEF FetchFile, Job, SubtitlePlaces, Renewed
  <2> QED
    BY <2>1, <2>2, <2>3, <2>4, <2>5, <2>6
<1>5. SubtitleInv'
  <2>1. Rest.at \notin SubtitlePlaces /\ Rest.mode \notin {"search", "subtitle"}
    BY DEF Rest, SubtitlePlaces
  <2>2. CASE job'[w] = Rest /\ UNCHANGED client
    BY <1>3, <2>1, <2>2, SubtitlesApart
  <2> QED
    BY <1>2, <1>3, <1>4, <2>2, SubtitleMoves
<1> QED
  BY <1>2, <1>3, <1>4, <1>5 DEF SubtitleFits, SubtitlePlaces

LEMMA WorldStep ==
  ASSUME PInv, SubtitleInv,
         \/ \E b \in Ids : TokenExpires(b)
         \/ \E a \in Accounts : SaveAccount(a)
         \/ FeishuRevokes \/ UNCHANGED vars
  PROVE  SubtitleInv' /\ \A v \in Workers : Subtitle(v) => job'[v].at # "idle"
<1>1. job \in [Workers -> Job] /\ UNCHANGED client
  BY DEF PInv, TokenExpires, SaveAccount, FeishuRevokes, vars, subVars
<1>2. ASSUME NEW v \in Workers
      PROVE  /\ job'[v].at = job[v].at /\ job'[v].mode = job[v].mode /\ job'[v].n = job[v].n
             /\ job'[v].id = job[v].id /\ job'[v].alone = job[v].alone
  <2>1. CASE FeishuRevokes
    <3>1. job'[v] = [job[v] EXCEPT !.tok = Dead(@)]
      BY <2>1 DEF FeishuRevokes
    <3> QED
      BY <1>1, <3>1 DEF Job
  <2>2. CASE job' = job
    BY <2>2
  <2> QED
    BY <2>1, <2>2 DEF TokenExpires, SaveAccount, vars
<1> QED
  BY <1>1, <1>2, SubtitlesStay DEF SameSubtitle, SubtitleInv, SubtitleFits, SubtitlePlaces

LEMMA BeginSubtitleStep ==
  ASSUME PInv, SubtitleInv, NEW w \in Workers, NEW mode \in {"search", "subtitle"},
         BeginSubtitle(w, mode)
  PROVE  SubtitleInv' /\ \A v \in Workers : Subtitle(v) => job'[v].at # "idle"
<1>1. job \in [Workers -> Job] /\ UNCHANGED client /\ \A v \in Workers : SubtitleFits(v)
  BY DEF PInv, BeginSubtitle, subVars, SubtitleInv
<1> DEFINE alone == \A u \in Workers : ~Subtitle(u)
<1>2. job'[w] = [[Rest EXCEPT !.at = "client", !.mode = mode, !.cred = account] EXCEPT !.alone = alone]
  BY DEF BeginSubtitle, Begun
<1> HIDE DEF alone
<1>3. /\ job'[w].at = "client" /\ job'[w].mode = mode /\ job'[w].n = 0
      /\ job'[w].alone = alone
  BY <1>2 DEF Rest
<1>4. ASSUME NEW v \in Workers \ {w}
      PROVE  /\ job'[v].at = job[v].at /\ job'[v].mode = job[v].mode /\ job'[v].n = job[v].n
             /\ Subtitle(v) => ~job'[v].alone
  <2>1. CASE Subtitle(v)
    <3>1. job'[v] = [job[v] EXCEPT !.alone = FALSE]
      BY <2>1 DEF BeginSubtitle, Begun
    <3>2. job[v] \in Job
      BY <1>1
    <3> QED
      BY <3>1, <3>2 DEF Job
  <2>2. CASE ~Subtitle(v)
    BY <2>2 DEF BeginSubtitle, Begun
  <2> QED
    BY <2>1, <2>2
<1>5. SubtitlesKnow'
  BY <1>3, <1>4 DEF SubtitlesKnow, Subtitle, alone
<1>6. ASSUME NEW v \in Workers PROVE SubtitleFits(v)' /\ Renewed(v)'
  BY <1>1, <1>3, <1>4 DEF SubtitleFits, Renewed, Subtitle, SubtitlePlaces
<1>7. \A v \in Workers : Subtitle(v) => job'[v].at # "idle"
  BY <1>1, <1>3, <1>4 DEF SubtitleFits, SubtitlePlaces
<1> QED
  BY <1>5, <1>6, <1>7 DEF SubtitleInv

LEMMA SessionsEndStep ==
  ASSUME PInv, SubtitleInv, SessionsEnd
  PROVE  SubtitleInv'
<1>1. job \in [Workers -> Job]
  BY DEF PInv
<1>2. ASSUME NEW v \in Workers
      PROVE  /\ job'[v].at = job[v].at /\ job'[v].mode = job[v].mode /\ job'[v].n = job[v].n
             /\ Subtitle(v) => ~job'[v].alone
  <2>1. CASE Subtitle(v)
    <3>1. job'[v] = [job[v] EXCEPT !.alone = FALSE]
      BY <2>1 DEF SessionsEnd
    <3> QED
      BY <1>1, <3>1 DEF Job
  <2>2. CASE ~Subtitle(v)
    BY <2>2 DEF SessionsEnd
  <2> QED
    BY <2>1, <2>2
<1> QED
  BY <1>2 DEF SubtitleInv, SubtitlesKnow, SubtitleFits, Renewed, Subtitle

LEMMA RestartStep ==
  ASSUME Restart
  PROVE  SubtitleInv'
<1>1. \A w \in Workers : job'[w] = Rest
  BY DEF Restart, Startup
<1>2. Rest.at = "idle" /\ Rest.mode = ""
  BY DEF Rest
<1> QED
  BY <1>1, <1>2 DEF SubtitleInv, SubtitlesKnow, SubtitleFits, Renewed, Subtitle, SubtitlePlaces

\* A subtitle request that ends, and why.
LEMMA EndStep ==
  ASSUME PInv, SubtitleInv, NEW w \in Workers, Search(w) \/ SaveFile(w) \/ SubtitleFails(w)
  PROVE  /\ SubtitleInv'
         /\ \A v \in Workers : (job[v].mode = "subtitle" /\ job'[v].at = "idle" /\ events' = events)
               => job[v].at = "write"
<1>1. /\ job \in [Workers -> Job] /\ \A v \in Workers : SubtitleFits(v)
      /\ events \in Nat /\ UNCHANGED client
  BY DEF PInv, DbTyped, SubtitleInv, Search, SaveFile, SubtitleFails, subVars
<1>2. job'[w] = Rest /\ \A v \in Workers \ {w} : job'[v] = job[v]
  BY <1>1 DEF Search, SaveFile, SubtitleFails
<1>3. Rest.at = "idle" /\ Rest.mode = ""
  BY DEF Rest
<1>4. SubtitleInv'
  BY <1>1, <1>2, <1>3, SubtitlesApart DEF SubtitlePlaces
<1>5. ASSUME NEW v \in Workers, job[v].mode = "subtitle", job'[v].at = "idle", events' = events
      PROVE  job[v].at = "write"
  <2>1. v = w
    BY <1>1, <1>2, <1>5 DEF SubtitleFits, Subtitle, SubtitlePlaces
  <2> QED
    BY <1>1, <1>5, <2>1 DEF Search, SaveFile, SubtitleFails, Event, SubtitleFits
<1> QED
  BY <1>4, <1>5

\* Every step keeps the invariant, and lets a download that is alone end with
\* its file written or count an event.
LEMMA NextSubtitleInv ==
  ASSUME PInv, SubtitleInv, [Next]_vars
  PROVE  /\ SubtitleInv'
         /\ \A v \in Workers :
              (/\ job[v].alone /\ job[v].mode = "subtitle"
               /\ job'[v].at = "idle" /\ events' = events) => job[v].at = "write"
<1>1. CASE \E w \in Workers :
        \/ \E cfg \in Configs : BeginSave(w, cfg)
        \/ SaveRuntime(w) \/ SaveFails(w) \/ ReplaceRunning(w) \/ ReplaceAria2(w) \/ ReplaceBot(w)
  BY <1>1, ElsewhereStep DEF Subtitle
<1>2. CASE \E w \in Workers :
        \/ \E mode \in {"webhook", "api"} : BeginMessage(w, mode)
        \/ ReadCache(w) \/ TakeLock(w) \/ \E ok \in BOOLEAN : FetchToken(w, ok)
        \/ Unreached(w) \/ \E answered \in BOOLEAN : TakenByFeishu(w, answered)
        \/ \E why \in {"token", "garbled", "other"} : RefusedByFeishu(w, why)
        \/ RefusedLocally(w) \/ DropToken(w)
  BY <1>2, MessageStep DEF Subtitle
<1>3. CASE \E w \in Workers, mode \in {"search", "subtitle"} : BeginSubtitle(w, mode)
  BY <1>3, BeginSubtitleStep DEF Subtitle
<1>4. CASE \E w \in Workers :
        ClientFor(w) \/ EnsureToken(w) \/ Login(w) \/ PostDownload(w) \/ ClearToken(w) \/ FetchFile(w)
  BY <1>4, SubtitleStep DEF Subtitle
<1>5. CASE \E w \in Workers : Search(w) \/ SaveFile(w) \/ SubtitleFails(w)
  BY <1>5, EndStep
<1>6. CASE \/ \E b \in Ids : TokenExpires(b)
           \/ \E a \in Accounts : SaveAccount(a)
           \/ FeishuRevokes \/ UNCHANGED vars
  BY <1>6, WorldStep DEF Subtitle
<1>7. CASE SessionsEnd \/ Restart
  BY <1>7, SessionsEndStep, RestartStep DEF SessionsEnd, Restart, Event, PInv, DbTyped
<1> QED
  BY <1>1, <1>2, <1>3, <1>4, <1>5, <1>6, <1>7 DEF Next

-----------------------------------------------------------------------------
(* The theorems.                                                           *)

\* Settings, clients and the local variables of every worker keep their types:
\* in particular an id that nobody uses is found whenever a client is made.
THEOREM TypeCorrect == Spec => []TypeOK
<1>1. PInv => TypeOK
  BY DEF PInv, DbTyped, TypeOK
<1> QED
  BY <1>1, InitPInv, NextPInv, PTL DEF Spec

\* A message sent through the API of Feishu is taken at most once, however
\* often it is sent (client.go, SendViaAPI).
THEOREM NeverTakenTwice == Spec => []TakenOnce
<1>1. PInv => TakenOnce
  BY DEF PInv, Fits, ApiFits, TakenOnce
<1> QED
  BY <1>1, InitPInv, NextPInv, PTL DEF Spec

\* What is saved, running and used by the clients is one configuration while no
\* save is at work, unless saves overlapped (server.go, replaceRuntimeServiceConfig).
THEOREM AlwaysOneConfiguration == Spec => []OneConfiguration
<1>1. Init => ConfigInv
  <2> SUFFICES ASSUME Init PROVE ConfigInv
    OBVIOUS
  <2>1. \A v \in Workers : job[v].at = "idle"
    BY DEF Init, Rest
  <2>2. 0 \in Ids
    BY IdsFinite DEF Ids
  <2>3. Consistent
    BY <2>2 DEF Init, Consistent
  <2> QED
    BY <2>1, <2>3 DEF ConfigInv, NoTwoAlone, DoneSoFar, Agreed, Saving
<1>2. ConfigInv => OneConfiguration
  BY DEF ConfigInv, Agreed, Consistent, OneConfiguration, Saving, Replacing
<1> QED
  BY <1>1, <1>2, InitPInv, NextPInv, NextConfigInv, PTL DEF Spec

\* A subtitle download that overlaps no other subtitle request, and whose
\* session does not end meanwhile, gets its file unless a call of its own fails
\* (opensubtitles/client.go, Download).
THEOREM AloneGetsItsFile == Spec => AloneIsServed
<1> DEFINE A == \A w \in Workers :
       job[w].alone /\ job[w].mode = "subtitle" /\ job'[w] = Rest /\ events' = events
         => job[w].at = "write"
<1>1. PInv /\ SubtitleInv /\ [Next]_vars => [A]_vars
  <2>1. Rest.at = "idle"
    BY DEF Rest
  <2> QED
    BY <2>1, NextSubtitleInv
<1>2. PInv /\ SubtitleInv /\ [Next]_vars => SubtitleInv'
  BY NextSubtitleInv
<1> QED
  BY <1>1, <1>2, InitPInv, InitSubtitleInv, NextPInv, PTL DEF Spec, AloneIsServed

====
