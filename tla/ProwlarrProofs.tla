--------------------------- MODULE ProwlarrProofs ---------------------------
(***************************************************************************)
(* Theorems about Prowlarr for every value of its constants: there is one  *)
(* internal subscription for each medium unless two requests looked for it *)
(* at once, a release aria2 has accepted stays accepted while nobody hands *)
(* it over again, and a save nobody disturbs leaves settings and           *)
(* subscriptions in agreement.                                             *)
(***************************************************************************)
EXTENDS Prowlarr, FiniteSetTheorems, SequenceTheorems, WellFoundedInduction, TLAPS

Looks(w, m) == job[w].at \in Looking /\ job[w].media = m

\* What TypeOK says, without order, of which no theorem below speaks.
Typed ==
  /\ subs \in [SubIds -> SubRow]
  /\ lastSub \in Ids
  /\ setting \in Settings
  /\ item \in [SubIds \X Guids -> Statuses]
  /\ job \in [Workers -> Job]
  /\ raced \subseteq Media

\* The ids above the last one given out have no row.
Unused == \A s \in SubIds : s > lastSub => subs[s].kind = "free"

\* A worker that reads or writes settings is at one of them, only movies have
\* a former row, and the row about to be updated is one of the medium.
Fits(w) ==
  /\ job[w].at \in {"read", "write"} => job[w].n \in 1..4
  /\ job[w].at = "findLegacy" => job[w].media = "movie"
  /\ job[w].at = "update" => job[w].sub \in ForMedia(job[w].media)

\* The medium has one subscription at most, and a request about to insert one
\* is the only one that looks and is right to have found none.
Single(m) ==
  /\ \A s, t \in ForMedia(m) : s = t
  /\ \A w \in Workers : job[w].at \in {"findLegacy", "insert"} /\ job[w].media = m =>
       /\ OfKind(m) = {}
       /\ job[w].at = "insert" => ForMedia(m) = {}
       /\ \A v \in Workers \ {w} : ~Looks(v, m)

\* What a save nobody disturbs has seen to so far.
MovieSaved(cfg) ==
  cfg.movieSub \in SubIds /\ subs[cfg.movieSub] = [kind |-> "movie", dir |-> cfg.dir]
SeriesSaved(cfg) ==
  cfg.tvSub \in SubIds /\ subs[cfg.tvSub] = [kind |-> "tv", dir |-> cfg.tvDir]

SavedSoFar(w) ==
  /\ \A v \in Workers \ {w} : Idle(v)
  /\ job[w].at \in Looking \cup {"find", "write"}
  /\ job[w].cfg.dir \in Dirs /\ job[w].cfg.tvDir \in Dirs
  /\ job[w].media = "tv" => MovieSaved(job[w].cfg)
  /\ job[w].at = "write" =>
       /\ job[w].media = "tv" /\ SeriesSaved(job[w].cfg)
       /\ job[w].n > 1 => setting.dir = job[w].cfg.dir
       /\ job[w].n > 2 => setting.tvDir = job[w].cfg.tvDir
       /\ job[w].n > 3 => setting.movieSub = job[w].cfg.movieSub

IInv ==
  /\ Typed
  /\ Unused
  /\ \A w \in Workers : Fits(w)
  /\ \A m \in Media : m \notin raced => Single(m)
  /\ \A w \in Savers : job[w].alone /\ ~Idle(w) => SavedSoFar(w)

-----------------------------------------------------------------------------
(* Settings, rows and sets of ids.                                         *)

LEMMA FourFields ==
  /\ Len(Fields) = 4
  /\ Fields[1] = "dir" /\ Fields[2] = "tvDir"
  /\ Fields[3] = "movieSub" /\ Fields[4] = "tvSub"
BY DEF Fields

LEMMA UnsetIsASetting == Unset \in Settings
BY ProwlarrAssumption DEF Unset, Settings, Ids

LEMMA RestIsAJob == Rest \in Job /\ Rest.at = "idle" /\ Rest.alone = FALSE
<1>1. Unset \in Settings
  BY UnsetIsASetting
<1>2. <<>> \in Seq(SubIds)
  OBVIOUS
<1> QED BY <1>1, <1>2, FourFields, ProwlarrAssumption DEF Rest, Job, Places, Media, Ids

\* The four workers' kinds have nobody in common.
LEMMA Kinds ==
  /\ Scheduler \in Workers /\ Scheduler \notin Savers
  /\ \A w \in Savers : w \in Workers /\ w \notin Submitters /\ w \notin Sorters
  /\ \A w \in Submitters : w \in Workers /\ w \notin Savers
  /\ \A w \in Sorters : w \in Workers /\ w \notin Savers
BY ProwlarrAssumption DEF Workers

LEMMA FirstIsOne ==
  ASSUME NEW S \in SUBSET SubIds, S # {}
  PROVE  First(S) \in S
<1>1. S \subseteq Nat
  BY ProwlarrAssumption DEF SubIds
<1>2. PICK s \in S : \A other \in S : ~(<<other, s>> \in OpToRel(<, Nat))
  BY <1>1, NatLessThanWellFounded, WFMin
<1>3. \A other \in S : s <= other
  <2> TAKE other \in S
  <2>1. s \in Nat /\ other \in Nat
    BY <1>1
  <2>2. ~(other < s)
    BY <1>2, <2>1 DEF OpToRel
  <2> QED BY <2>1, <2>2
<1> QED BY <1>2, <1>3 DEF First

LEMMA OneAtMost ==
  ASSUME NEW S, \A s, t \in S : s = t
  PROVE  Cardinality(S) <= 1
<1>1. CASE S = {}
  BY <1>1, FS_EmptySet
<1>2. CASE S # {}
  <2>1. PICK s \in S : TRUE
    BY <1>2
  <2>2. S = {s}
    BY <2>1
  <2>3. Cardinality({s}) = 1
    BY FS_Singleton
  <2> QED BY <2>2, <2>3
<1> QED BY <1>1, <1>2

\* The rows of a medium depend on the table alone.
LEMMA SameRows ==
  ASSUME subs' = subs
  PROVE  /\ \A k : OfKind(k)' = OfKind(k)
         /\ \A m : ForMedia(m)' = ForMedia(m)
BY DEF OfKind, ForMedia

LEMMA RowOfMedia ==
  ASSUME NEW m \in Media, NEW s
  PROVE  s \in ForMedia(m) <=>
           /\ s \in SubIds
           /\ subs[s].kind = m \/ (m = "movie" /\ subs[s].kind = "legacy")
BY DEF ForMedia, OfKind, Media

-----------------------------------------------------------------------------
(* Steps that look for no subscription.                                    *)

LEMMA JobMoves ==
  ASSUME Typed, NEW w \in Workers, NEW j \in Job, job' = [job EXCEPT ![w] = j]
  PROVE  /\ job' \in [Workers -> Job]
         /\ job'[w] = j
         /\ \A v \in Workers : v # w => job'[v] = job[v]
BY DEF Typed

LEMMA Starts == Init => IInv
<1> SUFFICES ASSUME Init PROVE IInv
  OBVIOUS
<1>1. NoRow \in SubRow /\ Unset \in Settings /\ 1 \in SubIds
  BY ProwlarrAssumption DEF NoRow, SubRow, Unset, Settings, Ids, SubIds
<1>2. /\ subs \in [SubIds -> SubRow] /\ lastSub \in Ids /\ setting \in Settings
      /\ Unused
      /\ \A s \in SubIds : subs[s].kind = "free" \/ (s = 1 /\ subs[s].kind = "legacy")
  <2>1. CASE subs = [s \in SubIds |-> NoRow] /\ lastSub = 0 /\ setting = Unset
    BY <1>1, <2>1, ProwlarrAssumption DEF Ids, NoRow, Unused
  <2>2. CASE \E d \in Dirs :
               /\ subs = [[s \in SubIds |-> NoRow] EXCEPT ![1] = [kind |-> "legacy", dir |-> d]]
               /\ lastSub = 1 /\ setting = [Unset EXCEPT !.dir = d, !.movieSub = 1]
    <3>1. PICK d \in Dirs :
            /\ subs = [[s \in SubIds |-> NoRow] EXCEPT ![1] = [kind |-> "legacy", dir |-> d]]
            /\ lastSub = 1 /\ setting = [Unset EXCEPT !.dir = d, !.movieSub = 1]
      BY <2>2
    <3>2. [kind |-> "legacy", dir |-> d] \in SubRow
      BY DEF SubRow
    <3>3. setting \in Settings /\ lastSub \in Ids
      <4>1. setting = [dir |-> d, tvDir |-> NoDir, movieSub |-> 1, tvSub |-> 0]
        BY <3>1 DEF Unset
      <4>2. 0 \in Ids /\ 1 \in Ids
        BY ProwlarrAssumption DEF Ids
      <4> QED BY <3>1, <4>1, <4>2 DEF Settings
    <3>4. subs \in [SubIds -> SubRow]
      BY <3>1, <3>2, <1>1
    <3>5. \A s \in SubIds : s # 1 => subs[s].kind = "free"
      BY <3>1, <1>1 DEF NoRow
    <3>6. subs[1].kind = "legacy"
      BY <3>1, <1>1
    <3>7. Unused
      BY <3>1, <3>5 DEF Unused, SubIds
    <3> QED BY <3>3, <3>4, <3>5, <3>6, <3>7
  <2> QED BY <2>1, <2>2 DEF Init
<1>3. job = [w \in Workers |-> Rest] /\ raced = {}
  BY DEF Init
<1>4. Typed
  <2>1. item \in [SubIds \X Guids -> Statuses]
    BY DEF Init, Statuses
  <2> QED BY <1>2, <1>3, <2>1, RestIsAJob DEF Typed
<1>5. \A w \in Workers : job[w].at = "idle" /\ Fits(w)
  BY <1>3, RestIsAJob DEF Fits
<1>6. \A m \in Media : Single(m)
  <2> TAKE m \in Media
  <2>1. \A s \in ForMedia(m) : s = 1
    BY <1>2, RowOfMedia DEF Media
  <2> QED BY <2>1, <1>5 DEF Single
<1> QED BY <1>2, <1>4, <1>5, <1>6, Kinds DEF IInv, Idle

\* Rows that come or go are not internal, and a new one takes the next id.
LEMMA OtherRows ==
  ASSUME IInv, NEW s \in SubIds, NEW row \in SubRow,
         ~Internal(s), row.kind \in {"feed", "deleted"},
         subs' = [subs EXCEPT ![s] = row],
         lastSub' \in Ids, lastSub' >= lastSub, s <= lastSub',
         UNCHANGED <<setting, item, job, raced>>
  PROVE  IInv'
<1>1. subs' \in [SubIds -> SubRow]
  BY DEF IInv, Typed
<1>2. Typed'
  BY <1>1 DEF IInv, Typed
<1>3. \A r \in SubIds : r # s => subs'[r] = subs[r]
  BY DEF IInv, Typed
<1>4. subs'[s] = row
  BY DEF IInv, Typed
<1>5. \A m \in Media : ForMedia(m)' = ForMedia(m)
  <2> TAKE m \in Media
  <2>1. \A r : r \in ForMedia(m)' <=> r \in ForMedia(m)
    BY <1>3, <1>4 DEF ForMedia, OfKind, Media, Internal
  <2> QED BY <2>1
<1>6. \A m \in Media : OfKind(m)' = OfKind(m)
  <2> TAKE m \in Media
  <2>1. \A r : r \in OfKind(m)' <=> r \in OfKind(m)
    BY <1>3, <1>4 DEF OfKind, Media, Internal
  <2> QED BY <2>1
<1>7. Unused'
  <2> SUFFICES ASSUME NEW r \in SubIds, r > lastSub' PROVE subs'[r].kind = "free"
    BY DEF Unused
  <2>1. r # s /\ r > lastSub
    BY ProwlarrAssumption DEF IInv, Typed, Ids, SubIds
  <2> QED BY <2>1, <1>3 DEF IInv, Unused
<1>8. \A w \in Workers : Fits(w)'
  <2> TAKE w \in Workers
  <2>1. job[w].media \in Media
    BY DEF IInv, Typed, Job
  <2> QED BY <2>1, <1>5 DEF IInv, Fits
<1>9. \A m \in Media : m \notin raced' => Single(m)'
  <2> TAKE m \in Media
  <2> QED BY <1>5, <1>6 DEF IInv, Single, Looks
<1>10. \A w \in Savers : job'[w].alone /\ ~Idle(w)' => SavedSoFar(w)'
  <2> SUFFICES ASSUME NEW w \in Savers, job[w].alone, ~Idle(w) PROVE SavedSoFar(w)'
    BY DEF Idle
  <2>1. SavedSoFar(w)
    BY DEF IInv
  <2>2. \A cfg : MovieSaved(cfg) => MovieSaved(cfg)'
    BY <1>3 DEF MovieSaved, Internal
  <2>3. \A cfg : SeriesSaved(cfg) => SeriesSaved(cfg)'
    BY <1>3 DEF SeriesSaved, Internal
  <2>4. job[w].media = "tv" => MovieSaved(job[w].cfg)'
    BY <2>1, <2>2 DEF SavedSoFar
  <2>5. job[w].at = "write" => SeriesSaved(job[w].cfg)'
    BY <2>1, <2>3 DEF SavedSoFar
  <2> QED BY <2>1, <2>4, <2>5 DEF SavedSoFar, Idle
<1> QED BY <1>2, <1>7, <1>8, <1>9, <1>10 DEF IInv

LEMMA CreateKeeps ==
  ASSUME IInv, NEW d \in Dirs, CreateSubscription(d)
  PROVE  IInv'
<1> DEFINE s == lastSub + 1
<1>1. s \in SubIds /\ lastSub' \in Ids /\ lastSub' >= lastSub /\ s <= lastSub' /\ s > lastSub
  BY ProwlarrAssumption DEF CreateSubscription, IInv, Typed, Ids, SubIds
<1>2. ~Internal(s)
  BY <1>1 DEF IInv, Unused, Internal
<1>3. [kind |-> "feed", dir |-> d] \in SubRow
  BY DEF SubRow
<1>4. /\ subs' = [subs EXCEPT ![s] = [kind |-> "feed", dir |-> d]]
      /\ UNCHANGED <<setting, item, job, raced>>
  BY DEF CreateSubscription
<1> QED BY <1>1, <1>2, <1>3, <1>4, OtherRows

LEMMA DeleteKeeps ==
  ASSUME IInv, NEW s \in SubIds, DeleteSubscription(s)
  PROVE  IInv'
<1>1. s <= lastSub /\ lastSub' = lastSub /\ lastSub' >= lastSub
  <2>1. ~(s > lastSub)
    BY DEF DeleteSubscription, Exists, IInv, Unused
  <2> QED BY <2>1, ProwlarrAssumption
           DEF DeleteSubscription, IInv, Typed, Ids, SubIds
<1>2. [kind |-> "deleted", dir |-> NoDir] \in SubRow
  BY DEF SubRow
<1>3. /\ subs' = [subs EXCEPT ![s] = [kind |-> "deleted", dir |-> NoDir]]
      /\ UNCHANGED <<setting, item, job, raced>> /\ ~Internal(s) /\ lastSub' \in Ids
  BY <1>1 DEF DeleteSubscription, IInv, Typed
<1> QED BY <1>1, <1>2, <1>3, OtherRows

\* A worker begins: it looks for nothing yet, or nobody else is at work.
LEMMA BeginKeeps ==
  ASSUME IInv, NEW w \in Workers, NEW r \in Job, Idle(w), Begin(w, r),
         UNCHANGED <<dbVars, raced>>, r.at \notin Looking \cup {"write"},
         r.at = "read" => r.n \in 1..4,
         w \in Savers /\ r.alone =>
           /\ r.at = "find" /\ r.media = "movie" /\ r.cfg.dir \in Dirs /\ r.cfg.tvDir \in Dirs
           /\ \A v \in Workers : Idle(v)
  PROVE  IInv'
<1>1. \A v \in Workers : job[v] \in Job
  BY DEF IInv, Typed
<1>2. \A v \in Workers : v # w => job'[v] = [job[v] EXCEPT !.alone = FALSE]
  BY DEF Begin
<1>3. job'[w] = r
  BY DEF Begin
<1>4. \A v \in Workers : v # w =>
        /\ job'[v] \in Job /\ job'[v].alone = FALSE
        /\ job'[v].at = job[v].at /\ job'[v].n = job[v].n
        /\ job'[v].media = job[v].media /\ job'[v].sub = job[v].sub
  <2> TAKE v \in Workers
  <2> SUFFICES ASSUME v # w
               PROVE  <1>4!(v)!2
    OBVIOUS
  <2>1. PICK j \in Job : j = job[v]
    BY <1>1
  <2>2. job'[v] = [j EXCEPT !.alone = FALSE]
    BY <1>2, <2>1
  <2>3. job'[v] \in Job
    BY <2>2, FourFields DEF Job
  <2>4. /\ job'[v].alone = FALSE /\ job'[v].at = j.at /\ job'[v].n = j.n
        /\ job'[v].media = j.media /\ job'[v].sub = j.sub
    BY <2>2 DEF Job
  <2> QED BY <2>1, <2>3, <2>4
<1>5. job' \in [Workers -> Job]
  <2>1. job' = [v \in Workers |-> job'[v]]
    BY DEF Begin
  <2>2. \A v \in Workers : job'[v] \in Job
    BY <1>3, <1>4
  <2> QED BY <2>1, <2>2
<1>6. Typed' /\ Unused'
  BY <1>5 DEF IInv, Typed, Unused, dbVars
<1>7. \A v \in Workers : Fits(v)'
  <2>1. \A m : ForMedia(m)' = ForMedia(m)
    BY SameRows DEF dbVars
  <2> QED BY <1>3, <1>4, <2>1 DEF IInv, Fits, Looking
<1>8. \A m \in Media : m \notin raced' => Single(m)'
  <2> SUFFICES ASSUME NEW m \in Media, m \notin raced PROVE Single(m)'
    OBVIOUS
  <2>1. ForMedia(m)' = ForMedia(m) /\ OfKind(m)' = OfKind(m)
    BY SameRows DEF dbVars
  <2>2. \A v \in Workers : (job'[v].at \in Looking => v # w) /\ (Looks(v, m)' => Looks(v, m))
    BY <1>3, <1>4 DEF Looks
  <2>3. Single(m)
    BY DEF IInv
  <2> QED BY <1>4, <2>1, <2>2, <2>3 DEF Single, Looking
<1>9. \A v \in Savers : job'[v].alone /\ ~Idle(v)' => SavedSoFar(v)'
  <2> SUFFICES ASSUME NEW v \in Savers, job'[v].alone PROVE SavedSoFar(v)'
    OBVIOUS
  <2>1. v = w
    BY <1>4, Kinds
  <2>2. \A u \in Workers \ {w} : Idle(u)'
    BY <1>3, <1>4, <2>1 DEF Idle
  <2> QED BY <1>3, <2>1, <2>2 DEF SavedSoFar, Looking
<1> QED BY <1>6, <1>7, <1>8, <1>9 DEF IInv

\* A worker that is no save, or gives up, goes on without looking.
LEMMA GoesOn ==
  ASSUME IInv, NEW w \in Workers, NEW j \in Job, ~Idle(w),
         job' = [job EXCEPT ![w] = j], UNCHANGED <<subs, lastSub, setting, raced>>,
         item' \in [SubIds \X Guids -> Statuses],
         j.at \notin Looking \cup {"write"}, j.at = "read" => j.n \in 1..4,
         w \notin Savers \/ j.at = "idle"
  PROVE  IInv'
<1>1. /\ job' \in [Workers -> Job] /\ job'[w] = j
      /\ \A v \in Workers : v # w => job'[v] = job[v]
  BY JobMoves DEF IInv
<1>2. Typed' /\ Unused'
  BY <1>1 DEF IInv, Typed, Unused
<1>3. /\ \A m : ForMedia(m)' = ForMedia(m)
      /\ \A m : OfKind(m)' = OfKind(m)
  BY SameRows
<1>4. \A v \in Workers : Fits(v)'
  BY <1>1, <1>3 DEF IInv, Fits, Looking
<1>5. \A m \in Media : m \notin raced' => Single(m)'
  <2> SUFFICES ASSUME NEW m \in Media, m \notin raced PROVE Single(m)'
    OBVIOUS
  <2>1. \A v \in Workers : (job'[v].at \in Looking => v # w) /\ (Looks(v, m)' => Looks(v, m))
    BY <1>1 DEF Looks
  <2>2. Single(m)
    BY DEF IInv
  <2> QED BY <1>1, <1>3, <2>1, <2>2 DEF Single, Looking
<1>6. \A v \in Savers : job'[v].alone /\ ~Idle(v)' => SavedSoFar(v)'
  <2> SUFFICES ASSUME NEW v \in Savers, job'[v].alone, ~Idle(v)' PROVE FALSE
    OBVIOUS
  <2>1. v # w /\ v \in Workers
    BY <1>1, Kinds DEF Idle
  <2>2. SavedSoFar(v)
    BY <1>1, <2>1 DEF IInv, Idle
  <2> QED BY <2>1, <2>2 DEF SavedSoFar
<1> QED BY <1>2, <1>4, <1>5, <1>6 DEF IInv

-----------------------------------------------------------------------------
(* Looking for the subscription of a medium.                               *)

\* What a request goes on with once row s serves.
LEMMA EnsuredIs ==
  ASSUME Typed, NEW w \in Savers \cup Submitters, NEW s \in SubIds
  PROVE  /\ Ensured(w, s) \in Job
         /\ Ensured(w, s).at \in {"lookup", "find", "write"}
         /\ Ensured(w, s).at = "write" => Ensured(w, s).n = 1
         /\ Ensured(w, s).alone = job[w].alone
         /\ w \in Savers =>
              /\ Ensured(w, s).media = "tv"
              /\ Ensured(w, s).cfg.dir = job[w].cfg.dir
              /\ Ensured(w, s).cfg.tvDir = job[w].cfg.tvDir
              /\ IF job[w].media = "movie"
                 THEN /\ Ensured(w, s).at = "find" /\ Ensured(w, s).cfg.movieSub = s
                 ELSE /\ Ensured(w, s).at = "write" /\ Ensured(w, s).cfg.tvSub = s
                      /\ Ensured(w, s).cfg.movieSub = job[w].cfg.movieSub
<1>1. PICK j \in Job : j = job[w]
  BY Kinds DEF Typed
<1>2. s \in Ids /\ 0 \in Ids /\ 1 \in 0..Len(Fields)
  BY ProwlarrAssumption, FourFields DEF Ids, SubIds
<1>3. j.cfg \in Settings /\ j.media \in Media
  BY DEF Job
<1>4. CASE w \in Submitters
  <2>1. Ensured(w, s) = [j EXCEPT !.at = "lookup", !.sub = s]
    BY <1>1, <1>4 DEF Ensured
  <2>2. [j EXCEPT !.at = "lookup", !.sub = s] \in Job
    BY <1>2 DEF Job, Places
  <2> QED BY <1>1, <1>4, <2>1, <2>2, Kinds DEF Job
<1>5. CASE w \notin Submitters /\ j.media = "movie"
  <2> DEFINE cfg == [j.cfg EXCEPT !.movieSub = s]
  <2>1. /\ cfg \in Settings /\ cfg.movieSub = s
        /\ cfg.dir = j.cfg.dir /\ cfg.tvDir = j.cfg.tvDir
    BY <1>2, <1>3 DEF Settings
  <2>2. Ensured(w, s) = [j EXCEPT !.at = "find", !.media = "tv", !.sub = 0, !.cfg = cfg]
    BY <1>1, <1>5 DEF Ensured, Job
  <2> HIDE DEF cfg
  <2>3. [j EXCEPT !.at = "find", !.media = "tv", !.sub = 0, !.cfg = cfg] \in Job
    BY <1>2, <2>1 DEF Job, Places, Media
  <2> QED BY <1>1, <1>5, <2>1, <2>2, <2>3 DEF Job
<1>6. CASE w \notin Submitters /\ j.media = "tv"
  <2> DEFINE cfg == [j.cfg EXCEPT !.tvSub = s]
  <2>1. /\ cfg \in Settings /\ cfg.tvSub = s /\ cfg.movieSub = j.cfg.movieSub
        /\ cfg.dir = j.cfg.dir /\ cfg.tvDir = j.cfg.tvDir
    BY <1>2, <1>3 DEF Settings
  <2>2. Ensured(w, s) = [j EXCEPT !.at = "write", !.n = 1, !.sub = 0, !.cfg = cfg]
    BY <1>1, <1>6 DEF Ensured, Job
  <2> HIDE DEF cfg
  <2>3. [j EXCEPT !.at = "write", !.n = 1, !.sub = 0, !.cfg = cfg] \in Job
    BY <1>2, <2>1 DEF Job, Places, Media
  <2> QED BY <1>1, <1>6, <2>1, <2>2, <2>3 DEF Job
<1> QED BY <1>3, <1>4, <1>5, <1>6 DEF Media

\* The directory of the row wanted is one.
LEMMA WantedRow ==
  ASSUME NEW cfg \in Settings, NEW m \in Media
  PROVE  /\ [kind |-> m, dir |-> DirFor(cfg, m)] \in SubRow
         /\ m = "movie" => DirFor(cfg, m) = cfg.dir
         /\ m = "tv" /\ cfg.tvDir \in Dirs => DirFor(cfg, m) = cfg.tvDir
BY ProwlarrAssumption DEF DirFor, Media, SubRow, Settings

\* An undisturbed save goes on when row s is, from now on, as it wants it.
LEMMA SaveGoesOn ==
  ASSUME IInv, NEW w \in Savers, job[w].alone, SavedSoFar(w), NEW s \in SubIds,
         subs'[s] = [kind |-> job[w].media, dir |-> DirFor(job[w].cfg, job[w].media)],
         \A r \in SubIds : r # s => subs'[r] = subs[r],
         job[w].media = "tv" => s # job[w].cfg.movieSub,
         job' = [job EXCEPT ![w] = Ensured(w, s)]
  PROVE  SavedSoFar(w)'
<1>0. PICK j : j = Ensured(w, s)
  OBVIOUS
<1>1. /\ j \in Job /\ j.at \in {"lookup", "find", "write"}
      /\ j.at = "write" => j.n = 1
      /\ j.media = "tv" /\ j.cfg.dir = job[w].cfg.dir /\ j.cfg.tvDir = job[w].cfg.tvDir
      /\ IF job[w].media = "movie"
         THEN j.at = "find" /\ j.cfg.movieSub = s
         ELSE j.at = "write" /\ j.cfg.tvSub = s /\ j.cfg.movieSub = job[w].cfg.movieSub
  BY <1>0, EnsuredIs DEF IInv
<1>2. /\ job'[w] = j
      /\ \A v \in Workers : v # w => job'[v] = job[v]
  BY <1>0, <1>1, JobMoves, Kinds DEF IInv
<1>3. job[w].media \in Media /\ job[w].cfg \in Settings
  BY Kinds DEF IInv, Typed, Job
<1>4. job[w].cfg.dir \in Dirs /\ job[w].cfg.tvDir \in Dirs
  BY DEF SavedSoFar
<1>5. CASE job[w].media = "movie"
  <2>1. j.cfg.movieSub \in SubIds
        /\ subs'[j.cfg.movieSub] = [kind |-> "movie", dir |-> j.cfg.dir]
    BY <1>1, <1>3, <1>5, WantedRow
  <2>2. \A cfg : cfg = j.cfg => MovieSaved(cfg)'
    BY <2>1 DEF MovieSaved
  <2> QED BY <1>1, <1>2, <1>4, <1>5, <2>2 DEF SavedSoFar, Idle
<1>6. CASE job[w].media = "tv"
  <2>1. MovieSaved(job[w].cfg)
    BY <1>6 DEF SavedSoFar
  <2>2. j.cfg.movieSub \in SubIds
        /\ subs'[j.cfg.movieSub] = [kind |-> "movie", dir |-> j.cfg.dir]
    BY <1>1, <1>6, <2>1 DEF MovieSaved
  <2>3. j.cfg.tvSub \in SubIds
        /\ subs'[j.cfg.tvSub] = [kind |-> "tv", dir |-> j.cfg.tvDir]
    BY <1>1, <1>3, <1>4, <1>6, WantedRow
  <2>4. \A v \in Workers \ {w} : Idle(v)'
    BY <1>2 DEF SavedSoFar, Idle
  <2> QED BY <1>1, <1>2, <1>4, <1>6, <2>2, <2>3, <2>4 DEF SavedSoFar, MovieSaved, SeriesSaved
<1> QED BY <1>3, <1>5, <1>6 DEF Media

\* The other saves are not alone.
LEMMA OnlySave ==
  ASSUME IInv, NEW w \in Workers, ~Idle(w),
         \A v \in Workers : v # w => job'[v] = job[v],
         w \in Savers /\ job'[w].alone /\ ~Idle(w)' => SavedSoFar(w)'
  PROVE  \A v \in Savers : job'[v].alone /\ ~Idle(v)' => SavedSoFar(v)'
<1> SUFFICES ASSUME NEW v \in Savers, job'[v].alone, ~Idle(v)', v # w PROVE FALSE
  OBVIOUS
<1>1. v \in Workers /\ job'[v] = job[v]
  BY Kinds
<1>2. SavedSoFar(v)
  BY <1>1 DEF IInv, Idle
<1> QED BY <1>1, <1>2 DEF SavedSoFar

\* Find and FindLegacy come upon a row of the medium.
LEMMA FoundKeeps ==
  ASSUME IInv, NEW w \in Savers \cup Submitters, NEW s \in SubIds,
         s \in ForMedia(job[w].media),
         job[w].at = "findLegacy" \/ (job[w].at = "find" /\ OfKind(job[w].media) # {}),
         job' = [job EXCEPT ![w] = Found(w, s)],
         UNCHANGED <<dbVars, raced>>
  PROVE  IInv'
<1> DEFINE m == job[w].media
<1>0. w \in Workers /\ m \in Media /\ job[w] \in Job /\ ~Idle(w)
  BY Kinds DEF IInv, Typed, Job, Idle
<1>1. /\ \A k : ForMedia(k)' = ForMedia(k)
      /\ \A k : OfKind(k)' = OfKind(k)
  BY SameRows DEF dbVars
<1>2. CASE subs[s] = [kind |-> m, dir |-> DirFor(job[w].cfg, m)]
  <2> DEFINE j == Ensured(w, s)
  <2>1. job' = [job EXCEPT ![w] = j]
    BY <1>2 DEF Found
  <2>2. /\ j \in Job /\ j.at \in {"lookup", "find", "write"}
        /\ j.at = "write" => j.n = 1
        /\ j.alone = job[w].alone
    BY EnsuredIs DEF IInv
  <2>3. /\ job' \in [Workers -> Job] /\ job'[w] = j
        /\ \A v \in Workers : v # w => job'[v] = job[v]
    BY <1>0, <2>1, <2>2, JobMoves DEF IInv
  <2> HIDE DEF j
  <2>4. Typed' /\ Unused'
    BY <2>3 DEF IInv, Typed, Unused, dbVars
  <2>5. \A v \in Workers : Fits(v)'
    BY <1>1, <2>2, <2>3 DEF IInv, Fits
  <2>6. \A k \in Media : k \notin raced' => Single(k)'
    <3> SUFFICES ASSUME NEW k \in Media, k \notin raced PROVE Single(k)'
      OBVIOUS
    <3>1. \A v \in Workers : (job'[v].at \in Looking => v # w) /\ (Looks(v, k)' => Looks(v, k))
      BY <2>2, <2>3 DEF Looks, Looking
    <3> QED BY <1>1, <2>3, <3>1 DEF IInv, Single, Looking
  <2>7. w \in Savers /\ job'[w].alone => SavedSoFar(w)'
    <3> SUFFICES ASSUME w \in Savers, job[w].alone PROVE SavedSoFar(w)'
      BY <2>2, <2>3
    <3>1. SavedSoFar(w)
      BY <1>0 DEF IInv
    <3>2. subs' = subs
      BY DEF dbVars
    <3>3. m = "tv" => s # job[w].cfg.movieSub
      BY <1>2, <3>1 DEF SavedSoFar, MovieSaved
    <3> QED BY <1>2, <2>1, <3>1, <3>2, <3>3, SaveGoesOn DEF j
  <2> QED BY <1>0, <2>3, <2>4, <2>5, <2>6, <2>7, OnlySave DEF IInv
<1>3. CASE subs[s] # [kind |-> m, dir |-> DirFor(job[w].cfg, m)]
  <2> DEFINE j == [job[w] EXCEPT !.at = "update", !.sub = s]
  <2>1. job' = [job EXCEPT ![w] = j]
    BY <1>3 DEF Found
  <2>2. /\ j \in Job /\ j.at = "update" /\ j.sub = s /\ j.media = m
        /\ j.cfg = job[w].cfg /\ j.alone = job[w].alone
    <3>1. s \in Ids
      BY ProwlarrAssumption DEF SubIds, Ids
    <3> QED BY <1>0, <3>1 DEF Job, Places
  <2>3. /\ job' \in [Workers -> Job] /\ job'[w] = j
        /\ \A v \in Workers : v # w => job'[v] = job[v]
    BY <1>0, <2>1, <2>2, JobMoves DEF IInv
  <2> HIDE DEF j
  <2>4. Typed' /\ Unused'
    BY <2>3 DEF IInv, Typed, Unused, dbVars
  <2>5. \A v \in Workers : Fits(v)'
    BY <1>1, <2>2, <2>3 DEF IInv, Fits
  <2>6. \A k \in Media : k \notin raced' => Single(k)'
    <3> SUFFICES ASSUME NEW k \in Media, k \notin raced PROVE Single(k)'
      OBVIOUS
    <3>1. Single(k)
      BY DEF IInv
    <3>2. \A v \in Workers : job'[v].at \in {"findLegacy", "insert"} => v # w
      BY <2>2, <2>3
    <3>3. \A v \in Workers \ {w} :
            job[v].at \in {"findLegacy", "insert"} /\ job[v].media = k => k # m
      <4> SUFFICES ASSUME NEW v \in Workers \ {w}, job[v].at \in {"findLegacy", "insert"},
                          job[v].media = m, k = m
                   PROVE  FALSE
        OBVIOUS
      <4>1. OfKind(m) = {} /\ ~Looks(w, m)
        BY <1>0, <3>1 DEF Single
      <4> QED BY <4>1 DEF Looks, Looking
    <3> QED BY <1>0, <1>1, <2>2, <2>3, <3>1, <3>2, <3>3 DEF Single, Looks
  <2>7. w \in Savers /\ job'[w].alone => SavedSoFar(w)'
    <3> SUFFICES ASSUME w \in Savers, job[w].alone PROVE SavedSoFar(w)'
      BY <2>2, <2>3
    <3>1. SavedSoFar(w)
      BY <1>0 DEF IInv
    <3>2. subs' = subs
      BY DEF dbVars
    <3>3. \A cfg : MovieSaved(cfg)' = MovieSaved(cfg)
      BY <3>2 DEF MovieSaved
    <3> QED BY <2>2, <2>3, <3>1, <3>3 DEF SavedSoFar, MovieSaved, Idle, Looking
  <2> QED BY <1>0, <2>3, <2>4, <2>5, <2>6, <2>7, OnlySave DEF IInv
<1> QED BY <1>2, <1>3

LEMMA FindKeeps ==
  ASSUME IInv, NEW w \in Savers \cup Submitters, Find(w)
  PROVE  IInv'
<1> DEFINE m    == job[w].media
           rows == OfKind(m)
<1>0. w \in Workers /\ m \in Media /\ job[w] \in Job /\ job[w].at = "find" /\ ~Idle(w)
  BY Kinds DEF IInv, Typed, Job, Idle, Find
<1>1. CASE rows # {}
  <2>1. rows \in SUBSET SubIds /\ rows \subseteq ForMedia(m)
    BY <1>0 DEF OfKind, ForMedia, Media
  <2>2. First(rows) \in rows
    BY <1>1, <2>1, FirstIsOne
  <2>3. job' = [job EXCEPT ![w] = Found(w, First(rows))] /\ UNCHANGED <<dbVars, raced>>
    BY <1>1 DEF Find
  <2> QED BY <1>0, <1>1, <2>1, <2>2, <2>3, FoundKeeps
<1>2. CASE rows = {}
  <2> DEFINE p == IF m = "movie" THEN "findLegacy" ELSE "insert"
             j == [job[w] EXCEPT !.at = p]
  <2>1. job' = [job EXCEPT ![w] = j] /\ UNCHANGED dbVars
    BY <1>2 DEF Find
  <2>2. /\ j \in Job /\ j.at = p /\ j.media = m
        /\ j.cfg = job[w].cfg /\ j.alone = job[w].alone
    BY <1>0 DEF Job, Places
  <2>3. /\ job' \in [Workers -> Job] /\ job'[w] = j
        /\ \A v \in Workers : v # w => job'[v] = job[v]
    BY <1>0, <2>1, <2>2, JobMoves DEF IInv
  <2> HIDE DEF j
  <2>4. /\ \A k : ForMedia(k)' = ForMedia(k)
        /\ \A k : OfKind(k)' = OfKind(k)
    BY <2>1, SameRows DEF dbVars
  <2>5. /\ raced \subseteq raced' /\ raced' \subseteq Media
        /\ m \notin raced' => \A v \in Workers \ {w} : ~Looks(v, m)
    BY <1>0, <1>2 DEF Find, IInv, Typed, Looks
  <2>6. Typed' /\ Unused'
    BY <2>1, <2>3, <2>5 DEF IInv, Typed, Unused, dbVars
  <2>7. \A v \in Workers : Fits(v)'
    BY <2>2, <2>3, <2>4 DEF IInv, Fits
  <2>8. \A k \in Media : k \notin raced' => Single(k)'
    <3> SUFFICES ASSUME NEW k \in Media, k \notin raced' PROVE Single(k)'
      OBVIOUS
    <3>1. Single(k)
      BY <2>5 DEF IInv
    <3>2. CASE k # m
      <4>1. \A v \in Workers : (Looks(v, k)' => Looks(v, k)) /\ (job'[v].media = k => v # w)
        BY <2>2, <2>3, <3>2 DEF Looks
      <4> QED BY <2>3, <2>4, <3>1, <4>1 DEF Single
    <3>3. CASE k = m
      <4>1. OfKind(k) = {} /\ (p = "insert" => ForMedia(k) = {})
        BY <1>0, <1>2, <3>3 DEF ForMedia, Media
      <4>2. \A v \in Workers \ {w} : ~Looks(v, k) /\ ~Looks(v, k)'
        BY <2>3, <2>5, <3>3 DEF Looks
      <4>3. \A v \in Workers : job'[v].at \in {"findLegacy", "insert"} /\ job'[v].media = k
              => v = w
        BY <2>3, <4>2 DEF Looks, Looking
      <4> QED BY <2>2, <2>3, <2>4, <3>1, <4>1, <4>2, <4>3 DEF Single
    <3> QED BY <3>2, <3>3
  <2>9. w \in Savers /\ job'[w].alone => SavedSoFar(w)'
    <3> SUFFICES ASSUME w \in Savers, job[w].alone PROVE SavedSoFar(w)'
      BY <2>2, <2>3
    <3>1. SavedSoFar(w)
      BY <1>0 DEF IInv
    <3>2. \A cfg : MovieSaved(cfg)' = MovieSaved(cfg)
      BY <2>1 DEF MovieSaved, dbVars
    <3>3. p \in Looking
      BY DEF Looking
    <3> QED BY <2>2, <2>3, <3>1, <3>2, <3>3 DEF SavedSoFar, MovieSaved, Idle, Looking
  <2> QED BY <1>0, <2>3, <2>6, <2>7, <2>8, <2>9, OnlySave DEF IInv
<1> QED BY <1>1, <1>2

LEMMA FindLegacyKeeps ==
  ASSUME IInv, NEW w \in Savers \cup Submitters, FindLegacy(w)
  PROVE  IInv'
<1> DEFINE rows == OfKind("legacy")
<1>0. w \in Workers /\ job[w] \in Job /\ job[w].at = "findLegacy" /\ ~Idle(w)
  BY Kinds DEF IInv, Typed, Idle, FindLegacy
<1>1. job[w].media = "movie"
  BY <1>0 DEF IInv, Fits
<1>2. CASE rows # {}
  <2>1. rows \in SUBSET SubIds /\ rows \subseteq ForMedia(job[w].media)
    BY <1>1 DEF OfKind, ForMedia
  <2>2. First(rows) \in rows
    BY <1>2, <2>1, FirstIsOne
  <2>3. job' = [job EXCEPT ![w] = Found(w, First(rows))] /\ UNCHANGED <<dbVars, raced>>
    BY <1>2 DEF FindLegacy
  <2> QED BY <1>0, <2>1, <2>2, <2>3, FoundKeeps
<1>3. CASE rows = {}
  <2> DEFINE j == [job[w] EXCEPT !.at = "insert"]
  <2>1. job' = [job EXCEPT ![w] = j] /\ UNCHANGED <<dbVars, raced>>
    BY <1>3 DEF FindLegacy
  <2>2. /\ j \in Job /\ j.at = "insert" /\ j.media = "movie"
        /\ j.cfg = job[w].cfg /\ j.alone = job[w].alone
    BY <1>0, <1>1 DEF Job, Places
  <2>3. /\ job' \in [Workers -> Job] /\ job'[w] = j
        /\ \A v \in Workers : v # w => job'[v] = job[v]
    BY <1>0, <2>1, <2>2, JobMoves DEF IInv
  <2> HIDE DEF j
  <2>4. /\ \A k : ForMedia(k)' = ForMedia(k)
        /\ \A k : OfKind(k)' = OfKind(k)
    BY <2>1, SameRows DEF dbVars
  <2>5. Typed' /\ Unused'
    BY <2>1, <2>3 DEF IInv, Typed, Unused, dbVars
  <2>6. \A v \in Workers : Fits(v)'
    BY <2>2, <2>3, <2>4 DEF IInv, Fits
  <2>7. \A k \in Media : k \notin raced' => Single(k)'
    <3> SUFFICES ASSUME NEW k \in Media, k \notin raced PROVE Single(k)'
      BY <2>1
    <3>1. Single(k)
      BY DEF IInv
    <3>2. \A v \in Workers : Looks(v, k)' <=> Looks(v, k)
      BY <1>0, <1>1, <2>2, <2>3 DEF Looks, Looking
    <3>3. job'[w].media = k => OfKind(k) = {} /\ ForMedia(k) = {}
                               /\ \A v \in Workers \ {w} : ~Looks(v, k)
      <4> SUFFICES ASSUME k = "movie"
                   PROVE  /\ OfKind(k) = {} /\ ForMedia(k) = {}
                          /\ \A v \in Workers \ {w} : ~Looks(v, k)
        BY <2>2, <2>3
      <4>1. OfKind(k) = {} /\ \A v \in Workers \ {w} : ~Looks(v, k)
        BY <1>0, <1>1, <3>1 DEF Single
      <4> QED BY <1>3, <4>1 DEF ForMedia
    <3> QED BY <2>3, <2>4, <3>1, <3>2, <3>3 DEF Single
  <2>8. w \in Savers /\ job'[w].alone => SavedSoFar(w)'
    <3> SUFFICES ASSUME w \in Savers, job[w].alone PROVE SavedSoFar(w)'
      BY <2>2, <2>3
    <3>1. SavedSoFar(w)
      BY <1>0 DEF IInv
    <3> QED BY <2>2, <2>3, <3>1 DEF SavedSoFar, Idle, Looking
  <2> QED BY <1>0, <2>3, <2>5, <2>6, <2>7, <2>8, OnlySave DEF IInv
<1> QED BY <1>2, <1>3

\* A request that has updated or inserted row s goes on.
LEMMA RowWritten ==
  ASSUME IInv, NEW w \in Savers \cup Submitters, NEW s \in SubIds,
         job[w].at \in {"update", "insert"},
         subs[s].kind = "free" \/ s \in ForMedia(job[w].media),
         job[w].at = "insert" => s \notin ForMedia(job[w].media),
         job[w].at = "update" => s \in ForMedia(job[w].media),
         subs' = [subs EXCEPT ![s] = [kind |-> job[w].media,
                                      dir |-> DirFor(job[w].cfg, job[w].media)]],
         lastSub' \in Ids, lastSub' >= lastSub, s <= lastSub',
         job' = [job EXCEPT ![w] = Ensured(w, s)],
         UNCHANGED <<setting, item, raced>>
  PROVE  IInv'
<1> DEFINE m == job[w].media
           j == Ensured(w, s)
<1>0. w \in Workers /\ m \in Media /\ job[w] \in Job /\ ~Idle(w) /\ Looks(w, m)
  BY Kinds DEF IInv, Typed, Job, Idle, Looks, Looking
<1>1. /\ j \in Job /\ j.at \in {"lookup", "find", "write"}
      /\ j.at = "write" => j.n = 1
      /\ j.alone = job[w].alone
  BY EnsuredIs DEF IInv
<1>2. /\ job' \in [Workers -> Job] /\ job'[w] = j
      /\ \A v \in Workers : v # w => job'[v] = job[v]
  BY <1>0, <1>1, JobMoves DEF IInv
<1>3. /\ subs' \in [SubIds -> SubRow]
      /\ subs'[s] = [kind |-> m, dir |-> DirFor(job[w].cfg, m)]
      /\ \A r \in SubIds : r # s => subs'[r] = subs[r]
  BY <1>0, WantedRow DEF IInv, Typed, Job
<1>4. \A k \in Media : /\ ForMedia(k)' = IF k = m THEN ForMedia(k) \cup {s} ELSE ForMedia(k)
                       /\ k # m => OfKind(k)' = OfKind(k)
  <2> TAKE k \in Media
  <2>1. k # m => s \notin ForMedia(k)
    BY <1>0 DEF ForMedia, OfKind, Media
  <2>2. \A r : r \in ForMedia(k)' <=> r \in ForMedia(k) \/ (k = m /\ r = s)
    BY <1>0, <1>3, <2>1 DEF ForMedia, OfKind, Media
  <2>3. k # m => \A r : r \in OfKind(k)' <=> r \in OfKind(k)
    BY <1>0, <1>3, <2>1 DEF ForMedia, OfKind, Media
  <2> QED BY <2>2, <2>3
<1>5. Typed'
  BY <1>2, <1>3 DEF IInv, Typed
<1>6. Unused'
  <2> SUFFICES ASSUME NEW r \in SubIds, r > lastSub' PROVE subs'[r].kind = "free"
    BY DEF Unused
  <2>1. r # s /\ r > lastSub
    BY ProwlarrAssumption DEF IInv, Typed, Ids, SubIds
  <2> QED BY <1>3, <2>1 DEF IInv, Unused
<1> HIDE DEF j
<1>7. \A v \in Workers : Fits(v)'
  <2> TAKE v \in Workers
  <2>1. CASE v = w
    BY <1>1, <1>2, <2>1 DEF Fits
  <2>2. CASE v # w
    <3>1. job[v].media \in Media /\ Fits(v)
      BY DEF IInv, Typed, Job
    <3>2. ForMedia(job[v].media) \subseteq ForMedia(job[v].media)'
      BY <1>2, <1>4, <2>2, <3>1
    <3> QED BY <1>2, <2>2, <3>1, <3>2 DEF Fits
  <2> QED BY <2>1, <2>2
<1>8. \A k \in Media : k \notin raced' => Single(k)'
  <2> SUFFICES ASSUME NEW k \in Media, k \notin raced PROVE Single(k)'
    OBVIOUS
  <2>1. Single(k)
    BY DEF IInv
  <2>2. \A v \in Workers : (job'[v].at \in Looking => v # w) /\ (Looks(v, k)' => Looks(v, k))
    BY <1>1, <1>2 DEF Looks, Looking
  <2>3. CASE k # m
    BY <1>2, <1>4, <2>1, <2>2, <2>3 DEF Single, Looking
  <2>4. CASE k = m
    <3>1. \A v \in Workers : job'[v].at \in {"findLegacy", "insert"} => job'[v].media # k
      <4> SUFFICES ASSUME NEW v \in Workers, job'[v].at \in {"findLegacy", "insert"},
                          job'[v].media = k
                   PROVE  FALSE
        OBVIOUS
      <4>1. v # w /\ job'[v] = job[v]
        BY <1>2, <2>2 DEF Looking
      <4> QED BY <1>0, <2>1, <2>4, <4>1 DEF Single
    <3>2. \A r, t \in ForMedia(k)' : r = t
      <4>1. CASE job[w].at = "insert"
        <5>1. ForMedia(k) = {}
          BY <1>0, <2>1, <2>4, <4>1 DEF Single
        <5> QED BY <1>4, <2>4, <5>1
      <4>2. CASE job[w].at = "update"
        <5>1. ForMedia(k)' = ForMedia(k)
          BY <1>4, <2>4, <4>2
        <5> QED BY <2>1, <5>1 DEF Single
      <4> QED BY <4>1, <4>2
    <3> QED BY <3>1, <3>2 DEF Single
  <2> QED BY <2>3, <2>4
<1>9. w \in Savers /\ job'[w].alone => SavedSoFar(w)'
  <2> SUFFICES ASSUME w \in Savers, job[w].alone PROVE SavedSoFar(w)'
    BY <1>1, <1>2
  <2>1. SavedSoFar(w)
    BY <1>0 DEF IInv
  <2>2. m = "tv" => s # job[w].cfg.movieSub
    BY <2>1 DEF SavedSoFar, MovieSaved, ForMedia, OfKind
  <2> QED BY <1>3, <2>1, <2>2, SaveGoesOn
<1> QED BY <1>0, <1>2, <1>5, <1>6, <1>7, <1>8, <1>9, OnlySave DEF IInv

LEMMA UpdateKeeps ==
  ASSUME IInv, NEW w \in Savers \cup Submitters, UpdateInternal(w)
  PROVE  IInv'
<1>1. job[w].at = "update" /\ job[w].sub \in ForMedia(job[w].media)
  BY Kinds DEF UpdateInternal, IInv, Fits
<1>2. job[w].media \in Media
  BY Kinds DEF IInv, Typed, Job
<1>3. PICK s : s = job[w].sub
  OBVIOUS
<1>4. s \in SubIds /\ s \in ForMedia(job[w].media) /\ subs[s].kind # "free"
  BY <1>1, <1>2, <1>3, RowOfMedia DEF Media
<1>5. lastSub' \in Ids /\ lastSub' >= lastSub /\ s <= lastSub'
  <2>1. ~(s > lastSub) /\ lastSub' = lastSub
    BY <1>4 DEF IInv, Unused, UpdateInternal
  <2> QED BY <1>4, <2>1, ProwlarrAssumption DEF IInv, Typed, Ids, SubIds
<1> QED BY <1>1, <1>3, <1>4, <1>5, RowWritten DEF UpdateInternal

LEMMA InsertKeeps ==
  ASSUME IInv, NEW w \in Savers \cup Submitters, InsertInternal(w)
  PROVE  IInv'
<1>1. PICK s : s = lastSub + 1
  OBVIOUS
<1>2. s \in SubIds /\ lastSub' \in Ids /\ lastSub' >= lastSub /\ s <= lastSub' /\ s > lastSub
  BY <1>1, ProwlarrAssumption DEF InsertInternal, IInv, Typed, Ids, SubIds
<1>3. subs[s].kind = "free"
  BY <1>2 DEF IInv, Unused
<1>4. job[w].media \in Media
  BY Kinds DEF IInv, Typed, Job
<1>5. s \notin ForMedia(job[w].media)
  BY <1>3, <1>4, RowOfMedia DEF Media
<1> QED BY <1>1, <1>2, <1>3, <1>5, RowWritten DEF InsertInternal

-----------------------------------------------------------------------------
(* The settings are written.                                               *)

LEMMA WrittenSetting ==
  ASSUME NEW s \in Settings, NEW cfg \in Settings, NEW n \in 1..4
  PROVE  LET new == [s EXCEPT ![Fields[n]] = cfg[Fields[n]]]
         IN  /\ new \in Settings
             /\ new.dir = IF n = 1 THEN cfg.dir ELSE s.dir
             /\ new.tvDir = IF n = 2 THEN cfg.tvDir ELSE s.tvDir
             /\ new.movieSub = IF n = 3 THEN cfg.movieSub ELSE s.movieSub
             /\ new.tvSub = IF n = 4 THEN cfg.tvSub ELSE s.tvSub
<1>1. n = 1 \/ n = 2 \/ n = 3 \/ n = 4
  OBVIOUS
<1>2. CASE n = 1
  <2>1. Fields[n] = "dir"
    BY <1>2, FourFields
  <2> QED BY <1>2, <2>1 DEF Settings
<1>3. CASE n = 2
  <2>1. Fields[n] = "tvDir"
    BY <1>3, FourFields
  <2> QED BY <1>3, <2>1 DEF Settings
<1>4. CASE n = 3
  <2>1. Fields[n] = "movieSub"
    BY <1>4, FourFields
  <2> QED BY <1>4, <2>1 DEF Settings
<1>5. CASE n = 4
  <2>1. Fields[n] = "tvSub"
    BY <1>5, FourFields
  <2> QED BY <1>5, <2>1 DEF Settings
<1> QED BY <1>1, <1>2, <1>3, <1>4, <1>5

\* Settings with the same values are the same.
LEMMA SameSettings ==
  ASSUME NEW s \in Settings, NEW t \in Settings,
         s.dir = t.dir, s.tvDir = t.tvDir, s.movieSub = t.movieSub, s.tvSub = t.tvSub
  PROVE  s = t
BY DEF Settings

LEMMA WriteKeeps ==
  ASSUME IInv, NEW w \in Savers, WriteSetting(w)
  PROVE  IInv'
<1>0. w \in Workers /\ job[w] \in Job /\ job[w].at = "write" /\ ~Idle(w)
  BY Kinds DEF IInv, Typed, Idle, WriteSetting
<1>1. /\ job[w].n \in 1..4 /\ setting \in Settings /\ job[w].cfg \in Settings
  BY <1>0 DEF IInv, Typed, Fits, Job
<1>2. setting' = [setting EXCEPT ![Fields[job[w].n]] = job[w].cfg[Fields[job[w].n]]]
  BY DEF WriteSetting
<1>3. /\ setting' \in Settings
      /\ setting'.dir = IF job[w].n = 1 THEN job[w].cfg.dir ELSE setting.dir
      /\ setting'.tvDir = IF job[w].n = 2 THEN job[w].cfg.tvDir ELSE setting.tvDir
      /\ setting'.movieSub = IF job[w].n = 3 THEN job[w].cfg.movieSub ELSE setting.movieSub
  BY <1>1, <1>2, WrittenSetting
<1>4. PICK j \in Job : /\ job' = [job EXCEPT ![w] = j]
                       /\ j.at = "idle" \/ (/\ j.at = "write" /\ j.n = job[w].n + 1 /\ j.n \in 1..4
                                            /\ j.cfg = job[w].cfg /\ j.media = job[w].media)
                       /\ j.alone => job[w].alone
  <2>1. CASE job[w].n = 4
    <3>1. job' = [job EXCEPT ![w] = Rest]
      BY <2>1, FourFields DEF WriteSetting
    <3> QED BY <3>1, RestIsAJob
  <2>2. CASE job[w].n # 4
    <3> DEFINE j == [job[w] EXCEPT !.n = @ + 1]
    <3>1. job' = [job EXCEPT ![w] = j]
      BY <2>2, FourFields DEF WriteSetting
    <3>2. job[w].n + 1 \in 1..4 /\ job[w].n + 1 \in 0..Len(Fields)
      BY <1>1, <2>2, FourFields
    <3>3. /\ j \in Job /\ j.at = "write" /\ j.n = job[w].n + 1
          /\ j.cfg = job[w].cfg /\ j.media = job[w].media /\ j.alone = job[w].alone
      BY <1>0, <3>2 DEF Job
    <3> QED BY <3>1, <3>2, <3>3
  <2> QED BY <2>1, <2>2
<1>5. /\ job' \in [Workers -> Job] /\ job'[w] = j
      /\ \A v \in Workers : v # w => job'[v] = job[v]
  BY <1>0, <1>4, JobMoves DEF IInv
<1>6. UNCHANGED <<subs, lastSub, item, raced>>
  BY DEF WriteSetting
<1>7. Typed' /\ Unused'
  BY <1>3, <1>5, <1>6 DEF IInv, Typed, Unused
<1>8. /\ \A k : ForMedia(k)' = ForMedia(k)
      /\ \A k : OfKind(k)' = OfKind(k)
  BY <1>6, SameRows
<1>9. \A v \in Workers : Fits(v)'
  BY <1>4, <1>5, <1>8 DEF IInv, Fits
<1>10. \A k \in Media : k \notin raced' => Single(k)'
  <2> SUFFICES ASSUME NEW k \in Media, k \notin raced PROVE Single(k)'
    BY <1>6
  <2>1. \A v \in Workers : (job'[v].at \in Looking => v # w) /\ (Looks(v, k)' => Looks(v, k))
    BY <1>4, <1>5 DEF Looks, Looking
  <2> QED BY <1>5, <1>8, <2>1 DEF IInv, Single, Looking
<1>11. job'[w].alone /\ ~Idle(w)' => SavedSoFar(w)'
  <2> SUFFICES ASSUME job'[w].alone, ~Idle(w)' PROVE SavedSoFar(w)'
    OBVIOUS
  <2>1. /\ SavedSoFar(w) /\ j.at = "write" /\ j.n = job[w].n + 1
        /\ j.cfg = job[w].cfg /\ j.media = job[w].media
    BY <1>0, <1>4, <1>5 DEF IInv, Idle
  <2>2. PICK cfg : cfg = job[w].cfg
    OBVIOUS
  <2>3. /\ cfg.dir \in Dirs /\ cfg.tvDir \in Dirs /\ j.media = "tv"
        /\ MovieSaved(cfg) /\ SeriesSaved(cfg)
    BY <1>0, <2>1, <2>2 DEF SavedSoFar
  <2>4. MovieSaved(cfg)' /\ SeriesSaved(cfg)'
    BY <1>6, <2>3 DEF MovieSaved, SeriesSaved
  <2>5. /\ j.n > 1 => setting'.dir = cfg.dir
        /\ j.n > 2 => setting'.tvDir = cfg.tvDir
        /\ j.n > 3 => setting'.movieSub = cfg.movieSub
    BY <1>0, <1>1, <1>3, <2>1, <2>2 DEF SavedSoFar
  <2>6. \A v \in Workers \ {w} : Idle(v)'
    BY <1>5, <2>1 DEF SavedSoFar, Idle
  <2> QED BY <1>5, <2>1, <2>2, <2>3, <2>4, <2>5, <2>6 DEF SavedSoFar, MovieSaved, SeriesSaved
<1> QED BY <1>0, <1>5, <1>7, <1>9, <1>10, <1>11, OnlySave DEF IInv

-----------------------------------------------------------------------------
(* The other steps.                                                        *)

LEMMA SaveKeeps ==
  ASSUME IInv, NEW w \in Savers, NEW d \in Dirs, NEW tv \in Dirs, SaveConfig(w, d, tv)
  PROVE  IInv'
<1>1. PICK cfg \in Settings : /\ cfg = [Unset EXCEPT !.dir = d, !.tvDir = tv]
                              /\ cfg.dir = d /\ cfg.tvDir = tv
  <2>1. PICK u : u = Unset
    OBVIOUS
  <2>2. u \in Settings
    BY <2>1, UnsetIsASetting
  <2>3. /\ [u EXCEPT !.dir = d, !.tvDir = tv] \in Settings
        /\ [u EXCEPT !.dir = d, !.tvDir = tv].dir = d
        /\ [u EXCEPT !.dir = d, !.tvDir = tv].tvDir = tv
    BY <2>2 DEF Settings
  <2> QED BY <2>1, <2>3
<1>2. PICK a \in BOOLEAN : a = (\A v \in Workers : Idle(v))
  OBVIOUS
<1>3. PICK r : r = [Rest EXCEPT !.at = "find", !.cfg = cfg, !.alone = a]
  OBVIOUS
<1>4. Begin(w, r)
  BY <1>1, <1>2, <1>3 DEF SaveConfig
<1>5. /\ r \in Job /\ r.at = "find" /\ r.media = "movie" /\ r.cfg = cfg /\ r.alone = a
  <2>1. Rest.media = "movie"
    BY DEF Rest
  <2> QED BY <1>3, <2>1, RestIsAJob DEF Job, Places
<1> QED BY <1>1, <1>2, <1>4, <1>5, BeginKeeps, Kinds DEF SaveConfig, Looking

LEMMA ListKeeps ==
  ASSUME IInv, NEW w \in Sorters, NEW n \in SubIds, NEW ids \in [1..n -> SubIds],
         ListIDs(w, ids)
  PROVE  IInv'
<1>1. n \in Nat /\ ids \in Seq(SubIds)
  <2>1. n \in Nat
    BY DEF SubIds
  <2> QED BY <2>1, SeqDef
<1>2. PICK r : r = [Rest EXCEPT !.at = "check", !.ids = ids]
  OBVIOUS
<1>3. r \in Job /\ r.at = "check"
  BY <1>1, <1>2, RestIsAJob DEF Job, Places
<1> QED BY <1>2, <1>3, BeginKeeps, Kinds DEF ListIDs, Looking

LEMMA ReleaseKeeps ==
  ASSUME IInv, NEW w \in Submitters, NEW g \in Guids, NEW m \in Media, SubmitRelease(w, g, m)
  PROVE  IInv'
<1>1. PICK r : r = [Rest EXCEPT !.at = "read", !.n = 1, !.guid = g, !.media = m]
  OBVIOUS
<1>2. r \in Job /\ r.at = "read" /\ r.n = 1
  <2>1. 1 \in 0..Len(Fields)
    BY FourFields
  <2> QED BY <1>1, <2>1, RestIsAJob DEF Job, Places
<1>3. Begin(w, r) /\ Idle(w) /\ UNCHANGED <<dbVars, raced>>
  BY <1>1 DEF SubmitRelease
<1>4. w \in Workers /\ w \notin Savers /\ r.n \in 1..4
  BY <1>2, Kinds
<1> QED BY <1>2, <1>3, <1>4, BeginKeeps DEF Looking

LEMMA QueueKeeps ==
  ASSUME IInv, NEW s \in SubIds, NEW g \in Guids, QueueTakes(s, g)
  PROVE  IInv'
<1>1. PICK r : r = [Rest EXCEPT !.at = "submit", !.sub = s, !.guid = g]
  OBVIOUS
<1>2. s \in Ids
  BY ProwlarrAssumption DEF SubIds, Ids
<1>3. r \in Job /\ r.at = "submit"
  BY <1>1, <1>2, RestIsAJob DEF Job, Places
<1> QED BY <1>1, <1>3, BeginKeeps, Kinds DEF QueueTakes, Looking

\* What a download writes of a release keeps the type of the releases.
LEMMA ItemWritten ==
  ASSUME Typed, NEW p, NEW x \in Statuses, item' = [item EXCEPT ![p] = x] \/ item' = item
  PROVE  item' \in [SubIds \X Guids -> Statuses]
BY DEF Typed

LEMMA CutKeeps ==
  ASSUME IInv, NEW w \in Workers, CutShort(w)
  PROVE  IInv'
<1>1. item' \in [SubIds \X Guids -> Statuses]
  BY DEF CutShort, dbVars, IInv, Typed
<1> QED BY <1>1, RestIsAJob, GoesOn DEF CutShort, dbVars, Looking

LEMMA ReorderKeeps ==
  ASSUME IInv, NEW w \in Sorters, ReorderCheck(w) \/ ReorderWrite(w)
  PROVE  IInv'
<1>1. item' \in [SubIds \X Guids -> Statuses]
  BY DEF ReorderCheck, ReorderWrite, dbVars, IInv, Typed
<1>2. job[w] \in Job /\ ~Idle(w) /\ w \in Workers /\ w \notin Savers
  BY Kinds DEF ReorderCheck, ReorderWrite, Idle, IInv, Typed
<1>3. PICK j \in Job : j.at \in {"idle", "reorder"} /\ job' = [job EXCEPT ![w] = j]
  <2>1. CASE job' = [job EXCEPT ![w] = Rest]
    BY <2>1, RestIsAJob
  <2>2. CASE job' = [job EXCEPT ![w] = [job[w] EXCEPT !.at = "reorder"]]
    <3>1. [job[w] EXCEPT !.at = "reorder"] \in Job
          /\ [job[w] EXCEPT !.at = "reorder"].at = "reorder"
      BY <1>2 DEF Job, Places
    <3> QED BY <2>2, <3>1
  <2> QED BY <2>1, <2>2 DEF ReorderCheck, ReorderWrite
<1>4. UNCHANGED <<subs, lastSub, setting, raced>>
  BY DEF ReorderCheck, ReorderWrite, dbVars
<1> QED BY <1>1, <1>2, <1>3, <1>4, GoesOn DEF Looking

\* One release on its way, after the request has read the settings.
OnItsWay(w) ==
  \/ ResolveURL(w) \/ LookupRelease(w) \/ UpsertRelease(w) \/ CheckRelease(w)
  \/ ResetForRetry(w) \/ ReadAgain(w) \/ MarkSubmitting(w)
  \/ \E result \in {"submitted", "failed"} : Record(w, result)

LEMMA ReadKeeps ==
  ASSUME IInv, NEW w \in Submitters, ReadSetting(w)
  PROVE  IInv'
<1>0. w \in Workers /\ w \notin Savers /\ job[w] \in Job /\ ~Idle(w) /\ job[w].at = "read"
  BY Kinds DEF ReadSetting, Idle, IInv, Typed
<1>1. job[w].n \in 1..4 /\ setting \in Settings /\ job[w].cfg \in Settings
  BY <1>0 DEF IInv, Typed, Fits, Job
<1>2. PICK cfg : cfg = [job[w].cfg EXCEPT ![Fields[job[w].n]] = setting[Fields[job[w].n]]]
  OBVIOUS
<1>3. cfg \in Settings
  BY <1>1, <1>2, WrittenSetting
<1>4. PICK j \in Job : /\ job' = [job EXCEPT ![w] = j]
                       /\ j.at \in {"idle", "read", "resolve"}
                       /\ j.at = "read" => j.n \in 1..4
  <2>1. CASE job[w].n < 4
    <3> DEFINE j == [job[w] EXCEPT !.cfg = cfg, !.n = @ + 1]
    <3>1. job' = [job EXCEPT ![w] = j]
      BY <1>2, <2>1, FourFields DEF ReadSetting
    <3>2. job[w].n + 1 \in 1..4 /\ job[w].n + 1 \in 0..Len(Fields)
      BY <1>1, <2>1, FourFields
    <3>3. j \in Job /\ j.at = "read" /\ j.n = job[w].n + 1
      BY <1>0, <1>3, <3>2 DEF Job
    <3> QED BY <3>1, <3>2, <3>3
  <2>2. CASE job[w].n = 4 /\ cfg.dir = NoDir
    <3>1. job' = [job EXCEPT ![w] = Rest]
      BY <1>2, <2>2, FourFields DEF ReadSetting
    <3> QED BY <3>1, RestIsAJob
  <2>3. CASE job[w].n = 4 /\ cfg.dir # NoDir
    <3> DEFINE j == [job[w] EXCEPT !.cfg = cfg, !.n = 0, !.at = "resolve"]
    <3>1. job' = [job EXCEPT ![w] = j]
      BY <1>2, <2>3, FourFields DEF ReadSetting
    <3>2. j \in Job /\ j.at = "resolve"
      <4>1. 0 \in 0..Len(Fields)
        BY FourFields
      <4> QED BY <1>0, <1>3, <4>1 DEF Job, Places
    <3> QED BY <3>1, <3>2
  <2> QED BY <1>1, <2>1, <2>2, <2>3
<1>5. UNCHANGED <<subs, lastSub, setting, raced>> /\ item' \in [SubIds \X Guids -> Statuses]
  BY DEF ReadSetting, dbVars, IInv, Typed
<1> QED BY <1>0, <1>4, <1>5, GoesOn DEF Looking

LEMMA WayKeeps ==
  ASSUME IInv, NEW w \in Submitters \cup {Scheduler}, OnItsWay(w)
  PROVE  IInv'
<1>0. w \in Workers /\ w \notin Savers /\ job[w] \in Job
  BY Kinds DEF IInv, Typed
<1>1. ~Idle(w) /\ UNCHANGED <<subs, lastSub, setting, raced>>
  BY DEF OnItsWay, ResolveURL, LookupRelease, UpsertRelease, CheckRelease, ResetForRetry,
         ReadAgain, MarkSubmitting, Record, Idle, dbVars
<1>2. item' \in [SubIds \X Guids -> Statuses]
  <2>1. CASE ResolveURL(w) \/ LookupRelease(w) \/ CheckRelease(w) \/ ReadAgain(w)
    BY <2>1 DEF ResolveURL, LookupRelease, CheckRelease, ReadAgain, dbVars, IInv, Typed
  <2>2. CASE UpsertRelease(w)
    <3>1. \/ item' = item
          \/ item' = [item EXCEPT ![Row(w)] = IF item[Row(w)] = "absent" THEN "pending"
                                              ELSE item[Row(w)]]
      BY <2>2 DEF UpsertRelease
    <3>2. Row(w) \in SubIds \X Guids => item[Row(w)] \in Statuses
      BY DEF IInv, Typed
    <3> QED BY <3>1, <3>2 DEF IInv, Typed, Statuses
  <2>3. CASE ResetForRetry(w)
    <3>1. item' = [item EXCEPT ![Row(w)] = "pending"] \/ item' = item
      BY <2>3 DEF ResetForRetry
    <3> QED BY <3>1, ItemWritten DEF IInv, Statuses
  <2>4. CASE MarkSubmitting(w)
    BY <2>4, ItemWritten DEF MarkSubmitting, IInv, Statuses
  <2>5. CASE \E result \in {"submitted", "failed"} : Record(w, result)
    BY <2>5, ItemWritten DEF Record, IInv, Statuses
  <2> QED BY <2>1, <2>2, <2>3, <2>4, <2>5 DEF OnItsWay
<1>3. PICK j \in Job : /\ job' = [job EXCEPT ![w] = j]
                       /\ j.at \in Places \ (Looking \cup {"write", "read"})
  <2>1. \A p \in Places : [job[w] EXCEPT !.at = p] \in Job /\ [job[w] EXCEPT !.at = p].at = p
    BY <1>0 DEF Job
  <2>2. {"idle", "lookup", "find", "upsert", "status", "reset", "again", "submit", "record"}
          \subseteq Places \ (Looking \cup {"write", "read"})
    BY DEF Places, Looking
  <2>3. CASE job' = [job EXCEPT ![w] = Rest]
    BY <2>2, <2>3, RestIsAJob
  <2>4. CASE \E p \in {"find", "status", "reset", "again", "submit", "record"} :
               job' = [job EXCEPT ![w] = [job[w] EXCEPT !.at = p]]
    <3>1. PICK p \in {"find", "status", "reset", "again", "submit", "record"} :
            job' = [job EXCEPT ![w] = [job[w] EXCEPT !.at = p]]
      BY <2>4
    <3>2. p \in Places
      BY <3>1, <2>2
    <3> DEFINE j == [job[w] EXCEPT !.at = p]
    <3>3. j \in Job /\ j.at = p
      BY <2>1, <3>2
    <3> HIDE DEF j
    <3> QED BY <2>2, <3>1, <3>3 DEF j
  <2>5. CASE /\ ResolveURL(w)
             /\ job' = [job EXCEPT ![w] = [job[w] EXCEPT !.cfg = Unset, !.at = "lookup",
                                             !.sub = SubFor(job[w].cfg, job[w].media)]]
    <3>1. Unset \in Settings /\ SubFor(job[w].cfg, job[w].media) \in Ids
      <4>1. Unset \in Settings
        BY UnsetIsASetting
      <4>2. job[w].cfg \in Settings
        BY <1>0 DEF Job
      <4>3. job[w].cfg.tvSub \in Ids /\ job[w].cfg.movieSub \in Ids
        BY <4>2 DEF Settings
      <4> QED BY <4>1, <4>3 DEF SubFor
    <3> DEFINE j == [job[w] EXCEPT !.cfg = Unset, !.at = "lookup",
                                   !.sub = SubFor(job[w].cfg, job[w].media)]
    <3>2. j \in Job /\ j.at = "lookup"
      BY <1>0, <3>1 DEF Job, Places
    <3> QED BY <2>2, <2>5, <3>2
  <2>6. CASE LookupRelease(w)
    <3>1. Unset \in Settings
      BY UnsetIsASetting
    <3> DEFINE j == [job[w] EXCEPT !.at = "upsert", !.cfg = Unset,
                                   !.found = item[Row(w)] # "absent"]
    <3>2. j \in Job /\ j.at = "upsert"
      BY <1>0, <3>1 DEF Job, Places
    <3> QED BY <2>2, <2>6, <3>2 DEF LookupRelease
  <2> QED BY <2>3, <2>4, <2>5, <2>6
          DEF OnItsWay, ResolveURL, UpsertRelease, CheckRelease, ResetForRetry,
              ReadAgain, MarkSubmitting, Record
<1> QED BY <1>0, <1>1, <1>2, <1>3, GoesOn

-----------------------------------------------------------------------------
(* The theorems.                                                           *)

LEMMA StandsStill == IInv /\ UNCHANGED vars => IInv'
<1> SUFFICES ASSUME IInv, UNCHANGED vars PROVE IInv'
  OBVIOUS
<1>1. UNCHANGED <<subs, lastSub, setting, item, job, raced>>
  BY DEF vars, dbVars
<1>2. /\ \A k : ForMedia(k)' = ForMedia(k)
      /\ \A k : OfKind(k)' = OfKind(k)
  BY <1>1, SameRows
<1>3. Typed' /\ Unused'
  BY <1>1 DEF IInv, Typed, Unused
<1>4. \A w \in Workers : Fits(w)'
  BY <1>1, <1>2 DEF IInv, Fits
<1>5. \A m \in Media : m \notin raced' => Single(m)'
  BY <1>1, <1>2 DEF IInv, Single, Looks
<1>6. \A w \in Savers : job'[w].alone /\ ~Idle(w)' => SavedSoFar(w)'
  BY <1>1 DEF IInv, SavedSoFar, MovieSaved, SeriesSaved, Idle
<1> QED BY <1>3, <1>4, <1>5, <1>6 DEF IInv

LEMMA StepKeeps == IInv /\ [Next]_vars => IInv'
<1> SUFFICES ASSUME IInv, [Next]_vars PROVE IInv'
  OBVIOUS
<1>1. CASE \E d \in Dirs : CreateSubscription(d)
  BY <1>1, CreateKeeps
<1>2. CASE \E s \in SubIds : DeleteSubscription(s)
  BY <1>2, DeleteKeeps
<1>3. ASSUME NEW w \in Sorters, NEW ids \in UNION {[1..n -> SubIds] : n \in SubIds},
             ListIDs(w, ids)
      PROVE  IInv'
  BY <1>3, ListKeeps
<1>4. CASE \E w \in Sorters : ReorderCheck(w) \/ ReorderWrite(w)
  BY <1>4, ReorderKeeps
<1>5. ASSUME NEW w \in Savers, NEW d \in Dirs, NEW tv \in Dirs, SaveConfig(w, d, tv)
      PROVE  IInv'
  BY <1>5, SaveKeeps
<1>6. CASE \E w \in Savers : WriteSetting(w)
  BY <1>6, WriteKeeps
<1>7. ASSUME NEW w \in Submitters, SubmitReleases(w)
      PROVE  IInv'
  BY <1>7, ReleaseKeeps DEF SubmitReleases
<1>8. CASE \E w \in Submitters : ReadSetting(w)
  BY <1>8, ReadKeeps
<1>9. CASE \E w \in Submitters :
             \/ ResolveURL(w) \/ LookupRelease(w) \/ UpsertRelease(w)
             \/ CheckRelease(w) \/ ResetForRetry(w) \/ ReadAgain(w)
  BY <1>9, WayKeeps DEF OnItsWay
<1>10. ASSUME NEW w \in Savers \cup Submitters, Ensure(w)
       PROVE  IInv'
  BY <1>10, FindKeeps, FindLegacyKeeps, UpdateKeeps, InsertKeeps DEF Ensure
<1>11. ASSUME NEW s \in SubIds, NEW g \in Guids, QueueTakes(s, g)
       PROVE  IInv'
  BY <1>11, QueueKeeps
<1>12. CASE \E w \in Submitters \cup {Scheduler} :
              MarkSubmitting(w) \/ \E result \in {"submitted", "failed"} : Record(w, result)
  BY <1>12, WayKeeps DEF OnItsWay
<1>13. CASE \E w \in Workers : CutShort(w)
  BY <1>13, CutKeeps
<1>14. CASE UNCHANGED vars
  BY <1>14, StandsStill
<1> QED BY <1>1, <1>2, <1>3, <1>4, <1>5, <1>6, <1>7, <1>8, <1>9, <1>10, <1>11, <1>12, <1>13,
           <1>14 DEF Next

\* The inductive invariant of Prowlarr.
THEOREM Invariance == Spec => []IInv
BY Starts, StepKeeps, PTL DEF Spec

\* ensureProwlarrSubscriptionByFeedURL leaves one internal subscription for each
\* medium, whatever saves, downloads, upgrades and failures came before, unless
\* two requests looked for the medium at the same time.
THEOREM OnePerMedium == Spec => []OneInternal
<1>1. IInv => OneInternal
  <2> SUFFICES ASSUME IInv, NEW m \in Media, m \notin raced
               PROVE  Cardinality(ForMedia(m)) <= 1
    BY DEF OneInternal
  <2>1. \A s, t \in ForMedia(m) : s = t
    BY DEF IInv, Single
  <2> QED BY <2>1, OneAtMost
<1> QED BY <1>1, Invariance, PTL

-----------------------------------------------------------------------------
(* Releases aria2 has accepted.                                            *)

\* A release a request is past looking for a subscription for is a row of the
\* table, and nobody hands over a release that is kept.
OnTheTable == {"lookup", "upsert", "status", "reset", "again", "submit", "record"}
Handing    == {"again", "submit", "record"}

Known ==
  /\ \A w \in Submitters : ~Idle(w) => job[w].guid \in Guids
  /\ \A w \in Workers : job[w].at \in OnTheTable => Row(w) \in SubIds \X Guids

KeptRows ==
  \A p \in kept : /\ p \in SubIds \X Guids
                  /\ item[p] = "submitted"
                  /\ \A v \in Workers : ~HandsOver(v, p)

KeptInv == Known /\ KeptRows

\* Worker w goes on with record j and spoils no kept release.
LEMMA KeptGoesOn ==
  ASSUME IInv, KeptInv, NEW w \in Workers, NEW j,
         job' = [job EXCEPT ![w] = j],
         w \in Submitters /\ j.at # "idle" => j.guid \in Guids,
         j.at \in OnTheTable => <<j.sub, j.guid>> \in SubIds \X Guids,
         j.at \in Handing => <<j.sub, j.guid>> \notin kept',
         \A p \in kept' : p \in SubIds \X Guids /\ item'[p] = "submitted",
         \A p \in kept' : \A v \in Workers \ {w} : ~HandsOver(v, p)
  PROVE  KeptInv'
<1>1. /\ job'[w] = j
      /\ \A v \in Workers : v # w => job'[v] = job[v]
  BY DEF IInv, Typed
<1>2. Known'
  <2>1. \A v \in Submitters : v \in Workers
    BY Kinds
  <2> QED BY <1>1, <2>1 DEF KeptInv, Known, Idle, Row
<1>3. KeptRows'
  <2> SUFFICES ASSUME NEW p \in kept', NEW v \in Workers PROVE ~HandsOver(v, p)'
    BY DEF KeptRows
  <2>1. CASE v = w
    BY <1>1, <2>1 DEF HandsOver, Row, Handing
  <2>2. CASE v # w
    BY <1>1, <2>2 DEF HandsOver, Row
  <2> QED BY <2>1, <2>2
<1> QED BY <1>2, <1>3 DEF KeptInv

\* A worker gives up.
LEMMA KeptStops ==
  ASSUME IInv, KeptInv, NEW w \in Workers, job' = [job EXCEPT ![w] = Rest],
         \A p \in kept' : p \in kept /\ item'[p] = item[p]
  PROVE  KeptInv'
<1>1. Rest.at = "idle" /\ "idle" \notin OnTheTable /\ "idle" \notin Handing
  BY RestIsAJob DEF OnTheTable, Handing
<1>2. \A p \in kept' : p \in SubIds \X Guids /\ item'[p] = "submitted"
  BY DEF KeptInv, KeptRows
<1>3. \A p \in kept' : \A v \in Workers \ {w} : ~HandsOver(v, p)
  BY DEF KeptInv, KeptRows
<1> QED BY <1>1, <1>2, <1>3, KeptGoesOn

\* Worker w begins with record r.
LEMMA KeptBegins ==
  ASSUME IInv, KeptInv, NEW w \in Workers, NEW r, Begin(w, r),
         UNCHANGED <<item, kept>>,
         w \in Submitters => r.guid \in Guids,
         r.at \in OnTheTable =>
           <<r.sub, r.guid>> \in SubIds \X Guids /\ <<r.sub, r.guid>> \notin kept
  PROVE  KeptInv'
<1>1. job'[w] = r
  BY DEF Begin
<1>2. \A v \in Workers : v # w =>
        job'[v].at = job[v].at /\ job'[v].guid = job[v].guid /\ job'[v].sub = job[v].sub
  <2> SUFFICES ASSUME NEW v \in Workers, v # w
               PROVE  <1>2!(v)!2
    OBVIOUS
  <2>1. PICK i \in Job : i = job[v]
    BY DEF IInv, Typed
  <2>2. job'[v] = [i EXCEPT !.alone = FALSE]
    BY <2>1 DEF Begin
  <2> QED BY <2>1, <2>2 DEF Job
<1>3. Known'
  <2>1. \A v \in Submitters : v \in Workers
    BY Kinds
  <2> QED BY <1>1, <1>2, <2>1 DEF KeptInv, Known, Idle, Row
<1>4. KeptRows'
  BY <1>1, <1>2 DEF KeptInv, KeptRows, HandsOver, Row, Handing, OnTheTable
<1> QED BY <1>3, <1>4 DEF KeptInv

\* What a worker that only moves leaves as it was.
LEMMA KeptMoves ==
  ASSUME IInv, KeptInv, NEW w \in Workers, NEW j,
         job' = [job EXCEPT ![w] = j], UNCHANGED <<item, kept>>,
         w \in Submitters /\ j.at # "idle" => j.guid \in Guids,
         j.at \in OnTheTable => <<j.sub, j.guid>> \in SubIds \X Guids,
         j.at \in Handing => <<j.sub, j.guid>> \notin kept
  PROVE  KeptInv'
<1>1. \A p \in kept' : p \in SubIds \X Guids /\ item'[p] = "submitted"
  BY DEF KeptInv, KeptRows
<1>2. \A p \in kept' : \A v \in Workers \ {w} : ~HandsOver(v, p)
  BY DEF KeptInv, KeptRows
<1> QED BY <1>1, <1>2, KeptGoesOn

LEMMA EnsureKeepsKept ==
  ASSUME IInv, KeptInv, NEW w \in Savers \cup Submitters, Ensure(w)
  PROVE  KeptInv'
<1>0. w \in Workers /\ job[w] \in Job /\ UNCHANGED <<item, kept>>
  BY Kinds DEF IInv, Typed, Ensure, Find, FindLegacy, UpdateInternal, InsertInternal, dbVars
<1>1. w \in Submitters /\ ~Idle(w) => job[w].guid \in Guids
  BY DEF KeptInv, Known
\* The subscription found or inserted serves.
<1>2. ASSUME NEW s \in SubIds, job' = [job EXCEPT ![w] = Ensured(w, s)], ~Idle(w)
      PROVE  KeptInv'
  <2> DEFINE j == Ensured(w, s)
  <2>1. j.at \in {"lookup", "find", "write"}
    BY EnsuredIs DEF IInv
  <2>2. j.at \notin Handing
    BY <2>1 DEF Handing
  <2>3. CASE w \in Submitters
    <3>1. j.sub = s /\ j.guid = job[w].guid
      BY <1>0, <2>3 DEF Ensured, Job
    <3>2. <<j.sub, j.guid>> \in SubIds \X Guids /\ j.guid \in Guids
      BY <1>1, <1>2, <2>3, <3>1
    <3> HIDE DEF j
    <3> QED BY <1>0, <1>2, <2>1, <2>2, <3>2, KeptMoves DEF j
  <2>4. CASE w \notin Submitters
    <3>1. j.at \in {"find", "write"}
      BY <2>1, <2>4, EnsuredIs DEF IInv, Ensured, Job
    <3>2. j.at \notin OnTheTable
      BY <3>1 DEF OnTheTable
    <3> HIDE DEF j
    <3> QED BY <1>0, <1>2, <2>1, <2>2, <2>4, <3>2, KeptMoves DEF j
  <2> QED BY <2>3, <2>4
\* The worker goes on looking.
<1>3. ASSUME NEW j, job' = [job EXCEPT ![w] = j], ~Idle(w),
             j.at \in Looking, j.guid = job[w].guid
      PROVE  KeptInv'
  <2>1. j.at \notin OnTheTable /\ j.at \notin Handing
    BY <1>3 DEF Looking, OnTheTable, Handing
  <2> QED BY <1>0, <1>1, <1>3, <2>1, KeptMoves
<1>4. ASSUME NEW s \in SubIds, job' = [job EXCEPT ![w] = Found(w, s)], ~Idle(w)
      PROVE  KeptInv'
  <2>1. CASE Found(w, s) = Ensured(w, s)
    BY <1>2, <1>4, <2>1
  <2>2. CASE Found(w, s) # Ensured(w, s)
    <3> DEFINE j == [job[w] EXCEPT !.at = "update", !.sub = s]
    <3>1. Found(w, s) = j
      BY <2>2 DEF Found
    <3>2. j.at = "update" /\ j.guid = job[w].guid
      BY <1>0 DEF Job
    <3> QED BY <1>3, <1>4, <3>1, <3>2 DEF Looking
  <2> QED BY <2>1, <2>2
<1>5. CASE Find(w)
  <2>1. ~Idle(w)
    BY <1>5 DEF Find, Idle
  <2>2. CASE OfKind(job[w].media) # {}
    <3>1. First(OfKind(job[w].media)) \in SubIds
      BY <2>2, FirstIsOne DEF OfKind
    <3>2. job' = [job EXCEPT ![w] = Found(w, First(OfKind(job[w].media)))]
      BY <1>5, <2>2 DEF Find
    <3> QED BY <1>4, <2>1, <3>1, <3>2
  <2>3. CASE OfKind(job[w].media) = {}
    <3> DEFINE j == [job[w] EXCEPT !.at = IF job[w].media = "movie" THEN "findLegacy" ELSE "insert"]
    <3>1. job' = [job EXCEPT ![w] = j]
      BY <1>5, <2>3 DEF Find
    <3>2. j.at \in Looking /\ j.guid = job[w].guid
      BY <1>0 DEF Job, Places, Looking
    <3> QED BY <1>3, <2>1, <3>1, <3>2
  <2> QED BY <2>2, <2>3
<1>6. CASE FindLegacy(w)
  <2>1. ~Idle(w)
    BY <1>6 DEF FindLegacy, Idle
  <2>2. CASE OfKind("legacy") # {}
    <3>1. First(OfKind("legacy")) \in SubIds
      BY <2>2, FirstIsOne DEF OfKind
    <3>2. job' = [job EXCEPT ![w] = Found(w, First(OfKind("legacy")))]
      BY <1>6, <2>2 DEF FindLegacy
    <3> QED BY <1>4, <2>1, <3>1, <3>2
  <2>3. CASE OfKind("legacy") = {}
    <3> DEFINE j == [job[w] EXCEPT !.at = "insert"]
    <3>1. job' = [job EXCEPT ![w] = j]
      BY <1>6, <2>3 DEF FindLegacy
    <3>2. j.at \in Looking /\ j.guid = job[w].guid
      BY <1>0 DEF Job, Places, Looking
    <3> QED BY <1>3, <2>1, <3>1, <3>2
  <2> QED BY <2>2, <2>3
<1>7. CASE UpdateInternal(w)
  <2>1. ~Idle(w) /\ job[w].sub \in SubIds
    BY <1>0, <1>7, RowOfMedia DEF UpdateInternal, Idle, IInv, Fits, Job
  <2> QED BY <1>2, <1>7, <2>1 DEF UpdateInternal
<1>8. CASE InsertInternal(w)
  <2>1. ~Idle(w) /\ lastSub + 1 \in SubIds
    BY <1>8, ProwlarrAssumption DEF InsertInternal, Idle, IInv, Typed, Ids, SubIds
  <2> QED BY <1>2, <1>8, <2>1 DEF InsertInternal
<1> QED BY <1>5, <1>6, <1>7, <1>8 DEF Ensure

\* SubmitProwlarrRelease and SubmitItemDownload, statement by statement.
LEMMA HandingKeepsKept ==
  ASSUME IInv, KeptInv, NEW w \in Submitters \cup {Scheduler}, OnItsWay(w), ~ResolveURL(w)
  PROVE  KeptInv'
<1>0. w \in Workers /\ job[w] \in Job /\ item \in [SubIds \X Guids -> Statuses]
  BY Kinds DEF IInv, Typed
<1>1. PICK i \in Job : i = job[w]
  BY <1>0
<1>2. w \in Submitters /\ ~Idle(w) => i.guid \in Guids
  BY <1>1 DEF KeptInv, Known
<1>3. i.at \in OnTheTable => <<i.sub, i.guid>> \in SubIds \X Guids
  BY <1>0, <1>1 DEF KeptInv, Known, Row
<1>4. Row(w) = <<i.sub, i.guid>>
  BY <1>1 DEF Row
<1>5. /\ Rest \in Job /\ Rest.at = "idle"
      /\ "idle" \notin OnTheTable /\ "idle" \notin Handing
  BY RestIsAJob DEF OnTheTable, Handing
\* The worker gives up.
<1>6. ASSUME job' = [job EXCEPT ![w] = Rest], UNCHANGED <<item, kept>>
      PROVE  KeptInv'
  BY <1>0, <1>6, KeptStops
\* It goes on with the same release.
<1>7. ASSUME NEW at \in OnTheTable, i.at \in OnTheTable,
             job' = [job EXCEPT ![w] = [i EXCEPT !.at = at]],
             \A p \in kept' :
               /\ p \in kept /\ item'[p] = item[p]
               /\ at \in Handing => Row(w) # p
      PROVE  KeptInv'
  <2> DEFINE j == [i EXCEPT !.at = at]
  <2>1. j.at = at /\ j.sub = i.sub /\ j.guid = i.guid
    BY DEF Job, Places, OnTheTable
  <2>2. ~Idle(w)
    BY <1>1, <1>7 DEF Idle, OnTheTable
  <2>3. \A p \in kept' : p \in SubIds \X Guids /\ item'[p] = "submitted"
    BY <1>7 DEF KeptInv, KeptRows
  <2>4. \A p \in kept' : \A v \in Workers \ {w} : ~HandsOver(v, p)
    BY <1>7 DEF KeptInv, KeptRows
  <2>5. job' = [job EXCEPT ![w] = j]
    BY <1>7
  <2>6. j.at \in Handing => <<j.sub, j.guid>> \notin kept'
    BY <1>4, <1>7, <2>1
  <2>7. /\ w \in Submitters => j.guid \in Guids
        /\ <<j.sub, j.guid>> \in SubIds \X Guids
    BY <1>2, <1>3, <1>7, <2>1, <2>2
  <2> HIDE DEF j
  <2> QED BY <1>0, <2>3, <2>4, <2>5, <2>6, <2>7, KeptGoesOn
\* A release this worker hands over is not kept.
<1>8. ASSUME i.at \in Handing PROVE Row(w) \notin kept
  BY <1>0, <1>1, <1>8 DEF KeptInv, KeptRows, HandsOver, Handing
<1>9. \A p \in kept : p \in SubIds \X Guids /\ item[p] = "submitted"
  BY DEF KeptInv, KeptRows
<1>10. CASE LookupRelease(w)
  <2> DEFINE j == [i EXCEPT !.at = "upsert", !.cfg = Unset, !.found = item[Row(w)] # "absent"]
  <2>1. job' = [job EXCEPT ![w] = j] /\ i.at = "lookup" /\ UNCHANGED <<item, kept>>
    BY <1>1, <1>10 DEF LookupRelease, dbVars
  <2>2. j.at = "upsert" /\ j.sub = i.sub /\ j.guid = i.guid
    BY UnsetIsASetting DEF Job, Places
  <2>3. "upsert" \in OnTheTable /\ "upsert" \notin Handing /\ i.at \in OnTheTable /\ ~Idle(w)
    BY <1>1, <2>1 DEF OnTheTable, Handing, Idle
  <2> HIDE DEF j
  <2> QED BY <1>0, <1>2, <1>3, <2>1, <2>2, <2>3, KeptMoves
<1>11. CASE UpsertRelease(w)
  <2>1. kept' = kept /\ i.at = "upsert"
    BY <1>1, <1>11 DEF UpsertRelease
  <2>2. \A p \in kept : item'[p] = item[p]
    <3> TAKE p \in kept
    <3>1. item[p] = "submitted" /\ p \in SubIds \X Guids
      BY <1>9
    <3>2. CASE Row(w) = p
      BY <1>0, <1>11, <3>1, <3>2 DEF UpsertRelease
    <3>3. CASE Row(w) # p
      BY <1>0, <1>11, <3>1, <3>3 DEF UpsertRelease
    <3> QED BY <3>2, <3>3
  <2>3. CASE job' = [job EXCEPT ![w] = Rest]
    BY <1>0, <2>1, <2>2, <2>3, KeptStops
  <2>4. CASE job' = [job EXCEPT ![w] = [i EXCEPT !.at = "status"]]
    <3>1. "status" \in OnTheTable /\ "status" \notin Handing /\ i.at \in OnTheTable
      BY <2>1 DEF OnTheTable, Handing
    <3> QED BY <1>7, <2>1, <2>2, <2>4, <3>1
  <2> QED BY <1>1, <1>11, <2>3, <2>4 DEF UpsertRelease
<1>12. CASE CheckRelease(w)
  <2>1. i.at = "status" /\ kept' = kept \ {Row(w)} /\ item' = item
    BY <1>1, <1>12 DEF CheckRelease, dbVars
  <2>2. i.at \in OnTheTable /\ "reset" \in OnTheTable /\ "again" \in OnTheTable
    BY <2>1 DEF OnTheTable
  <2>3. CASE job' = [job EXCEPT ![w] = Rest]
    BY <1>0, <2>1, <2>3, KeptStops
  <2>4. CASE job' = [job EXCEPT ![w] = [i EXCEPT !.at = "reset"]]
    BY <1>7, <2>1, <2>2, <2>4
  <2>5. CASE job' = [job EXCEPT ![w] = [i EXCEPT !.at = "again"]]
    BY <1>7, <2>1, <2>2, <2>5
  <2> QED BY <1>1, <1>12, <2>3, <2>4, <2>5 DEF CheckRelease
<1>13. CASE ResetForRetry(w)
  <2>1. i.at = "reset" /\ kept' = kept
    BY <1>1, <1>13 DEF ResetForRetry
  <2>2. \A p \in kept : item'[p] = item[p]
    <3> TAKE p \in kept
    <3>1. item[p] = "submitted" /\ p \in SubIds \X Guids
      BY <1>9
    <3>2. CASE Row(w) = p
      BY <1>13, <3>1, <3>2 DEF ResetForRetry
    <3>3. CASE Row(w) # p
      BY <1>0, <1>13, <3>1, <3>3 DEF ResetForRetry
    <3> QED BY <3>2, <3>3
  <2>3. CASE job' = [job EXCEPT ![w] = Rest]
    BY <1>0, <2>1, <2>2, <2>3, KeptStops
  <2>4. CASE /\ job' = [job EXCEPT ![w] = [i EXCEPT !.at = "again"]]
             /\ item[Row(w)] \in {"failed", "pending"}
    <3>1. i.at \in OnTheTable /\ "again" \in OnTheTable
      BY <2>1 DEF OnTheTable
    <3>2. Row(w) \notin kept
      BY <1>9, <2>4
    <3> QED BY <1>7, <2>1, <2>2, <2>4, <3>1, <3>2
  <2> QED BY <1>1, <1>13, <2>3, <2>4 DEF ResetForRetry
<1>14. CASE ReadAgain(w)
  <2>1. i.at = "again" /\ UNCHANGED <<item, kept>>
    BY <1>1, <1>14 DEF ReadAgain, dbVars
  <2>2. CASE job' = [job EXCEPT ![w] = Rest]
    BY <1>6, <2>1, <2>2
  <2>3. CASE job' = [job EXCEPT ![w] = [i EXCEPT !.at = "submit"]]
    <3>1. i.at \in OnTheTable /\ "submit" \in OnTheTable /\ i.at \in Handing
      BY <2>1 DEF OnTheTable, Handing
    <3> QED BY <1>7, <1>8, <2>1, <2>3, <3>1
  <2> QED BY <1>1, <1>14, <2>2, <2>3 DEF ReadAgain
<1>15. CASE MarkSubmitting(w)
  <2>1. i.at = "submit" /\ kept' = kept /\ job' = [job EXCEPT ![w] = [i EXCEPT !.at = "record"]]
    BY <1>1, <1>15 DEF MarkSubmitting
  <2>2. i.at \in OnTheTable /\ "record" \in OnTheTable /\ Row(w) \notin kept
    BY <1>8, <2>1 DEF OnTheTable, Handing
  <2>3. \A p \in kept : item'[p] = item[p]
    BY <1>0, <1>9, <1>15, <2>2 DEF MarkSubmitting
  <2> QED BY <1>7, <2>1, <2>2, <2>3
<1>16. CASE \E result \in {"submitted", "failed"} : Record(w, result)
  <2>1. PICK result \in {"submitted", "failed"} : Record(w, result)
    BY <1>16
  <2>2. /\ i.at = "record" /\ job' = [job EXCEPT ![w] = Rest]
        /\ item' = [item EXCEPT ![Row(w)] = result]
    BY <1>1, <2>1 DEF Record
  <2>3. Row(w) \notin kept /\ Row(w) \in SubIds \X Guids
    BY <1>3, <1>4, <1>8, <2>2 DEF OnTheTable, Handing
  <2>4. \A p \in kept' :
          /\ p \in SubIds \X Guids /\ item'[p] = "submitted"
          /\ \A v \in Workers \ {w} : ~HandsOver(v, p)
    <3> TAKE p \in kept'
    <3>1. CASE p \in kept
      <4>1. p # Row(w)
        BY <2>3, <3>1
      <4> QED BY <1>0, <1>9, <2>2, <3>1, <4>1 DEF KeptInv, KeptRows
    <3>2. CASE p \notin kept
      <4>1. /\ p = Row(w) /\ result = "submitted"
            /\ \A v \in Workers \ {w} : ~HandsOver(v, Row(w))
        BY <2>1, <3>2 DEF Record
      <4> QED BY <1>0, <2>2, <2>3, <4>1
    <3> QED BY <3>1, <3>2
  <2>5. \A p \in kept' : p \in SubIds \X Guids /\ item'[p] = "submitted"
    BY <2>4
  <2>6. \A p \in kept' : \A v \in Workers \ {w} : ~HandsOver(v, p)
    BY <2>4
  <2> QED BY <1>0, <1>5, <2>2, <2>5, <2>6, KeptGoesOn
<1> QED BY <1>10, <1>11, <1>12, <1>13, <1>14, <1>15, <1>16 DEF OnItsWay

LEMMA KeptStarts == Init => KeptInv
BY RestIsAJob, Kinds DEF Init, KeptInv, Known, KeptRows, Idle, OnTheTable

LEMMA KeptStep ==
  ASSUME IInv, KeptInv, [Next]_vars
  PROVE  KeptInv'
<1>0. /\ Rest \in Job /\ Rest.at = "idle"
      /\ "idle" \notin OnTheTable /\ "idle" \notin Handing
  BY RestIsAJob DEF OnTheTable, Handing
<1>1. CASE \/ \E d \in Dirs : CreateSubscription(d)
           \/ \E s \in SubIds : DeleteSubscription(s)
           \/ UNCHANGED vars
  <2>1. UNCHANGED <<item, job, kept>>
    BY <1>1 DEF CreateSubscription, DeleteSubscription, vars, dbVars
  <2> QED BY <2>1 DEF KeptInv, Known, KeptRows, Idle, Row, HandsOver
<1>2. ASSUME NEW w \in Sorters, NEW ids \in UNION {[1..n -> SubIds] : n \in SubIds},
             ListIDs(w, ids)
      PROVE  KeptInv'
  <2> DEFINE r == [Rest EXCEPT !.at = "check", !.ids = ids]
  <2>1. ids \in Seq(SubIds)
    BY <1>2, ProwlarrAssumption DEF SubIds
  <2>2. r.at = "check"
    BY <1>0, <2>1 DEF Job, Places
  <2>3. w \in Workers /\ w \notin Submitters /\ Begin(w, r) /\ UNCHANGED <<item, kept>>
    BY <1>2, ProwlarrAssumption DEF ListIDs, dbVars, Workers
  <2> HIDE DEF r
  <2> QED BY <2>2, <2>3, KeptBegins DEF OnTheTable
<1>3. CASE \E w \in Sorters : ReorderCheck(w) \/ ReorderWrite(w)
  <2>1. PICK w \in Sorters : ReorderCheck(w) \/ ReorderWrite(w)
    BY <1>3
  <2>2. /\ w \in Workers /\ w \notin Submitters /\ job[w] \in Job
        /\ UNCHANGED <<item, kept>>
    BY <2>1, Kinds, ProwlarrAssumption DEF IInv, Typed, ReorderCheck, ReorderWrite, dbVars
  <2>3. CASE job' = [job EXCEPT ![w] = Rest]
    BY <2>2, <2>3, KeptStops
  <2>4. CASE job' = [job EXCEPT ![w] = [job[w] EXCEPT !.at = "reorder"]]
    <3> DEFINE j == [job[w] EXCEPT !.at = "reorder"]
    <3>1. j.at = "reorder"
      BY <2>2 DEF Job, Places
    <3> HIDE DEF j
    <3> QED BY <2>2, <2>4, <3>1, KeptMoves DEF OnTheTable, Handing, j
  <2> QED BY <2>1, <2>3, <2>4 DEF ReorderCheck, ReorderWrite
<1>4. ASSUME NEW w \in Savers, NEW d \in Dirs, NEW tv \in Dirs, SaveConfig(w, d, tv)
      PROVE  KeptInv'
  <2> DEFINE r == [Rest EXCEPT !.at = "find",
                     !.cfg = [Unset EXCEPT !.dir = d, !.tvDir = tv],
                     !.alone = \A v \in Workers : Idle(v)]
  <2>1. [Unset EXCEPT !.dir = d, !.tvDir = tv] \in Settings
    BY UnsetIsASetting DEF Settings
  <2>2. r.at = "find"
    BY <1>0, <2>1 DEF Job, Places
  <2>3. w \in Workers /\ w \notin Submitters /\ Begin(w, r) /\ UNCHANGED <<item, kept>>
    BY <1>4, Kinds DEF SaveConfig, dbVars
  <2> HIDE DEF r
  <2> QED BY <2>2, <2>3, KeptBegins DEF OnTheTable
<1>5. CASE \E w \in Savers : WriteSetting(w)
  <2>1. PICK w \in Savers : WriteSetting(w)
    BY <1>5
  <2>2. /\ w \in Workers /\ w \notin Submitters /\ job[w] \in Job
        /\ job[w].at = "write" /\ UNCHANGED <<item, kept>>
    BY <2>1, Kinds DEF IInv, Typed, WriteSetting
  <2>3. CASE job' = [job EXCEPT ![w] = Rest]
    BY <2>2, <2>3, KeptStops
  <2>4. CASE /\ job' = [job EXCEPT ![w] = [job[w] EXCEPT !.n = job[w].n + 1]]
             /\ job[w].n # Len(Fields)
    <3> DEFINE j == [job[w] EXCEPT !.n = job[w].n + 1]
    <3>1. j.at = "write"
      BY <2>2 DEF Job
    <3>2. job' = [job EXCEPT ![w] = j]
      BY <2>4
    <3> HIDE DEF j
    <3> QED BY <2>2, <3>1, <3>2, KeptMoves DEF OnTheTable, Handing
  <2> QED BY <2>1, <2>3, <2>4 DEF WriteSetting
<1>6. ASSUME NEW w \in Submitters, NEW g \in Guids, NEW m \in Media, SubmitRelease(w, g, m)
      PROVE  KeptInv'
  <2> DEFINE r == [Rest EXCEPT !.at = "read", !.n = 1, !.guid = g, !.media = m]
  <2>1. r.at = "read" /\ r.guid = g
    BY DEF Rest
  <2>2. w \in Workers /\ Begin(w, r) /\ UNCHANGED <<item, kept>>
    BY <1>6, Kinds DEF SubmitRelease, dbVars
  <2> HIDE DEF r
  <2> QED BY <2>1, <2>2, KeptBegins DEF OnTheTable
<1>7. ASSUME NEW w \in Submitters, ReadSetting(w) \/ ResolveURL(w)
      PROVE  KeptInv'
  <2>1. /\ w \in Workers /\ job[w] \in Job /\ ~Idle(w) /\ setting \in Settings
        /\ UNCHANGED <<item, kept>>
    BY <1>7, Kinds DEF IInv, Typed, ReadSetting, ResolveURL, Idle, dbVars
  <2>2. job[w].guid \in Guids
    BY <2>1 DEF KeptInv, Known
  <2>3. CASE job' = [job EXCEPT ![w] = Rest]
    BY <2>1, <2>3, KeptStops
  <2>4. ASSUME NEW j, job' = [job EXCEPT ![w] = j], j.guid = job[w].guid,
               j.at \in OnTheTable => j.at = "lookup" /\ j.sub \in SubIds
        PROVE  KeptInv'
    <3>1. j.at \notin Handing
      BY <2>4 DEF OnTheTable, Handing
    <3> QED BY <2>1, <2>2, <2>4, <3>1, KeptMoves
  <2>5. CASE ResolveURL(w)
    <3> DEFINE s == SubFor(job[w].cfg, job[w].media)
    <3>1. s \in Ids
      BY <2>1 DEF SubFor, Job, Settings
    <3>2. CASE s # 0
      <4> DEFINE j == [job[w] EXCEPT !.cfg = Unset, !.at = "lookup", !.sub = s]
      <4>1. s \in SubIds
        BY <3>1, <3>2, ProwlarrAssumption DEF Ids, SubIds
      <4>2. /\ j.at = "lookup" /\ j.sub = s /\ j.guid = job[w].guid
            /\ job' = [job EXCEPT ![w] = j]
        BY <2>1, <2>5, <3>1, <3>2, UnsetIsASetting DEF ResolveURL, Job, Places
      <4> HIDE DEF j, s
      <4> QED BY <2>4, <4>1, <4>2
    <3>3. CASE s = 0
      <4> DEFINE j == [job[w] EXCEPT !.at = "find"]
      <4>1. j.at = "find" /\ j.guid = job[w].guid /\ job' = [job EXCEPT ![w] = j]
        BY <2>1, <2>5, <3>3 DEF ResolveURL, Job, Places
      <4> HIDE DEF j
      <4> QED BY <2>4, <4>1 DEF OnTheTable
    <3> QED BY <3>2, <3>3
  <2>6. CASE ReadSetting(w) /\ job' # [job EXCEPT ![w] = Rest]
    <3>1. PICK i \in Job : i = job[w]
      BY <2>1
    <3>2. i.at = "read"
      BY <2>6, <3>1 DEF ReadSetting
    <3> DEFINE cfg == [i.cfg EXCEPT ![Fields[i.n]] = setting[Fields[i.n]]]
    <3>5. \/ job' = [job EXCEPT ![w] = [i EXCEPT !.cfg = cfg, !.n = i.n + 1]] /\ i.n < Len(Fields)
          \/ job' = [job EXCEPT ![w] = [i EXCEPT !.cfg = cfg, !.n = 0, !.at = "resolve"]]
      BY <2>6, <3>1 DEF ReadSetting
    <3> HIDE DEF cfg
    <3>6. CASE job' = [job EXCEPT ![w] = [i EXCEPT !.cfg = cfg, !.n = i.n + 1]] /\ i.n < Len(Fields)
      <4> DEFINE j == [i EXCEPT !.cfg = cfg, !.n = i.n + 1]
      <4>1. j.at = "read" /\ j.guid = job[w].guid
        BY <3>1, <3>2 DEF Job
      <4> HIDE DEF j
      <4> QED BY <2>4, <3>6, <4>1 DEF OnTheTable, j
    <3>7. CASE job' = [job EXCEPT ![w] = [i EXCEPT !.cfg = cfg, !.n = 0, !.at = "resolve"]]
      <4> DEFINE j == [i EXCEPT !.cfg = cfg, !.n = 0, !.at = "resolve"]
      <4>1. j.at = "resolve" /\ j.guid = job[w].guid
        BY <3>1 DEF Job
      <4> HIDE DEF j
      <4> QED BY <2>4, <3>7, <4>1 DEF OnTheTable, j
    <3> QED BY <3>5, <3>6, <3>7
  <2> QED BY <1>7, <2>3, <2>5, <2>6
<1>8. ASSUME NEW w \in Submitters,
             \/ LookupRelease(w) \/ UpsertRelease(w)
             \/ CheckRelease(w) \/ ResetForRetry(w) \/ ReadAgain(w)
      PROVE  KeptInv'
  <2>1. ~ResolveURL(w)
    BY <1>8 DEF ResolveURL, LookupRelease, UpsertRelease, CheckRelease, ResetForRetry, ReadAgain
  <2> QED BY <1>8, <2>1, HandingKeepsKept DEF OnItsWay
<1>9. CASE \E w \in Savers \cup Submitters : Ensure(w)
  BY <1>9, EnsureKeepsKept
<1>10. ASSUME NEW s \in SubIds, NEW g \in Guids, QueueTakes(s, g)
       PROVE  KeptInv'
  <2> DEFINE r == [Rest EXCEPT !.at = "submit", !.sub = s, !.guid = g]
  <2>1. r.sub = s /\ r.guid = g
    BY DEF Rest
  <2>2. /\ Scheduler \in Workers /\ Scheduler \notin Submitters
        /\ Begin(Scheduler, r) /\ UNCHANGED <<item, kept>>
    BY <1>10, ProwlarrAssumption DEF QueueTakes, dbVars, Workers
  <2>3. <<s, g>> \in SubIds \X Guids /\ <<s, g>> \notin kept
    BY <1>10 DEF QueueTakes, KeptInv, KeptRows
  <2> HIDE DEF r
  <2> QED BY <2>1, <2>2, <2>3, KeptBegins
<1>11. ASSUME NEW w \in Submitters \cup {Scheduler},
              MarkSubmitting(w) \/ \E result \in {"submitted", "failed"} : Record(w, result)
       PROVE  KeptInv'
  <2>1. ~ResolveURL(w)
    BY <1>11 DEF ResolveURL, MarkSubmitting, Record
  <2> QED BY <1>11, <2>1, HandingKeepsKept DEF OnItsWay
<1>12. CASE \E w \in Workers : CutShort(w)
  <2>1. PICK w \in Workers : CutShort(w)
    BY <1>12
  <2>2. job' = [job EXCEPT ![w] = Rest] /\ UNCHANGED <<item, kept>>
    BY <2>1 DEF CutShort, dbVars
  <2> QED BY <2>2, KeptStops
<1> QED BY <1>1, <1>2, <1>3, <1>4, <1>5, <1>6, <1>7, <1>8, <1>9, <1>10, <1>11, <1>12
        DEF Next, SubmitReleases

\* A release aria2 has accepted stays accepted: a retry, a queue pass or a
\* failing statement takes it back only where somebody was past the last look
\* at its status, or where a request finds it submitted and asks for it again.
THEOREM AcceptedForGood == Spec => []AcceptedStays
<1>1. IInv /\ [Next]_vars /\ KeptInv => KeptInv'
  BY KeptStep
<1>2. KeptInv => AcceptedStays
  BY DEF KeptInv, KeptRows, AcceptedStays
<1> QED BY <1>1, <1>2, KeptStarts, Invariance, PTL DEF Spec

-----------------------------------------------------------------------------
(* Saves.                                                                  *)

Counted == events \in Nat

LEMMA Counts == Spec => []Counted
<1>1. Init => Counted
  <2>1. Init => events = 0
    BY Zenon DEF Init
  <2> QED BY <2>1 DEF Counted
<1>2. Counted /\ [Next]_vars => Counted'
  <2> SUFFICES ASSUME events \in Nat, [Next]_vars PROVE events' \in Nat
    BY DEF Counted
  <2>1. CASE Event
    BY <2>1 DEF Event
  <2>2. CASE events' = events
    BY <2>2
  <2>3. Event \/ events' = events
    <3>1. CASE \/ \E d \in Dirs : CreateSubscription(d)
               \/ \E s \in SubIds : DeleteSubscription(s)
               \/ \E w \in Workers : CutShort(w)
               \/ UNCHANGED vars
      BY <3>1 DEF CreateSubscription, DeleteSubscription, CutShort, vars
    <3>2. CASE \/ \E w \in Sorters :
                    \/ \E ids \in UNION {[1..n -> SubIds] : n \in SubIds} : ListIDs(w, ids)
                    \/ ReorderCheck(w) \/ ReorderWrite(w)
               \/ \E w \in Savers : \/ \E d \in Dirs, tv \in Dirs : SaveConfig(w, d, tv)
                                    \/ WriteSetting(w)
      BY <3>2 DEF ListIDs, ReorderCheck, ReorderWrite, SaveConfig, WriteSetting
    <3>3. CASE \E w \in Savers \cup Submitters : Ensure(w)
      BY <3>3 DEF Ensure, Find, FindLegacy, UpdateInternal, InsertInternal
    <3>4. CASE \/ \E w \in Submitters : SubmitReleases(w) \/ ReadSetting(w) \/ ResolveURL(w)
                    \/ LookupRelease(w) \/ CheckRelease(w) \/ ReadAgain(w)
               \/ \E s \in SubIds, g \in Guids : QueueTakes(s, g)
      BY <3>4 DEF SubmitReleases, SubmitRelease, ReadSetting, ResolveURL, LookupRelease,
                  CheckRelease, ReadAgain, QueueTakes
    <3>5. CASE \/ \E w \in Submitters : UpsertRelease(w) \/ ResetForRetry(w)
               \/ \E w \in Submitters \cup {Scheduler} :
                    MarkSubmitting(w) \/ \E result \in {"submitted", "failed"} : Record(w, result)
      BY <3>5 DEF UpsertRelease, ResetForRetry, MarkSubmitting, Record
    <3> QED BY <3>1, <3>2, <3>3, <3>4, <3>5 DEF Next
  <2> QED BY <2>1, <2>2, <2>3
<1> QED BY <1>1, <1>2, PTL DEF Spec

\* The last write of an undisturbed save.
LEMMA SaveStep ==
  ASSUME IInv, [Next]_vars, NEW w \in Savers, job[w].at = "write", job[w].n = Len(Fields),
         job[w].alone, setting'.tvSub = job[w].cfg.tvSub, job'[w].at = "idle",
         events \in Nat, events' = events
  PROVE  Agreement(job[w].cfg)
<1>1. SavedSoFar(w) /\ w \in Workers /\ w \notin Submitters /\ ~Idle(w)
  BY Kinds DEF IInv, Idle
<1>2. /\ MovieSaved(job[w].cfg) /\ SeriesSaved(job[w].cfg)
      /\ setting.dir = job[w].cfg.dir /\ setting.tvDir = job[w].cfg.tvDir
      /\ setting.movieSub = job[w].cfg.movieSub
  BY <1>1, FourFields DEF SavedSoFar
<1>3. \A v \in Workers : v # w => job[v].at = "idle"
  BY <1>1 DEF SavedSoFar, Idle
<1>4. WriteSetting(w)
  <2>1. \A v \in Workers : ~Idle(v) => v = w
    BY <1>3 DEF Idle
  <2>2. ASSUME NEW v \in Workers, NEW r, Begin(v, r), Idle(v)
        PROVE  FALSE
    <3>1. job'[w] = [job[w] EXCEPT !.alone = FALSE] /\ job[w] \in Job
      BY <1>1, <2>2 DEF Begin, IInv, Typed
    <3> QED BY <3>1 DEF Job
  <2>3. CASE \/ \E d \in Dirs : CreateSubscription(d)
             \/ \E s \in SubIds : DeleteSubscription(s)
             \/ UNCHANGED vars
    BY <2>3 DEF CreateSubscription, DeleteSubscription, vars
  <2>4. CASE \E v \in Workers : CutShort(v)
    BY <2>4 DEF CutShort, Event
  <2>5. CASE \E v \in Sorters : ReorderCheck(v) \/ ReorderWrite(v)
    BY <2>1, <2>5, Kinds DEF ReorderCheck, ReorderWrite, Idle
  <2>6. CASE \/ \E v \in Sorters :
                  \E ids \in UNION {[1..n -> SubIds] : n \in SubIds} : ListIDs(v, ids)
             \/ \E v \in Savers : \E d \in Dirs, tv \in Dirs : SaveConfig(v, d, tv)
             \/ \E v \in Submitters : SubmitReleases(v)
             \/ \E s \in SubIds, g \in Guids : QueueTakes(s, g)
    BY <2>2, <2>6, Kinds DEF ListIDs, SaveConfig, SubmitReleases, SubmitRelease, QueueTakes
  <2>7. CASE \E v \in Savers : WriteSetting(v)
    BY <2>1, <2>7, Kinds DEF WriteSetting, Idle
  <2>8. CASE \E v \in Submitters :
               \/ ReadSetting(v) \/ ResolveURL(v) \/ LookupRelease(v) \/ UpsertRelease(v)
               \/ CheckRelease(v) \/ ResetForRetry(v) \/ ReadAgain(v)
    BY <2>1, <2>8, Kinds DEF ReadSetting, ResolveURL, LookupRelease, UpsertRelease,
       CheckRelease, ResetForRetry, ReadAgain, Idle
  <2>9. CASE \E v \in Savers \cup Submitters : Ensure(v)
    BY <2>1, <2>9, Kinds DEF Ensure, Find, FindLegacy, UpdateInternal, InsertInternal, Idle
  <2>10. CASE \E v \in Submitters \cup {Scheduler} :
                MarkSubmitting(v) \/ \E result \in {"submitted", "failed"} : Record(v, result)
    BY <2>1, <2>10, Kinds DEF MarkSubmitting, Record, Idle
  <2> QED BY <2>3, <2>4, <2>5, <2>6, <2>7, <2>8, <2>9, <2>10 DEF Next
<1>5. Agreement(job[w].cfg)
  <2>1. setting \in Settings /\ job[w].cfg \in Settings
    BY <1>1 DEF IInv, Typed, Job
  <2>2. job[w].n = 4
    BY FourFields
  <2>3. setting' = [setting EXCEPT ![Fields[job[w].n]] = job[w].cfg[Fields[job[w].n]]]
    BY <1>4 DEF WriteSetting
  <2>4. setting' = job[w].cfg
    <3>1. job[w].n \in 1..4
      BY <2>2
    <3>2. /\ setting' \in Settings
          /\ setting'.dir = IF job[w].n = 1 THEN job[w].cfg.dir ELSE setting.dir
          /\ setting'.tvDir = IF job[w].n = 2 THEN job[w].cfg.tvDir ELSE setting.tvDir
          /\ setting'.movieSub = IF job[w].n = 3 THEN job[w].cfg.movieSub ELSE setting.movieSub
      BY <2>1, <2>3, <3>1, WrittenSetting
    <3>3. /\ setting'.dir = setting.dir /\ setting'.tvDir = setting.tvDir
          /\ setting'.movieSub = setting.movieSub /\ setting'.tvSub = job[w].cfg.tvSub
      BY <2>2, <3>2
    <3> QED BY <1>2, <2>1, <3>2, <3>3, SameSettings
  <2> QED BY <1>2, <2>4 DEF Agreement, MovieSaved, SeriesSaved
<1> QED BY <1>5

\* SaveProwlarrConfig leaves settings and subscriptions in agreement when nobody
\* else is at work, whatever overlaps and failures there were before.
THEOREM SavedAlone == Spec => SaveAloneAgrees
<1>1. IInv /\ Counted /\ [Next]_vars =>
        [\A w \in Savers : job[w].at = "write" /\ job[w].n = Len(Fields) /\ job[w].alone
           /\ setting'.tvSub = job[w].cfg.tvSub /\ job'[w].at = "idle" /\ events' = events
           => Agreement(job[w].cfg)]_vars
  BY SaveStep DEF Counted
<1> QED BY <1>1, Invariance, Counts, PTL DEF Spec, SaveAloneAgrees

=============================================================================
