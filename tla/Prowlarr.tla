------------------------------ MODULE Prowlarr ------------------------------
(***************************************************************************)
(* The Prowlarr integration and the list of subscriptions it lives in.     *)
(* Releases are stored as feed items of two internal subscriptions, one    *)
(* for movies and one for series, which SaveProwlarrConfig, and a download *)
(* request that finds no id in the settings, look up by feed_url and       *)
(* insert when there is none.  The settings are separate rows, written and *)
(* read one after the other.                                               *)
(*                                                                         *)
(* Nothing is locked: one step is one statement or one transaction, and    *)
(* what a request read before stays in its own record, job[w].             *)
(***************************************************************************)
EXTENDS Naturals, FiniteSets, Sequences

CONSTANTS
  MaxSubs,    \* bound: how many rows subscriptions can get
  Guids,      \* releases
  Dirs,       \* download directories
  NoDir,      \* stands for an empty setting
  Savers,     \* requests that save the configuration
  Submitters, \* requests that download a release
  Sorters,    \* requests that reorder the subscriptions
  Scheduler,  \* the goroutine of Scheduler.Run, submitting what waits
  MaxEvents   \* bound: requests begun or cut short, subscriptions created or deleted

ASSUME ProwlarrAssumption ==
  /\ MaxSubs \in Nat \ {0}
  /\ NoDir \notin Dirs
  /\ Savers \cap Submitters = {} /\ (Savers \cup Submitters) \cap Sorters = {}
  /\ Scheduler \notin Savers \cup Submitters \cup Sorters
  /\ MaxEvents \in Nat

VARIABLES
  subs,    \* subs[s]: row s of subscriptions
  lastSub, \* the last auto-increment id used
  order,   \* the ids in the order of sort_order
  setting, \* setting[f]: value of a row of settings
  item,    \* item[s, g]: download_status of release g under subscription s
  job,     \* job[w]: where worker w stands and its local variables
  events,  \* how many requests, edits and cuts there have been
  raced,   \* history: media two requests looked for a subscription for at once
  kept     \* history: releases aria2 has accepted, while nobody hands them over again

dbVars == <<subs, lastSub, order, setting, item>>
vars   == <<dbVars, job, events, raced, kept>>

-----------------------------------------------------------------------------

Workers == Savers \cup Submitters \cup Sorters \cup {Scheduler}
SubIds  == 1..MaxSubs
Ids     == 0..MaxSubs
Media   == {"movie", "tv"}

\* The settings in the order they are written, which is also the order they
\* are read in: prowlarr_download_dir, prowlarr_tv_download_dir,
\* prowlarr_subscription_id, prowlarr_tv_subscription_id.  The address and the
\* key are written before them, so a directory implies that they are set.
Fields   == <<"dir", "tvDir", "movieSub", "tvSub">>
Settings == [dir : Dirs \cup {NoDir}, tvDir : Dirs \cup {NoDir}, movieSub : Ids, tvSub : Ids]
Unset    == [dir |-> NoDir, tvDir |-> NoDir, movieSub |-> 0, tvSub |-> 0]

\* kind: what feed_url says, "legacy" for prowlarr://internal.
SubRow  == [kind : {"free", "feed", "movie", "tv", "legacy", "deleted"}, dir : Dirs \cup {NoDir}]
NoRow   == [kind |-> "free", dir |-> NoDir]
Statuses == {"absent", "pending", "submitting", "submitted", "failed"}

Places == {"idle", "read", "resolve", "find", "findLegacy", "update", "insert", "write",
           "lookup", "upsert", "status", "reset", "again", "submit", "record", "check", "reorder"}

\* n: the next setting to read or write; cfg: the values read, or to write;
\* media: the subscription looked for; sub: the one found; guid: the release;
\* found: whether its row was there; ids: a new order; alone: nobody else has
\* been at work since this save began (history).
Job  == [at : Places, n : 0..Len(Fields), cfg : Settings, media : Media, sub : Ids,
         guid : Guids \cup {""}, found : BOOLEAN, ids : Seq(SubIds), alone : BOOLEAN]
Rest == [at |-> "idle", n |-> 0, cfg |-> Unset, media |-> "movie", sub |-> 0,
         guid |-> "", found |-> FALSE, ids |-> <<>>, alone |-> FALSE]

TypeOK ==
  /\ subs \in [SubIds -> SubRow]
  /\ lastSub \in Ids
  /\ order \in Seq(SubIds)
  /\ setting \in Settings
  /\ item \in [SubIds \X Guids -> Statuses]
  /\ job \in [Workers -> Job]
  /\ events \in Nat
  /\ raced \subseteq Media
  /\ kept \subseteq SubIds \X Guids

Internal(s) == subs[s].kind \in {"movie", "tv", "legacy"}
Exists(s)   == subs[s].kind \notin {"free", "deleted"}
OfKind(k)   == {s \in SubIds : subs[s].kind = k}
First(S)    == CHOOSE s \in S : \A other \in S : s <= other
ForMedia(m) == IF m = "movie" THEN OfKind("movie") \cup OfKind("legacy") ELSE OfKind("tv")

\* A database that never knew Prowlarr, or one configured before series had a
\* subscription of their own.
Init ==
  /\ \/ /\ subs = [s \in SubIds |-> NoRow]
        /\ lastSub = 0 /\ order = <<>> /\ setting = Unset
     \/ \E d \in Dirs :
          /\ subs = [[s \in SubIds |-> NoRow] EXCEPT ![1] = [kind |-> "legacy", dir |-> d]]
          /\ lastSub = 1 /\ order = <<1>>
          /\ setting = [Unset EXCEPT !.dir = d, !.movieSub = 1]
  /\ item = [p \in SubIds \X Guids |-> "absent"]
  /\ job = [w \in Workers |-> Rest]
  /\ events = 0
  /\ raced = {}
  /\ kept = {}

Event == events < MaxEvents /\ events' = events + 1
Idle(w) == job[w].at = "idle"

\* Worker w begins with record r; no save in progress is alone any more.
Begin(w, r) ==
  job' = [v \in Workers |-> IF v = w THEN r ELSE [job[v] EXCEPT !.alone = FALSE]]

-----------------------------------------------------------------------------
(* Subscriptions of the administrator.                                     *)

\* sort_order is MIN - 1: the new subscription comes first.
CreateSubscription(d) ==
  /\ lastSub < MaxSubs /\ Event
  /\ lastSub' = lastSub + 1
  /\ subs' = [subs EXCEPT ![lastSub + 1] = [kind |-> "feed", dir |-> d]]
  /\ order' = <<lastSub + 1>> \o order
  /\ UNCHANGED <<setting, item, job, raced, kept>>

\* DeleteSubscription refuses an internal subscription.
DeleteSubscription(s) ==
  /\ Exists(s) /\ ~Internal(s) /\ Event
  /\ subs' = [subs EXCEPT ![s] = [kind |-> "deleted", dir |-> NoDir]]
  /\ order' = SelectSeq(order, LAMBDA other : other # s)
  /\ UNCHANGED <<lastSub, setting, item, job, raced, kept>>

\* ListSubscriptionIDs leaves the internal subscriptions out; the page sends
\* what it got in another order.
Listed == {s \in SubIds : Exists(s) /\ ~Internal(s)}

ListIDs(w, ids) ==
  /\ w \in Sorters /\ Idle(w) /\ Event
  /\ Len(ids) = Cardinality(Listed) /\ {ids[i] : i \in DOMAIN ids} = Listed /\ ids # <<>>
  /\ Begin(w, [Rest EXCEPT !.at = "check", !.ids = ids])
  /\ UNCHANGED <<dbVars, raced, kept>>

\* ReorderSubscriptions: the ids have to be those of all subscriptions ...
ReorderCheck(w) ==
  LET ids == job[w].ids
      all == {s \in SubIds : Exists(s)}
  IN  /\ job[w].at = "check"
      /\ job' = [job EXCEPT ![w] = IF all = {ids[i] : i \in DOMAIN ids}
                                   THEN [@ EXCEPT !.at = "reorder"] ELSE Rest]
      /\ UNCHANGED <<dbVars, events, raced, kept>>

\* ... and are numbered from 0 in one transaction; a row created since then
\* has number -1 or less and an id deleted since then changes nothing.
ReorderWrite(w) ==
  LET ids == job[w].ids
      Others(s) == s \notin {ids[i] : i \in DOMAIN ids}
  IN  /\ job[w].at = "reorder"
      /\ order' = SelectSeq(order, LAMBDA s : Others(s) /\ ~Internal(s))
                    \o SelectSeq(ids, Exists) \o SelectSeq(order, LAMBDA s : Others(s) /\ Internal(s))
      /\ job' = [job EXCEPT ![w] = Rest]
      /\ UNCHANGED <<subs, lastSub, setting, item, events, raced, kept>>

-----------------------------------------------------------------------------
(* ensureProwlarrSubscriptionByFeedURL, run by Savers and Submitters.      *)

\* The directory asked for: the series fall back on the movies' one.
DirFor(cfg, m) == IF m = "tv" /\ cfg.tvDir # NoDir THEN cfg.tvDir ELSE cfg.dir

\* What follows once the id for the medium is known.  A save looks for the
\* second subscription and then writes the settings.
Ensured(w, s) ==
  IF w \in Submitters THEN [job[w] EXCEPT !.at = "lookup", !.sub = s]
  ELSE IF job[w].media = "movie"
  THEN [job[w] EXCEPT !.at = "find", !.media = "tv", !.sub = 0, !.cfg.movieSub = s]
  ELSE [job[w] EXCEPT !.at = "write", !.n = 1, !.sub = 0, !.cfg.tvSub = s]

\* The row found serves as it is, or has its directory and address updated.
Found(w, s) ==
  IF subs[s] = [kind |-> job[w].media, dir |-> DirFor(job[w].cfg, job[w].media)]
  THEN Ensured(w, s) ELSE [job[w] EXCEPT !.at = "update", !.sub = s]

Looking == {"findLegacy", "update", "insert"}

Find(w) ==
  LET m    == job[w].media
      rows == OfKind(m)
  IN  /\ job[w].at = "find"
      /\ job' = [job EXCEPT ![w] =
                   IF rows # {} THEN Found(w, First(rows))
                   ELSE [@ EXCEPT !.at = IF m = "movie" THEN "findLegacy" ELSE "insert"]]
      /\ raced' = IF rows = {} /\ \E v \in Workers \ {w} : job[v].at \in Looking /\ job[v].media = m
                  THEN raced \cup {m} ELSE raced
      /\ UNCHANGED <<dbVars, events, kept>>

\* Mutant: a row of the former kind is not looked for.
FindNoLegacy(w) ==
  /\ job[w].at = "findLegacy"
  /\ job' = [job EXCEPT ![w].at = "insert"]
  /\ UNCHANGED <<dbVars, events, raced, kept>>

FindLegacy(w) ==
  LET rows == OfKind("legacy")
  IN  /\ job[w].at = "findLegacy"
      /\ job' = [job EXCEPT ![w] = IF rows # {} THEN Found(w, First(rows))
                                   ELSE [@ EXCEPT !.at = "insert"]]
      /\ UNCHANGED <<dbVars, events, raced, kept>>

\* Mutant: only the address is updated.
UpdateKindOnly(w) ==
  /\ job[w].at = "update"
  /\ subs' = [subs EXCEPT ![job[w].sub].kind = job[w].media]
  /\ job' = [job EXCEPT ![w] = Ensured(w, job[w].sub)]
  /\ UNCHANGED <<lastSub, order, setting, item, events, raced, kept>>

\* updateProwlarrSubscription
UpdateInternal(w) ==
  /\ job[w].at = "update"
  /\ subs' = [subs EXCEPT ![job[w].sub] =
                [kind |-> job[w].media, dir |-> DirFor(job[w].cfg, job[w].media)]]
  /\ job' = [job EXCEPT ![w] = Ensured(w, job[w].sub)]
  /\ UNCHANGED <<lastSub, order, setting, item, events, raced, kept>>

\* sort_order 999999, and among equals the newer id first.
InsertInternal(w) ==
  LET m == job[w].media
      s == lastSub + 1
  IN  /\ job[w].at = "insert" /\ lastSub < MaxSubs
      /\ lastSub' = s
      /\ subs' = [subs EXCEPT ![s] = [kind |-> m, dir |-> DirFor(job[w].cfg, m)]]
      /\ order' = SelectSeq(order, LAMBDA r : ~Internal(r)) \o <<s>> \o SelectSeq(order, Internal)
      /\ job' = [job EXCEPT ![w] = Ensured(w, s)]
      /\ UNCHANGED <<setting, item, events, raced, kept>>

-----------------------------------------------------------------------------
(* SaveProwlarrConfig.                                                     *)

\* The page always sends a directory for movies; an empty one for series means
\* the same as for movies.
SaveConfig(w, d, tv) ==
  /\ w \in Savers /\ Idle(w) /\ Event
  /\ Begin(w, [Rest EXCEPT !.at = "find",
                 !.cfg = [Unset EXCEPT !.dir = d, !.tvDir = tv],
                 !.alone = \A v \in Workers : Idle(v)])
  /\ UNCHANGED <<dbVars, raced, kept>>

\* SetSetting, one after the other; the settings no property reads are left out.
WriteSetting(w) ==
  LET f == Fields[job[w].n]
  IN  /\ job[w].at = "write"
      /\ setting' = [setting EXCEPT ![f] = job[w].cfg[f]]
      /\ job' = [job EXCEPT ![w] = IF job[w].n = Len(Fields) THEN Rest
                                   ELSE [job[w] EXCEPT !.n = job[w].n + 1]]
      /\ UNCHANGED <<subs, lastSub, order, item, events, raced, kept>>

-----------------------------------------------------------------------------
(* SubmitProwlarrRelease.                                                  *)

SubmitRelease(w, g, m) ==
  /\ w \in Submitters /\ Idle(w) /\ Event
  /\ Begin(w, [Rest EXCEPT !.at = "read", !.n = 1, !.guid = g, !.media = m])
  /\ UNCHANGED <<dbVars, raced, kept>>

\* SubmitProwlarrReleases: the releases of a batch follow one another, whether
\* or not the one before succeeded; each counts as a request of its own.
SubmitReleases(w) == \E g \in Guids, m \in Media : SubmitRelease(w, g, m)

\* requireProwlarrConfig reads one setting after the other.
ReadSetting(w) ==
  LET f   == Fields[job[w].n]
      cfg == [job[w].cfg EXCEPT ![f] = setting[f]]
  IN  /\ job[w].at = "read"
      /\ job' = [job EXCEPT ![w] =
           IF job[w].n < Len(Fields) THEN [@ EXCEPT !.cfg = cfg, !.n = job[w].n + 1]
           ELSE IF cfg.dir = NoDir THEN Rest
           ELSE [@ EXCEPT !.cfg = cfg, !.n = 0, !.at = "resolve"]]
      /\ UNCHANGED <<dbVars, events, raced, kept>>

SubFor(cfg, m) == IF m = "tv" THEN cfg.tvSub ELSE cfg.movieSub

\* resolveProwlarrDownloadURL: a magnet link is taken as it is, anything else
\* is fetched from the indexer, which takes long and may fail (CutShort).  Then
\* the id of the settings read before serves, or a subscription is looked for.
ResolveURL(w) ==
  LET s == SubFor(job[w].cfg, job[w].media)
  IN  /\ job[w].at = "resolve"
      /\ job' = [job EXCEPT ![w] =
           IF s # 0 THEN [@ EXCEPT !.cfg = Unset, !.at = "lookup", !.sub = s]
           ELSE [@ EXCEPT !.at = "find"]]
      /\ UNCHANGED <<dbVars, events, raced, kept>>

\* UpsertProwlarrItem: SELECT id ...
Row(w) == <<job[w].sub, job[w].guid>>

LookupRelease(w) ==
  /\ job[w].at = "lookup"
  /\ job' = [job EXCEPT ![w] = [@ EXCEPT !.at = "upsert", !.cfg = Unset,
                                         !.found = item[Row(w)] # "absent"]]
  /\ UNCHANGED <<dbVars, events, raced, kept>>

\* ... UPDATE, which leaves download_status alone, or INSERT, which fails when
\* another request inserted the same release after the SELECT.
UpsertRelease(w) ==
  /\ job[w].at = "upsert"
  /\ item' = IF job[w].found THEN item
             ELSE [item EXCEPT ![Row(w)] = IF @ = "absent" THEN "pending" ELSE @]
  /\ job' = [job EXCEPT ![w] = IF job[w].found \/ item[Row(w)] = "absent"
                               THEN [@ EXCEPT !.at = "status"] ELSE Rest]
  /\ UNCHANGED <<subs, lastSub, order, setting, events, raced, kept>>

\* The row is read back: refused while it is being submitted, reset when it
\* failed, submitted otherwise, also if it was submitted before.
CheckRelease(w) ==
  /\ job[w].at = "status"
  /\ job' = [job EXCEPT ![w] = CASE item[Row(w)] = "submitting" -> Rest
                                 [] item[Row(w)] = "failed" -> [@ EXCEPT !.at = "reset"]
                                 [] OTHER -> [@ EXCEPT !.at = "again"]]
  /\ kept' = kept \ {Row(w)}
  /\ UNCHANGED <<dbVars, events, raced>>

\* Mutant: UPDATE without a condition on the status.
ResetAlways(w) ==
  /\ job[w].at = "reset"
  /\ item' = [item EXCEPT ![Row(w)] = "pending"]
  /\ job' = [job EXCEPT ![w].at = "again"]
  /\ UNCHANGED <<subs, lastSub, order, setting, events, raced, kept>>

\* ResetProwlarrItemForRetry, conditional on the status.
ResetForRetry(w) ==
  LET resettable == item[Row(w)] \in {"failed", "pending"}
  IN  /\ job[w].at = "reset"
      /\ item' = IF resettable THEN [item EXCEPT ![Row(w)] = "pending"] ELSE item
      /\ job' = [job EXCEPT ![w] = IF resettable THEN [@ EXCEPT !.at = "again"] ELSE Rest]
      /\ UNCHANGED <<subs, lastSub, order, setting, events, raced, kept>>

\* SubmitItemDownload reads the row again, marks it whatever it holds by then ...
ReadAgain(w) ==
  /\ job[w].at = "again"
  /\ job' = [job EXCEPT ![w] = IF item[Row(w)] = "submitting" THEN Rest
                               ELSE [@ EXCEPT !.at = "submit"]]
  /\ UNCHANGED <<dbVars, events, raced, kept>>

MarkSubmitting(w) ==
  /\ job[w].at = "submit"
  /\ item' = [item EXCEPT ![Row(w)] = "submitting"]
  /\ job' = [job EXCEPT ![w].at = "record"]
  /\ UNCHANGED <<subs, lastSub, order, setting, events, raced, kept>>

\* Worker v is past the last look that would keep it from handing over release p
\* although aria2 has accepted it: what is still to come refuses "submitting" only.
HandsOver(v, p) == job[v].at \in {"again", "submit", "record"} /\ Row(v) = p

\* ... and records aria2's answer.
Record(w, result) ==
  /\ job[w].at = "record"
  /\ item' = [item EXCEPT ![Row(w)] = result]
  /\ job' = [job EXCEPT ![w] = Rest]
  /\ kept' = IF result = "submitted" /\ \A v \in Workers \ {w} : ~HandsOver(v, Row(w))
             THEN kept \cup {Row(w)} ELSE kept
  /\ UNCHANGED <<subs, lastSub, order, setting, events, raced>>

\* A queue pass has this release in its snapshot: PendingDownloads does not ask
\* whether the subscription is enabled.
QueueTakes(s, g) ==
  /\ Idle(Scheduler) /\ Exists(s)
  /\ item[<<s, g>>] \in {"pending", "failed"}
  /\ Begin(Scheduler, [Rest EXCEPT !.at = "submit", !.sub = s, !.guid = g])
  /\ UNCHANGED <<dbVars, events, raced, kept>>

\* A statement fails, the request is cancelled or the release has no address:
\* the indexer does not answer, or what it answers is no torrent.
CutShort(w) ==
  /\ ~Idle(w) /\ Event
  /\ job' = [job EXCEPT ![w] = Rest]
  /\ UNCHANGED <<dbVars, raced, kept>>

-----------------------------------------------------------------------------

Ensure(w) == Find(w) \/ FindLegacy(w) \/ UpdateInternal(w) \/ InsertInternal(w)

Next ==
  \/ \E d \in Dirs : CreateSubscription(d)
  \/ \E s \in SubIds : DeleteSubscription(s)
  \/ \E w \in Sorters : \/ \E ids \in UNION {[1..n -> SubIds] : n \in SubIds} : ListIDs(w, ids)
                        \/ ReorderCheck(w) \/ ReorderWrite(w)
  \/ \E w \in Savers : \/ \E d \in Dirs, tv \in Dirs : SaveConfig(w, d, tv)
                       \/ WriteSetting(w)
  \/ \E w \in Submitters : \/ SubmitReleases(w) \/ ReadSetting(w) \/ ResolveURL(w)
                           \/ LookupRelease(w) \/ UpsertRelease(w)
                           \/ CheckRelease(w) \/ ResetForRetry(w) \/ ReadAgain(w)
  \/ \E w \in Savers \cup Submitters : Ensure(w)
  \/ \E s \in SubIds, g \in Guids : QueueTakes(s, g)
  \/ \E w \in Submitters \cup {Scheduler} :
       MarkSubmitting(w) \/ \E result \in {"submitted", "failed"} : Record(w, result)
  \/ \E w \in Workers : CutShort(w)

Spec == Init /\ [][Next]_vars

-----------------------------------------------------------------------------
(* Properties.                                                             *)

\* There is one internal subscription for each medium, unless two requests
\* looked for it at the same time: both may insert one, or one may miss the
\* former row while the other takes it over.  A save after an upgrade takes the
\* former row over, and a download never makes a second one.
OneInternal == \A m \in Media : m \notin raced => Cardinality(ForMedia(m)) <= 1

\* A release aria2 has accepted is not put back in the queue and not refused
\* afterwards, by whatever retries, queue passes and failures, unless a request
\* finds it submitted and asks for it again, or somebody was already past the
\* last look that minds when it was accepted: that one hands it over again.
AcceptedStays == \A p \in kept : item[p] = "submitted"

\* A save nobody else was at work with leaves settings and subscriptions in
\* agreement, whatever an earlier overlap or failure had left: the settings
\* name the subscriptions of the right kind, with the directories saved.
Agreement(cfg) ==
  /\ setting' = cfg
  /\ subs[cfg.movieSub] = [kind |-> "movie", dir |-> cfg.dir]
  /\ subs[cfg.tvSub] = [kind |-> "tv", dir |-> cfg.tvDir]
SaveAloneAgrees ==
  [][\A w \in Savers : job[w].at = "write" /\ job[w].n = Len(Fields) /\ job[w].alone
       /\ setting'.tvSub = job[w].cfg.tvSub /\ job'[w].at = "idle" /\ events' = events
       => Agreement(job[w].cfg)]_vars

\* The order the page sends is that of the list it was given, so it is taken
\* unless subscriptions were created or deleted in between.
ListedOrderAccepted ==
  [][\A w \in Sorters : job[w].at = "check" /\ {job[w].ids[i] : i \in DOMAIN job[w].ids} = Listed
       /\ job'[w] # job[w] /\ events' = events => job'[w].at = "reorder"]_vars

=============================================================================
