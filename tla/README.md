# TLA+ models of feed-puller

feed-puller polls RSS feeds, hands new entries to aria2, follows the downloads until
they end, renames the finished files and tells the user on Feishu. The program is one
Go process: a scheduler goroutine that wakes up once a minute, one goroutine per HTTP
request, and timer goroutines. They share a MySQL database, the aria2 daemon, the
download directory and a few fields of `app.Service`. Almost no code path holds a lock
or a transaction across a remote call, so what is hard about the program is what
happens between the steps of two such goroutines. That is what these modules describe.

## Inventory

| Component | State it keeps | Operations | What is hard | What makes it correct |
|---|---|---|---|---|
| Feed ingest (`store.go` SaveFeedItems, `internal/rss`) | `feed_items` | fetch, parse, filter, insert if new | two polls of one feed that insert the same entries; a deletion underneath | a poll that succeeded stored everything, and no entry comes back as new |
| Poll schedule (`poll_schedule.go`) | `last_polled_at` | due by interval or cron | time zones, missed ticks | what is polled and what the pages show agree; nothing regular is polled twice at once |
| Submission queue (`service.go`) | `feed_items.download_status`, `download_tasks` | queue pass, click, batch of clicks | overlapping passes, crash between mark and record, lost answers of aria2 | one download per item, nothing stuck, nothing forgotten |
| Polling of aria2 (`service_sync.go`, `service_aria2_gid.go`) | `download_tasks.status`, `aria2_gid` | list, ask, switch gid, complete, fail | old reads, a magnet's metadata stage, dropped records | the right task ends, for the right reason, once |
| aria2 hook (`service_hook.go`, `aria2_hook.go`) | the same rows | look up by gid or parent, decide, complete, fail | races with polling, early, repeated and lost calls | the same |
| aria2 client (`internal/downloader`) | none | JSON-RPC, followedBy chain, readiness | errors that are answers, hop limit | readiness only for entity files |
| Batch status edit (`batch_update_status.go`) | `feed_items.download_status` | read, refuse "submitting", write | overwrites a status that changed meanwhile | does not orphan a submission |
| File rename (`rename.go`, `internal/rename`) | the file system | name by AI, move, find a file | missing source, existing target, directory search | a task moves its own file |
| Rename retries (`service_rename_retry.go`, `rename_retry.go`) | `rename_retries`, `final_path` | enqueue, pass, attempt, settle, manual rename | stale snapshot of a pass, two renames at once, crash after a move | three tries, one announcement, `final_path` follows the file |
| Feishu batch (`service_notify.go`) | batch slices, timer, settings | queue, append, flush, deliver | timer fires while being replaced, settings change in between, crash | sent once, nothing forgotten |
| Feishu transport (`internal/feishu`) | tenant token, bot | send, retry, renew the token | a request repeated after a lost answer, a refused token in the cache, the bot replaced meanwhile | a message to a recipient arrives once |
| Prowlarr (`service_prowlarr.go`, `prowlarr_*.go`) | internal subscriptions, settings, releases, search history | save the configuration, search, submit and retry releases | check-then-insert without a lock, settings written one by one, a retry beside the queue | one internal subscription of a kind, settings that agree with it, an accepted release is not queued again |
| OpenSubtitles (`service_opensubtitles.go`, `internal/opensubtitles`) | login token | log in, search, download | token shared by requests without a lock | a request on its own gets its file whatever is cached |
| Runtime configuration (`runtime_config_handlers.go`, `server.go`) | clients and settings in memory | save, swap | clients replaced one by one while they are used, failed saves, restarts | saved, running and used configuration agree |
| Subscriptions (`store.go`, `handlers.go`) | `subscriptions` | create, edit, reorder, delete | deletion under a running pass, internal subscriptions among them | no rows of deleted subscriptions, an order that can be changed |
| Accounts (`auth.go`, `feishu.go`) | sessions, Feishu binding | log in, out, bind | expiry | an expired session is refused |
| Path mapping (`paths/map.go`) | none | map a path | applied more than once | idempotent |
| AI and TMDB clients, magnet and torrent parsing, configuration, web frontend | none the rest depends on | remote calls, parsing, views | - | - |

How they interact: the scheduler polls due subscriptions (feed ingest), then runs a queue
pass, a polling pass and a retry pass, in this order; a subscription or a pass that fails does
not keep the next from running, but when the due subscriptions cannot be read the whole round
is left out (`scheduler.go:36`). HTTP handlers run the same functions beside it: a click submits one item,
`POST /api/downloads/retry` runs a queue pass, `GET /api/downloads/active` a polling
pass, aria2's hook script ends one task, a manual rename renames one file. A task that ends
is renamed, recorded, announced. Announcements meet in the batch of `app.Service`.

`PROJECT.json` lists every component with its status and every hazard with its line.

## Modules

| Module | Content |
|---|---|
| `Downloads` | submission queue, clicks, polling, hook, status edits, aria2 as environment |
| `DownloadLifecycle` | abstract: what the service promises about one item |
| `DownloadsLifecycle` | the refinement mapping from `Downloads` to `DownloadLifecycle` |
| `DownloadLedger` | abstract: what is left of that promise with everybody at work |
| `DownloadsLedger` | the refinement mapping from `Downloads` to `DownloadLedger` |
| `Aria2Answers`, `DownloadsAnswers` | how an answer of aria2 is read; every answer compared with what `Downloads` concludes |
| `RenameRetries` | renaming at the end of a download, the retry queue, manual renames |
| `NotifyBatch` | the debounced notification batch and its timers |
| `Feeds` | subscriptions, polls, the entries they store, and deletion |
| `PollSchedule` | when a subscription is due, and what the pages show |
| `Prowlarr` | internal subscriptions, the settings that name them, releases, the order of subscriptions |
| `Clients` | runtime configuration, Feishu bot and token, OpenSubtitles client and token |
| `...Proofs` | theorems about the module they are named for; `DownloadsProofs` holds those about answers as well |
| `MC...` | instances for model checking: symmetry, crontabs, feeds |

How they compose. `DownloadsAnswers` puts `Aria2Answers` under `Downloads`, and
`DownloadsLifecycle` and `DownloadsLedger` put `Downloads` under `DownloadLifecycle` and
`DownloadLedger`. The other modules meet where
the code meets: each has, in short form, the step of the neighbour it depends on. `Feeds` and
`Prowlarr` submit an item in the three steps that matter to them (mark, aria2, record) and
leave what comes between to `Downloads`; `RenameRetries` ends a download in one step
where `Downloads` has several; `NotifyBatch` begins where the others announce.

### Downloads

Every goroutine is a worker with a record `job`: the place it stands at, the ids of its
snapshot, the gids it read with them, and the id, gid and outcome it is working on. One
step is one database statement or transaction or one answer of aria2, which is the
granularity at which the code can be interleaved.

| Variable | Code |
|---|---|
| `item` | `feed_items.download_status` |
| `task`, `lastTask` | the rows of `download_tasks` that carry a gid, and the auto-increment id |
| `rejected` | items with a "failed" row without a gid; the code never looks such rows up again |
| `phase`, `follow`, `purged` | what aria2 knows of a gid, `followedBy`, and what it has dropped |
| `job` | local variables of the goroutines |
| `notified` | calls of `notifyDownloadComplete` and `notifyDownloadFail` for a task |
| `lost`, `leaked`, `edited` | history: submissions cut short, downloads nobody could record, manual edits |

A queue pass is `ListPending`, then for each item `MarkNext`, `AddURI` (or
`AddURIRefused`, `AddURIFails`), `RecordSubmitted` or `RecordFailed` (or `RecordFails`), and
`EndQueuePass`. A click is `ReadItem`, `MarkRead` and the same steps. A polling pass is
`ListSubmitted`, for each task `TellStatus`, `TellStatusNotFound` or `TellStatusFails`, then
`Finish` and `Notify`. A hook is `HookFindsTask` or `HookFindsParent` with
`HookSwitchesGid`, `HookDecides`, `Finish` and `Notify`. An edit is `BatchRead` and
`BatchWrite`. `Crash` takes all workers, `ClientGone` one request; `aria2` completes,
fails, follows, removes and forgets downloads at any time.

What is abstracted, and why it loses nothing the properties see:

- `tellStatusForDownloadTask` asks aria2 and writes the followed gid back; both are one step.
  Between them only the gid itself is written, by workers that follow the same chain.
- Chains have one hop: aria2 lets a metadata or .torrent download be followed by its
  content and not further. The limit of eight hops is therefore not reached.
- The "stop" event of the hook changes nothing and has no action; a failing RPC in a hook
  ends it without effect, like a client that goes away.
- The branch for an empty download directory cannot be reached, since
  `validateSubscription` refuses such subscriptions.
- aria2 never answers `addUri` with an empty gid.
- Deleting a subscription is in `Feeds`.

### RenameRetries

Tasks share one directory, because subscriptions usually do and because that is where
the search for a file can go wrong. A file is at its raw path or at the path of an
episode; `task` holds `final_path`, `retry` the row of `rename_retries`, `file` where the
file of each task really is. Workers are the scheduler, hook calls and manual renames.

The end of a download: `Poll` with `SeenByPoll`, `StillRunning`, `ForgottenByAria2`, or
`HookCall`; then `SkipRename`, `Rename` or `RenameFails`, in the last case `Enqueue`; then
`Complete` or `CompleteFails`. A retry pass: `ListDue`, for each row `SkipRow`,
`RowUnfinished` or `RowTaken`, then `Attempt` or `AttemptFails`, `Save`, `SettleRow`. A
manual rename: `Click`, `Attempt`, `Save`, `MarkSucceeded`. `DeleteTask` deletes the task
with its subscription and leaves the row and the file, as the code does.

What is abstracted:

- The delays of 1, 5 and 10 minutes are one flag, `due`, that `ComesDue` raises; the order
  of the due rows is left open.
- `resolveCompletedDownloadFilePath` tries `final_path`, then what aria2 reports, then the
  largest media file. aria2 may have dropped its record and sizes are not modelled, so when
  `final_path` does not exist any file of the directory may be the answer.
- The AI names the episode of the item or, misled by the file's name, that of the task the
  file belongs to. `ai_rename_episode_offset` is 0: with another value a second rename of
  a renamed file moves its number again.
- The check of source and target and the move are one step; so are reading a task and
  finding its file. A Prowlarr download is renamed by TMDB instead of the AI, with the same
  outcomes. Files are never deleted by hand.
- Downloads that fail, and notifications other than the exhausted one, are left to the
  other modules.

Three history variables name what the code gives no guarantee for: `crossed` (tasks two
workers held at once), `cut` (tasks whose worker was killed or whose statement failed),
`unseen` (tasks completed without a path). Each property excuses only what it must.

### NotifyBatch

A notification starts at most one timer, so goroutine `n` is first the caller that queues
notification `n` and later the flush its timer runs. `Ask` reads the settings; `Append`
and `Take` are the two critical sections of `feishuBatchMu`; `Fire` is the runtime starting
the timer's function, after which `Timer.Stop` has no effect; `ReadConfig`,
`SendComplete` and `SendFail` are the rest of `flushFeishuBatch`. `SaveFeishuNotifyConfig` writes
sixteen settings one by one and `GetFeishuNotifyConfig` reads them one by one, so
`SetSetting` changes a single one: every mix a reader could meet is a state of `cfg`.
Message texts, the history table (never read by the service) and the test message are left
out. A message to several recipients is one here, which arrives or not; the code sends it to one after the other,
and one that fails does not stop the rest.

### Aria2Answers, DownloadLifecycle and DownloadLedger

`Downloads` says of a gid only which phase it is in. `Aria2Answers` translates how
`internal/downloader` reads an answer: `TaskState`, `Progress`, `IsAria2DownloadReady`,
`DownloadPath` over status, totals and file lists, with missing numbers, counts that lag,
deselected files and empty lists. `AnswersAreRead` takes each answer aria2 can give
in the phase of each gid and compares. What aria2 can answer is an assumption about
aria2 (`AnswersIn`), written from the cases the code and its tests tell apart.
`Aria2DownloadPath` does not look at `selected`: of a download with deselected files it may
name one, if shared pieces completed it; the property only asks for a complete entity.

`DownloadLifecycle` has a stage for each item and attempts with a state and a count of
announcements, and no aria2, snapshot or worker. An item waits, is handed over, has one open
attempt at most, which ends once, together with the item, and is announced once at most.
`download_status` is the stage and a row of `download_tasks` is an attempt (`StageOf`,
`AttemptRows`). `Downloads` implements it only while the scheduler is the only worker:
with a second queue pass, a click, a hook or an edit it does not, as the findings show.

`DownloadLedger` is the weaker promise that no overlap breaks. An item may be triggered and edited
whatever it says and may have several open attempts, and an attempt may be closed again. But each
attempt has a fate of its own, what has become of its download, which only goes on, and is
closed only for that fate, in one step with its item; what is due for announcement is what
somebody has closed, and is announced at most once, by who closed it. The fate is read off the last stage
of the download, whichever gid the row has at the time (`FateOf`), so a row that a worker moves to another
gid, on however old a read, must keep its fate. A gid aria2 has forgotten counts as completed, as in the code.

### Feeds

| Variable | Code |
|---|---|
| `sub` | `subscriptions`: enabled, patterns, whether it is due, `last_error` |
| `item`, `tasks` | `feed_items.download_status` by (subscription, dedupe key); items with rows in `download_tasks` |
| `job` | local variables: the rows read, what the feed offered, the entries left to store |
| `overlap` | history: subscriptions deleted while a worker was busy with them |

A poll is `ListDue`/`TakeDue` or `Refresh`, then `FetchOK` or `FetchFails`, then for each
entry `Lookup` and `UpdateRow` or `InsertRow` (or `InsertClashes`, the unique key) and
`ReadBack`, then `MarkFetched`. `SettingFails`, `SaveFails` and `MarkFails` are its failing statements.
The scheduler goes on with `ListPending` and submits; `ClickItems` is a click or a batch.
`DeleteSubscription` is the transaction that removes tasks, items and row; the tables have no
foreign keys, so a worker that had read a row can write rows of a deleted subscription.
The patterns are sets of entries. What a feed offers in one poll is any subset of its
entries. Parsing and the dedupe key are left out: an entry is its key.

### PollSchedule

Functions over a row and a minute: `SubscriptionPollDue`, `SubscriptionNextPollAt` (`NextKnown`,
`NextPollAt`), `validatePollSchedule` (`Valid`), and the row changed by `Poll`, `Refresh` and
`Update`. A crontab is the set of its minutes, `cron.Next` returns the zero time when
there is none left, and an interval times a minute wraps around as a `time.Duration` does.
Initially the row may be one that today's validation refuses, because it was stored before
there was any.

### Prowlarr

A save is `SaveConfig`, then for each medium `Find`, `FindLegacy` and `UpdateInternal` or
`InsertInternal`, then four times `WriteSetting`. A download is `SubmitReleases`, four
times `ReadSetting`, `ResolveURL` (the long fetch of a torrent or magnet link), the same search
for a subscription if the settings name none, `LookupRelease`, `UpsertRelease`, `CheckRelease`,
`ResetForRetry` for a failed release, `ReadAgain`, `MarkSubmitting`, `Record`. `QueueTakes` is
a queue pass with the release in its snapshot. `ListIDs`, `ReorderCheck` and `ReorderWrite` are
the drag and drop of the subscriptions page. `CutShort` ends any of them anywhere.
The address and key of Prowlarr, the search, its history and torrent parsing are left out; a batch is
its releases one after another.

### Clients

Three components in one module, because they share the workers and the process: a worker
saves the runtime configuration (`SaveRuntime`, `ReplaceRunning`, `ReplaceAria2`, `ReplaceBot`), sends
a message (`ReadCache`, `TakeLock`, `FetchToken`, then attempts that end as `Unreached`,
`TakenByFeishu`, `RefusedByFeishu` or `RefusedLocally`, and `DropToken`), or searches and downloads
a subtitle (`ClientFor`, `EnsureToken`, `Login`, `PostDownload`, `ClearToken`, `FetchFile`,
`SaveFile`). Tokens are good, dead or none. A bot and a client keep their identity while a
worker holds them, so a request goes on with the one that was replaced; ids are used
again when nobody refers to them. The request body of the API functions is made once: after an
attempt that reached Feishu it is used up (`unread`).

## Runs

The configurations use small integers for rows, because the code orders by id, and model
values for what is only compared. Symmetry sets are used where only invariants and
action properties are checked.

| Run | Instance | Checks | Shows |
|---|---|---|---|
| `workers` | 1 item, 2 tasks, 2 gids; click, polling, hook and edit; 1 fault | `TypeOK`, `SubmittingHasOwner`, `GidOwnedOnce`, `ItemAgreesWithTask`, `EndIsJustified`, `KeepsLedger` | what holds under every interleaving of a click (which may come again), polling, hook and edit; each step is one of `DownloadLedger` |
| `cycle` | 3 items, one of which aria2 always refuses; lists of 2 items and of 1 task; the scheduler alone and fair, 1 fault | `DownloadAccounted`, `OneLiveDownload`, `NotifiedOnce`, `AnswersAreRead`, `QueueOnlyUntriggered`, `WaitingIsSubmitted`, `EndIsRecorded`, `KeepsLifecycle` | what the code promises more when nobody interferes, whatever fails: it implements `DownloadLifecycle` |
| `rename` | 2 tasks, hook, click, 3 retries, passes of one row | `EveryRawIsRetried`, `FinalPathValid`, `OwnFileOnly` | the table, the queue and the directory agree |
| `retry` | 1 task, hook, click, 3 retries, 1 fault, fair scheduler | `TypeOK`, `AnnouncedOnce`, `SettledStays`, `RetrySettles` | three tries, one announcement, an end |
| `notify` | 3 notifications, one a failure, 1 edit, 1 fault, fair goroutines | `TypeOK`, `SentOnce`, `BatchWillGo`, `WindowKept`, `Delivered` | no interleaving of timers loses or repeats a notification |
| `feeds` | 1 subscription with 2 entries, one without an address; scheduler, refresh, click; 2 edits or faults | `TypeOK`, `SavedBeforeMarked`, `NothingLeftBehind`, `DeletedIsQuiet`, `PollNeverRequeues`, `EntrySaved` | polls neither lose nor requeue entries, a deleted subscription stays dead |
| `schedule` | 3 crontabs, 5 intervals, 8 minutes, durations of 4 bits | `DueAgrees`, `NotAtOnce` | poller and pages agree on every row |
| `prowlarr` | new and upgraded databases, 2 saves, a download, a reorder, the queue, 3 events | `OneInternal`, `AcceptedStays`, `SaveAloneAgrees` | one internal subscription, settings that agree, an accepted release is not queued again |
| `clients` | 2 workers, 2 configurations, 2 accounts, 3 events | `OneConfiguration`, `TakenOnce`, `AloneIsServed` | one configuration in use, a message taken once, tokens renewed |

`requeue`, `misfile` and `reorder` are counterexamples, see Findings.

Why the bounds are enough. With one item and two tasks an item can be submitted twice, and
with two gids it can be a magnet with its content or two direct downloads, the cases in
which ids can be mixed up. A queue pass beside the click is left to the proofs, which cover
every property of `workers`. Three items give an order to the queue: one that is always refused and one
whose download fails can fill its list of two before the third, and a task that never ends fills the
polling list of one before the next. With one fault and two gids `cycle` cannot have a row closed early
and then another download of its item; the theorem `OneAtATime` covers that. Two tasks
in one directory are what a file needs to be mistaken for another; three retries are the
real limit; the pass limit of one row in `rename` makes a row wait for the next pass. Three
notifications are a fired timer, the one that replaces it, and one more that meets the
forgotten one. Two entries make a poll that fails at the first leave the second; two pollers and a
click are the workers that can hold a row that is deleted. The crontabs fire several
times, once and never, the intervals are below, at and beyond what a duration of the model
holds. Two saves and a download are the three requests that can look for an internal subscription
at once. Two workers overlap in every pair of jobs, and three events are an expired token, a
restart or failed call in the recovery, and one more. What the bounds cannot show, the
proofs show for any number.

`workers` carries `CONSTRAINT FaultOrEdit`: a state with a fault in which an edit is at work or its status
still stands is checked, but not followed further. That keeps the run below three minutes; the proofs have
no such bound.

`rename` carries `CONSTRAINT NoMishap`. Its properties are conditional on `NoMishap`
or on sets that only grow, so the states after a mishap satisfy them trivially or are those
of `retry`; the first such states are still checked, only their successors are not.

`CHECK_DEADLOCK FALSE` is set for `notify`, where each notification is queued once, and for
`prowlarr` and `reorder`, where requests count as events: these systems come to rest. The
others may not stop.

### Fairness

The scheduler is fair: a ticker starts its cycle every minute, its calls have timeouts, and an
error of one pass does not stop the next; a round left out because the due subscriptions cannot be read is a
stutter. In `RenameRetries` time passes, so a waiting row
comes due. In `NotifyBatch` goroutines that can run do run, a mutex is handed on, and a timer
that is not stopped fires. In `Feeds` time passes, a request that polls goes on, and a feed that is
asked again and again answers in full in the end (strong fairness of `FetchOK`). Nothing is
assumed of aria2, users, hooks, clients or faults. The other modules have safety only.

## Proofs

TLAPS proves the following for every value of the constants.

| Theorem | Statement |
|---|---|
| `DownloadsProofs!TypeCorrect` | `Spec => []TypeOK` |
| `DownloadsProofs!NoneStuck` | `Spec => []SubmittingHasOwner` |
| `DownloadsProofs!GidsOwnedOnce` | `Spec => []GidOwnedOnce` |
| `DownloadsProofs!TablesAgree` | `Spec => []ItemAgreesWithTask` |
| `DownloadsProofs!AllAccounted` | `Spec => []DownloadAccounted` |
| `DownloadsProofs!EndsJustified` | `Spec => []EndIsJustified` |
| `DownloadsProofs!AnswersUnderstood` | `Spec => []AnswersAreRead` |
| `DownloadsProofs!CountedIsReady` | a complete download whose selected files aria2 has counted is ready, for any number of files |
| `DownloadsProofs!PathOfEntity` | the path kept is an entity's if there is one, and a complete one's if there is one |
| `DownloadsProofs!ReadyHasEntity` | a download that lists files is ready only with a selected entity |
| `DownloadsLifecycleProofs!ImplementsLedger` | `Spec => KeepsLedger` |
| `DownloadsLifecycleProofs!ImplementsLifecycle` | scheduler alone: `Spec => KeepsLifecycle` |
| `DownloadsLifecycleProofs!OneAtATime` | scheduler alone: `Spec => []OneLiveDownload` |
| `DownloadsLifecycleProofs!AnnouncedOnce` | scheduler alone: `Spec => []NotifiedOnce` |
| `DownloadsLifecycleProofs!TriggersWaiting` | scheduler alone: `Spec => QueueOnlyUntriggered` |
| `DownloadsLifecycleProofs!RecordsFirst` | scheduler alone: `Spec => FirstRecordWins` |
| `RenameRetriesProofs!TypeCorrect` | `Spec => []TypeOK` |
| `RenameRetriesProofs!ExhaustedOnce` | `Spec => []AnnouncedOnce` |
| `RenameRetriesProofs!SettledForGood` | `Spec => SettledStays` |
| `RenameRetriesProofs!NoFileLeftBehind` | `Spec => []EveryRawIsRetried` |
| `RenameRetriesProofs!PathFollowsFile` | `Spec => []FinalPathValid` |
| `RenameRetriesProofs!MovesOwnFile` | `Spec => OwnFileOnly` |
| `NotifyBatchProofs!TypeCorrect` | `Spec => []TypeOK` |
| `NotifyBatchProofs!NoneTwice` | `Spec => []SentOnce` |
| `NotifyBatchProofs!NoneForgotten` | `Spec => []BatchWillGo` |
| `NotifyBatchProofs!WindowsKept` | `Spec => WindowKept` |
| `FeedsProofs!TypeCorrect` | `Spec => []TypeOK` |
| `FeedsProofs!Saved` | `Spec => []SavedBeforeMarked` |
| `FeedsProofs!Swept` | `Spec => []NothingLeftBehind` |
| `FeedsProofs!Quieted` | `Spec => DeletedIsQuiet` |
| `FeedsProofs!NeverRequeued` | `Spec => PollNeverRequeues` |
| `PollScheduleProofs!TypeCorrect` | `Spec => []Inv`, with `TypeOK` |
| `PollScheduleProofs!DueAlwaysAgrees` | `Spec => []DueAgrees` |
| `PollScheduleProofs!NeverAtOnce` | `Spec => []NotAtOnce` |
| `ClientsProofs!TypeCorrect` | `Spec => []TypeOK` |
| `ClientsProofs!NeverTakenTwice` | `Spec => []TakenOnce` |
| `ClientsProofs!AlwaysOneConfiguration` | `Spec => []OneConfiguration` |
| `ClientsProofs!AloneGetsItsFile` | `Spec => AloneIsServed` |
| `ProwlarrProofs!OnePerMedium` | `Spec => []OneInternal` |
| `ProwlarrProofs!AcceptedForGood` | `Spec => []AcceptedStays` |
| `ProwlarrProofs!SavedAlone` | `Spec => SaveAloneAgrees` |

They rest on the assumptions of the modules (`IdsAssumption`, `WorkersAssumption`,
`BoundsAssumption`, `RenameAssumption`, `NotifyAssumption`, `FeedsAssumption`,
`ScheduleAssumption`, `ClientsAssumption`, `ProwlarrAssumption`): ids are numbers, a worker has one role except the
scheduler, the stand-ins for "none" are not members, workers are finitely many where clients
are counted. TLC evaluates them in the runs. `FirstRecordWins` has no run of its own: `KeepsLifecycle`, which
`cycle` checks, implies it. Those marked "scheduler alone" also assume
`SchedulerAlone`, written in each theorem: `QueuePasses` and `SyncPasses` are
`{Scheduler}` and there is no click, hook or edit. Without it they are false.

`Downloads`. Types alone are not inductive: that `task[job[w].cur]` is a task depends on
where `w` stands. `WellFormed` says what a worker holds at each place, and `TypeInv`
adds it. Ownership is inductive on top of `TypeInv`; each action either keeps the owner
of an item, replaces the status, or puts the item into `lost`. `GidOwnedOnce` needs the most: a
worker may write a gid it read long ago. `GidInv` says that rows are numbered without gaps
(`Rows`), that a gid is followed by one gid of its own at most (`Chains`), that two tasks
have no download in common even before their gids are brought up to date (`TasksApart`),
that a gid just handed out is nobody else's (`HeldApart`), and that what a worker has
read, however old, still names the download of its task (`ReadsOK`). A late write then
moves a task along its own chain, so it cannot collide.

`ItemAgreesWithTask` and `DownloadAccounted` are inductive relative to `TypeInv` and `GidInv`.
For the first, a step writes one item and with it the row that backs it (`OneItemWritten`), and a
row that is closed a second time changes with its item; `Rows` gives that a new row
replaces none. For the second, the row that accounts for a download may move from the gid of the
metadata to the content (`AccountStays`): `Chains` and `ReadsOK` say that it moves nowhere else.

`EndIsJustified` needs what a worker knows when it is about to close a row, `EndInv`: only a
finished first stage is followed (`EndedStages`), a worker at "finish" closes a row whose download has
ended that way, and a hook that has yet to decide holds no error and a gid of the row (`Knows`). What was
known of an end stays true while aria2 goes on and rows move along their chain (`EndsStay`), so it does
not matter how long ago the worker asked.

Answers. `AnswersAreRead` is about sums and choices over the files of an answer. That a sum is 0
only if every summand is (`SumOfNumbers`) is an induction over sets, done by the smallest
counterexample: a set with the fewest files for which it fails loses one, and then it does not fail
(`HasSmallest`, `AdderExists`). `CountedIsReady`, `PathOfEntity` and `ReadyHasEntity` therefore hold
for answers with any number of files and any lengths, not only for those in `AnswersIn`.

The refinements. For `DownloadLifecycle`, `AloneInv` says that an open row belongs to a submitted item and has not been
announced (`OpenRows`), that rows not used yet have no announcement (`SpareRows`), and that what the
scheduler read is still true when it uses it (`StillTrue`): the items left in its snapshot wait, the
tasks left are open, the task just closed is unannounced. The last is what a second
worker would break. Each action then maps to one step of `DownloadLifecycle`, or to none:
`MarkNext` to `Trigger`, `RecordSubmitted` to `Accept`, `RecordFailed` to `Refuse`, `Finish` to
`End`, `Notify` to `Announce`, a new item to `Discover`.

`OneLiveDownload` is not about rows but about what aria2 is working on, so it needs more than that: a row may be
closed while its download runs on, when aria2 has dropped the metadata stage. `StandingInv` adds that
an open or completed row is the only one of its item and that the item says the same (`Standing`), so such an item waits
no more. A failed row has no running download, by `EndInv`, and the item in the scheduler's hands has no standing row.

`DownloadLedger` has to be implemented by every worker at every place, so nothing a worker read is assumed to be
still true. `LedgerInv` is `TypeInv`, `GidInv`, `EndInv` and that items in use have not gone (`Present`).
A row that is moved to the next gid keeps its fate (`FateFollows`: the chain ends at the same stage, and what was
forgotten stays so), which makes `TellStatus` and `HookSwitchesGid` steps the ledger does not see
(`SwitchUnseen`). A step of aria2 changes the fate of one row at most, because no two rows have
a download in common (`ConcernsOne`), and it only goes on (`FateGoesOn`). `Finish` is a `Close` because
the worker `Knows` the end (`EndIsAFate`), a killed worker owes no announcement any more (`AbandonBooks`, to
`Silence`), and an item in the hands of a queue pass, a click or an edit is written as `Trigger`, `Refuse`, `Accept` or
`Edit`.

`RenameRetries`. A pass lists rows with their counts and writes those counts back later, so
`AnnouncedOnce` needs: a waiting row is below the limit (`PendingBelow`), the rows of a running
pass are still waiting with the counts it read (`PassRows`), a row being attempted has left
the snapshot (`TakenOut`), and a task two workers hold is in `crossed` (`CrossedNoted`).

Where the files are needs more, `PathInv`, in two layers. `FileInv` holds for every task that was
neither overlapped nor cut short (`Good`): the pass or the worker that has it in hand knows how far it is (`Polled`,
`Told`), and what the rows say of its file is right (`Kept`): one that is completed and still has the name of aria2
waits for a retry or has failed them all. `EveryRawIsRetried` follows. `CalmInv` holds until the
first mishap of any task: files have their own names only (`OwnFile`), and a worker about to move or record a file has
the path it is at (`OwnPath`). The second layer has to speak of all tasks at once, because a
directory is searched for whatever file is in it: one task's stale path takes the file of another, as `misfile` shows.

`NotifyBatch`. Nobody shares what is held (`Apart`), what is held or waits is unsent
(`Unsent`), a caller is the only one with its notification until it passes it on (`Fresh`),
only senders hold anything (`HoldersSend`), the timer on record can still run
(`TimerOnRecord`), and without a race there is no other timer (`OneTimer`).

`Feeds`. A worker stands where its snapshot allows (`OnPath`): at the places of one
entry, that entry is of the subscription it polls, and what it read of a subscription was there
before. What it fetched and has no longer to store is stored, if the subscription lives
(`Stored`): another worker may insert, and nothing but a deletion removes. A subscription deleted
while nobody was busy with it is held by nobody and has no row (`Gone`). These are kept
by every step that only moves rows forward (`Forward`), which all but `DeleteSubscription` do.

`PollSchedule`. What a row remembers is past (`Inv`); the rest is arithmetic on minutes, with the
wrap-around of `Minutes` in lemmas of its own.

`Clients`. `Fits` says what a worker holds at each place; that a new client finds an unused id is a
pigeonhole argument over the workers (`FreshExists`). `OneConfiguration` needs `ConfigInv`: two saves
at work know that they are not alone (`NoTwoAlone`), a save alone so far has done what its
place says (`DoneSoFar`), and when no save is half done everything agrees (`Agreed`).
`AloneIsServed` needs `SubtitleInv`: subtitle requests that overlap know it (`SubtitlesKnow`), so what
an undisturbed one has read of its client is still so, and it repeats a refused request with no
token or with a good one (`Renewed`).

`Prowlarr`. `AcceptedStays` follows `kept`, the releases aria2 has accepted while nobody was past the last look that would
have minded (`HandsOver`). `KeptInv` says that such a release has a row, is "submitted", and is neither in the snapshot of
a queue pass nor in the hands of a request that would mark it (`KeptRows`): a request that holds it stands before `CheckRelease`, which
takes it out of `kept` when it asks for an accepted release again, or before `ResetForRetry`, which turns back at one.

A request looks for the subscription of a medium in several statements, and then inserts one.
`Single` says, for a medium that was never looked for twice at once, that it has one row at most and that a request
which has found none is right and the only one looking; an id not given out has no row
(`Unused`), so an insert replaces none. `SavedSoFar` follows a save nobody disturbs through its statements: the rows it has
found or made and the settings it has written are as it left them. It has to hold from states that
earlier overlaps and failures left in any disorder, so it claims nothing of what the save has yet to reach.
The value of `order` is in none of these theorems.

Only model-checked: liveness (`WaitingIsSubmitted`, `EndIsRecorded`, `RetrySettles`, `Delivered`,
`EntrySaved`), since the prover handles neither `ENABLED` nor fairness. Every invariant and action
property of the passing runs is a theorem.

## Findings

Each is a run that TLC ends with a counterexample.

- `requeue`: a queue pass marks and submits every item of its snapshot without a second look
  (`service.go:223`). The scheduler and `POST /api/downloads/retry` submit one item twice,
  although `README.md:13` promises that a triggered item does not enter the queue again.
- `misfile`: hook and polling both complete a task. The second finds the file moved, takes it
  for a failed rename and records the old path; the next rename finds nothing there and takes
  another task's file from the directory (`rename.go:38`, `locate.go:16`).
- `reorder`: the page reorders the ids that `ListSubscriptionIDs` gave it, which leaves the internal
  subscriptions of Prowlarr out; `ReorderSubscriptions` compares them with all subscriptions
  and refuses (`store.go:309`). Once Prowlarr is configured the order cannot be changed.

Seen in the models and not given a run of their own:

- Downloads. Hook and polling read a task as submitted, and the later write replaces the earlier
  (`download_sync.go:121`), although `service_hook.go:55` says first come, first recorded; the end is
  then announced twice, as it is by two hooks. A gid aria2 no longer knows counts as completed
  (`service_sync.go:23`): it may be the metadata of a magnet whose content is still downloading,
  or a task that failed and was dropped before the next pass. A crash, or a cancelled request,
  between `MarkDownloadSubmitting` and `RecordDownloadResult` leaves an item "submitting" for ever
  (`service.go:151`): nothing selects it and everything refuses it. A download removed in aria2 is
  polled for ever (`service_sync.go:76`). An edit can overwrite a status that changed after it was
  read. A lost answer of `addUri` leaves a download nobody knows of, and the item is submitted once more: aria2 downloads it
  twice, and `OneLiveDownload` does not count the first. Older items that aria2 refuses in every pass, or older tasks that never end, starve
  the later ones when they fill the list, which takes 50 or 100 of them; `WaitingIsSubmitted` and `EndIsRecorded`
  excuse that and nothing else.
- Renaming. Rows of `rename_retries` whose task was deleted are listed first for ever; a failing UPDATE
  of the last retry repeats its announcement in every pass; the path mapping is applied to a path
  that is already mapped (`rename.go:64`), which matters when its target lies under its source.
- Notifications. After a race a forgotten timer sends the next batch early; a batch in memory is lost
  with the process, also on an orderly shutdown. Attempts of the Feishu API functions after the
  first answer always fail before they reach Feishu, since the body is used up
  (`bot.go:183`), and they carry the refused token where that was the reason. A webhook
  message whose answer was lost is repeated and can arrive twice.
- Schedules. A crontab that never fires again, and an interval that overflows a `time.Duration`, are due in
  every round; `NotAtOnce` excuses them.
- Configuration. Two saves that overlap can leave saved, running and aria2 configuration and bot different until the next
  save or restart. An OpenSubtitles request that is refused clears the token another request
  has just renewed.
- Prowlarr. Two requests that look for the internal subscription at once insert one each. A
  download that read the settings before a save can write the old directory back, after the long
  fetch of the release's address. A request that has reset a failed release submits it
  although a queue pass has had it accepted meanwhile, since `SubmitItemDownload` refuses only "submitting" (`service.go:107`): aria2 gets it twice, and when it refuses the second, the
  accepted release waits in the queue again. A request that finds a release submitted submits it again as well.

## Not modelled

- Accounts and sessions: rows written and read by single statements with a unique key; no step
  depends on another request.
- Path mapping: a prefix replaced by another. `RenameRetries` has the paths after it.
- Parsing: feeds, magnets, torrents and the dedupe key are byte formats; their outcome (an entry, resolved
  or not) is in the modules. Two entries of a feed with one dedupe key are one entry here.
- AI and TMDB clients: remote calls whose outcome is in `RenameRetries`.
- The Prowlarr search and its history, a log bounded by one statement that nothing else reads.
- Configuration and start: environment variables and wiring. That no recovery step runs at start is in
  `Crash`.
- The web frontend keeps no state the server depends on; what it sends back is in `ReorderCheck`.
- aria2's chains of more than one hop, and so the limit of eight hops in `aria2_follow.go:47`.

## Plan

Written in this order, the behaviour the others rest on first: `Downloads` and its proofs,
`RenameRetries`, `NotifyBatch`, `Feeds`, `PollSchedule`, `Prowlarr`, `Clients`, `Aria2Answers`,
`DownloadLifecycle` and `DownloadLedger` with their refinements, and the proofs of each. What is left:

1. Chains of several hops with the limit of eight, and the dedupe key as operators compared with a
   reference definition.
2. `RenameRetries` under `Downloads`: the end of a download in several steps instead of one.
