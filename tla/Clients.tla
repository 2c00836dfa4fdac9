------------------------------ MODULE Clients ------------------------------
(***************************************************************************)
(* The clients of aria2, Feishu and OpenSubtitles the process holds, the   *)
(* settings they are built from and the tokens two of them cache.  A       *)
(* client is replaced while requests that took it before go on using it.   *)
(*                                                                         *)
(* A worker is an HTTP request or a goroutine: it saves the runtime        *)
(* configuration, sends a Feishu message, or searches or downloads a       *)
(* subtitle.  One step is one statement, one critical section or one call  *)
(* of another service; job[w] holds what the worker read before.           *)
(***************************************************************************)
EXTENDS Naturals, FiniteSets

CONSTANTS
  Workers,   \* requests and goroutines
  Configs,   \* runtime configurations: aria2 address, Feishu app, hook secret
  Env,       \* the one of the environment
  Unset,     \* no configuration was saved yet
  Accounts,  \* OpenSubtitles credentials, all valid
  NoAccount, \* none was saved yet
  MaxEvents  \* bound: saves, expired sessions, failed calls, restarts

ASSUME ClientsAssumption ==
  /\ IsFiniteSet(Workers)
  /\ Env \in Configs /\ Unset \notin Configs
  /\ NoAccount \notin Accounts
  /\ MaxEvents \in Nat

VARIABLES
  saved,   \* the rows of the runtime configuration in settings
  running, \* Server.cfg
  aria2,   \* Service.aria2: the configuration it was built from
  feishu,  \* Service.feishuBot: the id of the bot
  bot,     \* bot[b]: a BotService, its application and its cached token
  account, \* the OpenSubtitles rows in settings
  current, \* Service.opensubtitlesClient: the id of the client
  client,  \* client[c]: an opensubtitles.Client, its credentials and token
  job,     \* job[w]: what worker w is at and its local variables
  events,  \* how many events of the bound there have been
  mixed    \* history: the last save overlapped another, and no restart followed

runtimeVars == <<saved, running, aria2>>
botVars     == <<feishu, bot>>
subVars     == <<account, current, client>>
vars == <<runtimeVars, botVars, subVars, job, events, mixed>>

-----------------------------------------------------------------------------

\* botRetries + 1
Attempts == 3

\* A client lives as long as the service or a worker refers to it; ids are
\* used again after that.
Ids == 0..Cardinality(Workers)

\* What the other service thinks of a token: "dead" is one it refuses.
Tokens == {"none", "good", "dead"}

Places == {"idle",
           "saving", "running", "aria2", "bot",
           "cache", "lock", "fetch", "post", "drop",
           "client", "search", "ensure", "login", "request", "clear", "file", "write"}

\* cfg: the configuration being saved; id: the bot or the client; cred: the
\* account read; n: attempts made; tok: the token in the request;
\* unread: the body of the request has not been read yet;
\* taken: how often Feishu took the message (history);
\* alone: no other job of this kind and no dead session since it began (history).
Job == [at : Places, mode : {"", "webhook", "api", "search", "subtitle"},
        cfg : Configs \cup {Unset}, id : Ids, cred : Accounts \cup {NoAccount},
        n : 0..Attempts, tok : Tokens, unread : BOOLEAN, taken : 0..Attempts, alone : BOOLEAN]
Rest == [at |-> "idle", mode |-> "", cfg |-> Unset, id |-> 0, cred |-> NoAccount,
         n |-> 0, tok |-> "none", unread |-> TRUE, taken |-> 0, alone |-> TRUE]

TypeOK ==
  /\ saved \in Configs \cup {Unset} /\ running \in Configs /\ aria2 \in Configs
  /\ feishu \in Ids /\ bot \in [Ids -> [cfg : Configs, token : Tokens]]
  /\ account \in Accounts \cup {NoAccount}
  /\ current \in Ids /\ client \in [Ids -> [cred : Accounts \cup {NoAccount}, token : Tokens]]
  /\ job \in [Workers -> Job]
  /\ events \in Nat /\ mixed \in BOOLEAN

Saving(w)   == job[w].at \in {"saving", "running", "aria2", "bot"}
Sending(w)  == job[w].mode \in {"webhook", "api"}
Subtitle(w) == job[w].mode \in {"search", "subtitle"}
Idle(w)     == job[w].at = "idle"

\* An id no worker refers to, other than the one in use.
Fresh(inUse, P(_)) ==
  CHOOSE i \in Ids : i # inUse /\ \A w \in Workers : P(w) => job[w].id # i

\* Worker w begins job j, one of those that P tells.
Begun(w, j, P(_)) ==
  [v \in Workers |-> IF v = w THEN [j EXCEPT !.alone = \A u \in Workers : ~P(u)]
                     ELSE IF P(v) THEN [job[v] EXCEPT !.alone = FALSE] ELSE job[v]]

Event == events < MaxEvents /\ events' = events + 1

\* The state of a process that has just started: main reads the saved rows
\* over the environment and builds every client from them.
Startup(cfg) ==
  /\ running' = cfg /\ aria2' = cfg
  /\ feishu' = 0 /\ bot' = [b \in Ids |-> [cfg |-> cfg, token |-> "none"]]
  /\ current' = 0 /\ client' = [c \in Ids |-> [cred |-> NoAccount, token |-> "none"]]
  /\ job' = [w \in Workers |-> Rest]
  /\ mixed' = FALSE

Init ==
  /\ saved = Unset /\ running = Env /\ aria2 = Env
  /\ feishu = 0 /\ bot = [b \in Ids |-> [cfg |-> Env, token |-> "none"]]
  /\ account = NoAccount
  /\ current = 0 /\ client = [c \in Ids |-> [cred |-> NoAccount, token |-> "none"]]
  /\ job = [w \in Workers |-> Rest]
  /\ events = 0 /\ mixed = FALSE

-----------------------------------------------------------------------------
(* The runtime configuration.                                              *)

\* PUT /api/settings/runtime-config
BeginSave(w, cfg) ==
  /\ Idle(w) /\ Event
  /\ job' = Begun(w, [Rest EXCEPT !.at = "saving", !.cfg = cfg], Saving)
  /\ UNCHANGED <<runtimeVars, botVars, subVars, mixed>>

\* SaveRuntimeServiceConfig, one statement.
SaveRuntime(w) ==
  /\ job[w].at = "saving"
  /\ saved' = job[w].cfg
  /\ job' = [job EXCEPT ![w].at = "running"]
  /\ UNCHANGED <<running, aria2, botVars, subVars, events, mixed>>

\* It fails: the handler answers 500 and replaces nothing.
SaveFails(w) ==
  /\ job[w].at = "saving" /\ Event
  /\ job' = [job EXCEPT ![w] = Rest]
  /\ UNCHANGED <<runtimeVars, botVars, subVars, mixed>>

\* replaceRuntimeServiceConfig: three critical sections.
ReplaceRunning(w) ==
  /\ job[w].at = "running"
  /\ running' = job[w].cfg
  /\ job' = [job EXCEPT ![w].at = "aria2"]
  /\ UNCHANGED <<saved, aria2, botVars, subVars, events, mixed>>

\* Mutant: the client is kept when the running configuration is the same, which
\* has just been replaced.
ReplaceAria2IfChanged(w) ==
  /\ job[w].at = "aria2"
  /\ aria2' = IF job[w].cfg = running THEN aria2 ELSE job[w].cfg
  /\ job' = [job EXCEPT ![w].at = "bot"]
  /\ UNCHANGED <<saved, running, botVars, subVars, events, mixed>>

ReplaceAria2(w) ==
  /\ job[w].at = "aria2"
  /\ aria2' = job[w].cfg
  /\ job' = [job EXCEPT ![w].at = "bot"]
  /\ UNCHANGED <<saved, running, botVars, subVars, events, mixed>>

ReplaceBot(w) ==
  LET b == Fresh(feishu, Sending)
  IN  /\ job[w].at = "bot"
      /\ feishu' = b
      /\ bot' = [bot EXCEPT ![b] = [cfg |-> job[w].cfg, token |-> "none"]]
      /\ job' = [job EXCEPT ![w] = Rest]
      /\ mixed' = ~job[w].alone
      /\ UNCHANGED <<runtimeVars, subVars, events>>

Restart ==
  /\ Event
  /\ Startup(IF saved = Unset THEN Env ELSE saved)
  /\ UNCHANGED <<saved, account>>

-----------------------------------------------------------------------------
(* Messages: SendText and SendInteractiveWebhook, SendViaAPI and           *)
(* SendInteractiveViaAPI, to one recipient.                                *)

\* The sender keeps the bot it took from the service.
BeginMessage(w, mode) ==
  /\ Idle(w)
  /\ job' = [job EXCEPT ![w] = [Rest EXCEPT !.at = IF mode = "api" THEN "cache" ELSE "post",
                                            !.mode = mode, !.id = feishu]]
  /\ UNCHANGED <<runtimeVars, botVars, subVars, events, mixed>>

\* getTenantAccessToken holds tokenMu while it asks Feishu.
Locked(b)  == \E w \in Workers : job[w].at = "fetch" /\ job[w].id = b
Cached(w)  == bot[job[w].id].token
Ready(w)   == [job[w] EXCEPT !.at = "post", !.tok = Cached(w)]

ReadCache(w) ==
  /\ job[w].at = "cache" /\ ~Locked(job[w].id)
  /\ job' = [job EXCEPT ![w] = IF Cached(w) # "none" THEN Ready(w) ELSE [job[w] EXCEPT !.at = "lock"]]
  /\ UNCHANGED <<runtimeVars, botVars, subVars, events, mixed>>

TakeLock(w) ==
  /\ job[w].at = "lock" /\ ~Locked(job[w].id)
  /\ job' = [job EXCEPT ![w] = IF Cached(w) # "none" THEN Ready(w) ELSE [job[w] EXCEPT !.at = "fetch"]]
  /\ UNCHANGED <<runtimeVars, botVars, subVars, events, mixed>>

FetchToken(w, ok) ==
  /\ job[w].at = "fetch"
  /\ bot' = IF ok THEN [bot EXCEPT ![job[w].id].token = "good"] ELSE bot
  /\ job' = [job EXCEPT ![w] = IF ok THEN [job[w] EXCEPT !.at = "post", !.tok = "good"] ELSE Rest]
  /\ UNCHANGED <<runtimeVars, feishu, subVars, events, mixed>>

\* An attempt that failed: another one, or the end.
Retried(j) == IF j.n + 1 < Attempts THEN [j EXCEPT !.at = "post", !.n = j.n + 1] ELSE Rest

\* The connection could not be made; the body was not read.
Unreached(w) ==
  /\ job[w].at = "post" /\ Sending(w)
  /\ job' = [job EXCEPT ![w] = Retried(job[w])]
  /\ UNCHANGED <<runtimeVars, botVars, subVars, events, mixed>>

\* Mutant: each attempt makes its request anew.
BodyUnreadAlways(w) == TRUE

\* doPost makes a new request each time.  The API functions make one before
\* the loop: its body is a reader, at its end after the first attempt that
\* reached Feishu, and net/http refuses a body shorter than announced.
BodyUnread(w) == job[w].mode = "webhook" \/ job[w].unread

\* Feishu took the message: the answer says so, or it is lost.
TakenByFeishu(w, answered) ==
  /\ job[w].at = "post" /\ Sending(w) /\ BodyUnread(w)
  /\ job[w].mode = "api" => job[w].tok = "good"
  /\ job' = [job EXCEPT ![w] = IF answered THEN Rest
                               ELSE Retried([job[w] EXCEPT !.unread = FALSE,
                                                           !.taken = job[w].taken + 1])]
  /\ UNCHANGED <<runtimeVars, botVars, subVars, events, mixed>>

\* Feishu refuses it: because of the token, which is then dropped from the
\* cache, or with another error.  An answer that cannot be parsed ends the
\* loop of the API functions.
RefusedByFeishu(w, why) ==
  /\ job[w].at = "post" /\ Sending(w) /\ BodyUnread(w)
  /\ (why = "token") <=> (job[w].mode = "api" /\ job[w].tok = "dead")
  /\ job' = [job EXCEPT ![w] =
               CASE why = "token" -> [job[w] EXCEPT !.at = "drop", !.unread = FALSE]
                 [] why = "garbled" /\ job[w].mode = "api" -> Rest
                 [] OTHER -> Retried([job[w] EXCEPT !.unread = FALSE])]
  /\ UNCHANGED <<runtimeVars, botVars, subVars, events, mixed>>

\* The request with the body used up fails before it reaches Feishu.
RefusedLocally(w) ==
  /\ job[w].at = "post" /\ Sending(w) /\ ~BodyUnread(w)
  /\ job' = [job EXCEPT ![w] = Retried(job[w])]
  /\ UNCHANGED <<runtimeVars, botVars, subVars, events, mixed>>

\* invalidateToken
DropToken(w) ==
  /\ job[w].at = "drop" /\ ~Locked(job[w].id)
  /\ bot' = [bot EXCEPT ![job[w].id].token = "none"]
  /\ job' = [job EXCEPT ![w] = Retried(job[w])]
  /\ UNCHANGED <<runtimeVars, feishu, subVars, events, mixed>>

\* Less than five minutes are left of the time the token was given for.
TokenExpires(b) ==
  /\ bot[b].token # "none" /\ Event
  /\ bot' = [bot EXCEPT ![b].token = "none"]
  /\ UNCHANGED <<runtimeVars, feishu, subVars, job, mixed>>

-----------------------------------------------------------------------------
(* Subtitles.                                                              *)

\* PUT /api/settings/opensubtitles, one statement.
SaveAccount(a) ==
  /\ Event
  /\ account' = a
  /\ UNCHANGED <<runtimeVars, botVars, current, client, job, mixed>>

\* SearchSubtitles and DownloadSubtitle read the account ...
BeginSubtitle(w, mode) ==
  /\ Idle(w) /\ account # NoAccount
  /\ job' = Begun(w, [Rest EXCEPT !.at = "client", !.mode = mode, !.cred = account], Subtitle)
  /\ UNCHANGED <<runtimeVars, botVars, subVars, events, mixed>>

\* ... and opensubtitlesClientFor keeps the client while the credentials are
\* the same.  A search needs no token.
ClientFor(w) ==
  LET same == client[current].cred = job[w].cred
      c    == IF same THEN current ELSE Fresh(current, LAMBDA v : v # w /\ Subtitle(v))
  IN  /\ job[w].at = "client"
      /\ current' = c
      /\ client' = IF same THEN client
                   ELSE [client EXCEPT ![c] = [cred |-> job[w].cred, token |-> "none"]]
      /\ job' = [job EXCEPT ![w] = [job[w] EXCEPT !.id = c,
                   !.at = IF job[w].mode = "search" THEN "search" ELSE "ensure"]]
      /\ UNCHANGED <<runtimeVars, botVars, account, events, mixed>>

\* Client.Search, answered or not.
Search(w) ==
  /\ job[w].at = "search"
  /\ job' = [job EXCEPT ![w] = Rest]
  /\ UNCHANGED <<runtimeVars, botVars, subVars, events, mixed>>

EnsureToken(w) ==
  /\ job[w].at = "ensure"
  /\ job' = [job EXCEPT ![w].at = IF client[job[w].id].token = "none" THEN "login" ELSE "request"]
  /\ UNCHANGED <<runtimeVars, botVars, subVars, events, mixed>>

Login(w) ==
  /\ job[w].at = "login"
  /\ client' = [client EXCEPT ![job[w].id].token = "good"]
  /\ job' = [job EXCEPT ![w].at = "request"]
  /\ UNCHANGED <<runtimeVars, botVars, account, current, events, mixed>>

\* postDownload sends the token the client holds by now, which may be none.
PostDownload(w) ==
  /\ job[w].at = "request"
  /\ job' = [job EXCEPT ![w] =
               CASE client[job[w].id].token = "good" -> [job[w] EXCEPT !.at = "file"]
                 [] client[job[w].id].token # "good" /\ job[w].n = 0
                      -> [job[w] EXCEPT !.at = "clear", !.n = 1]
                 [] OTHER -> Rest]
  /\ UNCHANGED <<runtimeVars, botVars, subVars, events, mixed>>

\* Mutant: the request is repeated with the token it was refused with.
ClearNothing(w) ==
  /\ job[w].at = "clear"
  /\ job' = [job EXCEPT ![w].at = "ensure"]
  /\ UNCHANGED <<runtimeVars, botVars, subVars, events, mixed>>

\* clearToken drops whatever token the client holds.
ClearToken(w) ==
  /\ job[w].at = "clear"
  /\ client' = [client EXCEPT ![job[w].id].token = "none"]
  /\ job' = [job EXCEPT ![w].at = "ensure"]
  /\ UNCHANGED <<runtimeVars, botVars, account, current, events, mixed>>

FetchFile(w) ==
  /\ job[w].at = "file"
  /\ job' = [job EXCEPT ![w].at = "write"]
  /\ UNCHANGED <<runtimeVars, botVars, subVars, events, mixed>>

\* os.WriteFile
SaveFile(w) ==
  /\ job[w].at = "write"
  /\ job' = [job EXCEPT ![w] = Rest]
  /\ UNCHANGED <<runtimeVars, botVars, subVars, events, mixed>>

\* A call of a subtitle request fails or its caller has gone.
SubtitleFails(w) ==
  /\ job[w].at \in {"login", "request", "file", "write"} /\ Event
  /\ job' = [job EXCEPT ![w] = Rest]
  /\ UNCHANGED <<runtimeVars, botVars, subVars, mixed>>

\* Feishu or OpenSubtitles refuses from now on the tokens it has given.
Dead(t) == IF t = "good" THEN "dead" ELSE t

FeishuRevokes ==
  /\ Event
  /\ bot' = [b \in Ids |-> [bot[b] EXCEPT !.token = Dead(@)]]
  /\ job' = [w \in Workers |-> [job[w] EXCEPT !.tok = Dead(@)]]
  /\ UNCHANGED <<runtimeVars, feishu, subVars, mixed>>

SessionsEnd ==
  /\ Event
  /\ client' = [c \in Ids |-> [client[c] EXCEPT !.token = Dead(@)]]
  /\ job' = [w \in Workers |-> IF Subtitle(w) THEN [job[w] EXCEPT !.alone = FALSE] ELSE job[w]]
  /\ UNCHANGED <<runtimeVars, botVars, account, current, mixed>>

-----------------------------------------------------------------------------

Next ==
  \/ \E w \in Workers :
       \/ \E cfg \in Configs : BeginSave(w, cfg)
       \/ SaveRuntime(w) \/ SaveFails(w) \/ ReplaceRunning(w) \/ ReplaceAria2(w) \/ ReplaceBot(w)
       \/ \E mode \in {"webhook", "api"} : BeginMessage(w, mode)
       \/ ReadCache(w) \/ TakeLock(w) \/ \E ok \in BOOLEAN : FetchToken(w, ok)
       \/ Unreached(w) \/ \E answered \in BOOLEAN : TakenByFeishu(w, answered)
       \/ \E why \in {"token", "garbled", "other"} : RefusedByFeishu(w, why)
       \/ RefusedLocally(w) \/ DropToken(w)
       \/ \E mode \in {"search", "subtitle"} : BeginSubtitle(w, mode)
       \/ ClientFor(w) \/ EnsureToken(w) \/ Login(w) \/ PostDownload(w) \/ ClearToken(w)
       \/ Search(w) \/ FetchFile(w) \/ SaveFile(w) \/ SubtitleFails(w)
  \/ \E b \in Ids : TokenExpires(b)
  \/ \E a \in Accounts : SaveAccount(a)
  \/ FeishuRevokes \/ SessionsEnd \/ Restart

Spec == Init /\ [][Next]_vars

-----------------------------------------------------------------------------
(* Properties.                                                             *)

\* While no save is at work, what is saved, the running configuration, the
\* aria2 client and the Feishu bot are one configuration, whatever failed or
\* was interrupted before, unless the last save overlapped another one.
OneConfiguration ==
  (~mixed /\ \A w \in Workers : ~Saving(w)) =>
     /\ running = IF saved = Unset THEN Env ELSE saved
     /\ aria2 = running
     /\ bot[feishu].cfg = running

\* A message to a recipient is taken by Feishu at most once, however often it
\* is repeated after lost answers, replaced bots and refused tokens.  A
\* webhook message can arrive several times.
TakenOnce == \A w \in Workers : job[w].mode = "api" => job[w].taken <= 1

\* A subtitle download that overlaps no other subtitle request, and whose
\* session does not end meanwhile, gets its file whatever token was cached
\* before and whatever account was saved, unless a call of its own fails.
AloneIsServed ==
  [][\A w \in Workers :
       job[w].alone /\ job[w].mode = "subtitle" /\ job'[w] = Rest /\ events' = events
         => job[w].at = "write"]_vars

=============================================================================
