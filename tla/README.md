# PZAdmin in TLA+

PZAdmin is a self-hosted console for Project Zomboid dedicated servers: one Go process that
watches game servers over RCON, starts and stops their containers through Arcane's HTTP API,
edits and backs up their files, runs scheduled jobs, and answers a browser and an HTTP API.
It holds no database. What it knows about a running server is a map in memory, and everything
else is files that are replaced whole.

That makes its hard behaviour easy to name: flags that a monitor goroutine, request handlers,
scheduled jobs and the world outside write with answers of different age; files that two jobs,
the game and a crash can be in the middle of; calls whose answer is lost. The modules here model
those parts of `internal/` step by step, check them with TLC on small instances, and prove the
most important properties with TLAPS for every instance.

Contents: [inventory](#inventory), [modules](#the-modules), [runs](#the-runs),
[proofs](#the-proofs), [what the checks found](#disagreements-found),
[limits](#what-is-not-shown), [not modelled](#not-modelled), [plan](#plan).

## Inventory

Status: **M** modelled, **P** modelled in part, **-** not modelled. `PROJECT.json` has the same
list with sources and reasons, and the hazards one by one, each at its line.

| Component | State | Operations | Talks to | |
|---|---|---|---|---|
| Monitor, watchdog, lifecycle handlers (`monitor.go`, `api.go`) | `App.status`: Online, Restarting, Stopped, ContainerState, failures, attempts, pending restart | probe, maybeRecover, pollLogs, checkPendingRestart; restart, stop, start, cancel | RCON client, Arcane, events | M |
| Monitor supervisor (`monitor.go`) | `a.monitors` | syncMonitors | configuration, status | M |
| Stack discovery, new servers, import, deletion (`stackapi.go`, `stacks`, `provision`, `serverdelete.go`) | stack and data folders, entries, `a.lastScan` | rescan, plan, apply, destroy, forget, save | Arcane, configuration, monitors | M |
| Port slots (`slots.go`, `deployapi.go`) | none: read from `.env` and the status | startInSlot, pickSlot, deploys | status, `.env`, Arcane, Docker's ports | P |
| World files (`pz/backup.go`, `pz/world.go`, `worldreset.go`, `duplicate.go`) | folders, set-aside copies, archives, `Backupper.running`, `dupJobs.busy` | backup, prune, restore with undo, reset, duplicate | status (is it down?), the game | P |
| Scheduler and jobs (`scheduler.go`), shutdown (`server.go`, `main.go`) | `fireLog`, `wg`, `stopping` | due minutes, countdowns, steps of a job; spawn, BeginShutdown, Close | every operation above | M |
| Cron expressions (`cronx`) | none | Parse, Match, Next | scheduler | M |
| Event store and player registry (`store`) | recent events, players, samples, day files | Append, SyncPlayers, MarkOffline, Flush, Prune | probes, shutdown | P |
| Notifications (`notify`, `webhooks.go`) | a throttle, a bounded queue | Send, Configure, post with retries | Discord | M |
| Status messages and channel names (`livestatus.go`, `channelname.go`) | cards and names on disk, back-off, budgets | post, edit, take down, rename | Discord | M |
| RCON client (`rcon/rcon.go`) | one pooled connection per server | Exec: connect, send with sentinel, read, retry | the game | M |
| Log tailing (`pz/logs.go`) | file offsets | Poll | monitor | M |
| Keys, users, sessions (`apikeys.go`, `users.go`, `auth.go`) | three maps and four files | create, change, revoke, sign in and out, flush, gc | configuration, server deletion | P |
| External API and its limits (`apiv1.go`, `metrics.go`) | buckets, in-flight marks, stream counts | allow, lifecycle calls, streams | handlers | P |
| Sign-in limits and set-up (`auth.go`, `setupcode.go`, `proxy.go`) | failure records, hash slots, the code | take, succeed, set up | handlers | P |
| Configuration (`config`, parts of `api.go`, `discordbot.go`) | `config.json` under one mutex | Get, Update, Redact, UnredactWebhooks; the settings form, the bot | everybody | P |
| Mods and requests (`mods.go`, `modrequests.go`, `configedit.go`) | requests, lines of an ini | ask, decide, apply a list, edit the file | ini files, Steam | P |
| Load order (`pz/loadorder.go`) | none | LoadSortingRules, SortLoadOrder | mod page | P |
| Discord client, settings files, compose files and `.env`, templates, catalogues and capabilities, Arcane client, paths, browser page | see [below](#not-modelled) | | | - |

What makes each of the modelled parts correct, and why it is hard:

* **Lifecycle.** A probe copies the status, asks RCON and then Arcane (seconds to minutes), and
  writes conclusions drawn from the copy. Handlers write the same flags meanwhile. Correct means:
  flags do not contradict each other, an outage is reported once and closed once, the watchdog
  keeps to its limit, and no flag sticks.
* **Fleet.** A scan reads folders for a while and is then folded into the configuration; a create
  is planned on such a scan; a save writes back the copy it took; a destroy checks, calls Arcane,
  and deletes. Correct means: what the folders say wins in the end, no create writes into another's
  folder, nothing that runs is deleted, and monitors follow the configuration.
* **World files.** A restore moves folders away, unpacks, and undoes all of it on failure; a reset
  archives and then deletes; a duplicate copies for minutes. Correct means: one of them at a time,
  never under a running game, and no world lost because a call failed or the process died.
* **Slots.** "Which server holds this port" is a guess from status flags, and a wrong guess makes a
  start fail or breaks another server's start.
* **Jobs and shutdown.** Minutes are looked at, not waited for: the clock may be set back, a loop
  may wake late, PZAdmin may restart or be told to stop with jobs under way.
* **Registry and events.** Both are fed by probes and handlers at the same time, and both are cut
  off by an orderly stop. A session must end once; news must not overtake itself in a queue with
  retries.
* **Discord's side.** The messages and channel names are state outside PZAdmin, known only by the
  ids it saved and the answers it got. Correct means: whatever was lost on the way, what PZAdmin
  believes shown is shown, and nothing it knows of is left behind.
* **Accounts.** Changes are made in memory, then whole files are written; saves may overtake each
  other, fail, or be cut off. Correct means that what was said to be saved is, and that what was
  revoked does not return.
* **Limits.** They are for calls in parallel; a limit taken too late or not given back on one path
  counts for nothing, or refuses for ever.
* **Settings and requests.** Pages post back what they were given, with placeholders for secrets;
  files are edited by loading, changing and writing them whole.
* **RCON, logs, cron, load order** keep to themselves, but meet a world that answers late, in
  pieces or never, files cut under the reader, hours that occur twice, and rules that form loops.

## The modules

| Module | What it is |
|---|---|
| `ServerLifecycle`, `ServerLifecycleProofs` | one server: game, monitor, handlers, watchdog, countdown; safety theorems |
| `Fleet`, `FleetProofs` | which servers there are: folders, configuration, scans, monitors, create to destroy |
| `WorldFiles`, `WorldFilesProofs` | one server's folders and archives, and the jobs over them; mutual exclusion, then what becomes of a world |
| `WorldVault` | abstract: what backups promise. `WorldFiles` implements it |
| `PortSlots`, `PortSlotsProofs` | slot bookkeeping, that starts keep apart and slots are held |
| `Accounts`, `AccountsProofs` | keys, users and sessions with their files |
| `Jobs` | the scheduler's loop, its jobs, and the orderly stop |
| `Players` | one server's player registry and its file |
| `Events` | an event's way to the ring, to browsers and to Discord |
| `SignIn`, `ApiLimits` | what sign-ins and API calls in parallel may achieve |
| `StatusCards`, `ChannelNames` | what PZAdmin keeps in Discord: a message per server, a dot in a name |
| `ModRequests` | requests for mods, and the three editors of one ini |
| `Settings` | the configuration's secrets, and the handlers that save settings |
| `RconClient`, `Cron`, `Tailer`, `LoadOrder` | one package each |
| `MCWorldFiles`, `MCPortSlots`, `MCAccounts`, `MCFleet` | symmetry, settings and scenarios for TLC |
| `MCServices`, `MCPackages` | nine services, and four packages, each moving alone |
| `ServicesProofs` | theorems about `Players`, `Events`, `SignIn`, `ApiLimits`, `ModRequests`, alone and in `MCServices` |
| `BoardProofs` | theorems about `Jobs`, `Settings`, `StatusCards`, `ChannelNames` in `MCServices`, and the types of all nine |
| `PackagesProofs` | theorems about `RconClient`, `LoadOrder`, `Cron` and `Tailer` in `MCPackages` |

A step of a model is what the code does between two points at which others can come in: an RCON
or Arcane call, a mutex taken, a file-system call. Names are the code's where TLA+ allows
(`Restarting`, `probe` becomes the `Probe...` actions). Variables commented *history* are not in
the code; properties need them, and no guard reads them except where a comment says so. *External*
is what is not PZAdmin: the game, Arcane, Discord. The `map` in `PROJECT.json` names the lines
each definition stands for.

**ServerLifecycle.** `st` is `App.status[id]`, cut down to the fields that decide something.
Times have become facts: `overdue`, `cooling`, `modSeen`, `Pending` turn when time passes
(`WindowPasses` and its siblings) instead of comparing clocks. `prev`, `res`, `seen` are the
locals of `probe`. `game` is what really happens, `ours` whether PZAdmin caused it. Handlers
follow `restartServer`, `handleLifecycle`, `maybeRecover` call by call; `LostReplies` lets any
call fail after it took effect. Whoever else uses Arcane, and kills of PZAdmin, are switches.

**Fleet.** `folder`, `port`, `box` and `world` are the host: a stack folder, the port its files
publish, its container, its data folder. `entry` is its server in the configuration. `cfg.Update`
holds the store's lock, so an update is one step, and everything read before it is in `at`: the
scan a rescan folds in, the entry a save copied, the plan of a create, what a destroy has checked.
`Scan` and `Fold` are `rescan`, `Want` and `Sync` are `syncMonitors`; `Save...`, `Import`, `Forget`,
`Create...`, `Destroy...` are the handlers and what they call. Other tools remove folders, bring them
back, edit ports and start containers.

**WorldFiles.** `dir`, `aside`, `previous` are `<folder>`, `.before-restore` and
`.before-restore.previous`; contents are reduced to *which world*: all of one, part of one, none,
or a mixture. Each rename, removal and copy of `swap.begin`, `commit`, `rollback`, `ResetWorld`,
`Create`, `prune` and `copyWorld` is a step that may fail. `torn` and `live` record readers whose
files were written, or were open in the game, while they read.

**WorldVault** says it in five actions: play, archive, restore in one go or not at all, reset,
failure. The refinement mapping shows the world a restore is working on
as it was until the last folder has been unpacked, which is what makes a restore atomic.

**PortSlots.** `env` is the slot named by `.env`, `box` the container, `st` the five fields
`holdsPorts` reads. The pick reads one server after the other under `slotMu`, as the code does.
A *setting* says which servers are watched or deployed by button and what may disturb PZAdmin;
`trust` is history that falls when something happened under which the code cannot know better,
and each property says which trust it needs.

**Accounts.** `mem` and `disk` are the maps and the files. A request changes `mem`, takes `saveMu`
with a snapshot, writes (sessions in two files, the owner's first), and finishes its handler:
`KeyCreated`, `UserAdded` and `UserSaved` are what the code does after a save went well or not.
`Restart` may come at any step and leaves only `disk`. `Families` select operations that share
files: keys share none with users and sessions, so they need not be explored in one run.

**Jobs.** Time is the minute of the configured zone. `loop` is `schedulerLoop` with the minute it
woke at and the copy of the schedules it took; announcing a countdown is an RCON call it waits
for, during which minutes may pass. `fired` is the fire log, `jobs` each `runTask`. `life` goes
from BeginShutdown through Close; `late` says that Close stopped waiting.

**Players.** `reg`, `dirty`, `disk` are the registry, its mark and `players.json`; `probing` is the
probe with the names it was answered, which may be old when `SyncPlayers` gets them. A record that
is *here* has an open session.

**Events.** A source appends to the ring, then sends to subscribers (who may be slow: a full queue
drops the event), then asks the throttle and offers the event to a bounded queue. The worker posts
with one retry, and stops when the notifier is closed, whatever is still queued.

**SignIn** counts time in the first back-off delay, **ApiLimits** in refilled parts of a token.
Requests are records with the handler's step; `take`, `succeed` and `allow` are the limiters' own
critical sections, the hash slot and the session or the call come after.

**StatusCards, ChannelNames.** `messages` and `dots` are Discord's. `board` and `ns` are what PZAdmin
remembers, with their file; a post, an edit or a rename may fail, or work with its answer lost.
`stray`, `unsure` and `doubt` are history: what it can no longer know.

**ModRequests.** `editors` hold the file each loaded; they write all of it back. Requests are
decided under a mutex, but an approval reads, writes the ini and only then decides.

**Settings.** A browser's form has placeholders; `Restored` is `UnredactWebhooks`. A save is one step
(`cfg.Update`), what was read before and the notifier configured after are not.

**RconClient.** Packets are `part`, `echo` and `denied`, with the id of the attempt they answer.
The server may answer late, in pieces, never, without echoing, on a connection already left, or
hang up; a read may time out although something is queued.

**Cron** runs `Next` turn by turn. Local time is an absolute clock plus a zone's offset, which
changes once; `Instant` is `time.Date`, external, which looks the offset up as if the reading were
an absolute time, so that of a reading that occurs twice it gives the first west of Greenwich.

**Tailer.** Files are sequences of bytes, lines are cut from them as `readFrom` does; the game
appends between the look at a file's size and the read.

**LoadOrder.** `waits` is Kahn's in-degree table. Mods are compared in lower case and kept in the
first spelling, rules come from `mod.info` and from `sorting_rules.txt`, and the result is sorted
again, as when the page is opened a second time.

**MCServices, MCPackages.** These parts share no state, so exploring them together would only
multiply their states. A frozen variable, `part` or `topic`, says which one moves; all the others
stay in an initial state, and each property looks at its own part.

## The runs

Bounds are in the `.cfg` files and, where they are definitions, in the `MC` modules. Properties in
brackets are the named parts of the one before.

| Run | Configuration | Shows |
|---|---|---|
| `lifecycle_safety` | 1 handler that stops, starts and cancels; monitor; all switches on | flags and reports stay consistent: `StoppedIsOffline`, `HardStopsBounded`, `OneReportPerOutage`, `ReportedOutageIsClosed` |
| `lifecycle_fair` | 1 handler that restarts; unlimited attempts; fairness | `RestartWindowCloses`, `WedgedIsRecovered` |
| `fleet` | 2 stacks, 2 handlers, 2 ports, 8 scenarios; fairness | `OneWriterPerFolder`, `OnlyStoppedGoes`, `ComesToRest` (`ConfigFollowsFolders`, `UnwantedIsUnwatched`) |
| `world_files` | 2 jobs, 2 worlds, 2 archives, 1 failure or kill | `FilesHaveOneOwner`, `ReadsAreWhole` (`ColdReadsAreWhole`, `CopiesAreCold`), `RestoreKeepsTheWorld` (`WorldSurvivesRestore`, `FailedRestorePutsBack`), `WorldsLeaveOnPurpose`, `ArchivesAreKept` (`ResetDeletesOnlyArchived`, `PruneTakesTheOldest`), `ImplementsVault` |
| `port_slots` | 2 servers, 2 slots, 3 settings | `ClaimsApart`, `SlotsAreHeld` (`RunningHoldsItsSlot`, `NeverRefused`, `DeployingIsWorkedOn`) |
| `accounts` | 2 keys, 1 user, 2 sessions, 1 server, 2 requests and housekeeping, 4 families | `ReachesDisk` (`SavedOrOnItsWay`, `UsageReachesDisk`), `HandedOutKeySurvives`, `GoneStaysGone`, `NeverQuietlyWidened` |
| `services` | 9 parts, see below | `SchedulesAreKept` (`FiresOncePerMinute`, `StopsCleanly`), `RegistryIsTrue` (`CleanIsSaved`, `OutageEndsSessions`, `CloseEndsSessions`), `NewsIsOrderly` (`ArrivesInOrder`, `OncePerWindow`, `StreamsInOrder`), `LimitsHold` (`SignInIsLimited`, `ApiIsLimited`), `BoardIsTrue` (`CardsAreTrue`, `DotsAreTrue`), `RequestsAreSettled` (`ListIsBounded`, `DecidedOnce`, `KnownModsStay`), `EditsAreSound` (`EditsKeepResults`, `SettingsAreSound`) |
| `packages` | 4 topics, see below; fairness of the RCON client | `ExecIsSound` (`EchoMeansComplete`, `FreshAnswerIsOwn`, `RunsAtMostTwice`), `ExecReturns`, `CronIsRight` (`NextIsFirst`, `SearchGoesForward`), `LogIsFollowed` (`OnlyNewLines`, `EverythingRead`), `LoadOrderIsRight` (`SortedByTheRules`, `SortIsSettled`) |
| `lifecycle_false_outage`, `lifecycle_stopped`, `fleet_wipe`, `cron_fall_back` | the smallest settings that show it | four violations, see [below](#disagreements-found) |

Every passing run checks a type invariant too, except `lifecycle_fair`, whose module
`lifecycle_safety` covers.

Why the bounds are enough to be of interest:

* *Lifecycle.* Handlers of one server interfere through the status only, and each writes it
  whatever the others do; one handler against the monitor already gives every pair of writers,
  and may ask for one thing after the other for ever. Thresholds of 1 make failures count at once.
  In the fair run `MaxAttempts = 0` is the code's "unlimited": with a limit the watchdog may give
  up, and the property would be untrue.
* *Fleet.* What interferes is two handlers over one name, or two creates that are planned on one
  scan, with discovery and the supervisor always running. Each scenario of `MCFleet` is such a
  pair; three add a failing read or write, seven what others do to folders, files and containers.
  Nobody brings a container up while PZAdmin is destroying its server (`BoxMade`).
* *World files.* Two jobs give every pair under the lock; a third waits as the second does. One
  archive kept of two makes `prune` remove one. One failing call or one kill, anywhere, in a run.
  A reset that does not archive first is not in the run's requests: its folder is deleted on
  purpose, and it shares its steps with `reset-backup`.
* *Slots.* Two servers and two slots make the pick choose, refuse, and read one server while the
  other changes. `ClaimsMatter` stops exploring when nothing is claimed any more.
* *Accounts.* Two savers of a file and housekeeping as the third: enough for a snapshot to be
  overtaken by two. Keys, tokens and requests are interchangeable, and the properties are
  invariants, so symmetry is sound.
* *Services.* Jobs: three minutes and two jobs, one due twice with a countdown, one once and run by
  hand; edits, removal, a clock set back and an orderly stop, each in a scenario. Players: one name,
  one failing save, three changes around each step of a probe and of Close. Events: a monitor with
  two events and a handler with one, queues of one so that each fills. Sign-in: two requests from
  two addresses with one hash slot. API: two calls and two streams of one key, a burst of two.
  Cards: two servers in one channel, two places to move between, one restart. Names: three ticks
  around a window of two, two channels. Mods: two editors, one item, a list of one pending and one decided.
  Settings: two clerks, two channels, one bot, one failed write or restart.
* *Packages.* RCON: an answer can only be taken for a neighbour's, which two commands, two tries
  each and four connections give. Cron: a calendar of 2-minute hours, 4-hour days, 3-day weeks,
  2-day months and 2-month years keeps every field and every carry; five zones move the clock by
  one hour, both ways, on both sides of Greenwich, one over midnight. Log: three days, five lines of
  two bytes written one or two at a time, one file cut or gone. Load order: every set of requirements between
  three mods, with duplicates, first and last, and a community file whose later lines win.

`CHECK_DEADLOCK FALSE` where the system may stop: all jobs done with the archives used up
(`world_files`), all scenarios played (`fleet`), a bound reached (`services`, `packages`). Elsewhere
TLC checks that something can always happen.

**Fairness.** `ServerLifecycle!Fairness` is weak fairness of the monitor's and the handlers'
steps (goroutines run on, and every RCON and Arcane call has a deadline), of time passing, and of
Docker's restart policy. `ArcaneWorks` adds strong fairness of Arcane answering: the watchdog
tries again and again, and without it nothing could be recovered. Nobody is obliged to make a
request, and `OperatorsRest` lets the property speak about what follows when they stop.
`FleetFairness` is weak fairness of the tickers of discovery and supervisor, of handlers under way
and of a cancelled monitor's end; what operators ask and what happens on the host owe nothing.
`RconClient` has weak fairness of the client's steps only, because a deadline set on a connection
passes; the server owes nothing. `SearchSpec` says that a Go loop runs on.

Each property has mutants, a plausible slip in the code such as a flag set later, a guard dropped,
a wrong order, with which TLC finds it violated (`mutants` in `PROJECT.json`); a property of several
parts has one for each, as far as the slip differs. Mutants that change the model are kept beside
what they change, marked *Mutant*, and used by nothing.

## The proofs

All theorems hold for every value of the constants their module allows: any number of handlers,
jobs, servers, slots, keys, requests. They assume only the modules' named ASSUMEs, which TLC
evaluates in the runs, and the hypotheses named below, which the runs meet too.

* `ServerLifecycleProofs`: `TypeCorrect`, `StoppedServerIsOffline`, `WatchdogIsBounded`,
  `OutageReportedOnce`, `ReportedOutageGetsClosed`. The inductive invariant `IInv` adds to the
  properties that history counts no more restarts than `RecoveryAttempts` does
  (`AttemptsCounted`), that the watchdog's decision is still good when it claims an attempt, since
  nobody else raises the count (`ClaimAllowed`), and that a reported outage is one of a checked,
  offline server both in the status and in the copy a probe holds (`ReportedIsOffline`; without the
  copy, a late probe could report again). Most steps are *calm*, they touch none of this, and one
  lemma serves them all.
* `WorldFilesProofs`: `OneOwner`. The invariant is the property itself with the types of `pc` and
  `lock`; four lemmas sort the steps into those that stay within the lock, take it, leave it, and
  do without. `TypeCorrect`: an archive's name is not taken, which rests on the list of archives
  being as long as the names used.
  What becomes of a world, by five more theorems:
  * `ReadsWhole` (`ReadsAreWhole`). `ReadInv`: whoever reads does so with the game down, unless it
    was live to begin with. A writer holds the lock and does not read, so nobody does.
  * `KeepsTheWorld` (`RestoreKeepsTheWorld`). `ColdInv`: while a restore or a copy runs the game is
    down and nobody has asked for a start. `SwapInv`: for each folder of a restore, what the folder,
    its `.before-restore` and its `.previous` hold at every step of the swap and of the undo, told
    by whether the folder comes before or after the one being worked on (`Behind`, `At`, `Ahead`)
    and by what `swap.begin` has noted (`moved`, `kept`).
  * `LeavesOnPurpose` (`WorldsLeaveOnPurpose`), with `PrevInv`: until something fails, only a
    restore under way has a `.previous`.
  * `DeletesOnlyKept` (`ArchivesAreKept`), with `ArchInv`: a reset's world has been archived, and so
    has what a restore in between may put back.
  * `FilesImplementVault` (`ImplementsVault`): `WorldFiles` implements `WorldVault`. Steps of a
    restore stutter until the last folder's `x.unpack`, which is `Restore`; the invariants say that
    what operators see is then what the archive held.

  All but the first take `[]Careful`: the constant `Careful`, boxed for the temporal prover, says
  that operators wait for an answer before they start a server. Without it each of the four is false,
  as TLC shows when `Careful` is `FALSE`: the code refuses a start only while a copy is made, and the
  game writes to the world whatever PZAdmin does to it. `ReadsAreWhole` says itself what rests on it.
* `PortSlotsProofs`: `TypeCorrect`, and `StartsKeepApart` for `ClaimsApart`. `IInv` needs
  `DeployingCovers` (while a deploy runs its server shows Deploying, so readers count it),
  `ReadIsGood` (what the pick has read so far still holds of every start under way, although
  statuses change behind its back) and `ClaimIsGood`. `SlotsHeld` proves `SlotsAreHeld` from `Held`,
  which says per server why its slot counts as held at every step: a running container is *seen*
  (`RunningIsSeen`), a slot start is alone with its server (`StartIsAlone`), an answer of Arcane that
  is still to be stored is not outdated where it matters (`AnswerIsFresh`), and no two of the monitor,
  the watchdog and the handlers work on it (`MonitorIsAlone`); and between servers, that what occupies
  a slot's ports occupies them alone (`OccupiedApart`). All of it is claimed while `trust` is "all".
* `AccountsProofs`: `TypeCorrect`, with what the id of a request is at each step, and `KeysSurvive`
  for `HandedOutKeySurvives`. `KInv` says: whoever writes a file holds its `saveMu` (`Locked`);
  every key handed out is in memory, on disk and in the snapshot of whoever is writing keys
  (`Kept`); a key being created is in memory unless revoked, and once its save went well on disk
  and in every snapshot too (`Creating`); and no two requests create the same key (`Distinct`).
  The snapshots are what makes it hard: a key is safe only if an older snapshot cannot be written
  after it, which is what `saveMu` from snapshot to rename gives.
  The other three properties of `Accounts` follow in the same module. `NobodyWidened` carries the
  property from memory and disk to every snapshot being written (`WInv`). `GoneForGood`: what is
  gone is in no snapshot, what a request removes is neither in memory nor in its own snapshot, and
  a snapshot has only what belongs to its file, so that it cannot bring back what another removed
  (`GInv`). `ChangesReachDisk`: what memory and disk disagree on waits to be saved or is in the
  snapshot of whoever writes, or the write failed last (`SInv`); a use of a key is on disk, marked,
  or with a flush (`UInv`). A request's step is sorted by what it changes: keys, users or sessions
  alone, or nothing.
* `ServicesProofs`: five services, each for its own specification, and for `ServicesSpec`
  (`LimitsStay`, `NewsStaysTrue`), whose steps are one service's and a stutter of the others.
  * `Players`, `RegistryStaysTrue`: a probe not yet acted on has changed nothing, so what an earlier
    one left still holds (`OutageHolds`); once Close has waited no probe is left to open a session
    (`CloseHolds`).
  * `ApiLimits`, `ApiStaysLimited`: since any call a bucket let through, the calls let through and
    what the bucket is *worth* now are at most a burst and what has refilled (`BucketsPay`). A bucket
    that is forgotten was worth a full burst already (`Idle` is long enough for that, by the module's
    assumption), so making it anew gives nothing away. A key's counter is its open streams and those
    just refused (`StreamsFit`), counted as finite sets.
  * `SignIn`, `SignInStaysLimited`: a limiter's record is of the attempts it let through and locked
    from the last one on (`RecordsFit`); a set-up code that outlives the set-up belongs to a set-up
    that is finishing (`OwnerFits`).
  * `ModRequests`, `RequestsStaySettled`: no id and no waiting item is twice on the list or in its
    file, which may be older (`ListFits`); what waits has no outcome (`OutcomesFit`); a request being
    made is on no list yet (`AsksFit`); what an editor will write has what it knew of (`EditsFit`).
    What a trimmed list holds is a lemma on ranks: in a finite set of numbers every rank is somebody's,
    since an injection into a set of the same size reaches all of it.
  * `Events`, `NewsStaysOrderly`: order is carried along the pipeline. What has arrived, what the
    worker holds, what waits in the queue and what a source still owes come after one another for
    each source and destination (`QueueFits`, `WorkerFits`, `ArrivedFit`, `SourcesFit`); only the
    last to arrive may be the one being tried again. A stream's sent and waiting events are one
    sequence (`Shown`), behind what its sources publish (`StreamsAhead`).
* `FleetProofs`: `FleetTypeCorrect`, `FoldersHaveOneWriter` for `OneWriterPerFolder` and
  `RunningIsSpared` for `OnlyStoppedGoes`, an action property. `AInv` says of a create that is
  filling a folder that nothing but the bare folder is there, and that no container exists if it made
  the data folder too (`Filling`); of a destroy past its checks that there is no container
  (`Empties`); and that a container has its data folder. All but the second are claimed of stacks
  that are not `torn`: the proof failed without it, and TLC then found the stack destroyed half filled that is described below.
* `BoardProofs`: the other four services, in `ServicesSpec`.
  * `Jobs`, `SchedulesKept`: a claim has started if and only if it is in the fire log (`LogFits`), and
    what the loop has looked at and was due is there (`LoopFits`); a job that is recording and has not
    failed has done its last step (`JobsFit`).
  * `StatusCards`, `BoardStaysTrue`: a board, or its file, leads to messages of its own, where it says
    they are, and two cards never to one message. A message that is there is on the board, unless it
    is `stray`; what a pass over the board still has to look at is on the board, and what it has
    changed is known to be unsaved (`SyncFits`).
  * `ChannelNames`, `BoardStaysTrue`: the budget's list is the *end* of the renames that were really
    made, and what it leaves out is older than the window (`EndOf`), for the record in memory and,
    without a rename in between, in the file. A rename within the budget then keeps the pace: the one
    `RenamesPerWindow` before it is not on the list, so it is too old to count. The list is in order of
    time (`InOrder`), so what `Recent` keeps of it is its end (`RecentIs`).
  * `Settings`, `EditsStaySound`: of every copy of the configuration a handler holds, however old, the
    same is said as of the configuration: a channel is restored from its own address or from none. The
    first half of the property, of the schedules' results, is an action property that needs no more
    than the types.
  * `ServicesTypeCorrect`: the types of all nine, with the bounds of the event queues (`EventBounds`).
    It assumes that there is a key and a server to call.

* `PackagesProofs`: the packages that stand alone, in `PackagesSpec`.
  * `RconClient`, `ExecStaysSound`: `RconInv` looks at the connection in use as one stream, the
    packets read and those still to be read (`Packet`). While a command is being read for it waits in
    the game's queue with its sentinel last, or it is answered and only the sentinel waits, or both
    are through and its echo, if it comes, comes right behind a whole reply or a denial (`ReadFits`);
    older packets have smaller numbers (`NumbersFit`). A connection that a command dialled carries
    nothing else (`FreshFits`). A command was run, or waits in the queue of some connection, dropped
    ones included, no more often than it was sent (`RunsFit`, counted as finite sets).
  * `LoadOrder`, `OrderStaysRight`: a mod's in-degree is the number of edges it still waits for
    (`WaitsFit`), so what is placed has every predecessor before it (`PlacingFits`), and when nothing
    is ready what waits is exactly what loops hold up, `Endless`, the largest set whose every mod has
    a predecessor in it. For a sort of a sorted list, `InOrder` says when a list is in order, loops
    included; on such a list the next mod placed is always the list's next one, because the smallest
    place still waiting is ready. Assumed: mods are listed with one of the spellings.
  * `Cron`, `NextStaysFirst`: nothing between the time asked about and the candidate fires, on
    whichever side the candidate is (`CronInv`), for a skip goes over no instants but those that read
    like the candidate where it does not fit, the same hour (`HourSkipped`), day or month
    (`SpanSkipped`). The theorem has a hypothesis, that every zone is `OnTheHour`: it changes by an
    hour, on the hour, and not at midnight from Greenwich east, as the zones of the run do. Without it
    TLC finds counterexamples: a midnight skipped in the east ([below](#disagreements-found)) or repeated there,
    after which a skipped day ends in the middle of one, and a change of half an hour, as on Lord Howe
    Island, with which the search of an hour may go round for ever.

  * `Tailer`, `LogStaysFollowed`: files hold whole lines of the one stream the game writes, those of
    an older file the smaller ones (`TextFits`); an offset is a whole number of lines (`OffsetFits`). What
    the next poll does not pass over has not been returned (`HeardFits`; it passes over the lines before
    the offset, and over none of a file that is shorter), and while a file is read no line of a later
    one has been (`ReadingFits`). A line owed and not returned is in the newest file, behind its offset
    (`OwedFits`), so a poll at the end owes nothing (`CaughtFits`). The theorem has a hypothesis,
    `WholeLines`, as in the run: the game writes whole lines, and one poll may read all a file holds.
    Without the first TLC finds `LogIsFollowed` violated, with `Writes = {4}` ([below](#disagreements-found)); a
    poll that stops at `MaxRead`, 512 KiB in the code, stops within a line, and counts a newline that
    is not there just the same. Scanner and rule file are written in closed form, line by rank,
    because nothing can be proved of a fold by induction here.

  * `PackagesStayTyped`: the types of the four. Not only names: `Place` must never subtract from a
    mod that waits for nothing, which needs `WaitsFit`, and the scanner must hand on numbers of lines
    from bytes cut anywhere.

Every invariant and every action property that a passing run checks is a theorem. Model-checked only:
the liveness properties `RestartWindowCloses`, `WedgedIsRecovered`, `ComesToRest` and `ExecReturns`,
because the prover has no ENABLED and no fairness.

## Disagreements found

Each of these is a run that TLC must find violated, with the text it contradicts in `PROJECT.json`.

* `lifecycle_false_outage`: a probe answered after `markRestarting` but before `quit` ends the
  restart window, and PZAdmin reports its own restart as an outage.
* `lifecycle_stopped`: the watchdog stops and then starts a container without looking in between;
  a stop asked for meanwhile is undone.
* `fleet_wipe`: a destroy checks that no other server uses the data folder, then calls Arcane and
  gives up the stack's name, then deletes the folder. A server created under that name in between
  is planned on the folder, and loses it.
* `cron_fall_back`: west of Greenwich, in the hour that autumn repeats, `Next` skips an hour by
  building its start with `time.Date`, which goes back to its first occurrence; the search then
  turns in place for ever.

Met while modelling, described in the hazards, without a run of their own:

* Where spring skips a midnight and the zone is east of Greenwich, `time.Date` makes that day begin at
  one o'clock, and `AddDate` keeps the hour: `Next` then starts the following day, or month, at one,
  and misses what fires in its first hour (`cron.go:236`, `232`, against `cron.go:224`). `0 0 * * 6` in
  Cairo, asked on the Friday the clocks go forward, answers a week late. The proof of `NextStaysFirst`
  failed there; TLC shows it for `NextIsFirst` with `Zones <- Cairo` in `CronFallBack.cfg`.
* Repeated mod-update notices move an announced restart away for ever when the delay is longer than
  half an hour (`monitor.go:556`, `579`); `LongDelay` lets them.
* A restore is refused only while RCON answers, not while the game still loads the world it
  replaces (`api.go:1411` against `backup.go:384-385`). The model lets it happen;
  `ColdReadsAreWhole` speaks of jobs whose files were never open in the game.
* A destroy takes whatever folder has the server's name when its container is gone. If the folder
  was removed and is being made anew by a create, and a second create makes it once more, the first
  one's undo removes by name what the second wrote (`provision.go:472` against `provision.go:468`,
  "only what it created"). `torn` marks such stacks, and the properties of `Fleet` leave them out.
* What is left of a reply that was cut short becomes the next command's answer (`rcon.go:181`
  against `rcon.go:113`); `FreshAnswerIsOwn` therefore speaks of connections just dialled.
* A server stopped in PZAdmin and started from Arcane holds no slot while it loads
  (`slots.go:38` against `docs/port-slots.md:96`); `trust` falls there.
* A revoke or removal whose save failed cannot be retried as the message asks, because the retry
  finds nothing to remove and saves nothing (`apikeys.go:437`, `auth.go:139`).
* A session made by a sign-in that was verified before a password reset outlives the reset
  (`api.go:225`).
* A stop handler writes `Online` before `MarkOffline` can tell an outage (`api.go:1031` against
  `store.go:441-442`): sessions end with the next probe.
* The settings form writes back the bot, the metrics token and the channels it read before
  `Update`; what was saved in between is undone (`api.go:1629`). `SavesAreKept` excludes it
  (`crossed`).
* Two editors of an ini each write the whole file they loaded (`configedit.go:119-121` promises to
  keep other keys); the last one wins. `KnownModsStay` speaks of editors that do not overlap.
* Lines written to a log after its last poll and before the next day's file is seen are not read,
  nor are a file's first lines when it is met late (`logs.go:79`, `112`). A last line without its
  newline counts a byte too many (`168`): the offset is then beyond the end, the next poll takes the
  file for one that was cut and returns all of it again (`logs.go:114`, against "so repeated polls
  only see new lines", `40`). When a newer file goes and its offset was the only one kept, the older
  one is met as if for the first time.
* `SortLoadOrder` reports mods that only wait behind a loop as part of it (`loadorder.go:202`).
* A post to Discord whose answer is lost leaves a message nobody updates.
* Minutes that pass while the scheduler waits for an announcement are skipped (`scheduler.go:94`).
* A deploy slower than the restart window, and a failed deploy of a server that was moved while it
  ran, leave `.env` and container apart (`slots.go:192`, `170`).
* RCON clients are closed while `App.mu` is held, and closing waits for the command under way
  (`server.go:590`): no cycle of waits, but every status read waits with it.

## What is not shown

* *Lifecycle.* Latency figures, disk facts and capability reads of the probe. Disabling, deleting
  and re-adding a server while it is monitored is `Fleet`'s, with a monitor that does nothing.
* *Fleet.* A stack, its server, container and data folder share one name. Names given by hand,
  entries edited by hand, and the text of scan problems. Nothing is claimed of a stack whose folder
  was destroyed while a create filled it (`torn`).
* *World files.* Archives' formats, sizes and free-space checks. Whether the server is down is read
  from `game` directly: an unreachable Arcane and the age of the status are left to
  `ServerLifecycle`. Several failures in a row. A start between the check and the deletion of a
  reset (`Careful` operators wait for answers).
* *Slots.* Port arithmetic; servers with fixed ports in the range; changes of the range; the copy of
  the server's settings read before `slotMu`. The stop handler's last two writes are one step, and
  the restart handler is left to `ServerLifecycle`. `RunningHoldsItsSlot` claims nothing after a
  deploy slower than the restart window (20 against 15 minutes), a start or stop of a server that
  is still busy, a lost answer, a start from Arcane, or a restart of PZAdmin: there the code cannot
  know. Those disturbances are in the model; `slow deploy` and `stop while busy` are in no setting
  of the run.
* *Accounts.* Permissions, names, password hashes, last-seen times, expiry of keys, and the flush of
  an orderly stop. Ids are never used twice, as random ids are not in practice. `SavedOrOnItsWay`
  leaves out what a refused creation left in the file (a save in between may have written it) and
  expired sessions, which lookup drops without saving.
* *Jobs.* What a step of a job does is the operation it names, elsewhere. `NoneLeftOut` leaves out
  minutes that passed while the loop announced (`missed`), `NothingRunsAfterTheWait` what outlived
  the 8 seconds Close waits (`late`).
* *Players, Events.* Last-seen times; chat, samples, day files and their pruning. Nothing is claimed
  of events lost to a full queue, which the code allows. `OutageEndsSessions` leaves out the stop
  above (`overtaken`).
* *SignIn, ApiLimits.* Which address a proxy names, and the content of requests. Handlers that only
  read.
* *Cards and names.* What a card says is a value. `stray`, `unsure` and `doubt` collect what a lost
  answer leaves unknown; nothing is claimed of it.
* *Settings, ModRequests.* Validation, defaults and migrations of other fields, quiet hours, import
  and export. The mod manager's plan and its look-ups in Steam. What overlapping saves undo is known
  (`crossed`, and editors of one file) and excluded.
* *RCON.* Packet bytes, and the wrap-around of packet ids after a million commands.
* *Cron.* Months of different length, leap years, names of days and months, text. A zone changes its
  offset once. `SearchGoesForward` speaks of zones whose clock skips no midnight and where `time.Date`
  does not go back (`Smooth`); in the others `NextIsFirst` says what a search that ends has found.
  `cron_fall_back` shows one that does not end.
* *Log, load order.* One kind of log, which is how Poll treats each. What a line means. `Preflight`
  and reading mod folders.

## Not modelled

* *Settings files (`pz/ini.go`, `sandbox.go`, `schema.go`), compose files and `.env`.* Parsers and
  renderers of text: what could be wrong with them is a matter of characters, which a model would
  have to repeat one by one. Who writes these files, and when, is in `ModRequests`, `PortSlots` and
  `Fleet`.
* *Discord and Arcane clients.* HTTP calls without a state the properties depend on. That they fail,
  time out, or work with the answer lost is an input of the modules that call them.
* *Templates, catalogues, capabilities, commands.* Files saved and deleted one at a time; read-only
  scans with a cache; tables and the syntax of arguments.
* *Paths and moving the backup folder.* Checks on strings; a copy made before requests are served.
* *Browser page.* It keeps no state the server relies on.

## Plan

The modules of the plan are written. What is left, in this order:

1. Pruning of day files and chat in `Events`; `Preflight` in `LoadOrder`; sign-in limits and sessions
   in one module, for a disabled user whose password is just being hashed.
