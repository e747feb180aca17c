------------------------------ MODULE PortSlots ------------------------------
(***************************************************************************)
(* Port slots (internal/server/slots.go): a few forwarded port pairs shared*)
(* by more servers than ever run at once.  Nothing about a slot is stored. *)
(* A server's slot is read from the ports the configuration has for it,    *)
(* which a scan once read from its .env, and whether it holds it from the  *)
(* status the monitor and the handlers keep, so the bookkeeping is as good *)
(* as these two copies are.                                                *)
(*                                                                         *)
(* startInSlot runs under App.slotMu up to the moment Deploying is set; the*)
(* deploy itself, handleStackDeploy, the stop handler, the monitor, scans  *)
(* of the stacks and whatever is done in Arcane directly are interleaved   *)
(* with it.                                                                *)
(***************************************************************************)
EXTENDS Naturals

CONSTANTS
    Servers,          \* servers with "Use a port slot" ticked
    Count,            \* PortSlots.Count
    Settings          \* the circumstances to consider (see Setting below)

Slots == 1..Count

Disturbances == {"arcane start", "lost answer", "pzadmin restart",
                 "start while busy", "stop while busy", "slow deploy",
                 "late scan", "bad scan"}

\* Which servers are Enabled, and so watched by a monitor; for which the Deploy
\* and the Stop button are used; and what else may come between PZAdmin and its
\* servers.
Setting == [watched : SUBSET Servers, deployed : SUBSET Servers,
            stopped : SUBSET Servers, disturbed : SUBSET Disturbances]

ASSUME SlotsAssumption ==
    /\ Count \in Nat \ {0}
    /\ Settings \subseteq Setting

VARIABLES
    setting, \* one of Settings, for good
    box,     \* the container: whether it runs, and the slot it was created in
    env,     \* the slot whose ports .env names; 0 is outside the range
    conf,    \* the slot of the ports its entry in the configuration has; 0 is
             \* also for one marked missing
    scan,    \* a scan going on elsewhere: the discovery's or a handler's
    st,      \* the part of App.status that holdsPorts reads
    mon,     \* the monitor of each server
    stop,    \* the stop handler of each server
    job,     \* the deploys under way, from a start and from the Deploy button
    pick,    \* startInSlot inside slotMu
    loose,   \* history: servers whose claim other starts may not see
    doubted  \* history: servers whose status may say less than is so

vars == <<setting, box, env, conf, scan, st, mon, stop, job, pick, loose, doubted>>

Books == [Servers -> 0..Count]
Unread == [s \in Servers |-> 0]
NoScan == [on |-> FALSE, seen |-> Unread]

Box == [run : BOOLEAN, slot : 0..Count]

Status == [Deploying : BOOLEAN, Restarting : BOOLEAN, Online : BOOLEAN,
           Stopped : BOOLEAN,
           ContainerState : {"", "running", "exited", "unavailable"}]

ZeroStatus == [Deploying |-> FALSE, Restarting |-> FALSE, Online |-> FALSE,
               Stopped |-> FALSE, ContainerState |-> ""]

\* A probe: what RCON said, whether the restart window was found overdue when
\* the status was read, and what Arcane answered.  Then the watchdog's steps.
Monitors == [at : {"idle", "ok", "failed", "after", "store", "keep", "apply",
                   "w.mark", "w.stop", "w.start"},
             stalled : BOOLEAN,
             seen : {"", "running", "exited", "unavailable"}]
Resting == [at |-> "idle", stalled |-> FALSE, seen |-> ""]

Kinds == {"start", "stack"}
JobSteps == {"none", "set", "find", "deploy", "deployed"}

\* Free: nobody is inside slotMu.  Reading: the holders are being collected,
\* from the configuration as it was.  Claiming: .env points at the chosen slot.
Free == [at |-> "free"]
Picks == {Free}
    \cup [at : {"read"}, who : Servers, todo : SUBSET Servers, busy : SUBSET Slots,
          conf : Books]
    \cup [at : {"claim"}, who : Servers]

-----------------------------------------------------------------------------
(* Who is at work, and what the bookkeeping can know of it.                *)

Starting(s) == job[s].start # "none"

\* The Deploy button's job has marked the server, and has not ended.
Stacking(s) == job[s].stack \in {"find", "deploy", "deployed"}

Claiming(s) == pick = [at |-> "claim", who |-> s]

\* Its ports are published, or will be without another look at the holders.
Occupies(s) == box[s].run \/ Starting(s) \/ mon[s].at = "w.start"

(***************************************************************************)
(* A server is loose when its entry in the configuration has other ports   *)
(* than its .env, or the Deploy button was pressed in the middle of its    *)
(* slot start; until its next start.  It is doubted when it came up, or the*)
(* status was lost, behind PZAdmin's back, an answer of Arcane's was lost, *)
(* or somebody started or stopped it while it was busy; until it is started*)
(* while it is down, or a probe finds it right.                            *)
(***************************************************************************)
Doubts(s, condition, cause) ==
    IF condition THEN cause \in setting.disturbed /\ doubted' = doubted \cup {s}
    ELSE doubted' = doubted

Misfiled(books, files) == {s \in Servers : books[s] # files[s]}

\* What a scan reads, and what the configuration is after it: a root that
\* cannot be read gives nothing, and what cannot be saved is not taken over.
Scanned(files) == {files} \cup (IF "bad scan" \in setting.disturbed THEN {Unread} ELSE {})
Filed(seen) == {seen} \cup (IF "bad scan" \in setting.disturbed THEN {conf} ELSE {})

\* A running server that shows up is known again, unless it is being worked on
\* or a start has already overlooked it.
PutRight(s) ==
    /\ box[s].run /\ env[s] = box[s].slot /\ env[s] # 0
    /\ stop[s] = "idle" /\ ~Starting(s) /\ ~Stacking(s) /\ ~mon[s].stalled
    /\ pick.at # "read" /\ ~Claiming(s)
    /\ \A t \in Servers : t # s /\ (Occupies(t) \/ Claiming(t)) => env[t] # env[s]

TypeOK ==
    /\ setting \in Settings
    /\ box \in [Servers -> Box]
    /\ env \in Books /\ conf \in Books
    /\ scan \in [on : BOOLEAN, seen : Books]
    /\ st \in [Servers -> Status]
    /\ mon \in [Servers -> Monitors]
    /\ stop \in [Servers -> {"idle", "stop", "flag"}]
    /\ job \in [Servers -> [Kinds -> JobSteps]]
    /\ pick \in Picks
    /\ loose \in SUBSET Servers /\ doubted \in SUBSET Servers

\* Everything is down when PZAdmin comes up for the first time, and scanned.
Init ==
    /\ setting \in Settings
    /\ env \in Books /\ conf = env /\ scan = NoScan
    /\ box = [s \in Servers |-> [run |-> FALSE, slot |-> env[s]]]
    /\ st = [s \in Servers |-> ZeroStatus]
    /\ mon = [s \in Servers |-> Resting]
    /\ stop = [s \in Servers |-> "idle"]
    /\ job = [s \in Servers |-> [k \in Kinds |-> "none"]]
    /\ pick = Free
    /\ loose = {} /\ doubted = {}

\* Mutant: a server that is only being deployed is not counted.
HoldsPortsOnceUp(t) ==
    \/ t.Restarting \/ t.Online
    \/ ~t.Stopped /\ t.ContainerState \in {"running", "unavailable"}

\* Mutant: a container Arcane cannot be asked about counts as down.
HoldsPortsIfSeen(t) ==
    \/ t.Deploying \/ t.Restarting \/ t.Online
    \/ ~t.Stopped /\ t.ContainerState = "running"

\* A server's ports are published, or about to be.
HoldsPorts(t) ==
    \/ t.Deploying \/ t.Restarting \/ t.Online
    \/ ~t.Stopped /\ t.ContainerState \in {"running", "unavailable"}

Published(n) == {s \in Servers : box[s].run /\ box[s].slot = n}

\* Docker refuses a port another container publishes.  Ports outside the range
\* are the server's own.
PortFree(s, n) == n = 0 \/ Published(n) \subseteq {s}

Update(s, new) == st' = [st EXCEPT ![s] = new]
MonitorGoes(s, from, to) ==
    mon[s].at = from /\ mon' = [mon EXCEPT ![s].at = to]

-----------------------------------------------------------------------------
(* startInSlot, inside slotMu.                                             *)

\* Nobody starts a server that is still going up, down or being probed.
AtRest(s) == ~HoldsPorts(st[s]) /\ stop[s] = "idle" /\ mon[s] = Resting
Down(s) == AtRest(s) /\ ~box[s].run /\ ~Starting(s) /\ ~Stacking(s)

StartBegins(s) ==
    /\ pick = Free
    /\ pick' = [at |-> "read", who |-> s, todo |-> Servers \ {s}, busy |-> {},
                conf |-> conf]
    /\ UNCHANGED <<setting, box, env, conf, scan, st, mon, stop, job, loose, doubted>>

\* slotHolders takes the configuration once, and App.mu for each server.
ReadHolder(o) ==
    /\ pick.at = "read" /\ o \in pick.todo
    /\ pick' = [pick EXCEPT
         !.todo = @ \ {o},
         !.busy = IF HoldsPorts(st[o]) /\ pick.conf[o] # 0
                  THEN @ \cup {pick.conf[o]} ELSE @]
    /\ UNCHANGED <<setting, box, env, conf, scan, st, mon, stop, job, loose, doubted>>

\* Mutant: the slot the server was in last is taken without a look.
IsPickLast(n, want) ==
    LET last == pick.conf[pick.who]
        free == Slots \ pick.busy
    IN  IF last # 0 /\ want = 0 THEN n = last
        ELSE n \in free /\ \A m \in free : n <= m

\* The slot asked for; else the one it was in last, as far as the configuration
\* knows; else the first free one.
IsPick(n, want) ==
    LET last == pick.conf[pick.who]
        free == Slots \ pick.busy
    IN  /\ n \in free
        /\ IF want # 0 THEN n = want
           ELSE IF last \in free THEN n = last
           ELSE \A m \in free : n <= m

\* moveToSlot writes .env, and puts it back when compose would not follow.  When
\* .env has changed, a rescan takes it into the configuration; nobody looks the
\* slots up there before slotMu is released.
Pick ==
    /\ pick.at = "read" /\ pick.todo = {}
    /\ LET s == pick.who IN
         /\ AtRest(s) \/ "start while busy" \in setting.disturbed
         /\ \E n \in Slots, want \in 0..Count :
              /\ IsPick(n, want) /\ ~st[s].Deploying
              /\ env' = [env EXCEPT ![s] = n]
         /\ \/ env' = env /\ conf' = conf
            \/ env' # env /\ \E seen \in Scanned(env') : conf' \in Filed(seen)
         /\ loose' = Misfiled(conf', env')
                     \cup IF Starting(s) \/ Stacking(s) THEN loose ELSE loose \ {s}
         /\ doubted' = IF Down(s) THEN doubted \ {s} ELSE doubted \cup {s}
         /\ pick' = [at |-> "claim", who |-> s]
    /\ UNCHANGED <<setting, box, scan, st, mon, stop, job>>

\* No slot is free, the one asked for is taken, the server is being started
\* already, or moveToSlot fails.
Refuse ==
    /\ pick.at = "read" /\ pick.todo = {}
    /\ pick' = Free
    /\ UNCHANGED <<setting, box, env, conf, scan, st, mon, stop, job, loose, doubted>>

\* Deploying is set before the lock is released, and the rest is spawned.
Claim ==
    /\ pick.at = "claim"
    /\ LET s == pick.who IN
         /\ Update(s, [st[s] EXCEPT !.Deploying = TRUE, !.Stopped = FALSE])
         /\ job' = [job EXCEPT ![s].start = "find"]
         /\ AtRest(s) \/ "start while busy" \in setting.disturbed
         /\ doubted' = IF Down(s) THEN doubted ELSE doubted \cup {s}
    /\ pick' = Free
    /\ UNCHANGED <<setting, box, env, conf, scan, mon, stop, loose>>

-----------------------------------------------------------------------------
(* The scans of the discovery and of handlers: rescan reads the folders    *)
(* first and writes the entries later, with no lock over both.             *)

ScanReads ==
    /\ "late scan" \in setting.disturbed /\ ~scan.on
    /\ \E seen \in Scanned(env) : scan' = [on |-> TRUE, seen |-> seen]
    /\ UNCHANGED <<setting, box, env, conf, st, mon, stop, job, pick, loose, doubted>>

\* What it read may be older than what a start's own rescan has filed.
ScanFolds ==
    /\ scan.on
    /\ conf' \in Filed(scan.seen)
    /\ loose' = loose \cup Misfiled(conf', env)
    /\ scan' = NoScan
    /\ UNCHANGED <<setting, box, env, st, mon, stop, job, pick, doubted>>

-----------------------------------------------------------------------------
(* handleStackDeploy checks and sets Deploying in two steps, without slotMu.*)

DeployCheck(s) ==
    /\ s \in setting.deployed /\ job[s].stack = "none" /\ ~st[s].Deploying
    /\ job' = [job EXCEPT ![s].stack = "set"]
    /\ UNCHANGED <<setting, box, env, conf, scan, st, mon, stop, pick, loose, doubted>>

DeploySet(s) ==
    /\ job[s].stack = "set"
    /\ job' = [job EXCEPT ![s].stack = "find"]
    /\ Update(s, [st[s] EXCEPT !.Deploying = TRUE, !.Stopped = FALSE])
    /\ loose' = IF Starting(s) \/ Claiming(s) THEN loose \cup {s} ELSE loose
    /\ doubted' = doubted \cup {s}
    /\ UNCHANGED <<setting, box, env, conf, scan, mon, stop, pick>>

-----------------------------------------------------------------------------
(* The spawned part of both: find the project, deploy it, say so.          *)

JobFinds(s, k) ==
    /\ job[s][k] = "find"
    /\ job' = [job EXCEPT ![s][k] = "deploy"]
    /\ Update(s, [st[s] EXCEPT !.Restarting = TRUE])
    /\ UNCHANGED <<setting, box, env, conf, scan, mon, stop, pick, loose, doubted>>

\* docker compose up -d: the container is created with the ports in .env,
\* replaced when it has others, and started.
Recreated(s) == [run |-> TRUE, slot |-> env[s]]

JobDeploys(s, k) ==
    /\ job[s][k] = "deploy" /\ PortFree(s, env[s])
    /\ box' = [box EXCEPT ![s] = Recreated(s)]
    /\ job' = [job EXCEPT ![s][k] = "deployed"]
    /\ UNCHANGED <<setting, env, conf, scan, st, mon, stop, pick, loose, doubted>>

JobEnds(s, k) ==
    /\ job[s][k] = "deployed"
    /\ job' = [job EXCEPT ![s][k] = "none"]
    /\ Update(s, [st[s] EXCEPT !.Deploying = FALSE])
    /\ UNCHANGED <<setting, box, env, conf, scan, mon, stop, pick, loose, doubted>>

\* Mutant: a start that failed stays marked as under way.
JobFailsDeploying(s, k) ==
    /\ job[s][k] \in {"find", "deploy"}
    /\ job' = [job EXCEPT ![s][k] = "none"]
    /\ Update(s, [st[s] EXCEPT !.Restarting = FALSE])
    /\ UNCHANGED <<setting, box, env, conf, scan, mon, stop, pick, loose, doubted>>

\* Arcane does not list the project, or the deploy fails, or its answer is lost.
JobFails(s, k) ==
    /\ job[s][k] \in {"find", "deploy", "deployed"}
    /\ Doubts(s, job[s][k] = "deployed", "lost answer")
    /\ job' = [job EXCEPT ![s][k] = "none"]
    /\ Update(s, [st[s] EXCEPT !.Restarting = FALSE, !.Deploying = FALSE])
    /\ UNCHANGED <<setting, box, env, conf, scan, mon, stop, pick, loose>>

-----------------------------------------------------------------------------
(* handleLifecycle, stop.                                                  *)

StopBegins(s) ==
    /\ s \in setting.stopped /\ stop[s] = "idle"
    /\ stop' = [stop EXCEPT ![s] = "stop"]
    /\ Update(s, [st[s] EXCEPT !.Restarting = TRUE])
    /\ Doubts(s, \/ st[s].Deploying \/ st[s].Restarting \/ Claiming(s)
                 \/ mon[s].at \in {"w.mark", "w.stop", "w.start"},
              "stop while busy")
    /\ UNCHANGED <<setting, box, env, conf, scan, mon, job, pick, loose>>

StopStops(s) ==
    /\ stop[s] = "stop"
    /\ box' = [box EXCEPT ![s].run = FALSE]
    /\ stop' = [stop EXCEPT ![s] = "flag"]
    /\ UNCHANGED <<setting, env, conf, scan, st, mon, job, pick, loose, doubted>>

\* Mutant: the state is a word of the dashboard's instead of Docker's.
StopFlagsOtherWord(s) ==
    /\ stop[s] = "flag"
    /\ stop' = [stop EXCEPT ![s] = "idle"]
    /\ Update(s, [st[s] EXCEPT !.Stopped = TRUE, !.Online = FALSE,
                               !.Restarting = FALSE, !.ContainerState = "stopped"])
    /\ UNCHANGED <<setting, box, env, conf, scan, mon, job, pick, loose, doubted>>

\* "Stopping it from PZAdmin frees the slot straight away."
StopFlags(s) ==
    /\ stop[s] = "flag"
    /\ stop' = [stop EXCEPT ![s] = "idle"]
    /\ Update(s, [st[s] EXCEPT !.Stopped = TRUE, !.Online = FALSE,
                               !.Restarting = FALSE, !.ContainerState = "exited"])
    /\ UNCHANGED <<setting, box, env, conf, scan, mon, job, pick, loose, doubted>>

StopFails(s) ==
    /\ stop[s] \in {"stop", "flag"}
    /\ Doubts(s, stop[s] = "flag", "lost answer")
    /\ stop' = [stop EXCEPT ![s] = "idle"]
    /\ Update(s, [st[s] EXCEPT !.Restarting = FALSE])
    /\ UNCHANGED <<setting, box, env, conf, scan, mon, job, pick, loose>>

-----------------------------------------------------------------------------
(* The monitor: probe, refreshContainerState, the watchdog.                *)

ProbeAnswers(s) ==
    /\ s \in setting.watched /\ box[s].run
    /\ MonitorGoes(s, "idle", "ok")
    /\ UNCHANGED <<setting, box, env, conf, scan, st, stop, job, pick, loose, doubted>>

ProbeSucceeds(s) ==
    /\ MonitorGoes(s, "ok", "after")
    /\ Update(s, [st[s] EXCEPT !.Online = TRUE, !.Stopped = FALSE,
                               !.Restarting = FALSE])
    /\ doubted' = IF PutRight(s) THEN doubted \ {s} ELSE doubted
    /\ UNCHANGED <<setting, box, env, conf, scan, stop, job, pick, loose>>

\* The restart window may have passed by now, or not.  A stop opens a new one
\* and is over long before it is.
ProbeFails(s) ==
    /\ s \in setting.watched /\ mon[s].at = "idle"
    /\ \E stalled \in {FALSE, st[s].Restarting /\ stop[s] = "idle"} :
         /\ mon' = [mon EXCEPT ![s] = [Resting EXCEPT !.at = "failed",
                                                      !.stalled = stalled]]
         /\ Doubts(s, stalled /\ st[s].Deploying, "slow deploy")
    /\ UNCHANGED <<setting, box, env, conf, scan, st, stop, job, pick, loose>>

AskArcane(s) ==
    /\ mon[s].at \in {"after", "failed"}
    /\ \E seen \in {IF box[s].run THEN "running" ELSE "exited",
                    "unavailable"} :
         mon' = [mon EXCEPT ![s].seen = seen,
                            ![s].at = IF @ = "after" THEN "store" ELSE "keep"]
    /\ UNCHANGED <<setting, box, env, conf, scan, st, stop, job, pick, loose, doubted>>

StoreState(s) ==
    /\ mon[s].at \in {"store", "keep"}
    /\ mon' = [mon EXCEPT
         ![s] = IF @.at = "store" THEN Resting
                ELSE [@ EXCEPT !.at = "apply", !.seen = ""]]
    /\ Update(s, [st[s] EXCEPT !.ContainerState = mon[s].seen])
    /\ UNCHANGED <<setting, box, env, conf, scan, stop, job, pick, loose, doubted>>

\* A restart past its window is over.  What the status says after the failure
\* decides whether the watchdog, which counts the failures, may step in.
ApplyFailure(s) ==
    /\ mon[s].at = "apply"
    /\ Update(s, [st[s] EXCEPT !.Online = FALSE,
                               !.Restarting = @ /\ ~mon[s].stalled])
    /\ \/ mon' = [mon EXCEPT ![s] = Resting]
       \/ /\ ~st'[s].Restarting /\ st[s].ContainerState = "running"
          /\ mon' = [mon EXCEPT ![s] = [Resting EXCEPT !.at = "w.mark"]]
    /\ UNCHANGED <<setting, box, env, conf, scan, stop, job, pick, loose, doubted>>

WatchdogMarks(s) ==
    /\ MonitorGoes(s, "w.mark", "w.stop")
    /\ Update(s, [st[s] EXCEPT !.Restarting = TRUE])
    /\ Doubts(s, stop[s] # "idle" \/ st[s].Stopped, "stop while busy")
    /\ UNCHANGED <<setting, box, env, conf, scan, stop, job, pick, loose>>

WatchdogStops(s) ==
    /\ MonitorGoes(s, "w.stop", "w.start")
    /\ box' = [box EXCEPT ![s].run = FALSE]
    /\ UNCHANGED <<setting, env, conf, scan, st, stop, job, pick, loose, doubted>>

\* Arcane starts the container as it was created, whatever .env says now.
Started(s) == PortFree(s, box[s].slot)
              /\ box' = [box EXCEPT ![s].run = TRUE]

WatchdogStarts(s) ==
    /\ MonitorGoes(s, "w.start", "idle")
    /\ Started(s)
    /\ UNCHANGED <<setting, env, conf, scan, st, stop, job, pick, loose, doubted>>

WatchdogFails(s) ==
    /\ mon[s].at \in {"w.stop", "w.start"}
    /\ mon' = [mon EXCEPT ![s].at = "idle"]
    /\ Update(s, [st[s] EXCEPT !.Restarting = FALSE])
    /\ UNCHANGED <<setting, box, env, conf, scan, stop, job, pick, loose, doubted>>

-----------------------------------------------------------------------------
(* Arcane used directly, and PZAdmin's own restart.                        *)

\* A start, or a deploy: compose takes the ports .env has.
ArcaneStart(s) ==
    /\ "arcane start" \in setting.disturbed
    /\ ~box[s].run
    /\ \/ Started(s)
       \/ PortFree(s, env[s]) /\ box' = [box EXCEPT ![s] = Recreated(s)]
    /\ doubted' = doubted \cup {s}
    /\ UNCHANGED <<setting, env, conf, scan, st, mon, stop, job, pick, loose>>

\* The status is in memory only; the configuration is on disk, and Start begins
\* with a scan.
PZAdminRestart ==
    /\ "pzadmin restart" \in setting.disturbed
    /\ st' = [s \in Servers |-> ZeroStatus]
    /\ mon' = [s \in Servers |-> Resting]
    /\ stop' = [s \in Servers |-> "idle"]
    /\ job' = [s \in Servers |-> [k \in Kinds |-> "none"]]
    /\ pick' = Free
    /\ \E seen \in Scanned(env) : conf' \in Filed(seen)
    /\ scan' = NoScan
    /\ loose' = Misfiled(conf', env)
    /\ doubted' = {s \in Servers : box[s].run}
    /\ UNCHANGED <<setting, box, env>>

-----------------------------------------------------------------------------
StartInSlot(s) == StartBegins(s) \/ ReadHolder(s)
Job(s, k) == JobFinds(s, k) \/ JobDeploys(s, k) \/ JobEnds(s, k) \/ JobFails(s, k)
Stop(s) == StopBegins(s) \/ StopStops(s) \/ StopFlags(s) \/ StopFails(s)
Monitor(s) ==
    \/ ProbeAnswers(s) \/ ProbeSucceeds(s) \/ ProbeFails(s) \/ AskArcane(s)
    \/ StoreState(s) \/ ApplyFailure(s)
    \/ WatchdogMarks(s) \/ WatchdogStops(s) \/ WatchdogStarts(s) \/ WatchdogFails(s)

Next ==
    \/ Pick \/ Refuse \/ Claim \/ ScanReads \/ ScanFolds \/ PZAdminRestart
    \/ \E s \in Servers :
         \/ StartInSlot(s) \/ DeployCheck(s) \/ DeploySet(s)
         \/ Stop(s) \/ Monitor(s) \/ ArcaneStart(s)
         \/ \E k \in Kinds : Job(s, k)

Spec == Init /\ [][Next]_vars

-----------------------------------------------------------------------------
(* Properties.                                                             *)

\* "One pick at a time, so two starts at once cannot take the same slot"
\* (slots.go): from its claim to its end no slot start shares its slot with
\* another one, whatever else happens to the servers, PZAdmin and Arcane, and
\* however many scans overlap it.  Out of it are only the servers that other
\* starts read wrongly: whose entry in the configuration an older or failed scan
\* has left with other ports than .env has, or that are deployed besides.
ClaimsApart ==
    \A s, t \in Servers \ loose : Starting(s) /\ Starting(t) /\ s # t => env[s] # env[t]

\* "A server holds its slot while its container is running or starting"
\* (docs/port-slots.md), through stops that fail, crashes, probes answered late
\* and Arcane being out of reach.  Not so a server that came up behind PZAdmin's
\* back or was running when PZAdmin restarted: it may be taken for one that is
\* down until a probe finds it, alone in the slot its .env names.
RunningHoldsItsSlot ==
    \A s \in Servers \ doubted : box[s].run =>
      /\ HoldsPorts(st[s]) /\ env[s] = box[s].slot
      /\ s \notin loose => conf[s] = box[s].slot

Known == Servers \ (loose \cup doubted)

\* A slot start, and a restart by the watchdog, never find their ports taken by
\* a server the bookkeeping was right about.
NeverRefused ==
    \A s \in Known :
      /\ job[s].start = "deploy" => Published(env[s]) \cap Known \subseteq {s}
      /\ mon[s].at = "w.start" => Published(box[s].slot) \cap Known \subseteq {s}

\* "Deploying" is never left behind: a server that shows it, and that nobody
\* can start because of it, has a deploy under way.
DeployingIsWorkedOn ==
    \A s \in Servers : st[s].Deploying => Starting(s) \/ Stacking(s)

\* A slot is held as long as, and only as long as, somebody needs it.
SlotsAreHeld == RunningHoldsItsSlot /\ NeverRefused /\ DeployingIsWorkedOn

-----------------------------------------------------------------------------
(* The inductive invariant behind ClaimsApart.                             *)

\* Deploying is TRUE as long as a job of a server that is not loose runs, because
\* it has only one; a claim under way has seen it FALSE.
DeployingCovers ==
    \A s \in Servers \ loose :
      /\ Starting(s) => st[s].Deploying /\ ~Stacking(s) /\ env[s] \in Slots
      /\ Stacking(s) => st[s].Deploying
      /\ Claiming(s) => ~Starting(s) /\ ~Stacking(s)

\* The configuration, and the copy of it a start looks at, are right.
FiledRight ==
    \A s \in Servers \ loose :
      /\ conf[s] = env[s]
      /\ pick.at = "read" => pick.conf[s] = env[s]

\* What slotHolders has read so far still holds of every start under way.
ReadIsGood ==
    pick.at = "read" =>
      \A t \in Servers \ loose : Starting(t) /\ t # pick.who /\ t \notin pick.todo
                                   => env[t] \in pick.busy

ClaimIsGood ==
    \A s \in Servers, t \in Servers \ loose : Claiming(s) /\ Starting(t) => env[s] # env[t]

\* A claim has been written.
ClaimIsFiled == \A s \in Servers : Claiming(s) => env[s] \in Slots

Apart == ClaimsApart /\ DeployingCovers /\ FiledRight /\ ReadIsGood /\ ClaimIsGood /\ ClaimIsFiled

IInv == TypeOK /\ Apart

-----------------------------------------------------------------------------
(* The inductive invariant behind SlotsAreHeld.                            *)

Up == {"running", "unavailable"}

\* Down, and on its way up from a slot start.
Launching(s) == Claiming(s) \/ job[s].start \in {"find", "deploy"}

\* What the status says of a container that runs, with nobody's help but the
\* monitor's; and that it says so before a stop has failed.
RunningIsSeen(s) ==
    box[s].run =>
      /\ stop[s] # "flag" /\ ~st[s].Stopped
      /\ env[s] \in Slots /\ env[s] = box[s].slot
      /\ st[s].Restarting \/ st[s].Online \/ st[s].ContainerState \in Up
      /\ stop[s] = "stop" => st[s].Online \/ st[s].ContainerState \in Up

\* A slot start works on a server that is down, unstopped and left alone.
StartIsAlone(s) ==
    /\ ~Stacking(s) /\ ~(Claiming(s) /\ Starting(s))
    /\ Starting(s) =>
         /\ stop[s] = "idle" /\ ~st[s].Stopped /\ st[s].Deploying /\ env[s] \in Slots
         /\ ~mon[s].stalled
    /\ job[s].start = "deploy" => st[s].Restarting
    /\ Launching(s) =>
         /\ ~box[s].run /\ stop[s] = "idle" /\ env[s] \in Slots
         /\ mon[s].at \in {"idle", "failed", "keep", "apply"}
         /\ mon[s].at = "keep" => mon[s].seen # "running"
         /\ mon[s].at = "apply" => st[s].ContainerState # "running"

\* An answer of Arcane's on its way into the status is out of date only when a
\* start or a stop came in between, and then their flags are up.
AnswerIsFresh(s) ==
    LET overtaken == st[s].Restarting /\ ~mon[s].stalled /\ stop[s] = "idle"
        stopped == stop[s] = "flag" \/ st[s].Stopped
    IN  /\ mon[s].at = "store" /\ box[s].run => mon[s].seen \in Up
        /\ mon[s].at = "keep" =>
             /\ box[s].run => mon[s].seen \in Up \/ overtaken
             /\ mon[s].seen = "running" => box[s].run \/ stopped
        /\ mon[s].at = "apply" =>
             /\ box[s].run => st[s].ContainerState \in Up \/ overtaken
             /\ st[s].ContainerState = "running" => box[s].run \/ stopped

\* An overdue window is nobody else's; the watchdog works on what it found.
MonitorIsAlone(s) ==
    /\ mon[s].stalled =>
         /\ mon[s].at \in {"failed", "keep", "apply"}
         /\ st[s].Restarting /\ stop[s] = "idle" /\ ~Starting(s)
    /\ mon[s].at = "w.mark" =>
         \/ stop[s] = "flag" \/ st[s].Stopped
         \/ box[s].run /\ st[s].ContainerState = "running"
    /\ mon[s].at \in {"w.stop", "w.start"} =>
         /\ st[s].Restarting /\ stop[s] = "idle" /\ ~st[s].Stopped
         /\ st[s].ContainerState = "running"
         /\ env[s] \in Slots /\ env[s] = box[s].slot
    /\ mon[s].at = "w.stop" => box[s].run

HeldBy(s) == /\ RunningIsSeen(s) /\ StartIsAlone(s)
             /\ AnswerIsFresh(s) /\ MonitorIsAlone(s)

\* No two servers occupy one slot, and nobody claims, or is about to be given,
\* one that is occupied.
OccupiedApart ==
    /\ \A s, t \in Known : Occupies(s) /\ Occupies(t) /\ s # t => env[s] # env[t]
    /\ \A s \in Servers, t \in Known : Claiming(s) /\ Occupies(t) => env[s] # env[t]
    /\ pick.at = "read" =>
         \A t \in Known : Occupies(t) /\ t # pick.who /\ t \notin pick.todo
                           => env[t] \in pick.busy

Held == OccupiedApart /\ \A s \in Servers \ doubted : HeldBy(s)
=============================================================================
