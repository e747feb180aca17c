--------------------------- MODULE ServerLifecycle ---------------------------
(***************************************************************************)
(* One game server as PZAdmin sees and drives it: the status flags of      *)
(* internal/server (Status), the monitor goroutine that probes the server  *)
(* over RCON and owns the watchdog and the mod-update countdown, and the   *)
(* request handlers that restart, stop and start it.  The game and its     *)
(* container, which PZAdmin only observes, are modelled beside them.       *)
(*                                                                         *)
(* Every RCON or Arcane call, and every acquisition of App.mu, is a step   *)
(* of its own: whatever happens between two of them is interleaved.        *)
(* Clock comparisons (restart window, cooldown, countdown, start-up grace) *)
(* are facts that become true or false when time passes.                   *)
(***************************************************************************)
EXTENDS Naturals

CONSTANTS
    Ops,              \* request handlers and scheduled tasks, one each
    Monitor,          \* the server's monitor goroutine
    Requests,         \* lifecycle actions the operators ask for
    RecoveryEnabled,  \* RecoveryPolicy.Enabled
    Threshold,        \* RecoveryPolicy.FailuresBeforeRestart
    MaxAttempts,      \* RecoveryPolicy.MaxAttempts, 0 is unlimited
    AutoRestart,      \* ModPolicy.WatchUpdates and ModPolicy.AutoRestart
    LongDelay,        \* ModPolicy.RestartDelayMinutes exceeds 30 minutes
    LostReplies,      \* an RCON or Arcane call may fail after taking effect
    OtherTools,       \* Arcane's own UI or docker is used beside PZAdmin
    PZAdminRestarts   \* the PZAdmin process may be killed and restarted

ASSUME LifecycleAssumption ==
    /\ Monitor \notin Ops
    /\ Requests \subseteq {"restart", "stop", "start", "cancel-pending"}
    /\ Threshold \in Nat \ {0}
    /\ MaxAttempts \in Nat
    /\ {RecoveryEnabled, AutoRestart, LongDelay} \subseteq BOOLEAN
    /\ {LostReplies, OtherTools, PZAdminRestarts} \subseteq BOOLEAN

VARIABLES
    game,       \* what the container really does
    ours,       \* history: PZAdmin brought the game down, and it is not back
    st,         \* App.status of the server
    pc,         \* where each actor is in its handler
    res,        \* the monitor's RCON answer
    seen,       \* the monitor's answer from Arcane
    prev,       \* the monitor's copy of the status, read before it was updated
    event,      \* the event appended by the last step
    hardStops,  \* history: watchdog restarts since a probe last succeeded
    reported    \* history: the current outage has been reported

gameVars == <<game, ours>>
probeVars == <<res, seen, prev>>
history == <<hardStops, reported>>
vars == <<game, ours, st, pc, res, seen, prev, event, hardStops, reported>>

Actors == Ops \cup {Monitor}

\* Bounds: counters that only their comparison with a limit matters for.
AttemptBound == IF MaxAttempts = 0 THEN 1 ELSE MaxAttempts
Capped(n, bound) == IF n < bound THEN n + 1 ELSE bound

Running == {"loading", "up", "frozen", "quitting"}
GameStates == Running \cup {"exited"}
ContainerStates == {"", "running", "restarting", "exited", "unavailable"}
Answers == {"ok", "refused", "auth"}

Status == [
    Online : BOOLEAN,
    Restarting : BOOLEAN,
    overdue : BOOLEAN,      \* RestartingSince is older than its window
    Stopped : BOOLEAN,
    checked : BOOLEAN,      \* LastCheck is set
    ContainerState : ContainerStates,
    ConsecutiveFailures : 0..Threshold,
    RecoveryAttempts : 0..AttemptBound,
    cooling : BOOLEAN,      \* LastRecovery is within the cooldown
    modSeen : BOOLEAN,      \* ModUpdateSeen is within the last 30 minutes
    Pending : {"none", "counting", "late", "due"}]   \* PendingRestartAt

\* What probe uses of the copy it takes before it updates the status.
Copy == [Online : BOOLEAN, Restarting : BOOLEAN, overdue : BOOLEAN,
         checked : BOOLEAN]
CopyOf(s) == [Online |-> s.Online, Restarting |-> s.Restarting,
              overdue |-> s.overdue, checked |-> s.checked]

Steps == {"idle",
    \* restartServer
    "r.mark", "r.save", "r.wait", "r.quit", "r.accepted", "r.failed",
    \* handleLifecycle, stop and start
    "s.save", "s.pause", "s.mark", "s.stop", "s.clear", "s.failed", "s.flag",
    "t.mark", "t.flag", "t.start", "t.failed",
    \* monitorServer: probe, maybeRecover, pollLogs, checkPendingRestart
    "p.exec", "p.read", "p.state", "p.keep", "p.apply", "p.inspect", "p.store",
    "p.logs", "p.pending", "p.fire",
    "w.claim", "w.mark", "w.stop", "w.start", "w.failed"}

Events == {"none", "server.up", "server.down", "server.stalled",
           "server.recovered", "server.restart", "server.stop", "server.start"}

ZeroStatus == [
    Online |-> FALSE, Restarting |-> FALSE, overdue |-> FALSE,
    Stopped |-> FALSE, checked |-> FALSE, ContainerState |-> "",
    ConsecutiveFailures |-> 0, RecoveryAttempts |-> 0, cooling |-> FALSE,
    modSeen |-> FALSE, Pending |-> "none"]

TypeOK ==
    /\ game \in GameStates
    /\ ours \in BOOLEAN
    /\ st \in Status
    /\ pc \in [Actors -> Steps]
    /\ res \in Answers
    /\ seen \in ContainerStates
    /\ prev \in Copy
    /\ event \in Events
    /\ hardStops \in 0..AttemptBound + 1
    /\ reported \in BOOLEAN

Init ==
    /\ game \in {"exited", "loading", "up"}
    /\ ours = FALSE
    /\ st = ZeroStatus
    /\ pc = [a \in Actors |-> "idle"]
    /\ res = "refused"
    /\ seen = ""
    /\ prev = CopyOf(ZeroStatus)
    /\ event = "none"
    /\ hardStops = 0
    /\ reported = FALSE

\* Actor a goes from one step of its handler to the next.
Goes(a, from, to) == pc[a] = from /\ pc' = [pc EXCEPT ![a] = to]

\* A call did what it was asked; its answer arrives, or is lost.
TookEffect(a, from, done, failed) ==
    \/ Goes(a, from, done)
    \/ LostReplies /\ Goes(a, from, failed)

\* The locals of probe are gone when it returns.
LocalsEnd == res' = "refused" /\ seen' = "" /\ prev' = CopyOf(ZeroStatus)

Quietly == event' = "none"

MarkRestarting(s) == [s EXCEPT !.Restarting = TRUE, !.overdue = FALSE]
ClearRestarting(s) == [s EXCEPT !.Restarting = FALSE, !.overdue = FALSE]

-----------------------------------------------------------------------------
(* The game, its container and the clock.                                  *)

Becomes(next, byPZAdmin) == game' = next /\ ours' = byPZAdmin

\* What RCON can answer now.  Only a game that is up answers a command, and
\* even then the answer may be lost.
MayAnswer == game \in {"up", "quitting"}

\* What Arcane reports, when it can be reached.
Inspected ==
    CASE game = "exited" -> {"exited", "unavailable"}
      [] game = "quitting" -> {"running", "restarting", "unavailable"}
      [] OTHER -> {"running", "unavailable"}

\* Docker's restart policy revives a game that quit.
Revive ==
    /\ game = "quitting"
    /\ Becomes("loading", ours)
    /\ Quietly /\ UNCHANGED <<st, pc, probeVars, history>>

LoadDone ==
    /\ game = "loading"
    /\ Becomes("up", FALSE)
    /\ Quietly /\ UNCHANGED <<st, pc, probeVars, history>>

Crash ==
    /\ game = "up"
    /\ Becomes("loading", FALSE)
    /\ Quietly /\ UNCHANGED <<st, pc, probeVars, history>>

Freeze ==
    /\ game = "up"
    /\ Becomes("frozen", FALSE)
    /\ Quietly /\ UNCHANGED <<st, pc, probeVars, history>>

ToolStop ==
    /\ OtherTools /\ game \in Running
    /\ Becomes("exited", FALSE)
    /\ Quietly /\ UNCHANGED <<st, pc, probeVars, history>>

ToolStart ==
    /\ OtherTools /\ game = "exited"
    /\ Becomes("loading", FALSE)
    /\ Quietly /\ UNCHANGED <<st, pc, probeVars, history>>

\* A timestamp in the status grows old.
Ages(grown) ==
    /\ st' = grown
    /\ Quietly /\ UNCHANGED <<gameVars, pc, probeVars, history>>

WindowPasses ==
    /\ st.Restarting /\ ~st.overdue
    /\ Ages([st EXCEPT !.overdue = TRUE])

CooldownPasses == st.cooling /\ Ages([st EXCEPT !.cooling = FALSE])

\* Half an hour after a mod update was seen the next one is listened to.  A
\* countdown started by the first is over by then, unless its delay is longer.
HalfHourPasses ==
    /\ st.modSeen
    /\ st.Pending \in IF LongDelay THEN {"none", "counting"} ELSE {"none"}
    /\ Ages([st EXCEPT !.modSeen = FALSE,
                       !.Pending = IF @ = "none" THEN "none" ELSE "late"])

CountdownEnds ==
    /\ st.Pending = IF LongDelay THEN "late" ELSE "counting"
    /\ Ages([st EXCEPT !.Pending = "due"])

TimePasses == WindowPasses \/ CooldownPasses \/ HalfHourPasses \/ CountdownEnds

-----------------------------------------------------------------------------
(* restartServer, run by a request handler, a task or the monitor.         *)

RestartMark(a) ==
    /\ Goes(a, "r.mark", "r.save")
    /\ st' = MarkRestarting(st)
    /\ Quietly /\ UNCHANGED <<gameVars, probeVars, history>>

\* A save that fails does not stop the restart: quit saves too.
RestartSave(a) ==
    /\ \/ MayAnswer /\ Goes(a, "r.save", "r.wait")
       \/ Goes(a, "r.save", "r.quit")
    /\ Quietly /\ UNCHANGED <<gameVars, st, probeVars, history>>

\* Three seconds for the save to be flushed, or the request is cancelled.
RestartWait(a) ==
    /\ \/ Goes(a, "r.wait", "r.quit")
       \/ Goes(a, "r.wait", "r.failed")
    /\ Quietly /\ UNCHANGED <<gameVars, st, probeVars, history>>

\* The game may obey quit and go down before its answer is read.
RestartQuit(a) ==
    /\ \/ /\ MayAnswer
          /\ Becomes("quitting", TRUE)
          /\ TookEffect(a, "r.quit", "r.accepted", "r.failed")
       \/ Goes(a, "r.quit", "r.failed") /\ UNCHANGED gameVars
    /\ Quietly /\ UNCHANGED <<st, probeVars, history>>

RestartAccepted(a) ==
    /\ Goes(a, "r.accepted", "idle")
    /\ event' = "server.restart"
    /\ UNCHANGED <<gameVars, st, probeVars, history>>

\* Every failing path of the three handlers ends the restart window.
Failed(a) ==
    /\ \/ Goes(a, "r.failed", "idle")
       \/ Goes(a, "s.failed", "idle")
       \/ Goes(a, "t.failed", "idle")
    /\ st' = ClearRestarting(st)
    /\ Quietly /\ UNCHANGED <<gameVars, probeVars, history>>

-----------------------------------------------------------------------------
(* handleLifecycle.                                                        *)

Request(o) ==
    /\ \E r \in Requests :
         \/ r = "restart" /\ Goes(o, "idle", "r.mark") /\ UNCHANGED st
         \/ r = "stop" /\ Goes(o, "idle", "s.save") /\ UNCHANGED st
         \/ r = "start" /\ Goes(o, "idle", "t.mark") /\ UNCHANGED st
         \/ /\ r = "cancel-pending" /\ pc[o] = "idle" /\ UNCHANGED pc
            /\ st' = [st EXCEPT !.Pending = "none"]
    /\ Quietly /\ UNCHANGED <<gameVars, probeVars, history>>

StopSave(o) ==
    /\ \/ MayAnswer /\ Goes(o, "s.save", "s.pause")
       \/ Goes(o, "s.save", "s.mark")
    /\ Quietly /\ UNCHANGED <<gameVars, st, probeVars, history>>

StopPause(o) ==
    /\ Goes(o, "s.pause", "s.mark") \/ Goes(o, "s.pause", "idle")
    /\ Quietly /\ UNCHANGED <<gameVars, st, probeVars, history>>

StopMark(o) ==
    /\ Goes(o, "s.mark", "s.stop")
    /\ st' = MarkRestarting(st)
    /\ Quietly /\ UNCHANGED <<gameVars, probeVars, history>>

\* Arcane stops the container and says so, or stops it and the answer is
\* lost, or does nothing.
ArcaneStop(a, from, done, failed) ==
    \/ /\ Becomes("exited", TRUE)
       /\ TookEffect(a, from, done, failed)
    \/ Goes(a, from, failed) /\ UNCHANGED gameVars

\* Starting a container that runs already changes nothing.
ArcaneStart(a, from, done, failed) ==
    \/ /\ IF game = "exited" THEN Becomes("loading", TRUE)
                             ELSE UNCHANGED gameVars
       /\ TookEffect(a, from, done, failed)
    \/ Goes(a, from, failed) /\ UNCHANGED gameVars

StopStop(o) ==
    /\ ArcaneStop(o, "s.stop", "s.clear", "s.failed")
    /\ Quietly /\ UNCHANGED <<st, probeVars, history>>

StopClear(o) ==
    /\ Goes(o, "s.clear", "s.flag")
    /\ st' = ClearRestarting(st)
    /\ Quietly /\ UNCHANGED <<gameVars, probeVars, history>>

\* Mutant: the stopped server keeps its last Online.
StopFlagOnlineKept(o) ==
    /\ Goes(o, "s.flag", "idle")
    /\ st' = [st EXCEPT !.Stopped = TRUE, !.ContainerState = "exited"]
    /\ event' = "server.stop"
    /\ UNCHANGED <<gameVars, probeVars, history>>

\* Mutant: the state is a word of statusOf's instead of Docker's.
StopFlagOtherWord(o) ==
    /\ Goes(o, "s.flag", "idle")
    /\ st' = [st EXCEPT !.Stopped = TRUE, !.Online = FALSE,
                        !.ContainerState = "stopped"]
    /\ event' = "server.stop"
    /\ UNCHANGED <<gameVars, probeVars, history>>

StopFlag(o) ==
    /\ Goes(o, "s.flag", "idle")
    /\ st' = [st EXCEPT !.Stopped = TRUE, !.Online = FALSE,
                        !.ContainerState = "exited"]
    /\ event' = "server.stop"
    /\ UNCHANGED <<gameVars, probeVars, history>>

StartMark(o) ==
    /\ Goes(o, "t.mark", "t.flag")
    /\ st' = MarkRestarting(st)
    /\ Quietly /\ UNCHANGED <<gameVars, probeVars, history>>

StartFlag(o) ==
    /\ Goes(o, "t.flag", "t.start")
    /\ st' = [st EXCEPT !.Stopped = FALSE]
    /\ Quietly /\ UNCHANGED <<gameVars, probeVars, history>>

StartStart(o) ==
    /\ ArcaneStart(o, "t.start", "idle", "t.failed")
    /\ event' = IF pc'[o] = "idle" THEN "server.start" ELSE "none"
    /\ UNCHANGED <<st, probeVars, history>>

-----------------------------------------------------------------------------
(* monitorServer: probe.                                                   *)

ProbeBegin ==
    /\ Goes(Monitor, "idle", "p.exec")
    /\ Quietly /\ UNCHANGED <<gameVars, st, probeVars, history>>

\* "players" is asked; a wrong password shows only while something listens.
ProbeExec ==
    /\ Goes(Monitor, "p.exec", "p.read")
    /\ \/ MayAnswer /\ res' \in {"ok", "auth"}
       \/ res' = "refused"
    /\ Quietly /\ UNCHANGED <<gameVars, st, seen, prev, history>>

\* The status is copied before the mods are scanned and, after a failure,
\* before Arcane is asked about the container.
ProbeRead ==
    /\ Goes(Monitor, "p.read", IF res = "ok" THEN "p.apply" ELSE "p.state")
    /\ prev' = CopyOf(st)
    /\ Quietly /\ UNCHANGED <<gameVars, st, res, seen, history>>

\* refreshContainerState asks Arcane first and stores the answer afterwards.
AskArcane(from, to) ==
    /\ Goes(Monitor, from, to)
    /\ seen' \in Inspected
    /\ Quietly /\ UNCHANGED <<gameVars, st, res, prev, history>>

ProbeState == AskArcane("p.state", "p.keep")

KeepState(from, to) ==
    /\ Goes(Monitor, from, to)
    /\ st' = [st EXCEPT !.ContainerState = seen] /\ seen' = ""
    /\ Quietly /\ UNCHANGED <<gameVars, res, prev, history>>

ProbeKeep == KeepState("p.keep", "p.apply")

\* Mutant: "back online" only after a restart PZAdmin knows of.
ProbeSucceedsQuietly ==
    /\ res = "ok" /\ Goes(Monitor, "p.apply", "p.inspect")
    /\ st' = [st EXCEPT !.Online = TRUE, !.Stopped = FALSE, !.checked = TRUE,
                        !.ConsecutiveFailures = 0, !.RecoveryAttempts = 0,
                        !.Restarting = FALSE, !.overdue = FALSE]
    /\ event' = IF ~prev.Online /\ prev.Restarting THEN "server.up" ELSE "none"
    /\ hardStops' = 0 /\ reported' = FALSE
    /\ LocalsEnd /\ UNCHANGED gameVars

ProbeSucceeds ==
    /\ res = "ok" /\ Goes(Monitor, "p.apply", "p.inspect")
    /\ st' = [st EXCEPT !.Online = TRUE, !.Stopped = FALSE, !.checked = TRUE,
                        !.ConsecutiveFailures = 0, !.RecoveryAttempts = 0,
                        !.Restarting = FALSE, !.overdue = FALSE]
    /\ event' = IF ~prev.Online /\ prev.checked THEN "server.up" ELSE "none"
    /\ hardStops' = 0 /\ reported' = FALSE
    /\ LocalsEnd /\ UNCHANGED gameVars

ProbeInspect == AskArcane("p.inspect", "p.store")

ProbeStore == KeepState("p.store", "p.logs")

\* Mutant: the cap on attempts is forgotten.
MayRecoverAnyTime(s) ==
    /\ RecoveryEnabled /\ res # "auth" /\ ~s.Restarting
    /\ s.ContainerState = "running"
    /\ s.ConsecutiveFailures >= Threshold
    /\ ~s.cooling

\* Mutant: MaxAttempts 0 means none instead of unlimited.
MayRecoverZeroIsNone(s) ==
    MayRecoverAnyTime(s) /\ s.RecoveryAttempts < MaxAttempts

\* maybeRecover's conditions, on the status the failed probe left.
MayRecover(s) ==
    /\ RecoveryEnabled
    /\ res # "auth"
    /\ ~s.Restarting
    /\ s.ContainerState = "running"
    /\ s.ConsecutiveFailures >= Threshold
    /\ MaxAttempts > 0 => s.RecoveryAttempts < MaxAttempts
    /\ ~s.cooling

\* A restart was past its window when the probe read the status.
Stalled == prev.Restarting /\ prev.overdue

\* Mutant: a failed probe does not end the outdated Online.
AfterFailureOnlineKept ==
    [(IF Stalled THEN ClearRestarting(st) ELSE st) EXCEPT
        !.checked = TRUE,
        !.ConsecutiveFailures = Capped(@, Threshold)]

\* Mutant: a stalled restart is reported and not cleared.
AfterFailureStallKept ==
    [st EXCEPT !.Online = FALSE, !.checked = TRUE,
               !.ConsecutiveFailures = Capped(@, Threshold)]

AfterFailure ==
    [(IF Stalled THEN ClearRestarting(st) ELSE st) EXCEPT
        !.Online = FALSE, !.checked = TRUE,
        !.ConsecutiveFailures = Capped(@, Threshold)]

\* "Went offline" unless a restart or a stop explains it; a stalled restart
\* is reported as well (and stands for both when both are).
FailureEvent(s) ==
    CASE Stalled -> "server.stalled"
      [] prev.Online /\ ~s.Restarting /\ ~s.Stopped -> "server.down"
      [] OTHER -> "none"

ProbeFails ==
    /\ res # "ok" /\ st' = AfterFailure
    /\ Goes(Monitor, "p.apply", IF MayRecover(st') THEN "w.claim" ELSE "p.logs")
    /\ event' = FailureEvent(st')
    /\ reported' = (reported \/ event' # "none")
    /\ LocalsEnd /\ UNCHANGED <<gameVars, hardStops>>

-----------------------------------------------------------------------------
(* monitorServer: the watchdog (maybeRecover).                             *)

WatchdogClaim ==
    /\ Goes(Monitor, "w.claim", "w.mark")
    /\ st' = [st EXCEPT !.cooling = TRUE,
                        !.RecoveryAttempts = Capped(@, AttemptBound)]
    /\ event' = "server.recovered"
    /\ hardStops' = Capped(hardStops, AttemptBound + 1)
    /\ UNCHANGED <<gameVars, probeVars, reported>>

WatchdogMark ==
    /\ Goes(Monitor, "w.mark", "w.stop")
    /\ st' = MarkRestarting(st)
    /\ Quietly /\ UNCHANGED <<gameVars, probeVars, history>>

WatchdogStop ==
    /\ ArcaneStop(Monitor, "w.stop", "w.start", "w.failed")
    /\ Quietly /\ UNCHANGED <<st, probeVars, history>>

WatchdogStart ==
    /\ ArcaneStart(Monitor, "w.start", "p.logs", "w.failed")
    /\ Quietly /\ UNCHANGED <<st, probeVars, history>>

WatchdogFailed ==
    /\ Goes(Monitor, "w.failed", "p.logs")
    /\ st' = ClearRestarting(st)
    /\ event' = "server.recovered"
    /\ UNCHANGED <<gameVars, probeVars, history>>

-----------------------------------------------------------------------------
(* monitorServer: pollLogs and checkPendingRestart.                        *)

PollLogs ==
    /\ Goes(Monitor, "p.logs", "p.pending")
    /\ \/ UNCHANGED st
       \/ /\ AutoRestart /\ game = "up" /\ ~st.modSeen
          /\ st' = [st EXCEPT !.modSeen = TRUE, !.Pending = "counting"]
    /\ Quietly /\ UNCHANGED <<gameVars, probeVars, history>>

CheckPending ==
    /\ \/ st.Pending = "due" /\ Goes(Monitor, "p.pending", "p.fire")
       \/ st.Pending # "due" /\ Goes(Monitor, "p.pending", "idle")
    /\ Quietly /\ UNCHANGED <<gameVars, st, probeVars, history>>

FirePending ==
    /\ Goes(Monitor, "p.fire", "r.mark")
    /\ st' = [st EXCEPT !.Pending = "none"]
    /\ Quietly /\ UNCHANGED <<gameVars, probeVars, history>>

-----------------------------------------------------------------------------
\* Everything PZAdmin knows about the server's state is in memory.
PZAdminRestart ==
    /\ PZAdminRestarts
    /\ st' = ZeroStatus /\ LocalsEnd
    /\ pc' = [a \in Actors |-> "idle"]
    /\ hardStops' = 0 /\ reported' = FALSE
    /\ Quietly /\ UNCHANGED gameVars

Restart(a) ==
    \/ RestartMark(a) \/ RestartSave(a) \/ RestartWait(a)
    \/ RestartQuit(a) \/ RestartAccepted(a) \/ Failed(a)

Handler(o) ==
    \/ Restart(o)
    \/ StopSave(o) \/ StopPause(o) \/ StopMark(o) \/ StopStop(o)
    \/ StopClear(o) \/ StopFlag(o)
    \/ StartMark(o) \/ StartFlag(o) \/ StartStart(o)

Probe == ProbeBegin \/ ProbeExec \/ ProbeRead \/ ProbeSucceeds
         \/ ProbeInspect \/ ProbeStore \/ ProbeState \/ ProbeKeep \/ ProbeFails

Watchdog == WatchdogClaim \/ WatchdogMark \/ WatchdogStop \/ WatchdogStart
            \/ WatchdogFailed

MonitorStep == Probe \/ Watchdog \/ PollLogs \/ CheckPending \/ FirePending
               \/ Restart(Monitor)

Environment == Revive \/ LoadDone \/ Crash \/ Freeze \/ ToolStop \/ ToolStart

Next ==
    \/ Environment \/ TimePasses \/ MonitorStep \/ PZAdminRestart
    \/ \E o \in Ops : Request(o) \/ Handler(o)

Spec == Init /\ [][Next]_vars

(***************************************************************************)
(* Fairness: goroutines and handlers run on (every call has a deadline),   *)
(* time passes, Docker revives what quit.  Nobody has to make a request.   *)
(***************************************************************************)
Fairness ==
    /\ WF_vars(MonitorStep)
    /\ \A o \in Ops : WF_vars(Handler(o))
    /\ WF_vars(WindowPasses) /\ WF_vars(CooldownPasses)
    /\ WF_vars(HalfHourPasses) /\ WF_vars(CountdownEnds)
    /\ WF_vars(Revive)

\* Arcane does what it is asked again and again, if it is asked again and again.
ArcaneWorks ==
    /\ SF_vars(ProbeState /\ seen' # "unavailable")
    /\ SF_vars(WatchdogStop /\ pc'[Monitor] = "w.start")
    /\ SF_vars(WatchdogStart /\ pc'[Monitor] = "p.logs")

FairSpec == Spec /\ Fairness /\ ArcaneWorks

-----------------------------------------------------------------------------
(* Safety.                                                                 *)

\* A server PZAdmin stopped on purpose is never shown as online: the stop
\* handler and a probe that still holds an older answer write both flags.
StoppedIsOffline == st.Stopped => ~st.Online

\* "MaxAttempts caps restarts within one outage" (config.go): between two
\* probes that succeeded the watchdog restarts the container at most that often.
HardStopsBounded == MaxAttempts > 0 => hardStops <= MaxAttempts

\* An outage is cried once: after "went offline" or "has not come back" no
\* further "went offline" is posted before a probe has succeeded.
OneReportPerOutage == [][event' = "server.down" => ~reported]_vars

\* An outage that was reported is closed: the probe that ends it posts
\* server.up (unless PZAdmin itself was restarted and has forgotten it).
ReportedOutageIsClosed ==
    [][reported /\ ~reported' /\ st'.checked => event' = "server.up"]_vars

\* "Do not cry outage over a restart or a stop we asked for" (monitor.go).
NoFalseOutage == [][event' = "server.down" => ~ours]_vars

\* An exited container was "stopped on purpose, which must stay stopped"
\* (monitor.go): the watchdog starts no server an operator has stopped.
StoppedStaysStopped ==
    [][pc[Monitor] = "w.start" /\ game = "exited" /\ game' # "exited"
         => ~st.Stopped]_vars

-----------------------------------------------------------------------------
(* Liveness.                                                               *)

OperatorsRest == <>[](\A o \in Ops : pc[o] = "idle")

\* Restarting never sticks: an answer, a failed call or the window ends it.
RestartWindowCloses ==
    OperatorsRest /\ <>[](st.Pending = "none") => (st.Restarting ~> ~st.Restarting)

\* A frozen server, which can be neither asked to save nor to quit, is brought
\* back by the watchdog once Arcane works.
WedgedIsRecovered == OperatorsRest => (game = "frozen" ~> game # "frozen")

-----------------------------------------------------------------------------
(* The inductive invariant behind the safety properties.                   *)

\* The history counts no more restarts than the status does.
AttemptsCounted == hardStops <= st.RecoveryAttempts \/ MaxAttempts = 0

\* Only the watchdog raises RecoveryAttempts, so its decision is still good.
ClaimAllowed ==
    pc[Monitor] = "w.claim" /\ MaxAttempts > 0 => st.RecoveryAttempts < MaxAttempts

\* A reported outage is an outage of a server that was checked, in the status
\* and in the copy a probe under way has made of it.
ReportedIsOffline ==
    reported =>
      /\ ~st.Online /\ st.checked
      /\ pc[Monitor] \in {"p.state", "p.keep", "p.apply"} => ~prev.Online /\ prev.checked

IInv == /\ TypeOK /\ StoppedIsOffline
        /\ AttemptsCounted /\ ClaimAllowed /\ ReportedIsOffline
=============================================================================
