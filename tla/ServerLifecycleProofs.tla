------------------------ MODULE ServerLifecycleProofs ------------------------
(***************************************************************************)
(* ServerLifecycle, proved for every set of handlers, every watchdog       *)
(* policy and every combination of the environment's switches.             *)
(***************************************************************************)
EXTENDS ServerLifecycle, TLAPS

LEMMA BoundType == AttemptBound \in Nat \ {0} /\ Threshold \in Nat \ {0}
BY LifecycleAssumption DEF AttemptBound

\* A capped counter stays within its bound and never goes back.
LEMMA CappedStep ==
    ASSUME NEW b \in Nat, NEW n \in 0..b
    PROVE  Capped(n, b) \in 0..b /\ Capped(n, b) >= n
BY DEF Capped

\* A step of one actor's handler moves that actor and no other.
LEMMA GoesMoves ==
    ASSUME TypeOK, NEW a \in Actors, NEW from, NEW to \in Steps, Goes(a, from, to)
    PROVE  /\ pc' \in [Actors -> Steps]
           /\ pc[a] = from /\ pc'[a] = to
           /\ \A b \in Actors \ {a} : pc'[b] = pc[b]
BY DEF TypeOK, Goes

LEMMA ZeroType == ZeroStatus \in Status /\ CopyOf(ZeroStatus) \in Copy
BY BoundType DEF ZeroStatus, Status, ContainerStates, Copy, CopyOf

LEMMA InitIInv == Init => IInv
<1> SUFFICES ASSUME Init PROVE IInv
  OBVIOUS
<1>1. /\ st = ZeroStatus /\ prev = CopyOf(ZeroStatus)
      /\ hardStops = 0 /\ reported = FALSE
      /\ pc = [a \in Actors |-> "idle"]
  BY DEF Init
<1>2. TypeOK
  <2>1. st \in Status /\ prev \in Copy
    BY <1>1, ZeroType
  <2>2. game \in GameStates /\ ours \in BOOLEAN
    BY DEF Init, GameStates, Running
  <2>3. pc \in [Actors -> Steps]
    BY <1>1 DEF Steps
  <2>4. res \in Answers /\ seen \in ContainerStates /\ event \in Events
    BY DEF Init, Answers, ContainerStates, Events
  <2>5. hardStops \in 0..AttemptBound + 1
    BY <1>1, BoundType
  <2> QED BY <1>1, <2>1, <2>2, <2>3, <2>4, <2>5 DEF TypeOK, Init
<1>3. ~st.Stopped /\ st.RecoveryAttempts = 0
  BY <1>1 DEF ZeroStatus
<1>4. StoppedIsOffline /\ ReportedIsOffline
  BY <1>1, <1>3 DEF StoppedIsOffline, ReportedIsOffline
<1>5. AttemptsCounted
  BY <1>1, <1>3 DEF AttemptsCounted
<1>6. ClaimAllowed
  BY <1>1 DEF ClaimAllowed, Actors
<1> QED BY <1>2, <1>4, <1>5, <1>6 DEF IInv

(***************************************************************************)
(* What every step but the end of a probe and the watchdog's claim does:   *)
(* it puts nobody online, leaves the attempts and the histories alone,     *)
(* brings the monitor to no claim, and gives it no copy but a fresh one.   *)
(***************************************************************************)
StatusCalm ==
    /\ st' \in Status
    /\ st'.RecoveryAttempts = st.RecoveryAttempts
    /\ st'.checked = st.checked
    /\ st'.Online => st.Online
    /\ st'.Stopped => st.Stopped \/ ~st'.Online

ControlCalm ==
    /\ pc' \in [Actors -> Steps]
    /\ pc'[Monitor] = "w.claim" => pc[Monitor] = "w.claim"
    /\ prev' \in Copy
    /\ pc'[Monitor] \in {"p.state", "p.keep", "p.apply"} =>
         \/ pc[Monitor] \in {"p.state", "p.keep", "p.apply"} /\ prev' = prev
         \/ prev' = CopyOf(st)

RestCalm ==
    /\ game' \in GameStates /\ ours' \in BOOLEAN
    /\ res' \in Answers /\ seen' \in ContainerStates /\ event' \in Events
    /\ UNCHANGED <<hardStops, reported>>

LEMMA CalmKeepsIInv ==
    ASSUME IInv, StatusCalm, ControlCalm, RestCalm
    PROVE  IInv'
<1>1. TypeOK'
  BY DEF IInv, TypeOK, StatusCalm, ControlCalm, RestCalm
<1>2. StoppedIsOffline'
  BY DEF IInv, StatusCalm, StoppedIsOffline
<1>3. AttemptsCounted' /\ ClaimAllowed'
  BY DEF IInv, StatusCalm, ControlCalm, RestCalm, AttemptsCounted, ClaimAllowed
<1>4. ReportedIsOffline'
  <2> SUFFICES ASSUME reported PROVE ReportedIsOffline'
    BY DEF RestCalm, ReportedIsOffline
  <2>1. ~st.Online /\ st.checked
    BY DEF IInv, ReportedIsOffline
  <2>2. ~st'.Online /\ st'.checked
    BY <2>1 DEF StatusCalm
  <2>3. ASSUME pc'[Monitor] \in {"p.state", "p.keep", "p.apply"}
        PROVE  ~prev'.Online /\ prev'.checked
    <3>1. CASE pc[Monitor] \in {"p.state", "p.keep", "p.apply"} /\ prev' = prev
      BY <3>1 DEF IInv, ReportedIsOffline
    <3>2. CASE prev' = CopyOf(st)
      BY <2>1, <3>2 DEF CopyOf
    <3> QED BY <2>3, <3>1, <3>2 DEF ControlCalm
  <2> QED BY <2>2, <2>3 DEF ReportedIsOffline
<1> QED BY <1>1, <1>2, <1>3, <1>4 DEF IInv

\* The steps a handler may go to without more ado.
CalmSteps == Steps \ {"w.claim", "p.state", "p.keep", "p.apply"}

LEMMA GoesCalm ==
    ASSUME TypeOK, NEW a \in Actors, NEW from, NEW to \in CalmSteps,
           Goes(a, from, to), UNCHANGED prev
    PROVE  ControlCalm
<1>1. /\ pc' \in [Actors -> Steps] /\ pc'[a] = to
      /\ \A b \in Actors \ {a} : pc'[b] = pc[b]
  BY GoesMoves DEF CalmSteps
<1>2. Monitor \in Actors
  BY DEF Actors
<1>3. CASE a = Monitor
  BY <1>1, <1>3 DEF ControlCalm, CalmSteps, TypeOK
<1>4. CASE a # Monitor
  BY <1>1, <1>2, <1>4 DEF ControlCalm, TypeOK
<1> QED BY <1>3, <1>4

LEMMA StayCalm == TypeOK /\ UNCHANGED <<pc, prev>> => ControlCalm
BY DEF TypeOK, ControlCalm

\* The status updates that handlers share, and no update at all, are calm.
LEMMA UpdatesCalm ==
    ASSUME TypeOK, \/ st' = st
                   \/ st' = MarkRestarting(st)
                   \/ st' = ClearRestarting(st)
    PROVE  StatusCalm
BY DEF TypeOK, Status, StatusCalm, MarkRestarting, ClearRestarting

LEMMA RestartCalm ==
    ASSUME TypeOK, NEW a \in Actors, Restart(a)
    PROVE  StatusCalm /\ ControlCalm /\ RestCalm
<1>1. StatusCalm
  BY UpdatesCalm DEF Restart, RestartMark, RestartSave, RestartWait, RestartQuit, RestartAccepted, Failed
<1>2. ControlCalm
  BY GoesCalm DEF Restart, RestartMark, RestartSave, RestartWait, RestartQuit, RestartAccepted, Failed,
    TookEffect, CalmSteps, Steps, probeVars
<1>3. RestCalm
  BY DEF Restart, RestartMark, RestartSave, RestartWait, RestartQuit, RestartAccepted, Failed,
    Quietly, Becomes, Events, history, probeVars, gameVars, RestCalm, TypeOK, GameStates, Running
<1> QED BY <1>1, <1>2, <1>3

LEMMA RequestCalm ==
    ASSUME TypeOK, NEW o \in Ops, Request(o)
    PROVE  StatusCalm /\ ControlCalm /\ RestCalm
<1>0. o \in Actors /\ o # Monitor
  BY LifecycleAssumption DEF Actors
<1>1. StatusCalm
  <2>1. CASE st' = [st EXCEPT !.Pending = "none"]
    BY <2>1 DEF TypeOK, Status, StatusCalm
  <2>2. CASE st' = st
    BY <2>2, UpdatesCalm
  <2> QED BY <2>1, <2>2 DEF Request
<1>2. ControlCalm
  BY <1>0, GoesCalm, StayCalm DEF Request, CalmSteps, Steps, probeVars
<1>3. RestCalm
  BY DEF Request, RestCalm, TypeOK, Quietly, Events, gameVars, probeVars, history
<1> QED BY <1>1, <1>2, <1>3

\* What a call to Arcane may do to the container.
LEMMA ArcaneTypes ==
    ASSUME TypeOK, NEW a, NEW from, NEW done, NEW failed,
           \/ ArcaneStop(a, from, done, failed)
           \/ ArcaneStart(a, from, done, failed)
    PROVE  /\ game' \in GameStates /\ ours' \in BOOLEAN
           /\ Goes(a, from, done) \/ Goes(a, from, failed)
BY DEF ArcaneStop, ArcaneStart, TookEffect, Becomes, gameVars, TypeOK, GameStates, Running

LEMMA StopCalm ==
    ASSUME TypeOK, NEW o \in Ops,
           \/ StopSave(o) \/ StopPause(o) \/ StopMark(o)
           \/ StopStop(o) \/ StopClear(o) \/ StopFlag(o)
    PROVE  StatusCalm /\ ControlCalm /\ RestCalm
<1>0. o \in Actors
  BY DEF Actors
<1>1. StatusCalm
  <2>1. CASE StopFlag(o)
    BY <2>1 DEF StopFlag, TypeOK, Status, ContainerStates, StatusCalm
  <2>2. CASE ~StopFlag(o)
    BY <2>2, UpdatesCalm DEF StopSave, StopPause, StopMark, StopStop, StopClear
  <2> QED BY <2>1, <2>2
<1>2. /\ UNCHANGED prev
      /\ \E from \in Steps, to \in CalmSteps : Goes(o, from, to)
  <2>1. CASE StopStop(o)
    BY <2>1, ArcaneTypes DEF StopStop, CalmSteps, Steps, probeVars
  <2>2. CASE ~StopStop(o)
    BY <2>2 DEF StopSave, StopPause, StopMark, StopClear, StopFlag, CalmSteps, Steps, probeVars
  <2> QED BY <2>1, <2>2
<1>3. ControlCalm
  BY <1>0, <1>2, GoesCalm
<1>4. RestCalm
  <2>1. CASE StopStop(o)
    BY <2>1, ArcaneTypes DEF StopStop, Quietly, Events, history, probeVars, RestCalm, TypeOK
  <2>2. CASE ~StopStop(o)
    BY <2>2 DEF StopSave, StopPause, StopMark, StopClear, StopFlag, Quietly, Events,
       history, probeVars, gameVars, RestCalm, TypeOK
  <2> QED BY <2>1, <2>2
<1> QED BY <1>1, <1>3, <1>4

LEMMA StartCalm ==
    ASSUME TypeOK, NEW o \in Ops,
           StartMark(o) \/ StartFlag(o) \/ StartStart(o)
    PROVE  StatusCalm /\ ControlCalm /\ RestCalm
<1>0. o \in Actors
  BY DEF Actors
<1>1. StatusCalm
  <2>1. CASE StartFlag(o)
    BY <2>1 DEF StartFlag, TypeOK, Status, StatusCalm
  <2>2. CASE ~StartFlag(o)
    BY <2>2, UpdatesCalm DEF StartMark, StartStart
  <2> QED BY <2>1, <2>2
<1>2. /\ UNCHANGED prev
      /\ \E from \in Steps, to \in CalmSteps : Goes(o, from, to)
  <2>1. CASE StartStart(o)
    BY <2>1, ArcaneTypes DEF StartStart, CalmSteps, Steps, probeVars
  <2>2. CASE ~StartStart(o)
    BY <2>2 DEF StartMark, StartFlag, CalmSteps, Steps, probeVars
  <2> QED BY <2>1, <2>2
<1>3. ControlCalm
  BY <1>0, <1>2, GoesCalm
<1>4. RestCalm
  <2>1. CASE StartStart(o)
    BY <2>1, ArcaneTypes DEF StartStart, Events, history, probeVars, RestCalm, TypeOK
  <2>2. CASE ~StartStart(o)
    BY <2>2 DEF StartMark, StartFlag, Quietly, Events, history, probeVars, gameVars, RestCalm, TypeOK
  <2> QED BY <2>1, <2>2
<1> QED BY <1>1, <1>3, <1>4

LEMMA EnvironmentCalm ==
    ASSUME TypeOK, Environment \/ TimePasses
    PROVE  StatusCalm /\ ControlCalm /\ RestCalm
<1>1. CASE Environment
  <2>1. UNCHANGED <<st, pc, prev, res, seen, hardStops, reported>> /\ event' = "none"
    BY <1>1 DEF Environment, Revive, LoadDone, Crash, Freeze, ToolStop, ToolStart,
       Quietly, probeVars, history, gameVars
  <2>2. /\ game' \in GameStates /\ ours' \in BOOLEAN
    BY <1>1 DEF Environment, Revive, LoadDone, Crash, Freeze, ToolStop, ToolStart,
       Becomes, TypeOK, GameStates, Running
  <2> QED BY <2>1, <2>2, UpdatesCalm, StayCalm DEF RestCalm, TypeOK, Events
<1>2. CASE TimePasses
  <2>1. StatusCalm
    BY <1>2, ZenonT(60) DEF TimePasses, WindowPasses, CooldownPasses, HalfHourPasses, CountdownEnds, Ages,
       TypeOK, Status, StatusCalm
  <2>2. ControlCalm /\ RestCalm
    BY <1>2, StayCalm DEF TimePasses, WindowPasses, CooldownPasses, HalfHourPasses, CountdownEnds,
       Ages, Quietly, Events, gameVars, probeVars, history, RestCalm, TypeOK
  <2> QED BY <2>1, <2>2
<1> QED BY <1>1, <1>2

\* Probe steps that neither apply the result nor end the probe badly.
CalmProbe == ProbeBegin \/ ProbeExec \/ ProbeRead \/ ProbeState \/ ProbeKeep
             \/ ProbeInspect \/ ProbeStore

LEMMA InspectedType == Inspected \subseteq ContainerStates
BY DEF Inspected, ContainerStates

LEMMA ProbeCalm ==
    ASSUME TypeOK, CalmProbe
    PROVE  StatusCalm /\ ControlCalm /\ RestCalm
<1>0. Monitor \in Actors /\ CopyOf(st) \in Copy /\ CopyOf(ZeroStatus) \in Copy
  BY ZeroType DEF Actors, TypeOK, Status, Copy, CopyOf
<1>1. StatusCalm
  <2>1. CASE ProbeStore \/ ProbeKeep
    BY <2>1 DEF ProbeStore, ProbeKeep, KeepState, TypeOK, Status, StatusCalm
  <2>2. CASE ~(ProbeStore \/ ProbeKeep)
    BY <2>2, UpdatesCalm DEF CalmProbe, ProbeBegin, ProbeExec, ProbeRead, ProbeState, ProbeInspect, AskArcane
  <2> QED BY <2>1, <2>2
<1>2. ControlCalm
  <2>1. CASE ProbeBegin \/ ProbeExec \/ ProbeInspect \/ ProbeStore
    BY <1>0, <2>1, GoesCalm DEF ProbeBegin, ProbeExec, ProbeInspect, AskArcane, ProbeStore,
       KeepState, CalmSteps, Steps, probeVars
  <2>2. CASE ProbeKeep
    <3>1. Goes(Monitor, "p.keep", "p.apply") /\ prev' = prev
      BY <2>2 DEF ProbeKeep, KeepState
    <3>2. pc[Monitor] = "p.keep" /\ pc' \in [Actors -> Steps] /\ pc'[Monitor] = "p.apply"
      BY <1>0, <3>1, GoesMoves DEF Steps
    <3> QED BY <3>1, <3>2 DEF ControlCalm, TypeOK
  <2>3. CASE ProbeRead
    <3>1. PICK to \in {"p.apply", "p.state"} : Goes(Monitor, "p.read", to) /\ prev' = CopyOf(st)
      BY <2>3 DEF ProbeRead
    <3>2. pc' \in [Actors -> Steps] /\ pc'[Monitor] = to
      BY <1>0, <3>1, GoesMoves DEF Steps
    <3> QED BY <1>0, <3>1, <3>2 DEF ControlCalm
  <2>4. CASE ProbeState
    <3>1. Goes(Monitor, "p.state", "p.keep") /\ prev' = prev
      BY <2>4 DEF ProbeState, AskArcane
    <3>2. pc[Monitor] = "p.state" /\ pc' \in [Actors -> Steps] /\ pc'[Monitor] = "p.keep"
      BY <1>0, <3>1, GoesMoves DEF Steps
    <3> QED BY <3>1, <3>2 DEF ControlCalm, TypeOK
  <2> QED BY <2>1, <2>2, <2>3, <2>4 DEF CalmProbe
<1>3. RestCalm
  BY InspectedType DEF CalmProbe, ProbeBegin, ProbeExec, ProbeRead, ProbeState, ProbeInspect, ProbeStore,
     ProbeKeep, KeepState, AskArcane, LocalsEnd, RestCalm, TypeOK, Answers, ContainerStates, Quietly, Events,
     gameVars, probeVars, history
<1> QED BY <1>1, <1>2, <1>3

LEMMA LogsCalm ==
    ASSUME TypeOK, PollLogs \/ CheckPending \/ FirePending
    PROVE  StatusCalm /\ ControlCalm /\ RestCalm
<1>1. StatusCalm
  BY DEF PollLogs, CheckPending, FirePending, TypeOK, Status, StatusCalm
<1>2. ControlCalm
  BY GoesCalm DEF PollLogs, CheckPending, FirePending, CalmSteps, Steps, probeVars, Actors
<1>3. RestCalm
  BY DEF PollLogs, CheckPending, FirePending, RestCalm, TypeOK, Quietly, Events,
     gameVars, probeVars, history
<1> QED BY <1>1, <1>2, <1>3

LEMMA WatchdogCalm ==
    ASSUME TypeOK, WatchdogMark \/ WatchdogStop \/ WatchdogStart \/ WatchdogFailed
    PROVE  StatusCalm /\ ControlCalm /\ RestCalm
<1>1. StatusCalm
  BY UpdatesCalm DEF WatchdogMark, WatchdogStop, WatchdogStart, WatchdogFailed
<1>2. /\ UNCHANGED prev
      /\ \E from \in Steps, to \in CalmSteps : Goes(Monitor, from, to)
  <2>1. CASE WatchdogStop \/ WatchdogStart
    BY <2>1, ArcaneTypes DEF WatchdogStop, WatchdogStart, CalmSteps, Steps, probeVars
  <2>2. CASE WatchdogMark \/ WatchdogFailed
    BY <2>2 DEF WatchdogMark, WatchdogFailed, CalmSteps, Steps, probeVars
  <2> QED BY <2>1, <2>2
<1>3. ControlCalm
  BY <1>2, GoesCalm DEF Actors
<1>4. RestCalm
  <2>1. CASE WatchdogStop \/ WatchdogStart
    BY <2>1, ArcaneTypes DEF WatchdogStop, WatchdogStart, Quietly, Events, history, probeVars,
       RestCalm, TypeOK
  <2>2. CASE WatchdogMark \/ WatchdogFailed
    BY <2>2 DEF WatchdogMark, WatchdogFailed, Quietly, Events, gameVars, history, probeVars,
       RestCalm, TypeOK
  <2> QED BY <2>1, <2>2
<1> QED BY <1>1, <1>3, <1>4

(***************************************************************************)
(* The steps that are not calm: the two ends of a probe, the claim, and a  *)
(* restart of PZAdmin.                                                     *)
(***************************************************************************)
LEMMA MonitorGoes ==
    ASSUME TypeOK, NEW from, NEW to \in Steps, Goes(Monitor, from, to)
    PROVE  pc' \in [Actors -> Steps] /\ pc[Monitor] = from /\ pc'[Monitor] = to
BY GoesMoves DEF Actors

LEMMA LocalsType == LocalsEnd => res' \in Answers /\ seen' \in ContainerStates /\ prev' \in Copy
BY ZeroType DEF LocalsEnd, Answers, ContainerStates

LEMMA SucceedsIInv == ASSUME IInv, ProbeSucceeds PROVE IInv'
<1> USE DEF IInv
<1>1. /\ st' \in Status /\ st'.Online /\ ~st'.Stopped /\ st'.checked
      /\ st'.RecoveryAttempts = 0
  <2>1. 0 \in 0..Threshold /\ 0 \in 0..AttemptBound
    BY BoundType
  <2>2. st \in Status
    BY DEF TypeOK
  <2>3. st' = [st EXCEPT !.Online = TRUE, !.Stopped = FALSE, !.checked = TRUE,
                         !.ConsecutiveFailures = 0, !.RecoveryAttempts = 0,
                         !.Restarting = FALSE, !.overdue = FALSE]
    BY DEF ProbeSucceeds
  <2> HIDE DEF IInv
  <2> QED BY <2>1, <2>2, <2>3 DEF Status
<1>2. pc' \in [Actors -> Steps] /\ pc'[Monitor] = "p.inspect"
  BY MonitorGoes DEF ProbeSucceeds, Steps
<1>3. hardStops' = 0 /\ reported' = FALSE
  BY DEF ProbeSucceeds
<1>4. event' \in Events
  BY DEF ProbeSucceeds, Events
<1>5. TypeOK'
  <2>1. UNCHANGED <<game, ours>> /\ LocalsEnd
    BY DEF ProbeSucceeds, gameVars
  <2>2. hardStops' \in 0..AttemptBound + 1
    BY <1>3, BoundType
  <2> QED BY <1>1, <1>2, <1>3, <1>4, <2>1, <2>2, LocalsType DEF TypeOK
<1>6. AttemptsCounted' /\ ClaimAllowed' /\ StoppedIsOffline' /\ ReportedIsOffline'
  BY <1>1, <1>2, <1>3 DEF AttemptsCounted, ClaimAllowed, StoppedIsOffline, ReportedIsOffline
<1> QED BY <1>5, <1>6

LEMMA FailsIInv == ASSUME IInv, ProbeFails PROVE IInv'
<1> USE DEF IInv
<1> DEFINE base == IF Stalled THEN ClearRestarting(st) ELSE st
<1>0. base \in Status /\ base.RecoveryAttempts = st.RecoveryAttempts
  BY DEF ClearRestarting, TypeOK, Status
<1>1. /\ st' \in Status /\ ~st'.Online /\ st'.checked
      /\ st'.RecoveryAttempts = st.RecoveryAttempts
  <2>1. Capped(base.ConsecutiveFailures, Threshold) \in 0..Threshold
    BY <1>0, BoundType, CappedStep DEF Status
  <2>2. st' = [base EXCEPT !.Online = FALSE, !.checked = TRUE,
                           !.ConsecutiveFailures = Capped(@, Threshold)]
    BY DEF ProbeFails, AfterFailure
  <2> QED BY <1>0, <2>1, <2>2 DEF Status, TypeOK
<1>2. PICK to \in {"w.claim", "p.logs"} :
        /\ Goes(Monitor, "p.apply", to)
        /\ to = "w.claim" => MayRecover(st')
  BY DEF ProbeFails
<1>3. pc' \in [Actors -> Steps] /\ pc'[Monitor] = to
  BY <1>2, MonitorGoes DEF Steps
<1>4. event' \in Events /\ reported' \in BOOLEAN
  BY DEF ProbeFails, FailureEvent, Events, TypeOK
<1>5. UNCHANGED <<game, ours, hardStops>> /\ LocalsEnd
  BY DEF ProbeFails, gameVars
<1>6. TypeOK'
  BY <1>1, <1>3, <1>4, <1>5, LocalsType DEF TypeOK
<1>7. AttemptsCounted' /\ StoppedIsOffline' /\ ReportedIsOffline'
  BY <1>1, <1>2, <1>3, <1>5 DEF AttemptsCounted, StoppedIsOffline, ReportedIsOffline
<1>8. ClaimAllowed'
  BY <1>2, <1>3 DEF ClaimAllowed, MayRecover
<1> QED BY <1>6, <1>7, <1>8

LEMMA ClaimIInv == ASSUME IInv, WatchdogClaim PROVE IInv'
<1> USE DEF IInv
<1> DEFINE n == Capped(st.RecoveryAttempts, AttemptBound)
<1>0. st.RecoveryAttempts \in 0..AttemptBound /\ AttemptBound \in Nat
  BY BoundType DEF TypeOK, Status
<1>1. n \in 0..AttemptBound
  BY <1>0, CappedStep
<1>2. /\ st' \in Status /\ st'.RecoveryAttempts = n
      /\ st'.Online = st.Online /\ st'.Stopped = st.Stopped /\ st'.checked = st.checked
  BY <1>1 DEF WatchdogClaim, TypeOK, Status
<1>3. /\ pc' \in [Actors -> Steps]
      /\ pc[Monitor] = "w.claim" /\ pc'[Monitor] = "w.mark"
  BY MonitorGoes DEF WatchdogClaim, Steps
<1>4. hardStops' = Capped(hardStops, AttemptBound + 1) /\ hardStops \in 0..AttemptBound + 1
  BY DEF WatchdogClaim, TypeOK
<1>5. hardStops' \in 0..AttemptBound + 1
  BY <1>0, <1>4, CappedStep
<1>6. UNCHANGED <<game, ours, res, seen, prev, reported>> /\ event' \in Events
  BY DEF WatchdogClaim, gameVars, probeVars, Events
<1>7. TypeOK'
  BY <1>2, <1>3, <1>5, <1>6 DEF TypeOK
<1>8. AttemptsCounted'
  <2> SUFFICES ASSUME MaxAttempts # 0 PROVE hardStops' <= st'.RecoveryAttempts
    BY DEF AttemptsCounted
  <2>1. AttemptBound = MaxAttempts /\ MaxAttempts > 0
    BY LifecycleAssumption DEF AttemptBound
  <2>2. n = st.RecoveryAttempts + 1
    BY <1>0, <1>3, <2>1 DEF ClaimAllowed, Capped
  <2>3. hardStops <= st.RecoveryAttempts
    BY <2>1 DEF AttemptsCounted
  <2> QED BY <1>0, <1>2, <1>4, <2>2, <2>3 DEF Capped
<1>9. ClaimAllowed' /\ StoppedIsOffline' /\ ReportedIsOffline'
  BY <1>2, <1>3, <1>6 DEF ClaimAllowed, StoppedIsOffline, ReportedIsOffline
<1> QED BY <1>7, <1>8, <1>9

LEMMA PZAdminRestartIInv == ASSUME IInv, PZAdminRestart PROVE IInv'
<1>1. st' = ZeroStatus /\ hardStops' = 0 /\ reported' = FALSE /\ event' = "none"
  BY DEF PZAdminRestart, Quietly
<1>2. pc' \in [Actors -> Steps] /\ pc'[Monitor] = "idle"
  BY DEF PZAdminRestart, Steps, Actors
<1>3. TypeOK'
  <2>1. UNCHANGED <<game, ours>> /\ LocalsEnd
    BY DEF PZAdminRestart, gameVars
  <2>2. hardStops' \in 0..AttemptBound + 1
    BY <1>1, BoundType
  <2>3. event' \in Events
    BY <1>1 DEF Events
  <2> QED BY <1>1, <1>2, <2>1, <2>2, <2>3, ZeroType, LocalsType DEF IInv, TypeOK
<1>4. ~ZeroStatus.Stopped /\ ZeroStatus.RecoveryAttempts = 0
  BY DEF ZeroStatus
<1>5. AttemptsCounted' /\ ClaimAllowed' /\ StoppedIsOffline' /\ ReportedIsOffline'
  BY <1>1, <1>2, <1>4 DEF AttemptsCounted, ClaimAllowed, StoppedIsOffline, ReportedIsOffline
<1> QED BY <1>3, <1>5 DEF IInv

-----------------------------------------------------------------------------
LEMMA NextIInv == IInv /\ [Next]_vars => IInv'
<1> SUFFICES ASSUME IInv, [Next]_vars PROVE IInv'
  OBVIOUS
<1> USE DEF IInv
<1>1. CASE Environment \/ TimePasses
  BY <1>1, EnvironmentCalm, CalmKeepsIInv
<1>2. CASE MonitorStep
  <2>1. CASE Restart(Monitor)
    BY <2>1, RestartCalm, CalmKeepsIInv DEF Actors
  <2>2. CASE CalmProbe
    BY <2>2, ProbeCalm, CalmKeepsIInv
  <2>3. CASE PollLogs \/ CheckPending \/ FirePending
    BY <2>3, LogsCalm, CalmKeepsIInv
  <2>4. CASE WatchdogMark \/ WatchdogStop \/ WatchdogStart \/ WatchdogFailed
    BY <2>4, WatchdogCalm, CalmKeepsIInv
  <2>5. CASE ProbeSucceeds
    BY <2>5, SucceedsIInv
  <2>6. CASE ProbeFails
    BY <2>6, FailsIInv
  <2>7. CASE WatchdogClaim
    BY <2>7, ClaimIInv
  <2> QED BY <1>2, <2>1, <2>2, <2>3, <2>4, <2>5, <2>6, <2>7 DEF MonitorStep, Probe, Watchdog, CalmProbe
<1>3. CASE PZAdminRestart
  BY <1>3, PZAdminRestartIInv
<1>4. ASSUME NEW o \in Ops, Request(o) \/ Handler(o) PROVE IInv'
  <2>1. CASE Request(o)
    BY <2>1, RequestCalm, CalmKeepsIInv
  <2>2. CASE Restart(o)
    BY <2>2, RestartCalm, CalmKeepsIInv DEF Actors
  <2>3. CASE StopSave(o) \/ StopPause(o) \/ StopMark(o) \/ StopStop(o) \/ StopClear(o) \/ StopFlag(o)
    BY <2>3, StopCalm, CalmKeepsIInv
  <2>4. CASE StartMark(o) \/ StartFlag(o) \/ StartStart(o)
    BY <2>4, StartCalm, CalmKeepsIInv
  <2> QED BY <1>4, <2>1, <2>2, <2>3, <2>4 DEF Handler
<1>5. CASE UNCHANGED vars
  <2>1. StatusCalm /\ ControlCalm /\ RestCalm
    BY <1>5, UpdatesCalm, StayCalm DEF vars, RestCalm, TypeOK
  <2> QED BY <2>1, CalmKeepsIInv
<1> QED BY <1>1, <1>2, <1>3, <1>4, <1>5 DEF Next

THEOREM InductiveInvariant == Spec => []IInv
BY InitIInv, NextIInv, PTL DEF Spec

\* Every variable keeps its type.
THEOREM TypeCorrect == Spec => []TypeOK
<1>1. IInv => TypeOK
  BY DEF IInv
<1> QED BY <1>1, InductiveInvariant, PTL

\* A server stopped by PZAdmin is never shown as online.
THEOREM StoppedServerIsOffline == Spec => []StoppedIsOffline
<1>1. IInv => StoppedIsOffline
  BY DEF IInv
<1> QED BY <1>1, InductiveInvariant, PTL

\* The watchdog restarts a container at most MaxAttempts times in one outage.
THEOREM WatchdogIsBounded == Spec => []HardStopsBounded
<1>1. IInv => HardStopsBounded
  BY LifecycleAssumption DEF IInv, TypeOK, Status, AttemptBound, AttemptsCounted, HardStopsBounded
<1> QED BY <1>1, InductiveInvariant, PTL

\* One outage is reported as "went offline" at most once.
THEOREM OutageReportedOnce == Spec => OneReportPerOutage
<1>1. IInv /\ [Next]_vars => [event' = "server.down" => ~reported]_vars
  <2> SUFFICES ASSUME IInv, Next, event' = "server.down" PROVE ~reported
    OBVIOUS
  <2>1. ProbeFails
    BY DEF Next, Environment, Revive, LoadDone, Crash, Freeze, ToolStop, ToolStart,
       TimePasses, WindowPasses, CooldownPasses, HalfHourPasses, CountdownEnds, Ages,
       MonitorStep, Probe, ProbeBegin, ProbeExec, ProbeRead, ProbeState, ProbeSucceeds,
       ProbeInspect, ProbeStore, ProbeKeep, KeepState, AskArcane, Watchdog, WatchdogClaim, WatchdogMark,
       WatchdogStop, WatchdogStart, WatchdogFailed, PollLogs, CheckPending, FirePending,
       PZAdminRestart, Request, Handler, Restart, RestartMark, RestartSave, RestartWait,
       RestartQuit, RestartAccepted, Failed, StopSave, StopPause, StopMark, StopStop,
       StopClear, StopFlag, StartMark, StartFlag, StartStart, Quietly
  <2>2. pc[Monitor] = "p.apply"
    BY <2>1 DEF ProbeFails, Goes
  <2>3. prev.Online
    BY <2>1 DEF ProbeFails, FailureEvent
  <2> QED BY <2>2, <2>3 DEF IInv, ReportedIsOffline
<1> QED BY <1>1, InductiveInvariant, PTL DEF Spec, OneReportPerOutage

\* The probe that ends a reported outage says that the server is back.
THEOREM ReportedOutageGetsClosed == Spec => ReportedOutageIsClosed
<1>1. IInv /\ [Next]_vars => [reported /\ ~reported' /\ st'.checked => event' = "server.up"]_vars
  <2> SUFFICES ASSUME IInv, Next, reported, ~reported', st'.checked PROVE event' = "server.up"
    OBVIOUS
  <2>1. ~PZAdminRestart
    <3>1. PZAdminRestart => st' = ZeroStatus
      BY DEF PZAdminRestart
    <3>2. ~ZeroStatus.checked
      BY DEF ZeroStatus
    <3> QED BY <3>1, <3>2
  <2>2. ~ProbeFails
    <3> SUFFICES ASSUME ProbeFails PROVE FALSE
      OBVIOUS
    <3>1. reported' = (reported \/ event' # "none")
      BY DEF ProbeFails
    <3> QED BY <3>1
  <2>3. ProbeSucceeds
    BY <2>1, <2>2 DEF Next, Environment, Revive, LoadDone, Crash, Freeze, ToolStop, ToolStart,
       TimePasses, WindowPasses, CooldownPasses, HalfHourPasses, CountdownEnds, Ages,
       MonitorStep, Probe, ProbeBegin, ProbeExec, ProbeRead, ProbeState,
       ProbeInspect, ProbeStore, ProbeKeep, KeepState, AskArcane, Watchdog, WatchdogClaim, WatchdogMark,
       WatchdogStop, WatchdogStart, WatchdogFailed, PollLogs, CheckPending, FirePending,
       Request, Handler, Restart, RestartMark, RestartSave, RestartWait,
       RestartQuit, RestartAccepted, Failed, StopSave, StopPause, StopMark, StopStop,
       StopClear, StopFlag, StartMark, StartFlag, StartStart, history
  <2>4. ~prev.Online /\ prev.checked
    BY <2>3 DEF IInv, ReportedIsOffline, ProbeSucceeds, Goes
  <2> QED BY <2>3, <2>4 DEF ProbeSucceeds
<1> QED BY <1>1, InductiveInvariant, PTL DEF Spec, ReportedOutageIsClosed
=============================================================================
