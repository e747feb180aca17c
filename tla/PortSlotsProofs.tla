-------------------------- MODULE PortSlotsProofs --------------------------
(***************************************************************************)
(* Proofs about PortSlots: for any number of servers and slots, and        *)
(* whatever disturbs them, slot starts under way keep to different slots,  *)
(* and whatever holds ports is known to the book that gives slots out.     *)
(***************************************************************************)
EXTENDS PortSlots, TLAPS

USE SlotsAssumption DEF Slots

LEMMA TypeInitially == Init => TypeOK
<1> SUFFICES ASSUME Init PROVE TypeOK
  OBVIOUS
<1>1. Resting \in Monitors /\ ZeroStatus \in Status
  BY DEF Resting, Monitors, ZeroStatus, Status
<1>2. box \in [Servers -> Box]
  BY DEF Init, Box, Books
<1>3. job \in [Servers -> [Kinds -> JobSteps]]
  BY DEF Init, JobSteps
<1> QED
  BY <1>1, <1>2, <1>3 DEF Init, TypeOK, Picks, Free, Books, NoScan, Unread

\* What pick is made of, by where startInSlot is.
Reading == [at : {"read"}, who : Servers, todo : SUBSET Servers, busy : SUBSET Slots,
            conf : Books]
Claims == [at : {"claim"}, who : Servers]

LEMMA PickShape ==
    ASSUME TypeOK
    PROVE  /\ pick.at = "read" => pick \in Reading
           /\ pick.at = "claim" => pick \in Claims
BY DEF TypeOK, Picks, Free, Reading, Claims

\* Whatever a scan reads and files is a slot for every server.
LEMMA ScansAreBooks ==
    ASSUME TypeOK, NEW files \in Books
    PROVE  /\ Scanned(files) \subseteq Books
           /\ Filed(files) \subseteq Books
<1>1. Unread \in Books /\ conf \in Books
  BY DEF TypeOK, Unread, Books
<1> QED
  BY <1>1 DEF Scanned, Filed

\* A step that casts a doubt on a server casts it on no other, and takes none away.
LEMMA DoubtsGrow ==
    ASSUME NEW s \in Servers, NEW condition \in BOOLEAN, NEW cause,
           Doubts(s, condition, cause)
    PROVE  /\ doubted \subseteq doubted' /\ doubted' \subseteq doubted \cup {s}
           /\ condition => s \in doubted'
BY DEF Doubts

LEMMA MonitorType ==
    ASSUME mon \in [Servers -> Monitors], NEW s \in Servers,
           NEW to \in {"idle", "ok", "after", "w.stop", "w.start"},
           mon' = [mon EXCEPT ![s].at = to]
    PROVE  mon' \in [Servers -> Monitors]
<1>1. mon[s] \in Monitors
  OBVIOUS
<1>2. [mon[s] EXCEPT !.at = to] \in Monitors
  BY <1>1 DEF Monitors
<1> QED
  BY <1>2

LEMMA TypeStep == TypeOK /\ [Next]_vars => TypeOK'
<1> SUFFICES ASSUME TypeOK, [Next]_vars PROVE TypeOK'
  OBVIOUS
<1> USE DEF TypeOK
<1>1. ASSUME UNCHANGED vars PROVE TypeOK'
  BY <1>1 DEF vars
<1>2. ASSUME Pick PROVE TypeOK'
  <2>1. pick.who \in Servers
    BY <1>2, PickShape DEF Pick, Reading
  <2>2. loose' \in SUBSET Servers /\ doubted' \in SUBSET Servers
    BY <1>2, <2>1 DEF Pick, Misfiled
  <2>3. env' \in Books
    <3>1. PICK n \in Slots : env' = [env EXCEPT ![pick.who] = n]
      BY <1>2, Zenon DEF Pick
    <3>2. n \in 0..Count
      OBVIOUS
    <3> QED
      BY <3>1, <3>2 DEF Books
  <2>4. pick' \in Picks
    BY <1>2, <2>1 DEF Pick, Picks
  <2>5. conf' \in Books
    <3>1. ASSUME NEW seen \in Scanned(env'), conf' \in Filed(seen) PROVE conf' \in Books
      BY <2>3, <3>1, ScansAreBooks
    <3>2. conf' = conf \/ \E seen \in Scanned(env') : conf' \in Filed(seen)
      BY <1>2 DEF Pick
    <3> QED
      BY <3>1, <3>2
  <2> QED
    BY <1>2, <2>2, <2>3, <2>4, <2>5 DEF Pick
<1>3. ASSUME Refuse PROVE TypeOK'
  BY <1>3 DEF Refuse, Picks
<1>4. ASSUME Claim PROVE TypeOK'
  <2>1. pick.who \in Servers
    BY <1>4, PickShape DEF Claim, Claims
  <2>4. doubted' \in SUBSET Servers
    BY <1>4, <2>1 DEF Claim
  <2>2. st' \in [Servers -> Status]
    BY <1>4, <2>1, ZenonT(60) DEF Claim, Update, Status
  <2>3. job' \in [Servers -> [Kinds -> JobSteps]]
    BY <1>4, <2>1 DEF Claim, Kinds, JobSteps
  <2> QED
    BY <1>4, <2>2, <2>3, <2>4 DEF Claim, Picks
<1>5. ASSUME PZAdminRestart PROVE TypeOK'
  <2>1. Resting \in Monitors /\ ZeroStatus \in Status
    BY DEF Resting, Monitors, ZeroStatus, Status
  <2>2. conf' \in Books /\ scan' \in [on : BOOLEAN, seen : Books]
    <3>1. conf' \in Books
      BY <1>5, ScansAreBooks DEF PZAdminRestart
    <3>2. Unread \in Books
      BY DEF Unread, Books
    <3> QED
      BY <1>5, <3>1, <3>2 DEF PZAdminRestart, NoScan
  <2>4. loose' \in SUBSET Servers /\ doubted' \in SUBSET Servers
    BY <1>5 DEF PZAdminRestart, Misfiled
  <2>3. job' \in [Servers -> [Kinds -> JobSteps]]
    BY <1>5 DEF PZAdminRestart, JobSteps
  <2> QED
    BY <1>5, <2>1, <2>2, <2>3, <2>4 DEF PZAdminRestart, Picks
<1>6. ASSUME NEW s \in Servers, StartInSlot(s) \/ DeployCheck(s) \/ DeploySet(s)
      PROVE  TypeOK'
  <2>1. CASE StartBegins(s)
    BY <2>1 DEF StartBegins, Picks
  <2>2. CASE ReadHolder(s)
    <3>1. pick \in Reading
      BY <2>2, PickShape DEF ReadHolder
    <3>2. pick.conf[s] # 0 => pick.conf[s] \in Slots
      BY <3>1 DEF Reading, Books
    <3>3. pick' \in Reading
      BY <2>2, <3>1, <3>2 DEF ReadHolder, Reading
    <3> QED
      BY <2>2, <3>3 DEF ReadHolder, Picks, Reading
  <2>3. CASE DeployCheck(s)
    BY <2>3 DEF DeployCheck, Kinds, JobSteps
  <2>4. CASE DeploySet(s)
    <3>1. loose' \in SUBSET Servers /\ doubted' \in SUBSET Servers
      BY <2>4 DEF DeploySet
    <3>2. st' \in [Servers -> Status]
      BY <2>4, ZenonT(60) DEF DeploySet, Update, Status
    <3>3. job' \in [Servers -> [Kinds -> JobSteps]]
      BY <2>4 DEF DeploySet, Kinds, JobSteps
    <3> QED
      BY <2>4, <3>1, <3>2, <3>3 DEF DeploySet
  <2> QED
    BY <1>6, <2>1, <2>2, <2>3, <2>4 DEF StartInSlot
<1>7. ASSUME NEW s \in Servers, NEW k \in Kinds, Job(s, k) PROVE TypeOK'
  <2>1. CASE JobFinds(s, k)
    <3>1. st' \in [Servers -> Status]
      BY <2>1, ZenonT(60) DEF JobFinds, Update, Status
    <3>2. job' \in [Servers -> [Kinds -> JobSteps]]
      BY <2>1 DEF JobFinds, JobSteps
    <3> QED
      BY <2>1, <3>1, <3>2 DEF JobFinds
  <2>2. CASE JobDeploys(s, k)
    <3>1. box' \in [Servers -> Box]
      BY <2>2 DEF JobDeploys, Recreated, Box, Books
    <3>2. job' \in [Servers -> [Kinds -> JobSteps]]
      BY <2>2 DEF JobDeploys, JobSteps
    <3> QED
      BY <2>2, <3>1, <3>2 DEF JobDeploys
  <2>3. CASE JobEnds(s, k)
    <3>1. st' \in [Servers -> Status]
      BY <2>3, ZenonT(60) DEF JobEnds, Update, Status
    <3>2. job' \in [Servers -> [Kinds -> JobSteps]]
      BY <2>3 DEF JobEnds, JobSteps
    <3> QED
      BY <2>3, <3>1, <3>2 DEF JobEnds
  <2>4. CASE JobFails(s, k)
    <3>1. st' \in [Servers -> Status]
      BY <2>4, ZenonT(60) DEF JobFails, Update, Status
    <3>2. job' \in [Servers -> [Kinds -> JobSteps]]
      BY <2>4 DEF JobFails, JobSteps
    <3>3. doubted' \in SUBSET Servers
      BY <2>4 DEF JobFails, Doubts
    <3> QED
      BY <2>4, <3>1, <3>2, <3>3 DEF JobFails
  <2> QED
    BY <1>7, <2>1, <2>2, <2>3, <2>4 DEF Job
<1>8. ASSUME NEW s \in Servers, Stop(s) PROVE TypeOK'
  <2>1. st[s] \in Status
    OBVIOUS
  <2>2. CASE StopBegins(s)
    <3>1. doubted' \in SUBSET Servers
      BY <2>2 DEF StopBegins, Doubts
    <3>2. st' \in [Servers -> Status]
      BY <2>1, <2>2 DEF StopBegins, Update, Status
    <3> QED
      BY <2>2, <3>1, <3>2 DEF StopBegins
  <2>3. CASE StopStops(s)
    <3>1. box' \in [Servers -> Box]
      BY <2>3 DEF StopStops, Box
    <3> QED
      BY <2>3, <3>1 DEF StopStops
  <2>4. CASE StopFlags(s)
    <3>1. [st[s] EXCEPT !.Stopped = TRUE, !.Online = FALSE, !.Restarting = FALSE,
                        !.ContainerState = "exited"] \in Status
      BY <2>1 DEF Status
    <3>2. st' \in [Servers -> Status]
      BY <2>4, <3>1 DEF StopFlags, Update
    <3> QED
      BY <2>4, <3>2 DEF StopFlags
  <2>5. CASE StopFails(s)
    <3>1. doubted' \in SUBSET Servers
      BY <2>5 DEF StopFails, Doubts
    <3>2. st' \in [Servers -> Status]
      BY <2>1, <2>5 DEF StopFails, Update, Status
    <3> QED
      BY <2>5, <3>1, <3>2 DEF StopFails
  <2> QED
    BY <1>8, <2>2, <2>3, <2>4, <2>5 DEF Stop
<1>9. ASSUME NEW s \in Servers, Monitor(s) PROVE TypeOK'
  <2>1. CASE ProbeAnswers(s)
    <3>1. mon' \in [Servers -> Monitors]
      BY <2>1, MonitorType DEF ProbeAnswers, MonitorGoes
    <3> QED
      BY <2>1, <3>1 DEF ProbeAnswers
  <2>2. CASE ProbeSucceeds(s)
    <3>1. mon' \in [Servers -> Monitors]
      BY <2>2, MonitorType DEF ProbeSucceeds, MonitorGoes
    <3>2. st' \in [Servers -> Status]
      BY <2>2, ZenonT(60) DEF ProbeSucceeds, Update, Status
    <3>3. doubted' \in SUBSET Servers
      BY <2>2 DEF ProbeSucceeds
    <3> QED
      BY <2>2, <3>1, <3>2, <3>3 DEF ProbeSucceeds
  <2>3. CASE ProbeFails(s)
    <3>1. mon' \in [Servers -> Monitors]
      <4>1. PICK stalled \in {FALSE, st[s].Restarting /\ stop[s] = "idle"} :
              mon' = [mon EXCEPT ![s] = [Resting EXCEPT !.at = "failed",
                                                        !.stalled = stalled]]
        BY <2>3 DEF ProbeFails
      <4>2. stalled \in BOOLEAN
        BY <4>1
      <4>3. [Resting EXCEPT !.at = "failed", !.stalled = stalled] \in Monitors
        BY <4>2 DEF Resting, Monitors
      <4> QED
        BY <4>1, <4>3
    <3>2. doubted' \in SUBSET Servers
      <4>1. doubted' \subseteq doubted \cup {s}
        BY <2>3, Zenon DEF ProbeFails, Doubts
      <4> QED
        BY <4>1
    <3> QED
      BY <2>3, <3>1, <3>2 DEF ProbeFails
  <2>4. CASE AskArcane(s)
    <3>1. mon' \in [Servers -> Monitors]
      <4>1. PICK seen \in {"exited", "running", "unavailable"} :
              mon' = [mon EXCEPT ![s].seen = seen,
                                 ![s].at = IF @ = "after" THEN "store" ELSE "keep"]
        BY <2>4 DEF AskArcane
      <4>2. mon[s] \in Monitors
        OBVIOUS
      <4>3. [[mon[s] EXCEPT !.seen = seen]
               EXCEPT !.at = IF @ = "after" THEN "store" ELSE "keep"] \in Monitors
        BY <4>1, <4>2 DEF Monitors
      <4> QED
        BY <4>1, <4>3
    <3> QED
      BY <2>4, <3>1 DEF AskArcane
  <2>5. CASE StoreState(s)
    <3>1. mon' \in [Servers -> Monitors]
      <4>1. mon[s] \in Monitors
        OBVIOUS
      <4>2. [mon[s] EXCEPT !.at = "apply", !.seen = ""] \in Monitors /\ Resting \in Monitors
        BY <4>1 DEF Monitors, Resting
      <4> QED
        BY <2>5, <4>2 DEF StoreState
    <3>2. st' \in [Servers -> Status]
      <4>1. mon[s].seen \in {"", "running", "exited", "unavailable"} /\ st[s] \in Status
        BY DEF Monitors
      <4>2. [st[s] EXCEPT !.ContainerState = mon[s].seen] \in Status
        BY <4>1 DEF Status
      <4> QED
        BY <2>5, <4>2 DEF StoreState, Update
    <3> QED
      BY <2>5, <3>1, <3>2 DEF StoreState
  <2>6. CASE ApplyFailure(s)
    <3>1. mon' \in [Servers -> Monitors]
      <4>1. Resting \in Monitors /\ [Resting EXCEPT !.at = "w.mark"] \in Monitors
        BY DEF Monitors, Resting
      <4> QED
        BY <2>6, <4>1 DEF ApplyFailure
    <3>2. st' \in [Servers -> Status]
      <4>1. st[s] \in Status
        OBVIOUS
      <4>2. [st[s] EXCEPT !.Online = FALSE,
                          !.Restarting = @ /\ ~mon[s].stalled] \in Status
        BY <4>1 DEF Status
      <4> QED
        BY <2>6, <4>2 DEF ApplyFailure, Update
    <3> QED
      BY <2>6, <3>1, <3>2 DEF ApplyFailure
  <2>7. CASE WatchdogMarks(s)
    <3>1. mon' \in [Servers -> Monitors]
      BY <2>7, MonitorType DEF WatchdogMarks, MonitorGoes
    <3>2. st' \in [Servers -> Status]
      BY <2>7 DEF WatchdogMarks, Update, Status
    <3>3. doubted' \in SUBSET Servers
      BY <2>7 DEF WatchdogMarks, Doubts
    <3> QED
      BY <2>7, <3>1, <3>2, <3>3 DEF WatchdogMarks
  <2>8. CASE WatchdogStops(s)
    <3>1. mon' \in [Servers -> Monitors]
      BY <2>8, MonitorType DEF WatchdogStops, MonitorGoes
    <3>2. box' \in [Servers -> Box]
      BY <2>8 DEF WatchdogStops, Recreated, Started, Box
    <3> QED
      BY <2>8, <3>1, <3>2 DEF WatchdogStops
  <2>9. CASE WatchdogStarts(s)
    <3>1. mon' \in [Servers -> Monitors]
      BY <2>9, MonitorType DEF WatchdogStarts, MonitorGoes
    <3>2. box' \in [Servers -> Box]
      BY <2>9 DEF WatchdogStarts, Recreated, Started, Box
    <3> QED
      BY <2>9, <3>1, <3>2 DEF WatchdogStarts
  <2>10. CASE WatchdogFails(s)
    <3>1. mon' \in [Servers -> Monitors]
      BY <2>10, MonitorType DEF WatchdogFails
    <3>2. st' \in [Servers -> Status]
      BY <2>10, ZenonT(60) DEF WatchdogFails, Update, Status
    <3> QED
      BY <2>10, <3>1, <3>2 DEF WatchdogFails
  <2> QED
    BY <1>9, <2>1, <2>2, <2>3, <2>4, <2>5, <2>6, <2>7, <2>8, <2>9, <2>10 DEF Monitor
<1>10. ASSUME NEW s \in Servers, ArcaneStart(s) PROVE TypeOK'
  <2>1. box' \in [Servers -> Box]
    <3>1. CASE Started(s)
      BY <3>1 DEF Started, Box
    <3>2. CASE box' = [box EXCEPT ![s] = Recreated(s)]
      BY <3>2 DEF Recreated, Box, Books
    <3> QED
      BY <1>10, <3>1, <3>2 DEF ArcaneStart
  <2> QED
    BY <1>10, <2>1 DEF ArcaneStart
<1>11. ASSUME ScanReads PROVE TypeOK'
  <2>1. scan' \in [on : BOOLEAN, seen : Books]
    <3>1. PICK seen \in Scanned(env) : scan' = [on |-> TRUE, seen |-> seen]
      BY <1>11 DEF ScanReads
    <3>2. seen \in Books
      BY <3>1, ScansAreBooks
    <3> QED
      BY <3>1, <3>2
  <2> QED
    BY <1>11, <2>1 DEF ScanReads
<1>12. ASSUME ScanFolds PROVE TypeOK'
  <2>1. conf' \in Books
    BY <1>12, ScansAreBooks DEF ScanFolds
  <2>2. scan' \in [on : BOOLEAN, seen : Books]
    <3>1. Unread \in Books
      BY DEF Unread, Books
    <3> QED
      BY <1>12, <3>1 DEF ScanFolds, NoScan
  <2>3. loose' \in SUBSET Servers
    BY <1>12 DEF ScanFolds, Misfiled
  <2> QED
    BY <1>12, <2>1, <2>2, <2>3 DEF ScanFolds
<1> QED
  BY <1>1, <1>2, <1>3, <1>4, <1>5, <1>6, <1>7, <1>8, <1>9, <1>10, <1>11, <1>12 DEF Next

-----------------------------------------------------------------------------
(* ClaimsApart.                                                            *)

LEMMA ApartInitially == Init => Apart
<1> SUFFICES ASSUME Init PROVE Apart
  OBVIOUS
<1>1. \A s \in Servers : ~Starting(s) /\ ~Stacking(s) /\ ~Claiming(s)
  BY DEF Init, Starting, Stacking, Claiming, Free, Kinds
<1>2. pick.at # "read" /\ conf = env
  BY DEF Init, Free
<1> QED
  BY <1>1, <1>2 DEF Apart, ClaimsApart, DeployingCovers, FiledRight, ReadIsGood,
     ClaimIsGood, ClaimIsFiled

\* Steps that leave .env, the jobs, pick and Deploying alone disturb nothing, as
\* long as the configuration stays right about those that are not loose.
LEMMA ElsewhereStep ==
    ASSUME Apart, UNCHANGED <<env, job, pick>>, loose \subseteq loose',
           \A s \in Servers \ loose' : conf'[s] = env[s],
           \A s \in Servers : st'[s].Deploying = st[s].Deploying
    PROVE  Apart'
<1>1. \A s \in Servers : /\ Starting(s)' <=> Starting(s)
                         /\ Stacking(s)' <=> Stacking(s)
                         /\ Claiming(s)' <=> Claiming(s)
  BY DEF Starting, Stacking, Claiming
<1>2. ClaimsApart' /\ DeployingCovers' /\ FiledRight'
  BY <1>1 DEF Apart, ClaimsApart, DeployingCovers, FiledRight
<1>3. ReadIsGood' /\ ClaimIsGood' /\ ClaimIsFiled'
  BY <1>1 DEF Apart, ReadIsGood, ClaimIsGood, ClaimIsFiled
<1> QED
  BY <1>2, <1>3 DEF Apart

LEMMA StatusStep ==
    ASSUME TypeOK, NEW s \in Servers, NEW new,
           Update(s, new), new.Deploying = st[s].Deploying
    PROVE  \A t \in Servers : st'[t].Deploying = st[t].Deploying
BY DEF TypeOK, Update

LEMMA MonitorStep ==
    ASSUME TypeOK, Apart, NEW s \in Servers, Monitor(s) \/ Stop(s) \/ ArcaneStart(s)
    PROVE  Apart'
<1>1. \A t \in Servers \ loose : conf[t] = env[t]
  BY DEF Apart, FiledRight
<1>2. st[s] \in Status
  BY DEF TypeOK
<1>3. \A t \in Servers : st'[t].Deploying = st[t].Deploying
  <2>1. CASE UNCHANGED st
    BY <2>1
  <2>2. CASE StopBegins(s) \/ StopFlags(s) \/ StopFails(s)
    BY <1>2, <2>2, StatusStep DEF StopBegins, StopFlags, StopFails, Status
  <2>3. CASE ProbeSucceeds(s) \/ StoreState(s) \/ ApplyFailure(s)
             \/ WatchdogMarks(s) \/ WatchdogFails(s)
    BY <1>2, <2>3, StatusStep DEF ProbeSucceeds, StoreState, ApplyFailure,
       WatchdogMarks, WatchdogFails, Status
  <2> QED
    BY <2>1, <2>2, <2>3 DEF Monitor, Stop, StopStops, ProbeAnswers, ProbeFails,
       AskArcane, WatchdogStops, WatchdogStarts, ArcaneStart
<1>4. UNCHANGED <<env, conf, job, pick, loose>>
  BY DEF Monitor, Stop, ArcaneStart, StopBegins, StopStops, StopFlags, StopFails,
     ProbeAnswers, ProbeSucceeds, ProbeFails, AskArcane, StoreState, ApplyFailure,
     WatchdogMarks, WatchdogStops, WatchdogStarts, WatchdogFails
<1> QED
  BY <1>1, <1>3, <1>4, ElsewhereStep

LEMMA ScanStep ==
    ASSUME TypeOK, Apart, ScanReads \/ ScanFolds
    PROVE  Apart'
<1>1. CASE ScanReads
  <2>1. \A t \in Servers \ loose : conf[t] = env[t]
    BY DEF Apart, FiledRight
  <2> QED
    BY <1>1, <2>1, ElsewhereStep DEF ScanReads
<1>2. CASE ScanFolds
  <2>1. loose \subseteq loose' /\ \A t \in Servers \ loose' : conf'[t] = env[t]
    BY <1>2 DEF ScanFolds, Misfiled
  <2>2. UNCHANGED <<env, job, pick, st>>
    BY <1>2 DEF ScanFolds
  <2> QED
    BY <2>1, <2>2, ElsewhereStep
<1> QED
  BY <1>1, <1>2

\* The deploys: the first to end clears Deploying, which must be the only one.
LEMMA JobStep ==
    ASSUME TypeOK, Apart, NEW s \in Servers, NEW k \in Kinds, Job(s, k)
    PROVE  Apart'
<1>1. /\ ClaimsApart /\ DeployingCovers /\ FiledRight
      /\ ReadIsGood /\ ClaimIsGood /\ ClaimIsFiled
  BY DEF Apart
<1>2. UNCHANGED <<env, conf, pick, loose>>
  BY DEF Job, JobFinds, JobDeploys, JobEnds, JobFails
<1>3. PICK to \in JobSteps : job' = [job EXCEPT ![s][k] = to]
  BY Zenon DEF Job, JobFinds, JobDeploys, JobEnds, JobFails, JobSteps
<1>4. job[s][k] \in {"find", "deploy", "deployed"}
  BY DEF Job, JobFinds, JobDeploys, JobEnds, JobFails
<1>5. k = "start" \/ k = "stack"
  BY DEF Kinds
<1>6. \A t \in Servers : (Starting(t)' => Starting(t)) /\ (Stacking(t)' => Stacking(t))
  BY <1>3, <1>4, <1>5 DEF TypeOK, Starting, Stacking, Kinds
<1>7. \A t \in Servers : Claiming(t)' <=> Claiming(t)
  BY <1>2 DEF Claiming
<1>8. \A t \in Servers : t # s => st'[t] = st[t]
  BY DEF TypeOK, Job, JobFinds, JobDeploys, JobEnds, JobFails, Update
<1>9. s \notin loose /\ (Starting(s)' \/ Stacking(s)') => st'[s].Deploying = st[s].Deploying
  <2>1. st[s] \in Status
    BY DEF TypeOK
  <2>2. CASE JobFinds(s, k) \/ JobDeploys(s, k)
    <3>1. [st[s] EXCEPT !.Restarting = TRUE].Deploying = st[s].Deploying
      BY <2>1 DEF Status
    <3>2. st' = st \/ st' = [st EXCEPT ![s] = [st[s] EXCEPT !.Restarting = TRUE]]
      BY <2>2 DEF JobFinds, JobDeploys, Update
    <3> QED
      BY <3>1, <3>2 DEF TypeOK
  <2>3. CASE JobEnds(s, k) \/ JobFails(s, k)
    <3>1. job' = [job EXCEPT ![s][k] = "none"]
      BY <2>3 DEF JobEnds, JobFails
    <3>2. CASE k = "start"
      BY <1>1, <1>4, <3>1, <3>2 DEF TypeOK, DeployingCovers, Starting, Stacking, Kinds
    <3>3. CASE k = "stack"
      BY <1>1, <1>4, <3>1, <3>3 DEF TypeOK, DeployingCovers, Starting, Stacking, Kinds
    <3> QED
      BY <1>5, <3>2, <3>3
  <2> QED
    BY <2>2, <2>3 DEF Job
<1>10. ClaimsApart' /\ FiledRight'
  BY <1>1, <1>2, <1>6 DEF ClaimsApart, FiledRight
<1>11. DeployingCovers'
  BY <1>1, <1>2, <1>6, <1>7, <1>8, <1>9 DEF DeployingCovers
<1>12. ReadIsGood' /\ ClaimIsGood' /\ ClaimIsFiled'
  BY <1>1, <1>2, <1>6, <1>7 DEF ReadIsGood, ClaimIsGood, ClaimIsFiled
<1> QED
  BY <1>10, <1>11, <1>12 DEF Apart

\* The Deploy button: pressed in the middle of a slot start it makes the server loose.
LEMMA DeployButtonStep ==
    ASSUME TypeOK, Apart, NEW s \in Servers, DeployCheck(s) \/ DeploySet(s)
    PROVE  Apart'
<1>1. /\ ClaimsApart /\ DeployingCovers /\ FiledRight
      /\ ReadIsGood /\ ClaimIsGood /\ ClaimIsFiled
  BY DEF Apart
<1>2. UNCHANGED <<env, conf, pick>> /\ loose \subseteq loose'
  BY DEF DeployCheck, DeploySet
<1>3. \A t \in Servers : Starting(t)' <=> Starting(t)
  <2>1. PICK to \in JobSteps : job' = [job EXCEPT ![s].stack = to]
    BY Zenon DEF DeployCheck, DeploySet, JobSteps
  <2>2. \A t \in Servers : job'[t].start = job[t].start
    BY <2>1 DEF TypeOK, Kinds
  <2> QED
    BY <2>2 DEF Starting
<1>4. \A t \in Servers : Claiming(t)' <=> Claiming(t)
  BY <1>2 DEF Claiming
<1>5. \A t \in Servers : t # s => (Stacking(t)' <=> Stacking(t)) /\ st'[t] = st[t]
  BY DEF TypeOK, DeployCheck, DeploySet, Stacking, Update
<1>6. ClaimsApart' /\ FiledRight' /\ ReadIsGood' /\ ClaimIsGood' /\ ClaimIsFiled'
  BY <1>1, <1>2, <1>3, <1>4 DEF ClaimsApart, FiledRight, ReadIsGood, ClaimIsGood, ClaimIsFiled
<1>7. CASE DeployCheck(s)
  <2>1. st' = st /\ ~Stacking(s)'
    BY <1>7 DEF TypeOK, DeployCheck, Stacking, Kinds
  <2>2. DeployingCovers'
    BY <1>1, <1>2, <1>3, <1>4, <1>5, <2>1 DEF DeployingCovers
  <2> QED
    BY <1>6, <2>2 DEF Apart
<1>8. CASE DeploySet(s)
  <2>1. s \notin loose' => ~Starting(s) /\ ~Claiming(s)
    BY <1>8 DEF DeploySet
  <2>2. st'[s].Deploying
    <3>1. st[s] \in Status
      BY DEF TypeOK
    <3>2. st'[s] = [st[s] EXCEPT !.Deploying = TRUE, !.Stopped = FALSE]
      BY <1>8 DEF TypeOK, DeploySet, Update
    <3> QED
      BY <3>1, <3>2 DEF Status
  <2>3. DeployingCovers'
    BY <1>1, <1>2, <1>3, <1>4, <1>5, <2>1, <2>2 DEF DeployingCovers
  <2> QED
    BY <1>6, <2>3 DEF Apart
<1> QED
  BY <1>7, <1>8

\* Inside slotMu: what is read, what is picked from it, and the claim.
LEMMA ReadStep ==
    ASSUME TypeOK, Apart, NEW s \in Servers, StartInSlot(s)
    PROVE  Apart'
<1>1. /\ ClaimsApart /\ DeployingCovers /\ FiledRight
      /\ ReadIsGood /\ ClaimIsGood /\ ClaimIsFiled
  BY DEF Apart
<1>2. UNCHANGED <<env, conf, st, job, loose>> /\ pick'.at = "read"
  <2>1. CASE StartBegins(s)
    BY <2>1 DEF StartBegins
  <2>2. CASE ReadHolder(s)
    BY <2>2, PickShape DEF ReadHolder, Reading
  <2> QED
    BY <2>1, <2>2 DEF StartInSlot
<1>3. \A t \in Servers : /\ Starting(t)' <=> Starting(t)
                         /\ Stacking(t)' <=> Stacking(t)
                         /\ ~Claiming(t)'
  BY <1>2 DEF Starting, Stacking, Claiming
<1>4. ClaimsApart' /\ DeployingCovers' /\ ClaimIsGood' /\ ClaimIsFiled'
  BY <1>1, <1>2, <1>3 DEF ClaimsApart, DeployingCovers, ClaimIsGood, ClaimIsFiled
<1>5. CASE StartBegins(s)
  <2>1. pick' = [at |-> "read", who |-> s, todo |-> Servers \ {s}, busy |-> {}, conf |-> conf]
    BY <1>5 DEF StartBegins
  <2>2. FiledRight' /\ ReadIsGood'
    BY <1>1, <1>2, <2>1 DEF FiledRight, ReadIsGood
  <2> QED
    BY <1>4, <2>2 DEF Apart
<1>6. CASE ReadHolder(s)
  <2>1. pick \in Reading /\ pick.at = "read"
    BY <1>6, PickShape DEF ReadHolder
  <2>2. /\ pick'.who = pick.who /\ pick'.todo = pick.todo \ {s}
        /\ pick'.conf = pick.conf /\ pick.busy \subseteq pick'.busy
        /\ HoldsPorts(st[s]) /\ pick.conf[s] # 0 => pick.conf[s] \in pick'.busy
    BY <1>6, <2>1 DEF ReadHolder, Reading
  <2>3. s \notin loose /\ Starting(s) => HoldsPorts(st[s]) /\ env[s] # 0
    BY <1>1 DEF DeployingCovers, HoldsPorts
  <2>4. s \notin loose => pick.conf[s] = env[s]
    BY <1>1, <2>1 DEF FiledRight
  <2>5. FiledRight'
    BY <1>1, <1>2, <2>1, <2>2 DEF FiledRight
  <2>6. ReadIsGood'
    BY <1>1, <1>2, <1>3, <2>1, <2>2, <2>3, <2>4 DEF ReadIsGood
  <2> QED
    BY <1>4, <2>5, <2>6 DEF Apart
<1> QED
  BY <1>5, <1>6 DEF StartInSlot

LEMMA PickStep ==
    ASSUME TypeOK, Apart, Pick
    PROVE  Apart'
<1>1. /\ ClaimsApart /\ DeployingCovers /\ FiledRight
      /\ ReadIsGood /\ ClaimIsGood /\ ClaimIsFiled
  BY DEF Apart
<1>2. PICK s \in Servers : pick.at = "read" /\ pick.todo = {} /\ pick.who = s
  BY PickShape DEF Pick, Reading
<1>3. PICK n \in Slots : /\ n \notin pick.busy /\ ~st[s].Deploying
                         /\ env' = [env EXCEPT ![s] = n]
  <2>1. PICK n \in Slots : /\ n \notin pick.busy /\ ~st[pick.who].Deploying
                           /\ env' = [env EXCEPT ![pick.who] = n]
    BY Zenon DEF Pick, IsPick
  <2> QED
    BY <1>2, <2>1
<1>4. pick' = [at |-> "claim", who |-> s] /\ UNCHANGED <<st, job>>
  BY <1>2 DEF Pick
<1>5. \A t \in Servers : env'[t] = IF t = s THEN n ELSE env[t]
  BY <1>2, <1>3 DEF TypeOK, Books
<1>6. \A t \in Servers : /\ Claiming(t)' <=> t = s
                         /\ Starting(t)' <=> Starting(t)
                         /\ Stacking(t)' <=> Stacking(t)
  BY <1>4 DEF Claiming, Starting, Stacking
<1>7. /\ \A t \in Servers \ loose' : conf'[t] = env'[t] /\ (t # s => t \notin loose)
      /\ s \notin loose' => s \notin loose \/ (~Starting(s) /\ ~Stacking(s))
  BY <1>2 DEF Pick, Misfiled
<1>8. s \notin loose' => ~Starting(s) /\ ~Stacking(s)
  BY <1>1, <1>3, <1>7 DEF DeployingCovers
<1>9. ClaimsApart'
  BY <1>1, <1>5, <1>6, <1>7, <1>8 DEF ClaimsApart
<1>10. DeployingCovers'
  BY <1>1, <1>4, <1>5, <1>6, <1>7, <1>8 DEF DeployingCovers
<1>11. FiledRight' /\ ReadIsGood'
  BY <1>4, <1>7 DEF FiledRight, ReadIsGood
<1>12. ClaimIsGood' /\ ClaimIsFiled'
  BY <1>1, <1>2, <1>3, <1>5, <1>6, <1>7, <1>8 DEF ReadIsGood, ClaimIsGood, ClaimIsFiled
<1> QED
  BY <1>9, <1>10, <1>11, <1>12 DEF Apart

LEMMA ClaimStep ==
    ASSUME TypeOK, Apart, Refuse \/ Claim
    PROVE  Apart'
<1>1. /\ ClaimsApart /\ DeployingCovers /\ FiledRight
      /\ ReadIsGood /\ ClaimIsGood /\ ClaimIsFiled
  BY DEF Apart
<1>2. pick' = Free /\ UNCHANGED <<env, conf, loose>>
  BY DEF Refuse, Claim
<1>3. pick'.at # "read" /\ \A t \in Servers : ~Claiming(t)'
  BY <1>2 DEF Claiming, Free
<1>4. FiledRight' /\ ReadIsGood' /\ ClaimIsGood' /\ ClaimIsFiled'
  BY <1>1, <1>2, <1>3 DEF FiledRight, ReadIsGood, ClaimIsGood, ClaimIsFiled
<1>5. CASE Refuse
  <2>1. \A t \in Servers : (Starting(t)' <=> Starting(t)) /\ (Stacking(t)' <=> Stacking(t))
    BY <1>5 DEF Refuse, Starting, Stacking
  <2>2. ClaimsApart' /\ DeployingCovers'
    BY <1>1, <1>2, <1>3, <1>5, <2>1 DEF Refuse, ClaimsApart, DeployingCovers
  <2> QED
    BY <1>4, <2>2 DEF Apart
<1>6. CASE Claim
  <2>1. PICK s \in Servers : pick.who = s /\ Claiming(s)
    BY <1>6, PickShape DEF Claim, Claims, Claiming
  <2>2. job' = [job EXCEPT ![s].start = "find"]
    BY <1>6, <2>1 DEF Claim
  <2>3. \A t \in Servers : /\ Starting(t)' <=> Starting(t) \/ t = s
                           /\ Stacking(t)' <=> Stacking(t)
    BY <2>2 DEF TypeOK, Starting, Stacking, Kinds
  <2>4. st'[s].Deploying /\ \A t \in Servers : t # s => st'[t] = st[t]
    <3>1. st[s] \in Status
      BY DEF TypeOK
    <3>2. st' = [st EXCEPT ![s] = [st[s] EXCEPT !.Deploying = TRUE, !.Stopped = FALSE]]
      BY <1>6, <2>1 DEF Claim, Update
    <3> QED
      BY <3>1, <3>2 DEF Status, TypeOK
  <2>5. ClaimsApart'
    BY <1>1, <1>2, <2>1, <2>3 DEF ClaimsApart, ClaimIsGood
  <2>6. DeployingCovers'
    BY <1>1, <1>2, <1>3, <2>1, <2>3, <2>4 DEF DeployingCovers, ClaimIsFiled
  <2> QED
    BY <1>4, <2>5, <2>6 DEF Apart
<1> QED
  BY <1>5, <1>6

LEMMA RestartStep ==
    ASSUME PZAdminRestart
    PROVE  Apart'
<1>1. \A s \in Servers : ~Starting(s)' /\ ~Stacking(s)' /\ ~Claiming(s)'
  BY DEF PZAdminRestart, Starting, Stacking, Claiming, Free, Kinds
<1>2. pick'.at # "read" /\ \A s \in Servers \ loose' : conf'[s] = env'[s]
  BY DEF PZAdminRestart, Misfiled, Free
<1> QED
  BY <1>1, <1>2 DEF Apart, ClaimsApart, DeployingCovers, FiledRight, ReadIsGood,
     ClaimIsGood, ClaimIsFiled

LEMMA ApartStep == IInv /\ [Next]_vars => Apart'
<1> SUFFICES ASSUME TypeOK, Apart, [Next]_vars PROVE Apart'
  BY DEF IInv
<1>1. CASE UNCHANGED vars
  <2>1. \A t \in Servers \ loose : conf[t] = env[t]
    BY DEF Apart, FiledRight
  <2> QED
    BY <1>1, <2>1, ElsewhereStep DEF vars
<1>2. CASE Next
  BY <1>2, ReadStep, PickStep, ClaimStep, ScanStep, RestartStep, MonitorStep, JobStep,
     DeployButtonStep DEF Next
<1> QED
  BY <1>1, <1>2

-----------------------------------------------------------------------------
(* SlotsAreHeld: what a server's own handlers keep of it.                  *)

LEMMA DeployingInitially == Init => DeployingIsWorkedOn
<1> SUFFICES ASSUME Init, NEW s \in Servers PROVE ~st[s].Deploying
  BY DEF DeployingIsWorkedOn
<1> QED
  BY DEF Init, ZeroStatus

\* Deploying is set together with a job, and cleared by the end of any.
LEMMA DeployingStep ==
    ASSUME TypeOK, DeployingIsWorkedOn, [Next]_vars
    PROVE  DeployingIsWorkedOn'
<1> DEFINE Worked(s) == Starting(s) \/ Stacking(s)
<1> SUFFICES ASSUME NEW t \in Servers, st'[t].Deploying PROVE Worked(t)'
  BY DEF DeployingIsWorkedOn
<1>1. st[t].Deploying => Worked(t)
  BY DEF DeployingIsWorkedOn
<1> USE DEF Starting, Stacking
<1>2. st[t] \in Status /\ job[t] \in [Kinds -> JobSteps]
  BY DEF TypeOK
<1>3. CASE UNCHANGED vars
  BY <1>1, <1>3 DEF vars
<1>4. CASE Pick \/ Refuse \/ ScanReads \/ ScanFolds
  BY <1>1, <1>4 DEF Pick, Refuse, ScanReads, ScanFolds
<1>5. CASE Claim
  <2>1. pick.who \in Servers
    BY <1>5, PickShape DEF Claim, Claims
  <2>2. CASE t = pick.who
    BY <1>5, <2>1, <2>2 DEF Claim, TypeOK, Kinds
  <2>3. CASE t # pick.who
    BY <1>1, <1>5, <2>1, <2>3 DEF Claim, TypeOK, Update
  <2> QED
    BY <2>2, <2>3
<1>6. CASE PZAdminRestart
  BY <1>6 DEF PZAdminRestart, ZeroStatus
<1>7. ASSUME NEW s \in Servers, StartInSlot(s) \/ DeployCheck(s) \/ DeploySet(s) \/ ArcaneStart(s)
      PROVE  Worked(t)'
  <2>1. CASE StartInSlot(s) \/ ArcaneStart(s)
    BY <1>1, <2>1 DEF StartInSlot, StartBegins, ReadHolder, ArcaneStart
  <2>2. CASE DeployCheck(s)
    BY <1>1, <2>2 DEF DeployCheck, TypeOK, Kinds
  <2>3. CASE DeploySet(s)
    BY <1>1, <2>3 DEF DeploySet, TypeOK, Kinds, Update
  <2> QED
    BY <1>7, <2>1, <2>2, <2>3
<1>8. ASSUME NEW s \in Servers, Stop(s) \/ Monitor(s) PROVE Worked(t)'
  <2>1. job' = job
    BY <1>8 DEF Stop, StopBegins, StopStops, StopFlags, StopFails, Monitor, ProbeAnswers,
       ProbeSucceeds, ProbeFails, AskArcane, StoreState, ApplyFailure, WatchdogMarks,
       WatchdogStops, WatchdogStarts, WatchdogFails
  <2>2. st'[t].Deploying = st[t].Deploying
    <3>1. st[s] \in Status
      BY DEF TypeOK
    <3>2. CASE UNCHANGED st
      BY <3>2
    <3>3. CASE StopBegins(s) \/ StopFlags(s) \/ StopFails(s)
      BY <3>1, <3>3, StatusStep DEF StopBegins, StopFlags, StopFails, Status
    <3>4. CASE ProbeSucceeds(s) \/ StoreState(s) \/ ApplyFailure(s)
               \/ WatchdogMarks(s) \/ WatchdogFails(s)
      BY <3>1, <3>4, StatusStep DEF ProbeSucceeds, StoreState, ApplyFailure,
         WatchdogMarks, WatchdogFails, Status
    <3> QED
      BY <1>8, <3>2, <3>3, <3>4 DEF Monitor, Stop, StopStops, ProbeAnswers, ProbeFails,
         AskArcane, WatchdogStops, WatchdogStarts
  <2> QED
    BY <1>1, <2>1, <2>2
<1>9. ASSUME NEW s \in Servers, NEW k \in Kinds, Job(s, k) PROVE Worked(t)'
  <2>1. CASE t # s
    BY <1>1, <1>9, <2>1 DEF Job, JobFinds, JobDeploys, JobEnds, JobFails, Update, TypeOK
  <2>2. CASE t = s /\ (JobFinds(s, k) \/ JobDeploys(s, k))
    BY <1>2, <2>2 DEF JobFinds, JobDeploys, TypeOK, Kinds
  <2>3. CASE t = s /\ (JobEnds(s, k) \/ JobFails(s, k))
    <3>1. ~[st[s] EXCEPT !.Deploying = FALSE].Deploying
      BY <1>2, <2>3 DEF Status
    <3>2. ~[st[s] EXCEPT !.Restarting = FALSE, !.Deploying = FALSE].Deploying
      BY <1>2, <2>3 DEF Status
    <3>3. ~st'[s].Deploying
      BY <2>3, <3>1, <3>2 DEF JobEnds, JobFails, TypeOK, Update
    <3> QED
      BY <2>3, <3>3
  <2> QED
    BY <1>9, <2>1, <2>2, <2>3 DEF Job
<1> QED
  BY <1>3, <1>4, <1>5, <1>6, <1>7, <1>8, <1>9 DEF Next

LEMMA HeldInitially == Init => Held
<1> SUFFICES ASSUME Init PROVE Held
  OBVIOUS
<1>1. \A s \in Servers :
        /\ ~box[s].run /\ stop[s] = "idle" /\ mon[s].at = "idle" /\ ~mon[s].stalled
        /\ job[s].start = "none" /\ job[s].stack = "none" /\ ~Claiming(s)
  BY DEF Init, Claiming, Free, Kinds, Resting
<1>2. \A s \in Servers : HeldBy(s)
  BY <1>1 DEF HeldBy, RunningIsSeen, StartIsAlone, AnswerIsFresh, MonitorIsAlone,
     Launching, Starting, Stacking
<1>3. OccupiedApart
  <2>1. \A s \in Servers : ~Occupies(s)
    BY <1>1 DEF Occupies, Starting
  <2> QED
    BY <2>1 DEF Init, OccupiedApart, Known, Free
<1> QED
  BY <1>2, <1>3 DEF Held

\* What a server's own part of the state says stays true while it stays.
LEMMA SameStaysHeld ==
    ASSUME NEW t \in Servers, HeldBy(t),
           box'[t] = box[t], env'[t] = env[t], st'[t] = st[t], mon'[t] = mon[t],
           stop'[t] = stop[t], job'[t] = job[t], Claiming(t)' => Claiming(t)
    PROVE  HeldBy(t)'
BY DEF HeldBy, RunningIsSeen, StartIsAlone, AnswerIsFresh, MonitorIsAlone,
       Launching, Starting, Stacking

\* A step that takes no slot and moves nobody keeps everybody apart.
LEMMA NobodyMoves ==
    ASSUME OccupiedApart, UNCHANGED <<env, pick>>,
           \A t \in Known' : t \in Known /\ (Occupies(t)' => Occupies(t))
    PROVE  OccupiedApart'
BY DEF OccupiedApart, Claiming

\* A step of one server's own, while it keeps what is said of that server, or
\* casts a doubt on it.
LEMMA OwnStep ==
    ASSUME Held, NEW s \in Servers,
           UNCHANGED <<env, pick>>, loose \subseteq loose', doubted \subseteq doubted',
           \A t \in Servers : t # s =>
             /\ box'[t] = box[t] /\ st'[t] = st[t] /\ mon'[t] = mon[t]
             /\ stop'[t] = stop[t] /\ job'[t] = job[t],
           s \notin doubted' => (Occupies(s)' => Occupies(s)) /\ HeldBy(s)'
    PROVE  Held'
<1>1. \A t \in Servers : Claiming(t)' <=> Claiming(t)
  BY DEF Claiming
<1>2. \A t \in Servers : t # s => (Occupies(t)' <=> Occupies(t))
  BY DEF Occupies, Starting
<1>3. OccupiedApart'
  BY <1>2, NobodyMoves DEF Held, Known
<1>4. \A t \in Servers \ doubted' : t # s => HeldBy(t)'
  BY <1>1, SameStaysHeld DEF Held
<1> QED
  BY <1>3, <1>4 DEF Held

LEMMA StopHeld ==
    ASSUME TypeOK, Held, NEW s \in Servers, Stop(s)
    PROVE  Held'
<1>2. /\ UNCHANGED <<env, pick, mon, job, loose>> /\ doubted \subseteq doubted'
      /\ \A t \in Servers : t # s =>
           box'[t] = box[t] /\ st'[t] = st[t] /\ stop'[t] = stop[t]
  BY DEF Stop, StopBegins, StopStops, StopFlags, StopFails, Update, Doubts, TypeOK
<1> SUFFICES ASSUME s \notin doubted' PROVE (Occupies(s)' => Occupies(s)) /\ HeldBy(s)'
  BY <1>2, OwnStep
<1>1. st[s] \in Status /\ box[s] \in Box /\ HeldBy(s)
  BY <1>2 DEF TypeOK, Held
<1>3. (Claiming(s)' <=> Claiming(s)) /\ (Starting(s)' <=> Starting(s))
      /\ (Stacking(s)' <=> Stacking(s)) /\ (Launching(s)' <=> Launching(s))
  BY <1>2 DEF Claiming, Starting, Stacking, Launching
<1> USE DEF HeldBy, RunningIsSeen, StartIsAlone, AnswerIsFresh, MonitorIsAlone
<1>4. CASE StopBegins(s)
  <2>1. /\ box' = box /\ stop[s] = "idle" /\ stop'[s] = "stop"
        /\ ~st[s].Deploying /\ ~st[s].Restarting /\ ~Claiming(s)
        /\ mon[s].at \notin {"w.mark", "w.stop", "w.start"}
    BY <1>4 DEF StopBegins, Doubts, TypeOK
  <2>2. /\ st'[s].Restarting /\ st'[s].Stopped = st[s].Stopped
        /\ st'[s].Online = st[s].Online /\ st'[s].ContainerState = st[s].ContainerState
        /\ st'[s].Deploying = st[s].Deploying
    BY <1>1, <1>4 DEF StopBegins, Update, Status, TypeOK
  <2>3. ~Starting(s) /\ ~Launching(s) /\ job[s].start = "none"
    BY <1>1, <2>1 DEF Starting, Launching
  <2>4. HeldBy(s)'
    BY <1>1, <1>2, <1>3, <2>1, <2>2, <2>3
  <2>5. Occupies(s)' => Occupies(s)
    BY <1>2, <1>3, <2>1 DEF Occupies
  <2> QED
    BY <2>4, <2>5
<1>5. CASE StopStops(s)
  <2>1. /\ st' = st /\ stop[s] = "stop" /\ stop'[s] = "flag"
        /\ ~box'[s].run /\ box'[s].slot = box[s].slot
    BY <1>1, <1>5 DEF StopStops, Box, TypeOK
  <2>2. HeldBy(s)'
    BY <1>1, <1>2, <1>3, <2>1
  <2>3. Occupies(s)' => Occupies(s)
    BY <1>2, <1>3, <2>1 DEF Occupies
  <2> QED
    BY <2>2, <2>3
<1>6. CASE StopFlags(s)
  <2>1. box' = box /\ stop[s] = "flag" /\ stop'[s] = "idle"
    BY <1>6 DEF StopFlags, TypeOK
  <2>2. /\ ~st'[s].Restarting /\ st'[s].Stopped
        /\ ~st'[s].Online /\ st'[s].ContainerState = "exited"
    BY <1>1, <1>6, ZenonT(60) DEF StopFlags, Update, Status, TypeOK
  <2>3. ~Starting(s) /\ ~Launching(s) /\ job[s].start = "none"
    BY <1>1, <2>1 DEF Starting, Launching
  <2>4. HeldBy(s)'
    BY <1>1, <1>2, <1>3, <2>1, <2>2, <2>3
  <2>5. Occupies(s)' => Occupies(s)
    BY <1>2, <1>3, <2>1 DEF Occupies
  <2> QED
    BY <2>4, <2>5
<1>7. CASE StopFails(s)
  <2>1. box' = box /\ stop[s] = "stop" /\ stop'[s] = "idle"
    BY <1>7 DEF StopFails, Doubts, TypeOK
  <2>2. /\ ~st'[s].Restarting /\ st'[s].Stopped = st[s].Stopped
        /\ st'[s].Online = st[s].Online /\ st'[s].ContainerState = st[s].ContainerState
        /\ st'[s].Deploying = st[s].Deploying
    BY <1>1, <1>7, ZenonT(60) DEF StopFails, Update, Status, TypeOK
  <2>3. ~Starting(s) /\ ~Launching(s) /\ job[s].start = "none"
    BY <1>1, <2>1 DEF Starting, Launching
  <2>4. HeldBy(s)'
    BY <1>1, <1>2, <1>3, <2>1, <2>2, <2>3
  <2>5. Occupies(s)' => Occupies(s)
    BY <1>2, <1>3, <2>1 DEF Occupies
  <2> QED
    BY <2>4, <2>5
<1> QED
  BY <1>4, <1>5, <1>6, <1>7 DEF Stop

LEMMA MonitorHeld ==
    ASSUME TypeOK, Held, NEW s \in Servers, Monitor(s), doubted \subseteq doubted'
    PROVE  Held'
<1>2. /\ UNCHANGED <<env, pick, stop, job, loose>>
      /\ \A t \in Servers : t # s =>
           box'[t] = box[t] /\ st'[t] = st[t] /\ mon'[t] = mon[t]
  BY DEF Monitor, ProbeAnswers, ProbeSucceeds, ProbeFails, AskArcane, StoreState,
         ApplyFailure, WatchdogMarks, WatchdogStops, WatchdogStarts, WatchdogFails,
         MonitorGoes, Started, Update, TypeOK
<1>3. (Claiming(s)' <=> Claiming(s)) /\ (Starting(s)' <=> Starting(s))
      /\ (Stacking(s)' <=> Stacking(s)) /\ (Launching(s)' <=> Launching(s))
  BY <1>2 DEF Claiming, Starting, Stacking, Launching
<1> SUFFICES ASSUME s \notin doubted' PROVE (Occupies(s)' => Occupies(s)) /\ HeldBy(s)'
  BY <1>2, OwnStep
<1>1. st[s] \in Status /\ box[s] \in Box /\ mon[s] \in Monitors /\ HeldBy(s)
  BY DEF TypeOK, Held
<1> USE DEF HeldBy, RunningIsSeen, StartIsAlone, AnswerIsFresh, MonitorIsAlone
<1>4. CASE ProbeAnswers(s)
  <2>1. /\ box' = box /\ st' = st /\ box[s].run
        /\ mon[s].at = "idle" /\ mon'[s].at = "ok"
        /\ mon'[s].stalled = mon[s].stalled /\ mon'[s].seen = mon[s].seen
    BY <1>1, <1>4, ZenonT(60) DEF ProbeAnswers, MonitorGoes, Monitors, TypeOK
  <2> QED
    BY <1>1, <1>2, <1>3, <2>1 DEF Occupies
<1>5. CASE ProbeSucceeds(s)
  <2>1. /\ box' = box /\ mon[s].at = "ok" /\ mon'[s].at = "after"
        /\ mon'[s].stalled = mon[s].stalled /\ mon'[s].seen = mon[s].seen
    BY <1>1, <1>5, ZenonT(60) DEF ProbeSucceeds, MonitorGoes, Monitors, TypeOK
  <2>2. /\ st'[s].Online /\ ~st'[s].Stopped /\ ~st'[s].Restarting
        /\ st'[s].Deploying = st[s].Deploying
    BY <1>1, <1>5 DEF ProbeSucceeds, Update, Status, TypeOK
  <2>3. ~Launching(s) /\ job[s].start # "deploy"
    BY <1>1, <2>1 DEF Launching
  <2> QED
    BY <1>1, <1>2, <1>3, <2>1, <2>2, <2>3 DEF Occupies
<1>6. CASE ProbeFails(s)
  <2>1. PICK late \in {FALSE, st[s].Restarting /\ stop[s] = "idle"} :
          /\ mon' = [mon EXCEPT ![s] = [Resting EXCEPT !.at = "failed", !.stalled = late]]
          /\ Doubts(s, late /\ st[s].Deploying, "slow deploy")
    BY <1>6 DEF ProbeFails
  <2>2. /\ box' = box /\ st' = st /\ mon[s].at = "idle" /\ mon'[s].at = "failed"
        /\ mon'[s].stalled => st[s].Restarting /\ stop[s] = "idle" /\ ~st[s].Deploying
    BY <1>1, <1>6, <2>1 DEF ProbeFails, Resting, Doubts, TypeOK
  <2>3. mon'[s].stalled => ~Starting(s)
    BY <1>1, <2>2
  <2> QED
    BY <1>1, <1>2, <1>3, <2>2, <2>3 DEF Occupies
<1>7. CASE AskArcane(s)
  <2>1. PICK answer \in {IF box[s].run THEN "running" ELSE "exited", "unavailable"} :
          mon' = [mon EXCEPT ![s].seen = answer,
                             ![s].at = IF @ = "after" THEN "store" ELSE "keep"]
    BY <1>7 DEF AskArcane
  <2>2. /\ box' = box /\ st' = st /\ mon[s].at \in {"after", "failed"}
        /\ mon'[s].at = IF mon[s].at = "after" THEN "store" ELSE "keep"
        /\ mon'[s].stalled = mon[s].stalled /\ mon'[s].seen = answer
    BY <1>1, <1>7, <2>1 DEF AskArcane, Monitors, TypeOK
  <2> QED
    BY <1>1, <1>2, <1>3, <2>1, <2>2 DEF Occupies, Up
<1>8. CASE StoreState(s)
  <2>1. /\ st'[s].Stopped = st[s].Stopped /\ st'[s].Deploying = st[s].Deploying
        /\ st'[s].Online = st[s].Online /\ st'[s].Restarting = st[s].Restarting
        /\ st'[s].ContainerState = mon[s].seen /\ box' = box
    BY <1>1, <1>8 DEF StoreState, Update, Status, TypeOK
  <2>2. CASE mon[s].at = "store"
    <3>1. mon'[s].at = "idle" /\ ~mon'[s].stalled
      BY <1>8, <2>2 DEF StoreState, Resting, TypeOK
    <3> QED
      BY <1>1, <1>2, <1>3, <2>1, <2>2, <3>1 DEF Occupies
  <2>3. CASE mon[s].at = "keep"
    <3>1. mon'[s].at = "apply" /\ mon'[s].stalled = mon[s].stalled
      BY <1>1, <1>8, <2>3, ZenonT(60) DEF StoreState, Monitors, TypeOK
    <3> QED
      BY <1>1, <1>2, <1>3, <2>1, <2>3, <3>1 DEF Occupies
  <2> QED
    BY <1>8, <2>2, <2>3 DEF StoreState
<1>9. CASE ApplyFailure(s)
  <2>1. /\ st'[s].Stopped = st[s].Stopped /\ st'[s].Deploying = st[s].Deploying
        /\ ~st'[s].Online /\ st'[s].ContainerState = st[s].ContainerState
        /\ st'[s].Restarting = (st[s].Restarting /\ ~mon[s].stalled)
        /\ box' = box /\ mon[s].at = "apply"
    BY <1>1, <1>9, ZenonT(60) DEF ApplyFailure, Update, Status, TypeOK
  <2>2. /\ ~mon'[s].stalled /\ mon'[s].at \in {"idle", "w.mark"}
        /\ mon'[s].at = "w.mark" => ~st'[s].Restarting /\ st[s].ContainerState = "running"
    <3>1. CASE mon' = [mon EXCEPT ![s] = Resting]
      BY <3>1 DEF Resting, TypeOK
    <3>2. CASE /\ mon' = [mon EXCEPT ![s] = [Resting EXCEPT !.at = "w.mark"]]
               /\ ~st'[s].Restarting /\ st[s].ContainerState = "running"
      BY <3>2 DEF Resting, TypeOK
    <3> QED
      BY <1>9, <3>1, <3>2 DEF ApplyFailure
  <2>3. mon'[s].at = "w.mark" => ~Launching(s)
    BY <1>1, <2>1, <2>2
  <2>4. job[s].start = "deploy" => Starting(s)
    BY DEF Starting
  <2> QED
    BY <1>1, <1>2, <1>3, <2>1, <2>2, <2>3, <2>4 DEF Occupies
<1>10. CASE WatchdogMarks(s)
  <2>1. /\ box' = box /\ mon[s].at = "w.mark" /\ mon'[s].at = "w.stop"
        /\ mon'[s].stalled = mon[s].stalled /\ stop[s] = "idle" /\ ~st[s].Stopped
    BY <1>1, <1>10, ZenonT(60) DEF WatchdogMarks, MonitorGoes, Doubts, Monitors, TypeOK
  <2>2. /\ st'[s].Stopped = st[s].Stopped /\ st'[s].Deploying = st[s].Deploying
        /\ st'[s].Online = st[s].Online /\ st'[s].Restarting
        /\ st'[s].ContainerState = st[s].ContainerState
    BY <1>1, <1>10 DEF WatchdogMarks, Update, Status, TypeOK
  <2> QED
    BY <1>1, <1>2, <1>3, <2>1, <2>2 DEF Occupies
<1>11. CASE WatchdogStops(s)
  <2>1. /\ mon[s].at = "w.stop" /\ mon'[s].at = "w.start"
        /\ mon'[s].stalled = mon[s].stalled /\ st' = st
    BY <1>1, <1>11, ZenonT(60) DEF WatchdogStops, MonitorGoes, Monitors, TypeOK
  <2>2. ~box'[s].run /\ box'[s].slot = box[s].slot
    BY <1>1, <1>11 DEF WatchdogStops, Box, TypeOK
  <2>3. box[s].run
    BY <1>1, <2>1
  <2> QED
    BY <1>1, <1>2, <1>3, <2>1, <2>2, <2>3 DEF Occupies
<1>12. CASE WatchdogStarts(s)
  <2>1. /\ box'[s].run /\ box'[s].slot = box[s].slot
        /\ mon[s].at = "w.start" /\ mon'[s].at = "idle"
        /\ mon'[s].stalled = mon[s].stalled /\ st' = st
    BY <1>1, <1>12, ZenonT(60) DEF WatchdogStarts, MonitorGoes, Started, Monitors, Box, TypeOK
  <2> QED
    BY <1>1, <1>2, <1>3, <2>1 DEF Occupies
<1>13. CASE WatchdogFails(s)
  <2>1. /\ box' = box /\ mon[s].at \in {"w.stop", "w.start"} /\ mon'[s].at = "idle"
        /\ mon'[s].stalled = mon[s].stalled
    BY <1>1, <1>13, ZenonT(60) DEF WatchdogFails, Monitors, TypeOK
  <2>2. /\ st'[s].Stopped = st[s].Stopped /\ st'[s].Deploying = st[s].Deploying
        /\ st'[s].Online = st[s].Online /\ ~st'[s].Restarting
        /\ st'[s].ContainerState = st[s].ContainerState
    <3>1. st' = [st EXCEPT ![s] = [st[s] EXCEPT !.Restarting = FALSE]]
      BY <1>13 DEF WatchdogFails, Update
    <3> QED
      BY <1>1, <3>1 DEF Status, TypeOK
  <2>3. ~Launching(s) /\ job[s].start # "deploy"
    BY <1>1, <2>1 DEF Launching
  <2> QED
    BY <1>1, <1>2, <1>3, <2>1, <2>2, <2>3 DEF Occupies, Up
<1> QED
  BY <1>4, <1>5, <1>6, <1>7, <1>8, <1>9, <1>10, <1>11, <1>12, <1>13 DEF Monitor

\* A probe that finds a server right ends the doubt about it.
LEMMA HealStep ==
    ASSUME TypeOK, Held, NEW s \in Servers, ProbeSucceeds(s), PutRight(s)
    PROVE  Held'
<1>1. /\ UNCHANGED <<box, env, stop, job, pick, loose>> /\ doubted' = doubted \ {s}
      /\ \A t \in Servers : t # s => st'[t] = st[t] /\ mon'[t] = mon[t]
  BY DEF ProbeSucceeds, MonitorGoes, Update, TypeOK
<1>2. /\ st'[s].Online /\ ~st'[s].Stopped
      /\ mon'[s].at = "after" /\ mon'[s].stalled = mon[s].stalled
  <2>1. mon[s] \in Monitors /\ st[s] \in Status
    BY DEF TypeOK
  <2>2. mon' = [mon EXCEPT ![s].at = "after"]
    BY DEF ProbeSucceeds, MonitorGoes
  <2>3. mon'[s].at = "after" /\ mon'[s].stalled = mon[s].stalled
    BY <2>1, <2>2 DEF Monitors, TypeOK
  <2>4. st' = [st EXCEPT ![s] = [st[s] EXCEPT !.Online = TRUE, !.Stopped = FALSE,
                                              !.Restarting = FALSE]]
    BY DEF ProbeSucceeds, Update
  <2>5. st'[s].Online /\ ~st'[s].Stopped
    BY <2>1, <2>4 DEF Status, TypeOK
  <2> QED
    BY <2>3, <2>5
<1>3. /\ box[s].run /\ env[s] = box[s].slot /\ env[s] \in Slots /\ stop[s] = "idle"
      /\ ~Starting(s) /\ ~Stacking(s) /\ ~mon[s].stalled /\ ~Claiming(s)
      /\ pick.at # "read"
      /\ \A t \in Servers : t # s /\ (Occupies(t) \/ Claiming(t)) => env[t] # env[s]
  <2>1. env[s] \in 0..Count
    BY DEF TypeOK, Books
  <2> QED
    BY <2>1 DEF PutRight
<1>4. \A t \in Servers : /\ Claiming(t)' <=> Claiming(t)
                         /\ t # s => (Occupies(t)' <=> Occupies(t))
  BY <1>1 DEF Claiming, Occupies, Starting
<1>5. OccupiedApart'
  BY <1>1, <1>3, <1>4 DEF Held, OccupiedApart, Known
<1>6. HeldBy(s)'
  <2>1. ~Starting(s)' /\ ~Stacking(s)' /\ ~Launching(s)' /\ job'[s].start # "deploy"
    BY <1>1, <1>3, <1>4 DEF Starting, Stacking, Launching
  <2> QED
    BY <1>1, <1>2, <1>3, <2>1 DEF HeldBy, RunningIsSeen, StartIsAlone, AnswerIsFresh,
       MonitorIsAlone
<1>7. \A t \in Servers \ doubted' : t # s => HeldBy(t)'
  BY <1>1, <1>4, SameStaysHeld DEF Held
<1> QED
  BY <1>5, <1>6, <1>7 DEF Held

LEMMA JobHeld ==
    ASSUME TypeOK, Held, NEW s \in Servers, NEW k \in Kinds, Job(s, k)
    PROVE  Held'
<1>2. /\ UNCHANGED <<env, pick, stop, mon, loose>> /\ doubted \subseteq doubted'
      /\ \A t \in Servers : t # s =>
           box'[t] = box[t] /\ st'[t] = st[t] /\ job'[t] = job[t]
  BY DEF Job, JobFinds, JobDeploys, JobEnds, JobFails, Update, Doubts, TypeOK
<1> SUFFICES ASSUME s \notin doubted' PROVE (Occupies(s)' => Occupies(s)) /\ HeldBy(s)'
  BY <1>2, OwnStep
<1>1. st[s] \in Status /\ box[s] \in Box /\ HeldBy(s) /\ job[s] \in [Kinds -> JobSteps]
  BY <1>2 DEF TypeOK, Held
<1>3. k = "start"
  BY <1>1 DEF HeldBy, StartIsAlone, Stacking, Job, JobFinds, JobDeploys, JobEnds,
     JobFails, Kinds
<1>4. /\ Starting(s) /\ job'[s].stack = job[s].stack
      /\ Claiming(s)' <=> Claiming(s)
  <2>1. PICK to \in JobSteps : job' = [job EXCEPT ![s].start = to]
    BY <1>3, Zenon DEF Job, JobFinds, JobDeploys, JobEnds, JobFails, JobSteps
  <2>2. job'[s].stack = job[s].stack
    BY <1>1, <2>1 DEF Kinds, TypeOK
  <2>3. Starting(s)
    BY <1>3 DEF Starting, Job, JobFinds, JobDeploys, JobEnds, JobFails
  <2> QED
    BY <1>2, <2>2, <2>3 DEF Claiming
<1>5. ~Stacking(s)'
  BY <1>1, <1>4 DEF HeldBy, StartIsAlone, Stacking
<1>6. Occupies(s)
  BY <1>4 DEF Occupies
<1> USE DEF HeldBy, RunningIsSeen, StartIsAlone, AnswerIsFresh, MonitorIsAlone
<1>7. CASE JobFinds(s, k)
  <2>1. box' = box /\ job[s].start = "find" /\ job'[s].start = "deploy"
    BY <1>3, <1>7 DEF JobFinds, Kinds, TypeOK
  <2>2. /\ st'[s].Stopped = st[s].Stopped /\ st'[s].Deploying = st[s].Deploying
        /\ st'[s].Online = st[s].Online /\ st'[s].Restarting
        /\ st'[s].ContainerState = st[s].ContainerState
    BY <1>1, <1>7, ZenonT(60) DEF JobFinds, Update, Status, TypeOK
  <2>3. Starting(s)' /\ Launching(s)' /\ Launching(s)
    BY <2>1 DEF Starting, Launching
  <2> QED
    BY <1>1, <1>2, <1>4, <1>5, <1>6, <2>1, <2>2, <2>3
<1>8. CASE JobDeploys(s, k)
  <2>1. /\ st' = st /\ job[s].start = "deploy" /\ job'[s].start = "deployed"
        /\ box'[s].run /\ box'[s].slot = env[s]
    BY <1>3, <1>8 DEF JobDeploys, Recreated, Kinds, TypeOK
  <2>2. Starting(s)' /\ Launching(s)
    BY <2>1 DEF Starting, Launching
  <2>3. ~Claiming(s)
    BY <1>1, <1>4
  <2>4. ~Launching(s)'
    BY <1>4, <2>1, <2>3 DEF Launching
  <2> QED
    BY <1>1, <1>2, <1>4, <1>5, <1>6, <2>1, <2>2, <2>4
<1>9. CASE JobEnds(s, k)
  <2>1. box' = box /\ job[s].start = "deployed" /\ job'[s].start = "none"
    BY <1>3, <1>9 DEF JobEnds, Kinds, TypeOK
  <2>2. /\ st'[s].Stopped = st[s].Stopped /\ st'[s].Restarting = st[s].Restarting
        /\ st'[s].Online = st[s].Online
        /\ st'[s].ContainerState = st[s].ContainerState
    BY <1>1, <1>9, ZenonT(60) DEF JobEnds, Update, Status, TypeOK
  <2>3. ~Starting(s)' /\ (Launching(s)' => Launching(s))
    BY <1>4, <2>1 DEF Starting, Launching
  <2> QED
    BY <1>1, <1>2, <1>4, <1>5, <1>6, <2>1, <2>2, <2>3
<1>10. CASE JobFails(s, k)
  <2>1. box' = box /\ job[s].start \in {"find", "deploy"} /\ job'[s].start = "none"
    BY <1>3, <1>10 DEF JobFails, Doubts, Kinds, TypeOK
  <2>2. /\ st'[s].Stopped = st[s].Stopped /\ ~st'[s].Restarting
        /\ st'[s].Online = st[s].Online
        /\ st'[s].ContainerState = st[s].ContainerState
    BY <1>1, <1>10, ZenonT(60) DEF JobFails, Update, Status, TypeOK
  <2>3. ~Starting(s)' /\ Launching(s)
    BY <2>1 DEF Starting, Launching
  <2> QED
    BY <1>1, <1>2, <1>4, <1>5, <1>6, <2>1, <2>2, <2>3
<1> QED
  BY <1>7, <1>8, <1>9, <1>10 DEF Job

\* Pressing the Deploy button is a step of the server's own, until it is set.
LEMMA DeployCheckHeld ==
    ASSUME TypeOK, Held, NEW s \in Servers, DeployCheck(s)
    PROVE  Held'
<1>1. job' = [job EXCEPT ![s].stack = "set"] /\ job[s] \in [Kinds -> JobSteps]
  BY DEF DeployCheck, TypeOK
<1>2. job'[s].start = job[s].start /\ job'[s].stack = "set"
  BY <1>1 DEF TypeOK, Kinds
<1>3. UNCHANGED <<box, env, st, mon, stop, pick, loose, doubted>>
  BY DEF DeployCheck
<1>4. \A t \in Servers : t # s => job'[t] = job[t]
  BY <1>1 DEF TypeOK
<1>5. Occupies(s)' => Occupies(s)
  BY <1>2, <1>3 DEF Occupies, Starting
<1>6. s \notin doubted => HeldBy(s)'
  BY <1>2, <1>3 DEF Held, HeldBy, RunningIsSeen, StartIsAlone, AnswerIsFresh,
     MonitorIsAlone, Launching, Claiming, Starting, Stacking
<1> QED
  BY <1>3, <1>4, <1>5, <1>6, OwnStep

\* What is done to a server behind the back of its slot start doubts it.
LEMMA DoubtfulHeld ==
    ASSUME TypeOK, Held, NEW s \in Servers, DeploySet(s) \/ ArcaneStart(s)
    PROVE  Held'
<1>1. /\ UNCHANGED <<env, mon, stop, pick>> /\ loose \subseteq loose'
      /\ doubted' = doubted \cup {s}
      /\ \A t \in Servers : t # s =>
           box'[t] = box[t] /\ st'[t] = st[t] /\ job'[t] = job[t]
  BY DEF DeploySet, ArcaneStart, Started, Update, TypeOK
<1> QED
  BY <1>1, OwnStep

\* A scan makes some servers loose at most, and no status worse.
LEMMA ScanHeld ==
    ASSUME TypeOK, Held, ScanReads \/ ScanFolds
    PROVE  Held'
<1>1. /\ UNCHANGED <<box, env, st, mon, stop, job, pick, doubted>>
      /\ loose \subseteq loose'
  BY DEF ScanReads, ScanFolds
<1>2. \A t \in Servers : (Claiming(t)' <=> Claiming(t)) /\ (Occupies(t)' <=> Occupies(t))
  BY <1>1 DEF Claiming, Occupies, Starting
<1>3. OccupiedApart'
  BY <1>1, <1>2, NobodyMoves DEF Held, Known
<1>4. \A t \in Servers \ doubted' : HeldBy(t)'
  BY <1>1, <1>2, SameStaysHeld DEF Held
<1> QED
  BY <1>3, <1>4 DEF Held

\* After a restart of PZAdmin nobody is starting, and what runs is doubted.
LEMMA RestartHeld ==
    ASSUME TypeOK, Held, PZAdminRestart
    PROVE  Held'
<1>1. /\ box' = box /\ doubted' = {s \in Servers : box[s].run} /\ pick' = Free
      /\ \A s \in Servers : /\ mon'[s].at = "idle" /\ ~mon'[s].stalled
                            /\ stop'[s] = "idle"
                            /\ job'[s].start = "none" /\ job'[s].stack = "none"
  BY DEF PZAdminRestart, Resting, Kinds
<1>2. \A s \in Servers : ~Starting(s)' /\ ~Stacking(s)' /\ ~Claiming(s)' /\ ~Launching(s)'
  BY <1>1 DEF Starting, Stacking, Claiming, Launching, Free
<1>3. OccupiedApart'
  BY <1>1, <1>2 DEF OccupiedApart, Occupies, Known, Free
<1>4. \A s \in Servers \ doubted' : HeldBy(s)'
  BY <1>1, <1>2 DEF HeldBy, RunningIsSeen, StartIsAlone, AnswerIsFresh, MonitorIsAlone
<1> QED
  BY <1>3, <1>4 DEF Held

\* What occupies a slot holds it, so whoever collects the holders counts it.
LEMMA OccupyingHolds ==
    ASSUME NEW t \in Servers, TypeOK, HeldBy(t), Occupies(t)
    PROVE  HoldsPorts(st[t]) /\ env[t] \in Slots
BY DEF Occupies, HoldsPorts, HeldBy, RunningIsSeen, StartIsAlone, MonitorIsAlone, Up

LEMMA RestingIsIdle == Resting.at = "idle" /\ ~Resting.stalled
BY DEF Resting

\* Inside slotMu: collecting the holders misses nobody the configuration and the
\* status are right about.
LEMMA ReadHeld ==
    ASSUME TypeOK, Apart, Held, NEW s \in Servers, StartInSlot(s)
    PROVE  Held'
<1>1. /\ UNCHANGED <<box, env, st, mon, stop, job, loose, doubted>>
      /\ pick'.at = "read"
  <2>1. CASE StartBegins(s)
    BY <2>1 DEF StartBegins
  <2>2. CASE ReadHolder(s)
    BY <2>2, PickShape DEF ReadHolder, Reading
  <2> QED
    BY <2>1, <2>2 DEF StartInSlot
<1>2. \A t \in Servers : ~Claiming(t)' /\ (Occupies(t)' <=> Occupies(t))
  BY <1>1 DEF Claiming, Occupies, Starting
<1>3. \A t \in Servers \ doubted' : HeldBy(t)'
  BY <1>1, <1>2, SameStaysHeld DEF Held
<1>4. Known' = Known
  BY <1>1 DEF Known
<1>5. CASE StartBegins(s)
  <2>1. pick'.who = s /\ pick'.todo = Servers \ {s}
    BY <1>5 DEF StartBegins
  <2>2. OccupiedApart'
    BY <1>1, <1>2, <1>4, <2>1 DEF Held, OccupiedApart, Known
  <2> QED
    BY <1>3, <2>2 DEF Held
<1>6. CASE ReadHolder(s)
  <2>1. pick \in Reading /\ pick.at = "read"
    BY <1>6, PickShape DEF ReadHolder
  <2>2. /\ pick'.who = pick.who /\ pick'.todo = pick.todo \ {s}
        /\ pick.busy \subseteq pick'.busy
        /\ HoldsPorts(st[s]) /\ pick.conf[s] # 0 => pick.conf[s] \in pick'.busy
    BY <1>6, <2>1 DEF ReadHolder, Reading
  <2>3. s \in Known => pick.conf[s] = env[s]
    BY <2>1 DEF Known, Apart, FiledRight
  <2>4. s \in Known /\ Occupies(s) => HoldsPorts(st[s]) /\ env[s] # 0
    BY OccupyingHolds DEF Known, Held
  <2>5. OccupiedApart'
    <3>1. \A t \in Known : Occupies(t) /\ t # pick.who /\ t \notin pick'.todo
                             => env[t] \in pick'.busy
      BY <2>1, <2>2, <2>3, <2>4 DEF Held, OccupiedApart
    <3> QED
      BY <1>1, <1>2, <1>4, <2>2, <3>1 DEF Held, OccupiedApart, Known
  <2> QED
    BY <1>3, <2>5 DEF Held
<1> QED
  BY <1>5, <1>6 DEF StartInSlot

\* A slot nobody holds is taken by nobody; a server that is down goes for it.
LEMMA PickHeld ==
    ASSUME TypeOK, Held, Pick
    PROVE  Held'
<1>1. PICK s \in Servers : pick.at = "read" /\ pick.todo = {} /\ pick.who = s
  BY PickShape DEF Pick, Reading
<1>2. PICK n \in Slots : n \notin pick.busy /\ env' = [env EXCEPT ![s] = n]
  <2>1. PICK n \in Slots : n \notin pick.busy /\ env' = [env EXCEPT ![pick.who] = n]
    BY Zenon DEF Pick, IsPick
  <2> QED
    BY <1>1, <2>1
<1>3. /\ pick' = [at |-> "claim", who |-> s] /\ UNCHANGED <<box, st, mon, stop, job>>
      /\ s \notin doubted' => Down(s)
      /\ \A t \in Servers : t # s /\ t \in Known' => t \in Known
      /\ \A t \in Servers : t # s /\ t \notin doubted' => t \notin doubted
  BY <1>1 DEF Pick, Misfiled, Known
<1>4. \A t \in Servers : env'[t] = IF t = s THEN n ELSE env[t]
  BY <1>1, <1>2 DEF TypeOK, Books
<1>5. \A t \in Servers : (Claiming(t)' <=> t = s) /\ (Occupies(t)' <=> Occupies(t))
  BY <1>3 DEF Claiming, Occupies, Starting
<1>6. Down(s) => /\ ~box[s].run /\ ~Starting(s) /\ ~Stacking(s) /\ stop[s] = "idle"
                 /\ mon[s].at = "idle" /\ ~mon[s].stalled
  <2>1. Down(s) => mon[s] = Resting
    BY DEF Down, AtRest
  <2>2. mon[s] = Resting => mon[s].at = "idle" /\ ~mon[s].stalled
    BY RestingIsIdle, Zenon
  <2> QED
    BY <2>1, <2>2 DEF Down, AtRest
<1>7. \A t \in Known' : Occupies(t) => t # s /\ t \in Known /\ env[t] \in pick.busy
  <2>1. s \in Known' => ~Occupies(s)
    BY <1>3, <1>6 DEF Known, Occupies
  <2>2. \A t \in Known : Occupies(t) /\ t # s => env[t] \in pick.busy
    BY <1>1 DEF Held, OccupiedApart
  <2> QED
    BY <1>3, <2>1, <2>2 DEF Known
<1>8. OccupiedApart'
  <2>1. pick'.at # "read"
    BY <1>3
  <2>2. \A t \in Known' : t \in Servers
    BY DEF Known
  <2> QED
    BY <1>2, <1>4, <1>5, <1>7, <2>1, <2>2 DEF Held, OccupiedApart
<1>9. s \notin doubted' => HeldBy(s)'
  <2>1. job[s].start = "none" <=> ~Starting(s)
    BY DEF Starting
  <2> QED
    BY <1>1, <1>2, <1>3, <1>4, <1>6, <2>1
    DEF HeldBy, RunningIsSeen, StartIsAlone, AnswerIsFresh, MonitorIsAlone, Starting, Stacking
<1>10. \A t \in Servers \ doubted' : t # s => HeldBy(t)'
  BY <1>3, <1>4, <1>5, SameStaysHeld DEF Held
<1> QED
  BY <1>8, <1>9, <1>10 DEF Held

LEMMA ClaimHeld ==
    ASSUME TypeOK, Held, Refuse \/ Claim
    PROVE  Held'
<1>1. /\ pick' = Free /\ UNCHANGED <<box, env, mon, stop, loose>>
      /\ pick'.at # "read" /\ \A t \in Servers : ~Claiming(t)'
  <2>1. pick' = Free /\ UNCHANGED <<box, env, mon, stop, loose>>
    BY DEF Refuse, Claim
  <2> QED
    BY <2>1 DEF Claiming, Free
<1>2. CASE Refuse
  <2>1. UNCHANGED <<st, job, doubted>>
    BY <1>2 DEF Refuse
  <2>2. \A t \in Servers : Occupies(t)' <=> Occupies(t)
    BY <1>1, <2>1 DEF Occupies, Starting
  <2>3. OccupiedApart'
    BY <1>1, <2>1, <2>2 DEF Held, OccupiedApart, Known
  <2> QED
    BY <1>1, <2>1, <2>3, SameStaysHeld DEF Held
<1>3. CASE Claim
  <2>1. PICK s \in Servers : pick.who = s /\ Claiming(s)
    BY <1>3, PickShape DEF Claim, Claims, Claiming
  <2>2. /\ job' = [job EXCEPT ![s].start = "find"] /\ doubted \subseteq doubted'
        /\ s \notin doubted' => Down(s)
    BY <1>3, <2>1 DEF Claim
  <2>3. st' = [st EXCEPT ![s] = [st[s] EXCEPT !.Deploying = TRUE, !.Stopped = FALSE]]
    BY <1>3, <2>1 DEF Claim, Update
  <2>4. st'[s].Deploying /\ ~st'[s].Stopped
    <3>1. st[s] \in Status
      BY DEF TypeOK
    <3>2. st'[s] = [st[s] EXCEPT !.Deploying = TRUE, !.Stopped = FALSE]
      BY <2>3 DEF TypeOK
    <3> QED
      BY <3>1, <3>2 DEF Status
  <2>5. job'[s].start = "find" /\ job'[s].stack = job[s].stack
    BY <2>1, <2>2 DEF TypeOK, Kinds
  <2>6. \A t \in Servers : t # s => job'[t] = job[t] /\ st'[t] = st[t]
    BY <2>1, <2>2, <2>3 DEF TypeOK
  <2>7. \A t \in Servers : t # s => (Occupies(t)' <=> Occupies(t))
    BY <1>1, <2>6 DEF Occupies, Starting
  <2>8. OccupiedApart'
    <3>1. \A t \in Known' : t \in Known
      BY <1>1, <2>2 DEF Known
    <3>2. \A t \in Known : t # s /\ Occupies(t)' => env[t] # env[s]
      BY <2>1, <2>7 DEF Held, OccupiedApart, Known
    <3>3. \A t, u \in Known : t # u /\ t # s /\ u # s /\ Occupies(t)' /\ Occupies(u)'
                                => env[t] # env[u]
      BY <2>7 DEF Held, OccupiedApart, Known
    <3> QED
      BY <1>1, <3>1, <3>2, <3>3 DEF OccupiedApart, Known
  <2>9. s \notin doubted' => HeldBy(s)'
    <3> SUFFICES ASSUME s \notin doubted' PROVE HeldBy(s)'
      OBVIOUS
    <3>1. HeldBy(s) /\ mon[s] = Resting /\ stop[s] = "idle" /\ ~box[s].run /\ ~Stacking(s)
      BY <2>2 DEF Held, Down, AtRest
    <3>2. mon[s].at = "idle" /\ ~mon[s].stalled
      BY <3>1, RestingIsIdle, Zenon
    <3>3. env[s] \in Slots
      BY <2>1, <3>1 DEF HeldBy, StartIsAlone, Launching
    <3>4. ~Stacking(s)'
      BY <2>5, <3>1 DEF Stacking
    <3> QED
      BY <1>1, <2>1, <2>4, <2>5, <3>1, <3>2, <3>3, <3>4
      DEF HeldBy, RunningIsSeen, StartIsAlone, AnswerIsFresh, MonitorIsAlone
  <2>10. \A t \in Servers \ doubted' : t # s => HeldBy(t)'
    BY <1>1, <2>2, <2>6, SameStaysHeld DEF Held
  <2> QED
    BY <2>8, <2>9, <2>10 DEF Held
<1> QED
  BY <1>2, <1>3

LEMMA HeldStep == IInv /\ Held /\ [Next]_vars => Held'
<1> SUFFICES ASSUME TypeOK, Apart, Held, [Next]_vars PROVE Held'
  BY DEF IInv
<1>1. CASE UNCHANGED vars
  <2>1. \A t \in Servers : (Claiming(t)' <=> Claiming(t)) /\ (Occupies(t)' <=> Occupies(t))
    BY <1>1 DEF vars, Claiming, Occupies, Starting
  <2>2. OccupiedApart'
    BY <1>1, <2>1, NobodyMoves DEF Held, Known, vars
  <2> QED
    BY <1>1, <2>1, <2>2, SameStaysHeld DEF Held, vars
<1>2. ASSUME NEW s \in Servers, Monitor(s) PROVE Held'
  <2>1. CASE ProbeSucceeds(s) /\ PutRight(s)
    BY <2>1, HealStep
  <2>2. CASE doubted \subseteq doubted'
    BY <1>2, <2>2, MonitorHeld
  <2>3. (ProbeSucceeds(s) /\ PutRight(s)) \/ doubted \subseteq doubted'
    BY <1>2 DEF Monitor, ProbeAnswers, ProbeSucceeds, ProbeFails, AskArcane, StoreState,
       ApplyFailure, WatchdogMarks, WatchdogStops, WatchdogStarts, WatchdogFails, Doubts
  <2> QED
    BY <2>1, <2>2, <2>3
<1>3. CASE Next
  BY <1>2, <1>3, ReadHeld, PickHeld, ClaimHeld, ScanHeld, RestartHeld, DeployCheckHeld,
     DoubtfulHeld, StopHeld, JobHeld DEF Next
<1> QED
  BY <1>1, <1>3

\* The two promises follow from what is said of the servers that are not doubted.
LEMMA HeldSuffices ==
    ASSUME IInv, Held
    PROVE  RunningHoldsItsSlot /\ NeverRefused
<1>1. OccupiedApart /\ TypeOK /\ Apart /\ \A t \in Servers \ doubted : HeldBy(t)
  BY DEF Held, IInv
<1>2. ASSUME NEW s \in Servers \ doubted, box[s].run
      PROVE  /\ HoldsPorts(st[s]) /\ env[s] = box[s].slot
             /\ s \notin loose => conf[s] = box[s].slot
  <2>1. HoldsPorts(st[s]) /\ env[s] = box[s].slot
    BY <1>1, <1>2, OccupyingHolds DEF Occupies, HeldBy, RunningIsSeen
  <2>2. s \notin loose => conf[s] = env[s]
    BY <1>1 DEF Apart, FiledRight
  <2> QED
    BY <2>1, <2>2
<1>3. ASSUME NEW s \in Known, Occupies(s) PROVE Published(env[s]) \cap Known \subseteq {s}
  <2> SUFFICES ASSUME NEW t \in Known, box[t].run, box[t].slot = env[s] PROVE t = s
    BY DEF Published
  <2>1. Occupies(t) /\ env[t] = env[s]
    BY <1>1 DEF Occupies, HeldBy, RunningIsSeen, Known
  <2> QED
    BY <1>1, <1>3, <2>1 DEF OccupiedApart
<1>4. ASSUME NEW s \in Known, job[s].start = "deploy"
      PROVE  Published(env[s]) \cap Known \subseteq {s}
  BY <1>3, <1>4 DEF Occupies, Starting
<1>5. ASSUME NEW s \in Known, mon[s].at = "w.start"
      PROVE  Published(box[s].slot) \cap Known \subseteq {s}
  <2>1. env[s] = box[s].slot
    BY <1>1, <1>5 DEF HeldBy, MonitorIsAlone, Known
  <2>2. Published(env[s]) \cap Known \subseteq {s}
    BY <1>3, <1>5 DEF Occupies
  <2> QED
    BY <2>1, <2>2
<1> QED
  BY <1>2, <1>4, <1>5 DEF RunningHoldsItsSlot, NeverRefused

-----------------------------------------------------------------------------
\* The type invariant of PortSlots: every flag, step and slot number that
\* startInSlot, the stop handler, the monitor and the scans write is a legal one.
THEOREM TypeCorrect == Spec => []TypeOK
<1>1. Init => TypeOK
  BY TypeInitially
<1>2. TypeOK /\ [Next]_vars => TypeOK'
  BY TypeStep
<1> QED
  BY <1>1, <1>2, PTL DEF Spec

LEMMA Inductive == (Init => IInv) /\ (IInv /\ [Next]_vars => IInv')
<1>1. Init => IInv
  BY TypeInitially, ApartInitially DEF IInv
<1>2. IInv /\ [Next]_vars => IInv'
  BY TypeStep, ApartStep DEF IInv
<1> QED
  BY <1>1, <1>2

\* "One pick at a time, so two starts at once cannot take the same slot"
\* (slots.go): it holds for any number of servers and slots, through stops,
\* crashes, restarts of PZAdmin, starts behind its back, and scans that overlap
\* the pick or fail, of any two servers whose entry in the configuration has the
\* ports their .env has and that were not deployed besides.
THEOREM StartsKeepApart == Spec => []ClaimsApart
<1>1. Init => IInv
  BY Inductive
<1>2. IInv /\ [Next]_vars => IInv'
  BY Inductive
<1>3. IInv => ClaimsApart
  BY DEF IInv, Apart
<1> QED
  BY <1>1, <1>2, <1>3, PTL DEF Spec

\* "A server holds its slot while its container is running or starting": for
\* any number of servers and slots, and whatever happened to other servers, the
\* ports of a running container stay its own through stops that fail, restarts
\* by the watchdog and late probes; no start finds its ports taken by one of
\* them; and Deploying is never left set.  Not of a server that came up, or was
\* worked on, behind PZAdmin's back, or was running when PZAdmin restarted,
\* until it answers a probe.
THEOREM SlotsHeld == Spec => []SlotsAreHeld
<1> DEFINE Inv == IInv /\ Held /\ DeployingIsWorkedOn
<1>1. Init => Inv
  BY Inductive, HeldInitially, DeployingInitially
<1>2. Inv /\ [Next]_vars => Inv'
  <2>1. IInv => TypeOK
    BY DEF IInv
  <2> QED
    BY <2>1, Inductive, HeldStep, DeployingStep
<1>3. Inv => SlotsAreHeld
  BY HeldSuffices DEF SlotsAreHeld
<1> QED
  BY <1>1, <1>2, <1>3, PTL DEF Spec
=============================================================================
