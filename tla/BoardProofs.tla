---------------------------- MODULE BoardProofs ----------------------------
(***************************************************************************)
(* The services of MCServices that keep what owners ask for: the schedules, *)
(* the cards and names in Discord, the settings.  Proved for every value of *)
(* their constants, like those of ServicesProofs.                           *)
(***************************************************************************)
EXTENDS ServicesProofs

---------------------------------------------------------------------------
(***************************************************************************)
(* Jobs: the scheduler, its jobs, the editor and the stop.                 *)
(***************************************************************************)

\* What the loop has looked at and was due is in the fire log; what it has
\* still to look at is nothing when it sleeps.
LoopFits ==
    /\ minute \in Minutes
    /\ loop \in [pc: {"asleep", "woken", "tasks", "announce", "ended"}, now: Minutes \cup {0},
                 copy: SUBSET Tasks, todo: SUBSET Tasks]
    /\ loop.todo \subseteq loop.copy
    /\ loop.pc \in {"tasks", "announce"} => loop.now \in Minutes
    /\ loop.pc = "asleep" => loop.todo = {}
    /\ \A t \in loop.copy \ loop.todo : loop.now \in Due[t] => <<t, 0, loop.now>> \in fired

\* A restart empties the fire log, which has every claim acted on since.
LogFits ==
    /\ fired \subseteq Claims
    /\ starts \in [Claims -> Nat]
    /\ restarts \in Nat /\ turned \in BOOLEAN
    /\ \A claim \in Claims : starts[claim] <= restarts + (IF claim \in fired THEN 1 ELSE 0)
    /\ \A claim \in fired : starts[claim] >= 1

\* While the clock goes forward the loop never comes back to a minute it acted
\* in, whether the fire log still knows of it or not.
StartFits(claim) ==
    /\ starts[claim] <= 1
    /\ starts[claim] > 0 =>
          /\ claim[3] <= minute
          /\ loop.pc = "woken" => claim[3] < minute
          /\ loop.pc \in {"tasks", "announce"} /\ claim[3] = loop.now => claim \in fired
ClockFits ==
    /\ loop.pc \in {"tasks", "announce"} /\ ~turned => loop.now <= minute
    /\ ~turned => \A claim \in Claims : StartFits(claim)

JobRecord == [pc: {"none", "run", "record", "over"}, step: Nat \ {0}, players: Nat, failed: BOOLEAN,
              expired: BOOLEAN]

JobsFit ==
    /\ jobs \in [Runs -> JobRecord]
    /\ CutShortIsFailed

LivesFit ==
    /\ life \in {"up", "cancelled", "stopping", "saved"}
    /\ NothingRunsAfterTheWait

RequestsFit ==
    /\ tasks \in [Tasks -> [here: BOOLEAN, last: {NoResult, "ok", "failed"}]]
    /\ hand \in [Hands -> [pc: {"idle", "save", "run"}, save: SUBSET Tasks]]
    /\ \A h \in Hands : hand[h].pc = "run" => hand[h].save # {}

JobsInv == LoopFits /\ LogFits /\ ClockFits /\ JobsFit /\ LivesFit /\ RequestsFit

LEMMA JobsInitially == JobsInit => JobsInv
<1> SUFFICES ASSUME JobsInit PROVE JobsInv
  OBVIOUS
<1>1. LoopFits
  BY JobsAssumption DEF JobsInit, LoopFits, Asleep
<1>2. LogFits
  <2>1. \A claim \in Claims : starts[claim] = 0
    BY DEF JobsInit
  <2>2. starts \in [Claims -> Nat] /\ fired = {} /\ restarts = 0 /\ turned = FALSE
    BY DEF JobsInit
  <2>3. ASSUME NEW claim \in Claims
        PROVE  starts[claim] <= restarts + (IF claim \in fired THEN 1 ELSE 0)
    <3>1. claim \notin fired
      BY <2>2
    <3> QED
      BY <2>1, <2>2, <3>1
  <2>4. fired \subseteq Claims /\ restarts \in Nat /\ turned \in BOOLEAN
    BY <2>2
  <2>5. \A claim \in fired : starts[claim] >= 1
    BY <2>2
  <2> QED
    BY <2>2, <2>3, <2>4, <2>5 DEF LogFits
<1>c. ClockFits
  BY DEF JobsInit, ClockFits, StartFits, Asleep
<1>3. NoRun \in JobRecord /\ NoRun.pc = "none"
  BY DEF NoRun, JobRecord
<1>4. JobsFit
  BY <1>3 DEF JobsInit, JobsFit, CutShortIsFailed
<1>5. LivesFit /\ RequestsFit
  BY <1>3 DEF JobsInit, LivesFit, RequestsFit, NothingRunsAfterTheWait, NoResult
<1> QED
  BY <1>1, <1>2, <1>c, <1>4, <1>5 DEF JobsInv

LEMMA MinutesCount == Minutes \subseteq Nat /\ \A claim \in Claims : claim[3] \in Minutes
<1>1. Minutes \subseteq Nat
  BY JobsAssumption
<1>2. \A claim \in Claims : claim[3] \in Minutes
  BY DEF Claims
<1> QED
  BY <1>1, <1>2

LEMMA FireOnce ==
    ASSUME LogFits, NEW claim \in Claims, claim \notin fired, Fires(claim),
           UNCHANGED <<restarts, turned>>
    PROVE  LogFits' /\ claim \in fired' /\ fired \subseteq fired'
<1>1. fired' = fired \cup {claim} /\ starts' = [starts EXCEPT ![claim] = starts[claim] + 1]
      /\ starts \in [Claims -> Nat] /\ fired \subseteq Claims
  BY DEF LogFits, Fires
<1>2. starts[claim] \in Nat /\ restarts \in Nat /\ starts[claim] <= restarts
  BY <1>1 DEF LogFits
<1>3. starts[claim] + 1 \in Nat /\ starts[claim] + 1 <= restarts + 1 /\ starts[claim] + 1 >= 1
  BY <1>2
<1>4. starts' \in [Claims -> Nat] /\ fired' \subseteq Claims
  BY <1>1, <1>3
<1>5. ASSUME NEW c \in Claims
      PROVE  /\ starts'[c] <= restarts' + (IF c \in fired' THEN 1 ELSE 0)
             /\ c \in fired' => starts'[c] >= 1
  <2>1. CASE c = claim
    BY <1>1, <1>3, <2>1
  <2>2. CASE c # claim
    <3>1. starts'[c] = starts[c] /\ (c \in fired' <=> c \in fired)
      BY <1>1, <2>2
    <3> QED
      BY <3>1 DEF LogFits
  <2> QED
    BY <2>1, <2>2
<1> QED
  BY <1>1, <1>2, <1>4, <1>5 DEF LogFits

LEMMA FireInTime ==
    ASSUME LoopFits, LogFits, ClockFits, NEW claim \in Claims, claim \notin fired, Fires(claim),
           loop.pc = "tasks", claim[3] = loop.now,
           loop'.pc \in {"tasks", "announce"}, loop'.now = loop.now, UNCHANGED <<minute, turned>>
    PROVE  ClockFits'
<1>0. minute \in Nat /\ \A c \in Claims : starts[c] \in Nat /\ c[3] \in Nat
  BY MinutesCount DEF LoopFits, LogFits
<1>1. ~turned => starts[claim] = 0
  BY <1>0 DEF ClockFits, StartFits
<1>2. \A c \in Claims : starts'[c] = IF c = claim THEN starts[c] + 1 ELSE starts[c]
  BY DEF LogFits, Fires
<1>3. fired' = fired \cup {claim}
  BY DEF Fires
<1>4. ASSUME ~turned, NEW c \in Claims PROVE StartFits(c)'
  <2>1. CASE c = claim
    <3>1. starts'[c] = 1 /\ c \in fired'
      BY <1>1, <1>2, <1>3, <1>4, <2>1
    <3>2. c[3] <= minute'
      BY <1>4, <2>1 DEF ClockFits
    <3> QED
      BY <3>1, <3>2 DEF StartFits
  <2>2. CASE c # claim
    <3>1. starts'[c] = starts[c] /\ (c \in fired => c \in fired')
      BY <1>2, <1>3, <2>2
    <3>2. StartFits(c)
      BY <1>4 DEF ClockFits
    <3> QED
      BY <3>1, <3>2 DEF StartFits
  <2> QED
    BY <2>1, <2>2
<1> QED
  BY <1>4 DEF ClockFits

LEMMA SpawnKeeps ==
    ASSUME JobsFit, LivesFit, NEW run \in Runs, Spawns(run), UNCHANGED <<life, late>>
    PROVE  JobsFit' /\ LivesFit'
<1> DEFINE new == [NoRun EXCEPT !.pc = "run"]
<1>1. new \in JobRecord /\ new.pc = "run"
  <2>1. NoRun \in JobRecord
    BY DEF NoRun, JobRecord
  <2>2. \A j \in JobRecord : [j EXCEPT !.pc = "run"] \in JobRecord /\ [j EXCEPT !.pc = "run"].pc = "run"
    BY DEF JobRecord
  <2> QED
    BY <2>1, <2>2
<1> HIDE DEF new
<1>2. CASE UNCHANGED jobs
  BY <1>2 DEF JobsFit, LivesFit, CutShortIsFailed, NothingRunsAfterTheWait, Tracked, LastStep
<1>3. CASE ~Stopped /\ jobs' = [jobs EXCEPT ![run] = new]
  BY <1>1, <1>3 DEF JobsFit, LivesFit, CutShortIsFailed, NothingRunsAfterTheWait, LastStep, Stopped
<1> QED
  BY <1>2, <1>3 DEF Spawns, new

LEMMA StepEnds ==
    ASSUME JobsFit, LivesFit, NEW run \in Runs, jobs[run].pc = "run", NEW j \in JobRecord,
           j.pc # "none", j.pc = "record" /\ ~j.failed => j.step = Len(Steps[run[1]]),
           jobs' = [jobs EXCEPT ![run] = j], UNCHANGED <<life, late>>
    PROVE  JobsFit' /\ LivesFit'
BY DEF JobsFit, LivesFit, CutShortIsFailed, NothingRunsAfterTheWait, Tracked, LastStep

\* executeSteps.
LEMMA AfterStepIs ==
    ASSUME JobsFit, NEW run \in Runs, jobs[run].pc = "run", NEW ok \in BOOLEAN
    PROVE  /\ AfterStep(run, ok) \in JobRecord
           /\ AfterStep(run, ok).pc # "none"
           /\ AfterStep(run, ok).pc = "record" /\ ~AfterStep(run, ok).failed
                => AfterStep(run, ok).step = Len(Steps[run[1]])
<1> DEFINE j == jobs[run]
           cut == [j EXCEPT !.pc = "record", !.failed = TRUE]
           done == [j EXCEPT !.pc = "record"]
           more == [j EXCEPT !.step = @ + 1, !.players = 0]
<1>1. j \in JobRecord /\ j.pc = "run"
  BY DEF JobsFit
<1>2. cut \in JobRecord /\ cut.pc = "record" /\ cut.failed
  BY <1>1 DEF JobRecord
<1>3. done \in JobRecord /\ done.pc = "record" /\ done.step = j.step
  BY <1>1 DEF JobRecord
<1>4. more \in JobRecord /\ more.pc = "run"
  <2>1. j.step + 1 \in Nat \ {0}
    BY <1>1 DEF JobRecord
  <2>2. \A n \in Nat \ {0}, m \in Nat : /\ [j EXCEPT !.step = n, !.players = m] \in JobRecord
                                       /\ [j EXCEPT !.step = n, !.players = m].pc = "run"
    BY <1>1 DEF JobRecord
  <2> QED
    BY <2>1, <2>2
<1>5. \/ AfterStep(run, ok) = cut
      \/ AfterStep(run, ok) = done /\ j.step = Len(Steps[run[1]])
      \/ AfterStep(run, ok) = more
  BY DEF AfterStep, LastStep
<1> HIDE DEF j, cut, done, more
<1> QED
  BY <1>2, <1>3, <1>4, <1>5

\* The loop's next state fits, when it looked at nothing new.
LEMMA LogStays == LogFits /\ UNCHANGED <<fired, starts, restarts, turned>> => LogFits'
BY DEF LogFits

LEMMA ClockStays == ClockFits /\ UNCHANGED <<minute, loop, fired, starts, turned>> => ClockFits'
BY DEF ClockFits, StartFits

\* The loop's own steps that act on no claim.
LEMMA ClockSteps ==
    ASSUME LoopFits, LogFits, ClockFits,
           MinutePasses \/ ClockBack \/ Wakes \/ Ends \/ Announced \/ Sleeps
    PROVE  ClockFits'
<1>0. minute \in Nat /\ \A c \in Claims : starts[c] \in Nat /\ c[3] \in Nat
  BY MinutesCount DEF LoopFits, LogFits
<1>1. CASE MinutePasses
  <2>1. minute' = minute + 1 /\ UNCHANGED <<starts, fired, turned>>
    BY <1>1 DEF MinutePasses
  <2>2. \/ loop.pc = "asleep" /\ loop'.pc = "woken"
        \/ loop.pc = "announce" /\ loop' = loop
    BY <1>1 DEF MinutePasses, LoopFits
  <2>3. ASSUME loop.pc = "announce", ~turned PROVE loop.now <= minute'
    <3>1. loop.now <= minute /\ loop.now \in Nat
      BY <2>3, MinutesCount DEF ClockFits, LoopFits
    <3> QED
      BY <1>0, <2>1, <3>1
  <2>4. ASSUME ~turned, NEW c \in Claims PROVE StartFits(c)'
    <3>1. StartFits(c)
      BY <2>4 DEF ClockFits
    <3>2. starts[c] > 0 => c[3] < minute' /\ c[3] <= minute'
      BY <1>0, <2>1, <3>1 DEF StartFits
    <3> QED
      BY <2>1, <2>2, <3>1, <3>2 DEF StartFits
  <2> QED
    BY <2>1, <2>2, <2>3, <2>4 DEF ClockFits
<1>2. CASE ClockBack
  BY <1>2 DEF ClockBack, ClockFits
<1>3. CASE Wakes
  <2>1. loop.pc = "woken" /\ loop'.pc = "tasks" /\ loop'.now = minute
        /\ UNCHANGED <<minute, starts, fired, turned>>
    BY <1>3 DEF Wakes
  <2>2. ASSUME ~turned, NEW c \in Claims PROVE StartFits(c)'
    <3>1. StartFits(c)
      BY <2>2 DEF ClockFits
    <3> QED
      BY <1>0, <2>1, <3>1 DEF StartFits
  <2>3. minute <= minute
    BY <1>0
  <2> QED
    BY <2>1, <2>2, <2>3 DEF ClockFits
<1>4. CASE Ends
  BY <1>4 DEF Ends, Asleep, ClockFits, StartFits
<1>5. CASE Announced
  <2>1. loop.pc = "announce" /\ loop'.pc = "tasks" /\ loop'.now = loop.now
        /\ UNCHANGED <<minute, starts, fired, turned>>
    BY <1>5 DEF Announced, LoopFits
  <2> QED
    BY <2>1 DEF ClockFits, StartFits
<1>6. CASE Sleeps
  <2>1. loop'.pc = "asleep" /\ UNCHANGED <<minute, starts, fired, turned>>
    BY <1>6 DEF Sleeps, LoopFits
  <2> QED
    BY <2>1 DEF ClockFits, StartFits
<1> QED
  BY <1>1, <1>2, <1>3, <1>4, <1>5, <1>6

LEMMA JobsStay == JobsFit /\ UNCHANGED jobs => JobsFit'
BY DEF JobsFit, CutShortIsFailed, LastStep

LEMMA LivesStay == LivesFit /\ UNCHANGED <<jobs, life, late>> => LivesFit'
BY DEF LivesFit, NothingRunsAfterTheWait, Tracked

LEMMA RequestsStay == RequestsFit /\ UNCHANGED <<tasks, hand>> => RequestsFit'
BY DEF RequestsFit

LEMMA LoopStays == LoopFits /\ UNCHANGED <<minute, loop>> /\ fired \subseteq fired' => LoopFits'
BY DEF LoopFits

LEMMA LoopStep ==
    ASSUME JobsInv, LoopSteps \/ MinutePasses \/ ClockBack
    PROVE  JobsInv'
<1>0. LoopFits /\ LogFits /\ ClockFits /\ JobsFit /\ LivesFit /\ RequestsFit
  BY DEF JobsInv
<1> USE DEF JobsInv
<1>1. CASE MinutePasses
  <2>1. LoopFits'
    BY <1>0, <1>1 DEF MinutePasses, LoopFits
  <2> QED
    BY <1>0, <1>1, <2>1, LogStays, ClockSteps, JobsStay, LivesStay, RequestsStay DEF MinutePasses
<1>2. CASE ClockBack
  <2>1. LoopFits'
    BY <1>0, <1>2 DEF ClockBack, LoopFits
  <2>2. LogFits'
    BY <1>0, <1>2 DEF ClockBack, LogFits
  <2> QED
    BY <1>0, <1>2, <2>1, <2>2, ClockSteps, JobsStay, LivesStay, RequestsStay DEF ClockBack
<1>3. CASE Wakes
  <2>1. LoopFits'
    BY <1>0, <1>3 DEF Wakes, LoopFits
  <2> QED
    BY <1>0, <1>3, <2>1, LogStays, ClockSteps, JobsStay, LivesStay, RequestsStay DEF Wakes
<1>4. CASE Ends
  <2>1. LoopFits'
    BY <1>0, <1>4 DEF Ends, LoopFits, Asleep
  <2> QED
    BY <1>0, <1>4, <2>1, LogStays, ClockSteps, JobsStay, LivesStay, RequestsStay DEF Ends
<1>5. CASE Announced
  <2>1. LoopFits'
    BY <1>0, <1>5 DEF Announced, LoopFits
  <2> QED
    BY <1>0, <1>5, <2>1, LogStays, ClockSteps, JobsStay, LivesStay, RequestsStay DEF Announced
<1>6. CASE Sleeps
  <2>1. LoopFits'
    BY <1>0, <1>6 DEF Sleeps, LoopFits
  <2> QED
    BY <1>0, <1>6, <2>1, LogStays, ClockSteps, JobsStay, LivesStay, RequestsStay DEF Sleeps
<1>7. ASSUME NEW t \in Tasks, Warns(t) PROVE JobsInv'
  <2>1. PICK claim \in Warnings(t) : claim \notin fired /\ Fires(claim)
    BY <1>7 DEF Warns, Claimed
  <2>2. claim \in Claims
    <3>1. PICK n \in Leads[t] : claim = <<t, n, loop.now>>
      BY <2>1 DEF Warnings
    <3>2. loop.now \in Minutes
      BY <1>0, <1>7 DEF LoopFits, Warns
    <3>3. n \in UNION {Leads[x] : x \in Tasks}
      BY <3>1
    <3> QED
      BY <3>1, <3>2, <3>3 DEF Claims
  <2>3. LogFits' /\ fired \subseteq fired'
    BY <1>0, <1>7, <2>1, <2>2, FireOnce DEF Warns
  <2>4. LoopFits'
    BY <1>0, <1>7, <2>3 DEF Warns, LoopFits
  <2>5. ClockFits'
    <3>1. claim[3] = loop.now
      BY <2>1 DEF Warnings
    <3>2. loop.pc = "tasks" /\ loop'.pc = "announce" /\ loop'.now = loop.now /\ UNCHANGED <<minute, turned>>
      BY <1>0, <1>7 DEF Warns, LoopFits
    <3> QED
      BY <1>0, <2>1, <2>2, <3>1, <3>2, FireInTime
  <2> QED
    BY <1>0, <1>7, <2>3, <2>4, <2>5, JobsStay, LivesStay, RequestsStay DEF Warns
<1>8. ASSUME NEW t \in Tasks, Looks(t) PROVE JobsInv'
  <2> DEFINE claim == <<t, 0, loop.now>>
  <2>0. loop.now \in Minutes
    BY <1>0, <1>8 DEF LoopFits, Looks
  <2>1. claim \in Claims /\ <<t, loop.now>> \in Runs
    BY <2>0 DEF Claims, Runs
  <2>2. CASE loop.now \in Due[t] /\ ~Claimed(claim)
    <3>1. Fires(claim) /\ Spawns(<<t, loop.now>>)
      BY <1>8, <2>2 DEF Looks
    <3>2. LogFits' /\ claim \in fired' /\ fired \subseteq fired'
      BY <1>0, <1>8, <2>1, <2>2, <3>1, FireOnce DEF Claimed, Looks
    <3>3. JobsFit' /\ LivesFit'
      BY <1>0, <1>8, <2>1, <3>1, SpawnKeeps DEF Looks
    <3>4. LoopFits'
      BY <1>0, <1>8, <3>2 DEF Looks, LoopFits
    <3>5. claim[3] = loop.now /\ claim \notin fired
      BY <2>2 DEF Claimed
    <3>6. loop.pc = "tasks" /\ loop'.pc = "tasks" /\ loop'.now = loop.now /\ UNCHANGED <<minute, turned>>
      BY <1>0, <1>8 DEF Looks, LoopFits
    <3>7. ClockFits'
      BY <1>0, <2>1, <3>1, <3>5, <3>6, FireInTime
    <3> QED
      BY <1>0, <1>8, <3>2, <3>3, <3>4, <3>7, RequestsStay DEF Looks
  <2>3. CASE ~(loop.now \in Due[t] /\ ~Claimed(claim))
    <3>1. UNCHANGED <<fired, starts, jobs>>
      BY <1>8, <2>3 DEF Looks
    <3>2. LoopFits'
      BY <1>0, <1>8, <2>3, <3>1 DEF Looks, LoopFits, Claimed
    <3>3. ClockFits'
      <4>1. loop'.pc = loop.pc /\ loop'.now = loop.now /\ UNCHANGED <<minute, fired, starts, turned>>
        BY <1>0, <1>8, <3>1 DEF Looks, LoopFits
      <4> QED
        BY <1>0, <4>1 DEF ClockFits, StartFits
    <3> QED
      BY <1>0, <1>8, <3>1, <3>2, <3>3, LogStays, JobsStay, LivesStay, RequestsStay DEF Looks
  <2> QED
    BY <2>2, <2>3
<1> QED
  BY <1>1, <1>2, <1>3, <1>4, <1>5, <1>6, <1>7, <1>8 DEF LoopSteps

LEMMA RunStep ==
    ASSUME JobsInv, NEW run \in Runs, RunSteps(run)
    PROVE  JobsInv'
<1>0. LoopFits /\ LogFits /\ ClockFits /\ JobsFit /\ LivesFit /\ RequestsFit
  BY DEF JobsInv
<1>a. jobs[run] \in JobRecord
  BY <1>0 DEF JobsFit
<1>1. CASE Waits(run)
  <2>1. PICK ok \in BOOLEAN : jobs' = [jobs EXCEPT ![run] = AfterStep(run, ok)]
    BY <1>1 DEF Waits
  <2>2. JobsFit' /\ LivesFit'
    BY <1>0, <1>1, <2>1, AfterStepIs, StepEnds DEF Waits
  <2> QED
    BY <1>0, <1>1, <2>2, LoopStays, LogStays, ClockStays, RequestsStay DEF Waits, JobsInv
<1>2. CASE Acts(run)
  <2>1. ASSUME NEW ok \in BOOLEAN, jobs' = [jobs EXCEPT ![run] = AfterStep(run, ok)]
        PROVE  JobsFit' /\ LivesFit'
    BY <1>0, <1>2, <2>1, AfterStepIs, StepEnds DEF Acts
  <2>2. ASSUME jobs' = [jobs EXCEPT ![run].players = @ + 1]
        PROVE  JobsFit' /\ LivesFit'
    <3> DEFINE j == [jobs[run] EXCEPT !.players = @ + 1]
    <3>1. \A m \in Nat : /\ [jobs[run] EXCEPT !.players = m] \in JobRecord
                         /\ [jobs[run] EXCEPT !.players = m].pc = jobs[run].pc
      BY <1>a DEF JobRecord
    <3>2. jobs[run].players + 1 \in Nat
      BY <1>a DEF JobRecord
    <3>3. j \in JobRecord /\ j.pc = "run"
      BY <1>2, <3>1, <3>2 DEF Acts
    <3>4. jobs' = [jobs EXCEPT ![run] = j]
      BY <2>2
    <3> HIDE DEF j
    <3> QED
      BY <1>0, <1>2, <3>3, <3>4, StepEnds DEF Acts
  <2>3. JobsFit' /\ LivesFit'
    BY <1>2, <2>1, <2>2 DEF Acts
  <2> QED
    BY <1>0, <1>2, <2>3, LoopStays, LogStays, ClockStays, RequestsStay DEF Acts, JobsInv
<1>3. CASE Records(run)
  <2> DEFINE j == [jobs[run] EXCEPT !.pc = "over"]
  <2>1. j \in JobRecord /\ j.pc = "over"
    BY <1>a DEF JobRecord
  <2>2. jobs' = [jobs EXCEPT ![run] = j] /\ jobs[run].pc = "record"
    BY <1>3 DEF Records
  <2> HIDE DEF j
  <2>3. JobsFit'
    BY <1>0, <2>1, <2>2 DEF JobsFit, CutShortIsFailed, LastStep
  <2>4. LivesFit'
    BY <1>0, <1>3, <2>1, <2>2 DEF JobsFit, LivesFit, NothingRunsAfterTheWait, Tracked, Records
  <2>5. RequestsFit'
    BY <1>0, <1>3 DEF RequestsFit, Records, Runs
  <2> QED
    BY <1>0, <1>3, <2>3, <2>4, <2>5, LoopStays, LogStays, ClockStays DEF Records, JobsInv
<1>4. CASE Expires(run)
  <2> DEFINE j == [jobs[run] EXCEPT !.expired = TRUE]
  <2>1. j \in JobRecord /\ j.pc = "run"
    BY <1>a, <1>4 DEF JobRecord, Expires
  <2>2. jobs' = [jobs EXCEPT ![run] = j]
    BY <1>4 DEF Expires
  <2> HIDE DEF j
  <2>3. JobsFit' /\ LivesFit'
    BY <1>0, <1>4, <2>1, <2>2, StepEnds DEF Expires
  <2> QED
    BY <1>0, <1>4, <2>3, LoopStays, LogStays, ClockStays, RequestsStay DEF Expires, JobsInv
<1> QED
  BY <1>1, <1>2, <1>3, <1>4 DEF RunSteps

LEMMA EditedIs ==
    ASSUME RequestsFit, NEW t \in Tasks, NEW save \in SUBSET Tasks
    PROVE  Edited(t, save) \in [here: BOOLEAN, last: {NoResult, "ok", "failed"}]
BY DEF RequestsFit, Edited

LEMMA HandStep ==
    ASSUME JobsInv, NEW h \in Hands,
           Handler(h) \/ EditReads(h) \/ \E t \in Tasks : RunReads(h, t)
    PROVE  JobsInv'
<1>0. LoopFits /\ LogFits /\ ClockFits /\ JobsFit /\ LivesFit /\ RequestsFit
  BY DEF JobsInv
<1>1. CASE EditSaves(h)
  <2>1. RequestsFit'
    BY <1>0, <1>1, EditedIs DEF RequestsFit, EditSaves, Then
  <2> QED
    BY <1>0, <1>1, <2>1, LoopStays, LogStays, ClockStays, JobsStay, LivesStay DEF EditSaves, JobsInv
<1>2. CASE RunSpawns(h)
  <2>1. PICK t \in hand[h].save : Spawns(<<t, 0>>)
    BY <1>2 DEF RunSpawns
  <2>2. <<t, 0>> \in Runs
    BY <1>0, <2>1 DEF RequestsFit, Runs
  <2>3. JobsFit' /\ LivesFit'
    BY <1>0, <1>2, <2>1, <2>2, SpawnKeeps DEF RunSpawns
  <2>4. RequestsFit'
    BY <1>0, <1>2 DEF RequestsFit, RunSpawns, Then
  <2> QED
    BY <1>0, <1>2, <2>3, <2>4, LoopStays, LogStays, ClockStays DEF RunSpawns, JobsInv
<1>3. CASE EditReads(h)
  <2>1. RequestsFit'
    BY <1>0, <1>3 DEF RequestsFit, EditReads, Then
  <2> QED
    BY <1>0, <1>3, <2>1, LoopStays, LogStays, ClockStays, JobsStay, LivesStay DEF EditReads, JobsInv
<1>4. ASSUME NEW t \in Tasks, RunReads(h, t) PROVE JobsInv'
  <2>1. RequestsFit'
    BY <1>0, <1>4 DEF RequestsFit, RunReads, Then
  <2> QED
    BY <1>0, <1>4, <2>1, LoopStays, LogStays, ClockStays, JobsStay, LivesStay DEF RunReads, JobsInv
<1> QED
  BY <1>1, <1>2, <1>3, <1>4 DEF Handler

LEMMA JobsStep == JobsInv /\ [JobsNext]_jobsVars => JobsInv'
<1> SUFFICES ASSUME JobsInv, [JobsNext]_jobsVars PROVE JobsInv'
  OBVIOUS
<1>0. LoopFits /\ LogFits /\ ClockFits /\ JobsFit /\ LivesFit /\ RequestsFit
  BY DEF JobsInv
<1>1. CASE UNCHANGED jobsVars
  BY <1>0, <1>1, LoopStays, LogStays, ClockStays, JobsStay, LivesStay, RequestsStay DEF jobsVars, JobsInv
<1>2. CASE ServerRemoved
  <2>1. RequestsFit'
    BY <1>0, <1>2 DEF RequestsFit, ServerRemoved
  <2> QED
    BY <1>0, <1>2, <2>1, LoopStays, LogStays, ClockStays, JobsStay, LivesStay DEF ServerRemoved, JobsInv
<1>3. CASE ShutdownBegins
  <2>1. LivesFit'
    BY <1>0, <1>3 DEF LivesFit, ShutdownBegins, NothingRunsAfterTheWait
  <2> QED
    BY <1>0, <1>3, <2>1, LoopStays, LogStays, ClockStays, JobsStay, RequestsStay DEF ShutdownBegins, JobsInv
<1>4. CASE CloseStops
  <2>1. LivesFit'
    BY <1>0, <1>4 DEF LivesFit, CloseStops, NothingRunsAfterTheWait
  <2> QED
    BY <1>0, <1>4, <2>1, LoopStays, LogStays, ClockStays, JobsStay, RequestsStay DEF CloseStops, JobsInv
<1>5. CASE CloseSaves
  <2>1. LivesFit'
    BY <1>0, <1>5 DEF LivesFit, CloseSaves, NothingRunsAfterTheWait, Tracked
  <2> QED
    BY <1>0, <1>5, <2>1, LoopStays, LogStays, ClockStays, JobsStay, RequestsStay DEF CloseSaves, JobsInv
<1>6. CASE Restarts
  <2>1. LoopFits'
    BY <1>0, <1>6 DEF LoopFits, Restarts, Asleep
  <2>2. LogFits'
    BY <1>0, <1>6 DEF LogFits, Restarts
  <2>3. ClockFits'
    <3>1. /\ minute \in Nat /\ minute' \in Nat /\ minute <= minute'
          /\ \A c \in Claims : starts[c] \in Nat /\ c[3] \in Nat
      BY <1>0, <1>6, MinutesCount DEF LoopFits, LogFits, Restarts
    <3>2. loop'.pc = "asleep" /\ UNCHANGED <<starts, turned>>
      BY <1>6 DEF Restarts, Asleep
    <3> QED
      BY <1>0, <3>1, <3>2 DEF ClockFits, StartFits
  <2>4. NoRun \in JobRecord /\ NoRun.pc = "none"
    BY DEF NoRun, JobRecord
  <2>5. JobsFit' /\ LivesFit'
    BY <1>6, <2>4 DEF Restarts, JobsFit, LivesFit, CutShortIsFailed, NothingRunsAfterTheWait
  <2>6. RequestsFit'
    BY <1>0, <1>6 DEF RequestsFit, Restarts
  <2> QED
    BY <2>1, <2>2, <2>3, <2>5, <2>6 DEF JobsInv
<1> QED
  BY <1>1, <1>2, <1>3, <1>4, <1>5, <1>6, LoopStep, RunStep, HandStep DEF JobsNext

LEMMA JobsHold == JobsInv => JobsTypeOK /\ FiresOncePerMinute /\ StopsCleanly
<1> SUFFICES ASSUME JobsInv PROVE JobsTypeOK /\ FiresOncePerMinute /\ StopsCleanly
  OBVIOUS
<1>0. LoopFits /\ LogFits /\ ClockFits /\ JobsFit /\ LivesFit /\ RequestsFit
  BY DEF JobsInv
<1>1. JobsTypeOK
  BY <1>0 DEF LoopFits, LogFits, JobsFit, LivesFit, RequestsFit, JobsTypeOK, JobRecord
<1>2. AtMostOnce
  <2> SUFFICES ASSUME NEW claim \in Claims
               PROVE  starts[claim] <= IF turned THEN 1 + restarts ELSE 1
    BY DEF AtMostOnce
  <2>1. starts[claim] \in Nat /\ restarts \in Nat
        /\ starts[claim] <= restarts + (IF claim \in fired THEN 1 ELSE 0)
    BY <1>0 DEF LogFits
  <2>2. ~turned => starts[claim] <= 1
    BY <1>0 DEF ClockFits, StartFits
  <2> QED
    BY <2>1, <2>2
<1>3. NoneLeftOut
  <2> SUFFICES ASSUME loop.pc = "asleep", NEW t \in loop.copy, loop.now \in Due[t]
               PROVE  starts[<<t, 0, loop.now>>] > 0
    BY DEF NoneLeftOut
  <2>1. <<t, 0, loop.now>> \in fired
    BY <1>0 DEF LoopFits
  <2>2. starts[<<t, 0, loop.now>>] >= 1 /\ <<t, 0, loop.now>> \in Claims
    BY <1>0, <2>1 DEF LogFits
  <2>3. starts[<<t, 0, loop.now>>] \in Nat
    BY <1>0, <2>2 DEF LogFits
  <2> QED
    BY <2>2, <2>3
<1> QED
  BY <1>0, <1>1, <1>2, <1>3 DEF FiresOncePerMinute, StopsCleanly, JobsFit, LivesFit

LEMMA RunsKeepResults ==
    ASSUME RequestsFit, NEW run \in Runs, RunSteps(run), NEW t \in Tasks,
           tasks[t].here, tasks'[t].here, tasks[t].last # NoResult
    PROVE  tasks'[t].last # NoResult
<1>1. CASE Records(run)
  <2>1. run[1] \in Tasks /\ tasks \in [Tasks -> [here: BOOLEAN, last: {NoResult, "ok", "failed"}]]
    BY DEF RequestsFit, Runs
  <2>2. tasks' = [tasks EXCEPT ![run[1]].last =
                    IF ~tasks[run[1]].here THEN @ ELSE IF jobs[run].failed THEN "failed" ELSE "ok"]
    BY <1>1 DEF Records
  <2>3. CASE t = run[1]
    BY <2>1, <2>2, <2>3 DEF NoResult
  <2>4. CASE t # run[1]
    BY <2>1, <2>2, <2>4
  <2> QED
    BY <2>3, <2>4
<1>2. CASE Expires(run) \/ Waits(run) \/ Acts(run)
  BY <1>2 DEF Expires, Waits, Acts
<1> QED
  BY <1>1, <1>2 DEF RunSteps

\* Only a save of the editor, the end of a job and the removal of the server
\* change the schedules.
LEMMA EditsKeepStep ==
    ASSUME RequestsFit, [JobsNext]_jobsVars, NEW t \in Tasks,
           tasks[t].here, tasks'[t].here, tasks[t].last # NoResult
    PROVE  tasks'[t].last # NoResult
<1>1. ASSUME NEW h \in Hands, EditSaves(h) PROVE tasks'[t].last # NoResult
  BY <1>1 DEF EditSaves, Edited
<1>2. ASSUME ServerRemoved PROVE FALSE
  <2>1. tasks' = [u \in Tasks |-> [here |-> FALSE, last |-> NoResult]]
    BY <1>2 DEF ServerRemoved
  <2>2. tasks'[t].here = FALSE
    BY <2>1
  <2> QED
    BY <2>2
<1>3. ASSUME NEW run \in Runs, RunSteps(run) PROVE tasks'[t].last # NoResult
  BY <1>3, RunsKeepResults
<1>4. ASSUME UNCHANGED tasks PROVE tasks'[t].last # NoResult
  BY <1>4
<1>5. ASSUME NEW h \in Hands, RunSpawns(h) \/ EditReads(h) \/ \E u \in Tasks : RunReads(h, u)
      PROVE  UNCHANGED tasks
  BY <1>5 DEF RunSpawns, EditReads, RunReads
<1>6. MinutePasses \/ ClockBack \/ LoopSteps \/ ShutdownBegins \/ CloseStops \/ CloseSaves \/ Restarts
         \/ UNCHANGED jobsVars => UNCHANGED tasks
  BY DEF MinutePasses, ClockBack, LoopSteps, Wakes, Ends, Announced, Sleeps, Warns, Looks,
         ShutdownBegins, CloseStops, CloseSaves, Restarts, jobsVars
<1> QED
  BY <1>1, <1>2, <1>3, <1>4, <1>5, <1>6 DEF JobsNext, Handler

---------------------------------------------------------------------------
(***************************************************************************)
(* Settings: the configuration, the copies the handlers hold, the notifier. *)
(***************************************************************************)

\* Channels that post nowhere, through the bot, or to their own address.
Apart == {posts \in [Channels -> AnyTarget] : \A c \in Channels : posts[c] \in Targets(c)}

\* What a browser may post: the same, or the placeholder.
Submitted == {posts \in [Channels -> AnyTarget \cup {Redacted}] :
             \A c \in Channels : posts[c] \in Targets(c) \cup {Redacted}}

GoodConfs == [bot : BotTokens \cup {NoBot}, token : Nat, posts : Apart]
GoodForms == [at : {"idle", "settings", "connect", "remove", "apply"}, prev : GoodConfs,
              posted : Submitted, holds : {"none", "channels", "throttle", "metrics", "bot"},
              bot : BotTokens \cup {NoBot}]

\* The configuration, its file and the copies the handlers hold are good: a
\* form is restored from the copy its handler read, however old that is.
ConfsFit ==
    /\ conf \in GoodConfs /\ confFile \in GoodConfs /\ entered \in GoodConfs
    /\ form \in [Clerks -> GoodForms]

\* A token is a number that was given out; memory always has one, and so has the
\* file from the first save on.
TokensFit ==
    /\ forms \in 0..MaxForms /\ mishaps \in 0..MaxMishaps
    /\ tokensMade \in Nat /\ tokensMade >= 1 /\ tokensMade <= forms + mishaps + 1
    /\ conf.token >= 1 /\ conf.token <= tokensMade
    /\ confFile.token <= tokensMade /\ entered.token <= tokensMade
    /\ \A p \in Clerks : form[p].prev.token >= 1 /\ form[p].prev.token <= tokensMade
    /\ confFile.token = 0 => entered.token = 0

FileFits ==
    conf = confFile \/ (confFile.token = 0 /\ conf = [confFile EXCEPT !.token = conf.token])

\* Who is about to save a bot has one, who is about to remove it saw no channel
\* that posts through it.
WishesFit ==
    \A p \in Clerks :
        /\ form[p].at = "settings" => form[p].holds \in {"channels", "throttle", "metrics"}
        /\ form[p].at = "connect" => form[p].bot # NoBot
        /\ form[p].at = "remove" => \A c \in Channels : form[p].prev.posts[c] # <<"bot">>

\* What no outdated copy was saved over is what was last asked for.
KeptFits ==
    /\ undone \subseteq {"bot", "token", "posts"}
    /\ "bot" \notin undone => conf.bot = entered.bot
    /\ "token" \notin undone /\ entered.token # 0 => conf.token = entered.token
    /\ "posts" \notin undone => conf.posts = entered.posts /\ Valid(conf.posts, conf.bot)

\* The handler that saved last is about to tell the notifier what it saved.
NotifierFits ==
    /\ notifying.bot \in BotTokens \cup {NoBot} /\ notifying.posts \in [Channels -> AnyTarget]
    /\ newest \in Clerks \cup {"told", "mixed"}
    /\ newest = "told" => notifying = Notified(conf)
    /\ newest \in Clerks => form[newest].at = "apply" /\ Notified(form[newest].prev) = Notified(conf)

SettingsInv == ConfsFit /\ TokensFit /\ FileFits /\ WishesFit /\ KeptFits /\ NotifierFits

LEMMA OffIsApart == [c \in Channels |-> <<"off">>] \in Apart
BY DEF Apart, AnyTarget, Targets

LEMMA ApartIsPosted == Apart \subseteq Submitted
BY DEF Apart, Submitted

\* UnredactWebhooks and validateWebhooks: what was posted, with the placeholders
\* replaced, and nothing that is on without an address.
LEMMA RestoredIsApart ==
    ASSUME NEW posted \in Submitted, NEW prev \in Apart, NEW b, Valid(Restored(posted, prev), b)
    PROVE  Restored(posted, prev) \in Apart
<1>1. \A c \in Channels : Restored(posted, prev)[c] \in Targets(c)
  <2> TAKE c \in Channels
  <2>1. Restored(posted, prev)[c] # NoAddress
    BY DEF Valid
  <2>2. posted[c] \in Targets(c) \cup {Redacted} /\ prev[c] \in Targets(c)
    BY DEF Submitted, Apart
  <2>3. Restored(posted, prev)[c] = IF posted[c] # Redacted THEN posted[c]
                                    ELSE IF prev[c] = Address(c) THEN prev[c] ELSE NoAddress
    BY DEF Restored
  <2> QED
    BY <2>1, <2>2, <2>3
<1>2. \A c \in Channels : Targets(c) \subseteq AnyTarget
  BY DEF AnyTarget
<1>3. Restored(posted, prev) = [c \in Channels |-> Restored(posted, prev)[c]]
  BY DEF Restored
<1>4. Restored(posted, prev) \in [Channels -> AnyTarget]
  BY <1>1, <1>2, <1>3
<1> QED
  BY <1>1, <1>4 DEF Apart

LEMMA IdleIsGood ==
    ASSUME NEW c \in GoodConfs
    PROVE  NoForm(c) \in GoodForms
BY ApartIsPosted DEF NoForm, GoodForms, GoodConfs

LEMMA NotifiedIs ==
    ASSUME NEW c \in GoodConfs
    PROVE  Notified(c).bot \in BotTokens \cup {NoBot} /\ Notified(c).posts \in [Channels -> AnyTarget]
<1>1. c.posts \in [Channels -> AnyTarget] /\ c.bot \in BotTokens \cup {NoBot}
  BY DEF GoodConfs, Apart
<1>2. \A x \in Channels : <<"off">> \in AnyTarget
  BY DEF AnyTarget, Targets
<1>3. [x \in Channels |-> IF c.posts[x] = <<"bot">> /\ c.bot = NoBot THEN <<"off">>
                          ELSE c.posts[x]] \in [Channels -> AnyTarget]
  BY <1>1, <1>2
<1> QED
  BY <1>1, <1>3 DEF Notified

\* The metrics token is none of the notifier's business.
LEMMA TokenIsNotNotified ==
    ASSUME NEW c \in GoodConfs, NEW n \in Nat
    PROVE  Notified([c EXCEPT !.token = n]) = Notified(c) /\ [c EXCEPT !.token = n] \in GoodConfs
           /\ [c EXCEPT !.token = n].bot = c.bot /\ [c EXCEPT !.token = n].posts = c.posts
           /\ [c EXCEPT !.token = n].token = n
<1>1. /\ [c EXCEPT !.token = n] \in GoodConfs
      /\ [c EXCEPT !.token = n].bot = c.bot /\ [c EXCEPT !.token = n].posts = c.posts
      /\ [c EXCEPT !.token = n].token = n
  BY DEF GoodConfs
<1> QED
  BY <1>1 DEF Notified

LEMMA BotIs ==
    ASSUME NEW c \in GoodConfs, NEW b \in BotTokens \cup {NoBot}
    PROVE  /\ [c EXCEPT !.bot = b] \in GoodConfs /\ [c EXCEPT !.bot = b].bot = b
           /\ [c EXCEPT !.bot = b].token = c.token /\ [c EXCEPT !.bot = b].posts = c.posts
BY DEF GoodConfs

LEMMA PostsAre ==
    ASSUME NEW c \in GoodConfs, NEW posts \in Apart
    PROVE  /\ [c EXCEPT !.posts = posts] \in GoodConfs /\ [c EXCEPT !.posts = posts].bot = c.bot
           /\ [c EXCEPT !.posts = posts].token = c.token /\ [c EXCEPT !.posts = posts].posts = posts
BY DEF GoodConfs

LEMMA SettingsInitially == SettingsInit => SettingsInv
<1> SUFFICES ASSUME SettingsInit PROVE SettingsInv
  OBVIOUS
<1>1. /\ confFile \in GoodConfs /\ confFile.bot = NoBot /\ confFile.token = 0
      /\ confFile.posts = [c \in Channels |-> <<"off">>]
  BY OffIsApart DEF SettingsInit, GoodConfs
<1>2. tokensMade = 1 /\ conf = [confFile EXCEPT !.token = 1] /\ entered = confFile
  BY DEF SettingsInit
<1>3. conf \in GoodConfs /\ conf.bot = NoBot /\ conf.posts = confFile.posts /\ conf.token = 1
  BY <1>1, <1>2, TokenIsNotNotified
<1>4. NoForm(conf) \in GoodForms /\ NoForm(conf).at = "idle" /\ NoForm(conf).prev = conf
  BY <1>3, IdleIsGood DEF NoForm
<1>5. form = [p \in Clerks |-> NoForm(conf)] /\ forms = 0 /\ mishaps = 0 /\ newest = "told"
      /\ undone = {} /\ notifying = Notified(conf)
  BY DEF SettingsInit
<1>6. ConfsFit
  BY <1>1, <1>2, <1>3, <1>4, <1>5 DEF ConfsFit
<1>7. TokensFit
  <2>1. /\ conf.token = 1 /\ confFile.token = 0 /\ entered.token = 0 /\ tokensMade = 1
        /\ forms = 0 /\ mishaps = 0
    BY <1>1, <1>2, <1>3, <1>5
  <2>2. \A p \in Clerks : form[p].prev.token = 1
    BY <1>3, <1>4, <1>5
  <2>3. 0 \in 0..MaxForms /\ 0 \in 0..MaxMishaps
    BY SettingsAssumption
  <2> QED
    BY <2>1, <2>2, <2>3 DEF TokensFit
<1>8. FileFits
  BY <1>1, <1>2, <1>3 DEF FileFits
<1>9. WishesFit
  BY <1>4, <1>5 DEF WishesFit
<1>10. KeptFits
  <2>1. Valid(conf.posts, conf.bot)
    BY <1>1, <1>3 DEF Valid, NoAddress
  <2> QED
    BY <1>1, <1>2, <1>3, <1>5, <2>1 DEF KeptFits
<1>11. NotifierFits
  BY <1>3, <1>5, NotifiedIs, SettingsAssumption DEF NotifierFits
<1> QED
  BY <1>6, <1>7, <1>8, <1>9, <1>10, <1>11 DEF SettingsInv

\* A handler is done and has told the notifier if it saved.
LEMMA EndStep ==
    ASSUME SettingsInv, NEW p \in Clerks, FormEnds(p),
           UNCHANGED <<conf, confFile, tokensMade, forms, entered, undone>>,
           mishaps' \in 0..MaxMishaps, mishaps <= mishaps',
           \/ form[p].at # "apply" /\ UNCHANGED <<notifying, newest>>
           \/ /\ form[p].at = "apply" /\ notifying' = Notified(form[p].prev)
              /\ newest' = IF newest = p THEN "told" ELSE IF newest = "told" THEN "mixed" ELSE newest
    PROVE  SettingsInv'
<1>0. ConfsFit /\ TokensFit /\ FileFits /\ WishesFit /\ KeptFits /\ NotifierFits
  BY DEF SettingsInv
<1> DEFINE f == NoForm(form[p].prev)
<1>1. form[p] \in GoodForms /\ form[p].prev \in GoodConfs
  BY <1>0 DEF ConfsFit, GoodForms
<1>2. f \in GoodForms /\ f.at = "idle" /\ f.prev = form[p].prev
  BY <1>1, IdleIsGood DEF NoForm
<1>3. form' = [form EXCEPT ![p] = f]
  BY DEF FormEnds
<1> HIDE DEF f
<1>4. ConfsFit'
  BY <1>0, <1>2, <1>3 DEF ConfsFit
<1>5. \A q \in Clerks : form'[q] = IF q = p THEN f ELSE form[q]
  BY <1>0, <1>3 DEF ConfsFit
<1>6. TokensFit'
  <2>1. \A q \in Clerks : form'[q].prev.token >= 1 /\ form'[q].prev.token <= tokensMade'
    BY <1>0, <1>2, <1>5 DEF TokensFit
  <2>2. tokensMade' <= forms' + mishaps' + 1
    BY <1>0 DEF TokensFit
  <2> QED
    BY <1>0, <2>1, <2>2 DEF TokensFit
<1>7. WishesFit'
  BY <1>0, <1>2, <1>5 DEF WishesFit
<1>8. FileFits' /\ KeptFits'
  BY <1>0 DEF FileFits, KeptFits, Valid
<1>9. NotifierFits'
  <2>1. notifying'.bot \in BotTokens \cup {NoBot} /\ notifying'.posts \in [Channels -> AnyTarget]
    BY <1>0, <1>1, NotifiedIs DEF NotifierFits
  <2>2. newest' \in Clerks => newest' = newest /\ newest # p
    BY <1>0, SettingsAssumption DEF NotifierFits
  <2>3. newest' \in Clerks => form'[newest'].at = "apply" /\ Notified(form'[newest'].prev) = Notified(conf)
    BY <1>0, <1>5, <2>2 DEF NotifierFits
  <2>4. newest' = "told" => notifying' = Notified(conf)
    BY <1>0, SettingsAssumption DEF NotifierFits
  <2>5. Notified(conf') = Notified(conf)
    OBVIOUS
  <2>6. newest' \in Clerks \cup {"told", "mixed"}
    BY <1>0 DEF NotifierFits
  <2> QED
    BY <2>1, <2>3, <2>4, <2>6 DEF NotifierFits, Notified
<1> QED
  BY <1>4, <1>6, <1>7, <1>8, <1>9 DEF SettingsInv

\* A handler begins with what it read.
LEMMA BeginStep ==
    ASSUME SettingsInv, NEW p \in Clerks, NEW f \in GoodForms, Begins(p, f),
           f.prev = conf, f.at # "apply", f.at = "connect" => f.bot # NoBot,
           f.at = "settings" => f.holds \in {"channels", "throttle", "metrics"},
           f.at = "remove" => \A c \in Channels : conf.posts[c] # <<"bot">>
    PROVE  SettingsInv'
<1>0. ConfsFit /\ TokensFit /\ FileFits /\ WishesFit /\ KeptFits /\ NotifierFits
  BY DEF SettingsInv
<1>1. /\ form' = [form EXCEPT ![p] = f] /\ ~Busy(p) /\ forms < MaxForms /\ forms' = forms + 1
      /\ UNCHANGED <<conf, confFile, notifying, tokensMade, mishaps, entered, undone, newest>>
  BY DEF Begins
<1>2. ConfsFit'
  BY <1>0, <1>1 DEF ConfsFit
<1>3. \A q \in Clerks : form'[q] = IF q = p THEN f ELSE form[q]
  BY <1>0, <1>1 DEF ConfsFit
<1>4. TokensFit'
  <2>1. forms' \in 0..MaxForms /\ tokensMade' <= forms' + mishaps' + 1
    BY <1>0, <1>1, SettingsAssumption DEF TokensFit
  <2>2. \A q \in Clerks : form'[q].prev.token >= 1 /\ form'[q].prev.token <= tokensMade'
    BY <1>0, <1>1, <1>3 DEF TokensFit
  <2> QED
    BY <1>0, <1>1, <2>1, <2>2 DEF TokensFit
<1>5. WishesFit'
  BY <1>0, <1>3 DEF WishesFit
<1>6. FileFits' /\ KeptFits'
  BY <1>0, <1>1 DEF FileFits, KeptFits, Valid
<1>7. NotifierFits'
  <2>1. newest \in Clerks => newest # p
    BY <1>0, <1>1 DEF NotifierFits, Busy
  <2>2. newest \in Clerks => form'[newest] = form[newest]
    BY <1>3, <2>1
  <2> QED
    BY <1>0, <1>1, <2>2 DEF NotifierFits, Notified
<1> QED
  BY <1>2, <1>4, <1>5, <1>6, <1>7 DEF SettingsInv

\* A handler saves a good configuration, and is to tell the notifier, or not.
LEMMA KeepStep ==
    ASSUME SettingsInv, NEW p \in Clerks, NEW next \in GoodConfs, NEW wish \in GoodConfs,
           form[p].at \in {"settings", "connect", "remove"}, SavesAndTells(p, next, wish),
           next.token >= 1, next.token <= tokensMade, wish.token = entered.token,
           LET lost == undone \cup Outdated(form[p]) IN
             /\ "bot" \notin lost => next.bot = wish.bot
             /\ "token" \notin lost /\ wish.token # 0 => next.token = wish.token
             /\ "posts" \notin lost => next.posts = wish.posts /\ Valid(next.posts, next.bot)
    PROVE  SettingsInv'
<1>0. ConfsFit /\ TokensFit /\ FileFits /\ WishesFit /\ KeptFits /\ NotifierFits
  BY DEF SettingsInv
<1>1. Updates(p, next) /\ UNCHANGED <<notifying, tokensMade, forms>>
  BY DEF SavesAndTells
<1>2. CASE confFile' = next /\ mishaps' = mishaps
  <2> DEFINE f == [form[p] EXCEPT !.at = "apply", !.prev = next]
             lost == undone \cup Outdated(form[p])
  <2>1. form[p] \in GoodForms
    BY <1>0 DEF ConfsFit
  <2>2. f \in GoodForms /\ f.at = "apply" /\ f.prev = next
    BY <2>1 DEF GoodForms
  <2>3. form' = [form EXCEPT ![p] = f] /\ entered' = wish /\ undone' = lost /\ newest' = p
    BY <1>2 DEF SavesAndTells
  <2>4. /\ "bot" \notin lost => next.bot = wish.bot
        /\ "token" \notin lost /\ wish.token # 0 => next.token = wish.token
        /\ "posts" \notin lost => next.posts = wish.posts /\ Valid(next.posts, next.bot)
    OBVIOUS
  <2>5. lost \subseteq {"bot", "token", "posts"}
    BY <1>0 DEF KeptFits, Outdated, Uses
  <2> HIDE DEF f, lost
  <2>6. conf' = next /\ confFile' = next
    BY <1>0, <1>1, <1>2 DEF Updates, TokensFit
  <2>7. ConfsFit'
    BY <1>0, <2>2, <2>3, <2>6 DEF ConfsFit
  <2>8. \A q \in Clerks : form'[q] = IF q = p THEN f ELSE form[q]
    BY <1>0, <2>3 DEF ConfsFit
  <2>9. TokensFit'
    <3>1. \A q \in Clerks : form'[q].prev.token >= 1 /\ form'[q].prev.token <= tokensMade'
      BY <1>0, <1>1, <2>2, <2>8 DEF TokensFit
    <3>2. ~(confFile'.token = 0)
      BY <2>6
    <3> QED
      BY <1>0, <1>1, <1>2, <2>3, <2>6, <3>1, <3>2 DEF TokensFit
  <2>10. WishesFit'
    BY <1>0, <2>2, <2>8 DEF WishesFit
  <2>11. FileFits'
    BY <2>6 DEF FileFits
  <2>12. KeptFits'
    BY <2>3, <2>4, <2>5, <2>6 DEF KeptFits, Valid
  <2>13. NotifierFits'
    <3>1. newest' \in Clerks /\ newest' # "told"
      BY <2>3, SettingsAssumption
    <3>2. form'[newest'].at = "apply" /\ Notified(form'[newest'].prev) = Notified(next)
      BY <2>2, <2>3, <2>8
    <3>3. notifying'.bot \in BotTokens \cup {NoBot} /\ notifying'.posts \in [Channels -> AnyTarget]
      BY <1>0, <1>1 DEF NotifierFits
    <3> QED
      BY <2>6, <3>1, <3>2, <3>3 DEF NotifierFits, Notified
  <2> QED
    BY <2>7, <2>9, <2>10, <2>11, <2>12, <2>13 DEF SettingsInv
<1>3. CASE ~(confFile' = next /\ mishaps' = mishaps)
  <2>1. FormEnds(p) /\ UNCHANGED <<entered, undone, newest>>
    BY <1>3 DEF SavesAndTells
  <2>2. conf' = conf /\ confFile' = confFile /\ mishaps' \in 0..MaxMishaps /\ mishaps <= mishaps'
    BY <1>0, <1>1, <1>3, SettingsAssumption DEF Updates, TokensFit
  <2> QED
    BY <1>1, <2>1, <2>2, EndStep
<1> QED
  BY <1>2, <1>3

\* What a handler goes by that is not outdated.
LEMMA UpToDate ==
    ASSUME NEW f, NEW lost, Outdated(f) \subseteq lost
    PROVE  /\ f.at = "settings" /\ f.holds \in {"channels", "throttle"} /\ "bot" \notin lost =>
                f.prev.bot = conf.bot
           /\ f.at = "settings" /\ f.holds = "metrics" /\ "token" \notin lost => f.prev.token = conf.token
           /\ f.at = "settings" /\ f.holds = "throttle" /\ "posts" \notin lost => f.prev.posts = conf.posts
           /\ f.at = "remove" /\ "posts" \notin lost => f.prev.posts = conf.posts
<1>1. f.at = "settings" /\ f.holds \in {"channels", "throttle"} => "bot" \in Uses(f)
  BY DEF Uses
<1>2. f.at = "settings" /\ f.holds = "metrics" => "token" \in Uses(f)
  BY DEF Uses
<1>3. (f.at = "settings" /\ f.holds = "throttle") \/ f.at = "remove" => "posts" \in Uses(f)
  BY DEF Uses
<1>4. \A s \in Uses(f) : s \notin lost => f.prev[s] = conf[s]
  BY DEF Outdated
<1> QED
  BY <1>1, <1>2, <1>3, <1>4

LEMMA SettingsStep == SettingsInv /\ [SettingsNext]_settingsVars => SettingsInv'
<1> SUFFICES ASSUME SettingsInv, [SettingsNext]_settingsVars PROVE SettingsInv'
  OBVIOUS
<1>0. ConfsFit /\ TokensFit /\ FileFits /\ WishesFit /\ KeptFits /\ NotifierFits
  BY DEF SettingsInv
<1>a. \A p \in Clerks : form[p] \in GoodForms /\ form[p].prev \in GoodConfs
  BY <1>0 DEF ConfsFit, GoodForms
<1>b. conf \in GoodConfs /\ conf.token \in Nat /\ conf.bot \in BotTokens \cup {NoBot} /\ conf.posts \in Apart
      /\ entered \in GoodConfs /\ entered.token \in Nat /\ confFile \in GoodConfs /\ confFile.token \in Nat
  BY <1>0 DEF ConfsFit, GoodConfs
<1>c. conf.token >= 1 /\ conf.token <= tokensMade /\ mishaps \in 0..MaxMishaps /\ mishaps <= mishaps
  BY <1>0, SettingsAssumption DEF TokensFit
<1>1. CASE UNCHANGED settingsVars
  <2>1. ConfsFit' /\ TokensFit' /\ FileFits' /\ WishesFit'
    BY <1>0, <1>1 DEF ConfsFit, TokensFit, FileFits, WishesFit, settingsVars
  <2>2. KeptFits' /\ NotifierFits'
    BY <1>0, <1>1 DEF KeptFits, NotifierFits, Valid, Notified, settingsVars
  <2> QED
    BY <2>1, <2>2 DEF SettingsInv
<1>2. ASSUME NEW p \in Clerks, SettingsRead(p) PROVE SettingsInv'
  <2> DEFINE Offered(holds) == IF holds = "channels"
                  THEN {f \in [Channels -> AnyTarget \cup {Redacted}] :
                           \A c \in Channels : f[c] \in Targets(c) \cup {Redacted}}
                  ELSE {conf.posts}
             Form(holds, posted) == [at |-> "settings", prev |-> conf, posted |-> posted,
                                     holds |-> holds, bot |-> NoBot]
  <2>0. PICK holds \in {"channels", "throttle", "metrics"} :
          \E posted \in Offered(holds) : Begins(p, Form(holds, posted))
    BY <1>2 DEF SettingsRead
  <2>1. PICK posted \in Offered(holds) : Begins(p, Form(holds, posted))
    BY <2>0
  <2>2. conf.posts \in Submitted
    BY <1>b, ApartIsPosted
  <2>3. posted \in Submitted
    BY <2>1, <2>2 DEF Submitted
  <2>4. Form(holds, posted) \in GoodForms
    BY <1>b, <2>0, <2>3 DEF GoodForms
  <2> QED
    BY <2>1, <2>4, BeginStep
<1>3. ASSUME NEW p \in Clerks, SettingsSaved(p) PROVE SettingsInv'
  <2> DEFINE f == form[p]
             posts == IF f.holds = "throttle" THEN f.prev.posts ELSE Restored(f.posted, f.prev.posts)
             wish == IF f.holds = "channels" THEN [entered EXCEPT !.posts = posts] ELSE entered
             ofMetrics == [conf EXCEPT !.token = f.prev.token]
             ofChannels == [conf EXCEPT !.bot = BotKept(f), !.posts = posts]
             lost == undone \cup Outdated(f)
  <2>1. f \in GoodForms /\ f.prev \in GoodConfs /\ f.posted \in Submitted /\ f.prev.token \in Nat
        /\ f.prev.bot \in BotTokens \cup {NoBot} /\ f.prev.posts \in Apart
    BY <1>a DEF GoodForms, GoodConfs
  <2>2. f.at = "settings" /\ f.holds \in {"channels", "throttle", "metrics"}
    BY <1>0, <1>3 DEF SettingsSaved, WishesFit
  <2>3. f.prev.token >= 1 /\ f.prev.token <= tokensMade
    BY <1>0 DEF TokensFit
  <2>4. /\ f.holds \in {"channels", "throttle"} /\ "bot" \notin lost => f.prev.bot = conf.bot
        /\ f.holds = "metrics" /\ "token" \notin lost => f.prev.token = conf.token
        /\ f.holds = "throttle" /\ "posts" \notin lost => f.prev.posts = conf.posts
    BY <2>2, UpToDate
  <2>5. /\ "bot" \notin lost => conf.bot = entered.bot
        /\ "token" \notin lost /\ entered.token # 0 => conf.token = entered.token
        /\ "posts" \notin lost => conf.posts = entered.posts /\ Valid(conf.posts, conf.bot)
    BY <1>0 DEF KeptFits
  <2>6. CASE FormEnds(p) /\ UnchangedBy
    BY <1>c, <2>2, <2>6, EndStep DEF UnchangedBy
  <2>7. CASE f.holds = "metrics" /\ SavesAndTells(p, ofMetrics, entered)
    <3>1. ofMetrics \in GoodConfs /\ ofMetrics.bot = conf.bot /\ ofMetrics.posts = conf.posts
          /\ ofMetrics.token = f.prev.token
      BY <1>b, <2>1, TokenIsNotNotified
    <3>2. LET gone == undone \cup Outdated(form[p]) IN
            /\ "bot" \notin gone => ofMetrics.bot = entered.bot
            /\ "token" \notin gone /\ entered.token # 0 => ofMetrics.token = entered.token
            /\ "posts" \notin gone => ofMetrics.posts = entered.posts /\ Valid(ofMetrics.posts, ofMetrics.bot)
      BY <2>4, <2>5, <2>7, <3>1
    <3> HIDE DEF ofMetrics
    <3> QED
      BY <1>b, <2>2, <2>3, <2>7, <3>1, <3>2, KeepStep
  <2>8. CASE f.holds # "metrics" /\ Valid(posts, f.prev.bot) /\ SavesAndTells(p, ofChannels, wish)
    <3>1. posts \in Apart
      <4>1. CASE f.holds = "throttle"
        BY <2>1, <4>1
      <4>2. CASE f.holds # "throttle"
        BY <2>1, <2>8, <4>2, RestoredIsApart
      <4> QED
        BY <4>1, <4>2
    <3>2. /\ ofChannels \in GoodConfs /\ ofChannels.bot = f.prev.bot /\ ofChannels.posts = posts
          /\ ofChannels.token = conf.token
      <4> HIDE DEF posts
      <4> DEFINE b == f.prev.bot
      <4>0. b \in BotTokens \cup {NoBot} /\ ofChannels = [conf EXCEPT !.bot = b, !.posts = posts]
        BY <2>1 DEF BotKept
      <4> HIDE DEF b, ofChannels
      <4>1. posts \in Apart /\ conf \in GoodConfs
        BY <1>b, <3>1
      <4>2. /\ [conf EXCEPT !.bot = b, !.posts = posts] \in GoodConfs
            /\ [conf EXCEPT !.bot = b, !.posts = posts].bot = b
            /\ [conf EXCEPT !.bot = b, !.posts = posts].token = conf.token
            /\ [conf EXCEPT !.bot = b, !.posts = posts].posts = posts
        <5> DEFINE x == [conf EXCEPT !.bot = b]
        <5>1. x \in GoodConfs /\ x.bot = b /\ x.token = conf.token
          BY <4>0, <4>1, BotIs
        <5>2. [conf EXCEPT !.bot = b, !.posts = posts] = [x EXCEPT !.posts = posts]
          OBVIOUS
        <5> HIDE DEF x
        <5>3. [x EXCEPT !.posts = posts] \in GoodConfs /\ [x EXCEPT !.posts = posts].bot = x.bot
              /\ [x EXCEPT !.posts = posts].token = x.token /\ [x EXCEPT !.posts = posts].posts = posts
          BY <4>1, <5>1, PostsAre
        <5> QED
          BY <5>1, <5>2, <5>3
      <4> QED
        BY <4>0, <4>2 DEF b
    <3>3. wish \in GoodConfs /\ wish.token = entered.token /\ wish.bot = entered.bot
          /\ (f.holds = "channels" => wish.posts = posts) /\ (f.holds # "channels" => wish.posts = entered.posts)
      <4>2. LET w == [entered EXCEPT !.posts = posts] IN
              w \in GoodConfs /\ w.bot = entered.bot /\ w.token = entered.token /\ w.posts = posts
        BY <1>b, <3>1, PostsAre
      <4> QED
        BY <1>b, <4>2
    <3>4. f.holds \in {"channels", "throttle"}
      BY <2>2, <2>8
    <3>5. LET gone == undone \cup Outdated(form[p]) IN
            /\ "bot" \notin gone => ofChannels.bot = wish.bot
            /\ "token" \notin gone /\ wish.token # 0 => ofChannels.token = wish.token
            /\ "posts" \notin gone => ofChannels.posts = wish.posts /\ Valid(ofChannels.posts, ofChannels.bot)
      BY <2>4, <2>5, <2>8, <3>2, <3>3, <3>4
    <3> HIDE DEF ofChannels, wish
    <3> QED
      BY <1>c, <2>2, <2>8, <3>2, <3>3, <3>5, KeepStep
  <2> QED
    BY <1>3, <2>6, <2>7, <2>8 DEF SettingsSaved
<1>4. ASSUME NEW p \in Clerks, Applies(p) PROVE SettingsInv'
  <2>1. newest' = IF newest = p THEN "told" ELSE IF newest = "told" THEN "mixed" ELSE newest
    BY <1>4, SettingsAssumption DEF Applies
  <2>2. mishaps' \in 0..MaxMishaps /\ mishaps <= mishaps'
    BY <1>c, <1>4 DEF Applies
  <2> QED
    BY <1>4, <2>1, <2>2, EndStep DEF Applies
<1>5. ASSUME NEW p \in Clerks, BotReads(p) PROVE SettingsInv'
  <2> DEFINE f(b) == [at |-> "connect", prev |-> conf, posted |-> conf.posts, holds |-> "bot", bot |-> b]
  <2>1. PICK b \in BotTokens \cup ({conf.bot} \ {NoBot}) : Begins(p, f(b))
    BY <1>5 DEF BotReads
  <2>2. b \in BotTokens /\ b # NoBot
    BY <1>b, SettingsAssumption
  <2>3. f(b) \in GoodForms
    BY <1>b, <2>2, ApartIsPosted DEF GoodForms
  <2> QED
    BY <2>1, <2>2, <2>3, BeginStep
<1>6. ASSUME NEW p \in Clerks, BotSaves(p) PROVE SettingsInv'
  <2> DEFINE b == form[p].bot
             next == [conf EXCEPT !.bot = b]
             wish == [entered EXCEPT !.bot = b]
  <2>1. form[p].at = "connect"
    BY <1>6 DEF BotSaves
  <2>2. b \in BotTokens /\ b # NoBot
    BY <1>0, <1>a, <2>1 DEF WishesFit, GoodForms
  <2>3. next \in GoodConfs /\ next.bot = b /\ next.token = conf.token /\ next.posts = conf.posts
    BY <1>b, <2>2, BotIs
  <2>4. wish \in GoodConfs /\ wish.bot = b /\ wish.token = entered.token /\ wish.posts = entered.posts
    BY <1>b, <2>2, BotIs
  <2>5. LET lost == undone \cup Outdated(form[p]) IN
          /\ "bot" \notin lost => next.bot = wish.bot
          /\ "token" \notin lost /\ wish.token # 0 => next.token = wish.token
          /\ "posts" \notin lost => next.posts = wish.posts /\ Valid(next.posts, next.bot)
    BY <1>0, <2>2, <2>3, <2>4 DEF KeptFits, Valid
  <2>6. CASE FormEnds(p) /\ UnchangedBy
    BY <1>c, <2>1, <2>6, EndStep DEF UnchangedBy
  <2>7. CASE SavesAndTells(p, next, wish)
    <3> HIDE DEF next, wish, b
    <3> QED
      BY <1>c, <2>1, <2>3, <2>4, <2>5, <2>7, KeepStep
  <2> QED
    BY <1>6, <2>6, <2>7 DEF BotSaves
<1>7. ASSUME NEW p \in Clerks, BotRemoveChecks(p) PROVE SettingsInv'
  <2> DEFINE f == [at |-> "remove", prev |-> conf, posted |-> conf.posts, holds |-> "bot", bot |-> NoBot]
  <2>1. f \in GoodForms
    BY <1>b, ApartIsPosted DEF GoodForms
  <2> QED
    BY <1>7, <2>1, BeginStep DEF BotRemoveChecks
<1>8. ASSUME NEW p \in Clerks, BotRemoves(p) PROVE SettingsInv'
  <2> DEFINE next == [conf EXCEPT !.bot = NoBot]
             wish == [entered EXCEPT !.bot = NoBot]
             lost == undone \cup Outdated(form[p])
  <2>1. form[p].at = "remove" /\ SavesAndTells(p, next, wish)
    BY <1>8 DEF BotRemoves
  <2>2. next \in GoodConfs /\ next.bot = NoBot /\ next.token = conf.token /\ next.posts = conf.posts
    BY <1>b, BotIs
  <2>3. wish \in GoodConfs /\ wish.bot = NoBot /\ wish.token = entered.token /\ wish.posts = entered.posts
    BY <1>b, BotIs
  <2>4. "posts" \notin lost => form[p].prev.posts = conf.posts
    BY <2>1, UpToDate
  <2>5. "posts" \notin lost => Valid(next.posts, next.bot)
    BY <1>0, <2>1, <2>2, <2>4 DEF KeptFits, WishesFit, Valid
  <2>6. LET gone == undone \cup Outdated(form[p]) IN
          /\ "bot" \notin gone => next.bot = wish.bot
          /\ "token" \notin gone /\ wish.token # 0 => next.token = wish.token
          /\ "posts" \notin gone => next.posts = wish.posts /\ Valid(next.posts, next.bot)
    BY <1>0, <2>2, <2>3, <2>5 DEF KeptFits
  <2> HIDE DEF next, wish
  <2> QED
    BY <1>c, <2>1, <2>2, <2>3, <2>6, KeepStep
<1>9. ASSUME NEW p \in Clerks, TokenReplaced(p) PROVE SettingsInv'
  <2> DEFINE t == tokensMade + 1
             next == [conf EXCEPT !.token = t]
             wish == [entered EXCEPT !.token = t]
  <2>1. /\ forms < MaxForms /\ forms' = forms + 1 /\ tokensMade' = t /\ Updates(p, next)
        /\ entered' = IF confFile'.token = t THEN wish ELSE entered
        /\ UNCHANGED <<notifying, form, undone, newest>>
    BY <1>9 DEF TokenReplaced
  <2>2. t \in Nat /\ t > tokensMade /\ t >= 1 /\ tokensMade \in Nat
    BY <1>0 DEF TokensFit
  <2>3. /\ next \in GoodConfs /\ next.bot = conf.bot /\ next.token = t /\ next.posts = conf.posts
        /\ Notified(next) = Notified(conf)
        /\ wish \in GoodConfs /\ wish.bot = entered.bot /\ wish.token = t /\ wish.posts = entered.posts
    BY <1>b, <2>2, TokenIsNotNotified
  <2> HIDE DEF next, wish, t
  <2>4. \/ conf' = next /\ confFile' = next /\ entered' = wish
        \/ conf' = conf /\ confFile' = confFile /\ entered' = entered
    <3>1. confFile.token <= tokensMade
      BY <1>0 DEF TokensFit
    <3>2. confFile.token # t
      BY <1>b, <2>2, <3>1
    <3> QED
      BY <2>1, <2>3, <3>2 DEF Updates
  <2>5. mishaps' \in 0..MaxMishaps /\ mishaps <= mishaps'
    BY <1>c, <2>1, SettingsAssumption DEF Updates
  <2>6. ConfsFit'
    BY <1>0, <2>1, <2>3, <2>4 DEF ConfsFit
  <2>7. TokensFit'
    <3>1. forms' \in 0..MaxForms /\ tokensMade' <= forms' + mishaps' + 1
      <4>1. tokensMade <= forms + mishaps + 1 /\ forms \in Nat /\ mishaps \in Nat /\ mishaps' \in Nat
        BY <1>0, <2>5, SettingsAssumption DEF TokensFit
      <4>2. tokensMade' = tokensMade + 1 /\ forms' = forms + 1 /\ forms < MaxForms /\ mishaps <= mishaps'
        BY <2>1, <2>5 DEF t
      <4> QED
        <5>1. forms' \in 0..MaxForms
          BY <4>1, <4>2, SettingsAssumption
        <5>2. \A a, b, c, d \in Nat : a <= b + c + 1 /\ c <= d => a + 1 <= (b + 1) + d + 1
          OBVIOUS
        <5>3. tokensMade + 1 <= (forms + 1) + mishaps' + 1
          BY <2>2, <4>1, <4>2, <5>2
        <5>4. tokensMade' <= forms' + mishaps' + 1
          BY <4>2, <5>3
        <5> QED
          BY <5>1, <5>4
    <3>2. \A q \in Clerks : form'[q].prev.token >= 1 /\ form'[q].prev.token <= tokensMade'
      <4>1. \A q \in Clerks : form[q].prev.token \in Nat
        BY <1>a DEF GoodConfs
      <4> QED
        BY <1>0, <2>1, <2>2, <4>1 DEF TokensFit
    <3>3. conf'.token >= 1 /\ conf'.token <= tokensMade' /\ confFile'.token <= tokensMade'
          /\ entered'.token <= tokensMade' /\ (confFile'.token = 0 => entered'.token = 0)
      BY <1>0, <1>b, <2>1, <2>2, <2>3, <2>4 DEF TokensFit
    <3> QED
      BY <2>1, <2>2, <2>5, <3>1, <3>2, <3>3 DEF TokensFit
  <2>8. FileFits' /\ WishesFit'
    BY <1>0, <2>1, <2>4 DEF FileFits, WishesFit
  <2>9. KeptFits'
    BY <1>0, <2>1, <2>3, <2>4 DEF KeptFits, Valid
  <2>10. NotifierFits'
    <3>1. Notified(conf') = Notified(conf)
      BY <2>3, <2>4
    <3>2. Notified(conf)' = Notified(conf)
      BY <3>1 DEF Notified
    <3>3. \A q \in Clerks : Notified(form[q].prev)' = Notified(form[q].prev)
      BY <2>1 DEF Notified
    <3>4. newest' = newest /\ notifying' = notifying /\ form' = form
      BY <2>1
    <3> QED
      BY <1>0, <3>2, <3>3, <3>4 DEF NotifierFits
  <2> QED
    BY <2>6, <2>7, <2>8, <2>9, <2>10 DEF SettingsInv
<1>10. CASE SettingsRestart
  <2> DEFINE m == IF confFile.token = 0 THEN tokensMade + 1 ELSE tokensMade
             next == IF confFile.token = 0 THEN [confFile EXCEPT !.token = m] ELSE confFile
             f == NoForm(next)
  <2>1. /\ mishaps < MaxMishaps /\ mishaps' = mishaps + 1 /\ tokensMade' = m /\ conf' = next
        /\ notifying' = Notified(confFile) /\ form' = [p \in Clerks |-> f] /\ newest' = "told"
        /\ UNCHANGED <<confFile, forms, entered, undone>>
    BY <1>10 DEF SettingsRestart, Opens, WithMetricsToken
  <2>2. m \in Nat /\ m >= 1 /\ m >= tokensMade /\ m <= tokensMade + 1 /\ tokensMade \in Nat
    BY <1>0 DEF TokensFit
  <2>3. /\ next \in GoodConfs /\ next.bot = confFile.bot /\ next.posts = confFile.posts
        /\ Notified(next) = Notified(confFile)
        /\ next.token = IF confFile.token = 0 THEN m ELSE confFile.token
    BY <1>b, <2>2, TokenIsNotNotified
  <2>4. f \in GoodForms /\ f.at = "idle" /\ f.prev = next
    BY <2>3, IdleIsGood DEF NoForm
  <2>5. next = confFile \/ (confFile.token = 0 /\ next = [confFile EXCEPT !.token = next.token])
    BY <2>3
  <2>6. confFile.bot = conf.bot /\ confFile.posts = conf.posts
        /\ (confFile.token # 0 => confFile.token = conf.token)
    <3>1. CASE conf = confFile
      BY <3>1
    <3>2. CASE confFile.token = 0 /\ conf = [confFile EXCEPT !.token = conf.token]
      <4> DEFINE n == conf.token
      <4>1. n \in Nat /\ conf = [confFile EXCEPT !.token = n] /\ confFile.token = 0
        BY <1>b, <3>2
      <4> HIDE DEF n
      <4> QED
        BY <1>b, <4>1, TokenIsNotNotified
    <3> QED
      BY <1>0, <3>1, <3>2 DEF FileFits
  <2> HIDE DEF next, m, f
  <2>7. ConfsFit'
    BY <1>0, <2>1, <2>3, <2>4 DEF ConfsFit
  <2>8. TokensFit'
    <3>1. mishaps' \in 0..MaxMishaps /\ m <= forms + mishaps' + 1
      BY <1>0, <2>1, <2>2, SettingsAssumption DEF TokensFit
    <3>2. next.token >= 1 /\ next.token <= m /\ confFile.token <= m /\ entered.token <= m
      BY <1>0, <1>b, <2>2, <2>3 DEF TokensFit
    <3> QED
      BY <1>0, <2>1, <2>2, <2>4, <3>1, <3>2 DEF TokensFit
  <2>9. FileFits' /\ WishesFit'
    BY <2>1, <2>4, <2>5 DEF FileFits, WishesFit
  <2>10. KeptFits'
    <3>1. entered.token # 0 => confFile.token # 0
      BY <1>0 DEF TokensFit
    <3>2. conf'.bot = conf.bot /\ conf'.posts = conf.posts /\ (entered.token # 0 => conf'.token = conf.token)
      BY <2>1, <2>3, <2>6, <3>1
    <3> QED
      BY <1>0, <2>1, <3>2 DEF KeptFits, Valid
  <2>11. NotifierFits'
    <3>1. notifying' = Notified(next)
      BY <2>1, <2>3
    <3>2. notifying'.bot \in BotTokens \cup {NoBot} /\ notifying'.posts \in [Channels -> AnyTarget]
      BY <1>b, <2>1, NotifiedIs
    <3>3. newest' = "told" /\ newest' \notin Clerks
      BY <2>1, SettingsAssumption
    <3> QED
      BY <2>1, <3>1, <3>2, <3>3 DEF NotifierFits, Notified
  <2> QED
    BY <2>7, <2>8, <2>9, <2>10, <2>11 DEF SettingsInv
<1> QED
  BY <1>1, <1>2, <1>3, <1>4, <1>5, <1>6, <1>7, <1>8, <1>9, <1>10 DEF SettingsNext

LEMMA SettingsHold == SettingsInv => SettingsTypeOK /\ SettingsAreSound
<1> SUFFICES ASSUME SettingsInv PROVE SettingsTypeOK /\ SettingsAreSound
  OBVIOUS
<1>0. ConfsFit /\ TokensFit /\ FileFits /\ WishesFit /\ KeptFits /\ NotifierFits
  BY DEF SettingsInv
<1>1. InForceIsOnDisk
  BY <1>0 DEF TokensFit, FileFits, InForceIsOnDisk
<1>2. AddressesStayApart
  BY <1>0 DEF ConfsFit, AddressesStayApart, GoodConfs, Apart
<1>3. SavesAreKept
  BY <1>0 DEF KeptFits, NotifierFits, SavesAreKept
<1>4. tokensMade \in 1..MaxTokens /\ MaxTokens \in Nat
  BY <1>0, SettingsAssumption DEF TokensFit, MaxTokens
<1>5. ASSUME NEW c \in GoodConfs, c.token <= tokensMade PROVE c \in Confs
  <2>1. c.token \in 0..MaxTokens
    BY <1>4, <1>5 DEF GoodConfs
  <2> QED
    BY <2>1 DEF GoodConfs, Confs, Apart
<1>6. conf \in Confs /\ confFile \in Confs /\ entered \in Confs
  BY <1>0, <1>5 DEF ConfsFit, TokensFit
<1>7. \A p \in Clerks : form[p].prev \in Confs /\ form[p].bot \in BotTokens \cup {NoBot}
                        /\ form[p].at \in {"idle", "settings", "connect", "remove", "apply"}
  BY <1>0, <1>5 DEF ConfsFit, GoodForms, TokensFit
<1>8. SettingsTypeOK
  BY <1>0, <1>4, <1>6, <1>7 DEF SettingsTypeOK, TokensFit, KeptFits, NotifierFits
<1> QED
  BY <1>1, <1>2, <1>3, <1>8 DEF SettingsAreSound

---------------------------------------------------------------------------
(***************************************************************************)
(* StatusCards: the board, its file and the messages in Discord.           *)
(***************************************************************************)

Card(n) == [id: 0..n, url: Places, hash: CardStates \cup {""}]
Hook == [place: Places, servers: SUBSET Watched]
Msg == [place: Places, text: CardStates \cup {Paused}, there: BOOLEAN]
SyncState == [pc: {"idle", "put", "pause", "off"}, hooks: [Hooks -> Hook] \cup {<<>>},
              todo: SUBSET Pairs, extra: SUBSET Pairs, changed: BOOLEAN]

\* A board, or its file, leads to messages of its own, where it says they are.
BoardFits(b) ==
    /\ b \in [Pairs -> Card(Len(messages))]
    /\ \A p, q \in Cards(b) : b[p].id = b[q].id => p = q
    /\ \A p \in Cards(b) : messages[b[p].id].there => messages[b[p].id].place = b[p].url

CardTypes ==
    /\ hooks \in [Hooks -> Hook]
    /\ says \in [Watched -> CardStates \cup {Unsaid}]
    /\ messages \in Seq(Msg)
    /\ stray \subseteq DOMAIN messages /\ unsure \subseteq Pairs
    /\ NoCard.url \in Places

NoneLost == \A n \in DOMAIN messages : messages[n].there => n \in stray \/ \E p \in Pairs : board[p].id = n

\* What a pass over the board still has to look at is on the board, and what it
\* has changed is known to be unsaved.
SyncFits ==
    /\ sync \in SyncState
    /\ sync.pc = "put" =>
          /\ sync.hooks \in [Hooks -> Hook]
          /\ sync.extra \subseteq Cards(board) /\ sync.extra \cap sync.todo = {}
          /\ ~sync.changed /\ ~saveFailed => board = boardFile
    /\ sync.pc = "pause" => sync.todo \subseteq Cards(board)
    /\ RestIsSaved
    /\ sync.pc = "off" => ~saveFailed

CardsInv ==
    CardTypes /\ BoardFits(board) /\ BoardFits(boardFile) /\ NoneLost /\ HashIsShown /\ SyncFits

LEMMA NoCardIs == NoCard.id = 0 /\ NoCard.hash = "" /\ NoCard = [id |-> 0, url |-> NoCard.url, hash |-> ""]
BY DEF NoCard

LEMMA NoCardFits ==
    ASSUME NoCard.url \in Places, NEW n \in Nat
    PROVE  NoCard \in Card(n)
<1>1. \A u \in Places : [id |-> 0, url |-> u, hash |-> ""] \in Card(n)
  BY DEF Card
<1> QED
  BY <1>1, NoCardIs, Zenon

LEMMA RestingIs ==
    /\ Resting \in SyncState /\ Resting.pc = "idle"
    /\ [Resting EXCEPT !.pc = "off"] \in SyncState /\ [Resting EXCEPT !.pc = "off"].pc = "off"
    /\ \A s \in SUBSET Pairs :
          /\ [Resting EXCEPT !.pc = "pause", !.todo = s] \in SyncState
          /\ [Resting EXCEPT !.pc = "pause", !.todo = s].pc = "pause"
          /\ [Resting EXCEPT !.pc = "pause", !.todo = s].todo = s
<1>1. Resting \in SyncState /\ Resting.pc = "idle"
  BY DEF Resting, SyncState
<1>2. \A r \in SyncState : [r EXCEPT !.pc = "off"] \in SyncState /\ [r EXCEPT !.pc = "off"].pc = "off"
  BY DEF SyncState
<1>3. \A r \in SyncState, s \in SUBSET Pairs :
          /\ [r EXCEPT !.pc = "pause", !.todo = s] \in SyncState
          /\ [r EXCEPT !.pc = "pause", !.todo = s].pc = "pause"
          /\ [r EXCEPT !.pc = "pause", !.todo = s].todo = s
  BY DEF SyncState
<1> QED
  BY <1>1, <1>2, <1>3

LEMMA CardsInitially == CardsInit => CardsInv
<1> SUFFICES ASSUME CardsInit PROVE CardsInv
  OBVIOUS
<1>1. PICK place \in Places : hooks = [h \in Hooks |-> [place |-> place, servers |-> Watched]]
  BY DEF CardsInit
<1>2. NoCard.url \in Places
  BY <1>1 DEF NoCard
<1>3. messages = << >> /\ Len(messages) = 0 /\ DOMAIN messages = {} /\ messages \in Seq(Msg)
  BY DEF CardsInit
<1>4. hooks \in [Hooks -> Hook]
  BY <1>1 DEF Hook
<1>5. CardTypes
  BY <1>2, <1>3, <1>4 DEF CardTypes, CardsInit
<1>6. board = [pair \in Pairs |-> NoCard] /\ boardFile = board
  BY DEF CardsInit
<1>7. Cards(board) = {}
  BY <1>6, NoCardIs DEF Cards
<1>8. BoardFits(board)
  BY <1>2, <1>3, <1>6, <1>7, NoCardFits DEF BoardFits
<1>9. NoneLost /\ HashIsShown
  BY <1>3, <1>7 DEF NoneLost, HashIsShown
<1>10. SyncFits
  BY <1>6, RestingIs DEF SyncFits, CardsInit, RestIsSaved
<1> QED
  BY <1>5, <1>6, <1>8, <1>9, <1>10 DEF CardsInv

\* Discord's messages change: none comes back, none moves.
Grown ==
    /\ messages' \in Seq(Msg) /\ Len(messages) <= Len(messages')
    /\ \A n \in DOMAIN messages :
          messages'[n].place = messages[n].place /\ (messages'[n].there => messages[n].there)

LEMMA CardIds ==
    ASSUME CardTypes, NEW b, BoardFits(b), NEW p \in Cards(b)
    PROVE  p \in Pairs /\ b[p].id \in DOMAIN messages /\ b[p] \in Card(Len(messages)) /\ b[p].id # 0
<1>1. p \in Pairs /\ b[p] \in Card(Len(messages)) /\ b[p].id # 0
  BY DEF BoardFits, Cards
<1>2. Len(messages) \in Nat /\ DOMAIN messages = 1..Len(messages)
  BY DEF CardTypes
<1>3. b[p].id \in 0..Len(messages)
  BY <1>1 DEF Card
<1> QED
  BY <1>1, <1>2, <1>3

LEMMA CardsGrow ==
    ASSUME CardTypes, Grown
    PROVE  /\ Len(messages) \in Nat /\ Len(messages') \in Nat
           /\ DOMAIN messages \subseteq DOMAIN messages'
           /\ Card(Len(messages)) \subseteq Card(Len(messages'))
<1>1. messages \in Seq(Msg) /\ messages' \in Seq(Msg) /\ Len(messages) <= Len(messages')
  BY DEF CardTypes, Grown
<1>2. Len(messages) \in Nat /\ Len(messages') \in Nat /\ DOMAIN messages = 1..Len(messages)
      /\ DOMAIN messages' = 1..Len(messages')
  BY <1>1
<1>3. 0..Len(messages) \subseteq 0..Len(messages')
  BY <1>1, <1>2
<1>4. \A n, m : 0..n \subseteq 0..m => Card(n) \subseteq Card(m)
  BY DEF Card
<1> QED
  BY <1>1, <1>2, <1>3, <1>4

LEMMA BoardStays ==
    ASSUME CardTypes, Grown, NEW b, BoardFits(b)
    PROVE  /\ b \in [Pairs -> Card(Len(messages'))]
           /\ \A p \in Cards(b) : messages'[b[p].id].there => messages'[b[p].id].place = b[p].url
<1>1. b \in [Pairs -> Card(Len(messages'))]
  BY CardsGrow DEF BoardFits
<1>2. ASSUME NEW p \in Cards(b), messages'[b[p].id].there PROVE messages'[b[p].id].place = b[p].url
  <2>1. b[p].id \in DOMAIN messages
    BY CardIds
  <2> QED
    BY <1>2, <2>1 DEF Grown, BoardFits
<1> QED
  BY <1>1, <1>2

LEMMA FileStays ==
    ASSUME CardTypes, Grown, BoardFits(boardFile), boardFile' = boardFile
    PROVE  BoardFits(boardFile)'
BY BoardStays DEF BoardFits, Cards

LEMMA BoardKeeps ==
    ASSUME CardTypes, Grown, BoardFits(board), board' = board
    PROVE  BoardFits(board)'
BY BoardStays DEF BoardFits, Cards

\* A record is forgotten.
LEMMA BoardDrops ==
    ASSUME CardTypes, Grown, BoardFits(board), NEW p \in Pairs, board' = [board EXCEPT ![p] = NoCard]
    PROVE  BoardFits(board)' /\ Cards(board)' = Cards(board) \ {p}
           /\ \A q \in Pairs \ {p} : board'[q] = board[q]
<1>1. board \in [Pairs -> Card(Len(messages))]
  BY DEF BoardFits
<1>2. \A q \in Pairs : board'[q] = IF q = p THEN NoCard ELSE board[q]
  BY <1>1
<1>3. Cards(board)' = Cards(board) \ {p}
  BY <1>2, NoCardIs DEF Cards
<1>4. NoCard \in Card(Len(messages'))
  BY NoCardFits, CardsGrow DEF CardTypes
<1>5. board' \in [Pairs -> Card(Len(messages'))]
  BY <1>4, BoardStays
<1>6. \A q, r \in Cards(board)' : board'[q].id = board'[r].id => q = r
  BY <1>2, <1>3 DEF BoardFits, Cards
<1>7. \A q \in Cards(board)' : messages'[board'[q].id].there => messages'[board'[q].id].place = board'[q].url
  BY <1>2, <1>3, BoardStays DEF Cards
<1> QED
  BY <1>2, <1>3, <1>5, <1>6, <1>7 DEF BoardFits

\* A record gets a new text.
LEMMA BoardMarks ==
    ASSUME CardTypes, Grown, BoardFits(board), NEW p \in Pairs, NEW h \in CardStates \cup {""},
           board' = [board EXCEPT ![p].hash = h]
    PROVE  /\ BoardFits(board)' /\ Cards(board)' = Cards(board)
           /\ \A q \in Pairs \ {p} : board'[q] = board[q]
           /\ board'[p].id = board[p].id /\ board'[p].url = board[p].url /\ board'[p].hash = h
<1> DEFINE c == [board[p] EXCEPT !.hash = h]
<1>1. board \in [Pairs -> Card(Len(messages))]
  BY DEF BoardFits
<1>2. c.id = board[p].id /\ c.url = board[p].url /\ c.hash = h
  BY <1>1 DEF Card
<1>3. board \in [Pairs -> Card(Len(messages'))]
  BY BoardStays
<1>4. c \in Card(Len(messages'))
  BY <1>3 DEF Card
<1>5. board' = [board EXCEPT ![p] = c]
  OBVIOUS
<1> HIDE DEF c
<1>6. \A q \in Pairs : board'[q] = IF q = p THEN c ELSE board[q]
  BY <1>1, <1>5
<1>7. \A q \in Pairs : board'[q].id = board[q].id /\ board'[q].url = board[q].url
  BY <1>2, <1>6
<1>8. Cards(board)' = Cards(board)
  BY <1>7 DEF Cards
<1>9. board' \in [Pairs -> Card(Len(messages'))]
  BY <1>3, <1>4, <1>5
<1>10. \A q, r \in Cards(board)' : board'[q].id = board'[r].id => q = r
  BY <1>7, <1>8 DEF BoardFits, Cards
<1>11. \A q \in Cards(board) : messages'[board[q].id].there => messages'[board[q].id].place = board[q].url
  BY BoardStays
<1>12. \A q \in Cards(board)' : messages'[board'[q].id].there => messages'[board'[q].id].place = board'[q].url
  BY <1>7, <1>8, <1>11 DEF Cards
<1> QED
  BY <1>2, <1>6, <1>8, <1>9, <1>10, <1>12 DEF BoardFits

\* A message gets another text, or is gone.
LEMMA MessageBecomes ==
    ASSUME CardTypes, NEW n \in DOMAIN messages, NEW m \in Msg, m.place = messages[n].place,
           m.there => messages[n].there, messages' = [messages EXCEPT ![n] = m]
    PROVE  /\ Grown /\ DOMAIN messages' = DOMAIN messages
           /\ \A o \in DOMAIN messages : messages'[o] = IF o = n THEN m ELSE messages[o]
<1>0. messages \in Seq(Msg)
  BY DEF CardTypes
<1>1. messages' \in Seq(Msg) /\ Len(messages') = Len(messages)
      /\ \A o \in DOMAIN messages : messages'[o] = IF o = n THEN m ELSE messages[o]
  BY <1>0
<1> QED
  BY <1>0, <1>1 DEF Grown

LEMMA TextGrows ==
    ASSUME CardTypes, NEW n \in DOMAIN messages, NEW text \in CardStates \cup {Paused},
           messages' = [messages EXCEPT ![n].text = text]
    PROVE  /\ Grown /\ DOMAIN messages' = DOMAIN messages
           /\ \A o \in DOMAIN messages : messages'[o].there = messages[o].there
           /\ \A o \in DOMAIN messages \ {n} : messages'[o] = messages[o]
           /\ messages'[n].text = text
<1> DEFINE m == [messages[n] EXCEPT !.text = text]
<1>1. m \in Msg /\ m.place = messages[n].place /\ m.there = messages[n].there /\ m.text = text
  <2>1. messages[n] \in Msg
    BY DEF CardTypes
  <2> QED
    BY <2>1 DEF Msg
<1>2. messages' = [messages EXCEPT ![n] = m]
  OBVIOUS
<1> HIDE DEF m
<1> QED
  BY <1>1, <1>2, MessageBecomes

LEMMA GoneGrows ==
    ASSUME CardTypes, NEW n \in DOMAIN messages, messages' = [messages EXCEPT ![n].there = FALSE]
    PROVE  /\ Grown /\ DOMAIN messages' = DOMAIN messages
           /\ \A o \in DOMAIN messages \ {n} : messages'[o] = messages[o]
           /\ ~messages'[n].there
<1> DEFINE m == [messages[n] EXCEPT !.there = FALSE]
<1>1. m \in Msg /\ m.place = messages[n].place /\ ~m.there
  <2>1. messages[n] \in Msg
    BY DEF CardTypes
  <2> QED
    BY <2>1 DEF Msg
<1>2. messages' = [messages EXCEPT ![n] = m]
  OBVIOUS
<1> HIDE DEF m
<1> QED
  BY <1>1, <1>2, MessageBecomes

LEMMA SameGrows ==
    ASSUME CardTypes, UNCHANGED messages
    PROVE  Grown
<1>1. messages \in Seq(Msg) /\ Len(messages) \in Nat
  BY DEF CardTypes
<1> QED
  BY <1>1 DEF Grown

LEMMA PostGrows ==
    ASSUME CardTypes, NEW place \in Places, NEW text \in CardStates,
           messages' = Append(messages, Message(place, text))
    PROVE  /\ Grown /\ Len(messages') = Len(messages) + 1 /\ Len(messages) \in Nat
           /\ DOMAIN messages' = DOMAIN messages \cup {Len(messages) + 1}
           /\ Len(messages) + 1 \notin DOMAIN messages
           /\ \A m \in DOMAIN messages : messages'[m] = messages[m]
           /\ messages'[Len(messages) + 1] = Message(place, text)
<1>1. messages \in Seq(Msg) /\ Message(place, text) \in Msg
  BY DEF CardTypes, Message, Msg
<1> HIDE DEF Message
<1>2. messages' \in Seq(Msg) /\ Len(messages') = Len(messages) + 1 /\ Len(messages) \in Nat
      /\ DOMAIN messages = 1..Len(messages) /\ DOMAIN messages' = 1..(Len(messages) + 1)
      /\ messages'[Len(messages) + 1] = Message(place, text)
      /\ \A m \in 1..Len(messages) : messages'[m] = messages[m]
  BY <1>1
<1> QED
  BY <1>2 DEF Grown


\* Where Discord's messages stay where they were, none is lost as long as the
\* records that go are of messages that are gone or known to be strays.
LEMMA StillKnown ==
    ASSUME NoneLost, DOMAIN messages' = DOMAIN messages, stray \subseteq stray',
           \A n \in DOMAIN messages : messages'[n].there => messages[n].there,
           \A p \in Pairs : board'[p].id = board[p].id \/ board[p].id \in stray' \/ ~messages'[board[p].id].there
    PROVE  NoneLost'
BY DEF NoneLost

\* Every message that is shown as its record says stays so where neither changes.
LEMMA StillShown ==
    ASSUME CardTypes, BoardFits(board), HashIsShown, Grown, NEW changed, changed \subseteq Pairs,
           Cards(board)' \subseteq Cards(board) \cup changed,
           \A p \in Cards(board) \ changed :
              /\ board'[p] = board[p]
              /\ messages'[board[p].id].text = messages[board[p].id].text
              /\ p \in unsure => p \in unsure',
           \A p \in Cards(board)' \cap changed :
              messages'[board'[p].id].there /\ p \notin unsure' =>
                messages'[board'[p].id].text = IF board'[p].hash = "" THEN Paused ELSE board'[p].hash
    PROVE  HashIsShown'
<1> SUFFICES ASSUME NEW p \in Cards(board)', messages'[board'[p].id].there, p \notin unsure'
             PROVE  messages'[board'[p].id].text = IF board'[p].hash = "" THEN Paused ELSE board'[p].hash
  BY DEF HashIsShown
<1>1. CASE p \in changed
  BY <1>1
<1>2. CASE p \notin changed
  <2>0. p \in Cards(board) \ changed
    BY <1>2
  <2>1. p \in Cards(board) /\ board'[p] = board[p] /\ p \notin unsure
        /\ messages'[board[p].id].text = messages[board[p].id].text
    BY <2>0
  <2>2. board[p].id \in DOMAIN messages
    BY <2>1, CardIds
  <2>3. messages[board[p].id].there
    BY <2>1, <2>2 DEF Grown
  <2> QED
    BY <2>1, <2>3 DEF HashIsShown
<1> QED
  BY <1>1, <1>2

---------------------------------------------------------------------------
\* The steps of a pass.

LEMMA PassBecomes ==
    ASSUME NEW s \in SyncState, NEW todo \in SUBSET Pairs, NEW extra \in SUBSET Pairs, NEW c \in BOOLEAN
    PROVE  /\ [s EXCEPT !.todo = todo] \in SyncState
           /\ [s EXCEPT !.changed = c] \in SyncState
           /\ [s EXCEPT !.todo = todo, !.changed = c] \in SyncState
           /\ [s EXCEPT !.extra = extra, !.changed = c] \in SyncState
BY DEF SyncState

LEMMA PassStays ==
    ASSUME SyncFits, sync.pc = "put", sync' \in SyncState, sync'.pc = "put", sync'.hooks = sync.hooks,
           sync'.extra \subseteq sync.extra, sync'.extra \subseteq Cards(board)', sync'.todo \subseteq sync.todo,
           sync.changed => sync'.changed, ~sync'.changed => board' = board,
           UNCHANGED <<boardFile, saveFailed>>
    PROVE  SyncFits'
BY DEF SyncFits, RestIsSaved

LEMMA DoneIs ==
    ASSUME SyncFits, NEW pair \in Pairs, CardDone(pair)
    PROVE  /\ sync' \in SyncState /\ sync'.pc = sync.pc /\ sync'.hooks = sync.hooks
           /\ sync'.extra = sync.extra /\ sync'.todo = sync.todo \ {pair} /\ sync'.changed
<1> DEFINE todo == sync.todo \ {pair}
<1>1. sync \in SyncState /\ todo \in SUBSET Pairs
  BY DEF SyncFits, SyncState
<1>2. sync' = [sync EXCEPT !.todo = todo, !.changed = TRUE]
  BY DEF CardDone
<1> HIDE DEF todo
<1>3. sync' \in SyncState
  BY <1>1, <1>2, PassBecomes
<1> QED
  BY <1>1, <1>2, <1>3 DEF SyncState, todo

LEMMA FailedIs ==
    ASSUME SyncFits, NEW pair \in Pairs, NEW did \in BOOLEAN, Fails(pair, did)
    PROVE  /\ sync' \in SyncState /\ sync'.pc = sync.pc /\ sync'.hooks = sync.hooks
           /\ sync'.extra = sync.extra /\ sync'.todo \subseteq sync.todo
           /\ sync'.changed = (sync.changed \/ did)
<1> DEFINE todo == {p \in sync.todo : p[1] # pair[1]}
           c == sync.changed \/ did
<1>1. sync \in SyncState /\ todo \in SUBSET Pairs /\ c \in BOOLEAN /\ todo \subseteq sync.todo
  BY DEF SyncFits, SyncState
<1>2. sync' = [sync EXCEPT !.todo = todo, !.changed = c]
  BY DEF Fails
<1> HIDE DEF todo, c
<1>3. sync' \in SyncState
  BY <1>1, <1>2, PassBecomes
<1>4. sync'.pc = sync.pc /\ sync'.hooks = sync.hooks /\ sync'.extra = sync.extra /\ sync'.todo = todo
      /\ sync'.changed = c
  BY <1>1, <1>2, <1>3 DEF SyncState
<1> QED
  BY <1>1, <1>3, <1>4 DEF c

LEMMA ChangedIs ==
    ASSUME SyncFits, sync' = [sync EXCEPT !.changed = TRUE]
    PROVE  /\ sync' \in SyncState /\ sync'.pc = sync.pc /\ sync'.hooks = sync.hooks
           /\ sync'.extra = sync.extra /\ sync'.todo = sync.todo /\ sync'.changed
<1>1. sync \in SyncState
  BY DEF SyncFits
<1> QED
  BY <1>1 DEF SyncState

\* What is left as it was.
LEMMA Untouched ==
    ASSUME CardTypes, UNCHANGED <<board, messages, stray, unsure>>, BoardFits(board), NoneLost, HashIsShown
    PROVE  BoardFits(board)' /\ NoneLost' /\ HashIsShown'
BY DEF BoardFits, NoneLost, HashIsShown, Cards

LEMMA FileUntouched ==
    ASSUME UNCHANGED <<boardFile, messages>>, BoardFits(boardFile)
    PROVE  BoardFits(boardFile)'
BY DEF BoardFits, Cards

LEMMA TypesStay ==
    ASSUME CardTypes, Grown, hooks' \in [Hooks -> Hook], says' \in [Watched -> CardStates \cup {Unsaid}],
           stray' \subseteq DOMAIN messages', unsure' \subseteq Pairs
    PROVE  CardTypes'
<1>1. NoCard.url \in Places
  BY DEF CardTypes
<1>2. NoCard' = NoCard
  BY DEF NoCard
<1> QED
  BY <1>1, <1>2 DEF CardTypes, Grown

LEMMA SaidIs ==
    ASSUME CardTypes, NEW pair \in Pairs, says[pair[2]] # Unsaid
    PROVE  says[pair[2]] \in CardStates /\ says[pair[2]] # ""
BY CardsAssumption DEF CardTypes, Pairs

\* Moves, Removes, and an edit that finds nothing: a message is given up.
LEMMA GiveUp ==
    ASSUME CardsInv, NEW pair \in Cards(board), board' = [board EXCEPT ![pair] = NoCard],
           \/ messages' = [messages EXCEPT ![board[pair].id].there = FALSE] /\ UNCHANGED stray
           \/ messages[board[pair].id].there /\ stray' = stray \cup {board[pair].id} /\ UNCHANGED messages
           \/ ~messages[board[pair].id].there /\ UNCHANGED <<messages, stray>>,
           unsure' = unsure \ {pair}, UNCHANGED <<hooks, says, boardFile>>
    PROVE  /\ CardTypes' /\ BoardFits(board)' /\ BoardFits(boardFile)' /\ NoneLost' /\ HashIsShown'
           /\ Cards(board)' = Cards(board) \ {pair}
<1>0. CardTypes /\ BoardFits(board) /\ BoardFits(boardFile) /\ NoneLost /\ HashIsShown
  BY DEF CardsInv
<1> DEFINE n == board[pair].id
<1>1. pair \in Pairs /\ n \in DOMAIN messages
  BY <1>0, CardIds
<1>2. /\ Grown /\ DOMAIN messages' = DOMAIN messages
      /\ \A o \in DOMAIN messages \ {n} : messages'[o] = messages[o]
      /\ stray \subseteq stray' /\ stray' \subseteq DOMAIN messages
      /\ n \in stray' \/ ~messages'[n].there
      /\ \A o \in DOMAIN messages : messages'[o].there => messages[o].there
  <2>1. CASE messages' = [messages EXCEPT ![n].there = FALSE] /\ UNCHANGED stray
    BY <1>0, <1>1, <2>1, GoneGrows DEF CardTypes, Grown
  <2>2. CASE messages[n].there /\ stray' = stray \cup {n} /\ UNCHANGED messages
    BY <1>0, <1>1, <2>2, SameGrows DEF CardTypes
  <2>3. CASE ~messages[n].there /\ UNCHANGED <<messages, stray>>
    BY <1>0, <1>1, <2>3, SameGrows DEF CardTypes
  <2> QED
    BY <2>1, <2>2, <2>3
<1>3. BoardFits(board)' /\ Cards(board)' = Cards(board) \ {pair} /\ \A q \in Pairs \ {pair} : board'[q] = board[q]
  BY <1>0, <1>1, <1>2, BoardDrops
<1>4. CardTypes'
  BY <1>0, <1>1, <1>2, TypesStay DEF CardTypes
<1>5. NoneLost'
  BY <1>0, <1>1, <1>2, <1>3, StillKnown
<1>6. HashIsShown'
  <2> DEFINE changed == {pair}
  <2>1. ASSUME NEW p \in Cards(board) \ changed
        PROVE  /\ board'[p] = board[p]
               /\ messages'[board[p].id].text = messages[board[p].id].text
               /\ p \in unsure => p \in unsure'
    <3>1. p \in Pairs /\ board[p].id \in DOMAIN messages
      BY <1>0, CardIds
    <3>2. board[p].id # n
      BY <1>0 DEF BoardFits
    <3> QED
      BY <1>2, <1>3, <3>1, <3>2
  <2>2. changed \subseteq Pairs /\ Cards(board)' \subseteq Cards(board) \cup changed
        /\ Cards(board)' \cap changed = {}
    BY <1>1, <1>3
  <2> HIDE DEF changed
  <2> QED
    BY <1>0, <1>2, <2>1, <2>2, StillShown
<1> QED
  BY <1>0, <1>2, <1>3, <1>4, <1>5, <1>6, FileStays

\* Edits and Pauses: a message gets a new text; its record says so, or the
\* answer was lost.
LEMMA Rewrite ==
    ASSUME CardsInv, NEW pair \in Cards(board), NEW text \in CardStates \cup {Paused},
           NEW hash \in CardStates \cup {""}, text = IF hash = "" THEN Paused ELSE hash,
           messages' = [messages EXCEPT ![board[pair].id].text = text],
           \/ board' = [board EXCEPT ![pair].hash = hash] /\ unsure' = unsure \ {pair}
           \/ board' = board /\ unsure' = unsure \cup {pair},
           UNCHANGED <<hooks, says, boardFile, stray>>
    PROVE  /\ CardTypes' /\ BoardFits(board)' /\ BoardFits(boardFile)' /\ NoneLost' /\ HashIsShown'
           /\ Cards(board)' = Cards(board)
<1>0. CardTypes /\ BoardFits(board) /\ BoardFits(boardFile) /\ NoneLost /\ HashIsShown
  BY DEF CardsInv
<1> DEFINE n == board[pair].id
           changed == {pair}
<1>1. pair \in Pairs /\ n \in DOMAIN messages
  BY <1>0, CardIds
<1>2. /\ Grown /\ DOMAIN messages' = DOMAIN messages
      /\ \A o \in DOMAIN messages : messages'[o].there = messages[o].there
      /\ \A o \in DOMAIN messages \ {n} : messages'[o] = messages[o]
      /\ messages'[n].text = text
  <2>1. messages' = [messages EXCEPT ![n].text = text]
    OBVIOUS
  <2> HIDE DEF n
  <2> QED
    BY <1>0, <1>1, <2>1, TextGrows
<1>3. /\ BoardFits(board)' /\ Cards(board)' = Cards(board)
      /\ \A q \in Pairs \ {pair} : board'[q] = board[q]
      /\ board'[pair].id = n
      /\ board'[pair].hash = hash \/ pair \in unsure'
  <2>1. CASE board' = [board EXCEPT ![pair].hash = hash]
    BY <1>0, <1>1, <1>2, <2>1, BoardMarks
  <2>2. CASE board' = board /\ unsure' = unsure \cup {pair}
    BY <1>0, <1>2, <2>2, BoardKeeps DEF Cards
  <2> QED
    BY <2>1, <2>2
<1>4. unsure' \subseteq Pairs /\ \A p \in unsure \ {pair} : p \in unsure'
  BY <1>0, <1>1 DEF CardTypes
<1>5. CardTypes'
  BY <1>0, <1>2, <1>4, TypesStay DEF CardTypes
<1>6. NoneLost'
  <2>1. \A p \in Pairs : board'[p].id = board[p].id
    BY <1>3
  <2> QED
    BY <1>0, <1>2, <2>1, StillKnown
<1>7. HashIsShown'
  <2>1. ASSUME NEW p \in Cards(board) \ changed
        PROVE  /\ board'[p] = board[p]
               /\ messages'[board[p].id].text = messages[board[p].id].text
               /\ p \in unsure => p \in unsure'
    <3>1. p \in Pairs /\ board[p].id \in DOMAIN messages
      BY <1>0, CardIds
    <3>2. board[p].id # n
      BY <1>0 DEF BoardFits
    <3> QED
      BY <1>2, <1>3, <1>4, <3>1, <3>2
  <2>2. changed \subseteq Pairs /\ Cards(board)' \subseteq Cards(board) \cup changed
    BY <1>1, <1>3
  <2>3. ASSUME NEW p \in Cards(board)' \cap changed
        PROVE  messages'[board'[p].id].there /\ p \notin unsure' =>
                 messages'[board'[p].id].text = IF board'[p].hash = "" THEN Paused ELSE board'[p].hash
    BY <1>2, <1>3
  <2> HIDE DEF changed
  <2> QED
    BY <1>0, <1>2, <2>1, <2>2, <2>3, StillShown
<1> QED
  BY <1>0, <1>2, <1>3, <1>5, <1>6, <1>7, FileStays

\* PostCard: a new message, on the board or not.
LEMMA PostMade ==
    ASSUME CardsInv, NEW pair \in Pairs, board[pair].id = 0, NEW place \in Places, NEW text \in CardStates,
           messages' = Append(messages, Message(place, text)),
           \/ /\ board' = [board EXCEPT ![pair] = [id |-> Len(messages) + 1, url |-> place, hash |-> text]]
              /\ stray' = stray
           \/ board' = board /\ stray' = stray \cup {Len(messages) + 1},
           UNCHANGED <<hooks, says, boardFile, unsure>>
    PROVE  /\ CardTypes' /\ BoardFits(board)' /\ BoardFits(boardFile)' /\ NoneLost' /\ HashIsShown'
           /\ Cards(board) \subseteq Cards(board)'
<1>0. CardTypes /\ BoardFits(board) /\ BoardFits(boardFile) /\ NoneLost /\ HashIsShown
  BY DEF CardsInv
<1> DEFINE n == Len(messages) + 1
           c == [id |-> n, url |-> place, hash |-> text]
<1>1. /\ Grown /\ Len(messages') = n /\ Len(messages) \in Nat
      /\ DOMAIN messages' = DOMAIN messages \cup {n} /\ n \notin DOMAIN messages
      /\ \A o \in DOMAIN messages : messages'[o] = messages[o]
      /\ messages'[n] = Message(place, text)
  BY <1>0, PostGrows
<1>2. messages'[n].place = place /\ messages'[n].text = text
  BY <1>1 DEF Message
<1>3. n # 0 /\ n \in 0..n
  BY <1>1
<1>4. c \in Card(Len(messages')) /\ c.id = n /\ c.url = place /\ c.hash = text
  BY <1>1, <1>3 DEF Card
<1>5. CardTypes'
  BY <1>0, <1>1, TypesStay DEF CardTypes
<1>6. BoardFits(boardFile)'
  BY <1>0, <1>1, FileStays
<1>7. \A p \in Cards(board) : p \in Pairs /\ board[p].id \in DOMAIN messages /\ p # pair
  BY <1>0, CardIds DEF Cards
<1>8. text # ""
  BY CardsAssumption
<1>9. CASE board' = [board EXCEPT ![pair] = c] /\ stray' = stray
  <2> HIDE DEF c, n
  <2>1. \A q \in Pairs : board'[q] = IF q = pair THEN c ELSE board[q]
    BY <1>0, <1>9 DEF BoardFits
  <2>2. Cards(board)' = Cards(board) \cup {pair}
    BY <1>3, <1>4, <2>1 DEF Cards
  <2>3. board \in [Pairs -> Card(Len(messages'))]
        /\ \A p \in Cards(board) : messages'[board[p].id].there => messages'[board[p].id].place = board[p].url
    BY <1>0, <1>1, BoardStays
  <2>4. board' \in [Pairs -> Card(Len(messages'))]
    BY <1>4, <1>9, <2>3
  <2>5. \A p, q \in Cards(board)' : board'[p].id = board'[q].id => p = q
    BY <1>0, <1>1, <1>4, <1>7, <2>1, <2>2 DEF BoardFits
  <2>6. \A p \in Cards(board)' : messages'[board'[p].id].there => messages'[board'[p].id].place = board'[p].url
    BY <1>2, <1>4, <1>7, <2>1, <2>2, <2>3
  <2>7. BoardFits(board)'
    BY <2>4, <2>5, <2>6 DEF BoardFits
  <2>8. NoneLost'
    <3> SUFFICES ASSUME NEW m \in DOMAIN messages', messages'[m].there
                 PROVE  m \in stray' \/ \E p \in Pairs : board'[p].id = m
      BY DEF NoneLost
    <3>1. CASE m = n
      BY <1>4, <2>1, <3>1
    <3>2. CASE m \in DOMAIN messages
      <4>1. m \in stray \/ \E p \in Pairs : board[p].id = m
        BY <1>0, <1>1, <3>2 DEF NoneLost
      <4>2. m # 0
        BY <1>0, <3>2 DEF CardTypes
      <4> QED
        BY <1>9, <2>1, <4>1, <4>2
    <3> QED
      BY <1>1, <3>1, <3>2
  <2>9. HashIsShown'
    <3> SUFFICES ASSUME NEW p \in Cards(board)', messages'[board'[p].id].there, p \notin unsure
                 PROVE  messages'[board'[p].id].text = IF board'[p].hash = "" THEN Paused ELSE board'[p].hash
      BY DEF HashIsShown
    <3>1. CASE p = pair
      BY <1>2, <1>4, <1>7, <1>8, <2>1, <3>1
    <3>2. CASE p # pair
      <4>1. p \in Cards(board) /\ board'[p] = board[p] /\ messages'[board[p].id] = messages[board[p].id]
        BY <1>1, <1>7, <2>1, <2>2, <3>2
      <4> QED
        BY <1>0, <4>1 DEF HashIsShown
    <3> QED
      BY <3>1, <3>2
  <2> QED
    BY <1>5, <1>6, <2>2, <2>7, <2>8, <2>9
<1>10. CASE board' = board /\ stray' = stray \cup {n}
  <2> HIDE DEF c, n
  <2>1. BoardFits(board)'
    BY <1>0, <1>1, <1>10, BoardKeeps
  <2>2. NoneLost'
    BY <1>0, <1>1, <1>10 DEF NoneLost
  <2>3. HashIsShown'
    BY <1>0, <1>1, <1>7, <1>10 DEF HashIsShown, Cards
  <2> QED
    BY <1>5, <1>6, <1>10, <2>1, <2>2, <2>3 DEF Cards
<1> QED
  BY <1>9, <1>10

LEMMA PassPairs ==
    ASSUME CardsInv, NEW pair \in sync.todo
    PROVE  pair \in Pairs
BY DEF CardsInv, SyncFits, SyncState

LEMMA PlaceIs ==
    ASSUME CardsInv, NEW pair \in Pairs, sync.pc = "put"
    PROVE  sync.hooks[pair[1]].place \in Places
BY DEF CardsInv, SyncFits, Hook, Pairs

LEMMA TakesDownStep == ASSUME CardsInv, NEW pair \in Pairs, TakesDown(pair) PROVE CardsInv'
<1>0. SyncFits /\ BoardFits(board)
  BY DEF CardsInv
<1>1. /\ pair \in Cards(board) /\ pair \in sync.todo /\ sync.pc = "put"
      /\ board' = [board EXCEPT ![pair] = NoCard]
      /\ \/ messages' = [messages EXCEPT ![board[pair].id].there = FALSE] /\ UNCHANGED stray
         \/ messages[board[pair].id].there /\ stray' = stray \cup {board[pair].id} /\ UNCHANGED messages
      /\ unsure' = unsure \ {pair} /\ UNCHANGED <<hooks, says, boardFile, saveFailed>>
      /\ sync' = [sync EXCEPT !.changed = TRUE]
  BY DEF TakesDown, Moves, Cards
<1>2. /\ CardTypes' /\ BoardFits(board)' /\ BoardFits(boardFile)' /\ NoneLost' /\ HashIsShown'
      /\ Cards(board)' = Cards(board) \ {pair}
  BY <1>1, GiveUp
<1>3. /\ sync' \in SyncState /\ sync'.pc = sync.pc /\ sync'.hooks = sync.hooks
      /\ sync'.extra = sync.extra /\ sync'.todo = sync.todo /\ sync'.changed
  BY <1>0, <1>1, ChangedIs
<1>4. sync'.extra \subseteq Cards(board)'
  BY <1>0, <1>1, <1>2, <1>3 DEF SyncFits
<1>5. SyncFits'
  BY <1>0, <1>1, <1>3, <1>4, PassStays
<1> QED
  BY <1>2, <1>5 DEF CardsInv

LEMMA EditsStep == ASSUME CardsInv, NEW pair \in Pairs, Edits(pair) PROVE CardsInv'
<1>0. CardTypes /\ BoardFits(board) /\ BoardFits(boardFile) /\ NoneLost /\ HashIsShown /\ SyncFits
  BY DEF CardsInv
<1> DEFINE text == says[pair[2]]
           n == board[pair].id
           Rewrites == messages' = [messages EXCEPT ![n].text = text]
<1>1. /\ pair \in Cards(board) /\ pair \in sync.todo /\ sync.pc = "put"
      /\ text # Unsaid
      /\ UNCHANGED <<hooks, says, boardFile, saveFailed>>
  BY DEF Edits, Cards
<1>2. text \in CardStates /\ text # ""
  BY <1>0, <1>1, SaidIs
<1>3. sync.extra \subseteq Cards(board) /\ pair \notin sync.extra
  BY <1>0, <1>1 DEF SyncFits
<1>4. CASE /\ Rewrites /\ CardDone(pair) /\ board' = [board EXCEPT ![pair].hash = text]
           /\ unsure' = unsure \ {pair} /\ UNCHANGED stray
  <2>1. /\ CardTypes' /\ BoardFits(board)' /\ BoardFits(boardFile)' /\ NoneLost' /\ HashIsShown'
        /\ Cards(board)' = Cards(board)
    BY <1>1, <1>2, <1>4, Rewrite
  <2>2. SyncFits'
    BY <1>0, <1>1, <1>3, <1>4, <2>1, DoneIs, PassStays
  <2> QED
    BY <2>1, <2>2 DEF CardsInv
<1>5. CASE /\ board' = [board EXCEPT ![pair] = NoCard]
           /\ stray' = IF messages[n].there THEN stray \cup {n} ELSE stray
           /\ sync' = [sync EXCEPT !.changed = TRUE] /\ unsure' = unsure \ {pair} /\ UNCHANGED messages
  <2>0. \/ messages[n].there /\ stray' = stray \cup {n} /\ UNCHANGED messages
        \/ ~messages[n].there /\ UNCHANGED <<messages, stray>>
    BY <1>5
  <2>1. /\ CardTypes' /\ BoardFits(board)' /\ BoardFits(boardFile)' /\ NoneLost' /\ HashIsShown'
        /\ Cards(board)' = Cards(board) \ {pair}
    BY <1>1, <1>5, <2>0, GiveUp
  <2>2. SyncFits'
    BY <1>0, <1>1, <1>3, <1>5, <2>1, ChangedIs, PassStays
  <2> QED
    BY <2>1, <2>2 DEF CardsInv
<1>6. CASE Fails(pair, FALSE) /\ UNCHANGED <<board, messages, stray, unsure>>
  <2>1. BoardFits(board)' /\ NoneLost' /\ HashIsShown' /\ BoardFits(boardFile)'
    BY <1>0, <1>1, <1>6, Untouched, FileUntouched
  <2>2. CardTypes' /\ Cards(board)' = Cards(board)
    BY <1>0, <1>1, <1>6, TypesStay, SameGrows DEF CardTypes, Cards
  <2>3. SyncFits'
    BY <1>0, <1>1, <1>3, <1>6, <2>2, FailedIs, PassStays
  <2> QED
    BY <2>1, <2>2, <2>3 DEF CardsInv
<1>7. CASE Rewrites /\ Fails(pair, FALSE) /\ unsure' = unsure \cup {pair} /\ UNCHANGED <<board, stray>>
  <2>1. /\ CardTypes' /\ BoardFits(board)' /\ BoardFits(boardFile)' /\ NoneLost' /\ HashIsShown'
        /\ Cards(board)' = Cards(board)
    BY <1>1, <1>2, <1>7, Rewrite
  <2>2. SyncFits'
    BY <1>0, <1>1, <1>3, <1>7, <2>1, FailedIs, PassStays
  <2> QED
    BY <2>1, <2>2 DEF CardsInv
<1> QED
  BY <1>4, <1>5, <1>6, <1>7 DEF Edits

LEMMA PostsStep == ASSUME CardsInv, NEW pair \in Pairs, Posts(pair) PROVE CardsInv'
<1>0. CardTypes /\ BoardFits(board) /\ BoardFits(boardFile) /\ NoneLost /\ HashIsShown /\ SyncFits
  BY DEF CardsInv
<1> DEFINE text == says[pair[2]]
           place == sync.hooks[pair[1]].place
           Made == messages' = Append(messages, Message(place, text))
<1>1. /\ pair \in sync.todo /\ sync.pc = "put" /\ text # Unsaid /\ board[pair].id = 0
      /\ UNCHANGED <<hooks, says, boardFile, saveFailed, unsure>>
  BY DEF Posts
<1>2. text \in CardStates /\ place \in Places
  BY <1>0, <1>1, SaidIs, PlaceIs
<1>3. sync.extra \subseteq Cards(board)
  BY <1>0, <1>1 DEF SyncFits
<1>4. CASE /\ Made /\ CardDone(pair) /\ UNCHANGED stray
           /\ board' = [board EXCEPT ![pair] = [id |-> Len(messages) + 1, url |-> place, hash |-> text]]
  <2> HIDE DEF text, place
  <2>1. /\ CardTypes' /\ BoardFits(board)' /\ BoardFits(boardFile)' /\ NoneLost' /\ HashIsShown'
        /\ Cards(board) \subseteq Cards(board)'
    BY <1>1, <1>2, <1>4, PostMade
  <2>2. SyncFits'
    BY <1>0, <1>1, <1>3, <1>4, <2>1, DoneIs, PassStays
  <2> QED
    BY <2>1, <2>2 DEF CardsInv
<1>5. CASE Fails(pair, TRUE) /\ UNCHANGED <<messages, board, stray>>
  <2>1. BoardFits(board)' /\ NoneLost' /\ HashIsShown' /\ BoardFits(boardFile)'
    BY <1>0, <1>1, <1>5, Untouched, FileUntouched
  <2>2. CardTypes' /\ Cards(board)' = Cards(board)
    BY <1>0, <1>1, <1>5, TypesStay, SameGrows DEF CardTypes, Cards
  <2>3. SyncFits'
    BY <1>0, <1>1, <1>3, <1>5, <2>2, FailedIs, PassStays
  <2> QED
    BY <2>1, <2>2, <2>3 DEF CardsInv
<1>6. CASE Made /\ Fails(pair, TRUE) /\ stray' = stray \cup {Len(messages) + 1} /\ UNCHANGED board
  <2> HIDE DEF text, place
  <2>1. /\ CardTypes' /\ BoardFits(board)' /\ BoardFits(boardFile)' /\ NoneLost' /\ HashIsShown'
        /\ Cards(board) \subseteq Cards(board)'
    BY <1>1, <1>2, <1>6, PostMade
  <2>2. SyncFits'
    BY <1>0, <1>1, <1>3, <1>6, <2>1, FailedIs, PassStays
  <2> QED
    BY <2>1, <2>2 DEF CardsInv
<1> QED
  BY <1>4, <1>5, <1>6 DEF Posts

LEMMA RemovesStep == ASSUME CardsInv, NEW pair \in Pairs, Removes(pair) PROVE CardsInv'
<1>0. SyncFits /\ BoardFits(board)
  BY DEF CardsInv
<1> DEFINE extra == sync.extra \ {pair}
<1>1. /\ pair \in sync.extra /\ sync.pc = "put"
      /\ board' = [board EXCEPT ![pair] = NoCard]
      /\ \/ messages' = [messages EXCEPT ![board[pair].id].there = FALSE] /\ UNCHANGED stray
         \/ messages[board[pair].id].there /\ stray' = stray \cup {board[pair].id} /\ UNCHANGED messages
      /\ unsure' = unsure \ {pair} /\ UNCHANGED <<hooks, says, boardFile, saveFailed>>
      /\ sync' = [sync EXCEPT !.extra = extra, !.changed = TRUE]
  BY DEF Removes
<1>2. pair \in Cards(board) /\ sync.extra \subseteq Cards(board) /\ sync \in SyncState /\ extra \in SUBSET Pairs
  BY <1>0, <1>1 DEF SyncFits, Cards
<1>3. /\ CardTypes' /\ BoardFits(board)' /\ BoardFits(boardFile)' /\ NoneLost' /\ HashIsShown'
      /\ Cards(board)' = Cards(board) \ {pair}
  BY <1>1, <1>2, GiveUp
<1>4. extra \subseteq sync.extra /\ extra \subseteq Cards(board)'
  BY <1>2, <1>3
<1> HIDE DEF extra
<1>5. sync' \in SyncState
  BY <1>1, <1>2, PassBecomes
<1>6. sync'.pc = sync.pc /\ sync'.hooks = sync.hooks /\ sync'.extra = extra /\ sync'.todo = sync.todo
      /\ sync'.changed
  BY <1>1, <1>2 DEF SyncState
<1>7. SyncFits'
  BY <1>0, <1>1, <1>4, <1>5, <1>6, PassStays
<1> QED
  BY <1>3, <1>7 DEF CardsInv

LEMMA PausesStep == ASSUME CardsInv, NEW pair \in Pairs, Pauses(pair) PROVE CardsInv'
<1>0. CardTypes /\ BoardFits(board) /\ BoardFits(boardFile) /\ NoneLost /\ HashIsShown /\ SyncFits
  BY DEF CardsInv
<1> DEFINE todo == sync.todo \ {pair}
<1>1. /\ pair \in sync.todo /\ sync.pc = "pause" /\ UNCHANGED <<hooks, says, boardFile, saveFailed, stray>>
      /\ sync' = [sync EXCEPT !.todo = todo]
  BY DEF Pauses
<1>2. pair \in Cards(board) /\ sync.todo \subseteq Cards(board) /\ sync \in SyncState /\ todo \in SUBSET Pairs
  BY <1>0, <1>1 DEF SyncFits, Cards
<1>3. todo \subseteq Cards(board)
  BY <1>2
<1> HIDE DEF todo
<1>4. sync' \in SyncState /\ sync'.pc = "pause" /\ sync'.todo = todo
  <2>1. sync' \in SyncState
    BY <1>1, <1>2, PassBecomes
  <2> QED
    BY <1>1, <1>2, <2>1 DEF SyncState
<1>5. Paused \in CardStates \cup {Paused} /\ "" \in CardStates \cup {""}
  OBVIOUS
<1>6. /\ CardTypes' /\ BoardFits(board)' /\ BoardFits(boardFile)' /\ NoneLost' /\ HashIsShown'
      /\ Cards(board)' = Cards(board)
  <2>1. CASE /\ messages' = [messages EXCEPT ![board[pair].id].text = Paused]
             /\ \/ board' = [board EXCEPT ![pair].hash = ""] /\ unsure' = unsure \ {pair}
                \/ board' = board /\ unsure' = unsure \cup {pair}
    BY <1>1, <1>2, <1>5, <2>1, Rewrite
  <2>2. CASE UNCHANGED <<messages, board, unsure>>
    <3>1. BoardFits(board)' /\ NoneLost' /\ HashIsShown' /\ BoardFits(boardFile)'
      BY <1>0, <1>1, <2>2, Untouched, FileUntouched
    <3> QED
      BY <1>0, <1>1, <2>2, <3>1, TypesStay, SameGrows DEF CardTypes, Cards
  <2> QED
    BY <2>1, <2>2 DEF Pauses
<1>7. SyncFits'
  BY <1>3, <1>4, <1>6 DEF SyncFits, RestIsSaved
<1> QED
  BY <1>6, <1>7 DEF CardsInv

\* What was saved is all that is left.
LEMMA KilledStep == ASSUME CardsInv, Killed PROVE CardsInv'
<1>0. CardTypes /\ BoardFits(board) /\ BoardFits(boardFile) /\ NoneLost /\ HashIsShown /\ SyncFits
  BY DEF CardsInv
<1> DEFINE lost == {pair \in Cards(board) : boardFile[pair].id # board[pair].id}
<1>1. /\ sync' = [Resting EXCEPT !.pc = "off"]
      /\ board' = boardFile
      /\ stray' = stray \cup {board[pair].id : pair \in lost}
      /\ unsure' = {pair \in Cards(boardFile) : pair \in unsure \/ boardFile[pair] # board[pair]}
      /\ saveFailed' = FALSE
      /\ UNCHANGED <<hooks, says, boardFile, messages>>
  BY DEF Killed
<1>2. BoardFits(board)' /\ BoardFits(boardFile)'
  BY <1>0, <1>1 DEF BoardFits, Cards
<1>3. CardTypes'
  <2>1. stray' \subseteq DOMAIN messages
    <3>1. \A p \in lost : board[p].id \in DOMAIN messages
      BY <1>0, CardIds
    <3> QED
      BY <1>0, <1>1, <3>1 DEF CardTypes
  <2>2. unsure' \subseteq Pairs
    BY <1>1 DEF Cards
  <2> QED
    BY <1>0, <1>1, <2>1, <2>2, TypesStay, SameGrows DEF CardTypes
<1>4. NoneLost'
  <2> SUFFICES ASSUME NEW n \in DOMAIN messages, messages[n].there
               PROVE  n \in stray' \/ \E p \in Pairs : boardFile[p].id = n
    BY <1>1 DEF NoneLost
  <2>1. CASE n \in stray
    BY <1>1, <2>1
  <2>2. ASSUME NEW p \in Pairs, board[p].id = n PROVE n \in stray' \/ \E q \in Pairs : boardFile[q].id = n
    <3>1. n # 0
      BY <1>0 DEF CardTypes
    <3>2. p \in Cards(board)
      BY <2>2, <3>1 DEF Cards
    <3> QED
      BY <1>1, <2>2, <3>2
  <2> QED
    BY <1>0, <2>1, <2>2 DEF NoneLost
<1>5. HashIsShown'
  <2> SUFFICES ASSUME NEW p \in Cards(boardFile), messages[boardFile[p].id].there, p \notin unsure'
               PROVE  messages[boardFile[p].id].text = IF boardFile[p].hash = "" THEN Paused ELSE boardFile[p].hash
    BY <1>1 DEF HashIsShown, Cards
  <2>2. p \notin unsure /\ boardFile[p] = board[p]
    BY <1>1
  <2>3. p \in Cards(board)
    BY <2>2 DEF Cards
  <2> QED
    BY <1>0, <2>2, <2>3 DEF HashIsShown
<1>6. SyncFits'
  BY <1>1, RestingIs DEF SyncFits, RestIsSaved
<1> QED
  BY <1>2, <1>3, <1>4, <1>5, <1>6 DEF CardsInv

LEMMA DeletedStep == ASSUME CardsInv, NEW n \in DOMAIN messages, MessageDeleted(n) PROVE CardsInv'
<1>0. CardTypes /\ BoardFits(board) /\ BoardFits(boardFile) /\ NoneLost /\ HashIsShown /\ SyncFits
  BY DEF CardsInv
<1>1. /\ messages' = [messages EXCEPT ![n].there = FALSE]
      /\ UNCHANGED <<hooks, says, board, boardFile, saveFailed, sync, stray, unsure>>
  BY DEF MessageDeleted
<1>2. /\ Grown /\ DOMAIN messages' = DOMAIN messages
      /\ \A o \in DOMAIN messages \ {n} : messages'[o] = messages[o]
      /\ ~messages'[n].there
  BY <1>0, <1>1, GoneGrows
<1>3. BoardFits(board)' /\ BoardFits(boardFile)' /\ CardTypes'
  BY <1>0, <1>1, <1>2, BoardKeeps, FileStays, TypesStay DEF CardTypes
<1>4. NoneLost'
  BY <1>0, <1>1, <1>2 DEF NoneLost
<1>5. HashIsShown'
  <2> SUFFICES ASSUME NEW p \in Cards(board), messages'[board[p].id].there, p \notin unsure
               PROVE  messages'[board[p].id].text = IF board[p].hash = "" THEN Paused ELSE board[p].hash
    BY <1>1 DEF HashIsShown, Cards
  <2>1. board[p].id \in DOMAIN messages
    BY <1>0, CardIds
  <2>2. messages'[board[p].id] = messages[board[p].id]
    BY <1>2, <2>1
  <2> QED
    BY <1>0, <2>2 DEF HashIsShown
<1>6. SyncFits'
  BY <1>0, <1>1 DEF SyncFits, RestIsSaved, Cards
<1> QED
  BY <1>3, <1>4, <1>5, <1>6 DEF CardsInv

\* Steps that leave the board, its messages and what is known of them alone.
LEMMA ElsewhereStep ==
    ASSUME CardsInv, UNCHANGED <<board, messages, stray, unsure>>,
           hooks' \in [Hooks -> Hook], says' \in [Watched -> CardStates \cup {Unsaid}],
           boardFile' \in {board, boardFile}, SyncFits'
    PROVE  CardsInv'
<1>0. CardTypes /\ BoardFits(board) /\ BoardFits(boardFile) /\ NoneLost /\ HashIsShown
  BY DEF CardsInv
<1>1. BoardFits(board)' /\ NoneLost' /\ HashIsShown'
  BY <1>0, Untouched
<1>2. CardTypes'
  BY <1>0, TypesStay, SameGrows DEF CardTypes
<1>3. BoardFits(boardFile)'
  BY <1>0 DEF BoardFits, Cards
<1> QED
  BY <1>1, <1>2, <1>3 DEF CardsInv

LEMMA SyncStep ==
    ASSUME CardsInv, SyncBegins \/ SyncEnds \/ PauseBegins \/ PauseEnds \/ Boots
                     \/ \E pair \in Pairs : CardPasses(pair)
    PROVE  CardsInv'
<1>0. CardTypes /\ SyncFits
  BY DEF CardsInv
<1>h. hooks \in [Hooks -> Hook] /\ says \in [Watched -> CardStates \cup {Unsaid}]
  BY <1>0 DEF CardTypes
<1>1. CASE SyncBegins
  <2>1. sync' = [pc |-> "put", hooks |-> hooks, extra |-> Cards(board) \ Wanted(hooks), changed |-> FALSE,
                 todo |-> {pair \in Wanted(hooks) : pair[1] \notin backing}]
        /\ UNCHANGED <<hooks, says, board, boardFile, saveFailed, messages, stray, unsure>>
        /\ (~saveFailed => board = boardFile)
    BY <1>0, <1>1 DEF SyncBegins, SyncFits, RestIsSaved
  <2>2. Cards(board) \ Wanted(hooks) \subseteq Pairs /\ {pair \in Wanted(hooks) : pair[1] \notin backing} \subseteq Pairs
    BY DEF Cards, Wanted
  <2>3. sync' \in SyncState
    BY <1>h, <2>1, <2>2 DEF SyncState
  <2>4. SyncFits'
    BY <1>h, <2>1, <2>3 DEF SyncFits, RestIsSaved, Cards
  <2> QED
    BY <1>h, <2>1, <2>4, ElsewhereStep
<1>2. CASE SyncEnds
  <2>1. /\ sync' = Resting /\ boardFile' \in {board, boardFile}
        /\ ~saveFailed' => boardFile' = board
        /\ UNCHANGED <<hooks, says, board, messages, stray, unsure>>
    BY <1>0, <1>2 DEF SyncEnds, SyncFits
  <2>2. SyncFits'
    BY <2>1, RestingIs DEF SyncFits, RestIsSaved
  <2> QED
    BY <1>h, <2>1, <2>2, ElsewhereStep
<1>3. CASE PauseBegins
  <2>1. /\ sync' = [Resting EXCEPT !.pc = "pause", !.todo = Cards(board)]
        /\ UNCHANGED <<hooks, says, board, boardFile, saveFailed, messages, stray, unsure>>
    BY <1>3 DEF PauseBegins
  <2>2. Cards(board) \in SUBSET Pairs
    BY DEF Cards
  <2>3. sync' \in SyncState /\ sync'.pc = "pause" /\ sync'.todo = Cards(board)
    BY <2>1, <2>2, RestingIs
  <2>4. SyncFits'
    BY <2>1, <2>3 DEF SyncFits, RestIsSaved, Cards
  <2> QED
    BY <1>h, <2>1, <2>4, ElsewhereStep
<1>4. CASE PauseEnds
  <2>1. /\ sync' = [Resting EXCEPT !.pc = "off"] /\ boardFile' = board /\ saveFailed' = FALSE
        /\ UNCHANGED <<hooks, says, board, messages, stray, unsure>>
    BY <1>4 DEF PauseEnds
  <2>2. SyncFits'
    BY <2>1, RestingIs DEF SyncFits, RestIsSaved
  <2> QED
    BY <1>h, <2>1, <2>2, ElsewhereStep
<1>5. CASE Boots
  <2>1. /\ board' = boardFile /\ board = boardFile /\ sync' = Resting /\ says' = [s \in Watched |-> Unsaid]
        /\ UNCHANGED <<hooks, boardFile, saveFailed, messages, stray, unsure>>
    BY <1>0, <1>5 DEF Boots, SyncFits, RestIsSaved
  <2>2. SyncFits'
    BY <2>1, RestingIs DEF SyncFits, RestIsSaved
  <2>3. says' \in [Watched -> CardStates \cup {Unsaid}]
    BY <2>1
  <2> QED
    BY <1>h, <2>1, <2>2, <2>3, ElsewhereStep
<1>6. ASSUME NEW pair \in Pairs, CardPasses(pair) PROVE CardsInv'
  <2> DEFINE todo == sync.todo \ {pair}
  <2>1. /\ sync.pc = "put" /\ sync' = [sync EXCEPT !.todo = todo]
        /\ UNCHANGED <<hooks, says, board, boardFile, saveFailed, messages, stray, unsure>>
    BY <1>6 DEF CardPasses
  <2>2. sync \in SyncState /\ todo \in SUBSET Pairs /\ todo \subseteq sync.todo
    BY <1>0 DEF SyncFits, SyncState
  <2> HIDE DEF todo
  <2>3. sync' \in SyncState
    BY <2>1, <2>2, PassBecomes
  <2>4. sync'.pc = sync.pc /\ sync'.hooks = sync.hooks /\ sync'.extra = sync.extra /\ sync'.todo = todo
        /\ sync'.changed = sync.changed
    BY <2>1, <2>2 DEF SyncState
  <2>5. Cards(board)' = Cards(board) /\ sync.extra \subseteq Cards(board)
    BY <1>0, <2>1 DEF Cards, SyncFits
  <2>6. SyncFits'
    BY <1>0, <2>1, <2>2, <2>3, <2>4, <2>5, PassStays
  <2> QED
    BY <1>h, <2>1, <2>6, ElsewhereStep
<1> QED
  BY <1>1, <1>2, <1>3, <1>4, <1>5, <1>6

LEMMA AroundStep ==
    ASSUME CardsInv,
           \/ \E s \in Watched, text \in CardStates : StateTurns(s, text)
           \/ \E h \in Hooks :
                 \/ BackoffEnds(h)
                 \/ \E place \in Places, servers \in SUBSET Watched : HooksEdited(h, place, servers)
           \/ UNCHANGED cardVars
    PROVE  CardsInv'
<1>h. /\ hooks \in [Hooks -> Hook] /\ says \in [Watched -> CardStates \cup {Unsaid}]
      /\ SyncFits
  BY DEF CardsInv, CardTypes
<1>1. /\ UNCHANGED <<board, boardFile, saveFailed, messages, stray, unsure, sync>>
  BY DEF StateTurns, BackoffEnds, HooksEdited, cardVars
<1>2. hooks' \in [Hooks -> Hook]
  <2>1. CASE UNCHANGED hooks
    BY <1>h, <2>1
  <2>2. ASSUME NEW h \in Hooks, NEW place \in Places, NEW servers \in SUBSET Watched, HooksEdited(h, place, servers)
        PROVE  hooks' \in [Hooks -> Hook]
    <3>1. [place |-> place, servers |-> servers] \in Hook
      BY DEF Hook
    <3> QED
      BY <1>h, <2>2, <3>1 DEF HooksEdited
  <2> QED
    BY <2>1, <2>2 DEF StateTurns, BackoffEnds, cardVars
<1>3. says' \in [Watched -> CardStates \cup {Unsaid}]
  BY <1>h DEF StateTurns, BackoffEnds, HooksEdited, cardVars
<1>4. SyncFits'
  BY <1>h, <1>1 DEF SyncFits, RestIsSaved, Cards
<1> QED
  BY <1>1, <1>2, <1>3, <1>4, ElsewhereStep

LEMMA CardsStep == CardsInv /\ [CardsNext]_cardVars => CardsInv'
BY TakesDownStep, EditsStep, PostsStep, RemovesStep, PausesStep, KilledStep, DeletedStep, SyncStep, AroundStep
   DEF CardsNext

LEMMA CardsHold == CardsInv => CardsTypeOK /\ CardsAreTrue
<1> SUFFICES ASSUME CardsInv PROVE CardsTypeOK /\ CardsAreTrue
  OBVIOUS
<1>0. CardTypes /\ BoardFits(board) /\ BoardFits(boardFile) /\ NoneLost /\ HashIsShown /\ SyncFits
  BY DEF CardsInv
<1>1. NoneLeftBehind
  BY <1>0 DEF NoneLeftBehind, NoneLost, BoardFits, Reachable
<1>2. CardsTypeOK
  BY <1>0 DEF CardsTypeOK, CardTypes, BoardFits, SyncFits, SyncState, Hook, Card
<1> QED
  BY <1>0, <1>1, <1>2 DEF CardsAreTrue, SyncFits

---------------------------------------------------------------------------
(***************************************************************************)
(* ChannelNames: the record of a channel's name, its file, and the renames. *)
(***************************************************************************)

DotOrNone == Dots \cup {NoDot}
Ticks == 0..LastNameTick
NameState == [there: BOOLEAN, source: NamePlaces, want: DotOrNone, since: Ticks, shown: DotOrNone,
              renames: Seq(Ticks), retry: Nat]

NameTypes ==
    /\ nameTick \in Ticks /\ unsaved \in BOOLEAN
    /\ naming \in [on: BOOLEAN, place: NamePlaces] /\ wantedDot \in DotOrNone
    /\ ns \in NameState /\ nsFile \in NameState
    /\ dots \in [NamePlaces -> DotOrNone] /\ doubt \subseteq NamePlaces
    /\ renamed \in Seq(Ticks)
    /\ NoName.source \in NamePlaces

InOrder(r) == /\ \A m \in DOMAIN r : r[m] <= nameTick
              /\ \A m, n \in DOMAIN r : m <= n => r[m] <= r[n]

Paced(r) == \A n \in DOMAIN r : n + RenamesPerWindow \in DOMAIN r
                                  => r[n + RenamesPerWindow] - r[n] >= RenameWindow

\* r is the end of all, and what comes before it is too old to count.
EndOf(r, all) ==
    /\ Len(r) <= Len(all)
    /\ \A m \in DOMAIN r : r[m] = all[m + (Len(all) - Len(r))]
    /\ \A m \in DOMAIN all : m <= Len(all) - Len(r) => nameTick - all[m] >= RenameWindow

HistoryFits(s) == InOrder(s.renames) /\ (~s.there => s.renames = << >>)

\* The budget's list is the end of the renames that were made.
RenamesFit ==
    /\ HistoryFits(ns) /\ HistoryFits(nsFile)
    /\ Paced(nsFile.renames) /\ Paced(renamed)
    /\ EndOf(ns.renames, renamed)

NamesInv == NameTypes /\ RenamesFit /\ ShownIsThere

LEMMA NoNameIs ==
    ASSUME NoName.source \in NamePlaces
    PROVE  /\ NoName \in NameState /\ ~NoName.there /\ NoName.renames = << >> /\ NoName.shown = NoDot
           /\ \A p \in NamePlaces :
                 /\ Fresh(p) \in NameState /\ Fresh(p).there /\ Fresh(p).source = p
                 /\ Fresh(p).renames = << >> /\ Fresh(p).shown = NoDot
<1>1. << >> \in Seq(Ticks) /\ 0 \in Ticks
  BY NamesAssumption DEF Ticks
<1>2. NoName.there = FALSE /\ NoName.want = NoDot /\ NoName.since = 0 /\ NoName.shown = NoDot
      /\ NoName.renames = << >> /\ NoName.retry = 0
      /\ NoName = [there |-> NoName.there, source |-> NoName.source, want |-> NoName.want, since |-> NoName.since,
                   shown |-> NoName.shown, renames |-> NoName.renames, retry |-> NoName.retry]
  BY DEF NoName
<1>3. \A x \in NamePlaces, t \in Ticks, r \in Seq(Ticks), d \in DotOrNone, b \in BOOLEAN, n \in Nat :
         [there |-> b, source |-> x, want |-> d, since |-> t, shown |-> d, renames |-> r, retry |-> n] \in NameState
  BY DEF NameState
<1>4. NoName \in NameState
  BY <1>1, <1>2, <1>3 DEF DotOrNone
<1>5. \A s \in NameState, p \in NamePlaces :
         /\ [s EXCEPT !.there = TRUE, !.source = p] \in NameState
         /\ [s EXCEPT !.there = TRUE, !.source = p].there
         /\ [s EXCEPT !.there = TRUE, !.source = p].source = p
         /\ [s EXCEPT !.there = TRUE, !.source = p].renames = s.renames
         /\ [s EXCEPT !.there = TRUE, !.source = p].shown = s.shown
  BY DEF NameState
<1> QED
  BY <1>2, <1>4, <1>5 DEF Fresh

\* The renames within the window are the end of a list in order.
LEMMA RecentIs ==
    ASSUME NameTypes, NEW s \in NameState, InOrder(s.renames)
    PROVE  /\ Recent(s) \in Seq(Ticks) /\ InOrder(Recent(s))
           /\ EndOf(Recent(s), s.renames)
<1> DEFINE r == s.renames
           IsFrom(n) == \A m \in DOMAIN r : m >= n <=> nameTick - r[m] < RenameWindow
<1>1. r \in Seq(Ticks) /\ Len(r) \in Nat /\ DOMAIN r = 1..Len(r) /\ \A m \in DOMAIN r : r[m] \in Nat
  <2>1. r \in Seq(Ticks)
    BY DEF NameState
  <2>2. Ticks \subseteq Nat
    BY DEF Ticks
  <2> HIDE DEF r
  <2>3. Len(r) \in Nat /\ DOMAIN r = 1..Len(r) /\ \A m \in DOMAIN r : r[m] \in Ticks
    BY <2>1
  <2> QED
    BY <2>1, <2>2, <2>3
<1>2. nameTick \in Nat /\ RenameWindow \in Nat
  BY NamesAssumption DEF NameTypes, Ticks
<1>3. \E n \in 1..(Len(r) + 1) : IsFrom(n)
  <2> DEFINE near == {m \in DOMAIN r : nameTick - r[m] < RenameWindow}
  <2>1. CASE near = {}
    <3>1. Len(r) + 1 \in 1..(Len(r) + 1)
      BY <1>1
    <3>2. IsFrom(Len(r) + 1)
      BY <1>1, <2>1
    <3> QED
      BY <3>1, <3>2
  <2>2. CASE near # {}
    <3>1. near \subseteq Nat
      BY <1>1
    <3>2. PICK n \in near : \A m \in near : n <= m
      BY <2>2, <3>1, Smallest
    <3>3. n \in DOMAIN r /\ nameTick - r[n] < RenameWindow
      BY <3>2
    <3>4. ASSUME NEW m \in DOMAIN r PROVE m >= n <=> nameTick - r[m] < RenameWindow
      <4>1. m >= n => r[n] <= r[m]
        BY <3>3 DEF InOrder
      <4>2. m >= n => nameTick - r[m] < RenameWindow
        BY <1>1, <1>2, <3>3, <4>1
      <4>3. nameTick - r[m] < RenameWindow => m \in near
        OBVIOUS
      <4>4. m \in Nat /\ n \in Nat
        BY <1>1, <3>3
      <4> QED
        BY <3>2, <4>2, <4>3, <4>4
    <3> QED
      BY <1>1, <3>3, <3>4
  <2> QED
    BY <2>1, <2>2
<1> DEFINE from == CHOOSE n \in 1..(Len(r) + 1) : IsFrom(n)
<1>4. from \in 1..(Len(r) + 1) /\ IsFrom(from)
  BY <1>3
<1>5. Recent(s) = SubSeq(r, from, Len(r))
  BY DEF Recent
<1> HIDE DEF from
<1>6. /\ SubSeq(r, from, Len(r)) \in Seq(Ticks)
      /\ Len(SubSeq(r, from, Len(r))) = Len(r) - from + 1
      /\ \A m \in 1..(Len(r) - from + 1) : SubSeq(r, from, Len(r))[m] = r[m + (from - 1)]
  BY <1>1, <1>4
<1> DEFINE q == SubSeq(r, from, Len(r))
<1>7. q \in Seq(Ticks) /\ Len(q) = Len(r) - from + 1 /\ DOMAIN q = 1..(Len(r) - from + 1)
      /\ \A m \in DOMAIN q : q[m] = r[m + (from - 1)] /\ m + (from - 1) \in DOMAIN r
  BY <1>1, <1>4, <1>6
<1> HIDE DEF q
<1>8. EndOf(q, r)
  <2>1. Len(q) <= Len(r) /\ Len(r) - Len(q) = from - 1
    BY <1>1, <1>4, <1>7
  <2>2. ASSUME NEW m \in DOMAIN r, m <= from - 1 PROVE nameTick - r[m] >= RenameWindow
    BY <1>1, <1>2, <1>4, <2>2
  <2> QED
    BY <1>7, <2>1, <2>2 DEF EndOf
<1>9. InOrder(q)
  <2>1. ASSUME NEW m \in DOMAIN q PROVE q[m] <= nameTick
    BY <1>7 DEF InOrder
  <2>2. ASSUME NEW m \in DOMAIN q, NEW n \in DOMAIN q, m <= n PROVE q[m] <= q[n]
    <3>1. m + (from - 1) <= n + (from - 1)
      BY <1>1, <1>4, <1>7, <2>2
    <3> QED
      BY <1>7, <3>1 DEF InOrder
  <2> QED
    BY <2>1, <2>2 DEF InOrder
<1> QED
  BY <1>5, <1>7, <1>8, <1>9 DEF q

LEMMA EndOfEnd ==
    ASSUME NameTypes, NEW r \in Seq(Ticks), NEW s \in Seq(Ticks), NEW all \in Seq(Ticks), EndOf(r, s), EndOf(s, all)
    PROVE  EndOf(r, all)
<1>1. Len(r) \in Nat /\ Len(s) \in Nat /\ Len(all) \in Nat /\ DOMAIN r = 1..Len(r) /\ DOMAIN s = 1..Len(s)
      /\ DOMAIN all = 1..Len(all)
  OBVIOUS
<1>2. Len(r) <= Len(s) /\ Len(s) <= Len(all)
  BY DEF EndOf
<1>3. ASSUME NEW m \in DOMAIN r PROVE r[m] = all[m + (Len(all) - Len(r))]
  <2>1. m + (Len(s) - Len(r)) \in DOMAIN s
    BY <1>1, <1>2
  <2>2. r[m] = s[m + (Len(s) - Len(r))]
    BY DEF EndOf
  <2>3. s[m + (Len(s) - Len(r))] = all[(m + (Len(s) - Len(r))) + (Len(all) - Len(s))]
    BY <2>1 DEF EndOf
  <2>4. (m + (Len(s) - Len(r))) + (Len(all) - Len(s)) = m + (Len(all) - Len(r))
    BY <1>1
  <2> QED
    BY <2>2, <2>3, <2>4
<1>4. ASSUME NEW m \in DOMAIN all, m <= Len(all) - Len(r) PROVE nameTick - all[m] >= RenameWindow
  <2>1. CASE m <= Len(all) - Len(s)
    BY <2>1 DEF EndOf
  <2>2. CASE ~(m <= Len(all) - Len(s))
    <3> DEFINE k == m - (Len(all) - Len(s))
    <3>1. k \in DOMAIN s /\ k <= Len(s) - Len(r) /\ k + (Len(all) - Len(s)) = m
      BY <1>1, <1>2, <1>4, <2>2
    <3>2. s[k] = all[m]
      BY <3>1 DEF EndOf
    <3> HIDE DEF k
    <3>3. nameTick - s[k] >= RenameWindow
      BY <3>1 DEF EndOf
    <3> QED
      BY <3>2, <3>3
  <2> QED
    BY <2>1, <2>2
<1> QED
  BY <1>2, <1>3, <1>4 DEF EndOf

\* A list that is the end of a paced one is paced.
LEMMA EndIsPaced ==
    ASSUME NEW r \in Seq(Ticks), NEW all \in Seq(Ticks), EndOf(r, all), Paced(all)
    PROVE  Paced(r)
<1>0. RenamesPerWindow \in Nat
  BY NamesAssumption
<1>1. Len(r) \in Nat /\ Len(all) \in Nat /\ DOMAIN r = 1..Len(r) /\ DOMAIN all = 1..Len(all) /\ Len(r) <= Len(all)
  BY DEF EndOf
<1> SUFFICES ASSUME NEW n \in DOMAIN r, n + RenamesPerWindow \in DOMAIN r
             PROVE  r[n + RenamesPerWindow] - r[n] >= RenameWindow
  BY DEF Paced
<1> DEFINE d == Len(all) - Len(r)
           m == n + d
<1>2. m \in DOMAIN all /\ m + RenamesPerWindow \in DOMAIN all /\ m + RenamesPerWindow = (n + RenamesPerWindow) + d
  BY <1>0, <1>1
<1>3. r[n] = all[m] /\ r[n + RenamesPerWindow] = all[(n + RenamesPerWindow) + d]
  BY DEF EndOf
<1> HIDE DEF d, m
<1>4. all[m + RenamesPerWindow] - all[m] >= RenameWindow
  BY <1>2 DEF Paced
<1> QED
  BY <1>2, <1>3, <1>4

\* A rename within the budget keeps the pace.
LEMMA OneMoreIsPaced ==
    ASSUME NameTypes, NEW r \in Seq(Ticks), NEW all \in Seq(Ticks), EndOf(r, all), Paced(all), InOrder(r),
           Len(r) < RenamesPerWindow
    PROVE  /\ Append(all, nameTick) \in Seq(Ticks) /\ Append(r, nameTick) \in Seq(Ticks)
           /\ Paced(Append(all, nameTick)) /\ EndOf(Append(r, nameTick), Append(all, nameTick))
           /\ InOrder(Append(r, nameTick))
<1>0. RenamesPerWindow \in Nat \ {0} /\ nameTick \in Ticks /\ RenameWindow \in Nat
  BY NamesAssumption DEF NameTypes
<1>1. Len(r) \in Nat /\ Len(all) \in Nat /\ DOMAIN r = 1..Len(r) /\ DOMAIN all = 1..Len(all) /\ Len(r) <= Len(all)
  BY DEF EndOf
<1> DEFINE a == Append(all, nameTick)
           b == Append(r, nameTick)
<1>2. a \in Seq(Ticks) /\ Len(a) = Len(all) + 1 /\ DOMAIN a = 1..(Len(all) + 1) /\ a[Len(all) + 1] = nameTick
      /\ \A m \in DOMAIN all : a[m] = all[m]
  BY <1>0, <1>1
<1>3. b \in Seq(Ticks) /\ Len(b) = Len(r) + 1 /\ DOMAIN b = 1..(Len(r) + 1) /\ b[Len(r) + 1] = nameTick
      /\ \A m \in DOMAIN r : b[m] = r[m]
  BY <1>0, <1>1
<1> HIDE DEF a, b
<1>4. Paced(a)
  <2> SUFFICES ASSUME NEW n \in DOMAIN a, n + RenamesPerWindow \in DOMAIN a
               PROVE  a[n + RenamesPerWindow] - a[n] >= RenameWindow
    BY DEF Paced
  <2>1. n \in DOMAIN all /\ a[n] = all[n]
    BY <1>0, <1>1, <1>2
  <2>2. CASE n + RenamesPerWindow \in DOMAIN all
    BY <1>2, <2>1, <2>2 DEF Paced
  <2>3. CASE n + RenamesPerWindow = Len(all) + 1
    <3>1. n <= Len(all) - Len(r)
      BY <1>0, <1>1, <2>1, <2>3
    <3>2. nameTick - all[n] >= RenameWindow
      BY <2>1, <3>1 DEF EndOf
    <3> QED
      BY <1>2, <2>1, <2>3, <3>2
  <2> QED
    BY <1>0, <1>1, <1>2, <2>2, <2>3
<1>5. EndOf(b, a)
  <2>1. Len(b) <= Len(a) /\ Len(a) - Len(b) = Len(all) - Len(r)
    BY <1>1, <1>2, <1>3
  <2>2. ASSUME NEW m \in DOMAIN b PROVE b[m] = a[m + (Len(all) - Len(r))]
    <3>1. CASE m \in DOMAIN r
      <4>1. m + (Len(all) - Len(r)) \in DOMAIN all
        BY <1>1, <3>1
      <4> QED
        BY <1>2, <1>3, <3>1, <4>1 DEF EndOf
    <3>2. CASE m = Len(r) + 1
      <4>1. m + (Len(all) - Len(r)) = Len(all) + 1
        BY <1>1, <3>2
      <4> QED
        BY <1>2, <1>3, <3>2, <4>1
    <3> QED
      BY <1>1, <1>3, <3>1, <3>2
  <2>3. ASSUME NEW m \in DOMAIN a, m <= Len(all) - Len(r) PROVE nameTick - a[m] >= RenameWindow
    <3>1. m \in DOMAIN all
      BY <1>1, <1>2, <2>3
    <3> QED
      BY <1>2, <2>3, <3>1 DEF EndOf
  <2> QED
    BY <2>1, <2>2, <2>3 DEF EndOf
<1>6. InOrder(b)
  <2>0. nameTick \in Nat /\ nameTick <= nameTick
    BY <1>0, NamesAssumption DEF Ticks
  <2>1. \A m \in DOMAIN b : b[m] <= nameTick
    BY <1>1, <1>3, <2>0 DEF InOrder
  <2>2. ASSUME NEW m \in DOMAIN b, NEW n \in DOMAIN b, m <= n PROVE b[m] <= b[n]
    <3>1. CASE n = Len(r) + 1
      BY <1>3, <2>1, <3>1
    <3>2. CASE n \in DOMAIN r
      <4>1. m \in DOMAIN r
        BY <1>1, <1>3, <2>2, <3>2
      <4> QED
        BY <1>3, <2>2, <3>2, <4>1 DEF InOrder
    <3> QED
      BY <1>1, <1>3, <3>1, <3>2
  <2> QED
    BY <2>1, <2>2 DEF InOrder
<1> QED
  BY <1>2, <1>3, <1>4, <1>5, <1>6 DEF a, b

LEMMA EmptyIs ==
    ASSUME NameTypes
    PROVE  /\ << >> \in Seq(Ticks) /\ InOrder(<< >>) /\ Paced(<< >>) /\ EndOf(<< >>, << >>)
           /\ \A r \in Seq(Ticks) : EndOf(r, r)
<1>1. << >> \in Seq(Ticks) /\ DOMAIN << >> = {} /\ Len(<< >>) = 0
  OBVIOUS
<1>2. ASSUME NEW r \in Seq(Ticks) PROVE EndOf(r, r)
  <2>1. Len(r) \in Nat /\ DOMAIN r = 1..Len(r) /\ Len(r) - Len(r) = 0
    OBVIOUS
  <2>2. \A m \in DOMAIN r : m + 0 = m /\ ~(m <= 0)
    BY <2>1
  <2> QED
    BY <2>1, <2>2 DEF EndOf
<1> QED
  BY <1>1, <1>2 DEF InOrder, Paced

LEMMA FieldsOf ==
    \A s \in NameState :
       /\ s.there \in BOOLEAN /\ s.source \in NamePlaces /\ s.want \in DotOrNone /\ s.since \in Ticks
       /\ s.shown \in DotOrNone /\ s.renames \in Seq(Ticks) /\ s.retry \in Nat
  BY DEF NameState

\* The renames of the record syncChannelNames works on.
Since == IF Unseen THEN << >> ELSE renamed

WorksOn(s) ==
    /\ s \in NameState /\ s.there /\ s.source = naming.place
    /\ InOrder(s.renames) /\ EndOf(s.renames, Since)
    /\ s.shown # NoDot /\ naming.place \notin doubt => dots[naming.place] = s.shown

LEMMA NoticedIs ==
    ASSUME NamesInv
    PROVE  /\ WorksOn(Current) /\ WorksOn(Noticed)
           /\ Since \in Seq(Ticks) /\ Paced(Since)
<1>1. NameTypes /\ RenamesFit /\ ShownIsThere /\ naming.place \in NamePlaces
  BY DEF NamesInv, NameTypes
<1>2. Since \in Seq(Ticks) /\ Paced(Since)
  BY <1>1, EmptyIs DEF Since, NameTypes, RenamesFit
<1>3. WorksOn(Current)
  <2>1. CASE ns.there /\ ns.source = naming.place
    BY <1>1, <2>1 DEF WorksOn, Current, Since, Unseen, NameTypes, RenamesFit, HistoryFits, ShownIsThere
  <2>2. CASE ~(ns.there /\ ns.source = naming.place)
    <3> DEFINE f == Fresh(naming.place)
    <3>1. Current = f
      BY <2>2 DEF Current
    <3>2. f \in NameState /\ f.there /\ f.source = naming.place /\ f.renames = << >> /\ f.shown = NoDot
      BY <1>1, NoNameIs DEF NameTypes
    <3> HIDE DEF f
    <3>3. EndOf(<< >>, Since)
      <4>1. CASE Unseen
        BY <1>1, <4>1, EmptyIs DEF Since
      <4>2. CASE ~Unseen
        <5>1. ~ns.there
          BY <2>2, <4>2 DEF Unseen
        <5> QED
          BY <1>1, <4>2, <5>1 DEF Since, RenamesFit, HistoryFits
      <4> QED
        BY <4>1, <4>2
    <3> QED
      BY <1>1, <3>1, <3>2, <3>3, EmptyIs DEF WorksOn
  <2> QED
    BY <2>1, <2>2
<1>4. WorksOn(Noticed)
  <2>1. CASE wantedDot = Current.want
    BY <1>3, <2>1 DEF Noticed
  <2>2. CASE wantedDot # Current.want
    <3>1. wantedDot \in DotOrNone /\ nameTick \in Ticks /\ Current \in NameState
      BY <1>1, <1>3 DEF NameTypes, WorksOn
    <3>2. \A s \in NameState, d \in DotOrNone, t \in Ticks :
             LET q == [s EXCEPT !.want = d, !.since = t]
             IN  /\ q \in NameState /\ q.there = s.there /\ q.source = s.source
                 /\ q.renames = s.renames /\ q.shown = s.shown
      BY DEF NameState
    <3>3. Noticed = [Current EXCEPT !.want = wantedDot, !.since = nameTick]
      BY <2>2 DEF Noticed
    <3> QED
      BY <1>3, <3>1, <3>2, <3>3 DEF WorksOn
  <2> QED
    BY <2>1, <2>2
<1> QED
  BY <1>2, <1>3, <1>4

\* What a pass of syncChannelNames leaves to be shown.
LEMMA RecordKept ==
    ASSUME NamesInv, NameTypes', nameTick' = nameTick, nsFile' = nsFile, unsaved',
           ns'.there \/ ns'.renames = << >>, InOrder(ns'.renames), EndOf(ns'.renames, renamed'), Paced(renamed'),
           ns'.there /\ ns'.shown # NoDot /\ ns'.source \notin doubt' => dots'[ns'.source] = ns'.shown
    PROVE  NamesInv'
<1>1. HistoryFits(nsFile) /\ Paced(nsFile.renames)
  BY DEF NamesInv, RenamesFit
<1>2. HistoryFits(nsFile)' /\ Paced(nsFile.renames)' /\ HistoryFits(ns)' /\ Paced(renamed)'
  BY <1>1 DEF HistoryFits, InOrder, Paced
<1>3. EndOf(ns.renames, renamed)'
  BY DEF EndOf
<1>4. RenamesFit'
  BY <1>2, <1>3 DEF RenamesFit
<1>5. ShownIsThere'
  BY DEF ShownIsThere
<1> QED
  BY <1>4, <1>5 DEF NamesInv

LEMMA NameRenamedStep ==
    ASSUME NamesInv, NameRenamed
    PROVE  NamesInv'
<1>1. NameTypes
  BY DEF NamesInv
<1> DEFINE s == Noticed
           place == s.source
           kept == [s EXCEPT !.renames = Recent(s)]
<1>2. WorksOn(s) /\ Since \in Seq(Ticks) /\ Paced(Since) /\ HasBudget(s) /\ place = naming.place
  BY NoticedIs DEF NameRenamed, RenameDue, WorksOn
<1>3. /\ nameTick' = nameTick /\ naming' = naming /\ wantedDot' = wantedDot /\ nsFile' = nsFile /\ unsaved' = TRUE
      /\ Outcomes(s)
  BY DEF NameRenamed
<1>4. s \in NameState /\ s.there /\ InOrder(s.renames) /\ EndOf(s.renames, Since) /\ place \in NamePlaces
  BY <1>2, FieldsOf DEF WorksOn
<1>5. s.want \in DotOrNone /\ s.renames \in Seq(Ticks)
  BY <1>4, FieldsOf
<1> DEFINE r == Recent(s)
<1>6. r \in Seq(Ticks) /\ InOrder(r) /\ EndOf(r, s.renames) /\ Len(r) < RenamesPerWindow
  BY <1>1, <1>2, <1>4, RecentIs DEF HasBudget
<1> HIDE DEF s
<1>7. /\ kept \in NameState /\ kept.there /\ kept.source = place /\ kept.renames = r /\ kept.shown = s.shown
      /\ \A d \in DotOrNone :
            LET q == [kept EXCEPT !.shown = d]
            IN  q \in NameState /\ q.there /\ q.source = place /\ q.shown = d /\ q.renames = r
      /\ \A d \in DotOrNone, x \in Seq(Ticks) :
            LET q == [kept EXCEPT !.shown = d, !.renames = x]
            IN  q \in NameState /\ q.there /\ q.source = place /\ q.shown = d /\ q.renames = x
      /\ \A n \in Nat :
            LET q == [kept EXCEPT !.retry = n]
            IN  q \in NameState /\ q.there /\ q.source = place /\ q.shown = s.shown /\ q.renames = r
  <2>1. \A t \in NameState, x \in Seq(Ticks) :
           LET q == [t EXCEPT !.renames = x]
           IN  q \in NameState /\ q.there = t.there /\ q.source = t.source /\ q.renames = x /\ q.shown = t.shown
    BY DEF NameState
  <2>2. kept \in NameState /\ kept.there /\ kept.source = place /\ kept.renames = r /\ kept.shown = s.shown
    BY <1>4, <1>6, <2>1
  <2>3. \A t \in NameState : \A d \in DotOrNone :
            LET q == [t EXCEPT !.shown = d]
            IN  q \in NameState /\ q.there = t.there /\ q.source = t.source /\ q.shown = d /\ q.renames = t.renames
    BY DEF NameState
  <2>4. \A t \in NameState : \A d \in DotOrNone, x \in Seq(Ticks) :
            LET q == [t EXCEPT !.shown = d, !.renames = x]
            IN  q \in NameState /\ q.there = t.there /\ q.source = t.source /\ q.shown = d /\ q.renames = x
    BY DEF NameState
  <2>5. \A t \in NameState : \A n \in Nat :
            LET q == [t EXCEPT !.retry = n]
            IN  /\ q \in NameState /\ q.there = t.there /\ q.source = t.source /\ q.shown = t.shown
                /\ q.renames = t.renames
    BY DEF NameState
  <2> HIDE DEF kept, place, r
  <2>6. \A d \in DotOrNone :
            LET q == [kept EXCEPT !.shown = d]
            IN  q \in NameState /\ q.there /\ q.source = place /\ q.shown = d /\ q.renames = r
    BY <2>2, <2>3
  <2>7. \A d \in DotOrNone, x \in Seq(Ticks) :
            LET q == [kept EXCEPT !.shown = d, !.renames = x]
            IN  q \in NameState /\ q.there /\ q.source = place /\ q.shown = d /\ q.renames = x
    <3> TAKE d \in DotOrNone, x \in Seq(Ticks)
    <3> DEFINE q == [kept EXCEPT !.shown = d, !.renames = x]
    <3>1. q \in NameState /\ q.there = kept.there /\ q.source = kept.source /\ q.shown = d /\ q.renames = x
      BY <2>2, <2>4, Zenon
    <3> HIDE DEF q
    <3>2. q \in NameState /\ q.there /\ q.source = place /\ q.shown = d /\ q.renames = x
      BY <2>2, <3>1
    <3> QED
      BY <3>2 DEF q
  <2>8. \A n \in Nat :
            LET q == [kept EXCEPT !.retry = n]
            IN  q \in NameState /\ q.there /\ q.source = place /\ q.shown = s.shown /\ q.renames = r
    BY <2>2, <2>5
  <2> QED
    BY <2>2, <2>6, <2>7, <2>8
<1>8. EndOf(r, Since)
  <2> DEFINE all == Since
             e == s.renames
  <2>1. all \in Seq(Ticks) /\ e \in Seq(Ticks) /\ EndOf(r, e) /\ EndOf(e, all)
    BY <1>2, <1>4, <1>5, <1>6
  <2> HIDE DEF all, e, r
  <2>2. r \in Seq(Ticks)
    BY <1>6
  <2>3. EndOf(r, all)
    BY <1>1, <2>1, <2>2, EndOfEnd
  <2> QED
    BY <2>3 DEF all
<1> DEFINE more == Append(r, nameTick)
           knows == Append(Since, nameTick)
<1>9. knows \in Seq(Ticks) /\ more \in Seq(Ticks) /\ Paced(knows) /\ EndOf(more, knows) /\ InOrder(more)
  <2> DEFINE all == Since
  <2>1. all \in Seq(Ticks) /\ Paced(all) /\ EndOf(r, all)
    BY <1>2, <1>8
  <2> HIDE DEF all, r
  <2>2. /\ Append(all, nameTick) \in Seq(Ticks) /\ Append(r, nameTick) \in Seq(Ticks)
        /\ Paced(Append(all, nameTick)) /\ EndOf(Append(r, nameTick), Append(all, nameTick))
        /\ InOrder(Append(r, nameTick))
    BY <1>1, <1>6, <2>1, OneMoreIsPaced
  <2> QED
    BY <2>2 DEF all
<1>10. dots \in [NamePlaces -> DotOrNone] /\ doubt \subseteq NamePlaces /\ NameTypes
  BY <1>1 DEF NameTypes
<1>11. \/ /\ dots[place] = s.want
          /\ ns' = [kept EXCEPT !.shown = s.want] /\ doubt' = doubt \ {place}
          /\ renamed' = Since /\ dots' = dots
       \/ /\ dots' = [dots EXCEPT ![place] = s.want]
          /\ ns' = [kept EXCEPT !.shown = s.want, !.renames = Append(kept.renames, nameTick)]
          /\ renamed' = Append(Since, nameTick) /\ doubt' = doubt \ {place}
       \/ /\ \E wait \in RetryAfters : ns' = [kept EXCEPT !.retry = nameTick + wait]
          /\ renamed' = Since
          /\ \/ dots' = dots /\ doubt' = doubt
             \/ dots' = [dots EXCEPT ![place] = s.want] /\ doubt' = doubt \cup {place}
  BY <1>3 DEF Outcomes, Since
<1>12. s.shown # NoDot /\ place \notin doubt => dots[place] = s.shown
  BY <1>2 DEF WorksOn
<1>13. NoName.source \in NamePlaces /\ nameTick \in Nat
  BY <1>1, NamesAssumption DEF NameTypes, Ticks
<1> HIDE DEF kept, r, more, knows, place
<1>14. ASSUME dots[place] = s.want, ns' = [kept EXCEPT !.shown = s.want], doubt' = doubt \ {place},
              renamed' = Since, dots' = dots
       PROVE  NamesInv'
  <2>1. ns' \in NameState /\ ns'.there /\ ns'.source = place /\ ns'.shown = s.want /\ ns'.renames = r
    BY <1>5, <1>7, <1>14
  <2>2. NameTypes'
    BY <1>2, <1>3, <1>10, <1>13, <1>14, <2>1 DEF NameTypes
  <2> QED
    BY <1>2, <1>3, <1>6, <1>8, <1>14, <2>1, <2>2, RecordKept
<1>15. ASSUME dots' = [dots EXCEPT ![place] = s.want],
              ns' = [kept EXCEPT !.shown = s.want, !.renames = Append(kept.renames, nameTick)],
              renamed' = Append(Since, nameTick), doubt' = doubt \ {place}
       PROVE  NamesInv'
  <2>1. Append(kept.renames, nameTick) = more
    BY <1>7 DEF more
  <2>2. ns' \in NameState /\ ns'.there /\ ns'.source = place /\ ns'.shown = s.want /\ ns'.renames = more
    BY <1>5, <1>7, <1>9, <1>15, <2>1
  <2>3. dots' \in [NamePlaces -> DotOrNone] /\ dots'[place] = s.want
    BY <1>4, <1>5, <1>10, <1>15
  <2>4. NameTypes'
    BY <1>2, <1>3, <1>9, <1>10, <1>13, <1>15, <2>2, <2>3 DEF NameTypes, knows
  <2> QED
    BY <1>2, <1>3, <1>9, <1>15, <2>2, <2>3, <2>4, RecordKept DEF knows
<1>16. ASSUME NEW wait \in RetryAfters, ns' = [kept EXCEPT !.retry = nameTick + wait], renamed' = Since,
              \/ dots' = dots /\ doubt' = doubt
              \/ dots' = [dots EXCEPT ![place] = s.want] /\ doubt' = doubt \cup {place}
       PROVE  NamesInv'
  <2>1. nameTick + wait \in Nat
    BY <1>13, NamesAssumption
  <2>2. ns' \in NameState /\ ns'.there /\ ns'.source = place /\ ns'.shown = s.shown /\ ns'.renames = r
    BY <1>7, <1>16, <2>1
  <2>3. dots' \in [NamePlaces -> DotOrNone] /\ doubt' \subseteq NamePlaces
    BY <1>4, <1>5, <1>10, <1>16
  <2>4. NameTypes'
    BY <1>2, <1>3, <1>10, <1>13, <1>16, <2>2, <2>3 DEF NameTypes
  <2>5. s.shown # NoDot /\ place \notin doubt' => dots'[place] = s.shown
    BY <1>12, <1>16
  <2> QED
    BY <1>2, <1>3, <1>6, <1>8, <1>16, <2>2, <2>4, <2>5, RecordKept
<1> QED
  BY <1>11, <1>14, <1>15, <1>16

LEMMA NameLeftStep ==
    ASSUME NamesInv, NameLeft
    PROVE  NamesInv'
<1>1. NameTypes /\ WorksOn(Current) /\ WorksOn(Noticed) /\ Since \in Seq(Ticks) /\ Paced(Since)
  BY NoticedIs DEF NamesInv
<1>2. /\ ns' = Current \/ ns' = Noticed
      /\ renamed' = Since /\ unsaved' = TRUE
      /\ UNCHANGED <<nameTick, naming, wantedDot, nsFile, dots, doubt>>
  BY DEF NameLeft, Since
<1>3. /\ ns' \in NameState /\ ns'.there /\ ns'.source = naming.place
      /\ InOrder(ns'.renames) /\ EndOf(ns'.renames, Since)
      /\ ns'.shown # NoDot /\ naming.place \notin doubt => dots[naming.place] = ns'.shown
  BY <1>1, <1>2 DEF WorksOn
<1>4. NameTypes'
  BY <1>1, <1>2, <1>3 DEF NameTypes
<1> QED
  BY <1>1, <1>2, <1>3, <1>4, RecordKept

LEMMA NameGivenUpStep ==
    ASSUME NamesInv, NameGivenUp
    PROVE  NamesInv'
<1>1. NameTypes /\ ns \in NameState
  BY DEF NamesInv, NameTypes
<1>2. /\ dots' = dots \/ dots' = [dots EXCEPT ![ns.source] = NoDot]
      /\ ns' = NoName /\ renamed' = << >> /\ unsaved' = TRUE
      /\ UNCHANGED <<nameTick, naming, wantedDot, nsFile, doubt>>
  BY DEF NameGivenUp
<1>3. NoName \in NameState /\ ~NoName.there /\ NoName.renames = << >>
  BY <1>1, NoNameIs DEF NameTypes
<1>4. /\ << >> \in Seq(Ticks) /\ InOrder(<< >>) /\ EndOf(<< >>, << >>) /\ Paced(<< >>)
  BY <1>1, EmptyIs
<1>5. dots' \in [NamePlaces -> DotOrNone]
  BY <1>1, <1>2 DEF NameTypes, DotOrNone
<1> HIDE DEF NoName
<1>6. NameTypes'
  BY <1>1, <1>2, <1>3, <1>4, <1>5 DEF NameTypes
<1> QED
  BY <1>2, <1>3, <1>4, <1>6, RecordKept

LEMMA NamesSavedStep ==
    ASSUME NamesInv, NamesSaved \/ CardsSaved
    PROVE  NamesInv'
<1>1. NameTypes /\ RenamesFit /\ ShownIsThere
  BY DEF NamesInv
<1>2. /\ nsFile' \in {ns, nsFile} /\ unsaved' \in BOOLEAN
      /\ UNCHANGED <<nameTick, naming, wantedDot, ns, dots, renamed, doubt>>
  BY <1>1 DEF NamesSaved, CardsSaved, NameTypes
<1>3. NameTypes'
  BY <1>1, <1>2 DEF NameTypes
<1>4. Paced(ns.renames)
  <2> DEFINE r == ns.renames
             all == renamed
  <2>1. r \in Seq(Ticks) /\ all \in Seq(Ticks) /\ EndOf(r, all) /\ Paced(all)
    BY <1>1, FieldsOf DEF NameTypes, RenamesFit
  <2> HIDE DEF r, all
  <2>2. Paced(r)
    BY <2>1, EndIsPaced
  <2> QED
    BY <2>2 DEF r
<1>5. HistoryFits(ns)' /\ HistoryFits(nsFile)' /\ Paced(nsFile.renames)' /\ Paced(renamed)' /\ EndOf(ns.renames, renamed)'
  BY <1>1, <1>2, <1>4 DEF RenamesFit, HistoryFits, InOrder, Paced, EndOf
<1>6. ShownIsThere'
  BY <1>1, <1>2 DEF ShownIsThere
<1> QED
  BY <1>2, <1>3, <1>5, <1>6 DEF NamesInv, RenamesFit

\* Where the file was behind no dot is believed after a restart.
LEMMA LoopRestartsStep ==
    ASSUME NamesInv, LoopRestarts
    PROVE  NamesInv'
<1>1. NameTypes /\ RenamesFit /\ ShownIsThere
  BY DEF NamesInv
<1>2. /\ ns' = nsFile /\ unsaved' = FALSE /\ wantedDot' = NoDot
      /\ UNCHANGED <<nameTick, naming, nsFile, dots>>
      /\ \/ /\ doubt' = NamePlaces
            /\ renamed' = (IF nsFile.there THEN nsFile.renames ELSE << >>)
         \/ ns = nsFile /\ UNCHANGED <<renamed, doubt>>
  BY DEF LoopRestarts
<1>3. nsFile \in NameState /\ nsFile.renames \in Seq(Ticks) /\ nsFile.source \in NamePlaces /\ HistoryFits(nsFile)
      /\ Paced(nsFile.renames)
  BY <1>1, FieldsOf DEF NameTypes, RenamesFit
<1>4. ASSUME doubt' = NamePlaces, renamed' = (IF nsFile.there THEN nsFile.renames ELSE << >>)
      PROVE  renamed' = nsFile.renames /\ EndOf(nsFile.renames, renamed') /\ Paced(renamed') /\ ShownIsThere'
  <2>1. renamed' = nsFile.renames
    BY <1>3, <1>4 DEF HistoryFits
  <2>2. EndOf(nsFile.renames, renamed')
    BY <1>1, <1>3, <2>1, EmptyIs
  <2>3. ShownIsThere'
    BY <1>2, <1>3, <1>4 DEF ShownIsThere
  <2> QED
    BY <1>3, <2>1, <2>2, <2>3
<1>5. ASSUME ns = nsFile, UNCHANGED <<renamed, doubt>>
      PROVE  renamed' = renamed /\ EndOf(nsFile.renames, renamed') /\ Paced(renamed') /\ ShownIsThere'
  BY <1>1, <1>2, <1>5 DEF RenamesFit, ShownIsThere
<1>6. renamed' \in Seq(Ticks) /\ doubt' \subseteq NamePlaces /\ EndOf(nsFile.renames, renamed') /\ Paced(renamed')
      /\ ShownIsThere'
  BY <1>1, <1>2, <1>3, <1>4, <1>5 DEF NameTypes
<1>7. NameTypes'
  BY <1>1, <1>2, <1>6 DEF NameTypes, DotOrNone
<1>8. HistoryFits(ns)' /\ HistoryFits(nsFile)' /\ Paced(nsFile.renames)' /\ Paced(renamed)' /\ EndOf(ns.renames, renamed)'
  BY <1>2, <1>3, <1>6 DEF HistoryFits, InOrder, Paced, EndOf
<1> QED
  BY <1>2, <1>6, <1>7, <1>8 DEF NamesInv, RenamesFit

LEMMA NameTickStep ==
    ASSUME NamesInv, NameTickPasses
    PROVE  NamesInv'
<1>1. NameTypes /\ RenamesFit /\ ShownIsThere
  BY DEF NamesInv
<1>2. /\ nameTick < LastNameTick /\ nameTick' = nameTick + 1
      /\ UNCHANGED <<naming, wantedDot, ns, nsFile, unsaved, dots, renamed, doubt>>
  BY DEF NameTickPasses
<1>3. nameTick \in Nat /\ nameTick' \in Ticks /\ RenameWindow \in Nat /\ Ticks \subseteq Nat
  BY <1>1, <1>2, NamesAssumption DEF NameTypes, Ticks
<1>4. NameTypes'
  BY <1>1, <1>2, <1>3 DEF NameTypes
<1>5. ASSUME NEW r \in Seq(Ticks) PROVE \A m \in DOMAIN r : r[m] \in Nat
  <2>1. \A m \in DOMAIN r : r[m] \in Ticks
    OBVIOUS
  <2> QED
    BY <1>3, <2>1
<1>6. ASSUME NEW r \in Seq(Ticks), InOrder(r) PROVE InOrder(r)'
  <2>1. \A m \in DOMAIN r : r[m] \in Nat /\ r[m] <= nameTick
    BY <1>5, <1>6 DEF InOrder
  <2>2. \A m \in DOMAIN r : r[m] <= nameTick'
    BY <1>2, <1>3, <2>1
  <2> QED
    BY <1>6, <2>2 DEF InOrder
<1>7. ASSUME NEW r \in Seq(Ticks), NEW all \in Seq(Ticks), EndOf(r, all) PROVE EndOf(r, all)'
  <2>1. \A m \in DOMAIN all : all[m] \in Nat
    BY <1>5
  <2>2. ASSUME NEW m \in DOMAIN all, m <= Len(all) - Len(r) PROVE nameTick' - all[m] >= RenameWindow
    <3>1. nameTick - all[m] >= RenameWindow
      BY <1>7, <2>2 DEF EndOf
    <3> QED
      BY <1>2, <1>3, <2>1, <3>1
  <2> QED
    BY <1>7, <2>2 DEF EndOf
<1>8. ns.renames \in Seq(Ticks) /\ nsFile.renames \in Seq(Ticks) /\ renamed \in Seq(Ticks)
  BY <1>1, FieldsOf DEF NameTypes
<1>9. InOrder(ns.renames)' /\ InOrder(nsFile.renames)' /\ EndOf(ns.renames, renamed)'
  <2> DEFINE r == ns.renames
             f == nsFile.renames
             all == renamed
  <2>1. r' = r /\ f' = f /\ all' = all
    BY <1>2
  <2>2. r \in Seq(Ticks) /\ f \in Seq(Ticks) /\ all \in Seq(Ticks) /\ InOrder(r) /\ InOrder(f) /\ EndOf(r, all)
    BY <1>1, <1>8 DEF RenamesFit, HistoryFits
  <2>3. /\ \A m \in DOMAIN r : r[m] <= nameTick'
        /\ \A m \in DOMAIN f : f[m] <= nameTick'
        /\ \A m \in DOMAIN all : m <= Len(all) - Len(r) => nameTick' - all[m] >= RenameWindow
    <3> HIDE DEF r, f, all
    <3>1. \A m \in DOMAIN r : r[m] \in Nat /\ r[m] <= nameTick
      BY <1>5, <2>2 DEF InOrder
    <3>2. \A m \in DOMAIN f : f[m] \in Nat /\ f[m] <= nameTick
      BY <1>5, <2>2 DEF InOrder
    <3>3. \A m \in DOMAIN all : all[m] \in Nat /\ (m <= Len(all) - Len(r) => nameTick - all[m] >= RenameWindow)
      BY <1>5, <2>2 DEF EndOf
    <3> QED
      BY <1>2, <1>3, <3>1, <3>2, <3>3
  <2> QED
    BY <1>2, <2>2, <2>3 DEF InOrder, EndOf
<1>10. RenamesFit'
  BY <1>1, <1>2, <1>9 DEF RenamesFit, HistoryFits, Paced
<1> QED
  BY <1>1, <1>2, <1>4, <1>10 DEF NamesInv, ShownIsThere

\* A step that leaves the records and their renames alone.
LEMMA NamesUntouched ==
    ASSUME NamesInv, NameTypes', ShownIsThere', UNCHANGED <<nameTick, ns, nsFile, unsaved, renamed>>
    PROVE  NamesInv'
  BY DEF NamesInv, RenamesFit, HistoryFits, InOrder, Paced, EndOf

LEMMA NameUpsetsStep ==
    ASSUME NamesInv
    PROVE  /\ \A dot \in Dots : DotTurns(dot) => NamesInv'
           /\ \A place \in NamePlaces :
                 /\ \A dot \in OtherDots : RenamedByOther(place, dot) => NamesInv'
                 /\ \A on \in BOOLEAN : NamingEdited(on, place) => NamesInv'
<1>1. NameTypes /\ ShownIsThere
  BY DEF NamesInv
<1>2. ASSUME NEW dot \in Dots, DotTurns(dot) PROVE NamesInv'
  <2>1. UNCHANGED <<nameTick, naming, ns, nsFile, unsaved, dots, renamed, doubt>> /\ wantedDot' = dot
    BY <1>2 DEF DotTurns
  <2>2. NameTypes' /\ ShownIsThere'
    BY <1>1, <2>1 DEF NameTypes, ShownIsThere, DotOrNone
  <2> QED
    BY <2>1, <2>2, NamesUntouched
<1>3. ASSUME NEW place \in NamePlaces, NEW dot \in OtherDots, RenamedByOther(place, dot)
      PROVE  NamesInv'
  <2>1. /\ UNCHANGED <<nameTick, naming, wantedDot, ns, nsFile, unsaved, renamed>>
        /\ dots' = [dots EXCEPT ![place] = dot] /\ doubt' = doubt \cup {place}
    BY <1>3 DEF RenamedByOther
  <2>2. dots' \in [NamePlaces -> DotOrNone] /\ doubt' \subseteq NamePlaces
    BY <1>1, <2>1, OtherDotsAssumption DEF NameTypes, DotOrNone
  <2>3. NameTypes'
    BY <1>1, <2>1, <2>2 DEF NameTypes
  <2>4. ns.source \in NamePlaces
    BY <1>1, FieldsOf DEF NameTypes
  <2>5. ShownIsThere'
    BY <1>1, <2>1, <2>4 DEF ShownIsThere, NameTypes
  <2> QED
    BY <2>1, <2>3, <2>5, NamesUntouched
<1>4. ASSUME NEW place \in NamePlaces, NEW on \in BOOLEAN, NamingEdited(on, place) PROVE NamesInv'
  <2>1. /\ UNCHANGED <<nameTick, wantedDot, ns, nsFile, unsaved, dots, renamed, doubt>>
        /\ naming' = [on |-> on, place |-> place]
    BY <1>4 DEF NamingEdited
  <2>2. NameTypes' /\ ShownIsThere'
    BY <1>1, <2>1 DEF NameTypes, ShownIsThere
  <2> QED
    BY <2>1, <2>2, NamesUntouched
<1> QED
  BY <1>2, <1>3, <1>4

LEMMA NamesInitially == NamesInit => NamesInv
<1> SUFFICES ASSUME NamesInit PROVE NamesInv
  OBVIOUS
<1>1. /\ nameTick = 0 /\ naming \in [on: {TRUE}, place: NamePlaces]
      /\ wantedDot = NoDot /\ ns = NoName /\ nsFile = NoName /\ unsaved = FALSE
      /\ dots = [p \in NamePlaces |-> NoDot]
      /\ renamed = << >> /\ doubt = {}
  BY DEF NamesInit
<1>2. naming.place \in NamePlaces /\ naming \in [on: BOOLEAN, place: NamePlaces]
  BY <1>1
<1>3. NoName.source \in NamePlaces
  BY <1>2 DEF NoName
<1>4. NoName \in NameState /\ ~NoName.there /\ NoName.renames = << >>
  BY <1>3, NoNameIs
<1> HIDE DEF NoName
<1>5. NameTypes
  <2>1. 0 \in Ticks /\ << >> \in Seq(Ticks) /\ NoDot \in DotOrNone
    BY NamesAssumption DEF Ticks, DotOrNone
  <2>2. dots \in [NamePlaces -> DotOrNone]
    BY <1>1, <2>1
  <2> QED
    BY <1>1, <1>2, <1>3, <1>4, <2>1, <2>2 DEF NameTypes
<1>6. InOrder(<< >>) /\ Paced(<< >>) /\ EndOf(<< >>, << >>)
  BY <1>5, EmptyIs
<1> QED
  BY <1>1, <1>4, <1>5, <1>6 DEF NamesInv, RenamesFit, HistoryFits, ShownIsThere

LEMMA NamesStep == NamesInv /\ [NamesNext]_nameVars => NamesInv'
<1> SUFFICES ASSUME NamesInv, [NamesNext]_nameVars PROVE NamesInv'
  OBVIOUS
<1>1. CASE UNCHANGED nameVars
  <2>1. NameTypes' /\ ShownIsThere'
    BY <1>1 DEF NamesInv, NameTypes, ShownIsThere, nameVars
  <2> QED
    BY <1>1, <2>1, NamesUntouched DEF nameVars
<1> QED
  BY <1>1, NameRenamedStep, NameLeftStep, NameGivenUpStep, NamesSavedStep, LoopRestartsStep, NameTickStep, NameUpsetsStep
     DEF NamesNext

LEMMA NamesHold == NamesInv => NamesTypeOK /\ DotsAreTrue
<1> SUFFICES ASSUME NamesInv PROVE NamesTypeOK /\ DotsAreTrue
  OBVIOUS
<1>1. RenamesArePaced
  BY DEF NamesInv, RenamesFit, RenamesArePaced, Paced
<1>2. \A s \in {ns, nsFile} :
          /\ s.source \in NamePlaces /\ {s.want, s.shown} \subseteq Dots \cup {NoDot}
          /\ s.since \in 0..LastNameTick /\ s.retry \in Nat /\ s.renames \in Seq(0..LastNameTick)
  <2>1. ns \in NameState /\ nsFile \in NameState
    BY DEF NamesInv, NameTypes
  <2> QED
    BY <2>1, FieldsOf DEF DotOrNone, Ticks
<1>3. NamesTypeOK
  BY <1>2 DEF NamesInv, NameTypes, NamesTypeOK, DotOrNone
<1> QED
  BY <1>1, <1>3 DEF DotsAreTrue, NamesInv

---------------------------------------------------------------------------
(***************************************************************************)
(* All of them.                                                            *)
(***************************************************************************)

\* Whatever edits, removals, changes of the clock, stops and restarts come between
\* (schedulerLoop, claim, runTask, Close): in a program that takes the services'
\* steps one at a time, a minute the loop wakes for fires all that is due, none
\* fires twice but by a restart (one time more for each) with the clock set back,
\* and a job that is cut short is not recorded as one that worked.
THEOREM SchedulesKept == ServicesSpec => []SchedulesAreKept
<1>1. ServicesInit => JobsInv
  BY JobsInitially DEF ServicesInit
<1>2. JobsInv /\ [ServicesNext]_servicesVars => JobsInv'
  <2>1. [ServicesNext]_servicesVars => [JobsNext]_jobsVars
    BY DEF ServicesNext, servicesVars
  <2> QED
    BY <2>1, JobsStep
<1>3. JobsInv => SchedulesAreKept
  BY JobsHold DEF SchedulesAreKept
<1> QED
  BY <1>1, <1>2, <1>3, PTL DEF ServicesSpec

\* However often a post, an edit or a rename fails or its answer is lost, and
\* whatever is moved, removed by hand or restarted (syncLiveStatus, put,
\* pauseLiveStatus, syncChannelNames, renameFor): no message is left behind that
\* the board could know, a card or a dot that is taken for shown is shown, the
\* board is saved when the loop rests unless the save failed, and the renames in
\* one record keep to Discord's pace.
THEOREM BoardStaysTrue == ServicesSpec => []BoardIsTrue
<1>1. ServicesInit => CardsInv /\ NamesInv
  BY CardsInitially, NamesInitially DEF ServicesInit
<1>2. CardsInv /\ NamesInv /\ [ServicesNext]_servicesVars => CardsInv' /\ NamesInv'
  <2>1. [ServicesNext]_servicesVars => [CardsNext]_cardVars
    BY DEF ServicesNext, servicesVars
  <2>2. [ServicesNext]_servicesVars => [NamesNext]_nameVars
    BY DEF ServicesNext, servicesVars
  <2> QED
    BY <2>1, <2>2, CardsStep, NamesStep
<1>3. CardsInv /\ NamesInv => BoardIsTrue
  BY CardsHold, NamesHold DEF BoardIsTrue
<1> QED
  BY <1>1, <1>2, <1>3, PTL DEF ServicesSpec

\* A page loaded before a job ended is saved after it, and several handlers save
\* the settings (handleSchedules, handleSettings, config.Update): no result of
\* a schedule that stays is lost, the configuration in force is on disk but for a
\* metrics token nobody was shown, no channel gets another's address, and what was
\* saved last is kept unless a handler went by a copy older than it.
THEOREM EditsStaySound == ServicesSpec => EditsAreSound
<1>1. ServicesInit => JobsInv /\ SettingsInv
  BY JobsInitially, SettingsInitially DEF ServicesInit
<1>2. [ServicesNext]_servicesVars => [JobsNext]_jobsVars /\ [SettingsNext]_settingsVars
  BY DEF ServicesNext, servicesVars
<1>3. JobsInv /\ SettingsInv /\ [ServicesNext]_servicesVars => JobsInv' /\ SettingsInv'
  BY <1>2, JobsStep, SettingsStep
<1>4. JobsInv /\ [ServicesNext]_servicesVars =>
         [\A t \in Tasks : tasks[t].here /\ tasks'[t].here /\ tasks[t].last # NoResult
                             => tasks'[t].last # NoResult]_jobsVars
  <2> SUFFICES ASSUME JobsInv, [JobsNext]_jobsVars, NEW t \in Tasks,
                      tasks[t].here, tasks'[t].here, tasks[t].last # NoResult
               PROVE  tasks'[t].last # NoResult
    BY <1>2
  <2> QED
    BY EditsKeepStep DEF JobsInv
<1>5. SettingsInv => (part = "settings" => SettingsAreSound)
  BY SettingsHold
<1> QED
  BY <1>1, <1>3, <1>4, <1>5, PTL DEF ServicesSpec, EditsAreSound, EditsKeepResults

---------------------------------------------------------------------------
(***************************************************************************)
(* The types of the services ServicesProofs is about.                      *)
(***************************************************************************)

\* The ring, the notifier's queue and the streams' channels stay as long as
\* they may be.
EventBounds ==
    /\ ring \in Seq(Event) /\ Len(ring) <= RingSize /\ Len(queue) <= QueueSize
    /\ \A u \in Subscribers : Len(subs[u].queue) <= SubSize

LEMMA LastOfIs ==
    ASSUME NEW r \in Seq(Event), NEW n \in Nat \ {0}
    PROVE  LastOf(r, n) \in Seq(Event) /\ Len(LastOf(r, n)) <= n
<1> DEFINE from == IF Len(r) > n THEN Len(r) - n + 1 ELSE 1
<1>1. Len(r) \in Nat /\ from \in 1..(Len(r) + 1) /\ Len(r) - from + 1 <= n
  OBVIOUS
<1> HIDE DEF from
<1>2. SubSeq(r, from, Len(r)) \in Seq(Event) /\ Len(SubSeq(r, from, Len(r))) = Len(r) - from + 1
  BY <1>1
<1> QED
  BY <1>1, <1>2 DEF LastOf, from

LEMMA SubsStayShort ==
    ASSUME EventTypes, EventBounds, UNCHANGED <<ring, queue>>,
           NEW u \in Subscribers, NEW new \in [queue: Seq(Event), sent: Seq(Event), open: BOOLEAN],
           Len(new.queue) <= SubSize, subs' = [subs EXCEPT ![u] = new]
    PROVE  EventBounds'
BY DEF EventTypes, EventBounds

LEMMA EventBoundsStep ==
    ASSUME EventTypes, EventBounds, [EventsNext]_eventsVars
    PROVE  EventBounds'
<1>0. RingSize \in Nat \ {0} /\ SubSize \in Nat \ {0} /\ QueueSize \in Nat \ {0}
  BY EventsAssumption
<1>1. ASSUME UNCHANGED <<ring, queue, subs>> PROVE EventBounds'
  BY <1>1 DEF EventBounds
<1>2. ASSUME NEW s \in Sources, NEW kind \in Kinds, Reports(s, kind) PROVE EventBounds'
  <2> DEFINE e == [source |-> s, number |-> sources[s].event.number + 1, kind |-> kind]
             r == Append(ring, e)
  <2>1. e \in Event
    BY DEF EventTypes, Event
  <2>2. ring' = LastOf(r, RingSize) /\ UNCHANGED <<queue, subs>>
    BY <1>2 DEF Reports
  <2> HIDE DEF e
  <2>3. r \in Seq(Event)
    BY <2>1 DEF EventBounds
  <2> HIDE DEF r
  <2>4. LastOf(r, RingSize) \in Seq(Event) /\ Len(LastOf(r, RingSize)) <= RingSize
    BY <1>0, <2>3, LastOfIs
  <2> QED
    BY <2>2, <2>4 DEF EventBounds
<1>3. ASSUME NEW s \in Sources, Publishes(s) PROVE EventBounds'
  <2>1. /\ UNCHANGED <<ring, queue>>
        /\ subs' = [u \in Subscribers |->
                      IF subs[u].open /\ Len(subs[u].queue) < SubSize
                      THEN [subs[u] EXCEPT !.queue = Append(@, sources[s].event)] ELSE subs[u]]
        /\ sources[s].event \in Event
    BY <1>3 DEF Publishes, EventTypes
  <2>2. ASSUME NEW u \in Subscribers PROVE Len(subs'[u].queue) <= SubSize
    <3> DEFINE q == subs[u].queue
    <3>1. q \in Seq(Event) /\ Len(q) \in Nat /\ Len(q) <= SubSize
      BY DEF EventTypes, EventBounds
    <3>2. Len(Append(q, sources[s].event)) = Len(q) + 1
      BY <2>1, <3>1
    <3>3. [subs[u] EXCEPT !.queue = Append(@, sources[s].event)].queue = Append(q, sources[s].event)
      BY DEF EventTypes
    <3> HIDE DEF q
    <3> QED
      BY <1>0, <2>1, <3>1, <3>2, <3>3 DEF q
  <2> QED
    BY <2>1, <2>2 DEF EventBounds
<1>4. ASSUME NEW s \in Sources, NEW d \in Destinations, Sends(s, d) PROVE EventBounds'
  <2>1. UNCHANGED <<ring, subs>>
    BY <1>4 DEF Sends
  <2>2. \/ queue' = queue
        \/ Len(queue) < QueueSize /\ queue' = Append(queue, [to |-> d, event |-> sources[s].event])
    BY <1>4 DEF Sends
  <2>3. queue \in Seq([to: Destinations, event: Event]) /\ Len(queue) <= QueueSize
    BY DEF EventTypes, EventBounds
  <2>4. [to |-> d, event |-> sources[s].event] \in [to: Destinations, event: Event]
    BY <1>4 DEF Sends, EventTypes
  <2>5. Len(queue') <= QueueSize
    BY <1>0, <2>2, <2>3, <2>4
  <2> QED
    BY <2>1, <2>5 DEF EventBounds
<1>5. ASSUME WorkerTakes PROVE EventBounds'
  <2>1. queue \in Seq([to: Destinations, event: Event]) /\ queue # << >> /\ queue' = Tail(queue)
        /\ UNCHANGED <<ring, subs>> /\ Len(queue) <= QueueSize
    BY <1>5 DEF WorkerTakes, EventTypes, EventBounds
  <2>2. Len(queue') <= QueueSize
    BY <1>0, <2>1
  <2> QED
    BY <2>1, <2>2 DEF EventBounds
<1>6. ASSUME NEW u \in Subscribers, Subscribes(u) \/ StreamSends(u) \/ Unsubscribes(u) PROVE EventBounds'
  <2> DEFINE Subs == [queue: Seq(Event), sent: Seq(Event), open: BOOLEAN]
  <2>1. subs \in [Subscribers -> Subs] /\ subs[u] \in Subs /\ UNCHANGED <<ring, queue>>
        /\ subs[u].queue \in Seq(Event) /\ Len(subs[u].queue) <= SubSize
    BY <1>6 DEF Subscribes, StreamSends, Unsubscribes, EventTypes, EventBounds
  <2>2. CASE Subscribes(u)
    <3>1. subs' = [subs EXCEPT ![u] = [subs[u] EXCEPT !.open = TRUE]]
      BY <2>1, <2>2 DEF Subscribes
    <3>2. [subs[u] EXCEPT !.open = TRUE] \in Subs /\ [subs[u] EXCEPT !.open = TRUE].queue = subs[u].queue
      BY <2>1
    <3> QED
      BY <2>1, <3>1, <3>2, SubsStayShort
  <2>3. CASE StreamSends(u)
    <3> DEFINE new == [subs[u] EXCEPT !.queue = Tail(@), !.sent = Append(@, Head(subs[u].queue))]
    <3>1. subs' = [subs EXCEPT ![u] = new] /\ subs[u].queue # << >>
      BY <2>1, <2>3 DEF StreamSends
    <3>2. Tail(subs[u].queue) \in Seq(Event) /\ Head(subs[u].queue) \in Event
          /\ Len(Tail(subs[u].queue)) <= SubSize
      BY <1>0, <2>1, <3>1
    <3>3. \A t \in Subs : \A q, x \in Seq(Event) :
             LET n == [t EXCEPT !.queue = q, !.sent = x] IN n \in Subs /\ n.queue = q
      OBVIOUS
    <3>4. /\ Append(subs[u].sent, Head(subs[u].queue)) \in Seq(Event)
          /\ new = [subs[u] EXCEPT !.queue = Tail(subs[u].queue),
                                   !.sent = Append(subs[u].sent, Head(subs[u].queue))]
      BY <2>1, <3>2
    <3>5. new \in Subs /\ new.queue = Tail(subs[u].queue)
      BY <2>1, <3>2, <3>3, <3>4
    <3> HIDE DEF new
    <3> QED
      BY <2>1, <3>1, <3>2, <3>5, SubsStayShort
  <2>4. CASE Unsubscribes(u)
    <3> DEFINE new == [subs[u] EXCEPT !.open = FALSE, !.queue = << >>]
    <3>1. subs' = [subs EXCEPT ![u] = new]
      BY <2>1, <2>4 DEF Unsubscribes
    <3>2. << >> \in Seq(Event) /\ Len(<< >>) <= SubSize
      BY <1>0
    <3>3. new \in Subs /\ new.queue = << >>
      BY <2>1, <3>2
    <3> HIDE DEF new
    <3> QED
      BY <2>1, <3>1, <3>2, <3>3, SubsStayShort
  <2> QED
    BY <1>6, <2>2, <2>3, <2>4
<1>7. ASSUME \/ ClockTicks \/ WorkerPosts \/ WorkerStops \/ NotifierCloses \/ UNCHANGED eventsVars
             \/ \E s \in Sources : Logs(s) \/ SendEnds(s)
      PROVE  UNCHANGED <<ring, queue, subs>>
  BY <1>7 DEF ClockTicks, WorkerPosts, WorkerStops, NotifierCloses, eventsVars, Logs, SendEnds
<1> QED
  BY <1>1, <1>2, <1>3, <1>4, <1>5, <1>6, <1>7 DEF EventsNext

\* Who is known signed in from an address, not from everywhere at once.
KnownFits ==
    /\ known \subseteq Addresses /\ code \in BOOLEAN
    /\ \A q \in Logins : logins[q].pc # "idle" => logins[q].from \in Addresses

LEMMA KnownStep ==
    ASSUME LoginsFit, KnownFits, [SignInNext]_signInVars
    PROVE  KnownFits'
<1>0. logins \in [Logins -> LoginRecord] /\ NoLogin.pc = "idle"
  BY DEF LoginsFit, LoginRecord, NoLogin
<1>1. ASSUME UNCHANGED <<known, logins, code>> PROVE KnownFits'
  BY <1>1 DEF KnownFits
<1>2. ASSUME NEW q \in Logins, Done(q), known' \subseteq Addresses, code' \in BOOLEAN PROVE KnownFits'
  BY <1>0, <1>2 DEF KnownFits, Done
<1>3. ASSUME NEW q \in Logins, NEW pc, Becomes(q, pc), logins[q].pc # "idle", known' \subseteq Addresses,
             code' \in BOOLEAN
      PROVE  KnownFits'
  <2>1. logins' = [logins EXCEPT ![q] = [logins[q] EXCEPT !.pc = pc]]
    BY <1>0, <1>3 DEF Becomes
  <2>2. [logins[q] EXCEPT !.pc = pc].from = logins[q].from
    BY <1>0 DEF LoginRecord
  <2> QED
    BY <1>0, <1>3, <2>1, <2>2 DEF KnownFits
<1>4. ASSUME NEW q \in Logins, NEW from \in Addresses, NEW what \in {"wrong", "right", "barred"},
             LoginTakes(q, from, what) \/ SetupTakes(q, from, what)
      PROVE  KnownFits'
  <2>1. ASSUME NEW pc, logins' = [logins EXCEPT ![q] = [pc |-> pc, from |-> from, what |-> what]],
               UNCHANGED <<known, code>>
        PROVE  KnownFits'
    BY <1>0, <2>1 DEF KnownFits
  <2>2. CASE LoginTakes(q, from, what)
    BY <2>1, <2>2 DEF LoginTakes, Elsewhere
  <2>3. CASE SetupTakes(q, from, what)
    BY <2>1, <2>3 DEF SetupTakes, Elsewhere
  <2> QED
    BY <1>4, <2>2, <2>3
<1>5. ASSUME NEW q \in Logins, LoginTakesAccount(q) \/ LoginHashes(q) PROVE KnownFits'
  <2>1. known' \subseteq Addresses /\ code' \in BOOLEAN /\ logins[q].pc # "idle"
    BY <1>5 DEF LoginTakesAccount, LoginHashes, KnownFits
  <2>2. Done(q) \/ Becomes(q, "waits") \/ Becomes(q, "hashes")
    BY <1>5 DEF LoginTakesAccount, LoginHashes
  <2> QED
    BY <1>2, <1>3, <2>1, <2>2
<1>6. ASSUME NEW q \in Logins, LoginEnds(q) \/ SetupEnds(q) PROVE KnownFits'
  <2>1. Done(q) /\ known' \subseteq Addresses /\ code' \in BOOLEAN
    BY <1>6 DEF LoginEnds, SetupEnds, KnownFits
  <2> QED
    BY <1>2, <2>1
<1>7. ASSUME NEW q \in Logins, SetupChecks(q) \/ SetupMakes(q) PROVE KnownFits'
  <2>1. known' \subseteq Addresses /\ code' \in BOOLEAN /\ logins[q].pc # "idle"
    BY <1>7 DEF SetupChecks, SetupMakes, KnownFits
  <2>2. Done(q) \/ Becomes(q, "checked") \/ Becomes(q, "made")
    BY <1>7 DEF SetupChecks, SetupMakes
  <2> QED
    BY <1>2, <1>3, <2>1, <2>2
<1>8. Passes \/ UNCHANGED signInVars => UNCHANGED <<known, logins, code>>
  BY DEF Passes, signInVars
<1> QED
  BY <1>1, <1>4, <1>5, <1>6, <1>7, <1>8 DEF SignInNext

\* A call that is under way is of a key and a server there are.
CallsAreMade ==
    /\ apiTick \in 0..LastApiTick
    /\ \A c \in Requests : calls[c].pc # "idle" => calls[c].key \in ApiKeys /\ calls[c].server \in ApiServers

LEMMA CallsMadeStep ==
    ASSUME CallsFit, CallsAreMade, [ApiNext]_apiVars
    PROVE  CallsAreMade'
<1> DEFINE Fits == [pc: {"idle", "taken", "runs"}, key: ApiKeys \cup {NoCall.key},
                    server: ApiServers \cup {NoCall.server}]
<1>0. calls \in [Requests -> Fits] /\ NoCall.pc = "idle"
  BY DEF CallsFit, NoCall
<1>1. ASSUME UNCHANGED <<apiTick, calls>> PROVE CallsAreMade'
  BY <1>1 DEF CallsAreMade
<1>2. ASSUME ApiTickPasses PROVE CallsAreMade'
  BY <1>2, ApiAssumption DEF CallsAreMade, ApiTickPasses
<1>3. ASSUME NEW c \in Requests, NEW key \in ApiKeys, NEW target \in ApiServers, CallTakes(c, key, target)
      PROVE  CallsAreMade'
  <2>1. apiTick' = apiTick /\ \/ calls' = calls
                              \/ calls' = [calls EXCEPT ![c] = [pc |-> "taken", key |-> key, server |-> target]]
    BY <1>3 DEF CallTakes
  <2> QED
    BY <1>0, <2>1 DEF CallsAreMade
<1>4. ASSUME NEW c \in Requests, CallEnters(c) \/ CallEnds(c) PROVE CallsAreMade'
  <2>1. apiTick' = apiTick /\ calls[c].pc # "idle"
        /\ \/ calls' = [calls EXCEPT ![c] = NoCall]
           \/ calls' = [calls EXCEPT ![c].pc = "runs"]
    BY <1>4 DEF CallEnters, CallEnds
  <2>2. CASE calls' = [calls EXCEPT ![c] = NoCall]
    BY <1>0, <2>1, <2>2 DEF CallsAreMade
  <2>3. CASE calls' = [calls EXCEPT ![c].pc = "runs"]
    <3> DEFINE new == [calls[c] EXCEPT !.pc = "runs"]
    <3>1. new.key = calls[c].key /\ new.server = calls[c].server
      BY <1>0
    <3>2. calls' = [calls EXCEPT ![c] = new]
      BY <2>3
    <3> HIDE DEF new
    <3> QED
      BY <1>0, <2>1, <3>1, <3>2 DEF CallsAreMade
  <2> QED
    BY <2>1, <2>2, <2>3
<1>5. ASSUME \/ \E b \in Buckets : BucketForgotten(b)
             \/ \E s \in Streams : (\E key \in ApiKeys : StreamCounts(s, key)) \/ StreamRefused(s) \/ StreamEnds(s)
             \/ StreamsStop \/ (\E key \in ApiKeys : KeyRevoked(key)) \/ UNCHANGED apiVars
      PROVE  UNCHANGED <<apiTick, calls>>
  BY <1>5 DEF BucketForgotten, StreamCounts, StreamRefused, StreamEnds, StreamsStop, KeyRevoked, apiVars
<1> QED
  BY <1>1, <1>2, <1>3, <1>4, <1>5 DEF ApiNext

ServicesInv ==
    /\ JobsInv /\ PlayersInv /\ EventsInv /\ EventBounds /\ SignInInv /\ KnownFits
    /\ ApiInv /\ CallsAreMade /\ CardsInv /\ NamesInv /\ ModsInv /\ SettingsInv

LEMMA ServicesInitially == ServicesInit => ServicesInv
<1> SUFFICES ASSUME ServicesInit PROVE ServicesInv
  OBVIOUS
<1>1. JobsInv /\ PlayersInv /\ EventsInv /\ SignInInv /\ ApiInv /\ CardsInv /\ NamesInv /\ ModsInv /\ SettingsInv
  BY JobsInitially, PlayersInitially, EventsInitially, SignInInitially, ApiInitially, CardsInitially,
     NamesInitially, ModsInitially, SettingsInitially DEF ServicesInit
<1>2. EventBounds
  <2>1. EventsInit /\ RingSize \in Nat /\ QueueSize \in Nat /\ SubSize \in Nat
    BY EventsAssumption DEF ServicesInit
  <2> QED
    BY <2>1 DEF EventsInit, EventBounds
<1>3. KnownFits
  BY DEF ServicesInit, SignInInit, KnownFits, NoLogin
<1>4. CallsAreMade
  BY ApiAssumption DEF ServicesInit, ApiInit, CallsAreMade, NoCall
<1> QED
  BY <1>1, <1>2, <1>3, <1>4 DEF ServicesInv

LEMMA ServicesStep == ServicesInv /\ [ServicesNext]_servicesVars => ServicesInv'
<1> SUFFICES ASSUME ServicesInv, [ServicesNext]_servicesVars PROVE ServicesInv'
  OBVIOUS
<1>1. /\ [JobsNext]_jobsVars /\ [PlayersNext]_playersVars /\ [EventsNext]_eventsVars
      /\ [SignInNext]_signInVars /\ [ApiNext]_apiVars /\ [CardsNext]_cardVars
      /\ [NamesNext]_nameVars /\ [ModsNext]_modVars /\ [SettingsNext]_settingsVars
  BY DEF ServicesNext, servicesVars
<1>2. EventTypes /\ LoginsFit /\ CallsFit
  BY DEF ServicesInv, EventsInv, SignInInv, ApiInv
<1>3. EventBounds' /\ KnownFits' /\ CallsAreMade'
  BY <1>1, <1>2, EventBoundsStep, KnownStep, CallsMadeStep DEF ServicesInv
<1> QED
  BY <1>1, <1>3, JobsStep, PlayersStep, EventsStep, SignInStep, ApiStep, CardsStep, NamesStep, ModsStep, SettingsStep
     DEF ServicesInv

LEMMA ServicesHold ==
    ASSUME ServicesInv, ApiKeys # {}, ApiServers # {}
    PROVE  ServicesTypeOK
<1>1. JobsTypeOK /\ PlayersTypeOK /\ CardsTypeOK /\ NamesTypeOK /\ SettingsTypeOK
  BY JobsHold, RegistryHolds, CardsHold, NamesHold, SettingsHold DEF ServicesInv
<1>2. EventsTypeOK
  <2>1. EventTypes /\ EventBounds
    BY DEF ServicesInv, EventsInv
  <2> QED
    BY <2>1 DEF EventTypes, EventBounds, EventsTypeOK
<1>3. SignInTypeOK
  BY DEF ServicesInv, SignInInv, RecordsFit, KnownFits, OwnerFits, SignInTypeOK
<1>4. ApiTypeOK
  <2>1. BucketsFit /\ CallsFit /\ StreamsFit /\ CallsAreMade
    BY DEF ServicesInv, ApiInv
  <2>2. buckets \in [Buckets -> [tokens: 0..Burst * Refill, last: 0..LastApiTick, there: BOOLEAN]]
    BY <2>1, ApiAssumption DEF BucketsFit, CallsAreMade, Full
  <2>3. NoCall.key \in ApiKeys /\ NoCall.server \in ApiServers /\ NoStream.key \in ApiKeys
    BY DEF NoCall, NoStream
  <2>4. calls \in [Requests -> [pc: {"idle", "taken", "runs"}, key: ApiKeys, server: ApiServers]]
    BY <2>1, <2>3 DEF CallsFit
  <2>5. streams \in [Streams -> [pc: {"idle", "refused", "open"}, key: ApiKeys]] /\ counter \in [ApiKeys -> Nat]
    BY <2>1, <2>3 DEF StreamsFit
  <2>6. inflight \subseteq ApiServers
    BY <2>1, <2>4 DEF CallsFit, OneCallPerServer
  <2> QED
    BY <2>2, <2>4, <2>5, <2>6 DEF ApiTypeOK
<1>5. ModsTypeOK
  <2>1. ListFits(requests) /\ ListFits(requestFile) /\ EditorsFit
    BY DEF ServicesInv, ModsInv
  <2>2. ASSUME NEW list, ListFits(list), NEW n \in DOMAIN list
        PROVE  /\ list[n].id \in 1..MaxAsked /\ list[n].item \in Items
               /\ list[n].status \in {"pending", "approved", "rejected"}
    <3>1. list[n] \in Request
      BY <2>2 DEF ListFits
    <3> QED
      BY <3>1 DEF Request, Statuses
  <2>3. ini.items \subseteq Items /\ \A e \in Editors : editors[e].pc \in {"idle", "ask", "load", "save", "decide"}
    BY <2>1 DEF EditorsFit, Lines, EditorRecord
  <2> QED
    BY <2>1, <2>2, <2>3 DEF ModsTypeOK
<1> QED
  BY <1>1, <1>2, <1>3, <1>4, <1>5 DEF ServicesTypeOK

\* Each service's state keeps its type; the ring, the notifier's queue and the
\* streams' channels never hold more than they are made for (Store.Append,
\* Notifier.Send).  Where there is no key or no server to call there is no call.
THEOREM ServicesTypeCorrect ==
    ASSUME ApiKeys # {}, ApiServers # {}
    PROVE  ServicesSpec => []ServicesTypeOK
<1>1. ServicesInv => ServicesTypeOK
  BY ServicesHold
<1> QED
  BY <1>1, ServicesInitially, ServicesStep, PTL DEF ServicesSpec
=============================================================================
