--------------------------------- MODULE Jobs ---------------------------------
(***************************************************************************)
(* Scheduled jobs, the stop and the restart of PZAdmin: the scheduler's     *)
(* loop and its fire log (internal/server/scheduler.go), the jobs it spawns, the     *)
(* schedule editor and the Run button (api.go), removeServer's dropping of  *)
(* schedules, and spawn, BeginShutdown and Close (server.go).               *)
(*                                                                          *)
(* Time is the minute of the configured timezone.  The loop's own work is   *)
(* done within the minute, except for announcements: these are RCON         *)
(* commands the loop waits for.                                             *)
(***************************************************************************)
EXTENDS Naturals, Sequences

CONSTANTS
    Tasks,      \* IDs of scheduled jobs
    Minutes,    \* bound: the minutes looked at, 1..n
    Due,        \* Due[t]: minutes t's cron expression matches
    Leads,      \* Leads[t]: t's WarnMinutes
    Steps,      \* Steps[t]: its steps: kind, ContinueOnError, players (@each)
    Hands,      \* request handlers
    ByHand,     \* bound: the jobs the Run button is pressed for
    Scenarios   \* bound: sets of what happens besides, at most once each

ASSUME JobsAssumption ==
    /\ Minutes \subseteq Nat \ {0} /\ 1 \in Minutes
    /\ Due \in [Tasks -> SUBSET Minutes]
    /\ Leads \in [Tasks -> SUBSET (Nat \ {0})]
    /\ \A t \in Tasks : Steps[t] \in Seq([kind: {"wait", "action"}, goOn: BOOLEAN, players: Nat])
    /\ Scenarios \subseteq SUBSET {"edit", "remove", "run", "back", "limit", "stop", "restart"}

\* What is claimed in the fire log: a run (lead 0) or a countdown of a minute.
\* A run by hand is not; it has minute 0.
Claims == {c \in Tasks \X ((UNION {Leads[t] : t \in Tasks}) \cup {0}) \X Minutes :
              c[2] = 0 \/ c[2] \in Leads[c[1]]}
Runs == Tasks \X (Minutes \cup {0})

VARIABLES
    minute,   \* the wall clock
    loop,     \* schedulerLoop: pc, the minute it woke at, what it has to look at
    fired,    \* the fire log, in memory
    starts,   \* history: how often each claim was acted on
    jobs,     \* runTask of each run
    tasks,    \* cfg.Schedules: there or not, LastResult
    server,   \* the jobs' server is in the configuration
    hand,     \* a request being handled: pc, the tasks it would save
    life,     \* up, cancelled (BeginShutdown), stopping, saved
    late,     \* Close gave up waiting for background work
    restarts,    \* history: how often PZAdmin was restarted
    turned,   \* history: the clock was set back
    left      \* changes still to come

jobsVars == <<minute, loop, fired, starts, jobs, tasks, server, hand, life, late,
              restarts, turned, left>>

NoRun == [pc |-> "none", step |-> 1, players |-> 0, failed |-> FALSE, expired |-> FALSE]
NoResult == "none"
Asleep == [pc |-> "asleep", now |-> 0, copy |-> {}, todo |-> {}]

\* A job's context ends with PZAdmin or after 30 minutes.
Cancelled(run) == life # "up" \/ jobs[run].expired
Happens(change) == change \in left /\ left' = left \ {change}

----------------------------------------------------------------------------
(* Time *)

\* The minute passes when the loop has seen it, or is waiting for RCON.  The
\* loop is woken by a timer set to the next boundary.
MinutePasses ==
    /\ minute + 1 \in Minutes
    /\ loop.pc \in {"asleep", "announce"}
    /\ minute' = minute + 1
    /\ loop' = IF loop.pc = "asleep" THEN [loop EXCEPT !.pc = "woken"] ELSE loop
    /\ UNCHANGED <<fired, starts, jobs, tasks, server, hand, life, late, restarts, turned, left>>

\* The clock is set back, or summer time ends: a minute comes again.  The fire
\* log forgets after two hours, so it is set back by less.
ClockBack ==
    /\ Happens("back")
    /\ minute - 1 \in Minutes /\ loop.pc = "asleep"
    /\ minute' = minute - 1 /\ turned' = TRUE
    /\ loop' = [loop EXCEPT !.pc = "woken"]
    /\ UNCHANGED <<fired, starts, jobs, tasks, server, hand, life, late, restarts>>

----------------------------------------------------------------------------
(* The scheduler *)

\* a.stop is closed by Close; the loop sees it when it is asleep.
Stopped == life \in {"stopping", "saved"}

Wakes ==
    /\ loop.pc = "woken" /\ ~Stopped
    /\ LET here == {t \in Tasks : tasks[t].here /\ server}
       IN  loop' = [pc |-> "tasks", now |-> minute, copy |-> here, todo |-> here]
    /\ UNCHANGED <<minute, fired, starts, jobs, tasks, server, hand, life, late, restarts, turned, left>>

Ends ==
    /\ loop.pc \in {"asleep", "woken"} /\ Stopped
    /\ loop' = [Asleep EXCEPT !.pc = "ended"]
    /\ UNCHANGED <<minute, fired, starts, jobs, tasks, server, hand, life, late, restarts, turned, left>>

\* Mutant: countdowns and runs share one key per minute.
ClaimedByTask(claim) == \E n \in 0..9 : <<claim[1], n, claim[3]>> \in fired

Claimed(claim) == claim \in fired

Fires(claim) == fired' = fired \cup {claim} /\ starts' = [starts EXCEPT ![claim] = @ + 1]

Warnings(t) ==
    {<<t, n, loop.now>> : n \in {n \in Leads[t] : loop.now + n \in Due[t]}}

\* A countdown nobody announced for this minute: servermsg over RCON.
Warns(t) ==
    /\ loop.pc = "tasks" /\ t \in loop.todo
    /\ \E claim \in Warnings(t) : ~Claimed(claim) /\ Fires(claim)
    /\ loop' = [loop EXCEPT !.pc = "announce"]
    /\ UNCHANGED <<minute, jobs, tasks, server, hand, life, late, restarts, turned, left>>

Announced ==
    /\ loop.pc = "announce"
    /\ loop' = [loop EXCEPT !.pc = "tasks"]
    /\ UNCHANGED <<minute, fired, starts, jobs, tasks, server, hand, life, late, restarts, turned, left>>

\* Mutant: work is accepted while PZAdmin is shutting down.
SpawnsAlways(run) == jobs' = [jobs EXCEPT ![run] = [NoRun EXCEPT !.pc = "run"]]

\* spawn: nothing is accepted once Close has set stopping.
Spawns(run) ==
    IF Stopped THEN UNCHANGED jobs
    ELSE jobs' = [jobs EXCEPT ![run] = [NoRun EXCEPT !.pc = "run"]]

\* After its countdowns a job that is due is claimed and spawned.
Looks(t) ==
    LET claim == <<t, 0, loop.now>> IN
    /\ loop.pc = "tasks" /\ t \in loop.todo
    /\ \A warning \in Warnings(t) : Claimed(warning)
    /\ IF loop.now \in Due[t] /\ ~Claimed(claim)
       THEN Fires(claim) /\ Spawns(<<t, loop.now>>)
       ELSE UNCHANGED <<fired, starts, jobs>>
    /\ loop' = [loop EXCEPT !.todo = @ \ {t}]
    /\ UNCHANGED <<minute, tasks, server, hand, life, late, restarts, turned, left>>

\* The next boundary is worked out from the time it is now.
Sleeps ==
    /\ loop.pc = "tasks" /\ loop.todo = {}
    /\ loop' = [loop EXCEPT !.pc = "asleep"]
    /\ UNCHANGED <<minute, fired, starts, jobs, tasks, server, hand, life, late, restarts, turned, left>>

----------------------------------------------------------------------------
(* Running a job *)

StepOf(run) == Steps[run[1]][jobs[run].step]
LastStep(run) == jobs[run].step = Len(Steps[run[1]])

\* Mutant: a job stopped by shutdown is not an error.
AfterStepQuietly(run, ok) ==
    IF LastStep(run) \/ (ok /\ Cancelled(run)) \/ (~ok /\ ~StepOf(run).goOn)
    THEN [jobs[run] EXCEPT !.pc = "record", !.failed = ~ok /\ ~StepOf(run).goOn]
    ELSE [jobs[run] EXCEPT !.step = @ + 1, !.players = 0]

\* executeSteps: the first failure ends the job unless the step goes on; a
\* cancelled context ends it after a step that worked.
AfterStep(run, ok) ==
    IF (ok /\ Cancelled(run)) \/ (~ok /\ ~StepOf(run).goOn)
    THEN [jobs[run] EXCEPT !.pc = "record", !.failed = TRUE]
    ELSE IF LastStep(run) THEN [jobs[run] EXCEPT !.pc = "record"]
    ELSE [jobs[run] EXCEPT !.step = @ + 1, !.players = 0]

\* The job's 30 minutes are over.
Expires(run) ==
    /\ jobs[run].pc = "run" /\ Happens("limit")
    /\ jobs' = [jobs EXCEPT ![run].expired = TRUE]
    /\ UNCHANGED <<minute, loop, fired, starts, tasks, server, hand, life, late, restarts, turned>>

\* A wait ends by itself or with the context.
Waits(run) ==
    /\ jobs[run].pc = "run" /\ StepOf(run).kind = "wait"
    /\ \E ok \in BOOLEAN : (~ok => Cancelled(run)) /\ jobs' = [jobs EXCEPT ![run] = AfterStep(run, ok)]
    /\ UNCHANGED <<minute, loop, fired, starts, tasks, server, hand, life, late, restarts, turned, left>>

\* A command goes out once for each player it names and stops at the first
\* that fails; RCON takes no context.
Acts(run) ==
    /\ jobs[run].pc = "run" /\ StepOf(run).kind = "action"
    /\ \/ /\ jobs[run].players < StepOf(run).players
          /\ jobs' = [jobs EXCEPT ![run].players = @ + 1]
       \/ /\ jobs[run].players = StepOf(run).players
          /\ jobs' = [jobs EXCEPT ![run] = AfterStep(run, TRUE)]
       \/ jobs' = [jobs EXCEPT ![run] = AfterStep(run, FALSE)]
    /\ UNCHANGED <<minute, loop, fired, starts, tasks, server, hand, life, late, restarts, turned, left>>

\* The outcome is written to the task, if it is still there.
Records(run) ==
    LET t == run[1] IN
    /\ jobs[run].pc = "record"
    /\ tasks' = [tasks EXCEPT ![t].last =
                   IF ~tasks[t].here THEN @ ELSE IF jobs[run].failed THEN "failed" ELSE "ok"]
    /\ jobs' = [jobs EXCEPT ![run].pc = "over"]
    /\ UNCHANGED <<minute, loop, fired, starts, server, hand, life, late, restarts, turned, left>>

----------------------------------------------------------------------------
(* Requests *)

HandIdle(h) == hand[h].pc = "idle"
Then(h, pc, save) == hand' = [hand EXCEPT ![h] = [pc |-> pc, save |-> save]]

\* handleSchedules checks the jobs against the configuration it reads ...
EditReads(h) ==
    /\ HandIdle(h) /\ life = "up" /\ Happens("edit")
    /\ \E save \in SUBSET Tasks : (save # {} => server) /\ Then(h, "save", save)
    /\ UNCHANGED <<minute, loop, fired, starts, jobs, tasks, server, life, late, restarts, turned>>

\* Mutant: the editor's list replaces the results too.
EditedBlank(t, save) == [here |-> t \in save, last |-> NoResult]

\* A job that was there keeps its last result.
Edited(t, save) ==
    [here |-> t \in save,
     last |-> IF t \in save /\ tasks[t].here THEN tasks[t].last ELSE NoResult]

\* ... and replaces the list in an update.
EditSaves(h) ==
    /\ hand[h].pc = "save"
    /\ tasks' = [t \in Tasks |-> Edited(t, hand[h].save)]
    /\ Then(h, "idle", {})
    /\ UNCHANGED <<minute, loop, fired, starts, jobs, server, life, late, restarts, turned, left>>

\* removeServer drops the server and its jobs in one update.
ServerRemoved ==
    /\ server /\ life = "up" /\ Happens("remove")
    /\ server' = FALSE
    /\ tasks' = [t \in Tasks |-> [here |-> FALSE, last |-> NoResult]]
    /\ UNCHANGED <<minute, loop, fired, starts, jobs, hand, life, late, restarts, turned>>

\* handleScheduleRun reads the configuration, then spawns; the handler may
\* outlive srv.Shutdown's 20 seconds.
RunReads(h, t) ==
    /\ HandIdle(h) /\ life = "up" /\ Happens("run")
    /\ t \in ByHand /\ tasks[t].here /\ server /\ jobs[<<t, 0>>].pc = "none"
    /\ Then(h, "run", {t})
    /\ UNCHANGED <<minute, loop, fired, starts, jobs, tasks, server, life, late, restarts, turned>>

RunSpawns(h) ==
    /\ hand[h].pc = "run"
    /\ \E t \in hand[h].save : Spawns(<<t, 0>>)
    /\ Then(h, "idle", {})
    /\ UNCHANGED <<minute, loop, fired, starts, tasks, server, life, late, restarts, turned, left>>

----------------------------------------------------------------------------
(* Stopping *)

\* BeginShutdown, by http.Server.Shutdown: the context is cancelled.
ShutdownBegins ==
    /\ life = "up" /\ Happens("stop")
    /\ life' = "cancelled"
    /\ UNCHANGED <<minute, loop, fired, starts, jobs, tasks, server, hand, late, restarts, turned>>

\* Close: stopping is set and a.stop closed.
CloseStops ==
    /\ life = "cancelled"
    /\ life' = "stopping"
    /\ UNCHANGED <<minute, loop, fired, starts, jobs, tasks, server, hand, late, restarts, turned, left>>

Tracked == {run \in Runs : jobs[run].pc \in {"run", "record"}}

\* The WaitGroup is empty, or 8 seconds have passed; then the state is saved.
CloseSaves ==
    /\ life = "stopping"
    /\ life' = "saved"
    /\ late' \in {FALSE, TRUE}
    /\ late' \/ (Tracked = {} /\ loop.pc = "ended")
    /\ UNCHANGED <<minute, loop, fired, starts, jobs, tasks, server, hand, restarts, turned, left>>

\* PZAdmin is killed, or stops, and starts again, some minutes later perhaps.
\* The schedules are on disk; the fire log, the jobs and the requests are not.
\* The loop sleeps to the next minute, as Start's always does.
Restarts ==
    /\ Happens("restart")
    /\ \E m \in Minutes : m >= minute /\ minute' = m
    /\ loop' = Asleep /\ fired' = {}
    /\ jobs' = [run \in Runs |-> NoRun]
    /\ hand' = [h \in Hands |-> [pc |-> "idle", save |-> {}]]
    /\ life' = "up" /\ late' = FALSE /\ restarts' = restarts + 1
    /\ UNCHANGED <<starts, tasks, server, turned>>

----------------------------------------------------------------------------
JobsInit ==
    /\ minute = 1
    /\ loop = Asleep
    /\ fired = {}
    /\ starts = [claim \in Claims |-> 0]
    /\ jobs = [run \in Runs |-> NoRun]
    /\ tasks = [t \in Tasks |-> [here |-> TRUE, last |-> NoResult]]
    /\ server = TRUE
    /\ hand = [h \in Hands |-> [pc |-> "idle", save |-> {}]]
    /\ life = "up" /\ late = FALSE /\ restarts = 0 /\ turned = FALSE
    /\ left \in Scenarios

LoopSteps == Wakes \/ Ends \/ Announced \/ Sleeps \/ \E t \in Tasks : Warns(t) \/ Looks(t)
RunSteps(run) == Expires(run) \/ Waits(run) \/ Acts(run) \/ Records(run)
Handler(h) == EditSaves(h) \/ RunSpawns(h)

JobsNext ==
    \/ MinutePasses \/ ClockBack
    \/ LoopSteps
    \/ \E run \in Runs : RunSteps(run)
    \/ \E h \in Hands : Handler(h) \/ EditReads(h) \/ \E t \in Tasks : RunReads(h, t)
    \/ ServerRemoved \/ ShutdownBegins \/ CloseStops \/ CloseSaves \/ Restarts

JobsSpec == JobsInit /\ [][JobsNext]_jobsVars


----------------------------------------------------------------------------
(* Properties *)

JobsTypeOK ==
    /\ minute \in Minutes
    /\ loop.pc \in {"asleep", "woken", "tasks", "announce", "ended"}
    /\ loop.todo \subseteq loop.copy /\ loop.copy \subseteq Tasks
    /\ fired \subseteq Claims
    /\ jobs \in [Runs -> [pc: {"none", "run", "record", "over"}, step: Nat \ {0},
                          players: Nat, failed: BOOLEAN, expired: BOOLEAN]]
    /\ tasks \in [Tasks -> [here: BOOLEAN, last: {NoResult, "ok", "failed"}]]
    /\ life \in {"up", "cancelled", "stopping", "saved"}

\* In a minute of the clock a job runs and each countdown is announced at most
\* once, although the clock is set back, summer time ends, a minute is seen
\* twice or PZAdmin restarts.  A restart empties the fire log: only if the clock
\* is set back as well does a minute fire again, once for each restart.  When the
\* loop sleeps again, every job due in the minute it woke for has been fired,
\* whatever countdowns that minute had.
AtMostOnce == \A claim \in Claims : starts[claim] <= IF turned THEN 1 + restarts ELSE 1
NoneLeftOut ==
    loop.pc = "asleep" =>
        \A t \in loop.copy : loop.now \in Due[t] => starts[<<t, 0, loop.now>>] > 0
FiresOncePerMinute == AtMostOnce /\ NoneLeftOut

\* A job cut short by a failure or by PZAdmin's stop is never recorded as one
\* that worked; and once Close has waited for background work, no job runs or
\* starts, a run accepted while the WaitGroup was waited for included.
CutShortIsFailed ==
    \A run \in Runs : jobs[run].pc = "record" /\ ~jobs[run].failed => LastStep(run)
NothingRunsAfterTheWait == life = "saved" /\ ~late => Tracked = {}
StopsCleanly == CutShortIsFailed /\ NothingRunsAfterTheWait

\* Editing the schedules from a page loaded earlier loses no result recorded
\* since: the list is merged inside the update.
EditsKeepResults ==
    [][\A t \in Tasks : tasks[t].here /\ tasks'[t].here /\ tasks[t].last # NoResult
                          => tasks'[t].last # NoResult]_jobsVars
=============================================================================
