----------------------------- MODULE Scheduler -----------------------------
(***************************************************************************)
(* The capture-job daemon: createScheduler                                  *)
(* (src/src/core/orchestrate/scheduler.ts) over the child processes and the *)
(* signal handler of src/scripts/orchestrate.ts.  One armed timer wakes the *)
(* daemon for the earliest of every job's next occurrence and pending       *)
(* retry; a job is serialized against itself.                               *)
(*                                                                         *)
(* Times are whole minutes relative to the present, so that the daemon may  *)
(* run for ever: a wake at 2 is two minutes ahead, at -1 one minute late.   *)
(* `now' is the time of day modulo Cycle.  A job's cron expression is its   *)
(* period; a step of a handler takes no time.                               *)
(***************************************************************************)
EXTENDS Integers, FiniteSets

CONSTANTS
  Jobs,
  Cycle,       \* a common multiple of the periods
  Period,      \* per job: the distance of its cron slots, which divides Cycle
  Jitter,      \* per job: jitterMinutes
  Attempts,    \* per job: retry.attempts
  RetryDelay,  \* per job: retry.delayMinutes
  Untimed,     \* the jobs with timeoutMinutes = 0: no timeout is enforced
  MaxDelay,    \* MAX_TIMER_DELAY_MS
  MaxLag,      \* bound: how late the daemon gets at most (a timer served late, a clock jump)
  None

ASSUME SchedulerAssumption ==
  /\ Cycle \in Nat \ {0} /\ MaxDelay \in Nat \ {0} /\ MaxLag \in Nat
  /\ Period \in [Jobs -> Nat \ {0}] /\ Jitter \in [Jobs -> Nat]
  /\ Attempts \in [Jobs -> Nat] /\ RetryDelay \in [Jobs -> Nat] /\ Untimed \subseteq Jobs
  /\ None \notin Int \cup [armedFor : Int, firesAt : Int]

VARIABLES
  now,
  job,     \* per job: its JobRuntime
  timer,   \* armedForTime and the time the armed timer fires, or None
  mode,    \* "on", "draining" (stop awaits running jobs), "stopped"
  killed,  \* jobs whose child stop() sent a SIGTERM
  begun    \* ghost: jobs whose latest step began a run of a new occurrence

vars == <<now, job, timer, mode, killed, begun>>

JobRuntime ==
  [nextScheduledAt : Int,
   pendingRetryAt : Int \cup {None},
   running : BOOLEAN,
   attemptsUsed : Nat,
   children : Nat,                    \* child processes alive; currentDone is set iff there is one
   lastOutcome : {"none", "ok", "failed", "timeout"}]

Timer == [armedFor : Int, firesAt : Int]

TypeOK ==
  /\ now \in 0..(Cycle - 1)
  /\ job \in [Jobs -> JobRuntime]
  /\ timer \in Timer \cup {None}
  /\ mode \in {"on", "draining", "stopped"}
  /\ killed \subseteq Jobs /\ begun \subseteq Jobs
  /\ \A j \in Jobs : job[j].attemptsUsed <= Attempts[j]

----------------------------------------------------------------------------
(* The timer *)

\* nextRun: the first slot strictly after a time.
NextSlot(j, due) == due + Period[j] - ((now + due) % Period[j])

\* The next occurrence from the time the tick is served.
NextDueFromNow(j, due) == {NextSlot(j, 0) + jitter : jitter \in 0..Jitter[j]}

\* computeNextDue, from the time the job was due
NextDue(j, due) == {NextSlot(j, due) + jitter : jitter \in 0..Jitter[j]}

Wakes(jobs) ==
  {jobs[j].nextScheduledAt : j \in Jobs}
    \cup {jobs[j].pendingRetryAt : j \in {i \in Jobs : jobs[i].pendingRetryAt # None}}

Clamped(delay) == IF delay < 0 THEN 0 ELSE IF delay > MaxDelay THEN MaxDelay ELSE delay

\* rearmGlobalTimer, with `armed' the timer that is armed before it
RearmGlobalTimer(armed, jobs) ==
  \E min \in Wakes(jobs) :
    /\ \A wake \in Wakes(jobs) : min <= wake
    /\ timer' = IF armed # None /\ armed.armedFor = min THEN armed
                ELSE [armedFor |-> min, firesAt |-> Clamped(min)]

\* start(): every job's first occurrence, and the timer for the earliest.
Init ==
  /\ now = 0
  /\ \E due \in [Jobs -> UNION {NextDue(j, 0) : j \in Jobs}] :
       /\ \A j \in Jobs : due[j] \in NextDue(j, 0)
       /\ job = [j \in Jobs |->
                   [nextScheduledAt |-> due[j], pendingRetryAt |-> None, running |-> FALSE,
                    attemptsUsed |-> 0, children |-> 0, lastOutcome |-> "none"]]
  /\ \E min \in Wakes(job) :
       /\ \A wake \in Wakes(job) : min <= wake
       /\ timer = [armedFor |-> min, firesAt |-> Clamped(min)]
  /\ mode = "on" /\ killed = {} /\ begun = {}

----------------------------------------------------------------------------
(* One run of a job *)

\* A retry is granted while attemptsUsed is not above the budget.
FinishAttemptOnceMore(j, rt, outcome) ==
  IF outcome # "ok" /\ rt.attemptsUsed <= Attempts[j] /\ mode = "on"
  THEN [rt EXCEPT !.attemptsUsed = @ + 1, !.pendingRetryAt = RetryDelay[j]]
  ELSE [rt EXCEPT !.running = FALSE, !.lastOutcome = outcome]

\* finishAttempt without its rearm: success ends the chain, a failure retries while the budget
\* lasts and the daemon is not stopping.
FinishAttempt(j, rt, outcome) ==
  IF outcome # "ok" /\ rt.attemptsUsed < Attempts[j] /\ mode = "on"
  THEN [rt EXCEPT !.attemptsUsed = @ + 1, !.pendingRetryAt = RetryDelay[j]]
  ELSE [rt EXCEPT !.running = FALSE, !.lastOutcome = outcome]

\* startAttempt: spawnJob may throw, which finishes the attempt at once.
StartAttempt(j, rt) ==
  LET occupied == [rt EXCEPT !.running = TRUE]
  IN  {[occupied EXCEPT !.children = @ + 1], FinishAttempt(j, occupied, "failed")}

----------------------------------------------------------------------------
(* tick() *)

Due(j) == job[j].nextScheduledAt <= 0
RetryDue(j) == job[j].pendingRetryAt # None /\ job[j].pendingRetryAt <= 0

\* A job that is waiting for its retry does not count as running.
ServeScheduleBetweenRetries(j) ==
  LET Advanced == {[job[j] EXCEPT !.nextScheduledAt = due] : due \in NextDue(j, job[j].nextScheduledAt)}
  IN  IF ~Due(j) THEN {job[j]}
      ELSE IF job[j].children > 0 THEN Advanced
      ELSE UNION {StartAttempt(j, [rt EXCEPT !.attemptsUsed = 0]) : rt \in Advanced}

\* The job after its occurrence was served: skipped while the job is occupied, else started.
ServeSchedule(j) ==
  LET Advanced == {[job[j] EXCEPT !.nextScheduledAt = due] : due \in NextDue(j, job[j].nextScheduledAt)}
  IN  IF ~Due(j) THEN {job[j]}
      ELSE IF job[j].running THEN Advanced
      ELSE UNION {StartAttempt(j, [rt EXCEPT !.attemptsUsed = 0]) : rt \in Advanced}

\* And after the retry that was due at the beginning of the tick.
ServeRetry(j, rt) == IF RetryDue(j) THEN StartAttempt(j, [rt EXCEPT !.pendingRetryAt = None]) ELSE {rt}

Served(j) == UNION {ServeRetry(j, rt) : rt \in ServeSchedule(j)}

Tick ==
  /\ mode = "on" /\ timer # None /\ timer.firesAt <= 0
  /\ job' \in {jobs \in [Jobs -> UNION {Served(j) : j \in Jobs}] : \A j \in Jobs : jobs[j] \in Served(j)}
  /\ begun' = {j \in Jobs : Due(j) /\ ~job[j].running}
  /\ RearmGlobalTimer(None, job')
  /\ UNCHANGED <<now, mode, killed>>

----------------------------------------------------------------------------
(* The children, the clock and stop() *)

Exited(rt) == [rt EXCEPT !.children = @ - 1]

\* how finishAttempt classifies an exit; only a child with a timeout can overrun it
ExitOutcomes(j) == {"ok", "failed"} \cup (IF j \in Untimed THEN {} ELSE {"timeout"})

\* A failed attempt is left to the timer that is armed already.
ChildExitsUnarmed(j) ==
  /\ mode # "stopped" /\ job[j].children > 0
  /\ \E outcome \in ExitOutcomes(j) :
       job' = [job EXCEPT ![j] = FinishAttempt(j, Exited(job[j]), outcome)]
  /\ mode' = IF mode = "draining" /\ \A i \in Jobs : job'[i].children = 0 THEN "stopped" ELSE mode
  /\ begun' = {}
  /\ UNCHANGED <<now, timer, killed>>

\* The child's done resolves (by itself, or on the SIGTERM or SIGKILL after timeoutMinutes) and
\* finishAttempt runs.  The last one of those stop() awaits ends the shutdown.
ChildExits(j) ==
  /\ mode # "stopped" /\ job[j].children > 0
  /\ \E outcome \in ExitOutcomes(j) :
       job' = [job EXCEPT ![j] = FinishAttempt(j, Exited(job[j]), outcome)]
  /\ IF job'[j].pendingRetryAt # None THEN RearmGlobalTimer(timer, job') ELSE UNCHANGED timer
  /\ mode' = IF mode = "draining" /\ \A i \in Jobs : job'[i].children = 0 THEN "stopped" ELSE mode
  /\ begun' = {}
  /\ UNCHANGED <<now, killed>>

\* A minute passes.  The daemon serves what is due before it is more than MaxLag late.
Minute ==
  /\ mode = "on"
  /\ timer.firesAt > -MaxLag
  /\ \A wake \in Wakes(job) : wake > -MaxLag
  /\ now' = (now + 1) % Cycle
  /\ timer' = [armedFor |-> timer.armedFor - 1, firesAt |-> timer.firesAt - 1]
  /\ job' = [j \in Jobs |->
               [job[j] EXCEPT !.nextScheduledAt = @ - 1,
                              !.pendingRetryAt = IF @ = None THEN None ELSE @ - 1]]
  /\ begun' = {}
  /\ UNCHANGED <<mode, killed>>

\* SIGINT or SIGTERM: stop().  Only jobs with a live child are awaited, not those between attempts.
Signal ==
  /\ mode = "on"
  /\ timer' = None
  /\ mode' = IF \A j \in Jobs : job[j].children = 0 THEN "stopped" ELSE "draining"
  /\ begun' = {}
  /\ UNCHANGED <<now, job, killed>>

\* The grace timer: the children that remain are sent SIGTERM and the daemon exits.
GraceExpires ==
  /\ mode = "draining"
  /\ killed' = {j \in Jobs : job[j].children > 0}
  /\ mode' = "stopped"
  /\ begun' = {}
  /\ UNCHANGED <<now, job, timer>>

Next ==
  \/ Tick \/ Minute \/ Signal \/ GraceExpires
  \/ \E j \in Jobs : ChildExits(j)

\* Timers fire, time passes, and a child exits if timeoutMinutes bounds it: one without a timeout may
\* run for ever, and a signal may never come.
Fairness ==
  /\ WF_vars(Tick) /\ WF_vars(Minute) /\ WF_vars(GraceExpires)
  /\ \A j \in Jobs \ Untimed : WF_vars(ChildExits(j))

Spec == Init /\ [][Next]_vars /\ Fairness

----------------------------------------------------------------------------
(* Properties *)

\* "No overlap, ever, per job" (docs/orchestrator-recipe.md): one child at most, none while a retry
\* is pending, and the job is occupied for exactly the span of its retry chain.
NoOverlap ==
  \A j \in Jobs :
    /\ job[j].children <= 1
    /\ job[j].pendingRetryAt # None => job[j].children = 0
    /\ job[j].running <=> job[j].children = 1 \/ job[j].pendingRetryAt # None

\* No wake is ever missed: while the daemon is on, one timer is armed, for nothing later than any
\* job's next occurrence or retry, and it fires by then or at once.
TimerCovers ==
  mode = "on" =>
    /\ timer # None
    /\ \A wake \in Wakes(job) : timer.armedFor <= wake
    /\ timer.firesAt <= 0 \/ timer.firesAt <= timer.armedFor

\* The slot an occurrence was drawn for, for a jitter below the period.
SlotOf(j, rt, time) == rt.nextScheduledAt - ((time + rt.nextScheduledAt) % Period[j])

\* "Drift-free scheduling": however late the daemon is and however long a run took, each occurrence
\* is followed by that of the very next cron slot; none vanishes and none is served twice.
SlotsServedInTurn ==
  [][\A j \in Jobs :
       job'[j].nextScheduledAt > job[j].nextScheduledAt =>
         SlotOf(j, job'[j], now') = SlotOf(j, job[j], now) + Period[j]]_vars

\* Shutdown ends within the grace, and leaves no child that was neither awaited nor signalled.
ShutdownEnds ==
  []<>(mode # "on" => mode = "stopped" /\ \A j \in Jobs : job[j].children > 0 => j \in killed)
=============================================================================
