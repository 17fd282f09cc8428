------------------------------ MODULE Session ------------------------------
(***************************************************************************)
(* The live session: api/session.py with the simulator it drives           *)
(* (engine/simulation/simulator.py) and the server's background loop,      *)
(* composed with Scheduler.  A scenario gives the pool its first jobs and  *)
(* a script; ticks move the simulated clock, execute what is due, take     *)
(* back what was not answered in time and ask about elapsed estimates;     *)
(* meanwhile users and administrators call the session's handlers.         *)
(*                                                                         *)
(* A tick or a handler is a sequence of calls on the scheduler, and no     *)
(* other handler runs before it returns.  `agenda' holds the calls it has  *)
(* still to make; an exception drops them.                                 *)
(***************************************************************************)
EXTENDS Scheduler, SequencesExt

CONSTANTS
  Scenarios,  \* the registered scenarios: records with fields seed, queued, urgent, script
  OnDemand,   \* the jobs that requests and manual assignments may create
  Grace,      \* no_response_grace_period
  Horizon,    \* where the clock stops (a bound)
  Parked,     \* the GPUs that may fail or be parked in a scenario (a bound)
  Strides,    \* how far one tick may move the clock
  Monitored,  \* the scenarios during which real hardware is enabled (a bound)
  NoScenario  \* before the first load

(* The calls a tick or a handler makes, apart from the readings of single  *)
(* GPUs, which the agenda names by the GPU.                                *)
Task == {"pass", "script", "scriptPass", "grace", "reclaimed", "poll", "estimates"}

(* An action of a script: when it is due, what it does, to which job or    *)
(* GPU.                                                                    *)
ScriptAction == [at : 0..Horizon, do : {"add", "complete"}, of : Jobs]
                  \cup [at : 0..Horizon, do : {"reading", "yes", "no"}, of : GPUs]

ASSUME SessionAssumption ==
  /\ Grace \in Nat \ {0}
  /\ Horizon \in Nat
  /\ Strides \in SUBSET (Nat \ {0})
  /\ OnDemand \in SUBSET Jobs
  /\ Parked \in [Scenarios -> SUBSET GPUs]
  /\ NoScenario \notin Scenarios
  /\ Monitored \in SUBSET Scenarios
  /\ GPUs \cap Task = {}
  /\ \A s \in Scenarios :
       /\ s.seed \in [GPUs -> Jobs \cup {NoJob}]
       /\ s.queued \in SUBSET Jobs
       /\ s.urgent \in SUBSET {j \in Jobs : j \in s.queued \/ \E g \in GPUs : s.seed[g] = j}
       /\ s.script \in Seq(ScriptAction)
       /\ \A g \in GPUs : s.seed[g] \notin s.queued \cup OnDemand
       /\ \A j \in Jobs : Cardinality({g \in GPUs : s.seed[g] = j}) <= Count[j]
       /\ \A i \in 1..Len(s.script), k \in 1..Len(s.script) :
            i < k => s.script[i].at <= s.script[k].at
       /\ \A i \in 1..Len(s.script) : s.script[i].at = 0 => s.script[i].do \in {"add", "reading"}

VARIABLES
  scenario,  \* simulator.scenario
  running,   \* SimulationSession.running
  clock,     \* simulator.clock
  next,      \* the next action of the script (_next_action_index)
  poller,    \* _hardware_poller: none, or one that feeds the live scheduler or
             \* a stale one
  raisedAt,  \* _GPUWatch.prompted_at of a pending prompt
  agenda     \* the calls the tick or handler in progress has still to make

control == <<scenario, running, clock, next, poller>>

sessionVars == <<vars, control, raisedAt, agenda>>

Idle == agenda = <<>> /\ scenario # NoScenario

Doing(task) == agenda # <<>> /\ Head(agenda) = task

Then(tasks) == agenda' = tasks \o Tail(agenda)

(* A prompt raised in this step is raised at `now'; one that is not new    *)
(* keeps its time.  Those of `replaced' are new even if they look the same.*)
Stamp(now, replaced) ==
  raisedAt' = [g \in GPUs |->
                 IF prompt'[g] = NoPrompt THEN 0
                 ELSE IF prompt'[g] = prompt[g] /\ g \notin replaced THEN raisedAt[g] ELSE now]

(* The time of a reading of real hardware: the wall clock, long after any  *)
(* simulated time.                                                         *)
Wall == Horizon + Grace

TimedOut(g, now) == prompt[g] # NoPrompt /\ now >= raisedAt[g] + Grace

-----------------------------------------------------------------------------
(* Simulator.reset: a new scheduler, the scenario's jobs, a first pass.    *)

(* A RUNNING job of the scenario is written into the records directly;     *)
(* UserGPUIndex does not hear of it.                                       *)
Boot(s) ==
  LET seeded == {s.seed[g] : g \in GPUs} \ {NoJob}
      Held(j) == {g \in GPUs : s.seed[g] = j}
  IN [gpuStatus |-> [g \in GPUs |-> IF s.seed[g] = NoJob THEN "IDLE" ELSE "ACTIVE"],
      assignedJob |-> s.seed,
      assignedUser |-> [g \in GPUs |-> IF s.seed[g] = NoJob THEN NoUser ELSE Owner[s.seed[g]]],
      jobStatus |-> [j \in Jobs |-> CASE j \in seeded -> "RUNNING"
                                      [] j \in s.queued -> "WAITING"
                                      [] OTHER -> "NEW"],
      jobGpus |-> [j \in Jobs |-> Held(j)],
      critical |-> s.urgent,
      userGpus |-> [u \in Users |-> {g \in GPUs : \E j \in seeded : g \in Held(j) /\ Owner[j] = u}],
      runningJobs |-> [u \in Users |-> {j \in seeded : Owner[j] = u}],
      userIndex |-> [u \in Users |-> {}],
      fifo |-> [j \in Jobs |-> IF j \in s.queued THEN 1 ELSE 0],
      prompt |-> [g \in GPUs |-> NoPrompt],
      declined |-> [g \in GPUs |-> {}],
      cooldown |-> {}]

BootInto_IndexKept(s) ==
  /\ Become(Boot(s))
  /\ scenario' = s
  /\ running' = FALSE
  /\ clock' = 0
  /\ poller' = IF poller = "none" THEN "none" ELSE "stale"
  /\ next' = next
  /\ raisedAt' = [g \in GPUs |-> 0]
  /\ agenda' = <<"pass", "script">>

BootInto(s) ==
  /\ Become(Boot(s))
  /\ scenario' = s
  /\ running' = FALSE
  /\ clock' = 0
  /\ poller' = IF poller = "none" THEN "none" ELSE "stale"
  /\ next' = 1
  /\ raisedAt' = [g \in GPUs |-> 0]
  /\ agenda' = <<"pass", "script">>

LoadScenario(s) ==
  /\ agenda = <<>>
  /\ poller = "none" \/ s \in Monitored
  /\ BootInto(s)

Reset == Idle /\ BootInto(scenario)

-----------------------------------------------------------------------------
(* Time: a tick of the background loop or a manual step.                   *)

Later(k) == IF clock + k < Horizon THEN clock + k ELSE Horizon

Polls == IF poller = "none" THEN <<>> ELSE <<"poll">>

Advance_NoGrace(k) ==
  /\ clock' = Later(k)
  /\ agenda' = <<"script">> \o Polls \o <<"estimates">>
  /\ UNCHANGED <<vars, scenario, running, next, poller, raisedAt>>

Advance(k) ==
  /\ clock' = Later(k)
  /\ agenda' = <<"script", "grace">> \o Polls \o <<"estimates">>
  /\ UNCHANGED <<vars, scenario, running, next, poller, raisedAt>>

Step(k) == Idle /\ Advance(k)

BackgroundTick(k) == Idle /\ running /\ Advance(k)

-----------------------------------------------------------------------------
(* The calls a tick or handler makes.                                      *)

Due_Strictly == next <= Len(scenario.script) /\ scenario.script[next].at < clock

Due == next <= Len(scenario.script) /\ scenario.script[next].at <= clock

(* respond needs a pending prompt, complete_job a running job.             *)
Raises(act) ==
  \/ act.do \in {"yes", "no"} /\ prompt[act.of] = NoPrompt
  \/ act.do = "complete" /\ jobStatus[act.of] # "RUNNING"

Execute(act) ==
  \/ act.do = "add" /\ \E isCritical \in Levels(act.of) : SubmitJob(act.of, isCritical)
  \/ act.do = "yes" /\ RespondYes(act.of)
  \/ act.do = "no" /\ RespondNo(act.of)
  \/ act.do = "complete" /\ CompleteJob(act.of)

(* record_utilization: a prompt that timed out takes the GPU, without an   *)
(* allocation; otherwise the reading may complete the breach of a tier.    *)
RecordUtilization(g, now) ==
  IF TimedOut(g, now) THEN CheckTimeout(g) ELSE RaisePrompt(g) \/ UNCHANGED vars

(* _process_due_actions, one action of the script at a time.               *)
RunScript ==
  /\ Doing("script")
  /\ Due
  /\ LET act == scenario.script[next] IN
     \/ /\ Execute(act)
        /\ Stamp(act.at, {})
        /\ Then(<<"scriptPass", "script">>)
        /\ UNCHANGED control
     \/ /\ act.do = "reading"
        /\ RecordUtilization(act.of, act.at)
        /\ Stamp(act.at, {})
        /\ Then(<<"script">>)
        /\ next' = next + 1
        /\ UNCHANGED <<scenario, running, clock, poller>>
     \/ /\ Raises(act)
        /\ agenda' = <<>>
        /\ UNCHANGED <<vars, control, raisedAt>>

ScriptPass ==
  /\ Doing("scriptPass")
  /\ TryAllocateAll
  /\ Stamp(scenario.script[next].at, {})
  /\ Then(<<>>)
  /\ next' = next + 1
  /\ UNCHANGED <<scenario, running, clock, poller>>

ScriptPause ==
  /\ Doing("script")
  /\ ~Due
  /\ Then(<<>>)
  /\ UNCHANGED <<vars, control, raisedAt>>

Pass ==
  /\ Doing("pass")
  /\ TryAllocateAll
  /\ Stamp(clock, {})
  /\ Then(<<>>)
  /\ UNCHANGED control

TakeOverdue_NoPass ==
  /\ Doing("grace") \/ Doing("reclaimed")
  /\ \E g \in GPUs : TimedOut(g, clock) /\ CheckTimeout(g)
  /\ Stamp(clock, {})
  /\ Then(<<"grace">>)
  /\ UNCHANGED control

(* check_reclamation_timeouts: the overdue prompts, one GPU after another; *)
(* a pass follows only if there was one.                                   *)
TakeOverdue ==
  /\ Doing("grace") \/ Doing("reclaimed")
  /\ \E g \in GPUs : TimedOut(g, clock) /\ CheckTimeout(g)
  /\ Stamp(clock, {})
  /\ Then(<<"reclaimed">>)
  /\ UNCHANGED control

NoneOverdue ==
  /\ Doing("grace") \/ Doing("reclaimed")
  /\ \A g \in GPUs : ~TimedOut(g, clock)
  /\ Then(IF Doing("reclaimed") THEN <<"pass">> ELSE <<>>)
  /\ UNCHANGED <<vars, control, raisedAt>>

(* _poll_real_hardware and poll_once: readings of the GPUs the monitor     *)
(* sees, none if it is unavailable, then the timeouts and a pass in any    *)
(* case.  Another error of the monitor, or a poller that is disabled       *)
(* between test and use, is an exception.                                  *)
Poll ==
  /\ Doing("poll")
  /\ \/ poller = "stale" /\ Then(<<>>)
     \/ poller = "live" /\ \E seen \in SUBSET GPUs : Then(SetToSeq(seen) \o <<"reclaimed">>)
     \/ agenda' = <<>>
  /\ UNCHANGED <<vars, control, raisedAt>>

(* feed_metrics, one GPU after another.  The reading that raised a prompt  *)
(* and this one may be a grace period apart.                               *)
FeedMetrics ==
  /\ agenda # <<>> /\ Head(agenda) \in GPUs
  /\ LET g == Head(agenda)
     IN RecordUtilization(g, Wall) \/ (raisedAt[g] = Wall /\ CheckTimeout(g))
  /\ Stamp(Wall, {})
  /\ Then(<<>>)
  /\ UNCHANGED control

AskOverdueJobs ==
  /\ Doing("estimates")
  /\ \E overdue \in SUBSET Jobs : CheckEstimatedCompletions(overdue)
  /\ Stamp(clock, {})
  /\ Then(<<>>)
  /\ UNCHANGED control

Work == RunScript \/ ScriptPass \/ ScriptPause \/ Pass \/ TakeOverdue \/ NoneOverdue
        \/ Poll \/ FeedMetrics \/ AskOverdueJobs

-----------------------------------------------------------------------------
(* The handlers of the session.                                            *)

StartOrPause(on) ==
  /\ Idle
  /\ running' = on
  /\ UNCHANGED <<vars, scenario, clock, next, poller, raisedAt, agenda>>

(* A new poller, for the scheduler of now.  The two handlers run in a      *)
(* thread of their own; but for the exception of Poll, it is as if they    *)
(* came before the tick or after it.                                       *)
EnableRealHardware ==
  /\ Idle
  /\ scenario \in Monitored
  /\ poller' = "live"
  /\ UNCHANGED <<vars, scenario, running, clock, next, raisedAt, agenda>>

DisableRealHardware ==
  /\ Idle
  /\ poller' = "none"
  /\ UNCHANGED <<vars, scenario, running, clock, next, raisedAt, agenda>>

(* The operation, then the calls of `tasks'.                               *)
Handle(operation, replaced, tasks) ==
  /\ operation
  /\ Stamp(clock, replaced)
  /\ agenda' = tasks
  /\ UNCHANGED control

RespondToPrompt(g) == Idle /\ Handle(RespondYes(g) \/ RespondNo(g), {}, <<"pass">>)

SubmitUserRequest(j) ==
  /\ Idle
  /\ j \in OnDemand
  /\ \E isCritical \in Levels(j) : Handle(SubmitJob(j, isCritical), {}, <<"pass">>)

(* The handlers that are one operation of the scheduler, which ends with   *)
(* its own pass if it needs one.                                           *)
Administer ==
  /\ Idle
  /\ \/ \E g \in GPUs : \E j \in OnDemand : Handle(ManualAssignGpu(g, j, FALSE), {}, <<>>)
     \/ \E j \in Jobs : Handle(CancelJob(j), {}, <<>>)
     \/ \E j \in Jobs : \E isCritical \in Levels(j) : Handle(ChangeJobPriority(j, isCritical), {}, <<>>)
     \/ \E g \in GPUs : Handle(ForceReclaim(g), {g}, <<>>)
     \/ \E g \in Parked[scenario] : Handle(SetGpuMaintenance(g) \/ ClearGpuMaintenance(g), {}, <<>>)
     \/ \E g \in Parked[scenario] : Handle(HandleGpuFailure(g) \/ RecoverGpuFailure(g), {}, <<>>)

(* Time also ends cooldowns.                                               *)
CooldownOver ==
  /\ Idle
  /\ \E g \in GPUs : CooldownEnds(g)
  /\ UNCHANGED <<control, raisedAt, agenda>>

-----------------------------------------------------------------------------
SessionInit ==
  /\ Init
  /\ scenario = NoScenario
  /\ running = FALSE
  /\ clock = 0
  /\ next = 1
  /\ poller = "none"
  /\ raisedAt = [g \in GPUs |-> 0]
  /\ agenda = <<>>

SessionNext ==
  \/ Work
  \/ \E k \in Strides : Step(k) \/ BackgroundTick(k)
  \/ \E s \in Scenarios : LoadScenario(s)
  \/ Reset
  \/ \E on \in BOOLEAN : StartOrPause(on)
  \/ \E g \in GPUs : RespondToPrompt(g)
  \/ \E j \in Jobs : SubmitUserRequest(j)
  \/ Administer
  \/ EnableRealHardware \/ DisableRealHardware
  \/ CooldownOver

(* A call in progress returns.  While the session runs the background loop *)
(* wakes up again and again, whatever a tick raised; the event loop serves *)
(* what is ready in turn, so requests, however many, do not starve it.     *)
SessionSpec ==
  /\ SessionInit
  /\ [][SessionNext]_sessionVars
  /\ WF_sessionVars(Work)
  /\ SF_sessionVars(\E k \in Strides : BackgroundTick(k))

-----------------------------------------------------------------------------
(* The properties.                                                         *)

(* The session's variables have the types of the fields they model, and    *)
(* the script's index stays in the script.                                 *)
SessionTypeOK ==
  /\ scenario \in Scenarios \cup {NoScenario}
  /\ running \in BOOLEAN
  /\ clock \in 0..Horizon
  /\ next \in 1..(IF scenario = NoScenario THEN 1 ELSE Len(scenario.script) + 1)
  /\ poller \in {"none", "live", "stale"}
  /\ raisedAt \in [GPUs -> 0..Horizon \cup {Wall}]
  /\ agenda \in Seq(Task \cup GPUs)

(* When no tick and no handler is in progress, a GPU is not free while a   *)
(* job waits, whatever mix of ticks, script, answers and administration    *)
(* came before: each of them ends with every pass it owes (the docstring   *)
(* of Simulator.advance).                                                  *)
NoIdleWait == Idle => Available(World) = {} \/ WaitingInFifo(World) = {}

(* Between ticks no pending prompt is older than the grace period, if the  *)
(* last tick got through its script: no path raises a prompt after the     *)
(* check of the timeouts, or with a time that is already over.             *)
NoOverduePrompt ==
  Idle /\ ~Due => \A g \in GPUs : prompt[g] # NoPrompt => clock < raisedAt[g] + Grace

(* A session that runs from some time on comes to the end of its script,   *)
(* or to an action of it that raises.                                      *)
ScriptIsRun ==
  <>[]running => []<>(Idle /\ (next > Len(scenario.script) \/ Raises(scenario.script[next])))

-----------------------------------------------------------------------------
(* What the documents say, and the code does not do.                       *)

(* An exception in a tick does not stop the session for good (the          *)
(* docstring of _background_loop): what is due is executed sooner or later.*)
BadTickIsSurvived == <>[]running => []<>(Idle /\ ~Due)

(* A tick takes a GPU for want of an answer only when its holder has had   *)
(* the whole grace period, by the clock that dates the question (session:  *)
(* simulated time is the only clock the engines ever see).                 *)
GraceIsGiven ==
  [][FeedMetrics \/ TakeOverdue =>
       \A g \in GPUs : prompt[g] # NoPrompt /\ prompt'[g] = NoPrompt /\ raisedAt[g] # Wall =>
         clock >= raisedAt[g] + Grace]_sessionVars

=============================================================================
