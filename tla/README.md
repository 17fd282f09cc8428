# A specification of the GPU resource allocation engine

TLA+ modules, model-checking configurations and machine-checked proofs for the
engine under `engine/` and the API that drives it. Paths below are relative to
the repository.

## 1. The system

The program is one Python process. A `SchedulerState` holds GPUs, users, jobs,
assignments and events; the engines act on it through plain method calls;
FastAPI routes and a background loop call the engines. The routes are `async`,
but none awaits between reading the state and changing it, so the scheduler's
operations are atomic with respect to each other: the concurrency is in the
**order** in which operations, answers, timeouts, failures and administrative
actions arrive, and in what is remembered between them.

| Component | State | Operations | Hard behaviour | What makes it correct |
|---|---|---|---|---|
| Domain model (`engine/models`) | status and holder of each GPU; status, GPUs and priority of each job; GPUs and running jobs of each user; events | queries, `log_event` with eviction | four records of one fact | the records agree |
| Allocation engine (`engine/allocation/engine.py`) | the waiting FIFO, `UserGPUIndex`, a heap of free GPUs | submit, select, commit, release, requeue, remove | partial allocation: a job competes again while it holds GPUs; requeue after failure or preemption | a job gets no more than it asked for, waits in the queue exactly once, CRITICAL jobs go first |
| Scoring and similarity (`scoring.py`, `similarity.py`) | none | score of a job, similarity of sizes | caps, zero sizes, ties | order of the jobs, no starvation by aging |
| Reclamation engine (`engine/reclamation/engine.py`) | one `_GPUWatch` per GPU: window, pending prompt and its reason, refusals, last resolution | record a reading, raise, respond, time out, withdraw, clear | late and missing answers; a requester served elsewhere; a holder that changes under a prompt | a GPU is taken only from a holder that was asked; no question outlives its reason |
| Sustained breach (`monitor.py`, `policy.py`, `sliding_window.py`) | the readings of a GPU | add, evict, detect a tier | boundaries of the window, gaps, change of holder | only a whole tier of low readings of this holder raises a prompt |
| Router (`engine/balancing`) | none | choose a GPU for a job, detect imbalance | a stale notion of free | only an IDLE, unassigned GPU is chosen |
| Scheduler (`engine/scheduler.py`) | the engines above, traces | the seventeen operations of section 2 | each operation updates many records and most end with an allocation pass that may serve anybody | all of the above, across any sequence of operations |
| Data structures (`engine/dsa`) | lists, queue, stack, hash map, heaps | insert, remove, rebuild | keys that change inside a heap; bounded history | agree with bags and sequences |
| Consistency checker (`engine/consistency.py`) | none | compare all records | a record one path forgets, found only in the states a test happens to visit | it never complains |
| Simulator (`engine/simulation`) | clock, script, index into it | advance, execute, reset | an action that raises; a timeout inside a tick; step size | no GPU stays idle while a job waits |
| Hardware poller (`engine/hardware`) | health, the scheduler it feeds | poll | failures of the monitor; a scheduler that was replaced; two clocks | a poll that fails loses no timeout and no pass |
| API session (`api/session.py`) | simulator, poller, event cursor | one handler per route | order of calls inside a handler, reset under a poller | handlers leave no work undone |
| API routes and streams (`api/app.py`) | connections | broadcast state, broadcast events | awaits inside a broadcast; answers without a prompt id | every change is shown, no event is sent twice or lost |
| Serializers, schemas, auth, web console, demo program | tokens; none | - | - | not modelled: views, validation and display |

Interactions: a route calls a session handler, which calls `Scheduler`; the
scheduler calls the allocation engine and the router in
`try_allocate_all`, then the reclamation engine to ask holders for GPUs; the
reclamation engine, when a holder gives a GPU up, calls back into the
allocation engine (release, requeue). The background loop advances the
simulated clock, which executes scripted actions, polls hardware, and checks
timeouts and estimates.

## 2. The modules

| Module | What it is |
|---|---|
| `Scheduler` | the orchestrator with the state-changing parts of the engines it drives; its properties |
| `Consistency` | the complaints of the code's own diagnostic, in a state of `Scheduler` |
| `GPULeases` | the abstract specification: what the scheduler promises about lending and taking back GPUs |
| `MCScheduler` | small instances for TLC |
| `ReclamationWatch` | the watch the reclamation engine keeps on one GPU, with time and readings |
| `MCReclamationWatch` | small instances of it |
| `Session` | the simulator, the session's handlers and the background loop, composed with `Scheduler` |
| `MCSession` | small scenarios for it |
| `SelectionPolicy` | which waiting job gets the next free GPU, with exact scores and time |
| `MCSelectionPolicy` | small instances of it: a LOW job against a stream of HIGH ones |
| `Streams` | the connections of the two push streams and the broadcasts of the loop and the handlers |
| `MCStreams` | a small instance of it |
| `SchedulerProofs` | the inductive invariant; the state invariants for all constants |
| `SchedulerSteps` | the action properties and the refinement of `GPULeases` for all constants |
| `ReclamationWatchProofs` | the safety properties of the watch for all constants |
| `SelectionPolicyProofs` | the safety properties of the selection policy for all constants |
| `SessionProofs` | the invariants of a session, when it serves its queue, and that `Scheduler`'s hold in it, for all scenarios |
| `StreamsProofs` | the invariants of the streams, and when events come in order, for all constants |

### `Scheduler`

The state is the fields the code keeps, one variable per field:

| Variable | Code |
|---|---|
| `gpuStatus`, `assignedJob`, `assignedUser` | `GPU.status`, `.assigned_job_id`, `.assigned_user_id` |
| `jobStatus`, `jobGpus`, `critical` | `Job.status` ("NEW" before submission), `.assigned_gpu_ids`, `.priority = CRITICAL` |
| `userGpus`, `runningJobs` | `User.assigned_gpu_ids`, `.running_job_ids` |
| `userIndex` | `UserGPUIndex` |
| `fifo` | how many entries of the waiting FIFO name a job |
| `prompt` | `_GPUWatch.prompt_pending`, `.request_context` and the tier or reason of the prompt |
| `declined`, `cooldown` | `_GPUWatch.declined_for_job_ids`; the GPUs within `preemption_cooldown` of `last_request_resolved_at` |

`prompt[g].asked` is the one field the code does not have: it remembers which
job held the GPU when the question was put, for the property
`PromptIsForHolder`. Nothing reads it.

The helpers the operations share (`Assign` for `_assign_gpu`, `Raise` for the
three ways to raise a prompt, `CancelRequests`, `Freed`, `Reclaim` for
`_reclaim`, `AllocateFrom` for `try_allocate_all`, ...) are operators from one
`World`, the record of all the variables, to the next, and an action composes
them in the order in which the code calls them. So one action is one whole
operation, the pass it ends with included. Each method of `Scheduler` that
changes state is an action: `SubmitJob`, `TryAllocateAll`, `ManualAssignGpu`,
`RaisePrompt` and `CheckTimeout` (the two outcomes of `record_utilization`, the
second also of `check_reclamation_timeouts`), `CheckEstimatedCompletions`,
`RespondYes`, `RespondNo`, `CompleteJob`, `CancelJob`, `ForceReclaim`,
`ChangeJobPriority`, `SetGpuMaintenance`, `ClearGpuMaintenance`,
`HandleGpuFailure`, `RecoverGpuFailure`. `CooldownEnds` is the passage of time.

Deliberate abstractions:

- **Time, utilization and scores are inputs.** Any prompt may time out, any
  cooldown may end, any held GPU may look underutilized, any running job's
  estimate may have elapsed. This allows every behaviour the code has, and
  more; the safety properties hold for all of them.
- **The order among jobs of the same tier and the choice of the GPU** are left
  open (`Plans`): score, FCFS order and utilization order select one of the
  plans. What is kept is the rule that CRITICAL jobs restrict the pool, that a
  job is served again until it is full, and that the pass ends only when no GPU
  is free or no job waits. A whole pass is one plan, a function from the GPUs
  it commits to jobs.
- **The requests of a pass** (`Asks`) are any set of questions the eligibility
  rules allow, at most as many per job as it still needs. The order of the
  three paths (excess capacity, priority preemption, size disparity) decides
  which of these the code sends; "contest" stands for the two paths whose loser
  is requeued. A size-disparity request needs `SizeDisparity`, the switch the
  interactive demonstration turns on.
- **A priority is CRITICAL or not** for jobs (the only level with a rule of its
  own) and a number `Rank` for users. `Urgent` bounds which jobs may become
  CRITICAL; it is a bound of the model, not of the code.
- The FIFO is a count per job: its order only breaks ties that are left open.
- The job of `manual_assign_gpu` is a job that asks for one GPU and has not
  been submitted.
- Timeouts are taken one GPU at a time, also when `check_timeouts` finds
  several: each `_reclaim` is complete before the next begins, and no other
  operation could tell.
- Not in this module: the assignments list and its history, events, traces,
  the free-GPU heap (which the scheduler's own path never reads), readings
  that the router rejects as invalid, `undo_last_reclaim`, `remove_gpu`.

### `Consistency`

`check_consistency`, check for check: the set of its complaints in a state of
`Scheduler`, each a pair of a check and a culprit. The property `Consistent` says
that the set is empty, which is what the tests assert between operations
(`assert_consistent`). Checks that no operation can affect are left out: that ids
are the keys of their records, that users are registered, that
`gpus_still_needed` computes what it is defined as.

### `GPULeases`

What anyone who holds a GPU may rely on. A GPU is free, held, asked for or out.
Serving the queue lends free GPUs and puts or withdraws questions but ends no
loan; a loan ends when its holder was asked (`Yield`), when its job is over
(`Finish`), or, for one GPU at a time, by an administrator (`Override`) or a
failure (`Fail`). The detailed specification implements it under the mapping
`LeaseView`, although one operation of the code takes a GPU back, requeues its
job, lends the GPU to another and questions third parties in a single step.

### `ReclamationWatch`

`Scheduler` lets any prompt time out and any held GPU look idle. This module
looks at one GPU and puts the time back: the readings, the sliding window, the
two tiers, and every timestamp of `_GPUWatch`.

| Variable | Code |
|---|---|
| `holder` | `GPU.assigned_job_id` |
| `watched` | whether `_watches` has an entry for the GPU |
| `window` | the readings of `UtilizationSlidingWindow`, by age |
| `confirmed`, `since`, `asked`, `resolved` | the ages of `confirmed_at`, `holder_since`, `prompted_at`, `last_request_resolved_at` |
| `tracked` | `tracked_job_id` |
| `prompt` | `prompt_pending`, `prompt_tier`, `request_context` |
| `declined` | `declined_for_job_ids` |
| `phase` | how long ago the last reading was taken |
| `claimed` | not in the code: how long ago the holder got the GPU or said YES; the properties compare the engine's clocks with it, nothing reads it |

A timestamp is represented by its age, so `Tick` adds one to every clock and
moves the readings in the window; several operations may happen at one instant.
`RecordUtilization` is `record_utilization` with `_evaluate` in it: a timeout, or
nothing while a prompt is pending, or the baseline of the holder and the check
of the tiers. `PromptForJobCompletion`, `RequestGpu`, `WithdrawRequests`,
`RespondYes`, `RespondNo` and `CheckTimeout` are the engine's other entry points.
`Release` and `AssignGpu` are what the rest of the scheduler does to the GPU: the
paths that free it call `clear_watch_for_gpu`, those that lend it tell the watch
nothing. Utilization is one of three levels, cut at the two thresholds. The
interval between readings is any member of `Gaps`.

The clock of the readings and that of the prompts are one. The code lets them
differ when readings come from real hardware; that is in `Session`.

### `Session`

`Scheduler` lets its operations come in any order and at any time. This module
says which sequences the running program makes, and puts time and the end of a
handler into the model. It extends `Scheduler`, so its state is the scheduler's
and:

| Variable | Code |
|---|---|
| `scenario`, `clock`, `next` | `Simulator.scenario`, `.clock`, `._next_action_index` |
| `running` | `SimulationSession.running` |
| `poller` | `_hardware_poller`: none, "live" if it feeds the scheduler in use, "stale" if one that a load or reset replaced |
| `raisedAt` | `_GPUWatch.prompted_at` of a pending prompt |
| `agenda` | the calls the tick or handler in progress has still to make; an exception drops them |

`LoadScenario` and `Reset` build a new scheduler (`Boot`) with the jobs the
scenario starts from, then run the first pass and what is due at time 0.
`Advance`, shared by `Step` and `BackgroundTick`, moves the clock and puts
`_process_due_actions`, the check of the timeouts and the check of the estimates
on the agenda. `RunScript` is one scripted action: submission, answer and
completion are followed by a pass at the time the action was due (`ScriptPass`),
a reading is not, and one that raises drops the rest of the tick and leaves the
index where it is. `TakeOverdue` and `NoneOverdue` are the check of the timeouts,
which owes a pass only if it took a GPU. The handlers are `RespondToPrompt`,
`SubmitUserRequest`, `StartOrPause` and, in `Administer`, those that are one
operation of the scheduler. A handler starts only when the agenda is empty: a
route does not await inside its call of the session.

A reading may or may not complete a breach, any running job's estimate may have
elapsed, and a tick may move the clock by any of `Strides` (the speed and the
step size): what time decides here is the script and the grace period.

With real hardware a tick polls between the timeouts and the estimates. `Poll`
reads any GPUs, none, or raises: `poll_once` catches only
`MonitorUnavailableError`. `FeedMetrics` is one reading, dated by the wall clock;
`Wall` stands for it as a time later than any simulated one, as the scenarios
start on 1 January 2026 and the session's clock stays behind. Then come the
timeouts and a pass in any case. What a stale poller does to its old scheduler
is not kept. The two hardware handlers run in a thread of their own; but for the
poller that disappears between test and use, which is one of the exceptions of
`Poll`, that makes no difference to the tick.

### `SelectionPolicy`

`Scheduler` leaves open which plan a pass chooses. This module says it: the
pool, the similarity of the sizes, FCFS order, and the score as the code
computes it. Around `Selected` it puts the life of the jobs, since what a score
means depends on what happens to `submitted_at` and `started_at` when a job
fails, is contested, or holds a part of what it asked for.

| Variable | Code |
|---|---|
| `status` | `Job.status`; "NEW" before submission and when the job is over |
| `held` | `len(Job.assigned_gpu_ids)` |
| `ahead` | the order of the waiting FIFO |
| `queued`, `ran` | the time since `submitted_at`, the part spent WAITING and the part spent RUNNING |
| `waitedFor` | `started_at - submitted_at` |
| `free`, `out` | how many GPUs are available, how many UNAVAILABLE |
| `failures` | not in the code: how many GPUs failed so far, to bound them |

`SelectNext` serves one GPU, so a pass is a run of such steps; every other
action waits until the pass is over (`Settled`). The engine's floating-point
scores are integers here: hundredths of a point, times the spread of the sizes,
so that the division of `normalize` disappears. A tie of two scores in the
code's floats may differ from one in exact arithmetic by the last bit; no
property depends on who wins a tie beyond `submitted_at`.

The code has two priorities, and so has the module. `Priority` is the job's: the
score and the CRITICAL tier read it. `UserPriority` is that of the job's user:
the tier gate of a preemption (`Preempts`) compares those of the two users. They
differ when a request names its own priority (its user is then registered as
MEDIUM), in the scenario `full_lifecycle`, and after `change_job_priority`.

Some of what is left out makes the module allow more: which GPU is chosen, the
cooldown and the refusals (`MayContest`), and the remaining size of a holder
(a size contest compares the whole estimate). Some makes it allow less. A
priority does not change, so nobody is promoted while it waits. And a question is
answered while its grounds stand; the code does not look at them again, so it
also takes a GPU for a requester that has started over, ended or been demoted
since it asked. `Scheduler` has those answers, without the scores; the properties
of contests here are about contests that still stand. A job that is over makes
room for the next of its kind, so a few jobs are an endless stream of arrivals.

### `Streams`

The server is one event loop. A handler or the background loop changes the
session, then broadcasts a snapshot to every viewer, pops the new events, and
broadcasts them to every listener; it gives the event loop up only where a send
has to wait for its client. There another task may run a whole command and
broadcast over the first.

| Variable | Code |
|---|---|
| `version` | not in the code: counts the changes of the session, and stands for its state |
| `running` | `SimulationSession.running` |
| `logged`, `floor` | the events logged so far, and how many of them are no longer in `SchedulerState.events`: replaced with it, or cut |
| `cursor` | `_last_broadcast_event` |
| `gone` | not in the code: the events that left the log, or counted as sent, before they were popped |
| `viewers`, `listeners` | the two `ConnectionManager`s |
| `link` | what the socket of a client does: new, open, stalled, closed |
| `since` | not in the code: the last event logged when a listener connected |
| `got` | what a client was sent, in order |
| `active` | the task the event loop runs |
| `phase`, `left`, `turn`, `batch`, `due`, `dead`, `payload` | of each task: which broadcast it is in, the clients still to serve, the one it serves, what is broadcast, what that one is still to be sent, the failed connections, the snapshots already made per kind of viewer |

The order in which a broadcast serves its clients is left open. Left out: ticks
that raise (they are in `Session`), what a snapshot contains, the routes that
only read and those of the hardware, which run in a thread pool.

### The properties

| Property | It says | What it guards against |
|---|---|---|
| `TypeOK` | types | a status the code has no name for |
| `Ownership` | GPU, job, user and index agree on the holder | one of the five release paths forgetting a record |
| `StatusAgrees` | ACTIVE or IDLE_WARNING exactly when held, IDLE_WARNING exactly when a prompt is pending | a prompt left on a freed GPU; a warning left after a withdrawn prompt |
| `JobSizes` | no job above its request; RUNNING holds some, WAITING not all, finished none | a pass that counts a partial job's need wrongly |
| `QueueAgrees` | a waiting job is queued exactly once | double requeue after failure and preemption; a preempted job that is lost |
| `PromptIsForHolder` | a pending prompt asks the present holder | a question that falls on the next holder |
| `NoThrashing` | no pending request by a refused requester, in a cooldown, or between GPUs of one user | a GPU asked for again at once |
| `CriticalFirst` | no step lends to an ordinary job and leaves a CRITICAL one waiting | a requeued CRITICAL job overtaken in the same pass |
| `OverIsOver` | COMPLETED and RECLAIMED are final | late cancellation, answer or failure |
| `Consistent` | the code's own diagnostic has no complaint | a record that only the diagnostic compares |
| `LeaseContract` | the refinement | a GPU taken unasked, or lent twice |
| `EvidenceIsOfHolder` | the readings counted against a holder date from its own tenure and after its last YES | idle time or another job's readings held against whoever gets the GPU next |
| `PromptIsEarned` | a tier's prompt comes after the tier's whole duration of one claim | a timer that YES or a new holder does not reset |
| `ReclaimIsEarned` | a timeout spares a holder younger than the grace period | a grace period that started under another holder |
| `PromptIsResolved` | no prompt is pending for ever | a kind of prompt that no timeout treats |
| `NoIdleWait` | between calls, no GPU is available while a job waits | a handler, a tick or an action that frees a GPU or adds a job and forgets the pass |
| `NoOverduePrompt` | between calls, unless a scripted action stands in the way, no pending prompt is past its grace period | a prompt raised after the check, or with the past time of a scripted action |
| `ScriptIsRun` | a session that keeps running executes its whole script, unless an action raises | an action skipped, or executed only strictly after it is due; a load that keeps the old index |
| `LowIsNoticed` | a holder that stays low is asked again and again | a window, an eviction and a tier that disagree about one boundary |
| `NoOvertaking` | no first-timer is served before one that is older, no larger and of no lower priority | the switch between FCFS and score, and the ties of either, reversing all three at once |
| `FullyAgedFirst` | a first-timer with the whole aging bonus goes before the jobs of the last ten minutes of its tier | a cap or a rate that leaves a priority and size out of the bonus's reach |
| `NoWinBackFromBelow` | a RUNNING job preempted by one of no lower priority is not the next to be served | a requeue that keeps the age and undoes the preemption at once; a tier gate and a selection that read different priorities |
| `FirstTimersAreServed` | a job that waits for its first GPU gets one | aging that never starts, or counts too little, against a stream of better jobs |
| `NothingTwice` | no listener is sent an event twice | a cursor that is read before and moved after an await; a reset during a broadcast |
| `NothingMissed` | an event logged while a listener is connected was sent, will be, or left the log unpopped | a cut of the log, a broadcast over yesterday's connections, a batch dropped with one failed send |
| `EveryChangeShown` | when no broadcast is in progress, every viewer has been sent the state as it is | a snapshot made before a change and shared by a later broadcast |
| `ClockGoesOn` | every tick's broadcast ends | a client that never reads, or that closes while a task waits for it |

## 3. The runs

| Run | Instance | Question |
|---|---|---|
| `scheduler` | 2 GPUs, jobs `a`:1 (low user), `b`:1 and `c`:2 (high user), `b` may be CRITICAL | do all eleven properties hold under every order of operations? |
| `watch` | 2 jobs, tiers of 2 and 3 instants, grace and cooldown 1, readings at every instant | does every prompt and every timeout rest on the present holder's own conduct, is every prompt resolved, and a low holder always noticed? |
| `session` | 2 GPUs, a job of two GPUs that a scenario starts with (running, or CRITICAL and waiting) or adds by script, one of one GPU by request; grace 2, ticks of 2 up to 4; size-disparity on; a GPU may fail in one scenario, hardware is read in another | does every call leave the queue served and the prompts in time, whatever mix came before, and is the script executed? |
| `selection` | 2 GPUs, a two-GPU LOW job of 100 minutes of a MEDIUM user, two HIGH jobs of 20 minutes, one of a HIGH and one of a LOW user; contests by score and by size, one failure | does the order of service respect age, priority and size, does aging decide in the end, and is a job that waits for its first GPU served? |
| `streams` | one viewer, one listener, the loop and one request; 3 changes, 4 events, a log of 2 | is nothing sent twice or lost, every change shown, and the loop never held up for ever? |
| `cancelled_holds_nothing` | the instance of `scheduler` | section 5 |
| `bad_tick_is_survived` | the session with a scripted completion | section 5 |
| `grace_is_given` | the instance of `session` | section 5 |
| `low_is_noticed` | 1 job, tier 2 of four instants, readings every three | section 5 |
| `starvation` | 1 GPU, a LOW job of two hours, HIGH jobs of one | section 5 |
| `win_back` | 1 GPU, a CRITICAL job of an hour of a MEDIUM user, a LOW job of 20 minutes of a HIGH user | section 5 |
| `oldest_first` | the instance of `streams` | section 5 |

The bounds. Two GPUs and a two-GPU job give partial allocation, its
competition with single-GPU jobs, and a job that loses one of several GPUs;
two users with different ranks give requests in the one direction priority
preemption allows, and `session` gives both directions; three jobs let a third
party win a GPU freed by a contest of two others. Each job is submitted once,
so a behaviour has no other bound: prompts, answers, failures, recoveries and
requeues repeat without limit. GPUs are interchangeable, so TLC uses their
symmetry. No property of the `MCScheduler` runs is a liveness
property, and `Scheduler` assumes no fairness.

In `session` a prompt of time 0 is overdue at the first tick or the second, a
scripted action at 1 or 2 is executed by the tick that ends at 2, and the
completion at 4 falls due in the very tick that reaches the end of time, where
the clock stops and ticks go on. One scenario has an action of every kind but
one, another adds a job and makes a load in the middle of a longer script
possible, and a third has no script but a CRITICAL job that waits from the start.
`Parked` says which GPUs may fail or be parked in a scenario, and
`Monitored` in which scenarios hardware may be on: here `g1` may fail in the
first, and hardware is read in the second. So failures of a GPU and of the monitor are
explored each with everything else, not with each other. The readings of a
script come within the grace period of any earlier prompt: of a later reading
`NoIdleWait` is false (section 5).

For the watch, what matters is how the durations compare, not how long they
are: tier 1 below tier 2, a window of tier 2's length, a grace period and a
cooldown shorter than both, and a horizon just beyond the window, where ages
stop. With tier 2 of three instants the window holds readings of two holders
and idle time at once, which is where the baselines are needed. Two jobs are
enough for a GPU to change hands, to return to a job the watch still tracks, and
to be asked for by another. Uneven spacing of the readings is in the theorems,
which hold for any `Gaps`.

In `selection` a tick is 20 minutes, a small job is one tick and the large one
five, and the whole aging bonus is reached after 110 minutes, so within
`Horizon` of 120; beyond it no score changes. The sizes are far apart, so the
score decides; whenever only the two HIGH jobs wait, they are similar and FCFS
does. The LOW job may hold one GPU and wait for the other, lose either by
contest or failure, and start over. Its MEDIUM user is between those of the two
HIGH jobs: one of them may preempt it by score, the other it may itself preempt
when it has aged enough, and between the two HIGH jobs the users decide. What the sizes and priorities do to the
safety properties in general is proved.

In `streams` a log of two entries is cut by the third and fourth event while a
broadcast of the first may be held up, and three changes let two tasks
overtake each other twice. Events of one broadcast come up to two at a time. A
second viewer or listener multiplies the states and adds no interleaving of
the tasks, since a connection is only ever waited for by itself; that more of
either make no difference to safety is proved.

`FairSpec` of `ReclamationWatch` assumes weak fairness of time, of `check_timeouts` and of the readings.
The session's background loop advances the clock and checks timeouts at every
tick while the simulation runs, and readings come from the scenario or the
poller; a paused simulation has neither and is outside these runs. Nothing is
assumed of the holder: it need never answer. `LowIsNoticed` holds in `watch`
because a reading at every instant puts one exactly at the start of tier 2's
window; the violation run drops only that.

`SessionSpec` assumes that a call in progress returns and that the background
loop ticks while the session runs. The loop's wake-up competes with requests
for the event loop, which serves ready tasks in turn, so its fairness is strong:
however many requests come, a tick that is due again and again is made. The loop
goes on after an exception, hence also a tick that raised is followed by others.

`FairSpec` of `SelectionPolicy` assumes that a pass in progress goes on (it is a
loop), that the clock ticks again and again, that a job ends when its estimate
has elapsed, and that a failed GPU is recovered. The last two are assumptions
about the world, not the code: a job that runs for ever on the only GPU starves
any policy. `FirstTimersAreServed` is stated under them.

`FairSpec` of `Streams` assumes that a task that can run does, since the event
loop takes ready tasks in turn, and that a client that stalls again and again
reads again or is disconnected: the server's keep-alive closes a connection whose
ping is not answered. Nobody has to connect, and no command has to come.

Operators named `<definition>_<deviation>` in the five modules with runs are the definition as
a plausible mistake would have it (a record not cleared, a guard dropped, a
prompt left pending). Each passing property fails when one of them replaces the
definition; nothing else uses them.

## 4. What is proved

All eleven properties of the run `scheduler` are proved by TLAPS for every value
of the constants that satisfies `SchedulerAssumption`: any finite pool, any set
of jobs (also infinite) and users, any request sizes and ranks, with and
without size disparity.

`TypeOK` and the invariants of the run are inductive only together. `Ownership`
needs the prompts to be right (an answer frees the GPU for the job it finds
there), `StatusAgrees` needs `Ownership`, `JobSizes` needs `QueueAgrees` (a
pass serves whom it finds in the queue), and `NoThrashing` needs, beyond what
the run checks, that a request names a real job. The conjunction is
`IInv == Safe(World) /\ Orderly(World)`.

Because an operation of the code goes through states that no action exposes
(a freed GPU before the pass, a filled job before its requests are withdrawn),
the invariant is stated of a world rather than of the variables. Each helper
has a lemma (`AssignSafe`, `RaiseSafe`, `CancelRequestsSafe`, `FreedSafe`,
`AssignOrderly`, ...): from a sound world and the helper's precondition, the
resulting world is sound. `AllocateFromIInv` composes them into the pass,
`ReclaimSound`, `TakenBackSound` and `LostSound` into the three ways to lose a
GPU; then there is one lemma per action, and `NextIInv` combines them.

That `UserGPUIndex` agrees with the users' GPUs is not part of `IInv` but an
invariant of its own on top of it (`Indexed`, `NextIndexed`): a scenario starts
from running jobs the index was never told of, so in a session `IInv` holds and
`Indexed` does not. `OnlyTheIndex` says what that leaves of the diagnostic, and
`DiagnosticIsSilent` that with the index right nothing is left: the checks of
`engine/consistency.py` are implied by the invariants, after any sequence of
operations.

`SchedulerSteps` builds on it. `AllocateFromSteps` states all that a pass may
change; `NextOverIsOver`, `NextCriticalFirst` and `NextLeases` then go through
the actions. The refinement uses that a lost GPU changes one lease
(`ViewOfLoss`) and that a pass from there serves the queue (`PassServes`).
`PassesServe` is that for the operations: after each of those that end with a
pass, no GPU is available or no job waits. `CancelledSingleHoldsNothing` is what is
true of cancelled jobs: one that asked for a single GPU holds nothing, because a
job that waits with no need of a second GPU has none (`Sized`), a pass gives GPUs
to waiting jobs only, and no loss of a GPU cancels a job.

`ReclamationWatchProofs` proves the four safety properties of the run `watch`, for any
jobs, any two durations, grace period and cooldown, and any spacing of the
readings that satisfy `WatchAssumption`. `EvidenceIsOfHolder` is not inductive. A
reclaim leaves the old holder's baseline in the watch, so if the same job gets
the GPU again the watch still trusts it; what saves the job is that the reclaim
also confirmed, and no reading was counted since. That is `StaleBaseline`; with
`HolderEvidence` for a tracked holder and `PromptOfHolder` for the age of a prompt
it makes the inductive invariant. `CountedIsOfHolder` then bounds every reading
`_detect_tier` looks at, and the two action properties follow.

`SelectionPolicyProofs` proves the types and the three action properties of
`selection`, for any jobs, sizes, priorities, request sizes, pool and length of a
tick that satisfy `PolicyAssumption`. The invariant is small: `Types`, and
`Clocks`, which says that a job's waiting time is not longer than its age. What is
hard is arithmetic over products of two unknowns, the spread and the points.
`PointsDecide` settles it once: a lead of 41 points is larger than any difference
in size can be, whatever the spread. `SelectedBeats` says what it means to be
selected by either rule, and the three theorems compare two jobs by their points
or, for `NoOvertaking`, point by point. `NoWinBackFromBelow` is about
every contest by score, whatever the users' priorities: a job that is selected
must be in the same tier as its preemptor, so have as many points or almost, and
it has just lost those of its age. A job that lost by size alone may well
out-score the winner.

`StreamsProofs` proves the types and the three invariants of `streams` for any
set of viewers, listeners and requests, any length of the log and any visibility
of events. `NothingTwice` rests on `Once`: what was sent had been popped, no two
broadcasts in progress share an event, and what is owed to a listener was not
sent to it. The proof goes through the actions once, with the changes of the
session summarised (`SessionChanges`, `EveryChange`): whatever a command does to
the log, it adds events above all those in a batch. `NothingMissed` is proved with
it, and `EveryChangeShown` from `Shows`: a viewer that has not been sent the
newest version is still to be served by a task that has not made its snapshot.

`OldestFirst` is false of the streams (section 5), and two theorems say why.
`InOrderOneAtATime`: as long as no two broadcasts of events overlap, every
listener gets its events in order. The invariant is `Sorted`, that whatever is
owed is newer than whatever was sent: events are popped above everything sent,
and at a moment when nobody else owes any. `InOrderUnlessStalled`: while no
client stalls, they do not overlap, since the event loop is given up only for a
client that stalls. So a lock around the broadcast of events, or a send that does
not wait, would be enough.

`SessionProofs` is about every session: any scenarios, pool, grace period and
strides of the clock that satisfy `SessionAssumption`. Its invariant is
`SInv == IInv /\ SessionTypes /\ Ordered /\ InTime`. `Ordered` says what the list
of pending calls may look like: readings of hardware are followed by the check
of the timeouts, the script by the grace check, and nothing but the estimates
follows the poll. It is needed because a prompt may be raised, or found overdue,
by one call and is treated by a later one. `InTime` is then that no prompt is
overdue, or the check is still on the list, or an action of the script raised
before it came; with nothing on the list it is `NoOverduePrompt`. The proof
needs, of a scenario: that its script is in the order of time (the simulator
sorts it), that the jobs it runs have no more GPUs than they ask for, and that an
action at time 0 is a submission or a reading, because a load executes those
without checking the timeouts. The registered scenarios are of this kind
(`scenarios.py`).

That `IInv` is a part of `SInv` is why `Scheduler` could leave the order of
operations open: `HandlerIsNext`, `WorkIsNext` and `ControlIsNext` show that each
step of a session is one of `Scheduler`'s, and `BootSound` that a load puts a
sound world in its place. So `Scheduler`'s invariants hold in every session
(`SchedulerSound`) and between loads so do its action properties and the
refinement of `GPULeases` (`PromisesHold`). `OnlyTheIndexDisagrees`: of the
diagnostic, only the check of the index can fail there.

`NoIdleWait` is false of some sessions (section 5), and the theorems say of which.
`InHand` is that a pass is still on the list or the queue is served.
`OnlyLateReadingsIdle`: no step loses it but a scripted reading that finds its
prompt overdue (`LateReading`). Hence `NoIdleWaitUnlessLate`, for every behaviour
in which no such reading comes, and `TimelyScenariosServe`, for every set of
scenarios whose readings come earlier than the grace period. `gta5_excel`,
`ml_video`, `multiple_ml` and `interactive_demo` are such scenarios, and so are
those of the run `session`; `idle_user`, `imbalance` and `full_lifecycle`, which
have readings after the five minutes of the default policy, are not. In the same way `GraceIsGivenInSimulation` shows that the two
clocks are the only reason why `GraceIsGiven` fails: if hardware is never enabled
it holds.

Liveness (`PromptIsResolved`, `LowIsNoticed`, `ScriptIsRun`,
`FirstTimersAreServed`, `ClockGoesOn`) and ENABLED are beyond the prover and are
only model-checked, on the instances above.

## 5. Where the code and its documents disagree

Each is a run whose property is the quoted statement; TLC finds the sequence.

- `CancelledHoldsNothing`: a multi-GPU job that holds part
  of its GPUs is still WAITING, so `cancel_job` accepts it ("before it was ever
  assigned a GPU"), and it keeps them; a failure or preemption of one of them
  makes the cancelled job wait again. `CancelledSingleHoldsNothing` (section 4)
  proves that only jobs of several GPUs can do this.
- `BadTickIsSurvived`: an administrator reclaims the GPU of a job that the script
  completes later (or a user answers before the script does). The action raises,
  the index stays, and every later tick raises there again: time moves on, but no
  later action, timeout or estimate is treated.
- `LowIsNoticed`: tier 2 wants a reading at or before the start of its window,
  and the sliding window, made exactly that long, has evicted all but a reading
  of that very instant. Unless the readings fall on it, a GPU that stays at 10%
  for ever is never asked about. Tier 1 is spared, its window being shorter.
- `NoStarvation`: a job that gives its last GPU up after a contest starts over
  with `submitted_at = now`. A LOW job that is served before it has the whole
  aging bonus can be contested, requeued and contested again for ever.
- `NoWinBack`: the tier gate of a preemption reads the users' priorities, the
  selection the jobs', and a CRITICAL job is selected before any score is
  computed. An aged LOW job of a HIGH user preempts a CRITICAL job of a MEDIUM
  user; the CRITICAL job is requeued, is alone in its tier and gets the GPU back in
  the same pass. `NoWinBackFromBelowHolds` proves that only a loser of higher
  priority than its preemptor can do this.
- `GraceIsGiven`: readings of real hardware carry the wall clock, questions mostly
  the simulated one. `record_utilization` subtracts them, so a holder asked a
  moment ago is found months late and loses its GPU at the next poll.
- `OldestFirst`: while one broadcast waits for a listener in the middle of its
  batch, another sends the newer events to it.

Seen as well, most of it listed among the hazards, without a run: a scripted
reading whose GPU has an unanswered prompt at the end of its grace period takes
the GPU back inside `record_utilization`, no pass follows a reading, and the check
of the timeouts finds nothing left, so the GPU stays IDLE beside a waiting job
(`OnlyLateReadingsIdle`, section 4, proves that nothing else does this, though the
comment at `simulator.py:156` says such a reclaim "gets its own follow-up call
here"); `force_reclaim` and a
timeout leave the requests of a requester that is over; each pass asks for the
whole deficit again; FCFS decides between waiting jobs of similar size and
score alone whether a holder may be asked, so a LOW job that was served first is
asked for its GPU in the same pass; a load or reset leaves the hardware poller
with the old scheduler; a job that loses one of several GPUs leaves
`User.running_job_ids` and goes on RUNNING; `manual_assign_gpu` accepts a GPU in
MAINTENANCE or UNAVAILABLE; a job requeued after a failure keeps its
`started_at`, which freezes its age; a viewer that was slow may be sent an older
snapshot last; events that were logged and not yet popped are lost with a load; a
scenario's running jobs are put on their GPUs without telling `UserGPUIndex`, though
the docstring of that code says it sets the fields allocation would have set, so
after a load the diagnostic complains of the index, and (as proved) of nothing
else; a `ConsistencyReport` is true when nothing is wrong, as `assert_consistent`
needs, though its docstring says the opposite.

The invariants above are stated so as to hold with these behaviours, not by
excluding them: for instance `JobSizes` says nothing of the GPUs of a CANCELLED
job, `NothingMissed` excuses an event that left the log unpopped, and the
refinement lets an administrator place a job on a GPU that is out.

## 6. Plan

In this order; each with its MC module, runs, and proofs where they pay.

1. Done: `Scheduler`, `Consistency`, `GPULeases`, their runs and proofs.
2. Done: the timed watch of one GPU. Left: that it implements the untimed prompt
   of `Scheduler`, and readings whose clock is not that of the prompts.
3. Done: the selection policy with exact scores and aging, its runs and proofs.
   Left: that a pass of it is one of the plans of `Scheduler`.
4. Done: the session, with real hardware, its runs and proofs. Left: liveness of
   two jobs that each hold half; the timers of the watch under two clocks.
5. Done: the streams, their run and proofs. Left: late answers, which need the
   streams composed with the prompts.
6. The data structures against bags and sequences.
7. The request pass in its three paths, as a refinement of `Asks`.

Not planned: serializers, schemas, tokens, the NVML readers and the web
console's display, which keep no state the scheduler depends on.
