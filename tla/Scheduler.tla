----------------------------- MODULE Scheduler -----------------------------
(***************************************************************************)
(* The orchestrator of the GPU pool: engine/scheduler.py together with the *)
(* state-changing parts of the engines it drives, AllocationEngine         *)
(* (commit, waiting FIFO, user index) and ReclamationEngine (the           *)
(* ask / answer / take-back machine each GPU carries).                     *)
(*                                                                         *)
(* Every operation of the class Scheduler is one action.  The helpers the  *)
(* operations share are operators from one state of the scheduler to the   *)
(* next, composed in an action as the code calls them.  Time, utilization  *)
(* and scores are inputs here, chosen nondeterministically: which job the  *)
(* policy ranks first, which holder a request names, when a grace period   *)
(* or a cooldown ends.                                                     *)
(***************************************************************************)
EXTENDS Naturals, FiniteSets

CONSTANTS
  GPUs,          \* the GPUs of the pool
  Jobs,          \* the jobs that may ever be submitted
  Users,         \* the registered users
  Owner,         \* the user a job belongs to (Job.user_id)
  Count,         \* the GPUs a job asks for (Job.gpu_count)
  Rank,          \* the priority of a user (User.priority)
  SizeDisparity, \* whether size_disparity_ratio is set
  Urgent,        \* the jobs that may be given priority CRITICAL (a bound)
  NoJob, NoUser  \* None, for a job id and for a user id

ASSUME SchedulerAssumption ==
  /\ IsFiniteSet(GPUs)
  /\ Owner \in [Jobs -> Users]
  /\ Count \in [Jobs -> Nat \ {0}]
  /\ Rank \in [Users -> Nat]
  /\ SizeDisparity \in BOOLEAN
  /\ Urgent \in SUBSET Jobs
  /\ NoJob \notin Jobs
  /\ NoUser \notin Users

VARIABLES
  gpuStatus,     \* GPU.status
  assignedJob,   \* GPU.assigned_job_id
  assignedUser,  \* GPU.assigned_user_id
  jobStatus,     \* Job.status, "NEW" before submit_job
  jobGpus,       \* Job.assigned_gpu_ids
  critical,      \* the jobs whose priority is CRITICAL
  userGpus,      \* User.assigned_gpu_ids
  runningJobs,   \* User.running_job_ids
  userIndex,     \* the gpu ids UserGPUIndex maps a user to
  fifo,          \* how many entries of the waiting FIFO name the job
  prompt,        \* the prompt pending on a GPU (_GPUWatch)
  declined,      \* _GPUWatch.declined_for_job_ids
  cooldown       \* the GPUs inside preemption_cooldown

vars == <<gpuStatus, assignedJob, assignedUser, jobStatus, jobGpus, critical,
          userGpus, runningJobs, userIndex, fifo, prompt, declined, cooldown>>

-----------------------------------------------------------------------------
(* The data.                                                               *)

GPUStatus == {"IDLE", "ACTIVE", "IDLE_WARNING", "MAINTENANCE", "UNAVAILABLE"}

JobStatus == {"NEW", "WAITING", "RUNNING", "COMPLETED", "RECLAIMED", "CANCELLED"}

(* What a prompt asks: "usage" for a utilization tier or an elapsed        *)
(* estimate, "excess" for an underutilized GPU another job wants,          *)
(* "contest" for a priority preemption or a size-disparity request.  `by'  *)
(* is the requesting job; `asked' is the job that held the GPU when the    *)
(* prompt was raised, which the code does not keep.                        *)
NoPrompt == [kind |-> "none", by |-> NoJob, asked |-> NoJob]

Prompt == [kind : {"none", "usage", "excess", "contest"},
           by : Jobs \cup {NoJob}, asked : Jobs \cup {NoJob}]

IsRequest(p) == p.kind \in {"excess", "contest"}

(* The scheduler's whole state as one value, and the step to such a value. *)
World ==
  [gpuStatus |-> gpuStatus, assignedJob |-> assignedJob, assignedUser |-> assignedUser,
   jobStatus |-> jobStatus, jobGpus |-> jobGpus, critical |-> critical,
   userGpus |-> userGpus, runningJobs |-> runningJobs, userIndex |-> userIndex,
   fifo |-> fifo, prompt |-> prompt, declined |-> declined, cooldown |-> cooldown]

Become(w) ==
  /\ gpuStatus' = w.gpuStatus
  /\ assignedJob' = w.assignedJob
  /\ assignedUser' = w.assignedUser
  /\ jobStatus' = w.jobStatus
  /\ jobGpus' = w.jobGpus
  /\ critical' = w.critical
  /\ userGpus' = w.userGpus
  /\ runningJobs' = w.runningJobs
  /\ userIndex' = w.userIndex
  /\ fifo' = w.fifo
  /\ prompt' = w.prompt
  /\ declined' = w.declined
  /\ cooldown' = w.cooldown

-----------------------------------------------------------------------------
(* AllocationEngine: the FIFO, the choice of a job and the commit.         *)

Levels(j) == IF j \in Urgent THEN BOOLEAN ELSE {FALSE}

(* Seeded slips: an operator named after a definition and a deviation is   *)
(* the definition as a plausible mistake would have it.  Nothing uses them *)
(* but the mutation runs of PROJECT.json.                                  *)
StillNeeded(w, j) ==
  IF Cardinality(w.jobGpus[j]) < Count[j] THEN Count[j] - Cardinality(w.jobGpus[j]) ELSE 0

Available_UnlessActive(w) == {g \in GPUs : w.gpuStatus[g] \in {"IDLE", "IDLE_WARNING"}}

Available(w) == {g \in GPUs : w.assignedUser[g] = NoUser /\ w.gpuStatus[g] = "IDLE"}

WaitingInFifo(w) == {j \in Jobs : w.fifo[j] > 0 /\ w.jobStatus[j] = "WAITING"}

Enqueue(w, j) == [w EXCEPT !.fifo[j] = @ + 1]

RequeueJob_Again(w, j) == Enqueue(w, j)

RequeueJob_Never(w, j) == w

RequeueJob(w, j) == IF w.fifo[j] > 0 THEN w ELSE Enqueue(w, j)

Given(plan, j) == {g \in DOMAIN plan : plan[g] = j}

Filled_OnlyAbove(w, plan) ==
  {j \in Jobs : Given(plan, j) # {} /\ Cardinality(w.jobGpus[j] \cup Given(plan, j)) > Count[j]}

Filled(w, plan) ==
  {j \in Jobs : Given(plan, j) # {} /\ Cardinality(w.jobGpus[j] \cup Given(plan, j)) >= Count[j]}

(* _assign_gpu for each GPU of a plan, a function from GPUs to the jobs    *)
(* they go to.  The calls commute, so a whole pass is written at once.     *)
Assign(w, plan) ==
  [w EXCEPT
    !.gpuStatus = [g \in GPUs |-> IF g \in DOMAIN plan THEN "ACTIVE" ELSE @[g]],
    !.assignedJob = [g \in GPUs |-> IF g \in DOMAIN plan THEN plan[g] ELSE @[g]],
    !.assignedUser = [g \in GPUs |-> IF g \in DOMAIN plan THEN Owner[plan[g]] ELSE @[g]],
    !.jobGpus = [j \in Jobs |-> @[j] \cup Given(plan, j)],
    !.userGpus = [u \in Users |-> @[u] \cup {g \in DOMAIN plan : Owner[plan[g]] = u}],
    !.runningJobs = [u \in Users |-> @[u] \cup {j \in Jobs : Given(plan, j) # {} /\ Owner[j] = u}],
    !.userIndex = [u \in Users |-> @[u] \cup {g \in DOMAIN plan : Owner[plan[g]] = u}],
    !.jobStatus = [j \in Jobs |-> IF j \in Filled(w, plan) THEN "RUNNING" ELSE @[j]],
    !.fifo = [j \in Jobs |-> IF j \in Filled(w, plan) THEN 0 ELSE @[j]]]

-----------------------------------------------------------------------------
(* ReclamationEngine: raising, withdrawing and resolving prompts.          *)

(* The three entry points of the prompt machine: prompts for the GPUs of   *)
(* `asks', a function from GPUs to what is asked of their holders.         *)
Raise(w, asks) ==
  [w EXCEPT
    !.prompt = [g \in GPUs |-> IF g \in DOMAIN asks
                               THEN [kind |-> asks[g].kind, by |-> asks[g].by, asked |-> w.assignedJob[g]]
                               ELSE @[g]],
    !.gpuStatus = [g \in GPUs |-> IF g \in DOMAIN asks THEN "IDLE_WARNING" ELSE @[g]]]

ClearWatch_UsageOnly(w, S) ==
  [w EXCEPT !.prompt = [g \in GPUs |-> IF g \in S /\ @[g].kind = "usage" THEN NoPrompt ELSE @[g]]]

ClearWatch(w, S) == [w EXCEPT !.prompt = [g \in GPUs |-> IF g \in S THEN NoPrompt ELSE @[g]]]

RequestsOf(w, js) == {g \in GPUs : IsRequest(w.prompt[g]) /\ w.prompt[g].by \in js}

CancelRequests_StillWarning(w, js) == ClearWatch(w, RequestsOf(w, js))

(* cancel_pending_requests_for_job, for each job of js.                    *)
CancelRequests(w, js) ==
  LET withdrawn == RequestsOf(w, js) IN
  [ClearWatch(w, withdrawn) EXCEPT
    !.gpuStatus = [g \in GPUs |-> IF g \in withdrawn THEN "ACTIVE" ELSE @[g]]]

Release_IndexKept(w, S, j, u, status) ==
  [w EXCEPT
    !.gpuStatus = [g \in GPUs |-> IF g \in S THEN status ELSE @[g]],
    !.assignedJob = [g \in GPUs |-> IF g \in S THEN NoJob ELSE @[g]],
    !.assignedUser = [g \in GPUs |-> IF g \in S THEN NoUser ELSE @[g]],
    !.jobGpus = [k \in Jobs |-> IF k = j THEN @[k] \ S ELSE @[k]],
    !.userGpus = [v \in Users |-> IF v = u THEN @[v] \ S ELSE @[v]]]

(* What the release paths share: the GPUs of S leave job j and user u, in  *)
(* every record that mentions them, and end up in the given status.        *)
Release(w, S, j, u, status) ==
  [w EXCEPT
    !.gpuStatus = [g \in GPUs |-> IF g \in S THEN status ELSE @[g]],
    !.assignedJob = [g \in GPUs |-> IF g \in S THEN NoJob ELSE @[g]],
    !.assignedUser = [g \in GPUs |-> IF g \in S THEN NoUser ELSE @[g]],
    !.jobGpus = [k \in Jobs |-> IF k = j THEN @[k] \ S ELSE @[k]],
    !.userGpus = [v \in Users |-> IF v = u THEN @[v] \ S ELSE @[v]],
    !.userIndex = [v \in Users |-> IF v = u THEN @[v] \ S ELSE @[v]]]

(* The GPUs of S, given up by their holder, with no prompt left on them.   *)
Freed(w, S, j, u, status) == Release(ClearWatch(w, S), S, j, u, status)

DropRunning(w, j, u) ==
  [w EXCEPT !.runningJobs = [v \in Users |-> IF v = u THEN @[v] \ {j} ELSE @[v]]]

SetJobStatus(w, j, status) == [w EXCEPT !.jobStatus[j] = status]

(* _reclaim: the holder of g loses it after a NO or after the grace        *)
(* period.  A job left with nothing goes back to the queue if it lost a    *)
(* contest, and is RECLAIMED otherwise.                                    *)
Reclaim(w, g) ==
  LET p == w.prompt[g]
      j == w.assignedJob[g]
      u == w.assignedUser[g]
      freed == DropRunning(Freed(w, {g}, j, u, "IDLE"), j, u)
      settled == IF freed.jobGpus[j] # {} THEN freed
                 ELSE IF p.kind = "contest" THEN RequeueJob(SetJobStatus(freed, j, "WAITING"), j)
                 ELSE SetJobStatus(freed, j, "RECLAIMED")
  IN [settled EXCEPT !.cooldown = IF IsRequest(p) THEN @ \cup {g} ELSE @]

-----------------------------------------------------------------------------
(* try_allocate_all: the pass nearly every operation ends with.            *)

(* The outcomes of the select / route / commit loop.  It stops when no GPU *)
(* is free or no job waits, never gives a job more than it still needs,    *)
(* and serves others only once no CRITICAL job is waiting.                 *)
Plans(w) ==
  {plan \in UNION {[S -> WaitingInFifo(w)] : S \in SUBSET Available(w)} :
     LET Unmet(js) == {j \in js : Cardinality(Given(plan, j)) < StillNeeded(w, j)} IN
     /\ \A j \in WaitingInFifo(w) : Cardinality(Given(plan, j)) <= StillNeeded(w, j)
     /\ DOMAIN plan = Available(w) \/ Unmet(WaitingInFifo(w)) = {}
     /\ \/ \A g \in DOMAIN plan : plan[g] \in w.critical
        \/ Unmet(WaitingInFifo(w) \cap w.critical) = {}}

MayAsk_NoCooldown(w, g, r) ==
  /\ w.jobStatus[r.by] = "WAITING"
  /\ w.assignedUser[g] \notin {NoUser, Owner[r.by]}
  /\ w.assignedJob[g] # NoJob
  /\ w.prompt[g] = NoPrompt
  /\ r.by \notin w.declined[g]
  /\ r.kind = "excess" => Count[r.by] > 1

(* A request the pass may send the holder of g: _eligible_candidate, then  *)
(* the rule of its path.  Whether g is underutilized, who outscores whom   *)
(* and how long the holder still runs are observations, left open.         *)
MayAsk(w, g, r) ==
  /\ w.jobStatus[r.by] = "WAITING"
  /\ w.assignedUser[g] \notin {NoUser, Owner[r.by]}
  /\ w.assignedJob[g] # NoJob
  /\ w.prompt[g] = NoPrompt
  /\ r.by \notin w.declined[g]
  /\ g \notin w.cooldown
  /\ \/ r.kind = "excess" /\ Count[r.by] > 1
     \/ r.kind = "contest" /\ (SizeDisparity \/ Rank[w.assignedUser[g]] < Rank[Owner[r.by]])

Requests == [kind : {"excess", "contest"}, by : Jobs]

(* _request_additional_gpus_if_needed: each waiting job asks for at most   *)
(* what it still needs, whatever it has already asked for.                 *)
Asks(w) ==
  {asks \in UNION {[S -> Requests] : S \in SUBSET {g \in GPUs : \E r \in Requests : MayAsk(w, g, r)}} :
     /\ \A g \in DOMAIN asks : MayAsk(w, g, asks[g])
     /\ \A j \in Jobs : Cardinality({g \in DOMAIN asks : asks[g].by = j}) <= StillNeeded(w, j)}

Routed(w, plan) == CancelRequests(Assign(w, plan), Filled(w, plan))

AllocateFrom(w) ==
  \E plan \in Plans(w) :
    \E asks \in Asks(Routed(w, plan)) : Become(Raise(Routed(w, plan), asks))

-----------------------------------------------------------------------------
(* The operations of the class Scheduler.                                  *)

Init ==
  /\ gpuStatus = [g \in GPUs |-> "IDLE"]
  /\ assignedJob = [g \in GPUs |-> NoJob]
  /\ assignedUser = [g \in GPUs |-> NoUser]
  /\ jobStatus = [j \in Jobs |-> "NEW"]
  /\ jobGpus = [j \in Jobs |-> {}]
  /\ critical = {}
  /\ userGpus = [u \in Users |-> {}]
  /\ runningJobs = [u \in Users |-> {}]
  /\ userIndex = [u \in Users |-> {}]
  /\ fifo = [j \in Jobs |-> 0]
  /\ prompt = [g \in GPUs |-> NoPrompt]
  /\ declined = [g \in GPUs |-> {}]
  /\ cooldown = {}

(* AllocationEngine.submit_job: the job enters the state and the FIFO.     *)
Submitted(w, j, isCritical) ==
  Enqueue([SetJobStatus(w, j, "WAITING")
             EXCEPT !.critical = IF isCritical THEN @ \cup {j} ELSE @], j)

SubmitJob(j, isCritical) ==
  /\ jobStatus[j] = "NEW"
  /\ Become(Submitted(World, j, isCritical))

TryAllocateAll == AllocateFrom(World)

(* The placeholder job asks for one GPU; only GPU.is_assigned is looked at.*)
ManualAssignGpu(g, j, isCritical) ==
  /\ assignedUser[g] = NoUser
  /\ jobStatus[j] = "NEW"
  /\ Count[j] = 1
  /\ Become(Assign(Submitted(World, j, isCritical), [h \in {g} |-> j]))

(* record_utilization finds a sustained breach of a tier.                  *)
RaisePrompt(g) ==
  /\ prompt[g] = NoPrompt
  /\ assignedJob[g] # NoJob
  /\ Become(Raise(World, [h \in {g} |-> [kind |-> "usage", by |-> NoJob]]))

(* The estimates of the jobs of `overdue' have elapsed.                    *)
CheckEstimatedCompletions(overdue) ==
  /\ \A j \in overdue : jobStatus[j] = "RUNNING"
  /\ LET asked == {g \in UNION {jobGpus[j] : j \in overdue} :
                     prompt[g] = NoPrompt /\ assignedJob[g] # NoJob}
     IN Become(Raise(World, [g \in asked |-> [kind |-> "usage", by |-> NoJob]]))

RespondYes(g) ==
  /\ prompt[g] # NoPrompt
  /\ LET p == prompt[g] IN
     Become([ClearWatch(World, {g}) EXCEPT
               !.gpuStatus[g] = "ACTIVE",
               !.declined[g] = IF IsRequest(p) THEN @ \cup {p.by} ELSE @,
               !.cooldown = IF IsRequest(p) THEN @ \cup {g} ELSE @])

RespondNo(g) ==
  /\ prompt[g] # NoPrompt
  /\ Become(Reclaim(World, g))

(* The grace period of the prompt on g is over.  check_timeouts and        *)
(* record_utilization both come here, one GPU at a time.                   *)
CheckTimeout(g) ==
  /\ prompt[g] # NoPrompt
  /\ Become(Reclaim(World, g))

CompleteJob(j) ==
  /\ jobStatus[j] = "RUNNING"
  /\ LET S == jobGpus[j]
         u == Owner[j]
     IN Become(DropRunning(Freed(SetJobStatus(World, j, "COMPLETED"), S, j, u, "IDLE"), j, u))

CancelJob_UnlessRunning(j) ==
  /\ jobStatus[j] \notin {"NEW", "RUNNING"}
  /\ Become(CancelRequests([SetJobStatus(World, j, "CANCELLED")
                              EXCEPT !.fifo[j] = 0], {j}))

CancelJob(j) ==
  /\ jobStatus[j] = "WAITING"
  /\ Become(CancelRequests([SetJobStatus(World, j, "CANCELLED")
                              EXCEPT !.fifo[j] = 0], {j}))

TakenBack(w, g) ==
  LET j == w.assignedJob[g]
      u == w.assignedUser[g]
      freed == DropRunning(Freed(w, {g}, j, u, "IDLE"), j, u)
  IN IF freed.jobGpus[j] # {} THEN freed ELSE SetJobStatus(freed, j, "RECLAIMED")

ForceReclaim(g) ==
  /\ assignedUser[g] # NoUser
  /\ AllocateFrom(TakenBack(World, g))

ChangeJobPriority(j, isCritical) ==
  /\ jobStatus[j] = "WAITING"
  /\ AllocateFrom([World EXCEPT !.critical = IF isCritical THEN @ \cup {j} ELSE @ \ {j}])

SetGpuStatus_DocName(w, g, status) ==
  [w EXCEPT !.gpuStatus[g] = IF status = "IDLE" THEN "AVAILABLE" ELSE status]

SetGpuStatus(w, g, status) == [w EXCEPT !.gpuStatus[g] = status]

SetGpuMaintenance(g) ==
  /\ assignedUser[g] = NoUser
  /\ Become(SetGpuStatus(World, g, "MAINTENANCE"))

ClearGpuMaintenance(g) ==
  /\ gpuStatus[g] = "MAINTENANCE"
  /\ AllocateFrom(SetGpuStatus(World, g, "IDLE"))

Lost_StillListed(w, g) == SetGpuStatus(ClearWatch(w, {g}), g, "UNAVAILABLE")

(* A job left with no GPU waits again, whatever its status was; one that   *)
(* keeps some stays as it is.                                              *)
Lost(w, g) ==
  LET j == w.assignedJob[g]
      u == w.assignedUser[g]
      freed == Freed(w, {g}, j, u, "UNAVAILABLE")
  IN IF j = NoJob THEN freed
     ELSE IF freed.jobGpus[j] # {} THEN freed
     ELSE DropRunning(RequeueJob(SetJobStatus(freed, j, "WAITING"), j), j, u)

HandleGpuFailure(g) ==
  /\ gpuStatus[g] # "UNAVAILABLE"
  /\ AllocateFrom(Lost(World, g))

RecoverGpuFailure(g) ==
  /\ gpuStatus[g] = "UNAVAILABLE"
  /\ AllocateFrom(SetGpuStatus(World, g, "IDLE"))

(* preemption_cooldown has passed since the last request on g resolved.    *)
CooldownEnds(g) ==
  /\ g \in cooldown
  /\ Become([World EXCEPT !.cooldown = @ \ {g}])

Next ==
  \/ TryAllocateAll
  \/ \E overdue \in SUBSET Jobs : CheckEstimatedCompletions(overdue)
  \/ \E j \in Jobs :
       \/ \E isCritical \in Levels(j) : SubmitJob(j, isCritical) \/ ChangeJobPriority(j, isCritical)
       \/ CompleteJob(j)
       \/ CancelJob(j)
  \/ \E g \in GPUs :
       \/ \E j \in Jobs : \E isCritical \in Levels(j) : ManualAssignGpu(g, j, isCritical)
       \/ RaisePrompt(g)
       \/ RespondYes(g)
       \/ RespondNo(g)
       \/ CheckTimeout(g)
       \/ ForceReclaim(g)
       \/ SetGpuMaintenance(g)
       \/ ClearGpuMaintenance(g)
       \/ HandleGpuFailure(g)
       \/ RecoverGpuFailure(g)
       \/ CooldownEnds(g)

Spec == Init /\ [][Next]_vars

-----------------------------------------------------------------------------
(* The properties.                                                         *)

(* Every variable has the type of the field it models.                     *)
TypeOK ==
  /\ gpuStatus \in [GPUs -> GPUStatus]
  /\ assignedJob \in [GPUs -> Jobs \cup {NoJob}]
  /\ assignedUser \in [GPUs -> Users \cup {NoUser}]
  /\ jobStatus \in [Jobs -> JobStatus]
  /\ jobGpus \in [Jobs -> SUBSET GPUs]
  /\ critical \in SUBSET Jobs
  /\ userGpus \in [Users -> SUBSET GPUs]
  /\ runningJobs \in [Users -> SUBSET Jobs]
  /\ userIndex \in [Users -> SUBSET GPUs]
  /\ fifo \in [Jobs -> Nat]
  /\ prompt \in [GPUs -> Prompt]
  /\ declined \in [GPUs -> SUBSET Jobs]
  /\ cooldown \in SUBSET GPUs

(* The GPU, its job, its user and the index of users agree on who holds    *)
(* the GPU, in both directions, whatever operations ran (the first part of *)
(* check_consistency).                                                     *)
Ownership ==
  /\ \A g \in GPUs, j \in Jobs : g \in jobGpus[j] <=> assignedJob[g] = j
  /\ \A g \in GPUs : assignedUser[g] = IF assignedJob[g] = NoJob THEN NoUser ELSE Owner[assignedJob[g]]
  /\ \A g \in GPUs, u \in Users : g \in userGpus[u] <=> assignedUser[g] = u
  /\ userIndex = userGpus

(* A GPU is ACTIVE or IDLE_WARNING exactly while it is held, and           *)
(* IDLE_WARNING exactly while a prompt on it is pending: no handler leaves *)
(* a prompt behind on a free GPU, nor a warning without its prompt.        *)
StatusAgrees ==
  \A g \in GPUs :
    /\ assignedJob[g] # NoJob <=> gpuStatus[g] \in {"ACTIVE", "IDLE_WARNING"}
    /\ prompt[g] # NoPrompt <=> gpuStatus[g] = "IDLE_WARNING"

(* A job never holds more than it asked for; a RUNNING one holds some, a   *)
(* WAITING one not all, and a job that is over by completion or            *)
(* reclamation none.                                                       *)
JobSizes ==
  \A j \in Jobs :
    /\ Cardinality(jobGpus[j]) <= Count[j]
    /\ jobStatus[j] = "RUNNING" => jobGpus[j] # {}
    /\ jobStatus[j] = "WAITING" => Cardinality(jobGpus[j]) < Count[j]
    /\ jobStatus[j] \in {"NEW", "COMPLETED", "RECLAIMED"} => jobGpus[j] = {}

(* A waiting job is in the FIFO exactly once, however often it was         *)
(* preempted or lost GPUs to failures; of the others only a RECLAIMED one  *)
(* may have left an entry behind.                                          *)
QueueAgrees ==
  \A j \in Jobs :
    /\ fifo[j] <= 1
    /\ jobStatus[j] = "WAITING" => fifo[j] = 1
    /\ jobStatus[j] \notin {"WAITING", "RECLAIMED"} => fifo[j] = 0

(* A pending prompt asks the job that holds the GPU now: no completion,    *)
(* reclaim, failure or reassignment leaves it to fall on the next holder.  *)
PromptIsForHolder == \A g \in GPUs : prompt[g] # NoPrompt => prompt[g].asked = assignedJob[g]

(* A request is pending only against another user's GPU, never for a job   *)
(* that was already refused this GPU, and never inside the cooldown.       *)
NoThrashing ==
  \A g \in GPUs : IsRequest(prompt[g]) =>
    /\ assignedUser[g] # Owner[prompt[g].by]
    /\ prompt[g].by \notin declined[g]
    /\ g \notin cooldown

(* No step hands a GPU to an ordinary job while a CRITICAL job is left     *)
(* waiting, manual assignment excepted.                                    *)
CriticalFirst ==
  [][\A g \in GPUs :
       /\ assignedJob'[g] \in Jobs \ critical'
       /\ assignedJob'[g] # assignedJob[g]
       => \/ \A k \in critical' : jobStatus'[k] # "WAITING"
          \/ \E j \in Jobs : ManualAssignGpu(g, j, FALSE)]_vars

(* COMPLETED and RECLAIMED are final: no failure, answer, timeout or       *)
(* cancellation that arrives late changes the status of such a job.        *)
OverIsOver ==
  [][\A j \in Jobs : jobStatus[j] \in {"COMPLETED", "RECLAIMED"} => jobStatus'[j] = jobStatus[j]]_vars

(* The scheduler keeps the promises of GPULeases: a GPU is free when IDLE, *)
(* held when ACTIVE, asked for when IDLE_WARNING and out otherwise.        *)
LeaseState(status) ==
  CASE status = "IDLE" -> "free"
    [] status = "ACTIVE" -> "held"
    [] status = "IDLE_WARNING" -> "asked"
    [] OTHER -> "out"

LeaseView == [g \in GPUs |-> [state |-> LeaseState(gpuStatus[g]), job |-> assignedJob[g]]]

Leases == INSTANCE GPULeases WITH lease <- LeaseView

LeaseContract == Leases!Spec

-----------------------------------------------------------------------------
(* What a document says, and the code does not do.                         *)

(* A cancelled job holds no GPU (the docstring of cancel_job).             *)
CancelledHoldsNothing == \A j \in Jobs : jobStatus[j] = "CANCELLED" => jobGpus[j] = {}
=============================================================================
