--------------------------- MODULE SchedulerSteps ---------------------------
(***************************************************************************)
(* What a step of Scheduler may do, for all values of the constants:       *)
(* finished jobs stay finished, CRITICAL jobs are served first, and every  *)
(* step is one of the abstract specification GPULeases.                    *)
(***************************************************************************)
EXTENDS SchedulerProofs

-----------------------------------------------------------------------------
(* A waiting job that a plan does not fill gets less than it still needs.  *)
LEMMA UnfilledIsShort ==
  ASSUME NEW w, Safe(w), Orderly(w), NEW S \in SUBSET Available(w),
         NEW plan \in [S -> WaitingInFifo(w)],
         NEW k \in WaitingInFifo(w) \ Filled(w, plan)
  PROVE  Cardinality(Given(plan, k)) < StillNeeded(w, k)
<1> DEFINE had == w.jobGpus[k]
           more == Given(plan, k)
<1>1. k \in Jobs /\ w.jobStatus[k] = "WAITING" /\ Cardinality(had) < Count[k]
  BY DEF WaitingInFifo, Orderly, Sized
<1>2. had \in SUBSET GPUs /\ more \in SUBSET GPUs /\ had \cap more = {}
  BY <1>1, SchedulerAssumption DEF Safe, Worlds, Owned, Given, Available
<1>3. /\ Cardinality(had) \in Nat /\ Cardinality(more) \in Nat
      /\ Cardinality(had \cup more) = Cardinality(had) + Cardinality(more)
      /\ more = {} => Cardinality(more) = 0
  <2>1. /\ IsFiniteSet(had) /\ IsFiniteSet(more)
        /\ Cardinality(had) \in Nat /\ Cardinality(more) \in Nat
    BY <1>2, GpuSets
  <2>2. Cardinality(had \cup more)
          = Cardinality(had) + Cardinality(more) - Cardinality(had \cap more)
    BY <2>1, FS_Union
  <2>3. Cardinality({}) = 0
    BY FS_EmptySet
  <2>4. Cardinality(had \cap more) = 0 /\ (more = {} => Cardinality(more) = 0)
    BY <1>2, <2>3
  <2> HIDE DEF had, more
  <2>5. QED
    BY <2>1, <2>2, <2>4
<1>4. Count[k] \in Nat
  BY <1>1, SchedulerAssumption
<1>5. StillNeeded(w, k) = Count[k] - Cardinality(had)
  BY <1>1 DEF StillNeeded
<1>6. more = {} \/ ~ (Cardinality(had \cup more) >= Count[k])
  BY <1>1 DEF Filled
<1> HIDE DEF had, more
<1>7. Cardinality(more) < StillNeeded(w, k)
  BY <1>1, <1>3, <1>4, <1>5, <1>6
<1>8. QED
  BY <1>7 DEF more

(* The steps.  What one pass of try_allocate_all changes, from any sound   *)
(* state: it raises no status but to RUNNING, and takes no GPU from a job. *)
LEMMA AllocateFromSteps ==
  ASSUME NEW w, Safe(w), Orderly(w), AllocateFrom(w)
  PROVE  /\ critical' = w.critical
         /\ \A j \in Jobs : jobStatus'[j] # w.jobStatus[j] =>
              w.jobStatus[j] = "WAITING" /\ jobStatus'[j] = "RUNNING"
         /\ \A g \in GPUs : assignedJob'[g] = NoJob => gpuStatus'[g] = w.gpuStatus[g]
         /\ \A g \in GPUs : assignedJob'[g] # w.assignedJob[g] =>
              /\ g \in Available(w)
              /\ assignedJob'[g] \in Jobs /\ w.jobStatus[assignedJob'[g]] = "WAITING"
              /\ assignedJob'[g] \in critical' \/ \A k \in critical' : jobStatus'[k] # "WAITING"
<1>0. PICK plan \in Plans(w) :
        \E asks \in Asks(Routed(w, plan)) : Become(Raise(Routed(w, plan), asks))
  BY DEF AllocateFrom
<1>1. PICK asks \in Asks(Routed(w, plan)) : Become(Raise(Routed(w, plan), asks))
  BY <1>0
<1>2. PICK S \in SUBSET Available(w) : plan \in [S -> WaitingInFifo(w)]
  BY DEF Plans
<1>3. Assign(w, plan) \in Worlds
  BY <1>2, AssignTyped DEF Safe, Available, WaitingInFifo
<1>4. /\ critical' = w.critical
      /\ jobStatus' = Assign(w, plan).jobStatus
      /\ assignedJob' = Assign(w, plan).assignedJob
  <2>1. Assign(w, plan).critical = w.critical
    BY DEF Assign, Safe, Worlds
  <2>2. QED
    BY <1>1, <1>3, <2>1 DEF Become, Raise, Routed, CancelRequests, ClearWatch, Worlds
<1>5. \A j \in Jobs : jobStatus'[j] = IF j \in Filled(w, plan) THEN "RUNNING" ELSE w.jobStatus[j]
  BY <1>4 DEF Assign, Safe, Worlds
<1>6. \A g \in GPUs : assignedJob'[g] = IF g \in S THEN plan[g] ELSE w.assignedJob[g]
  BY <1>2, <1>4 DEF Assign, Safe, Worlds
<1>7. \A j \in Filled(w, plan) : w.jobStatus[j] = "WAITING"
  BY <1>2 DEF Filled, Given, WaitingInFifo
<1>8. ASSUME NEW g \in S, plan[g] \notin w.critical, NEW k \in w.critical
      PROVE  jobStatus'[k] # "WAITING"
  <2> SUFFICES ASSUME jobStatus'[k] = "WAITING" PROVE FALSE
    OBVIOUS
  <2>1. k \in Jobs /\ w.jobStatus[k] = "WAITING" /\ k \notin Filled(w, plan)
    BY <1>5 DEF Safe, Worlds
  <2>2. k \in WaitingInFifo(w)
    BY <2>1 DEF WaitingInFifo, Orderly, Queued
  <2>3. ~ (Cardinality(Given(plan, k)) < StillNeeded(w, k))
    BY <1>2, <1>8, <2>2 DEF Plans
  <2>4. QED
    BY <1>2, <2>1, <2>2, <2>3, UnfilledIsShort
<1>9. ASSUME NEW g \in GPUs, assignedJob'[g] = NoJob
      PROVE  gpuStatus'[g] = w.gpuStatus[g]
  <2> DEFINE v == Routed(w, plan)
  <2>1. g \notin S /\ w.assignedJob[g] = NoJob
    BY <1>2, <1>6, <1>9, SchedulerAssumption DEF WaitingInFifo
  <2>2. Assign(w, plan).gpuStatus[g] = w.gpuStatus[g] /\ Assign(w, plan).prompt = w.prompt
    BY <1>2, <2>1 DEF Assign, Safe, Worlds
  <2>3. w.prompt[g] = NoPrompt
    BY <2>1 DEF Safe, Marked
  <2>4. v.gpuStatus[g] = w.gpuStatus[g] /\ v.assignedJob = Assign(w, plan).assignedJob /\ v \in Worlds
    <3>1. g \notin RequestsOf(Assign(w, plan), Filled(w, plan))
      BY <2>2, <2>3 DEF RequestsOf, IsRequest, NoPrompt
    <3>2. v \in Worlds
      <4>1. Safe(Assign(w, plan))
        BY <1>2, AssignSafe DEF Available, WaitingInFifo
      <4>2. QED
        BY <4>1, CancelRequestsSafe DEF Routed, Filled, Safe
    <3>3. QED
      BY <1>3, <2>2, <3>1, <3>2 DEF Routed, CancelRequests, ClearWatch, Worlds
  <2>5. g \notin DOMAIN asks
    <3>1. PICK T \in SUBSET GPUs : asks \in [T -> Requests]
      BY <1>1 DEF Asks
    <3>2. \A h \in T : v.assignedJob[h] # NoJob
      BY <1>1, <3>1 DEF Asks, MayAsk
    <3>3. QED
      BY <1>4, <1>9, <2>4, <3>1, <3>2
  <2> HIDE DEF v
  <2>6. gpuStatus' = Raise(v, asks).gpuStatus
    BY <1>1 DEF Become, v
  <2>7. QED
    BY <2>4, <2>5, <2>6 DEF Raise, Worlds
<1>10. QED
  BY <1>2, <1>4, <1>5, <1>6, <1>7, <1>8, <1>9 DEF Available, WaitingInFifo

(* What a GPU's loss to its holder leaves as it was, in the three ways a   *)
(* step loses one.                                                         *)
LossStep(g, status) ==
  /\ gpuStatus' = [gpuStatus EXCEPT ![g] = status]
  /\ assignedJob' = [assignedJob EXCEPT ![g] = NoJob]
  /\ critical' = critical
  /\ \A k \in Jobs : k # assignedJob[g] => jobStatus'[k] = jobStatus[k]
  /\ \A k \in Jobs : jobStatus'[k] = "CANCELLED" => jobStatus[k] = "CANCELLED"

(* A NO and a timeout take one GPU from its holder, and it was asked.      *)
LEMMA ReclaimLoss ==
  ASSUME IInv, NEW g \in GPUs, RespondNo(g) \/ CheckTimeout(g)
  PROVE  LossStep(g, "IDLE") /\ prompt[g] # NoPrompt
<1>1. /\ prompt[g] # NoPrompt
      /\ Become(Reclaim(World, g))
      /\ Loss(World, Reclaim(World, g), g, "IDLE")
  BY WorldFields, ReclaimSound DEF IInv, RespondNo, CheckTimeout
<1>2. QED
  BY <1>1, WorldFields DEF Become, Loss, LossStep

(* A job that holds a GPU is not over.                                     *)
LEMMA HolderNotOver ==
  ASSUME IInv, NEW g \in GPUs, NEW j \in Jobs, assignedJob[g] = j
  PROVE  jobStatus[j] \notin {"NEW", "COMPLETED", "RECLAIMED"}
  BY WorldFields DEF IInv, Safe, Owned, Orderly, Sized

(* The operations that end with a pass of try_allocate_all run it from a   *)
(* sound state that differs from the present one by at most one lost GPU.  *)
APass ==
  \/ TryAllocateAll
  \/ \E g \in GPUs : \/ ForceReclaim(g) \/ HandleGpuFailure(g)
                    \/ ClearGpuMaintenance(g) \/ RecoverGpuFailure(g)
  \/ \E j \in Jobs : \E isCritical \in Levels(j) : ChangeJobPriority(j, isCritical)

StartsFrom(w) ==
  /\ Safe(w) /\ Orderly(w) /\ AllocateFrom(w)
  /\ \A k \in Jobs : jobStatus[k] \in {"COMPLETED", "RECLAIMED"} => w.jobStatus[k] = jobStatus[k]
  /\ \A k \in Jobs : w.jobStatus[k] = "CANCELLED" => jobStatus[k] = "CANCELLED"
  /\ \A g \in GPUs : w.assignedJob[g] \in {assignedJob[g], NoJob}

(* No GPU is free while a job waits.                                       *)
Served(w) == Available(w) = {} \/ WaitingInFifo(w) = {}

(* Whatever such an operation did before the pass, the pass starts from a  *)
(* sound state.                                                            *)
LEMMA PassStart ==
  ASSUME IInv, APass
  PROVE  \E w : StartsFrom(w)
<1> USE WorldFields
<1>0. Safe(World) /\ Orderly(World)
  BY DEF IInv
<1>1. CASE TryAllocateAll
  BY <1>0, <1>1 DEF TryAllocateAll, StartsFrom
<1>2. ASSUME NEW g \in GPUs, NEW v, Loss(World, v, g, "IDLE") \/ Loss(World, v, g, "UNAVAILABLE")
      PROVE  /\ \A k \in Jobs : jobStatus[k] \in {"COMPLETED", "RECLAIMED"}
                              => v.jobStatus[k] = jobStatus[k]
             /\ \A k \in Jobs : v.jobStatus[k] = "CANCELLED" => jobStatus[k] = "CANCELLED"
             /\ \A h \in GPUs : v.assignedJob[h] \in {assignedJob[h], NoJob}
  BY <1>0, <1>2, HolderNotOver DEF Loss, Safe, Worlds
<1>3. CASE \E g \in GPUs : ForceReclaim(g)
  <2>1. PICK g \in GPUs : ForceReclaim(g)
    BY <1>3
  <2>2. /\ Safe(TakenBack(World, g))
        /\ Orderly(TakenBack(World, g))
        /\ Loss(World, TakenBack(World, g), g, "IDLE")
    BY <1>0, <2>1, TakenBackSound DEF ForceReclaim
  <2>3. QED
    BY <1>2, <2>1, <2>2 DEF ForceReclaim, StartsFrom
<1>4. CASE \E g \in GPUs : HandleGpuFailure(g)
  <2>1. PICK g \in GPUs : HandleGpuFailure(g)
    BY <1>4
  <2>2. /\ Safe(Lost(World, g))
        /\ Orderly(Lost(World, g))
        /\ Loss(World, Lost(World, g), g, "UNAVAILABLE")
    BY <1>0, LostSound
  <2>3. QED
    BY <1>2, <2>1, <2>2 DEF HandleGpuFailure, StartsFrom
<1>5. CASE \E g \in GPUs : ClearGpuMaintenance(g) \/ RecoverGpuFailure(g)
  <2>1. PICK g \in GPUs : /\ gpuStatus[g] \in {"MAINTENANCE", "UNAVAILABLE"}
                         /\ AllocateFrom(SetGpuStatus(World, g, "IDLE"))
    BY <1>5 DEF ClearGpuMaintenance, RecoverGpuFailure
  <2>2. World.assignedJob[g] = NoJob
    BY <1>0, <2>1 DEF Safe, Marked
  <2>3. /\ SetGpuStatus(World, g, "IDLE").jobStatus = jobStatus
        /\ SetGpuStatus(World, g, "IDLE").assignedJob = assignedJob
    BY <1>0 DEF SetGpuStatus, Safe, Worlds
  <2>4. QED
    BY <1>0, <2>1, <2>2, <2>3, SetGpuStatusSound DEF StartsFrom
<1>6. CASE \E j \in Jobs : \E isCritical \in Levels(j) : ChangeJobPriority(j, isCritical)
  <2>1. PICK j \in Jobs, isCritical \in BOOLEAN : ChangeJobPriority(j, isCritical)
    BY <1>6 DEF Levels
  <2> DEFINE js == IF isCritical THEN World.critical \cup {j} ELSE World.critical \ {j}
             v == [World EXCEPT !.critical = js]
  <2>2. AllocateFrom(v)
    BY <2>1 DEF ChangeJobPriority
  <2>3. js \in SUBSET Jobs
    BY <1>0 DEF Safe, Worlds
  <2>4. Safe(v)
    BY <1>0, <2>3, SetCriticalSafe
  <2>5. /\ v.jobStatus = jobStatus /\ v.assignedJob = assignedJob
        /\ v.jobGpus = World.jobGpus /\ v.fifo = World.fifo
    BY <1>0 DEF Safe, Worlds
  <2> HIDE DEF v
  <2>6. Orderly(v)
    BY <1>0, <2>5, SameLives
  <2>7. QED
    BY <2>2, <2>4, <2>5, <2>6 DEF StartsFrom
<1>7. QED
  BY <1>1, <1>3, <1>4, <1>5, <1>6 DEF APass

(* What withdrawing requests leaves as it was.                             *)
LEMMA WithdrawalFrame ==
  ASSUME NEW w \in Worlds, NEW js
  PROVE  LET v == CancelRequests(w, js) IN
         /\ \A g \in GPUs : v.gpuStatus[g] \in {"ACTIVE", w.gpuStatus[g]}
         /\ v.assignedUser = w.assignedUser /\ v.jobStatus = w.jobStatus /\ v.fifo = w.fifo
  BY DEF CancelRequests, ClearWatch, Worlds

(* After a pass no GPU is free while a job waits.                          *)
LEMMA PassServed ==
  ASSUME NEW w, Safe(w), Orderly(w), AllocateFrom(w)
  PROVE  Served(World')
<1>0. PICK plan \in Plans(w) :
        \E asks \in Asks(Routed(w, plan)) : Become(Raise(Routed(w, plan), asks))
  BY DEF AllocateFrom
<1>1. PICK asks \in Asks(Routed(w, plan)) : Become(Raise(Routed(w, plan), asks))
  BY <1>0
<1>2. PICK S \in SUBSET Available(w) : plan \in [S -> WaitingInFifo(w)]
  BY DEF Plans
<1> DEFINE v == Assign(w, plan)
<1>3. v \in Worlds
  BY <1>2, AssignTyped DEF Safe, Available, WaitingInFifo
<1>4. /\ gpuStatus' \in [GPUs -> GPUStatus]
      /\ \A g \in GPUs : gpuStatus'[g] = "IDLE" => v.gpuStatus[g] = "IDLE"
      /\ assignedUser' = v.assignedUser
      /\ jobStatus' = v.jobStatus
      /\ fifo' = v.fifo
  <2> DEFINE r == Routed(w, plan)
  <2>1. gpuStatus' \in [GPUs -> GPUStatus]
    BY AllocateFromIInv DEF IInv, Safe, World, Worlds
  <2>2. r = CancelRequests(v, Filled(w, plan)) /\ r \in Worlds /\ Become(Raise(r, asks))
    <3>1. Safe(v)
      BY <1>2, AssignSafe DEF Available, WaitingInFifo
    <3>2. QED
      BY <1>1, <3>1, CancelRequestsSafe DEF Routed, Filled, Safe
  <2> HIDE DEF v
  <2> HIDE DEF r
  <2>3. /\ \A g \in GPUs : r.gpuStatus[g] \in {"ACTIVE", v.gpuStatus[g]}
        /\ r.assignedUser = v.assignedUser /\ r.jobStatus = v.jobStatus /\ r.fifo = v.fifo
    BY <1>3, <2>2, WithdrawalFrame
  <2> DEFINE z == Raise(r, asks)
  <2>4. /\ z.gpuStatus = [g \in GPUs |-> IF g \in DOMAIN asks THEN "IDLE_WARNING" ELSE r.gpuStatus[g]]
        /\ z.assignedUser = r.assignedUser /\ z.jobStatus = r.jobStatus /\ z.fifo = r.fifo
    BY <2>2 DEF Raise, Worlds
  <2> HIDE DEF z
  <2>5. /\ gpuStatus' = z.gpuStatus /\ assignedUser' = z.assignedUser
        /\ jobStatus' = z.jobStatus /\ fifo' = z.fifo
    BY <2>2 DEF Become, z
  <2>6. QED
    BY <2>1, <2>3, <2>4, <2>5
<1>5. \A g \in GPUs : v.gpuStatus[g] = "IDLE" => g \notin S /\ w.gpuStatus[g] = "IDLE"
  BY <1>2 DEF Assign, Safe, Worlds
<1>6. \A g \in GPUs \ S : v.assignedUser[g] = w.assignedUser[g]
  BY <1>2 DEF Assign, Safe, Worlds
<1>7. \A j \in Jobs : /\ v.jobStatus[j] = IF j \in Filled(w, plan) THEN "RUNNING" ELSE w.jobStatus[j]
                     /\ v.fifo[j] = IF j \in Filled(w, plan) THEN 0 ELSE w.fifo[j]
  BY DEF Assign, Safe, Worlds
<1> HIDE DEF v
<1>8. WaitingInFifo(World') \subseteq WaitingInFifo(w) \ Filled(w, plan)
  BY <1>4, <1>7 DEF WaitingInFifo, World
<1>9. CASE S = Available(w)
  BY <1>4, <1>5, <1>6, <1>9 DEF Served, Available, World
<1>10. CASE \A j \in WaitingInFifo(w) : ~ (Cardinality(Given(plan, j)) < StillNeeded(w, j))
  <2>1. WaitingInFifo(w) \ Filled(w, plan) = {}
    BY <1>2, <1>10, UnfilledIsShort
  <2>2. QED
    BY <1>8, <2>1 DEF Served
<1>11. QED
  BY <1>2, <1>9, <1>10 DEF Plans

(* Whatever an operation that ends with a pass did before, it leaves no    *)
(* GPU free beside a waiting job.                                          *)
THEOREM PassesServe == Spec => [][APass => Served(World)']_vars
<1>1. IInv /\ [Next]_vars => [APass => Served(World)']_vars
  BY PassStart, PassServed DEF StartsFrom
<1>2. QED
  BY <1>1, Invariance, PTL DEF Spec

(* What manual_assign_gpu changes of the GPUs and of the jobs.             *)
LEMMA ManualEffect ==
  ASSUME IInv, NEW g \in GPUs, NEW j \in Jobs, NEW isCritical \in BOOLEAN,
         ManualAssignGpu(g, j, isCritical)
  PROVE  /\ gpuStatus' = [gpuStatus EXCEPT ![g] = "ACTIVE"]
         /\ assignedJob' = [assignedJob EXCEPT ![g] = j]
         /\ critical' = IF isCritical THEN critical \cup {j} ELSE critical
         /\ \A k \in Jobs \ {j} : jobStatus'[k] = jobStatus[k]
<1> DEFINE w == Submitted(World, j, isCritical)
           plan == [h \in {g} |-> j]
<1>1. Safe(World)
  BY DEF IInv
<1>2. w \in Worlds
  BY <1>1, SubmittedSafe DEF Safe
<1>3. /\ w.jobStatus = [jobStatus EXCEPT ![j] = "WAITING"]
      /\ w.gpuStatus = gpuStatus
      /\ w.assignedJob = assignedJob
      /\ w.critical = IF isCritical THEN critical \cup {j} ELSE critical
  BY <1>1, WorldFields DEF Submitted, SetJobStatus, Enqueue, Safe, Worlds
<1>4. Become(Assign(w, plan))
  BY DEF ManualAssignGpu
<1> HIDE DEF w
<1>5. DOMAIN plan = {g} /\ plan[g] = j /\ \A k \in Jobs \ {j} : k \notin Filled(w, plan)
  BY DEF Filled, Given
<1> HIDE DEF plan
<1>6. gpuStatus' = [h \in GPUs |-> IF h \in DOMAIN plan THEN "ACTIVE" ELSE w.gpuStatus[h]]
  BY <1>2, <1>4 DEF Become, Assign, Worlds
<1>7. assignedJob' = [h \in GPUs |-> IF h \in DOMAIN plan THEN plan[h] ELSE w.assignedJob[h]]
  BY <1>2, <1>4 DEF Become, Assign, Worlds
<1>8. critical' = w.critical
  BY <1>2, <1>4 DEF Become, Assign, Worlds
<1>9. jobStatus' = [k \in Jobs |-> IF k \in Filled(w, plan) THEN "RUNNING" ELSE w.jobStatus[k]]
  BY <1>2, <1>4 DEF Become, Assign, Worlds
<1>10. \A k \in Jobs \ {j} : jobStatus'[k] = jobStatus[k]
  BY <1>1, <1>3, <1>5, <1>9, WorldFields DEF Safe, Worlds
<1>11. QED
  BY <1>1, <1>3, <1>5, <1>6, <1>7, <1>8, <1>10, WorldFields DEF Safe, Worlds

(* No operation changes the status of a job that is COMPLETED or           *)
(* RECLAIMED.                                                              *)
LEMMA NextOverIsOver ==
  ASSUME IInv, [Next]_vars, NEW k \in Jobs, jobStatus[k] \in {"COMPLETED", "RECLAIMED"}
  PROVE  jobStatus'[k] = jobStatus[k]
<1> USE WorldFields
<1>0. Safe(World) /\ Orderly(World)
  BY DEF IInv
<1>1. CASE APass
  BY <1>1, PassStart, AllocateFromSteps DEF StartsFrom
<1>2. CASE \E g \in GPUs : RespondNo(g) \/ CheckTimeout(g)
  BY <1>2, ReclaimLoss, HolderNotOver DEF LossStep
<1>3. CASE \E j \in Jobs : \E isCritical \in Levels(j) : SubmitJob(j, isCritical)
  BY <1>0, <1>3 DEF SubmitJob, Submitted, SetJobStatus, Enqueue, Become, Safe, Worlds
<1>4. CASE \E g \in GPUs : \E j \in Jobs : \E isCritical \in Levels(j) :
             ManualAssignGpu(g, j, isCritical)
  <2>1. PICK g \in GPUs, j \in Jobs, isCritical \in BOOLEAN : ManualAssignGpu(g, j, isCritical)
    BY <1>4 DEF Levels
  <2>2. QED
    BY <2>1, ManualEffect DEF ManualAssignGpu
<1>5. CASE \/ \E overdue \in SUBSET Jobs : CheckEstimatedCompletions(overdue)
           \/ \E g \in GPUs : RaisePrompt(g) \/ RespondYes(g)
           \/ \E g \in GPUs : SetGpuMaintenance(g) \/ CooldownEnds(g)
  BY <1>0, <1>5 DEF CheckEstimatedCompletions, RaisePrompt, RespondYes, SetGpuMaintenance, CooldownEnds,
                     Raise, ClearWatch, SetGpuStatus, Become, Safe, Worlds
<1>6. CASE \E j \in Jobs : CompleteJob(j) \/ CancelJob(j)
  BY <1>0, <1>6 DEF CompleteJob, CancelJob, CancelRequests, ClearWatch, SetJobStatus, Freed, Release,
                     DropRunning, Become, Safe, Worlds
<1>7. CASE UNCHANGED vars
  BY <1>7 DEF vars
<1>8. QED
  BY <1>1, <1>2, <1>3, <1>4, <1>5, <1>6, <1>7 DEF Next, APass

(* COMPLETED and RECLAIMED are final, whatever arrives late.               *)
THEOREM OverIsFinal == Spec => OverIsOver
<1>1. IInv /\ [Next]_vars
      => [\A j \in Jobs : jobStatus[j] \in {"COMPLETED", "RECLAIMED"} => jobStatus'[j] = jobStatus[j]]_vars
  BY NextOverIsOver
<1>2. QED
  BY <1>1, Invariance, PTL DEF Spec, OverIsOver

(* The operations that lend no GPU and take none back: they only put the   *)
(* question to a holder or withdraw it.                                    *)
AQuestion ==
  \/ \E overdue \in SUBSET Jobs : CheckEstimatedCompletions(overdue)
  \/ \E j \in Jobs : CancelJob(j)
  \/ \E j \in Jobs : \E isCritical \in Levels(j) : SubmitJob(j, isCritical)
  \/ \E g \in GPUs : RaisePrompt(g) \/ RespondYes(g) \/ CooldownEnds(g)

(* Such an operation moves no GPU, and only held GPUs change status.       *)
LEMMA QuestionEffect ==
  ASSUME IInv, AQuestion
  PROVE  /\ assignedJob' = assignedJob
         /\ \A g \in GPUs : assignedJob[g] = NoJob => gpuStatus'[g] = gpuStatus[g]
<1> USE WorldFields
<1>0. Safe(World)
  BY DEF IInv
<1>1. CASE \E overdue \in SUBSET Jobs : CheckEstimatedCompletions(overdue)
  BY <1>0, <1>1 DEF CheckEstimatedCompletions, Raise, Become, Safe, Worlds
<1>2. CASE \E j \in Jobs : CancelJob(j)
  <2>1. PICK j \in Jobs : CancelJob(j)
    BY <1>2
  <2> DEFINE v == [SetJobStatus(World, j, "CANCELLED") EXCEPT !.fifo[j] = 0]
  <2>2. Become(CancelRequests(v, {j}))
    BY <2>1 DEF CancelJob
  <2>3. /\ v \in Worlds /\ v.assignedJob = assignedJob
        /\ v.gpuStatus = gpuStatus /\ v.prompt = prompt
    BY <1>0 DEF SetJobStatus, Safe, Worlds, JobStatus
  <2> HIDE DEF v
  <2>4. /\ CancelRequests(v, {j}).assignedJob = v.assignedJob
        /\ \A g \in GPUs : g \notin RequestsOf(v, {j})
                        => CancelRequests(v, {j}).gpuStatus[g] = v.gpuStatus[g]
    BY <2>3 DEF CancelRequests, ClearWatch, Worlds
  <2>5. \A g \in RequestsOf(v, {j}) : assignedJob[g] # NoJob
    BY <1>0, <2>3 DEF RequestsOf, IsRequest, NoPrompt, Safe, Marked
  <2>6. assignedJob' = CancelRequests(v, {j}).assignedJob /\ gpuStatus' = CancelRequests(v, {j}).gpuStatus
    BY <2>2 DEF Become
  <2>7. QED
    BY <2>3, <2>4, <2>5, <2>6
<1>3. CASE \E j \in Jobs : \E isCritical \in Levels(j) : SubmitJob(j, isCritical)
  BY <1>0, <1>3 DEF SubmitJob, Submitted, SetJobStatus, Enqueue, Become, Safe, Worlds
<1>4. CASE \E g \in GPUs : RaisePrompt(g)
  BY <1>0, <1>4 DEF RaisePrompt, Raise, Become, Safe, Worlds
<1>5. CASE \E g \in GPUs : RespondYes(g)
  <2>1. PICK g \in GPUs : RespondYes(g)
    BY <1>5
  <2>2. assignedJob' = assignedJob /\ gpuStatus' = [gpuStatus EXCEPT ![g] = "ACTIVE"]
    BY <1>0, <2>1 DEF RespondYes, ClearWatch, Become, Safe, Worlds
  <2>3. assignedJob[g] # NoJob
    BY <1>0, <2>1 DEF RespondYes, Safe, Marked
  <2>4. QED
    BY <1>0, <2>2, <2>3 DEF Safe, Worlds
<1>6. CASE \E g \in GPUs : CooldownEnds(g)
  BY <1>0, <1>6 DEF CooldownEnds, Become, Safe, Worlds
<1>7. QED
  BY <1>1, <1>2, <1>3, <1>4, <1>5, <1>6 DEF AQuestion

(* What complete_job changes of the GPUs.                                  *)
LEMMA CompleteEffect ==
  ASSUME IInv, NEW j \in Jobs, CompleteJob(j)
  PROVE  /\ assignedJob' = [g \in GPUs |-> IF g \in jobGpus[j] THEN NoJob ELSE assignedJob[g]]
         /\ gpuStatus' = [g \in GPUs |-> IF g \in jobGpus[j] THEN "IDLE" ELSE gpuStatus[g]]
  BY WorldFields DEF IInv, CompleteJob, ClearWatch, SetJobStatus, Freed, Release, DropRunning,
                     Become, Safe, Worlds

(* What set_gpu_maintenance changes of the GPUs.                           *)
LEMMA MaintenanceEffect ==
  ASSUME IInv, NEW g \in GPUs, SetGpuMaintenance(g)
  PROVE  /\ assignedJob' = assignedJob
         /\ gpuStatus' = [gpuStatus EXCEPT ![g] = "MAINTENANCE"]
  BY WorldFields DEF IInv, SetGpuMaintenance, SetGpuStatus, Become, Safe, Worlds

(* A step that gives a GPU to an ordinary job leaves no CRITICAL job       *)
(* waiting, or is a manual assignment.                                     *)
LEMMA NextCriticalFirst ==
  ASSUME IInv, [Next]_vars, NEW g \in GPUs,
         assignedJob'[g] \in Jobs \ critical', assignedJob'[g] # assignedJob[g]
  PROVE  \/ \A k \in critical' : jobStatus'[k] # "WAITING"
         \/ \E j \in Jobs : ManualAssignGpu(g, j, FALSE)
<1>0. Safe(World) /\ Orderly(World)
  BY DEF IInv
<1>1. CASE APass
  <2>1. PICK w : StartsFrom(w)
    BY <1>1, PassStart
  <2>2. assignedJob'[g] # w.assignedJob[g]
    BY <2>1, SchedulerAssumption DEF StartsFrom
  <2>3. QED
    BY <2>1, <2>2, AllocateFromSteps DEF StartsFrom
<1>2. CASE \E h \in GPUs : RespondNo(h) \/ CheckTimeout(h)
  <2>1. PICK h \in GPUs : assignedJob' = [assignedJob EXCEPT ![h] = NoJob]
    BY <1>2, ReclaimLoss DEF LossStep
  <2>2. QED
    BY <1>0, <2>1, WorldFields, SchedulerAssumption DEF Safe, Worlds
<1>3. CASE \E h \in GPUs : \E j \in Jobs : \E isCritical \in Levels(j) :
             ManualAssignGpu(h, j, isCritical)
  <2>1. PICK h \in GPUs, j \in Jobs, isCritical \in BOOLEAN : ManualAssignGpu(h, j, isCritical)
    BY <1>3 DEF Levels
  <2>2. /\ assignedJob' = [assignedJob EXCEPT ![h] = j]
        /\ critical' = IF isCritical THEN critical \cup {j} ELSE critical
    BY <2>1, ManualEffect
  <2>3. h = g /\ isCritical = FALSE
    BY <1>0, <2>2, WorldFields DEF Safe, Worlds
  <2>4. QED
    BY <2>1, <2>3
<1>4. CASE \E j \in Jobs : CompleteJob(j)
  BY <1>4, CompleteEffect, SchedulerAssumption
<1>5. CASE AQuestion \/ \E h \in GPUs : SetGpuMaintenance(h)
  BY <1>5, QuestionEffect, MaintenanceEffect
<1>6. CASE UNCHANGED vars
  BY <1>6 DEF vars
<1>7. QED
  BY <1>1, <1>2, <1>3, <1>4, <1>5, <1>6 DEF Next, APass, AQuestion

(* No allocation pass gives an ordinary job a GPU and leaves a CRITICAL    *)
(* job waiting.                                                            *)
THEOREM CriticalIsFirst == Spec => CriticalFirst
<1>1. IInv /\ [Next]_vars
      => [\A g \in GPUs :
            /\ assignedJob'[g] \in Jobs \ critical'
            /\ assignedJob'[g] # assignedJob[g]
            => \/ \A k \in critical' : jobStatus'[k] # "WAITING"
               \/ \E j \in Jobs : ManualAssignGpu(g, j, FALSE)]_vars
  BY NextCriticalFirst
<1>2. QED
  BY <1>1, Invariance, PTL DEF Spec, CriticalFirst

-----------------------------------------------------------------------------
(* Cancelled jobs.  The documents promise that one holds no GPU, and the   *)
(* run CancelledHoldsNothing shows one that does.  It takes a job that     *)
(* asked for several.                                                      *)

Cancelled(j) == jobStatus[j] = "CANCELLED" /\ Count[j] = 1

EmptyHanded == \A g \in GPUs, j \in Jobs : Cancelled(j) => assignedJob[g] # j

(* A step cancels only waiting jobs, and lends only to jobs that wait or   *)
(* are new.                                                                *)
LEMMA NextEmptyHanded ==
  ASSUME IInv, EmptyHanded, [Next]_vars
  PROVE  EmptyHanded'
<1> USE WorldFields
<1>0. Safe(World) /\ Orderly(World)
  BY DEF IInv
<1>1. CASE APass
  <2>1. PICK w : StartsFrom(w)
    BY <1>1, PassStart
  <2> SUFFICES ASSUME NEW g \in GPUs, NEW j \in Jobs, jobStatus'[j] = "CANCELLED", Count[j] = 1,
                      assignedJob'[g] = j
               PROVE  FALSE
    BY DEF EmptyHanded, Cancelled
  <2>2. w.jobStatus[j] = "CANCELLED" /\ jobStatus[j] = "CANCELLED"
    BY <2>1, AllocateFromSteps DEF StartsFrom
  <2>3. assignedJob[g] # j
    BY <2>2 DEF EmptyHanded, Cancelled
  <2>4. w.assignedJob[g] # j
    BY <2>1, <2>3, SchedulerAssumption DEF StartsFrom
  <2>5. w.jobStatus[j] = "WAITING"
    BY <2>1, <2>4, AllocateFromSteps DEF StartsFrom
  <2>6. QED
    BY <2>2, <2>5
<1>2. CASE \E g \in GPUs : RespondNo(g) \/ CheckTimeout(g)
  <2>1. PICK g \in GPUs : RespondNo(g) \/ CheckTimeout(g)
    BY <1>2
  <2>2. /\ \A j \in Jobs : jobStatus'[j] = "CANCELLED" => jobStatus[j] = "CANCELLED"
        /\ assignedJob' = [assignedJob EXCEPT ![g] = NoJob]
    BY <2>1, ReclaimLoss DEF LossStep
  <2>3. \A h \in GPUs : assignedJob'[h] \in {assignedJob[h], NoJob}
    BY <1>0, <2>2 DEF Safe, Worlds
  <2>4. QED
    BY <2>2, <2>3, SchedulerAssumption DEF EmptyHanded, Cancelled
<1>3. CASE \E g \in GPUs : \E j \in Jobs : \E isCritical \in Levels(j) :
             ManualAssignGpu(g, j, isCritical)
  <2>1. PICK g \in GPUs, j \in Jobs, isCritical \in BOOLEAN : ManualAssignGpu(g, j, isCritical)
    BY <1>3 DEF Levels
  <2>2. /\ assignedJob' = [assignedJob EXCEPT ![g] = j]
        /\ \A k \in Jobs \ {j} : jobStatus'[k] = jobStatus[k]
    BY <2>1, ManualEffect
  <2>3. jobStatus'[j] # "CANCELLED"
    <3> DEFINE w == Submitted(World, j, isCritical)
               plan == [h \in {g} |-> j]
    <3>1. w \in Worlds /\ w.jobStatus[j] = "WAITING"
      <4>1. w \in Worlds
        BY <1>0, SubmittedSafe, <2>1 DEF ManualAssignGpu, Safe
      <4>2. w.jobStatus = [jobStatus EXCEPT ![j] = "WAITING"]
        BY <1>0 DEF Submitted, SetJobStatus, Enqueue, Safe, Worlds
      <4>3. QED
        BY <1>0, <4>1, <4>2 DEF Safe, Worlds
    <3>2. Become(Assign(w, plan))
      BY <2>1 DEF ManualAssignGpu
    <3> HIDE DEF w, plan
    <3>3. jobStatus' = [k \in Jobs |-> IF k \in Filled(w, plan) THEN "RUNNING" ELSE w.jobStatus[k]]
      BY <3>1, <3>2 DEF Become, Assign, Worlds
    <3>4. QED
      BY <3>1, <3>3
  <2>4. QED
    BY <1>0, <2>2, <2>3 DEF EmptyHanded, Cancelled, Safe, Worlds
<1>4. CASE \E j \in Jobs : CancelJob(j)
  <2>1. PICK j \in Jobs : CancelJob(j)
    BY <1>4
  <2>2. assignedJob' = assignedJob /\ \A k \in Jobs \ {j} : jobStatus'[k] = jobStatus[k]
    <3>1. \A k \in Jobs \ {j} : jobStatus'[k] = jobStatus[k]
      BY <1>0, <2>1 DEF CancelJob, CancelRequests, ClearWatch, SetJobStatus, Become, Safe, Worlds
    <3>2. QED
      BY <2>1, <3>1, QuestionEffect DEF AQuestion
  <2>3. ASSUME Count[j] = 1, NEW g \in GPUs PROVE assignedJob[g] # j
    <3>1. jobStatus[j] = "WAITING" /\ Cardinality(jobGpus[j]) < 1
      BY <1>0, <2>1, <2>3 DEF CancelJob, Orderly, Sized
    <3>2. jobGpus[j] \in SUBSET GPUs
      BY <1>0 DEF Safe, Worlds
    <3>3. jobGpus[j] = {}
      BY <3>1, <3>2, GpuSets
    <3>4. QED
      BY <1>0, <3>3 DEF Safe, Owned
  <2>4. QED
    BY <2>2, <2>3 DEF EmptyHanded, Cancelled
<1>5. CASE \E j \in Jobs : \E isCritical \in Levels(j) : SubmitJob(j, isCritical)
  <2>1. \A k \in Jobs : jobStatus'[k] \in {jobStatus[k], "WAITING"}
    BY <1>0, <1>5 DEF SubmitJob, Submitted, SetJobStatus, Enqueue, Become, Safe, Worlds
  <2>2. assignedJob' = assignedJob
    BY <1>5, QuestionEffect DEF AQuestion
  <2>3. QED
    BY <2>1, <2>2 DEF EmptyHanded, Cancelled
<1>6. CASE \E j \in Jobs : CompleteJob(j)
  <2>1. \A k \in Jobs : jobStatus'[k] \in {jobStatus[k], "COMPLETED"}
    <3>1. PICK j \in Jobs : CompleteJob(j)
      BY <1>6
    <3>2. jobStatus' = [jobStatus EXCEPT ![j] = "COMPLETED"]
      BY <1>0, <3>1 DEF CompleteJob, ClearWatch, SetJobStatus, Freed, Release, DropRunning, Become, Safe, Worlds
    <3>3. QED
      BY <1>0, <3>2 DEF Safe, Worlds
  <2>2. \A g \in GPUs : assignedJob'[g] \in {assignedJob[g], NoJob}
    BY <1>6, CompleteEffect
  <2>3. QED
    BY <2>1, <2>2, SchedulerAssumption DEF EmptyHanded, Cancelled
<1>7. CASE \/ \E overdue \in SUBSET Jobs : CheckEstimatedCompletions(overdue)
           \/ \E g \in GPUs : RaisePrompt(g) \/ RespondYes(g)
           \/ \E g \in GPUs : SetGpuMaintenance(g) \/ CooldownEnds(g)
  <2>1. jobStatus' = jobStatus
    BY <1>0, <1>7 DEF CheckEstimatedCompletions, RaisePrompt, RespondYes, SetGpuMaintenance, CooldownEnds,
                       Raise, ClearWatch, SetGpuStatus, Become, Safe, Worlds
  <2>2. assignedJob' = assignedJob
    BY <1>7, QuestionEffect, MaintenanceEffect DEF AQuestion
  <2>3. QED
    BY <2>1, <2>2 DEF EmptyHanded, Cancelled
<1>8. CASE UNCHANGED vars
  BY <1>8 DEF vars, EmptyHanded, Cancelled
<1>9. QED
  BY <1>1, <1>2, <1>3, <1>4, <1>5, <1>6, <1>7, <1>8 DEF Next, APass

(* What cancel_job's docstring says holds of every job that asked for one  *)
(* GPU: cancelled, it holds nothing, and no later failure, preemption or   *)
(* pass changes that.                                                      *)
THEOREM CancelledSingleHoldsNothing ==
  Spec => [](\A j \in Jobs : jobStatus[j] = "CANCELLED" /\ Count[j] = 1 => jobGpus[j] = {})
<1>1. Init => EmptyHanded
  BY DEF Init, EmptyHanded, Cancelled
<1>2. IInv /\ EmptyHanded /\ [Next]_vars => EmptyHanded'
  BY NextEmptyHanded
<1>3. IInv /\ EmptyHanded
      => \A j \in Jobs : jobStatus[j] = "CANCELLED" /\ Count[j] = 1 => jobGpus[j] = {}
  BY WorldFields DEF IInv, Safe, Owned, Worlds, EmptyHanded, Cancelled
<1>4. QED
  BY <1>1, <1>2, <1>3, Invariance, PTL DEF Spec

-----------------------------------------------------------------------------
(* The scheduler implements GPULeases.                                     *)

View(w) == [g \in GPUs |-> [state |-> LeaseState(w.gpuStatus[g]), job |-> w.assignedJob[g]]]

(* The lease view of the current world is that of the variables.           *)
LEMMA ViewOfWorld == View(World) = LeaseView
  BY WorldFields DEF View, LeaseView

(* In a sound world a GPU is on loan exactly when a job holds it.          *)
LEMMA OnLoanIffHeld ==
  ASSUME NEW w, w \in Worlds, Marked(w), NEW g \in GPUs
  PROVE  /\ View(w)[g].job = w.assignedJob[g]
         /\ w.assignedJob[g] # NoJob <=> Leases!OnLoan(View(w)[g])
         /\ w.gpuStatus[g] = "IDLE_WARNING" => View(w)[g].state = "asked"
         /\ w.gpuStatus[g] = "IDLE" => View(w)[g].state = "free"
         /\ w.gpuStatus[g] \in {"MAINTENANCE", "UNAVAILABLE"} => View(w)[g].state = "out"
  BY DEF Marked, View, LeaseState, Leases!OnLoan, Worlds, GPUStatus

(* A step that only lends free GPUs and questions holders serves the queue.*)
LEMMA Serving ==
  ASSUME NEW w, Safe(w), IInv',
         \A g \in GPUs :
           \/ /\ assignedJob'[g] = w.assignedJob[g]
              /\ assignedJob'[g] = NoJob => gpuStatus'[g] = w.gpuStatus[g]
           \/ g \in Available(w) /\ assignedJob'[g] \in Jobs
  PROVE  Leases!ServeFrom(View(w))
<1>0. Safe(World') /\ World'.assignedJob = assignedJob' /\ World'.gpuStatus = gpuStatus'
  BY DEF IInv, World
<1>1. LeaseView' = View(World')
  BY <1>0 DEF LeaseView, View
<1>2. ASSUME NEW g \in GPUs PROVE Leases!Served(View(w)[g], LeaseView'[g])
  <2>1. /\ View(w)[g].job = w.assignedJob[g]
        /\ w.assignedJob[g] # NoJob <=> Leases!OnLoan(View(w)[g])
        /\ w.gpuStatus[g] = "IDLE" => View(w)[g].state = "free"
    BY OnLoanIffHeld DEF Safe
  <2>2. /\ LeaseView'[g].job = assignedJob'[g]
        /\ assignedJob'[g] # NoJob <=> Leases!OnLoan(LeaseView'[g])
    BY <1>0, <1>1, OnLoanIffHeld DEF Safe
  <2>3. CASE assignedJob'[g] = w.assignedJob[g] /\ assignedJob'[g] # NoJob
    BY <2>1, <2>2, <2>3 DEF Leases!Served
  <2>4. CASE assignedJob'[g] = w.assignedJob[g] /\ gpuStatus'[g] = w.gpuStatus[g]
    <3>1. View(w)[g] = LeaseView'[g]
      BY <1>0, <1>1, <2>4 DEF View
    <3>2. QED
      BY <3>1 DEF Leases!Served
  <2>5. CASE g \in Available(w) /\ assignedJob'[g] \in Jobs
    <3>1. w.gpuStatus[g] = "IDLE"
      BY <2>5 DEF Available
    <3>2. QED
      BY <2>1, <2>2, <2>5, <3>1, SchedulerAssumption DEF Leases!Served
  <2>6. QED
    BY <2>3, <2>4, <2>5
<1>3. DOMAIN LeaseView' = GPUs
  BY DEF LeaseView
<1>4. QED
  BY <1>2, <1>3 DEF Leases!ServeFrom

(* A pass of try_allocate_all serves the queue of the abstract             *)
(* specification.                                                          *)
LEMMA PassServes ==
  ASSUME NEW w, Safe(w), Orderly(w), AllocateFrom(w)
  PROVE  Leases!ServeFrom(View(w))
<1>1. IInv'
  BY AllocateFromIInv
<1>2. QED
  BY <1>1, Serving, AllocateFromSteps

(* A lost GPU is the end of one loan.                                      *)
LEMMA ViewOfLoss ==
  ASSUME NEW w, Safe(w), NEW v, NEW g \in GPUs, NEW status \in {"IDLE", "UNAVAILABLE"},
         Loss(w, v, g, status)
  PROVE  View(v) = [View(w) EXCEPT ![g] = IF status = "IDLE" THEN Leases!Free ELSE Leases!Out]
  BY DEF Loss, View, LeaseState, Leases!Free, Leases!Out, Safe, Worlds

(* Initially every GPU is free.                                            *)
LEMMA InitLeases == Init => Leases!Init
  BY DEF Init, Leases!Init, LeaseView, LeaseState, Leases!Free

(* Every operation is a step of the abstract specification, or none.       *)
LEMMA NextLeases ==
  ASSUME IInv, IInv', [Next]_vars
  PROVE  [Leases!Next]_LeaseView
<1> USE WorldFields, ViewOfWorld
<1>0. Safe(World) /\ Orderly(World)
  BY DEF IInv
<1>1. CASE TryAllocateAll
  BY <1>0, <1>1, PassServes DEF TryAllocateAll, Leases!Next, Leases!Serve
<1>2. CASE \E g \in GPUs : ForceReclaim(g)
  <2>1. PICK g \in GPUs : ForceReclaim(g)
    BY <1>2
  <2>2. /\ Safe(TakenBack(World, g)) /\ Orderly(TakenBack(World, g))
        /\ Loss(World, TakenBack(World, g), g, "IDLE")
    BY <1>0, <2>1, TakenBackSound DEF ForceReclaim
  <2>3. View(TakenBack(World, g)) = [LeaseView EXCEPT ![g] = Leases!Free]
    BY <1>0, <2>2, ViewOfLoss
  <2>4. Leases!OnLoan(LeaseView[g])
    <3>1. assignedJob[g] # NoJob
      BY <1>0, <2>1 DEF ForceReclaim, Safe, Owned
    <3>2. QED
      BY <1>0, <3>1, OnLoanIffHeld DEF Safe
  <2>5. Leases!Override(g)
    BY <2>1, <2>2, <2>3, <2>4, PassServes DEF ForceReclaim, Leases!Override
  <2>6. QED
    BY <2>5 DEF Leases!Next
<1>3. CASE \E g \in GPUs : HandleGpuFailure(g)
  <2>1. PICK g \in GPUs : HandleGpuFailure(g)
    BY <1>3
  <2>2. /\ Safe(Lost(World, g)) /\ Orderly(Lost(World, g))
        /\ Loss(World, Lost(World, g), g, "UNAVAILABLE")
    BY <1>0, LostSound
  <2>3. View(Lost(World, g)) = [LeaseView EXCEPT ![g] = Leases!Out]
    BY <1>0, <2>2, ViewOfLoss
  <2>4. Leases!Fail(g)
    BY <2>1, <2>2, <2>3, PassServes DEF HandleGpuFailure, Leases!Fail
  <2>5. QED
    BY <2>4 DEF Leases!Next
<1>4. CASE \E g \in GPUs : ClearGpuMaintenance(g) \/ RecoverGpuFailure(g)
  <2>1. PICK g \in GPUs : /\ gpuStatus[g] \in {"MAINTENANCE", "UNAVAILABLE"}
                         /\ AllocateFrom(SetGpuStatus(World, g, "IDLE"))
    BY <1>4 DEF ClearGpuMaintenance, RecoverGpuFailure
  <2> DEFINE v == SetGpuStatus(World, g, "IDLE")
  <2>2. World.assignedJob[g] = NoJob
    BY <1>0, <2>1 DEF Safe, Marked
  <2>3. Safe(v) /\ Orderly(v)
    BY <1>0, <2>2, SetGpuStatusSound
  <2>4. View(v) = [LeaseView EXCEPT ![g] = Leases!Free]
    BY <1>0, <2>2 DEF SetGpuStatus, View, LeaseView, LeaseState, Leases!Free, Safe, Worlds
  <2>5. LeaseView[g].state = "out"
    BY <1>0, <2>1, OnLoanIffHeld DEF Safe
  <2>6. Leases!Return(g)
    BY <2>1, <2>3, <2>4, <2>5, PassServes DEF Leases!Return
  <2>7. QED
    BY <2>6 DEF Leases!Next
<1>5. CASE \E j \in Jobs : \E isCritical \in Levels(j) : ChangeJobPriority(j, isCritical)
  <2>1. PICK j \in Jobs, isCritical \in BOOLEAN : ChangeJobPriority(j, isCritical)
    BY <1>5 DEF Levels
  <2> DEFINE js == IF isCritical THEN World.critical \cup {j} ELSE World.critical \ {j}
             v == [World EXCEPT !.critical = js]
  <2>2. AllocateFrom(v)
    BY <2>1 DEF ChangeJobPriority
  <2>3. js \in SUBSET Jobs
    BY <1>0 DEF Safe, Worlds
  <2>4. Safe(v)
    BY <1>0, <2>3, SetCriticalSafe
  <2>5. /\ v.jobStatus = World.jobStatus /\ v.jobGpus = World.jobGpus /\ v.fifo = World.fifo
        /\ v.assignedJob = World.assignedJob /\ v.gpuStatus = World.gpuStatus
    BY <1>0 DEF Safe, Worlds
  <2> HIDE DEF v
  <2>6. Orderly(v)
    BY <1>0, <2>5, SameLives
  <2>7. View(v) = LeaseView
    BY <2>5 DEF View, LeaseView
  <2>8. QED
    BY <2>2, <2>4, <2>6, <2>7, PassServes DEF Leases!Next, Leases!Serve
<1>6. CASE AQuestion
  <2>1. Leases!ServeFrom(View(World))
    BY <1>0, <1>6, QuestionEffect, Serving
  <2>2. QED
    BY <2>1 DEF Leases!Next, Leases!Serve
<1>7. CASE \E g \in GPUs : RespondNo(g) \/ CheckTimeout(g)
  <2>1. PICK g \in GPUs : LossStep(g, "IDLE") /\ prompt[g] # NoPrompt
    BY <1>7, ReclaimLoss
  <2>2. LeaseView[g].state = "asked"
    BY <1>0, <2>1, OnLoanIffHeld DEF Safe, Marked
  <2>3. LeaseView' = [LeaseView EXCEPT ![g] = Leases!Free]
    BY <1>0, <2>1 DEF LossStep, LeaseView, LeaseState, Leases!Free, Safe, Worlds
  <2>4. Leases!Yield(g)
    BY <2>2, <2>3 DEF Leases!Yield
  <2>5. QED
    BY <2>4 DEF Leases!Next
<1>8. CASE \E g \in GPUs : \E j \in Jobs : \E isCritical \in Levels(j) :
             ManualAssignGpu(g, j, isCritical)
  <2>1. PICK g \in GPUs, j \in Jobs, isCritical \in BOOLEAN : ManualAssignGpu(g, j, isCritical)
    BY <1>8 DEF Levels
  <2>2. /\ gpuStatus' = [gpuStatus EXCEPT ![g] = "ACTIVE"]
        /\ assignedJob' = [assignedJob EXCEPT ![g] = j]
    BY <2>1, ManualEffect
  <2>3. LeaseView' = [LeaseView EXCEPT ![g] = Leases!Held(j)]
    BY <1>0, <2>2 DEF LeaseView, LeaseState, Leases!Held, Safe, Worlds
  <2>4. ~ Leases!OnLoan(LeaseView[g])
    <3>1. assignedJob[g] = NoJob
      BY <1>0, <2>1, HolderOf, SchedulerAssumption DEF ManualAssignGpu
    <3>2. QED
      BY <1>0, <3>1, OnLoanIffHeld DEF Safe
  <2>5. Leases!Place(g, j)
    BY <2>3, <2>4 DEF Leases!Place
  <2>6. QED
    BY <2>5 DEF Leases!Next
<1>9. CASE \E j \in Jobs : CompleteJob(j)
  <2>1. PICK j \in Jobs : CompleteJob(j)
    BY <1>9
  <2>2. \A g \in GPUs : g \in jobGpus[j] <=> LeaseView[g].job = j
    BY <1>0 DEF LeaseView, Safe, Owned
  <2>3. LeaseView' = [g \in GPUs |-> IF LeaseView[g].job = j THEN Leases!Free ELSE LeaseView[g]]
    BY <2>1, <2>2, CompleteEffect DEF LeaseView, LeaseState, Leases!Free
  <2>4. Leases!Finish(j)
    BY <2>3 DEF Leases!Finish
  <2>5. QED
    BY <2>4 DEF Leases!Next
<1>10. CASE \E g \in GPUs : SetGpuMaintenance(g)
  <2>1. PICK g \in GPUs : SetGpuMaintenance(g)
    BY <1>10
  <2>2. assignedJob[g] = NoJob
    BY <1>0, <2>1, HolderOf, SchedulerAssumption DEF SetGpuMaintenance
  <2>3. LeaseView' = [LeaseView EXCEPT ![g] = Leases!Out]
    <3>1. assignedJob' = assignedJob /\ gpuStatus' = [gpuStatus EXCEPT ![g] = "MAINTENANCE"]
      BY <2>1, MaintenanceEffect
    <3>2. gpuStatus \in [GPUs -> GPUStatus]
      BY <1>0 DEF Safe, Worlds
    <3>3. QED
      BY <2>2, <3>1, <3>2 DEF LeaseView, LeaseState, Leases!Out
  <2>4. ~ Leases!OnLoan(LeaseView[g])
    BY <1>0, <2>2, OnLoanIffHeld DEF Safe
  <2>5. Leases!Park(g)
    BY <2>3, <2>4 DEF Leases!Park
  <2>6. QED
    BY <2>5 DEF Leases!Next
<1>11. CASE UNCHANGED vars
  BY <1>11 DEF vars, LeaseView
<1>12. QED
  BY <1>1, <1>2, <1>3, <1>4, <1>5, <1>6, <1>7, <1>8, <1>9, <1>10, <1>11 DEF Next, AQuestion

(* Every behaviour of the scheduler is one of GPULeases: a loan ends only  *)
(* when its job does, when its holder was asked, or one GPU at a time by   *)
(* an administrator or a failure.                                          *)
THEOREM ImplementsLeases == Spec => LeaseContract
<1>1. Init => Leases!Init
  BY InitLeases
<1>2. IInv /\ IInv' /\ [Next]_vars => [Leases!Next]_LeaseView
  BY NextLeases
<1>3. QED
  BY <1>1, <1>2, Invariance, PTL DEF Spec, LeaseContract, Leases!Spec
=============================================================================
