-------------------------- MODULE SchedulerProofs --------------------------
(***************************************************************************)
(* The invariants of Scheduler hold for any pool of GPUs, any jobs, users  *)
(* and priorities. The inductive invariant IInv is stated of a world, the  *)
(* value an operation computes with, so that each helper of the code has a *)
(* lemma of its own and an operation is proved as the composition of its   *)
(* helpers, also in the middle of the operation. Safe is about who holds   *)
(* what and which prompts are pending; Orderly is about the sizes,         *)
(* statuses and FIFO entries of jobs.                                      *)
(***************************************************************************)
EXTENDS Consistency, FiniteSetTheorems, TLAPS

(* The types, and the parts of Safe: ownership, statuses, prompts.         *)
Worlds ==
  [gpuStatus : [GPUs -> GPUStatus],
   assignedJob : [GPUs -> Jobs \cup {NoJob}],
   assignedUser : [GPUs -> Users \cup {NoUser}],
   jobStatus : [Jobs -> JobStatus],
   jobGpus : [Jobs -> SUBSET GPUs],
   critical : SUBSET Jobs,
   userGpus : [Users -> SUBSET GPUs],
   runningJobs : [Users -> SUBSET Jobs],
   userIndex : [Users -> SUBSET GPUs],
   fifo : [Jobs -> Nat],
   prompt : [GPUs -> Prompt],
   declined : [GPUs -> SUBSET Jobs],
   cooldown : SUBSET GPUs]

Owned(w) ==
  /\ \A g \in GPUs, j \in Jobs : g \in w.jobGpus[j] <=> w.assignedJob[g] = j
  /\ \A g \in GPUs :
       w.assignedUser[g] = IF w.assignedJob[g] = NoJob THEN NoUser ELSE Owner[w.assignedJob[g]]
  /\ \A g \in GPUs, u \in Users : g \in w.userGpus[u] <=> w.assignedUser[g] = u
  /\ \A u \in Users : w.userIndex[u] \subseteq w.userGpus[u]

Marked(w) ==
  \A g \in GPUs :
    /\ w.assignedJob[g] # NoJob <=> w.gpuStatus[g] \in {"ACTIVE", "IDLE_WARNING"}
    /\ w.prompt[g] # NoPrompt <=> w.gpuStatus[g] = "IDLE_WARNING"

Addressed(w) == \A g \in GPUs : w.prompt[g] # NoPrompt => w.prompt[g].asked = w.assignedJob[g]

Spared(w) ==
  \A g \in GPUs : IsRequest(w.prompt[g]) =>
    /\ w.prompt[g].by \in Jobs
    /\ w.assignedUser[g] # Owner[w.prompt[g].by]
    /\ w.prompt[g].by \notin w.declined[g]
    /\ g \notin w.cooldown

Safe(w) == w \in Worlds /\ Owned(w) /\ Marked(w) /\ Addressed(w) /\ Spared(w)

(* _assign_gpu keeps the types.                                            *)
LEMMA AssignTyped ==
  ASSUME NEW w \in Worlds, NEW S \in SUBSET GPUs, NEW plan \in [S -> Jobs]
  PROVE  Assign(w, plan) \in Worlds
  BY SchedulerAssumption DEF Worlds, Assign, GPUStatus, JobStatus, Filled, Given

(* Committing free GPUs to jobs keeps the records of ownership in step;    *)
(* this is what the commit of a pass and of a manual assignment rest on.   *)
LEMMA AssignSafe ==
  ASSUME NEW w, Safe(w), NEW S \in SUBSET GPUs, NEW plan \in [S -> Jobs],
         \A g \in S : w.assignedUser[g] = NoUser
  PROVE  Safe(Assign(w, plan))
<1> DEFINE v == Assign(w, plan)
<1>0. \A g \in S : w.assignedJob[g] = NoJob
  BY SchedulerAssumption DEF Safe, Owned, Worlds
<1>1. v \in Worlds
  BY AssignTyped DEF Safe
<1>2. Owned(v)
  BY <1>0, SchedulerAssumption DEF Safe, Owned, Assign, Worlds, Given
<1>3. Marked(v)
  BY <1>0, SchedulerAssumption DEF Safe, Marked, Assign, Worlds, Given
<1>4. Addressed(v)
  BY <1>0, SchedulerAssumption DEF Safe, Marked, Addressed, Assign, Worlds, Given
<1>5. Spared(v)
  BY <1>0, SchedulerAssumption DEF Safe, Marked, Spared, Assign, Worlds, Given, IsRequest, NoPrompt
<1>6. QED
  BY <1>1, <1>2, <1>3, <1>4, <1>5 DEF Safe

(* A request names a requester of another user, not refused and not barred.*)
Askable(w, g, r) ==
  /\ r.by \in Jobs
  /\ w.assignedUser[g] # Owner[r.by]
  /\ r.by \notin w.declined[g]
  /\ g \notin w.cooldown

(* A prompt raised on a held GPU that has none keeps the state sound,      *)
(* provided a request obeys _eligible_candidate.                           *)
LEMMA RaiseSafe ==
  ASSUME NEW w, Safe(w), NEW S \in SUBSET GPUs,
         NEW asks \in [S -> [kind : {"usage", "excess", "contest"}, by : Jobs \cup {NoJob}]],
         \A g \in S : /\ w.prompt[g] = NoPrompt
                      /\ w.assignedJob[g] # NoJob
                      /\ asks[g].kind # "usage" => Askable(w, g, asks[g])
  PROVE  Safe(Raise(w, asks))
<1> DEFINE v == Raise(w, asks)
<1>1. v \in Worlds
  BY SchedulerAssumption DEF Safe, Worlds, Raise, GPUStatus, Prompt
<1>2. Owned(v)
  BY DEF Safe, Owned, Raise, Worlds
<1>3. Marked(v)
  BY SchedulerAssumption DEF Safe, Marked, Raise, Worlds, NoPrompt
<1>4. Addressed(v)
  BY DEF Safe, Addressed, Raise, Worlds, NoPrompt
<1>5. Spared(v)
  BY DEF Safe, Spared, Raise, Worlds, IsRequest, Askable
<1>6. QED
  BY <1>1, <1>2, <1>3, <1>4, <1>5 DEF Safe

(* Withdrawing the requests of some jobs puts their GPUs back to ACTIVE    *)
(* under the same holders.                                                 *)
LEMMA CancelRequestsSafe ==
  ASSUME NEW w, Safe(w), NEW js \in SUBSET Jobs
  PROVE  Safe(CancelRequests(w, js))
<1> DEFINE v == CancelRequests(w, js)
<1>0. \A g \in RequestsOf(w, js) : g \in GPUs /\ w.prompt[g] # NoPrompt
  BY DEF RequestsOf, IsRequest, NoPrompt
<1>1. v \in Worlds
  BY <1>0 DEF Safe, Worlds, CancelRequests, ClearWatch, GPUStatus, Prompt, NoPrompt
<1>2. Owned(v)
  BY DEF Safe, Owned, CancelRequests, ClearWatch, Worlds
<1>3. Marked(v)
  BY <1>0 DEF Safe, Marked, CancelRequests, ClearWatch, Worlds
<1>4. Addressed(v)
  BY DEF Safe, Addressed, CancelRequests, ClearWatch, Worlds
<1>5. Spared(v)
  BY DEF Safe, Spared, CancelRequests, ClearWatch, Worlds, IsRequest, NoPrompt
<1>6. QED
  BY <1>1, <1>2, <1>3, <1>4, <1>5 DEF Safe

(* The GPUs of S are exactly held by j for u, or free when there is no j.  *)
Holds(w, S, j, u) ==
  /\ j \in Jobs \cup {NoJob}
  /\ u = IF j = NoJob THEN NoUser ELSE Owner[j]
  /\ \A g \in S : w.assignedJob[g] = j

(* The release paths leave no record of the GPUs they free, nor a prompt   *)
(* on them.                                                                *)
LEMMA FreedSafe ==
  ASSUME NEW w, Safe(w), NEW S \in SUBSET GPUs, NEW j, NEW u, Holds(w, S, j, u),
         NEW status \in {"IDLE", "UNAVAILABLE"}
  PROVE  Safe(Freed(w, S, j, u, status))
<1> DEFINE v == Freed(w, S, j, u, status)
<1>1. v \in Worlds
  BY DEF Safe, Worlds, Freed, Release, ClearWatch, GPUStatus, Prompt, NoPrompt
<1>2. Owned(v)
  <2>0. \A g \in S : w.assignedJob[g] = j /\ w.assignedUser[g] = u
    BY DEF Safe, Owned, Holds
  <2>1. \A g \in GPUs, k \in Jobs : g \in v.jobGpus[k] <=> v.assignedJob[g] = k
    BY <2>0, SchedulerAssumption DEF Safe, Owned, Freed, Release, ClearWatch, Worlds
  <2>2. \A g \in GPUs :
          v.assignedUser[g] = IF v.assignedJob[g] = NoJob THEN NoUser ELSE Owner[v.assignedJob[g]]
    BY <2>0 DEF Safe, Owned, Freed, Release, ClearWatch, Worlds
  <2>3. \A g \in GPUs, x \in Users : g \in v.userGpus[x] <=> v.assignedUser[g] = x
    BY <2>0, SchedulerAssumption DEF Safe, Owned, Freed, Release, ClearWatch, Worlds
  <2>4. \A x \in Users : v.userIndex[x] \subseteq v.userGpus[x]
    BY DEF Safe, Owned, Freed, Release, ClearWatch, Worlds
  <2>5. QED
    BY <2>1, <2>2, <2>3, <2>4 DEF Owned
<1>3. Marked(v)
  BY DEF Safe, Marked, Freed, Release, ClearWatch, Worlds
<1>4. Addressed(v)
  BY DEF Safe, Addressed, Freed, Release, ClearWatch, Worlds
<1>5. Spared(v)
  BY SchedulerAssumption DEF Safe, Spared, Freed, Release, ClearWatch, Worlds, IsRequest, NoPrompt
<1>6. QED
  BY <1>1, <1>2, <1>3, <1>4, <1>5 DEF Safe

(* The fields no part of Safe but the types reads may change freely, and a *)
(* cooldown may end.                                                       *)
LEMMA BookkeepingSafe ==
  ASSUME NEW w, Safe(w), NEW v \in Worlds,
         v.gpuStatus = w.gpuStatus, v.assignedJob = w.assignedJob,
         v.assignedUser = w.assignedUser, v.jobGpus = w.jobGpus,
         v.userGpus = w.userGpus, v.userIndex = w.userIndex,
         v.prompt = w.prompt, v.declined = w.declined, v.cooldown \subseteq w.cooldown
  PROVE  Safe(v)
  BY DEF Safe, Owned, Marked, Addressed, Spared

(* Losing its place in User.running_job_ids concerns no other record.      *)
LEMMA DropRunningSafe ==
  ASSUME NEW w, Safe(w), NEW j, NEW u
  PROVE  Safe(DropRunning(w, j, u))
<1>1. DropRunning(w, j, u) \in Worlds
  BY DEF Safe, DropRunning, Worlds
<1>2. QED
  BY <1>1, BookkeepingSafe DEF Safe, DropRunning, Worlds

(* Neither does the status of a job.                                       *)
LEMMA SetJobStatusSafe ==
  ASSUME NEW w, Safe(w), NEW j \in Jobs, NEW status \in JobStatus
  PROVE  Safe(SetJobStatus(w, j, status))
<1>1. SetJobStatus(w, j, status) \in Worlds
  BY DEF Safe, SetJobStatus, Worlds
<1>2. QED
  BY <1>1, BookkeepingSafe DEF Safe, SetJobStatus, Worlds

(* Neither does an entry of the FIFO.                                      *)
LEMMA EnqueueSafe ==
  ASSUME NEW w, Safe(w), NEW j \in Jobs
  PROVE  Safe(Enqueue(w, j))
<1>1. [w.fifo EXCEPT ![j] = w.fifo[j] + 1] \in [Jobs -> Nat]
  <2>1. w.fifo \in [Jobs -> Nat]
    BY DEF Safe, Worlds
  <2>2. QED
    BY <2>1
<1>2. Enqueue(w, j) \in Worlds
  BY <1>1 DEF Safe, Enqueue, Worlds
<1>3. QED
  BY <1>2, BookkeepingSafe DEF Safe, Enqueue, Worlds

(* Neither does requeue_job.                                               *)
LEMMA RequeueJobSafe ==
  ASSUME NEW w, Safe(w), NEW j \in Jobs
  PROVE  Safe(RequeueJob(w, j))
BY EnqueueSafe DEF RequeueJob

(* Neither does the priority of a job.                                     *)
LEMMA SetCriticalSafe ==
  ASSUME NEW w, Safe(w), NEW js \in SUBSET Jobs
  PROVE  Safe([w EXCEPT !.critical = js])
<1>1. [w EXCEPT !.critical = js] \in Worlds
  BY DEF Safe, Worlds
<1>2. QED
  BY <1>1, BookkeepingSafe DEF Safe, Worlds

(* submit_job touches no GPU.                                              *)
LEMMA SubmittedSafe ==
  ASSUME NEW w, Safe(w), NEW j \in Jobs, NEW isCritical \in BOOLEAN
  PROVE  Safe(Submitted(w, j, isCritical))
<1> DEFINE waiting == SetJobStatus(w, j, "WAITING")
           marked == IF isCritical THEN waiting.critical \cup {j} ELSE waiting.critical
<1>1. Safe(waiting)
  BY SetJobStatusSafe DEF JobStatus
<1>2. marked \in SUBSET Jobs
  BY <1>1 DEF Safe, Worlds
<1>3. Safe([waiting EXCEPT !.critical = marked])
  BY <1>1, <1>2, SetCriticalSafe
<1>4. QED
  BY <1>3, EnqueueSafe DEF Submitted

(* A GPU nobody holds may be parked and put back.                          *)
LEMMA SetGpuStatusSafe ==
  ASSUME NEW w, Safe(w), NEW g \in GPUs, w.assignedJob[g] = NoJob,
         NEW status \in {"IDLE", "MAINTENANCE"}
  PROVE  Safe(SetGpuStatus(w, g, status))
<1> DEFINE v == SetGpuStatus(w, g, status)
<1>1. v \in Worlds
  BY DEF Safe, SetGpuStatus, Worlds, GPUStatus
<1>2. Owned(v) /\ Addressed(v) /\ Spared(v)
  BY DEF Safe, Owned, Addressed, Spared, SetGpuStatus, Worlds
<1>3. Marked(v)
  BY DEF Safe, Marked, SetGpuStatus, Worlds
<1>4. QED
  BY <1>1, <1>2, <1>3 DEF Safe

-----------------------------------------------------------------------------
(* The life of a job.                                                      *)

Sized(w) ==
  \A j \in Jobs :
    /\ Cardinality(w.jobGpus[j]) <= Count[j]
    /\ w.jobStatus[j] = "RUNNING" => w.jobGpus[j] # {}
    /\ w.jobStatus[j] = "WAITING" => Cardinality(w.jobGpus[j]) < Count[j]
    /\ w.jobStatus[j] \in {"NEW", "COMPLETED", "RECLAIMED"} => w.jobGpus[j] = {}

Queued(w) ==
  \A j \in Jobs :
    /\ w.fifo[j] <= 1
    /\ w.jobStatus[j] = "WAITING" => w.fifo[j] = 1
    /\ w.jobStatus[j] \notin {"WAITING", "RECLAIMED"} => w.fifo[j] = 0

Orderly(w) == Sized(w) /\ Queued(w)

Fits(w, plan) ==
  \A j \in WaitingInFifo(w) : Cardinality(Given(plan, j)) <= StillNeeded(w, j)

(* Sets of GPUs are finite, so their cardinalities compare as numbers.     *)
LEMMA GpuSets ==
  ASSUME NEW T \in SUBSET GPUs, NEW S \in SUBSET T
  PROVE  /\ IsFiniteSet(S)
         /\ Cardinality(S) \in Nat
         /\ Cardinality(S) <= Cardinality(T)
         /\ S = {} <=> Cardinality(S) = 0
<1>1. IsFiniteSet(T) /\ IsFiniteSet(S)
  BY FS_Subset, SchedulerAssumption
<1>2. QED
  BY <1>1, FS_Subset, FS_CardinalityType, FS_EmptySet

(* A commit that gives no job more than it still needs keeps the sizes of  *)
(* jobs and the FIFO in order: a job is RUNNING and out of the FIFO        *)
(* exactly when it is full.                                                *)
LEMMA AssignOrderly ==
  ASSUME NEW w, Safe(w), Orderly(w), NEW S \in SUBSET GPUs,
         NEW plan \in [S -> WaitingInFifo(w)], Fits(w, plan)
  PROVE  Orderly(Assign(w, plan))
<1> DEFINE v == Assign(w, plan)
<1> SUFFICES ASSUME NEW j \in Jobs
             PROVE  /\ Cardinality(v.jobGpus[j]) <= Count[j]
                    /\ v.jobStatus[j] = "RUNNING" => v.jobGpus[j] # {}
                    /\ v.jobStatus[j] = "WAITING" => Cardinality(v.jobGpus[j]) < Count[j]
                    /\ v.jobStatus[j] \in {"NEW", "COMPLETED", "RECLAIMED"} => v.jobGpus[j] = {}
                    /\ v.fifo[j] <= 1
                    /\ v.jobStatus[j] = "WAITING" => v.fifo[j] = 1
                    /\ v.jobStatus[j] \notin {"WAITING", "RECLAIMED"} => v.fifo[j] = 0
  BY DEF Orderly, Sized, Queued
<1> USE DEF WaitingInFifo
<1>1. /\ v.jobGpus[j] = w.jobGpus[j] \cup Given(plan, j)
      /\ v.jobStatus[j] = IF j \in Filled(w, plan) THEN "RUNNING" ELSE w.jobStatus[j]
      /\ v.fifo[j] = IF j \in Filled(w, plan) THEN 0 ELSE w.fifo[j]
  BY DEF Safe, Assign, Worlds
<1>2. CASE Given(plan, j) = {}
  <2>1. j \notin Filled(w, plan) /\ v.jobGpus[j] = w.jobGpus[j]
    BY <1>1, <1>2 DEF Filled
  <2>2. QED
    BY <1>1, <2>1 DEF Orderly, Sized, Queued
<1>3. CASE Given(plan, j) # {}
  <2> DEFINE before == w.jobGpus[j]
             more == Given(plan, j)
  <2>1. j \in WaitingInFifo(w)
    BY <1>3 DEF Given
  <2>2. before \in SUBSET GPUs /\ more \in SUBSET GPUs
    BY DEF Safe, Worlds, Given
  <2>3. /\ Cardinality(before \cup more) <= Cardinality(before) + Cardinality(more)
        /\ Cardinality(before) \in Nat
        /\ Cardinality(more) \in Nat
        /\ Cardinality(before \cup more) \in Nat
        /\ Cardinality(before \cap more) \in Nat
    <3>1. /\ IsFiniteSet(before) /\ IsFiniteSet(more)
          /\ Cardinality(before) \in Nat
          /\ Cardinality(more) \in Nat
          /\ Cardinality(before \cup more) \in Nat
          /\ Cardinality(before \cap more) \in Nat
      BY <2>2, GpuSets
    <3>2. Cardinality(before \cup more)
            = Cardinality(before) + Cardinality(more) - Cardinality(before \cap more)
      BY <3>1, FS_Union
    <3>3. QED
      BY <3>1, <3>2
  <2>4. Cardinality(before) < Count[j] /\ w.fifo[j] = 1 /\ w.jobStatus[j] = "WAITING"
    BY <2>1 DEF Orderly, Sized, Queued
  <2>5. Cardinality(more) <= Count[j] - Cardinality(before)
    BY <2>1, <2>3, <2>4, SchedulerAssumption DEF Fits, StillNeeded
  <2>6. Count[j] \in Nat
    BY SchedulerAssumption
  <2>7. Cardinality(v.jobGpus[j]) <= Count[j]
    BY <1>1, <2>3, <2>5, <2>6
  <2>8. v.jobGpus[j] # {}
    BY <1>1, <1>3
  <2>9. j \in Filled(w, plan) <=> ~ (Cardinality(v.jobGpus[j]) < Count[j])
    BY <1>1, <1>3, <2>3, <2>6 DEF Filled
  <2>10. QED
    BY <1>1, <2>4, <2>7, <2>8, <2>9
<1>4. QED
  BY <1>2, <1>3

(* Steps that change nothing of a job but GPUs' prompts and records.       *)
LEMMA SameLives ==
  ASSUME NEW w, Orderly(w), NEW v,
         v.jobGpus = w.jobGpus, v.jobStatus = w.jobStatus, v.fifo = w.fifo
  PROVE  Orderly(v)
  BY DEF Orderly, Sized, Queued

(* Raising a prompt is such a step.                                        *)
LEMMA RaiseOrderly ==
  ASSUME NEW w, w \in Worlds, Orderly(w), NEW asks
  PROVE  Orderly(Raise(w, asks))
  BY SameLives DEF Raise, Worlds

(* Withdrawing requests is such a step.                                    *)
LEMMA CancelRequestsOrderly ==
  ASSUME NEW w, w \in Worlds, Orderly(w), NEW js
  PROVE  Orderly(CancelRequests(w, js))
  BY SameLives DEF CancelRequests, ClearWatch, Worlds

-----------------------------------------------------------------------------
(* The inductive invariant and the steps.                                  *)

IInv == Safe(World) /\ Orderly(World)

(* A step to a sound world establishes the inductive invariant.            *)
LEMMA BecomeIInv ==
  ASSUME NEW w, Safe(w), Orderly(w), Become(w)
  PROVE  IInv'
<1>1. World' = w
  BY DEF Become, World, Safe, Worlds
<1>2. QED
  BY <1>1 DEF IInv

(* The pass of try_allocate_all, from any sound state.                     *)
LEMMA AllocateFromIInv ==
  ASSUME NEW w, Safe(w), Orderly(w), AllocateFrom(w)
  PROVE  IInv'
<1>0. PICK plan \in Plans(w) :
        \E asks \in Asks(Routed(w, plan)) : Become(Raise(Routed(w, plan), asks))
  BY DEF AllocateFrom
<1>1. PICK asks \in Asks(Routed(w, plan)) : Become(Raise(Routed(w, plan), asks))
  BY <1>0
<1> DEFINE v == Routed(w, plan)
<1>2. PICK S \in SUBSET Available(w) : plan \in [S -> WaitingInFifo(w)]
  BY DEF Plans
<1>3. S \in SUBSET GPUs /\ plan \in [S -> Jobs] /\ \A g \in S : w.assignedUser[g] = NoUser
  BY <1>2 DEF Available, WaitingInFifo
<1>4. Fits(w, plan)
  BY DEF Plans, Fits
<1>5. Safe(v)
  <2>1. Safe(Assign(w, plan))
    BY <1>3, AssignSafe
  <2>2. Filled(w, plan) \in SUBSET Jobs
    BY DEF Filled
  <2>3. QED
    BY <2>1, <2>2, CancelRequestsSafe DEF Routed
<1>6. Orderly(v)
  <2>1. Orderly(Assign(w, plan))
    BY <1>2, <1>3, <1>4, AssignOrderly
  <2>2. Assign(w, plan) \in Worlds
    BY <1>3, AssignTyped DEF Safe
  <2>3. QED
    BY <2>1, <2>2, CancelRequestsOrderly DEF Routed
<1>7. PICK T \in SUBSET GPUs : asks \in [T -> Requests]
  BY <1>1 DEF Asks
<1>8. \A g \in T : MayAsk(v, g, asks[g])
  BY <1>1, <1>7 DEF Asks
<1>9. Safe(Raise(v, asks))
  <2>1. asks \in [T -> [kind : {"usage", "excess", "contest"}, by : Jobs \cup {NoJob}]]
    BY <1>7 DEF Requests
  <2>2. \A g \in T : /\ v.prompt[g] = NoPrompt
                     /\ v.assignedJob[g] # NoJob
                     /\ Askable(v, g, asks[g])
    BY <1>7, <1>8 DEF MayAsk, Askable, Requests
  <2>3. QED
    BY <1>5, <2>1, <2>2, RaiseSafe
<1>10. Orderly(Raise(v, asks))
  BY <1>5, <1>6, RaiseOrderly DEF Safe
<1>11. QED
  BY <1>1, <1>9, <1>10, BecomeIInv

(* A job that loses GPUs keeps its status while it has some left, and ends *)
(* or waits again in the queue when it has none.                           *)
Settled(w, v, j) ==
  \/ v.jobGpus[j] # {} /\ v.jobStatus[j] = w.jobStatus[j] /\ v.fifo[j] = w.fifo[j]
  \/ v.jobGpus[j] = {} /\ v.jobStatus[j] = "RECLAIMED" /\ v.fifo[j] = w.fifo[j]
  \/ v.jobGpus[j] = {} /\ v.jobStatus[j] = "COMPLETED" /\ v.fifo[j] = 0
  \/ v.jobGpus[j] = {} /\ v.jobStatus[j] = "WAITING" /\ v.fifo[j] = 1

(* Every way to lose GPUs keeps sizes, statuses and the FIFO in order.     *)
LEMMA LosingOrderly ==
  ASSUME NEW w, Safe(w), Orderly(w), NEW v, NEW S \in SUBSET GPUs, NEW j \in Jobs,
         v.jobGpus[j] = w.jobGpus[j] \ S, Settled(w, v, j),
         \A k \in Jobs \ {j} : /\ v.jobGpus[k] = w.jobGpus[k]
                               /\ v.jobStatus[k] = w.jobStatus[k]
                               /\ v.fifo[k] = w.fifo[k]
  PROVE  Orderly(v)
<1> DEFINE Fine(k) == /\ Cardinality(v.jobGpus[k]) <= Count[k]
                      /\ v.jobStatus[k] = "RUNNING" => v.jobGpus[k] # {}
                      /\ v.jobStatus[k] = "WAITING" => Cardinality(v.jobGpus[k]) < Count[k]
                      /\ v.jobStatus[k] \in {"NEW", "COMPLETED", "RECLAIMED"} => v.jobGpus[k] = {}
                      /\ v.fifo[k] <= 1
                      /\ v.jobStatus[k] = "WAITING" => v.fifo[k] = 1
                      /\ v.jobStatus[k] \notin {"WAITING", "RECLAIMED"} => v.fifo[k] = 0
<1>1. ASSUME NEW k \in Jobs \ {j} PROVE Fine(k)
  BY DEF Orderly, Sized, Queued
<1>2. Fine(j)
  <2> DEFINE had == Cardinality(w.jobGpus[j])
             has == Cardinality(v.jobGpus[j])
  <2>1. had \in Nat /\ has \in Nat /\ has <= had /\ (v.jobGpus[j] = {} => has = 0)
    <3>1. w.jobGpus[j] \in SUBSET GPUs /\ v.jobGpus[j] \in SUBSET w.jobGpus[j]
      BY DEF Safe, Worlds
    <3>2. QED
      BY <3>1, GpuSets
  <2>2. Count[j] \in Nat /\ Count[j] > 0
    BY SchedulerAssumption
  <2>3. /\ had <= Count[j]
        /\ w.jobStatus[j] = "WAITING" => had < Count[j]
        /\ w.jobStatus[j] \in {"NEW", "COMPLETED", "RECLAIMED"} => w.jobGpus[j] = {}
        /\ w.fifo[j] <= 1
        /\ w.jobStatus[j] = "WAITING" => w.fifo[j] = 1
        /\ w.jobStatus[j] \notin {"WAITING", "RECLAIMED"} => w.fifo[j] = 0
    BY DEF Orderly, Sized, Queued
  <2> HIDE DEF had, has
  <2>4. has <= Count[j] /\ (w.jobStatus[j] = "WAITING" => has < Count[j])
    BY <2>1, <2>2, <2>3
  <2>5. v.jobGpus[j] = {} => has < Count[j]
    BY <2>1, <2>2
  <2>6. v.jobGpus[j] # {} => w.jobGpus[j] # {}
    OBVIOUS
  <2>7. QED
    BY <2>3, <2>4, <2>5, <2>6 DEF Settled, has
<1>3. QED
  BY <1>1, <1>2 DEF Orderly, Sized, Queued

(* What losing g does to whom and to what is lent; it cancels no job.      *)
Loss(w, v, g, status) ==
  /\ v.gpuStatus = [w.gpuStatus EXCEPT ![g] = status]
  /\ v.assignedJob = [w.assignedJob EXCEPT ![g] = NoJob]
  /\ v.critical = w.critical
  /\ \A k \in Jobs : k # w.assignedJob[g] => v.jobStatus[k] = w.jobStatus[k]
  /\ \A k \in Jobs : v.jobStatus[k] = "CANCELLED" => w.jobStatus[k] = "CANCELLED"

(* What a release changes of the jobs: the GPUs of one of them.            *)
LEMMA FreedFields ==
  ASSUME NEW w, w \in Worlds, NEW S \in SUBSET GPUs, NEW j, NEW u, NEW status
  PROVE  LET v == Freed(w, S, j, u, status) IN
         /\ v.jobStatus = w.jobStatus
         /\ v.fifo = w.fifo
         /\ v.critical = w.critical
         /\ v.jobGpus = [k \in Jobs |-> IF k = j THEN w.jobGpus[k] \ S ELSE w.jobGpus[k]]
  BY DEF Freed, Release, ClearWatch, Worlds

(* What a release changes of the GPUs it frees, and of no other.           *)
LEMMA FreedFrame ==
  ASSUME NEW w, w \in Worlds, NEW S \in SUBSET GPUs, NEW j, NEW u, NEW status
  PROVE  LET v == Freed(w, S, j, u, status) IN
         /\ v.gpuStatus = [h \in GPUs |-> IF h \in S THEN status ELSE w.gpuStatus[h]]
         /\ v.assignedJob = [h \in GPUs |-> IF h \in S THEN NoJob ELSE w.assignedJob[h]]
  BY DEF Freed, Release, ClearWatch, Worlds

(* A held GPU is held by one job for one user, in all the records.         *)
LEMMA HolderOf ==
  ASSUME NEW w, Safe(w), NEW g \in GPUs, w.assignedJob[g] # NoJob
  PROVE  /\ w.assignedJob[g] \in Jobs
         /\ w.assignedUser[g] \in Users
         /\ Holds(w, {g}, w.assignedJob[g], w.assignedUser[g])
  BY SchedulerAssumption DEF Safe, Worlds, Owned, Holds

(* A NO or an expired grace period, on any prompt, in every branch of      *)
(* _reclaim.                                                               *)
LEMMA ReclaimSound ==
  ASSUME NEW w, Safe(w), Orderly(w), NEW g \in GPUs, w.prompt[g] # NoPrompt
  PROVE  /\ Safe(Reclaim(w, g))
         /\ Orderly(Reclaim(w, g))
         /\ Loss(w, Reclaim(w, g), g, "IDLE")
<1> DEFINE p == w.prompt[g]
           j == w.assignedJob[g]
           u == w.assignedUser[g]
           freed == DropRunning(Freed(w, {g}, j, u, "IDLE"), j, u)
           settled == IF freed.jobGpus[j] # {} THEN freed
                      ELSE IF p.kind = "contest"
                           THEN RequeueJob(SetJobStatus(freed, j, "WAITING"), j)
                           ELSE SetJobStatus(freed, j, "RECLAIMED")
           v == Reclaim(w, g)
<1> HIDE DEF p, j, u, freed, settled, v
<1>1. j \in Jobs /\ u \in Users /\ Holds(w, {g}, j, u)
  BY HolderOf DEF Safe, Marked, j, u
<1>2. Safe(freed)
  BY <1>1, FreedSafe, DropRunningSafe DEF freed
<1>3. /\ freed.jobStatus = w.jobStatus
      /\ freed.fifo = w.fifo
      /\ freed.jobGpus = [k \in Jobs |-> IF k = j THEN w.jobGpus[k] \ {g} ELSE w.jobGpus[k]]
      /\ freed.prompt[g] = NoPrompt
  BY <1>1 DEF freed, Safe, DropRunning, Freed, Release, ClearWatch, Worlds
<1>4. Safe(settled)
  BY <1>1, <1>2, SetJobStatusSafe, RequeueJobSafe DEF settled, JobStatus
<1>5. /\ settled.jobGpus = freed.jobGpus
      /\ settled.prompt[g] = NoPrompt
      /\ Settled(w, settled, j)
      /\ \A k \in Jobs \ {j} : /\ settled.jobStatus[k] = w.jobStatus[k]
                               /\ settled.fifo[k] = w.fifo[k]
  <2>1. w.fifo[j] \in Nat /\ w.fifo[j] <= 1
    BY <1>1 DEF Safe, Worlds, Orderly, Queued
  <2>2. CASE freed.jobGpus[j] # {}
    BY <1>3, <2>2 DEF settled, Settled
  <2>3. CASE freed.jobGpus[j] = {} /\ p.kind = "contest"
    <3> DEFINE waiting == SetJobStatus(freed, j, "WAITING")
    <3>1. /\ waiting.jobGpus = freed.jobGpus
          /\ waiting.prompt = freed.prompt
          /\ waiting.fifo = w.fifo
          /\ waiting.jobStatus = [w.jobStatus EXCEPT ![j] = "WAITING"]
          /\ waiting \in Worlds
      BY <1>1, <1>2, <1>3, SetJobStatusSafe DEF SetJobStatus, Safe, Worlds, JobStatus
    <3> HIDE DEF waiting
    <3>2. settled = IF waiting.fifo[j] > 0 THEN waiting ELSE Enqueue(waiting, j)
      BY <2>3 DEF settled, waiting, RequeueJob
    <3>3. /\ settled.jobGpus = freed.jobGpus
          /\ settled.prompt = freed.prompt
          /\ settled.jobStatus = waiting.jobStatus
          /\ settled.fifo = IF w.fifo[j] > 0 THEN w.fifo ELSE [w.fifo EXCEPT ![j] = w.fifo[j] + 1]
      BY <1>1, <3>1, <3>2 DEF Enqueue, Worlds
    <3>4. settled.jobStatus[j] = "WAITING" /\ settled.fifo[j] = 1
      BY <1>1, <1>2, <1>3, <2>1, <3>1, <3>3 DEF Safe, Worlds
    <3>5. QED
      BY <1>1, <1>3, <2>3, <3>1, <3>3, <3>4 DEF Settled
  <2>4. CASE freed.jobGpus[j] = {} /\ p.kind # "contest"
    <3>1. settled = SetJobStatus(freed, j, "RECLAIMED")
      BY <2>4 DEF settled
    <3>2. /\ settled.jobGpus = freed.jobGpus
          /\ settled.prompt = freed.prompt
          /\ settled.fifo = w.fifo
          /\ settled.jobStatus = [w.jobStatus EXCEPT ![j] = "RECLAIMED"]
      BY <1>2, <1>3, <3>1 DEF SetJobStatus, Safe, Worlds
    <3>3. settled.jobStatus[j] = "RECLAIMED"
      BY <1>1, <1>2, <1>3, <3>2 DEF Safe, Worlds
    <3>4. QED
      BY <1>1, <1>3, <2>4, <3>2, <3>3 DEF Settled
  <2>5. QED
    BY <2>2, <2>3, <2>4
<1>6. v = [settled EXCEPT !.cooldown = IF IsRequest(p) THEN settled.cooldown \cup {g}
                                      ELSE settled.cooldown]
  BY DEF Reclaim, v, settled, freed, p, j, u
<1>7. Safe(v)
  <2>1. v \in Worlds
    BY <1>4, <1>6 DEF Safe, Worlds
  <2>2. Owned(v) /\ Marked(v) /\ Addressed(v)
    BY <1>4, <1>6 DEF Safe, Owned, Marked, Addressed, Worlds
  <2>3. Spared(v)
    BY <1>4, <1>5, <1>6 DEF Safe, Spared, Worlds, IsRequest, NoPrompt
  <2>4. QED
    BY <2>1, <2>2, <2>3 DEF Safe
<1>8. Orderly(v)
  <2>1. v.jobGpus = settled.jobGpus /\ v.jobStatus = settled.jobStatus /\ v.fifo = settled.fifo
    BY <1>4, <1>6 DEF Safe, Worlds
  <2>2. Orderly(settled)
    <3>1. /\ settled.jobGpus[j] = w.jobGpus[j] \ {g}
          /\ \A k \in Jobs \ {j} : settled.jobGpus[k] = w.jobGpus[k]
      BY <1>1, <1>3, <1>5
    <3>2. {g} \in SUBSET GPUs
      OBVIOUS
    <3>3. QED
      BY <1>1, <1>5, <3>1, <3>2, LosingOrderly
  <2>3. QED
    BY <2>1, <2>2, SameLives
<1>9. Loss(w, v, g, "IDLE")
  <2>1. /\ v.critical = settled.critical /\ v.gpuStatus = settled.gpuStatus
        /\ v.assignedJob = settled.assignedJob /\ v.jobStatus = settled.jobStatus
    BY <1>4, <1>6 DEF Safe, Worlds
  <2>2. /\ settled.critical = freed.critical /\ settled.gpuStatus = freed.gpuStatus
        /\ settled.assignedJob = freed.assignedJob
    BY <1>2 DEF settled, SetJobStatus, RequeueJob, Enqueue, Safe, Worlds
  <2>3. /\ freed.critical = w.critical
        /\ freed.gpuStatus = [h \in GPUs |-> IF h \in {g} THEN "IDLE" ELSE w.gpuStatus[h]]
        /\ freed.assignedJob = [h \in GPUs |-> IF h \in {g} THEN NoJob ELSE w.assignedJob[h]]
    BY DEF freed, Safe, DropRunning, Freed, Release, ClearWatch, Worlds
  <2>4. settled.jobStatus[j] = "CANCELLED" => w.jobStatus[j] = "CANCELLED"
    BY <1>5 DEF Settled
  <2>5. QED
    BY <1>5, <2>1, <2>2, <2>3, <2>4 DEF Loss, Safe, Worlds, j
<1>10. QED
  BY <1>7, <1>8, <1>9 DEF v

(* A submitted job waits in the FIFO and needs all it asked for.           *)
LEMMA SubmittedOrderly ==
  ASSUME NEW w, Safe(w), Orderly(w), NEW j \in Jobs, w.jobStatus[j] = "NEW",
         NEW isCritical \in BOOLEAN
  PROVE  /\ Orderly(Submitted(w, j, isCritical))
         /\ j \in WaitingInFifo(Submitted(w, j, isCritical))
         /\ StillNeeded(Submitted(w, j, isCritical), j) = Count[j]
         /\ Submitted(w, j, isCritical).assignedUser = w.assignedUser
<1> DEFINE v == Submitted(w, j, isCritical)
<1>1. w.jobGpus[j] = {} /\ w.fifo[j] = 0
  BY DEF Orderly, Sized, Queued
<1>2. /\ v.jobGpus = w.jobGpus
      /\ v.jobStatus = [w.jobStatus EXCEPT ![j] = "WAITING"]
      /\ v.fifo = [w.fifo EXCEPT ![j] = w.fifo[j] + 1]
      /\ v.assignedUser = w.assignedUser
  BY DEF Submitted, SetJobStatus, Enqueue, Safe, Worlds
<1> HIDE DEF v
<1>3. v.jobStatus[j] = "WAITING" /\ v.fifo[j] = 1 /\ v.jobGpus[j] = {}
  BY <1>1, <1>2 DEF Safe, Worlds
<1>4. Cardinality({}) = 0
  BY FS_EmptySet
<1>5. Orderly(v)
  <2>1. v.jobGpus[j] = w.jobGpus[j] \ {} /\ Settled(w, v, j)
    BY <1>1, <1>2, <1>3 DEF Settled
  <2>2. \A k \in Jobs \ {j} : /\ v.jobGpus[k] = w.jobGpus[k]
                             /\ v.jobStatus[k] = w.jobStatus[k]
                             /\ v.fifo[k] = w.fifo[k]
    BY <1>2 DEF Safe, Worlds
  <2>3. {} \in SUBSET GPUs
    OBVIOUS
  <2>4. QED
    BY <2>1, <2>2, <2>3, LosingOrderly
<1>6. j \in WaitingInFifo(v)
  BY <1>3 DEF WaitingInFifo
<1>7. StillNeeded(v, j) = Count[j]
  BY <1>3, <1>4, SchedulerAssumption DEF StillNeeded
<1>8. QED
  BY <1>2, <1>5, <1>6, <1>7 DEF v

(* The world of the variables and the variables.                           *)
LEMMA WorldFields ==
  /\ World.gpuStatus = gpuStatus /\ World.assignedJob = assignedJob
  /\ World.assignedUser = assignedUser /\ World.jobStatus = jobStatus
  /\ World.jobGpus = jobGpus /\ World.critical = critical
  /\ World.userGpus = userGpus /\ World.runningJobs = runningJobs
  /\ World.userIndex = userIndex /\ World.fifo = fifo
  /\ World.prompt = prompt /\ World.declined = declined
  /\ World.cooldown = cooldown
  BY DEF World

(* submit_job preserves the invariant.                                     *)
LEMMA SubmitJobStep ==
  ASSUME IInv, NEW j \in Jobs, NEW isCritical \in Levels(j), SubmitJob(j, isCritical)
  PROVE  IInv'
<1>1. isCritical \in BOOLEAN
  BY DEF Levels
<1>2. QED
  BY <1>1, WorldFields, SubmittedSafe, SubmittedOrderly, BecomeIInv DEF IInv, SubmitJob

(* manual_assign_gpu preserves the invariant: the placeholder job asks for *)
(* one GPU and is filled by it.                                            *)
LEMMA ManualAssignGpuStep ==
  ASSUME IInv, NEW g \in GPUs, NEW j \in Jobs, NEW isCritical \in Levels(j),
         ManualAssignGpu(g, j, isCritical)
  PROVE  IInv'
<1> DEFINE w == Submitted(World, j, isCritical)
           plan == [h \in {g} |-> j]
<1>1. isCritical \in BOOLEAN
  BY DEF Levels
<1>2. Safe(w)
  BY <1>1, SubmittedSafe DEF IInv
<1>3. /\ Orderly(w)
      /\ j \in WaitingInFifo(w)
      /\ StillNeeded(w, j) = 1
      /\ w.assignedUser[g] = NoUser
  BY <1>1, WorldFields, SubmittedOrderly DEF IInv, ManualAssignGpu
<1> HIDE DEF w
<1>4. plan \in [{g} -> WaitingInFifo(w)] /\ plan \in [{g} -> Jobs] /\ {g} \in SUBSET GPUs
  BY <1>3
<1>5. Fits(w, plan)
  <2>1. \A k \in Jobs : Given(plan, k) = IF k = j THEN {g} ELSE {}
    BY DEF Given
  <2>2. Cardinality({g}) = 1 /\ Cardinality({}) = 0
    BY FS_Singleton, FS_EmptySet
  <2>3. \A k \in Jobs : 0 <= StillNeeded(w, k)
    <3>1. \A k \in Jobs : Cardinality(w.jobGpus[k]) \in Nat /\ Count[k] \in Nat
      BY <1>2, GpuSets, SchedulerAssumption DEF Safe, Worlds
    <3>2. QED
      BY <3>1 DEF StillNeeded
  <2>4. QED
    BY <1>3, <2>1, <2>2, <2>3 DEF Fits, WaitingInFifo
<1> HIDE DEF plan
<1>6. Safe(Assign(w, plan))
  BY <1>2, <1>3, <1>4, AssignSafe
<1>7. Orderly(Assign(w, plan))
  BY <1>2, <1>3, <1>4, <1>5, AssignOrderly
<1>8. QED
  BY <1>6, <1>7, BecomeIInv DEF ManualAssignGpu, w, plan

(* Prompts of the usage kind, on any set of held GPUs that have none.      *)
LEMMA UsagePromptsSafe ==
  ASSUME NEW w, Safe(w), Orderly(w), NEW S \in SUBSET GPUs,
         \A g \in S : w.prompt[g] = NoPrompt /\ w.assignedJob[g] # NoJob
  PROVE  LET asks == [g \in S |-> [kind |-> "usage", by |-> NoJob]] IN
         Safe(Raise(w, asks)) /\ Orderly(Raise(w, asks))
<1> DEFINE asks == [g \in S |-> [kind |-> "usage", by |-> NoJob]]
<1>1. asks \in [S -> [kind : {"usage", "excess", "contest"}, by : Jobs \cup {NoJob}]]
  OBVIOUS
<1>2. \A g \in S : asks[g].kind = "usage"
  OBVIOUS
<1> HIDE DEF asks
<1>3. Safe(Raise(w, asks))
  BY <1>1, <1>2, RaiseSafe
<1>4. Orderly(Raise(w, asks))
  BY RaiseOrderly DEF Safe
<1>5. QED
  BY <1>3, <1>4 DEF asks

(* The prompt of a sustained breach preserves the invariant.               *)
LEMMA RaisePromptStep ==
  ASSUME IInv, NEW g \in GPUs, RaisePrompt(g)
  PROVE  IInv'
<1>1. {g} \in SUBSET GPUs
  OBVIOUS
<1>2. \A h \in {g} : World.prompt[h] = NoPrompt /\ World.assignedJob[h] # NoJob
  BY WorldFields DEF RaisePrompt
<1>3. QED
  BY <1>1, <1>2, UsagePromptsSafe, BecomeIInv DEF IInv, RaisePrompt

(* check_estimated_completions preserves the invariant.                    *)
LEMMA CheckEstimatedCompletionsStep ==
  ASSUME IInv, NEW overdue \in SUBSET Jobs, CheckEstimatedCompletions(overdue)
  PROVE  IInv'
<1> DEFINE S == {g \in UNION {jobGpus[j] : j \in overdue} :
                   prompt[g] = NoPrompt /\ assignedJob[g] # NoJob}
<1>1. S \in SUBSET GPUs
  BY DEF IInv, Safe, Worlds, World
<1>2. \A g \in S : World.prompt[g] = NoPrompt /\ World.assignedJob[g] # NoJob
  BY WorldFields
<1>3. QED
  BY <1>1, <1>2, UsagePromptsSafe, BecomeIInv DEF IInv, CheckEstimatedCompletions

(* A YES preserves the invariant: a declined request leaves the prompt     *)
(* before its requester is recorded as refused.                            *)
LEMMA RespondYesStep ==
  ASSUME IInv, NEW g \in GPUs, RespondYes(g)
  PROVE  IInv'
<1> DEFINE w == World
           p == prompt[g]
           v == [ClearWatch(w, {g}) EXCEPT
                   !.gpuStatus[g] = "ACTIVE",
                   !.declined[g] = IF IsRequest(p) THEN @ \cup {p.by} ELSE @,
                   !.cooldown = IF IsRequest(p) THEN @ \cup {g} ELSE @]
<1>1. w.prompt = prompt /\ p # NoPrompt
  BY DEF World, RespondYes
<1>2. Safe(w) /\ Orderly(w)
  BY DEF IInv
<1>3. Become(v)
  BY DEF RespondYes
<1> HIDE DEF w
<1>4. v \in Worlds
  <2>1. w \in Worlds /\ (IsRequest(p) => p.by \in Jobs)
    BY <1>1, <1>2 DEF Safe, Spared
  <2>2. (IF IsRequest(p) THEN w.declined[g] \cup {p.by} ELSE w.declined[g]) \in SUBSET Jobs
    BY <2>1 DEF Worlds
  <2>3. ClearWatch(w, {g}) \in Worlds /\ ClearWatch(w, {g}).declined = w.declined
    BY <2>1 DEF Worlds, ClearWatch, NoPrompt, Prompt
  <2>4. QED
    BY <2>1, <2>2, <2>3 DEF Worlds, GPUStatus
<1>5. Owned(v)
  BY <1>2 DEF Safe, Owned, Worlds, ClearWatch
<1>6. Marked(v)
  BY <1>1, <1>2 DEF Safe, Marked, Worlds, ClearWatch
<1>7. Addressed(v)
  BY <1>2 DEF Safe, Addressed, Worlds, ClearWatch
<1>8. Spared(v)
  BY <1>2 DEF Safe, Spared, Worlds, ClearWatch, NoPrompt, IsRequest
<1>9. Orderly(v)
  BY <1>2, SameLives DEF Safe, Worlds, ClearWatch
<1>10. QED
  BY <1>3, <1>4, <1>5, <1>6, <1>7, <1>8, <1>9, BecomeIInv DEF Safe

(* A NO and a timeout preserve the invariant.                              *)
LEMMA ReclaimStep ==
  ASSUME IInv, NEW g \in GPUs, RespondNo(g) \/ CheckTimeout(g)
  PROVE  IInv'
  BY WorldFields, ReclaimSound, BecomeIInv DEF IInv, RespondNo, CheckTimeout

(* complete_job preserves the invariant.                                   *)
LEMMA CompleteJobStep ==
  ASSUME IInv, NEW j \in Jobs, CompleteJob(j)
  PROVE  IInv'
<1> DEFINE w == World
           over == SetJobStatus(w, j, "COMPLETED")
           freed == Freed(over, w.jobGpus[j], j, Owner[j], "IDLE")
           v == DropRunning(freed, j, Owner[j])
<1>1. Safe(w) /\ Orderly(w) /\ w.jobStatus[j] = "RUNNING" /\ Become(v)
  BY WorldFields DEF IInv, CompleteJob
<1> HIDE DEF w
<1>2. Safe(over)
  BY <1>1, SetJobStatusSafe DEF JobStatus
<1>3. /\ over.jobGpus = w.jobGpus
      /\ over.fifo = w.fifo
      /\ over.assignedJob = w.assignedJob
      /\ over.jobStatus = [w.jobStatus EXCEPT ![j] = "COMPLETED"]
  BY <1>1 DEF SetJobStatus, Safe, Worlds
<1> HIDE DEF over
<1>4. w.jobGpus[j] \in SUBSET GPUs
  BY <1>1 DEF Safe, Worlds
<1>5. Holds(over, w.jobGpus[j], j, Owner[j])
  BY <1>1, <1>3, <1>4, SchedulerAssumption DEF Holds, Safe, Owned
<1>6. Safe(freed)
  BY <1>2, <1>4, <1>5, FreedSafe
<1>7. Safe(v)
  BY <1>6, DropRunningSafe
<1>8. /\ v.jobGpus = [k \in Jobs |-> IF k = j THEN w.jobGpus[k] \ w.jobGpus[j] ELSE w.jobGpus[k]]
      /\ v.jobStatus = [w.jobStatus EXCEPT ![j] = "COMPLETED"]
      /\ v.fifo = w.fifo
  <2>1. /\ freed.jobStatus = over.jobStatus
        /\ freed.fifo = over.fifo
        /\ freed.jobGpus = [k \in Jobs |-> IF k = j THEN over.jobGpus[k] \ w.jobGpus[j]
                                          ELSE over.jobGpus[k]]
    BY <1>2, <1>4, FreedFields DEF Safe
  <2> HIDE DEF freed
  <2>2. v.jobGpus = freed.jobGpus /\ v.jobStatus = freed.jobStatus /\ v.fifo = freed.fifo
    BY <1>6 DEF DropRunning, Safe, Worlds
  <2>3. QED
    BY <1>3, <2>1, <2>2
<1> HIDE DEF v
<1>9. Orderly(v)
  <2>1. v.jobGpus[j] = {} /\ v.jobGpus[j] = w.jobGpus[j] \ w.jobGpus[j]
    BY <1>8
  <2>2. v.jobStatus[j] = "COMPLETED" /\ v.fifo[j] = 0
    BY <1>1, <1>8 DEF Safe, Worlds, Orderly, Queued
  <2>3. \A k \in Jobs \ {j} : /\ v.jobGpus[k] = w.jobGpus[k]
                             /\ v.jobStatus[k] = w.jobStatus[k]
                             /\ v.fifo[k] = w.fifo[k]
    BY <1>1, <1>8 DEF Safe, Worlds
  <2>4. Settled(w, v, j)
    BY <2>1, <2>2 DEF Settled
  <2>5. QED
    BY <1>1, <1>4, <2>1, <2>3, <2>4, LosingOrderly
<1>10. QED
  BY <1>1, <1>7, <1>9, BecomeIInv

(* cancel_job preserves the invariant: no other status than WAITING is     *)
(* withdrawn, and no entry of the job stays in the FIFO.                   *)
LEMMA CancelJobStep ==
  ASSUME IInv, NEW j \in Jobs, CancelJob(j)
  PROVE  IInv'
<1> DEFINE w == World
           v == [SetJobStatus(w, j, "CANCELLED") EXCEPT !.fifo[j] = 0]
<1>1. Safe(w) /\ Orderly(w) /\ w.jobStatus[j] = "WAITING" /\ Become(CancelRequests(v, {j}))
  BY WorldFields DEF IInv, CancelJob
<1> HIDE DEF w
<1>2. Safe(v)
  <2>1. v \in Worlds
    BY <1>1 DEF SetJobStatus, Safe, Worlds, JobStatus
  <2>2. QED
    BY <1>1, <2>1, BookkeepingSafe DEF SetJobStatus, Safe, Worlds
<1>3. Orderly(v)
  <2>1. /\ v.jobGpus = w.jobGpus
        /\ v.jobStatus = [w.jobStatus EXCEPT ![j] = "CANCELLED"]
        /\ v.fifo = [w.fifo EXCEPT ![j] = 0]
    BY <1>1 DEF SetJobStatus, Safe, Worlds
  <2>2. w.jobStatus \in [Jobs -> JobStatus] /\ w.fifo \in [Jobs -> Nat]
    BY <1>1 DEF Safe, Worlds
  <2> HIDE DEF v
  <2>3. QED
    BY <1>1, <2>1, <2>2 DEF Orderly, Sized, Queued
<1> HIDE DEF v
<1>4. Safe(CancelRequests(v, {j})) /\ Orderly(CancelRequests(v, {j}))
  BY <1>2, <1>3, CancelRequestsSafe, CancelRequestsOrderly DEF Safe
<1>5. QED
  BY <1>1, <1>4, BecomeIInv

(* force_reclaim, up to the pass it ends with.                             *)
LEMMA TakenBackSound ==
  ASSUME NEW w, Safe(w), Orderly(w), NEW g \in GPUs, w.assignedUser[g] # NoUser
  PROVE  /\ Safe(TakenBack(w, g))
         /\ Orderly(TakenBack(w, g))
         /\ Loss(w, TakenBack(w, g), g, "IDLE")
<1> DEFINE j == w.assignedJob[g]
           u == w.assignedUser[g]
           freed == DropRunning(Freed(w, {g}, j, u, "IDLE"), j, u)
           v == IF freed.jobGpus[j] # {} THEN freed ELSE SetJobStatus(freed, j, "RECLAIMED")
<1>1. v = TakenBack(w, g)
  BY DEF TakenBack
<1>2. j \in Jobs /\ Holds(w, {g}, j, u)
  BY HolderOf DEF Safe, Owned
<1> HIDE DEF j, u
<1>3. Safe(freed)
  BY <1>2, FreedSafe, DropRunningSafe
<1>4. /\ freed.jobStatus = w.jobStatus
      /\ freed.fifo = w.fifo
      /\ freed.critical = w.critical
      /\ freed.gpuStatus = [h \in GPUs |-> IF h \in {g} THEN "IDLE" ELSE w.gpuStatus[h]]
      /\ freed.assignedJob = [h \in GPUs |-> IF h \in {g} THEN NoJob ELSE w.assignedJob[h]]
      /\ freed.jobGpus = [k \in Jobs |-> IF k = j THEN w.jobGpus[k] \ {g} ELSE w.jobGpus[k]]
  BY <1>2 DEF Safe, DropRunning, Freed, Release, ClearWatch, Worlds
<1> HIDE DEF freed
<1>5. Safe(v)
  BY <1>2, <1>3, SetJobStatusSafe DEF JobStatus
<1>6. /\ v.jobGpus = freed.jobGpus
      /\ v.critical = freed.critical
      /\ v.gpuStatus = freed.gpuStatus
      /\ v.assignedJob = freed.assignedJob
      /\ v.fifo = w.fifo
      /\ v.jobStatus = IF freed.jobGpus[j] # {} THEN w.jobStatus
                       ELSE [w.jobStatus EXCEPT ![j] = "RECLAIMED"]
  BY <1>3, <1>4 DEF SetJobStatus, Safe, Worlds
<1> HIDE DEF v
<1>7. Orderly(v)
  <2>1. v.jobGpus[j] = w.jobGpus[j] \ {g} /\ Settled(w, v, j)
    BY <1>1, <1>2, <1>4, <1>6 DEF Settled, Safe, Worlds
  <2>2. \A k \in Jobs \ {j} : /\ v.jobGpus[k] = w.jobGpus[k]
                             /\ v.jobStatus[k] = w.jobStatus[k]
                             /\ v.fifo[k] = w.fifo[k]
    BY <1>1, <1>4, <1>6 DEF Safe, Worlds
  <2>3. {g} \in SUBSET GPUs
    OBVIOUS
  <2>4. QED
    BY <1>2, <2>1, <2>2, <2>3, LosingOrderly
<1>8. Loss(w, v, g, "IDLE")
  BY <1>2, <1>4, <1>6 DEF Loss, Safe, Worlds, j
<1>9. QED
  BY <1>1, <1>5, <1>7, <1>8

(* force_reclaim preserves the invariant.                                  *)
LEMMA ForceReclaimStep ==
  ASSUME IInv, NEW g \in GPUs, ForceReclaim(g)
  PROVE  IInv'
  BY WorldFields, TakenBackSound, AllocateFromIInv DEF IInv, ForceReclaim

(* change_job_priority preserves the invariant.                            *)
LEMMA ChangeJobPriorityStep ==
  ASSUME IInv, NEW j \in Jobs, NEW isCritical \in Levels(j), ChangeJobPriority(j, isCritical)
  PROVE  IInv'
<1> DEFINE w == World
           js == IF isCritical THEN w.critical \cup {j} ELSE w.critical \ {j}
           v == [w EXCEPT !.critical = js]
<1>1. Safe(w) /\ Orderly(w) /\ AllocateFrom(v)
  BY DEF IInv, ChangeJobPriority
<1> HIDE DEF w
<1>2. js \in SUBSET Jobs
  BY <1>1 DEF Safe, Worlds
<1>3. Safe(v)
  BY <1>1, <1>2, SetCriticalSafe
<1>4. Orderly(v)
  BY <1>1, SameLives DEF Safe, Worlds
<1>5. QED
  BY <1>1, <1>3, <1>4, AllocateFromIInv

(* Parking and returning a GPU nobody holds.                               *)
LEMMA SetGpuStatusSound ==
  ASSUME NEW w, Safe(w), Orderly(w), NEW g \in GPUs, w.assignedJob[g] = NoJob,
         NEW status \in {"IDLE", "MAINTENANCE"}
  PROVE  Safe(SetGpuStatus(w, g, status)) /\ Orderly(SetGpuStatus(w, g, status))
<1>1. Orderly(SetGpuStatus(w, g, status))
  BY SameLives DEF SetGpuStatus, Safe, Worlds
<1>2. QED
  BY <1>1, SetGpuStatusSafe

(* The maintenance operations and the recovery preserve the invariant.     *)
LEMMA ParkingStep ==
  ASSUME IInv, NEW g \in GPUs,
         SetGpuMaintenance(g) \/ ClearGpuMaintenance(g) \/ RecoverGpuFailure(g)
  PROVE  IInv'
<1>1. Safe(World) /\ Orderly(World)
  BY DEF IInv
<1>2. World.assignedJob[g] = NoJob
  <2>1. CASE assignedUser[g] = NoUser
    BY <1>1, <2>1, WorldFields, HolderOf, SchedulerAssumption
  <2>2. CASE gpuStatus[g] \in {"MAINTENANCE", "UNAVAILABLE"}
    BY <1>1, <2>2, WorldFields DEF Safe, Marked
  <2>3. QED
    BY <2>1, <2>2 DEF SetGpuMaintenance, ClearGpuMaintenance, RecoverGpuFailure
<1>3. CASE SetGpuMaintenance(g)
  BY <1>1, <1>2, <1>3, SetGpuStatusSound, BecomeIInv DEF SetGpuMaintenance
<1>4. CASE ClearGpuMaintenance(g)
  BY <1>1, <1>2, <1>4, SetGpuStatusSound, AllocateFromIInv DEF ClearGpuMaintenance
<1>5. CASE RecoverGpuFailure(g)
  BY <1>1, <1>2, <1>5, SetGpuStatusSound, AllocateFromIInv DEF RecoverGpuFailure
<1>6. QED
  BY <1>3, <1>4, <1>5

(* handle_gpu_failure, up to the pass it ends with, for a GPU that is held *)
(* or free and a job that is left with some GPUs or none.                  *)
LEMMA LostSound ==
  ASSUME NEW w, Safe(w), Orderly(w), NEW g \in GPUs
  PROVE  /\ Safe(Lost(w, g))
         /\ Orderly(Lost(w, g))
         /\ Loss(w, Lost(w, g), g, "UNAVAILABLE")
<1> DEFINE j == w.assignedJob[g]
           u == w.assignedUser[g]
           freed == Freed(w, {g}, j, u, "UNAVAILABLE")
           waiting == SetJobStatus(freed, j, "WAITING")
           queued == RequeueJob(waiting, j)
           v == IF j = NoJob THEN freed
                ELSE IF freed.jobGpus[j] # {} THEN freed
                ELSE DropRunning(queued, j, u)
<1>1. v = Lost(w, g)
  BY DEF Lost
<1>2. Holds(w, {g}, j, u)
  BY <1>1, SchedulerAssumption DEF Holds, Safe, Worlds, Owned
<1>3. j # NoJob => j \in Jobs
  BY <1>1 DEF Safe, Worlds
<1>4. {g} \in SUBSET GPUs
  OBVIOUS
<1> HIDE DEF j, u
<1>5. Safe(freed)
  BY <1>1, <1>2, <1>4, FreedSafe
<1>6. /\ freed.jobStatus = w.jobStatus
      /\ freed.critical = w.critical
      /\ freed.gpuStatus = [h \in GPUs |-> IF h \in {g} THEN "UNAVAILABLE" ELSE w.gpuStatus[h]]
      /\ freed.assignedJob = [h \in GPUs |-> IF h \in {g} THEN NoJob ELSE w.assignedJob[h]]
      /\ freed.fifo = w.fifo
      /\ freed.jobGpus = [k \in Jobs |-> IF k = j THEN w.jobGpus[k] \ {g} ELSE w.jobGpus[k]]
  BY <1>4, FreedFields, FreedFrame DEF Safe
<1> HIDE DEF freed
<1>7. CASE j = NoJob
  <2>1. freed.jobGpus = w.jobGpus
    <3>1. w.jobGpus \in [Jobs -> SUBSET GPUs]
      BY <1>1 DEF Safe, Worlds
    <3>2. QED
      BY <1>6, <1>7, <3>1, SchedulerAssumption
  <2>2. Orderly(freed)
    BY <1>1, <1>6, <2>1, SameLives
  <2>3. Loss(w, freed, g, "UNAVAILABLE")
    BY <1>6 DEF Loss, Safe, Worlds
  <2>4. QED
    BY <1>1, <1>5, <1>7, <2>2, <2>3
<1>8. CASE j \in Jobs /\ freed.jobGpus[j] # {}
  <2>1. freed.jobGpus[j] = w.jobGpus[j] \ {g} /\ Settled(w, freed, j)
    BY <1>6, <1>8 DEF Settled
  <2>2. \A k \in Jobs \ {j} : /\ freed.jobGpus[k] = w.jobGpus[k]
                             /\ freed.jobStatus[k] = w.jobStatus[k]
                             /\ freed.fifo[k] = w.fifo[k]
    BY <1>6
  <2>3. Orderly(freed)
    BY <1>1, <1>4, <1>8, <2>1, <2>2, LosingOrderly
  <2>4. j # NoJob
    BY <1>8, SchedulerAssumption
  <2>5. Loss(w, freed, g, "UNAVAILABLE")
    BY <1>6 DEF Loss, Safe, Worlds
  <2>6. QED
    BY <1>1, <1>5, <1>8, <2>3, <2>4, <2>5
<1>9. CASE j \in Jobs /\ freed.jobGpus[j] = {}
  <2>1. Safe(waiting)
    BY <1>5, <1>9, SetJobStatusSafe DEF JobStatus
  <2>2. /\ waiting.jobGpus = freed.jobGpus
        /\ waiting.fifo = w.fifo
        /\ waiting.jobStatus = [w.jobStatus EXCEPT ![j] = "WAITING"]
    BY <1>5, <1>6 DEF SetJobStatus, Safe, Worlds
  <2> HIDE DEF waiting
  <2>3. Safe(queued)
    BY <1>9, <2>1, RequeueJobSafe
  <2>4. /\ queued.jobGpus = freed.jobGpus
        /\ queued.jobStatus = waiting.jobStatus
        /\ queued.fifo = IF w.fifo[j] > 0 THEN w.fifo ELSE [w.fifo EXCEPT ![j] = w.fifo[j] + 1]
    BY <2>1, <2>2 DEF RequeueJob, Enqueue, Safe, Worlds
  <2> HIDE DEF queued
  <2>5. Safe(v)
    BY <1>9, <2>3, DropRunningSafe, SchedulerAssumption
  <2>6. v.jobGpus = freed.jobGpus /\ v.jobStatus = queued.jobStatus /\ v.fifo = queued.fifo
    BY <1>9, <2>3, <2>4, SchedulerAssumption DEF DropRunning, Safe, Worlds
  <2> HIDE DEF v
  <2>7. w.fifo[j] \in Nat /\ w.fifo[j] <= 1
    BY <1>1, <1>9 DEF Safe, Worlds, Orderly, Queued
  <2>8. v.jobGpus[j] = w.jobGpus[j] \ {g} /\ v.jobStatus[j] = "WAITING" /\ v.fifo[j] = 1
    BY <1>1, <1>6, <1>9, <2>2, <2>4, <2>6, <2>7 DEF Safe, Worlds
  <2>9. \A k \in Jobs \ {j} : /\ v.jobGpus[k] = w.jobGpus[k]
                             /\ v.jobStatus[k] = w.jobStatus[k]
                             /\ v.fifo[k] = w.fifo[k]
    BY <1>1, <1>6, <2>2, <2>4, <2>6 DEF Safe, Worlds
  <2>10. Settled(w, v, j)
    BY <1>9, <2>6, <2>8 DEF Settled
  <2>11. Orderly(v)
    BY <1>4, <1>9, <2>8, <2>9, <2>10, LosingOrderly
  <2>12. Loss(w, v, g, "UNAVAILABLE")
    <3>1. /\ v.critical = freed.critical
          /\ v.gpuStatus = freed.gpuStatus
          /\ v.assignedJob = freed.assignedJob
      BY <1>5, <1>9, SchedulerAssumption
         DEF v, queued, waiting, DropRunning, RequeueJob, Enqueue, SetJobStatus, Safe, Worlds
    <3>2. QED
      BY <1>6, <2>9, <2>10, <3>1 DEF Loss, Settled, Safe, Worlds, j
  <2>13. QED
    BY <1>1, <2>5, <2>11, <2>12
<1>10. QED
  BY <1>3, <1>7, <1>8, <1>9

(* handle_gpu_failure preserves the invariant.                             *)
LEMMA HandleGpuFailureStep ==
  ASSUME IInv, NEW g \in GPUs, HandleGpuFailure(g)
  PROVE  IInv'
  BY LostSound, AllocateFromIInv DEF IInv, HandleGpuFailure

(* The end of a cooldown preserves the invariant.                          *)
LEMMA CooldownEndsStep ==
  ASSUME IInv, NEW g \in GPUs, CooldownEnds(g)
  PROVE  IInv'
<1> DEFINE w == World
           v == [w EXCEPT !.cooldown = @ \ {g}]
<1>1. Safe(w) /\ Orderly(w) /\ Become(v)
  BY DEF IInv, CooldownEnds
<1> HIDE DEF w
<1>2. v \in Worlds
  BY <1>1 DEF Safe, Worlds
<1>3. Safe(v)
  BY <1>1, <1>2, BookkeepingSafe DEF Safe, Worlds
<1>4. Orderly(v)
  BY <1>1, SameLives DEF Safe, Worlds
<1>5. QED
  BY <1>1, <1>3, <1>4, BecomeIInv

-----------------------------------------------------------------------------
(* The index of users.  It starts complete, and every operation treats it  *)
(* like the users' own lists.                                              *)

Indexed(w) == w.userIndex = w.userGpus

(* The helpers that lend a GPU or take it back treat both alike, the other *)
(* helpers touch neither.                                                  *)
LEMMA HelpersIndexed ==
  ASSUME NEW w, w \in Worlds, Indexed(w)
  PROVE  /\ \A plan : Indexed(Assign(w, plan))
         /\ \A asks : Indexed(Raise(w, asks))
         /\ \A js : Indexed(CancelRequests(w, js))
         /\ \A S, j, u, status : Indexed(Freed(w, S, j, u, status))
         /\ \A j, u : Indexed(DropRunning(w, j, u))
         /\ \A j, status : Indexed(SetJobStatus(w, j, status))
         /\ \A j : Indexed(RequeueJob(w, j))
         /\ \A j, isCritical : Indexed(Submitted(w, j, isCritical))
         /\ \A g, status : Indexed(SetGpuStatus(w, g, status))
<1>1. \A plan : Indexed(Assign(w, plan))
  BY DEF Indexed, Assign, Worlds
<1>2. (\A asks : Indexed(Raise(w, asks))) /\ (\A js : Indexed(CancelRequests(w, js)))
  BY DEF Indexed, Raise, CancelRequests, ClearWatch, Worlds
<1>3. ASSUME NEW S, NEW j, NEW u, NEW status PROVE Indexed(Freed(w, S, j, u, status))
  <2> DEFINE v == Freed(w, S, j, u, status)
  <2>1. v.userIndex = [x \in Users |-> IF x = u THEN w.userIndex[x] \ S ELSE w.userIndex[x]]
    BY DEF Freed, Release, ClearWatch, Worlds
  <2>2. v.userGpus = [x \in Users |-> IF x = u THEN w.userGpus[x] \ S ELSE w.userGpus[x]]
    BY DEF Freed, Release, ClearWatch, Worlds
  <2>3. QED
    BY <2>1, <2>2 DEF Indexed
<1>4. (\A j, u : Indexed(DropRunning(w, j, u))) /\ (\A j, status : Indexed(SetJobStatus(w, j, status)))
  BY DEF Indexed, DropRunning, SetJobStatus, Worlds
<1>5. (\A j : Indexed(RequeueJob(w, j))) /\ (\A j, isCritical : Indexed(Submitted(w, j, isCritical)))
  BY DEF Indexed, RequeueJob, Submitted, SetJobStatus, Enqueue, Worlds
<1>6. \A g, status : Indexed(SetGpuStatus(w, g, status))
  BY DEF Indexed, SetGpuStatus, Worlds
<1>7. QED
  BY <1>1, <1>2, <1>3, <1>4, <1>5, <1>6

(* A step to an indexed world.                                             *)
LEMMA BecomeIndexed ==
  ASSUME NEW w, Indexed(w), Become(w)
  PROVE  Indexed(World)'
  BY DEF Indexed, Become, World

(* So does the pass.                                                       *)
LEMMA AllocateFromIndexed ==
  ASSUME NEW w, Safe(w), Indexed(w), AllocateFrom(w)
  PROVE  Indexed(World)'
<1>0. PICK plan \in Plans(w) : \E asks \in Asks(Routed(w, plan)) : Become(Raise(Routed(w, plan), asks))
  BY DEF AllocateFrom
<1>1. PICK asks \in Asks(Routed(w, plan)) : Become(Raise(Routed(w, plan), asks))
  BY <1>0
<1>2. PICK S \in SUBSET Available(w) : plan \in [S -> WaitingInFifo(w)]
  BY DEF Plans
<1>3. Safe(Assign(w, plan))
  BY <1>2, AssignSafe DEF Available, WaitingInFifo
<1>4. Indexed(Assign(w, plan))
  BY HelpersIndexed DEF Safe
<1>5. Safe(Routed(w, plan)) /\ Indexed(Routed(w, plan))
  BY <1>3, <1>4, CancelRequestsSafe, HelpersIndexed DEF Routed, Filled, Safe
<1>6. Indexed(Raise(Routed(w, plan), asks))
  BY <1>5, HelpersIndexed DEF Safe
<1>7. QED
  BY <1>1, <1>6, BecomeIndexed

(* So do the three ways to lose a GPU.                                     *)
LEMMA LossIndexed ==
  ASSUME NEW w, Safe(w), Indexed(w), NEW g \in GPUs
  PROVE  /\ w.prompt[g] # NoPrompt => Indexed(Reclaim(w, g))
         /\ w.assignedUser[g] # NoUser => Indexed(TakenBack(w, g))
         /\ Indexed(Lost(w, g))
<1> DEFINE j == w.assignedJob[g]
           u == w.assignedUser[g]
<1>1. Holds(w, {g}, j, u) /\ {g} \in SUBSET GPUs /\ (j # NoJob => j \in Jobs)
  BY SchedulerAssumption DEF Holds, Safe, Worlds, Owned
<1>2. ASSUME NEW status \in {"IDLE", "UNAVAILABLE"}
      PROVE  LET v == Freed(w, {g}, j, u, status) IN Safe(v) /\ Indexed(v)
  BY <1>1, <1>2, FreedSafe, HelpersIndexed DEF Safe
<1>3. ASSUME w.assignedUser[g] # NoUser
      PROVE  LET v == DropRunning(Freed(w, {g}, j, u, "IDLE"), j, u) IN
             /\ j \in Jobs
             /\ Safe(v)
             /\ Indexed(v)
  <2> DEFINE freed == Freed(w, {g}, j, u, "IDLE")
  <2>1. j \in Jobs
    BY <1>1, <1>3 DEF Holds
  <2>2. Safe(freed) /\ Indexed(freed)
    BY <1>2
  <2> HIDE DEF freed
  <2>3. Safe(DropRunning(freed, j, u)) /\ Indexed(DropRunning(freed, j, u))
    BY <2>2, DropRunningSafe, HelpersIndexed DEF Safe
  <2>4. QED
    BY <2>1, <2>3 DEF freed
<1>4. ASSUME w.prompt[g] # NoPrompt PROVE Indexed(Reclaim(w, g))
  <2> DEFINE freed == DropRunning(Freed(w, {g}, j, u, "IDLE"), j, u)
             waiting == SetJobStatus(freed, j, "WAITING")
             settled == IF freed.jobGpus[j] # {} THEN freed
                        ELSE IF w.prompt[g].kind = "contest" THEN RequeueJob(waiting, j)
                        ELSE SetJobStatus(freed, j, "RECLAIMED")
  <2>1. w.assignedUser[g] # NoUser
    BY <1>4, HolderOf, SchedulerAssumption DEF Safe, Marked
  <2>2. j \in Jobs /\ Safe(freed) /\ Indexed(freed)
    BY <1>3, <2>1
  <2> HIDE DEF j, u, freed
  <2>3. Safe(waiting) /\ Indexed(waiting)
    BY <2>2, SetJobStatusSafe, HelpersIndexed DEF JobStatus, Safe
  <2>4. Safe(settled) /\ Indexed(settled)
    BY <2>2, <2>3, SetJobStatusSafe, RequeueJobSafe, HelpersIndexed DEF JobStatus, Safe
  <2>5. \E cold : Reclaim(w, g) = [settled EXCEPT !.cooldown = cold]
    BY DEF Reclaim, freed, j, u
  <2> HIDE DEF settled
  <2>6. QED
    BY <2>4, <2>5 DEF Indexed, Safe, Worlds
<1>5. ASSUME w.assignedUser[g] # NoUser PROVE Indexed(TakenBack(w, g))
  BY <1>3, <1>5, HelpersIndexed DEF TakenBack, Safe
<1>6. Indexed(Lost(w, g))
  <2> DEFINE freed == Freed(w, {g}, j, u, "UNAVAILABLE")
             waiting == SetJobStatus(freed, j, "WAITING")
             queued == RequeueJob(waiting, j)
  <2>1. Safe(freed) /\ Indexed(freed)
    BY <1>2
  <2>2. Lost(w, g) = IF j = NoJob THEN freed
                     ELSE IF freed.jobGpus[j] # {} THEN freed ELSE DropRunning(queued, j, u)
    BY DEF Lost
  <2> HIDE DEF freed
  <2>3. j \in Jobs => Safe(waiting) /\ Indexed(waiting)
    BY <2>1, SetJobStatusSafe, HelpersIndexed DEF JobStatus, Safe
  <2> HIDE DEF waiting
  <2>4. j \in Jobs => Safe(queued) /\ Indexed(queued)
    BY <2>3, RequeueJobSafe, HelpersIndexed DEF Safe
  <2> HIDE DEF queued
  <2>5. QED
    BY <1>1, <2>1, <2>2, <2>4, HelpersIndexed DEF Safe
<1>7. QED
  BY <1>4, <1>5, <1>6

(* Every operation keeps the index complete.                               *)
LEMMA NextIndexed ==
  ASSUME IInv, Indexed(World), [Next]_vars
  PROVE  Indexed(World)'
<1> USE WorldFields
<1>0. Safe(World) /\ World \in Worlds
  BY DEF IInv, Safe
<1> DEFINE Held(w) == Safe(w) /\ Indexed(w)
<1>1. CASE TryAllocateAll
  BY <1>0, <1>1, AllocateFromIndexed DEF TryAllocateAll
<1>2. CASE (\E overdue \in SUBSET Jobs : CheckEstimatedCompletions(overdue)) \/ \E g \in GPUs : RaisePrompt(g)
  BY <1>0, <1>2, HelpersIndexed, BecomeIndexed DEF CheckEstimatedCompletions, RaisePrompt
<1>3. ASSUME NEW j \in Jobs, NEW isCritical \in Levels(j),
             SubmitJob(j, isCritical) \/ (\E g \in GPUs : ManualAssignGpu(g, j, isCritical))
      PROVE  Indexed(World)'
  <2>1. isCritical \in BOOLEAN
    BY DEF Levels
  <2>2. Held(Submitted(World, j, isCritical))
    BY <1>0, <2>1, SubmittedSafe, HelpersIndexed
  <2>3. QED
    BY <1>3, <2>2, HelpersIndexed, BecomeIndexed DEF SubmitJob, ManualAssignGpu, Safe
<1>4. ASSUME NEW j \in Jobs, NEW isCritical, ChangeJobPriority(j, isCritical)
      PROVE  Indexed(World)'
  <2> DEFINE js == IF isCritical THEN World.critical \cup {j} ELSE World.critical \ {j}
  <2>1. AllocateFrom([World EXCEPT !.critical = js]) /\ js \in SUBSET Jobs
    BY <1>0, <1>4 DEF ChangeJobPriority, Worlds
  <2> HIDE DEF js
  <2>2. Held([World EXCEPT !.critical = js])
    BY <1>0, <2>1, SetCriticalSafe DEF Indexed, Worlds
  <2>3. QED
    BY <2>1, <2>2, AllocateFromIndexed
<1>5. ASSUME NEW j \in Jobs, CompleteJob(j) PROVE Indexed(World)'
  <2> DEFINE over == SetJobStatus(World, j, "COMPLETED")
             freed == Freed(over, jobGpus[j], j, Owner[j], "IDLE")
  <2>1. over \in Worlds /\ Indexed(over)
    BY <1>0, SetJobStatusSafe, HelpersIndexed DEF JobStatus, Safe
  <2>2. Become(DropRunning(freed, j, Owner[j]))
    BY <1>5 DEF CompleteJob
  <2> HIDE DEF over
  <2>3. Indexed(freed)
    BY <2>1, HelpersIndexed
  <2>4. freed \in Worlds
    BY <2>1 DEF Worlds, Freed, Release, ClearWatch, GPUStatus, Prompt, NoPrompt
  <2> HIDE DEF freed
  <2>5. QED
    BY <2>2, <2>3, <2>4, HelpersIndexed, BecomeIndexed
<1>6. ASSUME NEW j \in Jobs, CancelJob(j) PROVE Indexed(World)'
  BY <1>0, <1>6 DEF CancelJob, CancelRequests, ClearWatch, SetJobStatus,
                    Become, Indexed, World, Worlds
<1>7. ASSUME NEW g \in GPUs, RespondYes(g) \/ CooldownEnds(g) PROVE Indexed(World)'
  BY <1>0, <1>7 DEF RespondYes, CooldownEnds, ClearWatch, Become, Indexed, World, Worlds
<1>8. ASSUME NEW g \in GPUs, RespondNo(g) \/ CheckTimeout(g) PROVE Indexed(World)'
  BY <1>0, <1>8, LossIndexed, BecomeIndexed DEF RespondNo, CheckTimeout
<1>9. ASSUME NEW g \in GPUs, ForceReclaim(g) \/ HandleGpuFailure(g) PROVE Indexed(World)'
  BY <1>9, LossIndexed, TakenBackSound, LostSound, AllocateFromIndexed
     DEF ForceReclaim, HandleGpuFailure, IInv
<1>10. ASSUME NEW g \in GPUs, SetGpuMaintenance(g) \/ ClearGpuMaintenance(g) \/ RecoverGpuFailure(g)
       PROVE  Indexed(World)'
  <2>1. World.assignedJob[g] = NoJob
    BY <1>0, <1>10, HolderOf, SchedulerAssumption
       DEF SetGpuMaintenance, ClearGpuMaintenance, RecoverGpuFailure, Safe, Marked
  <2>2. Held(SetGpuStatus(World, g, "IDLE")) /\ Indexed(SetGpuStatus(World, g, "MAINTENANCE"))
    BY <1>0, <2>1, SetGpuStatusSafe, HelpersIndexed
  <2>3. QED
    BY <1>10, <2>2, BecomeIndexed, AllocateFromIndexed
       DEF SetGpuMaintenance, ClearGpuMaintenance, RecoverGpuFailure
<1>11. CASE UNCHANGED vars
  BY <1>11 DEF vars, World, Indexed
<1>12. QED
  BY <1>1, <1>2, <1>3, <1>4, <1>5, <1>6, <1>7, <1>8, <1>9, <1>10, <1>11 DEF Next

-----------------------------------------------------------------------------
(* The invariants.                                                         *)

(* The fresh scheduler satisfies the invariant.                            *)
LEMMA InitIInv == Init => IInv
<1> SUFFICES ASSUME Init PROVE IInv
  OBVIOUS
<1> USE DEF Init
<1>1. World \in Worlds
  BY SchedulerAssumption DEF World, Worlds, GPUStatus, JobStatus, Prompt, NoPrompt
<1>2. Owned(World)
  BY SchedulerAssumption DEF World, Owned
<1>3. Marked(World) /\ Addressed(World)
  BY DEF World, Marked, Addressed
<1>4. Spared(World)
  BY DEF World, Spared, IsRequest, NoPrompt
<1>5. Orderly(World)
  <2>1. Cardinality({}) = 0
    BY FS_EmptySet
  <2>2. QED
    BY <2>1, SchedulerAssumption DEF World, Orderly, Sized, Queued
<1>6. QED
  BY <1>1, <1>2, <1>3, <1>4, <1>5 DEF IInv, Safe

(* Every operation preserves the invariant.                                *)
LEMMA NextIInv == IInv /\ [Next]_vars => IInv'
<1> SUFFICES ASSUME IInv, [Next]_vars PROVE IInv'
  OBVIOUS
<1>1. CASE TryAllocateAll
  BY <1>1, AllocateFromIInv DEF IInv, TryAllocateAll
<1>2. CASE \E overdue \in SUBSET Jobs : CheckEstimatedCompletions(overdue)
  BY <1>2, CheckEstimatedCompletionsStep
<1>3. CASE \E j \in Jobs : \E isCritical \in Levels(j) :
             SubmitJob(j, isCritical) \/ ChangeJobPriority(j, isCritical)
  BY <1>3, SubmitJobStep, ChangeJobPriorityStep
<1>4. CASE \E j \in Jobs : CompleteJob(j) \/ CancelJob(j)
  BY <1>4, CompleteJobStep, CancelJobStep
<1>5. CASE \E g \in GPUs : \E j \in Jobs : \E isCritical \in Levels(j) :
             ManualAssignGpu(g, j, isCritical)
  BY <1>5, ManualAssignGpuStep
<1>6. CASE \E g \in GPUs : RaisePrompt(g) \/ RespondYes(g) \/ RespondNo(g) \/ CheckTimeout(g)
  BY <1>6, RaisePromptStep, RespondYesStep, ReclaimStep
<1>7. CASE \E g \in GPUs : \/ ForceReclaim(g) \/ HandleGpuFailure(g)
                         \/ SetGpuMaintenance(g) \/ ClearGpuMaintenance(g)
                         \/ RecoverGpuFailure(g)
  BY <1>7, ForceReclaimStep, HandleGpuFailureStep, ParkingStep
<1>8. CASE \E g \in GPUs : CooldownEnds(g)
  BY <1>8, CooldownEndsStep
<1>9. CASE UNCHANGED vars
  <2>1. World' = World
    BY <1>9 DEF vars, World
  <2>2. QED
    BY <2>1 DEF IInv
<1>10. QED
  BY <1>1, <1>2, <1>3, <1>4, <1>5, <1>6, <1>7, <1>8, <1>9 DEF Next

(* The inductive invariant holds in every reachable state: the records of  *)
(* ownership agree, prompts address the holder of their GPU and spare      *)
(* refused requesters, and sizes, statuses and FIFO entries of the jobs    *)
(* fit together.                                                           *)
THEOREM Invariance == Spec => []IInv
  BY InitIInv, NextIInv, PTL DEF Spec

(* In every reachable state every variable has the type of its field.      *)
THEOREM TypeCorrect == Spec => []TypeOK
<1>1. IInv => TypeOK
  BY DEF IInv, Safe, World, Worlds, TypeOK
<1>2. QED
  BY <1>1, Invariance, PTL

(* The four records of who holds a GPU (the GPU's own, the job's, the      *)
(* user's and the index) agree after every operation.                      *)
THEOREM OwnershipHolds == Spec => []Ownership
<1>1. Init => Indexed(World)
  BY DEF Init, World, Indexed
<1>2. IInv /\ Indexed(World) /\ [Next]_vars => Indexed(World)'
  BY NextIndexed
<1>3. IInv /\ Indexed(World) => Ownership
  BY DEF IInv, Safe, World, Owned, Indexed, Ownership
<1>4. QED
  BY <1>1, <1>2, <1>3, Invariance, PTL DEF Spec

(* The status of a GPU says whether it is held and whether its holder is   *)
(* being asked for it.                                                     *)
THEOREM StatusHolds == Spec => []StatusAgrees
<1>1. IInv => StatusAgrees
  BY DEF IInv, Safe, World, Marked, StatusAgrees
<1>2. QED
  BY <1>1, Invariance, PTL

(* No job holds more GPUs than it asked for, and its status says whether   *)
(* it holds some, all or none.                                             *)
THEOREM JobSizesHold == Spec => []JobSizes
<1>1. IInv => JobSizes
  BY DEF IInv, Orderly, World, Sized, JobSizes
<1>2. QED
  BY <1>1, Invariance, PTL

(* Every waiting job is queued exactly once, through any sequence of       *)
(* preemptions, failures and requeues.                                     *)
THEOREM QueueHolds == Spec => []QueueAgrees
<1>1. IInv => QueueAgrees
  BY DEF IInv, Orderly, World, Queued, QueueAgrees
<1>2. QED
  BY <1>1, Invariance, PTL

(* A prompt never outlives the holding it was raised for.                  *)
THEOREM PromptHolds == Spec => []PromptIsForHolder
<1>1. IInv => PromptIsForHolder
  BY DEF IInv, Safe, World, Addressed, PromptIsForHolder
<1>2. QED
  BY <1>1, Invariance, PTL

(* A request is never pending where the requester was refused or the GPU   *)
(* is in its cooldown.                                                     *)
THEOREM NoThrashingHolds == Spec => []NoThrashing
<1>1. IInv => NoThrashing
  BY DEF IInv, Safe, World, Spared, NoThrashing
<1>2. QED
  BY <1>1, Invariance, PTL

(* The diagnostic finds nothing wrong in a sound world but, perhaps, in    *)
(* the index of users.                                                     *)
LEMMA OnlyTheIndex ==
  ASSUME IInv
  PROVE  check_consistency = IndexComplaints
<1> USE WorldFields
<1>0. /\ Owned(World) /\ Marked(World) /\ Sized(World) /\ Queued(World) /\ World \in Worlds
  BY DEF IInv, Safe, Orderly
<1>1. GpuComplaints = {}
  <2>1. ASSUME NEW g \in GPUs, assignedJob[g] # NoJob
        PROVE  /\ assignedJob[g] \in Known /\ g \in jobGpus[assignedJob[g]]
               /\ assignedUser[g] = Owner[assignedJob[g]]
    <3>1. assignedJob[g] \in Jobs /\ g \in jobGpus[assignedJob[g]]
      BY <1>0, <2>1 DEF Worlds, Owned
    <3>2. jobStatus[assignedJob[g]] # "NEW"
      BY <1>0, <3>1 DEF Sized
    <3>3. QED
      BY <1>0, <2>1, <3>1, <3>2 DEF Known, Owned
  <2>2. ASSUME NEW g \in GPUs, assignedUser[g] # NoUser
        PROVE  g \in userGpus[assignedUser[g]] /\ gpuStatus[g] \in {"ACTIVE", "IDLE_WARNING"}
    <3>1. assignedUser[g] \in Users /\ assignedJob[g] # NoJob
      BY <1>0, <2>2 DEF Worlds, Owned
    <3>2. QED
      BY <1>0, <3>1 DEF Owned, Marked
  <2>3. QED
    BY <2>1, <2>2 DEF GpuComplaints, Complaints
<1>2. JobComplaints = {}
  <2>1. \A g \in GPUs, j \in Jobs : g \in jobGpus[j] <=> assignedJob[g] = j
    BY <1>0 DEF Owned
  <2>2. ASSUME NEW j \in Known
        PROVE  /\ j \in Jobs /\ jobGpus[j] \in SUBSET GPUs
               /\ ~ Cardinality(jobGpus[j]) > Count[j]
               /\ jobStatus[j] = "RUNNING" => jobGpus[j] # {}
               /\ jobStatus[j] = "WAITING" => ~ Cardinality(jobGpus[j]) >= Count[j]
    <3>1. j \in Jobs /\ jobGpus[j] \in SUBSET GPUs /\ Count[j] \in Nat
      BY <1>0, SchedulerAssumption DEF Known, Worlds
    <3>2. Cardinality(jobGpus[j]) \in Nat
      BY <3>1, FS_Subset, FS_CardinalityType, SchedulerAssumption
    <3>3. QED
      BY <1>0, <3>1, <3>2 DEF Sized
  <2>3. \A g \in GPUs : \A j, k \in Known : j # k => g \notin jobGpus[j] \cap jobGpus[k]
    BY <2>1, <2>2
  <2>4. \A j \in Known : \A g \in jobGpus[j] : assignedJob[g] = j
    BY <2>1, <2>2
  <2>5. /\ {g \in GPUs : \E j, k \in Known : j # k /\ g \in jobGpus[j] \cap jobGpus[k]} = {}
        /\ {j \in Known : \E g \in jobGpus[j] : assignedJob[g] # j} = {}
    BY <2>3, <2>4
  <2>6. /\ {j \in Known : Cardinality(jobGpus[j]) > Count[j]} = {}
        /\ {j \in Known : jobStatus[j] = "RUNNING" /\ jobGpus[j] = {}} = {}
        /\ {j \in Known : jobStatus[j] = "WAITING" /\ Cardinality(jobGpus[j]) >= Count[j]} = {}
    BY <2>2
  <2>7. \A check : Complaints(check, {}) = {}
    BY DEF Complaints
  <2>8. QED
    BY <2>5, <2>6, <2>7, Zenon DEF JobComplaints
<1>3. UserComplaints = IndexComplaints
  <2>1. \A u \in Users : \A g \in userGpus[u] : assignedUser[g] = u
    BY <1>0 DEF Owned, Worlds
  <2>2. QED
    BY <2>1 DEF UserComplaints, Complaints
<1>4. QueueComplaints = {}
  <2>1. \A j \in Jobs : ~ fifo[j] > 1
    BY <1>0 DEF Queued, Worlds
  <2>2. QED
    BY <2>1 DEF QueueComplaints, Complaints, WaitingInFifo
<1>5. QED
  BY <1>1, <1>2, <1>3, <1>4 DEF check_consistency

(* The code's own diagnostic never complains, after any sequence of        *)
(* operations on any pool.                                                 *)
THEOREM DiagnosticIsSilent == Spec => []Consistent
<1>1. Init => Indexed(World)
  BY DEF Init, World, Indexed
<1>2. IInv /\ Indexed(World) /\ [Next]_vars => Indexed(World)'
  BY NextIndexed
<1>3. IInv /\ Indexed(World) => Consistent
  BY OnlyTheIndex, WorldFields DEF Consistent, IndexComplaints, Complaints, Indexed
<1>4. QED
  BY <1>1, <1>2, <1>3, Invariance, PTL DEF Spec

=============================================================================
