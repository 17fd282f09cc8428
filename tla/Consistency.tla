---------------------------- MODULE Consistency ----------------------------
(***************************************************************************)
(* The diagnostic of engine/consistency.py, check for check: what it       *)
(* complains of in a state of the scheduler, a set of pairs of a check and *)
(* a culprit.  Left out are the checks no operation can affect: that ids   *)
(* are the keys of their records, that users are registered, that          *)
(* gpus_still_needed is what the property of that name computes, and the   *)
(* status of a queued job, since waiting_job_ids drops who does not wait.  *)
(***************************************************************************)
EXTENDS Scheduler

Complaints(check, culprits) == {<<check, x>> : x \in culprits}

(* The jobs of SchedulerState.                                             *)
Known == {j \in Jobs : jobStatus[j] # "NEW"}

(* Each GPU, its job and its user.                                         *)
GpuComplaints ==
  LET Held == {g \in GPUs : assignedJob[g] # NoJob}
      Lists(g) == g \in jobGpus[assignedJob[g]]
  IN Complaints("out but assigned",
                {g \in GPUs : gpuStatus[g] \in {"MAINTENANCE", "UNAVAILABLE"} /\ assignedUser[g] # NoUser})
     \cup Complaints("unknown job", {g \in Held : assignedJob[g] \notin Known})
     \cup Complaints("not listed by its job", {g \in Held : assignedJob[g] \in Known /\ ~ Lists(g)})
     \cup Complaints("of another user than its job",
                     {g \in Held : assignedJob[g] \in Known /\ Lists(g) /\ assignedUser[g] # Owner[assignedJob[g]]})
     \cup Complaints("not listed by its user",
                     {g \in GPUs : assignedUser[g] # NoUser /\ g \notin userGpus[assignedUser[g]]})

(* Each job, its GPUs and its status.                                      *)
JobComplaints ==
  LET Size(j) == Cardinality(jobGpus[j])
  IN Complaints("held twice", {g \in GPUs : \E j, k \in Known : j # k /\ g \in jobGpus[j] \cap jobGpus[k]})
     \cup Complaints("claims a GPU", {j \in Known : \E g \in jobGpus[j] : assignedJob[g] # j})
     \cup Complaints("holds too many", {j \in Known : Size(j) > Count[j]})
     \cup Complaints("RUNNING on nothing", {j \in Known : jobStatus[j] = "RUNNING" /\ jobGpus[j] = {}})
     \cup Complaints("WAITING with all", {j \in Known : jobStatus[j] = "WAITING" /\ Size(j) >= Count[j]})

IndexComplaints == Complaints("index", {u \in Users : userIndex[u] # userGpus[u]})

(* Each user, the index and its GPUs.                                      *)
UserComplaints ==
  IndexComplaints
  \cup Complaints("claims a GPU", {u \in Users : \E g \in userGpus[u] : assignedUser[g] # u})

(* The waiting FIFO.                                                       *)
QueueComplaints == Complaints("queued twice", {j \in WaitingInFifo(World) : fifo[j] > 1})

check_consistency == GpuComplaints \cup JobComplaints \cup UserComplaints \cup QueueComplaints

(* After any sequence of operations the diagnostic has nothing to complain *)
(* of (assert_consistent, which the tests call between operations).        *)
Consistent == check_consistency = {}
=============================================================================
