--------------------------- MODULE SelectionPolicy ---------------------------
(***************************************************************************)
(* Which waiting job gets the next free GPU: AllocationEngine's            *)
(* select_next_job with the exact scores of engine/allocation, in the      *)
(* setting that decides what they mean: jobs arrive, wait, run, lose their *)
(* GPU to a failure or to a job that out-scores them, and compete again.   *)
(*                                                                         *)
(* Scheduler leaves open which plan a pass chooses; this module says which *)
(* job is served next, one GPU at a time.  It leaves open which GPU.       *)
(*                                                                         *)
(* Scores are integers: hundredths of a point, times the spread of sizes   *)
(* they are normalised by.  Time is in minutes and passes Step at a time.  *)
(*                                                                         *)
(* An operator named <definition>_<deviation> is the definition as a       *)
(* plausible mistake would have it; no definition uses it.                 *)
(***************************************************************************)
EXTENDS Integers

CONSTANTS
  Jobs,         \* the jobs; a job that is over makes room for the next of its kind
  Priority,     \* Job.priority, from 1 for LOW to 4 for CRITICAL
  UserPriority, \* User.priority of the job's user, which may be another
  Size,         \* Job.estimated_size_minutes
  Count,        \* Job.gpu_count
  Capacity,     \* the number of GPUs
  Disparity,    \* whether size_disparity_ratio is set
  Overrun,      \* how long a job may run beyond its size (a bound)
  MaxFailures,  \* how many GPUs fail in all (a bound)
  Step,         \* the minutes of one tick (a bound)
  Horizon       \* where waiting and running times stop (a bound)

ASSUME PolicyAssumption ==
  /\ Priority \in [Jobs -> 1..4]
  /\ UserPriority \in [Jobs -> 1..4]
  /\ Size \in [Jobs -> 1..Horizon]
  /\ Count \in [Jobs -> Nat \ {0}]
  /\ Capacity \in Nat \ {0}
  /\ Disparity \in BOOLEAN
  /\ Overrun \in Nat
  /\ MaxFailures \in Nat
  /\ Step \in Nat \ {0}
  /\ Horizon \in Nat

VARIABLES
  status,     \* Job.status; "NEW" before submission and when the job is over
  held,       \* how many GPUs the job holds
  ahead,      \* the jobs before this one in the waiting FIFO
  queued,     \* how long it has been WAITING since submitted_at
  ran,        \* how long it has been RUNNING since submitted_at
  waitedFor,  \* started_at - submitted_at, None while started_at is None
  free,       \* the number of available GPUs
  out,        \* the number of UNAVAILABLE GPUs
  failures    \* how many GPUs have failed so far

jobVars == <<status, held, ahead, queued, ran, waitedFor>>
vars == <<jobVars, free, out, failures>>

None == -1

-----------------------------------------------------------------------------
(* engine/allocation/config.py, in hundredths.                             *)

PRIORITY_WEIGHT == 60
SIZE_WEIGHT == 40
JOB_SIZE_SIMILARITY_THRESHOLD == 20
AGING_RATE_PER_MINUTE == 1
AGING_MAX_CONTRIBUTION == 110
SIZE_DISPARITY_PREEMPTION_RATIO == 5

(* How long a job must have waited for the aging bonus to reach its cap.   *)
FullyAged == AGING_MAX_CONTRIBUTION \div AGING_RATE_PER_MINUTE

-----------------------------------------------------------------------------
(* The score.                                                              *)

Waiting == {j \in Jobs : status[j] = "WAITING"}

(* now - submitted_at.                                                     *)
Age(j) == queued[j] + ran[j]

WaitingMinutes(j) == IF waitedFor[j] = None THEN Age(j) ELSE waitedFor[j]

AgingComponent_None(minutes) == 0

AgingComponent(minutes) ==
  IF minutes * AGING_RATE_PER_MINUTE < AGING_MAX_CONTRIBUTION
  THEN minutes * AGING_RATE_PER_MINUTE
  ELSE AGING_MAX_CONTRIBUTION

(* The three levels above LOW share the weight of priority.                *)
PriorityPoints(j) == (PRIORITY_WEIGHT \div 3) * (Priority[j] - 1)

Spread(lo, hi) == IF lo < hi THEN hi - lo ELSE 1

(* job_size_inverse, times the spread.                                     *)
SizeInverse(size, lo, hi) == IF lo < hi THEN hi - size ELSE 1

(* calculate_allocation_score among sizes from lo to hi, times the spread. *)
Score(j, lo, hi) ==
  Spread(lo, hi) * (PriorityPoints(j) + AgingComponent(WaitingMinutes(j)))
    + SIZE_WEIGHT * SizeInverse(Size[j], lo, hi)

-----------------------------------------------------------------------------
(* The selection.                                                          *)

(* Only CRITICAL jobs compete while there is one.                          *)
Pool ==
  IF \E j \in Waiting : Priority[j] = 4 THEN {j \in Waiting : Priority[j] = 4} ELSE Waiting

(* The spread of the extremes is the largest spread of any two.            *)
SizesAreSimilar(pool) ==
  \A j, k \in pool : 100 * (Size[j] - Size[k]) <= JOB_SIZE_SIMILARITY_THRESHOLD * Size[j]

SubmittedBefore_LastFirst(j, k) == Age(j) < Age(k) \/ (Age(k) = Age(j) /\ j \in ahead[k])

(* By submitted_at, and by place in the FIFO for the same instant.         *)
SubmittedBefore(j, k) == Age(k) < Age(j) \/ (Age(k) = Age(j) /\ j \in ahead[k])

FirstSubmitted(j, pool) == \A k \in pool \ {j} : ~ SubmittedBefore(k, j)

(* What a PriorityQueue keyed by score, then submitted_at, pops.           *)
BestScored(j, pool) ==
  \E a, b \in pool :
    LET lo == Size[a]
        hi == Size[b]
    IN /\ \A k \in pool : lo <= Size[k] /\ Size[k] <= hi
       /\ \A k \in pool \ {j} :
            \/ Score(k, lo, hi) < Score(j, lo, hi)
            \/ Score(k, lo, hi) = Score(j, lo, hi) /\ ~ SubmittedBefore(k, j)

(* select_next_job returns j.                                              *)
Selected(j) ==
  /\ j \in Pool
  /\ IF SizesAreSimilar(Pool) THEN FirstSubmitted(j, Pool) ELSE BestScored(j, Pool)

(* The head-to-head comparison of two jobs' scores, at the present time.   *)
OutScores(k, j) ==
  LET lo == IF Size[k] < Size[j] THEN Size[k] ELSE Size[j]
      hi == IF Size[k] < Size[j] THEN Size[j] ELSE Size[k]
  IN Score(j, lo, hi) < Score(k, lo, hi)

(* _preemption_eligible: k's user outranks the user of the holder j, and k *)
(* out-scores j.  The first is about users, the score about the jobs.      *)
Preempts(k, j) == UserPriority[j] < UserPriority[k] /\ OutScores(k, j)

(* k may ask the holder j for a GPU, by priority, or by a gap in size that *)
(* needs none.  How much of j's estimate was left when k asked is not      *)
(* kept: at most all of it.                                                *)
MayContest(k, j) ==
  /\ k \in Waiting /\ k # j /\ 0 < held[j]
  /\ \/ Preempts(k, j)
     \/ Disparity /\ SIZE_DISPARITY_PREEMPTION_RATIO * Size[k] <= Size[j]

-----------------------------------------------------------------------------
(* The life of the jobs.                                                   *)

Init ==
  /\ status = [j \in Jobs |-> "NEW"]
  /\ held = [j \in Jobs |-> 0]
  /\ ahead = [j \in Jobs |-> {}]
  /\ queued = [j \in Jobs |-> 0]
  /\ ran = [j \in Jobs |-> 0]
  /\ waitedFor = [j \in Jobs |-> None]
  /\ free = Capacity
  /\ out = 0
  /\ failures = 0

(* Every operation ends with a pass, which leaves no GPU free while a job  *)
(* waits; the pass is a run of SelectNext steps before anything else.      *)
Settled == free = 0 \/ Waiting = {}

(* j leaves the FIFO.                                                      *)
Without(j) == [k \in Jobs |-> IF k = j THEN {} ELSE ahead[k] \ {j}]

(* j enters it at the tail.                                                *)
AtTail(j) == [ahead EXCEPT ![j] = Waiting \ {j}]

(* A first submission, or one that starts over after a lost contest.       *)
StartOver_KeepsAge(j) ==
  /\ waitedFor' = [waitedFor EXCEPT ![j] = None]
  /\ UNCHANGED <<queued, ran>>

StartOver_KeepsStart(j) ==
  /\ queued' = [queued EXCEPT ![j] = 0]
  /\ ran' = [ran EXCEPT ![j] = 0]
  /\ UNCHANGED waitedFor

StartOver(j) ==
  /\ waitedFor' = [waitedFor EXCEPT ![j] = None]
  /\ queued' = [queued EXCEPT ![j] = 0]
  /\ ran' = [ran EXCEPT ![j] = 0]

Submit(j) ==
  /\ Settled
  /\ status[j] = "NEW"
  /\ status' = [status EXCEPT ![j] = "WAITING"]
  /\ ahead' = AtTail(j)
  /\ StartOver(j)
  /\ UNCHANGED <<held, free, out, failures>>

(* One GPU for the selected job, which waits on unless it has them all.    *)
SelectNext(j) ==
  /\ 0 < free
  /\ Selected(j)
  /\ held' = [held EXCEPT ![j] = @ + 1]
  /\ free' = free - 1
  /\ waitedFor' = [waitedFor EXCEPT ![j] = WaitingMinutes(j)]
  /\ IF held[j] + 1 >= Count[j]
     THEN status' = [status EXCEPT ![j] = "RUNNING"] /\ ahead' = Without(j)
     ELSE UNCHANGED <<status, ahead>>
  /\ UNCHANGED <<queued, ran, out, failures>>

Finish(j) ==
  /\ Settled
  /\ status[j] = "RUNNING"
  /\ status' = [status EXCEPT ![j] = "NEW"]
  /\ held' = [held EXCEPT ![j] = 0]
  /\ free' = free + held[j]
  /\ StartOver(j)
  /\ UNCHANGED <<ahead, out, failures>>

(* One GPU of j goes back and nobody contests it: it looks abandoned, or j *)
(* granted a plain request.  Without its last GPU the job is over.         *)
Release(j) ==
  /\ Settled
  /\ 0 < held[j]
  /\ held' = [held EXCEPT ![j] = @ - 1]
  /\ free' = free + 1
  /\ IF held[j] = 1
     THEN /\ StartOver(j)
          /\ status' = [status EXCEPT ![j] = "NEW"]
          /\ ahead' = Without(j)
     ELSE UNCHANGED <<status, ahead, queued, ran, waitedFor>>
  /\ UNCHANGED <<out, failures>>

(* The holder j answers NO to k, or not at all, while what led to the      *)
(* question stands: _reclaim after a contest.  Without its last GPU the    *)
(* job starts over as if submitted now.                                    *)
GiveUp(j, k) ==
  /\ Settled
  /\ MayContest(k, j)
  /\ held' = [held EXCEPT ![j] = @ - 1]
  /\ free' = free + 1
  /\ IF held[j] = 1
     THEN /\ StartOver(j)
          /\ status' = [status EXCEPT ![j] = "WAITING"]
          /\ ahead' = IF j \in Waiting THEN ahead ELSE AtTail(j)
     ELSE UNCHANGED <<status, ahead, queued, ran, waitedFor>>
  /\ UNCHANGED <<out, failures>>

(* A GPU of j fails.  Without its last GPU the job waits again, with the   *)
(* submitted_at and the started_at it had.                                 *)
LoseGpu(j) ==
  /\ Settled
  /\ 0 < held[j] /\ failures < MaxFailures
  /\ held' = [held EXCEPT ![j] = @ - 1]
  /\ out' = out + 1
  /\ failures' = failures + 1
  /\ IF held[j] = 1
     THEN /\ status' = [status EXCEPT ![j] = "WAITING"]
          /\ ahead' = IF j \in Waiting THEN ahead ELSE AtTail(j)
     ELSE UNCHANGED <<status, ahead>>
  /\ UNCHANGED <<queued, ran, waitedFor, free>>

LoseFreeGpu ==
  /\ Settled
  /\ 0 < free /\ failures < MaxFailures
  /\ free' = free - 1
  /\ out' = out + 1
  /\ failures' = failures + 1
  /\ UNCHANGED jobVars

Recover ==
  /\ Settled
  /\ 0 < out
  /\ out' = out - 1
  /\ free' = free + 1
  /\ UNCHANGED <<jobVars, failures>>

Later(minutes) == IF minutes + Step < Horizon THEN minutes + Step ELSE Horizon

(* Time passes.                                                            *)
Tick ==
  /\ Settled
  /\ \A j \in Jobs : status[j] = "RUNNING" => ran[j] < Size[j] + Overrun
  /\ queued' = [j \in Jobs |-> IF status[j] = "WAITING" THEN Later(queued[j]) ELSE queued[j]]
  /\ ran' = [j \in Jobs |-> IF status[j] = "RUNNING" THEN Later(ran[j]) ELSE ran[j]]
  /\ UNCHANGED <<status, held, ahead, waitedFor, free, out, failures>>

Next ==
  \/ \E j \in Jobs : Submit(j) \/ SelectNext(j) \/ Finish(j) \/ Release(j) \/ LoseGpu(j)
  \/ \E j, k \in Jobs : GiveUp(j, k)
  \/ LoseFreeGpu
  \/ Recover
  \/ Tick

Spec == Init /\ [][Next]_vars

(* A pass ends, the clock ticks again and again, a job ends when its       *)
(* estimate has elapsed, and a failed GPU is recovered.                    *)
FairSpec ==
  /\ Spec
  /\ WF_vars(\E j \in Jobs : SelectNext(j))
  /\ SF_vars(Tick)
  /\ \A j \in Jobs : WF_vars(Finish(j))
  /\ WF_vars(Recover)

-----------------------------------------------------------------------------
(* The properties.                                                         *)

(* Types; a job that never started has not run, and one that did waited no *)
(* longer than it has been here.                                           *)
TypeOK ==
  /\ status \in [Jobs -> {"NEW", "WAITING", "RUNNING"}]
  /\ held \in [Jobs -> Nat]
  /\ ahead \in [Jobs -> SUBSET Jobs]
  /\ queued \in [Jobs -> 0..Horizon]
  /\ ran \in [Jobs -> 0..Horizon]
  /\ waitedFor \in [Jobs -> Nat \cup {None}]
  /\ free \in Nat /\ out \in Nat /\ failures \in 0..MaxFailures
  /\ \A j \in Jobs : IF waitedFor[j] = None THEN ran[j] = 0 ELSE waitedFor[j] <= Age(j)

Served(j) == held'[j] = held[j] + 1

(* No job is served before one that was submitted earlier, has at least    *)
(* its priority, is no larger and, like it, never started: FCFS, score and *)
(* the CRITICAL tier never combine to reverse all three (select_next_job). *)
NoOvertaking ==
  [][\A j \in Jobs, k \in Waiting :
       Served(j) /\ waitedFor[j] = None /\ waitedFor[k] = None =>
         ~ (Age(j) < Age(k) /\ Priority[j] <= Priority[k] /\ Size[k] <= Size[j])]_vars

(* Once a job that never started has waited for the whole aging bonus, no  *)
(* job submitted in the last ten minutes is served before it, unless that  *)
(* job alone is CRITICAL (calculate_aging_component, config.py).           *)
FullyAgedFirst ==
  [][\A j \in Jobs, k \in Pool :
       Served(j) /\ waitedFor[k] = None /\ FullyAged <= Age(k) => 10 <= Age(j)]_vars

(* The running job j gives its GPU up to k, whose user outranks its own    *)
(* and which out-scores it.                                                *)
Preempted(j, k) == status[j] = "RUNNING" /\ GiveUp(j, k) /\ Preempts(k, j)

(* A preempted job is not the one the next pass serves, unless it has a    *)
(* higher priority than the job that preempted it: among jobs of equal or  *)
(* rising priority a preemption is not undone at once (_reclaim restarts   *)
(* the clock of the loser).                                                *)
NoWinBackFromBelow ==
  [][\A j, k \in Jobs : Preempted(j, k) /\ Priority[j] <= Priority[k] => ~ Selected(j)']_vars

(* A preempted job does not instantly win its old GPU back off the job     *)
(* that just preempted it: its clock restarts for that (docs/dsa.md on     *)
(* preempted jobs, and the comment in _reclaim).                           *)
NoWinBack ==
  [][\A j, k \in Jobs : Preempted(j, k) => ~ Selected(j)']_vars

(* A job that waits for its first GPU gets one, although it has the lowest *)
(* priority, the largest size and ever new competitors, if what it         *)
(* competes with is over soon enough (calculate_aging_component).          *)
FirstTimersAreServed ==
  \A j \in Jobs : (status[j] = "WAITING" /\ waitedFor[j] = None) ~> waitedFor[j] # None

(* A job that waits is served in the end, whatever came before and however *)
(* long the others run (config.py on aging: it prevents a continuous       *)
(* stream of new work from starving a job forever).                        *)
NoStarvation == \A j \in Jobs : status[j] = "WAITING" ~> status[j] # "WAITING"
=============================================================================
