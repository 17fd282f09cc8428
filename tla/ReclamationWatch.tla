-------------------------- MODULE ReclamationWatch --------------------------
(***************************************************************************)
(* The watch ReclamationEngine keeps on one GPU, with time: the sliding    *)
(* window of utilization readings, the two tiers of sustained breach, the  *)
(* baselines that separate one holder's readings from another's, the grace *)
(* period of a prompt and the cooldown after a request.                    *)
(*                                                                         *)
(* A timestamp t is represented by its age, now - t, and only Tick makes   *)
(* ages grow.  Ages stop at Horizon, which no duration of the policy       *)
(* exceeds; a timestamp that is None is Never, older than any reading.     *)
(*                                                                         *)
(* An operator named <definition>_<deviation> is the definition as a       *)
(* plausible mistake would have it; no definition uses it.                 *)
(***************************************************************************)
EXTENDS Naturals

CONSTANTS
  Jobs, NoJob,   \* the jobs, each of another user, and None
  Tier1, Tier2,  \* the sustained durations of the two tiers
  Grace,         \* no_response_grace_period
  Cooldown,      \* preemption_cooldown
  Gaps,          \* the possible intervals between two readings (a bound)
  Horizon        \* where ages stop (a bound)

(* monitoring_window_duration.                                             *)
Keep == IF Tier1 > Tier2 THEN Tier1 ELSE Tier2

ASSUME WatchAssumption ==
  /\ NoJob \notin Jobs
  /\ Tier1 \in Nat \ {0} /\ Tier2 \in Nat \ {0}
  /\ Grace \in Nat /\ Cooldown \in Nat
  /\ Gaps \in SUBSET (Nat \ {0})
  /\ Horizon \in Nat
  /\ Keep < Horizon /\ Grace <= Horizon /\ Cooldown <= Horizon

VARIABLES
  holder,     \* GPU.assigned_job_id
  watched,    \* whether the GPU has a _GPUWatch yet
  window,     \* the reading of each age, if one was taken then
  confirmed,  \* the age of _GPUWatch.confirmed_at
  tracked,    \* _GPUWatch.tracked_job_id
  since,      \* the age of _GPUWatch.holder_since
  prompt,     \* the pending prompt: what raised it and, for a request, the requester
  asked,      \* the age of _GPUWatch.prompted_at
  declined,   \* _GPUWatch.declined_for_job_ids
  resolved,   \* the age of _GPUWatch.last_request_resolved_at
  phase,      \* the age of the latest reading
  claimed     \* how long ago the holder got the GPU or last said YES (not in the code)

watch == <<watched, window, confirmed, tracked, since, prompt, asked, declined, resolved>>
vars == <<holder, watch, phase, claimed>>

-----------------------------------------------------------------------------
(* Readings are compared with the thresholds only: 0 is below that of tier *)
(* 1, 1 below that of tier 2, 2 at or above both.                          *)
Levels == 0..2
NoReading == 3

Tiers == {"tier1", "tier2"}
Duration(tier) == IF tier = "tier1" THEN Tier1 ELSE Tier2
Low(tier) == IF tier = "tier1" THEN {0} ELSE {0, 1}

Ages == 0..Horizon
Never == Horizon

NoPrompt == [kind |-> "none", by |-> NoJob]
Prompt ==
  [kind : {"none", "estimate"} \cup Tiers, by : {NoJob}] \cup [kind : {"request"}, by : Jobs]

Older(age) == IF age < Horizon THEN age + 1 ELSE age

(* The readings _detect_tier looks at: in the window, after the last       *)
(* confirmation, not before the holder's baseline.                         *)
Counted_SinceHolderOnly(readings, after, from) ==
  {age \in 0..Keep : readings[age] # NoReading /\ age <= from}

Counted(readings, after, from) ==
  {age \in 0..Keep : readings[age] # NoReading /\ age < after /\ age <= from}

Breach_OlderThanWindow(readings, ages, tier) ==
  /\ 0 \in ages
  /\ \E age \in ages : age > Duration(tier)
  /\ \E age \in ages : 0 < age /\ age <= Duration(tier)
  /\ \A age \in ages : age <= Duration(tier) => readings[age] \in Low(tier)

(* is_sustained_breach, at the instant of the latest reading.              *)
Breach(readings, ages, tier) ==
  /\ 0 \in ages
  /\ \E age \in ages : age >= Duration(tier)
  /\ \E age \in ages : 0 < age /\ age <= Duration(tier)
  /\ \A age \in ages : age <= Duration(tier) => readings[age] \in Low(tier)

(* _detect_tier: the prompt kinds the readings call for, tier 1 first.     *)
Detected(readings, ages) ==
  {tier \in Tiers : Breach(readings, ages, tier)
                    /\ (tier = "tier2" => ~ Breach(readings, ages, "tier1"))}

TimedOut_TiersOnly == prompt.kind \in Tiers /\ asked >= Grace

TimedOut == prompt # NoPrompt /\ asked >= Grace

-----------------------------------------------------------------------------
Init ==
  /\ holder = NoJob
  /\ watched = FALSE
  /\ window = [age \in 0..Keep |-> NoReading]
  /\ confirmed = Never
  /\ tracked = NoJob
  /\ since = Never
  /\ prompt = NoPrompt
  /\ asked = 0
  /\ declined = {}
  /\ resolved = Never
  /\ phase = 0
  /\ claimed = 0

(* Time passes, unless a reading is overdue.                               *)
Tick ==
  /\ \E gap \in Gaps : phase < gap
  /\ phase' = phase + 1
  /\ window' = [age \in 0..Keep |-> IF age = 0 THEN NoReading ELSE window[age - 1]]
  /\ confirmed' = Older(confirmed)
  /\ since' = Older(since)
  /\ asked' = IF prompt = NoPrompt THEN 0 ELSE Older(asked)
  /\ resolved' = Older(resolved)
  /\ claimed' = IF holder = NoJob THEN 0 ELSE Older(claimed)
  /\ UNCHANGED <<holder, watched, tracked, prompt, declined>>

(* _reclaim: the holder loses the GPU.  The baseline of the holder stays,  *)
(* the confirmation makes the readings up to now count for nobody.         *)
TakeBack ==
  /\ holder' = NoJob
  /\ claimed' = 0
  /\ prompt' = NoPrompt
  /\ asked' = 0
  /\ confirmed' = 0
  /\ resolved' = IF prompt.kind = "request" THEN 0 ELSE resolved
  /\ UNCHANGED <<tracked, since, declined>>

Ask_NoContext(kind, by) ==
  /\ prompt' = [kind |-> kind, by |-> NoJob]
  /\ asked' = 0
  /\ watched' = TRUE

Ask(kind, by) ==
  /\ prompt' = [kind |-> kind, by |-> by]
  /\ asked' = 0
  /\ watched' = TRUE

(* holder_since for the readings from now on.                              *)
Baseline == IF tracked # holder THEN 0 ELSE since

(* The three outcomes of _evaluate.                                        *)
Evaluate(readings) ==
  \/ /\ TimedOut
     /\ TakeBack
  \/ /\ prompt # NoPrompt /\ ~ TimedOut
     /\ UNCHANGED <<holder, claimed, prompt, asked, confirmed, resolved, tracked, since, declined>>
  \/ /\ prompt = NoPrompt /\ holder = NoJob
     /\ tracked' = NoJob
     /\ since' = Never
     /\ UNCHANGED <<holder, claimed, prompt, asked, confirmed, resolved, declined>>
  \/ /\ prompt = NoPrompt /\ holder # NoJob
     /\ tracked' = holder
     /\ since' = Baseline
     /\ LET tiers == Detected(readings, Counted(readings, confirmed, Baseline)) IN
        \/ tiers = {} /\ prompt' = prompt
        \/ \E tier \in tiers : prompt' = [kind |-> tier, by |-> NoJob]
     /\ asked' = 0
     /\ UNCHANGED <<holder, claimed, confirmed, resolved, declined>>

RecordUtilization(level) ==
  /\ phase \in Gaps
  /\ phase' = 0
  /\ watched' = TRUE
  /\ window' = [window EXCEPT ![0] = level]
  /\ Evaluate(window')

CheckTimeout ==
  /\ TimedOut
  /\ TakeBack
  /\ UNCHANGED <<watched, window, phase>>

(* prompt_for_job_completion, when the holder's estimate has elapsed.      *)
PromptForJobCompletion ==
  /\ prompt = NoPrompt
  /\ holder # NoJob
  /\ Ask("estimate", NoJob)
  /\ UNCHANGED <<holder, window, confirmed, tracked, since, declined, resolved, phase, claimed>>

(* request_gpu_for_reallocation for a job _eligible_candidate lets ask.    *)
RequestGpu(j) ==
  /\ prompt = NoPrompt
  /\ holder \notin {NoJob, j}
  /\ j \notin declined
  /\ resolved >= Cooldown
  /\ Ask("request", j)
  /\ UNCHANGED <<holder, window, confirmed, tracked, since, declined, resolved, phase, claimed>>

(* cancel_pending_requests_for_job.                                        *)
WithdrawRequests(j) ==
  /\ prompt = [kind |-> "request", by |-> j]
  /\ prompt' = NoPrompt
  /\ asked' = 0
  /\ UNCHANGED <<holder, watched, window, confirmed, tracked, since, declined, resolved, phase, claimed>>

RespondYes ==
  /\ prompt # NoPrompt
  /\ prompt' = NoPrompt
  /\ asked' = 0
  /\ confirmed' = 0
  /\ claimed' = 0
  /\ declined' = IF prompt.kind = "request" THEN declined \cup {prompt.by} ELSE declined
  /\ resolved' = IF prompt.kind = "request" THEN 0 ELSE resolved
  /\ UNCHANGED <<holder, watched, window, tracked, since, phase>>

RespondNo ==
  /\ prompt # NoPrompt
  /\ TakeBack
  /\ UNCHANGED <<watched, window, phase>>

ClearWatch_PendingOnly ==
  /\ prompt' = NoPrompt
  /\ asked' = 0
  /\ IF prompt # NoPrompt
     THEN confirmed' = 0 /\ tracked' = NoJob /\ since' = Never
     ELSE UNCHANGED <<confirmed, tracked, since>>
  /\ UNCHANGED <<watched, window, declined, resolved, phase>>

ClearWatch_NotThePrompt ==
  /\ confirmed' = IF watched THEN 0 ELSE confirmed
  /\ tracked' = NoJob
  /\ since' = Never
  /\ UNCHANGED <<prompt, asked, watched, window, declined, resolved, phase>>

(* clear_watch_for_gpu: no prompt and no baseline survives the holder.     *)
ClearWatch ==
  /\ prompt' = NoPrompt
  /\ asked' = 0
  /\ confirmed' = IF watched THEN 0 ELSE confirmed
  /\ tracked' = NoJob
  /\ since' = Never
  /\ UNCHANGED <<watched, window, declined, resolved, phase>>

(* complete_job, force_reclaim and handle_gpu_failure free the GPU.        *)
Release ==
  /\ holder # NoJob
  /\ holder' = NoJob
  /\ claimed' = 0
  /\ ClearWatch

(* _assign_gpu: the watch is not told.                                     *)
AssignGpu(j) ==
  /\ holder = NoJob
  /\ holder' = j
  /\ claimed' = 0
  /\ UNCHANGED <<watch, phase>>

Next ==
  \/ Tick
  \/ \E level \in Levels : RecordUtilization(level)
  \/ CheckTimeout
  \/ PromptForJobCompletion
  \/ \E j \in Jobs : RequestGpu(j) \/ WithdrawRequests(j) \/ AssignGpu(j)
  \/ RespondYes
  \/ RespondNo
  \/ Release

Spec == Init /\ [][Next]_vars

(* The session's loop advances the clock and checks timeouts at every tick,*)
(* and readings keep coming from the scenario or the poller.               *)
FairSpec ==
  /\ Spec
  /\ WF_vars(Tick)
  /\ WF_vars(CheckTimeout)
  /\ WF_vars(\E level \in Levels : RecordUtilization(level))

-----------------------------------------------------------------------------
TypeOK ==
  /\ holder \in Jobs \cup {NoJob}
  /\ watched \in BOOLEAN
  /\ window \in [0..Keep -> Levels \cup {NoReading}]
  /\ confirmed \in Ages
  /\ tracked \in Jobs \cup {NoJob}
  /\ since \in Ages
  /\ prompt \in Prompt
  /\ asked \in Ages
  /\ declined \in SUBSET Jobs
  /\ resolved \in Ages
  /\ phase \in Nat
  /\ claimed \in Ages

(* The readings that count against a holder were all taken while it held   *)
(* the GPU and since its last YES: neither the idle time before it nor an  *)
(* earlier holder is evidence, whichever way the GPU changed hands.        *)
EvidenceIsOfHolder ==
  holder # NoJob => \A age \in Counted(window, confirmed, Baseline) : age <= claimed

(* A utilization prompt is raised only after the holder has had the GPU,   *)
(* and has not said YES, for the whole duration of the tier (the timer is  *)
(* reset by YES and by every change of holder).                            *)
PromptIsEarned ==
  [][\A tier \in Tiers : prompt'.kind = tier /\ prompt.kind # tier => claimed >= Duration(tier)]_vars

(* No timeout takes a GPU from a holder that got it, or said YES, less     *)
(* than a grace period ago: no clock started for another survives.         *)
ReclaimIsEarned ==
  [][CheckTimeout \/ (\E level \in Levels : RecordUtilization(level))
     => (holder' # holder => claimed >= Grace)]_vars

(* No prompt stays pending for ever, answered or not.                      *)
PromptIsResolved == prompt # NoPrompt ~> prompt = NoPrompt

(* A holder whose readings stay below the threshold of tier 2 is asked,    *)
(* and asked again after each answer (docs/architecture.md, the tiers and  *)
(* the window that covers both; policy.py on monitoring_window_duration).  *)
LowIsNoticed ==
  <>[](holder # NoJob /\ \A age \in 0..Keep : window[age] \in Low("tier2") \cup {NoReading})
    => []<>(prompt # NoPrompt)
=============================================================================
