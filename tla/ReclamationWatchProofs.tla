----------------------- MODULE ReclamationWatchProofs -----------------------
(***************************************************************************)
(* The safety properties of ReclamationWatch, for every set of jobs, every *)
(* policy and every spacing of the readings.                               *)
(*                                                                         *)
(* EvidenceIsOfHolder is not inductive: when the GPU goes back to a job    *)
(* the watch still tracks, what protects that job is that no reading was   *)
(* taken after the confirmation of the reclaim (StaleBaseline), and the    *)
(* baseline of a holder the watch has just met says nothing of the next    *)
(* step (HolderEvidence).  A prompt is never older than the claim of the   *)
(* holder it asks (PromptOfHolder).                                        *)
(***************************************************************************)
EXTENDS ReclamationWatch, TLAPS

PromptOfHolder == prompt # NoPrompt => holder # NoJob /\ asked <= claimed

StaleBaseline ==
  holder = NoJob /\ tracked # NoJob =>
    \A age \in 0..Keep : window[age] # NoReading => confirmed <= age

HolderEvidence ==
  holder # NoJob /\ tracked = holder =>
    \A age \in 0..Keep :
      window[age] # NoReading /\ age < confirmed /\ age <= since => age <= claimed

IInv == TypeOK /\ PromptOfHolder /\ StaleBaseline /\ HolderEvidence

(* The window fits under the horizon.                                      *)
LEMMA KeepFits == Keep \in Nat /\ Keep < Horizon /\ Horizon \in Nat
  BY WatchAssumption DEF Keep

(* The prompts an operation leaves are prompts.                            *)
LEMMA PromptTyped ==
  /\ NoPrompt \in Prompt
  /\ \A kind \in {"estimate"} \cup Tiers : [kind |-> kind, by |-> NoJob] \in Prompt
  /\ \A j \in Jobs : [kind |-> "request", by |-> j] \in Prompt
  BY DEF Prompt, NoPrompt

(* Ages grow together: Older keeps them ages and keeps their order, and a  *)
(* reading that moves up in the window moves with the clocks.              *)
LEMMA OlderAges ==
  ASSUME NEW x \in Ages, NEW y \in Ages
  PROVE  /\ Older(x) \in Ages
         /\ x <= y => Older(x) <= Older(y)
  BY KeepFits DEF Older, Ages

(* What a step of time does to the comparisons of a reading with a clock.  *)
LEMMA OlderReading ==
  ASSUME NEW x \in Ages, NEW age \in 0..Keep, age # 0
  PROVE  /\ age - 1 \in 0..Keep
         /\ age < Older(x) => age - 1 < x
         /\ age <= Older(x) => age - 1 <= x
         /\ age - 1 <= x => age <= Older(x)
         /\ x <= age - 1 => Older(x) <= age
  BY KeepFits DEF Older, Ages

(* The first state: a free GPU nothing has been recorded of.               *)
LEMMA InitInvariant == Init => IInv
<1> SUFFICES ASSUME Init PROVE IInv
  OBVIOUS
<1>1. TypeOK
  <2>1. 0 \in Ages /\ Horizon \in Ages
    BY KeepFits DEF Ages
  <2>2. window \in [0..Keep -> Levels \cup {NoReading}]
    BY DEF Init
  <2> QED BY <2>1, <2>2, PromptTyped DEF Init, TypeOK, Never
<1>2. PromptOfHolder /\ StaleBaseline /\ HolderEvidence
  BY DEF Init, PromptOfHolder, StaleBaseline, HolderEvidence
<1> QED BY <1>1, <1>2 DEF IInv

(* Time passing moves every reading and every clock by the same amount.    *)
LEMMA TickInvariant == IInv /\ Tick => IInv'
<1> SUFFICES ASSUME IInv, Tick PROVE IInv'
  OBVIOUS
<1> USE DEF IInv
<1>1. TypeOK'
  <2>1. window' \in [0..Keep -> Levels \cup {NoReading}]
    <3>1. ASSUME NEW age \in 0..Keep, age # 0 PROVE age - 1 \in 0..Keep
      BY <3>1, KeepFits
    <3> QED BY <3>1 DEF Tick, TypeOK, NoReading
  <2>2. 0 \in Ages
    BY KeepFits DEF Ages
  <2>3. confirmed' \in Ages /\ since' \in Ages /\ resolved' \in Ages
    BY OlderAges DEF Tick, TypeOK
  <2>4. asked' \in Ages /\ claimed' \in Ages
    BY <2>2, OlderAges DEF Tick, TypeOK
  <2>5. phase' \in Nat
    BY DEF Tick, TypeOK
  <2> QED BY <2>1, <2>3, <2>4, <2>5 DEF Tick, TypeOK
<1>2. PromptOfHolder'
  BY OlderAges DEF Tick, TypeOK, PromptOfHolder, Ages
<1>3. ASSUME NEW age \in 0..Keep, window'[age] # NoReading
      PROVE  age # 0 /\ age - 1 \in 0..Keep /\ window[age - 1] # NoReading
  BY <1>3, OlderReading, KeepFits DEF Tick
<1>4. StaleBaseline'
  <2> SUFFICES ASSUME holder' = NoJob, tracked' # NoJob,
                      NEW age \in 0..Keep, window'[age] # NoReading
               PROVE  confirmed' <= age
    BY DEF StaleBaseline
  <2>1. confirmed <= age - 1
    BY <1>3 DEF Tick, StaleBaseline
  <2> QED BY <2>1, <1>3, OlderReading DEF Tick, TypeOK
<1>5. HolderEvidence'
  <2> SUFFICES ASSUME holder' # NoJob, tracked' = holder', NEW age \in 0..Keep,
                      window'[age] # NoReading, age < confirmed', age <= since'
               PROVE  age <= claimed'
    BY DEF HolderEvidence
  <2>1. age - 1 < confirmed /\ age - 1 <= since
    BY <1>3, OlderReading DEF Tick, TypeOK
  <2>2. age - 1 <= claimed
    BY <2>1, <1>3 DEF Tick, HolderEvidence
  <2> QED BY <2>2, <1>3, OlderReading DEF Tick, TypeOK
<1> QED BY <1>1, <1>2, <1>4, <1>5

(* A reading: whichever way it is evaluated, only readings since the       *)
(* baseline of the holder can count from now on.                           *)
LEMMA RecordInvariant ==
  ASSUME IInv, NEW level \in Levels, RecordUtilization(level)
  PROVE  IInv'
<1> USE DEF IInv
<1>1. /\ window' \in [0..Keep -> Levels \cup {NoReading}]
      /\ \A age \in 0..Keep : age # 0 => window'[age] = window[age]
  BY DEF RecordUtilization, TypeOK
<1>2. watched' \in BOOLEAN /\ phase' \in Nat
  BY DEF RecordUtilization
<1>3. 0 \in Ages /\ Never \in Ages /\ \A age \in Ages : 0 <= age /\ age \in Nat
  BY KeepFits DEF Ages, Never
<1>4. CASE TimedOut /\ TakeBack
  <2>1. TypeOK'
    BY <1>1, <1>2, <1>3, <1>4, PromptTyped DEF TypeOK, TakeBack
  <2>2. PromptOfHolder' /\ StaleBaseline' /\ HolderEvidence'
    BY <1>4, KeepFits DEF TakeBack, PromptOfHolder, StaleBaseline, HolderEvidence
  <2> QED BY <2>1, <2>2
<1>5. CASE /\ prompt # NoPrompt /\ ~ TimedOut
           /\ UNCHANGED <<holder, claimed, prompt, asked, confirmed, resolved, tracked, since, declined>>
  <2>1. TypeOK'
    BY <1>1, <1>2, <1>5 DEF TypeOK
  <2>2. PromptOfHolder' /\ StaleBaseline'
    BY <1>5 DEF PromptOfHolder, StaleBaseline
  <2>3. HolderEvidence'
    BY <1>1, <1>3, <1>5 DEF HolderEvidence, TypeOK
  <2> QED BY <2>1, <2>2, <2>3
<1>6. CASE /\ prompt = NoPrompt /\ holder = NoJob
           /\ tracked' = NoJob
           /\ since' = Never
           /\ UNCHANGED <<holder, claimed, prompt, asked, confirmed, resolved, declined>>
  <2>1. TypeOK'
    BY <1>1, <1>2, <1>3, <1>6 DEF TypeOK
  <2>2. PromptOfHolder' /\ StaleBaseline' /\ HolderEvidence'
    BY <1>6 DEF PromptOfHolder, StaleBaseline, HolderEvidence
  <2> QED BY <2>1, <2>2
<1>7. ASSUME prompt = NoPrompt, holder # NoJob, tracked' = holder, since' = Baseline,
             prompt' = prompt \/ \E tier \in Tiers : prompt' = [kind |-> tier, by |-> NoJob],
             asked' = 0,
             UNCHANGED <<holder, claimed, confirmed, resolved, declined>>
      PROVE  IInv'
  <2>1. since' \in Ages
    BY <1>3, <1>7 DEF Baseline, TypeOK
  <2>2. TypeOK'
    BY <1>1, <1>2, <1>3, <1>7, <2>1, PromptTyped DEF TypeOK
  <2>3. PromptOfHolder' /\ StaleBaseline'
    BY <1>3, <1>7 DEF PromptOfHolder, StaleBaseline, TypeOK
  <2>4. HolderEvidence'
    <3> SUFFICES ASSUME NEW age \in 0..Keep, window'[age] # NoReading,
                        age < confirmed', age <= since'
                 PROVE  age <= claimed'
      BY DEF HolderEvidence
    <3>1. CASE age = 0
      BY <1>3, <1>7, <3>1 DEF TypeOK
    <3>2. CASE age # 0 /\ tracked = holder
      BY <1>1, <1>7, <3>2 DEF HolderEvidence, Baseline
    <3>3. CASE age # 0 /\ tracked # holder
      BY <1>7, <3>3, KeepFits DEF Baseline
    <3> QED BY <3>1, <3>2, <3>3
  <2> QED BY <2>2, <2>3, <2>4
<1>8. Evaluate(window')
  BY DEF RecordUtilization
<1>9. CASE /\ prompt = NoPrompt /\ holder # NoJob
           /\ tracked' = holder
           /\ since' = Baseline
           /\ LET tiers == Detected(window', Counted(window', confirmed, Baseline)) IN
              \/ tiers = {} /\ prompt' = prompt
              \/ \E tier \in tiers : prompt' = [kind |-> tier, by |-> NoJob]
           /\ asked' = 0
           /\ UNCHANGED <<holder, claimed, confirmed, resolved, declined>>
  <2>1. prompt' = prompt \/ \E tier \in Tiers : prompt' = [kind |-> tier, by |-> NoJob]
    BY <1>9 DEF Detected
  <2> QED BY <1>7, <1>9, <2>1
<1> QED BY <1>4, <1>5, <1>6, <1>8, <1>9 DEF Evaluate

(* Every other way the GPU, a prompt or the clocks change.                 *)
LEMMA OtherInvariant ==
  ASSUME IInv,
         \/ CheckTimeout \/ PromptForJobCompletion \/ RespondYes \/ RespondNo \/ Release
         \/ \E j \in Jobs : RequestGpu(j) \/ WithdrawRequests(j) \/ AssignGpu(j)
  PROVE  IInv'
<1> USE DEF IInv
<1>1. 0 \in Ages /\ Never \in Ages /\ \A age \in Ages : 0 <= age /\ age \in Nat
  BY KeepFits DEF Ages, Never
<1>2. \A age \in 0..Keep : 0 <= age /\ ~ age < 0
  BY KeepFits
<1>3. CASE CheckTimeout \/ RespondNo
  <2>1. TypeOK'
    BY <1>1, <1>3, PromptTyped DEF CheckTimeout, RespondNo, TakeBack, TypeOK
  <2>2. PromptOfHolder' /\ StaleBaseline' /\ HolderEvidence'
    BY <1>2, <1>3 DEF CheckTimeout, RespondNo, TakeBack, PromptOfHolder, StaleBaseline, HolderEvidence
  <2> QED BY <2>1, <2>2
<1>4. CASE PromptForJobCompletion
  <2>1. TypeOK'
    BY <1>1, <1>4, PromptTyped DEF PromptForJobCompletion, Ask, TypeOK
  <2>2. PromptOfHolder' /\ StaleBaseline' /\ HolderEvidence'
    BY <1>1, <1>4 DEF PromptForJobCompletion, Ask, PromptOfHolder, StaleBaseline, HolderEvidence, TypeOK
  <2> QED BY <2>1, <2>2
<1>5. CASE RespondYes
  <2>1. declined' \in SUBSET Jobs
    BY <1>5 DEF RespondYes, TypeOK, Prompt, Tiers
  <2>2. TypeOK'
    BY <1>1, <1>5, <2>1, PromptTyped DEF RespondYes, TypeOK
  <2>3. PromptOfHolder' /\ StaleBaseline' /\ HolderEvidence'
    BY <1>2, <1>5 DEF RespondYes, PromptOfHolder, StaleBaseline, HolderEvidence
  <2> QED BY <2>2, <2>3
<1>6. CASE Release
  <2>1. TypeOK'
    BY <1>1, <1>6, PromptTyped DEF Release, ClearWatch, TypeOK
  <2>2. PromptOfHolder' /\ StaleBaseline' /\ HolderEvidence'
    BY <1>6 DEF Release, ClearWatch, PromptOfHolder, StaleBaseline, HolderEvidence
  <2> QED BY <2>1, <2>2
<1>7. ASSUME NEW j \in Jobs, RequestGpu(j) PROVE IInv'
  <2>1. TypeOK'
    BY <1>1, <1>7, PromptTyped DEF RequestGpu, Ask, TypeOK
  <2>2. PromptOfHolder' /\ StaleBaseline' /\ HolderEvidence'
    BY <1>1, <1>7 DEF RequestGpu, Ask, PromptOfHolder, StaleBaseline, HolderEvidence, TypeOK
  <2> QED BY <2>1, <2>2
<1>8. ASSUME NEW j \in Jobs, WithdrawRequests(j) PROVE IInv'
  <2>1. TypeOK'
    BY <1>1, <1>8, PromptTyped DEF WithdrawRequests, TypeOK
  <2>2. PromptOfHolder' /\ StaleBaseline' /\ HolderEvidence'
    BY <1>8 DEF WithdrawRequests, PromptOfHolder, StaleBaseline, HolderEvidence
  <2> QED BY <2>1, <2>2
<1>9. ASSUME NEW j \in Jobs, AssignGpu(j) PROVE IInv'
  <2>1. TypeOK'
    BY <1>1, <1>9 DEF AssignGpu, watch, TypeOK
  <2>2. PromptOfHolder' /\ StaleBaseline'
    BY <1>9, WatchAssumption DEF AssignGpu, watch, PromptOfHolder, StaleBaseline
  <2>3. HolderEvidence'
    <3> SUFFICES ASSUME tracked' = holder', NEW age \in 0..Keep,
                        window'[age] # NoReading, age < confirmed'
                 PROVE  FALSE
      BY DEF HolderEvidence
    <3>1. confirmed <= age
      BY <1>9, WatchAssumption DEF AssignGpu, watch, StaleBaseline
    <3> QED BY <1>1, <1>9, <3>1, KeepFits DEF AssignGpu, watch, TypeOK, Ages
  <2> QED BY <2>1, <2>2, <2>3
<1> QED BY <1>3, <1>4, <1>5, <1>6, <1>7, <1>8, <1>9

(* Every state of the watch is one of IInv, and its types are right.       *)
THEOREM WatchInvariance == Spec => [](IInv /\ TypeOK)
<1>1. IInv /\ Next => IInv'
  BY TickInvariant, RecordInvariant, OtherInvariant DEF Next
<1>2. IInv /\ UNCHANGED vars => IInv'
  BY DEF vars, watch, IInv, TypeOK, PromptOfHolder, StaleBaseline, HolderEvidence
<1>3. IInv => TypeOK
  BY DEF IInv
<1> QED BY InitInvariant, <1>1, <1>2, <1>3, PTL DEF Spec

(* What _detect_tier counts is at most as old as the claim of the holder.  *)
LEMMA CountedIsOfHolder ==
  ASSUME IInv, holder # NoJob,
         NEW age \in Counted(window, confirmed, Baseline)
  PROVE  age <= claimed
<1>1. age \in 0..Keep /\ window[age] # NoReading /\ age < confirmed /\ age <= Baseline
  BY DEF Counted
<1>2. CASE tracked = holder
  BY <1>1, <1>2 DEF IInv, HolderEvidence, Baseline
<1>3. CASE tracked # holder
  BY <1>1, <1>3, KeepFits DEF Baseline, IInv, TypeOK, Ages
<1> QED BY <1>2, <1>3

(* Neither the idle time before a holder nor an earlier holder is evidence *)
(* against it, however the GPU changed hands.                              *)
THEOREM EvidenceHolds == Spec => []EvidenceIsOfHolder
<1>1. IInv => EvidenceIsOfHolder
  BY CountedIsOfHolder DEF EvidenceIsOfHolder
<1> QED BY WatchInvariance, <1>1, PTL

(* A tier's prompt takes the tier's whole duration of one holder's claim.  *)
THEOREM PromptsEarned == Spec => PromptIsEarned
<1>1. ASSUME IInv, [Next]_vars, NEW tier \in Tiers, prompt'.kind = tier, prompt.kind # tier
      PROVE  claimed >= Duration(tier)
  <2>1. PICK level \in Levels : RecordUtilization(level)
    BY <1>1 DEF Next, vars, watch, Tick, CheckTimeout, PromptForJobCompletion, RequestGpu,
      WithdrawRequests, AssignGpu, RespondYes, RespondNo, Release, TakeBack, ClearWatch,
      Ask, Tiers, NoPrompt
  <2>2. /\ holder # NoJob
        /\ tier \in Detected(window', Counted(window', confirmed, Baseline))
    <3>1. prompt' # prompt /\ prompt' # NoPrompt
      BY <1>1 DEF Tiers, NoPrompt
    <3>2. \A other \in Tiers : prompt' = [kind |-> other, by |-> NoJob] => other = tier
      BY <1>1
    <3> QED BY <2>1, <3>1, <3>2 DEF RecordUtilization, Evaluate, TakeBack, Detected
  <2>3. PICK age \in Counted(window', confirmed, Baseline) : age >= Duration(tier)
    BY <2>2 DEF Detected, Breach
  <2>4. age \in 0..Keep /\ window'[age] # NoReading /\ age < confirmed /\ age <= Baseline
    BY <2>3 DEF Counted
  <2>5. Duration(tier) \in Nat /\ Duration(tier) > 0
    BY WatchAssumption DEF Duration
  <2>6. age # 0
    BY <2>3, <2>5
  <2>7. window[age] # NoReading
    BY <1>1, <2>1, <2>4, <2>6 DEF RecordUtilization, IInv, TypeOK
  <2>8. age <= claimed
    BY <1>1, <2>2, <2>4, <2>7, CountedIsOfHolder DEF Counted
  <2> QED BY <1>1, <2>3, <2>4, <2>5, <2>8, KeepFits DEF IInv, TypeOK, Ages
<1>2. IInv /\ [Next]_vars
        => [\A tier \in Tiers : prompt'.kind = tier /\ prompt.kind # tier
              => claimed >= Duration(tier)]_vars
  BY <1>1
<1> QED BY WatchInvariance, <1>2, PTL DEF Spec, PromptIsEarned

(* No timeout fires on a holder younger than the grace period.             *)
THEOREM ReclaimsEarned == Spec => ReclaimIsEarned
<1>1. ASSUME IInv, TimedOut PROVE claimed >= Grace
  BY <1>1, KeepFits, WatchAssumption DEF IInv, TimedOut, PromptOfHolder, TypeOK, Ages
<1>2. ASSUME IInv, CheckTimeout \/ (\E level \in Levels : RecordUtilization(level)), holder' # holder
      PROVE  claimed >= Grace
  BY <1>1, <1>2 DEF CheckTimeout, RecordUtilization, Evaluate
<1>3. IInv /\ [Next]_vars
        => [CheckTimeout \/ (\E level \in Levels : RecordUtilization(level))
              => (holder' # holder => claimed >= Grace)]_vars
  BY <1>2
<1> QED BY WatchInvariance, <1>3, PTL DEF Spec, ReclaimIsEarned
=============================================================================
