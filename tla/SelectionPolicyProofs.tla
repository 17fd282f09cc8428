------------------------ MODULE SelectionPolicyProofs ------------------------
(* What SelectionPolicy promises for every set of jobs, whatever their       *)
(* priorities, sizes and arrivals, and for any number of GPUs and failures.  *)
EXTENDS SelectionPolicy, TLAPS

-----------------------------------------------------------------------------
(* Types.                                                                    *)

Types ==
  /\ status \in [Jobs -> {"NEW", "WAITING", "RUNNING"}]
  /\ held \in [Jobs -> Nat]
  /\ ahead \in [Jobs -> SUBSET Jobs]
  /\ queued \in [Jobs -> 0..Horizon]
  /\ ran \in [Jobs -> 0..Horizon]
  /\ waitedFor \in [Jobs -> Nat \cup {None}]
  /\ free \in Nat /\ out \in Nat /\ failures \in 0..MaxFailures

(* A job that never started has not run; one that runs has started.          *)
Clocks ==
  \A j \in Jobs :
    /\ IF waitedFor[j] = None THEN ran[j] = 0 ELSE waitedFor[j] <= queued[j] + ran[j]
    /\ status[j] = "RUNNING" => waitedFor[j] # None

IInv == Types /\ Clocks

(* Every state the policy starts from is well formed.                        *)
LEMMA InitIInv == Init => IInv
BY PolicyAssumption DEF PolicyAssumption, Init, IInv, Types, Clocks, None

(* No operation breaks the types.                                            *)
LEMMA NextTypes ==
  ASSUME IInv, [Next]_vars
  PROVE  Types'
<1> USE PolicyAssumption DEF PolicyAssumption, IInv, Types, jobVars, None
<1>1. ASSUME NEW j \in Jobs, StartOver(j)
      PROVE  /\ queued' \in [Jobs -> 0..Horizon]
             /\ ran' \in [Jobs -> 0..Horizon]
             /\ waitedFor' \in [Jobs -> Nat \cup {None}]
  BY <1>1 DEF StartOver
<1>2. \A j \in Jobs : AtTail(j) \in [Jobs -> SUBSET Jobs] /\ Without(j) \in [Jobs -> SUBSET Jobs]
  BY DEF AtTail, Without, Waiting
<1>3. CASE UNCHANGED vars
  BY <1>3 DEF vars
<1>4. ASSUME NEW j \in Jobs, Submit(j) PROVE Types'
  BY <1>4, <1>1, <1>2 DEF Submit
<1>5. ASSUME NEW j \in Jobs, SelectNext(j) PROVE Types'
  <2>1. WaitingMinutes(j) \in Nat
    BY DEF WaitingMinutes, Age, Clocks
  <2>2. status' \in [Jobs -> {"NEW", "WAITING", "RUNNING"}] /\ ahead' \in [Jobs -> SUBSET Jobs]
    BY <1>5, <1>2 DEF SelectNext
  <2>3. held' \in [Jobs -> Nat] /\ free' \in Nat
    BY <1>5 DEF SelectNext
  <2>4. waitedFor' \in [Jobs -> Nat \cup {None}]
    BY <1>5, <2>1 DEF SelectNext
  <2>5. UNCHANGED <<queued, ran, out, failures>>
    BY <1>5 DEF SelectNext
  <2>. QED
    BY <2>2, <2>3, <2>4, <2>5
<1>6. ASSUME NEW j \in Jobs, Finish(j) PROVE Types'
  <2>1. status' \in [Jobs -> {"NEW", "WAITING", "RUNNING"}] /\ held' \in [Jobs -> Nat] /\ free' \in Nat
    BY <1>6 DEF Finish
  <2>2. StartOver(j) /\ UNCHANGED <<ahead, out, failures>>
    BY <1>6 DEF Finish
  <2>. QED
    BY <2>1, <2>2, <1>1
<1>7. ASSUME NEW j \in Jobs, Release(j) PROVE Types'
  <2>1. held' \in [Jobs -> Nat] /\ free' \in Nat /\ UNCHANGED <<out, failures>>
    BY <1>7 DEF Release
  <2>2. CASE held[j] = 1
    <3>1. StartOver(j) /\ status' = [status EXCEPT ![j] = "NEW"] /\ ahead' = Without(j)
      BY <2>2, <1>7 DEF Release
    <3>. QED
      BY <3>1, <2>1, <1>1, <1>2
  <2>3. CASE held[j] # 1
    <3>1. UNCHANGED <<status, ahead, queued, ran, waitedFor>>
      BY <2>3, <1>7 DEF Release
    <3>. QED
      BY <3>1, <2>1
  <2>. QED
    BY <2>2, <2>3
<1>8. ASSUME NEW j \in Jobs, NEW k \in Jobs, GiveUp(j, k) PROVE Types'
  <2>1. held' \in [Jobs -> Nat] /\ free' \in Nat /\ UNCHANGED <<out, failures>>
    BY <1>8 DEF GiveUp, MayContest
  <2>2. CASE held[j] = 1
    <3>1. StartOver(j) /\ status' = [status EXCEPT ![j] = "WAITING"]
      BY <2>2, <1>8 DEF GiveUp
    <3>2. ahead' = ahead \/ ahead' = AtTail(j)
      BY <2>2, <1>8 DEF GiveUp
    <3>. QED
      BY <3>1, <3>2, <2>1, <1>1, <1>2
  <2>3. CASE held[j] # 1
    <3>1. UNCHANGED <<status, ahead, queued, ran, waitedFor>>
      BY <2>3, <1>8 DEF GiveUp
    <3>. QED
      BY <3>1, <2>1
  <2>. QED
    BY <2>2, <2>3
<1>9. ASSUME NEW j \in Jobs, LoseGpu(j) PROVE Types'
  <2>1. status' \in [Jobs -> {"NEW", "WAITING", "RUNNING"}] /\ ahead' \in [Jobs -> SUBSET Jobs]
    BY <1>9, <1>2 DEF LoseGpu
  <2>2. held' \in [Jobs -> Nat] /\ out' \in Nat /\ failures' \in 0..MaxFailures
    BY <1>9 DEF LoseGpu
  <2>3. UNCHANGED <<queued, ran, waitedFor, free>>
    BY <1>9 DEF LoseGpu
  <2>. QED
    BY <2>1, <2>2, <2>3
<1>10. CASE LoseFreeGpu
  BY <1>10 DEF LoseFreeGpu
<1>11. CASE Recover
  BY <1>11 DEF Recover
<1>12. CASE Tick
  BY <1>12 DEF Tick, Later
<1>. QED
  BY <1>3, <1>4, <1>5, <1>6, <1>7, <1>8, <1>9, <1>10, <1>11, <1>12 DEF Next

(* No operation breaks the clocks.                                           *)
LEMMA NextClocks ==
  ASSUME IInv, [Next]_vars
  PROVE  Clocks'
<1> USE PolicyAssumption DEF PolicyAssumption, IInv, Types, Clocks, jobVars, None
<1>1. ASSUME NEW j \in Jobs, StartOver(j), NEW i \in Jobs,
             status'[i] = "RUNNING" => i # j /\ status[i] = "RUNNING"
      PROVE  /\ IF waitedFor'[i] = None THEN ran'[i] = 0 ELSE waitedFor'[i] <= queued'[i] + ran'[i]
             /\ status'[i] = "RUNNING" => waitedFor'[i] # None
  BY <1>1 DEF StartOver
<1>2. CASE UNCHANGED vars
  BY <1>2 DEF vars
<1>3. ASSUME NEW j \in Jobs, Submit(j) PROVE Clocks'
  BY <1>3, <1>1 DEF Submit
<1>4. ASSUME NEW j \in Jobs, SelectNext(j) PROVE Clocks'
  <2>1. WaitingMinutes(j) \in Nat /\ WaitingMinutes(j) <= queued[j] + ran[j]
    BY DEF WaitingMinutes, Age
  <2>2. waitedFor' = [waitedFor EXCEPT ![j] = WaitingMinutes(j)] /\ UNCHANGED <<queued, ran>>
    BY <1>4 DEF SelectNext
  <2>3. \A i \in Jobs : i # j => status'[i] = status[i]
    BY <1>4 DEF SelectNext
  <2>. QED
    BY <2>1, <2>2, <2>3
<1>5. ASSUME NEW j \in Jobs, Finish(j) PROVE Clocks'
  BY <1>5, <1>1 DEF Finish
<1>6. ASSUME NEW j \in Jobs, Release(j) PROVE Clocks'
  BY <1>6, <1>1 DEF Release
<1>7. ASSUME NEW j \in Jobs, NEW k \in Jobs, GiveUp(j, k) PROVE Clocks'
  BY <1>7, <1>1 DEF GiveUp
<1>8. ASSUME NEW j \in Jobs, LoseGpu(j) PROVE Clocks'
  BY <1>8 DEF LoseGpu
<1>9. CASE LoseFreeGpu
  BY <1>9 DEF LoseFreeGpu
<1>10. CASE Recover
  BY <1>10 DEF Recover
<1>11. CASE Tick
  BY <1>11 DEF Tick, Later
<1>. QED
  BY <1>2, <1>3, <1>4, <1>5, <1>6, <1>7, <1>8, <1>9, <1>10, <1>11 DEF Next

(* The invariant of the policy.                                              *)
LEMMA SpecIInv == Spec => []IInv
<1>1. IInv /\ [Next]_vars => IInv'
  BY NextTypes, NextClocks DEF IInv
<1>. QED
  BY InitIInv, <1>1, PTL DEF Spec

(* The state is well formed, and no job waited longer than it has been here. *)
THEOREM TypesHold == Spec => []TypeOK
<1>1. IInv => TypeOK
  BY DEF IInv, Types, Clocks, TypeOK, Age
<1>. QED
  BY SpecIInv, <1>1, PTL

-----------------------------------------------------------------------------
(* Arithmetic of the scores.                                                 *)

(* A larger factor gives a larger product.                                   *)
LEMMA TimesMonotone ==
  ASSUME NEW s \in Nat, NEW a \in Int, NEW b \in Int, a <= b
  PROVE  s * a \in Int /\ s * b \in Int /\ s * a <= s * b
<1>1. s * (b - a) >= 0
  BY SMT
<1>. QED
  BY <1>1, SMT

(* A lead of more than 40 points is more than any difference in size.        *)
LEMMA PointsDecide ==
  ASSUME NEW s \in Nat \ {0}, NEW a \in Int, NEW b \in Int, a + 41 <= b,
         NEW x \in 0..s, NEW y \in 0..s
  PROVE  s * a + 40 * x < s * b + 40 * y
<1>1. s * (a + 41) <= s * b /\ s * a \in Int /\ s * b \in Int
  BY TimesMonotone
<1>2. s * (a + 41) = s * a + 41 * s
  BY SMT
<1>. QED
  BY <1>1, <1>2

(* And a lower score of a smaller job means such a lead.                     *)
LEMMA LeadOfOutScored ==
  ASSUME NEW s \in Nat \ {0}, NEW a \in Int, NEW b \in Int, s * a + 40 * s < s * b
  PROVE  a + 41 <= b
<1>1. SUFFICES ASSUME b <= a + 40 PROVE FALSE
  OBVIOUS
<1>2. s * b <= s * (a + 40) /\ s * a \in Int /\ s * b \in Int
  BY <1>1, TimesMonotone
<1>3. s * (a + 40) = s * a + 40 * s
  BY SMT
<1>. QED
  BY <1>2, <1>3

(* A job's points for priority and for its age.                              *)
Points(j) == PriorityPoints(j) + AgingComponent(WaitingMinutes(j))

(* The minutes that count are a number, and at most the age.                 *)
LEMMA MinutesBounded ==
  ASSUME IInv, NEW j \in Jobs
  PROVE  /\ Age(j) \in Nat /\ WaitingMinutes(j) \in Nat
         /\ WaitingMinutes(j) <= Age(j)
BY PolicyAssumption DEF PolicyAssumption, IInv, Types, Clocks, WaitingMinutes, Age, None

(* The points of priority are 0, 20, 40 or 60, those of age at most 110.     *)
LEMMA PointsBounded ==
  ASSUME IInv, NEW j \in Jobs
  PROVE  /\ PriorityPoints(j) = 20 * (Priority[j] - 1)
         /\ AgingComponent(WaitingMinutes(j)) \in 0..110
         /\ AgingComponent(WaitingMinutes(j)) <= WaitingMinutes(j)
         /\ Points(j) \in Nat
<1>1. PRIORITY_WEIGHT \div 3 = 20
  BY DEF PRIORITY_WEIGHT
<1>2. PriorityPoints(j) = 20 * (Priority[j] - 1) /\ PriorityPoints(j) \in Nat
  BY <1>1, PolicyAssumption DEF PolicyAssumption, PriorityPoints
<1>3. /\ AgingComponent(WaitingMinutes(j)) \in 0..110
      /\ AgingComponent(WaitingMinutes(j)) <= WaitingMinutes(j)
  BY MinutesBounded DEF AgingComponent, AGING_RATE_PER_MINUTE, AGING_MAX_CONTRIBUTION
<1>. QED
  BY <1>2, <1>3 DEF Points

(* A score is the spread times the points, and 40 times the size's share.    *)
LEMMA ScoreOf ==
  ASSUME IInv, NEW j \in Jobs, NEW lo \in Nat, NEW hi \in Nat, lo <= Size[j], Size[j] <= hi
  PROVE  /\ Spread(lo, hi) \in Nat \ {0}
         /\ SizeInverse(Size[j], lo, hi) \in 0..Spread(lo, hi)
         /\ Score(j, lo, hi) = Spread(lo, hi) * Points(j) + 40 * SizeInverse(Size[j], lo, hi)
<1>1. Size[j] \in Nat
  BY PolicyAssumption DEF PolicyAssumption
<1>. QED
  BY <1>1 DEF Spread, SizeInverse, Score, Points, SIZE_WEIGHT

(* A score is a number.                                                      *)
LEMMA ScoreIsInt ==
  ASSUME IInv, NEW j \in Jobs, NEW lo \in Nat, NEW hi \in Nat, lo <= Size[j], Size[j] <= hi
  PROVE  Score(j, lo, hi) \in Int
<1>1. Spread(lo, hi) * Points(j) \in Int
  BY ScoreOf, PointsBounded, TimesMonotone
<1>. QED
  BY <1>1, ScoreOf

(* With at least its points and no larger size a job scores as high.         *)
LEMMA ScoreMonotone ==
  ASSUME IInv, NEW j \in Jobs, NEW k \in Jobs, NEW lo \in Nat, NEW hi \in Nat,
         lo <= Size[j], Size[j] <= hi, lo <= Size[k], Size[k] <= hi,
         Points(j) <= Points(k), Size[k] <= Size[j]
  PROVE  Score(j, lo, hi) <= Score(k, lo, hi)
<1>0. Spread(lo, hi) \in Nat /\ Points(j) \in Int /\ Points(k) \in Int
  BY ScoreOf, PointsBounded
<1>1. /\ Spread(lo, hi) * Points(j) \in Int /\ Spread(lo, hi) * Points(k) \in Int
      /\ Spread(lo, hi) * Points(j) <= Spread(lo, hi) * Points(k)
  BY <1>0, TimesMonotone
<1>2. SizeInverse(Size[j], lo, hi) <= SizeInverse(Size[k], lo, hi)
  BY PolicyAssumption DEF PolicyAssumption, SizeInverse
<1>3. SizeInverse(Size[j], lo, hi) \in Int /\ SizeInverse(Size[k], lo, hi) \in Int
  BY ScoreOf
<1>. QED
  BY <1>1, <1>2, <1>3, ScoreOf
-----------------------------------------------------------------------------
(* What a pass serves.                                                       *)

(* Only a step of the pass serves a job, and it serves the selected one.     *)
LEMMA ServedIsSelected ==
  ASSUME IInv, [Next]_vars, NEW j \in Jobs, Served(j)
  PROVE  Selected(j)
<1> USE DEF IInv, Types, Served
<1>1. CASE UNCHANGED vars
  BY <1>1 DEF vars, jobVars
<1>2. ASSUME NEW i \in Jobs, SelectNext(i) PROVE Selected(j)
  <2>1. held' = [held EXCEPT ![i] = held[i] + 1] /\ Selected(i)
    BY <1>2 DEF SelectNext
  <2>2. i = j
    BY <2>1
  <2>. QED
    BY <2>1, <2>2
<1>3. ASSUME NEW i \in Jobs, Submit(i) \/ Finish(i) \/ Release(i) \/ LoseGpu(i) PROVE FALSE
  BY <1>3 DEF Submit, Finish, Release, LoseGpu
<1>4. ASSUME NEW i \in Jobs, NEW k \in Jobs, GiveUp(i, k) PROVE FALSE
  BY <1>4 DEF GiveUp
<1>5. ~ LoseFreeGpu /\ ~ Recover /\ ~ Tick
  BY DEF LoseFreeGpu, Recover, Tick, jobVars
<1>. QED
  BY <1>1, <1>2, <1>3, <1>4, <1>5 DEF Next

(* The selected job is the first submitted, or has the best score.           *)
LEMMA SelectedBeats ==
  ASSUME IInv, NEW j \in Jobs, Selected(j), NEW k \in Pool, k # j
  PROVE  \/ ~ SubmittedBefore(k, j)
         \/ \E lo, hi \in Nat :
              /\ lo <= Size[j] /\ Size[j] <= hi /\ lo <= Size[k] /\ Size[k] <= hi
              /\ Score(k, lo, hi) < Score(j, lo, hi)
<1>1. Pool \subseteq Jobs /\ j \in Pool
  BY DEF Selected, Pool, Waiting
<1>2. CASE SizesAreSimilar(Pool)
  BY <1>2 DEF Selected, FirstSubmitted
<1>3. CASE ~ SizesAreSimilar(Pool)
  <2>1. BestScored(j, Pool)
    BY <1>3 DEF Selected
  <2>2. PICK a \in Pool, b \in Pool :
          /\ \A i \in Pool : Size[a] <= Size[i] /\ Size[i] <= Size[b]
          /\ \A i \in Pool \ {j} :
               \/ Score(i, Size[a], Size[b]) < Score(j, Size[a], Size[b])
               \/ Score(i, Size[a], Size[b]) = Score(j, Size[a], Size[b]) /\ ~ SubmittedBefore(i, j)
    BY <2>1, Zenon DEF BestScored
  <2>3. Size[a] \in Nat /\ Size[b] \in Nat
    BY <1>1, PolicyAssumption DEF PolicyAssumption
  <2>. QED
    BY <1>1, <2>2, <2>3
<1>. QED
  BY <1>2, <1>3

(* The pool is never closed to a job of no lower priority.                   *)
LEMMA PoolUpward ==
  ASSUME NEW j \in Pool, NEW k \in Waiting, Priority[j] <= Priority[k]
  PROVE  k \in Pool
BY PolicyAssumption DEF PolicyAssumption, Pool, Waiting

(* Priority, age and size never combine to reverse all three of them: for    *)
(* every mix of jobs no younger, larger and less urgent one is served first. *)
THEOREM NoOvertakingHolds == Spec => NoOvertaking
<1>1. ASSUME IInv, [Next]_vars, NEW j \in Jobs, NEW k \in Waiting,
             Served(j), waitedFor[j] = None, waitedFor[k] = None,
             Age(j) < Age(k), Priority[j] <= Priority[k], Size[k] <= Size[j]
      PROVE  FALSE
  <2>1. k \in Jobs /\ k # j /\ Selected(j)
    BY <1>1, MinutesBounded, ServedIsSelected DEF Waiting
  <2>2. k \in Pool
    BY <1>1, <2>1, PoolUpward DEF Selected
  <2>3. SubmittedBefore(k, j)
    BY <1>1 DEF SubmittedBefore
  <2>4. PICK lo, hi \in Nat :
          /\ lo <= Size[j] /\ Size[j] <= hi /\ lo <= Size[k] /\ Size[k] <= hi
          /\ Score(k, lo, hi) < Score(j, lo, hi)
    BY <1>1, <2>1, <2>2, <2>3, SelectedBeats
  <2>5. Age(j) \in Nat /\ Age(k) \in Nat /\ WaitingMinutes(j) = Age(j) /\ WaitingMinutes(k) = Age(k)
    BY <1>1, <2>1, MinutesBounded DEF WaitingMinutes
  <2>6. AgingComponent(Age(j)) <= AgingComponent(Age(k))
    BY <1>1, <2>5 DEF AgingComponent, AGING_RATE_PER_MINUTE, AGING_MAX_CONTRIBUTION
  <2>7. PriorityPoints(j) <= PriorityPoints(k) /\ PriorityPoints(j) \in Int /\ PriorityPoints(k) \in Int
    BY <1>1, <2>1, PointsBounded, PolicyAssumption DEF PolicyAssumption
  <2>8. AgingComponent(Age(j)) \in Int /\ AgingComponent(Age(k)) \in Int
    BY <1>1, <2>1, <2>5, PointsBounded
  <2>9. Points(j) <= Points(k)
    BY <2>5, <2>6, <2>7, <2>8 DEF Points
  <2>10. Score(j, lo, hi) <= Score(k, lo, hi)
    BY <1>1, <2>1, <2>4, <2>9, ScoreMonotone
  <2>11. Score(j, lo, hi) \in Int /\ Score(k, lo, hi) \in Int
    BY <1>1, <2>1, <2>4, ScoreIsInt
  <2>. QED
    BY <2>4, <2>10, <2>11
<1>2. IInv /\ [Next]_vars =>
        [\A j \in Jobs, k \in Waiting :
           Served(j) /\ waitedFor[j] = None /\ waitedFor[k] = None =>
             ~ (Age(j) < Age(k) /\ Priority[j] <= Priority[k] /\ Size[k] <= Size[j])]_vars
  BY <1>1
<1>. QED
  BY SpecIInv, <1>2, PTL DEF Spec, NoOvertaking
(* The aging bonus does what it was sized for: a job that never started and  *)
(* has it all is served before every newcomer but a CRITICAL one.            *)
THEOREM FullyAgedFirstHolds == Spec => FullyAgedFirst
<1>1. ASSUME IInv, [Next]_vars, NEW j \in Jobs, NEW k \in Pool,
             Served(j), waitedFor[k] = None, FullyAged <= Age(k), Age(j) < 10
      PROVE  FALSE
  <2>0. FullyAged = 110
    BY DEF FullyAged, AGING_MAX_CONTRIBUTION, AGING_RATE_PER_MINUTE
  <2>1. k \in Jobs
    BY DEF Pool, Waiting
  <2>2. Age(j) \in Nat /\ Age(k) \in Nat /\ WaitingMinutes(j) \in Nat /\ WaitingMinutes(j) < 10
    BY <1>1, <2>1, MinutesBounded
  <2>3. WaitingMinutes(k) = Age(k)
    BY <1>1 DEF WaitingMinutes
  <2>4. k # j /\ SubmittedBefore(k, j)
    BY <1>1, <2>0, <2>2 DEF SubmittedBefore
  <2>5. PICK lo, hi \in Nat :
          /\ lo <= Size[j] /\ Size[j] <= hi /\ lo <= Size[k] /\ Size[k] <= hi
          /\ Score(k, lo, hi) < Score(j, lo, hi)
    BY <1>1, <2>4, ServedIsSelected, SelectedBeats
  <2>6. AgingComponent(WaitingMinutes(k)) = 110
    BY <1>1, <2>0, <2>2, <2>3 DEF AgingComponent, AGING_RATE_PER_MINUTE, AGING_MAX_CONTRIBUTION
  <2>7. PriorityPoints(k) \in Nat /\ PriorityPoints(j) \in 0..60
    BY <1>1, <2>1, PointsBounded, PolicyAssumption DEF PolicyAssumption
  <2>8. AgingComponent(WaitingMinutes(j)) \in 0..9
    BY <1>1, <2>2, PointsBounded
  <2>9. Points(j) + 40 <= Points(k) - 1 /\ Points(j) \in Int /\ Points(k) \in Int
    BY <2>6, <2>7, <2>8 DEF Points
  <2>10. Score(j, lo, hi) < Score(k, lo, hi)
    <3> DEFINE s == Spread(lo, hi)
    <3>1. s \in Nat \ {0}
      BY <1>1, <2>5, ScoreOf
    <3>2. SizeInverse(Size[j], lo, hi) \in 0..s /\ SizeInverse(Size[k], lo, hi) \in 0..s
      BY <1>1, <2>1, <2>5, ScoreOf
    <3>3. /\ Score(j, lo, hi) = s * Points(j) + 40 * SizeInverse(Size[j], lo, hi)
          /\ Score(k, lo, hi) = s * Points(k) + 40 * SizeInverse(Size[k], lo, hi)
      BY <1>1, <2>1, <2>5, ScoreOf
    <3> HIDE DEF s
    <3>. QED
      BY <2>9, <3>1, <3>2, <3>3, PointsDecide
  <2>11. Score(j, lo, hi) \in Int /\ Score(k, lo, hi) \in Int
    BY <1>1, <2>1, <2>5, ScoreIsInt
  <2>. QED
    BY <2>5, <2>10, <2>11
<1>2. ASSUME IInv, [Next]_vars, NEW j \in Jobs, NEW k \in Pool,
             Served(j), waitedFor[k] = None, FullyAged <= Age(k)
      PROVE  10 <= Age(j)
  BY <1>1, <1>2, MinutesBounded
<1>3. IInv /\ [Next]_vars =>
        [\A j \in Jobs, k \in Pool :
           Served(j) /\ waitedFor[k] = None /\ FullyAged <= Age(k) => 10 <= Age(j)]_vars
  BY <1>2
<1>. QED
  BY SpecIInv, <1>3, PTL DEF Spec, FullyAgedFirst

(* Both lemmas as state formulas, to be used in the state after a step.      *)
OnlyTheBestIsSelected ==
  \A j \in Jobs : \A k \in Pool :
    Selected(j) /\ k # j =>
      \/ ~ SubmittedBefore(k, j)
      \/ \E lo, hi \in Nat :
           /\ lo <= Size[j] /\ Size[j] <= hi /\ lo <= Size[k] /\ Size[k] <= hi
           /\ Score(k, lo, hi) < Score(j, lo, hi)

ScoresAreSums ==
  \A j \in Jobs : \A lo, hi \in Nat :
    lo <= Size[j] /\ Size[j] <= hi =>
      Score(j, lo, hi) = Spread(lo, hi) * Points(j) + 40 * SizeInverse(Size[j], lo, hi)

(* SelectedBeats and ScoreOf, for every job at once.                         *)
LEMMA ScoresDecide == IInv => OnlyTheBestIsSelected /\ ScoresAreSums
BY SelectedBeats, ScoreOf DEF OnlyTheBestIsSelected, ScoresAreSums

(* A preemption by a job of no lower priority stands: whatever else waits    *)
(* and whatever the users' priorities are, the job that lost its GPU is not  *)
(* the next to be served.  With the run win_back: only a job of higher       *)
(* priority than the one that preempted it wins its GPU back.                *)
THEOREM NoWinBackFromBelowHolds == Spec => NoWinBackFromBelow
<1>1. ASSUME IInv, [Next]_vars, NEW j \in Jobs, NEW k \in Jobs,
             Preempted(j, k), Priority[j] <= Priority[k], Selected(j)'
      PROVE  FALSE
  <2>1. OnlyTheBestIsSelected' /\ ScoresAreSums'
    <3>1. IInv'
      BY <1>1, NextTypes, NextClocks DEF IInv
    <3>. QED
      BY <3>1, ScoresDecide, PTL
  <2>2. /\ GiveUp(j, k) /\ status[j] = "RUNNING"
        /\ k \in Waiting /\ k # j /\ OutScores(k, j)
    BY <1>1 DEF Preempted, Preempts, GiveUp, MayContest
  <2>3. held[j] = 1
    BY <1>1, <2>2 DEF GiveUp, Selected, Pool, Waiting, IInv, Types
  <2>4. /\ StartOver(j)
        /\ status' = [status EXCEPT ![j] = "WAITING"]
        /\ ahead' = AtTail(j)
    BY <2>2, <2>3 DEF GiveUp, Waiting
  <2>5. k \in Pool'
    <3>1. k \in Waiting'
      BY <1>1, <2>2, <2>4 DEF Waiting, IInv, Types
    <3>2. j \in Pool'
      BY <1>1 DEF Selected
    <3>3. Priority[j] = 4 => Priority[k] = 4
      BY <1>1, PolicyAssumption DEF PolicyAssumption
    <3>. QED
      BY <3>1, <3>2, <3>3 DEF Pool
  <2>6. Age(j)' = 0 /\ Age(k)' = Age(k) /\ waitedFor'[j] = None /\ waitedFor'[k] = waitedFor[k]
    BY <1>1, <2>2, <2>4 DEF StartOver, Age, IInv, Types
  <2>7. SubmittedBefore(k, j)'
    BY <1>1, <2>2, <2>4, <2>6, MinutesBounded DEF SubmittedBefore, AtTail, IInv, Types, Waiting
  <2>8. PICK lo, hi \in Nat :
          /\ lo <= Size[j] /\ Size[j] <= hi /\ lo <= Size[k] /\ Size[k] <= hi
          /\ Score(k, lo, hi)' < Score(j, lo, hi)'
    BY <1>1, <2>1, <2>2, <2>5, <2>7 DEF OnlyTheBestIsSelected
  <2> DEFINE s == Spread(lo, hi)
             x == SizeInverse(Size[j], lo, hi)
             y == SizeInverse(Size[k], lo, hi)
             a == PriorityPoints(j)
             b == Points(k)
  <2>9. s \in Nat \ {0} /\ x \in 0..s /\ y \in 0..s
    BY <1>1, <2>8, ScoreOf
  <2>10. a \in Nat /\ b \in Nat /\ Points(j) \in Nat /\ a <= Points(j) /\ a <= b
    <3>1. a \in Nat /\ a <= PriorityPoints(k) /\ PriorityPoints(k) \in Nat
      BY <1>1, <2>2, PointsBounded, PolicyAssumption DEF PolicyAssumption
    <3>. QED
      BY <1>1, <3>1, PointsBounded DEF Points
  <2>11. Points(j)' = a /\ Points(k)' = b
    <3>1. WaitingMinutes(j)' = 0 /\ WaitingMinutes(k)' = WaitingMinutes(k)
      BY <2>6 DEF WaitingMinutes
    <3>. QED
      BY <2>10, <3>1 DEF Points, PriorityPoints, AgingComponent, AGING_RATE_PER_MINUTE, AGING_MAX_CONTRIBUTION
  <2>12. Score(j, lo, hi)' = s * a + 40 * x /\ Score(k, lo, hi)' = s * b + 40 * y
    BY <2>1, <2>8, <2>11 DEF ScoresAreSums, Spread, SizeInverse
  <2>13. ~ (s * b + 40 * y < s * a + 40 * x)
    <3>1. s * a \in Int /\ s * b \in Int /\ s * a <= s * b
      BY <2>9, <2>10, TimesMonotone
    <3>2. CASE Size[k] <= Size[j]
      <4>1. x <= y
        BY <2>8, <3>2, PolicyAssumption DEF PolicyAssumption, SizeInverse
      <4>. QED
        BY <2>9, <3>1, <4>1
    <3>3. CASE Size[j] < Size[k]
      <4> DEFINE p == Size[k] - Size[j]
      <4>1. p \in Nat \ {0} /\ Size[j] \in Nat /\ Size[k] \in Nat
        BY <3>3, PolicyAssumption DEF PolicyAssumption
      <4>2. /\ Spread(Size[j], Size[k]) = p
            /\ SizeInverse(Size[j], Size[j], Size[k]) = p
            /\ SizeInverse(Size[k], Size[j], Size[k]) = 0
        BY <3>3, <4>1 DEF Spread, SizeInverse
      <4>3. Score(j, Size[j], Size[k]) < Score(k, Size[j], Size[k])
        BY <2>2, <3>3, <4>1 DEF OutScores
      <4>4. /\ Score(j, Size[j], Size[k]) = p * Points(j) + 40 * p
            /\ Score(k, Size[j], Size[k]) = p * Points(k) + 40 * 0
        <5>1. Size[j] <= Size[j] /\ Size[k] <= Size[k] /\ Size[j] <= Size[k]
          BY <3>3, <4>1
        <5>2. Score(j, Size[j], Size[k])
                = Spread(Size[j], Size[k]) * Points(j) + 40 * SizeInverse(Size[j], Size[j], Size[k])
          BY <1>1, <4>1, <5>1, ScoreOf
        <5>3. Score(k, Size[j], Size[k])
                = Spread(Size[j], Size[k]) * Points(k) + 40 * SizeInverse(Size[k], Size[j], Size[k])
          BY <1>1, <4>1, <5>1, ScoreOf
        <5>. QED
          BY <4>2, <5>2, <5>3
      <4> HIDE DEF p
      <4>5. p * Points(j) + 40 * p < p * Points(k)
        BY <1>1, <2>10, <4>1, <4>3, <4>4
      <4>6. a + 41 <= b
        BY <2>10, <4>1, <4>5, LeadOfOutScored
      <4>7. s * a + 40 * x < s * b + 40 * y
        BY <2>9, <2>10, <4>6, PointsDecide
      <4>. QED
        BY <2>9, <3>1, <4>7
    <3>. QED
      BY <3>2, <3>3, PolicyAssumption DEF PolicyAssumption
  <2>. QED
    BY <2>8, <2>12, <2>13
<1>2. IInv /\ [Next]_vars =>
        [\A j, k \in Jobs : Preempted(j, k) /\ Priority[j] <= Priority[k] => ~ Selected(j)']_vars
  BY <1>1
<1>. QED
  BY SpecIInv, <1>2, PTL DEF Spec, NoWinBackFromBelow
=============================================================================
