---------------------------- MODULE SessionProofs ----------------------------
(***************************************************************************)
(* The session for any scenarios, pool, grace period and steps of the      *)
(* clock.  Every step of a session but a load is an operation of           *)
(* Scheduler, so the invariants of Scheduler hold in it; what the agenda   *)
(* may look like says which calls are still to come, and with it when the  *)
(* queue is served and the prompts are in time.                            *)
(***************************************************************************)
EXTENDS Session, SchedulerSteps, SequenceTheorems

Entry == Task \cup GPUs

SessionTypes ==
  /\ scenario \in Scenarios \cup {NoScenario}
  /\ scenario = NoScenario => agenda = <<>> /\ next = 1 /\ \A g \in GPUs : prompt[g] = NoPrompt
  /\ scenario # NoScenario => next \in 1..Len(scenario.script) + 1
  /\ running \in BOOLEAN
  /\ clock \in 0..Horizon
  /\ poller \in {"none", "live", "stale"}
  /\ raisedAt \in [GPUs -> 0..Horizon \cup {Wall}]
  /\ agenda \in Seq(Entry)

(* The calls on the agenda: a reading is followed by another one or by the *)
(* timeouts, the script by the grace check unless no time has passed, and  *)
(* nothing but the estimates follows the poll.                             *)
Ordered ==
  \A i \in 1..Len(agenda) :
    /\ agenda[i] \in GPUs => i < Len(agenda) /\ agenda[i + 1] \in GPUs \cup {"reclaimed"}
    /\ agenda[i] \in {"script", "scriptPass"} =>
         clock = 0 \/ \E k \in i + 1..Len(agenda) : agenda[k] = "grace"
    /\ agenda[i] = "scriptPass" => i = 1 /\ Due
    /\ agenda[i] = "poll" => \A k \in i + 1..Len(agenda) : agenda[k] = "estimates"

(* No prompt is overdue, or the check of the timeouts is still to come, or *)
(* an action of the script raised before it came.                          *)
Timely == \A g \in GPUs : prompt[g] # NoPrompt => clock < raisedAt[g] + Grace

Ahead == \E i \in 1..Len(agenda) : agenda[i] \in {"grace", "reclaimed"}

Scripted == \E i \in 1..Len(agenda) : agenda[i] \in {"script", "scriptPass"}

InTime == Ahead \/ Timely \/ (Due /\ ~Scripted)

(* The inductive invariant: Scheduler's, and what is the session's own.    *)
Plan == SessionTypes /\ Ordered /\ InTime

SInv == IInv /\ Plan

(* The queue is served, or the pass that serves it is still to come.       *)
PassOwed == agenda # <<>> /\ Head(agenda) \notin {"script", "grace", "poll", "estimates"}

InHand == PassOwed \/ Served(World)

(* The next call is a scripted reading that finds a prompt overdue.        *)
LateReading ==
  /\ Doing("script")
  /\ Due
  /\ scenario.script[next].do = "reading"
  /\ TimedOut(scenario.script[next].of, scenario.script[next].at)

(* The only step that leaves a GPU free beside a waiting job, with no pass *)
(* to come, is a scripted reading that takes a GPU back.                   *)
OnlyLateReadings == [][InHand => InHand' \/ LateReading]_sessionVars

-----------------------------------------------------------------------------
(* Lists of calls.                                                         *)

(* The readings of the GPUs a monitor sees make a list of GPUs.            *)
LEMMA ReadingsAreGpus ==
  ASSUME NEW seen \in SUBSET GPUs
  PROVE  SetToSeq(seen) \in Seq(GPUs)
<1>1. IsFiniteSet(seen)
  BY FS_Subset, SchedulerAssumption
<1>2. ExistsBijection(1..Cardinality(seen), seen) /\ Cardinality(seen) \in Nat
  BY <1>1, FS_CardinalityType
<1>3. PICK f \in Bijection(1..Cardinality(seen), seen) : TRUE
  BY <1>2 DEF ExistsBijection
<1>4. f \in [1..Cardinality(seen) -> seen] /\ IsInjective(f)
  BY <1>3 DEF Bijection, Injection, IsInjective
<1>5. SetToSeq(seen) \in [1..Cardinality(seen) -> seen]
  BY <1>4 DEF SetToSeq
<1>6. QED
  BY <1>2, <1>5

(* What the calls are when the first one gives way to others.              *)
LEMMA ThenShape ==
  ASSUME agenda \in Seq(Entry), agenda # <<>>, NEW tasks \in Seq(Entry), Then(tasks)
  PROVE  /\ agenda' \in Seq(Entry)
         /\ Len(tasks) \in Nat /\ Len(agenda) \in Nat \ {0} /\ Len(agenda') \in Nat
         /\ Len(agenda') = Len(tasks) + Len(agenda) - 1
         /\ \A i \in 1..Len(tasks) : agenda'[i] = tasks[i]
         /\ \A i \in 1..Len(agenda') : i > Len(tasks) => agenda'[i] = agenda[i - Len(tasks) + 1]
         /\ \A k \in 2..Len(agenda) : /\ k + Len(tasks) - 1 \in 1..Len(agenda')
                                      /\ agenda'[k + Len(tasks) - 1] = agenda[k]
         /\ Head(agenda) = agenda[1] /\ agenda[1] \in Entry
<1> DEFINE rest == Tail(agenda)
<1>1. /\ rest \in Seq(Entry)
      /\ Len(rest) = Len(agenda) - 1
      /\ \A i \in 1..Len(rest) : rest[i] = agenda[i + 1]
  BY HeadTailProperties
<1>2. Len(tasks) \in Nat /\ Len(agenda) \in Nat \ {0}
  BY EmptySeq, LenProperties
<1>3. agenda' = tasks \o rest
  BY DEF Then
<1> HIDE DEF rest
<1>4. /\ agenda' \in Seq(Entry)
      /\ Len(agenda') = Len(tasks) + Len(rest)
      /\ \A i \in 1..Len(tasks) + Len(rest) :
           agenda'[i] = IF i <= Len(tasks) THEN tasks[i] ELSE rest[i - Len(tasks)]
  BY <1>1, <1>3, ConcatProperties
<1>5. Head(agenda) = agenda[1] /\ agenda[1] \in Entry
  BY <1>2
<1>6. \A i \in 1..Len(tasks) : agenda'[i] = tasks[i]
  BY <1>1, <1>2, <1>4
<1>7. ASSUME NEW i \in 1..Len(agenda'), i > Len(tasks)
      PROVE  agenda'[i] = agenda[i - Len(tasks) + 1]
  <2>1. i - Len(tasks) \in 1..Len(rest) /\ ~ (i <= Len(tasks))
    BY <1>1, <1>2, <1>4, <1>7
  <2>2. QED
    BY <1>1, <1>2, <1>4, <2>1
<1>8. ASSUME NEW k \in 2..Len(agenda)
      PROVE  /\ k + Len(tasks) - 1 \in 1..Len(agenda')
             /\ agenda'[k + Len(tasks) - 1] = agenda[k]
  <2>1. k + Len(tasks) - 1 \in 1..Len(agenda') /\ k + Len(tasks) - 1 > Len(tasks)
    BY <1>1, <1>2, <1>4
  <2>2. (k + Len(tasks) - 1) - Len(tasks) + 1 = k
    BY <1>2
  <2>3. QED
    BY <1>7, <2>1, <2>2
<1>9. QED
  BY <1>1, <1>2, <1>4, <1>5, <1>6, <1>7, <1>8

(* The calls a step puts in place of the first one keep the order of the   *)
(* agenda if they come from the script only when the first one did.        *)
LEMMA ThenOrdered ==
  ASSUME agenda \in Seq(Entry), agenda # <<>>, Ordered, NEW tasks \in Seq(Entry), Then(tasks),
         clock' = clock,
         \A i \in 1..Len(tasks) :
           /\ tasks[i] \in GPUs => i < Len(tasks) /\ tasks[i + 1] \in GPUs \cup {"reclaimed"}
           /\ tasks[i] \in {"script", "scriptPass"} => Head(agenda) \in {"script", "scriptPass"}
           /\ tasks[i] = "scriptPass" => i = 1 /\ Due'
           /\ tasks[i] # "poll"
  PROVE  Ordered'
<1> DEFINE n == Len(tasks)
<1>0. /\ n \in Nat /\ Len(agenda) \in Nat \ {0} /\ Len(agenda') = n + Len(agenda) - 1
      /\ \A i \in 1..n : agenda'[i] = tasks[i]
      /\ \A i \in 1..Len(agenda') : i > n => agenda'[i] = agenda[i - n + 1]
      /\ \A k \in 2..Len(agenda) : k + n - 1 \in 1..Len(agenda') /\ agenda'[k + n - 1] = agenda[k]
      /\ Head(agenda) = agenda[1]
  BY ThenShape
<1> SUFFICES ASSUME NEW i \in 1..Len(agenda')
             PROVE  /\ agenda'[i] \in GPUs => i < Len(agenda') /\ agenda'[i + 1] \in GPUs \cup {"reclaimed"}
                    /\ agenda'[i] \in {"script", "scriptPass"} =>
                         clock = 0 \/ \E k \in i + 1..Len(agenda') : agenda'[k] = "grace"
                    /\ agenda'[i] = "scriptPass" => i = 1 /\ Due'
                    /\ agenda'[i] = "poll" => \A k \in i + 1..Len(agenda') : agenda'[k] = "estimates"
  BY DEF Ordered
<1>1. CASE i <= n
  <2>1. i \in 1..n /\ agenda'[i] = tasks[i]
    BY <1>0, <1>1
  <2>2. ASSUME tasks[i] \in GPUs
        PROVE  i < Len(agenda') /\ agenda'[i + 1] \in GPUs \cup {"reclaimed"}
    <3>1. i < n /\ tasks[i + 1] \in GPUs \cup {"reclaimed"}
      BY <2>1, <2>2
    <3>2. i + 1 \in 1..n /\ i < Len(agenda')
      BY <1>0, <3>1
    <3>3. QED
      BY <1>0, <3>1, <3>2
  <2>3. ASSUME tasks[i] \in {"script", "scriptPass"}
        PROVE  clock = 0 \/ \E k \in i + 1..Len(agenda') : agenda'[k] = "grace"
    <3>1. agenda[1] \in {"script", "scriptPass"} /\ 1 \in 1..Len(agenda)
      BY <1>0, <2>1, <2>3
    <3>2. clock = 0 \/ \E k \in 2..Len(agenda) : agenda[k] = "grace"
      BY <3>1 DEF Ordered
    <3>3. ASSUME NEW k \in 2..Len(agenda), agenda[k] = "grace"
          PROVE  \E m \in i + 1..Len(agenda') : agenda'[m] = "grace"
      <4>1. k + n - 1 \in i + 1..Len(agenda')
        BY <1>0, <2>1
      <4>2. QED
        BY <1>0, <3>3, <4>1
    <3>4. QED
      BY <3>2, <3>3
  <2>4. QED
    BY <2>1, <2>2, <2>3
<1>2. CASE i > n
  <2> DEFINE j == i - n + 1
  <2>1. j \in 2..Len(agenda) /\ j \in 1..Len(agenda) /\ agenda'[i] = agenda[j] /\ j # 1
    BY <1>0, <1>2
  <2>2. \A k \in j + 1..Len(agenda) : k + n - 1 \in i + 1..Len(agenda') /\ agenda'[k + n - 1] = agenda[k]
    BY <1>0, <1>2, <2>1
  <2>3. \A k \in i + 1..Len(agenda') : k - n + 1 \in j + 1..Len(agenda) /\ agenda'[k] = agenda[k - n + 1]
    BY <1>0, <1>2, <2>1
  <2>4. /\ agenda[j] \in GPUs => j < Len(agenda) /\ agenda[j + 1] \in GPUs \cup {"reclaimed"}
        /\ agenda[j] \in {"script", "scriptPass"} =>
             clock = 0 \/ \E k \in j + 1..Len(agenda) : agenda[k] = "grace"
        /\ agenda[j] # "scriptPass"
        /\ agenda[j] = "poll" => \A k \in j + 1..Len(agenda) : agenda[k] = "estimates"
    BY <2>1 DEF Ordered
  <2>5. ASSUME agenda[j] \in GPUs
        PROVE  i < Len(agenda') /\ agenda'[i + 1] \in GPUs \cup {"reclaimed"}
    <3>1. j + 1 \in j + 1..Len(agenda) /\ agenda[j + 1] \in GPUs \cup {"reclaimed"}
      BY <1>0, <2>1, <2>4, <2>5
    <3>2. (j + 1) + n - 1 = i + 1
      BY <1>0
    <3>3. i + 1 \in i + 1..Len(agenda') /\ agenda'[i + 1] = agenda[j + 1]
      BY <2>2, <3>1, <3>2
    <3>4. QED
      BY <1>0, <3>1, <3>3
  <2> HIDE DEF j
  <2>6. QED
    BY <2>1, <2>2, <2>3, <2>4, <2>5
<1>3. QED
  BY <1>0, <1>1, <1>2

(* What is ahead and what is scripted when the first call gives way.       *)
LEMMA ThenAhead ==
  ASSUME agenda \in Seq(Entry), agenda # <<>>, NEW tasks \in Seq(Entry), Then(tasks)
  PROVE  /\ Ahead /\ Head(agenda) \notin {"grace", "reclaimed"} => Ahead'
         /\ (\E i \in 1..Len(tasks) : tasks[i] \in {"grace", "reclaimed"}) => Ahead'
         /\ ~Scripted /\ (\A i \in 1..Len(tasks) : tasks[i] \notin {"script", "scriptPass"})
              => ~Scripted'
<1> DEFINE n == Len(tasks)
<1>0. /\ n \in Nat /\ Len(agenda) \in Nat \ {0} /\ Len(agenda') = n + Len(agenda) - 1
      /\ \A i \in 1..n : agenda'[i] = tasks[i]
      /\ \A i \in 1..Len(agenda') : i > n => agenda'[i] = agenda[i - n + 1]
      /\ \A k \in 2..Len(agenda) : k + n - 1 \in 1..Len(agenda') /\ agenda'[k + n - 1] = agenda[k]
      /\ Head(agenda) = agenda[1]
  BY ThenShape
<1>1. ASSUME Ahead, Head(agenda) \notin {"grace", "reclaimed"} PROVE Ahead'
  <2>1. PICK i \in 1..Len(agenda) : agenda[i] \in {"grace", "reclaimed"}
    BY <1>1 DEF Ahead
  <2>2. i \in 2..Len(agenda)
    BY <1>0, <1>1, <2>1
  <2>3. QED
    BY <1>0, <2>1, <2>2 DEF Ahead
<1>2. ASSUME NEW i \in 1..n, tasks[i] \in {"grace", "reclaimed"} PROVE Ahead'
  <2>1. i \in 1..Len(agenda')
    BY <1>0, <1>2
  <2>2. QED
    BY <1>0, <1>2, <2>1 DEF Ahead
<1>3. ASSUME ~Scripted, \A i \in 1..n : tasks[i] \notin {"script", "scriptPass"} PROVE ~Scripted'
  <2> SUFFICES ASSUME NEW i \in 1..Len(agenda') PROVE agenda'[i] \notin {"script", "scriptPass"}
    BY DEF Scripted
  <2>1. CASE i <= n
    <3>1. i \in 1..n
      BY <1>0, <2>1
    <3>2. QED
      BY <1>0, <1>3, <3>1
  <2>2. CASE i > n
    <3>1. i - n + 1 \in 1..Len(agenda)
      BY <1>0, <2>2
    <3>2. QED
      BY <1>0, <1>3, <2>2, <3>1 DEF Scripted
  <2>3. QED
    BY <1>0, <2>1, <2>2
<1>4. QED
  BY <1>1, <1>2, <1>3

-----------------------------------------------------------------------------
(* Prompts and their times.                                                *)

Times == 0..Horizon \cup {Wall}

(* The times are numbers, and the wall clock is late.                      *)
LEMMA TimesAreNumbers ==
  /\ Times \subseteq Nat
  /\ 0 \in Times /\ Wall \in Times
  /\ Grace \in Nat \ {0} /\ Horizon \in Nat
  /\ Wall = Horizon + Grace
  BY SessionAssumption DEF Times, Wall

(* Prompts are dated with times.                                           *)
LEMMA StampTypes ==
  ASSUME raisedAt \in [GPUs -> Times], NEW now \in Times, NEW replaced, Stamp(now, replaced)
  PROVE  raisedAt' \in [GPUs -> Times]
  BY TimesAreNumbers DEF Stamp

(* Prompts raised within the grace period keep the prompts in time.        *)
LEMMA StampTimely ==
  ASSUME raisedAt \in [GPUs -> Times], Timely, NEW now \in Times, NEW replaced,
         Stamp(now, replaced), clock' = clock, clock < now + Grace
  PROVE  Timely'
  BY TimesAreNumbers DEF Stamp, Timely

-----------------------------------------------------------------------------
(* The steps of a session are operations of Scheduler.                     *)

(* The action of a script that is due.                                     *)
LEMMA ScriptedAct ==
  ASSUME SessionTypes, agenda # <<>>, Due
  PROVE  /\ scenario \in Scenarios
         /\ next \in 1..Len(scenario.script) /\ next + 1 \in 1..Len(scenario.script) + 1
         /\ scenario.script[next] \in ScriptAction
         /\ scenario.script[next].at \in 0..Horizon
         /\ scenario.script[next].at <= clock
<1>1. scenario \in Scenarios
  BY DEF SessionTypes
<1>2. scenario.script \in Seq(ScriptAction) /\ Len(scenario.script) \in Nat
  BY <1>1, SessionAssumption
<1>3. next \in 1..Len(scenario.script) /\ next + 1 \in 1..Len(scenario.script) + 1
  BY <1>1, <1>2, SessionAssumption DEF Due, SessionTypes
<1>4. scenario.script[next] \in ScriptAction
  BY <1>2, <1>3
<1>5. QED
  BY <1>1, <1>3, <1>4 DEF Due, ScriptAction

(* A reading of a GPU is an operation of Scheduler or changes nothing.     *)
LEMMA ReadingIsNext ==
  ASSUME NEW g \in GPUs, NEW now, RecordUtilization(g, now)
  PROVE  [Next]_vars
  BY DEF RecordUtilization, Next

(* What a scripted action executes is an operation of Scheduler.           *)
LEMMA ExecuteIsNext ==
  ASSUME NEW act \in ScriptAction, Execute(act)
  PROVE  Next
<1>1. CASE act.do \in {"add", "complete"}
  <2>1. act.of \in Jobs
    BY <1>1 DEF ScriptAction
  <2>2. QED
    BY <1>1, <2>1 DEF Execute, Next
<1>2. CASE act.do \in {"yes", "no"}
  <2>1. act.of \in GPUs
    BY <1>2 DEF ScriptAction
  <2>2. QED
    BY <1>2, <2>1 DEF Execute, Next
<1>3. QED
  BY <1>1, <1>2 DEF Execute

(* Every call of a tick or a handler is an operation of Scheduler or none. *)
LEMMA WorkIsNext ==
  ASSUME SessionTypes, Work
  PROVE  [Next]_vars
<1>1. CASE RunScript
  <2> DEFINE act == scenario.script[next]
  <2>1. Due /\ act \in ScriptAction /\ agenda # <<>>
    BY <1>1, ScriptedAct DEF RunScript, Doing
  <2>2. CASE act.do = "reading" /\ RecordUtilization(act.of, act.at)
    <3>1. act.of \in GPUs
      BY <2>1, <2>2 DEF ScriptAction
    <3>2. QED
      BY <2>2, <3>1, ReadingIsNext
  <2>3. CASE Execute(act)
    BY <2>1, <2>3, ExecuteIsNext
  <2>4. CASE UNCHANGED vars
    BY <2>4
  <2>5. QED
    BY <1>1, <2>2, <2>3, <2>4 DEF RunScript
<1>2. CASE ScriptPass \/ Pass
  BY <1>2 DEF ScriptPass, Pass, Next
<1>3. CASE ScriptPause \/ NoneOverdue \/ Poll
  BY <1>3 DEF ScriptPause, NoneOverdue, Poll
<1>4. CASE TakeOverdue
  BY <1>4 DEF TakeOverdue, Next
<1>5. CASE FeedMetrics
  <2>1. PICK g \in GPUs : RecordUtilization(g, Wall) \/ CheckTimeout(g)
    BY <1>5 DEF FeedMetrics
  <2>2. QED
    BY <2>1, ReadingIsNext DEF Next
<1>6. CASE AskOverdueJobs
  BY <1>6 DEF AskOverdueJobs, Next
<1>7. QED
  BY <1>1, <1>2, <1>3, <1>4, <1>5, <1>6 DEF Work

(* The operation of a handler.                                             *)
AHandler ==
  \/ \E g \in GPUs : RespondToPrompt(g)
  \/ \E j \in Jobs : SubmitUserRequest(j)
  \/ Administer

(* So is every handler.                                                    *)
LEMMA HandlerIsNext ==
  ASSUME SessionTypes, AHandler
  PROVE  /\ Idle /\ Next /\ UNCHANGED control
         /\ \E replaced : Stamp(clock, replaced)
         /\ agenda' \in {<<>>, <<"pass">>}
<1>1. CASE \E g \in GPUs : RespondToPrompt(g)
  BY <1>1 DEF RespondToPrompt, Handle, Next
<1>2. CASE \E j \in Jobs : SubmitUserRequest(j)
  BY <1>2 DEF SubmitUserRequest, Handle, Next
<1>3. CASE Administer
  <2>0. Idle /\ Parked[scenario] \subseteq GPUs
    <3>1. Idle /\ scenario \in Scenarios
      BY <1>3 DEF Administer, Idle, SessionTypes
    <3>2. QED
      BY <3>1, SessionAssumption
  <2>1. OnDemand \subseteq Jobs
    BY SessionAssumption
  <2>2. CASE \E g \in GPUs : \E j \in OnDemand : Handle(ManualAssignGpu(g, j, FALSE), {}, <<>>)
    <3>1. \A j \in Jobs : FALSE \in Levels(j)
      BY DEF Levels
    <3>2. QED
      BY <2>0, <2>1, <2>2, <3>1 DEF Handle, Next
  <2>3. CASE \E j \in Jobs : Handle(CancelJob(j), {}, <<>>)
    BY <2>0, <2>3 DEF Handle, Next
  <2>4. CASE \E j \in Jobs : \E isCritical \in Levels(j) :
                Handle(ChangeJobPriority(j, isCritical), {}, <<>>)
    BY <2>0, <2>4 DEF Handle, Next
  <2>5. CASE \E g \in GPUs : Handle(ForceReclaim(g), {g}, <<>>)
    BY <2>0, <2>5 DEF Handle, Next
  <2>6. CASE \E g \in Parked[scenario] : Handle(SetGpuMaintenance(g) \/ ClearGpuMaintenance(g), {}, <<>>)
    BY <2>0, <2>6 DEF Handle, Next
  <2>7. CASE \E g \in Parked[scenario] : Handle(HandleGpuFailure(g) \/ RecoverGpuFailure(g), {}, <<>>)
    BY <2>0, <2>7 DEF Handle, Next
  <2>8. QED
    BY <1>3, <2>2, <2>3, <2>4, <2>5, <2>6, <2>7 DEF Administer
<1>4. QED
  BY <1>1, <1>2, <1>3 DEF AHandler

(* The steps that call nothing of the scheduler but, perhaps, the clock of *)
(* the cooldowns.                                                          *)
AControl ==
  \/ \E k \in Strides : Step(k) \/ BackgroundTick(k)
  \/ \E on \in BOOLEAN : StartOrPause(on)
  \/ EnableRealHardware \/ DisableRealHardware
  \/ CooldownOver

(* Each starts with no call in progress and is a step of Scheduler, most    *)
(* of them a stutter.                                                      *)
LEMMA ControlIsNext ==
  ASSUME AControl
  PROVE  Idle /\ [Next]_vars /\ UNCHANGED <<scenario, next, raisedAt>>
<1>1. CASE \E k \in Strides : Step(k) \/ BackgroundTick(k)
  BY <1>1 DEF Step, BackgroundTick, Advance
<1>2. CASE \E on \in BOOLEAN : StartOrPause(on)
  BY <1>2 DEF StartOrPause
<1>3. CASE EnableRealHardware \/ DisableRealHardware
  BY <1>3 DEF EnableRealHardware, DisableRealHardware
<1>4. CASE CooldownOver
  BY <1>4 DEF CooldownOver, Next, control
<1>5. QED
  BY <1>1, <1>2, <1>3, <1>4 DEF AControl

(* A load or a reset makes the scheduler of a registered scenario.         *)
Boots == \E s \in Scenarios : BootInto(s)

(* Both wait for the calls in progress.                                    *)
LEMMA LoadsBoot ==
  ASSUME SessionTypes, (\E s \in Scenarios : LoadScenario(s)) \/ Reset
  PROVE  agenda = <<>> /\ Boots
  BY DEF LoadScenario, Reset, Idle, Boots, SessionTypes

(* The steps of a session.                                                 *)
LEMMA SessionSteps ==
  ASSUME SessionTypes, [SessionNext]_sessionVars
  PROVE  \/ Work
         \/ AHandler
         \/ AControl
         \/ Boots /\ agenda = <<>>
         \/ UNCHANGED sessionVars
  BY LoadsBoot DEF SessionNext, AHandler, AControl

(* Every step of a session but a load is an operation of Scheduler, or     *)
(* leaves it alone.                                                        *)
LEMMA StepIsNext ==
  ASSUME SessionTypes, [SessionNext]_sessionVars
  PROVE  [Next]_vars \/ Boots
<1>1. UNCHANGED sessionVars => UNCHANGED vars
  BY DEF sessionVars
<1>2. QED
  BY <1>1, SessionSteps, WorkIsNext, HandlerIsNext, ControlIsNext

(* A scenario puts a sound pool in place: its running jobs hold no more    *)
(* than they asked for, and its queued ones nothing.                       *)
LEMMA BootSound ==
  ASSUME NEW s \in Scenarios
  PROVE  Safe(Boot(s)) /\ Orderly(Boot(s))
<1> DEFINE w == Boot(s)
           seeded == {s.seed[g] : g \in GPUs} \ {NoJob}
           Held(j) == {g \in GPUs : s.seed[g] = j}
<1>1. /\ s.seed \in [GPUs -> Jobs \cup {NoJob}]
      /\ s.queued \in SUBSET Jobs
      /\ \A g \in GPUs : s.seed[g] \notin s.queued
      /\ \A j \in Jobs : Cardinality(Held(j)) <= Count[j]
      /\ s.urgent \in SUBSET Jobs
  BY SessionAssumption
<1>2. /\ w.gpuStatus = [g \in GPUs |-> IF s.seed[g] = NoJob THEN "IDLE" ELSE "ACTIVE"]
      /\ w.assignedJob = s.seed
      /\ w.assignedUser = [g \in GPUs |-> IF s.seed[g] = NoJob THEN NoUser ELSE Owner[s.seed[g]]]
      /\ w.jobStatus = [j \in Jobs |-> CASE j \in seeded -> "RUNNING"
                                         [] j \in s.queued -> "WAITING"
                                         [] OTHER -> "NEW"]
      /\ w.jobGpus = [j \in Jobs |-> Held(j)]
      /\ w.userGpus = [u \in Users |-> {g \in GPUs : \E j \in seeded : g \in Held(j) /\ Owner[j] = u}]
      /\ w.userIndex = [u \in Users |-> {}]
      /\ w.fifo = [j \in Jobs |-> IF j \in s.queued THEN 1 ELSE 0]
      /\ w.prompt = [g \in GPUs |-> NoPrompt]
  BY DEF Boot
<1>3. \A j \in Jobs : (j \in seeded <=> Held(j) # {}) /\ (j \in seeded => j \notin s.queued)
  BY <1>1, SchedulerAssumption
<1>4. w \in Worlds
  <2>1. seeded \subseteq Jobs /\ NoPrompt \in Prompt
    BY <1>1 DEF NoPrompt, Prompt
  <2>2. \A j \in Jobs : (CASE j \in seeded -> "RUNNING" [] j \in s.queued -> "WAITING" [] OTHER -> "NEW")
                          \in JobStatus
    BY DEF JobStatus
  <2> HIDE DEF seeded
  <2>3. /\ w.jobStatus \in [Jobs -> JobStatus]
        /\ w.gpuStatus \in [GPUs -> GPUStatus]
        /\ w.assignedUser \in [GPUs -> Users \cup {NoUser}]
        /\ w.fifo \in [Jobs -> Nat]
    BY <1>1, <1>2, <2>2, SchedulerAssumption DEF GPUStatus, seeded
  <2>4. QED
    BY <1>1, <2>1, <2>3 DEF Worlds, Boot, seeded
<1> HIDE DEF w
<1>5. Owned(w)
  <2>1. \A g \in GPUs, j \in Jobs : g \in w.jobGpus[j] <=> w.assignedJob[g] = j
    BY <1>2
  <2>2. \A g \in GPUs, u \in Users : g \in w.userGpus[u] <=> w.assignedUser[g] = u
    BY <1>1, <1>2, SchedulerAssumption
  <2>3. QED
    BY <1>2, <2>1, <2>2 DEF Owned
<1>6. Marked(w) /\ Addressed(w) /\ Spared(w)
  BY <1>2 DEF Marked, Addressed, Spared, IsRequest, NoPrompt
<1>7. ASSUME NEW j \in Jobs
      PROVE  /\ Cardinality(w.jobGpus[j]) <= Count[j]
             /\ w.jobStatus[j] = "RUNNING" => w.jobGpus[j] # {}
             /\ w.jobStatus[j] = "WAITING" => Cardinality(w.jobGpus[j]) < Count[j]
             /\ w.jobStatus[j] \in {"NEW", "COMPLETED", "RECLAIMED"} => w.jobGpus[j] = {}
             /\ w.fifo[j] <= 1
             /\ w.jobStatus[j] = "WAITING" => w.fifo[j] = 1
             /\ w.jobStatus[j] \notin {"WAITING", "RECLAIMED"} => w.fifo[j] = 0
  <2>1. Cardinality({}) = 0 /\ Count[j] \in Nat \ {0}
    BY FS_EmptySet, SchedulerAssumption
  <2>2. /\ w.jobGpus[j] = Held(j) /\ Cardinality(Held(j)) <= Count[j]
        /\ w.fifo[j] = IF j \in s.queued THEN 1 ELSE 0
        /\ w.jobStatus[j] = CASE j \in seeded -> "RUNNING"
                              [] j \in s.queued -> "WAITING"
                              [] OTHER -> "NEW"
    BY <1>1, <1>2
  <2>3. (j \in seeded <=> Held(j) # {}) /\ (j \in seeded => j \notin s.queued)
    BY <1>3
  <2> HIDE DEF Held, seeded
  <2>4. CASE j \in seeded
    BY <2>2, <2>3, <2>4
  <2>5. CASE j \notin seeded /\ j \in s.queued
    BY <2>1, <2>2, <2>3, <2>5
  <2>6. CASE j \notin seeded /\ j \notin s.queued
    BY <2>2, <2>3, <2>6
  <2>7. QED
    BY <2>4, <2>5, <2>6
<1>8. QED
  BY <1>4, <1>5, <1>6, <1>7 DEF Safe, Orderly, Sized, Queued, w

(* The invariant of Scheduler holds after every step of a session.         *)
LEMMA StepIInv ==
  ASSUME IInv, SessionTypes, [SessionNext]_sessionVars
  PROVE  IInv'
  BY StepIsNext, NextIInv, BootSound, BecomeIInv DEF Boots, BootInto

-----------------------------------------------------------------------------
(* What is on the agenda, step by step.                                    *)

(* What a call or a handler leaves alone.                                  *)
SameSession == UNCHANGED <<scenario, running, clock, poller>>

(* A call that leaves these alone keeps the types, given those of the rest. *)
LEMMA SameSessionTypes ==
  ASSUME SessionTypes, scenario \in Scenarios, SameSession, agenda' \in Seq(Entry),
         next' = next \/ (Due /\ next' = next + 1),
         raisedAt' \in [GPUs -> Times]
  PROVE  SessionTypes'
<1>1. next' \in 1..Len(scenario.script) + 1
  <2>1. CASE next' = next
    BY <2>1 DEF SessionTypes
  <2>2. CASE Due /\ next' = next + 1
    <3>1. next \in 1..Len(scenario.script) + 1 /\ next <= Len(scenario.script)
      BY <2>2 DEF SessionTypes, Due
    <3>2. Len(scenario.script) \in Nat
      BY SessionAssumption
    <3>3. QED
      BY <2>2, <3>1, <3>2
  <2>3. QED
    BY <2>1, <2>2
<1>2. scenario # NoScenario
  BY SessionAssumption
<1>3. QED
  BY <1>1, <1>2 DEF SessionTypes, SameSession, Times

(* While a call is in progress a scenario is loaded, and the types say so. *)
LEMMA InProgress ==
  ASSUME SessionTypes, agenda # <<>>
  PROVE  /\ scenario \in Scenarios
         /\ agenda \in Seq(Entry)
         /\ raisedAt \in [GPUs -> Times]
         /\ clock \in 0..Horizon
  BY DEF SessionTypes, Times

(* The agenda when a tick or a handler has nothing left to do, or a pass.  *)
LEMMA ShortAgenda ==
  ASSUME agenda' \in {<<>>, <<"pass">>}
  PROVE  agenda' \in Seq(Entry) /\ Ordered' /\ ~Scripted'
<1>1. CASE agenda' = <<>>
  BY <1>1 DEF Ordered, Scripted
<1>2. CASE agenda' = <<"pass">>
  <2>1. "pass" \notin GPUs /\ "pass" \in Entry
    BY SessionAssumption DEF Task, Entry
  <2>2. agenda' \in Seq(Entry) /\ Len(agenda') = 1 /\ agenda'[1] = "pass"
    BY <1>2, <2>1
  <2>3. QED
    BY <2>1, <2>2 DEF Ordered, Scripted
<1>3. QED
  BY <1>1, <1>2

(* A scripted call is first: no time has passed, or the check of the       *)
(* timeouts is still to come.                                              *)
LEMMA ScriptHead ==
  ASSUME Plan, Doing("script") \/ Doing("scriptPass")
  PROVE  Scripted /\ (Ahead \/ (clock = 0 /\ Timely)) /\ (Doing("scriptPass") => Due)
<1>1. agenda \in Seq(Entry) /\ Len(agenda) \in Nat \ {0} /\ Head(agenda) = agenda[1]
  <2>1. agenda \in Seq(Entry) /\ agenda # <<>>
    BY DEF Plan, SessionTypes, Doing
  <2>2. Len(agenda) \in Nat \ {0}
    BY <2>1, EmptySeq, LenProperties
  <2>3. QED
    BY <2>1, <2>2
<1>2. 1 \in 1..Len(agenda) /\ agenda[1] \in {"script", "scriptPass"}
  BY <1>1 DEF Doing
<1>3. Scripted
  BY <1>2 DEF Scripted
<1>4. clock = 0 \/ \E k \in 2..Len(agenda) : agenda[k] = "grace"
  BY <1>2 DEF Plan, Ordered
<1>5. clock = 0 \/ Ahead
  BY <1>1, <1>4 DEF Ahead
<1>6. Doing("scriptPass") => Due
  BY <1>1, <1>2 DEF Plan, Ordered, Doing
<1>7. QED
  BY <1>3, <1>5, <1>6 DEF Plan, InTime

(* A call, the first on the agenda, that is none of the two that check the *)
(* timeouts, keeps the prompts in time if it raises none that is overdue.  *)
LEMMA CallInTime ==
  ASSUME Plan, agenda # <<>>, NEW tasks \in Seq(Entry), Then(tasks),
         Head(agenda) \notin {"grace", "reclaimed"},
         Timely => Timely',
         Scripted \/ ((Due => Due') /\ \A i \in 1..Len(tasks) : tasks[i] \notin {"script", "scriptPass"})
  PROVE  InTime'
  BY ThenAhead DEF Plan, SessionTypes, InTime

(* An action of the script keeps the plan: before the check of the         *)
(* timeouts it dates prompts as it likes, and without one no time has      *)
(* passed.                                                                 *)
LEMMA RunScriptPlan ==
  ASSUME Plan, RunScript
  PROVE  Plan'
<1> DEFINE act == scenario.script[next]
<1>0. /\ Doing("script") /\ Due /\ agenda # <<>> /\ SessionTypes
      /\ agenda \in Seq(Entry) /\ scenario \in Scenarios
      /\ raisedAt \in [GPUs -> Times] /\ clock \in 0..Horizon
      /\ act.at \in 0..Horizon /\ act.at <= clock /\ act.at \in Times
      /\ Head(agenda) = "script"
  BY InProgress, ScriptedAct DEF RunScript, Doing, Plan, Times
<1>1. Scripted /\ (Ahead \/ (clock = 0 /\ Timely))
  BY <1>0, ScriptHead
<1>2. ASSUME NEW tasks \in Seq(Entry), Then(tasks), Stamp(act.at, {}), SameSession,
             next' = next \/ next' = next + 1, Ordered'
      PROVE  Plan'
  <2>1. raisedAt' \in [GPUs -> Times]
    BY <1>0, <1>2, StampTypes
  <2>2. SessionTypes'
    <3>1. agenda' \in Seq(Entry)
      BY <1>0, <1>2, ThenShape
    <3>2. QED
      BY <1>0, <1>2, <2>1, <3>1, SameSessionTypes
  <2>3. CASE Ahead
    BY <1>0, <1>2, <2>2, <2>3, ThenAhead DEF Plan, InTime
  <2>4. CASE clock = 0 /\ Timely
    <3>1. clock < act.at + Grace /\ clock' = clock
      BY <1>0, <1>2, <2>4, TimesAreNumbers DEF SameSession
    <3>2. Timely'
      BY <1>0, <1>2, <2>4, <3>1, StampTimely
    <3>3. QED
      BY <1>2, <2>2, <3>2 DEF Plan, InTime
  <2>5. QED
    BY <1>1, <2>3, <2>4
<1>3. ASSUME NEW tasks \in {<<"scriptPass", "script">>, <<"script">>}, Then(tasks), SameSession,
             tasks = <<"script">> \/ next' = next
      PROVE  tasks \in Seq(Entry) /\ Ordered'
  <2>1. "script" \in Task /\ "scriptPass" \in Task /\ "script" \notin GPUs /\ "scriptPass" \notin GPUs
    BY SessionAssumption DEF Task
  <2>2. tasks \in Seq(Entry)
    <3>1. "script" \in Entry /\ "scriptPass" \in Entry
      BY <2>1 DEF Entry
    <3>2. <<"scriptPass", "script">> \in Seq(Entry) /\ <<"script">> \in Seq(Entry)
      BY <3>1
    <3>3. QED
      BY <3>2
  <2>3. clock' = clock /\ scenario' = scenario
    BY <1>3 DEF SameSession
  <2>4. tasks # <<"script">> => Due'
    BY <1>0, <1>3, <2>3 DEF Due
  <2>5. /\ Len(tasks) \in {1, 2}
        /\ \A i \in 1..Len(tasks) : tasks[i] \in {"script", "scriptPass"}
        /\ \A i \in 1..Len(tasks) : tasks[i] = "scriptPass" => i = 1 /\ tasks # <<"script">>
    <3>1. CASE tasks = <<"script">>
      BY <3>1
    <3>2. CASE tasks = <<"scriptPass", "script">>
      <4>1. Len(tasks) = 2 /\ tasks[1] = "scriptPass" /\ tasks[2] = "script"
        BY <3>2
      <4>2. \A i \in 1..2 : i = 1 \/ i = 2
        OBVIOUS
      <4>3. tasks # <<"script">>
        BY <4>1
      <4>4. QED
        BY <4>1, <4>2, <4>3
    <3>3. QED
      BY <1>3, <3>1, <3>2
  <2>6. QED
    BY <1>0, <1>3, <2>1, <2>2, <2>3, <2>4, <2>5, ThenOrdered DEF Plan
<1>4. CASE /\ Execute(act) /\ Stamp(act.at, {}) /\ Then(<<"scriptPass", "script">>) /\ UNCHANGED control
  BY <1>2, <1>3, <1>4 DEF control, SameSession
<1>5. CASE /\ Stamp(act.at, {}) /\ Then(<<"script">>) /\ next' = next + 1
           /\ UNCHANGED <<scenario, running, clock, poller>>
  BY <1>2, <1>3, <1>5 DEF SameSession
<1>6. CASE agenda' = <<>> /\ UNCHANGED <<vars, control, raisedAt>>
  <2>1. SessionTypes'
    BY <1>0, <1>6, ShortAgenda, SameSessionTypes DEF SameSession, control
  <2>2. Due'
    BY <1>0, <1>6 DEF Due, control
  <2>3. QED
    BY <1>6, <2>1, <2>2, ShortAgenda DEF Plan, InTime
<1>7. QED
  BY <1>4, <1>5, <1>6 DEF RunScript

(* The pass after an added, answered or completed action ends it.          *)
LEMMA ScriptPassPlan ==
  ASSUME Plan, ScriptPass
  PROVE  Plan'
<1> DEFINE at == scenario.script[next].at
<1>0. /\ Due /\ agenda # <<>> /\ SessionTypes /\ agenda \in Seq(Entry) /\ scenario \in Scenarios
      /\ raisedAt \in [GPUs -> Times] /\ clock \in 0..Horizon
      /\ at \in 0..Horizon /\ at <= clock /\ at \in Times
      /\ Head(agenda) = "scriptPass"
      /\ Scripted /\ (Ahead \/ (clock = 0 /\ Timely))
  BY InProgress, ScriptedAct, ScriptHead DEF ScriptPass, Doing, Plan, Times
<1>1. /\ Stamp(at, {}) /\ Then(<<>>) /\ next' = next + 1
      /\ SameSession /\ clock' = clock
  BY DEF ScriptPass, SameSession
<1>2. <<>> \in Seq(Entry) /\ Len(<<>>) = 0 /\ \A i \in 1..Len(<<>>) : FALSE
  OBVIOUS
<1>3. raisedAt' \in [GPUs -> Times]
  BY <1>0, <1>1, StampTypes
<1>4. SessionTypes'
  <2>1. agenda' \in Seq(Entry)
    BY <1>0, <1>1, <1>2, ThenShape
  <2>2. QED
    BY <1>0, <1>1, <1>3, <2>1, SameSessionTypes
<1>5. Ordered'
  BY <1>0, <1>1, <1>2, ThenOrdered DEF Plan
<1>6. CASE Ahead
  BY <1>0, <1>1, <1>2, <1>4, <1>5, <1>6, ThenAhead DEF Plan, InTime
<1>7. CASE clock = 0 /\ Timely
  <2>1. clock < at + Grace
    BY <1>0, <1>7, TimesAreNumbers
  <2>2. Timely'
    BY <1>0, <1>1, <1>7, <2>1, StampTimely
  <2>3. QED
    BY <1>4, <1>5, <2>2 DEF Plan, InTime
<1>8. QED
  BY <1>0, <1>6, <1>7

(* The calls that add nothing to the agenda and date what they raise with  *)
(* the clock, or with the later wall clock.                                *)
LEMMA LastCallPlan ==
  ASSUME Plan, agenda # <<>>, Head(agenda) \notin {"grace", "reclaimed"}, Then(<<>>),
         UNCHANGED control,
         (\E now \in {clock, Wall} : Stamp(now, {})) \/ UNCHANGED <<prompt, raisedAt>>
  PROVE  Plan'
<1>0. /\ SessionTypes /\ agenda \in Seq(Entry) /\ scenario \in Scenarios
      /\ raisedAt \in [GPUs -> Times] /\ clock \in 0..Horizon
  BY InProgress DEF Plan
<1>1. <<>> \in Seq(Entry) /\ Len(<<>>) = 0 /\ \A i \in 1..Len(<<>>) : FALSE
  OBVIOUS
<1>2. SameSession /\ next' = next /\ clock' = clock /\ (Due => Due')
  BY DEF control, SameSession, Due
<1>3. raisedAt' \in [GPUs -> Times] /\ (Timely => Timely')
  <2>1. ASSUME NEW now \in {clock, Wall}, Stamp(now, {})
        PROVE  raisedAt' \in [GPUs -> Times] /\ (Timely => Timely')
    <3>1. now \in Times /\ clock < now + Grace
      BY <1>0, TimesAreNumbers DEF Times
    <3>2. QED
      BY <1>0, <1>2, <2>1, <3>1, StampTypes, StampTimely
  <2>2. CASE UNCHANGED <<prompt, raisedAt>>
    BY <1>0, <1>2, <2>2 DEF Timely
  <2>3. QED
    BY <2>1, <2>2
<1>4. SessionTypes'
  <2>1. agenda' \in Seq(Entry)
    BY <1>0, <1>1, ThenShape
  <2>2. QED
    BY <1>0, <1>2, <1>3, <2>1, SameSessionTypes
<1>5. Ordered'
  BY <1>0, <1>1, <1>2, ThenOrdered DEF Plan
<1>6. InTime'
  BY <1>1, <1>2, <1>3, CallInTime
<1>7. QED
  BY <1>4, <1>5, <1>6 DEF Plan

(* A GPU taken back calls for another look; when none is overdue all       *)
(* prompts are in time.                                                    *)
LEMMA GracePlan ==
  ASSUME Plan, TakeOverdue \/ NoneOverdue
  PROVE  Plan'
<1>0. /\ Head(agenda) \in {"grace", "reclaimed"} /\ agenda # <<>>
      /\ SessionTypes /\ agenda \in Seq(Entry) /\ scenario \in Scenarios
      /\ raisedAt \in [GPUs -> Times] /\ clock \in 0..Horizon
  BY InProgress DEF Plan, TakeOverdue, NoneOverdue, Doing
<1>1. SameSession /\ next' = next /\ clock' = clock
  BY DEF TakeOverdue, NoneOverdue, control, SameSession
<1>2. /\ "pass" \in Task /\ "reclaimed" \in Task
      /\ "pass" \notin GPUs /\ "reclaimed" \notin GPUs
  BY SessionAssumption DEF Task
<1>3. ASSUME NEW task \in {"pass", "reclaimed"}
      PROVE  /\ <<task>> \in Seq(Entry) /\ Len(<<task>>) = 1
             /\ \A i \in 1..Len(<<task>>) : <<task>>[i] = task
  <2>1. task \in Entry
    BY <1>2 DEF Entry
  <2>2. QED
    BY <2>1
<1>4. ASSUME NEW tasks \in {<<>>, <<"pass">>, <<"reclaimed">>}, Then(tasks)
      PROVE  /\ tasks \in Seq(Entry) /\ agenda' \in Seq(Entry) /\ Ordered'
             /\ tasks = <<"reclaimed">> => Ahead'
  <2>1. CASE tasks = <<>>
    <3>1. tasks \in Seq(Entry) /\ Len(tasks) = 0 /\ \A i \in 1..Len(tasks) : FALSE
      BY <2>1
    <3>2. tasks # <<"reclaimed">>
      BY <1>3, <3>1
    <3>3. <<>> \in Seq(Entry) /\ Then(<<>>) /\ Len(<<>>) = 0 /\ \A i \in 1..Len(<<>>) : FALSE
      BY <1>4, <2>1
    <3>4. agenda' \in Seq(Entry)
      BY <1>0, <3>3, ThenShape
    <3>5. Ordered'
      BY <1>0, <1>1, <3>3, ThenOrdered DEF Plan
    <3>6. QED
      BY <3>1, <3>2, <3>4, <3>5
  <2>2. CASE \E task \in {"pass", "reclaimed"} : tasks = <<task>>
    <3>1. PICK task \in {"pass", "reclaimed"} : tasks = <<task>>
      BY <2>2
    <3>2. tasks \in Seq(Entry) /\ Len(tasks) = 1 /\ \A i \in 1..Len(tasks) : tasks[i] = task
      BY <1>3, <3>1
    <3>3. agenda' \in Seq(Entry) /\ Ordered'
      BY <1>0, <1>1, <1>2, <1>4, <3>2, ThenShape, ThenOrdered DEF Plan
    <3>4. tasks = <<"reclaimed">> => Ahead'
      <4>1. tasks = <<"reclaimed">> => tasks[1] = "reclaimed" /\ 1 \in 1..Len(tasks)
        BY <3>2
      <4>2. QED
        BY <1>0, <1>4, <3>2, <4>1, ThenAhead
    <3>5. QED
      BY <3>2, <3>3, <3>4
  <2>3. QED
    BY <1>4, <2>1, <2>2
<1>5. CASE TakeOverdue
  <2>1. Stamp(clock, {}) /\ Then(<<"reclaimed">>) /\ clock \in Times
    BY <1>0, <1>5 DEF TakeOverdue, Times
  <2>2. raisedAt' \in [GPUs -> Times] /\ agenda' \in Seq(Entry) /\ Ordered' /\ Ahead'
    BY <1>0, <1>4, <2>1, StampTypes
  <2>3. QED
    BY <1>0, <1>1, <2>2, SameSessionTypes DEF Plan, InTime
<1>6. CASE NoneOverdue
  <2>1. /\ Then(<<"pass">>) \/ Then(<<>>)
        /\ UNCHANGED <<vars, control, raisedAt>>
        /\ \A g \in GPUs : ~TimedOut(g, clock)
    BY <1>6 DEF NoneOverdue
  <2>2. raisedAt' = raisedAt /\ prompt' = prompt
    BY <2>1 DEF vars
  <2>3. Timely'
    <3>1. Timely
      <4>1. clock \in Nat /\ Grace \in Nat /\ \A g \in GPUs : raisedAt[g] \in Nat
        <5>1. Grace \in Nat /\ Times \subseteq Nat /\ 0..Horizon \subseteq Times
          BY TimesAreNumbers DEF Times
        <5>2. QED
          BY <1>0, <5>1
      <4>2. QED
        BY <2>1, <4>1 DEF Timely, TimedOut
    <3>2. QED
      BY <1>1, <2>2, <3>1 DEF Timely
  <2>4. agenda' \in Seq(Entry) /\ Ordered'
    BY <1>4, <2>1
  <2>5. QED
    BY <1>0, <1>1, <2>2, <2>3, <2>4, SameSessionTypes DEF Plan, InTime
<1>7. QED
  BY <1>5, <1>6

(* The readings of a poll and the check that follows them make a list of   *)
(* calls in order.                                                         *)
LEMMA PollTasks ==
  ASSUME NEW seen \in SUBSET GPUs
  PROVE  LET tasks == SetToSeq(seen) \o <<"reclaimed">> IN
         /\ tasks \in Seq(Entry)
         /\ Len(tasks) \in 1..Len(tasks) /\ tasks[Len(tasks)] = "reclaimed"
         /\ \A i \in 1..Len(tasks) :
              /\ tasks[i] \in GPUs \cup {"reclaimed"}
              /\ tasks[i] \in GPUs => i < Len(tasks) /\ tasks[i + 1] \in GPUs \cup {"reclaimed"}
<1> DEFINE readings == SetToSeq(seen)
           tasks == readings \o <<"reclaimed">>
<1>1. readings \in Seq(GPUs)
  BY ReadingsAreGpus
<1>2. "reclaimed" \in Task /\ "reclaimed" \notin GPUs
  BY SessionAssumption DEF Task
<1>3. /\ GPUs \subseteq Entry /\ "reclaimed" \in Entry
  BY <1>2 DEF Entry
<1> HIDE DEF readings
<1>4. readings \in Seq(Entry) /\ <<"reclaimed">> \in Seq(Entry)
  BY <1>1, <1>3
<1>5. Len(<<"reclaimed">>) = 1 /\ <<"reclaimed">>[1] = "reclaimed" /\ Len(readings) \in Nat
  BY <1>1
<1>6. /\ tasks \in Seq(Entry)
      /\ Len(tasks) = Len(readings) + 1
      /\ \A i \in 1..Len(readings) + 1 :
           tasks[i] = IF i <= Len(readings) THEN readings[i] ELSE <<"reclaimed">>[i - Len(readings)]
  BY <1>4, <1>5, ConcatProperties
<1> HIDE DEF tasks
<1>7. ASSUME NEW i \in 1..Len(tasks)
      PROVE  tasks[i] = IF i <= Len(readings) THEN readings[i] ELSE "reclaimed"
  <2>1. i \in 1..Len(readings) + 1
    BY <1>6
  <2>2. ~ (i <= Len(readings)) => i - Len(readings) = 1
    BY <1>5, <2>1
  <2>3. QED
    BY <1>5, <1>6, <2>1, <2>2
<1>8. \A i \in 1..Len(readings) : readings[i] \in GPUs
  BY <1>1, ElementOfSeq
<1>9. Len(tasks) \in 1..Len(tasks) /\ tasks[Len(tasks)] = "reclaimed"
  <2>1. Len(tasks) \in 1..Len(tasks) /\ ~ (Len(tasks) <= Len(readings))
    BY <1>5, <1>6
  <2>2. QED
    BY <1>7, <2>1
<1>10. ASSUME NEW i \in 1..Len(tasks) PROVE tasks[i] \in GPUs \cup {"reclaimed"}
  <2>1. i <= Len(readings) => i \in 1..Len(readings)
    BY <1>5, <1>6
  <2>2. QED
    BY <1>7, <1>8, <2>1
<1>11. ASSUME NEW i \in 1..Len(tasks), tasks[i] \in GPUs
       PROVE  i < Len(tasks) /\ tasks[i + 1] \in GPUs \cup {"reclaimed"}
  <2>1. i # Len(tasks)
    BY <1>2, <1>9, <1>11
  <2>2. i < Len(tasks) /\ i + 1 \in 1..Len(tasks)
    BY <1>5, <1>6, <2>1
  <2>3. QED
    BY <1>10, <2>2
<1>12. QED
  BY <1>6, <1>9, <1>10, <1>11 DEF tasks, readings

(* The poll: the readings, then the timeouts; or nothing; or the end of    *)
(* the tick, when the timeouts of simulated time are already checked.      *)
LEMMA PollPlan ==
  ASSUME Plan, Poll
  PROVE  Plan'
<1>0. /\ Head(agenda) = "poll" /\ agenda # <<>> /\ Doing("poll")
      /\ SessionTypes /\ agenda \in Seq(Entry) /\ scenario \in Scenarios
      /\ raisedAt \in [GPUs -> Times] /\ clock \in 0..Horizon
      /\ UNCHANGED <<vars, control, raisedAt>>
  BY InProgress DEF Plan, Poll, Doing
<1>1. SameSession /\ next' = next /\ clock' = clock /\ prompt' = prompt /\ raisedAt' = raisedAt
      /\ (Due => Due') /\ (Timely => Timely')
  BY <1>0 DEF control, vars, SameSession, Due, Timely
<1>2. CASE Then(<<>>)
  BY <1>0, <1>1, <1>2, LastCallPlan
<1>3. CASE \E seen \in SUBSET GPUs : Then(SetToSeq(seen) \o <<"reclaimed">>)
  <2>1. PICK seen \in SUBSET GPUs : Then(SetToSeq(seen) \o <<"reclaimed">>)
    BY <1>3
  <2> DEFINE tasks == SetToSeq(seen) \o <<"reclaimed">>
  <2>2. /\ tasks \in Seq(Entry)
        /\ Len(tasks) \in 1..Len(tasks) /\ tasks[Len(tasks)] = "reclaimed"
        /\ \A i \in 1..Len(tasks) :
             /\ tasks[i] \in GPUs \cup {"reclaimed"}
             /\ tasks[i] \in GPUs => i < Len(tasks) /\ tasks[i + 1] \in GPUs \cup {"reclaimed"}
    BY PollTasks
  <2>3. Then(tasks)
    BY <2>1
  <2> HIDE DEF tasks
  <2>4. GPUs \cap {"script", "scriptPass", "poll"} = {}
    BY SessionAssumption DEF Task
  <2>5. agenda' \in Seq(Entry) /\ Ahead'
    BY <1>0, <2>2, <2>3, ThenShape, ThenAhead
  <2>6. \A i \in 1..Len(tasks) : tasks[i] \notin {"script", "scriptPass", "poll"}
    BY <2>2, <2>4
  <2>7. Ordered'
    BY <1>0, <1>1, <2>2, <2>3, <2>6, ThenOrdered DEF Plan
  <2>8. QED
    BY <1>0, <1>1, <2>5, <2>7, SameSessionTypes DEF Plan, InTime
<1>4. CASE agenda' = <<>>
  <2>1. ~Ahead
    <3>1. Len(agenda) \in Nat \ {0} /\ agenda[1] = "poll"
      BY <1>0, EmptySeq, LenProperties
    <3>2. 1 \in 1..Len(agenda) /\ \A k \in 1 + 1..Len(agenda) : agenda[k] = "estimates"
      BY <3>1 DEF Plan, Ordered
    <3>3. \A k \in 1..Len(agenda) : k = 1 \/ k \in 1 + 1..Len(agenda)
      BY <3>1
    <3>4. QED
      BY <3>1, <3>2, <3>3 DEF Ahead
  <2>2. agenda' \in Seq(Entry) /\ Ordered' /\ ~Scripted'
    BY <1>4, ShortAgenda
  <2>3. InTime'
    BY <1>1, <2>1, <2>2 DEF Plan, InTime
  <2>4. QED
    BY <1>0, <1>1, <2>2, <2>3, SameSessionTypes DEF Plan
<1>5. QED
  BY <1>2, <1>3, <1>4 DEF Poll

(* Every call keeps the plan.                                              *)
LEMMA WorkPlan ==
  ASSUME Plan, Work
  PROVE  Plan'
<1>1. CASE RunScript \/ ScriptPass
  BY <1>1, RunScriptPlan, ScriptPassPlan
<1>2. CASE TakeOverdue \/ NoneOverdue
  BY <1>2, GracePlan
<1>3. CASE Poll
  BY <1>3, PollPlan
<1>4. CASE ScriptPause
  BY <1>4, LastCallPlan DEF ScriptPause, Doing, vars
<1>5. CASE Pass
  BY <1>5, LastCallPlan DEF Pass, Doing
<1>6. CASE AskOverdueJobs
  BY <1>6, LastCallPlan DEF AskOverdueJobs, Doing
<1>7. CASE FeedMetrics
  <2>1. {"grace", "reclaimed"} \cap GPUs = {}
    BY SessionAssumption DEF Task
  <2>2. QED
    BY <1>7, <2>1, LastCallPlan DEF FeedMetrics
<1>8. QED
  BY <1>1, <1>2, <1>3, <1>4, <1>5, <1>6, <1>7 DEF Work

(* A handler raises what it raises now, and owes no call but a pass.       *)
LEMMA HandlerPlan ==
  ASSUME Plan, AHandler
  PROVE  Plan'
<1>0. /\ SessionTypes /\ Idle /\ scenario \in Scenarios
      /\ raisedAt \in [GPUs -> Times] /\ clock \in 0..Horizon /\ clock \in Times
  BY HandlerIsNext DEF Plan, SessionTypes, Idle, Times
<1>1. /\ UNCHANGED control
      /\ agenda' \in {<<>>, <<"pass">>}
  BY <1>0, HandlerIsNext
<1>2. PICK replaced : Stamp(clock, replaced)
  BY <1>0, HandlerIsNext
<1>3. SameSession /\ next' = next /\ clock' = clock /\ (Due => Due')
  BY <1>1 DEF control, SameSession, Due
<1>4. raisedAt' \in [GPUs -> Times] /\ (Timely => Timely')
  <2>1. clock < clock + Grace
    BY <1>0, TimesAreNumbers
  <2>2. QED
    BY <1>0, <1>2, <1>3, <2>1, StampTypes, StampTimely
<1>5. agenda' \in Seq(Entry) /\ Ordered' /\ ~Scripted'
  BY <1>1, ShortAgenda
<1>6. ~Ahead
  BY <1>0 DEF Idle, Ahead
<1>7. InTime'
  BY <1>3, <1>4, <1>5, <1>6 DEF Plan, InTime
<1>8. QED
  BY <1>0, <1>3, <1>4, <1>5, <1>7, SameSessionTypes DEF Plan

(* A tick has the script before it, then the timeouts, the hardware and    *)
(* the estimates.                                                          *)
LEMMA TickTasks ==
  LET tasks == <<"script", "grace">> \o Polls \o <<"estimates">> IN
  /\ tasks \in Seq(Entry)
  /\ Len(tasks) \in {3, 4}
  /\ tasks[1] = "script" /\ tasks[2] = "grace"
  /\ tasks[3] \in {"poll", "estimates"}
  /\ Len(tasks) = 4 => tasks[4] = "estimates"
<1> DEFINE first == <<"script", "grace">>
           last == <<"estimates">>
           most == first \o Polls
           tasks == most \o last
<1>1. {"script", "grace", "poll", "estimates"} \subseteq Entry
  BY DEF Task, Entry
<1>2. /\ first \in Seq(Entry) /\ Len(first) = 2 /\ first[1] = "script" /\ first[2] = "grace"
      /\ last \in Seq(Entry) /\ Len(last) = 1 /\ last[1] = "estimates"
  BY <1>1
<1>3. /\ Polls \in Seq(Entry) /\ Len(Polls) \in {0, 1}
      /\ Len(Polls) = 1 => Polls[1] = "poll"
  <2>1. <<>> \in Seq(Entry) /\ Len(<<>>) = 0
    OBVIOUS
  <2>2. <<"poll">> \in Seq(Entry) /\ Len(<<"poll">>) = 1 /\ <<"poll">>[1] = "poll"
    BY <1>1
  <2>3. QED
    BY <2>1, <2>2 DEF Polls
<1> HIDE DEF first, last
<1>4. /\ most \in Seq(Entry) /\ Len(most) = Len(first) + Len(Polls)
      /\ \A i \in 1..Len(first) + Len(Polls) :
           most[i] = IF i <= Len(first) THEN first[i] ELSE Polls[i - Len(first)]
  BY <1>2, <1>3, ConcatProperties
<1> HIDE DEF most
<1>5. most \in Seq(Entry) /\ last \in Seq(Entry)
  BY <1>2, <1>4
<1>6. /\ tasks \in Seq(Entry) /\ Len(tasks) = Len(most) + Len(last)
      /\ \A i \in 1..Len(most) + Len(last) :
           tasks[i] = IF i <= Len(most) THEN most[i] ELSE last[i - Len(most)]
  BY <1>5, ConcatProperties
<1> HIDE DEF tasks
<1>7. most[1] = "script" /\ most[2] = "grace" /\ (Len(Polls) = 1 => most[3] = "poll")
  <2>1. /\ 1 \in 1..Len(first) + Len(Polls) /\ 2 \in 1..Len(first) + Len(Polls)
        /\ Len(Polls) = 1 => 3 \in 1..Len(first) + Len(Polls)
    BY <1>2, <1>3
  <2>2. most[1] = first[1] /\ most[2] = first[2] /\ (Len(Polls) = 1 => most[3] = Polls[3 - 2])
    BY <1>2, <1>4, <2>1
  <2>3. QED
    BY <1>2, <1>3, <2>2
<1>8. Len(tasks) = 3 + Len(Polls)
  BY <1>2, <1>3, <1>4, <1>6
<1>9. tasks[1] = most[1] /\ tasks[2] = most[2]
  <2>1. 1 \in 1..Len(most) + Len(last) /\ 2 \in 1..Len(most) + Len(last) /\ 2 <= Len(most)
    BY <1>2, <1>3, <1>4
  <2>2. QED
    BY <1>4, <1>6, <2>1
<1>10. CASE Len(Polls) = 0
  <2>1. 3 \in 1..Len(most) + Len(last) /\ ~ (3 <= Len(most)) /\ 3 - Len(most) = 1
    BY <1>2, <1>4, <1>10
  <2>2. tasks[3] = last[1]
    BY <1>6, <2>1
  <2>3. QED
    BY <1>2, <1>6, <1>7, <1>8, <1>9, <1>10, <2>2 DEF tasks, most, first, last
<1>11. CASE Len(Polls) = 1
  <2>1. /\ 3 \in 1..Len(most) + Len(last) /\ 3 <= Len(most)
        /\ 4 \in 1..Len(most) + Len(last) /\ ~ (4 <= Len(most)) /\ 4 - Len(most) = 1
    BY <1>2, <1>4, <1>11
  <2>2. tasks[3] = most[3] /\ tasks[4] = last[1]
    BY <1>6, <2>1
  <2>3. QED
    BY <1>2, <1>6, <1>7, <1>8, <1>9, <1>11, <2>2 DEF tasks, most, first, last
<1>12. QED
  BY <1>3, <1>10, <1>11

(* A tick keeps the plan: the timeouts are checked after the script.       *)
LEMMA AdvancePlan ==
  ASSUME Plan, Idle, NEW k \in Strides, Advance(k)
  PROVE  Plan'
<1>0. SessionTypes /\ scenario \in Scenarios /\ clock \in 0..Horizon
  BY DEF Plan, SessionTypes, Idle
<1>1. UNCHANGED <<vars, scenario, running, next, poller, raisedAt>> /\ clock' = Later(k)
  BY DEF Advance
<1>3. clock' \in 0..Horizon
  <2>1. k \in Nat /\ Horizon \in Nat
    BY SessionAssumption
  <2>2. QED
    BY <1>0, <1>1, <2>1 DEF Later
<1>4. /\ {"script", "grace", "poll", "estimates"} \subseteq Entry
      /\ {"script", "grace", "poll", "estimates"} \cap GPUs = {}
  BY SessionAssumption DEF Task, Entry
<1>5. /\ agenda' \in Seq(Entry)
      /\ Len(agenda') \in {3, 4}
      /\ agenda'[1] = "script" /\ agenda'[2] = "grace"
      /\ agenda'[3] \in {"poll", "estimates"}
      /\ Len(agenda') = 4 => agenda'[4] = "estimates"
  BY TickTasks DEF Advance
<1>6. Ahead'
  BY <1>5 DEF Ahead
<1>7. Ordered'
  <2> DEFINE n == Len(agenda')
  <2>0. n \in {3, 4}
    BY <1>5
  <2> HIDE DEF n
  <2>1. \A i \in 1..n : i = 1 \/ i = 2 \/ i = 3 \/ (i = 4 /\ n = 4)
    BY <2>0
  <2>2. \A m \in 4..n : m = 4 /\ n = 4
    BY <2>0
  <2> USE DEF n
  <2> SUFFICES ASSUME NEW i \in 1..Len(agenda')
               PROVE  /\ agenda'[i] \notin GPUs /\ agenda'[i] # "scriptPass"
                      /\ agenda'[i] = "script" => \E m \in i + 1..Len(agenda') : agenda'[m] = "grace"
                      /\ agenda'[i] = "poll" => \A m \in i + 1..Len(agenda') : agenda'[m] = "estimates"
    BY DEF Ordered
  <2>3. i = 1 \/ i = 2 \/ i = 3 \/ (i = 4 /\ Len(agenda') = 4)
    BY <2>1
  <2>4. CASE i = 1
    <3>1. agenda'[i] = "script" /\ agenda'[2] = "grace" /\ 2 \in i + 1..Len(agenda')
      BY <1>5, <2>4
    <3>2. QED
      BY <1>4, <3>1
  <2>5. CASE i = 2
    <3>1. agenda'[i] = "grace"
      BY <1>5, <2>5
    <3>2. QED
      BY <1>4, <3>1
  <2>6. CASE i = 3
    <3>1. agenda'[i] \in {"poll", "estimates"}
      BY <1>5, <2>6
    <3>2. ASSUME NEW m \in i + 1..Len(agenda') PROVE agenda'[m] = "estimates"
      <4>1. m = 4 /\ Len(agenda') = 4
        <5>1. m \in 4..Len(agenda')
          BY <2>6
        <5>2. QED
          BY <2>2, <5>1
      <4>2. QED
        BY <1>5, <4>1
    <3>3. QED
      BY <1>4, <3>1, <3>2
  <2>7. CASE i = 4
    <3>1. agenda'[i] = "estimates"
      BY <1>5, <2>3, <2>7
    <3>2. QED
      BY <1>4, <3>1
  <2>8. QED
    BY <2>3, <2>4, <2>5, <2>6, <2>7
<1>8. SessionTypes'
  <2>1. scenario' \in Scenarios /\ scenario' # NoScenario
    BY <1>0, <1>1, SessionAssumption
  <2>2. QED
    BY <1>0, <1>1, <1>3, <1>5, <2>1 DEF SessionTypes
<1>9. QED
  BY <1>6, <1>7, <1>8 DEF Plan, InTime

(* The tick, the switches and the end of a cooldown keep the plan.         *)
LEMMA ControlPlan ==
  ASSUME Plan, AControl
  PROVE  Plan'
<1>1. CASE \E k \in Strides : Step(k) \/ BackgroundTick(k)
  BY <1>1, AdvancePlan DEF Step, BackgroundTick
<1>2. CASE (\E on \in BOOLEAN : StartOrPause(on)) \/ EnableRealHardware \/ DisableRealHardware
           \/ CooldownOver
  <2>1. Idle /\ scenario # NoScenario
    BY <1>2 DEF StartOrPause, EnableRealHardware, DisableRealHardware, CooldownOver, Idle
  <2>2. /\ UNCHANGED <<scenario, clock, next, raisedAt, agenda, prompt>>
        /\ running' \in {running} \cup BOOLEAN
        /\ poller' \in {poller, "live", "none"}
    <3>1. \A g \in GPUs : CooldownEnds(g) => prompt' = prompt
      BY WorldFields DEF CooldownEnds, Become, World
    <3>2. QED
      BY <1>2, <3>1 DEF StartOrPause, EnableRealHardware, DisableRealHardware, CooldownOver, control, vars
  <2>3. SessionTypes'
    BY <2>1, <2>2 DEF Plan, SessionTypes
  <2>4. Ordered'
    BY <2>2 DEF Plan, Ordered, Due
  <2>5. InTime'
    BY <2>2 DEF Plan, InTime, Ahead, Timely, Due, Scripted
  <2>6. QED
    BY <2>3, <2>4, <2>5 DEF Plan
<1>3. QED
  BY <1>1, <1>2 DEF AControl

(* A load starts at time zero, with no prompt.                             *)
LEMMA BootPlan ==
  ASSUME Plan, NEW s \in Scenarios, BootInto(s)
  PROVE  Plan'
<1>1. /\ scenario' = s /\ running' = FALSE /\ clock' = 0 /\ next' = 1
      /\ poller' \in {"none", "stale"}
      /\ raisedAt' = [g \in GPUs |-> 0]
      /\ agenda' = <<"pass", "script">>
      /\ prompt' = [g \in GPUs |-> NoPrompt]
  BY DEF BootInto, Become, Boot
<1>2. "pass" \in Entry /\ "script" \in Entry /\ "pass" \notin GPUs /\ "script" \notin GPUs
  BY SessionAssumption DEF Task, Entry
<1>3. /\ agenda' \in Seq(Entry) /\ Len(agenda') = 2
      /\ agenda'[1] = "pass" /\ agenda'[2] = "script"
  BY <1>1, <1>2
<1>4. SessionTypes'
  <2>1. s # NoScenario /\ 0 \in 0..Horizon /\ 1 \in 1..Len(s.script) + 1
    BY SessionAssumption
  <2>2. raisedAt' \in [GPUs -> Times]
    BY <1>1, TimesAreNumbers
  <2>3. QED
    BY <1>1, <1>3, <2>1, <2>2 DEF SessionTypes, Times
<1>5. Ordered'
  <2>1. \A i \in 1..2 : i = 1 \/ i = 2
    OBVIOUS
  <2>2. \A i \in 1..Len(agenda') : agenda'[i] \in {"pass", "script"}
    BY <1>3, <2>1
  <2>3. \A i \in 1..Len(agenda') : agenda'[i] \notin GPUs \cup {"scriptPass", "poll"}
    BY <1>2, <2>2
  <2>4. QED
    BY <1>1, <2>3 DEF Ordered
<1>6. Timely'
  BY <1>1 DEF Timely
<1>7. QED
  BY <1>4, <1>5, <1>6 DEF Plan, InTime

-----------------------------------------------------------------------------
(* The invariants.                                                         *)

(* Before the first load there is nothing to do and no prompt.             *)
LEMMA InitSInv ==
  ASSUME SessionInit
  PROVE  SInv
<1>1. IInv
  BY InitIInv DEF SessionInit
<1>2. SessionTypes
  <2>1. /\ scenario = NoScenario /\ running = FALSE /\ clock = 0 /\ next = 1 /\ poller = "none"
        /\ raisedAt = [g \in GPUs |-> 0] /\ agenda = <<>> /\ \A g \in GPUs : prompt[g] = NoPrompt
    BY DEF SessionInit, Init
  <2>2. raisedAt \in [GPUs -> Times] /\ clock \in 0..Horizon
    BY <2>1, TimesAreNumbers
  <2>3. agenda \in Seq(Entry)
    BY <2>1
  <2>4. QED
    BY <2>1, <2>2, <2>3 DEF SessionTypes, Times
<1>3. Ordered
  BY DEF SessionInit, Ordered
<1>4. InTime
  BY DEF SessionInit, Init, InTime, Timely
<1>5. QED
  BY <1>1, <1>2, <1>3, <1>4 DEF SInv, Plan

(* Every step of a session keeps the invariant.                            *)
LEMMA NextSInv ==
  ASSUME SInv, [SessionNext]_sessionVars
  PROVE  SInv'
<1>0. IInv /\ Plan /\ SessionTypes
  BY DEF SInv, Plan
<1>1. IInv'
  BY <1>0, StepIInv
<1>2. CASE UNCHANGED sessionVars
  <2>1. UNCHANGED <<scenario, running, clock, next, poller, raisedAt, agenda, prompt>>
    BY <1>2 DEF sessionVars, vars, control
  <2>2. Plan'
    BY <1>0, <2>1 DEF Plan, SessionTypes, Ordered, InTime, Ahead, Scripted, Timely, Due
  <2>3. QED
    BY <1>1, <2>2 DEF SInv
<1>3. Plan'
  BY <1>0, <1>2, SessionSteps, WorkPlan, HandlerPlan, ControlPlan, BootPlan DEF Boots, SInv
<1>4. QED
  BY <1>1, <1>3 DEF SInv

(* The invariant holds in every session: the calls of a tick come in their *)
(* order, whatever handlers, exceptions and loads came before.             *)
THEOREM SessionInvariance == SessionSpec => []SInv
<1>1. SessionInit => SInv
  BY InitSInv
<1>2. SInv /\ [SessionNext]_sessionVars => SInv'
  BY NextSInv
<1>3. QED
  BY <1>1, <1>2, PTL DEF SessionSpec

(* The variables of the session have their types, and the index of the     *)
(* script stays in the script.                                             *)
THEOREM SessionTypeCorrect == SessionSpec => []SessionTypeOK
<1>1. SInv => SessionTypeOK
  <2> SUFFICES ASSUME SessionTypes PROVE SessionTypeOK
    BY DEF SInv, Plan
  <2>1. CASE scenario = NoScenario
    <3>1. next \in 1..1
      BY <2>1 DEF SessionTypes
    <3>2. QED
      BY <2>1, <3>1 DEF SessionTypes, SessionTypeOK, Entry
  <2>2. CASE scenario # NoScenario
    BY <2>2 DEF SessionTypes, SessionTypeOK, Entry
  <2>3. QED
    BY <2>1, <2>2
<1>2. QED
  BY <1>1, SessionInvariance, PTL

(* Between ticks no prompt is older than the grace period, unless the last *)
(* tick broke off in its script.                                           *)
THEOREM NoPromptIsOverdue == SessionSpec => []NoOverduePrompt
<1>1. SInv => NoOverduePrompt
  <2> SUFFICES ASSUME InTime, Idle, ~Due PROVE Timely
    BY DEF SInv, Plan, NoOverduePrompt, Timely
  <2>1. ~Ahead
    BY DEF Idle, Ahead
  <2>2. QED
    BY <2>1 DEF InTime
<1>2. QED
  BY <1>1, SessionInvariance, PTL

(* The invariants of Scheduler hold in a session as well, loads included:  *)
(* types, GPU statuses, prompts addressed to the holder, sizes of jobs and *)
(* the FIFO, and no request where one was refused.                         *)
THEOREM SchedulerSound ==
  SessionSpec => [](TypeOK /\ StatusAgrees /\ PromptIsForHolder /\ JobSizes /\ QueueAgrees /\ NoThrashing)
<1>1. IInv => TypeOK /\ StatusAgrees /\ PromptIsForHolder
  BY DEF IInv, Safe, World, Worlds, Marked, Addressed, TypeOK, StatusAgrees, PromptIsForHolder
<1>2. IInv => JobSizes /\ QueueAgrees
  BY DEF IInv, Orderly, World, Sized, Queued, JobSizes, QueueAgrees
<1>3. IInv => NoThrashing
  BY DEF IInv, Safe, World, Spared, NoThrashing
<1>4. SInv => TypeOK /\ StatusAgrees /\ PromptIsForHolder /\ JobSizes /\ QueueAgrees /\ NoThrashing
  BY <1>1, <1>2, <1>3 DEF SInv
<1>5. QED
  BY <1>4, SessionInvariance, PTL

-----------------------------------------------------------------------------
(* Passes owed and passes made.                                            *)

(* A step that frees no GPU and queues no job leaves the queue served.     *)
LEMMA StillServed ==
  ASSUME Served(World),
         \A g \in GPUs : gpuStatus'[g] = "IDLE" /\ assignedUser'[g] = NoUser
                         => gpuStatus[g] = "IDLE" /\ assignedUser[g] = NoUser,
         \A j \in Jobs : fifo'[j] > 0 /\ jobStatus'[j] = "WAITING"
                         => fifo[j] > 0 /\ jobStatus[j] = "WAITING"
  PROVE  Served(World')
  BY DEF Served, Available, WaitingInFifo, World

(* The operations that need no pass.                                       *)
AQuietStep ==
  \/ \E g \in GPUs : RaisePrompt(g) \/ SetGpuMaintenance(g) \/ CooldownEnds(g)
  \/ \E overdue \in SUBSET Jobs : CheckEstimatedCompletions(overdue)
  \/ \E g \in GPUs : \E j \in Jobs : ManualAssignGpu(g, j, FALSE)
  \/ \E j \in Jobs : CancelJob(j)
  \/ UNCHANGED vars

(* They free no GPU and queue no job.                                      *)
LEMMA QuietServed ==
  ASSUME IInv, Served(World), AQuietStep
  PROVE  Served(World')
<1> USE WorldFields
<1>0. Safe(World) /\ World \in Worlds
  BY DEF IInv, Safe
<1>1. CASE \E g \in GPUs : RaisePrompt(g)
  BY <1>0, <1>1, StillServed DEF RaisePrompt, Raise, Become, Worlds
<1>2. CASE \E g \in GPUs : SetGpuMaintenance(g)
  BY <1>0, <1>2, StillServed DEF SetGpuMaintenance, SetGpuStatus, Become, Worlds
<1>3. CASE \E g \in GPUs : CooldownEnds(g)
  BY <1>0, <1>3, StillServed DEF CooldownEnds, Become, Worlds
<1>4. CASE \E overdue \in SUBSET Jobs : CheckEstimatedCompletions(overdue)
  BY <1>0, <1>4, StillServed DEF CheckEstimatedCompletions, Raise, Become, Worlds
<1>5. CASE \E g \in GPUs : \E j \in Jobs : ManualAssignGpu(g, j, FALSE)
  <2>1. PICK g \in GPUs, j \in Jobs : ManualAssignGpu(g, j, FALSE)
    BY <1>5
  <2> DEFINE w == Submitted(World, j, FALSE)
             plan == [h \in {g} |-> j]
  <2>2. /\ w \in Worlds /\ w.gpuStatus = gpuStatus /\ w.assignedUser = assignedUser
        /\ w.jobStatus = [jobStatus EXCEPT ![j] = "WAITING"]
        /\ \A k \in Jobs \ {j} : w.fifo[k] = fifo[k]
        /\ w.jobGpus = jobGpus
    <3>1. w \in Worlds
      BY <1>0, SubmittedSafe DEF Safe
    <3>2. QED
      BY <1>0, <3>1 DEF Submitted, SetJobStatus, Enqueue, Worlds
  <2>3. j \in Filled(w, plan)
    <3>1. j \in WaitingInFifo(w) /\ StillNeeded(w, j) = 1 /\ w.assignedUser[g] = NoUser
      BY <2>1, SubmittedOrderly DEF IInv, ManualAssignGpu
    <3>2. Given(plan, j) = {g} /\ Count[j] = 1
      BY <2>1 DEF Given, ManualAssignGpu
    <3>3. w.jobGpus[j] = {}
      BY <1>0, <2>1, <2>2 DEF ManualAssignGpu, IInv, Orderly, Sized
    <3>4. Cardinality(w.jobGpus[j] \cup Given(plan, j)) = 1
      <4>1. w.jobGpus[j] \cup Given(plan, j) = {g}
        BY <3>2, <3>3
      <4>2. QED
        BY <4>1, FS_Singleton
    <3>5. QED
      BY <3>2, <3>4 DEF Filled
  <2>4. Become(Assign(w, plan)) /\ DOMAIN plan = {g} /\ plan[g] = j
    BY <2>1 DEF ManualAssignGpu
  <2> HIDE DEF w, plan
  <2>5. /\ gpuStatus' = [h \in GPUs |-> IF h \in DOMAIN plan THEN "ACTIVE" ELSE w.gpuStatus[h]]
        /\ assignedUser' = [h \in GPUs |-> IF h \in DOMAIN plan THEN Owner[plan[h]] ELSE w.assignedUser[h]]
        /\ jobStatus' = [k \in Jobs |-> IF k \in Filled(w, plan) THEN "RUNNING" ELSE w.jobStatus[k]]
        /\ fifo' = [k \in Jobs |-> IF k \in Filled(w, plan) THEN 0 ELSE w.fifo[k]]
    BY <2>2, <2>4 DEF Become, Assign, Worlds
  <2>6. \A h \in GPUs : gpuStatus'[h] = "IDLE" => gpuStatus[h] = "IDLE" /\ assignedUser'[h] = assignedUser[h]
    BY <2>2, <2>4, <2>5
  <2>7. \A k \in Jobs : jobStatus'[k] = "WAITING" =>
          k # j /\ jobStatus[k] = "WAITING" /\ fifo'[k] = fifo[k]
    BY <1>0, <2>2, <2>3, <2>5 DEF Worlds
  <2>8. QED
    BY <2>6, <2>7, StillServed
<1>6. CASE \E j \in Jobs : CancelJob(j)
  <2>1. PICK j \in Jobs : CancelJob(j)
    BY <1>6
  <2> DEFINE v == [SetJobStatus(World, j, "CANCELLED") EXCEPT !.fifo[j] = 0]
             r == CancelRequests(v, {j})
  <2>2. Become(r)
    BY <2>1 DEF CancelJob
  <2>3. /\ v \in Worlds /\ v.assignedUser = assignedUser /\ v.gpuStatus = gpuStatus
        /\ v.jobStatus = [jobStatus EXCEPT ![j] = "CANCELLED"]
        /\ v.fifo = [fifo EXCEPT ![j] = 0]
    BY <1>0 DEF SetJobStatus, Worlds, JobStatus
  <2> HIDE DEF v
  <2>4. /\ \A g \in GPUs : r.gpuStatus[g] \in {"ACTIVE", v.gpuStatus[g]}
        /\ r.assignedUser = v.assignedUser /\ r.jobStatus = v.jobStatus /\ r.fifo = v.fifo
    BY <2>3, WithdrawalFrame
  <2> HIDE DEF r
  <2>5. /\ gpuStatus' = r.gpuStatus /\ assignedUser' = r.assignedUser
        /\ jobStatus' = r.jobStatus /\ fifo' = r.fifo
    BY <2>2 DEF Become
  <2>6. \A g \in GPUs : gpuStatus'[g] = "IDLE" => gpuStatus[g] = "IDLE"
    BY <2>3, <2>4, <2>5
  <2>7. \A k \in Jobs : jobStatus'[k] = "WAITING" => jobStatus[k] = "WAITING" /\ fifo'[k] = fifo[k]
    BY <1>0, <2>3, <2>4, <2>5 DEF Worlds
  <2>8. QED
    BY <2>3, <2>4, <2>5, <2>6, <2>7, StillServed
<1>7. CASE UNCHANGED vars
  BY <1>7, StillServed DEF vars
<1>8. QED
  BY <1>1, <1>2, <1>3, <1>4, <1>5, <1>6, <1>7 DEF AQuietStep

(* So does an operation that ends with its own pass.                       *)
LEMMA PassingServed ==
  ASSUME IInv, APass
  PROVE  Served(World')
  BY PassStart, PassServed DEF StartsFrom

(* What a list of calls that starts with a pass, or leads to one, owes.    *)
LEMMA PassIsOwed ==
  ASSUME agenda \in Seq(Entry), agenda # <<>>,
         NEW tasks \in {<<"scriptPass", "script">>, <<"reclaimed">>, <<"pass">>}, Then(tasks)
  PROVE  PassOwed'
<1>1. {"scriptPass", "script", "reclaimed", "pass"} \subseteq Entry
  BY DEF Task, Entry
<1>2. /\ tasks \in Seq(Entry) /\ Len(tasks) \in {1, 2}
      /\ tasks[1] \in {"scriptPass", "reclaimed", "pass"}
  <2>1. <<"scriptPass", "script">> \in Seq(Entry) /\ <<"reclaimed">> \in Seq(Entry) /\ <<"pass">> \in Seq(Entry)
    BY <1>1
  <2>2. CASE tasks = <<"scriptPass", "script">>
    BY <2>1, <2>2
  <2>3. CASE tasks = <<"reclaimed">>
    BY <2>1, <2>3
  <2>4. CASE tasks = <<"pass">>
    BY <2>1, <2>4
  <2>5. QED
    BY <2>2, <2>3, <2>4
<1>3. agenda' \in Seq(Entry) /\ Len(agenda') >= 1 /\ agenda'[1] = tasks[1]
  <2>1. /\ agenda' \in Seq(Entry)
        /\ Len(agenda') = Len(tasks) + Len(agenda) - 1 /\ Len(agenda) \in Nat \ {0}
        /\ \A i \in 1..Len(tasks) : agenda'[i] = tasks[i]
    <3>1. tasks \in Seq(Entry)
      BY <1>2
    <3>2. QED
      BY <3>1, ThenShape
  <2>2. 1 \in 1..Len(tasks)
    BY <1>2
  <2>3. QED
    BY <1>2, <2>1, <2>2
<1>4. agenda' # <<>> /\ Head(agenda') = agenda'[1]
  BY <1>3, EmptySeq
<1>5. QED
  BY <1>2, <1>3, <1>4 DEF PassOwed

(* After a reading of hardware another one follows, or the timeouts.       *)
LEMMA ReadingsOwe ==
  ASSUME Plan, agenda # <<>>, Head(agenda) \in GPUs, Then(<<>>)
  PROVE  PassOwed'
<1>1. agenda \in Seq(Entry) /\ Len(agenda) \in Nat \ {0} /\ Head(agenda) = agenda[1]
  <2>1. agenda \in Seq(Entry)
    BY DEF Plan, SessionTypes
  <2>2. QED
    BY <2>1, EmptySeq, LenProperties
<1>2. 1 < Len(agenda) /\ agenda[2] \in GPUs \cup {"reclaimed"}
  <2>1. 1 \in 1..Len(agenda) /\ agenda[1] \in GPUs
    BY <1>1
  <2>2. 1 < Len(agenda) /\ agenda[1 + 1] \in GPUs \cup {"reclaimed"}
    BY <2>1 DEF Plan, Ordered
  <2>3. QED
    BY <2>2
<1>3. <<>> \in Seq(Entry) /\ Len(<<>>) = 0
  OBVIOUS
<1>4. agenda' \in Seq(Entry) /\ Len(agenda') >= 1 /\ agenda'[1] = agenda[2]
  <2>1. 2 \in 2..Len(agenda) /\ 2 + 0 - 1 = 1
    BY <1>1, <1>2
  <2>2. /\ agenda' \in Seq(Entry) /\ Len(agenda') \in Nat
        /\ \A k \in 2..Len(agenda) : /\ k + Len(<<>>) - 1 \in 1..Len(agenda')
                                     /\ agenda'[k + Len(<<>>) - 1] = agenda[k]
    BY <1>1, <1>3, ThenShape
  <2>3. 2 + Len(<<>>) - 1 = 1
    BY <1>3
  <2>4. 1 \in 1..Len(agenda') /\ agenda'[1] = agenda[2]
    BY <2>1, <2>2, <2>3
  <2>5. QED
    BY <2>2, <2>4
<1>5. agenda' # <<>> /\ Head(agenda') = agenda'[1]
  BY <1>4, EmptySeq
<1>6. agenda'[1] \notin {"script", "grace", "poll", "estimates"}
  BY <1>2, <1>4, SessionAssumption DEF Task
<1>7. QED
  BY <1>5, <1>6 DEF PassOwed

(* A call leaves the queue served, or a pass to come, unless it is a late  *)
(* reading of the script.                                                  *)
LEMMA WorkInHand ==
  ASSUME SInv, InHand, Work, ~LateReading
  PROVE  InHand'
<1>0. IInv /\ Plan /\ SessionTypes /\ agenda \in Seq(Entry)
  BY DEF SInv, Plan, SessionTypes
<1>1. ASSUME agenda # <<>>, Head(agenda) \in {"script", "grace", "poll", "estimates"}
      PROVE  Served(World)
  BY <1>1 DEF InHand, PassOwed
<1>2. CASE RunScript
  <2> DEFINE act == scenario.script[next]
  <2>1. Doing("script") /\ Due /\ agenda # <<>> /\ Served(World)
    BY <1>1, <1>2 DEF RunScript, Doing
  <2>2. CASE Then(<<"scriptPass", "script">>)
    BY <1>0, <2>1, <2>2, PassIsOwed DEF InHand
  <2>3. CASE act.do = "reading" /\ RecordUtilization(act.of, act.at)
    <3>1. act.of \in GPUs
      BY <1>0, <2>1, <2>3, ScriptedAct DEF ScriptAction
    <3>2. RaisePrompt(act.of) \/ UNCHANGED vars
      BY <2>1, <2>3 DEF LateReading, RecordUtilization
    <3>3. AQuietStep
      BY <3>1, <3>2 DEF AQuietStep
    <3>4. QED
      BY <1>0, <2>1, <3>3, QuietServed DEF InHand
  <2>4. CASE UNCHANGED vars
    BY <1>0, <2>1, <2>4, QuietServed DEF InHand, AQuietStep
  <2>5. QED
    BY <1>2, <2>2, <2>3, <2>4 DEF RunScript
<1>3. CASE ScriptPass \/ Pass
  BY <1>0, <1>3, PassingServed DEF ScriptPass, Pass, APass, InHand
<1>4. CASE ScriptPause \/ Poll
  <2>1. Served(World) /\ UNCHANGED vars
    BY <1>1, <1>4 DEF ScriptPause, Poll, Doing
  <2>2. QED
    BY <1>0, <2>1, QuietServed DEF InHand, AQuietStep
<1>5. CASE TakeOverdue
  BY <1>0, <1>5, PassIsOwed DEF TakeOverdue, Doing, InHand
<1>6. CASE NoneOverdue
  <2>1. CASE Doing("reclaimed")
    BY <1>0, <1>6, <2>1, PassIsOwed DEF NoneOverdue, Doing, InHand
  <2>2. CASE Doing("grace")
    <3>1. Served(World) /\ UNCHANGED vars
      BY <1>1, <1>6, <2>2 DEF NoneOverdue, Doing
    <3>2. QED
      BY <1>0, <3>1, QuietServed DEF InHand, AQuietStep
  <2>3. QED
    BY <1>6, <2>1, <2>2 DEF NoneOverdue
<1>7. CASE FeedMetrics
  BY <1>0, <1>7, ReadingsOwe DEF FeedMetrics, InHand
<1>8. CASE AskOverdueJobs
  <2>1. Served(World) /\ AQuietStep
    BY <1>1, <1>8 DEF AskOverdueJobs, Doing, AQuietStep
  <2>2. QED
    BY <1>0, <2>1, QuietServed DEF InHand
<1>9. QED
  BY <1>2, <1>3, <1>4, <1>5, <1>6, <1>7, <1>8 DEF Work

(* A handler ends with its pass, or asks for one, or needs none.           *)
LEMMA HandlerInHand ==
  ASSUME SInv, InHand, AHandler
  PROVE  InHand'
<1>0. IInv /\ Plan /\ SessionTypes /\ Idle /\ agenda = <<>>
  BY HandlerIsNext DEF SInv, Plan, Idle
<1>1. Served(World)
  BY <1>0 DEF InHand, PassOwed
<1>2. ASSUME agenda' = <<"pass">> PROVE InHand'
  BY <1>2 DEF InHand, PassOwed
<1>3. CASE \E g \in GPUs : RespondToPrompt(g)
  BY <1>2, <1>3 DEF RespondToPrompt, Handle
<1>4. CASE \E j \in Jobs : SubmitUserRequest(j)
  BY <1>2, <1>4 DEF SubmitUserRequest, Handle
<1>5. CASE Administer
  <2>0. /\ \A g \in Parked[scenario] : g \in GPUs
        /\ \A j \in OnDemand : j \in Jobs
    <3>1. scenario \in Scenarios
      BY <1>0 DEF Idle, SessionTypes
    <3>2. QED
      BY <3>1, SessionAssumption
  <2>1. AQuietStep \/ APass
    BY <1>5, <2>0 DEF Administer, Handle, AQuietStep, APass
  <2>2. QED
    BY <1>0, <1>1, <2>1, QuietServed, PassingServed DEF InHand
<1>6. QED
  BY <1>3, <1>4, <1>5 DEF AHandler

(* Neither do the other steps need a pass, but a load, which owes one.     *)
LEMMA OthersInHand ==
  ASSUME SInv, InHand, AControl \/ Boots \/ UNCHANGED sessionVars
  PROVE  InHand'
<1>0. IInv
  BY DEF SInv
<1>1. CASE AControl
  <2>1. Idle /\ agenda = <<>>
    BY <1>1, ControlIsNext DEF Idle
  <2>2. Served(World)
    BY <2>1 DEF InHand, PassOwed
  <2>3. AQuietStep
    BY <1>1 DEF AControl, Step, BackgroundTick, Advance, StartOrPause, EnableRealHardware,
                DisableRealHardware, CooldownOver, AQuietStep
  <2>4. QED
    BY <1>0, <2>2, <2>3, QuietServed DEF InHand
<1>2. CASE Boots
  <2>1. agenda' = <<"pass", "script">>
    BY <1>2 DEF Boots, BootInto
  <2>2. agenda' # <<>> /\ Head(agenda') = "pass"
    BY <2>1
  <2>3. QED
    BY <2>2 DEF InHand, PassOwed
<1>3. CASE UNCHANGED sessionVars
  <2>1. agenda' = agenda /\ AQuietStep
    BY <1>3 DEF sessionVars, AQuietStep
  <2>2. QED
    BY <1>0, <2>1, QuietServed DEF InHand, PassOwed
<1>4. QED
  BY <1>1, <1>2, <1>3

(* One step: only a late reading leaves the queue unserved with no pass to *)
(* come.                                                                   *)
LEMMA NextInHand ==
  ASSUME SInv, InHand, [SessionNext]_sessionVars
  PROVE  InHand' \/ LateReading
<1>0. SessionTypes
  BY DEF SInv, Plan
<1>1. CASE Work
  BY <1>1, WorkInHand
<1>2. CASE AHandler
  BY <1>2, HandlerInHand
<1>3. CASE AControl \/ Boots \/ UNCHANGED sessionVars
  BY <1>3, OthersInHand
<1>4. QED
  BY <1>0, <1>1, <1>2, <1>3, SessionSteps

(* No step of a session but a scripted reading that finds a prompt overdue *)
(* leaves a GPU free beside a waiting job with no pass to come: every      *)
(* other operation of the session, its script and its loop makes the pass  *)
(* it owes, or enters it in the list of calls.                             *)
THEOREM OnlyLateReadingsIdle == SessionSpec => OnlyLateReadings
<1>1. SInv /\ [SessionNext]_sessionVars => [InHand => InHand' \/ LateReading]_sessionVars
  BY NextInHand
<1>2. QED
  BY <1>1, SessionInvariance, PTL DEF SessionSpec, OnlyLateReadings

(* Before the first load nothing is queued.                                *)
LEMMA InitInHand ==
  ASSUME SessionInit
  PROVE  InHand
<1>1. fifo = [j \in Jobs |-> 0]
  BY DEF SessionInit, Init
<1>2. QED
  BY <1>1 DEF InHand, Served, WaitingInFifo, World

(* Between ticks and handlers no pass is to come, so the queue is served.  *)
LEMMA InHandServes ==
  ASSUME InHand
  PROVE  NoIdleWait
BY DEF InHand, NoIdleWait, Idle, PassOwed, Served

(* As long as no scripted reading finds a prompt overdue, no GPU is free   *)
(* while a job waits whenever no tick and no handler is in progress: the   *)
(* promise of Simulator.advance and of the session's handlers.             *)
THEOREM NoIdleWaitUnlessLate ==
  SessionSpec /\ [][~LateReading]_sessionVars => []NoIdleWait
<1>1. SessionInit => InHand
  BY InitInHand
<1>2. InHand /\ [InHand => InHand' \/ LateReading]_sessionVars /\ [~LateReading]_sessionVars => InHand'
  <2>1. UNCHANGED sessionVars => World' = World /\ agenda' = agenda
    BY DEF sessionVars, vars, World
  <2>2. InHand /\ UNCHANGED sessionVars => InHand'
    BY <2>1 DEF InHand, PassOwed
  <2>3. QED
    BY <2>2
<1>3. InHand => NoIdleWait
  BY InHandServes
<1>4. QED
  BY <1>1, <1>2, <1>3, OnlyLateReadingsIdle, PTL DEF SessionSpec, OnlyLateReadings

(* The readings of a script come before any prompt can be overdue.  The    *)
(* registered scenarios without a script of readings, and those of the     *)
(* run, are of this kind; `idle_user', `imbalance' and `full_lifecycle'    *)
(* are not.                                                                *)
TimelyReadings ==
  \A s \in Scenarios : \A i \in 1..Len(s.script) :
    s.script[i].do = "reading" => s.script[i].at < Grace

(* For such scenarios the promise holds without a condition on behaviour.  *)
THEOREM TimelyScenariosServe ==
  ASSUME TimelyReadings
  PROVE  SessionSpec => []NoIdleWait
<1>1. SInv => ~LateReading
  <2> SUFFICES ASSUME SInv, LateReading PROVE FALSE
    OBVIOUS
  <2> DEFINE act == scenario.script[next]
  <2>1. SessionTypes /\ agenda # <<>> /\ Due /\ act.do = "reading" /\ TimedOut(act.of, act.at)
    BY DEF SInv, Plan, LateReading, Doing
  <2>2. /\ scenario \in Scenarios /\ next \in 1..Len(scenario.script)
        /\ act \in ScriptAction /\ act.at \in 0..Horizon
    BY <2>1, ScriptedAct
  <2>3. act.at < Grace
    BY <2>1, <2>2 DEF TimelyReadings
  <2>4. act.of \in GPUs
    BY <2>1, <2>2 DEF ScriptAction
  <2>5. raisedAt[act.of] \in Nat /\ Grace \in Nat /\ act.at \in Nat
    BY <2>1, <2>2, <2>4, SessionAssumption DEF SessionTypes, Wall
  <2> HIDE DEF act
  <2>6. QED
    BY <2>1, <2>3, <2>5 DEF TimedOut
<1>2. QED
  BY <1>1, SessionInvariance, NoIdleWaitUnlessLate, PTL

-----------------------------------------------------------------------------
(* The scheduler, as the session drives it.                                *)

(* A session is the scheduler at work, load after load: no tick and no     *)
(* handler does to the pool what is not an operation of the scheduler, and *)
(* a load starts from a pool of its own.                                   *)
THEOREM DrivesTheScheduler == SessionSpec => [][Next \/ Boots]_vars
<1>1. SInv /\ [SessionNext]_sessionVars => [Next \/ Boots]_vars
  BY StepIsNext DEF SInv, Plan
<1>2. QED
  BY <1>1, SessionInvariance, PTL DEF SessionSpec

(* Between loads the scheduler's promises about steps hold in a session    *)
(* too, with the seeds of a scenario, which it never allocated: a job that *)
(* is over stays so (OverIsOver), no pass passes a CRITICAL job by         *)
(* (CriticalFirst), and the leases of GPULeases are honoured.              *)
KeepsPromises ==
  /\ \A j \in Jobs : jobStatus[j] \in {"COMPLETED", "RECLAIMED"} => jobStatus'[j] = jobStatus[j]
  /\ \A g \in GPUs :
       /\ assignedJob'[g] \in Jobs \ critical'
       /\ assignedJob'[g] # assignedJob[g]
       => \/ \A k \in critical' : jobStatus'[k] # "WAITING"
          \/ \E j \in Jobs : ManualAssignGpu(g, j, FALSE)
  /\ [Leases!Next]_LeaseView

(* So they do, whatever mix of ticks, script, answers and administration.  *)
THEOREM PromisesHold == SessionSpec => [][Boots \/ KeepsPromises]_vars
<1>1. SInv /\ SInv' /\ [SessionNext]_sessionVars => [Boots \/ KeepsPromises]_vars
  <2> SUFFICES ASSUME SInv, SInv', [SessionNext]_sessionVars, ~ Boots
               PROVE  KeepsPromises
    OBVIOUS
  <2>1. IInv /\ IInv' /\ [Next]_vars
    BY StepIsNext DEF SInv, Plan
  <2>2. QED
    BY <2>1, NextOverIsOver, NextCriticalFirst, NextLeases DEF KeepsPromises
<1>2. QED
  BY <1>1, SessionInvariance, PTL DEF SessionSpec

(* In a session the diagnostic complains of nothing but the index of       *)
(* users, which does not hear of the running jobs of a scenario.           *)
THEOREM OnlyTheIndexDisagrees ==
  SessionSpec => [](check_consistency \subseteq Complaints("index", Users))
<1>1. SInv => check_consistency \subseteq Complaints("index", Users)
  BY OnlyTheIndex DEF SInv, IndexComplaints, Complaints
<1>2. QED
  BY <1>1, SessionInvariance, PTL

-----------------------------------------------------------------------------
(* Sessions without real hardware.                                         *)

(* No reading but those of the script is under way.                        *)
Simulated == poller = "none" /\ agenda \in Seq(Task)

(* Replacing the first call by others of the simulator.                    *)
LEMMA ThenSimulated ==
  ASSUME agenda \in Seq(Task), agenda # <<>>, NEW tasks \in Seq(Task), Then(tasks)
  PROVE  agenda' \in Seq(Task)
<1> DEFINE rest == Tail(agenda)
<1>1. rest \in Seq(Task)
  BY HeadTailProperties
<1> HIDE DEF rest
<1>2. tasks \o rest \in Seq(Task)
  BY <1>1, ConcatProperties
<1>3. QED
  BY <1>2 DEF Then, rest

(* Without a scenario that real hardware may take over, a session stays in *)
(* simulated time.                                                         *)
LEMMA StaysSimulated ==
  ASSUME SInv, Simulated, Monitored = {}, [SessionNext]_sessionVars
  PROVE  Simulated'
<1>0. SessionTypes
  BY DEF SInv, Plan
<1>1. /\ <<>> \in Seq(Task) /\ <<"pass">> \in Seq(Task) /\ <<"script">> \in Seq(Task)
      /\ <<"reclaimed">> \in Seq(Task) /\ <<"scriptPass", "script">> \in Seq(Task)
      /\ <<"pass", "script">> \in Seq(Task) /\ <<"script", "grace">> \in Seq(Task)
      /\ <<"estimates">> \in Seq(Task)
  <2>1. {"pass", "script", "scriptPass", "grace", "reclaimed", "estimates"} \subseteq Task
    BY DEF Task
  <2>2. QED
    BY <2>1
<1>2. CASE Work
  <2>1. ~ FeedMetrics
    <3>1. agenda # <<>> => Head(agenda) \in Task
      BY HeadTailProperties DEF Simulated
    <3>2. QED
      BY <3>1, SessionAssumption DEF FeedMetrics
  <2>2. /\ poller' = poller
        /\ agenda # <<>>
        /\ \/ agenda' = <<>>
           \/ \E tasks \in {<<>>, <<"pass">>, <<"script">>, <<"reclaimed">>, <<"scriptPass", "script">>} :
                Then(tasks)
    <3>1. CASE RunScript
      BY <3>1 DEF RunScript, control, Doing
    <3>2. CASE ScriptPass \/ ScriptPause \/ Pass \/ AskOverdueJobs
      BY <3>2 DEF ScriptPass, ScriptPause, Pass, AskOverdueJobs, control, Doing
    <3>3. CASE TakeOverdue
      BY <3>3 DEF TakeOverdue, control, Doing
    <3>4. CASE NoneOverdue
      BY <3>4 DEF NoneOverdue, control, Doing
    <3>5. CASE Poll
      BY <3>5 DEF Poll, control, Doing, Simulated
    <3>6. QED
      BY <1>2, <2>1, <3>1, <3>2, <3>3, <3>4, <3>5 DEF Work
  <2>3. QED
    BY <1>1, <2>2, ThenSimulated DEF Simulated
<1>3. CASE AHandler
  BY <1>0, <1>1, <1>3, HandlerIsNext DEF Simulated, control
<1>4. CASE AControl
  <2>1. CASE \E k \in Strides : Step(k) \/ BackgroundTick(k)
    <3> DEFINE most == <<"script", "grace">> \o <<>>
    <3>1. agenda' = most \o <<"estimates">> /\ poller' = poller
      BY <2>1 DEF Step, BackgroundTick, Advance, Polls, Simulated
    <3>2. most \in Seq(Task)
      BY <1>1, ConcatProperties
    <3> HIDE DEF most
    <3>3. most \o <<"estimates">> \in Seq(Task)
      BY <1>1, <3>2, ConcatProperties
    <3>4. QED
      BY <3>1, <3>3 DEF Simulated
  <2>2. CASE (\E on \in BOOLEAN : StartOrPause(on)) \/ DisableRealHardware \/ CooldownOver
    BY <2>2 DEF StartOrPause, DisableRealHardware, CooldownOver, control, Simulated
  <2>3. ~ EnableRealHardware
    BY DEF EnableRealHardware
  <2>4. QED
    BY <1>4, <2>1, <2>2, <2>3 DEF AControl
<1>5. CASE Boots
  BY <1>1, <1>5 DEF Boots, BootInto, Simulated
<1>6. CASE UNCHANGED sessionVars
  BY <1>6 DEF sessionVars, control, Simulated
<1>7. QED
  BY <1>0, <1>2, <1>3, <1>4, <1>5, <1>6, SessionSteps

(* A GPU that is taken back takes no other prompt along.                   *)
LEMMA TakesOnePrompt ==
  ASSUME IInv, NEW g \in GPUs, CheckTimeout(g), NEW h \in GPUs, h # g
  PROVE  prompt'[h] = prompt[h]
<1> DEFINE j == assignedJob[g]
           freed == DropRunning(Freed(World, {g}, j, assignedUser[g], "IDLE"), j, assignedUser[g])
<1>1. World \in Worlds /\ prompt \in [GPUs -> Prompt]
  BY WorldFields DEF IInv, Safe, Worlds
<1>2. freed.prompt = [k \in GPUs |-> IF k \in {g} THEN NoPrompt ELSE prompt[k]]
  BY <1>1, WorldFields DEF Freed, Release, ClearWatch, DropRunning, Worlds
<1> HIDE DEF freed
<1>3. /\ SetJobStatus(freed, j, "RECLAIMED").prompt = freed.prompt
      /\ RequeueJob(SetJobStatus(freed, j, "WAITING"), j).prompt = freed.prompt
  BY DEF SetJobStatus, RequeueJob, Enqueue
<1>4. Reclaim(World, g).prompt = freed.prompt
  BY <1>3, WorldFields DEF Reclaim, freed
<1>5. prompt' = Reclaim(World, g).prompt
  BY DEF CheckTimeout, Become
<1>6. QED
  BY <1>1, <1>2, <1>4, <1>5

(* It is the readings of real hardware, dated by another clock, that cut a *)
(* grace period short: in a session without them a tick takes a GPU only   *)
(* after the whole period.                                                 *)
THEOREM GraceIsGivenInSimulation ==
  ASSUME Monitored = {}
  PROVE  SessionSpec => GraceIsGiven
<1>1. SessionInit => Simulated
  BY DEF SessionInit, Simulated
<1>2. SInv /\ Simulated /\ [SessionNext]_sessionVars => Simulated'
  BY StaysSimulated
<1>3. SInv /\ Simulated /\ [SessionNext]_sessionVars
      => [FeedMetrics \/ TakeOverdue =>
            \A g \in GPUs : prompt[g] # NoPrompt /\ prompt'[g] = NoPrompt /\ raisedAt[g] # Wall =>
              clock >= raisedAt[g] + Grace]_sessionVars
  <2> SUFFICES ASSUME SInv, Simulated, FeedMetrics \/ TakeOverdue,
                      NEW g \in GPUs, prompt[g] # NoPrompt, prompt'[g] = NoPrompt
               PROVE  clock >= raisedAt[g] + Grace
    OBVIOUS
  <2>1. TakeOverdue
    <3>1. agenda # <<>> => Head(agenda) \in Task
      BY HeadTailProperties DEF Simulated
    <3>2. QED
      BY <3>1, SessionAssumption DEF FeedMetrics
  <2>2. PICK h \in GPUs : TimedOut(h, clock) /\ CheckTimeout(h)
    BY <2>1 DEF TakeOverdue
  <2>3. h = g
    BY <2>2, TakesOnePrompt DEF SInv
  <2>4. QED
    BY <2>2, <2>3 DEF TimedOut
<1>4. QED
  BY <1>1, <1>2, <1>3, SessionInvariance, PTL DEF SessionSpec, GraceIsGiven
=============================================================================
