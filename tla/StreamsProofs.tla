---------------------------- MODULE StreamsProofs ----------------------------
(* What the streams promise for every number of connections, requests in     *)
(* progress, events and changes, and every size of the log.                  *)
EXTENDS Streams, TLAPS

-----------------------------------------------------------------------------
(* The invariant, in parts.                                                  *)

Types ==
  /\ version \in 1..MaxVersion /\ running \in BOOLEAN
  /\ logged \in 0..MaxEvents /\ floor \in 0..logged /\ cursor \in 0..logged
  /\ gone \subseteq 1..logged
  /\ viewers \subseteq Viewers /\ listeners \subseteq Listeners
  /\ link \in [Clients -> {"new", "open", "stalled", "closed"}]
  /\ since \in [Listeners -> 0..logged]
  /\ got \in [Clients -> Seq(Nat)]
  /\ active \in Tasks \cup {NoTask}
  /\ phase \in [Tasks -> {"idle", "state", "events"}]
  /\ left \in [Tasks -> SUBSET Clients]
  /\ turn \in [Tasks -> Clients \cup {NoOne}]
  /\ batch \in [Tasks -> SUBSET (0..logged)]
  /\ due \in [Tasks -> SUBSET (0..logged)]
  /\ dead \in [Tasks -> SUBSET Clients]
  /\ payload \in [Tasks -> [Kinds -> 0..version]]

(* Where a task stands: one that does nothing owes nothing; snapshots go to  *)
(* viewers, popped events to listeners; one that waits, waits for a client.  *)
InStep(t) ==
  /\ phase[t] = "idle" => left[t] = {} /\ due[t] = {} /\ turn[t] = NoOne /\ active # t
  /\ phase[t] = "state" => left[t] \subseteq Viewers /\ batch[t] = {Snapshot} /\ turn[t] \in Viewers \cup {NoOne}
  /\ phase[t] = "events" => left[t] \subseteq Listeners /\ batch[t] \subseteq 1..cursor /\ turn[t] \notin left[t]
  /\ due[t] # {} => turn[t] \in Clients
  /\ due[t] # {} /\ phase[t] = "events" => turn[t] \in Listeners /\ due[t] \subseteq batch[t] \cap Sees[turn[t]]
  /\ phase[t] # "idle" /\ active # t => turn[t] \in Clients

Phases == \A t \in Tasks : InStep(t)

(* What was sent had been popped; no two broadcasts share an event; and what *)
(* is owed was not sent.                                                     *)
Once ==
  /\ \A l \in Listeners : \A i \in 1..Len(got[l]) : got[l][i] \in 1..cursor
  /\ \A t, u \in Tasks :
       t # u /\ phase[t] = "events" /\ phase[u] = "events" => batch[t] \cap batch[u] = {}
  /\ \A t \in Tasks, l \in Listeners : \A e \in Owed(t, l) : \A i \in 1..Len(got[l]) : got[l][i] # e

(* A viewer has been sent the state as it is, or a broadcast of it comes.    *)
Shows ==
  \A v \in viewers : link[v] # "closed" =>
    \/ \E i \in 1..Len(got[v]) : got[v][i] = version
    \/ \E t \in Tasks :
         /\ phase[t] = "state"
         /\ v \in left[t] \/ (turn[t] = v /\ due[t] # {})
         /\ payload[t][Kind[v]] = 0 \/ payload[t][Kind[v]] = version

IInv == Types /\ Phases /\ Once /\ NothingTwice /\ NothingMissed /\ Shows

-----------------------------------------------------------------------------
(* Types.                                                                    *)

(* The names of tasks and clients do not clash.                              *)
LEMMA Distinct ==
  /\ NoTask \notin Tasks /\ Loop \in Tasks /\ Requests \subseteq Tasks
  /\ NoOne \notin Clients /\ Viewers \subseteq Clients /\ Listeners \subseteq Clients
  /\ Viewers \cap Listeners = {}
BY StreamsAssumption DEF StreamsAssumption, Tasks, Clients, NoTask, Loop

(* The server starts without connections, events or broadcasts.              *)
LEMMA InitIInv == Init => IInv
<1> SUFFICES ASSUME Init PROVE IInv
  OBVIOUS
<1>1. Types
  <2>1. /\ version \in 1..MaxVersion /\ running \in BOOLEAN
        /\ logged \in 0..MaxEvents /\ floor \in 0..logged /\ cursor \in 0..logged
        /\ gone \subseteq 1..logged
    <3>1. version = 1 /\ running = FALSE /\ logged = 0 /\ floor = 0 /\ cursor = 0 /\ gone = {}
      BY DEF Init
    <3>2. MaxVersion \in Nat \ {0} /\ MaxEvents \in Nat
      BY StreamsAssumption DEF StreamsAssumption
    <3>3. running \in BOOLEAN
      BY <3>1
    <3>. QED
      BY <3>1, <3>2, <3>3
  <2>2. /\ viewers \subseteq Viewers /\ listeners \subseteq Listeners
        /\ link \in [Clients -> {"new", "open", "stalled", "closed"}]
        /\ since \in [Listeners -> 0..logged]
        /\ got \in [Clients -> Seq(Nat)]
    BY DEF Init
  <2>3. /\ active \in Tasks \cup {NoTask}
        /\ phase \in [Tasks -> {"idle", "state", "events"}]
        /\ left \in [Tasks -> SUBSET Clients]
        /\ turn \in [Tasks -> Clients \cup {NoOne}]
        /\ batch \in [Tasks -> SUBSET (0..logged)]
        /\ due \in [Tasks -> SUBSET (0..logged)]
        /\ dead \in [Tasks -> SUBSET Clients]
    BY DEF Init
  <2>4. payload \in [Tasks -> [Kinds -> 0..version]]
    <3>1. [k \in Kinds |-> 0] \in [Kinds -> 0..version]
      BY DEF Init
    <3>. QED
      BY <3>1 DEF Init
  <2>. QED
    BY <2>1, <2>2, <2>3, <2>4 DEF Types
<1>2. Phases
  BY Distinct DEF Init, Phases, InStep
<1>3. Once /\ NothingTwice
  <2>1. \A l \in Listeners : got[l] = <<>> /\ Len(got[l]) = 0
    BY Distinct DEF Init
  <2>2. \A t \in Tasks : phase[t] = "idle"
    BY DEF Init
  <2>. QED
    BY <2>1, <2>2 DEF Once, NothingTwice
<1>4. NothingMissed /\ Shows
  BY DEF Init, NothingMissed, Shows
<1>. QED
  BY <1>1, <1>2, <1>3, <1>4 DEF IInv

(* A change of the session keeps the types of the log.                       *)
LEMMA LogTypes ==
  ASSUME Types, NEW n \in 0..2, logged + n <= MaxEvents, Log(n)
  PROVE  /\ logged' \in 0..MaxEvents /\ logged <= logged'
         /\ floor' \in 0..logged' /\ cursor \in 0..logged'
         /\ gone' \subseteq 1..logged'
<1>1. logged' = logged + n /\ logged \in Nat /\ MaxEvents \in Nat /\ floor \in 0..logged /\ cursor \in 0..logged
  BY StreamsAssumption DEF StreamsAssumption, Types, Log
<1>2. floor' = Larger(floor, logged + n - History) /\ History \in Nat \ {0}
  BY StreamsAssumption DEF StreamsAssumption, Log
<1>3. floor' \in 0..logged'
  BY <1>1, <1>2 DEF Larger
<1>4. gone' \subseteq gone \cup ((Larger(floor, cursor) + 1)..(logged + n))
  BY DEF Log
<1>5. (Larger(floor, cursor) + 1)..(logged + n) \subseteq 1..logged'
  BY <1>1 DEF Larger
<1>6. gone \subseteq 1..logged'
  BY <1>1 DEF Types
<1>. QED
  BY <1>1, <1>3, <1>4, <1>5, <1>6

(* Ranges grow with the log.                                                 *)
LEMMA RangesGrow ==
  ASSUME Types, logged' \in 0..MaxEvents, logged <= logged'
  PROVE  /\ since \in [Listeners -> 0..logged']
         /\ batch \in [Tasks -> SUBSET (0..logged')]
         /\ due \in [Tasks -> SUBSET (0..logged')]
<1>1. 0..logged \subseteq 0..logged'
  BY DEF Types
<1>. QED
  BY <1>1 DEF Types

(* So does that of the versions.                                             *)
LEMMA BroadcastTypes ==
  ASSUME Types, NEW t \in Tasks, Broadcast(t), version' = version + 1, version < MaxVersion,
         logged' \in 0..MaxEvents, logged <= logged'
  PROVE  /\ version' \in 1..MaxVersion
         /\ active' \in Tasks \cup {NoTask}
         /\ phase' \in [Tasks -> {"idle", "state", "events"}]
         /\ left' \in [Tasks -> SUBSET Clients]
         /\ turn' \in [Tasks -> Clients \cup {NoOne}]
         /\ batch' \in [Tasks -> SUBSET (0..logged')]
         /\ due' \in [Tasks -> SUBSET (0..logged')]
         /\ dead' \in [Tasks -> SUBSET Clients]
         /\ payload' \in [Tasks -> [Kinds -> 0..version']]
<1>1. version' \in 1..MaxVersion /\ 0..version \subseteq 0..version'
  BY StreamsAssumption DEF StreamsAssumption, Types
<1>2. payload \in [Tasks -> [Kinds -> 0..version']]
  BY <1>1 DEF Types
<1>3. [k \in Kinds |-> 0] \in [Kinds -> 0..version']
  BY <1>1 DEF Types
<1>4. payload' \in [Tasks -> [Kinds -> 0..version']]
  BY <1>2, <1>3 DEF Broadcast
<1>5. {Snapshot} \subseteq 0..logged'
  BY DEF Snapshot
<1>. QED
  BY <1>1, <1>4, <1>5, RangesGrow DEF Broadcast, Types, Clients
(* The session is changed and a broadcast starts.                            *)
SessionChanges(t) ==
  /\ Changes(t)
  /\ t \in Tasks
  /\ logged' \in 0..MaxEvents /\ logged <= logged'
  /\ floor' \in 0..logged' /\ cursor' \in 0..logged' /\ cursor <= cursor'
  /\ gone' \subseteq 1..logged'
  /\ running' \in BOOLEAN
  /\ gone \cup NewEvents \cup (logged + 1)..logged' \subseteq gone' \cup NewEvents'

(* The four operations that change the session are of this kind: what they   *)
(* log, and what was not popped, is still to be popped or counts as gone.    *)
LEMMA EveryChange ==
  ASSUME Types,
         \/ \E r \in Requests : StartOrPause(r) \/ \E n \in 0..2 : Command(r, n) \/ LoadOrReset(r, n)
         \/ \E n \in 0..2 : BackgroundTick(n)
  PROVE  \E t \in Tasks : SessionChanges(t)
<1>0. /\ logged \in Nat /\ MaxEvents \in Nat /\ logged <= MaxEvents /\ floor \in 0..logged /\ cursor \in 0..logged
      /\ gone \subseteq 1..logged /\ running \in BOOLEAN
  BY StreamsAssumption DEF StreamsAssumption, Types
<1>1. ASSUME NEW r \in Requests, StartOrPause(r)
      PROVE  SessionChanges(r)
  BY <1>0, <1>1, Distinct DEF StartOrPause, SessionChanges, NewEvents
<1>2. ASSUME NEW n \in 0..2, logged + n <= MaxEvents, Log(n), UNCHANGED <<cursor>>
      PROVE  gone \cup NewEvents \cup (logged + 1)..logged' \subseteq gone' \cup NewEvents'
  <2>1. logged' = logged + n /\ floor' \in Nat /\ floor' = Larger(floor, logged + n - History)
    BY <1>0, <1>2, StreamsAssumption DEF StreamsAssumption, Log, Larger
  <2>2. gone' = gone \cup {e \in (Larger(floor, cursor) + 1)..(logged + n) : e <= floor'}
    BY <1>2, <2>1 DEF Log
  <2>3. NewEvents' = (Larger(floor', cursor) + 1)..logged'
    BY <1>2 DEF NewEvents, Larger
  <2>4. NewEvents \cup (logged + 1)..logged' \subseteq (Larger(floor, cursor) + 1)..(logged + n)
    BY <1>0, <2>1 DEF NewEvents, Larger
  <2>5. ASSUME NEW e \in (Larger(floor, cursor) + 1)..(logged + n), ~ (e <= floor')
        PROVE  e \in NewEvents'
    BY <1>0, <2>1, <2>3, <2>5 DEF Larger
  <2>. QED
    BY <2>2, <2>4, <2>5
<1>3. ASSUME NEW r \in Requests, NEW n \in 0..2, Command(r, n)
      PROVE  SessionChanges(r)
  BY <1>0, <1>2, <1>3, LogTypes, Distinct DEF Command, SessionChanges
<1>4. ASSUME NEW n \in 0..2, BackgroundTick(n)
      PROVE  SessionChanges(Loop)
  BY <1>0, <1>2, <1>4, LogTypes, Distinct DEF BackgroundTick, SessionChanges
<1>5. ASSUME NEW r \in Requests, NEW n \in 0..2, LoadOrReset(r, n)
      PROVE  SessionChanges(r)
  <2>1. logged' = logged + n /\ floor' = logged /\ cursor' = logged + n /\ running' = FALSE
    BY <1>5 DEF LoadOrReset
  <2>2. gone' = gone \cup NewEvents \cup (logged + 1)..(logged + n) /\ logged + n <= MaxEvents
    BY <1>5 DEF LoadOrReset
  <2>3. NewEvents \subseteq 1..logged
    BY <1>0 DEF NewEvents, Larger
  <2>4. gone' \subseteq 1..logged'
    BY <1>0, <2>1, <2>2, <2>3
  <2>5. gone \cup NewEvents \cup (logged + 1)..logged' \subseteq gone'
    BY <2>1, <2>2
  <2>6. logged' \in 0..MaxEvents /\ logged <= logged' /\ floor' \in 0..logged' /\ cursor' \in 0..logged' /\ cursor <= cursor'
    BY <1>0, <2>1, <2>2
  <2>7. Changes(r) /\ r \in Tasks
    BY <1>5, Distinct DEF LoadOrReset
  <2>. QED
    BY <2>1, <2>4, <2>5, <2>6, <2>7 DEF SessionChanges
<1>. QED
  BY <1>1, <1>3, <1>4, <1>5, Distinct
(* Nothing but these four operations touches the session, except for the     *)
(* cursor when events are popped.                                            *)
LEMMA NextTypes ==
  ASSUME IInv, [Next]_vars
  PROVE  Types'
<1>0. Types /\ Phases
  BY DEF IInv
<1>1. CASE UNCHANGED vars
  BY <1>0, <1>1 DEF vars, session, conns, tasks, Types
<1>2. ASSUME NEW v \in Viewers, ConnectViewer(v) PROVE Types'
  <2>1. <<version>> \in Seq(Nat)
    BY <1>0, StreamsAssumption DEF StreamsAssumption, Types
  <2>2. got' \in [Clients -> Seq(Nat)] /\ viewers' \subseteq Viewers
    BY <1>0, <1>2, <2>1 DEF ConnectViewer, Types
  <2>3. link' \in [Clients -> {"new", "open", "stalled", "closed"}]
    BY <1>0, <1>2 DEF ConnectViewer, Types
  <2>4. UNCHANGED <<session, listeners, since, tasks>>
    BY <1>2 DEF ConnectViewer
  <2>. QED
    BY <1>0, <2>2, <2>3, <2>4 DEF session, tasks, Types
<1>3. ASSUME NEW l \in Listeners, ConnectListener(l) PROVE Types'
  <2>1. since' \in [Listeners -> 0..logged] /\ listeners' \subseteq Listeners
    BY <1>0, <1>3 DEF ConnectListener, Types
  <2>2. link' \in [Clients -> {"new", "open", "stalled", "closed"}]
    BY <1>0, <1>3 DEF ConnectListener, Types
  <2>3. UNCHANGED <<session, viewers, got, tasks>>
    BY <1>3 DEF ConnectListener
  <2>. QED
    BY <1>0, <2>1, <2>2, <2>3 DEF session, tasks, Types
<1>4. ASSUME NEW c \in Clients, Drain(c) \/ Close(c) PROVE Types'
  <2>1. link' \in [Clients -> {"new", "open", "stalled", "closed"}]
    BY <1>0, <1>4 DEF Drain, Close, Types
  <2>2. UNCHANGED <<session, viewers, listeners, since, got, tasks>>
    BY <1>4 DEF Drain, Close
  <2>. QED
    BY <1>0, <2>1, <2>2 DEF session, tasks, Types
<1>5. ASSUME NEW c \in Clients, Disconnect(c) PROVE Types'
  BY <1>0, <1>5 DEF Disconnect, session, tasks, Types
<1>6. ASSUME NEW t \in Tasks, SessionChanges(t) PROVE Types'
  <2>1. UNCHANGED conns
    BY <1>6 DEF SessionChanges, Changes
  <2>2. Broadcast(t) /\ version' = version + 1 /\ version < MaxVersion
    BY <1>6 DEF SessionChanges, Changes
  <2>3. logged' \in 0..MaxEvents /\ logged <= logged'
    BY <1>6 DEF SessionChanges
  <2>4. /\ running' \in BOOLEAN /\ floor' \in 0..logged' /\ cursor' \in 0..logged'
        /\ gone' \subseteq 1..logged'
    BY <1>6 DEF SessionChanges
  <2>5. since' \in [Listeners -> 0..logged']
    BY <1>0, <2>1, <2>3, RangesGrow DEF conns
  <2>6. /\ viewers' \subseteq Viewers /\ listeners' \subseteq Listeners
        /\ link' \in [Clients -> {"new", "open", "stalled", "closed"}]
        /\ got' \in [Clients -> Seq(Nat)]
    BY <1>0, <2>1 DEF conns, Types
  <2>. QED
    BY <1>0, <2>2, <2>3, <2>4, <2>5, <2>6, BroadcastTypes DEF Types
<1>7. CASE NothingToDo
  BY <1>0, <1>7 DEF NothingToDo, vars, session, conns, tasks, Types
<1>8. ASSUME NEW t \in Tasks, NextClient(t) PROVE Types'
  <2>1. /\ turn' \in [Tasks -> Clients \cup {NoOne}] /\ left' \in [Tasks -> SUBSET Clients]
        /\ due' \in [Tasks -> SUBSET (0..logged)]
    BY <1>0, <1>8 DEF NextClient, Types
  <2>2. UNCHANGED <<session, conns, active, phase, batch, dead, payload>>
    BY <1>8 DEF NextClient
  <2>. QED
    BY <1>0, <2>1, <2>2 DEF session, conns, Types
<1>9. ASSUME NEW t \in Tasks, Send(t) PROVE Types'
  <2>1. turn[t] \in Clients
    BY <1>0, <1>9 DEF Send, Phases, InStep
  <2>2. turn[t] \in Viewers => Made(t, turn[t]) \in 0..version /\ Kind[turn[t]] \in Kinds
    BY <1>0, StreamsAssumption DEF StreamsAssumption, Made, Types
  <2>3. payload' \in [Tasks -> [Kinds -> 0..version]]
    BY <1>0, <1>9, <2>2 DEF Send, Types
  <2>4. got' \in [Clients -> Seq(Nat)]
    <3>1. PICK e \in due[t] :
            got' = [got EXCEPT ![turn[t]] =
                      Append(got[turn[t]], IF turn[t] \in Viewers THEN Made(t, turn[t]) ELSE e)]
      BY <1>9, Zenon DEF Send
    <3>2. (IF turn[t] \in Viewers THEN Made(t, turn[t]) ELSE e) \in Nat
      BY <1>0, <2>2 DEF Types
    <3> DEFINE x == IF turn[t] \in Viewers THEN Made(t, turn[t]) ELSE e
    <3> HIDE DEF x
    <3>3. Append(got[turn[t]], x) \in Seq(Nat)
      <4>1. got[turn[t]] \in Seq(Nat) /\ x \in Nat
        BY <1>0, <2>1, <3>2 DEF Types, x
      <4>. QED
        BY <4>1
    <3>4. got' = [got EXCEPT ![turn[t]] = Append(got[turn[t]], x)]
      BY <3>1 DEF x
    <3>. QED
      BY <1>0, <3>3, <3>4 DEF Types
  <2>5. due' \in [Tasks -> SUBSET (0..logged)]
    BY <1>0, <1>9 DEF Send, Types
  <2>6. link' \in [Clients -> {"new", "open", "stalled", "closed"}] /\ active' \in Tasks \cup {NoTask}
    BY <1>0, <1>9 DEF Send, Types
  <2>7. UNCHANGED <<session, viewers, listeners, since, phase, left, turn, batch, dead>>
    BY <1>9 DEF Send
  <2>. QED
    BY <1>0, <2>3, <2>4, <2>5, <2>6, <2>7 DEF session, Types
<1>10. ASSUME NEW t \in Tasks, Fails(t), turn[t] \in Clients
       PROVE  dead' \in [Tasks -> SUBSET Clients] /\ due' \in [Tasks -> SUBSET (0..logged)]
  BY <1>0, <1>10 DEF Fails, Types
<1>11. ASSUME NEW t \in Tasks, SendFails(t) PROVE Types'
  <2>1. turn[t] \in Clients
    BY <1>0, <1>11 DEF SendFails, Phases, InStep
  <2>2. Fails(t) /\ UNCHANGED <<session, conns, active, phase, left, turn, batch, payload>>
    BY <1>11 DEF SendFails
  <2>. QED
    BY <1>0, <1>10, <2>1, <2>2 DEF session, conns, Types
<1>12. ASSUME NEW t \in Tasks, Resume(t) PROVE Types'
  <2>1. turn[t] \in Clients
    BY <1>0, <1>12, Distinct DEF Resume, Phases, InStep
  <2>2. Fails(t) \/ UNCHANGED <<due, dead>>
    BY <1>12 DEF Resume
  <2>3. dead' \in [Tasks -> SUBSET Clients] /\ due' \in [Tasks -> SUBSET (0..logged)]
    BY <1>0, <1>10, <2>1, <2>2 DEF Types
  <2>4. active' = t /\ UNCHANGED <<session, conns, phase, left, turn, batch, payload>>
    BY <1>12 DEF Resume
  <2>. QED
    BY <1>0, <2>3, <2>4 DEF session, conns, Types
<1>13. ASSUME NEW t \in Tasks, Ends(t)
       PROVE  /\ active' \in Tasks \cup {NoTask}
              /\ phase' \in [Tasks -> {"idle", "state", "events"}]
              /\ left' \in [Tasks -> SUBSET Clients]
              /\ turn' \in [Tasks -> Clients \cup {NoOne}]
              /\ batch' \in [Tasks -> SUBSET (0..logged)]
  BY <1>0, <1>13 DEF Ends, Types
<1>14. ASSUME NEW t \in Tasks, PopNewEvents(t) PROVE Types'
  <2>1. NewEvents \subseteq 0..logged
    BY <1>0 DEF NewEvents, Larger, Types
  <2>2. /\ active' \in Tasks \cup {NoTask}
        /\ phase' \in [Tasks -> {"idle", "state", "events"}]
        /\ left' \in [Tasks -> SUBSET Clients]
        /\ turn' \in [Tasks -> Clients \cup {NoOne}]
        /\ batch' \in [Tasks -> SUBSET (0..logged)]
    <3>1. CASE Ends(t)
      BY <1>13, <3>1
    <3>2. CASE ~ Ends(t)
      <4>1. /\ phase' = [phase EXCEPT ![t] = "events"]
            /\ left' = [left EXCEPT ![t] = listeners]
            /\ batch' = [batch EXCEPT ![t] = NewEvents]
            /\ UNCHANGED <<active, turn>>
        BY <1>14, <3>2 DEF PopNewEvents
      <4>2. listeners \subseteq Clients
        BY <1>0, Distinct DEF Types
      <4>. QED
        BY <1>0, <2>1, <4>1, <4>2 DEF Types
    <3>. QED
      BY <3>1, <3>2
  <2>3. viewers' \subseteq Viewers /\ dead' \in [Tasks -> SUBSET Clients] /\ cursor' = logged
    BY <1>0, <1>14 DEF PopNewEvents, Types
  <2>4. UNCHANGED <<version, running, logged, floor, gone, listeners, link, since, got, due, payload>>
    BY <1>14 DEF PopNewEvents
  <2>5. cursor' \in 0..logged
    BY <1>0, <2>3 DEF Types
  <2>. QED
    BY <1>0, <2>2, <2>3, <2>4, <2>5 DEF Types
<1>15. ASSUME NEW t \in Tasks, BroadcastEnds(t) PROVE Types'
  <2>1. listeners' \subseteq Listeners /\ dead' \in [Tasks -> SUBSET Clients] /\ Ends(t)
    BY <1>0, <1>15 DEF BroadcastEnds, Types
  <2>2. UNCHANGED <<session, viewers, link, since, got, due, payload>>
    BY <1>15 DEF BroadcastEnds
  <2>. QED
    BY <1>0, <1>13, <2>1, <2>2 DEF session, Types
<1>. QED
  BY <1>0, <1>1, <1>2, <1>3, <1>4, <1>5, <1>6, <1>7, <1>8, <1>9, <1>11, <1>12, <1>14, <1>15,
     EveryChange DEF Next, Proceeds
-----------------------------------------------------------------------------
(* Tasks keep in step: an action takes its own task from one place to the    *)
(* next, and leaves the others where they are.                               *)
LEMMA NextPhases ==
  ASSUME IInv, [Next]_vars
  PROVE  Phases'
<1>0. Types /\ Phases
  BY DEF IInv
<1>1. ASSUME UNCHANGED <<tasks, cursor>> PROVE Phases'
  BY <1>0, <1>1 DEF tasks, Phases, InStep
<1>2. ASSUME NEW t \in Tasks, SessionChanges(t) PROVE Phases'
  <2>1. active = NoTask /\ phase[t] = "idle" /\ cursor <= cursor' /\ cursor \in Int /\ cursor' \in Int
    BY <1>0, <1>2 DEF SessionChanges, Changes, Idle, Types
  <2>2. /\ active' = t /\ phase' = [phase EXCEPT ![t] = "state"] /\ left' = [left EXCEPT ![t] = viewers]
        /\ batch' = [batch EXCEPT ![t] = {Snapshot}] /\ UNCHANGED <<turn, due>>
    BY <1>2 DEF SessionChanges, Changes, Broadcast
  <2>3. 1..cursor \subseteq 1..cursor'
    BY <2>1
  <2>4. InStep(t)'
    BY <1>0, <2>1, <2>2 DEF Types, Phases, InStep
  <2>5. ASSUME NEW u \in Tasks, u # t PROVE InStep(u)'
    <3>1. phase'[u] = phase[u] /\ left'[u] = left[u] /\ batch'[u] = batch[u] /\ turn'[u] = turn[u] /\ due'[u] = due[u]
      BY <1>0, <2>2, <2>5 DEF Types
    <3>. QED
      BY <1>0, <2>1, <2>2, <2>3, <2>5, <3>1, Distinct DEF Phases, InStep
  <2>. QED
    BY <2>4, <2>5 DEF Phases
<1>3. ASSUME NEW t \in Tasks, active = t, UNCHANGED cursor,
             \A u \in Tasks \ {t} :
               /\ phase'[u] = phase[u] /\ left'[u] = left[u] /\ turn'[u] = turn[u]
               /\ batch'[u] = batch[u] /\ due'[u] = due[u],
             active' \in {t, NoTask}, InStep(t)'
      PROVE  Phases'
  <2>1. ASSUME NEW u \in Tasks, u # t PROVE InStep(u)'
    BY <1>0, <1>3, <2>1, Distinct DEF Phases, InStep
  <2>. QED
    BY <1>3, <2>1 DEF Phases
<1>4. ASSUME NEW t \in Tasks, NextClient(t) PROVE Phases'
  <2>1. PICK c \in left[t] :
          /\ turn' = [turn EXCEPT ![t] = c]
          /\ left' = [left EXCEPT ![t] = left[t] \ {c}]
          /\ due' = [due EXCEPT ![t] = IF c \in Viewers THEN batch[t] ELSE batch[t] \cap Sees[c]]
    BY <1>4 DEF NextClient
  <2>2. active = t /\ UNCHANGED <<active, phase, batch, cursor>>
    BY <1>4 DEF NextClient, session
  <2>3. c \in Clients /\ phase[t] # "idle"
    BY <1>0, <2>1 DEF Types, Phases, InStep
  <2>4. /\ turn'[t] = c /\ left'[t] = left[t] \ {c} /\ phase'[t] = phase[t] /\ batch'[t] = batch[t]
        /\ due'[t] = IF c \in Viewers THEN batch[t] ELSE batch[t] \cap Sees[c]
    BY <1>0, <2>1, <2>2 DEF Types
  <2>5. InStep(t)
    BY <1>0 DEF Phases
  <2>6. InStep(t)'
    BY <2>2, <2>3, <2>4, <2>5, Distinct DEF InStep
  <2>. QED
    BY <1>0, <1>3, <2>1, <2>2, <2>6 DEF Types
<1>5. ASSUME NEW t \in Tasks, Send(t) PROVE Phases'
  <2>1. due' = [due EXCEPT ![t] = due'[t]] /\ due'[t] \subseteq due[t] /\ due[t] # {}
    BY <1>0, <1>5 DEF Send, Types
  <2>2. active = t /\ active' \in {t, NoTask} /\ UNCHANGED <<phase, left, turn, batch, cursor>>
    BY <1>5 DEF Send, session
  <2>3. InStep(t)'
    BY <1>0, <2>1, <2>2 DEF Phases, InStep
  <2>. QED
    BY <1>0, <1>3, <2>1, <2>2, <2>3 DEF Types
<1>6. ASSUME NEW t \in Tasks, SendFails(t) PROVE Phases'
  <2>1. active = t /\ due' = [due EXCEPT ![t] = {}] /\ UNCHANGED <<active, phase, left, turn, batch, cursor>>
    BY <1>6 DEF SendFails, Fails, session, conns
  <2>2. InStep(t)'
    BY <1>0, <2>1 DEF Types, Phases, InStep
  <2>. QED
    BY <1>0, <1>3, <2>1, <2>2 DEF Types
<1>7. ASSUME NEW t \in Tasks, Resume(t) PROVE Phases'
  <2>1. /\ active = NoTask /\ active' = t /\ phase[t] # "idle"
        /\ UNCHANGED <<phase, left, turn, batch, cursor>>
    BY <1>7 DEF Resume, session, conns
  <2>2. due' = [due EXCEPT ![t] = {}] \/ UNCHANGED due
    BY <1>7 DEF Resume, Fails
  <2>3. InStep(t)'
    BY <1>0, <2>1, <2>2 DEF Types, Phases, InStep
  <2>4. ASSUME NEW u \in Tasks, u # t PROVE InStep(u)'
    <3>1. due'[u] = due[u]
      BY <1>0, <2>2, <2>4 DEF Types
    <3>. QED
      BY <1>0, <2>1, <2>4, <3>1, Distinct DEF Phases, InStep
  <2>. QED
    BY <2>3, <2>4 DEF Phases
<1>8. ASSUME NEW t \in Tasks, Served(t), Ends(t), UNCHANGED due PROVE InStep(t)'
  BY <1>0, <1>8, Distinct DEF Served, Ends, Types, InStep
<1>9. ASSUME NEW t \in Tasks, PopNewEvents(t) PROVE Phases'
  <2>1. Served(t) /\ phase[t] = "state" /\ cursor' = logged /\ UNCHANGED <<due, listeners>>
    BY <1>9 DEF PopNewEvents
  <2>2. cursor \in 0..logged /\ logged \in Nat /\ 1..cursor \subseteq 1..logged
    BY <1>0 DEF Types
  <2>3. /\ active' \in {t, NoTask} /\ phase' = [phase EXCEPT ![t] = phase'[t]] /\ left' = [left EXCEPT ![t] = left'[t]]
        /\ turn' = [turn EXCEPT ![t] = turn'[t]] /\ batch' = [batch EXCEPT ![t] = batch'[t]]
    BY <1>0, <1>9 DEF PopNewEvents, Ends, Served, Types
  <2>4. InStep(t)'
    <3>1. CASE Ends(t)
      BY <1>8, <2>1, <3>1
    <3>2. CASE ~ Ends(t)
      <4>1. /\ phase'[t] = "events" /\ left'[t] = listeners /\ batch'[t] = NewEvents
            /\ UNCHANGED <<active, turn>>
        BY <1>0, <1>9, <3>2 DEF PopNewEvents, Types
      <4>2. NewEvents \subseteq 1..cursor'
        BY <1>0, <2>1, <2>2 DEF NewEvents, Larger, Types
      <4>3. turn[t] \in Viewers \cup {NoOne} /\ turn[t] \notin listeners
        BY <1>0, <2>1, Distinct DEF Phases, InStep, Types
      <4>4. due'[t] = {} /\ active' = t /\ listeners \subseteq Listeners
        BY <1>0, <2>1, <4>1 DEF Served, Types
      <4>. QED
        BY <4>1, <4>2, <4>3, <4>4 DEF InStep
    <3>. QED
      BY <3>1, <3>2
  <2>5. ASSUME NEW u \in Tasks, u # t PROVE InStep(u)'
    <3>1. phase'[u] = phase[u] /\ left'[u] = left[u] /\ turn'[u] = turn[u] /\ batch'[u] = batch[u] /\ due'[u] = due[u]
      BY <1>0, <2>1, <2>3, <2>5 DEF Types
    <3>. QED
      BY <1>0, <2>1, <2>2, <2>3, <2>5, <3>1, Distinct DEF Phases, InStep, Served
  <2>. QED
    BY <2>4, <2>5 DEF Phases
<1>10. ASSUME NEW t \in Tasks, BroadcastEnds(t) PROVE Phases'
  <2>1. Served(t) /\ Ends(t) /\ UNCHANGED <<due, cursor>>
    BY <1>10 DEF BroadcastEnds, session
  <2>2. InStep(t)'
    BY <1>8, <2>1
  <2>. QED
    BY <1>0, <1>3, <2>1, <2>2 DEF Served, Ends, Types
<1>11. ASSUME \/ \E v \in Viewers : ConnectViewer(v)
              \/ \E l \in Listeners : ConnectListener(l)
              \/ \E c \in Clients : Drain(c) \/ Close(c) \/ Disconnect(c)
              \/ NothingToDo
              \/ UNCHANGED vars
       PROVE  UNCHANGED <<tasks, cursor>>
  BY <1>11 DEF ConnectViewer, ConnectListener, Drain, Close, Disconnect, NothingToDo, vars, session
<1>. QED
  BY <1>0, <1>1, <1>2, <1>4, <1>5, <1>6, <1>7, <1>9, <1>10, <1>11, EveryChange DEF Next, Proceeds
-----------------------------------------------------------------------------
(* Nothing twice.                                                            *)

(* What follows the last event popped, and what was popped, do not overlap.  *)
LEMMA NewIsUnpopped ==
  ASSUME Types
  PROVE  NewEvents \cap (1..cursor) = {} /\ 1..cursor \subseteq 1..logged /\ NewEvents \subseteq 1..logged
BY DEF Types, NewEvents, Larger

(* While nothing is sent and no broadcast grows, nothing goes wrong.         *)
LEMMA OnceKept ==
  ASSUME Types, Once, NothingTwice, cursor' \in Nat, cursor <= cursor',
         \A l \in Listeners : got'[l] = got[l],
         \A t \in Tasks : phase'[t] = "events" => phase[t] = "events" /\ batch'[t] = batch[t],
         \A t \in Tasks, l \in Listeners : Owed(t, l)' \subseteq Owed(t, l)
  PROVE  Once' /\ NothingTwice'
<1>1. 1..cursor \subseteq 1..cursor'
  BY DEF Types
<1>2. \A l \in Listeners : \A i \in 1..Len(got'[l]) : got'[l][i] \in 1..cursor'
  BY <1>1 DEF Once
<1>3. \A t, u \in Tasks :
        t # u /\ phase'[t] = "events" /\ phase'[u] = "events" => batch'[t] \cap batch'[u] = {}
  BY DEF Once
<1>4. \A t \in Tasks, l \in Listeners : \A e \in Owed(t, l)' : \A i \in 1..Len(got'[l]) : got'[l][i] # e
  BY DEF Once
<1>5. NothingTwice'
  BY DEF NothingTwice
<1>. QED
  BY <1>2, <1>3, <1>4, <1>5 DEF Once

(* What a listener is owed is among the events of the broadcast.             *)
LEMMA OwedOfBatch ==
  ASSUME Types, Phases, NEW t \in Tasks, NEW l \in Listeners, NEW e \in Owed(t, l)
  PROVE  phase[t] = "events" /\ e \in batch[t] /\ e \in Sees[l]
<1>1. InStep(t) /\ l \notin Viewers /\ l \in Clients /\ l # NoOne
  BY Distinct DEF Phases
<1>2. phase[t] \in {"idle", "state", "events"}
  BY DEF Types
<1>3. CASE turn[t] = l /\ e \in due[t]
  BY <1>1, <1>2, <1>3 DEF InStep
<1>4. CASE l \in left[t] /\ e \in batch[t] \cap Sees[l]
  BY <1>1, <1>2, <1>4 DEF InStep
<1>. QED
  BY <1>3, <1>4 DEF Owed

(* Events are popped once, and each is taken from what is owed as it is sent. *)
LEMMA NextOnce ==
  ASSUME IInv, [Next]_vars
  PROVE  Once' /\ NothingTwice'
<1>0. Types /\ Phases /\ Once /\ NothingTwice /\ cursor \in Nat /\ logged \in Nat /\ cursor <= logged
  BY DEF IInv, Types
<1>1. ASSUME UNCHANGED <<tasks, cursor>>, \A l \in Listeners : got'[l] = got[l]
      PROVE  Once' /\ NothingTwice'
  BY <1>0, <1>1, OnceKept DEF tasks, Owed
<1>2. ASSUME \/ \E v \in Viewers : ConnectViewer(v)
             \/ \E l \in Listeners : ConnectListener(l)
             \/ \E c \in Clients : Drain(c) \/ Close(c) \/ Disconnect(c)
             \/ NothingToDo
             \/ UNCHANGED vars
      PROVE  UNCHANGED <<tasks, cursor>> /\ \A l \in Listeners : got'[l] = got[l]
  <2>1. ASSUME NEW v \in Viewers, ConnectViewer(v) PROVE \A l \in Listeners : got'[l] = got[l]
    BY <1>0, <2>1, Distinct DEF ConnectViewer, Types
  <2>. QED
    BY <1>2, <2>1 DEF ConnectViewer, ConnectListener, Drain, Close, Disconnect, NothingToDo, vars, session, conns
<1>3. ASSUME NEW t \in Tasks, SessionChanges(t) PROVE Once' /\ NothingTwice'
  <2>1. /\ phase[t] = "idle" /\ cursor <= cursor' /\ cursor' \in Nat /\ UNCHANGED got
        /\ phase' = [phase EXCEPT ![t] = "state"] /\ left' = [left EXCEPT ![t] = viewers]
        /\ batch' = [batch EXCEPT ![t] = {Snapshot}] /\ UNCHANGED <<turn, due>>
    BY <1>0, <1>3 DEF SessionChanges, Changes, Idle, Broadcast, conns, Types
  <2>2. \A u \in Tasks : phase'[u] = "events" => phase[u] = "events" /\ batch'[u] = batch[u]
    BY <1>0, <2>1 DEF Types
  <2>3. ASSUME NEW l \in Listeners PROVE l \notin viewers
    BY <1>0, Distinct DEF Types
  <2>4. \A u \in Tasks, l \in Listeners : Owed(u, l)' \subseteq Owed(u, l)
    BY <1>0, <2>1, <2>3 DEF Types, Owed
  <2>. QED
    BY <1>0, <2>1, <2>2, <2>4, OnceKept
<1>4. ASSUME NEW t \in Tasks, NextClient(t) PROVE Once' /\ NothingTwice'
  <2>1. PICK c \in left[t] :
          /\ turn' = [turn EXCEPT ![t] = c]
          /\ left' = [left EXCEPT ![t] = left[t] \ {c}]
          /\ due' = [due EXCEPT ![t] = IF c \in Viewers THEN batch[t] ELSE batch[t] \cap Sees[c]]
    BY <1>4 DEF NextClient
  <2>2. UNCHANGED <<phase, batch, cursor, got>>
    BY <1>4 DEF NextClient, session, conns
  <2>3. \A u \in Tasks, l \in Listeners : Owed(u, l)' \subseteq Owed(u, l)
    BY <1>0, <2>1, <2>2, Distinct DEF Types, Owed
  <2>. QED
    BY <1>0, <2>2, <2>3, OnceKept
<1>5. ASSUME NEW t \in Tasks, SendFails(t) \/ Resume(t) PROVE Once' /\ NothingTwice'
  <2>1. UNCHANGED <<phase, batch, cursor, got, left, turn>>
    BY <1>5 DEF SendFails, Resume, session, conns
  <2>2. due' = [due EXCEPT ![t] = {}] \/ UNCHANGED due
    BY <1>5 DEF SendFails, Resume, Fails
  <2>3. \A u \in Tasks, l \in Listeners : Owed(u, l)' \subseteq Owed(u, l)
    BY <1>0, <2>1, <2>2 DEF Types, Owed
  <2>. QED
    BY <1>0, <2>1, <2>3, OnceKept
<1>6. ASSUME NEW t \in Tasks, BroadcastEnds(t) PROVE Once' /\ NothingTwice'
  <2>1. Served(t) /\ Ends(t) /\ UNCHANGED <<due, cursor, got>>
    BY <1>6 DEF BroadcastEnds, session
  <2>2. \A u \in Tasks, l \in Listeners : Owed(u, l)' \subseteq Owed(u, l)
    BY <1>0, <2>1, Distinct DEF Served, Ends, Types, Owed
  <2>3. \A u \in Tasks : phase'[u] = "events" => phase[u] = "events" /\ batch'[u] = batch[u]
    BY <1>0, <2>1 DEF Ends, Types
  <2>. QED
    BY <1>0, <2>1, <2>2, <2>3, OnceKept
<1>7. ASSUME NEW t \in Tasks, PopNewEvents(t), Ends(t) PROVE Once' /\ NothingTwice'
  <2>1. Served(t) /\ UNCHANGED <<due, got>> /\ cursor' = logged
    BY <1>7 DEF PopNewEvents
  <2>2. \A u \in Tasks, l \in Listeners : Owed(u, l)' \subseteq Owed(u, l)
    BY <1>0, <1>7, <2>1, Distinct DEF Served, Ends, Types, Owed
  <2>3. \A u \in Tasks : phase'[u] = "events" => phase[u] = "events" /\ batch'[u] = batch[u]
    BY <1>0, <1>7 DEF Ends, Types
  <2>. QED
    BY <1>0, <2>1, <2>2, <2>3, OnceKept
<1>8. ASSUME NEW t \in Tasks, PopNewEvents(t), ~ Ends(t) PROVE Once' /\ NothingTwice'
  <2>1. /\ phase' = [phase EXCEPT ![t] = "events"] /\ left' = [left EXCEPT ![t] = listeners]
        /\ batch' = [batch EXCEPT ![t] = NewEvents] /\ UNCHANGED <<active, turn, due, got>>
        /\ cursor' = logged /\ due[t] = {}
    BY <1>8 DEF PopNewEvents, Served
  <2>2. NewEvents \cap (1..cursor) = {} /\ 1..cursor \subseteq 1..cursor'
    BY <1>0, <2>1, NewIsUnpopped
  <2>3. \A l \in Listeners : \A i \in 1..Len(got'[l]) : got'[l][i] \in 1..cursor'
    BY <1>0, <2>1, <2>2 DEF Once
  <2>4. ASSUME NEW u \in Tasks, u # t, phase[u] = "events" PROVE batch[u] \cap NewEvents = {}
    BY <1>0, <2>2, <2>4 DEF Phases, InStep
  <2>5. ASSUME NEW u \in Tasks, NEW w \in Tasks, u # w, phase'[u] = "events", phase'[w] = "events"
        PROVE  batch'[u] \cap batch'[w] = {}
    BY <1>0, <2>1, <2>4, <2>5 DEF Types, Once
  <2>6. ASSUME NEW u \in Tasks, NEW l \in Listeners, NEW e \in Owed(u, l)', NEW i \in 1..Len(got'[l])
        PROVE  got'[l][i] # e
    <3>1. CASE u = t
      <4>1. e \in NewEvents
        BY <1>0, <2>1, <2>6, <3>1 DEF Owed, Types
      <4>2. got'[l][i] \in 1..cursor
        BY <1>0, <2>1 DEF Once
      <4>. QED
        BY <2>2, <4>1, <4>2
    <3>2. CASE u # t
      <4>1. e \in Owed(u, l)
        BY <1>0, <2>1, <2>6, <3>2 DEF Owed, Types
      <4>. QED
        BY <1>0, <2>1, <4>1 DEF Once
    <3>. QED
      BY <3>1, <3>2
  <2>7. NothingTwice'
    BY <1>0, <2>1 DEF NothingTwice
  <2>. QED
    BY <2>3, <2>5, <2>6, <2>7 DEF Once
<1>9. ASSUME NEW t \in Tasks, Send(t) PROVE Once' /\ NothingTwice'
  <2>0. PICK c \in Clients : c = turn[t]
    BY <1>0, <1>9 DEF Send, Phases, InStep
  <2>1. PICK e \in due[t] :
          /\ due' = [due EXCEPT ![t] = due[t] \ {e}]
          /\ got' = [got EXCEPT ![c] = Append(got[c], IF c \in Viewers THEN Made(t, c) ELSE e)]
    BY <1>9, <2>0, Zenon DEF Send
  <2>2. UNCHANGED <<phase, left, turn, batch, cursor>>
    BY <1>9 DEF Send, session
  <2>3. \A u \in Tasks, l \in Listeners : Owed(u, l)' \subseteq Owed(u, l)
    BY <1>0, <2>1, <2>2 DEF Owed, Types
  <2>4. CASE c \in Viewers
    <3>1. \A l \in Listeners : got'[l] = got[l]
      BY <1>0, <2>1, <2>4, Distinct DEF Types
    <3>. QED
      BY <1>0, <2>2, <2>3, <3>1, OnceKept
  <2>5. CASE c \in Listeners
    <3>1. got' = [got EXCEPT ![c] = Append(got[c], e)]
      BY <2>1, <2>5, Distinct
    <3>2. /\ got[c] \in Seq(Nat) /\ e \in Nat
          /\ got'[c] = Append(got[c], e)
          /\ \A l \in Listeners : l # c => got'[l] = got[l]
      BY <1>0, <2>5, <3>1, Distinct DEF Types
    <3>3. e \in Owed(t, c)
      BY <2>0 DEF Owed
    <3>4. phase[t] = "events" /\ e \in batch[t]
      BY <1>0, <2>5, <3>3, OwedOfBatch
    <3>5. e \in 1..cursor
      BY <1>0, <3>4 DEF Phases, InStep
    <3>6. \A i \in 1..Len(got[c]) : got[c][i] # e /\ got[c][i] \in 1..cursor
      BY <1>0, <2>5, <3>3 DEF Once
    <3>7. \A i \in 1..Len(got'[c]) :
            \/ i \in 1..Len(got[c]) /\ got'[c][i] = got[c][i]
            \/ i = Len(got[c]) + 1 /\ got'[c][i] = e
      BY <3>2
    <3>8. \A l \in Listeners : \A i \in 1..Len(got'[l]) : got'[l][i] \in 1..cursor'
      <4>1. cursor' = cursor
        BY <2>2
      <4>2. \A i \in 1..Len(got'[c]) : got'[c][i] \in 1..cursor
        BY <3>5, <3>6, <3>7
      <4>3. \A l \in Listeners : l # c => \A i \in 1..Len(got'[l]) : got'[l][i] \in 1..cursor
        BY <1>0, <3>2 DEF Once
      <4>. QED
        BY <4>1, <4>2, <4>3
    <3>9. ASSUME NEW u \in Tasks, e \in Owed(u, c)' PROVE FALSE
      <4>1. e \in Owed(u, c)
        BY <2>3, <2>5, <3>9
      <4>2. phase[u] = "events" /\ e \in batch[u]
        BY <1>0, <2>5, <4>1, OwedOfBatch
      <4>3. u = t
        BY <1>0, <3>4, <4>2 DEF Once
      <4>4. e \notin due'[t] /\ c \notin left[t]
        BY <1>0, <2>0, <2>1, <3>4 DEF Types, Phases, InStep
      <4>. QED
        BY <2>2, <3>9, <4>3, <4>4 DEF Owed
    <3>10. ASSUME NEW u \in Tasks, NEW l \in Listeners, NEW f \in Owed(u, l)', NEW i \in 1..Len(got'[l])
           PROVE  got'[l][i] # f
      <4>1. f \in Owed(u, l)
        BY <2>3
      <4>2. \A n \in 1..Len(got[l]) : got[l][n] # f
        BY <1>0, <4>1 DEF Once
      <4>3. CASE l # c
        BY <3>2, <4>2, <4>3
      <4>4. CASE l = c
        BY <3>7, <3>9, <4>2, <4>4
      <4>. QED
        BY <4>3, <4>4
    <3>11. NothingTwice'
      <4>1. \A i, n \in 1..Len(got[c]) : got[c][i] = got[c][n] => i = n
        BY <1>0, <2>5 DEF NothingTwice
      <4>2. \A i, n \in 1..Len(got'[c]) : got'[c][i] = got'[c][n] => i = n
        BY <3>6, <3>7, <4>1
      <4>3. \A l \in Listeners : l # c => \A i, n \in 1..Len(got'[l]) : got'[l][i] = got'[l][n] => i = n
        BY <1>0, <3>2 DEF NothingTwice
      <4>. QED
        BY <4>2, <4>3 DEF NothingTwice
    <3>12. \A u, w \in Tasks :
             u # w /\ phase'[u] = "events" /\ phase'[w] = "events" => batch'[u] \cap batch'[w] = {}
      BY <1>0, <2>2 DEF Once
    <3>. QED
      BY <3>8, <3>10, <3>11, <3>12 DEF Once
  <2>. QED
    BY <2>4, <2>5 DEF Clients
<1>. QED
  BY <1>0, <1>1, <1>2, <1>3, <1>4, <1>5, <1>6, <1>7, <1>8, <1>9, EveryChange DEF Next, Proceeds

-----------------------------------------------------------------------------
(* Nothing missed.                                                           *)

(* What NothingMissed says of one event and one listener.                    *)
Covered(l, e) ==
  \/ \E i \in 1..Len(got[l]) : got[l][i] = e
  \/ e \in gone \cup NewEvents
  \/ \E t \in Tasks : e \in Owed(t, l)

(* While nothing is logged, it is enough that what is covered stays so.      *)
LEMMA MissedKept ==
  ASSUME NothingMissed, UNCHANGED logged,
         \A l \in listeners' : link'[l] # "closed" =>
           /\ l \in listeners /\ link[l] # "closed" /\ since'[l] = since[l]
           /\ \A e \in Sees[l] : Covered(l, e) => Covered(l, e)'
  PROVE  NothingMissed'
<1> SUFFICES ASSUME NEW l \in listeners', NEW e \in Sees[l], since'[l] < e, e <= logged', link'[l] # "closed"
             PROVE  Covered(l, e)'
  BY DEF NothingMissed, Covered
<1>1. Covered(l, e)
  BY DEF NothingMissed, Covered
<1>. QED
  BY <1>1

(* What is covered stays so when the connection was sent no less, no event   *)
(* leaves the log, and what is owed to it is owed still.                     *)
LEMMA CoveredKept ==
  ASSUME NEW l \in Listeners, NEW e \in Sees[l], Covered(l, e), got'[l] = got[l], UNCHANGED session,
         \A t \in Tasks : e \in Owed(t, l) => e \in Owed(t, l)'
  PROVE  Covered(l, e)'
BY DEF Covered, session, NewEvents, Larger

(* A popped event goes from what is to be popped to what is owed, and from   *)
(* there to what was sent, unless the link is closed.                        *)
LEMMA NextMissed ==
  ASSUME IInv, [Next]_vars
  PROVE  NothingMissed'
<1>0. Types /\ Phases /\ NothingMissed /\ listeners \subseteq Listeners
  BY DEF IInv, Types
<1>1. CASE UNCHANGED vars
  BY <1>0, <1>1 DEF vars, session, conns, tasks, NothingMissed, NewEvents, Larger, Owed
<1>2. CASE NothingToDo
  BY <1>0, <1>2 DEF NothingToDo, vars, session, conns, tasks, NothingMissed, NewEvents, Larger, Owed
<1>3. ASSUME NEW c \in Clients, Drain(c) \/ Close(c) \/ Disconnect(c) PROVE NothingMissed'
  <2>1. UNCHANGED <<session, since, got, tasks>> /\ listeners' \subseteq listeners
    BY <1>3 DEF Drain, Close, Disconnect
  <2>2. \A k \in Clients : link'[k] # "closed" => link[k] # "closed"
    BY <1>0, <1>3 DEF Drain, Close, Disconnect, Types
  <2>3. \A l \in Listeners : \A e \in Sees[l] : Covered(l, e) => Covered(l, e)'
    BY <2>1, CoveredKept DEF tasks, Owed
  <2>. QED
    BY <1>0, <2>1, <2>2, <2>3, MissedKept, Distinct DEF session
<1>4. ASSUME NEW v \in Viewers, ConnectViewer(v) PROVE NothingMissed'
  <2>1. UNCHANGED <<session, listeners, since, tasks>>
    BY <1>4 DEF ConnectViewer
  <2>2. \A l \in Listeners : link'[l] = link[l] /\ got'[l] = got[l]
    BY <1>0, <1>4, Distinct DEF ConnectViewer, Types
  <2>3. \A l \in Listeners : \A e \in Sees[l] : Covered(l, e) => Covered(l, e)'
    BY <2>1, <2>2, CoveredKept DEF tasks, Owed
  <2>. QED
    BY <1>0, <2>1, <2>2, <2>3, MissedKept DEF session
<1>5. ASSUME NEW k \in Listeners, ConnectListener(k) PROVE NothingMissed'
  <2>1. UNCHANGED <<session, viewers, got, tasks>>
    BY <1>5 DEF ConnectListener
  <2>2. /\ listeners' = listeners \cup {k} /\ since'[k] = logged
        /\ \A l \in Listeners : l # k => link'[l] = link[l] /\ since'[l] = since[l]
    BY <1>0, <1>5, Distinct DEF ConnectListener, Types
  <2>3. \A l \in Listeners : \A e \in Sees[l] : Covered(l, e) => Covered(l, e)'
    BY <2>1, CoveredKept DEF tasks, Owed
  <2> SUFFICES ASSUME NEW l \in listeners', NEW e \in Sees[l], since'[l] < e, e <= logged', link'[l] # "closed"
               PROVE  Covered(l, e)'
    BY DEF NothingMissed, Covered
  <2>4. CASE l = k
    <3>1. FALSE
      BY <1>0, <2>1, <2>2, <2>4, StreamsAssumption DEF session, Types, StreamsAssumption
    <3>. QED
      BY <3>1
  <2>5. CASE l # k
    <3>1. l \in listeners /\ since[l] < e /\ e <= logged /\ link[l] # "closed"
      BY <1>0, <2>1, <2>2, <2>5 DEF session
    <3>2. Covered(l, e)
      BY <1>0, <3>1 DEF NothingMissed, Covered
    <3>. QED
      BY <1>0, <2>3, <3>1, <3>2
  <2>. QED
    BY <2>4, <2>5
<1>6. ASSUME NEW t \in Tasks, SessionChanges(t) PROVE NothingMissed'
  <2>1. /\ UNCHANGED conns /\ phase[t] = "idle" /\ Broadcast(t)
        /\ gone \cup NewEvents \cup (logged + 1)..logged' \subseteq gone' \cup NewEvents'
    BY <1>6 DEF SessionChanges, Changes, Idle
  <2> SUFFICES ASSUME NEW l \in listeners', NEW e \in Sees[l], since'[l] < e, e <= logged', link'[l] # "closed"
               PROVE  Covered(l, e)'
    BY DEF NothingMissed, Covered
  <2>2. l \in listeners /\ l \in Listeners /\ since[l] < e /\ link[l] # "closed" /\ got'[l] = got[l]
    BY <1>0, <2>1 DEF conns
  <2>3. e \in 1..MaxEvents /\ logged \in Nat /\ logged' \in Nat
    BY <1>0, <1>6, <2>2, StreamsAssumption DEF StreamsAssumption, SessionChanges, Types
  <2>4. CASE e > logged
    <3>1. e \in gone' \cup NewEvents'
      BY <2>1, <2>3, <2>4
    <3>. QED
      BY <3>1 DEF Covered
  <2>5. CASE e <= logged
    <3>1. Covered(l, e)
      BY <1>0, <2>2, <2>5 DEF NothingMissed, Covered
    <3>2. ASSUME NEW u \in Tasks, e \in Owed(u, l) PROVE e \in Owed(u, l)'
      <4>1. u # t
        BY <1>0, <2>1, <3>2 DEF Owed, Phases, InStep
      <4>. QED
        BY <1>0, <2>1, <3>2, <4>1 DEF Broadcast, Types, Owed
    <3>. QED
      BY <2>1, <2>2, <3>1, <3>2 DEF Covered
  <2>. QED
    BY <2>3, <2>4, <2>5
<1>7. ASSUME NEW t \in Tasks, NextClient(t) PROVE NothingMissed'
  <2>1. PICK c \in left[t] :
          /\ turn' = [turn EXCEPT ![t] = c]
          /\ left' = [left EXCEPT ![t] = left[t] \ {c}]
          /\ due' = [due EXCEPT ![t] = IF c \in Viewers THEN batch[t] ELSE batch[t] \cap Sees[c]]
    BY <1>7 DEF NextClient
  <2>2. UNCHANGED <<session, conns, batch>> /\ due[t] = {}
    BY <1>7 DEF NextClient
  <2>3. \A l \in Listeners, u \in Tasks : Owed(u, l) \subseteq Owed(u, l)'
    BY <1>0, <2>1, <2>2, Distinct DEF Types, Owed
  <2>4. \A l \in Listeners : \A e \in Sees[l] : Covered(l, e) => Covered(l, e)'
    BY <2>2, <2>3, CoveredKept DEF conns
  <2>. QED
    BY <1>0, <2>2, <2>4, MissedKept DEF session, conns
<1>8. ASSUME NEW t \in Tasks, SendFails(t) \/ Resume(t) PROVE NothingMissed'
  <2>1. UNCHANGED <<session, conns, left, turn, batch>>
    BY <1>8 DEF SendFails, Resume
  <2>2. \/ link[turn[t]] = "closed" /\ due' = [due EXCEPT ![t] = {}]
        \/ UNCHANGED due
    BY <1>8 DEF SendFails, Resume, Fails
  <2>3. \A l \in Listeners, u \in Tasks : link[l] # "closed" => Owed(u, l) \subseteq Owed(u, l)'
    BY <1>0, <2>1, <2>2 DEF Types, Owed
  <2>4. \A l \in Listeners : link[l] # "closed" => \A e \in Sees[l] : Covered(l, e) => Covered(l, e)'
    BY <2>1, <2>3, CoveredKept DEF conns
  <2>. QED
    BY <1>0, <2>1, <2>4, MissedKept DEF session, conns
<1>9. ASSUME NEW t \in Tasks, Send(t) PROVE NothingMissed'
  <2>0. PICK c \in Clients : c = turn[t]
    BY <1>0, <1>9 DEF Send, Phases, InStep
  <2>1. PICK d \in due[t] :
          /\ due' = [due EXCEPT ![t] = due[t] \ {d}]
          /\ got' = [got EXCEPT ![c] = Append(got[c], IF c \in Viewers THEN Made(t, c) ELSE d)]
    BY <1>9, <2>0, Zenon DEF Send
  <2>2. UNCHANGED <<session, listeners, since, left, turn, batch>> /\ link[c] # "closed"
    BY <1>9, <2>0 DEF Send
  <2>3. link' = link \/ link' = [link EXCEPT ![c] = "stalled"]
    BY <1>9, <2>0 DEF Send
  <2>4. \A l \in Listeners : link'[l] # "closed" => link[l] # "closed"
    BY <1>0, <2>2, <2>3, Distinct DEF Types
  <2>5. ASSUME NEW l \in Listeners, NEW e \in Sees[l], Covered(l, e) PROVE Covered(l, e)'
    <3>1. CASE l # c
      <4>1. got'[l] = got[l]
        BY <1>0, <2>1, <3>1, Distinct DEF Types
      <4>2. \A u \in Tasks : Owed(u, l) \subseteq Owed(u, l)'
        BY <1>0, <2>0, <2>1, <2>2, <3>1 DEF Types, Owed
      <4>. QED
        BY <2>2, <2>5, <4>1, <4>2, CoveredKept
    <3>2. CASE l = c
      <4>1. got[l] \in Seq(Nat) /\ d \in Nat /\ got'[l] = Append(got[l], d)
        BY <1>0, <2>1, <3>2, Distinct DEF Types
      <4>2. /\ \A i \in 1..Len(got[l]) : i \in 1..Len(got'[l]) /\ got'[l][i] = got[l][i]
            /\ Len(got[l]) + 1 \in 1..Len(got'[l]) /\ got'[l][Len(got[l]) + 1] = d
        BY <4>1
      <4>3. \A u \in Tasks : e # d /\ e \in Owed(u, l) => e \in Owed(u, l)'
        BY <1>0, <2>0, <2>1, <2>2 DEF Types, Owed
      <4>4. CASE e = d
        BY <4>2, <4>4 DEF Covered
      <4>5. CASE e # d
        <5>1. CASE \E i \in 1..Len(got[l]) : got[l][i] = e
          BY <4>2, <5>1 DEF Covered
        <5>2. CASE e \in gone \cup NewEvents
          BY <2>2, <5>2 DEF Covered, session, NewEvents, Larger
        <5>3. CASE \E u \in Tasks : e \in Owed(u, l)
          BY <4>3, <4>5, <5>3 DEF Covered
        <5>. QED
          BY <2>5, <5>1, <5>2, <5>3 DEF Covered
      <4>. QED
        BY <4>4, <4>5
    <3>. QED
      BY <3>1, <3>2
  <2>. QED
    BY <1>0, <2>2, <2>4, <2>5, MissedKept DEF session
<1>10. ASSUME NEW t \in Tasks, Served(t), NEW l \in Listeners, NEW u \in Tasks, NEW e \in Owed(u, l)
       PROVE  u # t
  BY <1>10 DEF Served, Owed
<1>11. ASSUME NEW t \in Tasks, PopNewEvents(t) PROVE NothingMissed'
  <2>1. Served(t) /\ UNCHANGED <<logged, floor, gone, listeners, link, since, got, due>>
    BY <1>11 DEF PopNewEvents
  <2>2. /\ turn' = [turn EXCEPT ![t] = turn'[t]] /\ left' = [left EXCEPT ![t] = left'[t]]
        /\ batch' = [batch EXCEPT ![t] = batch'[t]]
    BY <1>0, <1>11 DEF PopNewEvents, Ends, Types
  <2>3. \/ NewEvents = {} \/ listeners = {}
        \/ left'[t] = listeners /\ batch'[t] = NewEvents
    BY <1>0, <1>11 DEF PopNewEvents, Types
  <2>4. ASSUME NEW l \in listeners, NEW e \in Sees[l], Covered(l, e) PROVE Covered(l, e)'
    <3>1. ASSUME NEW u \in Tasks, e \in Owed(u, l) PROVE e \in Owed(u, l)'
      <4>1. u # t
        BY <1>0, <1>10, <2>1, <3>1
      <4>. QED
        BY <1>0, <2>1, <2>2, <3>1, <4>1 DEF Types, Owed
    <3>2. CASE e \in NewEvents
      <4>1. e \in Owed(t, l)'
        BY <2>3, <3>2 DEF Owed
      <4>. QED
        BY <4>1 DEF Covered
    <3>. QED
      BY <2>1, <2>4, <3>1, <3>2 DEF Covered
  <2>. QED
    BY <1>0, <2>1, <2>4, MissedKept
<1>12. ASSUME NEW t \in Tasks, BroadcastEnds(t) PROVE NothingMissed'
  <2>1. /\ Served(t) /\ UNCHANGED <<session, link, since, got, due>> /\ listeners' \subseteq listeners
        /\ turn' = [turn EXCEPT ![t] = NoOne] /\ batch' = [batch EXCEPT ![t] = {}] /\ UNCHANGED left
    BY <1>12 DEF BroadcastEnds, Ends
  <2>2. ASSUME NEW l \in Listeners, NEW u \in Tasks, NEW e \in Owed(u, l) PROVE e \in Owed(u, l)'
    <3>1. u # t
      BY <1>10, <2>1
    <3>. QED
      BY <1>0, <2>1, <3>1 DEF Types, Owed
  <2>3. \A l \in Listeners : \A e \in Sees[l] : Covered(l, e) => Covered(l, e)'
    BY <2>1, <2>2, CoveredKept
  <2>. QED
    BY <1>0, <2>1, <2>3, MissedKept DEF session
<1>. QED
  BY <1>1, <1>2, <1>3, <1>4, <1>5, <1>6, <1>7, <1>8, <1>9, <1>11, <1>12, EveryChange, <1>0 DEF Next, Proceeds

-----------------------------------------------------------------------------
(* Every change shown.                                                       *)

(* What Shows says of one viewer.                                            *)
Shown(v) == \E i \in 1..Len(got[v]) : got[v][i] = version

IsShown(t, v) ==
  /\ phase[t] = "state"
  /\ v \in left[t] \/ (turn[t] = v /\ due[t] # {})
  /\ payload[t][Kind[v]] = 0 \/ payload[t][Kind[v]] = version

(* While the session does not change, it is enough that a broadcast that     *)
(* shows the state still does, or has.                                       *)
LEMMA ShowsKept ==
  ASSUME Shows, UNCHANGED version,
         \A v \in viewers' : link'[v] # "closed" =>
           /\ v \in viewers /\ link[v] # "closed"
           /\ Shown(v) => Shown(v)'
           /\ \A t \in Tasks : IsShown(t, v) => IsShown(t, v)' \/ Shown(v)'
  PROVE  Shows'
<1> SUFFICES ASSUME NEW v \in viewers', link'[v] # "closed"
             PROVE  Shown(v)' \/ \E t \in Tasks : IsShown(t, v)'
  BY DEF Shows, Shown, IsShown
<1>1. Shown(v) \/ \E t \in Tasks : IsShown(t, v)
  BY DEF Shows, Shown, IsShown
<1>. QED
  BY <1>1

(* The broadcast of the newest change shows it to every viewer it reaches:   *)
(* it makes its snapshots after the change, and no other change comes        *)
(* without a broadcast of its own.                                           *)
LEMMA NextShows ==
  ASSUME IInv, [Next]_vars
  PROVE  Shows'
<1>0. Types /\ Phases /\ Shows /\ viewers \subseteq Viewers
  BY DEF IInv, Types
<1>1. CASE UNCHANGED vars
  BY <1>0, <1>1 DEF vars, session, conns, tasks, Shows
<1>2. CASE NothingToDo
  BY <1>0, <1>2 DEF NothingToDo, vars, session, conns, tasks, Shows
<1>3. ASSUME NEW c \in Clients, Drain(c) \/ Close(c) \/ Disconnect(c) PROVE Shows'
  <2>1. UNCHANGED <<session, got, tasks>> /\ viewers' \subseteq viewers
    BY <1>3 DEF Drain, Close, Disconnect
  <2>2. \A k \in Clients : link'[k] # "closed" => link[k] # "closed"
    BY <1>0, <1>3 DEF Drain, Close, Disconnect, Types
  <2>. QED
    BY <1>0, <2>1, <2>2, ShowsKept, Distinct DEF session, tasks, Shown, IsShown
<1>4. ASSUME NEW w \in Viewers, ConnectViewer(w) PROVE Shows'
  <2>1. UNCHANGED <<session, tasks>> /\ viewers' = viewers \cup {w} /\ got'[w] = <<version>>
    BY <1>0, <1>4, Distinct DEF ConnectViewer, Types
  <2>2. \A v \in Viewers : v # w => got'[v] = got[v] /\ link'[v] = link[v]
    BY <1>0, <1>4, Distinct DEF ConnectViewer, Types
  <2> SUFFICES ASSUME NEW v \in viewers', link'[v] # "closed"
               PROVE  Shown(v)' \/ \E t \in Tasks : IsShown(t, v)'
    BY DEF Shows, Shown, IsShown
  <2>3. CASE v = w
    BY <2>1, <2>3 DEF session, Shown
  <2>4. CASE v # w
    <3>1. v \in viewers /\ v \in Viewers /\ link[v] # "closed"
      BY <1>0, <2>1, <2>2, <2>4
    <3>2. Shown(v) \/ \E t \in Tasks : IsShown(t, v)
      BY <1>0, <3>1 DEF Shows, Shown, IsShown
    <3>. QED
      BY <2>1, <2>2, <2>4, <3>1, <3>2 DEF session, tasks, Shown, IsShown
  <2>. QED
    BY <2>3, <2>4
<1>5. ASSUME NEW k \in Listeners, ConnectListener(k) PROVE Shows'
  <2>1. UNCHANGED <<session, viewers, got, tasks>>
    BY <1>5 DEF ConnectListener
  <2>2. \A v \in Viewers : link'[v] = link[v]
    BY <1>0, <1>5, Distinct DEF ConnectListener, Types
  <2>. QED
    BY <1>0, <2>1, <2>2, ShowsKept DEF session, tasks, Shown, IsShown
<1>6. ASSUME NEW t \in Tasks, SessionChanges(t) PROVE Shows'
  <2>1. UNCHANGED conns /\ Broadcast(t)
    BY <1>6 DEF SessionChanges, Changes
  <2>2. /\ phase'[t] = "state" /\ left'[t] = viewers' /\ payload'[t] = [k \in Kinds |-> 0]
    BY <1>0, <2>1 DEF Broadcast, conns, Types
  <2>3. \A v \in viewers' : Kind[v] \in Kinds
    BY <1>0, <2>1, StreamsAssumption DEF StreamsAssumption, conns
  <2>4. \A v \in viewers' : payload'[t][Kind[v]] = 0 \/ payload'[t][Kind[v]] = version'
    BY <2>2, <2>3
  <2>. QED
    BY <2>2, <2>4 DEF Shows
<1>7. ASSUME NEW t \in Tasks, NextClient(t) PROVE Shows'
  <2>1. PICK c \in left[t] :
          /\ turn' = [turn EXCEPT ![t] = c]
          /\ left' = [left EXCEPT ![t] = left[t] \ {c}]
          /\ due' = [due EXCEPT ![t] = IF c \in Viewers THEN batch[t] ELSE batch[t] \cap Sees[c]]
    BY <1>7 DEF NextClient
  <2>2. UNCHANGED <<session, conns, phase, payload>> /\ due[t] = {}
    BY <1>7 DEF NextClient
  <2>3. ASSUME NEW v \in Viewers, NEW u \in Tasks, IsShown(u, v) PROVE IsShown(u, v)'
    <3>1. CASE u # t
      BY <1>0, <2>1, <2>2, <2>3, <3>1 DEF session, Types, IsShown
    <3>2. CASE u = t
      <4>1. v \in left[t] /\ phase[t] = "state" /\ batch[t] = {Snapshot}
        BY <1>0, <2>2, <2>3, <3>2 DEF IsShown, Phases, InStep
      <4>2. left'[t] = left[t] \ {c} /\ turn'[t] = c
        BY <1>0, <2>1 DEF Types
      <4>3. v = c => due'[t] = {Snapshot}
        BY <1>0, <2>1, <4>1 DEF Types
      <4>. QED
        BY <2>2, <2>3, <3>2, <4>1, <4>2, <4>3 DEF session, IsShown
    <3>. QED
      BY <3>1, <3>2
  <2>. QED
    BY <1>0, <2>2, <2>3, ShowsKept DEF session, conns, Shown
<1>8. ASSUME NEW t \in Tasks, SendFails(t) \/ Resume(t) PROVE Shows'
  <2>1. UNCHANGED <<session, conns, phase, left, turn, payload>>
    BY <1>8 DEF SendFails, Resume
  <2>2. \/ link[turn[t]] = "closed" /\ due' = [due EXCEPT ![t] = {}]
        \/ UNCHANGED due
    BY <1>8 DEF SendFails, Resume, Fails
  <2>3. ASSUME NEW v \in Viewers, NEW u \in Tasks, link[v] # "closed", IsShown(u, v) PROVE IsShown(u, v)'
    <3>1. turn[u] = v => due'[u] = due[u]
      BY <1>0, <2>2, <2>3 DEF Types
    <3>. QED
      BY <2>1, <2>3, <3>1 DEF session, IsShown
  <2>. QED
    BY <1>0, <2>1, <2>3, ShowsKept DEF session, conns, Shown
<1>9. ASSUME NEW t \in Tasks, Send(t) PROVE Shows'
  <2>0. PICK c \in Clients : c = turn[t]
    BY <1>0, <1>9 DEF Send, Phases, InStep
  <2>1. PICK d \in due[t] :
          /\ due' = [due EXCEPT ![t] = due[t] \ {d}]
          /\ got' = [got EXCEPT ![c] = Append(got[c], IF c \in Viewers THEN Made(t, c) ELSE d)]
    BY <1>9, <2>0, Zenon DEF Send
  <2>2. /\ UNCHANGED <<session, viewers, phase, left, turn>> /\ link[c] # "closed"
        /\ payload' = IF c \in Viewers THEN [payload EXCEPT ![t][Kind[c]] = Made(t, c)] ELSE payload
    BY <1>9, <2>0 DEF Send
  <2>3. link' = link \/ link' = [link EXCEPT ![c] = "stalled"]
    BY <1>9, <2>0 DEF Send
  <2>4. \A v \in Viewers : link'[v] # "closed" => link[v] # "closed"
    BY <1>0, <2>2, <2>3, Distinct DEF Types
  <2>5. ASSUME NEW v \in Viewers, Shown(v) PROVE Shown(v)'
    <3>1. CASE v # c
      BY <1>0, <2>1, <2>2, <2>5, <3>1, Distinct DEF Types, session, Shown
    <3>2. CASE v = c
      <4>1. got[v] \in Seq(Nat) /\ got'[v] = Append(got[v], Made(t, v))
        BY <1>0, <2>1, <3>2, Distinct DEF Types
      <4>2. \A i \in 1..Len(got[v]) : i \in 1..Len(got'[v]) /\ got'[v][i] = got[v][i]
        BY <4>1
      <4>. QED
        BY <2>2, <2>5, <4>2 DEF session, Shown
    <3>. QED
      BY <3>1, <3>2
  <2>6. ASSUME NEW v \in Viewers, NEW u \in Tasks, IsShown(u, v), u # t PROVE IsShown(u, v)'
    <3>1. payload'[u] = payload[u] /\ due'[u] = due[u]
      BY <1>0, <2>1, <2>2, <2>6 DEF Types
    <3>. QED
      BY <2>2, <2>6, <3>1 DEF session, IsShown
  <2>7. ASSUME NEW v \in Viewers, IsShown(t, v) PROVE IsShown(t, v)' \/ Shown(v)'
    <3>1. c \in Viewers
      BY <1>0, <2>0, <2>7, Distinct DEF IsShown, Phases, InStep
    <3>2. Kind[v] \in Kinds /\ Kind[c] \in Kinds /\ payload[t] \in [Kinds -> 0..version]
      BY <1>0, <3>1, StreamsAssumption DEF StreamsAssumption, Types
    <3>3. CASE v = c
      <4>1. Made(t, v) = version
        BY <2>7 DEF IsShown, Made
      <4>2. got[v] \in Seq(Nat) /\ version \in Nat /\ got'[v] = Append(got[v], version)
        BY <1>0, <2>1, <3>3, <4>1, StreamsAssumption, Distinct DEF StreamsAssumption, Types
      <4>3. Len(got[v]) + 1 \in 1..Len(got'[v]) /\ got'[v][Len(got[v]) + 1] = version
        BY <4>2
      <4>. QED
        BY <2>2, <4>3 DEF session, Shown
    <3>4. CASE v # c
      <4>1. v \in left[t]
        BY <2>0, <2>7, <3>4 DEF IsShown
      <4>2. payload'[t] = [payload[t] EXCEPT ![Kind[c]] = Made(t, c)]
        BY <1>0, <2>2, <3>1 DEF Types
      <4>3. payload'[t][Kind[v]] = 0 \/ payload'[t][Kind[v]] = version
        BY <2>7, <3>2, <4>2 DEF IsShown, Made
      <4>4. phase'[t] = phase[t] /\ left'[t] = left[t]
        BY <2>2
      <4>5. IsShown(t, v)'
        BY <2>7, <4>1, <4>3, <4>4, <2>2 DEF session, IsShown
      <4>. QED
        BY <4>5
    <3>. QED
      BY <3>3, <3>4
  <2>. QED
    BY <1>0, <2>2, <2>4, <2>5, <2>6, <2>7, ShowsKept DEF session
<1>10. ASSUME NEW t \in Tasks, PopNewEvents(t) PROVE Shows'
  <2>1. Served(t) /\ UNCHANGED <<version, link, got, due, payload>> /\ viewers' \subseteq viewers
    BY <1>10 DEF PopNewEvents
  <2>2. /\ turn' = [turn EXCEPT ![t] = turn'[t]] /\ left' = [left EXCEPT ![t] = left'[t]]
        /\ phase' = [phase EXCEPT ![t] = phase'[t]]
    BY <1>0, <1>10 DEF PopNewEvents, Ends, Types
  <2>3. \A v \in Viewers, u \in Tasks : IsShown(u, v) => IsShown(u, v)'
    BY <1>0, <2>1, <2>2 DEF Served, Types, IsShown
  <2>. QED
    BY <1>0, <2>1, <2>3, ShowsKept DEF Shown
<1>11. ASSUME NEW t \in Tasks, BroadcastEnds(t) PROVE Shows'
  <2>1. /\ Served(t) /\ UNCHANGED <<version, viewers, link, got, due, payload, left>>
        /\ turn' = [turn EXCEPT ![t] = NoOne] /\ phase' = [phase EXCEPT ![t] = "idle"]
    BY <1>11 DEF BroadcastEnds, Ends, session
  <2>2. \A v \in Viewers, u \in Tasks : IsShown(u, v) => IsShown(u, v)'
    BY <1>0, <2>1 DEF Served, Types, IsShown
  <2>. QED
    BY <1>0, <2>1, <2>2, ShowsKept DEF Shown
<1>. QED
  BY <1>0, <1>1, <1>2, <1>3, <1>4, <1>5, <1>6, <1>7, <1>8, <1>9, <1>10, <1>11, EveryChange DEF Next, Proceeds

-----------------------------------------------------------------------------
(* The theorems.                                                             *)

(* The invariant holds in every state.                                       *)
LEMMA SpecIInv == Spec => []IInv
<1>1. IInv /\ [Next]_vars => IInv'
  <2> SUFFICES ASSUME IInv, [Next]_vars PROVE IInv'
    OBVIOUS
  <2>. QED
    BY NextTypes, NextPhases, NextOnce, NextMissed, NextShows DEF IInv
<1>. QED
  BY InitIInv, <1>1, PTL DEF Spec

(* The type invariant: among the rest, the task that runs is in a broadcast, *)
(* and what is popped was logged.                                            *)
THEOREM TypesHold == Spec => []TypeOK
<1>1. IInv => TypeOK
  BY Distinct DEF IInv, Types, Phases, InStep, TypeOK
<1>. QED
  BY SpecIInv, <1>1, PTL

(* However broadcasts overlap, and whatever the log loses, no listener is    *)
(* sent an event twice (pop_new_events).                                     *)
THEOREM NothingTwiceHolds == Spec => []NothingTwice
<1>1. IInv => NothingTwice
  BY DEF IInv
<1>. QED
  BY SpecIInv, <1>1, PTL

(* An event logged while a listener is connected is sent to it, will be, or  *)
(* left the log before any broadcast popped it (broadcast_events).           *)
THEOREM NothingMissedHolds == Spec => []NothingMissed
<1>1. IInv => NothingMissed
  BY DEF IInv
<1>. QED
  BY SpecIInv, <1>1, PTL

(* Once all broadcasts are over every viewer has been sent the state as it   *)
(* is (ConnectionManager.broadcast).                                         *)
THEOREM EveryChangeShownHolds == Spec => []EveryChangeShown
<1>1. IInv => EveryChangeShown
  BY DEF IInv, Shows, EveryChangeShown
<1>. QED
  BY SpecIInv, <1>1, PTL

-----------------------------------------------------------------------------
(* Oldest first.  The streams do not promise it: two broadcasts of events    *)
(* may overlap, and the run OldestFirst shows what a listener then gets.     *)
(* The overlap is all that is wrong.                                         *)

(* At most one broadcast of events is in progress.                           *)
OneAtATime == \A t, u \in Tasks : phase[t] = "events" /\ phase[u] = "events" => t = u

(* What a listener was sent is in order, and comes before what it is owed.   *)
Sorted ==
  /\ OldestFirst
  /\ \A t \in Tasks, l \in Listeners : \A e \in Owed(t, l) : \A i \in 1..Len(got[l]) : got[l][i] < e

(* While nothing is sent and nobody is owed more, the order stays.           *)
LEMMA SortedKept ==
  ASSUME Sorted, \A l \in Listeners : got'[l] = got[l],
         \A t \in Tasks, l \in Listeners : Owed(t, l)' \subseteq Owed(t, l)
  PROVE  Sorted'
BY DEF Sorted, OldestFirst

(* Events are popped when none is owed to anybody, and sent in their order.  *)
LEMMA NextSorted ==
  ASSUME IInv, OneAtATime, OneAtATime', Sorted, [Next]_vars
  PROVE  Sorted'
<1>1. /\ Types /\ Phases /\ Once /\ cursor \in Nat /\ logged \in Nat /\ cursor <= logged
      /\ \A t \in Tasks : due[t] \subseteq Nat
  BY DEF IInv, Types
<1>2. CASE \/ \E v \in Viewers : ConnectViewer(v)
           \/ \E l \in Listeners : ConnectListener(l)
           \/ \E c \in Clients : Drain(c) \/ Close(c) \/ Disconnect(c)
           \/ NothingToDo
           \/ UNCHANGED vars
  <2>1. ASSUME NEW v \in Viewers, ConnectViewer(v) PROVE \A l \in Listeners : got'[l] = got[l]
    BY <1>1, <2>1, Distinct DEF ConnectViewer, Types
  <2>2. UNCHANGED tasks /\ \A l \in Listeners : got'[l] = got[l]
    BY <1>2, <2>1 DEF ConnectViewer, ConnectListener, Drain, Close, Disconnect, NothingToDo, vars, session, conns
  <2>. QED
    BY <2>2, SortedKept DEF tasks, Owed
<1>3. ASSUME NEW t \in Tasks, SessionChanges(t) PROVE Sorted'
  <2>1. /\ UNCHANGED <<got, turn, due>> /\ left' = [left EXCEPT ![t] = viewers]
        /\ batch' = [batch EXCEPT ![t] = {Snapshot}]
    BY <1>3 DEF SessionChanges, Changes, Broadcast, conns
  <2>2. ASSUME NEW l \in Listeners PROVE l \notin viewers
    BY <1>1, Distinct DEF Types
  <2>3. \A u \in Tasks, l \in Listeners : Owed(u, l)' \subseteq Owed(u, l)
    BY <1>1, <2>1, <2>2 DEF Types, Owed
  <2>. QED
    BY <2>1, <2>3, SortedKept
<1>4. ASSUME NEW t \in Tasks, NextClient(t) PROVE Sorted'
  <2>1. PICK c \in left[t] :
          /\ turn' = [turn EXCEPT ![t] = c]
          /\ left' = [left EXCEPT ![t] = left[t] \ {c}]
          /\ due' = [due EXCEPT ![t] = IF c \in Viewers THEN batch[t] ELSE batch[t] \cap Sees[c]]
    BY <1>4 DEF NextClient
  <2>2. UNCHANGED <<batch, got>>
    BY <1>4 DEF NextClient, conns
  <2>3. \A u \in Tasks, l \in Listeners : Owed(u, l)' \subseteq Owed(u, l)
    BY <1>1, <2>1, <2>2, Distinct DEF Types, Owed
  <2>. QED
    BY <2>2, <2>3, SortedKept
<1>5. ASSUME NEW t \in Tasks, SendFails(t) \/ Resume(t) PROVE Sorted'
  <2>1. UNCHANGED <<batch, got, left, turn>>
    BY <1>5 DEF SendFails, Resume, conns
  <2>2. due' = [due EXCEPT ![t] = {}] \/ UNCHANGED due
    BY <1>5 DEF SendFails, Resume, Fails
  <2>3. \A u \in Tasks, l \in Listeners : Owed(u, l)' \subseteq Owed(u, l)
    BY <1>1, <2>1, <2>2 DEF Types, Owed
  <2>. QED
    BY <2>1, <2>3, SortedKept
<1>6. ASSUME NEW t \in Tasks, BroadcastEnds(t) \/ (PopNewEvents(t) /\ Ends(t)) PROVE Sorted'
  <2>1. Served(t) /\ Ends(t) /\ UNCHANGED <<due, got>>
    BY <1>6 DEF BroadcastEnds, PopNewEvents
  <2>2. \A u \in Tasks, l \in Listeners : Owed(u, l)' \subseteq Owed(u, l)
    BY <1>1, <2>1, Distinct DEF Served, Ends, Types, Owed
  <2>. QED
    BY <2>1, <2>2, SortedKept
<1>7. ASSUME NEW t \in Tasks, PopNewEvents(t), ~ Ends(t) PROVE Sorted'
  <2>1. /\ phase' = [phase EXCEPT ![t] = "events"] /\ left' = [left EXCEPT ![t] = listeners]
        /\ batch' = [batch EXCEPT ![t] = NewEvents] /\ UNCHANGED <<turn, due, got>>
        /\ due[t] = {}
    BY <1>7 DEF PopNewEvents, Served
  <2>2. ASSUME NEW u \in Tasks, NEW l \in Listeners, NEW e \in Owed(u, l)', NEW i \in 1..Len(got'[l])
        PROVE  got'[l][i] < e
    <3>1. CASE u = t
      <4>1. e \in NewEvents /\ NewEvents = (Larger(floor, cursor) + 1)..logged
        BY <1>1, <2>1, <2>2, <3>1 DEF Owed, Types, NewEvents
      <4>2. got'[l][i] \in 1..cursor
        BY <1>1, <2>1 DEF Once
      <4>3. floor \in Nat
        BY <1>1 DEF Types
      <4>. QED
        BY <1>1, <4>1, <4>2, <4>3 DEF Larger
    <3>2. CASE u # t
      <4>1. e \in Owed(u, l)
        BY <1>1, <2>1, <2>2, <3>2 DEF Owed, Types
      <4>2. phase[u] = "events"
        BY <1>1, <4>1, OwedOfBatch
      <4>3. phase'[u] = "events" /\ phase'[t] = "events"
        BY <1>1, <2>1, <3>2, <4>2 DEF Types
      <4>. QED
        BY <3>2, <4>3 DEF OneAtATime
    <3>. QED
      BY <3>1, <3>2
  <2>. QED
    BY <2>1, <2>2 DEF Sorted, OldestFirst
<1>8. ASSUME NEW t \in Tasks, Send(t) PROVE Sorted'
  <2>1. PICK c \in Clients : c = turn[t]
    BY <1>1, <1>8 DEF Send, Phases, InStep
  <2>2. PICK e \in due[t] :
          /\ \A f \in due[t] : e <= f
          /\ due' = [due EXCEPT ![t] = due[t] \ {e}]
          /\ got' = [got EXCEPT ![c] = Append(got[c], IF c \in Viewers THEN Made(t, c) ELSE e)]
    BY <1>8, <2>1, Zenon DEF Send
  <2>3. UNCHANGED <<phase, left, turn, batch>>
    BY <1>8 DEF Send
  <2>4. \A u \in Tasks, l \in Listeners : Owed(u, l)' \subseteq Owed(u, l)
    BY <1>1, <2>2, <2>3 DEF Owed, Types
  <2>5. CASE c \in Viewers
    <3>1. \A l \in Listeners : got'[l] = got[l]
      BY <1>1, <2>2, <2>5, Distinct DEF Types
    <3>. QED
      BY <2>4, <3>1, SortedKept
  <2>6. CASE c \in Listeners
    <3>1. got' = [got EXCEPT ![c] = Append(got[c], e)]
      BY <2>2, <2>6, Distinct
    <3>2. /\ got[c] \in Seq(Nat) /\ e \in Nat
          /\ got'[c] = Append(got[c], e)
          /\ \A l \in Listeners : l # c => got'[l] = got[l]
      BY <1>1, <2>6, <3>1, Distinct DEF Types
    <3>3. e \in Owed(t, c)
      BY <2>1 DEF Owed
    <3>4. \A i \in 1..Len(got[c]) : got[c][i] < e /\ got[c][i] \in Nat
      BY <2>6, <3>2, <3>3 DEF Sorted
    <3>5. \A i \in 1..Len(got'[c]) :
            \/ i \in 1..Len(got[c]) /\ got'[c][i] = got[c][i]
            \/ i = Len(got[c]) + 1 /\ got'[c][i] = e
      BY <3>2
    <3>6. phase[t] = "events"
      BY <1>1, <2>6, <3>3, OwedOfBatch
    <3>7. ASSUME NEW u \in Tasks, NEW f \in Owed(u, c)' PROVE e < f /\ f \in Nat
      <4>1. f \in Owed(u, c)
        BY <2>4, <2>6, <3>7
      <4>2. u = t
        BY <1>1, <2>6, <3>6, <4>1, OwedOfBatch DEF OneAtATime
      <4>3. c \notin left[t]
        BY <1>1, <2>1, <3>6 DEF Phases, InStep
      <4>4. f \in due[t] /\ f # e
        BY <1>1, <2>2, <2>3, <3>7, <4>2, <4>3 DEF Owed, Types
      <4>. QED
        BY <1>1, <2>2, <3>2, <4>4
    <3>8. OldestFirst'
      <4>1. \A i, n \in 1..Len(got[c]) : i < n => got[c][i] < got[c][n]
        BY <2>6 DEF Sorted, OldestFirst
      <4>2. Len(got[c]) \in Nat /\ Len(got'[c]) = Len(got[c]) + 1
        BY <3>2
      <4>3. \A i, n \in 1..Len(got'[c]) : i < n => got'[c][i] < got'[c][n]
        BY <3>4, <3>5, <4>1, <4>2
      <4>4. \A l \in Listeners : l # c => \A i, n \in 1..Len(got'[l]) : i < n => got'[l][i] < got'[l][n]
        BY <3>2 DEF Sorted, OldestFirst
      <4>. QED
        BY <4>3, <4>4 DEF OldestFirst
    <3>9. ASSUME NEW u \in Tasks, NEW l \in Listeners, NEW f \in Owed(u, l)', NEW i \in 1..Len(got'[l])
          PROVE  got'[l][i] < f
      <4>1. CASE l = c
        <5>1. e < f /\ f \in Nat
          BY <3>7, <3>9, <4>1
        <5>2. got'[c][i] = e \/ (got'[c][i] < e /\ got'[c][i] \in Nat)
          BY <3>4, <3>5, <3>9, <4>1
        <5>3. got'[c][i] < f
          <6>1. e \in Nat
            BY <3>2
          <6>. QED
            BY <5>1, <5>2, <6>1
        <5>. QED
          BY <4>1, <5>3
      <4>2. CASE l # c
        <5>1. f \in Owed(u, l) /\ got'[l] = got[l]
          BY <2>4, <3>2, <3>9, <4>2
        <5>. QED
          BY <3>9, <5>1 DEF Sorted
      <4>. QED
        BY <4>1, <4>2
    <3>. QED
      BY <3>8, <3>9 DEF Sorted
  <2>. QED
    BY <2>5, <2>6 DEF Clients
<1>. QED
  BY <1>1, <1>2, <1>3, <1>4, <1>5, <1>6, <1>7, <1>8, EveryChange DEF Next, Proceeds

(* As long as broadcasts of events do not overlap, every listener is sent    *)
(* the events oldest first, whatever order the connections are served in and *)
(* whatever the log loses (events_stream).                                   *)
THEOREM InOrderOneAtATime == Spec /\ []OneAtATime => []OldestFirst
<1>1. Init => Sorted
  <2> SUFFICES ASSUME Init PROVE Sorted
    OBVIOUS
  <2>1. \A l \in Listeners : Len(got[l]) = 0
    BY Distinct DEF Init
  <2>. QED
    BY <2>1 DEF Sorted, OldestFirst
<1>2. IInv /\ OneAtATime /\ OneAtATime' /\ Sorted /\ [Next]_vars => Sorted'
  BY NextSorted
<1>3. Sorted => OldestFirst
  BY DEF Sorted
<1>. QED
  BY SpecIInv, <1>1, <1>2, <1>3, PTL DEF Spec

(* Every client reads as fast as it is written to.                           *)
NobodyStalls == \A c \in Clients : link[c] # "stalled"

(* A broadcast in progress has the event loop.                               *)
Undivided == \A t \in Tasks : phase[t] # "idle" => active = t

(* The event loop is given up only while a client stalls.                    *)
LEMMA NextUndivided ==
  ASSUME IInv, NobodyStalls', Undivided, [Next]_vars
  PROVE  Undivided'
<1>1. Types /\ Phases
  BY DEF IInv
<1>2. CASE \/ \E v \in Viewers : ConnectViewer(v)
           \/ \E l \in Listeners : ConnectListener(l)
           \/ \E c \in Clients : Drain(c) \/ Close(c) \/ Disconnect(c)
           \/ NothingToDo
           \/ UNCHANGED vars
  BY <1>2 DEF ConnectViewer, ConnectListener, Drain, Close, Disconnect, NothingToDo, vars, tasks, Undivided
<1>3. ASSUME NEW t \in Tasks, SessionChanges(t) PROVE Undivided'
  BY <1>1, <1>3, Distinct DEF SessionChanges, Changes, Idle, Broadcast, Types, Undivided
<1>4. ASSUME NEW t \in Tasks, NextClient(t) \/ SendFails(t) PROVE Undivided'
  BY <1>4 DEF NextClient, SendFails, Undivided
<1>5. ASSUME NEW t \in Tasks, Resume(t) PROVE Undivided'
  BY <1>5, Distinct DEF Resume, Undivided
<1>6. ASSUME NEW t \in Tasks, Send(t) PROVE Undivided'
  <2>1. turn[t] \in Clients
    BY <1>1, <1>6 DEF Send, Phases, InStep
  <2>2. link' # [link EXCEPT ![turn[t]] = "stalled"]
    BY <1>1, <2>1 DEF NobodyStalls, Types
  <2>. QED
    BY <1>6, <2>2 DEF Send, Undivided
<1>7. ASSUME NEW t \in Tasks, PopNewEvents(t) \/ BroadcastEnds(t) PROVE Undivided'
  <2>1. active = t /\ (Ends(t) \/ (UNCHANGED active /\ phase' = [phase EXCEPT ![t] = "events"]))
    BY <1>7 DEF PopNewEvents, BroadcastEnds, Served
  <2>. QED
    BY <1>1, <2>1, Distinct DEF Ends, Types, Undivided
<1>. QED
  BY <1>1, <1>2, <1>3, <1>4, <1>5, <1>6, <1>7, EveryChange DEF Next, Proceeds

(* One slow reader is all it takes, and without one it cannot happen: while  *)
(* no client stalls, events come oldest first (events_stream).               *)
THEOREM InOrderUnlessStalled == Spec /\ []NobodyStalls => []OldestFirst
<1>1. Init => Undivided
  BY DEF Init, Undivided
<1>2. IInv /\ NobodyStalls' /\ Undivided /\ [Next]_vars => Undivided'
  BY NextUndivided
<1>3. Undivided => OneAtATime
  BY DEF Undivided, OneAtATime
<1>. QED
  BY SpecIInv, InOrderOneAtATime, <1>1, <1>2, <1>3, PTL DEF Spec

=============================================================================
