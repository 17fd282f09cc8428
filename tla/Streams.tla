------------------------------- MODULE Streams -------------------------------
(***************************************************************************)
(* The server's two push streams (api/app.py): /ws/state sends every       *)
(* viewer a snapshot of the session after each command and tick, /ws/events *)
(* sends every listener the events logged since the last broadcast.        *)
(*                                                                         *)
(* The background loop and the handlers of requests are tasks of one event *)
(* loop.  A task gives it up only while the client it has just written to  *)
(* does not read fast enough; meanwhile other tasks run whole broadcasts.  *)
(*                                                                         *)
(* The session is what a client can tell of it: a number for the state its *)
(* snapshots show, and events numbered in the order they are logged.       *)
(*                                                                         *)
(* An operator named <definition>_<deviation> is the definition as a       *)
(* plausible mistake would have it; no definition uses it.                 *)
(***************************************************************************)
EXTENDS Integers, Sequences

CONSTANTS
  Viewers,      \* connections to /ws/state, each used once
  Listeners,    \* connections to /ws/events, each used once
  Requests,     \* handlers that can be in progress at once (a bound)
  Kinds,        \* what a snapshot is made for: the administrator, or one user
  Kind,         \* the kind of each viewer
  Sees,         \* the events each listener is sent: all, or those of its user
  History,      \* MAX_EVENT_HISTORY
  MaxVersion,   \* where the changes of the session stop (a bound)
  MaxEvents     \* where its events stop (a bound)

Loop == "loop"            \* the task of _background_loop
NoTask == "no task"
NoOne == "no one"

ASSUME StreamsAssumption ==
  /\ Viewers \cap Listeners = {} /\ NoOne \notin Viewers \cup Listeners
  /\ Loop \notin Requests /\ NoTask \notin Requests
  /\ Kind \in [Viewers -> Kinds]
  /\ Sees \in [Listeners -> SUBSET (1..MaxEvents)]
  /\ History \in Nat \ {0} /\ MaxVersion \in Nat \ {0} /\ MaxEvents \in Nat

VARIABLES
  version,      \* the state of the session, as its changes so far
  running,      \* session.running
  logged,       \* the number of events logged so far
  floor,        \* the log, SchedulerState.events, holds the events after this one
  cursor,       \* the last event popped: session._last_broadcast_event
  gone,         \* the events that left the log before they were popped
  viewers,      \* manager._connections
  listeners,    \* event_stream._connections
  link,         \* the state of each connection
  since,        \* the last event logged before a listener connected
  got,          \* what each connection was sent: versions, or events
  active,       \* the task that runs, if one does
  phase,        \* what a task broadcasts
  left,         \* the connections it has still to serve
  turn,         \* the connection it serves
  batch,        \* the events it broadcasts
  due,          \* those it has still to send to the connection it serves
  dead,         \* the connections that failed it
  payload       \* the snapshots it made, by kind, 0 if none yet

session == <<version, running, logged, floor, cursor, gone>>
conns == <<viewers, listeners, link, since, got>>
tasks == <<active, phase, left, turn, batch, due, dead, payload>>
vars == <<session, conns, tasks>>

Clients == Viewers \cup Listeners
Tasks == Requests \cup {Loop}

(* What a snapshot counts for in a batch.                                  *)
Snapshot == 0

-----------------------------------------------------------------------------
(* Connections.                                                            *)

(* A viewer is sent a snapshot at once.                                    *)
ConnectViewer(v) ==
  /\ active = NoTask
  /\ link[v] = "new"
  /\ viewers' = viewers \cup {v}
  /\ got' = [got EXCEPT ![v] = <<version>>]
  /\ \E l \in {"open", "stalled"} : link' = [link EXCEPT ![v] = l]
  /\ UNCHANGED <<session, listeners, since, tasks>>

(* A listener is sent nothing before the next event.                       *)
ConnectListener(l) ==
  /\ active = NoTask
  /\ link[l] = "new"
  /\ listeners' = listeners \cup {l}
  /\ since' = [since EXCEPT ![l] = logged]
  /\ link' = [link EXCEPT ![l] = "open"]
  /\ UNCHANGED <<session, viewers, got, tasks>>

(* A client that did not read fast enough has caught up.                   *)
Drain(c) ==
  /\ active = NoTask
  /\ link[c] = "stalled"
  /\ link' = [link EXCEPT ![c] = "open"]
  /\ UNCHANGED <<session, viewers, listeners, since, got, tasks>>

(* It leaves, or a ping of the server's goes unanswered.                   *)
Close(c) ==
  /\ active = NoTask
  /\ link[c] \in {"open", "stalled"}
  /\ link' = [link EXCEPT ![c] = "closed"]
  /\ UNCHANGED <<session, viewers, listeners, since, got, tasks>>

(* Its endpoint is told, and ends.                                         *)
Disconnect(c) ==
  /\ active = NoTask
  /\ link[c] = "closed" /\ c \in viewers \cup listeners
  /\ viewers' = viewers \ {c}
  /\ listeners' = listeners \ {c}
  /\ UNCHANGED <<session, link, since, got, tasks>>

-----------------------------------------------------------------------------
(* The session changes, and the change is broadcast.                       *)

Larger(m, n) == IF m < n THEN n ELSE m

(* What pop_new_events returns: what follows the last event popped, or all *)
(* the log holds when it no longer holds that one.                         *)
NewEvents_Everything == (floor + 1)..logged

NewEvents_NoneIfEvicted == IF floor <= cursor THEN (cursor + 1)..logged ELSE {}

NewEvents == (Larger(floor, cursor) + 1)..logged

(* n more events are logged, and the log is cut to the newest.             *)
Log_CutShort(n) ==
  /\ logged' = logged + n
  /\ floor' = logged + n - History
  /\ UNCHANGED gone

Log(n) ==
  LET cut == Larger(floor, logged + n - History)
  IN /\ logged' = logged + n
     /\ floor' = cut
     /\ gone' = gone \cup {e \in (Larger(floor, cursor) + 1)..(logged + n) : e <= cut}

(* t starts manager.broadcast over the connections there are now.          *)
Broadcast_KeepsPayload(t) ==
  /\ active' = t
  /\ phase' = [phase EXCEPT ![t] = "state"]
  /\ left' = [left EXCEPT ![t] = viewers]
  /\ batch' = [batch EXCEPT ![t] = {Snapshot}]
  /\ UNCHANGED <<turn, due, dead, payload>>

Broadcast(t) ==
  /\ active' = t
  /\ phase' = [phase EXCEPT ![t] = "state"]
  /\ left' = [left EXCEPT ![t] = viewers]
  /\ batch' = [batch EXCEPT ![t] = {Snapshot}]
  /\ payload' = [payload EXCEPT ![t] = [k \in Kinds |-> 0]]
  /\ UNCHANGED <<turn, due, dead>>

Idle(t) == active = NoTask /\ phase[t] = "idle"

Changes(t) ==
  /\ Idle(t)
  /\ version < MaxVersion
  /\ version' = version + 1
  /\ Broadcast(t)
  /\ UNCHANGED conns

(* A command: submit, respond, step, an administrator's operation.         *)
Command(r, n) ==
  /\ Changes(r)
  /\ logged + n <= MaxEvents
  /\ Log(n)
  /\ UNCHANGED <<running, cursor>>

StartOrPause(r) ==
  /\ Changes(r)
  /\ running' \in BOOLEAN
  /\ UNCHANGED <<logged, floor, cursor, gone>>

(* A new log, of which the n events that start it count as sent.           *)
LoadOrReset(r, n) ==
  /\ Changes(r)
  /\ logged + n <= MaxEvents
  /\ running' = FALSE
  /\ logged' = logged + n
  /\ floor' = logged
  /\ cursor' = logged + n
  /\ gone' = gone \cup NewEvents \cup (logged + 1)..(logged + n)

(* The loop ticks.                                                         *)
BackgroundTick(n) ==
  /\ running
  /\ Changes(Loop)
  /\ logged + n <= MaxEvents
  /\ Log(n)
  /\ UNCHANGED <<running, cursor>>

(* It has nothing to do while the session is paused, or at the bound.      *)
NothingToDo ==
  /\ Idle(Loop)
  /\ ~ running \/ version = MaxVersion
  /\ UNCHANGED vars

-----------------------------------------------------------------------------
(* A broadcast.  The order of the connections is left open.                *)

(* The next connection, and what it is to be sent.                         *)
NextClient(t) ==
  /\ active = t
  /\ due[t] = {}
  /\ \E c \in left[t] :
       /\ turn' = [turn EXCEPT ![t] = c]
       /\ left' = [left EXCEPT ![t] = @ \ {c}]
       /\ due' = [due EXCEPT ![t] = IF c \in Viewers THEN batch[t] ELSE batch[t] \cap Sees[c]]
  /\ UNCHANGED <<session, conns, active, phase, batch, dead, payload>>

(* The snapshot t sends to v, made when the first of its kind is sent.     *)
Made(t, v) == IF payload[t][Kind[v]] = 0 THEN version ELSE payload[t][Kind[v]]

(* t fails to send to the connection it serves.                            *)
Fails(t) ==
  /\ dead' = [dead EXCEPT ![t] = @ \cup {turn[t]}]
  /\ due' = [due EXCEPT ![t] = {}]

(* The oldest of what is due; t waits if the client stalls.                *)
Send(t) ==
  LET c == turn[t]
  IN /\ active = t
     /\ due[t] # {} /\ link[c] # "closed"
     /\ \E e \in due[t] :
          /\ \A f \in due[t] : e <= f
          /\ due' = [due EXCEPT ![t] = @ \ {e}]
          /\ got' = [got EXCEPT ![c] = Append(@, IF c \in Viewers THEN Made(t, c) ELSE e)]
     /\ payload' = IF c \in Viewers THEN [payload EXCEPT ![t][Kind[c]] = Made(t, c)] ELSE payload
     /\ \/ link[c] = "open" /\ UNCHANGED <<link, active>>
        \/ link' = [link EXCEPT ![c] = "stalled"] /\ active' = NoTask
     /\ UNCHANGED <<session, viewers, listeners, since, phase, left, turn, batch, dead>>

SendFails(t) ==
  /\ active = t
  /\ due[t] # {} /\ link[turn[t]] = "closed"
  /\ Fails(t)
  /\ UNCHANGED <<session, conns, active, phase, left, turn, batch, payload>>

(* What t waits for is over: the client reads again, or is gone.           *)
Awake_OnlyOpen(t) == link[turn[t]] = "open"

Awake(t) == link[turn[t]] # "stalled"

Resume(t) ==
  /\ active = NoTask /\ phase[t] # "idle"
  /\ Awake(t)
  /\ active' = t
  /\ IF link[turn[t]] = "closed" THEN Fails(t) ELSE UNCHANGED <<due, dead>>
  /\ UNCHANGED <<session, conns, phase, left, turn, batch, payload>>

Served(t) == active = t /\ left[t] = {} /\ due[t] = {}

Ends(t) ==
  /\ active' = NoTask
  /\ phase' = [phase EXCEPT ![t] = "idle"]
  /\ turn' = [turn EXCEPT ![t] = NoOne]
  /\ batch' = [batch EXCEPT ![t] = {}]
  /\ UNCHANGED left

(* All viewers are served: the events are popped, and broadcast if there   *)
(* are any and someone listens.                                            *)
PopNewEvents(t) ==
  /\ Served(t) /\ phase[t] = "state"
  /\ viewers' = viewers \ dead[t]
  /\ dead' = [dead EXCEPT ![t] = {}]
  /\ cursor' = logged
  /\ IF NewEvents = {} \/ listeners = {}
     THEN Ends(t)
     ELSE /\ phase' = [phase EXCEPT ![t] = "events"]
          /\ left' = [left EXCEPT ![t] = listeners]
          /\ batch' = [batch EXCEPT ![t] = NewEvents]
          /\ UNCHANGED <<active, turn>>
  /\ UNCHANGED <<version, running, logged, floor, gone, listeners, link, since, got, due, payload>>

BroadcastEnds(t) ==
  /\ Served(t) /\ phase[t] = "events"
  /\ listeners' = listeners \ dead[t]
  /\ dead' = [dead EXCEPT ![t] = {}]
  /\ Ends(t)
  /\ UNCHANGED <<session, viewers, link, since, got, due, payload>>

Proceeds(t) == NextClient(t) \/ Send(t) \/ SendFails(t) \/ PopNewEvents(t) \/ BroadcastEnds(t)

-----------------------------------------------------------------------------

Init ==
  /\ version = 1 /\ running = FALSE
  /\ logged = 0 /\ floor = 0 /\ cursor = 0 /\ gone = {}
  /\ viewers = {} /\ listeners = {}
  /\ link = [c \in Clients |-> "new"]
  /\ since = [l \in Listeners |-> 0]
  /\ got = [c \in Clients |-> <<>>]
  /\ active = NoTask
  /\ phase = [t \in Tasks |-> "idle"]
  /\ left = [t \in Tasks |-> {}]
  /\ turn = [t \in Tasks |-> NoOne]
  /\ batch = [t \in Tasks |-> {}]
  /\ due = [t \in Tasks |-> {}]
  /\ dead = [t \in Tasks |-> {}]
  /\ payload = [t \in Tasks |-> [k \in Kinds |-> 0]]

Next ==
  \/ \E v \in Viewers : ConnectViewer(v)
  \/ \E l \in Listeners : ConnectListener(l)
  \/ \E c \in Clients : Drain(c) \/ Close(c) \/ Disconnect(c)
  \/ \E r \in Requests : StartOrPause(r) \/ \E n \in 0..2 : Command(r, n) \/ LoadOrReset(r, n)
  \/ \E n \in 0..2 : BackgroundTick(n)
  \/ NothingToDo
  \/ \E t \in Tasks : Proceeds(t) \/ Resume(t)

Spec == Init /\ [][Next]_vars

(* The event loop runs a task that can run, in turn with the others, and   *)
(* the keep-alive of the server closes a connection that never catches up. *)
FairSpec ==
  /\ Spec
  /\ \A t \in Tasks : WF_vars(Proceeds(t)) /\ SF_vars(Resume(t))
  /\ \A c \in Clients : SF_vars(Drain(c) \/ (link[c] = "stalled" /\ Close(c)))

-----------------------------------------------------------------------------
(* The properties.                                                         *)

(* Types; at most one task runs, and one that has given the event loop up  *)
(* is in a broadcast; what is popped was logged.                           *)
TypeOK ==
  /\ version \in 1..MaxVersion /\ running \in BOOLEAN
  /\ logged \in 0..MaxEvents /\ floor \in 0..logged /\ cursor \in 0..logged
  /\ gone \subseteq 1..logged
  /\ viewers \subseteq Viewers /\ listeners \subseteq Listeners
  /\ link \in [Clients -> {"new", "open", "stalled", "closed"}]
  /\ since \in [Listeners -> 0..logged]
  /\ got \in [Clients -> Seq(Nat)]
  /\ active \in Tasks \cup {NoTask}
  /\ phase \in [Tasks -> {"idle", "state", "events"}]
  /\ left \in [Tasks -> SUBSET Clients]
  /\ turn \in [Tasks -> Clients \cup {NoOne}]
  /\ batch \in [Tasks -> SUBSET (0..logged)]
  /\ due \in [Tasks -> SUBSET (0..logged)]
  /\ dead \in [Tasks -> SUBSET Clients]
  /\ payload \in [Tasks -> [Kinds -> 0..version]]
  /\ active # NoTask => phase[active] # "idle"

(* No listener is sent an event twice, although broadcasts overlap and the *)
(* log is cut and replaced under them (pop_new_events).                    *)
NothingTwice ==
  \A l \in Listeners : \A i, j \in 1..Len(got[l]) : got[l][i] = got[l][j] => i = j

(* The events a broadcast in progress has still to send to l.              *)
Owed(t, l) ==
  (IF turn[t] = l THEN due[t] ELSE {}) \cup (IF l \in left[t] THEN batch[t] \cap Sees[l] ELSE {})

(* An event logged while a listener is connected is sent to it, or still   *)
(* will be, or left the log before any broadcast came to pop it            *)
(* (events_stream: a client connects here for live changes).               *)
NothingMissed ==
  \A l \in listeners : \A e \in Sees[l] :
    since[l] < e /\ e <= logged /\ link[l] # "closed" =>
      \/ \E i \in 1..Len(got[l]) : got[l][i] = e
      \/ e \in gone \cup NewEvents
      \/ \E t \in Tasks : e \in Owed(t, l)

(* When no broadcast is in progress every viewer has been sent the state   *)
(* as it is, although a snapshot is made once for all viewers of a kind    *)
(* and broadcasts overlap (ConnectionManager.broadcast).                   *)
EveryChangeShown ==
  (\A t \in Tasks : phase[t] = "idle") =>
    \A v \in viewers : link[v] # "closed" => \E i \in 1..Len(got[v]) : got[v][i] = version

(* A client that reads slowly, or not at all, holds the clock up for a     *)
(* while and not for ever (events_stream: nothing here can block scheduler *)
(* execution).                                                             *)
ClockGoesOn == phase[Loop] # "idle" ~> phase[Loop] = "idle"

(* A listener is sent events oldest first (the docstring of events_stream).*)
OldestFirst ==
  \A l \in Listeners : \A i, j \in 1..Len(got[l]) : i < j => got[l][i] < got[l][j]
=============================================================================
