----------------------------- MODULE MCSession -----------------------------
(* Small instances of Session: `a', of two GPUs, is a job of the scenario  *)
(* or comes by script, `c' comes by request.                               *)
EXTENDS Session, TLC

CONSTANTS g1, g2, a, c, low, high

TwoUsers == {low, high}
TwoRanks == low :> 1 @@ high :> 2
OwnerAC == a :> low @@ c :> high
CountAC == a :> 2 @@ c :> 1

Do(at, do, of) == [at |-> at, do |-> do, of |-> of]

Full(script) == [seed |-> g1 :> a @@ g2 :> a, queued |-> {}, urgent |-> {}, script |-> script]
Empty(queued, script) ==
  [seed |-> g1 :> NoJob @@ g2 :> NoJob, queued |-> queued, urgent |-> queued, script |-> script]

(* Every kind of action.  The readings come within the grace period of     *)
(* whatever was asked before them.                                         *)
Answered == Full(<<Do(1, "reading", g1), Do(2, "yes", g1), Do(2, "no", g2), Do(4, "complete", a)>>)
Submitting == Empty({}, <<Do(0, "add", a), Do(1, "reading", g1)>>)

(* As in the scenario multiple_ml: a CRITICAL job waits from the start.      *)
Waits == Empty({a}, <<>>)
Mixed == {Answered, Submitting, Waits}

(* Hardware is read in one, a GPU fails in another.                         *)
OnHardware == {Submitting}
Failing == [s \in Scenarios |-> IF s \in Monitored \cup {Waits} THEN {} ELSE {g1}]

(* As in the scenario ml_video: a job of the scenario completes by script. *)
Completing == {Full(<<Do(2, "complete", a)>>)}
=============================================================================
