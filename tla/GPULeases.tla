----------------------------- MODULE GPULeases -----------------------------
(***************************************************************************)
(* What the scheduler promises whoever holds a GPU, and nothing of how: a  *)
(* GPU is lent to a job, the job is asked before the GPU is taken back,    *)
(* and only an administrator or a hardware failure goes around the         *)
(* question, for one GPU at a time.                                        *)
(***************************************************************************)
CONSTANTS GPUs, Jobs, NoJob

VARIABLE lease   \* what each GPU is lent for

Free == [state |-> "free", job |-> NoJob]
Out == [state |-> "out", job |-> NoJob]
Held(j) == [state |-> "held", job |-> j]

OnLoan(l) == l.state \in {"held", "asked"}

(* What serving the queue may do to one lease: lend a free GPU, put or     *)
(* withdraw the question to its holder.  It never ends a loan.             *)
Served(l, m) ==
  \/ m = l
  \/ l.state = "free" /\ OnLoan(m) /\ m.job \in Jobs
  \/ OnLoan(l) /\ OnLoan(m) /\ m.job = l.job

ServeFrom(before) == /\ DOMAIN lease' = GPUs
                     /\ \A g \in GPUs : Served(before[g], lease'[g])

Init == lease = [g \in GPUs |-> Free]

Serve == ServeFrom(lease)

(* The holder, asked, gives the GPU up or does not answer in time.         *)
Yield(g) ==
  /\ lease[g].state = "asked"
  /\ lease' = [lease EXCEPT ![g] = Free]

(* The job is over: everything lent to it comes back at once.              *)
Finish(j) == lease' = [g \in GPUs |-> IF lease[g].job = j THEN Free ELSE lease[g]]

(* An administrator takes one GPU back, and it is lent again at once.      *)
Override(g) ==
  /\ OnLoan(lease[g])
  /\ ServeFrom([lease EXCEPT ![g] = Free])

(* The hardware loses one GPU; its job is served like any other.           *)
Fail(g) == ServeFrom([lease EXCEPT ![g] = Out])

Park(g) ==
  /\ ~ OnLoan(lease[g])
  /\ lease' = [lease EXCEPT ![g] = Out]

Return(g) ==
  /\ lease[g].state = "out"
  /\ ServeFrom([lease EXCEPT ![g] = Free])

(* An administrator lends a GPU nobody holds, even one that is out.        *)
Place(g, j) ==
  /\ ~ OnLoan(lease[g])
  /\ lease' = [lease EXCEPT ![g] = Held(j)]

Next ==
  \/ Serve
  \/ \E j \in Jobs : Finish(j)
  \/ \E g \in GPUs :
       \/ Yield(g) \/ Override(g) \/ Fail(g) \/ Park(g) \/ Return(g)
       \/ \E j \in Jobs : Place(g, j)

Spec == Init /\ [][Next]_lease
=============================================================================
