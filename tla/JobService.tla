----------------------------- MODULE JobService -----------------------------
(***************************************************************************)
(* What the compute server promises (client_server/Server.hh: blocks "run  *)
(* sequentially, one at a time"; on an error or an interrupt "all other    *)
(* blocks" are removed from the queue).  Every job is accepted once, runs  *)
(* at most once, in the order of acceptance and alone; waiting jobs are    *)
(* cancelled all together or not at all.                                   *)
(***************************************************************************)
EXTENDS Sequences

CONSTANTS Job, NoJob

VARIABLES pending, running, done, cancelled, alive

vars == <<pending, running, done, cancelled, alive>>

Waiting == {pending[i] : i \in DOMAIN pending}

Init == /\ pending = <<>> /\ running = NoJob
        /\ done = {} /\ cancelled = {} /\ alive = TRUE

Accept(j) ==
  /\ alive
  /\ j \notin Waiting \cup done \cup cancelled /\ j # running
  /\ pending' = Append(pending, j)
  /\ UNCHANGED <<running, done, cancelled, alive>>

Start ==
  /\ alive /\ running = NoJob /\ pending # <<>>
  /\ running' = Head(pending)
  /\ pending' = Tail(pending)
  /\ UNCHANGED <<done, cancelled, alive>>

Finish ==
  /\ alive /\ running # NoJob
  /\ done' = done \cup {running}
  /\ running' = NoJob
  /\ UNCHANGED <<pending, cancelled, alive>>

CancelWaiting ==
  /\ alive
  /\ cancelled' = cancelled \cup Waiting
  /\ pending' = <<>>
  /\ UNCHANGED <<running, done, alive>>

Die == /\ alive /\ alive' = FALSE
       /\ UNCHANGED <<pending, running, done, cancelled>>

Next == Start \/ Finish \/ CancelWaiting \/ Die \/ \E j \in Job : Accept(j)

Spec == Init /\ [][Next]_vars
=============================================================================
