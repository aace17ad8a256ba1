---------------------------- MODULE TaskLifecycle ----------------------------
(***************************************************************************)
(* What the durable task queue promises about each task, without rows,     *)
(* workers, leases or sweeps: a task waits, is handed out, and comes back  *)
(* finished or failed; every unsuccessful hand-out is counted, at most     *)
(* Limit of them lead to another one, and a settled task stays settled.    *)
(* One step may move any number of tasks.                                  *)
(***************************************************************************)
EXTENDS Integers

CONSTANTS Task, Limit

VARIABLES
  phase,      \* where each task stands
  failures    \* its unsuccessful hand-outs

LifeVars == <<phase, failures>>

Start == phase = [t \in Task |-> "new"] /\ failures = [t \in Task |-> 0]

Moves(t, from, to) == phase[t] = from /\ phase'[t] = to

Submit(t)  == (Moves(t, "new", "queued") \/ Moves(t, "new", "blocked")) /\ failures'[t] = failures[t]
Unblock(t) == Moves(t, "blocked", "queued") /\ failures'[t] = failures[t]
Abandon(t) == Moves(t, "blocked", "settled") /\ failures'[t] = failures[t]
HandOut(t) == Moves(t, "queued", "running") /\ failures'[t] = failures[t]
Finish(t)  == (Moves(t, "running", "settled") \/ Moves(t, "running", "verifying")) /\ failures'[t] = failures[t]
Judge(t)   == Moves(t, "verifying", "settled") /\ failures'[t] = failures[t]
Requeue(t) == Moves(t, "backoff", "queued") /\ failures'[t] = failures[t]

\* An interrupted task is queued again at once, a failed one after a back-off.
Retry(t) ==
  /\ \/ Moves(t, "running", "queued")
     \/ Moves(t, "running", "backoff") \/ Moves(t, "verifying", "backoff")
  /\ failures[t] < Limit
  /\ failures'[t] = failures[t] + 1

GiveUp(t) ==
  /\ Moves(t, "running", "settled") \/ Moves(t, "verifying", "settled")
  /\ failures[t] = Limit
  /\ failures'[t] = failures[t] + 1

Stay(t) == phase'[t] = phase[t] /\ failures'[t] = failures[t]

Step(t) ==
  \/ Submit(t) \/ Unblock(t) \/ Abandon(t) \/ HandOut(t) \/ Finish(t) \/ Judge(t)
  \/ Requeue(t) \/ Retry(t) \/ GiveUp(t)

Next == \A t \in Task : Step(t) \/ Stay(t)

Spec == Start /\ [][Next]_LifeVars
=============================================================================
