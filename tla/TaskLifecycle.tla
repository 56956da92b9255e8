--------------------------- MODULE TaskLifecycle ---------------------------
(***************************************************************************)
(* What the install queue promises about a task, without goroutines, locks *)
(* or reports.  A task is submitted, started, and then leaves by success,  *)
(* goes back to wait for a retry, or leaves after MaxRetries failed runs.  *)
(* One task runs at a time.  TaskQueue is shown to implement this module.  *)
(***************************************************************************)
EXTENDS Integers

CONSTANTS Task, MaxRetries

VARIABLES
  phase,    \* "absent", "queued" or "running"
  failures  \* failed runs of a task that is in the queue

absVars == <<phase, failures>>

AbsInit ==
  /\ phase = [t \in Task |-> "absent"]
  /\ failures = [t \in Task |-> 0]

\* New tasks enter; a task that is in the queue is left as it is.
Submit(S) ==
  /\ phase' = [t \in Task |-> IF t \in S /\ phase[t] = "absent" THEN "queued" ELSE phase[t]]
  /\ UNCHANGED failures

Start(t) ==
  /\ phase[t] = "queued"
  /\ \A u \in Task : phase[u] # "running"
  /\ phase' = [phase EXCEPT ![t] = "running"]
  /\ UNCHANGED failures

Succeed(t) ==
  /\ phase[t] = "running"
  /\ phase' = [phase EXCEPT ![t] = "absent"]
  /\ failures' = [failures EXCEPT ![t] = 0]

Fail(t) ==
  /\ phase[t] = "running"
  /\ \/ /\ failures[t] + 1 < MaxRetries
        /\ phase' = [phase EXCEPT ![t] = "queued"]
        /\ failures' = [failures EXCEPT ![t] = @ + 1]
     \/ /\ failures[t] + 1 = MaxRetries
        /\ phase' = [phase EXCEPT ![t] = "absent"]
        /\ failures' = [failures EXCEPT ![t] = 0]

\* The service stops during the jitter, before the task was run.
Abandon(t) ==
  /\ phase[t] = "running"
  /\ phase' = [phase EXCEPT ![t] = "queued"]
  /\ UNCHANGED failures

\* A new process starts with an empty queue.
Forget ==
  /\ phase' = [t \in Task |-> "absent"]
  /\ failures' = [t \in Task |-> 0]

AbsNext ==
  \/ \E S \in SUBSET Task : Submit(S)
  \/ \E t \in Task : Start(t) \/ Succeed(t) \/ Fail(t) \/ Abandon(t)
  \/ Forget

AbsSpec == AbsInit /\ [][AbsNext]_absVars
=============================================================================
