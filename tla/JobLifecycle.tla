---------------------------- MODULE JobLifecycle ----------------------------
(***************************************************************************)
(* What the job queue promises of its jobs, whoever works on them: a job   *)
(* is attempted at most MaxAttempts times, ends once, succeeds only in a   *)
(* running attempt, and fails only when its last attempt is over.          *)
(* Workers, leases, locks and timestamps do not occur; JobQueue implements *)
(* this specification.                                                     *)
(***************************************************************************)
EXTENDS Naturals

CONSTANTS Job, MaxAttempts

VARIABLES state, attempt

vars == <<state, attempt>>

State == {"absent", "waiting", "running", "succeeded", "failed"}

Init ==
  /\ state = [j \in Job |-> "absent"]
  /\ attempt = [j \in Job |-> 0]

Becomes(j, s, n) == state'[j] = s /\ attempt'[j] = n

Submit(j) == state[j] = "absent" /\ Becomes(j, "waiting", 0)

\* A running job may be taken over by a new attempt.
Start(j) ==
  /\ state[j] \in {"waiting", "running"}
  /\ attempt[j] < MaxAttempts
  /\ Becomes(j, "running", attempt[j] + 1)

\* The attempt failed or was lost, and another one remains.
GiveBack(j) ==
  /\ state[j] = "running"
  /\ attempt[j] < MaxAttempts
  /\ Becomes(j, "waiting", attempt[j])

Succeed(j) == state[j] = "running" /\ Becomes(j, "succeeded", attempt[j])

Fail(j) ==
  /\ state[j] = "running"
  /\ attempt[j] = MaxAttempts
  /\ Becomes(j, "failed", attempt[j])

Stay(j) == Becomes(j, state[j], attempt[j])

\* Several jobs may change in one step: a claim recovers other jobs.
Next ==
  /\ state' \in [Job -> State]
  /\ attempt' \in [Job -> 0 .. MaxAttempts]
  /\ \A j \in Job : Submit(j) \/ Start(j) \/ GiveBack(j) \/ Succeed(j) \/ Fail(j) \/ Stay(j)

Spec == Init /\ [][Next]_vars
=============================================================================
