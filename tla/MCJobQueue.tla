----------------------------- MODULE MCJobQueue -----------------------------
(* Instances of JobQueue for TLC.                                          *)
EXTENDS JobQueue, TLC

CONSTANTS w1, w2

\* A type whose failure is reported to the repository, which every worker
\* handles, and one that dispatch does not support, which only w2 claims.
MCJobTypes == {"ingest_repository", "compute_drift"}
MCSupported == {"ingest_repository"}
MCHandles == (w1 :> {"ingest_repository"}) @@ (w2 :> MCJobTypes)

\* Two processes that share a hostname:pid, and two that do not.
SharedId == [w \in Worker |-> "host:1"]
OwnId == (w1 :> "host:1") @@ (w2 :> "host:2")
=============================================================================
