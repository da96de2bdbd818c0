----------------------------- MODULE MCExecution ------------------------------
(***************************************************************************)
(* Instances of ExecutionSystem for TLC.                                   *)
(***************************************************************************)
EXTENDS ExecutionOrder

MCTarget == {"linux"}
MCTargets == {"linux", "mac"}
MCPriority == {1}
MCPriorities == {1, 2}
MCProof == {"already-merged"}

\* Every job is its own workload.
MCLanes == [j \in Job |-> j]
\* The first two jobs are the same workload: the second supersedes the first.
MCSharedLane == [j \in Job |-> IF j = 2 THEN 1 ELSE j]
\* Only the first job is ever cancelled.
OneCancelled == {j \in Job : jobs[j].asked} \subseteq {1}

\* A job is submitted with the first priority, and a bump meets two workers on
\* a host that neither crashed nor restarted.
BumpAlone ==
  IF bumps = 0 THEN \A j \in Job : jobs[j].priority # 2
  ELSE crashes = 0 /\ boot = 1 /\ spawned <= 2

\* A request lists linux before mac.
InOrder == \A g \in Gen : proc[g].on = "mac" => "linux" \notin proc[g].left

\* All jobs claim the same host.
MCClaims == [j \in Job |-> {"host"}]
\* The second and the third job claim the same host, the others nothing.
MCSomeClaims == [j \in Job |-> IF j \in {2, 3} THEN {"host"} ELSE {}]
=============================================================================
