---------------------------- MODULE ExecutionOrder ----------------------------
(***************************************************************************)
(* Why leases, cancellations, stops and admissions are in order: what has  *)
(* to be known beside WorkerCustody for ValidationLeased, PendingUnleased, *)
(* TxnTruthful, CancelledAfterDeath, FrozenCondemned, RunningFit and the   *)
(* refinement of ExclusiveExecution to be inductive.  Like custody, it is  *)
(* true of a host without boot requeue whose operator does not bump jobs.  *)
(***************************************************************************)
EXTENDS WorkerCustody

\* Between the start of an admitted job and its receipt.
Admitting == stage = "admit" /\ step \in {"next", "receipt", "spawn"}

\* What makes it right to stop the worker of a job.
Condemned(r) == \/ r.status \in {"cancelled", "absent"}
                \/ Running(r) /\ (r.asked \/ r.deferred)

\* A lease is held from the dispatch of a target to its end, and no longer than
\* the job runs; the steps that give it back know that no tree uses it.
LeaseInv ==
  /\ ValidationLeased /\ PendingUnleased
  /\ \A j \in Job : /\ txn[j].phase = "released" => j \notin leases
                    /\ j > submitted => j \notin leases
  /\ step = "mark" => cur \notin leases
  /\ Admitting => \A j \in InHand : j \notin leases
  /\ stage = "orphans" /\ step \in {"outcome", "release"}
       => \A g \in Gen : proc[g].job = cur => TreeGone(g)

\* The copy of its row that process p may write over queue q: it makes no ended
\* job running again and takes back no mark of deferral.
CopyFits(p, q) ==
  LET r == p.snap IN
  /\ p.st = "prepared" => Running(r)
  /\ p.st = "publish" => r.status = "completed"
  /\ p.st = "working" => /\ Running(r) => ~r.deferred
                         /\ r.status = "cancelled" => r.asked
                         /\ ~Running(r) => q[p.job].status \in {r.status, "absent"}

\* Cancelled rows carry their request, and workers fitting copies.
CopyInv ==
  /\ \A j \in Job : jobs[j].status = "cancelled" => jobs[j].asked
  /\ \A g \in Gen : CopyFits(proc[g], jobs)

\* A worker starts on a running job; the one that marks it deferred is parked.
StartInv ==
  /\ Admitting => \A j \in InHand : Running(jobs[j]) /\ ~jobs[j].deferred
  /\ \A g \in Gen : LET r == jobs[proc[g].job] IN
       /\ proc[g].st = "waiting" /\ receipt[proc[g].job] = g => Running(r) /\ ~r.deferred
       /\ Acting(g) /\ Running(r) /\ r.deferred => proc[g].st = "parked"

\* A stopped worker is the owner of a condemned job, and the jobs on the lists
\* that workers are stopped from stay condemned.
StopInv ==
  /\ FrozenCondemned
  /\ \A g \in Gen : RootAlive(g) /\ proc[g].frozen => receipt[proc[g].job] = g
  /\ Terminating /\ step # "enter" => \A j \in todo : Condemned(jobs[j])

\* A set of jobs that may run together.
FitTogether(R) ==
  /\ \A i, j \in R : i # j => Claims[i] \cap Claims[j] = {}
  /\ Cardinality(R \ Metadata) <= MaxWorkers
  /\ Cardinality(R \cap Metadata) <= MaxControllers

\* The running jobs fit together, with those selected to start beside them.
FitInv ==
  /\ FitTogether(Rows(jobs, {"running"}))
  /\ stage = "admit" /\ step = "start" => FitTogether(Rows(jobs, {"running"}) \cup todo)

Order == LeaseInv /\ CopyInv /\ StartInv /\ StopInv /\ FitInv
=============================================================================
