---------------------------- MODULE ExecutionState ----------------------------
(***************************************************************************)
(* What the daemon, its workers and the operator share: the durable files  *)
(* under the state directory, the processes of the host and the memory of  *)
(* the supervisor.  ExecutionWorker and ExecutionSupervisor add the steps. *)
(*                                                                         *)
(* All jobs are ships, the richer of the two kinds: a run carries the same *)
(* rows and receipts but an outcome without a disposition.                 *)
(***************************************************************************)
EXTENDS JobQueue

CONSTANTS MaxSpawns,    \* bound: worker processes ever created
          MaxBoots,     \* bound: boots of the host
          MaxCrashes,   \* bound: crashes of the daemon process
          MaxBumps,     \* bound: priority changes by the operator
          NoTarget,     \* no validation is under way
          Faults,       \* the faults that may happen, a subset of FaultKinds
          BootRequeue,  \* queue.boot_requeue.enabled of the host
          Metadata,     \* jobs that only run a metadata-authority controller
          MayMerge,     \* jobs whose pull request may be merged meanwhile
          Invalid,      \* jobs whose request envelope is missing or invalid
          Claims,       \* the exclusive resource claims of a job
          MergeProof,   \* the proof of an exact-head merge
          MaxWorkers,   \* MAX_WORKERS
          MaxControllers \* MAX_METADATA_CONTROLLERS

FaultKinds == {"io", "worker", "error", "spawn", "kill", "probe", "drain", "envelope"}

\* A worker generation stands for the worker process created with it.
Gen == 1 .. MaxSpawns
NoGen == 0
NoJob == 0

ASSUME ExecutionAssumption ==
  /\ MaxSpawns \in Nat /\ MaxBoots \in Nat /\ MaxCrashes \in Nat /\ MaxBumps \in Nat
  /\ MaxWorkers \in Nat /\ MaxControllers \in Nat
  /\ NoTarget \notin Target
  /\ Faults \subseteq FaultKinds
  /\ BootRequeue \in BOOLEAN
  /\ Metadata \subseteq Job /\ Invalid \subseteq Job /\ MayMerge \subseteq Job
  /\ MergeProof \in Proof

VARIABLES
  jobs,       \* queue.json
  lock,       \* the worker inside the queue state lock, if any
  submitted,  \* how many jobs were ever enqueued
  receipt,    \* queue-workers/<job>.json: the generation that owns the job
  txn,        \* queue-terminations/<job>.json
  marker,     \* queue-workers/boot-requeue/<job>@<boot>.json
  outcome,    \* the typed outcome of a job, for wait and watch
  leases,     \* jobs that hold a host-pool lease
  proc,       \* the worker processes and their descendants
  spawned,    \* how many worker processes were created
  child,      \* self.children: the worker process held for a job
  boot,       \* the boot of the host
  merged,     \* jobs whose pull request was merged at the exact head
  bump,       \* the row an operator's bump command holds, if any
  bumps,      \* how many bump commands ran
  crashes,    \* how often the daemon crashed
  exposed,    \* history: jobs that met one of the gaps ExecutionSystem names
  stage,      \* the part of the tick the supervisor is in
  step,       \* its next step there
  cur,        \* the job that step is about
  todo,       \* the jobs this part of the tick has still to visit
  unknown     \* unknown_worker of this tick

durableVars == <<receipt, txn, marker, outcome, leases>>
processVars == <<proc, spawned, child>>
hostVars == <<submitted, boot, merged, bump, bumps, crashes, exposed>>
tickVars == <<stage, step, cur, todo, unknown>>
vars == <<jobs, lock, durableVars, processVars, hostVars, tickVars>>

-----------------------------------------------------------------------------
(* Types. *)

\* The life of a worker process, named for what it does next.
ProcStates == {"none", "waiting", "authorized", "prepared", "working", "deferring",
               "publish", "posting", "ended", "failed", "persist", "parked", "dead"}

\* The process exists.
LiveStates == ProcStates \ {"none", "dead"}

\* The process passed its authority check and may act for the job.
ActingStates == LiveStates \ {"waiting"}

Process == [st     : ProcStates,
            job    : Job \cup {NoJob},
            on     : Target \cup {NoTarget},  \* whose validation processes live
            left   : SUBSET Target,           \* targets still to validate
            frozen : BOOLEAN,                 \* stopped by SIGSTOP
            boot   : Nat,                     \* the boot it was created in
            snap   : Row]                     \* its copy of the queue row

NoProcess == [st |-> "none", job |-> NoJob, on |-> NoTarget, left |-> {},
              frozen |-> FALSE, boot |-> 0, snap |-> Absent]

\* A process that is gone; "on" tells whether descendants outlived it.
Gone(p) == [p EXCEPT !.st = "dead", !.left = {}, !.snap = Absent]

Phases == {"frozen", "dead", "released"}
NoTxn == [gen |-> NoGen, act |-> "none", phase |-> "none"]
Txn == [gen   : Gen \cup {NoGen},
        act   : {"none", "cancel", "defer"},
        phase : {"none"} \cup Phases]

\* What an outcome says of the validation; what the worker did after a green one
\* is not told apart.
Outcomes == {"none", "green", "recovered", "failed", "merged"}
NoBump == [job |-> NoJob, row |-> Absent]

-----------------------------------------------------------------------------
(* Reading the state. *)

RootAlive(g) == proc[g].st \in LiveStates

\* The receipt of job j names a live process, which is its exact owner.
OwnerAlive(j) == receipt[j] # NoGen /\ RootAlive(receipt[j])

\* The root of the worker tree, past its authority check, or a descendant.
Acting(g) == proc[g].st \in ActingStates
TreeAlive(g) == Acting(g) \/ proc[g].on # NoTarget

\* Some worker tree still acts for job j.
Executing(j) == \E g \in Gen : proc[g].job = j /\ TreeAlive(g)

QueueFree == lock = NoGen

\* The lock a dying process held is released by the host.
LockWithout(S) == IF lock \in S THEN NoGen ELSE lock

\* The disposition recovered from a terminal row, and the worker's own.
Recovered(r) == IF r.proof = MergeProof THEN "merged"
                ELSE IF Passed(r) THEN "recovered" ELSE "failed"
Validated(r) == IF r.proof = MergeProof THEN "merged"
                ELSE IF Passed(r) THEN "green" ELSE "failed"

\* The outcome tells wait and watch what the queue row says.
OutcomeAgrees(j) == \/ outcome[j] = Recovered(jobs[j])
                    \/ outcome[j] = Validated(jobs[j])
=============================================================================
