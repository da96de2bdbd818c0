---------------------------- MODULE ExecutionSystem ---------------------------
(***************************************************************************)
(* The supervisor, its workers, the operator's commands and the host, as   *)
(* one system, and what must be true of it.                                *)
(*                                                                         *)
(* The code has two known gaps, each of which returns a job to pending     *)
(* although its worker may live; "exposed" collects the jobs that met one. *)
(* - The daemon crashes in the boot pass after the requeue of the job and  *)
(*   before the marker says so.  The job is started again with the intent  *)
(*   marker still there, and the next start of the daemon follows it.      *)
(* - A bump command writes the pending row it read over the running one.   *)
(***************************************************************************)
EXTENDS ExecutionSupervisor

-----------------------------------------------------------------------------
(* The operator (src/src/app/queue_cmd.rs) and the provider. *)

Submit(p) ==
  /\ submitted < MaxJobs /\ QueueFree
  /\ submitted' = submitted + 1
  /\ jobs' = Enqueue(jobs, submitted + 1, p)
  /\ UNCHANGED <<lock, durableVars, processVars, tickVars>>
  /\ UNCHANGED <<boot, merged, bump, bumps, crashes, exposed>>

\* cancel_command; a second request changes nothing.
Cancel(j) ==
  /\ QueueFree /\ CanRequestCancel(jobs[j], NoProof) /\ ~jobs[j].asked
  /\ jobs' = RequestCancel(jobs, j, NoProof)
  /\ UNCHANGED <<lock, durableVars, processVars, hostVars, tickVars>>

\* bump_command: the row is read and checked first, and written back later.
BumpRead(j, p) ==
  /\ bumps < MaxBumps /\ bump = NoBump /\ QueueFree
  /\ Pending(jobs[j]) /\ p # jobs[j].priority
  /\ bump' = [job |-> j, row |-> [jobs[j] EXCEPT !.priority = p]]
  /\ bumps' = bumps + 1
  /\ UNCHANGED <<jobs, lock, durableVars, processVars, tickVars>>
  /\ UNCHANGED <<submitted, boot, merged, crashes, exposed>>

BumpWrite ==
  /\ bump # NoBump /\ QueueFree
  /\ jobs' = IF UpdateConflict(jobs, bump.job, bump.row) THEN jobs
             ELSE Update(jobs, bump.job, bump.row)
  /\ bump' = NoBump
  /\ exposed' = exposed \cup {j \in Job : Running(jobs[j]) /\ Pending(jobs'[j])}
  /\ UNCHANGED <<lock, durableVars, processVars, tickVars>>
  /\ UNCHANGED <<submitted, boot, merged, bumps, crashes>>

\* The pull request of a job is merged at the exact head of the job.
Merge(j) ==
  /\ j \in MayMerge \ merged /\ j <= submitted
  /\ merged' = merged \cup {j}
  /\ UNCHANGED <<jobs, lock, durableVars, processVars, tickVars>>
  /\ UNCHANGED <<submitted, boot, bump, bumps, crashes, exposed>>

-----------------------------------------------------------------------------
(* The host. *)

\* The stale limit passes without a heartbeat.  It is far longer than a worker
\* waits for its receipt and than the supervisor takes to spawn one.
GoStale(j) ==
  /\ Running(jobs[j]) /\ jobs[j].fresh
  /\ \A g \in Gen : proc[g].job = j => proc[g].st # "waiting"
  /\ jobs' = [jobs EXCEPT ![j].fresh = FALSE]
  /\ UNCHANGED <<lock, durableVars, processVars, hostVars, tickVars>>

\* The memory of the daemon is lost; its workers run on.
RestartDaemon ==
  /\ stage' = "boot" /\ step' = "enter" /\ cur' = NoJob /\ todo' = {}
  /\ unknown' = FALSE
  /\ child' = [j \in Job |-> NoGen]

DaemonCrash ==
  /\ crashes < MaxCrashes
  /\ crashes' = crashes + 1
  /\ RestartDaemon
  /\ UNCHANGED <<jobs, lock, durableVars, proc, spawned>>
  /\ UNCHANGED <<submitted, boot, merged, bump, bumps, exposed>>

\* Every process ends and the daemon starts in the new boot.
Reboot ==
  /\ boot < MaxBoots
  /\ boot' = boot + 1
  /\ proc' = [g \in Gen |-> IF proc[g].st = "none" THEN proc[g]
                            ELSE [Gone(proc[g]) EXCEPT !.on = NoTarget, !.frozen = FALSE]]
  /\ lock' = NoGen
  /\ bump' = NoBump
  /\ RestartDaemon
  /\ UNCHANGED <<jobs, durableVars, spawned>>
  /\ UNCHANGED <<submitted, merged, bumps, crashes, exposed>>

-----------------------------------------------------------------------------
(* The system. *)

Init ==
  /\ jobs = [j \in Job |-> Absent]
  /\ lock = NoGen
  /\ receipt = [j \in Job |-> NoGen]
  /\ txn = [j \in Job |-> NoTxn]
  /\ marker = [j \in Job |-> "none"]
  /\ outcome = [j \in Job |-> "none"]
  /\ leases = {}
  /\ proc = [g \in Gen |-> NoProcess]
  /\ spawned = 0
  /\ child = [j \in Job |-> NoGen]
  /\ submitted = 0 /\ boot = 1 /\ merged = {} /\ bump = NoBump /\ bumps = 0 /\ crashes = 0
  /\ exposed = {}
  /\ stage = "boot" /\ step = "enter" /\ cur = NoJob /\ todo = {} /\ unknown = FALSE

Operator ==
  \/ \E p \in Priority : Submit(p)
  \/ \E j \in Job : Cancel(j)
  \/ \E j \in Job, p \in Priority : BumpRead(j, p)
  \/ BumpWrite
  \/ \E j \in Job : Merge(j)

Host ==
  \/ \E j \in Job : GoStale(j)
  \/ \E g \in Gen : WorkerDies(g)
  \/ \E g \in Gen : OrphansEnd(g)
  \/ DaemonCrash
  \/ Reboot

Next ==
  \/ SupervisorStep \/ SupervisorFault
  \/ \E g \in Gen : WorkerStep(g)
  \/ Operator \/ Host

Spec == Init /\ [][Next]_vars

\* The daemon ticks and its workers run for ever: nothing outside them keeps the
\* queue lock.  An admission that is possible again and again is made, a target
\* that is tried again and again ends, and a deferred job's retry time comes.
Fairness ==
  /\ WF_vars(SupervisorStep) /\ SF_vars(SelectPending({}))
  /\ \A g \in Gen : WF_vars(WorkerStep(g))
  /\ SF_vars(\E g \in Gen, v \in {"pass", "fail"} : FinishTarget(g, v))
  /\ \A j \in Job : WF_vars(GoStale(j))

FairSpec == Spec /\ Fairness

-----------------------------------------------------------------------------
(* Properties. *)

\* The rows of the queue; a job that was not submitted has none.
QueueOK ==
  /\ jobs \in Queue
  /\ lock \in Gen \cup {NoGen}
  /\ submitted \in 0 .. MaxJobs
  /\ \A j \in Job : j > submitted => jobs[j].status = "absent"

\* The other files of the state directory.
DurableOK ==
  /\ receipt \in [Job -> Gen \cup {NoGen}]
  /\ txn \in [Job -> Txn]
  /\ marker \in [Job -> {"none", "intent", "requeued"}]
  /\ outcome \in [Job -> Outcomes]
  /\ leases \subseteq Job

\* The worker processes; each that lives has a job.
ProcessOK ==
  /\ proc \in [Gen -> Process]
  /\ spawned \in 0 .. MaxSpawns
  /\ child \in [Job -> Gen \cup {NoGen}]
  /\ \A g \in Gen : RootAlive(g) => proc[g].job \in Job

\* The operator and the host; a bump command holds the row of a job.
HostOK ==
  /\ boot \in Nat /\ bumps \in Nat /\ crashes \in Nat
  /\ merged \subseteq Job /\ exposed \subseteq Job
  /\ bump \in [job : Job \cup {NoJob}, row : Row]
  /\ bump # NoBump => bump.job \in Job

\* The memory of the tick; a step about a job knows the job.
TickOK ==
  /\ stage \in Stages /\ step \in Steps
  /\ cur \in Job \cup {NoJob} /\ todo \subseteq Job
  /\ unknown \in BOOLEAN
  /\ step \in {"enter", "next", "start"} \/ cur \in Job

\* Every file and every process record holds what its reader expects.
TypeOK == QueueOK /\ DurableOK /\ ProcessOK /\ HostOK /\ TickOK

\* A cancellation request never outlives what it was made of: wherever a row is
\* kept, in the queue, in the copy a worker writes back or in the one a bump
\* command holds, a row with a request is running or cancelled.
RequestsSound ==
  /\ \A j \in Job : RequestSound(jobs[j])
  /\ \A g \in Gen : RequestSound(proc[g].snap)
  /\ RequestSound(bump.row)

\* At most one worker tree acts for a job, whatever is lost, killed, retried or
\* restarted: no job is executed twice at the same time.
OneTreePerJob ==
  \A g, h \in Gen : /\ g # h /\ TreeAlive(g) /\ TreeAlive(h)
                    => proc[g].job # proc[h].job

\* A worker that may still act for a job holds the job's receipt, so that the
\* supervisor can always find it, stop it and prove its tree dead.
ActingHasReceipt ==
  \A g \in Gen : Acting(g) => receipt[proc[g].job] = g

\* Validation processes run only under the lease of their job: no lease is
\* handed back while the tree that took it may still use the host.
ValidationLeased ==
  \A g \in Gen : proc[g].on # NoTarget => proc[g].job \in leases

\* A job that waits in the queue holds no host-pool lease: whatever handed it
\* back, a deferral, a failed spawn or a reboot, gave its lease back before.
PendingUnleased == \A j \in Job : Pending(jobs[j]) => j \notin leases

\* No job is executed twice at the same time, through reboots and crashes
\* anywhere in the boot pass and in the ticks before and after it, and through
\* bumps (requeue_jobs_interrupted_by_reboot, bump_command): the two gaps above
\* are the only ways to a second worker tree.
OneTreeUnlessExposed ==
  \A g, h \in Gen : /\ g # h /\ TreeAlive(g) /\ TreeAlive(h)
                    /\ proc[g].job = proc[h].job
                    => proc[g].job \in exposed

\* A waiting job holds no host-pool lease, whichever pass handed it back and
\* wherever that pass was cut short: outside the two gaps no crash between the
\* release of a lease and the requeue leaves one behind or takes one away from
\* a job that waits for it.
PendingUnleasedUnlessExposed ==
  \A j \in Job : Pending(jobs[j]) /\ j \in leases => j \in exposed

\* What a termination transaction records durably is true of the host, through
\* every crash, retry and restart that resumes it: past its phases the tree of
\* the job is dead, and then its leases are released.
TxnTruthful ==
  \A j \in Job : /\ txn[j].phase \in {"dead", "released"} => ~Executing(j)
                 /\ txn[j].phase = "released" => j \notin leases

\* A job leaves running for pending only when no tree acts for it: deferral,
\* failed spawn and reboot replay nothing that is still going on.
ReplayAfterDeath ==
  [][\A j \in Job : Running(jobs[j]) /\ Pending(jobs'[j]) => ~Executing(j)]_vars

\* A requested cancellation of a running job is acknowledged only after the
\* worker tree is dead.
CancelledAfterDeath ==
  [][\A j \in Job : CancelRequested(jobs[j]) /\ jobs'[j].status = "cancelled"
                    => ~Executing(j)]_vars

\* Only a condemned worker is ever stopped: its job is cancelled, asked to be,
\* or handed back to the scheduler, however old the list the supervisor works
\* from.
FrozenCondemned ==
  \A g \in Gen : RootAlive(g) /\ proc[g].frozen
     => LET r == jobs[proc[g].job] IN
        \/ r.status \in {"cancelled", "absent"}
        \/ Running(r) /\ (r.asked \/ r.deferred)

\* Running jobs never share an exclusive claim and never exceed the worker
\* limits, although they are admitted from what an earlier read showed.
RunningFit ==
  LET R == Rows(jobs, {"running"}) IN
  /\ \A i, j \in R : i # j => Claims[i] \cap Claims[j] = {}
  /\ Cardinality(R \ Metadata) <= MaxWorkers
  /\ Cardinality(R \cap Metadata) <= MaxControllers

\* A terminal row keeps its disposition until it is trimmed.
TerminalFinal ==
  [][\A j \in Job : Terminal(jobs[j])
                    => jobs'[j].status \in {jobs[j].status, "absent"}]_vars

\* A requested cancellation is never lost, by whatever row is written back: a
\* running row keeps the request and its proof and can only become cancelled.
CancelKept ==
  [][\A j \in Job : CancelRequested(jobs[j])
       => /\ jobs'[j].status \in {"running", "cancelled", "absent"}
          /\ Running(jobs'[j]) => jobs'[j].asked
          /\ jobs[j].proof # NoProof /\ jobs'[j].status # "absent"
               => jobs'[j].proof = jobs[j].proof]_vars

\* The system is an exclusive executor: queue rows are the states and requests,
\* and the worker trees that still act for a job are its agents.
Exclusive == INSTANCE ExclusiveExecution WITH
  Jobs <- Job, Agents <- Gen,
  state <- [j \in Job |-> jobs[j].status],
  asked <- {j \in Job : jobs[j].asked},
  agents <- [j \in Job |-> {g \in Gen : proc[g].job = j /\ TreeAlive(g)}]

\* Every behaviour of the supervisor and its workers is one the abstract
\* executor allows.
ImplementsExclusive == Exclusive!AbsSpec

\* A requested cancellation of a running job is answered.
CancelAnswered ==
  \A j \in Job : CancelRequested(jobs[j]) ~> ~Running(jobs[j])

\* A pending job is started, cancelled or superseded, unless the bound on worker
\* processes is reached: no job waits for ever behind the claims of others.
PendingServed ==
  \A j \in Job : Pending(jobs[j])
    ~> \/ ~Pending(jobs[j])
       \/ \E S \in SUBSET Eligible(jobs, {}) :
            Selected(jobs, {}, S) /\ spawned + Cardinality(S) > MaxSpawns

\* reconcile_terminal_outcomes: the outcome that wait and watch report is
\* repaired until it tells what the terminal queue row says.
OutcomeRepaired ==
  \A j \in Job : Terminal(jobs[j]) ~> (OutcomeAgrees(j) \/ ~Terminal(jobs[j]))
=============================================================================
