# Shipyard: queued execution and its protocols, verified

Shipyard validates pull requests and lands them. Submissions become rows of a
durable queue; a daemon admits them, spawns one worker process per job, and must
end with exactly one truthful disposition per job although the daemon, its
workers and the host may stop at any step. Around that core stand the protocols
that keep its files, its one native-worker slot, its canary jobs, its reviewers'
claims and its merge-queue mutations consistent between processes that share
nothing but files, locks and GitHub. This project models the core and those
protocols.

## Inventory

| Part | State | Operations | What is hard about it | What makes it correct |
|---|---|---|---|---|
| Durable queue (`queue.rs`, `job.rs`) | `queue.json` under a blocking file lock | enqueue, update, request_cancel, start, requeue, complete, finalize, trim | callers hold old copies of rows; whole rows are written back | an end is final; a request is never lost |
| Execution supervisor (`execution_supervisor.rs`) | children, stage of the tick; worker receipts, boot markers, outcomes | one tick = boot pass once, outcome repair, cancel, defer, reap, sweep, merges, running, admission | each stage reads, then acts; the daemon may crash between any two file accesses | a job never has two acting trees; it is replayed only after death; admissions fit |
| Termination transactions (`execution_termination.rs`) | one file per job: frozen, tree dead, leases released | begin, prove_tree_dead, mark, promote, remove | a crash in each phase, an unverifiable death, a cancellation during a deferral | a recorded phase is true of the host |
| Execution worker (`app/execution_worker_cmd.rs`, `ship.rs`) | its copy of the row, its validation processes, its lease | authority check, target loop, publish, defer, fail, wait for cancellation | interleaves with supervisor, operator and its own death, inside the queue lock too | acts only with its receipt; validates only under a lease |
| Operator and provider (`app/queue_cmd.rs`) | none | submit, cancel, bump, merge | read and write in two lock acquisitions | never revives or loses anything |
| Worker capacity (`daemon_worker_capacity.rs`, `host_pool.rs`) | leases and their age, an audit's process receipt | claim or heartbeat, release, bind, clear, reconcile | three runtimes share one slot; a lease lapses when its owner is silent | one native worker; no queue worker beside an audit; the slot is never lost |
| Canary job (`parallel_proof_canary_job`, its adapter) | chain of write-once receipts, supervisor records, completion, artifact | submit, claim, launch, bind, reconcile, cancel, complete | daemon, restarted daemon and cancel commands compete for the next place | launched once; the outcome is true; a cancellation is kept; it ends |
| Writer domain (`writer_domain_lease.rs`, `app/update_cmd.rs`) | turnstile and reader/writer file locks, nesting depth | enter, nest, hand over to a guardian, audit, leave | deadlines, deaths, a hand-over between processes | audits and mutations exclude each other; everyone enters |
| Durable files (`durable_file.rs`) | a path and its directory | replace | a machine that stops between rename and sync | never torn; done means kept |
| Immutable stores (`immutable_store.rs`, `parallel_proof.rs`) | records, pending files, key locks | put, open and reconcile | a put dies between check, rename and sync | a record that was reported is kept and never another |
| Foreground drain and planner (`ship.rs`, `queue_scheduler.rs`) | queue, outcomes, drain lock, threads | submit, recover, plan, apply in three transactions, run, wait | a plan over a snapshot is applied to a queue that moved on | running jobs fit; scopes are respected; commands return |
| Queue-absence recovery (`queue_absent_recovery.rs`) | queue, envelopes, ship states, claims | select, fence, claim, replace, resume | the queue file is lost while workers and submitters go on | work is queued again at most once; ships are answered |
| Ship state (`ship_state.rs`) | scoped files, a mirror for older binaries, a fence | update, archive, cleanup, import, mirror | old and new binaries on one host, kills between two files | no update lost; nothing removed returns; no lock cycle |
| Reviewer claims (`reviewer_receipt.rs`, `app/reviewer_claim_cmd.rs`) | the claim in the ship state, receipts on GitHub | acquire, publish, revoke, adopt, validate, arm | lost and late replies of GitHub, retargets, expiry | receipts and ship state agree; verdicts are current |
| Merge-queue admission (`merge_queue_control.rs`, `app/auto_merge_cmd.rs`) | mutation ledger, HOLD, ship-state markers, GitHub | arm, supervise, revoke, settle, hold, resume | a lost reply to a mutation that happened; locks nested in two orders | retries are fenced; entries settle; HOLD returns |
| Merge steward, landing, fleet, cloud, webhooks, metrics, executors | | | | not modelled (reasons in `PROJECT.json`) |

The parts interact through files only. The supervisor and its workers share the
queue, receipts and leases; a worker knows nothing of the supervisor except
through its receipt and the queue row, and the supervisor ends a worker only
through signals to a process tree it has first stopped and recorded.

## Modules

    JobQueue              rows, job transitions, queue operations (operators)
      ExecutionState      files, processes, memory of the tick (variables)
        ExecutionWorker   the worker process
          ExecutionSupervisor  the tick and its faults
            ExecutionSystem    operator, host, Init/Next/Spec, fairness, properties
              WorkerCustody    inductive invariant: who may act for a job
                ExecutionOrder inductive invariant: leases, copies, stops, admissions
                  MCExecution  values for TLC
      ForegroundDrain     commands that drain the queue in the foreground
    ExclusiveExecution    what the whole promises (abstract specification)
    WorkerCapacity        the native-worker slot           (MCCapacity)
    CanaryJob             one canary job
    WriterDomain, DurableFile, ImmutableStore, ShipStateStore,
    QueueAbsentRecovery   protocols around the state files
      Protocols           these and ForegroundDrain side by side (MCProtocols)
    WriteOnce             what an immutable store promises (abstract specification)
    ReviewerClaim         claims and receipts              (MCReviewerClaim)
    QueueAdmission        arming, ledger, settlement

    ExecutionProofs, CustodyProofs       proofs of the execution core, the second on the first
    StoreProofs, CapacityProofs, CanaryProofs, ClaimProofs, AdmissionProofs
                                         proofs of one component each
    ProtocolProofs                       proofs of the protocols side by side

**JobQueue.** Every queue mutation runs under the state lock, reads the file,
edits it and replaces it, so it is one operator from queue to queue. A row keeps
status, priority, cancellation request (`asked`) and proof, the scheduler
deferral, a heartbeat flag, results per target and its place among ended rows,
which is what trimming reads. Times are abstracted to flags: `fresh` is cleared
by time, a retry time has come or not.

**ExecutionState.** `jobs` is `queue.json`; `receipt`, `txn`, `marker`, `outcome`
are the files of the same names; `leases` says which job holds a host-pool lease;
`proc` records every worker process: what it does next, the target whose
validation processes live (`on`), its copy of the row (`snap`), whether it is
stopped. A worker generation is the number of its process. A process that died
with `on` set has left descendants behind.

**ExecutionWorker.** One action per step of `execution_worker_command`. A queue
access is two steps, `Lock` and the access, because the lock blocks and the
worker can be stopped or die inside it.

**ExecutionSupervisor.** `stage` follows `ExecutionSupervisor::tick`, `step` the
next file or queue access in it, `cur` the job it is about and `todo` the jobs a
stage has still to visit: a list read once at the start of the stage, as in the
code. An error aborts the tick (`AbortTick`), and a crash loses `stage`, `step`,
`todo` and `child` and nothing else. A queue access of the supervisor waits for
the lock and is then one step: nothing can stop the daemon inside it but a crash,
which is a crash before or after it. Three stages that only touch a file per job
(outcome repair, finalized transactions, receipt sweep) are one step each. The boot
pass is one step per durable write: marker, lease, receipt, requeue, marker.

**ExecutionSystem.** Adds submissions, cancel, bump, merges, staleness, process
deaths, daemon crashes and reboots. Faults are switched by `Faults`: `io` (an I/O
error ends the tick), `worker` (a worker dies), `error` (a worker fails), `spawn`
(no process or no receipt), `kill` (death not verified), `probe` (liveness
unknown), `drain` (drain lock busy), `envelope` (the request of a running job does not
load, so nothing is started beside it).

One history variable, `exposed`, is not part of the program: it collects the jobs that
were started while their boot marker still says `intent`, or whose running row a bump
made pending. No guard reads it. The run `restart` states what holds of all other jobs.

**ExclusiveExecution.** The abstract executor: states, requests and agents per
job, nothing else. `ImplementsExclusive` maps the queue rows to states and the
acting worker trees to agents.

**WorkerCapacity.** Leases with their age, the audit's receipt and the loop of
the daemon, which lets its queue supervisor and its canary runtime use the slot in
turn; audit commands are processes of their own. Every operation runs under the
control lock and is one step. `Unreadable` are jobs whose request may stop loading
while they run: the daemon then gives their claim back (`Disown`). The release of a
selected claim when a running request does not load (`admit_pending`, 1152-1157) has
nothing to release here: such a row counts as a native worker (1033-1040) and
`MAX_WORKERS` is 1, so no claim was selected.

**CanaryJob.** `chain` is the receipt chain. Writers append after the receipts
they have loaded (`mark`); `Put` creates or conflicts. `daemon` and `cancel[r].pc`
are what daemon and commands do next, and everything read before an append is in
their variables, so a crash or a competing append may come anywhere between. `slot`
is the native-worker slot as this job sees it: a tick that finds it taken by others
skips the job, one that finds it free takes it, and the job's end gives it back.

**WriterDomain, DurableFile, ImmutableStore.** Locks, renames and syncs one by
one; the disk keeps less than the kernel shows until a directory is synced. A
replacement may have to create its directory first; nothing syncs the new directory
in its own parent, so a stop may take it away with everything in it (`dir`).

**ForegroundDrain.** Whoever has the drain lock recovers, plans over a snapshot
(`plan_admit_pass` of `queue_scheduler.rs`), and applies the plan in three queue
transactions. A *setup* fixes who owns which job, whether its targets are local and what
may happen to it. Recovery is for rows with local targets only, completes all of them in
one write and then stores their outcomes one by one; a store that fails ends the command
with the rest unsaved (`PersistFails`). A pass may fail after any of its three
transactions (`PassFails`), and rows it has started then have no thread. `Greedy` says
what the planner's loop over the pending jobs admits: the set in which every job is
exactly if it fits beside the running ones and the members before it in queue order.

**QueueAbsentRecovery, ShipStateStore.** One pull request; the recovery thread
next to submitters, workers and sweeps, and the files with the locks of old and new
binaries.

**ReviewerClaim, QueueAdmission.** The commands step by step between local locks,
local files and GitHub, whose answers may be lost or late. Time is a count of
stamps.

Definitions named in a "Mutant" comment are deliberately wrong variants of the
definition below them; no specification uses them.

## Runs

| Run | Instance | Properties |
|---|---|---|
| `execution` | 1 job, 3 workers, 2 crashes, every fault but `envelope`, a merge | `Custody`, `ValidationLeased`, `TxnTruthful`, `FrozenCondemned`, `ReplayAfterDeath`, `CancelledAfterDeath`, `ImplementsExclusive`: whoever acts is known, leased and stopped for cause; recorded phases are true; replay and cancellation come after death |
| `restart` | 1 job, 3 workers, 2 boots, 2 crashes, boot requeue, dying and failing workers; or 1 bump | `OneTreeUnlessExposed`, `PendingUnleasedUnlessExposed`, `CancelKept`: reboots, crashes anywhere in the boot pass and bumps start no second tree and leave no lease with a waiting job, outside the two gaps; a request survives every late write |
| `restart_replay` | 1 job, 3 workers, 2 boots, 2 crashes, boot requeue | expects the violation of `OneTreePerJob` described below |
| `admission` | 5 jobs, one with an invalid request, 1 worker and 1 metadata-controller slot, a claim shared by two jobs, a shared lane, requests that do not load, 1 ended row kept | `RunningFit`, `TerminalFinal`: what runs together may; an end is final through supersession and trimming |
| `exec_liveness` | 2 jobs with the same host claim, errors, busy drain lock | `PendingServed`, `CancelAnswered`, `OutcomeRepaired`: jobs are served, requests answered, outcomes repaired |
| `capacity` | 2 jobs, one whose request stops loading, 1 canary, 1 audit, 1 crash, silent owners, a surviving canary | `OneNativeWorker`, `AuditExcludesQueue`, `JobServed`: the slot is exclusive and never lost |
| `canary` | 1 command, deadline 3, 1 heartbeat, clock to 4, 1 crash, a slot that others take | `ReceiptsTrue`, `LaunchedOnce`, `TerminalQuiet`, `CancelHonoured`, `JobEnds`: the chain is true, one launch, quiet after the end, and it ends |
| `protocols` | 7 subjects: 3 processes for files and stores; 2 threads, a guardian, 2 audits; 2 repositories with old binaries; 4 jobs with lost queues; 3 drained jobs, 3 setups with remote and failing commands, 1 death | `FileSafe`, `DomainSafe`, `KeepsPromise`, `ShipStateSafe`, `OneGoesOn`, `RecoverySafe`, `DrainSafe`, `DrainScoped`: each protocol keeps what its callers rely on |
| `protocols_liveness` | 1 audit, no outages, 2 drained jobs, a remote run whose owner may die | `EveryoneEnters`, `Answered`, `CommandReturns` |
| `claim` | 2 reviewers, 2 heads, 2 bases, clock to 3, 2 runs, 1 move, 1 verdict, 1 crash, symmetry | `ReceiptsAgree`, `ArmedCurrent`: receipts agree with the ship state; what is armed was reviewed as it stands |
| `queue_admission` | 2 processes, 2 heads, 2 bases, 2 runs, 2 identifiers, 2 events | `LedgerTrue`, `RetryFenced`, `HoldReturns`, `EntrySettles`: an uncertain mutation is not repeated, HOLD ends, entries settle |
| `bump_race` | 1 job, 2 priorities, 1 bump, no faults | expects the violation of `OneTreePerJob` described below |

`protocols` and `protocols_liveness` check the six protocol modules side by side
(module `Protocols`): the initial state chooses a subject, and only that subject's
variables move, so the state space is the sum of theirs. Processes, repositories,
numbers of jobs and all bounds are constants of `Protocols`, given in the cfg.

Why the bounds are enough. The properties of `execution` and `restart` are about one
job and its successive workers; jobs meet only in admission, supersession and
trimming, which `admission` covers.
Two workers make a double execution visible, the third makes one that follows a
completed replay visible. Two crashes put one inside a transaction and one inside its
recovery, or one inside the boot pass and one after it. `BumpAlone` of `restart` keeps
the bump, with two workers, apart from crashes and reboots: each of the two gaps is
met alone, `CancelKept` is proved for all of them. `MaxWorkers` is 1 as in the code,
and a limit of 1 instead of 4 controllers makes it bind with two of them;
`OneCancelled` of `admission` lets only the first job, which another may supersede, be cancelled.
In `canary` one heartbeat, a deadline of three and a clock to four let every receipt
kind occur, before and after the deadline; in `capacity` the second job waits behind
the first, the canary and the audit. In the protocols three processes are one that
dies, one that finds what it left and one that competes with it. `claim` has three
clock readings, so that a claim expires and another follows; its constraint `Followed`
stops behaviours in which a receipt already stands that no ship state vouches for and
every property but the two about receipts is vacuous. `MaxEvents` of `queue_admission`
allows any two of its disturbances. Constants such as `MaxSpawns` only bound the state
space: when they are used up, nothing new starts, and the liveness properties say so.
What the theorems below prove holds without these bounds.

**Fairness.** Each part assumes what its scheduling gives. Execution: the
supervisor ticks for as long as it runs and a live worker is scheduled (weak); that
admission without a job held back by its retry time happens again and again
(strong: retry times are seconds); that validations end (strong, of all together:
executors have time-outs) and time passes. Capacity: the daemon's loop goes round
and is started again; strong fairness of the four steps that take the drain lock,
which audits hold only for a moment; workers end, leases lapse, audits go on.
Canary: the daemon ticks for as long as the slot is not taken by others, time passes,
and a process whose liveness cannot be probed is probed in the end (strong); nothing is
asked of worker, commands and the other users of the slot. `JobEnds` is therefore
stated of behaviours in which the others stop taking the slot: a busy queue can keep
a canary waiting for ever, past its deadline too. Protocols: weak fairness
of every process's next step, strong fairness of polling for a lock that is free
again and again and of a drain pass in which no job is held back. Merge queue:
processes go on, GitHub lets every `gh` child come back (an assumption about GitHub:
`arm_native_queue` waits without a timeout and holds the control lock meanwhile), the
steward passes, and steward and operator get the control lock if it is free again and
again (strong). Nothing is
assumed of operators, deaths, faults or submissions.

### What the violating runs show

`bump_race`: `queue bump` reads a pending row and writes the whole row back later.
If the daemon starts the job in between, `Queue::update` accepts the pending row,
and the job is executed a second time beside the first.

`restart_replay`: the boot pass returns a job to pending and completes its marker
afterwards. A crash in between leaves the intent marker. The next daemon starts the
job; the daemon after that, which saw no reboot, follows the old marker, releases the
lease, removes the receipt and requeues the job whose worker lives. The comment of the
pass says that each step is idempotent and that a later start repeats nothing.

### Known boundaries

Where the runs or theorems have a hypothesis, TLC finds a counterexample without
it. These are statements one might expect of the code and that it does not keep:

* *Boot requeue.* With boot requeue, `OneTreePerJob` and `PendingUnleased` hold only
  of jobs that are not `exposed` (`restart_replay`).
* *Bump* also breaks `RunningFit`, by the same late write.
* *A worker stopped inside the queue lock.* If the daemon crashes before the
  transaction is durable, the lock stays taken until the worker is found.
* *Outcome before row.* A worker saves its outcome before its row. If it dies in
  between and the daemon stops after completing the row as uncertain, the outcome
  stays: repair only writes missing ones, and ship outcomes without a post-validation
  part, which the model does not tell apart. `OutcomeRepaired` is checked without
  deaths.
* *Capacity.* A lease lapses after 30 s of silence, a running job whose request does
  not load gives its claim back, and a canary whose cancellation is uncertain frees
  its slot: a second native worker may then run beside the first, which is why
  `OneNativeWorker` does not count owners whose claim was lost.
* *Canary.* A restarted daemon reads the completion before it probes a process that is
  not its child, and may call a successful worker lost. A canary that never gets the
  slot does not even expire.
* *Stores.* `ImmutableByteStore` answers AlreadyPresent without syncing the directory,
  so only what was reported after a sync is promised; `replace` may report an error
  although the new contents stand.
* *New directories.* `replace` promises to replace a path "durably, creating its
  directory if needed" (`durable_file.rs:52`), and syncs the directory it renamed in,
  but not the parent of one it created: what was reported done there is promised only
  once the directory is on disk for another reason.
* *Foreground drain.* A cancelled row may be recovered as completed; a row trimmed
  before its command polls is polled for ever. A drain owner that fails or dies
  between completing the rows it recovers and storing their outcomes leaves completed
  rows without outcome (`unsaved`): later recoveries look at running rows only, so
  they stay so unless a daemon repairs them. Abandoned rows with remote targets are
  not recovered (`envelope_matches_foreground_job`; a test asserts it): a run stays
  running and its command does not return (`Abandoned`), a ship is reaped by a later
  pass once it is stale. `CommandReturns` excuses exactly such runs.
* *Recovery.* A ship stays stranded if the worker of its replacement dies without a
  verdict.
* *Ship state.* An archive may race with an update of an older binary; a kill between
  scoped file and mirror lets an old state return; the marker of a shared number is
  removed by the next sync that finds at most one repository; a third repository may
  keep the other two from being marked until the next sync.
* *Claims.* A publication reported as failed may have happened, or happen later; the
  properties are stated until such a receipt is `stray`.
* *Merge queue.* `RetryFenced` speaks of unsettled requests: one that lands after its
  entry was settled as rejected and its head was armed again is not fenced. An entry
  whose pull request is queued or armed at another head waits. An orphaned entry under
  HOLD or after a superseded archive stays; a removal that GitHub accepted and
  supervision has not recorded is armed again.

## Proofs

TLAPS checks every theorem for all values of the constants, from the assumptions named
in the modules (`QueueAssumption`, `ExecutionAssumption`, `CapacityAssumption`,
`CanaryAssumption`, `ImmutableAssumption`, `ClaimAssumption`, `AdmissionAssumption`,
and `Assumptions` of `Protocols`, which collects those of the protocol modules), which
TLC evaluates in the runs. `CapacityAssumption` asks that jobs, canaries, audits and
the works of audits have different names, as the kind prefix of `lease_job_id` gives
them; the last two ask that the values for "none" are not also claims, states,
removals or processes.

**The queue** (`ExecutionProofs`; boot requeue, bumps and all faults allowed).

* `TypeCorrect`, `RequestsCorrect`: `Spec => []TypeOK`, `Spec => []RequestsSound`
* `EndsAreFinal`: `Spec => TerminalFinal`
* `CancellationsAreKept`: `Spec => CancelKept`

The inductive invariant is `TypeOK /\ RequestsSound`. `TypeOK` alone does not give
the action properties: a pending row with a request would, when it is started,
become a running row whose request was never part of the protocol, and a worker's
copy with such a row could be written back. `RequestsSound` says that no row kept
anywhere (queue, worker copy, bump command) is pending or completed with a request.
The first part of the module shows of each queue operation that it is a `SafeEdit`:
rows stay rows, ends and requests are kept, absence is kept. The rest needs only, per
action, which edit it makes and that the rest stays well typed (`Kept`);
the action properties follow from `Kept` without a second induction.

**Custody** (`CustodyProofs`; on a `PlainHost`, without bumps and boot requeue).

* `CustodyKept`: `Spec => []Custody`
* `NeverTwoTrees`: `Spec => []OneTreePerJob`
* `ReceiptsFindWorkers`: `Spec => []ActingHasReceipt`
* `ReplaysAreDead`: `Spec => ReplayAfterDeath`

The hypothesis is needed: with a bump (`bump_race`), or with boot requeue and two
crashes (`restart_replay`), the code does start a second tree. So the theorems say
that, in this model, these two are the only ways to a double execution.
`OneTreePerJob` is far from inductive. What protects a job is spread over the receipt,
the transaction file, the supervisor's `child` and the place the tick has reached
between reading one and writing another. `Custody` says, for a job: every acting tree
is named by the receipt (`TreeInv`); a pending row, or one that admission has just
started, has no acting tree; a transaction past `frozen` belongs to a dead tree; and
for each step of a stage that acts on an earlier read (`AdmitInv`, `TerminateInv`,
`DropInv`), what was read is still true. Each stage's conclusion stays true only
because nobody else writes receipts and because workers can lose, but never gain, the
right to act without a receipt; the proof has lemmas for steps of others, which only
let trees wane, and then one lemma per group of supervisor steps.

**Order** (the second part of `CustodyProofs`; on a `PlainHost`).

* `OrderHolds`: `Spec => []Order`
* `LeasesHeld`: `Spec => []ValidationLeased`
* `WaitingHoldsNothing`: `Spec => []PendingUnleased`
* `TransactionsAreTrue`: `Spec => TxnTruthful`
* `StopsAreJust`: `Spec => []FrozenCondemned`
* `AdmissionsFit`: `Spec => []RunningFit`
* `CancelsAreDead`: `Spec => CancelledAfterDeath`
* `ExecutorImplemented`: `Spec => ImplementsExclusive`

`Order` (module `ExecutionOrder`) adds to custody: who holds a lease and which steps
know that nobody uses it (`LeaseInv`); that a copy a worker writes back neither
revives an ended job nor takes back a mark of deferral (`CopyInv`); that only running
jobs are started (`StartInv`); that the jobs on the lists from which the supervisor
stops workers stay condemned (`StopInv`); and that the selected jobs fit beside the
running ones although they start one by one (`FitInv`). Its five parts depend on each
other and on every action, so the proof goes through one step predicate. `Lawful`
says what any step may do to rows, processes, leases, files and the tick, and which
of them it may change at once (`Apart`); 30-odd lemmas show that each action is
lawful, and lawful steps preserve each part of `Order`. The action properties and the
refinement then follow from `Lawful`, `Custody` and `Order` without a case split over
the actions: a lawful step changes rows or trees but never both, and each change is a
step of the abstract executor.

**Immutable stores** (`StoreProofs`): `StoresKeepPromise`, `Spec => KeepsPromise`, the
refinement of `WriteOnce`, and `ChecksHold`. The invariant says that the key's lock
protects a put from its check to its rename (`LockInv`, `CheckHolds`), that the disk
holds a part of what the kernel shows, with everything that was reported (`DiskInv`),
and that pending files belong to live puts (`NoLitter`). Each step publishes, tells or
forgets (`Promised`), which are the steps of `WriteOnce`. `StoresKeepTheirPromise` of
`ProtocolProofs` states it of both stores as the runs compose them.

**Worker capacity** (`CapacityProofs`): `OneWorkerRuns`, `Spec => []OneNativeWorker`,
and `AuditsKeepQueueOut`, `Spec => []AuditExcludesQueue`. Never two leases
(`LeaseInv`); an audit's processes run under its receipt, which leaves no room for
another owner's lease (`ReceiptInv`); admission and the idle check of an audit hold the
drain lock (`DrainInv`); from that check to the end of the audit no row runs
(`QuietInv`); and the claim of a running worker is live unless it lapsed or was given
back (`HeldInv`).
Each alone is broken by the daemon's next step after a crash or a silence.

**Canary job** (`CanaryProofs`): `ReceiptsAreTrue`, `LaunchesOnce`,
`EndedJobsAreQuiet` and `CancelsAreHonoured`, that is `Spec => []P` for
`ReceiptsTrue`, `LaunchedOnce`, `TerminalQuiet` and `CancelHonoured`. Every step but
the submission keeps the chain or appends a receipt that *fits* its end (`Grew`), so
what a writer has loaded stays a prefix. The invariant says what the places of the
chain hold (`ChainInv`: a request to cancel is followed only by an outcome), that
whoever launches has claimed the launch and nobody has launched before (`LaunchInv`),
that the worker's records are written once (`RecordsInv`), that a verdict about to be
recorded is justified by what was loaded and will stay so (`VerdictInv`: nothing of
the job runs, or the verdict admits it), and the same of the outcome at the end of
the chain (`OutcomeInv`) and of what commands reported (`CancelInv`). The chain is
bounded because all places but the first three and last two are heartbeats, which are
counted as a finite set.

**Reviewer claims** (`ClaimProofs`): `ReceiptsAlwaysAgree`, `Spec => []ReceiptsAgree`,
and `ArmingNeedsACurrentClaim`, `Spec => []ArmedCurrent`, for every set of outcomes
GitHub's API may have. The ship state and the check runs are written by different
processes at different times and each property compares them at one moment, so the
invariant says what the intervals between the writes keep true: the lock is held from
the claim to the end of its publication (`LockInv`, `ClaimInv`); heads and epochs only
advance, so a new claim's id is on no check run yet (`OrderInv`); a claim is published
once, an unexpired receipt on the adopted head is the active claim's, and while the
POST is under way its id is on no check run, or on the last one (`ReceiptInv`); and an
adoption of another base has marked failed, or will, every receipt of the head
(`AdoptInv`). All of it but the lock, the claim and `IssuedCertified` is conditional on
`~stray`, and the proof shows that the five steps that leave a stray receipt are the
only ones: a POST that lands after its client was killed or died, a revocation after
a lost answer, a discarded state, a push back to an earlier head.
The least and the greatest element of a set of indices exist by the library's theorem
on well-founded relations.

**Merge-queue ledger** (`AdmissionProofs`): `LedgerIsTrue`, `Spec => []LedgerTrue`, and
`RetriesAreFenced`, `Spec => []RetryFenced`. Ledger, ship state, HOLD and GitHub are
written in this order by processes that may end anywhere. The invariant gives each
process the locks its step needs (`LockInv`) and what it carries (`CarryInv`); numbers
and bases are unique in the ledger (`IdInv`), and a process between its guard's acquire
and its finish has its entry there (`EntryInv`); who removes an entry leaves no marker
of it behind (`MarkInv`); every reply, verdict and state that says an enqueue happened
is true (`ProofInv`); and a terminal removal is later than the start of the attempt that
would be repeated, whatever is about to move that start (`StruckInv`, `PathInv`). The
proof found the history variable `granted` too narrow: a push while auto-merge is armed
lets GitHub enqueue the new head without another request, and the model now counts it.

**The protocols side by side** (`ProtocolProofs`). A step of `Protocols` is a step of
one subject or leaves its variables alone (`Projections`), so each subject has an
inductive invariant of its own.

* `FilesStaySafe`: `Spec => []FileSafe`. What is renamed was flushed, what is reported
  done was synced, so a stop, which keeps some prefix of the renames, finds a whole file,
  or, if the directory was created by a write and is not on disk, none. What was
  reported in a directory that is on disk is among the renames for good.
* `DomainStaysSafe`: `Spec => []DomainSafe`, and `AuditsExclude`: `Spec => []OneAudit`.
  The invariant ties lock ownership to what each thread, guardian and audit does next:
  who is inside shares the lock (`SharedInv`), an audit inside owns it (`ExclusiveInv`),
  and the turnstile has one owner (`TurnInv`).
* `ShipStatesStaySafe`: `Spec => []ShipStateSafe`, and `ShipLocksGoOn`:
  `Spec => []OneGoesOn`, for any number of repositories, processes, updates and crashes.
  An update is in its repository's file, or all of the repository's updates are in a
  mirror that is newer (`KeptInv`); who holds a lock knows more: its file is complete
  (`HeldInv`), and the list it read for the mirror is still up to date where it can
  matter (`SyncInv`, `OwnInv`); what was removed is in no file, mirror or list
  (`RemovedInv`); two repositories with files have a marker, or the process that will
  write it holds the mirror's lock (`FenceInv`, `SaveInv`). Each clause is broken alone
  by an older binary that writes the mirror between two steps of a newer one. The proof
  needed one change: `Fenced` now speaks of at most two repositories that ever used a
  number, because with a third one the code may leave a mirror of one of them without a
  marker until the next sync.
* `RecoveryStaysSafe`: `Spec => RecoverySafe`, for any number of jobs, submissions,
  losses and deaths. What the recovery thread checked is far from where it acts, with
  the workload lock let go in between. The invariant says what stays true: the claim it
  read is the one on disk and the ship is still in flight (`AbsentReading`), the source
  and a replacement claimed before stay out of the queue, without an outcome, and nobody
  is about to enqueue them (`AbsentChosen`), because numbers are taken once
  (`AbsentFresh`) and living workers have receipts (`AbsentReceipts`). A job that was
  replaced is out of the queue for good, and as long as the ship is its own the claim
  remembers the replacement (`AbsentRetired`), which is why a second thread cannot make
  another one.
* `DrainStaysSafe`: `Spec => []DrainSafe`, and `DrainStaysScoped`: `Spec => DrainScoped`,
  for any number of jobs, slots, workers and deaths, any owners, claims and pull requests
  of the jobs, any priorities and workloads. The queue moves on between the snapshot of a
  pass and its three writes, but until the starts only towards less: what was admitted
  fits beside what runs without the jobs planned as stale until these are looked at
  again, and beside all that runs afterwards (`DrainAdmits`). The planner's greedy choice
  fits because the last job in queue order was found to fit beside all others
  (`DrainPasses`). Who is in a cycle holds the lock (`DrainHolder`); a thread's row is not
  pending again while the thread is there, and its copy is of a running row, so that the
  conflict check of `update` lets it write over a running row only (`DrainThreads`); a
  plan is about foreground jobs and, where the command awaits its own job only, about
  this one (`DrainPlan`). A completed row has its outcome, or it is among the rows the
  owner is storing outcomes for, or that owner failed or died there and the row is in
  `unsaved`; no death anywhere else excuses it.

Each inductive invariant was model-checked on instances like those of the runs
before it was proved; `Custody` is an invariant of the run `execution`.

**Only model-checked.** Liveness (`PendingServed`, `CancelAnswered`,
`OutcomeRepaired`, `JobServed`, `JobEnds`, `EveryoneEnters`, `Answered`,
`CommandReturns`, `HoldReturns`, `EntrySettles`): fairness and ENABLED are beyond the
prover. `OneTreeUnlessExposed` and `PendingUnleasedUnlessExposed`, which hold with boot
requeue and bumps too, are not proved yet.

## Not modelled, and abstractions to know

* Execution: all jobs are daemon-owned ships; a run differs in its outcome only, and
  foreground jobs appear as a busy drain lock there. A retry of a transient local
  failure writes the same row as progress does, and a worker that sees its head go
  stale asks for the cancellation an operator may ask for. The process tree is a root
  and the processes of one validation; freezing is one step. A pending job may be
  cancelled and trimmed in one write, which is why the abstract executor may forget a
  pending job. Outcomes are dispositions, so the repair of a ship outcome without its
  post-validation part (`reconcile_terminal_outcomes`, 756-771) changes nothing here;
  the receipt sweep does not skip jobs under queue-absence recovery (993-998) nor
  model an unknown probe, in both of which the code keeps a receipt. What happens
  after a green validation (merge attempt, steward hand-over) is one step that leaves
  a disposition. File corruption is left out.
* `WorkerCapacity` and `QueueAbsentRecovery` are not composed with the supervisor;
  each has the part of it that it needs. Reuse of process numbers is excluded, and so
  are descendants that outlive a queue worker in `WorkerCapacity` (they are in
  `ExecutionWorker`). In `QueueAbsentRecovery` spawn and receipt are one step, a lost
  worker's job ends and is not replayed, and the second identity check (663-666, 690)
  is part of the drift flag.
* `WriterDomain`: a guardian that is killed while its installer child goes on writing
  (`run_guarded_child`, 229-231) is left out: the lock ends with the guardian, so
  nothing keeps an audit away from that child.
* `ForegroundDrain`: one target per job, local or remote; children that survive a
  killed command, warm reuse and the live-head monitor are left out.
* `ShipStateStore`: older binaries stop at another repository's mirror; lookups
  without a repository and the fields of a state are left out. The listing behind the
  mirror is one step, the check that the mirror's state is preserved comes with the
  read, and a marker that a racing process has unlinked is no error.
* `ReviewerClaim`: HOLD verdicts, the base's policy file and states of an older schema
  are left out; a stamp advances the clock. The deciding verdict is the newest; the
  guard takes the first approving review if no comment decides.
* `QueueAdmission`: the classic merge, the steward's own arms and
  `supersede_uncertainty`, receipts and branch cleanup, rotation and malformed lines
  of the ledger, other machines, GitHub's read lag and clock skew are left out, and so
  is the repository/base lock, which nests inside the control lock. Failing saves of
  the ship state (`auto_merge_cmd.rs` 855-864, 884-890, 906-908) are left out, an
  operator's settlement states what GitHub shows, and each lock hold settles one
  entry.
* `CanaryJob`: wake acknowledgement, log segments and field validation are left out.
* The repository has some 366,000 lines, most of them command-line surface, provider
  I/O, formats, reports and their tests, without a protocol to check. The mapped part
  is the code that changes shared state; a share of the whole would not say how much
  of that is covered, `PROJECT.json` lists it by component.

## Plan

1. *(done)* The execution core, its abstract executor, safety, refinement, liveness.
2. *(done)* Capacity, canary, the protocols around the state files, claims, merge queue.
3. *(done)* Theorems: queue, custody, order and refinement of the executor; capacity;
   canary; reviewer claims; merge-queue ledger; files, stores, writer domain, ship state,
   recovery and foreground drains side by side.
4. Custody with boot requeue when no intent marker outlives its requeue.
