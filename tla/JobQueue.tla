------------------------------- MODULE JobQueue -------------------------------
(***************************************************************************)
(* The rows of the durable queue (queue.json) and what the job and queue   *)
(* operations make of them: the Job transitions of src/src/job.rs and the  *)
(* locked mutations of src/src/queue.rs.  Every queue operation runs under *)
(* the queue state lock, reads the file, edits the rows and replaces the   *)
(* file atomically, so each is one function from queue to queue.  The      *)
(* modules that compose the queue with its users decide who calls what.    *)
(*                                                                         *)
(* Abstractions of a row: cancel_requested_at is the flag "asked"; the     *)
(* cancellation reason travels with the proof and is not kept apart;       *)
(* scheduler_defer_reason is the flag "deferred" (its retry time and count *)
(* only delay admission); the newest heartbeat is the flag "fresh", which  *)
(* time clears; completed_at is kept as "age", the number of terminal rows *)
(* that completed later, which is all that trimming reads of it.           *)
(***************************************************************************)
EXTENDS Naturals, FiniteSets

CONSTANTS MaxJobs,        \* bound: how many jobs are ever submitted
          Target,         \* validation targets of a job
          Priority,       \* scheduling priorities, larger first
          Proof,          \* authenticated cancellation proofs
          NoProof,        \* the absent proof
          LaneOf,         \* workload scope, branch, targets and mode of a job
          KeepCompleted   \* terminal rows that survive trimming

\* Queue job ids, numbered in creation order.
Job == 1 .. MaxJobs

ASSUME QueueAssumption ==
  /\ MaxJobs \in Nat
  /\ Priority \subseteq Nat
  /\ NoProof \notin Proof
  /\ KeepCompleted \in Nat \ {0}

Live == {"pending", "running"}
Final == {"completed", "cancelled"}

\* What a job knows of one target; the last four are terminal results.  "fail"
\* stands for errors and unreachable targets too.
Result == {"none", "running", "pass", "fail", "skipped", "uncertain"}
TerminalResult == {"pass", "fail", "skipped", "uncertain"}

Row == [status   : {"absent"} \cup Live \cup Final,
        priority : Priority \cup {0},
        asked    : BOOLEAN,
        proof    : Proof \cup {NoProof},
        deferred : BOOLEAN,
        fresh    : BOOLEAN,
        results  : [Target -> Result],
        age      : Nat]

Queue == [Job -> Row]

NoResults == [t \in Target |-> "none"]

\* A job without a row in queue.json.
Absent == [status |-> "absent", priority |-> 0, asked |-> FALSE,
           proof |-> NoProof, deferred |-> FALSE, fresh |-> FALSE,
           results |-> NoResults, age |-> 0]

NewRow(p) == [Absent EXCEPT !.status = "pending", !.priority = p]

Terminal(r) == r.status \in Final
Running(r) == r.status = "running"
Pending(r) == r.status = "pending"

\* A running row that waits for its owner to acknowledge a cancellation.
CancelRequested(r) == Running(r) /\ r.asked

\* A request is made of a running row, and granted by cancelling it.
RequestSound(r) == r.asked => r.status \in {"running", "cancelled"}

IsStaleRunning(r) == Running(r) /\ ~r.fresh

Passed(r) == /\ r.status = "completed"
             /\ \A t \in Target : r.results[t] = "pass"

-----------------------------------------------------------------------------
(* Transitions of one row (job.rs). *)

Start(r) == [r EXCEPT !.status = "running", !.deferred = FALSE, !.fresh = TRUE]

Complete(r) == [r EXCEPT !.status = "completed"]

CancelWithProof(r, p) ==
  [r EXCEPT !.status = "cancelled", !.asked = TRUE, !.proof = p]

\* A running job refuses a proof that contradicts the one it holds.
CanRequestCancel(r, p) ==
  \/ Pending(r)
  \/ Running(r) /\ (r.proof # NoProof /\ p # NoProof => p = r.proof)

RequestCancelRow(r, p) ==
  IF Pending(r)
  THEN CancelWithProof(r, p)
  ELSE [r EXCEPT !.asked = TRUE, !.proof = IF p = NoProof THEN r.proof ELSE p]

WithResult(r, t, v) ==
  [r EXCEPT !.results[t] = v, !.fresh = TRUE]

DeferForScheduler(r) ==
  [r EXCEPT !.status = "pending", !.deferred = TRUE,
            !.results = [t \in Target |-> IF r.results[t] \in TerminalResult
                                          THEN r.results[t] ELSE "none"]]

-----------------------------------------------------------------------------
(* Writing rows back, and trimming (queue.rs). *)

\* Write row r for job j.  A row that becomes terminal is the newest one: the
\* terminal rows that were newer than its old place move one place back.
Put(q, j, r) ==
  [i \in Job |->
     IF i = j THEN [r EXCEPT !.age = 0]
     ELSE IF /\ Terminal(r) /\ Terminal(q[i])
             /\ Terminal(q[j]) => q[i].age < q[j].age
          THEN [q[i] EXCEPT !.age = q[i].age + 1]
          ELSE q[i]]

\* Cancel every row of S with the proof, oldest job first.
CancelAll(q, S, p) ==
  [i \in Job |->
     IF i \in S
     THEN [CancelWithProof(q[i], p) EXCEPT
             !.age = Cardinality({k \in S : k > i})]
     ELSE IF Terminal(q[i])
          THEN [q[i] EXCEPT !.age = q[i].age + Cardinality(S)]
          ELSE q[i]]

\* Only the newest KeepCompleted terminal rows survive.
TrimTerminal(q) ==
  [i \in Job |-> IF Terminal(q[i]) /\ q[i].age >= KeepCompleted
                 THEN Absent ELSE q[i]]

Write(q, j, r) == TrimTerminal(Put(q, j, r))

-----------------------------------------------------------------------------
(* The queue operations. *)

\* Mutant: a submission supersedes the ended jobs of its workload too.
SupersededEver(q, j) == {i \in Job : q[i].status # "absent" /\ LaneOf[i] = LaneOf[j]}

\* enqueue: pending rows of the same workload are superseded; no trimming.
Superseded(q, j) == {i \in Job : Pending(q[i]) /\ LaneOf[i] = LaneOf[j]}

Enqueue(q, j, p) ==
  [CancelAll(q, Superseded(q, j), NoProof) EXCEPT ![j] = NewRow(p)]

\* Mutant: a row write may drop a requested cancellation.
UpdateForgetsCancel(q, j, r) ==
  \/ q[j].status = "absent"
  \/ Terminal(q[j]) /\ r.status # q[j].status

\* update: what makes a whole-row write of r for job j a state conflict.
UpdateConflict(q, j, r) ==
  \/ q[j].status = "absent"
  \/ CancelRequested(q[j]) /\ (~r.asked \/ r.proof # q[j].proof)
  \/ Terminal(q[j]) /\ r.status # q[j].status

Update(q, j, r) == Write(q, j, r)

RequestCancel(q, j, p) == Write(q, j, RequestCancelRow(q[j], p))

\* cancel_pending_jobs_for_drain: the listed jobs that are still pending.
CancelPending(q, S, p) ==
  TrimTerminal(CancelAll(q, {i \in S : Pending(q[i])}, p))

\* start_pending_jobs_for_drain: the listed jobs that are still pending.
StartPending(q, S) ==
  [i \in Job |-> IF i \in S /\ Pending(q[i]) THEN Start(q[i]) ELSE q[i]]

\* requeue_deferred_running_jobs: a requested cancellation keeps the row.
RequeueDeferredRunning(q, j) ==
  IF Running(q[j]) /\ ~q[j].asked
  THEN [q EXCEPT ![j] = DeferForScheduler(q[j])] ELSE q

\* Mutants: the row returns to pending at once, or is not marked at all.
RequeueAtOnce(q, j) ==
  IF q[j].asked THEN q ELSE [q EXCEPT ![j].deferred = TRUE, ![j].status = "pending"]
RequeueUnmarked(q, j) == q

\* requeue_deferred_daemon_worker: marks the row, which stays running.
RequeueDeferredDaemonWorker(q, j) ==
  IF q[j].asked THEN q ELSE [q EXCEPT ![j].deferred = TRUE]

\* finalize_deferred_daemon_worker: the marked row returns to pending.
CanFinalizeDeferred(q, j) == Running(q[j]) /\ ~q[j].asked /\ q[j].deferred

FinalizeDeferredDaemonWorker(q, j) == [q EXCEPT ![j].status = "pending"]

\* requeue_running_after_reboot: left alone unless running and not cancelled.
RequeueRunningAfterReboot(q, j) ==
  IF Running(q[j]) /\ ~q[j].asked
  THEN [q EXCEPT ![j].status = "pending", ![j].deferred = TRUE] ELSE q

\* complete_running_uncertain: a requested cancellation keeps the row.
CompleteRunningUncertain(q, j) ==
  IF Running(q[j]) /\ ~q[j].asked
  THEN Write(q, j, [Complete(q[j]) EXCEPT
                      !.results = [t \in Target |-> "uncertain"]])
  ELSE q

\* finalize_audited_receiptless_cancel: no other row is touched.
FinalizeAuditedReceiptlessCancel(q, j, p) == Put(q, j, CancelWithProof(q[j], p))

-----------------------------------------------------------------------------
(* Reading the queue. *)

Rows(q, S) == {j \in Job : q[j].status \in S}

\* Queue order of pending jobs: higher priority first, then older first.
Before(q, i, j) == \/ q[i].priority > q[j].priority
                   \/ q[i].priority = q[j].priority /\ i < j
=============================================================================
