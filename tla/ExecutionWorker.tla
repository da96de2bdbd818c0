--------------------------- MODULE ExecutionWorker ----------------------------
(***************************************************************************)
(* The execution-worker process the supervisor spawns for a started job    *)
(* (src/src/app/execution_worker_cmd.rs and the started-worker half of     *)
(* src/src/ship.rs).  It checks its receipt, validates the targets while   *)
(* writing whole rows back to the queue, and publishes the result.  Every  *)
(* queue access takes the blocking queue state lock (Lock) and releases it *)
(* with the access, so a worker can be stopped or die inside it.           *)
(*                                                                         *)
(* A worker that sees its own head go stale asks for the cancellation the  *)
(* operator may ask for too, and is not modelled apart.                    *)
(***************************************************************************)
EXTENDS ExecutionState

Runs(g) == RootAlive(g) /\ ~proc[g].frozen

\* The next thing the worker does is to open the queue.
NeedsQueue(p) ==
  \/ p.st \in {"authorized", "prepared", "deferring", "publish", "ended", "failed"}
  \/ p.st = "working" /\ p.left # {}

Lock(g) ==
  /\ Runs(g) /\ NeedsQueue(proc[g])
  /\ QueueFree
  /\ lock' = g
  /\ UNCHANGED <<jobs, durableVars, processVars, hostVars, tickVars>>

Holds(g) == Runs(g) /\ lock = g

\* One queue access of worker g: the queue, its process record and the lock.
Access(g, q, p) ==
  /\ Holds(g)
  /\ jobs' = q
  /\ proc' = [proc EXCEPT ![g] = p]
  /\ lock' = NoGen
  /\ UNCHANGED <<receipt, txn, marker, outcome, spawned, child, hostVars, tickVars>>

In(g, s) == [proc[g] EXCEPT !.st = s]

\* Validation stops: its processes end and the lease is given back.
Stopped(g, s) == [In(g, s) EXCEPT !.on = NoTarget, !.left = {}, !.snap = Absent]
ReturnLease(g) == leases' = IF proc[g].on # NoTarget
                            THEN leases \ {proc[g].job} ELSE leases

\* Write row r back.  A conflicting row is an error the worker ends on.
WriteBack(g, r, p) ==
  IF UpdateConflict(jobs, proc[g].job, r)
  THEN Access(g, jobs, Stopped(g, "failed"))
  ELSE Access(g, Update(jobs, proc[g].job, r), [p EXCEPT !.snap = r])

-----------------------------------------------------------------------------
(* Authority and preparation. *)

\* verify_worker_authority: the receipt must name this exact generation.  The
\* worker gives up after seconds without one, which the supervisor needs only
\* a moment to write unless spawning is at fault.
BeingWritten(g) == step = "receipt" /\ cur = proc[g].job /\ spawned = g

CheckAuthority(g) ==
  /\ Runs(g) /\ proc[g].st = "waiting"
  /\ BeingWritten(g) => "spawn" \in Faults
  /\ IF receipt[proc[g].job] = g
     THEN proc' = [proc EXCEPT ![g] = In(g, "authorized")]
     ELSE proc' = [proc EXCEPT ![g] = Gone(proc[g])]
  /\ UNCHANGED <<jobs, lock, durableVars, spawned, child, hostVars, tickVars>>

\* execute_started_queued_job: the row must be running.
OpenJob(g) ==
  LET r == jobs[proc[g].job] IN
  /\ proc[g].st = "authorized"
  /\ Access(g, jobs, IF ~Running(r) THEN In(g, "failed")
                     ELSE IF r.asked THEN In(g, "ended")
                     ELSE [In(g, "prepared") EXCEPT !.snap = r])
  /\ UNCHANGED leases

\* ensure_worker_running_job: read the row again and start on the targets.
BeginTargets(g) ==
  /\ proc[g].st = "prepared"
  /\ Access(g, jobs, [In(g, "working") EXCEPT !.left = Target,
                                              !.snap = jobs[proc[g].job]])
  /\ UNCHANGED leases

\* cancel_refused_job: the ship state refuses the job before any target.  The
\* worker's copy has no cancellation request, so a request is a conflict.
RefuseJob(g) ==
  LET j == proc[g].job
      r == CancelWithProof(proc[g].snap, NoProof) IN
  /\ "error" \in Faults
  /\ proc[g].st = "prepared"
  /\ Access(g, IF CancelRequested(jobs[j]) \/ UpdateConflict(jobs, j, r)
               THEN jobs ELSE Update(jobs, j, r),
            Stopped(g, "failed"))
  /\ UNCHANGED leases

-----------------------------------------------------------------------------
(* execute_targets: one target after the other.  A retry of a transient     *)
(* failure writes the row its progress callback writes.                     *)

\* The target is recorded as running and dispatched, if a lease is available.
Dispatch(g, t) ==
  LET p == proc[g]
      r == WithResult(p.snap, t, "running") IN
  /\ p.st = "working" /\ p.on = NoTarget /\ t \in p.left
  /\ WriteBack(g, r, [p EXCEPT !.on = t])
  /\ leases' = IF UpdateConflict(jobs, p.job, r) THEN leases ELSE leases \cup {p.job}

\* No host-pool lease is free: the validation is handed back to the scheduler.
LeaseUnavailable(g, t) ==
  LET p == proc[g]
      r == WithResult(p.snap, t, "running") IN
  /\ p.st = "working" /\ p.on = NoTarget /\ t \in p.left
  /\ WriteBack(g, r, In(g, "deferring"))
  /\ UNCHANGED leases

\* The progress callback refreshes the heartbeat of the row.
Progress(g) ==
  LET p == proc[g] IN
  /\ p.st = "working" /\ p.on # NoTarget /\ jobs[p.job] # p.snap
  /\ WriteBack(g, p.snap, p)
  /\ IF UpdateConflict(jobs, p.job, p.snap) THEN ReturnLease(g) ELSE UNCHANGED leases

\* The validation of the target ends.
FinishTarget(g, v) ==
  LET p == proc[g] IN
  /\ p.st = "working" /\ p.on # NoTarget
  /\ WriteBack(g, WithResult(p.snap, p.on, v),
               [p EXCEPT !.on = NoTarget, !.left = p.left \ {p.on}])
  /\ ReturnLease(g)

\* A request with fail_fast skips what follows a target that failed.
SkipTarget(g, t) ==
  LET p == proc[g] IN
  /\ p.st = "working" /\ p.on = NoTarget /\ t \in p.left
  /\ \E u \in Target \ p.left : p.snap.results[u] = "fail"
  /\ WriteBack(g, WithResult(p.snap, t, "skipped"), [p EXCEPT !.left = p.left \ {t}])
  /\ UNCHANGED leases

\* durable_cancelled_job: the row was cancelled or a cancellation is asked for.
SeeCancel(g) ==
  LET r == jobs[proc[g].job] IN
  /\ proc[g].st = "working"
  /\ CancelRequested(r) \/ r.status = "cancelled"
  /\ Access(g, jobs, Stopped(g, "ended"))
  /\ ReturnLease(g)

-----------------------------------------------------------------------------
(* Publishing, and the ways a worker ends. *)

\* The typed outcome is saved before the queue row.
SaveOutcome(g) ==
  LET p == proc[g]
      done == Complete(p.snap) IN
  /\ Runs(g) /\ lock # g
  /\ p.st = "working" /\ p.on = NoTarget /\ p.left = {} /\ ~p.snap.asked
  /\ outcome' = [outcome EXCEPT ![p.job] = Validated(done)]
  /\ proc' = [proc EXCEPT ![g] = [In(g, "publish") EXCEPT !.snap = done]]
  /\ UNCHANGED <<jobs, lock, receipt, txn, marker, leases, spawned, child, hostVars, tickVars>>

Publish(g) ==
  /\ proc[g].st = "publish"
  /\ IF UpdateConflict(jobs, proc[g].job, proc[g].snap)
     THEN Access(g, jobs, Stopped(g, "failed"))
     ELSE Access(g, Update(jobs, proc[g].job, proc[g].snap), Stopped(g, "ended"))
  /\ UNCHANGED leases

\* finish_background_ship and persist_background_ship_outcome, then exit.
FinishShip(g) ==
  LET p == proc[g] IN
  /\ Runs(g) /\ p.st = "posting"
  /\ outcome' = [outcome EXCEPT ![p.job] = Validated(p.snap)]
  /\ proc' = [proc EXCEPT ![g] = Gone(p)]
  /\ UNCHANGED <<jobs, lock, receipt, txn, marker, leases, spawned, child, hostVars, tickVars>>

\* Mutant: the worker exits instead of waiting for the supervisor.
ExitOnCancellation(g) ==
  /\ proc[g].st = "ended"
  /\ Access(g, jobs, [In(g, "posting") EXCEPT !.snap = jobs[proc[g].job]])
  /\ UNCHANGED leases

\* The worker has published, or stopped for a cancellation.  It reads the row
\* again: a request that waits for the supervisor parks it until its tree ends.
AwaitCancellation(g) ==
  LET r == jobs[proc[g].job] IN
  /\ proc[g].st = "ended"
  /\ Access(g, jobs, IF CancelRequested(r) THEN In(g, "parked")
                     ELSE IF r.status = "absent" THEN In(g, "failed")
                     ELSE [In(g, "posting") EXCEPT !.snap = r])
  /\ UNCHANGED leases

\* requeue_scheduler_deferred_job: the row is marked and the worker parks.
RequeueDeferred(g) ==
  LET j == proc[g].job IN
  /\ proc[g].st = "deferring"
  /\ IF Running(jobs[j])
     THEN Access(g, RequeueDeferredDaemonWorker(jobs, j), Stopped(g, "parked"))
     ELSE Access(g, jobs, Gone(proc[g]))
  /\ UNCHANGED leases

\* Any other error of set-up, provenance, dispatch or storage.
WorkerError(g) ==
  /\ "error" \in Faults
  /\ Runs(g) /\ lock # g
  /\ proc[g].st \in {"authorized", "prepared", "working", "publish"}
  /\ proc' = [proc EXCEPT ![g] = Stopped(g, "failed")]
  /\ ReturnLease(g)
  /\ UNCHANGED <<jobs, lock, receipt, txn, marker, outcome, spawned, child, hostVars, tickVars>>

\* An error ends the job as uncertain, unless a cancellation was asked for.
EndUncertain(g) ==
  LET j == proc[g].job
      q == CompleteRunningUncertain(jobs, j) IN
  /\ proc[g].st = "failed"
  /\ Access(g, q, IF CancelRequested(jobs[j]) THEN In(g, "parked")
                  ELSE IF Running(jobs[j])
                       THEN [In(g, "persist") EXCEPT !.snap = q[j]]
                       ELSE Gone(proc[g]))
  /\ UNCHANGED leases

PersistUncertain(g) ==
  LET p == proc[g] IN
  /\ Runs(g) /\ p.st = "persist"
  /\ outcome' = [outcome EXCEPT ![p.job] = Recovered(p.snap)]
  /\ proc' = [proc EXCEPT ![g] = Gone(p)]
  /\ UNCHANGED <<jobs, lock, receipt, txn, marker, leases, spawned, child, hostVars, tickVars>>

WorkerStep(g) ==
  \/ Lock(g) \/ CheckAuthority(g) \/ OpenJob(g) \/ BeginTargets(g) \/ RefuseJob(g)
  \/ \E t \in Target : Dispatch(g, t)
  \/ \E t \in Target : LeaseUnavailable(g, t)
  \/ \E t \in Target : SkipTarget(g, t)
  \/ \E v \in {"pass", "fail"} : FinishTarget(g, v)
  \/ Progress(g) \/ SeeCancel(g) \/ SaveOutcome(g) \/ Publish(g) \/ FinishShip(g)
  \/ AwaitCancellation(g) \/ RequeueDeferred(g) \/ EndUncertain(g) \/ PersistUncertain(g)
  \/ WorkerError(g)

-----------------------------------------------------------------------------
(* Faults of the host. *)

\* The root process dies; descendants that were running outlive it.
WorkerDies(g) ==
  /\ "worker" \in Faults
  /\ RootAlive(g)
  /\ proc' = [proc EXCEPT ![g] = Gone(proc[g])]
  /\ lock' = LockWithout({g})
  /\ UNCHANGED <<jobs, durableVars, spawned, child, hostVars, tickVars>>

\* Reparented descendants end by themselves, unless they are stopped.
OrphansEnd(g) ==
  /\ proc[g].st = "dead" /\ proc[g].on # NoTarget /\ ~proc[g].frozen
  /\ proc' = [proc EXCEPT ![g].on = NoTarget]
  /\ UNCHANGED <<jobs, lock, durableVars, spawned, child, hostVars, tickVars>>
=============================================================================
