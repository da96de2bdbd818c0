-------------------------- MODULE ExecutionSupervisor -------------------------
(***************************************************************************)
(* The daemon's execution supervisor (src/src/execution_supervisor.rs) and *)
(* its termination transactions (src/src/execution_termination.rs), run    *)
(* beside the workers it spawns, the operator's commands, merges observed  *)
(* at the provider, crashes of the daemon and reboots of the host.         *)
(*                                                                         *)
(* One tick goes through its stages in the order of ExecutionSupervisor::  *)
(* tick.  A stage reads the queue once (Visit fixes the jobs it is about)  *)
(* and then takes one step per file or queue access, so every other actor  *)
(* may step in between and the daemon may crash there.  Three stages touch *)
(* a file per job with nothing read before it and used after it; each is   *)
(* one step (RepairOutcomes, ClearFinalized, SweepReceipts).               *)
(***************************************************************************)
EXTENDS ExecutionWorker

Stages == {"boot", "outcomes", "txns", "cancel", "defer", "retxns", "reap", "sweep",
           "observe", "orphans", "recancel", "running", "admit"}

\* The stage after each one.  The queue-absence recovery between reaping and
\* sweeping runs in a detached thread and is not part of this module.
After(s) ==
  CASE s = "boot" -> "outcomes" [] s = "outcomes" -> "txns" [] s = "txns" -> "cancel"
    [] s = "cancel" -> "defer" [] s = "defer" -> "retxns" [] s = "retxns" -> "reap"
    [] s = "reap" -> "sweep" [] s = "sweep" -> "observe" [] s = "observe" -> "orphans"
    [] s = "orphans" -> "recancel" [] s = "recancel" -> "running"
    [] s = "running" -> "admit" [] s = "admit" -> "outcomes"

Steps == {"enter", "next", "save", "kill", "dead", "release", "mark", "settle",
          "outcome", "forget", "clear", "complete", "drop", "intent", "requeue",
          "unleased", "requeued", "start", "spawn", "receipt"}

Act == IF stage = "defer" THEN "defer" ELSE "cancel"

-----------------------------------------------------------------------------
(* Moving through the tick. *)

At(s, e) == stage = s /\ step = e

Step(e) == step' = e /\ UNCHANGED <<stage, cur, todo, unknown>>

EndStage ==
  /\ stage' = IF stage = "running" /\ unknown THEN "outcomes" ELSE After(stage)
  /\ step' = "enter" /\ cur' = NoJob /\ todo' = {}
  /\ unknown' = FALSE

\* Visit the jobs of S one after the other, or leave the stage.
Visit(S) ==
  IF S = {} THEN EndStage
  ELSE /\ step' = "next" /\ todo' = S /\ cur' = NoJob
       /\ UNCHANGED <<stage, unknown>>

\* Go on with job j of the list, at step e.
Take(j, e) ==
  /\ step' = e /\ cur' = j /\ todo' = todo \ {j}
  /\ UNCHANGED <<stage, unknown>>

\* Done with the current job.
Leave == Visit(todo)

\* An error ends the tick; the next one starts over.
AbortTick ==
  /\ stage' = IF stage = "boot" THEN "boot" ELSE "outcomes"
  /\ step' = "enter" /\ cur' = NoJob /\ todo' = {} /\ unknown' = FALSE

-----------------------------------------------------------------------------
(* Boot pass: requeue_jobs_interrupted_by_reboot, once per daemon process. *)

EnterBoot ==
  /\ At("boot", "enter") /\ QueueFree
  /\ Visit(IF BootRequeue
           THEN {j \in Job : Running(jobs[j]) /\ ~jobs[j].asked /\ txn[j] = NoTxn}
           ELSE {})
  /\ UNCHANGED <<jobs, lock, durableVars, processVars, hostVars>>

\* Mutant: any receipt starts a requeue, of this boot or an earlier one.
IntentOnAnyReceipt(j) ==
  /\ At("boot", "next") /\ j \in todo
  /\ IF marker[j] = "intent" \/ (marker[j] = "none" /\ receipt[j] # NoGen)
     THEN /\ marker' = [marker EXCEPT ![j] = "intent"]
          /\ Take(j, "intent")
     ELSE UNCHANGED marker /\ Visit(todo \ {j})
  /\ UNCHANGED <<jobs, lock, receipt, txn, outcome, leases, processVars, hostVars>>

\* A marker of an unfinished requeue is followed, a receipt from an earlier
\* boot starts one, once per job; anything else is left alone.
BootIntent(j) ==
  /\ At("boot", "next") /\ j \in todo
  /\ IF \/ marker[j] = "intent"
        \/ /\ marker[j] = "none" /\ receipt[j] # NoGen
           /\ proc[receipt[j]].boot # boot
     THEN /\ marker' = [marker EXCEPT ![j] = "intent"]
          /\ Take(j, "intent")
     ELSE UNCHANGED marker /\ Visit(todo \ {j})
  /\ UNCHANGED <<jobs, lock, receipt, txn, outcome, leases, processVars, hostVars>>

\* Mutant: the lease of the dead worker is kept.
BootKeepLease ==
  /\ At("boot", "intent")
  /\ Step("unleased")
  /\ UNCHANGED <<jobs, lock, durableVars, processVars, hostVars>>

BootRelease ==
  /\ At("boot", "intent")
  /\ leases' = leases \ {cur}
  /\ Step("unleased")
  /\ UNCHANGED <<jobs, lock, receipt, txn, marker, outcome, processVars, hostVars>>

BootForget ==
  /\ At("boot", "unleased")
  /\ receipt' = [receipt EXCEPT ![cur] = NoGen]
  /\ Step("requeue")
  /\ UNCHANGED <<jobs, lock, txn, marker, outcome, leases, processVars, hostVars>>

BootRequeueJob ==
  /\ At("boot", "requeue") /\ QueueFree
  /\ jobs' = RequeueRunningAfterReboot(jobs, cur)
  /\ Step("requeued")
  /\ UNCHANGED <<lock, durableVars, processVars, hostVars>>

BootRequeued ==
  /\ At("boot", "requeued")
  /\ marker' = [marker EXCEPT ![cur] = "requeued"]
  /\ Leave
  /\ UNCHANGED <<jobs, lock, receipt, txn, outcome, leases, processVars, hostVars>>

-----------------------------------------------------------------------------
(* Repairing outcomes, finalized transactions and receipts. *)

\* Mutant: jobs that were cancelled before they started are left out.
RepairCompleted ==
  /\ At("outcomes", "enter") /\ QueueFree
  /\ outcome' = [j \in Job |-> IF jobs[j].status = "completed" /\ outcome[j] = "none" /\ j \notin Invalid
                               THEN Recovered(jobs[j]) ELSE outcome[j]]
  /\ EndStage
  /\ UNCHANGED <<jobs, lock, receipt, txn, marker, leases, processVars, hostVars>>

\* reconcile_terminal_outcomes: only a missing outcome is written.
RepairOutcomes ==
  /\ At("outcomes", "enter") /\ QueueFree
  /\ outcome' = [j \in Job |-> IF Terminal(jobs[j]) /\ outcome[j] = "none" /\ j \notin Invalid
                               THEN Recovered(jobs[j]) ELSE outcome[j]]
  /\ EndStage
  /\ UNCHANGED <<jobs, lock, receipt, txn, marker, leases, processVars, hostVars>>

\* A transaction whose queue transition is committed only needs cleaning up.
Finalized(j) ==
  /\ txn[j].phase = "released"
  /\ \/ txn[j].act = "cancel" /\ jobs[j].status = "cancelled"
     \/ txn[j].act = "defer" /\ Pending(jobs[j]) /\ jobs[j].deferred

\* reconcile_finalized_termination_transactions
ClearFinalized ==
  /\ stage \in {"txns", "retxns"} /\ step = "enter" /\ QueueFree
  /\ receipt' = [j \in Job |-> IF Finalized(j) /\ receipt[j] = txn[j].gen
                               THEN NoGen ELSE receipt[j]]
  /\ txn' = [j \in Job |-> IF Finalized(j) THEN NoTxn ELSE txn[j]]
  /\ EndStage
  /\ UNCHANGED <<jobs, lock, marker, outcome, leases, processVars, hostVars>>

\* Mutant: the receipt of a live worker is removed too.
AnyReceipt(j) == receipt[j] # NoGen

\* A receipt whose process is gone is removed when it is observed.
DeadReceipt(j) == receipt[j] # NoGen /\ ~OwnerAlive(j)

\* sweep_terminal_receipts: not for running jobs, nor for held children.
SweepReceipts ==
  /\ At("sweep", "enter") /\ QueueFree
  /\ receipt' = [j \in Job |-> IF DeadReceipt(j) /\ ~Running(jobs[j]) /\ child[j] = NoGen
                               THEN NoGen ELSE receipt[j]]
  /\ EndStage
  /\ UNCHANGED <<jobs, lock, txn, marker, outcome, leases, processVars, hostVars>>

-----------------------------------------------------------------------------
(* Termination transactions: complete_worker_termination and its callers. *)

EnterCancel ==
  /\ stage \in {"cancel", "recancel"} /\ step = "enter" /\ QueueFree
  /\ Visit({j \in Job : CancelRequested(jobs[j]) \/ jobs[j].status = "cancelled"})
  /\ UNCHANGED <<jobs, lock, durableVars, processVars, hostVars>>

\* Mutant: every running job is taken for a deferred one.
EnterDeferRunning ==
  /\ At("defer", "enter") /\ QueueFree
  /\ Visit(Rows(jobs, {"running"}))
  /\ UNCHANGED <<jobs, lock, durableVars, processVars, hostVars>>

EnterDefer ==
  /\ At("defer", "enter") /\ QueueFree
  /\ Visit({j \in Job : CanFinalizeDeferred(jobs, j)})
  /\ UNCHANGED <<jobs, lock, durableVars, processVars, hostVars>>

Terminating == stage \in {"cancel", "defer", "recancel"}

\* No transaction yet: a live exact owner is stopped with its descendants.
Freeze(j) ==
  /\ Terminating /\ step = "next" /\ j \in todo
  /\ txn[j] = NoTxn /\ OwnerAlive(j)
  /\ proc' = [proc EXCEPT ![receipt[j]].frozen = TRUE]
  /\ Take(j, "save")
  /\ UNCHANGED <<jobs, lock, durableVars, spawned, child, hostVars>>

\* Without a live exact owner nothing is known of the tree: leave the job.
NoLiveOwner(j) ==
  /\ Terminating /\ step = "next" /\ j \in todo
  /\ txn[j] = NoTxn /\ ~OwnerAlive(j)
  /\ Visit(todo \ {j})
  /\ UNCHANGED <<jobs, lock, durableVars, processVars, hostVars>>

\* Mutant: the leases are released before the tree is killed.
SaveThenRelease ==
  /\ step = "save"
  /\ txn' = [txn EXCEPT ![cur] = [gen |-> receipt[cur], act |-> Act, phase |-> "frozen"]]
  /\ Step("release")
  /\ UNCHANGED <<jobs, lock, receipt, marker, outcome, leases, processVars, hostVars>>

SaveTxn ==
  /\ step = "save"
  /\ txn' = [txn EXCEPT ![cur] = [gen |-> receipt[cur], act |-> Act, phase |-> "frozen"]]
  /\ Step("kill")
  /\ UNCHANGED <<jobs, lock, receipt, marker, outcome, leases, processVars, hostVars>>

\* The snapshot could not be taken or saved: the tree runs on and the tick ends.
FreezeFails ==
  /\ "io" \in Faults
  /\ step = "save"
  /\ proc' = [proc EXCEPT ![receipt[cur]].frozen = FALSE]
  /\ child' = [child EXCEPT ![cur] = NoGen]
  /\ AbortTick
  /\ UNCHANGED <<jobs, lock, durableVars, spawned, hostVars>>

\* The recorded transaction is the authority, fenced by a present receipt.
TxnFits(j) ==
  /\ receipt[j] \in {NoGen, txn[j].gen}
  /\ txn[j].act = Act \/ txn[j].act = "defer"

ResumeTxn(j) ==
  /\ Terminating /\ step = "next" /\ j \in todo
  /\ txn[j] # NoTxn
  /\ IF TxnFits(j)
     THEN /\ txn' = [txn EXCEPT ![j].act = Act]
          /\ Take(j, IF txn[j].phase = "frozen" THEN "kill"
                     ELSE IF txn[j].phase = "dead" THEN "release" ELSE "settle")
     ELSE AbortTick /\ UNCHANGED txn
  /\ UNCHANGED <<jobs, lock, receipt, marker, outcome, leases, processVars, hostVars>>

\* Mutant: only the root of the tree is killed.
KillRoot ==
  /\ step = "kill"
  /\ LET g == txn[cur].gen IN
       /\ RootAlive(g) => proc[g].frozen
       /\ proc' = [proc EXCEPT ![g] = [Gone(proc[g]) EXCEPT !.frozen = FALSE]]
       /\ lock' = LockWithout({g})
  /\ Step("dead")
  /\ UNCHANGED <<jobs, durableVars, spawned, child, hostVars>>

\* prove_tree_dead: every process of the snapshot is still stopped or gone, is
\* killed, and is seen to be gone.
KillTree ==
  /\ step = "kill"
  /\ LET g == txn[cur].gen IN
       /\ RootAlive(g) => proc[g].frozen
       /\ proc' = [proc EXCEPT ![g] = [Gone(proc[g]) EXCEPT !.on = NoTarget,
                                                           !.frozen = FALSE]]
       /\ lock' = LockWithout({g})
  /\ Step("dead")
  /\ UNCHANGED <<jobs, durableVars, spawned, child, hostVars>>

\* Mutant: a tree not seen dead within the deadline is taken for dead.
KillAssumed ==
  /\ "kill" \in Faults
  /\ step = "kill"
  /\ Step("dead")
  /\ UNCHANGED <<jobs, lock, durableVars, processVars, hostVars>>

\* Death is not seen within the deadline: the child stays held.
KillUnverified ==
  /\ "kill" \in Faults
  /\ step = "kill"
  /\ Leave
  /\ UNCHANGED <<jobs, lock, durableVars, processVars, hostVars>>

\* Mutant: the leases of the dead tree are not released.
MarkDeadOnly ==
  /\ step = "dead"
  /\ txn' = [txn EXCEPT ![cur].phase = "dead"]
  /\ Step("mark")
  /\ UNCHANGED <<jobs, lock, receipt, marker, outcome, leases, processVars, hostVars>>

MarkDead ==
  /\ step = "dead"
  /\ txn' = [txn EXCEPT ![cur].phase = "dead"]
  /\ Step("release")
  /\ UNCHANGED <<jobs, lock, receipt, marker, outcome, leases, processVars, hostVars>>

ReleaseLeases ==
  /\ step = "release" /\ Terminating
  /\ leases' = leases \ {cur}
  /\ Step("mark")
  /\ UNCHANGED <<jobs, lock, receipt, txn, marker, outcome, processVars, hostVars>>

MarkReleased ==
  /\ step = "mark"
  /\ txn' = [txn EXCEPT ![cur].phase = "released"]
  /\ Step("settle")
  /\ UNCHANGED <<jobs, lock, receipt, marker, outcome, leases, processVars, hostVars>>

\* The queue transition the dead tree allows: the deferred row returns to
\* pending, or the requested cancellation is acknowledged.
Settle ==
  LET r == jobs[cur] IN
  /\ step = "settle" /\ QueueFree
  /\ IF Act = "defer" /\ CanFinalizeDeferred(jobs, cur)
     THEN jobs' = FinalizeDeferredDaemonWorker(jobs, cur) /\ Step("forget")
     ELSE IF CancelRequested(r)
     THEN jobs' = Update(jobs, cur, CancelWithProof(r, r.proof)) /\ Step("outcome")
     ELSE /\ UNCHANGED jobs
          /\ IF Act = "defer" THEN Leave ELSE Step("forget")
  /\ child' = [child EXCEPT ![cur] = NoGen]
  /\ UNCHANGED <<lock, durableVars, proc, spawned, hostVars>>

\* cleanup_termination_transaction: the receipt first, then the transaction.
Forget ==
  /\ step = "forget"
  /\ receipt' = [receipt EXCEPT ![cur] = IF @ = txn[cur].gen THEN NoGen ELSE @]
  /\ Step("clear")
  /\ UNCHANGED <<jobs, lock, txn, marker, outcome, leases, processVars, hostVars>>

Clear ==
  /\ step = "clear"
  /\ txn' = [txn EXCEPT ![cur] = NoTxn]
  /\ Leave
  /\ UNCHANGED <<jobs, lock, receipt, marker, outcome, leases, processVars, hostVars>>

\* persist_terminal_outcome of the row the supervisor has just written.
PersistOutcome ==
  /\ step = "outcome"
  /\ outcome' = [outcome EXCEPT ![cur] = Recovered(jobs[cur])]
  /\ Step(IF Terminating THEN "forget"
          ELSE IF stage = "orphans" THEN "release" ELSE "drop")
  /\ UNCHANGED <<jobs, lock, receipt, txn, marker, leases, processVars, hostVars>>

-----------------------------------------------------------------------------
(* Workers that are gone: reap_owned_children and reconcile_running. *)

EnterReap ==
  /\ At("reap", "enter")
  /\ Visit({j \in Job : child[j] # NoGen /\ ~RootAlive(child[j])})
  /\ UNCHANGED <<jobs, lock, durableVars, processVars, hostVars>>

\* A requested cancellation keeps the child and its receipt.
ReapChild(j) ==
  /\ At("reap", "next") /\ j \in todo /\ QueueFree
  /\ IF CancelRequested(jobs[j])
     THEN Visit(todo \ {j})
     ELSE Take(j, IF Running(jobs[j]) THEN "complete" ELSE "drop")
  /\ UNCHANGED <<jobs, lock, durableVars, processVars, hostVars>>

EnterRunning ==
  /\ At("running", "enter") /\ QueueFree
  /\ Visit({j \in Job : Running(jobs[j]) /\ child[j] = NoGen})
  /\ UNCHANGED <<jobs, lock, durableVars, processVars, hostVars>>

\* A live owner is left alone; a lost one ends the job once it is stale, but a
\* requested cancellation, like a failed probe, stops admission instead.
ObserveRunning(j) ==
  /\ At("running", "next") /\ j \in todo
  /\ \/ /\ OwnerAlive(j)
        /\ Visit(todo \ {j})
        /\ UNCHANGED receipt
     \/ /\ "probe" \in Faults /\ receipt[j] # NoGen
        /\ todo' = todo \ {j} /\ unknown' = TRUE
        /\ UNCHANGED <<stage, step, cur, receipt>>
     \/ /\ ~OwnerAlive(j)
        /\ receipt' = [receipt EXCEPT ![j] = NoGen]
        /\ IF j \in Invalid \/ ~IsStaleRunning(jobs[j])
           THEN Visit(todo \ {j})
           ELSE IF jobs[j].asked
           THEN /\ todo' = todo \ {j} /\ unknown' = TRUE
                /\ UNCHANGED <<stage, step, cur>>
           ELSE Take(j, "complete")
  /\ UNCHANGED <<jobs, lock, txn, marker, outcome, leases, processVars, hostVars>>

\* The list is empty after an observation that stopped admission.
LeaveRunning ==
  /\ At("running", "next") /\ todo = {}
  /\ EndStage
  /\ UNCHANGED <<jobs, lock, durableVars, processVars, hostVars>>

\* complete_running_uncertain: the row is read again under the lock.  A row
\* that is no longer running leaves no outcome to write.
CompleteLost ==
  /\ step = "complete" /\ QueueFree
  /\ jobs' = CompleteRunningUncertain(jobs, cur)
  /\ IF Running(jobs[cur]) THEN Step("outcome")
     ELSE IF stage = "reap" THEN Step("drop") ELSE Leave
  /\ UNCHANGED <<lock, durableVars, processVars, hostVars>>

DropChild ==
  /\ step = "drop"
  /\ receipt' = [receipt EXCEPT ![cur] = NoGen]
  /\ child' = [child EXCEPT ![cur] = NoGen]
  /\ Leave
  /\ UNCHANGED <<jobs, lock, txn, marker, outcome, leases, proc, spawned, hostVars>>

-----------------------------------------------------------------------------
(* Merges observed at the provider. *)

Observable(j) == /\ j \in merged /\ j \notin Invalid
                 /\ jobs[j].proof # MergeProof

\* apply_merge_cancellations: any part of the merged jobs is observed within
\* the budget; the pending ones need the drain lock.
ObserveMerged ==
  /\ At("observe", "enter") /\ QueueFree
  /\ \E S \in SUBSET {j \in Job : Observable(j)}, drain \in {TRUE, "drain" \notin Faults} :
       LET P == {j \in S : Pending(jobs[j])} IN
       /\ jobs' = IF drain THEN CancelPending(jobs, P, MergeProof) ELSE jobs
       /\ outcome' = [j \in Job |-> IF drain /\ j \in P THEN "merged" ELSE outcome[j]]
       /\ Visit({j \in S : Running(jobs[j])})
  /\ UNCHANGED <<lock, receipt, txn, marker, leases, processVars, hostVars>>

\* A job that became terminal since it was observed ends the tick.
CancelMerged(j) ==
  /\ At("observe", "next") /\ j \in todo /\ QueueFree
  /\ IF CanRequestCancel(jobs[j], MergeProof)
     THEN jobs' = RequestCancel(jobs, j, MergeProof) /\ Visit(todo \ {j})
     ELSE /\ UNCHANGED jobs
          /\ IF Terminal(jobs[j]) THEN AbortTick ELSE Visit(todo \ {j})
  /\ UNCHANGED <<lock, durableVars, processVars, hostVars>>

\* reconcile_receiptless_merged_cancellations: a merged, cancelled and stale
\* row without receipt or transaction, and no process related to it.
Receiptless(j) ==
  /\ CancelRequested(jobs[j]) /\ IsStaleRunning(jobs[j])
  /\ jobs[j].proof = MergeProof
  /\ receipt[j] = NoGen /\ txn[j] = NoTxn /\ j \notin Invalid
  /\ \A g \in Gen : proc[g].job = j => ~RootAlive(g) /\ proc[g].on = NoTarget

FinalizeReceiptless ==
  /\ At("orphans", "enter") /\ QueueFree
  /\ \/ \E j \in Job :
          /\ Receiptless(j)
          /\ jobs' = FinalizeAuditedReceiptlessCancel(jobs, j, MergeProof)
          /\ step' = "outcome" /\ cur' = j
          /\ UNCHANGED <<stage, todo, unknown>>
     \/ /\ \A j \in Job : ~Receiptless(j)
        /\ EndStage
        /\ UNCHANGED jobs
  /\ UNCHANGED <<lock, durableVars, processVars, hostVars>>

ReleaseOrphan ==
  /\ At("orphans", "release")
  /\ leases' = leases \ {cur}
  /\ EndStage
  /\ UNCHANGED <<jobs, lock, receipt, txn, marker, outcome, processVars, hostVars>>

-----------------------------------------------------------------------------
(* Admission: admit_pending and spawn_worker. *)

\* Mutant: the worker limit is off by one.
FitsOneMore(j, R, S) ==
  /\ IF j \in Metadata
     THEN Cardinality((R \cup S) \cap Metadata) <= MaxControllers
     ELSE Cardinality((R \cup S) \ Metadata) <= MaxWorkers
  /\ \A i \in R \cup S : Claims[i] \cap Claims[j] = {}

\* Job j may start beside the running jobs R and the jobs S selected before it.
Fits(j, R, S) ==
  /\ IF j \in Metadata
     THEN Cardinality((R \cup S) \cap Metadata) < MaxControllers
     ELSE Cardinality((R \cup S) \ Metadata) < MaxWorkers
  /\ \A i \in R \cup S : Claims[i] \cap Claims[j] = {}

\* The scan in queue order takes every job that fits behind what it took; it
\* passes over the deferred jobs whose retry time has not come.
Eligible(q, late) == Rows(q, {"pending"}) \ (Invalid \cup late)

Selected(q, late, S) ==
  \A j \in Eligible(q, late) :
    j \in S <=> Fits(j, Rows(q, {"running"}), {i \in S : Before(q, i, j)})

\* Pending jobs without a usable request are cancelled.
SelectPending(late) ==
  /\ At("admit", "enter") /\ QueueFree
  /\ \A j \in late : Pending(jobs[j]) /\ jobs[j].deferred
  /\ jobs' = CancelPending(jobs, Invalid, NoProof)
  /\ \E S \in SUBSET Eligible(jobs, late) :
       /\ Selected(jobs, late, S)
       /\ IF S = {} \/ spawned + Cardinality(S) > MaxSpawns
          THEN EndStage
          ELSE step' = "start" /\ todo' = S /\ UNCHANGED <<stage, cur, unknown>>
  /\ UNCHANGED <<lock, durableVars, processVars, hostVars>>

\* Mutant: the claims of a running job whose request does not load count as none.
SelectBeside ==
  /\ "envelope" \in Faults
  /\ At("admit", "enter") /\ QueueFree /\ Rows(jobs, {"running"}) # {}
  /\ jobs' = CancelPending(jobs, Invalid, NoProof)
  /\ \E S \in SUBSET Eligible(jobs, {}) :
       /\ \A j \in Eligible(jobs, {}) : j \in S <=> Fits(j, {}, {i \in S : Before(jobs, i, j)})
       /\ IF S = {} \/ spawned + Cardinality(S) > MaxSpawns
          THEN EndStage
          ELSE step' = "start" /\ todo' = S /\ UNCHANGED <<stage, cur, unknown>>
  /\ UNCHANGED <<lock, durableVars, processVars, hostVars>>

\* The request of a running job does not load, so what it claims is not known:
\* nothing is started beside it.
SelectNothing ==
  /\ "envelope" \in Faults
  /\ At("admit", "enter") /\ QueueFree /\ Rows(jobs, {"running"}) # {}
  /\ jobs' = CancelPending(jobs, Invalid, NoProof)
  /\ EndStage
  /\ UNCHANGED <<lock, durableVars, processVars, hostVars>>

\* A foreground drain holds the drain lock.
DrainBusy ==
  /\ "drain" \in Faults
  /\ At("admit", "enter")
  /\ EndStage
  /\ UNCHANGED <<jobs, lock, durableVars, processVars, hostVars>>

StartSelected ==
  /\ At("admit", "start") /\ QueueFree
  /\ jobs' = StartPending(jobs, todo)
  /\ Visit({j \in todo : Pending(jobs[j])})
  /\ exposed' = exposed \cup {j \in todo : Pending(jobs[j]) /\ marker[j] = "intent"}
  /\ UNCHANGED <<lock, durableVars, processVars>>
  /\ UNCHANGED <<submitted, boot, merged, bump, bumps, crashes>>

SpawnProcess(j) ==
  /\ At("admit", "next") /\ j \in todo
  /\ spawned < MaxSpawns
  /\ spawned' = spawned + 1
  /\ proc' = [proc EXCEPT ![spawned + 1] =
                [NoProcess EXCEPT !.st = "waiting", !.job = j, !.boot = boot]]
  /\ Take(j, "receipt")
  /\ UNCHANGED <<jobs, lock, durableVars, child, hostVars>>

WriteReceipt ==
  /\ At("admit", "receipt")
  /\ receipt' = [receipt EXCEPT ![cur] = spawned]
  /\ child' = [child EXCEPT ![cur] = spawned]
  /\ Leave
  /\ UNCHANGED <<jobs, lock, txn, marker, outcome, leases, proc, spawned, hostVars>>

\* No process was created, or its receipt was not written and its tree is dead
\* or an error hid whether it is: the job goes back.
SpawnFails ==
  /\ "spawn" \in Faults
  /\ \/ /\ At("admit", "next")
        /\ \E j \in todo : Take(j, "spawn")
        /\ UNCHANGED proc
     \/ /\ At("admit", "receipt") /\ Step("spawn")
        /\ proc' = [proc EXCEPT ![spawned] = Gone(proc[spawned])]
     \/ At("admit", "receipt") /\ Step("spawn") /\ UNCHANGED proc
  /\ UNCHANGED <<jobs, lock, durableVars, spawned, child, hostVars>>

\* The receipt was not written and the tree is not seen dead: keep the child.
KeepUnverified ==
  /\ {"spawn", "kill"} \subseteq Faults
  /\ At("admit", "receipt")
  /\ child' = [child EXCEPT ![cur] = spawned]
  /\ Leave
  /\ UNCHANGED <<jobs, lock, durableVars, proc, spawned, hostVars>>

RequeueUnspawned ==
  /\ At("admit", "spawn") /\ QueueFree
  /\ jobs' = RequeueDeferredRunning(jobs, cur)
  /\ Leave
  /\ UNCHANGED <<lock, durableVars, processVars, hostVars>>

-----------------------------------------------------------------------------

\* An I/O error ends the tick.  A termination under way has taken the child
\* out of the map; between the spawns of one admission nothing can fail so.
IoError ==
  /\ "io" \in Faults
  /\ step # "save"
  /\ ~(stage = "admit" /\ step \in {"next", "receipt"})
  /\ AbortTick
  /\ child' = IF Terminating /\ cur # NoJob
              THEN [child EXCEPT ![cur] = NoGen] ELSE child
  /\ UNCHANGED <<jobs, lock, durableVars, proc, spawned, hostVars>>

SupervisorStep ==
  \/ EnterBoot \/ BootRelease \/ BootForget \/ BootRequeueJob \/ BootRequeued
  \/ RepairOutcomes \/ ClearFinalized \/ SweepReceipts
  \/ EnterCancel \/ EnterDefer \/ SaveTxn \/ KillTree \/ MarkDead
  \/ ReleaseLeases \/ MarkReleased \/ Settle \/ Forget \/ Clear \/ PersistOutcome
  \/ EnterReap \/ EnterRunning \/ LeaveRunning \/ CompleteLost \/ DropChild
  \/ ObserveMerged \/ FinalizeReceiptless \/ ReleaseOrphan
  \/ \E late \in SUBSET Job : SelectPending(late)
  \/ StartSelected \/ WriteReceipt \/ RequeueUnspawned
  \/ \E j \in Job : \/ BootIntent(j) \/ Freeze(j) \/ NoLiveOwner(j) \/ ResumeTxn(j)
                    \/ ReapChild(j) \/ ObserveRunning(j) \/ CancelMerged(j)
                    \/ SpawnProcess(j)

SupervisorFault ==
  \/ FreezeFails \/ KillUnverified \/ SelectNothing \/ DrainBusy \/ SpawnFails
  \/ KeepUnverified \/ IoError
=============================================================================
