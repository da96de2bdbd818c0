--------------------------- MODULE ForegroundDrain ---------------------------
(***************************************************************************)
(* Commands that wait for their queued job in the foreground (ship.rs):    *)
(* whoever gets the drain lock recovers what a dead owner left, plans an   *)
(* admission pass over a snapshot of the queue (queue_scheduler.rs),       *)
(* applies it in three queue transactions, and runs the started jobs on    *)
(* threads of its own until its awaited job has ended.                     *)
(*                                                                         *)
(* The plan's resources are exclusive claims and slots of one host pool; a *)
(* job has one target.                                                     *)
(* Job numbers are submission order.  A command is named by its job.       *)
(***************************************************************************)
EXTENDS JobQueue

CONSTANTS
  Setups,       \* the cases that are looked at: see Setup
  Slots,        \* of the host pool; each job needs one
  MaxWorkers,   \* DEFAULT_DRAIN_MAX_WORKERS
  MaxDeaths     \* bound: commands killed

NoShip == "no-ship"

VARIABLES
  setup,     \* the case, which never changes
  jobs,      \* queue.json
  outcomes,  \* jobs with a stored outcome
  drain,     \* holder of the drain lock: a command, or 0
  cmd,       \* what each command does
  plan,      \* the admission pass of the lock's holder
  failed,    \* first_error of the cycle
  worker,    \* what the thread of each job does
  copy,      \* the row each thread works on
  deaths,
  unsaved    \* history: jobs whose recovery did not get to store their outcome

vars == <<jobs, outcomes, drain, cmd, plan, failed, worker, copy, deaths, unsaved>>

OwnerOf  == setup.owner   \* the envelope's owner; "lost": it does not load
ShipOf   == setup.ship    \* repository and pull request of a ship, or NoShip
ScopeOf  == setup.scope   \* "awaited": the command touches its own job only
ClaimsOf == setup.claims
MayMerge == setup.merge   \* jobs whose pull request may turn out merged
MayCancel == setup.cancel \* bound: jobs an operator may cancel
Local    == setup.local   \* jobs all of whose targets are local
Prompt   == setup.prompt  \* jobs whose live workers report before they count as stale
Mortal   == setup.mortal  \* bound: commands that may be killed
Faulty   == setup.faulty  \* bound: commands whose stores may fail

\* A ship is any name of its pull request, a claim any value.
Setup(s) ==
  /\ s.owner \in [Job -> {"foreground", "daemon", "lost"}] /\ s.scope \in [Job -> {"cooperative", "awaited"}]
  /\ DOMAIN s.ship = Job /\ DOMAIN s.claims = Job
  /\ \A j \in Job : s.scope[j] = "awaited" => s.ship[j] # NoShip
  /\ s.merge \cup s.cancel \cup s.prompt \cup s.local \cup s.mortal \cup s.faulty \subseteq Job

DrainAssumption ==
  /\ Cardinality(Target) = 1 /\ \A s \in Setups : Setup(s)
  /\ MaxJobs \in Nat /\ Priority \subseteq Nat
  /\ Slots \in Nat /\ MaxWorkers \in Nat /\ MaxDeaths \in Nat

Foreground(j) == OwnerOf[j] = "foreground"
SamePr(i, j) == ShipOf[i] = ShipOf[j] /\ ShipOf[i] # NoShip

NoPlan == [cancel |-> {}, stale |-> {}, admit |-> {}, unknown |-> FALSE]

Working == {"begin", "validate", "save", "finish"}
Reports == {"ok", "error", "deferred"}
Active == {j \in Job : worker[j] # "none"}

Goes(d, at) == cmd' = [cmd EXCEPT ![d] = at]

-----------------------------------------------------------------------------
(* The planner: a function of the snapshot q. *)

Fits(j, S) ==
  /\ \A i \in S : ClaimsOf[i] \cap ClaimsOf[j] = {}
  /\ Cardinality(S) < Slots

\* The jobs a pass may start: newest pending ship of a pull request nobody runs.
StaleShips(q, d) ==
  {j \in Job : /\ IsStaleRunning(q[j]) /\ Foreground(j) /\ ShipOf[j] # NoShip
               /\ ScopeOf[d] = "awaited" => j = d}

Lost(q) == {j \in Job : Running(q[j]) /\ OwnerOf[j] = "lost"}

\* Running jobs whose claims the plan knows and keeps.
Occupied(q, d) == {j \in Job : Running(q[j])} \ (StaleShips(q, d) \cup Lost(q))

Schedulable(q, d) ==
  {j \in Job : /\ Pending(q[j]) /\ Foreground(j)
               /\ \A i \in Occupied(q, d) : ~SamePr(i, j)}

SupersededShips(q, d) ==
  {j \in Schedulable(q, d) :
     \E i \in Job : i > j /\ Pending(q[i]) /\ Foreground(i) /\ SamePr(i, j)}

\* In queue order, each job is admitted if it fits beside the running ones and those
\* admitted before it: there is one such set.
Greedy(q, d, ready) ==
  {S \in SUBSET ready :
     \A j \in ready : j \in S <=> Fits(j, Occupied(q, d) \cup {i \in S : Before(q, i, j)})}

Spare(q) ==
  LET running == Cardinality({j \in Job : Running(q[j])})
  IN IF running < MaxWorkers THEN MaxWorkers - running ELSE 0

Mine(d, S) == IF ScopeOf[d] = "awaited" THEN S \cap {d} ELSE S

\* The first n jobs of S.
First(q, n, S) == {j \in S : Cardinality({i \in S : Before(q, i, j)}) < n}

\* Mutant: the pass of a scoped command is not restricted to its job.
PassUnrestricted(q, d, greedy, merged) ==
  [cancel  |-> SupersededShips(q, d) \cup merged,
   stale   |-> StaleShips(q, d),
   admit   |-> IF d \in SupersededShips(q, d) \cup StaleShips(q, d) THEN {} ELSE First(q, Spare(q), greedy),
   unknown |-> Lost(q) # {}]

Pass(q, d, greedy, merged) ==
  [cancel  |-> Mine(d, SupersededShips(q, d) \cup merged),
   stale   |-> StaleShips(q, d),
   admit   |-> IF d \in SupersededShips(q, d) \cup StaleShips(q, d)
               THEN {} ELSE First(q, Spare(q), Mine(d, greedy)),
   unknown |-> Lost(q) # {}]

-----------------------------------------------------------------------------
(* Submission: submit_ship and submit_run, under the workload's lock. *)

Unqueued(j) == cmd[j] \in {"none", "checked"}

\* refuse_same_pr_running_ship: a live or daemon-owned ship of the same pull
\* request refuses the submission, a silent one is reaped; a running job's
\* envelope that is there but cannot be parsed ends the check with an error.
Check(d) ==
  /\ Foreground(d) /\ cmd[d] = "none" /\ \A i \in Job : i < d => ~Unqueued(i)
  /\ LET same == {j \in Job : Running(jobs[j]) /\ SamePr(j, d) /\ OwnerOf[j] # "lost"}
         stale == {j \in same : IsStaleRunning(jobs[j]) /\ Foreground(j)}
     IN \/ /\ jobs' = TrimTerminal(CancelAll(jobs, stale, NoProof))
           /\ Goes(d, IF same = stale THEN "checked" ELSE "refused")
        \/ /\ ShipOf[d] # NoShip /\ Lost(jobs) # {}
           /\ \E S \in SUBSET stale : jobs' = TrimTerminal(CancelAll(jobs, S, NoProof))
           /\ Goes(d, "refused")
  /\ UNCHANGED <<outcomes, drain, plan, failed, worker, copy, deaths, unsaved>>

Submit(d) ==
  /\ cmd[d] = "checked"
  /\ \E p \in Priority : jobs' = Enqueue(jobs, d, p)
  /\ Goes(d, "waiting")
  /\ UNCHANGED <<outcomes, drain, plan, failed, worker, copy, deaths, unsaved>>

-----------------------------------------------------------------------------
(* drain_or_wait: terminal outcome, drain lock, recovery. *)

\* The command returns: its row has ended and, if completed, has an outcome.
Return(d) ==
  /\ cmd[d] \in {"waiting", "recovered"} /\ Terminal(jobs[d])
  /\ Goes(d, IF jobs[d].status = "cancelled" \/ d \in outcomes THEN "returned" ELSE "error")
  /\ drain' = IF drain = d THEN 0 ELSE drain
  /\ UNCHANGED <<jobs, outcomes, plan, failed, worker, copy, deaths, unsaved>>

Acquire(d) ==
  /\ cmd[d] = "waiting" /\ ~Terminal(jobs[d]) /\ drain = 0
  /\ drain' = d /\ failed' = FALSE
  /\ Goes(d, IF ScopeOf[d] = "cooperative" THEN "recover" ELSE "recovered")
  /\ UNCHANGED <<jobs, outcomes, plan, worker, copy, deaths, unsaved>>

\* Targets without a result get an error.
RecoverRow(r) ==
  [Complete(r) EXCEPT !.results = [t \in Target |-> IF r.results[t] = "none"
                                                    THEN "fail" ELSE r.results[t]]]

\* All rows of S are completed, oldest job first.
CompleteAll(q, S) ==
  [i \in Job |->
     IF i \in S THEN [RecoverRow(q[i]) EXCEPT !.age = Cardinality({k \in S : k > i})]
     ELSE IF Terminal(q[i]) THEN [q[i] EXCEPT !.age = @ + Cardinality(S)] ELSE q[i]]

\* No thread of a foreground job can have survived its drain owner; of its
\* remote workers nothing is known, so a row with a remote target stays running.
Recover(d) ==
  /\ cmd[d] = "recover"
  /\ LET lost == {j \in Local : Running(jobs[j]) /\ Foreground(j)}
     IN jobs' = TrimTerminal(CompleteAll(jobs, lost)) /\ plan' = [NoPlan EXCEPT !.stale = lost]
  /\ Goes(d, "persist")
  /\ UNCHANGED <<outcomes, drain, failed, worker, copy, deaths, unsaved>>

\* Their outcomes are stored one after the other.
PersistRecovered(d) ==
  /\ cmd[d] = "persist"
  /\ \/ \E j \in plan.stale :
          /\ \A i \in plan.stale : j <= i
          /\ outcomes' = outcomes \cup {j} /\ plan' = [plan EXCEPT !.stale = @ \ {j}]
          /\ cmd' = cmd
     \/ plan.stale = {} /\ plan' = NoPlan /\ Goes(d, "recovered") /\ outcomes' = outcomes
  /\ UNCHANGED <<jobs, drain, failed, worker, copy, deaths, unsaved>>

\* An error ends the command: nobody stores the outcomes that are left.
PersistFails(d) ==
  /\ cmd[d] = "persist" /\ d \in Faulty
  /\ drain' = 0 /\ plan' = NoPlan /\ Goes(d, "error") /\ unsaved' = unsaved \cup plan.stale
  /\ UNCHANGED <<jobs, outcomes, failed, worker, copy, deaths>>

\* The cycle begins; terminal rows are trimmed.
BeginCycle(d) ==
  /\ cmd[d] = "recovered" /\ ~Terminal(jobs[d])
  /\ jobs' = TrimTerminal(jobs) /\ Goes(d, "top")
  /\ UNCHANGED <<outcomes, drain, plan, failed, worker, copy, deaths, unsaved>>

-----------------------------------------------------------------------------
(* One turn of the cycle: admit_drain_worker_inputs and its three writes. *)

Refills(d) == jobs[d].status \in Live /\ ~failed

\* late: deferred jobs whose time has not come.
PlanPass(d, late) ==
  /\ cmd[d] = "top" /\ Refills(d)
  /\ late \subseteq {j \in Job : Pending(jobs[j]) /\ jobs[j].deferred}
  /\ \E merged \in SUBSET {j \in MayMerge : Pending(jobs[j]) /\ Foreground(j)} :
     \E greedy \in Greedy(jobs, d, (Schedulable(jobs, d) \ SupersededShips(jobs, d)) \ late) :
       plan' = Pass(jobs, d, greedy, merged)
  /\ Goes(d, "cancel")
  /\ UNCHANGED <<jobs, outcomes, drain, failed, worker, copy, deaths, unsaved>>

ApplyCancels(d) ==
  /\ cmd[d] = "cancel"
  /\ jobs' = CancelPending(jobs, plan.cancel, NoProof) /\ Goes(d, "reap")
  /\ UNCHANGED <<outcomes, drain, plan, failed, worker, copy, deaths, unsaved>>

\* Mutant: a job that reported again after the plan does not stop the starts.
ReapAndStart(d) ==
  /\ cmd[d] = "reap"
  /\ jobs' = TrimTerminal(CancelAll(jobs, {j \in plan.stale : IsStaleRunning(jobs[j])}, NoProof))
  /\ plan' = [plan EXCEPT !.admit = IF plan.unknown THEN {} ELSE @] /\ Goes(d, "start")
  /\ UNCHANGED <<outcomes, drain, failed, worker, copy, deaths, unsaved>>

\* Jobs planned as stale are looked at again; nothing starts unless all were.
ApplyReaps(d) ==
  /\ cmd[d] = "reap"
  /\ LET reaped == {j \in plan.stale : IsStaleRunning(jobs[j])}
     IN /\ jobs' = TrimTerminal(CancelAll(jobs, reaped, NoProof))
        /\ plan' = [plan EXCEPT !.admit = IF plan.unknown \/ reaped # plan.stale THEN {} ELSE @]
  /\ Goes(d, "start")
  /\ UNCHANGED <<outcomes, drain, failed, worker, copy, deaths, unsaved>>

\* Each job that was still pending gets a thread.
ApplyStarts(d) ==
  /\ cmd[d] = "start"
  /\ LET started == {j \in plan.admit : Pending(jobs[j])}
     IN /\ jobs' = StartPending(jobs, started)
        /\ worker' = [j \in Job |-> IF j \in started THEN "begin" ELSE worker[j]]
  /\ plan' = NoPlan /\ Goes(d, "collect")
  /\ UNCHANGED <<outcomes, drain, failed, copy, deaths, unsaved>>

\* A pass fails before one of its writes, or because an envelope is gone when its
\* jobs are started: then their rows run without threads.
PassFails(d) ==
  /\ cmd[d] \in {"top", "cancel", "reap", "start"} /\ (cmd[d] = "top" => Refills(d)) /\ d \in Faulty
  /\ jobs' = jobs \/ (cmd[d] = "start" /\ jobs' = StartPending(jobs, plan.admit))
  /\ plan' = NoPlan /\ failed' = TRUE /\ Goes(d, "collect")
  /\ UNCHANGED <<outcomes, drain, worker, copy, deaths, unsaved>>

SkipPass(d) ==
  /\ cmd[d] = "top" /\ ~Refills(d)
  /\ Goes(d, "collect")
  /\ UNCHANGED <<jobs, outcomes, drain, plan, failed, worker, copy, deaths, unsaved>>

\* A thread has reported: a deferral is requeued, an error is kept.
Collect(d, j) ==
  /\ cmd[d] = "collect" /\ worker[j] \in Reports
  /\ jobs' = IF worker[j] = "deferred" THEN RequeueDeferredRunning(jobs, j) ELSE jobs
  /\ failed' = (failed \/ worker[j] = "error")
  /\ worker' = [worker EXCEPT ![j] = "none"] /\ copy' = [copy EXCEPT ![j] = Absent]
  /\ Goes(d, "top")
  /\ UNCHANGED <<outcomes, drain, plan, deaths, unsaved>>

\* Mutant: the cycle does not free the lock.
EndCycleLocked(d) ==
  /\ cmd[d] = "collect" /\ Active = {}
  /\ failed' = FALSE /\ Goes(d, IF failed THEN "error" ELSE "waiting")
  /\ UNCHANGED <<jobs, outcomes, drain, plan, worker, copy, deaths, unsaved>>

\* The cycle ends: its error is returned, or the command waits and polls.
EndCycle(d) ==
  /\ cmd[d] = "collect" /\ Active = {}
  /\ drain' = 0 /\ failed' = FALSE /\ Goes(d, IF failed THEN "error" ELSE "waiting")
  /\ UNCHANGED <<jobs, outcomes, plan, worker, copy, deaths, unsaved>>

-----------------------------------------------------------------------------
(* The thread of a started job (run_started_worker). *)

Turns(j, at) == worker' = [worker EXCEPT ![j] = at]

DurablyCancelled(j) == CancelRequested(jobs[j]) \/ jobs[j].status = "cancelled"

\* A cancellation is seen: the thread ends, the row stays as it is.
WorkerNotice(j) ==
  /\ worker[j] \in {"begin", "validate"} /\ DurablyCancelled(j)
  /\ Turns(j, "ok")
  /\ UNCHANGED <<jobs, outcomes, drain, cmd, plan, failed, copy, deaths, unsaved>>

\* ensure_worker_running_job: the row as it is now becomes the thread's own.
WorkerBegin(j) ==
  /\ worker[j] = "begin" /\ ~DurablyCancelled(j)
  /\ copy' = [copy EXCEPT ![j] = jobs[j]] /\ Turns(j, "validate")
  /\ UNCHANGED <<jobs, outcomes, drain, cmd, plan, failed, deaths, unsaved>>

\* The ship state refuses the attempt: cancel_refused_job.
WorkerRefused(j) ==
  /\ worker[j] = "begin" /\ ~DurablyCancelled(j)
  /\ ShipOf[j] # NoShip /\ jobs[j].status # "absent"
  /\ jobs' = Update(jobs, j, CancelWithProof(jobs[j], NoProof)) /\ Turns(j, "error")
  /\ UNCHANGED <<outcomes, drain, cmd, plan, failed, copy, deaths, unsaved>>

\* An error or a panic leaves the row running.
WorkerFails(j) ==
  /\ worker[j] \in Working
  /\ Turns(j, "error")
  /\ UNCHANGED <<jobs, outcomes, drain, cmd, plan, failed, copy, deaths, unsaved>>

\* Write row r over the row of j: the thread goes on, or ends with a conflict.
WriteBack(j, r, next) ==
  IF UpdateConflict(jobs, j, r)
  THEN Turns(j, "error") /\ UNCHANGED <<jobs, copy>>
  ELSE Turns(j, next) /\ jobs' = Update(jobs, j, r) /\ copy' = [copy EXCEPT ![j] = r]

WorkerProgress(j) ==
  /\ worker[j] = "validate"
  /\ \E t \in Target : copy[j].results[t] \notin TerminalResult
                       /\ WriteBack(j, WithResult(copy[j], t, "running"), "validate")
  /\ UNCHANGED <<outcomes, drain, cmd, plan, failed, deaths, unsaved>>

WorkerResult(j) ==
  /\ worker[j] = "validate"
  /\ \E t \in Target, v \in {"pass", "fail"} :
       LET r == WithResult(copy[j], t, v)
       IN /\ copy[j].results[t] \notin TerminalResult
          /\ WriteBack(j, r, IF \A u \in Target : r.results[u] \in TerminalResult
                             THEN "save" ELSE "validate")
  /\ UNCHANGED <<outcomes, drain, cmd, plan, failed, deaths, unsaved>>

\* The host pool has no lease to give: the attempt is handed back.
WorkerDefer(j) ==
  /\ worker[j] = "validate" /\ ~DurablyCancelled(j)
  /\ Turns(j, "deferred")
  /\ UNCHANGED <<jobs, outcomes, drain, cmd, plan, failed, copy, deaths, unsaved>>

\* The outcome is stored before the row is completed.
WorkerSave(j) ==
  /\ worker[j] = "save"
  /\ outcomes' = outcomes \cup {j} /\ Turns(j, "finish")
  /\ UNCHANGED <<jobs, drain, cmd, plan, failed, copy, deaths, unsaved>>

WorkerFinish(j) ==
  /\ worker[j] = "finish"
  /\ WriteBack(j, Complete(copy[j]), "ok")
  /\ UNCHANGED <<outcomes, drain, cmd, plan, failed, deaths, unsaved>>

-----------------------------------------------------------------------------
(* The rest of the world: the daemon, an operator, time, killed commands. *)

Others == <<outcomes, drain, cmd, plan, failed, worker, copy, deaths, unsaved>>

DaemonSubmit(j) ==
  /\ ~Foreground(j) /\ cmd[j] = "none" /\ \A i \in Job : i < j => ~Unqueued(i)
  /\ \E p \in Priority : jobs' = Enqueue(jobs, j, p)
  /\ Goes(j, "gone")
  /\ UNCHANGED <<outcomes, drain, plan, failed, worker, copy, deaths, unsaved>>

\* The supervisor admits under the drain lock, by the same planner.
DaemonStart(j) ==
  /\ ~Foreground(j) /\ Pending(jobs[j]) /\ drain = 0
  /\ LET running == {i \in Job : Running(jobs[i])}
     IN Fits(j, running) /\ \A i \in running : ~SamePr(i, j)
  /\ jobs' = StartPending(jobs, {j})
  /\ UNCHANGED Others

DaemonEnd(j) ==
  /\ ~Foreground(j) /\ Running(jobs[j])
  /\ jobs' = Update(jobs, j, IF jobs[j].asked THEN CancelWithProof(jobs[j], NoProof)
                             ELSE RecoverRow(jobs[j]))
  /\ UNCHANGED Others

\* The daemon, where one runs, stores the outcomes that terminal rows lack.
DaemonRepair(j) ==
  /\ \E i \in Job : ~Foreground(i)
  /\ Terminal(jobs[j]) /\ j \notin outcomes
  /\ outcomes' = outcomes \cup {j}
  /\ UNCHANGED <<jobs, drain, cmd, plan, failed, worker, copy, deaths, unsaved>>

UserCancel(j) ==
  /\ j \in MayCancel /\ CanRequestCancel(jobs[j], NoProof) /\ ~jobs[j].asked
  /\ jobs' = RequestCancel(jobs, j, NoProof)
  /\ UNCHANGED Others

\* A running job has not reported for DEFAULT_RUNNING_JOB_STALE_SECONDS.
Silence(j) ==
  /\ Running(jobs[j]) /\ jobs[j].fresh /\ (j \in Prompt => worker[j] \notin Working)
  /\ jobs' = [jobs EXCEPT ![j].fresh = FALSE]
  /\ UNCHANGED Others

\* A command is killed: its lock is freed and its threads are gone.
Die(d) ==
  /\ deaths < MaxDeaths /\ d \in Mortal /\ Foreground(d)
  /\ cmd[d] \notin {"none", "refused", "returned", "error", "dead"}
  /\ deaths' = deaths + 1 /\ Goes(d, "dead")
  /\ IF drain = d
     THEN /\ drain' = 0 /\ plan' = NoPlan /\ failed' = FALSE
          /\ worker' = [j \in Job |-> "none"] /\ copy' = [j \in Job |-> Absent]
          /\ unsaved' = IF cmd[d] = "persist" THEN unsaved \cup plan.stale ELSE unsaved
     ELSE UNCHANGED <<drain, plan, failed, worker, copy, unsaved>>
  /\ UNCHANGED <<jobs, outcomes>>

-----------------------------------------------------------------------------
Init ==
  /\ setup \in Setups
  /\ jobs = [j \in Job |-> Absent] /\ outcomes = {} /\ drain = 0
  /\ cmd = [j \in Job |-> "none"] /\ plan = NoPlan /\ failed = FALSE
  /\ worker = [j \in Job |-> "none"] /\ copy = [j \in Job |-> Absent]
  /\ deaths = 0 /\ unsaved = {}

Command(d) ==
  \/ Check(d) \/ Submit(d) \/ Return(d) \/ Acquire(d)
  \/ Recover(d) \/ PersistRecovered(d) \/ PersistFails(d) \/ BeginCycle(d)
  \/ \E late \in SUBSET Job : PlanPass(d, late)
  \/ ApplyCancels(d) \/ ApplyReaps(d) \/ ApplyStarts(d) \/ PassFails(d) \/ SkipPass(d)
  \/ (\E j \in Job : Collect(d, j)) \/ EndCycle(d)

Thread(j) ==
  \/ WorkerNotice(j) \/ WorkerBegin(j) \/ WorkerRefused(j) \/ WorkerFails(j)
  \/ WorkerProgress(j) \/ WorkerResult(j) \/ WorkerDefer(j)
  \/ WorkerSave(j) \/ WorkerFinish(j)

World(j) ==
  \/ DaemonSubmit(j) \/ DaemonStart(j) \/ DaemonEnd(j) \/ DaemonRepair(j)
  \/ UserCancel(j) \/ Silence(j) \/ Die(j)

Next == (\E j \in Job : Command(j) \/ Thread(j) \/ World(j)) /\ UNCHANGED setup

Spec == Init /\ [][Next]_<<vars, setup>>

\* Deferred jobs become due.
Retries(j) == PlanPass(j, {})

\* Commands poll, threads run and end, daemon jobs end and abandoned ones count
\* as stale one day.
Fairness ==
  \A j \in Job :
    /\ SF_vars(Retries(j)) /\ SF_vars(WorkerResult(j))
    /\ WF_vars(Command(j)) /\ WF_vars(Thread(j)) /\ WF_vars(WorkerNotice(j))
    /\ WF_vars(Return(j)) /\ WF_vars(DaemonEnd(j)) /\ WF_vars(Silence(j))

FairSpec == Spec /\ Fairness

-----------------------------------------------------------------------------
(* Properties. *)

TypeOK ==
  /\ setup \in Setups
  /\ jobs \in Queue /\ outcomes \subseteq Job /\ drain \in Job \cup {0}
  /\ copy \in Queue /\ failed \in BOOLEAN /\ deaths \in 0 .. MaxDeaths /\ unsaved \subseteq Job
  /\ worker \in [Job -> {"none"} \cup Working \cup Reports]
  /\ cmd \in [Job -> {"none", "checked", "refused", "waiting", "recover", "persist", "recovered",
                      "top", "cancel", "reap", "start", "collect", "returned", "error", "dead", "gone"}]
  /\ plan \in [cancel : SUBSET Job, stale : SUBSET Job, admit : SUBSET Job, unknown : BOOLEAN]
  /\ \A j \in Job : worker[j] # "none" => Foreground(j) /\ drain # 0 /\ cmd[drain] \in
       {"top", "cancel", "reap", "start", "collect"}

\* The admission passes of changing drain owners, each planned over a snapshot
\* and applied in three writes, never let two running jobs share an exclusive
\* claim or a pull request, or overcommit the host pool.
RunningDisjoint ==
  LET running == {j \in Job : Running(jobs[j])}
  IN /\ Cardinality(running) <= Slots
     /\ \A i, j \in running : i # j => ClaimsOf[i] \cap ClaimsOf[j] = {}
                                     /\ ~SamePr(i, j)

\* A completed foreground job has its outcome in the store, or the drain owner that
\* recovered it is about to store it: the one way to lose it is a recovery that
\* fails or is killed between completing the rows and storing their outcomes.
CompletedHasOutcome ==
  \A j \in Job : Foreground(j) /\ jobs[j].status = "completed" =>
    \/ j \in outcomes \cup unsaved
    \/ drain # 0 /\ cmd[drain] = "persist" /\ j \in plan.stale

\* Only the daemon ends a running daemon job: a foreground owner cannot tell
\* from heartbeats whether its worker is alive.
DaemonRowsKept ==
  [][\A j \in Job : OwnerOf[j] = "daemon" /\ Running(jobs[j]) /\ ~Running(jobs'[j])
        => cmd' = cmd /\ worker' = worker]_vars

\* The drain of a command that awaits its own job only leaves every other row
\* alone, except that old terminal rows are trimmed.
AwaitedOnlyScoped ==
  [][\A d, j \in Job :
        /\ ScopeOf[d] = "awaited" /\ drain = d /\ cmd'[d] # cmd[d] /\ j # d
        => jobs'[j].status = jobs[j].status \/ Terminal(jobs[j])]_vars

\* A row that runs without a thread and that no drain owner ends: not a ship,
\* and with a remote target.
Abandoned(j) ==
  Foreground(j) /\ Running(jobs[j]) /\ worker[j] = "none" /\ j \notin Local /\ ShipOf[j] = NoShip

\* Every command that was queued ends, with its job's outcome or an error, unless
\* a run with a remote target is abandoned: its row keeps its claims for good.
CommandReturns ==
  \A d \in Job : cmd[d] = "waiting" ~>
    cmd[d] \in {"returned", "error", "dead"} \/ \E j \in Job : Abandoned(j)

\* Changing drain owners and their threads keep the queue sound: running jobs are
\* disjoint, and what they complete can be waited for.
DrainSafe == TypeOK /\ RunningDisjoint /\ CompletedHasOutcome

\* The drain leaves alone what is not its own.
DrainScoped == DaemonRowsKept /\ AwaitedOnlyScoped

=============================================================================
