--------------------------- MODULE WorkerCapacity ----------------------------
(***************************************************************************)
(* The one native-worker slot of a host (daemon_worker_capacity.rs over    *)
(* host_pool.rs), which three runtimes share: the queue supervisor and the *)
(* canary runtime, which take turns in the daemon's loop, and sandbox      *)
(* audit commands, which are processes of their own.                       *)
(*                                                                         *)
(* A lease lives in a file and lapses when nobody refreshes it; an audit   *)
(* is not refreshed but guarded by a receipt of its process.  Every        *)
(* operation runs under the control lock and is one step.                  *)
(***************************************************************************)
EXTENDS Integers, FiniteSets

CONSTANTS
  Jobs,       \* queue jobs
  Canaries,   \* canary jobs, prepared when the system starts
  Audits,     \* sandbox audit commands
  WorkOf,     \* the work identity an audit command was given
  SilentAt,   \* where the daemon's loop may stay longer than a lease lasts
  Unreadable, \* jobs whose envelope may not load while they run
  Survives,   \* may a canary's process tree outlive its cancellation?
  MaxCrashes  \* bound: crashes of the daemon

None == "none"

DaemonStates == {"tick", "beat", "keep", "admit", "start", "spawn", "canary", "down"}

ASSUME CapacityAssumption ==
  /\ WorkOf \in [Audits -> STRING]
  /\ Unreadable \subseteq Jobs /\ SilentAt \subseteq DaemonStates /\ Survives \in BOOLEAN /\ MaxCrashes \in Nat
  /\ None \notin Jobs \cup Canaries \cup Audits \cup {WorkOf[a] : a \in Audits}
  \* lease_job_id puts the kind of work before the identity.
  /\ Jobs \cap Canaries = {} /\ "daemon" \notin Audits
  /\ (Jobs \cup Canaries) \cap (Audits \cup {WorkOf[a] : a \in Audits}) = {}

VARIABLES
  leases,   \* leases.json: who is recorded
  stale,    \* the recorded leases whose expiry has passed
  receipt,  \* exclusive-sandbox-process.json: the audit whose process is bound
  row,      \* queue row of each job
  canary,   \* state of each canary job
  worker,   \* worker process of each job, canary and audit
  command,  \* what an audit command does next
  drain,    \* holder of the queue's drain lock
  daemon,   \* what the daemon's loop does next
  seen,     \* running jobs read at the start of the heartbeat
  picked,   \* job claimed by this admission
  todo,     \* canaries this tick has still to visit
  crashes,
  lapsed    \* history: queue and canary claims that lapsed or were given up in use

vars == <<leases, stale, receipt, row, canary, worker, command, drain, daemon,
          seen, picked, todo, crashes, lapsed>>
storeVars  == <<leases, stale, receipt>>
daemonVars == <<drain, daemon, seen, picked, todo, crashes, lapsed>>

Works   == {WorkOf[a] : a \in Audits}
Owners  == Jobs \cup Canaries \cup Works
Natives == Jobs \cup Canaries \cup Audits

-----------------------------------------------------------------------------
(* The lease store and the process receipt. *)

\* HostPoolLease::is_stale
Live == leases \ stale

\* Mutant: the count of active leases is not compared with the capacity.
GrantsAlways(live, o) == TRUE

\* acquire_or_heartbeat_exact succeeds for owner o, given the live leases.
Grants(live, o) == o \in live \/ live = {}

\* The leases after it: stale ones are dropped in any case.
Acquired(live, o) == IF Grants(live, o) THEN live \cup {o} ELSE live

\* Mutant: a receipt refuses although its process is dead.
BlockedByReceipt == receipt # None

\* reconcile_exclusive_process: a live bound process refuses the operation.
Blocked == receipt # None /\ worker[receipt] \in {"waiting", "running"}

\* Otherwise what is left of its group is killed, its lease and receipt go.
Buried     == receipt # None /\ ~Blocked
Remaining  == IF Buried THEN leases \ {WorkOf[receipt]} ELSE leases
RemainLive == Remaining \ stale
Reaped     == IF Buried THEN [worker EXCEPT ![receipt] = "dead"] ELSE worker

\* An operation that is not blocked and leaves the leases L.
Store(L) ==
  /\ ~Blocked
  /\ leases' = L /\ stale' = stale \cap L
  /\ receipt' = None

\* claim_or_heartbeat granted to o, or refused to it.
Granted(o) ==
  /\ ~Blocked /\ Grants(RemainLive, o)
  /\ leases' = Acquired(RemainLive, o) /\ stale' = {} /\ receipt' = None
Refused(o) ==
  \/ Blocked /\ UNCHANGED storeVars
  \/ /\ ~Blocked /\ ~Grants(RemainLive, o)
     /\ leases' = RemainLive /\ stale' = {} /\ receipt' = None

\* release, release_queue_work: stale leases of others stay recorded.
Released(o) ==
  \/ Blocked /\ UNCHANGED storeVars
  \/ Store(Remaining \ {o})

-----------------------------------------------------------------------------
(* The supervisor's part of the daemon's loop. *)

\* Dead workers are reaped and the running rows read.
BeginTick ==
  /\ daemon = "tick"
  /\ row' = [j \in Jobs |-> IF row[j] = "running" /\ worker[j] = "dead"
                            THEN "done" ELSE row[j]]
  /\ seen' = {j \in Jobs : row'[j] = "running"}
  /\ daemon' = "beat"
  /\ UNCHANGED <<storeVars, canary, worker, command, drain, picked, todo, crashes, lapsed>>

\* pending_job_scan: the canary runtime begins with the jobs not yet terminal.
ToCanaries ==
  /\ daemon' = "canary"
  /\ todo' = {c \in Canaries : canary[c] # "terminal"}

\* An error, or a worker whose liveness is unknown, skips heartbeat and
\* admission; the canary runtime has its turn all the same.
SkipTick ==
  /\ daemon \in {"tick", "beat", "keep", "admit"}
  /\ ToCanaries /\ seen' = {}
  /\ UNCHANGED <<storeVars, row, canary, worker, command, drain, picked, crashes, lapsed>>

\* release_inactive_queue_claims
DropInactive ==
  /\ daemon = "beat"
  /\ \/ Blocked /\ UNCHANGED storeVars
     \/ Store(Remaining \ (Jobs \ seen))
  /\ worker' = Reaped
  /\ daemon' = "keep"
  /\ UNCHANGED <<row, canary, command, drain, seen, picked, todo, crashes, lapsed>>

\* heartbeat_existing, or a new claim, for each running job.
KeepRunning ==
  /\ daemon = "keep"
  /\ \/ \E j \in seen :
          /\ Granted(j)
          /\ seen' = seen \ {j} /\ worker' = Reaped
          /\ UNCHANGED daemon
     \/ seen = {} /\ daemon' = "admit" /\ UNCHANGED <<storeVars, seen, worker>>
  /\ UNCHANGED <<row, canary, command, drain, picked, todo, crashes, lapsed>>

\* A running job whose envelope does not load gives its claim back, although its
\* worker may be alive.
Disown ==
  /\ daemon = "keep"
  /\ \E j \in seen \cap Unreadable :
       Released(j) /\ seen' = seen \ {j} /\ lapsed' = lapsed \cup {j}
  /\ worker' = Reaped
  /\ UNCHANGED <<row, canary, command, drain, daemon, picked, todo, crashes>>

\* Somebody else owns the slot of a running job: the tick ends with an error.
SlotLost ==
  /\ daemon = "keep"
  /\ \E j \in seen : Refused(j)
  /\ worker' = Reaped
  /\ ToCanaries /\ seen' = {}
  /\ UNCHANGED <<row, canary, command, drain, picked, crashes, lapsed>>

\* The pending jobs admission may claim for: none while a native job runs.
Candidates ==
  IF drain = None /\ \A i \in Jobs : row[i] # "running"
  THEN {j \in Jobs : row[j] = "pending"} ELSE {}

\* admit_pending: under the drain lock, the claim of one pending job is granted.
Select ==
  /\ daemon = "admit"
  /\ \E j \in Candidates : Granted(j) /\ picked' = j
  /\ daemon' = "start" /\ drain' = "daemon"
  /\ worker' = Reaped
  /\ UNCHANGED <<row, canary, command, seen, todo, crashes, lapsed>>

\* No job can be admitted, the slot is taken, or another process drains.
SelectNone ==
  /\ daemon = "admit"
  /\ \/ Candidates = {} /\ UNCHANGED <<storeVars, worker>>
     \/ /\ Candidates # {} /\ \A j \in Candidates : Blocked \/ ~Grants(RemainLive, j)
        /\ \E j \in Candidates : Refused(j)
        /\ worker' = Reaped
  /\ ToCanaries
  /\ UNCHANGED <<row, canary, command, drain, seen, picked, crashes, lapsed>>

\* start_pending_jobs_for_drain; a job cancelled meanwhile gives its claim back.
Start ==
  /\ daemon = "start"
  /\ \/ /\ row[picked] = "pending"
        /\ row' = [row EXCEPT ![picked] = "running"]
        /\ daemon' = "spawn"
        /\ UNCHANGED <<storeVars, worker, drain, picked, todo>>
     \/ /\ row[picked] # "pending"
        /\ Released(picked) /\ worker' = Reaped
        /\ ToCanaries /\ drain' = None /\ picked' = None
        /\ UNCHANGED row
  /\ UNCHANGED <<canary, command, seen, crashes, lapsed>>

\* spawn_worker, or the return of the job and of its claim.
Spawn ==
  /\ daemon = "spawn"
  /\ \/ worker' = [worker EXCEPT ![picked] = "running"] /\ UNCHANGED <<storeVars, row>>
     \/ row' = [row EXCEPT ![picked] = "pending"] /\ Released(picked) /\ worker' = Reaped
  /\ ToCanaries /\ drain' = None /\ picked' = None
  /\ UNCHANGED <<canary, command, seen, crashes, lapsed>>
-----------------------------------------------------------------------------
(* The canary runtime's part. *)

Visited(c) == todo' = todo \ {c}

\* The claim of a canary is refused: it is left alone in this tick.
CanaryWaits ==
  /\ daemon = "canary"
  /\ \E c \in todo : canary[c] # "terminal" /\ Refused(c) /\ Visited(c)
  /\ worker' = Reaped
  /\ UNCHANGED <<row, canary, command, drain, daemon, seen, picked, crashes, lapsed>>

\* launch_canary_job once the claim is granted; a late canary is cancelled.
Launch ==
  /\ daemon = "canary"
  /\ \E c \in todo :
       /\ canary[c] = "prepared" /\ Granted(c) /\ Visited(c)
       /\ \/ /\ canary' = [canary EXCEPT ![c] = "running"]
             /\ worker' = [Reaped EXCEPT ![c] = "running"]
          \/ canary' = [canary EXCEPT ![c] = "terminal"] /\ worker' = Reaped
  /\ UNCHANGED <<row, command, drain, daemon, seen, picked, crashes, lapsed>>

\* reconcile_canary_job: the claim is refreshed; a finished worker, or the
\* killing of one that was cancelled or is late, makes the job terminal, which
\* gives the claim back even when the killing could not be confirmed.
ReconcileCanary ==
  /\ daemon = "canary"
  /\ \E c \in todo :
       /\ canary[c] = "running" /\ ~Blocked /\ Grants(RemainLive, c) /\ Visited(c)
       /\ \/ /\ canary' = [canary EXCEPT ![c] = "terminal"] /\ leases' = RemainLive \ {c}
             /\ worker' \in {[Reaped EXCEPT ![c] = "dead"]}
                           \cup (IF Survives THEN {Reaped} ELSE {})
          \/ /\ worker[c] # "dead" /\ UNCHANGED canary
             /\ leases' = Acquired(RemainLive, c) /\ worker' = Reaped
  /\ stale' = {} /\ receipt' = None
  /\ UNCHANGED <<row, command, drain, daemon, seen, picked, crashes, lapsed>>

\* A canary that became terminal since the scan gives its claim back.
ReleaseCanary ==
  /\ daemon = "canary"
  /\ \E c \in todo : canary[c] = "terminal" /\ Released(c) /\ Visited(c)
  /\ worker' = Reaped
  /\ UNCHANGED <<row, canary, command, drain, daemon, seen, picked, crashes, lapsed>>

EndLoop ==
  /\ daemon = "canary" /\ todo = {}
  /\ daemon' = "tick"
  /\ UNCHANGED <<storeVars, row, canary, worker, command, drain, seen, picked, todo, crashes, lapsed>>

Daemon ==
  \/ BeginTick \/ DropInactive \/ KeepRunning \/ Disown \/ SlotLost \/ Select \/ SelectNone
  \/ Start \/ Spawn \/ CanaryWaits \/ Launch \/ ReconcileCanary \/ ReleaseCanary \/ EndLoop

-----------------------------------------------------------------------------
(* Sandbox audit commands and their workers. *)

Goes(a, at) == command' = [command EXCEPT ![a] = at]

\* claim_exclusive_sandbox_until: the drain lock, or contention for too long.
AuditLock(a) ==
  /\ command[a] = "idle"
  /\ \/ drain = None /\ drain' = a /\ Goes(a, "locked")
     \/ drain # None /\ Goes(a, "over") /\ UNCHANGED drain
  /\ UNCHANGED <<storeVars, row, canary, worker, daemon, seen, picked, todo, crashes, lapsed>>

\* Mutant: running jobs are not looked for.
NothingPending == \A j \in Jobs : row[j] # "pending"

\* get_running and get_pending are empty.
QueueIdle == \A j \in Jobs : row[j] \notin {"pending", "running"}

AuditCheck(a) ==
  /\ command[a] = "locked"
  /\ IF QueueIdle THEN Goes(a, "checked") /\ UNCHANGED drain
                  ELSE Goes(a, "over") /\ drain' = None
  /\ UNCHANGED <<storeVars, row, canary, worker, daemon, seen, picked, todo, crashes, lapsed>>

AuditClaim(a) ==
  /\ command[a] = "checked"
  /\ \/ Granted(WorkOf[a]) /\ Goes(a, "claimed")
     \/ Refused(WorkOf[a]) /\ Goes(a, "over")
  /\ worker' = Reaped /\ drain' = None
  /\ UNCHANGED <<row, canary, daemon, seen, picked, todo, crashes, lapsed>>

\* run_admitted_audit spawns the worker in a process group of its own.
AuditSpawn(a) ==
  /\ command[a] = "claimed"
  /\ \/ worker' = [worker EXCEPT ![a] = "waiting"] /\ Goes(a, "spawned")
     \/ UNCHANGED worker /\ Goes(a, "dropping")
  /\ UNCHANGED <<storeVars, row, canary, daemonVars>>

\* bind_exclusive_process: only with a recorded lease, fresh or not.
AuditBind(a) ==
  /\ command[a] = "spawned"
  /\ \/ /\ ~Blocked /\ WorkOf[a] \in Remaining
        /\ leases' = Remaining /\ stale' = stale \cap Remaining /\ receipt' = a
        /\ worker' = Reaped /\ Goes(a, "waiting")
     \/ /\ Blocked \/ WorkOf[a] \notin Remaining
        /\ \/ Blocked /\ UNCHANGED storeVars
           \/ Store(Remaining)
        /\ worker' = [Reaped EXCEPT ![a] = "dead"] /\ Goes(a, "dropping")
  /\ UNCHANGED <<row, canary, daemonVars>>

\* wait_for_admitted_worker: the worker's main process has exited.
AuditWait(a) ==
  /\ command[a] = "waiting" /\ worker[a] \in {"orphans", "dead"}
  /\ Goes(a, "clearing")
  /\ UNCHANGED <<storeVars, row, canary, worker, daemonVars>>

\* clear_exclusive_process: the group is killed before the receipt goes.
AuditClear(a) ==
  /\ command[a] = "clearing"
  /\ IF receipt = a
     THEN receipt' = None /\ worker' = [worker EXCEPT ![a] = "dead"]
     ELSE UNCHANGED <<receipt, worker>>
  /\ Goes(a, "dropping")
  /\ UNCHANGED <<leases, stale, row, canary, daemonVars>>

\* Drop of ExclusiveSandboxLease
AuditDrop(a) ==
  /\ command[a] = "dropping"
  /\ Released(WorkOf[a]) /\ worker' = Reaped /\ Goes(a, "over")
  /\ UNCHANGED <<row, canary, daemonVars>>

AuditStep(a) ==
  \/ AuditLock(a) \/ AuditCheck(a) \/ AuditClaim(a) \/ AuditSpawn(a) \/ AuditBind(a)
  \/ AuditWait(a) \/ AuditClear(a) \/ AuditDrop(a)

\* sandbox_audit_worker_command: the worker runs only with its receipt, and
\* gives up when there is none in time or it names another.
WorkerVerifies(a) ==
  /\ worker[a] = "waiting"
  /\ worker' = [worker EXCEPT ![a] = IF receipt = a THEN "running" ELSE "dead"]
  /\ UNCHANGED <<storeVars, row, canary, command, daemonVars>>

-----------------------------------------------------------------------------
(* Submissions, endings, faults and time. *)

Submit ==
  /\ \E j \in Jobs : row[j] = "none" /\ row' = [row EXCEPT ![j] = "pending"]
  /\ UNCHANGED <<storeVars, canary, worker, command, daemonVars>>

CancelPending ==
  /\ \E j \in Jobs : row[j] = "pending" /\ row' = [row EXCEPT ![j] = "done"]
  /\ UNCHANGED <<storeVars, canary, worker, command, daemonVars>>

\* CanaryJobStore::request_cancel from the command line, before the launch.
CancelCanary ==
  /\ \E c \in Canaries :
       canary[c] = "prepared" /\ canary' = [canary EXCEPT ![c] = "terminal"]
  /\ UNCHANGED <<storeVars, row, worker, command, daemonVars>>

\* A queue worker writes its row and exits, or it just dies.
QueueWorkerEnds ==
  /\ \E j \in Jobs :
       /\ worker[j] = "running"
       /\ worker' = [worker EXCEPT ![j] = "dead"]
       /\ \/ row' = [row EXCEPT ![j] = "done"]
          \/ UNCHANGED row
  /\ UNCHANGED <<storeVars, canary, command, daemonVars>>

\* A canary worker exits; an audit worker does, leaving descendants or not.
NativeEnds ==
  /\ \E n \in Canaries \cup Audits :
       /\ worker[n] = "running"
       /\ \E end \in {"dead", "orphans"} :
            /\ end = "orphans" => n \in Audits
            /\ worker' = [worker EXCEPT ![n] = end]
  /\ UNCHANGED <<storeVars, row, canary, command, daemonVars>>

AuditCrash(a) ==
  /\ command[a] \notin {"idle", "over", "crashed"}
  /\ Goes(a, "crashed")
  /\ drain' = IF drain = a THEN None ELSE drain
  /\ UNCHANGED <<storeVars, row, canary, worker, daemon, seen, picked, todo, crashes, lapsed>>

\* The daemon stops; it may have released a dead audit's lease but not yet
\* removed the receipt.
DaemonCrash ==
  /\ daemon # "down" /\ crashes < MaxCrashes
  /\ daemon' = "down" /\ crashes' = crashes + 1
  /\ drain' = IF drain = "daemon" THEN None ELSE drain
  /\ seen' = {} /\ picked' = None /\ todo' = {}
  /\ \E L \in {leases, Remaining} : leases' = L /\ stale' = stale \cap L
  /\ worker' = IF leases' = leases THEN worker ELSE Reaped
  /\ UNCHANGED <<receipt, row, canary, command, lapsed>>

DaemonStarts ==
  /\ daemon = "down" /\ daemon' = "tick"
  /\ UNCHANGED <<storeVars, row, canary, worker, command, drain, seen, picked, todo, crashes, lapsed>>

\* One turn of the daemon's loop is shorter than a lease lasts, so the leases it
\* refreshes lapse only where it may be silent.
Refreshed == {j \in Jobs : row[j] = "running" \/ j = picked} \cup {c \in Canaries : canary[c] # "terminal"}

Lapse(o) ==
  /\ o \in Live
  /\ daemon \in SilentAt \/ o \notin Refreshed
  /\ stale' = stale \cup {o} /\ lapsed' = lapsed \cup ({o} \cap Refreshed)
  /\ UNCHANGED <<leases, receipt, row, canary, worker, command, drain, daemon, seen, picked, todo, crashes>>

-----------------------------------------------------------------------------
Init ==
  /\ leases = {} /\ stale = {} /\ receipt = None
  /\ row = [j \in Jobs |-> "none"]
  /\ canary = [c \in Canaries |-> "prepared"]
  /\ worker = [n \in Natives |-> "none"]
  /\ command = [a \in Audits |-> "idle"]
  /\ drain = None /\ daemon = "tick" /\ seen = {} /\ picked = None /\ todo = {}
  /\ crashes = 0 /\ lapsed = {}

Next ==
  \/ Daemon \/ SkipTick \/ DaemonCrash \/ DaemonStarts
  \/ Submit \/ CancelPending \/ CancelCanary \/ QueueWorkerEnds \/ NativeEnds
  \/ \E o \in Owners : Lapse(o)
  \/ \E a \in Audits : AuditStep(a) \/ AuditCrash(a) \/ WorkerVerifies(a)

Spec == Init /\ [][Next]_vars

\* The loop runs while the daemon does, and is restarted; a tick that fails or
\* meets an unknown worker is followed by one that does not; processes are
\* scheduled; workers end; time passes.
Fairness ==
  /\ WF_vars(Daemon) /\ WF_vars(DaemonStarts)
  /\ SF_vars(BeginTick) /\ SF_vars(DropInactive) /\ SF_vars(KeepRunning) /\ SF_vars(Select)
  /\ WF_vars(QueueWorkerEnds) /\ WF_vars(NativeEnds)
  /\ \A o \in Owners : WF_vars(Lapse(o))
  /\ \A a \in Audits : WF_vars(WorkerVerifies(a)) /\ WF_vars(AuditStep(a))

FairSpec == Spec /\ Fairness

-----------------------------------------------------------------------------
(* Properties *)

TypeOK ==
  /\ leases \in SUBSET Owners /\ stale \in SUBSET leases
  /\ receipt \in Audits \cup {None}
  /\ row \in [Jobs -> {"none", "pending", "running", "done"}]
  /\ canary \in [Canaries -> {"prepared", "running", "terminal"}]
  /\ worker \in [Natives -> {"none", "waiting", "running", "orphans", "dead"}]
  /\ command \in [Audits -> {"idle", "locked", "checked", "claimed", "spawned", "waiting",
                             "clearing", "dropping", "over", "crashed"}]
  /\ drain \in {None, "daemon"} \cup Audits
  /\ daemon \in DaemonStates
  /\ seen \in SUBSET Jobs /\ picked \in Jobs \cup {None} /\ todo \in SUBSET Canaries
  /\ crashes \in 0..MaxCrashes /\ lapsed \subseteq Jobs \cup Canaries

Busy == {n \in Natives : worker[n] \in {"running", "orphans"}}

\* Workers whose claim is gone although they run: it lapsed while the daemon was
\* silent, their envelope did not load, or a cancelled canary could not be killed.
Unguarded == lapsed \cup {c \in Canaries : canary[c] = "terminal"}

\* The host never runs two native workers at once, not two of one runtime and
\* not two of different ones, whatever crashes and whoever holds old claims: a
\* second worker runs only beside one whose own claim was lost first.
OneNativeWorker == Cardinality(Busy \ Unguarded) <= 1

\* While a sandbox audit's processes run, no queue worker does, even when the
\* daemon was silent and every lease has lapsed: what protects the audit is the
\* idle check under the drain lock and then its process receipt.
AuditExcludesQueue ==
  \A a \in Audits \cap Busy : Busy \cap Jobs = {}

\* A crashed audit command, a dead canary or a lapsed claim does not keep the slot
\* for ever: while jobs are pending, one of them is started.
JobServed ==
  (\E j \in Jobs : row[j] = "pending") ~> (\E j \in Jobs : row[j] = "running") \/ (\A j \in Jobs : row[j] # "pending")
=============================================================================
