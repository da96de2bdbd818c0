------------------------------ MODULE CanaryJob ------------------------------
(***************************************************************************)
(* One canary job (parallel_proof_canary_job and its daemon adapter): a    *)
(* chain of write-once receipts on which the daemon, cancel commands and   *)
(* the restarted daemon compete for the next place, the worker process     *)
(* that the daemon launches once, and the supervisor records that tie the  *)
(* two together.                                                           *)
(*                                                                         *)
(* A receipt is put at the place after the last one its writer has loaded; *)
(* the put creates it, or conflicts with what stands there.  Times are     *)
(* those of the controller's clock.                                        *)
(***************************************************************************)
EXTENDS Integers, Sequences, FiniteSets

CONSTANTS
  Requests,       \* cancel commands
  Deadline,       \* deadline_at_ms; the job is approved at time 0
  Interval,       \* heartbeat_interval_ms
  Timeout,        \* heartbeat_timeout_ms
  MaxHeartbeats,  \* max_heartbeat_receipts
  MaxTries,       \* attempts of request_cancel
  MaxNow,         \* bound: the clock stops
  MaxCrashes      \* bound: crashes of the daemon

ASSUME CanaryAssumption ==
  /\ {Deadline, Interval, MaxHeartbeats} \subseteq Nat \ {0}
  /\ Timeout \in Nat /\ Timeout >= Interval
  /\ MaxTries \in Nat \ {0} /\ MaxNow \in Nat /\ MaxCrashes \in Nat

None == "none"

Outcomes == {"Succeeded", "Failed", "Cancelled", "CancelledBeforeLaunch",
             "CancellationUncertain", "Lost", "HeartbeatLimit"}
Cancelling == {"CancellationRequested", "CancellationRequestedBeforeIdentity"}
Identified == {"Running", "Heartbeat", "CancellationRequested"}
Kinds == {"Prepared", "Launching"} \cup Identified \cup Cancelling \cup Outcomes

VARIABLES
  chain,       \* the job's receipts, each [kind, at]
  artifact,    \* is the worker's response stored?
  bound,       \* is the supervisor's receipt of the worker stored?
  completion,  \* the worker's completion record
  worker,      \* the worker process; "done" if its exit status is 0
  now,         \* the controller's clock
  daemon,      \* what the daemon does next
  child,       \* does the daemon hold the worker as its child?
  mark,        \* receipts the daemon has loaded
  clock,       \* its time of this tick
  seen,        \* the completion it has read
  verdict,     \* the outcome it is about to record
  cancel,      \* per command: [pc, at, mark, tries]
  slot,        \* whose the host's one native-worker slot is
  crashes

vars == <<chain, artifact, bound, completion, worker, now, daemon, child, mark, clock,
          seen, verdict, cancel, slot, crashes>>
workerVars == <<artifact, completion, worker>>
readVars   == <<mark, clock, seen>>
localVars  == <<readVars, verdict>>

NoCompletion == [code |-> -1, at |-> 0]

-----------------------------------------------------------------------------
(* The receipt chain. *)

Receipt(kind, at) == [kind |-> kind, at |-> at]
Latest(n)   == chain[n].kind
Terminal(n) == n > 0 /\ Latest(n) \in Outcomes

\* validate_receipt and validate_terminal_receipt: receipt q may follow p.
Follows(p, q) ==
  /\ p.kind \notin Outcomes /\ q.kind # "Prepared"
  /\ q.kind = "Launching" => p.kind = "Prepared"
  /\ q.kind \in {"Running", "CancellationRequestedBeforeIdentity"} => p.kind = "Launching"
  /\ q.kind \in {"Heartbeat", "CancellationRequested"} => p.kind \in Identified
  /\ q.kind \in Outcomes \ {"CancelledBeforeLaunch"} => p.kind # "Prepared"
  /\ q.at >= p.at /\ (q.kind = "Running" => q.at = p.at)

\* append after n loaded receipts: created, or in conflict with the chain.
Put(n, kind, at) ==
  IF Len(chain) = n THEN chain' = Append(chain, Receipt(kind, at)) ELSE UNCHANGED chain

\* last_observed_at_ms: terminal and prepared receipts have no time.
LastObserved(n) == IF n <= 1 THEN 0 ELSE chain[n].at

\* active_identity: the chain names the worker's process.
HasIdentity(n) == \E i \in 1..n : Latest(i) \in Identified

HeartbeatCount(n) == Cardinality({i \in 1..n : Latest(i) = "Heartbeat"})

\* A tick that ends with a terminal job gives its claim back.
Releases == slot' = IF Terminal(Len(chain))' THEN "free" ELSE slot

\* The daemon's tick is over, and what it has read is forgotten.
Returns == daemon' = "idle" /\ mark' = 0 /\ clock' = 0 /\ seen' = NoCompletion /\ verdict' = None

\* Alive: the worker process exists.
Alive == worker \notin {"none", "done", "dead"}

-----------------------------------------------------------------------------
(* CanaryJobStore::submit and the daemon's launch. *)

Submit ==
  /\ chain = <<>> /\ chain' = <<Receipt("Prepared", 0)>>
  /\ UNCHANGED <<workerVars, bound, now, daemon, child, localVars, cancel, slot, crashes>>

\* Mutant: a claimed launch without an identity is launched again.
TickRelaunch ==
  /\ daemon = "idle" /\ chain # <<>> /\ ~Terminal(Len(chain))
  /\ slot # "other" /\ slot' = "mine"
  /\ clock' = now
  /\ daemon' = IF Latest(Len(chain)) = "Launching" THEN "launch"
               ELSE IF Latest(Len(chain)) # "Prepared" THEN "reconcile"
               ELSE IF now >= Deadline THEN "expire" ELSE "claim"
  /\ UNCHANGED <<chain, workerVars, bound, now, child, mark, seen, verdict, cancel, crashes>>

\* A tick claims the slot or renews its claim, and launches, cancels or reconciles
\* the job; while another owner has the slot it passes the job over.
Tick ==
  /\ daemon = "idle" /\ chain # <<>> /\ ~Terminal(Len(chain))
  /\ slot # "other" /\ slot' = "mine"
  /\ clock' = now
  /\ daemon' = IF Latest(Len(chain)) # "Prepared" THEN "reconcile"
               ELSE IF now >= Deadline THEN "expire" ELSE "claim"
  /\ UNCHANGED <<chain, workerVars, bound, now, child, mark, seen, verdict, cancel, crashes>>

\* A prepared job whose deadline has passed is cancelled.
Expire ==
  /\ daemon = "expire" /\ Returns
  /\ Put(1, "CancelledBeforeLaunch", clock)
  /\ UNCHANGED <<workerVars, bound, now, child, cancel, slot, crashes>>

\* claim_launch: only the writer that creates the claim may launch.
Claim ==
  /\ daemon = "claim"
  /\ Put(1, "Launching", clock)
  /\ \/ Len(chain) = 1 /\ daemon' = "launch" /\ mark' = 2 /\ UNCHANGED <<clock, seen, verdict>>
     \/ Len(chain) > 1 /\ Returns
  /\ UNCHANGED <<workerVars, bound, now, child, cancel, crashes>>
  /\ Releases

\* launch_typed_worker: the spawn succeeds or an error leaves the claim alone.
Spawn ==
  /\ daemon = "launch"
  /\ \/ worker' = "waiting" /\ daemon' = "spawned" /\ UNCHANGED localVars
     \/ Returns /\ UNCHANGED worker
  /\ UNCHANGED <<chain, artifact, completion, bound, now, child, cancel, slot, crashes>>

\* The start identity is captured and stored, or the worker is killed.
Bind ==
  /\ daemon = "spawned"
  /\ \/ /\ Alive /\ bound' = TRUE /\ child' = TRUE
        /\ daemon' = "bound" /\ UNCHANGED <<worker, localVars>>
     \/ worker' = "dead" /\ Returns /\ UNCHANGED <<bound, child>>
  /\ UNCHANGED <<chain, artifact, completion, now, cancel, slot, crashes>>

RecordRunning ==
  /\ daemon = "bound" /\ Returns
  /\ Put(mark, "Running", clock)
  /\ UNCHANGED <<workerVars, bound, now, child, cancel, slot, crashes>>

-----------------------------------------------------------------------------
(* reconcile_canary_job *)

Load ==
  /\ daemon = "reconcile"
  /\ IF Terminal(Len(chain)) \/ clock < LastObserved(Len(chain)) THEN Returns
     ELSE mark' = Len(chain) /\ daemon' = "read" /\ UNCHANGED <<clock, seen, verdict>>
  /\ UNCHANGED <<chain, workerVars, bound, now, child, cancel, crashes>>
  /\ Releases

\* The outcome that ends the reconciliation.
Concludes(outcome) == daemon' = "record" /\ verdict' = outcome /\ UNCHANGED readVars

\* Mutant: a worker without a receipt is looked for again in the next tick.
ReadAgain ==
  /\ daemon = "read"
  /\ IF bound THEN seen' = completion /\ daemon' = "observe" /\ UNCHANGED <<mark, clock, verdict>>
     ELSE Returns
  /\ UNCHANGED <<chain, workerVars, bound, now, child, cancel, slot, crashes>>

\* discover and observe: the supervisor's records are read first.
ReadRecords ==
  /\ daemon = "read"
  /\ IF bound THEN seen' = completion /\ daemon' = "observe" /\ UNCHANGED <<mark, clock, verdict>>
     ELSE Concludes("Lost")
  /\ UNCHANGED <<chain, workerVars, bound, now, child, cancel, slot, crashes>>

\* Mutant: an accepted cancellation does not outrank a later exit.
ExitedPlain(c) ==
  IF c.at > clock THEN Returns
  ELSE Concludes(IF c.code = 0 /\ artifact /\ c.at <= Deadline THEN "Succeeded" ELSE "Failed")

\* The exit c of the worker: an exit since a cancellation is cancelled, one
\* from this tick's future is left to the next, else finish_exit decides.
Exited(c) ==
  IF Latest(mark) \in Cancelling /\ c.at >= chain[mark].at THEN Concludes("Cancelled")
  ELSE IF c.at > clock THEN Returns
  ELSE Concludes(IF c.code = 0 /\ artifact /\ c.at <= Deadline THEN "Succeeded" ELSE "Failed")

\* The heartbeat budget is not used up.
HeartbeatLeft == HeartbeatCount(mark) < MaxHeartbeats

\* The worker is alive: kill it, wait, or record a receipt.
ObservedAlive ==
  LET last == LastObserved(mark) IN
  IF \/ Latest(mark) \in Cancelling
     \/ clock >= Deadline
     \/ HasIdentity(mark) /\ clock - last > Timeout
  THEN daemon' = "kill" /\ verdict' = "Cancelled" /\ UNCHANGED readVars
  ELSE IF HasIdentity(mark) /\ clock - last < Interval THEN Returns
  ELSE IF ~HeartbeatLeft THEN daemon' = "kill" /\ verdict' = "HeartbeatLimit" /\ UNCHANGED readVars
  ELSE Concludes(IF HasIdentity(mark) THEN "Heartbeat" ELSE "Running")

\* Mutant: the record written on behalf of a silent worker replaces its own.
ReapOver ==
  /\ daemon = "observe" /\ child /\ ~Alive
  /\ completion' = IF seen = NoCompletion THEN [code |-> 1, at |-> now] ELSE seen
  /\ child' = FALSE /\ Exited(completion')
  /\ UNCHANGED <<chain, worker, artifact, bound, now, cancel, slot, crashes>>

\* The daemon's own child has exited: a completion it had not read is put on
\* its behalf, which conflicts with one the worker wrote meanwhile.
Reap ==
  /\ daemon = "observe" /\ child /\ ~Alive
  /\ LET c == IF seen = NoCompletion THEN [code |-> 1, at |-> now] ELSE seen IN
     \/ completion \in {NoCompletion, c} /\ completion' = c /\ child' = FALSE /\ Exited(c)
     \/ completion \notin {NoCompletion, c} /\ Returns /\ UNCHANGED <<completion, child>>
  /\ UNCHANGED <<chain, worker, artifact, bound, now, cancel, slot, crashes>>

\* A living worker, or one that is not the daemon's child.
Observe ==
  /\ daemon = "observe" /\ (Alive \/ ~child)
  /\ \/ Alive /\ ObservedAlive
     \/ ~Alive /\ seen # NoCompletion /\ Exited(seen)
     \/ ~Alive /\ seen = NoCompletion /\ Concludes("Lost")
  /\ UNCHANGED <<chain, workerVars, bound, now, child, cancel, slot, crashes>>

\* The liveness of a worker that is not a child cannot be determined.
ObserveFails ==
  /\ daemon = "observe" /\ ~child /\ Returns
  /\ UNCHANGED <<chain, workerVars, bound, now, child, cancel, slot, crashes>>

\* cancel_typed_worker: the tree is killed, has gone, or its end is unknown.
Kill ==
  /\ daemon = "kill"
  /\ \/ Alive /\ worker' = "dead" /\ child' = FALSE /\ UNCHANGED verdict
     \/ verdict' = "CancellationUncertain" /\ UNCHANGED <<worker, child>>
  /\ daemon' = "record"
  /\ UNCHANGED <<chain, artifact, completion, bound, now, mark, clock, seen, cancel, slot, crashes>>

\* The receipt of the verdict; the launch time goes with a recovered identity.
Record ==
  /\ daemon = "record" /\ Returns
  /\ Put(mark, verdict, IF verdict = "Running" THEN chain[2].at ELSE clock)
  /\ UNCHANGED <<workerVars, bound, now, child, cancel, crashes>>
  /\ Releases

Daemon ==
  \/ Tick \/ Expire \/ Claim \/ Spawn \/ Bind \/ RecordRunning
  \/ Load \/ ReadRecords \/ Reap \/ Observe \/ Kill \/ Record

-----------------------------------------------------------------------------
(* The worker: parallel_proof_canary_worker_command *)

\* Mutant: the worker starts without the supervisor's receipt.
VerifyNothing ==
  /\ worker = "waiting" /\ worker' = "running"
  /\ UNCHANGED <<chain, artifact, completion, bound, now, daemon, child, localVars, cancel, slot, crashes>>

\* verify_canary_worker_authority: it waits for the receipt, for a while.
Verify ==
  /\ worker = "waiting"
  /\ worker' = IF bound THEN "running" ELSE "dead"
  /\ UNCHANGED <<chain, artifact, completion, bound, now, daemon, child, localVars, cancel, slot, crashes>>

\* record_artifact, refused without launch custody.
RecordArtifact ==
  /\ worker = "running"
  /\ Latest(Len(chain)) \notin Outcomes \cup {"CancellationRequestedBeforeIdentity"}
  /\ artifact' = TRUE /\ worker' = "recorded"
  /\ UNCHANGED <<chain, completion, bound, now, daemon, child, localVars, cancel, slot, crashes>>

\* record_worker_completion of a success, or of an error at any point.
Complete ==
  /\ \/ worker = "recorded" /\ completion' = [code |-> 0, at |-> now]
     \/ worker \in {"running", "recorded"} /\ completion' = [code |-> 1, at |-> now]
  /\ worker' = "exiting"
  /\ UNCHANGED <<chain, artifact, bound, now, daemon, child, localVars, cancel, slot, crashes>>

Exit ==
  /\ worker = "exiting" /\ worker' = IF completion.code = 0 THEN "done" ELSE "dead"
  /\ UNCHANGED <<chain, artifact, completion, bound, now, daemon, child, localVars, cancel, slot, crashes>>

WorkerDies ==
  /\ worker \in {"running", "recorded"} /\ worker' = "dead"
  /\ UNCHANGED <<chain, artifact, completion, bound, now, daemon, child, localVars, cancel, slot, crashes>>

-----------------------------------------------------------------------------
(* request_cancel from the command line *)

Goes(r, pc)  == cancel' = [cancel EXCEPT ![r].pc = pc]
Keeps(r, pc) == cancel' = [cancel EXCEPT ![r].pc = pc, ![r].mark = Len(chain)]
notCancel    == <<workerVars, bound, now, daemon, child, localVars, slot, crashes>>

CancelBegin(r) ==
  /\ cancel[r].pc = "idle" /\ chain # <<>>
  /\ cancel' = [cancel EXCEPT ![r].pc = "first", ![r].at = now]
  /\ UNCHANGED <<chain, notCancel>>

\* The first load of request_cancel_once.
CancelFirst(r) ==
  /\ cancel[r].pc = "first"
  /\ Goes(r, CASE Latest(Len(chain)) = "CancelledBeforeLaunch" -> "ok"
               [] Latest(Len(chain)) \in Outcomes \ {"CancelledBeforeLaunch"} -> "lost"
               [] Latest(Len(chain)) = "Prepared" -> "early"
               [] OTHER -> "second")
  /\ UNCHANGED <<chain, notCancel>>

\* Before the launch the cancellation competes with the launch claim.
CancelEarly(r) ==
  /\ cancel[r].pc = "early"
  /\ Put(1, "CancelledBeforeLaunch", cancel[r].at)
  /\ Goes(r, IF chain'[2] = Receipt("CancelledBeforeLaunch", cancel[r].at) THEN "ok" ELSE "second")
  /\ UNCHANGED notCancel

\* What is left of the attempts after a conflict.
Retry(r) ==
  cancel' = [cancel EXCEPT ![r].tries = @ + 1,
                           ![r].pc = IF cancel[r].tries + 1 < MaxTries
                                     THEN "first" ELSE "conflict"]

\* The second load: one's own request is found, another's conflicts.
CancelSecond(r) ==
  /\ cancel[r].pc = "second"
  /\ \/ /\ Latest(Len(chain)) \in Cancelling
        /\ IF chain[Len(chain)].at = cancel[r].at THEN Goes(r, "ok") ELSE Retry(r)
     \/ Terminal(Len(chain)) /\ Goes(r, "lost")
     \/ /\ Latest(Len(chain)) \notin Cancelling \cup Outcomes
        /\ IF cancel[r].at < LastObserved(Len(chain)) THEN Goes(r, "refused") ELSE Keeps(r, "put")
  /\ UNCHANGED <<chain, notCancel>>

\* The request competes with the daemon's next receipt.
CancelPut(r) ==
  /\ cancel[r].pc = "put"
  /\ LET kind == IF HasIdentity(cancel[r].mark) THEN "CancellationRequested"
                 ELSE "CancellationRequestedBeforeIdentity" IN
     /\ Put(cancel[r].mark, kind, cancel[r].at)
     /\ IF chain'[Len(chain')] = Receipt(kind, cancel[r].at) THEN Goes(r, "ok")
        ELSE IF Terminal(Len(chain)) THEN Goes(r, "lost")
        ELSE Retry(r)
  /\ UNCHANGED notCancel

Cancel(r) ==
  CancelBegin(r) \/ CancelFirst(r) \/ CancelEarly(r) \/ CancelSecond(r) \/ CancelPut(r)

-----------------------------------------------------------------------------
(* The slot and the clock. *)

\* Between two ticks a queued job, an audit or another canary takes the free slot
\* or leaves it, and the job's own claim lapses when it is not renewed; a tick is
\* shorter than the lifetime of the claim it has just renewed.
SlotMoves ==
  /\ daemon = "idle"
  /\ \/ slot = "free" /\ slot' = "other"
     \/ slot # "free" /\ slot' = "free"
  /\ UNCHANGED <<chain, workerVars, bound, now, daemon, child, localVars, cancel, crashes>>

Advance ==
  /\ now < MaxNow /\ now' = now + 1
  /\ UNCHANGED <<chain, workerVars, bound, daemon, child, localVars, cancel, slot, crashes>>

\* The daemon stops and is started again; workers go on.
Crash ==
  /\ crashes < MaxCrashes /\ crashes' = crashes + 1
  /\ Returns /\ child' = FALSE
  /\ UNCHANGED <<chain, workerVars, bound, now, cancel, slot>>

Init ==
  /\ chain = <<>> /\ artifact = FALSE /\ bound = FALSE /\ completion = NoCompletion
  /\ worker = "none" /\ now = 0
  /\ daemon = "idle" /\ child = FALSE /\ mark = 0 /\ clock = 0 /\ seen = NoCompletion
  /\ verdict = None
  /\ cancel = [r \in Requests |-> [pc |-> "idle", at |-> 0, mark |-> 0, tries |-> 0]]
  /\ slot = "free" /\ crashes = 0

Next ==
  \/ Submit \/ Daemon \/ ObserveFails
  \/ Verify \/ RecordArtifact \/ Complete \/ Exit \/ WorkerDies
  \/ \E r \in Requests : Cancel(r)
  \/ SlotMoves \/ Advance \/ Crash

Spec == Init /\ [][Next]_vars

\* The daemon ticks and time passes; a worker whose liveness is unknown is not
\* unknown for ever.  Nothing is asked of the worker, of cancel commands or of
\* the other owners of the slot.
Fairness == WF_vars(Daemon) /\ SF_vars(Observe) /\ WF_vars(Advance)

FairSpec == Spec /\ Fairness

-----------------------------------------------------------------------------
(* Properties *)

TypeOK ==
  /\ chain \in Seq([kind : Kinds, at : 0..MaxNow])
  /\ artifact \in BOOLEAN /\ bound \in BOOLEAN /\ child \in BOOLEAN
  /\ {completion, seen} \subseteq [code : -1..1, at : 0..MaxNow]
  /\ worker \in {"none", "waiting", "running", "recorded", "exiting", "done", "dead"}
  /\ now \in 0..MaxNow /\ clock \in 0..now /\ mark \in 0..Len(chain)
  /\ daemon \in {"idle", "expire", "claim", "launch", "spawned", "bound", "reconcile", "read",
                 "observe", "kill", "record"}
  /\ verdict \in Kinds \cup {None}
  /\ cancel \in [Requests -> [pc : {"idle", "first", "early", "second", "put", "ok", "lost",
                                   "refused", "conflict"},
                              at : 0..MaxNow, mark : 0..Len(chain), tries : 0..MaxTries]]
  /\ slot \in {"free", "mine", "other"}
  /\ crashes \in 0..MaxCrashes

Outcome == IF Terminal(Len(chain)) THEN Latest(Len(chain)) ELSE None

\* No writer is stopped by the validation it shares with every reader: what
\* daemon and commands append, from the state and the time each has read, is
\* always a chain that load accepts.
ChainLoads ==
  \A i \in 1..(Len(chain) - 1) : Follows(chain[i], chain[i + 1])

\* The chain never outgrows what load_receipt_chain accepts, so a job cannot
\* become unreadable: heartbeats stop at their limit, whoever cancels then.
ChainBounded == Len(chain) <= MaxHeartbeats + 5

\* The operation is dispatched at most once, through crashes at any point of
\* the launch (module comment: reconciliation "never redispatches").
LaunchedOnce == daemon = "launch" => worker = "none"

\* A cancellation that won against the launch claim leaves nothing running
\* (durable_prelaunch_cancellation_wins_without_spawning).
CancelledUnlaunched == Outcome = "CancelledBeforeLaunch" => worker = "none"

\* A cancel command that reported success is never followed by a certified
\* success, unless the worker had finished before the request.
CancelHonoured ==
  \A r \in Requests :
    cancel[r].pc = "ok" /\ Outcome = "Succeeded" => completion.at < cancel[r].at

\* Once a job is terminal no worker of it does anything, unless the outcome
\* says that its cancellation is uncertain.  It covers a worker spawned just
\* before the daemon crashed, which nobody knows of.
TerminalQuiet ==
  Outcome \notin {None, "CancellationUncertain"}
    => worker \notin {"running", "recorded", "exiting"}

\* A success has its completion, its stored artifact and its time.
SuccessProven ==
  Outcome = "Succeeded" => completion.code = 0 /\ artifact /\ completion.at <= Deadline

\* Every submitted job becomes terminal, even if its worker hangs, the daemon
\* crashes between any two writes and its claim lapses, once the slot is left to
\* it: ticks pass the job over while another owner has the slot
\* (claim_or_heartbeat returns false), and a queue that is never empty may take
\* it back in the tick in which it frees it.
JobEnds == <>[](slot # "other") => (chain # <<>> ~> Terminal(Len(chain)))

\* A worker that ended with a recorded success, before the deadline and before
\* any cancellation was requested, is certified, or was not seen to end by a
\* daemon that tried to kill it: neither the record the daemon writes for a silent
\* child nor a later cancellation erases its exit
\* (cancellation_cannot_erase_an_earlier_authenticated_exit).  Only a daemon that
\* was restarted may take it for lost: it reads the completion before it probes a
\* process that is not its child.
ExitNotErased ==
  worker = "done" /\ completion.at < Deadline
    /\ (\A i \in 1..Len(chain) : Latest(i) \in Cancelling => chain[i].at > completion.at)
  => Outcome \in {None, "Succeeded", "CancellationUncertain"} \/ (crashes > 0 /\ Outcome = "Lost")

\* The receipt chain tells the truth of the job, whoever wrote it and however
\* late: every reader can load it, and the outcome it ends in is one the worker's
\* records bear out.
ReceiptsTrue ==
  TypeOK /\ ChainLoads /\ ChainBounded /\ SuccessProven /\ CancelledUnlaunched /\ ExitNotErased
=============================================================================
