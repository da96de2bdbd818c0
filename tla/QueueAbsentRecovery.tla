------------------------- MODULE QueueAbsentRecovery -------------------------
(***************************************************************************)
(* Recovery of a ship whose job has fallen out of queue.json               *)
(* (queue_absent_recovery.rs), for one pull request: the recovery thread   *)
(* of the daemon next to submitters, the supervisor, workers and sweeps.   *)
(* Every job here is a ship of that pull request at the stored head, so    *)
(* identity checks that compare repository, branch and head are true until *)
(* the live pull request drifts.  Job numbers are creation order.          *)
(***************************************************************************)
EXTENDS Naturals, FiniteSets

CONSTANTS MaxJobs,    \* bound: jobs ever created, replacements included
          MaxSubmits, \* bound: job numbers submitters may take
          MaxLosses,  \* bound: how often queue.json is lost
          MaxDeaths,  \* bound: workers, submitters and daemons killed
          Outages     \* may an authority (GitHub, checkout, auth) be unavailable?

RecoveryAssumption ==
  MaxJobs \in Nat /\ MaxSubmits \in 0 .. MaxJobs /\ MaxLosses \in Nat /\ MaxDeaths \in Nat /\ Outages \in BOOLEAN

Job == 1 .. MaxJobs
None == 0
Rec == MaxJobs + 1      \* the recovery thread, as a lock holder

VARIABLES
  rows,      \* queue.json: job -> "absent", "pending", "running", "ended"
  envelopes, outcomes, receipts,   \* the jobs with such a file
  worker,    \* the process of each job
  ship,      \* ship state: owning job (None: no state), terminal verdict reached
  drifted,   \* the live pull request is no longer at the stored identity
  record,    \* the recovery claim
  plock,     \* holder of the pull request's state lock
  wlock,     \* holder of the workload admission lock
  rec,       \* the recovery thread: step, rows it read, claim it read, source
  next,      \* the next job number
  copies,    \* history: the replacements queued for each job
  losses, deaths

vars == <<rows, envelopes, outcomes, receipts, worker, ship, drifted, record,
          plock, wlock, rec, next, copies, losses, deaths>>

Live == {j \in Job : rows[j] \in {"pending", "running"}}
Alive == {j \in Job : worker[j] # "none"}

NoRecord == [status |-> "none", source |-> None, replacement |-> None]
Idle == [pc |-> "idle", seen |-> [j \in Job |-> "absent"], existing |-> NoRecord, source |-> None]

\* record_matches_state: the claim speaks of the job that owns the ship state.
Matches(r) ==
  r.status # "none" /\ (ship.source = r.source \/ (r.replacement # None /\ ship.source = r.replacement))

-----------------------------------------------------------------------------
(* Submitters: check, envelope and enqueue under the workload lock. *)

SubmitCheck ==
  /\ wlock = None /\ next \in 1 .. MaxSubmits
  /\ \A j \in Job : rows[j] = "running" => j \notin envelopes
  /\ wlock' = next /\ next' = next + 1
  /\ UNCHANGED <<rows, envelopes, outcomes, receipts, worker, ship, drifted, record, plock, rec, copies, losses, deaths>>

SubmitSave(j) ==
  /\ wlock = j /\ j \notin envelopes
  /\ envelopes' = envelopes \cup {j}
  /\ UNCHANGED <<rows, outcomes, receipts, worker, ship, drifted, record, plock, wlock, rec, next, copies, losses, deaths>>

\* Pending jobs of the workload are superseded.
SubmitEnqueue(j) ==
  /\ wlock = j /\ j \in envelopes
  /\ rows' = [i \in Job |-> IF i = j THEN "pending" ELSE IF rows[i] = "pending" THEN "ended" ELSE rows[i]]
  /\ wlock' = None
  /\ UNCHANGED <<envelopes, outcomes, receipts, worker, ship, drifted, record, plock, rec, next, copies, losses, deaths>>

SubmitDie(j) ==
  /\ wlock = j /\ deaths < MaxDeaths
  /\ wlock' = None /\ deaths' = deaths + 1
  /\ UNCHANGED <<rows, envelopes, outcomes, receipts, worker, ship, drifted, record, plock, rec, next, copies, losses>>

-----------------------------------------------------------------------------
(* The supervisor, as far as recovery depends on it. *)

\* One running ship of a pull request; its worker is started with a receipt.
Launch(j) ==
  /\ rows[j] = "pending" /\ j \in envelopes /\ \A i \in Job : rows[i] # "running"
  /\ rows' = [rows EXCEPT ![j] = "running"]
  /\ receipts' = receipts \cup {j} /\ worker' = [worker EXCEPT ![j] = "spawned"]
  /\ UNCHANGED <<envelopes, outcomes, ship, drifted, record, plock, wlock, rec, next, copies, losses, deaths>>

\* A running job whose worker is gone ends as uncertain.
EndLost(j) ==
  /\ rows[j] = "running" /\ worker[j] = "none"
  /\ rows' = [rows EXCEPT ![j] = "ended"]
  /\ UNCHANGED <<envelopes, outcomes, receipts, worker, ship, drifted, record, plock, wlock, rec, next, copies, losses, deaths>>

\* reconcile_terminal_outcomes
RepairOutcome(j) ==
  /\ rows[j] = "ended" /\ j \in envelopes \ outcomes
  /\ outcomes' = outcomes \cup {j}
  /\ UNCHANGED <<rows, envelopes, receipts, worker, ship, drifted, record, plock, wlock, rec, next, copies, losses, deaths>>

\* sweep_terminal_receipts: not while a recovery is in flight.
SweepReceipt(j) ==
  /\ j \in receipts /\ worker[j] = "none" /\ rows[j] # "running" /\ rec.pc = "idle"
  /\ receipts' = receipts \ {j}
  /\ UNCHANGED <<rows, envelopes, outcomes, worker, ship, drifted, record, plock, wlock, rec, next, copies, losses, deaths>>

-----------------------------------------------------------------------------
(* Workers hold the pull request's lock for their entire run. *)

Works(j, at) == worker' = [worker EXCEPT ![j] = at]

\* The row is read once before the lock is waited for.
WorkerRead(j) ==
  /\ worker[j] = "spawned"
  /\ Works(j, IF rows[j] = "running" THEN "waiting" ELSE "none")
  /\ UNCHANGED <<rows, envelopes, outcomes, receipts, ship, drifted, record, plock, wlock, rec, next, copies, losses, deaths>>

WorkerBegin(j) ==
  /\ worker[j] = "waiting" /\ plock = None
  /\ plock' = j /\ Works(j, "running") /\ ship' = [ship EXCEPT !.source = j]
  /\ UNCHANGED <<rows, envelopes, outcomes, receipts, drifted, record, wlock, rec, next, copies, losses, deaths>>

\* Writes of a worker whose row is gone fail: it ends without an outcome.
WorkerLost(j) ==
  /\ worker[j] = "running" /\ rows[j] = "absent"
  /\ plock' = None /\ Works(j, "none")
  /\ UNCHANGED <<rows, envelopes, outcomes, receipts, ship, drifted, record, wlock, rec, next, copies, losses, deaths>>

\* Ship state, outcome and row are written in this order.
WorkerVerdict(j) ==
  /\ worker[j] = "running"
  /\ ship' = [ship EXCEPT !.done = TRUE] /\ Works(j, "verdict")
  /\ UNCHANGED <<rows, envelopes, outcomes, receipts, drifted, record, plock, wlock, rec, next, copies, losses, deaths>>

WorkerOutcome(j) ==
  /\ worker[j] = "verdict"
  /\ outcomes' = outcomes \cup {j} /\ Works(j, "stored")
  /\ UNCHANGED <<rows, envelopes, receipts, ship, drifted, record, plock, wlock, rec, next, copies, losses, deaths>>

WorkerEnd(j) ==
  /\ worker[j] = "stored"
  /\ rows' = [rows EXCEPT ![j] = IF @ = "absent" THEN @ ELSE "ended"]
  /\ plock' = None /\ Works(j, "none")
  /\ UNCHANGED <<envelopes, outcomes, receipts, ship, drifted, record, wlock, rec, next, copies, losses, deaths>>

WorkerDie(j) ==
  /\ j \in Alive /\ deaths < MaxDeaths
  /\ plock' = IF plock = j THEN None ELSE plock
  /\ Works(j, "none") /\ deaths' = deaths + 1
  /\ UNCHANGED <<rows, envelopes, outcomes, receipts, ship, drifted, record, wlock, rec, next, copies, losses>>

-----------------------------------------------------------------------------
(* queue.json is lost, envelopes are swept, the pull request moves. *)

LoseQueue ==
  /\ losses < MaxLosses /\ losses' = losses + 1
  /\ rows' = [j \in Job |-> "absent"]
  /\ UNCHANGED <<envelopes, outcomes, receipts, worker, ship, drifted, record, plock, wlock, rec, next, copies, deaths>>

\* sweep_absent_queue_envelopes: those of a ship in flight are protected.
SweepEnvelope(j) ==
  /\ j \in envelopes /\ rows[j] = "absent" /\ wlock # j
  /\ ship.source = None \/ ship.done
  /\ envelopes' = envelopes \ {j} /\ outcomes' = outcomes \ {j}
  /\ UNCHANGED <<rows, receipts, worker, ship, drifted, record, plock, wlock, rec, next, copies, losses, deaths>>

Drift ==
  /\ ~drifted /\ drifted' = TRUE
  /\ UNCHANGED <<rows, envelopes, outcomes, receipts, worker, ship, record, plock, wlock, rec, next, copies, losses, deaths>>

-----------------------------------------------------------------------------
(* The recovery thread. *)

\* The thread lets go of both locks.
Ends == rec' = Idle /\ plock' = None /\ wlock' = IF wlock = Rec THEN None ELSE wlock

\* Mutant: a refusal leaves no receipt.
NoFence == record' = record

\* save_needs_agent
Fence ==
  record' = IF Matches(record) THEN [record EXCEPT !.status = "needs_agent"]
            ELSE [status |-> "needs_agent", source |-> ship.source, replacement |-> None]

RecLock ==
  /\ rec.pc = "idle" /\ plock = None /\ ship.source # None /\ ~ship.done
  /\ plock' = Rec /\ rec' = [Idle EXCEPT !.pc = "locked"]
  /\ UNCHANGED <<rows, envelopes, outcomes, receipts, worker, ship, drifted, record, wlock, next, copies, losses, deaths>>

\* recover_locked reads the queue and the claim first, under the workload lock.
RecRead ==
  /\ rec.pc = "locked" /\ wlock = None
  /\ wlock' = Rec
  /\ LET existing == IF Matches(record) THEN record ELSE NoRecord
     IN rec' = [pc |-> "read", seen |-> rows, existing |-> existing,
                source |-> IF existing = NoRecord THEN ship.source ELSE existing.source]
  /\ UNCHANGED <<rows, envelopes, outcomes, receipts, worker, ship, drifted, record, plock, next, copies, losses, deaths>>

SeenLive == {j \in Job : rec.seen[j] \in {"pending", "running"}}
SeenEnded == {j \in Job : rec.seen[j] = "ended"}
Newest(S) == CHOOSE j \in S : \A i \in S : i <= j

\* What a claim that was already made asks for.
ClaimVerdict ==
  LET r == rec.existing.replacement
  IN CASE rec.existing.status = "none" -> IF SeenLive # {} THEN "leave" ELSE "look"
       [] rec.existing.status = "needs_agent" -> "leave"
       [] rec.existing.status = "enqueued" ->
            IF r \notin SeenLive THEN "look"
            ELSE IF {rec.source, r} \subseteq envelopes THEN "leave" ELSE "fence"
       [] rec.existing.status = "claimed" ->
            IF rec.source \notin envelopes \/ rec.source \in outcomes THEN "fence"
            ELSE IF r \in outcomes THEN "commit"
            ELSE IF rec.seen[r] = "absent" THEN "look"
            ELSE IF r \in envelopes THEN "commit" ELSE "fence"

\* What the source, other owners and receipts ask for then.
SourceVerdict ==
  LET newer == {j \in SeenEnded \cap envelopes : j > rec.source}
  IN IF rec.source \notin envelopes \/ rec.source \in outcomes \cup SeenEnded THEN "fence"
     ELSE IF SeenLive \cap (envelopes \cup {rec.source}) # {} THEN "leave"
     ELSE IF newer # {} THEN (IF Newest(newer) \in outcomes THEN "leave" ELSE "fence")
     ELSE IF receipts \cap Alive # {} \/ ~ receipts \subseteq envelopes THEN "fence" ELSE "replay"

Verdict == IF ClaimVerdict = "look" THEN SourceVerdict ELSE ClaimVerdict

RecLeave ==
  /\ rec.pc = "read" /\ Verdict = "leave"
  /\ Ends
  /\ UNCHANGED <<rows, envelopes, outcomes, receipts, worker, ship, drifted, record, next, copies, losses, deaths>>

RecFence ==
  /\ rec.pc = "read" /\ Verdict = "fence"
  /\ Fence /\ Ends
  /\ UNCHANGED <<rows, envelopes, outcomes, receipts, worker, ship, drifted, next, copies, losses, deaths>>

\* An earlier thread died between the insertion and the receipt.
RecResume ==
  /\ rec.pc = "read" /\ Verdict = "commit"
  /\ record' = [record EXCEPT !.status = "enqueued"] /\ Ends
  /\ UNCHANGED <<rows, envelopes, outcomes, receipts, worker, ship, drifted, next, copies, losses, deaths>>

\* Receipts of dead workers are retired; the workload lock is let go.
RecChoose ==
  /\ rec.pc = "read" /\ Verdict = "replay"
  /\ receipts' = receipts \cap Alive
  /\ wlock' = None /\ rec' = [rec EXCEPT !.pc = "chosen"]
  /\ UNCHANGED <<rows, envelopes, outcomes, worker, ship, drifted, record, plock, next, copies, losses, deaths>>

\* Checkout, configuration, auth and the live pull request are verified.
RecVerify ==
  /\ rec.pc = "chosen"
  /\ IF drifted THEN Fence /\ Ends ELSE rec' = [rec EXCEPT !.pc = "verified"] /\ UNCHANGED <<record, plock, wlock>>
  /\ UNCHANGED <<rows, envelopes, outcomes, receipts, worker, ship, drifted, next, copies, losses, deaths>>

RecOutage ==
  /\ Outages /\ rec.pc \in {"read", "chosen", "verified", "claimed"}
  /\ Fence /\ Ends
  /\ UNCHANGED <<rows, envelopes, outcomes, receipts, worker, ship, drifted, next, copies, losses, deaths>>

\* claim_and_enqueue: the claim is durable before anything is queued.
RecClaim ==
  /\ rec.pc = "verified" /\ wlock = None /\ rec.existing.status # "enqueued"
  /\ IF rec.existing.status = "claimed" THEN record' = rec.existing /\ next' = next
     ELSE /\ next \in Job /\ next' = next + 1
          /\ record' = [status |-> "claimed", source |-> rec.source, replacement |-> next]
  /\ wlock' = Rec /\ rec' = [rec EXCEPT !.pc = "claimed"]
  /\ UNCHANGED <<rows, envelopes, outcomes, receipts, worker, ship, drifted, plock, copies, losses, deaths>>

\* The generation that was queued before is gone.
RecGone ==
  /\ rec.pc = "verified" /\ wlock = None /\ rec.existing.status = "enqueued"
  /\ Fence /\ Ends
  /\ UNCHANGED <<rows, envelopes, outcomes, receipts, worker, ship, drifted, next, copies, losses, deaths>>

RecEnvelope ==
  /\ rec.pc = "claimed"
  /\ envelopes' = envelopes \cup {record.replacement} /\ rec' = [rec EXCEPT !.pc = "saved"]
  /\ UNCHANGED <<rows, outcomes, receipts, worker, ship, drifted, record, plock, wlock, next, copies, losses, deaths>>

Owners == {j \in Job : j \in Live \/ (rows[j] = "ended" /\ j > rec.source)}

\* Mutant: receipts are not looked at again before the insertion.
InsertUnchecked ==
  /\ rec.pc = "saved" /\ (rows[record.replacement] # "absent" \/ Owners = {})
  /\ rows' = [rows EXCEPT ![record.replacement] = IF @ = "absent" THEN "pending" ELSE @]
  /\ copies' = [copies EXCEPT ![rec.source] = @ \cup {record.replacement}]
  /\ receipts' = receipts \cap Alive /\ rec' = [rec EXCEPT !.pc = "inserted"]
  /\ UNCHANGED <<envelopes, outcomes, worker, ship, drifted, record, plock, wlock, next, losses, deaths>>

\* ensure_no_worker_receipt_locked: a live worker, or a receipt of a job
\* nothing is known about, stands in the way.
Receipted ==
  receipts \cap Alive # {} \/ ~ receipts \subseteq envelopes \cup {rec.source, record.replacement}

\* enqueue_recovery_if_unowned, under the worker receipts' lock.
RecInsert ==
  /\ rec.pc = "saved" /\ ~Receipted
  /\ rows[record.replacement] # "absent" \/ Owners = {}
  /\ rows' = [rows EXCEPT ![record.replacement] = IF @ = "absent" THEN "pending" ELSE @]
  /\ copies' = [copies EXCEPT ![rec.source] = @ \cup {record.replacement}]
  /\ receipts' = {} /\ rec' = [rec EXCEPT !.pc = "inserted"]
  /\ UNCHANGED <<envelopes, outcomes, worker, ship, drifted, record, plock, wlock, next, losses, deaths>>

\* A worker, or a job that was submitted meanwhile, owns the pull request.
RecBeaten ==
  /\ rec.pc = "saved"
  /\ Receipted \/ (rows[record.replacement] = "absent" /\ Owners # {})
  /\ receipts' = (receipts \cap Alive) \cup (receipts \ (envelopes \cup {rec.source, record.replacement}))
  /\ Fence /\ Ends
  /\ UNCHANGED <<rows, envelopes, outcomes, worker, ship, drifted, next, copies, losses, deaths>>

RecCommit ==
  /\ rec.pc = "inserted"
  /\ record' = [record EXCEPT !.status = "enqueued"] /\ Ends
  /\ UNCHANGED <<rows, envelopes, outcomes, receipts, worker, ship, drifted, next, copies, losses, deaths>>

\* The daemon dies with its thread; workers survive it.
RecDie ==
  /\ rec.pc # "idle" /\ deaths < MaxDeaths
  /\ Ends /\ deaths' = deaths + 1
  /\ UNCHANGED <<rows, envelopes, outcomes, receipts, worker, ship, drifted, record, next, copies, losses>>

-----------------------------------------------------------------------------
Init ==
  /\ rows = [j \in Job |-> "absent"] /\ envelopes = {} /\ outcomes = {} /\ receipts = {}
  /\ worker = [j \in Job |-> "none"] /\ ship = [source |-> None, done |-> FALSE]
  /\ drifted = FALSE /\ record = NoRecord /\ plock = None /\ wlock = None
  /\ rec = Idle /\ next = 1 /\ copies = [j \in Job |-> {}] /\ losses = 0 /\ deaths = 0

Submitter == SubmitCheck \/ \E j \in Job : SubmitSave(j) \/ SubmitEnqueue(j) \/ SubmitDie(j)

Supervisor == \E j \in Job : Launch(j) \/ EndLost(j) \/ RepairOutcome(j) \/ SweepReceipt(j)

Worker(j) ==
  \/ WorkerRead(j) \/ WorkerBegin(j) \/ WorkerLost(j) \/ WorkerVerdict(j)
  \/ WorkerOutcome(j) \/ WorkerEnd(j)

Recovery ==
  \/ RecLock \/ RecRead \/ RecLeave \/ RecFence \/ RecResume \/ RecChoose \/ RecVerify
  \/ RecClaim \/ RecGone \/ RecEnvelope \/ RecInsert \/ RecBeaten \/ RecCommit

World ==
  \/ LoseQueue \/ Drift \/ RecOutage \/ RecDie
  \/ \E j \in Job : SweepEnvelope(j) \/ WorkerDie(j)

Next == Submitter \/ Supervisor \/ (\E j \in Job : Worker(j)) \/ Recovery \/ World

Spec == Init /\ [][Next]_vars

\* The locks are waited for by the recovery thread and by workers.
Retries(p) == IF p = Rec THEN RecLock \/ RecRead ELSE WorkerBegin(p)

\* Submitters that hold the lock go on, workers run, the daemon ticks and its
\* recovery thread runs; nobody has to submit.
GoesOn(j) == SubmitSave(j) \/ SubmitEnqueue(j)

Fairness ==
  /\ WF_vars(Supervisor) /\ WF_vars(Recovery)
  /\ \A j \in Job : WF_vars(GoesOn(j)) /\ WF_vars(Worker(j))
  /\ \A p \in Job \cup {Rec} : SF_vars(Retries(p))

FairSpec == Spec /\ Fairness

-----------------------------------------------------------------------------
(* Properties. *)

TypeOK ==
  /\ rows \in [Job -> {"absent", "pending", "running", "ended"}]
  /\ envelopes \subseteq Job /\ outcomes \subseteq Job /\ receipts \subseteq Job
  /\ worker \in [Job -> {"none", "spawned", "waiting", "running", "verdict", "stored"}]
  /\ ship \in [source : Job \cup {None}, done : BOOLEAN] /\ drifted \in BOOLEAN
  /\ record \in [status : {"none", "claimed", "enqueued", "needs_agent"},
                source : Job \cup {None}, replacement : Job \cup {None}]
  /\ plock \in Job \cup {None, Rec} /\ wlock \in Job \cup {None, Rec}
  /\ next \in 1 .. MaxJobs + 1 /\ losses \in 0 .. MaxLosses /\ deaths \in 0 .. MaxDeaths
  /\ plock = Rec <=> rec.pc # "idle"
  /\ plock \in Job <=> \E j \in Alive : worker[j] \notin {"spawned", "waiting"}

\* When a replacement is queued, nobody else has or had the work: no worker of
\* the pull request lives, no other job of it is queued, and neither the source
\* nor the replacement has ended with an outcome.  Each was checked in an
\* earlier step.
ReplaySafe ==
  [][\A r \in Job : rec.pc = "saved" /\ rows[r] = "absent" /\ rows'[r] = "pending" /\ r = record.replacement
       => Alive = {} /\ Live = {} /\ ~ship.done /\ {rec.source, r} \cap outcomes = {}]_vars

\* A job that fell out of the queue is replaced by one job only, whatever dies
\* or is lost between the claim, the insertion and the receipt.
OneGeneration == \A j \in Job : Cardinality(copies[j]) <= 1

Ownerless == ship.source # None /\ ~ship.done /\ Live = {} /\ Alive = {}
Fenced == Matches(record) /\ record.status = "needs_agent"

\* A ship in flight without an owner gets a job or a verdict, or is handed to
\* an agent; a ship whose newest job ended with an outcome is left to the
\* supervisor.
Answered ==
  Ownerless ~> (~Ownerless \/ Fenced \/ \E j \in outcomes : rows[j] = "ended" /\ j >= ship.source)

\* The work of a job that fell out of the queue is queued again at most once, and
\* only when nobody else has it or has done it.
RecoverySafe == [](TypeOK /\ OneGeneration) /\ ReplaySafe

=============================================================================
