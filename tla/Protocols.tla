------------------------------ MODULE Protocols ------------------------------
(***************************************************************************)
(* The protocols around the state files, side by side: a behaviour is one  *)
(* of the subject that its initial state chooses; the variables of the     *)
(* others keep their initial values, in which nothing of theirs is under   *)
(* way and no fairness asks for a step.                                    *)
(***************************************************************************)
EXTENDS Integers, FiniteSets

CONSTANTS
  Subjects,                                     \* the subjects of this run
  Procs, Keys, Vals, Faults,                    \* replacements, puts and their records
  Threads, GuardOf, Audits, Depth, Impatient,   \* of the writer domain
  DomainLine,                                   \* its actors, in some order
  Repo, Proc, Updates, ShipKills, OldBinaries,  \* of the ship-state files
  RecoveryJobs, Submits, Losses, RecoveryDeaths, RecoveryOutages,
  DrainJobs, DrainSlots, DrainWorkers, DrainKept, DrainDeaths, DrainCases,
  DrainPriorities, DrainLanes

VARIABLE subject

-----------------------------------------------------------------------------
(* durable_file.rs *)

VARIABLES dir, renamed, synced, flushed, torn, promised, filePc

File == INSTANCE DurableFile WITH pc <- filePc

-----------------------------------------------------------------------------
(* immutable_store.rs and the store of parallel_proof.rs *)

VARIABLES names, disk, pending, lock, storePc, args, seen, told

Bytes == INSTANCE ImmutableStore WITH
  pc <- storePc, SyncOnReplay <- FALSE, Reconciles <- TRUE
Proofs == INSTANCE ImmutableStore WITH
  pc <- storePc, SyncOnReplay <- TRUE, Reconciles <- FALSE

-----------------------------------------------------------------------------
(* writer_domain_lease.rs *)

VARIABLES turn, shared, excl, domainPc, depth

Domain == INSTANCE WriterDomain WITH
  MaxDepth <- Depth, pc <- domainPc

-----------------------------------------------------------------------------
(* ship_state.rs *)

VARIABLES scoped, legacy, marker, sharers, owner, compat, proc, update, saved, removed,
          used, older, crashes

ShipState == INSTANCE ShipStateStore WITH
  MaxUpdates <- Updates, MaxCrashes <- ShipKills, NoProc <- "none", NoRepo <- "none", next <- update

-----------------------------------------------------------------------------
(* queue_absent_recovery.rs *)

VARIABLES rows, envelopes, stored, receipts, process, ship, drifted, record, plock,
          wlock, rec, next, copies, losses, kills

Absent == INSTANCE QueueAbsentRecovery WITH
  MaxJobs <- RecoveryJobs, MaxSubmits <- Submits, MaxLosses <- Losses,
  MaxDeaths <- RecoveryDeaths, Outages <- RecoveryOutages, outcomes <- stored, worker <- process, deaths <- kills

-----------------------------------------------------------------------------
(* The foreground drain of ship.rs *)

VARIABLES setup, jobs, outcomes, drain, cmd, plan, failed, worker, copy, deaths, unsaved

Drain == INSTANCE ForegroundDrain WITH
  MaxJobs <- DrainJobs, Target <- {"t"}, Priority <- DrainPriorities, Proof <- {}, NoProof <- "no-proof",
  LaneOf <- DrainLanes, KeepCompleted <- DrainKept, Setups <- DrainCases,
  Slots <- DrainSlots, MaxWorkers <- DrainWorkers, MaxDeaths <- DrainDeaths

-----------------------------------------------------------------------------
fileVars   == <<dir, renamed, synced, flushed, torn, promised, filePc>>
storeVars  == <<names, disk, pending, lock, storePc, args, seen, told>>
domainVars == <<turn, shared, excl, domainPc, depth>>
shipVars   == <<scoped, legacy, marker, sharers, owner, compat, proc, update, saved, removed,
                used, older, crashes>>
absentVars == <<rows, envelopes, stored, receipts, process, ship, drifted, record, plock,
                wlock, rec, next, copies, losses, kills>>
drainVars  == <<setup, jobs, outcomes, drain, cmd, plan, failed, worker, copy, deaths, unsaved>>
vars == <<subject, fileVars, storeVars, domainVars, shipVars, absentVars, drainVars>>

ASSUME Assumptions ==
  /\ Bytes!ImmutableAssumption /\ Proofs!ImmutableAssumption /\ Domain!DomainAssumption
  /\ ShipState!ShipStateAssumption /\ Absent!RecoveryAssumption /\ Drain!DrainAssumption

Init ==
  /\ subject \in Subjects
  /\ File!Init /\ Domain!Init /\ ShipState!Init /\ Absent!Init
  /\ Bytes!Init /\ Drain!Init
  /\ subject # "file" => dir = "durable"
  /\ subject # "drain" => setup = CHOOSE s \in DrainCases : TRUE

\* What a step of each subject leaves alone.
FileOnly == UNCHANGED <<subject, storeVars, domainVars, shipVars, absentVars, drainVars>>
BytesOnly == UNCHANGED <<subject, fileVars, domainVars, shipVars, absentVars, drainVars>>
ProofsOnly == UNCHANGED <<subject, fileVars, domainVars, shipVars, absentVars, drainVars>>
DomainOnly == UNCHANGED <<subject, fileVars, storeVars, shipVars, absentVars, drainVars>>
ShipOnly == UNCHANGED <<subject, fileVars, storeVars, domainVars, absentVars, drainVars>>
AbsentOnly == UNCHANGED <<subject, fileVars, storeVars, domainVars, shipVars, drainVars>>
DrainOnly == UNCHANGED <<subject, fileVars, storeVars, domainVars, shipVars, absentVars>>

Next ==
  \/ subject = "file" /\ File!Next /\ FileOnly
  \/ subject = "bytes" /\ Bytes!Next /\ BytesOnly
  \/ subject = "proofs" /\ Proofs!Next /\ ProofsOnly
  \/ subject = "domain" /\ Domain!Next /\ DomainOnly
  \/ subject = "ship_state" /\ ShipState!Next /\ ShipOnly
  \/ subject = "absent" /\ Absent!Next /\ AbsentOnly
  \/ subject = "drain" /\ Drain!Next /\ DrainOnly

Spec == Init /\ [][Next]_vars

Nth(n, s, A(_)) == n \in DOMAIN s /\ A(s[n])

\* The n-th process of the subject.  The subjects share their conditions of
\* strong fairness: in a behaviour of one, the steps of the others are disabled.
Retries(n) ==
  \/ subject = "domain" /\ Nth(n, DomainLine, Domain!Retries) /\ DomainOnly
  \/ subject = "absent" /\ n \in 1..RecoveryJobs + 1 /\ Absent!Retries(n) /\ AbsentOnly
  \/ subject = "drain" /\ Nth(n, <<1, 2>>, Drain!Retries) /\ UNCHANGED setup /\ DrainOnly
  \/ subject = "drain" /\ Nth(n - 2, <<1, 2>>, Drain!WorkerResult) /\ UNCHANGED setup /\ DrainOnly

GoesOn(n) ==
  \/ subject = "domain" /\ Nth(n, DomainLine, Domain!GoesOn) /\ DomainOnly
  \/ subject = "absent" /\ n \in 1..RecoveryJobs /\ Absent!GoesOn(n) /\ AbsentOnly
  \/ subject = "drain" /\ Nth(n, <<1, 2>>, Drain!Command) /\ UNCHANGED setup /\ DrainOnly
  \/ subject = "drain" /\ Nth(n - 2, <<1, 2>>, Drain!Thread) /\ UNCHANGED setup /\ DrainOnly

Runs(n) ==
  \/ subject = "absent" /\ n \in 1..RecoveryJobs /\ Absent!Worker(n) /\ AbsentOnly
  \/ subject = "drain" /\ Nth(n, <<1, 2>>, Drain!WorkerNotice) /\ UNCHANGED setup /\ DrainOnly
  \/ subject = "drain" /\ Nth(n - 2, <<1, 2>>, Drain!Return) /\ UNCHANGED setup /\ DrainOnly

Elsewhere(n) ==
  \/ subject = "absent" /\ n = 1 /\ Absent!Supervisor /\ AbsentOnly
  \/ subject = "absent" /\ n = 2 /\ Absent!Recovery /\ AbsentOnly
  \/ subject = "drain" /\ Nth(n, <<1, 2>>, Drain!DaemonEnd) /\ UNCHANGED setup /\ DrainOnly
  \/ subject = "drain" /\ Nth(n - 2, <<1, 2>>, Drain!Silence) /\ UNCHANGED setup /\ DrainOnly

\* The fairness of WriterDomain, QueueAbsentRecovery and ForegroundDrain.
Fairness ==
  /\ \A n \in 1..RecoveryJobs + 1 : SF_vars(Retries(n))
  /\ \A n \in 1..4 : WF_vars(GoesOn(n)) /\ WF_vars(Runs(n)) /\ WF_vars(Elsewhere(n))

FairSpec == Spec /\ Fairness

-----------------------------------------------------------------------------
(* Properties: each is about the behaviours of its own subject. *)

\* Replacement of a file is atomic and durable (durable_file.rs).
FileSafe == File!FileSafe

\* A record that a caller was told of after a sync survives every crash and is
\* never another: both stores implement WriteOnce (immutable_store.rs,
\* parallel_proof.rs).
KeepsPromise == Bytes!KeepsPromise

\* Audits and mutations exclude each other, and neither cuts the other short
\* (writer_domain_lease.rs).
DomainSafe == Domain!DomainSafe

\* Nobody is starved at the turnstile, and no audit, command and guardian wait for
\* each other in a circle (writer_domain_lease.rs, app/update_cmd.rs).
EveryoneEnters == Domain!EveryoneEnters

\* No update of a ship state is lost, and nothing that was removed returns
\* (ship_state.rs).
ShipStateSafe == ShipState!ShipStateSafe

\* The three locks of the ship-state files are never waited for in a circle.
OneGoesOn == ShipState!OneGoesOn

\* The work of an absent job is queued again at most once, and only when nobody
\* else has it or has done it (queue_absent_recovery.rs).
RecoverySafe == Absent!RecoverySafe

\* A ship in flight without an owner gets a job or a verdict, or is handed to
\* an agent.
Answered == Absent!Answered

\* Passes planned over a snapshot never let two running jobs share a claim or a
\* pull request or overcommit the host pool, and completed jobs have outcomes
\* (ship.rs, queue_scheduler.rs).
DrainSafe == Drain!DrainSafe

\* The drain leaves daemon jobs, and an awaited-only drain all other jobs, alone.
DrainScoped == Drain!DrainScoped

\* Every command that was queued ends: with its job's outcome or an error.
CommandReturns == Drain!CommandReturns
=============================================================================
