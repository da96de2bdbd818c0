---------------------------- MODULE ImmutableStore ---------------------------
(***************************************************************************)
(* The two record stores that never overwrite: ImmutableByteStore          *)
(* (immutable_store.rs) and ParallelProofStore (parallel_proof.rs).  A put *)
(* locks its key, compares with a record that is there, or writes a        *)
(* pending file, renames it without replacing and syncs the directory.     *)
(* Opening an ImmutableByteStore removes every pending file it finds.      *)
(*                                                                         *)
(* A process is one put or one open.  Names reach the disk when the        *)
(* directory is synced, or whenever the kernel likes.                      *)
(***************************************************************************)
EXTENDS Integers, FiniteSets

CONSTANTS
  Procs,         \* operations, each in a process of its own
  Keys, Vals,
  SyncOnReplay,  \* is the directory synced before AlreadyPresent?
  Reconciles,    \* does opening the store remove pending files?
  Faults         \* may a write, a rename or a sync fail?

None == "none"

ImmutableAssumption ==
  /\ SyncOnReplay \in BOOLEAN /\ Reconciles \in BOOLEAN /\ Faults \in BOOLEAN
  /\ None \notin Procs \cup Keys \cup Vals

VARIABLES
  names,    \* the record each key names
  disk,     \* the record each key names if the machine stops now
  pending,  \* the processes whose pending file exists
  lock,     \* holder of each key's lock file
  pc,       \* what each process does
  args,     \* key and bytes of each put
  seen,     \* pending files an open has yet to remove
  told      \* keys of the puts that were answered after a sync of the directory

vars == <<names, disk, pending, lock, pc, args, seen, told>>

Goes(p, at) == pc' = [pc EXCEPT ![p] = at]

KeyOf(p) == args[p].key
BytesOf(p) == args[p].val

Free(p) == lock' = [k \in Keys |-> IF lock[k] = p THEN None ELSE lock[k]]

\* Created or AlreadyPresent.
Answer(p) ==
  /\ told' = told \cup {KeyOf(p)}
  /\ Goes(p, "answered") /\ Free(p)

\* Any other outcome: the pending file, if any, is removed.
Fail(p) ==
  /\ Goes(p, "failed") /\ Free(p) /\ pending' = pending \ {p}
  /\ UNCHANGED told

-----------------------------------------------------------------------------
(* put *)

Put(p, k, v) ==
  /\ pc[p] = "start"
  /\ args' = [args EXCEPT ![p] = [key |-> k, val |-> v]]
  /\ Goes(p, "lock")
  /\ UNCHANGED <<names, disk, pending, lock, seen, told>>

Lock(p) ==
  /\ pc[p] = "lock" /\ lock[KeyOf(p)] = None
  /\ lock' = [lock EXCEPT ![KeyOf(p)] = p] /\ Goes(p, "check")
  /\ UNCHANGED <<names, disk, pending, args, seen, told>>

\* A record with the same bytes.
Replay(p) ==
  /\ IF SyncOnReplay
     THEN Goes(p, "sync") /\ UNCHANGED <<lock, told>>
     ELSE Goes(p, "answered") /\ Free(p) /\ UNCHANGED told
  /\ UNCHANGED pending

Check(p) ==
  /\ pc[p] = "check"
  /\ \/ names[KeyOf(p)] = None /\ Goes(p, "write") /\ UNCHANGED <<pending, lock, told>>
     \/ names[KeyOf(p)] = BytesOf(p) /\ Replay(p)
     \/ names[KeyOf(p)] \notin {None, BytesOf(p)} /\ Fail(p)
  /\ UNCHANGED <<names, disk, args, seen>>

\* The pending file is created, written and synced.
WritePending(p) ==
  /\ pc[p] = "write"
  /\ pending' = pending \cup {p} /\ Goes(p, "rename")
  /\ UNCHANGED <<names, disk, lock, args, seen, told>>

\* Mutant: the caller is answered before the directory is synced.
RenameAnswer(p) ==
  /\ pc[p] = "rename" /\ p \in pending /\ names[KeyOf(p)] = None
  /\ names' = [names EXCEPT ![KeyOf(p)] = BytesOf(p)]
  /\ pending' = pending \ {p} /\ Answer(p)
  /\ UNCHANGED <<disk, args, seen>>

\* renameat with NOREPLACE, which finds no record there (CheckHolds); the pending file
\* may have been removed by an open, or could not be written or renamed.
Rename(p) ==
  /\ pc[p] = "rename"
  /\ \/ /\ p \in pending /\ names[KeyOf(p)] = None
        /\ names' = [names EXCEPT ![KeyOf(p)] = BytesOf(p)]
        /\ pending' = pending \ {p} /\ Goes(p, "sync")
        /\ UNCHANGED <<lock, told>>
     \/ (p \notin pending \/ Faults) /\ Fail(p) /\ UNCHANGED names
  /\ UNCHANGED <<disk, args, seen>>

\* The directory is synced and the caller answered, or the sync fails; the
\* error path tries it once more.
Sync(p) ==
  /\ pc[p] = "sync"
  /\ \/ disk' = names /\ Answer(p) /\ UNCHANGED pending
     \/ Faults /\ Fail(p) /\ disk' \in {disk, names}
  /\ UNCHANGED <<names, args, seen>>

-----------------------------------------------------------------------------
(* open: pending files are listed and removed. *)

Open(p) ==
  /\ Reconciles /\ pc[p] = "start" /\ pending # {}
  /\ seen' = [seen EXCEPT ![p] = pending] /\ Goes(p, "opening")
  /\ UNCHANGED <<names, disk, pending, lock, args, told>>

\* A listed file that is gone makes the open fail.
Reconcile(p) ==
  /\ pc[p] = "opening"
  /\ \E f \in seen[p] :
       /\ seen' = [seen EXCEPT ![p] = @ \ {f}]
       /\ \/ f \in pending /\ pending' = pending \ {f} /\ UNCHANGED pc
          \/ f \notin pending /\ Goes(p, "failed") /\ UNCHANGED pending
  /\ UNCHANGED <<names, disk, lock, args, told>>

\* The directory is synced last.
Opened(p) ==
  /\ pc[p] = "opening" /\ seen[p] = {}
  /\ disk' = names /\ Goes(p, "opened")
  /\ UNCHANGED <<names, pending, lock, args, seen, told>>

-----------------------------------------------------------------------------
(* Faults *)

Ended == {"answered", "failed", "opened", "dead"}

\* The kernel frees the locks of a dead process; its pending file stays.
Die(p) ==
  /\ pc[p] \notin Ended \cup {"start"}
  /\ Goes(p, "dead") /\ Free(p)
  /\ UNCHANGED <<names, disk, pending, args, seen, told>>

\* The machine stops: a name that was not synced may or may not be there.
PowerLoss ==
  /\ names' \in [Keys -> Vals \cup {None}]
  /\ \A k \in Keys : names'[k] \in {disk[k], names[k]}
  /\ disk' = names'
  /\ pending' \in SUBSET pending
  /\ lock' = [k \in Keys |-> None]
  /\ pc' = [p \in Procs |-> IF pc[p] \in {"start"} \cup Ended THEN pc[p] ELSE "dead"]
  /\ UNCHANGED <<args, seen, told>>

-----------------------------------------------------------------------------
Init ==
  /\ names = [k \in Keys |-> None] /\ disk = [k \in Keys |-> None]
  /\ pending = {} /\ lock = [k \in Keys |-> None]
  /\ pc = [p \in Procs |-> "start"]
  /\ args \in [Procs -> {[key |-> None, val |-> None]}]
  /\ seen = [p \in Procs |-> {}] /\ told = {}

Step(p) ==
  \/ Lock(p) \/ Check(p) \/ WritePending(p) \/ Rename(p) \/ Sync(p)
  \/ Reconcile(p) \/ Opened(p)

Next ==
  \/ \E p \in Procs : \/ Step(p) \/ Open(p) \/ Die(p)
                      \/ \E k \in Keys, v \in Vals : Put(p, k, v)
  \/ PowerLoss

Spec == Init /\ [][Next]_vars

-----------------------------------------------------------------------------
(* Properties *)

TypeOK ==
  /\ names \in [Keys -> Vals \cup {None}] /\ disk \in [Keys -> Vals \cup {None}]
  /\ pending \subseteq Procs /\ lock \in [Keys -> Procs \cup {None}]
  /\ pc \in [Procs -> {"start", "lock", "check", "write", "rename", "sync", "opening"} \cup Ended]
  /\ args \in [Procs -> [key : Keys \cup {None}, val : Vals \cup {None}]]
  /\ seen \in [Procs -> SUBSET Procs] /\ told \subseteq Keys

\* A record that a caller was told of after a sync survives every crash and is
\* never another (doc comment of StoreWriteOutcome, docs/parallel-proof.md,
\* Durable store).  The byte store answers AlreadyPresent without a sync.
Promise == INSTANCE WriteOnce WITH reg <- names
KeepsPromise == Promise!Spec

\* What put found under the lock is still so when it renames, whoever dies or
\* opens the store in between.
CheckHolds == \A p \in Procs : pc[p] \in {"write", "rename"} => names[KeyOf(p)] = None

\* Only a death leaves a pending file behind: a put that was answered or
\* refused has removed its own (the error path of publish_noreplace).
NoLitter == \A p \in pending : pc[p] \in {"rename", "dead"}
=============================================================================
