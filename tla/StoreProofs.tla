----------------------------- MODULE StoreProofs ------------------------------
(***************************************************************************)
(* The immutable record stores keep their promise: theorems of             *)
(* ImmutableStore for any number of processes, keys and values, for both   *)
(* stores, with failing syncs, deaths and power losses at any point.       *)
(***************************************************************************)
EXTENDS ImmutableStore, TLAPS

Holding == {"check", "write", "rename", "sync"}

\* A put under way knows its record, and holds its key's lock from the
\* comparison to the answer.
LockInv ==
  \A p \in Procs :
    /\ pc[p] \in Holding \cup {"lock"} => args[p] \in [key : Keys, val : Vals]
    /\ pc[p] \in Holding => lock[args[p].key] = p

\* The disk has the record or has nothing; what a caller was told of is on disk,
\* and what is about to be synced is there.
DiskInv ==
  /\ \A k \in Keys : disk[k] \in {None, names[k]}
  /\ \A k \in told : disk[k] = names[k] /\ names[k] # None
  /\ \A p \in Procs : pc[p] = "sync" => names[args[p].key] # None

StoreInv == TypeOK /\ LockInv /\ DiskInv /\ CheckHolds /\ NoLitter

\* What a step may do to the records: nothing; publish the record of a free key;
\* tell of one that is there; forget records nobody was told of.
Publishes ==
  \E k \in Keys, v \in Vals : /\ names[k] = None /\ told' = told
                              /\ names' = [names EXCEPT ![k] = v]
Tells == \E k \in Keys : names[k] # None /\ told' = told \cup {k} /\ names' = names
Forgets ==
  /\ told' = told /\ names' \in [Keys -> Vals \cup {None}]
  /\ \A k \in Keys : names'[k] \in {None, names[k]}
  /\ \A k \in told : names'[k] = names[k]
Promised == UNCHANGED <<names, told>> \/ Publishes \/ Tells \/ Forgets

-----------------------------------------------------------------------------
\* Initially nothing is stored.
LEMMA StoreInit ==
  ASSUME ImmutableAssumption, Init
  PROVE  StoreInv
<1>. USE DEF Init
<1>1. TypeOK
  BY DEF TypeOK, Ended
<1>2. LockInv /\ CheckHolds /\ NoLitter
  BY DEF LockInv, Holding, CheckHolds, NoLitter
<1>3. DiskInv
  BY DEF DiskInv
<1>. QED  BY <1>1, <1>2, <1>3 DEF StoreInv

\* Steps before the lock is held: Put, and waiting for the lock.
LEMMA PutKeeps ==
  ASSUME ImmutableAssumption, StoreInv, NEW p \in Procs, NEW k \in Keys, NEW v \in Vals, Put(p, k, v)
  PROVE  StoreInv' /\ Promised
<1>. USE DEF StoreInv, Put, Goes
<1>1. TypeOK'
  BY DEF TypeOK
<1>2. LockInv'
  BY DEF TypeOK, LockInv, Holding
<1>3. DiskInv'
  BY DEF TypeOK, DiskInv
<1>4. CheckHolds' /\ NoLitter'
  BY DEF TypeOK, CheckHolds, NoLitter, KeyOf
<1>. QED  BY <1>1, <1>2, <1>3, <1>4 DEF Promised

LEMMA LockKeeps ==
  ASSUME ImmutableAssumption, StoreInv, NEW p \in Procs, Lock(p)
  PROVE  StoreInv' /\ Promised
<1>. USE DEF StoreInv, Lock, Goes, KeyOf
<1>0. args[p].key \in Keys
  BY DEF LockInv
<1>1. TypeOK'
  BY <1>0 DEF TypeOK
<1>2. LockInv'
  BY <1>0 DEF TypeOK, LockInv, Holding, ImmutableAssumption
<1>3. DiskInv'
  BY DEF TypeOK, DiskInv
<1>4. CheckHolds' /\ NoLitter'
  BY DEF TypeOK, CheckHolds, NoLitter
<1>. QED  BY <1>1, <1>2, <1>3, <1>4 DEF Promised

\* A process that holds a lock lets go of it, at the end or when it dies.
LEMMA Freed ==
  ASSUME ImmutableAssumption, StoreInv, NEW p \in Procs, NEW s \in Ended, Goes(p, s), Free(p),
         UNCHANGED args
  PROVE  LockInv' /\ lock' \in [Keys -> Procs \cup {None}]
<1>1. lock' \in [Keys -> Procs \cup {None}]
  BY DEF StoreInv, TypeOK, Free
<1>2. ASSUME NEW q \in Procs
      PROVE  /\ pc'[q] \in Holding \cup {"lock"} => args'[q] \in [key : Keys, val : Vals]
             /\ pc'[q] \in Holding => lock'[args'[q].key] = q
  <2>1. pc'[q] \in Holding \cup {"lock"} => q # p /\ pc'[q] = pc[q]
    BY DEF StoreInv, TypeOK, Goes, Ended, Holding
  <2>2. pc[q] \in Holding \cup {"lock"} => args[q] \in [key : Keys, val : Vals]
    BY DEF StoreInv, LockInv
  <2>3. pc[q] \in Holding => lock[args[q].key] = q
    BY DEF StoreInv, LockInv
  <2>. QED  BY <2>1, <2>2, <2>3 DEF Free
<1>. QED  BY <1>1, <1>2 DEF LockInv

LEMMA CheckKeeps ==
  ASSUME ImmutableAssumption, StoreInv, NEW p \in Procs, Check(p)
  PROVE  StoreInv' /\ Promised
<1>. USE DEF KeyOf, BytesOf
<1>0. args[p] \in [key : Keys, val : Vals] /\ lock[args[p].key] = p /\ pc[p] = "check"
  BY DEF StoreInv, LockInv, Check, Holding
<1>1. CASE /\ names[args[p].key] = None /\ Goes(p, "write")
           /\ UNCHANGED <<pending, lock, told, names, disk, args, seen>>
  <2>. USE DEF StoreInv, Goes
  <2>1. TypeOK'
    BY <1>1 DEF TypeOK
  <2>2. LockInv'
    BY <1>0, <1>1 DEF TypeOK, LockInv, Holding
  <2>3. DiskInv'
    BY <1>1 DEF TypeOK, DiskInv
  <2>4. CheckHolds' /\ NoLitter'
    BY <1>0, <1>1 DEF TypeOK, CheckHolds, NoLitter
  <2>. QED  BY <1>1, <2>1, <2>2, <2>3, <2>4 DEF Promised
<1>2. CASE /\ names[args[p].key] = args[p].val /\ Goes(p, "sync")
           /\ UNCHANGED <<pending, lock, told, names, disk, args, seen>>
  <2>. USE DEF StoreInv, Goes
  <2>1. TypeOK'
    BY <1>2 DEF TypeOK
  <2>2. LockInv'
    BY <1>0, <1>2 DEF TypeOK, LockInv, Holding
  <2>3. DiskInv'
    BY <1>0, <1>2 DEF TypeOK, DiskInv, ImmutableAssumption
  <2>4. CheckHolds' /\ NoLitter'
    BY <1>0, <1>2 DEF TypeOK, CheckHolds, NoLitter
  <2>. QED  BY <1>2, <2>1, <2>2, <2>3, <2>4 DEF Promised
<1>3. ASSUME NEW s \in {"answered", "failed"}, Goes(p, s), Free(p),
             pending' \in {pending, pending \ {p}}, UNCHANGED <<told, names, disk, args, seen>>
      PROVE  StoreInv' /\ Promised
  <2>1. LockInv' /\ lock' \in [Keys -> Procs \cup {None}]
    BY <1>3, Freed DEF Ended
  <2>. USE DEF StoreInv, Goes
  <2>2. TypeOK'
    BY <1>3, <2>1 DEF TypeOK, Ended
  <2>3. DiskInv'
    BY <1>3 DEF TypeOK, DiskInv
  <2>4. CheckHolds' /\ NoLitter'
    BY <1>0, <1>3 DEF TypeOK, CheckHolds, NoLitter
  <2>. QED  BY <1>3, <2>1, <2>2, <2>3, <2>4 DEF Promised
<1>. QED  BY <1>1, <1>2, <1>3 DEF Check, Replay, Fail

LEMMA WriteKeeps ==
  ASSUME ImmutableAssumption, StoreInv, NEW p \in Procs, WritePending(p)
  PROVE  StoreInv' /\ Promised
<1>. USE DEF StoreInv, WritePending, Goes, KeyOf
<1>1. TypeOK'
  BY DEF TypeOK
<1>2. LockInv'
  BY DEF TypeOK, LockInv, Holding
<1>3. DiskInv'
  BY DEF TypeOK, DiskInv
<1>4. CheckHolds' /\ NoLitter'
  BY DEF TypeOK, CheckHolds, NoLitter
<1>. QED  BY <1>1, <1>2, <1>3, <1>4 DEF Promised

-----------------------------------------------------------------------------
(* Publication and the answer. *)

\* Only the holder of a key's lock is between comparison and answer.
LEMMA OneHolder ==
  ASSUME StoreInv, NEW p \in Procs, NEW q \in Procs, pc[p] \in Holding, pc[q] \in Holding,
         args[p].key = args[q].key
  PROVE  p = q
BY DEF StoreInv, LockInv

LEMMA RenameKeeps ==
  ASSUME ImmutableAssumption, StoreInv, NEW p \in Procs, Rename(p)
  PROVE  StoreInv' /\ Promised
<1>. USE DEF KeyOf, BytesOf
<1>0. args[p] \in [key : Keys, val : Vals] /\ pc[p] = "rename"
  BY DEF StoreInv, LockInv, Rename, Holding
<1>1. CASE /\ p \in pending /\ names[args[p].key] = None
           /\ names' = [names EXCEPT ![args[p].key] = args[p].val]
           /\ pending' = pending \ {p} /\ Goes(p, "sync")
           /\ UNCHANGED <<lock, told, disk, args, seen>>
  <2>1. TypeOK'
    BY <1>0, <1>1 DEF StoreInv, TypeOK, Goes
  <2>2. LockInv'
    BY <1>0, <1>1 DEF StoreInv, TypeOK, LockInv, Holding, Goes
  <2>3. \A k \in Keys : k # args[p].key => names'[k] = names[k]
    BY <1>1 DEF StoreInv, TypeOK
  <2>4. names'[args[p].key] = args[p].val /\ args[p].val # None
    BY <1>0, <1>1 DEF StoreInv, TypeOK, ImmutableAssumption
  <2>5. disk[args[p].key] = None /\ args[p].key \notin told
    BY <1>0, <1>1 DEF StoreInv, DiskInv
  <2>6. DiskInv'
    <3>1. \A k \in Keys : disk'[k] \in {None, names'[k]}
      BY <1>1, <2>3, <2>5 DEF StoreInv, DiskInv
    <3>2. \A k \in told' : disk'[k] = names'[k] /\ names'[k] # None
      BY <1>1, <2>3, <2>5 DEF StoreInv, DiskInv, TypeOK
    <3>3. \A q \in Procs : pc'[q] = "sync" => names'[args'[q].key] # None
      <4>1. \A q \in Procs : pc'[q] = "sync" => q = p \/ pc[q] = "sync"
        BY <1>1 DEF StoreInv, TypeOK, Goes
      <4>2. \A q \in Procs : pc[q] = "sync" => args[q].key \in Keys /\ names[args[q].key] # None
        BY DEF StoreInv, LockInv, DiskInv, Holding
      <4>. QED  BY <1>1, <2>3, <2>4, <4>1, <4>2
    <3>. QED  BY <3>1, <3>2, <3>3 DEF DiskInv
  <2>7. CheckHolds'
    <3>1. ASSUME NEW q \in Procs, pc'[q] \in {"write", "rename"}
          PROVE  names'[args'[q].key] = None
      <4>1. q # p /\ pc[q] \in {"write", "rename"} /\ pc[q] \in Holding
        BY <1>1, <3>1 DEF StoreInv, TypeOK, Goes, Holding
      <4>2. args[q].key \in Keys /\ names[args[q].key] = None
        BY <4>1 DEF StoreInv, LockInv, CheckHolds
      <4>3. args[q].key # args[p].key
        BY <1>0, <4>1, OneHolder DEF Holding
      <4>. QED  BY <1>1, <2>3, <4>2, <4>3
    <3>. QED  BY <3>1 DEF CheckHolds
  <2>8. NoLitter'
    BY <1>1 DEF StoreInv, TypeOK, NoLitter, Goes
  <2>9. Publishes
    BY <1>0, <1>1 DEF Publishes
  <2>. QED  BY <2>1, <2>2, <2>6, <2>7, <2>8, <2>9 DEF StoreInv, Promised
<1>2. CASE Fail(p) /\ UNCHANGED <<names, disk, args, seen>>
  <2>0. Goes(p, "failed") /\ Free(p) /\ pending' = pending \ {p} /\ UNCHANGED told
    BY <1>2 DEF Fail
  <2>1. LockInv' /\ lock' \in [Keys -> Procs \cup {None}]
    BY <1>2, <2>0, Freed DEF Ended
  <2>. USE DEF StoreInv, Goes
  <2>2. TypeOK'
    BY <1>2, <2>0, <2>1 DEF TypeOK, Ended
  <2>3. DiskInv'
    BY <1>2, <2>0 DEF TypeOK, DiskInv
  <2>4. CheckHolds' /\ NoLitter'
    BY <1>2, <2>0 DEF TypeOK, CheckHolds, NoLitter
  <2>. QED  BY <1>2, <2>0, <2>1, <2>2, <2>3, <2>4 DEF Promised
<1>. QED  BY <1>1, <1>2 DEF Rename

LEMMA SyncKeeps ==
  ASSUME ImmutableAssumption, StoreInv, NEW p \in Procs, Sync(p)
  PROVE  StoreInv' /\ Promised
<1>. USE DEF KeyOf
<1>0. args[p].key \in Keys /\ names[args[p].key] # None /\ pc[p] = "sync"
  BY DEF StoreInv, LockInv, DiskInv, Sync, Holding
<1>1. /\ \/ told' = told \cup {args[p].key} /\ disk' = names
         \/ told' = told /\ disk' \in {disk, names}
      /\ Free(p) /\ pending' \in {pending, pending \ {p}}
      /\ UNCHANGED <<names, args, seen>>
      /\ \E s \in {"answered", "failed"} : Goes(p, s)
  BY DEF Sync, Answer, Fail
<1>2. PICK s \in {"answered", "failed"} : Goes(p, s)
  BY <1>1
<1>3. LockInv' /\ lock' \in [Keys -> Procs \cup {None}]
  BY <1>1, <1>2, Freed DEF Ended
<1>4. TypeOK'
  BY <1>0, <1>1, <1>2, <1>3 DEF StoreInv, TypeOK, Ended, Goes
<1>5. DiskInv'
  <2>1. \A k \in Keys : disk'[k] \in {None, names'[k]}
    BY <1>1 DEF StoreInv, DiskInv
  <2>2. \A k \in told' : disk'[k] = names'[k] /\ names'[k] # None
    BY <1>0, <1>1 DEF StoreInv, DiskInv
  <2>3. \A q \in Procs : pc'[q] = "sync" => pc[q] = "sync"
    BY <1>2 DEF StoreInv, TypeOK, Goes
  <2>. QED  BY <1>1, <2>1, <2>2, <2>3 DEF StoreInv, DiskInv
<1>6. CheckHolds' /\ NoLitter'
  BY <1>0, <1>1, <1>2 DEF StoreInv, TypeOK, CheckHolds, NoLitter, Goes
<1>7. Promised
  BY <1>0, <1>1 DEF Promised, Tells
<1>. QED  BY <1>3, <1>4, <1>5, <1>6, <1>7 DEF StoreInv

-----------------------------------------------------------------------------
(* Opening the store, deaths and power losses. *)

LEMMA OpenKeeps ==
  ASSUME ImmutableAssumption, StoreInv, NEW p \in Procs, Open(p) \/ Reconcile(p) \/ Opened(p)
  PROVE  StoreInv' /\ Promised
<1>0. pc[p] \in {"start", "opening"}
  BY DEF Open, Reconcile, Opened
<1>1. /\ seen' \in [Procs -> SUBSET Procs]
      /\ pending' \subseteq pending /\ disk' \in {disk, names}
      /\ UNCHANGED <<names, lock, args, told>>
      /\ pc' = pc \/ \E s \in {"opening", "failed", "opened"} : Goes(p, s)
  <2>1. CASE Open(p)
    BY <2>1 DEF Open, StoreInv, TypeOK
  <2>2. CASE Reconcile(p)
    BY <2>2 DEF Reconcile, StoreInv, TypeOK
  <2>3. CASE Opened(p)
    BY <2>3 DEF Opened, StoreInv, TypeOK
  <2>. QED  BY <2>1, <2>2, <2>3
<1>2. \A q \in Procs : q # p => pc'[q] = pc[q]
  BY <1>1 DEF StoreInv, TypeOK, Goes
<1>3. pc'[p] \in {"start", "opening", "failed", "opened"}
  BY <1>0, <1>1 DEF StoreInv, TypeOK, Goes
<1>4. TypeOK'
  BY <1>1 DEF StoreInv, TypeOK, Ended, Goes
<1>5. LockInv'
  BY <1>1, <1>2, <1>3 DEF StoreInv, LockInv, Holding
<1>6. DiskInv'
  BY <1>1, <1>2, <1>3 DEF StoreInv, DiskInv
<1>7. CheckHolds' /\ NoLitter'
  BY <1>0, <1>1, <1>2, <1>3 DEF StoreInv, TypeOK, CheckHolds, NoLitter, KeyOf
<1>. QED  BY <1>1, <1>4, <1>5, <1>6, <1>7 DEF StoreInv, Promised

LEMMA DieKeeps ==
  ASSUME ImmutableAssumption, StoreInv, NEW p \in Procs, Die(p)
  PROVE  StoreInv' /\ Promised
<1>1. LockInv' /\ lock' \in [Keys -> Procs \cup {None}]
  BY Freed DEF Die, Ended
<1>. USE DEF StoreInv, Die, Goes
<1>2. TypeOK'
  BY <1>1 DEF TypeOK, Ended
<1>3. DiskInv'
  BY DEF TypeOK, DiskInv
<1>4. CheckHolds' /\ NoLitter'
  BY DEF TypeOK, CheckHolds, NoLitter, KeyOf
<1>. QED  BY <1>1, <1>2, <1>3, <1>4 DEF Promised

LEMMA PowerLossKeeps ==
  ASSUME ImmutableAssumption, StoreInv, PowerLoss
  PROVE  StoreInv' /\ Promised
<1>1. \A p \in Procs : pc'[p] \in {"start"} \cup Ended /\ (pc'[p] = pc[p] \/ pc'[p] = "dead")
  BY DEF PowerLoss, Ended
<1>2. \A k \in Keys : names'[k] \in {None, names[k]}
  BY DEF PowerLoss, StoreInv, DiskInv
<1>3. \A k \in told : names'[k] = names[k]
  BY DEF PowerLoss, StoreInv, DiskInv, TypeOK
<1>4. TypeOK'
  BY <1>1 DEF PowerLoss, StoreInv, TypeOK, Ended
<1>5. LockInv' /\ CheckHolds'
  BY <1>1 DEF LockInv, CheckHolds, Holding, Ended
<1>6. DiskInv'
  BY <1>1, <1>3 DEF PowerLoss, StoreInv, DiskInv, Ended
<1>7. NoLitter'
  BY <1>1 DEF PowerLoss, StoreInv, TypeOK, NoLitter, Ended
<1>8. Forgets
  BY <1>2, <1>3 DEF PowerLoss, Forgets
<1>. QED  BY <1>4, <1>5, <1>6, <1>7, <1>8 DEF StoreInv, Promised

-----------------------------------------------------------------------------
\* Every step keeps the invariant and does to the records what is allowed.
LEMMA StoreStep ==
  ASSUME ImmutableAssumption, StoreInv, [Next]_vars
  PROVE  StoreInv' /\ Promised
<1>1. ASSUME NEW p \in Procs, Step(p) \/ Open(p) \/ Die(p)
      PROVE  StoreInv' /\ Promised
  BY <1>1, LockKeeps, CheckKeeps, WriteKeeps, RenameKeeps, SyncKeeps, OpenKeeps, DieKeeps DEF Step
<1>2. ASSUME NEW p \in Procs, NEW k \in Keys, NEW v \in Vals, Put(p, k, v)
      PROVE  StoreInv' /\ Promised
  BY <1>2, PutKeeps
<1>3. CASE UNCHANGED vars
  BY <1>3 DEF vars, StoreInv, TypeOK, LockInv, DiskInv, CheckHolds, NoLitter, Promised, KeyOf
<1>. QED  BY <1>1, <1>2, <1>3, PowerLossKeeps DEF Next

\* What is allowed is what the abstract store does.
LEMMA PromisedSteps ==
  ASSUME StoreInv, Promised
  PROVE  [Promise!Next]_(Promise!vars)
<1>1. CASE UNCHANGED <<names, told>>
  BY <1>1 DEF Promise!vars
<1>2. CASE Publishes
  BY <1>2 DEF Publishes, Promise!Next, Promise!Write
<1>3. CASE Tells
  BY <1>3 DEF Tells, Promise!Next, Promise!Tell
<1>4. CASE Forgets
  <2>. DEFINE K == {k \in Keys : names'[k] # names[k]}
  <2>1. K \in SUBSET Keys /\ K \cap told = {}
    BY <1>4 DEF Forgets
  <2>2. names' = [k \in Keys |-> IF k \in K THEN None ELSE names[k]]
    BY <1>4 DEF Forgets
  <2>3. Promise!Forget(K)
    BY <1>4, <2>1, <2>2 DEF Forgets, Promise!Forget
  <2>. QED  BY <2>1, <2>3 DEF Promise!Next
<1>. QED  BY <1>1, <1>2, <1>3, <1>4 DEF Promised

\* Both stores implement WriteOnce: a record that a caller was told of after a
\* sync of the directory survives every crash and is never another, whoever
\* puts, opens, dies or fails meanwhile (put of immutable_store.rs and of
\* parallel_proof.rs).
THEOREM StoresKeepPromise ==
  ASSUME ImmutableAssumption PROVE Spec => KeepsPromise
<1>1. Init => StoreInv /\ Promise!Init
  BY StoreInit DEF Init, Promise!Init
<1>2. StoreInv /\ [Next]_vars => StoreInv' /\ [Promise!Next]_(Promise!vars)
  BY StoreStep, PromisedSteps
<1>. QED  BY <1>1, <1>2, PTL DEF Spec, KeepsPromise, Promise!Spec

\* What put found under the lock is still so when it renames, and only a death
\* leaves a pending file behind (publish_noreplace and its error path).
THEOREM ChecksHold ==
  ASSUME ImmutableAssumption PROVE Spec => [](CheckHolds /\ NoLitter)
<1>1. Init => StoreInv
  BY StoreInit
<1>2. StoreInv /\ [Next]_vars => StoreInv'
  BY StoreStep
<1>3. StoreInv => CheckHolds /\ NoLitter
  BY DEF StoreInv
<1>. QED  BY <1>1, <1>2, <1>3, PTL DEF Spec
=============================================================================
