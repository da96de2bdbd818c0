---------------------------- MODULE CapacityProofs ----------------------------
(***************************************************************************)
(* The native-worker slot: theorems of WorkerCapacity for any number of    *)
(* jobs, canaries, audit commands and crashes, wherever the daemon may be  *)
(* silent and whether or not a canary survives its cancellation.           *)
(***************************************************************************)
EXTENDS WorkerCapacity, FiniteSetTheorems, TLAPS

Claimants == Jobs \cup Canaries

\* The lease file never records two owners, stale ones included.
LeaseInv == \A o, q \in leases : o = q

\* An audit's processes run only under its receipt, which leaves no room for
\* another owner's lease; a command binds one worker.
ReceiptInv ==
  /\ \A a \in Audits : worker[a] \in {"running", "orphans"} => receipt = a
  /\ receipt # None => /\ leases \subseteq {WorkOf[receipt]}
                       /\ command[receipt] \in {"waiting", "clearing", "crashed"}

\* Admission and the idle check of an audit hold the drain lock.
DrainInv ==
  /\ daemon \in {"start", "spawn"} => drain = "daemon" /\ picked \in Jobs
  /\ daemon \notin {"start", "spawn"} => picked = None
  /\ daemon = "start" => row[picked] # "running"
  /\ daemon = "spawn" => row[picked] = "running" /\ worker[picked] # "running"
  /\ \A a \in Audits : command[a] \in {"locked", "checked"} => drain = a

\* A worker runs for a row or a canary that says so, and the heartbeat knows
\* every running row.
RowInv ==
  /\ \A j \in Jobs : /\ worker[j] \in {"none", "running", "dead"}
                     /\ worker[j] = "running" => row[j] = "running"
  /\ \A c \in Canaries : /\ worker[c] \in {"none", "running", "dead"}
                         /\ worker[c] = "running" => canary[c] # "prepared"
  /\ daemon = "beat" => \A j \in Jobs : row[j] = "running" => j \in seen

NoRunning  == \A j \in Jobs : row[j] # "running"
QueueQuiet == NoRunning /\ daemon \notin {"start", "spawn"}

\* No queue worker runs or is about to from the idle check of an audit to the
\* end of its claim and of its processes, whichever comes last.
QuietInv ==
  /\ \A a \in Audits : command[a] = "checked" => NoRunning
  /\ leases \cap Works # {} => QueueQuiet
  /\ receipt # None /\ worker[receipt] \in {"waiting", "running", "orphans"} => QueueQuiet

\* The claim of a running worker, or of a job about to be started, is live
\* unless it lapsed while the daemon was silent.
HeldInv ==
  /\ \A j \in Jobs \ lapsed : worker[j] = "running" \/ j = picked => j \in Live
  /\ \A c \in Canaries \ lapsed : canary[c] = "running" => c \in Live

CapacityInv == TypeOK /\ LeaseInv /\ ReceiptInv /\ DrainInv /\ RowInv /\ QuietInv /\ HeldInv

-----------------------------------------------------------------------------
(* Type correctness. *)

LEMMA CapacityInit ==
  ASSUME Init PROVE CapacityInv
<1>. USE CapacityAssumption DEF Init
<1>1. TypeOK
  BY DEF TypeOK, DaemonStates
<1>2. LeaseInv /\ ReceiptInv /\ DrainInv
  BY DEF LeaseInv, ReceiptInv, DrainInv, Natives
<1>3. RowInv
  BY DEF RowInv, Natives
<1>4. QuietInv /\ HeldInv
  BY DEF QuietInv, HeldInv, Natives
<1>. QED  BY <1>1, <1>2, <1>3, <1>4 DEF CapacityInv

\* Burying an audit's processes and its lease.
LEMMA Burial ==
  ASSUME TypeOK
  PROVE  /\ Remaining \subseteq leases
         /\ Reaped \in [Natives -> {"none", "waiting", "running", "orphans", "dead"}]
BY DEF TypeOK, Remaining, Reaped, Buried, Natives

\* Whatever an operation of the store does, the file and the receipt have their
\* types.
LEMMA StoreTypes ==
  ASSUME TypeOK, NEW o \in Owners, Granted(o) \/ Refused(o) \/ Released(o)
  PROVE  leases' \in SUBSET Owners /\ stale' \in SUBSET leases' /\ receipt' \in Audits \cup {None}
<1>1. CASE Granted(o)
  BY <1>1, Burial DEF TypeOK, Granted, Acquired, RemainLive
<1>2. CASE Refused(o)
  BY <1>2, Burial DEF TypeOK, Refused, RemainLive, storeVars
<1>3. CASE Released(o)
  BY <1>3, Burial DEF TypeOK, Released, Store, storeVars
<1>. QED  BY <1>1, <1>2, <1>3

\* The daemon's steps keep the types.
LEMMA DaemonTypes ==
  ASSUME TypeOK, DrainInv, Daemon \/ SkipTick \/ DaemonCrash \/ DaemonStarts
  PROVE  TypeOK'
<1>. USE Burial DEF DaemonStates
<1>1. CASE BeginTick
  BY <1>1 DEF BeginTick, TypeOK, storeVars
<1>2. CASE SkipTick
  BY <1>2 DEF SkipTick, ToCanaries, TypeOK, storeVars
<1>3. CASE DropInactive
  <2>1. leases' \in SUBSET Owners /\ stale' \in SUBSET leases' /\ receipt' \in Audits \cup {None}
    BY <1>3 DEF DropInactive, Store, TypeOK, storeVars
  <2>. QED  BY <1>3, <2>1 DEF DropInactive, TypeOK
<1>4. CASE KeepRunning
  <2>1. CASE \E j \in seen : Granted(j) /\ seen' = seen \ {j} /\ worker' = Reaped /\ UNCHANGED daemon
    <3>1. PICK j \in seen : Granted(j) /\ seen' = seen \ {j} /\ worker' = Reaped /\ UNCHANGED daemon
      BY <2>1
    <3>2. leases' \in SUBSET Owners /\ stale' \in SUBSET leases' /\ receipt' \in Audits \cup {None}
      BY <3>1, StoreTypes DEF TypeOK, Owners
    <3>. QED  BY <1>4, <3>1, <3>2 DEF KeepRunning, TypeOK
  <2>2. CASE seen = {} /\ daemon' = "admit" /\ UNCHANGED <<storeVars, seen, worker>>
    BY <1>4, <2>2 DEF KeepRunning, TypeOK, storeVars
  <2>. QED  BY <1>4, <2>1, <2>2 DEF KeepRunning
<1>5. CASE SlotLost
  <2>1. leases' \in SUBSET Owners /\ stale' \in SUBSET leases' /\ receipt' \in Audits \cup {None}
    BY <1>5, StoreTypes DEF SlotLost, TypeOK, Owners
  <2>. QED  BY <1>5, <2>1 DEF SlotLost, ToCanaries, TypeOK
<1>5a. CASE Disown
  <2>1. PICK j \in seen \cap Unreadable : Released(j) /\ seen' = seen \ {j} /\ lapsed' = lapsed \cup {j}
    BY <1>5a DEF Disown
  <2>2. leases' \in SUBSET Owners /\ stale' \in SUBSET leases' /\ receipt' \in Audits \cup {None}
    BY <2>1, StoreTypes DEF TypeOK, Owners
  <2>. QED  BY <1>5a, <2>1, <2>2 DEF Disown, TypeOK
<1>6. CASE Select
  <2>1. PICK j \in Candidates : Granted(j) /\ picked' = j
    BY <1>6 DEF Select
  <2>2. j \in Jobs
    BY DEF Candidates
  <2>3. leases' \in SUBSET Owners /\ stale' \in SUBSET leases' /\ receipt' \in Audits \cup {None}
    BY <2>1, <2>2, StoreTypes DEF Owners
  <2>. QED  BY <1>6, <2>1, <2>2, <2>3 DEF Select, TypeOK
<1>7. CASE SelectNone
  <2>1. /\ leases' \in SUBSET Owners /\ stale' \in SUBSET leases' /\ receipt' \in Audits \cup {None}
        /\ worker' \in {worker, Reaped}
    BY <1>7, StoreTypes DEF SelectNone, TypeOK, Owners, Candidates, storeVars
  <2>. QED  BY <1>7, <2>1 DEF SelectNone, ToCanaries, TypeOK
<1>0. daemon \in {"start", "spawn"} => picked \in Jobs
  BY DEF DrainInv
<1>8. CASE Start
  <2>1. /\ leases' \in SUBSET Owners /\ stale' \in SUBSET leases' /\ receipt' \in Audits \cup {None}
        /\ worker' \in {worker, Reaped}
    BY <1>0, <1>8, StoreTypes DEF Start, TypeOK, Owners, storeVars
  <2>. QED  BY <1>0, <1>8, <2>1 DEF Start, ToCanaries, TypeOK
<1>9. CASE Spawn
  <2>1. leases' \in SUBSET Owners /\ stale' \in SUBSET leases' /\ receipt' \in Audits \cup {None}
    BY <1>0, <1>9, StoreTypes DEF Spawn, TypeOK, Owners, storeVars
  <2>. QED  BY <1>0, <1>9, <2>1 DEF Spawn, ToCanaries, TypeOK, Natives
<1>10. CASE CanaryWaits
  <2>1. leases' \in SUBSET Owners /\ stale' \in SUBSET leases' /\ receipt' \in Audits \cup {None}
    BY <1>10, StoreTypes DEF CanaryWaits, TypeOK, Owners
  <2>. QED  BY <1>10, <2>1 DEF CanaryWaits, Visited, TypeOK
<1>11. CASE Launch
  <2>1. PICK c \in todo : /\ Granted(c) /\ Visited(c)
                          /\ \/ /\ canary' = [canary EXCEPT ![c] = "running"]
                                /\ worker' = [Reaped EXCEPT ![c] = "running"]
                             \/ canary' = [canary EXCEPT ![c] = "terminal"] /\ worker' = Reaped
    BY <1>11 DEF Launch
  <2>2. leases' \in SUBSET Owners /\ stale' \in SUBSET leases' /\ receipt' \in Audits \cup {None}
    BY <2>1, StoreTypes DEF TypeOK, Owners
  <2>. QED  BY <1>11, <2>1, <2>2 DEF Launch, Visited, TypeOK, Natives
<1>12. CASE ReconcileCanary
  <2>1. PICK c \in todo :
          /\ Visited(c)
          /\ \/ /\ canary' = [canary EXCEPT ![c] = "terminal"] /\ leases' = RemainLive \ {c}
                /\ worker' \in {[Reaped EXCEPT ![c] = "dead"], Reaped}
             \/ /\ UNCHANGED canary
                /\ leases' = Acquired(RemainLive, c) /\ worker' = Reaped
    BY <1>12 DEF ReconcileCanary
  <2>2. leases' \in SUBSET Owners
    BY <2>1 DEF TypeOK, Owners, RemainLive, Acquired
  <2>3. worker' \in [Natives -> {"none", "waiting", "running", "orphans", "dead"}]
    BY <2>1
  <2>. QED  BY <1>12, <2>1, <2>2, <2>3 DEF ReconcileCanary, Visited, TypeOK
<1>13. CASE ReleaseCanary
  <2>1. leases' \in SUBSET Owners /\ stale' \in SUBSET leases' /\ receipt' \in Audits \cup {None}
    BY <1>13, StoreTypes DEF ReleaseCanary, TypeOK, Owners
  <2>. QED  BY <1>13, <2>1 DEF ReleaseCanary, Visited, TypeOK
<1>14. CASE EndLoop
  BY <1>14 DEF EndLoop, TypeOK, storeVars
<1>15. CASE DaemonCrash
  BY <1>15, CapacityAssumption DEF DaemonCrash, TypeOK
<1>16. CASE DaemonStarts
  BY <1>16 DEF DaemonStarts, TypeOK, storeVars
<1>. QED  BY <1>1, <1>2, <1>3, <1>4, <1>5, <1>5a, <1>6, <1>7, <1>8, <1>9, <1>10, <1>11, <1>12, <1>13,
             <1>14, <1>15, <1>16 DEF Daemon

\* So do the others'.
LEMMA OtherTypes ==
  ASSUME TypeOK,
         \/ Submit \/ CancelPending \/ CancelCanary \/ QueueWorkerEnds \/ NativeEnds
         \/ \E o \in Owners : Lapse(o)
         \/ \E a \in Audits : AuditStep(a) \/ AuditCrash(a) \/ WorkerVerifies(a)
  PROVE  TypeOK'
<1>. USE Burial
<1>1. CASE Submit \/ CancelPending \/ CancelCanary
  BY <1>1 DEF Submit, CancelPending, CancelCanary, TypeOK, storeVars, daemonVars
<1>2. CASE QueueWorkerEnds \/ NativeEnds
  BY <1>2 DEF QueueWorkerEnds, NativeEnds, TypeOK, storeVars, daemonVars, Natives
<1>3. ASSUME NEW o \in Owners, Lapse(o) PROVE TypeOK'
  BY <1>3 DEF Lapse, Live, Refreshed, TypeOK
<1>4. ASSUME NEW a \in Audits, AuditStep(a) PROVE TypeOK'
  <2>0. WorkOf[a] \in Owners
    BY DEF Owners, Works
  <2>1. CASE AuditLock(a) \/ AuditCheck(a) \/ AuditWait(a)
    BY <2>1 DEF AuditLock, AuditCheck, AuditWait, Goes, TypeOK, storeVars, daemonVars
  <2>2. CASE AuditClaim(a)
    <3>1. leases' \in SUBSET Owners /\ stale' \in SUBSET leases' /\ receipt' \in Audits \cup {None}
      BY <2>0, <2>2, StoreTypes DEF AuditClaim
    <3>. QED  BY <2>2, <3>1 DEF AuditClaim, Goes, TypeOK
  <2>3. CASE AuditSpawn(a)
    BY <2>3 DEF AuditSpawn, Goes, TypeOK, storeVars, daemonVars, Natives
  <2>4. CASE AuditBind(a)
    <3>1. leases' \in SUBSET Owners /\ stale' \in SUBSET leases' /\ receipt' \in Audits \cup {None}
      BY <2>4 DEF AuditBind, Store, TypeOK, storeVars
    <3>2. worker' \in {Reaped, [Reaped EXCEPT ![a] = "dead"]}
      BY <2>4 DEF AuditBind
    <3>3. command' \in {[command EXCEPT ![a] = "waiting"], [command EXCEPT ![a] = "dropping"]}
      BY <2>4 DEF AuditBind, Goes
    <3>. QED  BY <2>4, <3>1, <3>2, <3>3 DEF AuditBind, TypeOK, daemonVars
  <2>5. CASE AuditClear(a)
    BY <2>5 DEF AuditClear, Goes, TypeOK, daemonVars
  <2>6. CASE AuditDrop(a)
    <3>1. leases' \in SUBSET Owners /\ stale' \in SUBSET leases' /\ receipt' \in Audits \cup {None}
      BY <2>0, <2>6, StoreTypes DEF AuditDrop
    <3>. QED  BY <2>6, <3>1 DEF AuditDrop, Goes, TypeOK, daemonVars
  <2>. QED  BY <1>4, <2>1, <2>2, <2>3, <2>4, <2>5, <2>6 DEF AuditStep
<1>5. ASSUME NEW a \in Audits, AuditCrash(a) \/ WorkerVerifies(a) PROVE TypeOK'
  BY <1>5 DEF AuditCrash, WorkerVerifies, Goes, TypeOK, storeVars, daemonVars
<1>. QED  BY <1>1, <1>2, <1>3, <1>4, <1>5

-----------------------------------------------------------------------------
(* What the operations of the store do to the slot. *)

\* A claim that is in use is not lost, but for those in R.
Shrunk(R) ==
  /\ leases' \subseteq leases
  /\ \A q \in Claimants \ R : q \in Live => q \in Live'

\* The slot goes to o, and nobody else's claim was in use.
Given(o) ==
  /\ leases' = {o} /\ stale' = {} /\ receipt' = None
  /\ \A q \in Claimants : q \in Live => q = o

\* A receipt goes only with its processes.
AuditsFade ==
  /\ receipt' \in {receipt, None}
  /\ \A a \in Audits : /\ worker'[a] \in {worker[a], "dead"}
                       /\ receipt = a /\ receipt' # a => worker'[a] = "dead"

\* Other workers are left alone.
OthersKept == \A n \in Claimants : worker'[n] = worker[n]

LEMMA Owns ==
  /\ None \notin Jobs \cup Canaries \cup Audits \cup Works
  /\ Claimants \cap (Audits \cup Works) = {} /\ Jobs \cap Canaries = {}
  /\ Claimants \subseteq Owners /\ Claimants \subseteq Natives /\ Audits \subseteq Natives
  /\ \A a \in Audits : WorkOf[a] \in Works
BY CapacityAssumption DEF Claimants, Owners, Natives, Works

LEMMA Reaping ==
  ASSUME TypeOK, worker' = Reaped,
         \/ Blocked /\ receipt' = receipt
         \/ ~Blocked /\ receipt' = None
  PROVE  AuditsFade /\ OthersKept
BY Owns DEF TypeOK, Reaped, Buried, AuditsFade, OthersKept, Natives

LEMMA Spared ==
  ASSUME TypeOK, NEW n \in Claimants
  PROVE  Reaped[n] = worker[n]
BY Owns DEF TypeOK, Reaped, Buried

LEMMA Grant ==
  ASSUME TypeOK, LeaseInv, NEW o \in Owners, Granted(o), worker' = Reaped
  PROVE  Given(o) /\ AuditsFade /\ OthersKept
<1>1. Given(o)
  <2>1. leases' = {o}
    BY DEF Granted, Acquired, Grants, RemainLive, Remaining, LeaseInv, TypeOK
  <2>2. ASSUME NEW q \in Claimants, q \in Live
        PROVE  q = o
    <3>1. receipt # None => q # WorkOf[receipt]
      BY Owns DEF TypeOK
    <3>2. q \in RemainLive
      BY <2>2, <3>1 DEF Live, RemainLive, Remaining, Buried
    <3>. QED  BY <2>1, <3>2 DEF Granted, Acquired
  <2>. QED  BY <2>1, <2>2 DEF Given, Granted
<1>2. AuditsFade /\ OthersKept
  BY Reaping DEF Granted
<1>. QED  BY <1>1, <1>2

LEMMA Refusal ==
  ASSUME TypeOK, NEW o \in Owners, Refused(o), worker' = Reaped
  PROVE  Shrunk({}) /\ AuditsFade /\ OthersKept
<1>1. Shrunk({})
  <2>1. \A q \in Claimants : receipt # None => q # WorkOf[receipt]
    BY Owns DEF TypeOK
  <2>. QED  BY <2>1, Burial DEF Refused, Shrunk, Live, RemainLive, Remaining, Buried, storeVars
<1>2. AuditsFade /\ OthersKept
  BY Reaping DEF Refused, storeVars
<1>. QED  BY <1>1, <1>2

LEMMA Release ==
  ASSUME TypeOK, NEW R, (Blocked /\ UNCHANGED storeVars) \/ Store(Remaining \ R), worker' = Reaped
  PROVE  Shrunk(R) /\ AuditsFade /\ OthersKept
<1>1. Shrunk(R)
  <2>1. \A q \in Claimants : receipt # None => q # WorkOf[receipt]
    BY Owns DEF TypeOK
  <2>. QED  BY <2>1, Burial DEF Store, Shrunk, Live, Remaining, Buried, storeVars
<1>2. AuditsFade /\ OthersKept
  BY Reaping DEF Store, storeVars
<1>. QED  BY <1>1, <1>2

\* Nothing happens to the slot.
SlotKept == UNCHANGED storeVars /\ worker' = worker

LEMMA Untouched ==
  ASSUME TypeOK, SlotKept
  PROVE  Shrunk({}) /\ AuditsFade /\ OthersKept
BY DEF TypeOK, SlotKept, storeVars, Shrunk, Live, AuditsFade, OthersKept

\* In any case there is one owner at most, and the receipt has room for its own.
LEMMA SlotStep ==
  ASSUME TypeOK, LeaseInv, ReceiptInv, NEW R, Shrunk(R) \/ (\E o \in Owners : Given(o)), AuditsFade,
         \A a \in Audits : command[a] \in {"waiting", "clearing", "crashed"} /\ receipt' = a
                             => command'[a] \in {"waiting", "clearing", "crashed"}
  PROVE  LeaseInv' /\ ReceiptInv'
<1>1. LeaseInv'
  BY DEF LeaseInv, Shrunk, Given
<1>2. \A a \in Audits : worker'[a] \in {"running", "orphans"} => receipt' = a
  BY Owns DEF ReceiptInv, AuditsFade, TypeOK
<1>3. receipt' # None => receipt' = receipt /\ Shrunk(R)
  BY DEF AuditsFade, Given
<1>. QED  BY <1>1, <1>2, <1>3 DEF ReceiptInv, Shrunk, TypeOK

\* The queue stays quiet for an audit that needs it to.
LEMMA QuietStep ==
  ASSUME TypeOK, QuietInv, NEW R, Shrunk(R) \/ (\E o \in Claimants : Given(o)), AuditsFade,
         NoRunning => NoRunning',
         QueueQuiet => QueueQuiet' \/ (leases' \cap Works = {} /\ receipt' = None),
         \A a \in Audits : command'[a] = "checked" => command[a] = "checked"
  PROVE  QuietInv'
<1>1. \A a \in Audits : command'[a] = "checked" => NoRunning'
  BY DEF QuietInv
<1>2. leases' \cap Works # {} => leases \cap Works # {}
  BY Owns DEF Shrunk, Given
<1>3. leases' \cap Works # {} => QueueQuiet'
  BY <1>2 DEF QuietInv
<1>4. receipt' # None /\ worker'[receipt'] \in {"waiting", "running", "orphans"} => QueueQuiet'
  BY DEF QuietInv, AuditsFade, TypeOK
<1>. QED  BY <1>1, <1>3, <1>4 DEF QuietInv

\* The claims in use are kept when nobody begins to run.
LEMMA HeldStep ==
  ASSUME TypeOK, HeldInv, NEW R, Shrunk(R) \/ (\E o \in Owners : Given(o)),
         lapsed' = lapsed, picked' \in {picked, None},
         \A j \in Jobs : worker'[j] = "running" => worker[j] = "running" /\ j \notin R,
         \A c \in Canaries : canary'[c] = "running" => canary[c] = "running" /\ c \notin R,
         picked' # None => picked \notin R
  PROVE  HeldInv'
<1>1. \A q \in Claimants : q \in Live /\ q \notin R => q \in Live'
  BY DEF Shrunk, Given, Live
<1>2. \A j \in Jobs \ lapsed : worker'[j] = "running" \/ j = picked' => j \in Live'
  BY <1>1, Owns DEF HeldInv, Claimants
<1>3. \A c \in Canaries \ lapsed : canary'[c] = "running" => c \in Live'
  BY <1>1 DEF HeldInv, Claimants
<1>. QED  BY <1>2, <1>3 DEF HeldInv

-----------------------------------------------------------------------------
(* Steps that leave the slot alone. *)

\* The parts of the invariant that such a step may disturb.
LEMMA ControlStep ==
  ASSUME CapacityInv, SlotKept, lapsed' = lapsed,
         \A a \in Audits : /\ command[a] \in {"waiting", "clearing", "crashed"}
                               => command'[a] \in {"waiting", "clearing", "crashed"}
                           /\ command'[a] = "checked" => command[a] = "checked" \/ NoRunning',
         NoRunning => NoRunning' \/ daemon = "start",
         daemon' \in {"start", "spawn"} => daemon \in {"start", "spawn"},
         picked' \in {picked, None},
         \A c \in Canaries : canary'[c] = "running" => canary[c] = "running"
  PROVE  LeaseInv' /\ ReceiptInv' /\ HeldInv' /\ (TypeOK' /\ DrainInv' => QuietInv')
<1>1. Shrunk({}) /\ AuditsFade /\ OthersKept
  BY Untouched DEF CapacityInv
<1>2. LeaseInv' /\ ReceiptInv'
  BY <1>1, SlotStep DEF CapacityInv
<1>3. HeldInv'
  BY <1>1, HeldStep DEF CapacityInv, SlotKept
<1>4. ASSUME TypeOK', DrainInv' PROVE QuietInv'
  <2>1. \A a \in Audits : command'[a] = "checked" => NoRunning'
    <3>1. ASSUME NEW a \in Audits, command'[a] = "checked", ~NoRunning' PROVE FALSE
      <4>1. command[a] = "checked" /\ NoRunning /\ daemon = "start"
        BY <3>1 DEF CapacityInv, QuietInv
      <4>2. drain = a /\ drain = "daemon"
        BY <4>1 DEF CapacityInv, DrainInv
      <4>. QED  BY <4>2, CapacityAssumption
    <3>. QED  BY <3>1
  <2>2. QueueQuiet => QueueQuiet'
    BY DEF QueueQuiet
  <2>3. leases' = leases /\ receipt' = receipt /\ worker' = worker
    BY DEF SlotKept, storeVars
  <2>. QED  BY <2>1, <2>2, <2>3 DEF CapacityInv, QuietInv
<1>. QED  BY <1>2, <1>3, <1>4

LEMMA TickSteps ==
  ASSUME CapacityInv, BeginTick \/ SkipTick \/ EndLoop \/ DaemonStarts
  PROVE  CapacityInv'
<1>1. TypeOK'
  BY DaemonTypes DEF CapacityInv, Daemon
<1>2. DrainInv'
  BY DEF CapacityInv, TypeOK, DrainInv, BeginTick, SkipTick, ToCanaries, EndLoop, DaemonStarts, storeVars
<1>3. RowInv'
  <2>1. CASE BeginTick
    BY <2>1 DEF CapacityInv, TypeOK, RowInv, BeginTick
  <2>2. CASE SkipTick \/ EndLoop \/ DaemonStarts
    BY <2>2 DEF CapacityInv, TypeOK, RowInv, SkipTick, ToCanaries, EndLoop, DaemonStarts, storeVars
  <2>. QED  BY <2>1, <2>2
<1>4. LeaseInv' /\ ReceiptInv' /\ HeldInv' /\ QuietInv'
  <2>1. SlotKept /\ UNCHANGED <<lapsed, command, picked, canary>>
    BY DEF SlotKept, BeginTick, SkipTick, EndLoop, DaemonStarts
  <2>2. NoRunning => NoRunning'
    BY DEF NoRunning, BeginTick, SkipTick, EndLoop, DaemonStarts
  <2>3. daemon' \notin {"start", "spawn"}
    BY DEF BeginTick, SkipTick, ToCanaries, EndLoop, DaemonStarts
  <2>. QED  BY <1>1, <1>2, <2>1, <2>2, <2>3, ControlStep
<1>. QED  BY <1>1, <1>2, <1>3, <1>4 DEF CapacityInv

LEMMA QueueSteps ==
  ASSUME CapacityInv, Submit \/ CancelPending \/ CancelCanary
  PROVE  CapacityInv'
<1>. USE DEF Submit, CancelPending, CancelCanary
<1>0. SlotKept /\ UNCHANGED <<command, daemonVars>>
  BY DEF SlotKept
<1>1. TypeOK'
  BY OtherTypes DEF CapacityInv
<1>2. \A j \in Jobs : row[j] = "running" <=> row'[j] = "running"
  BY DEF CapacityInv, TypeOK
<1>3. \A c \in Canaries : canary'[c] = canary[c] \/ canary'[c] = "terminal"
  BY DEF CapacityInv, TypeOK
<1>4. DrainInv'
  BY <1>0, <1>2 DEF CapacityInv, DrainInv, SlotKept, daemonVars
<1>5. RowInv'
  BY <1>0, <1>2, <1>3 DEF CapacityInv, RowInv, SlotKept, daemonVars
<1>6. LeaseInv' /\ ReceiptInv' /\ HeldInv' /\ QuietInv'
  BY <1>0, <1>1, <1>2, <1>3, <1>4, ControlStep DEF NoRunning, daemonVars
<1>. QED  BY <1>1, <1>4, <1>5, <1>6 DEF CapacityInv

LEMMA CommandSteps ==
  ASSUME CapacityInv, NEW a \in Audits, AuditLock(a) \/ AuditCheck(a) \/ AuditWait(a) \/ AuditCrash(a)
  PROVE  CapacityInv'
<1>0. SlotKept /\ UNCHANGED <<row, canary, daemon, seen, picked, todo, crashes, lapsed>>
  BY DEF SlotKept, AuditLock, AuditCheck, AuditWait, AuditCrash, daemonVars
<1>1. TypeOK'
  BY OtherTypes DEF CapacityInv, AuditStep
<1>2. \A b \in Audits \ {a} : command'[b] = command[b]
  BY DEF CapacityInv, TypeOK, AuditLock, AuditCheck, AuditWait, AuditCrash, Goes
<1>3. /\ command[a] \in {"waiting", "clearing", "crashed"} => command'[a] \in {"clearing", "crashed"}
      /\ command'[a] = "checked" => NoRunning
  BY DEF CapacityInv, TypeOK, AuditLock, AuditCheck, AuditWait, AuditCrash, Goes, QueueIdle, NoRunning
<1>4. DrainInv'
  <2>1. drain' = drain \/ (drain = None /\ drain' = a) \/ (drain = a /\ drain' = None)
    BY DEF CapacityInv, DrainInv, AuditLock, AuditCheck, AuditWait, AuditCrash, daemonVars
  <2>2. command'[a] \in {"locked", "checked"} => drain' = a
    BY DEF CapacityInv, TypeOK, DrainInv, AuditLock, AuditCheck, AuditWait, AuditCrash, Goes
  <2>. QED  BY <1>0, <1>2, <2>1, <2>2, CapacityAssumption DEF CapacityInv, DrainInv, SlotKept, None
<1>5. RowInv'
  BY <1>0 DEF CapacityInv, RowInv, SlotKept
<1>6. LeaseInv' /\ ReceiptInv' /\ HeldInv' /\ QuietInv'
  BY <1>0, <1>1, <1>2, <1>3, <1>4, ControlStep DEF NoRunning
<1>. QED  BY <1>1, <1>4, <1>5, <1>6 DEF CapacityInv

-----------------------------------------------------------------------------
(* Heartbeat and admission. *)

LEMMA DropStep ==
  ASSUME CapacityInv, DropInactive
  PROVE  CapacityInv'
<1>1. TypeOK'
  BY DaemonTypes DEF CapacityInv, Daemon
<1>2. Shrunk(Jobs \ seen) /\ AuditsFade /\ OthersKept
  BY Release DEF CapacityInv, DropInactive
<1>3. /\ UNCHANGED <<row, canary, command, drain, seen, picked, lapsed>>
      /\ daemon = "beat" /\ daemon' = "keep"
  BY DEF DropInactive
<1>4. LeaseInv' /\ ReceiptInv'
  BY <1>2, <1>3, SlotStep DEF CapacityInv
<1>5. DrainInv'
  BY <1>3 DEF CapacityInv, DrainInv
<1>6. RowInv'
  BY <1>2, <1>3 DEF CapacityInv, RowInv, OthersKept, Claimants
<1>7. QuietInv'
  BY <1>2, <1>3, QuietStep DEF CapacityInv, QueueQuiet, NoRunning
<1>8. HeldInv'
  <2>1. \A j \in Jobs : worker'[j] = "running" => worker[j] = "running" /\ j \notin Jobs \ seen
    BY <1>2, <1>3 DEF CapacityInv, RowInv, OthersKept, Claimants
  <2>2. \A c \in Canaries : c \notin Jobs \ seen
    BY Owns
  <2>3. picked = None
    BY <1>3 DEF CapacityInv, DrainInv
  <2>. QED  BY <1>2, <1>3, <2>1, <2>2, <2>3, HeldStep DEF CapacityInv
<1>. QED  BY <1>1, <1>4, <1>5, <1>6, <1>7, <1>8 DEF CapacityInv

LEMMA KeepSteps ==
  ASSUME CapacityInv, KeepRunning \/ SlotLost
  PROVE  CapacityInv'
<1>1. TypeOK'
  BY DaemonTypes DEF CapacityInv, Daemon
<1>2. /\ Shrunk({}) \/ \E o \in Jobs : Given(o)
      /\ AuditsFade /\ OthersKept
  <2>1. CASE \E j \in seen : Granted(j) /\ worker' = Reaped
    BY <2>1, Grant DEF CapacityInv, TypeOK, Owners
  <2>2. CASE SlotKept
    BY <2>2, Untouched DEF CapacityInv
  <2>3. CASE \E j \in seen : Refused(j) /\ worker' = Reaped
    BY <2>3, Refusal DEF CapacityInv, TypeOK, Owners
  <2>. QED  BY <2>1, <2>2, <2>3 DEF KeepRunning, SlotLost, SlotKept
<1>3. /\ UNCHANGED <<row, canary, command, drain, picked, lapsed>>
      /\ daemon = "keep" /\ daemon' \in {"keep", "admit", "canary"}
  BY DEF KeepRunning, SlotLost, ToCanaries
<1>4. LeaseInv' /\ ReceiptInv'
  BY <1>2, <1>3, SlotStep DEF CapacityInv, Owners
<1>5. DrainInv'
  BY <1>3 DEF CapacityInv, DrainInv
<1>6. RowInv'
  BY <1>2, <1>3 DEF CapacityInv, RowInv, OthersKept, Claimants
<1>7. QuietInv'
  BY <1>2, <1>3, QuietStep DEF CapacityInv, QueueQuiet, NoRunning, Claimants
<1>8. HeldInv'
  BY <1>2, <1>3, HeldStep DEF CapacityInv, Owners, OthersKept, Claimants
<1>. QED  BY <1>1, <1>4, <1>5, <1>6, <1>7, <1>8 DEF CapacityInv

LEMMA DisownStep ==
  ASSUME CapacityInv, Disown
  PROVE  CapacityInv'
<1>1. TypeOK'
  BY DaemonTypes DEF CapacityInv, Daemon
<1>2. PICK j \in seen \cap Unreadable : Released(j) /\ lapsed' = lapsed \cup {j}
  BY DEF Disown
<1>3. /\ UNCHANGED <<row, canary, command, drain, picked, daemon>>
      /\ daemon = "keep" /\ worker' = Reaped
  BY DEF Disown
<1>4. Shrunk({j}) /\ AuditsFade /\ OthersKept
  BY <1>2, <1>3, Release DEF CapacityInv, Released
<1>5. LeaseInv' /\ ReceiptInv'
  BY <1>3, <1>4, SlotStep DEF CapacityInv
<1>6. DrainInv'
  BY <1>3 DEF CapacityInv, DrainInv
<1>7. RowInv'
  BY <1>3, <1>4 DEF CapacityInv, RowInv, OthersKept, Claimants
<1>8. QuietInv'
  BY <1>3, <1>4, QuietStep DEF CapacityInv, QueueQuiet, NoRunning
<1>9. HeldInv'
  <2>1. \A q \in Claimants : q \in Live /\ q # j => q \in Live'
    BY <1>4 DEF Shrunk, Live
  <2>2. \A q \in Claimants : worker'[q] = worker[q]
    BY <1>4 DEF OthersKept
  <2>. QED  BY <1>2, <1>3, <2>1, <2>2 DEF CapacityInv, HeldInv, Claimants
<1>. QED  BY <1>1, <1>5, <1>6, <1>7, <1>8, <1>9 DEF CapacityInv

LEMMA SelectStep ==
  ASSUME CapacityInv, Select
  PROVE  CapacityInv'
<1>1. TypeOK'
  BY DaemonTypes DEF CapacityInv, Daemon
<1>2. PICK j \in Candidates : Granted(j) /\ picked' = j
  BY DEF Select
<1>3. j \in Jobs /\ drain = None /\ NoRunning
  BY DEF Candidates, NoRunning
<1>4. Given(j) /\ AuditsFade /\ OthersKept
  BY <1>2, <1>3, Grant DEF CapacityInv, Select, Owners
<1>5. /\ UNCHANGED <<row, canary, command, lapsed>>
      /\ daemon' = "start" /\ drain' = "daemon"
  BY DEF Select
<1>6. LeaseInv' /\ ReceiptInv'
  BY <1>3, <1>4, <1>5, SlotStep DEF CapacityInv, Owners
<1>7. DrainInv'
  BY <1>2, <1>3, <1>5, CapacityAssumption DEF CapacityInv, DrainInv, NoRunning
<1>8. RowInv'
  BY <1>4, <1>5 DEF CapacityInv, RowInv, OthersKept, Claimants
<1>9. QuietInv'
  <2>1. leases' \cap Works = {} /\ receipt' = None
    BY <1>3, <1>4, Owns DEF Given, Claimants
  <2>. QED  BY <1>3, <1>4, <1>5, <2>1, QuietStep DEF CapacityInv, NoRunning, Claimants
<1>10. HeldInv'
  <2>1. \A q \in Claimants : q \in Live => q \in Live'
    BY <1>4 DEF Given, Live
  <2>2. j \in Live'
    BY <1>4 DEF Given, Live
  <2>. QED  BY <1>2, <1>4, <1>5, <2>1, <2>2 DEF CapacityInv, HeldInv, OthersKept, Claimants
<1>. QED  BY <1>1, <1>6, <1>7, <1>8, <1>9, <1>10 DEF CapacityInv

LEMMA SelectNoneStep ==
  ASSUME CapacityInv, SelectNone
  PROVE  CapacityInv'
<1>1. TypeOK'
  BY DaemonTypes DEF CapacityInv, Daemon
<1>2. Shrunk({}) /\ AuditsFade /\ OthersKept
  <2>1. CASE SlotKept
    BY <2>1, Untouched DEF CapacityInv
  <2>2. CASE \E j \in Candidates : Refused(j) /\ worker' = Reaped
    BY <2>2, Refusal DEF CapacityInv, Candidates, Owners
  <2>. QED  BY <2>1, <2>2 DEF SelectNone, SlotKept
<1>3. /\ UNCHANGED <<row, canary, command, drain, picked, lapsed>>
      /\ daemon = "admit" /\ daemon' = "canary"
  BY DEF SelectNone, ToCanaries
<1>4. LeaseInv' /\ ReceiptInv'
  BY <1>2, <1>3, SlotStep DEF CapacityInv
<1>5. DrainInv'
  BY <1>3 DEF CapacityInv, DrainInv
<1>6. RowInv'
  BY <1>2, <1>3 DEF CapacityInv, RowInv, OthersKept, Claimants
<1>7. QuietInv'
  BY <1>2, <1>3, QuietStep DEF CapacityInv, QueueQuiet, NoRunning
<1>8. HeldInv'
  BY <1>2, <1>3, HeldStep DEF CapacityInv, OthersKept, Claimants
<1>. QED  BY <1>1, <1>4, <1>5, <1>6, <1>7, <1>8 DEF CapacityInv

\* A selected job is started, or its claim is given back.
LEMMA StartStep ==
  ASSUME CapacityInv, Start
  PROVE  CapacityInv'
<1>1. TypeOK'
  BY DaemonTypes DEF CapacityInv, Daemon
<1>0. /\ picked \in Jobs /\ drain = "daemon" /\ daemon = "start"
      /\ UNCHANGED <<canary, command, lapsed, seen>>
  BY DEF CapacityInv, DrainInv, Start
<1>2. CASE /\ row[picked] = "pending" /\ row' = [row EXCEPT ![picked] = "running"]
           /\ daemon' = "spawn" /\ SlotKept /\ UNCHANGED <<drain, picked, todo>>
  <2>1. \A a \in Audits : command[a] # "checked"
    BY <1>0, CapacityAssumption DEF CapacityInv, DrainInv
  <2>2. DrainInv'
    BY <1>0, <1>2 DEF CapacityInv, TypeOK, DrainInv, RowInv, SlotKept
  <2>3. RowInv'
    BY <1>0, <1>2 DEF CapacityInv, TypeOK, RowInv, SlotKept
  <2>4. LeaseInv' /\ ReceiptInv' /\ HeldInv' /\ QuietInv'
    BY <1>0, <1>1, <1>2, <2>1, <2>2, ControlStep
  <2>. QED  BY <1>1, <2>2, <2>3, <2>4 DEF CapacityInv
<1>3. CASE /\ Released(picked) /\ worker' = Reaped
           /\ ToCanaries /\ drain' = None /\ picked' = None /\ UNCHANGED row
  <2>1. Shrunk({picked}) /\ AuditsFade /\ OthersKept
    BY <1>3, Release DEF CapacityInv, Released
  <2>2. LeaseInv' /\ ReceiptInv'
    BY <1>0, <2>1, SlotStep DEF CapacityInv
  <2>3. DrainInv'
    BY <1>0, <1>3, CapacityAssumption DEF CapacityInv, DrainInv, ToCanaries
  <2>4. RowInv'
    BY <1>0, <1>3, <2>1 DEF CapacityInv, RowInv, OthersKept, Claimants, ToCanaries
  <2>5. QuietInv'
    BY <1>0, <1>3, <2>1, QuietStep DEF CapacityInv, QueueQuiet, NoRunning, ToCanaries
  <2>6. HeldInv'
    <3>1. worker[picked] # "running"
      BY <1>0 DEF CapacityInv, RowInv, DrainInv
    <3>2. \A c \in Canaries : c # picked
      BY <1>0, Owns
    <3>. QED  BY <1>0, <1>3, <2>1, <3>1, <3>2, HeldStep DEF CapacityInv, OthersKept, Claimants
  <2>. QED  BY <1>1, <2>2, <2>3, <2>4, <2>5, <2>6 DEF CapacityInv
<1>. QED  BY <1>2, <1>3 DEF Start, SlotKept

\* Its worker is started, or the job and its claim are returned.
LEMMA SpawnStep ==
  ASSUME CapacityInv, Spawn
  PROVE  CapacityInv'
<1>1. TypeOK'
  BY DaemonTypes DEF CapacityInv, Daemon
<1>0. /\ picked \in Jobs /\ drain = "daemon" /\ daemon = "spawn" /\ daemon' = "canary"
      /\ row[picked] = "running" /\ worker[picked] # "running"
      /\ drain' = None /\ picked' = None /\ UNCHANGED <<canary, command, lapsed, seen>>
  BY DEF CapacityInv, DrainInv, Spawn, ToCanaries
<1>2. \A c \in Canaries : c # picked
  BY <1>0, Owns
<1>3. DrainInv'
  BY <1>0, CapacityAssumption DEF CapacityInv, DrainInv
<1>4. CASE worker' = [worker EXCEPT ![picked] = "running"] /\ UNCHANGED <<storeVars, row>>
  <2>1. Shrunk({}) /\ AuditsFade
    BY <1>0, <1>4, Owns DEF CapacityInv, TypeOK, Shrunk, Live, AuditsFade, storeVars, Claimants
  <2>2. LeaseInv' /\ ReceiptInv'
    BY <1>0, <2>1, SlotStep DEF CapacityInv
  <2>3. RowInv'
    BY <1>0, <1>2, <1>4 DEF CapacityInv, TypeOK, RowInv, Natives
  <2>4. QuietInv'
    BY <1>0, <1>4, <2>1, QuietStep DEF CapacityInv, QueueQuiet, NoRunning
  <2>5. HeldInv'
    <3>1. Live' = Live
      BY <1>4 DEF Live, storeVars
    <3>2. \A j \in Jobs : worker'[j] = "running" => worker[j] = "running" \/ j = picked
      BY <1>4 DEF CapacityInv, TypeOK
    <3>. QED  BY <1>0, <3>1, <3>2, Owns DEF CapacityInv, HeldInv
  <2>. QED  BY <1>1, <1>3, <2>2, <2>3, <2>4, <2>5 DEF CapacityInv
<1>5. CASE row' = [row EXCEPT ![picked] = "pending"] /\ Released(picked) /\ worker' = Reaped
  <2>1. Shrunk({picked}) /\ AuditsFade /\ OthersKept
    BY <1>5, Release DEF CapacityInv, Released
  <2>2. LeaseInv' /\ ReceiptInv'
    BY <1>0, <2>1, SlotStep DEF CapacityInv
  <2>3. RowInv'
    BY <1>0, <1>5, <2>1 DEF CapacityInv, TypeOK, RowInv, OthersKept, Claimants
  <2>4. NoRunning => NoRunning'
    BY <1>0, <1>5 DEF CapacityInv, TypeOK, NoRunning
  <2>5. QuietInv'
    BY <1>0, <2>1, <2>4, QuietStep DEF CapacityInv, QueueQuiet
  <2>6. HeldInv'
    BY <1>0, <1>2, <2>1, HeldStep DEF CapacityInv, OthersKept, Claimants
  <2>. QED  BY <1>1, <1>3, <2>2, <2>3, <2>5, <2>6 DEF CapacityInv
<1>. QED  BY <1>4, <1>5 DEF Spawn

-----------------------------------------------------------------------------
(* Canaries. *)

\* A canary waits for the slot, or gives its claim back.
LEMMA CanaryWaitStep ==
  ASSUME CapacityInv, CanaryWaits \/ ReleaseCanary
  PROVE  CapacityInv'
<1>1. TypeOK'
  BY DaemonTypes DEF CapacityInv, Daemon
<1>2. PICK c \in todo : \/ Refused(c) /\ worker' = Reaped
                        \/ canary[c] = "terminal" /\ Released(c) /\ worker' = Reaped
  BY DEF CanaryWaits, ReleaseCanary
<1>3. c \in Canaries /\ c \in Owners
  BY DEF CapacityInv, TypeOK, Owners
<1>4. PICK R \in {{}, {c}} : /\ Shrunk(R) /\ AuditsFade /\ OthersKept
                             /\ R # {} => canary[c] = "terminal"
  BY <1>2, <1>3, Refusal, Release DEF CapacityInv, Released
<1>5. UNCHANGED <<row, canary, command, drain, daemon, seen, picked, lapsed>> /\ daemon = "canary"
  BY DEF CanaryWaits, ReleaseCanary
<1>6. LeaseInv' /\ ReceiptInv'
  BY <1>4, <1>5, SlotStep DEF CapacityInv
<1>7. DrainInv'
  BY <1>5 DEF CapacityInv, DrainInv
<1>8. RowInv'
  BY <1>4, <1>5 DEF CapacityInv, RowInv, OthersKept, Claimants
<1>9. QuietInv'
  BY <1>4, <1>5, QuietStep DEF CapacityInv, QueueQuiet, NoRunning
<1>10. HeldInv'
  <2>1. picked = None /\ c \notin Jobs
    BY <1>3, <1>5, Owns DEF CapacityInv, DrainInv
  <2>. QED  BY <1>4, <1>5, <2>1, HeldStep DEF CapacityInv, OthersKept, Claimants
<1>. QED  BY <1>1, <1>6, <1>7, <1>8, <1>9, <1>10 DEF CapacityInv

\* A canary is launched in the slot, or found late.
LEMMA LaunchStep ==
  ASSUME CapacityInv, Launch
  PROVE  CapacityInv'
<1>1. TypeOK'
  BY DaemonTypes DEF CapacityInv, Daemon
<1>2. PICK c \in todo : /\ Granted(c)
                        /\ \/ /\ canary' = [canary EXCEPT ![c] = "running"]
                              /\ worker' = [Reaped EXCEPT ![c] = "running"]
                           \/ canary' = [canary EXCEPT ![c] = "terminal"] /\ worker' = Reaped
  BY DEF Launch
<1>3. c \in Canaries /\ c \in Owners /\ c \in Claimants
  BY DEF CapacityInv, TypeOK, Owners, Claimants
<1>4. Given(c)
  <2>1. /\ leases' = {c} /\ stale' = {} /\ receipt' = None
    BY <1>2 DEF CapacityInv, Granted, Acquired, Grants, RemainLive, Remaining, LeaseInv, TypeOK
  <2>2. ASSUME NEW q \in Claimants, q \in Live
        PROVE  q = c
    <3>1. receipt # None => q # WorkOf[receipt]
      BY Owns DEF CapacityInv, TypeOK
    <3>2. q \in RemainLive
      BY <2>2, <3>1 DEF Live, RemainLive, Remaining, Buried
    <3>. QED  BY <1>2, <2>1, <3>2 DEF Granted, Acquired
  <2>. QED  BY <2>1, <2>2 DEF Given
<1>5. AuditsFade
  BY <1>2, <1>3, Owns DEF CapacityInv, TypeOK, Granted, Reaped, Buried, AuditsFade, Natives
<1>6. /\ \A n \in Claimants \ {c} : worker'[n] = worker[n]
      /\ \/ worker'[c] = worker[c] /\ canary'[c] = "terminal"
         \/ worker'[c] = "running" /\ canary'[c] = "running"
      /\ \A d \in Canaries \ {c} : canary'[d] = canary[d]
  <2>1. Reaped \in [Natives -> {"none", "waiting", "running", "orphans", "dead"}]
    BY Burial DEF CapacityInv
  <2>2. \A n \in Claimants : n \in Natives /\ Reaped[n] = worker[n]
    BY Spared, Owns DEF CapacityInv
  <2>3. canary \in [Canaries -> {"prepared", "running", "terminal"}]
    BY DEF CapacityInv, TypeOK
  <2>. QED  BY <1>2, <1>3, <2>1, <2>2, <2>3
<1>7. UNCHANGED <<row, command, drain, daemon, seen, picked, lapsed>> /\ daemon = "canary"
  BY DEF Launch
<1>8. LeaseInv' /\ ReceiptInv'
  BY <1>3, <1>4, <1>5, <1>7, SlotStep DEF CapacityInv
<1>9. DrainInv'
  BY <1>7 DEF CapacityInv, DrainInv
<1>10. RowInv'
  BY <1>3, <1>6, <1>7, Owns DEF CapacityInv, RowInv, Claimants
<1>11. QuietInv'
  BY <1>3, <1>4, <1>5, <1>7, QuietStep DEF CapacityInv, QueueQuiet, NoRunning
<1>12. HeldInv'
  <2>1. \A q \in Claimants : q \in Live \/ q = c => q \in Live'
    BY <1>4 DEF Given, Live
  <2>. QED  BY <1>3, <1>6, <1>7, <2>1, Owns DEF CapacityInv, HeldInv, Claimants
<1>. QED  BY <1>1, <1>8, <1>9, <1>10, <1>11, <1>12 DEF CapacityInv

\* A running canary keeps its claim, or ends and gives it back.
LEMMA ReconcileStep ==
  ASSUME CapacityInv, ReconcileCanary
  PROVE  CapacityInv'
<1>1. TypeOK'
  BY DaemonTypes DEF CapacityInv, Daemon
<1>2. PICK c \in todo :
        /\ canary[c] = "running" /\ Grants(RemainLive, c)
        /\ \/ /\ canary' = [canary EXCEPT ![c] = "terminal"] /\ leases' = RemainLive \ {c}
              /\ worker' \in {[Reaped EXCEPT ![c] = "dead"], Reaped}
           \/ /\ UNCHANGED canary
              /\ leases' = Acquired(RemainLive, c) /\ worker' = Reaped
  BY DEF ReconcileCanary
<1>3. c \in Canaries /\ c \in Owners /\ c \in Claimants
  BY DEF CapacityInv, TypeOK, Owners, Claimants
<1>4. ~Blocked /\ stale' = {} /\ receipt' = None
  BY DEF ReconcileCanary
<1>5. \A q \in Claimants : q \in Live => q \in RemainLive
  <2>1. \A q \in Claimants : receipt # None => q # WorkOf[receipt]
    BY Owns DEF CapacityInv, TypeOK
  <2>. QED  BY <2>1 DEF Live, RemainLive, Remaining, Buried
<1>6. /\ leases' = RemainLive \ {c} => Shrunk({c})
      /\ leases' = Acquired(RemainLive, c) => Given(c)
  <2>1. ASSUME leases' = RemainLive \ {c} PROVE Shrunk({c})
    <3>1. leases' \subseteq leases
      BY <2>1, Burial DEF CapacityInv, RemainLive
    <3>2. Live' = RemainLive \ {c}
      BY <1>4, <2>1 DEF Live
    <3>. QED  BY <1>5, <3>1, <3>2 DEF Shrunk
  <2>2. ASSUME leases' = Acquired(RemainLive, c) PROVE Given(c)
    <3>1. leases' = {c}
      BY <1>2, <2>2 DEF CapacityInv, Acquired, Grants, RemainLive, Remaining, LeaseInv, TypeOK
    <3>. QED  BY <1>4, <1>5, <2>2, <3>1 DEF Given, Acquired
  <2>. QED  BY <2>1, <2>2
<1>7. AuditsFade
  BY <1>2, <1>3, <1>4, Owns DEF CapacityInv, TypeOK, Reaped, Buried, AuditsFade, Natives
<1>8. /\ \A n \in Claimants : worker'[n] = worker[n] \/ (n = c /\ worker'[n] = "dead")
      /\ \A d \in Canaries : canary'[d] = canary[d] \/ (d = c /\ canary'[d] = "terminal")
      /\ canary'[c] = "running" => Given(c)
  <2>1. \A n \in Claimants : worker'[n] = worker[n] \/ (n = c /\ worker'[n] = "dead")
    <3>1. Reaped \in [Natives -> {"none", "waiting", "running", "orphans", "dead"}]
      BY Burial DEF CapacityInv
    <3>2. \A n \in Claimants : n \in Natives /\ Reaped[n] = worker[n]
      BY Spared, Owns DEF CapacityInv
    <3>. QED  BY <1>2, <1>3, <3>1, <3>2
  <2>2. canary \in [Canaries -> {"prepared", "running", "terminal"}]
    BY DEF CapacityInv, TypeOK
  <2>3. \A d \in Canaries : canary'[d] = canary[d] \/ (d = c /\ canary'[d] = "terminal")
    BY <1>2, <1>3, <2>2
  <2>4. ASSUME canary'[c] = "running" PROVE Given(c)
    <3>1. leases' = Acquired(RemainLive, c)
      BY <1>2, <1>3, <2>2, <2>4
    <3>. QED  BY <1>6, <3>1
  <2>. QED  BY <2>1, <2>3, <2>4
<1>9. UNCHANGED <<row, command, drain, daemon, seen, picked, lapsed>> /\ daemon = "canary"
  BY DEF ReconcileCanary
<1>10. LeaseInv' /\ ReceiptInv'
  BY <1>2, <1>3, <1>6, <1>7, <1>9, SlotStep DEF CapacityInv
<1>11. DrainInv'
  BY <1>9 DEF CapacityInv, DrainInv
<1>12. RowInv'
  BY <1>3, <1>8, <1>9, Owns DEF CapacityInv, RowInv, Claimants
<1>13. QuietInv'
  BY <1>2, <1>3, <1>6, <1>7, <1>9, QuietStep DEF CapacityInv, QueueQuiet, NoRunning
<1>14. HeldInv'
  <2>1. \A q \in Claimants : q # c /\ q \in Live => q \in Live'
    BY <1>2, <1>6 DEF Given, Shrunk, Live
  <2>2. canary'[c] = "running" => c \in Live'
    BY <1>8 DEF Given, Live
  <2>3. picked = None
    BY <1>9 DEF CapacityInv, DrainInv
  <2>. QED  BY <1>3, <1>8, <1>9, <2>1, <2>2, <2>3, Owns DEF CapacityInv, HeldInv, Claimants
<1>. QED  BY <1>1, <1>10, <1>11, <1>12, <1>13, <1>14 DEF CapacityInv

-----------------------------------------------------------------------------
(* Audit commands and their workers. *)

\* An audit claims the slot under the drain lock, with nothing running.
LEMMA ClaimStep ==
  ASSUME CapacityInv, NEW a \in Audits, AuditClaim(a)
  PROVE  CapacityInv'
<1>1. TypeOK'
  BY OtherTypes DEF CapacityInv, AuditStep
<1>2. /\ drain = a /\ NoRunning /\ daemon \notin {"start", "spawn"} /\ command[a] = "checked"
      /\ UNCHANGED <<row, canary, daemon, seen, picked, lapsed>> /\ drain' = None
  BY CapacityAssumption DEF CapacityInv, DrainInv, QuietInv, AuditClaim
<1>3. /\ Shrunk({}) \/ Given(WorkOf[a])
      /\ AuditsFade /\ OthersKept
  BY Grant, Refusal, Owns DEF CapacityInv, AuditClaim, Owners
<1>4. /\ \A b \in Audits \ {a} : command'[b] = command[b]
      /\ command'[a] \in {"claimed", "over"}
  BY DEF CapacityInv, TypeOK, AuditClaim, Goes
<1>5. LeaseInv' /\ ReceiptInv'
  BY <1>2, <1>3, <1>4, SlotStep, Owns DEF CapacityInv, Owners
<1>6. DrainInv'
  BY <1>2, <1>4 DEF CapacityInv, DrainInv
<1>7. RowInv'
  BY <1>2, <1>3 DEF CapacityInv, RowInv, OthersKept, Claimants
<1>8. QuietInv'
  BY <1>2 DEF QuietInv, QueueQuiet, NoRunning
<1>9. HeldInv'
  BY <1>2, <1>3, HeldStep, Owns DEF CapacityInv, OthersKept, Claimants, Owners
<1>. QED  BY <1>1, <1>5, <1>6, <1>7, <1>8, <1>9 DEF CapacityInv

\* The command starts its worker, which waits for the receipt.
LEMMA AuditSpawnStep ==
  ASSUME CapacityInv, NEW a \in Audits, AuditSpawn(a)
  PROVE  CapacityInv'
<1>1. TypeOK'
  BY OtherTypes DEF CapacityInv, AuditStep
<1>2. /\ UNCHANGED <<leases, stale, receipt, row, canary, drain, daemon, seen, picked, lapsed>>
      /\ command[a] = "claimed"
  BY DEF AuditSpawn, storeVars, daemonVars
<1>3. receipt # a
  BY <1>2, Owns DEF CapacityInv, ReceiptInv
<1>4. /\ \A n \in Natives \ {a} : worker'[n] = worker[n]
      /\ worker'[a] \in {worker[a], "waiting"}
  BY DEF CapacityInv, TypeOK, AuditSpawn
<1>5. /\ \A b \in Audits \ {a} : command'[b] = command[b]
      /\ command'[a] \in {"spawned", "dropping"}
  BY DEF CapacityInv, TypeOK, AuditSpawn, Goes
<1>6. LeaseInv' /\ ReceiptInv'
  BY <1>2, <1>3, <1>4, <1>5, Owns DEF CapacityInv, TypeOK, LeaseInv, ReceiptInv
<1>7. DrainInv' /\ RowInv'
  BY <1>2, <1>4, <1>5, Owns DEF CapacityInv, DrainInv, RowInv, Claimants
<1>8. QuietInv'
  BY <1>2, <1>3, <1>4, <1>5, Owns DEF CapacityInv, TypeOK, QuietInv, QueueQuiet, NoRunning
<1>9. HeldInv'
  BY <1>2, <1>4, Owns DEF CapacityInv, HeldInv, Live, Claimants
<1>. QED  BY <1>1, <1>6, <1>7, <1>8, <1>9 DEF CapacityInv

\* The worker is bound while the claim is recorded, or killed.
LEMMA BindStep ==
  ASSUME CapacityInv, NEW a \in Audits, AuditBind(a)
  PROVE  CapacityInv'
<1>1. TypeOK'
  BY OtherTypes DEF CapacityInv, AuditStep
<1>2. /\ UNCHANGED <<row, canary, drain, daemon, seen, picked, lapsed>>
      /\ command[a] = "spawned"
  BY DEF AuditBind, daemonVars
<1>3. worker[a] \notin {"running", "orphans"} /\ receipt # a
  BY <1>2, Owns DEF CapacityInv, ReceiptInv
<1>4. /\ \A b \in Audits \ {a} : command'[b] = command[b]
      /\ command'[a] \in {"waiting", "dropping"}
  BY DEF CapacityInv, TypeOK, AuditBind, Goes
<1>5. CASE /\ ~Blocked /\ WorkOf[a] \in Remaining
           /\ leases' = Remaining /\ stale' = stale \cap Remaining /\ receipt' = a
           /\ worker' = Reaped /\ Goes(a, "waiting")
  <2>1. leases' \subseteq leases /\ leases' = {WorkOf[a]} /\ QueueQuiet
    BY <1>5, Burial, Owns DEF CapacityInv, LeaseInv, QuietInv
  <2>2. command'[a] = "waiting"
    BY <1>5 DEF CapacityInv, TypeOK, Goes
  <2>3. \A b \in Audits : worker'[b] \in {"running", "orphans"} => receipt' = b
    <3>1. ASSUME NEW b \in Audits, worker'[b] \in {"running", "orphans"} PROVE FALSE
      <4>1. b # receipt \/ receipt = None
        BY <1>5, <3>1, Owns DEF CapacityInv, TypeOK, Reaped, Buried
      <4>2. worker[b] = worker'[b]
        BY <1>5, <4>1, Owns DEF CapacityInv, TypeOK, Reaped, Buried
      <4>. QED  BY <3>1, <4>1, <4>2, Owns DEF CapacityInv, ReceiptInv
    <3>. QED  BY <3>1
  <2>4. LeaseInv' /\ ReceiptInv'
    BY <1>5, <2>1, <2>2, <2>3 DEF LeaseInv, ReceiptInv
  <2>5. OthersKept
    BY <1>5, Spared DEF CapacityInv, OthersKept
  <2>6. DrainInv' /\ RowInv'
    BY <1>2, <1>4, <2>5 DEF CapacityInv, DrainInv, RowInv, OthersKept, Claimants
  <2>7. QuietInv'
    BY <1>2, <2>1 DEF QuietInv, QueueQuiet, NoRunning
  <2>8. Shrunk({})
    <3>1. \A q \in Claimants : q \notin leases
      BY <2>1, Owns DEF CapacityInv, LeaseInv
    <3>. QED  BY <2>1, <3>1 DEF Shrunk, Live
  <2>9. HeldInv'
    BY <1>2, <2>5, <2>8, HeldStep DEF CapacityInv, OthersKept, Claimants
  <2>. QED  BY <1>1, <2>4, <2>6, <2>7, <2>9 DEF CapacityInv
<1>6. CASE /\ (Blocked /\ UNCHANGED storeVars) \/ Store(Remaining)
           /\ worker' = [Reaped EXCEPT ![a] = "dead"] /\ Goes(a, "dropping")
  <2>1. Shrunk({})
    <3>1. \A q \in Claimants : receipt # None => q # WorkOf[receipt]
      BY Owns DEF CapacityInv, TypeOK
    <3>. QED  BY <1>6, <3>1, Burial DEF CapacityInv, Store, Shrunk, Live, Remaining, Buried, storeVars
  <2>2. /\ \A n \in Natives \ {a} : worker'[n] = Reaped[n]
        /\ worker'[a] = "dead"
    BY <1>6, Burial, Owns DEF CapacityInv
  <2>3. AuditsFade
    <3>1. receipt' \in {receipt, None}
      BY <1>6 DEF Store, storeVars
    <3>2. \A b \in Audits : Reaped[b] \in {worker[b], "dead"}
      BY Owns DEF CapacityInv, TypeOK, Reaped
    <3>3. \A b \in Audits : receipt = b /\ receipt' # b => Reaped[b] = "dead"
      BY <1>6, Owns DEF CapacityInv, TypeOK, Store, storeVars, Reaped, Buried
    <3>. QED  BY <2>2, <3>1, <3>2, <3>3, Owns DEF AuditsFade
  <2>4. OthersKept
    BY <2>2, Spared, Owns DEF CapacityInv, OthersKept
  <2>5. LeaseInv' /\ ReceiptInv'
    BY <1>2, <1>4, <2>1, <2>3, SlotStep DEF CapacityInv
  <2>6. DrainInv' /\ RowInv'
    BY <1>2, <1>4, <2>4 DEF CapacityInv, DrainInv, RowInv, OthersKept, Claimants
  <2>7. QuietInv'
    BY <1>2, <1>4, <2>1, <2>3, QuietStep DEF CapacityInv, QueueQuiet, NoRunning
  <2>8. HeldInv'
    BY <1>2, <2>1, <2>4, HeldStep DEF CapacityInv, OthersKept, Claimants
  <2>. QED  BY <1>1, <2>5, <2>6, <2>7, <2>8 DEF CapacityInv
<1>. QED  BY <1>5, <1>6 DEF AuditBind

\* The command kills what is left of its worker before it removes the receipt.
LEMMA ClearStep ==
  ASSUME CapacityInv, NEW a \in Audits, AuditClear(a)
  PROVE  CapacityInv'
<1>1. TypeOK'
  BY OtherTypes DEF CapacityInv, AuditStep
<1>2. /\ UNCHANGED <<leases, stale, row, canary, drain, daemon, seen, picked, lapsed>>
      /\ command[a] = "clearing"
  BY DEF AuditClear, daemonVars
<1>3. /\ \A b \in Audits \ {a} : command'[b] = command[b]
      /\ command'[a] = "dropping" /\ receipt' # a
  BY Owns DEF CapacityInv, TypeOK, AuditClear, Goes
<1>4. Shrunk({}) /\ AuditsFade /\ OthersKept
  BY <1>2, Owns DEF CapacityInv, TypeOK, AuditClear, Shrunk, Live, AuditsFade, OthersKept
<1>5. LeaseInv' /\ ReceiptInv'
  BY <1>2, <1>3, <1>4, SlotStep DEF CapacityInv
<1>6. DrainInv' /\ RowInv'
  BY <1>2, <1>3, <1>4 DEF CapacityInv, DrainInv, RowInv, OthersKept, Claimants
<1>7. QuietInv'
  BY <1>2, <1>3, <1>4, QuietStep DEF CapacityInv, QueueQuiet, NoRunning
<1>8. HeldInv'
  BY <1>2, <1>4, HeldStep DEF CapacityInv, OthersKept, Claimants
<1>. QED  BY <1>1, <1>5, <1>6, <1>7, <1>8 DEF CapacityInv

\* The command gives its claim back.
LEMMA AuditDropStep ==
  ASSUME CapacityInv, NEW a \in Audits, AuditDrop(a)
  PROVE  CapacityInv'
<1>1. TypeOK'
  BY OtherTypes DEF CapacityInv, AuditStep
<1>2. /\ UNCHANGED <<row, canary, drain, daemon, seen, picked, lapsed>>
      /\ command[a] = "dropping"
  BY DEF AuditDrop, daemonVars
<1>3. /\ \A b \in Audits \ {a} : command'[b] = command[b]
      /\ command'[a] = "over"
  BY DEF CapacityInv, TypeOK, AuditDrop, Goes
<1>4. Shrunk({WorkOf[a]}) /\ AuditsFade /\ OthersKept
  BY Release DEF CapacityInv, AuditDrop, Released
<1>5. LeaseInv' /\ ReceiptInv'
  BY <1>2, <1>3, <1>4, SlotStep DEF CapacityInv
<1>6. DrainInv' /\ RowInv'
  BY <1>2, <1>3, <1>4 DEF CapacityInv, DrainInv, RowInv, OthersKept, Claimants
<1>7. QuietInv'
  BY <1>2, <1>3, <1>4, QuietStep DEF CapacityInv, QueueQuiet, NoRunning
<1>8. HeldInv'
  <2>1. WorkOf[a] \notin Claimants /\ (picked' # None => picked \in Claimants)
    BY <1>2, Owns DEF CapacityInv, TypeOK, Claimants
  <2>. QED  BY <1>2, <1>4, <2>1, HeldStep DEF CapacityInv, OthersKept, Claimants
<1>. QED  BY <1>1, <1>5, <1>6, <1>7, <1>8 DEF CapacityInv

\* A worker that finds its receipt runs; any other gives up.
LEMMA VerifyStep ==
  ASSUME CapacityInv, NEW a \in Audits, WorkerVerifies(a)
  PROVE  CapacityInv'
<1>1. TypeOK'
  BY OtherTypes DEF CapacityInv
<1>2. /\ UNCHANGED <<leases, stale, receipt, command, row, canary, drain, daemon, seen, picked, lapsed>>
      /\ worker[a] = "waiting"
  BY DEF WorkerVerifies, storeVars, daemonVars
<1>3. /\ \A n \in Natives \ {a} : worker'[n] = worker[n]
      /\ worker'[a] = "dead" \/ (worker'[a] = "running" /\ receipt = a)
  BY Owns DEF CapacityInv, TypeOK, WorkerVerifies
<1>4. LeaseInv' /\ ReceiptInv'
  BY <1>2, <1>3, Owns DEF CapacityInv, LeaseInv, ReceiptInv
<1>5. DrainInv' /\ RowInv'
  BY <1>2, <1>3, Owns DEF CapacityInv, DrainInv, RowInv, Claimants
<1>6. QuietInv'
  BY <1>2, <1>3, Owns DEF CapacityInv, TypeOK, QuietInv, QueueQuiet, NoRunning
<1>7. HeldInv'
  BY <1>2, <1>3, Owns DEF CapacityInv, HeldInv, Live, Claimants
<1>. QED  BY <1>1, <1>4, <1>5, <1>6, <1>7 DEF CapacityInv

-----------------------------------------------------------------------------
(* Endings, faults and time. *)

LEMMA EndStep ==
  ASSUME CapacityInv, QueueWorkerEnds \/ NativeEnds
  PROVE  CapacityInv'
<1>1. TypeOK'
  BY OtherTypes DEF CapacityInv
<1>2. UNCHANGED <<leases, stale, receipt, command, canary, drain, daemon, seen, picked, lapsed>>
  BY DEF QueueWorkerEnds, NativeEnds, storeVars, daemonVars
<1>3. PICK n \in Natives : /\ worker[n] = "running" /\ \A m \in Natives \ {n} : worker'[m] = worker[m]
                           /\ worker'[n] = "dead" \/ (worker'[n] = "orphans" /\ n \in Audits)
                           /\ \A j \in Jobs : row'[j] = row[j] \/ (row'[j] = "done" /\ j = n)
  BY DEF CapacityInv, TypeOK, QueueWorkerEnds, NativeEnds, Natives
<1>4. LeaseInv' /\ ReceiptInv'
  BY <1>2, <1>3, Owns DEF CapacityInv, LeaseInv, ReceiptInv
<1>5. DrainInv'
  BY <1>2, <1>3, Owns DEF CapacityInv, DrainInv, Claimants
<1>6. RowInv'
  BY <1>2, <1>3, Owns DEF CapacityInv, RowInv, Claimants
<1>7. QuietInv'
  BY <1>2, <1>3, Owns DEF CapacityInv, TypeOK, QuietInv, QueueQuiet, NoRunning
<1>8. HeldInv'
  BY <1>2, <1>3, Owns DEF CapacityInv, HeldInv, Live, Claimants
<1>. QED  BY <1>1, <1>4, <1>5, <1>6, <1>7, <1>8 DEF CapacityInv

\* The daemon stops, perhaps between a dead audit's lease and its receipt.
LEMMA CrashStep ==
  ASSUME CapacityInv, DaemonCrash
  PROVE  CapacityInv'
<1>1. TypeOK'
  BY DaemonTypes DEF CapacityInv
<1>2. /\ UNCHANGED <<receipt, row, canary, command, lapsed>> /\ picked' = None /\ daemon' = "down"
      /\ drain' = IF drain = "daemon" THEN None ELSE drain
  BY DEF DaemonCrash
<1>3. /\ leases' \in {leases, Remaining} /\ stale' = stale \cap leases'
      /\ worker' \in {worker, Reaped}
  BY DEF DaemonCrash
<1>4. Shrunk({})
  <2>1. \A q \in Claimants : receipt # None => q # WorkOf[receipt]
    BY Owns DEF CapacityInv, TypeOK
  <2>2. \A q \in Claimants : q \in leases => q \in leases'
    BY <1>3, <2>1 DEF Remaining, Buried
  <2>. QED  BY <1>3, <2>2, Burial DEF CapacityInv, Shrunk, Live
<1>5. AuditsFade
  BY <1>2, <1>3, Owns DEF CapacityInv, TypeOK, Reaped, AuditsFade
<1>6. OthersKept
  BY <1>3, Spared DEF CapacityInv, OthersKept
<1>7. LeaseInv' /\ ReceiptInv'
  BY <1>2, <1>4, <1>5, SlotStep DEF CapacityInv
<1>8. DrainInv'
  BY <1>2, CapacityAssumption DEF CapacityInv, DrainInv
<1>9. RowInv'
  BY <1>2, <1>6 DEF CapacityInv, RowInv, OthersKept, Claimants
<1>10. QuietInv'
  BY <1>2, <1>4, <1>5, QuietStep DEF CapacityInv, QueueQuiet, NoRunning
<1>11. HeldInv'
  BY <1>2, <1>4, <1>6, HeldStep DEF CapacityInv, OthersKept, Claimants
<1>. QED  BY <1>1, <1>7, <1>8, <1>9, <1>10, <1>11 DEF CapacityInv

\* A claim lapses; one that the daemon should have refreshed is remembered.
LEMMA LapseStep ==
  ASSUME CapacityInv, NEW o \in Owners, Lapse(o)
  PROVE  CapacityInv'
<1>1. TypeOK'
  BY OtherTypes DEF CapacityInv
<1>2. /\ UNCHANGED <<leases, receipt, row, canary, worker, command, drain, daemon, seen, picked>>
      /\ stale' = stale \cup {o} /\ lapsed' = lapsed \cup ({o} \cap Refreshed)
  BY DEF Lapse
<1>3. LeaseInv' /\ ReceiptInv' /\ DrainInv' /\ RowInv'
  BY <1>2 DEF CapacityInv, LeaseInv, ReceiptInv, DrainInv, RowInv
<1>4. QuietInv'
  BY <1>2 DEF CapacityInv, QuietInv, QueueQuiet, NoRunning
<1>5. HeldInv'
  <2>1. \A j \in Jobs : worker[j] = "running" \/ j = picked => j \in Refreshed
    BY DEF CapacityInv, RowInv, Refreshed
  <2>2. \A c \in Canaries : canary[c] = "running" => c \in Refreshed
    BY DEF Refreshed
  <2>. QED  BY <1>2, <2>1, <2>2 DEF CapacityInv, HeldInv, Live
<1>. QED  BY <1>1, <1>3, <1>4, <1>5 DEF CapacityInv

-----------------------------------------------------------------------------
\* Every step keeps the invariant.
LEMMA CapacityStep ==
  ASSUME CapacityInv, [Next]_vars
  PROVE  CapacityInv'
<1>1. CASE Daemon \/ SkipTick \/ DaemonCrash \/ DaemonStarts
  BY <1>1, TickSteps, DropStep, KeepSteps, DisownStep, SelectStep, SelectNoneStep, StartStep, SpawnStep,
     CanaryWaitStep, LaunchStep, ReconcileStep, CrashStep DEF Daemon
<1>2. ASSUME NEW a \in Audits, AuditStep(a) \/ AuditCrash(a) \/ WorkerVerifies(a)
      PROVE  CapacityInv'
  BY <1>2, CommandSteps, ClaimStep, AuditSpawnStep, BindStep, ClearStep, AuditDropStep, VerifyStep
     DEF AuditStep
<1>3. CASE UNCHANGED vars
  BY <1>3 DEF vars, CapacityInv, TypeOK, LeaseInv, ReceiptInv, DrainInv, RowInv, QuietInv, QueueQuiet,
              NoRunning, HeldInv, Live
<1>. QED  BY <1>1, <1>2, <1>3, QueueSteps, EndStep, LapseStep DEF Next

\* A set without two elements has at most one.
LEMMA AtMostOne ==
  ASSUME NEW S, \A x, y \in S : x = y
  PROVE  Cardinality(S) <= 1
<1>1. CASE S = {}
  BY <1>1, FS_EmptySet
<1>2. CASE S # {}
  <2>1. PICK x \in S : TRUE
    BY <1>2
  <2>2. S = {x}
    BY <2>1
  <2>. QED  BY <2>2, FS_Singleton
<1>. QED  BY <1>1, <1>2

\* Two workers with claims have the same claim; an audit's receipt excludes both.
LEMMA SlotShared ==
  ASSUME CapacityInv
  PROVE  OneNativeWorker /\ AuditExcludesQueue
<1>1. \A n \in Busy \ Unguarded : n \in Live \/ (n \in Audits /\ receipt = n)
  BY DEF CapacityInv, TypeOK, Busy, Unguarded, Natives, RowInv, HeldInv, ReceiptInv
<1>2. \A n \in Live : \A a \in Audits : receipt = a => n \in Works
  BY Owns DEF CapacityInv, ReceiptInv, Live
<1>3. \A n, m \in Busy \ Unguarded : n = m
  <2>1. ASSUME NEW n \in Busy \ Unguarded, NEW m \in Busy \ Unguarded PROVE n = m
    <3>1. CASE n \in Claimants /\ m \in Claimants
      BY <1>1, <3>1, Owns DEF CapacityInv, LeaseInv, Live
    <3>2. CASE n \in Audits /\ m \in Audits
      BY <3>2 DEF CapacityInv, ReceiptInv, Busy
    <3>3. \A x \in Claimants, a \in Audits : ~(x \in Busy \ Unguarded /\ a \in Busy)
      BY <1>1, <1>2, Owns DEF CapacityInv, ReceiptInv, Busy
    <3>. QED  BY <3>1, <3>2, <3>3 DEF Busy, Natives, Claimants
  <2>. QED  BY <2>1
<1>4. OneNativeWorker
  BY <1>3, AtMostOne DEF OneNativeWorker
<1>5. AuditExcludesQueue
  <2>1. ASSUME NEW a \in Audits \cap Busy, NEW j \in Busy \cap Jobs PROVE FALSE
    <3>1. receipt = a /\ worker[a] \in {"running", "orphans"}
      BY DEF CapacityInv, ReceiptInv, Busy
    <3>2. NoRunning
      BY <3>1, Owns DEF CapacityInv, QuietInv, QueueQuiet
    <3>3. row[j] = "running"
      BY DEF CapacityInv, RowInv, Busy
    <3>. QED  BY <3>2, <3>3 DEF NoRunning
  <2>. QED  BY <2>1 DEF AuditExcludesQueue
<1>. QED  BY <1>4, <1>5

\* A host never runs two native workers at once, not two of one runtime and not
\* two of different ones: a second worker runs only beside one whose own claim was
\* lost first (claim_or_heartbeat and reconcile_exclusive_process in
\* daemon_worker_capacity.rs).
THEOREM OneWorkerRuns == Spec => []OneNativeWorker
<1>1. Init => CapacityInv
  BY CapacityInit
<1>2. CapacityInv /\ [Next]_vars => CapacityInv'
  BY CapacityStep
<1>3. CapacityInv => OneNativeWorker
  BY SlotShared
<1>. QED  BY <1>1, <1>2, <1>3, PTL DEF Spec

\* While a sandbox audit's processes run no queue worker does, whatever crashed and
\* whichever leases lapsed (claim_exclusive_sandbox_until, bind_exclusive_process,
\* clear_exclusive_process).
THEOREM AuditsKeepQueueOut == Spec => []AuditExcludesQueue
<1>1. Init => CapacityInv
  BY CapacityInit
<1>2. CapacityInv /\ [Next]_vars => CapacityInv'
  BY CapacityStep
<1>3. CapacityInv => AuditExcludesQueue
  BY SlotShared
<1>. QED  BY <1>1, <1>2, <1>3, PTL DEF Spec
=============================================================================
