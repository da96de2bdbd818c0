--------------------------- MODULE CustodyProofs ----------------------------
(***************************************************************************)
(* No job has two worker trees; leases, cancellations, stops and           *)
(* admissions are in order; and the system is an exclusive executor:       *)
(* theorems of a host without boot requeue whose operator does not bump    *)
(* jobs, for every number of jobs, workers, crashes and reboots and every  *)
(* choice of faults.                                                       *)
(***************************************************************************)
EXTENDS ExecutionProofs, WorkerCustody, ExecutionOrder

\* The live process that holds its job's receipt: it may start to act.
Authorized(g) == RootAlive(g) /\ receipt[proc[g].job] = g

\* Processes end, or do what their receipt allows.
Wanes ==
  \A g \in Gen : /\ proc'[g].job = proc[g].job
                 /\ proc'[g].st \in LiveStates => RootAlive(g)
                 /\ proc'[g].st \in ActingStates => Acting(g) \/ Authorized(g)
                 /\ proc'[g].on # NoTarget => TreeAlive(g)
                 /\ ~Pending(proc'[g].snap)

\* A transaction is kept or dropped, or moves on when its tree is gone.
TxnMoves(j) ==
  \/ txn'[j] \in {txn[j], NoTxn}
  \/ /\ txn[j] # NoTxn
     /\ txn'[j].gen = txn[j].gen /\ txn'[j].phase \in Phases
     /\ txn'[j].phase # "frozen" => txn[j].phase # "frozen" \/ TreeGone(txn[j].gen)

\* A receipt is kept, or removed with its process gone.
ReceiptKept(j) ==
  \/ receipt'[j] = receipt[j]
  \/ receipt'[j] = NoGen /\ ~OwnerAlive(j)

Files == \A j \in Job : /\ ReceiptKept(j) /\ TxnMoves(j)
                        /\ child'[j] \in {child[j], NoGen}

\* A job returns to pending only when it is quiet.
Replays == \A j \in Job : Pending(jobs'[j]) => Pending(jobs[j]) \/ Quiet(j)

\* What every step keeps.
Guarded == Custody' /\ Replays

-----------------------------------------------------------------------------
(* Receipts, transactions, processes and rows. *)

\* What is said of a tree that may not act stays true while processes wane.
LEMMA Waned ==
  ASSUME IInv, TreeInv, Wanes, NEW j \in Job, NEW g \in Gen
  PROVE  /\ TreeAlive(g)' => TreeAlive(g) \/ Authorized(g)
         /\ TreeGone(g) => TreeGone(g)'
         /\ OnlyTree(j, g) /\ receipt[j] \in {NoGen, g} => OnlyTree(j, g)'
<1>1. \A h \in Gen : TreeAlive(h)' => TreeAlive(h) \/ Authorized(h)
  BY DEF Wanes, TreeAlive, Acting
<1>2. TreeGone(g) => TreeGone(g)'
  BY <1>1 DEF Wanes, TreeGone, Authorized, RootAlive
<1>3. OnlyTree(j, g) /\ receipt[j] \in {NoGen, g} => OnlyTree(j, g)'
  BY <1>1 DEF Wanes, OnlyTree, Authorized, NoGen, Gen
<1>. QED  BY <1>1, <1>2, <1>3

\* So does that a job is quiet.
LEMMA StaysQuiet ==
  ASSUME Wanes, NEW j \in Job, Quiet(j), receipt'[j] \in {receipt[j], NoGen}
  PROVE  Quiet(j)'
<1>1. \A h \in Gen : TreeAlive(h)' => TreeAlive(h) \/ Authorized(h)
  BY DEF Wanes, TreeAlive, Acting
<1>. QED  BY <1>1 DEF Wanes, Quiet, Authorized, RootAlive, NoGen, Gen

\* Custody of the trees is kept by every step that adds no process and no file.
LEMMA TreeKept ==
  ASSUME IInv, IInv', TreeInv, Wanes, Files, Replays,
         spawned' = spawned, submitted' >= submitted
  PROVE  TreeInv'
<1> USE DEF TreeInv
<1>1. ReceiptOwns'
  <2> SUFFICES ASSUME NEW j \in Job, receipt'[j] # NoGen
               PROVE  /\ receipt'[j] <= spawned'
                      /\ proc'[receipt'[j]].job = j
                      /\ proc'[receipt'[j]].st \in LiveStates
                           => /\ OnlyTree(j, receipt[j])'
                              /\ child'[j] \in {NoGen, receipt'[j]}
    BY DEF ReceiptOwns, RootAlive
  <2>1. receipt'[j] = receipt[j] /\ receipt[j] \in Gen
    BY DEF Files, ReceiptKept, IInv, TypeOK, DurableOK
  <2>2. proc'[receipt[j]].job = j /\ receipt[j] <= spawned
    BY <2>1 DEF Wanes, ReceiptOwns
  <2>3. ASSUME proc'[receipt[j]].st \in LiveStates
        PROVE  OnlyTree(j, receipt[j]) /\ child'[j] \in {NoGen, receipt[j]}
    BY <2>1, <2>3 DEF Wanes, ReceiptOwns, Files
  <2>4. ASSUME proc'[receipt[j]].st \in LiveStates PROVE OnlyTree(j, receipt[j])'
    <3>1. PICK g \in Gen : g = receipt[j]
      BY <2>1
    <3>2. OnlyTree(j, g)'
      BY <2>3, <2>4, <3>1, Waned
    <3>. QED  BY <2>1, <3>1, <3>2 DEF OnlyTree
  <2>. QED  BY <2>1, <2>2, <2>3, <2>4
<1>2. TxnOwns'
  <2> SUFFICES ASSUME NEW j \in Job, txn'[j] # NoTxn
               PROVE  /\ txn'[j].gen \in Gen /\ txn'[j].gen <= spawned'
                      /\ proc'[txn'[j].gen].job = j
                      /\ txn'[j].phase \in Phases
                      /\ receipt'[j] \in {NoGen, txn'[j].gen}
                      /\ OnlyTree(j, txn[j].gen)'
                      /\ txn'[j].phase # "frozen" => TreeGone(txn[j].gen)'
    BY DEF TxnOwns
  <2> DEFINE g == txn[j].gen
  <2>1. txn[j] # NoTxn /\ txn'[j].gen = g /\ txn'[j].phase \in Phases
    BY DEF Files, TxnMoves, TxnOwns
  <2>2. txn'[j].phase # "frozen" => TreeGone(g)
    BY <2>1 DEF Files, TxnMoves, TxnOwns
  <2>3. /\ g \in Gen /\ g <= spawned /\ proc[g].job = j
        /\ receipt[j] \in {NoGen, g} /\ OnlyTree(j, g)
    BY <2>1 DEF TxnOwns
  <2>4. receipt'[j] \in {NoGen, g} /\ proc'[g].job = j
    BY <2>3 DEF Files, ReceiptKept, Wanes
  <2> HIDE DEF g
  <2>5. PICK h \in Gen : h = g
    BY <2>3
  <2>6. OnlyTree(j, h)' /\ (txn'[j].phase # "frozen" => TreeGone(h)')
    BY <2>2, <2>3, <2>5, Waned
  <2>. QED  BY <2>1, <2>3, <2>4, <2>5, <2>6 DEF OnlyTree, TreeGone, RootAlive, TreeAlive, Acting
<1>3. PendingQuiet'
  <2>1. \A j \in Job : receipt'[j] \in {receipt[j], NoGen}
    BY DEF Files, ReceiptKept
  <2>2. ASSUME NEW j \in Job, Pending(jobs'[j]) PROVE Quiet(j)'
    <3>1. Quiet(j)
      BY <2>2 DEF Replays, PendingQuiet
    <3>. QED  BY <2>1, <3>1, StaysQuiet
  <2>. QED  BY <2>2 DEF PendingQuiet, Wanes
<1>4. Unsubmitted'
  <2>1. \A j \in Job : j > submitted' => j > submitted
    BY DEF IInv, TypeOK, QueueOK, Job
  <2>2. ASSUME NEW j \in Job, j > submitted
        PROVE  receipt'[j] = NoGen /\ txn'[j] = NoTxn /\ \A g \in Gen : proc'[g].job # j
    BY <2>2 DEF Unsubmitted, Files, ReceiptKept, TxnMoves, Wanes
  <2>. QED  BY <2>1, <2>2 DEF Unsubmitted
<1>5. ActingHasReceipt'
  <2> SUFFICES ASSUME NEW g \in Gen, Acting(g)'
               PROVE  receipt'[proc'[g].job] = g
    BY DEF ActingHasReceipt
  <2>1. Acting(g) \/ Authorized(g)
    BY DEF Wanes, Acting
  <2>2. RootAlive(g) /\ receipt[proc[g].job] = g
    BY <2>1 DEF ActingHasReceipt, Acting, RootAlive, ActingStates, Authorized
  <2>3. proc[g].job \in Job
    BY <2>2 DEF IInv, TypeOK, ProcessOK
  <2>4. OwnerAlive(proc[g].job)
    BY <2>2 DEF OwnerAlive, NoGen, Gen
  <2>. QED  BY <2>2, <2>3, <2>4 DEF Files, ReceiptKept, Wanes
<1>6. OneTreePerJob'
  <2> SUFFICES ASSUME NEW g \in Gen, NEW h \in Gen, g # h, TreeAlive(g)', TreeAlive(h)',
                      proc'[g].job = proc'[h].job
               PROVE  FALSE
    BY DEF OneTreePerJob
  <2>1. proc[g].job = proc[h].job
    BY DEF Wanes
  <2>2. (TreeAlive(g) \/ Authorized(g)) /\ (TreeAlive(h) \/ Authorized(h))
    BY DEF Wanes, TreeAlive, Acting
  <2>3. ASSUME NEW a \in Gen, NEW b \in Gen, a # b, proc[a].job = proc[b].job,
               Authorized(a)
        PROVE  ~TreeAlive(b)
    <3>1. proc[a].job \in Job
      BY <2>3 DEF Authorized, IInv, TypeOK, ProcessOK
    <3>2. receipt[proc[a].job] = a /\ a # NoGen /\ RootAlive(a)
      BY <2>3 DEF Authorized, NoGen, Gen
    <3>3. OnlyTree(proc[a].job, a)
      BY <3>1, <3>2 DEF ReceiptOwns
    <3>. QED  BY <2>3, <3>3 DEF OnlyTree
  <2>4. ~(Authorized(g) /\ Authorized(h))
    BY <2>1 DEF Authorized
  <2>. QED  BY <2>1, <2>2, <2>3, <2>4 DEF OneTreePerJob
<1>. QED  BY <1>1, <1>2, <1>3, <1>4, <1>5, <1>6

-----------------------------------------------------------------------------
(* The memory of the tick. *)

\* A row that is pending after the step is the one from before, or a new job's.
RowsStay == \A j \in Job : Pending(jobs'[j]) => jobs'[j] = jobs[j] \/ j > submitted

\* A job the supervisor has in hand stays as its steps found it, whatever the
\* workers, the operator and the host do meanwhile.
LEMMA BesideTick ==
  ASSUME IInv, IInv', Custody, Wanes, RowsStay, submitted' >= submitted,
         UNCHANGED <<receipt, txn, spawned, child, bump, tickVars>>
  PROVE  Guarded
<1> USE DEF Custody
<1>0. UNCHANGED <<stage, step, cur, todo>>
  BY DEF tickVars
<1>1. Replays
  BY DEF Replays, RowsStay, TreeInv, Unsubmitted, Quiet
<1>2. TreeInv'
  BY <1>1, TreeKept DEF Files, ReceiptKept, TxnMoves
<1>3. ASSUME NEW j \in Job, Quiet(j) PROVE Quiet(j)'
  BY <1>3, StaysQuiet
<1>4. \A j \in Job : j <= submitted => j <= submitted' /\ (Pending(jobs'[j]) => jobs'[j] = jobs[j])
  BY DEF RowsStay, IInv, TypeOK, QueueOK, Job
<1>5. AdmitInv'
  <2>1. stage = "admit" /\ step = "receipt" => proc'[spawned].job = cur
    <3>1. stage = "admit" /\ step = "receipt" => spawned \in Gen
      BY ExecutionAssumption DEF TickInv, AdmitInv, IInv, TypeOK, TickOK, DurableOK, ProcessOK, Gen, NoGen
    <3>. QED  BY <3>1 DEF TickInv, AdmitInv, Wanes
  <2>2. InHand \subseteq Job /\ InHand' = InHand
    BY <1>0 DEF InHand, IInv, TypeOK, TickOK
  <2>. QED  BY <1>0, <1>3, <1>4, <2>1, <2>2 DEF TickInv, AdmitInv, Pending
<1>6. TerminateInv'
  <2>1. \A j \in Job : txn[j] # NoTxn => j <= submitted
    BY DEF TreeInv, Unsubmitted, IInv, TypeOK, QueueOK, Job
  <2>2. todo \subseteq Job
    BY DEF IInv, TypeOK, TickOK
  <2>3. step \in {"save", "kill", "dead", "release", "mark", "settle", "outcome"} => cur \in Job
    BY DEF IInv, TypeOK, TickOK
  <2>4. step = "save" => OnlyTree(cur, receipt[cur])'
    <3>1. SUFFICES ASSUME step = "save" PROVE OnlyTree(cur, receipt[cur])'
      OBVIOUS
    <3>2. PICK j \in Job : j = cur
      BY <2>3, <3>1
    <3>3. PICK g \in Gen : g = receipt[cur]
      BY <3>1, <3>2 DEF TickInv, TerminateInv, IInv, TypeOK, DurableOK
    <3>4. OnlyTree(j, g)'
      BY <3>1, <3>2, <3>3, Waned DEF TickInv, TerminateInv
    <3>. QED  BY <1>0, <3>2, <3>3, <3>4 DEF OnlyTree
  <2>5. step = "dead" => TreeGone(txn[cur].gen)'
    <3>1. SUFFICES ASSUME step = "dead" PROVE TreeGone(txn[cur].gen)'
      OBVIOUS
    <3>2. PICK g \in Gen : g = txn[cur].gen
      BY <2>3, <3>1 DEF TickInv, TerminateInv, TreeInv, TxnOwns
    <3>3. TreeGone(g)'
      BY <2>3, <3>1, <3>2, Waned DEF TickInv, TerminateInv
    <3>. QED  BY <1>0, <3>2, <3>3 DEF TreeGone, RootAlive, TreeAlive, Acting
  <2>6. /\ Terminating /\ step # "enter" => \A j \in todo : ~Pending(jobs'[j]) /\ j <= submitted'
        /\ step = "save" => cur <= submitted'
        /\ Terminating /\ step \in {"save", "kill", "dead", "release", "mark", "settle", "outcome"}
             => ~Pending(jobs'[cur])
    BY <1>4, <2>1, <2>2, <2>3 DEF TickInv, TerminateInv, Pending
  <2>7. Terminating' = Terminating /\ Act' = Act
    BY <1>0 DEF Terminating, Act
  <2>. QED  BY <1>0, <2>4, <2>5, <2>6, <2>7 DEF TickInv, TerminateInv
<1>7. DropInv'
  <2>1. InHand' = InHand /\ InHand \subseteq Job /\ Terminating' = Terminating
    BY <1>0 DEF InHand, IInv, TypeOK, TickOK, Terminating
  <2>2. stage = "reap" => \A j \in InHand : child[j] \in Gen
    BY <2>1 DEF TickInv, DropInv, IInv, TypeOK, ProcessOK
  <2>. QED  BY <1>0, <2>1, <2>2 DEF TickInv, DropInv, Wanes, RootAlive
<1>8. SettledInv'
  <2> SUFFICES ASSUME NEW j \in Job, Pending(jobs'[j]), txn[j] # NoTxn
               PROVE  /\ Finalized(j)'
                      /\ \/ stage \in EarlyStages
                         \/ Terminating /\ step \in {"forget", "clear"} /\ cur = j
    BY <1>0 DEF SettledInv, Terminating, Pending, EarlyStages
  <2>1. jobs'[j] = jobs[j]
    BY DEF RowsStay, TreeInv, Unsubmitted
  <2>2. Finalized(j) /\ \/ stage \in EarlyStages
                        \/ Terminating /\ step \in {"forget", "clear"} /\ cur = j
    BY <2>1 DEF TickInv, SettledInv
  <2>3. Finalized(j)'
    BY <2>1, <2>2 DEF Finalized, Pending
  <2>. QED  BY <2>2, <2>3
<1>. QED  BY <1>0, <1>1, <1>2, <1>5, <1>6, <1>7, <1>8 DEF Guarded, TickInv

\* No job is pending with a transaction once the tick has cleaned up.
LEMMA SettledKept ==
  ASSUME IInv, SettledInv,
         \A j \in Job : /\ Pending(jobs'[j]) => jobs'[j] = jobs[j] \/ txn'[j] = NoTxn
                        /\ txn'[j] \in {txn[j], NoTxn} \/ ~Pending(jobs'[j]),
         \/ stage' \in EarlyStages
         \/ stage \notin EarlyStages /\ ~(Terminating /\ step \in {"forget", "clear"})
  PROVE  SettledInv'
  BY DEF SettledInv, Finalized, Pending, EarlyStages, Terminating

\* A stage that is about to be entered relies on nothing else.
LEMMA FreshStage ==
  ASSUME step' = "enter", todo' = {}, cur' = NoJob, bump' = NoBump, SettledInv'
  PROVE  TickInv'
  BY DEF TickInv, AdmitInv, TerminateInv, DropInv, InHand

\* What a stage must know of the jobs it is going to visit.
LEMMA Visited ==
  ASSUME NEW S \in SUBSET Job, Visit(S), stage # "boot", bump' = NoBump, SettledInv',
         stage = "admit" => \A j \in S : /\ Quiet(j)' /\ ~Pending(jobs'[j])
                                         /\ txn'[j] = NoTxn /\ j <= submitted',
         Terminating => \A j \in S : ~Pending(jobs'[j]) /\ j <= submitted',
         stage = "reap" => \A j \in S : child'[j] # NoGen /\ ~RootAlive(child[j])'
  PROVE  TickInv'
<1>1. CASE S = {}
  BY <1>1, FreshStage DEF Visit, EndStage
<1>2. CASE S # {}
  <2>1. step' = "next" /\ todo' = S /\ cur' = NoJob /\ stage' = stage
    BY <1>2 DEF Visit
  <2>2. NoJob \notin S
    BY DEF NoJob, Job
  <2>3. InHand' = S /\ Terminating' = Terminating
    BY <2>1, <2>2 DEF InHand, Terminating
  <2>. QED  BY <2>1, <2>2, <2>3 DEF TickInv, AdmitInv, TerminateInv, DropInv
<1>. QED  BY <1>1, <1>2

-----------------------------------------------------------------------------
(* The workers. *)

\* Process g may become p.
Wane(g, p) ==
  /\ p.job = proc[g].job
  /\ p.st \in LiveStates => RootAlive(g)
  /\ p.st \in ActingStates => Acting(g) \/ Authorized(g)
  /\ p.on # NoTarget => TreeAlive(g)
  /\ ~Pending(p.snap)

\* Processes left alone wane.
LEMMA StillWanes ==
  ASSUME IInv, Custody, UNCHANGED proc
  PROVE  Wanes
  BY DEF Wanes, Custody, TreeInv, PendingQuiet, RootAlive, Acting, TreeAlive

\* So they do if one becomes what it may.
LEMMA OneWanes ==
  ASSUME IInv, Custody, NEW g, NEW p, g \in Gen => Wane(g, p),
         proc' = [proc EXCEPT ![g] = p]
  PROVE  Wanes
<1>1. proc \in [Gen -> Process] /\ \A h \in Gen : ~Pending(proc[h].snap)
  BY DEF IInv, TypeOK, ProcessOK, Custody, TreeInv, PendingQuiet
<1>2. \A h \in Gen : proc'[h] = proc[h] => Wane(h, proc'[h])
  BY <1>1 DEF Wane, RootAlive, Acting, TreeAlive
<1>3. \A h \in Gen : Wane(h, proc'[h])
  BY <1>1, <1>2
<1>. QED  BY <1>3 DEF Wanes, Wane

\* A worker step on its process and the queue keeps custody.
LEMMA WorkerBeside ==
  ASSUME IInv, IInv', Custody, NEW g \in Gen, NEW p, Wane(g, p),
         proc' = [proc EXCEPT ![g] = p], NoReplay(jobs, jobs'),
         UNCHANGED <<receipt, txn, spawned, child, hostVars, tickVars>>
  PROVE  Guarded
<1>1. Wanes
  BY OneWanes
<1>2. RowsStay /\ submitted' >= submitted
  BY DEF NoReplay, RowsStay, hostVars, IInv, TypeOK, QueueOK
<1>. QED  BY <1>1, <1>2, BesideTick DEF hostVars

\* An acting worker may become any record of its job without a pending row.
LEMMA ActingShapes ==
  ASSUME IInv, Custody, NEW g \in Gen, Acting(g)
  PROVE  /\ \A p \in Process : p.job = proc[g].job /\ ~Pending(p.snap) => Wane(g, p)
         /\ \A s \in ProcStates : Wane(g, In(g, s)) /\ Wane(g, Stopped(g, s))
         /\ Wane(g, Gone(proc[g]))
         /\ proc[g].job \in Job
         /\ ~Pending(jobs[proc[g].job]) /\ ~Pending(proc[g].snap)
         /\ jobs \in Queue /\ jobs[proc[g].job] \in Row /\ proc[g].snap \in Row
         /\ \A s \in ProcStates, r \in Row :
              ~Pending(r) => /\ Wane(g, [In(g, s) EXCEPT !.snap = r])
                             /\ Wane(g, [In(g, s) EXCEPT !.left = Target, !.snap = r])
<1>0. RootAlive(g) /\ TreeAlive(g)
  BY DEF Acting, RootAlive, TreeAlive, ActingStates
<1>1. proc[g] \in Process /\ proc[g].job \in Job /\ ~Pending(proc[g].snap) /\ jobs \in Queue
  BY <1>0 DEF IInv, TypeOK, ProcessOK, QueueOK, Custody, TreeInv, PendingQuiet
<1>2. \A p \in Process : p.job = proc[g].job /\ ~Pending(p.snap) => Wane(g, p)
  BY <1>0 DEF Wane
<1>3. ASSUME NEW s \in ProcStates
      PROVE  /\ Wane(g, In(g, s)) /\ Wane(g, Stopped(g, s))
             /\ \A r \in Row :
                  ~Pending(r) => /\ Wane(g, [In(g, s) EXCEPT !.snap = r])
                                 /\ Wane(g, [In(g, s) EXCEPT !.left = Target, !.snap = r])
  <2>1. In(g, s) \in Process /\ In(g, s).job = proc[g].job /\ In(g, s).snap = proc[g].snap
    BY <1>1 DEF In, Process
  <2>2. /\ Stopped(g, s) \in Process /\ Stopped(g, s).job = proc[g].job
        /\ Stopped(g, s).snap = Absent
    BY <2>1, NewRows DEF Stopped, Process
  <2>3. ASSUME NEW r \in Row, NEW p \in {[In(g, s) EXCEPT !.snap = r],
                                        [In(g, s) EXCEPT !.left = Target, !.snap = r]}
        PROVE  p \in Process /\ p.job = proc[g].job /\ p.snap = r
    BY <2>1 DEF Process
  <2>4. ~Pending(Absent)
    BY DEF Pending, Absent
  <2>5. Wane(g, In(g, s)) /\ Wane(g, Stopped(g, s))
    BY <1>1, <1>2, <2>1, <2>2, <2>4
  <2>6. ASSUME NEW r \in Row, ~Pending(r),
               NEW p \in {[In(g, s) EXCEPT !.snap = r],
                         [In(g, s) EXCEPT !.left = Target, !.snap = r]}
        PROVE  Wane(g, p)
    BY <1>2, <2>3, <2>6
  <2>. QED  BY <2>5, <2>6
<1>4. Wane(g, Gone(proc[g]))
  <2>1. /\ Gone(proc[g]) \in Process /\ Gone(proc[g]).job = proc[g].job
        /\ Gone(proc[g]).snap = Absent
    BY <1>1, NewRows DEF Gone, Process, ProcStates
  <2>. QED  BY <1>2, <2>1 DEF Pending, Absent
<1>5. ~Pending(jobs[proc[g].job])
  BY <1>0, <1>1 DEF Custody, TreeInv, PendingQuiet, Quiet
<1>6. jobs[proc[g].job] \in Row /\ proc[g].snap \in Row
  BY <1>1 DEF Queue, Process
<1>. QED  BY <1>1, <1>2, <1>3, <1>4, <1>5, <1>6

\* Writing back a row that is not pending keeps custody, conflict or not.
LEMMA WriteBackGuarded ==
  ASSUME IInv, IInv', Custody, NEW g \in Gen, Acting(g), NEW r \in Row, ~Pending(r),
         NEW p \in Process, p.job = proc[g].job, WriteBack(g, r, p)
  PROVE  Guarded
<1>1. CASE UpdateConflict(jobs, proc[g].job, r)
  <2>1. Wane(g, Stopped(g, "failed"))
    BY ActingShapes DEF ProcStates
  <2>. QED  BY <1>1, <2>1, UnchangedNoReplay, WorkerBeside DEF WriteBack, Access
<1>2. CASE ~UpdateConflict(jobs, proc[g].job, r)
  <2>1. Wane(g, [p EXCEPT !.snap = r])
    <3>1. /\ [p EXCEPT !.snap = r] \in Process
          /\ [p EXCEPT !.snap = r].job = proc[g].job /\ [p EXCEPT !.snap = r].snap = r
      BY DEF Process
    <3>. QED  BY <3>1, ActingShapes
  <2>2. NoReplay(jobs, Update(jobs, proc[g].job, r))
    BY ActingShapes, PutNoReplay DEF Update
  <2>. QED  BY <1>2, <2>1, <2>2, WorkerBeside DEF WriteBack, Access
<1>. QED  BY <1>1, <1>2

\* Every step of a worker keeps custody: it acts only with the receipt of its job,
\* and never writes a pending row back.
LEMMA WorkerGuarded ==
  ASSUME IInv, IInv', Custody, NEW g \in Gen, WorkerStep(g)
  PROVE  Guarded
<1> DEFINE j == proc[g].job
<1> USE UnchangedNoReplay
<1>1. CASE Lock(g)
  <2>1. Wanes
    BY <1>1, StillWanes DEF Lock, processVars
  <2>. QED  BY <1>1, <2>1, BesideTick
            DEF Lock, RowsStay, durableVars, processVars, hostVars, IInv, TypeOK, QueueOK
<1>2. CASE CheckAuthority(g)
  <2>1. proc[g] \in Process /\ RootAlive(g) /\ ~Pending(proc[g].snap)
    BY <1>2 DEF CheckAuthority, Runs, IInv, TypeOK, ProcessOK, Custody, TreeInv, PendingQuiet
  <2>2. Wane(g, Gone(proc[g]))
    BY <2>1 DEF Gone, Process, Wane, TreeAlive, Pending, Absent, LiveStates, ActingStates
  <2>3. receipt[j] = g => Wane(g, In(g, "authorized"))
    BY <2>1 DEF In, Process, Wane, Authorized, TreeAlive
  <2>. QED  BY <1>2, <2>2, <2>3, WorkerBeside DEF CheckAuthority, durableVars
<1>3. SUFFICES ASSUME Acting(g), ~Lock(g), ~CheckAuthority(g) PROVE Guarded
  BY <1>1, <1>2 DEF WorkerStep, OpenJob, BeginTargets, RefuseJob, Dispatch,
     LeaseUnavailable, SkipTarget, FinishTarget, Progress, SeeCancel, SaveOutcome, Publish, FinishShip,
     AwaitCancellation, RequeueDeferred, EndUncertain, PersistUncertain, WorkerError,
     Acting, ActingStates, LiveStates, ProcStates
<1>4. /\ j \in Job /\ ~Pending(jobs[j]) /\ ~Pending(proc[g].snap)
      /\ jobs \in Queue /\ jobs[j] \in Row /\ proc[g].snap \in Row /\ proc[g] \in Process
  BY <1>3, ActingShapes DEF IInv, TypeOK, ProcessOK
<1> HIDE DEF j
<1>5. CASE OpenJob(g) \/ BeginTargets(g) \/ SeeCancel(g) \/ AwaitCancellation(g)
  <2>1. PICK p : Access(g, jobs, p) /\ Wane(g, p)
    <3>1. CASE OpenJob(g)
      BY <1>3, <1>4, <3>1, ActingShapes DEF OpenJob, ProcStates, j
    <3>2. CASE BeginTargets(g)
      BY <1>3, <1>4, <3>2, ActingShapes DEF BeginTargets, ProcStates, j
    <3>3. CASE SeeCancel(g)
      BY <1>3, <1>4, <3>3, ActingShapes DEF SeeCancel, ProcStates
    <3>4. CASE AwaitCancellation(g)
      BY <1>3, <1>4, <3>4, ActingShapes DEF AwaitCancellation, ProcStates, j
    <3>. QED  BY <1>5, <3>1, <3>2, <3>3, <3>4
  <2>. QED  BY <2>1, WorkerBeside DEF Access
<1>6. CASE RefuseJob(g)
  <2> DEFINE r == CancelWithProof(proc[g].snap, NoProof)
  <2>1. r \in Row /\ ~Pending(r)
    BY <1>4, RowTransitions DEF CancelWithProof, Row, Pending
  <2> HIDE DEF r
  <2>2. NoReplay(jobs, Update(jobs, j, r))
    BY <1>4, <2>1, PutNoReplay DEF Update
  <2>3. NoReplay(jobs, jobs') /\ Access(g, jobs', Stopped(g, "failed"))
    BY <1>6, <2>2 DEF RefuseJob, Access, j, r
  <2>. QED  BY <1>3, <2>3, ActingShapes, WorkerBeside DEF Access, ProcStates
<1>7. ASSUME NEW t \in Target, NEW v \in Result
      PROVE  /\ WithResult(proc[g].snap, t, v) \in Row
             /\ ~Pending(WithResult(proc[g].snap, t, v))
  BY <1>4 DEF WithResult, Row, Pending
<1>8. ASSUME NEW t \in Target, Dispatch(g, t) PROVE Guarded
  <2>1. [proc[g] EXCEPT !.on = t] \in Process /\ [proc[g] EXCEPT !.on = t].job = proc[g].job
    BY <1>4 DEF Process
  <2>. QED  BY <1>3, <1>7, <1>8, <2>1, WriteBackGuarded DEF Dispatch, Result
<1>9. ASSUME NEW t \in Target, LeaseUnavailable(g, t) PROVE Guarded
  <2>1. In(g, "deferring") \in Process /\ In(g, "deferring").job = proc[g].job
    BY <1>4 DEF Process, In, ProcStates
  <2>. QED  BY <1>3, <1>7, <1>9, <2>1, WriteBackGuarded DEF LeaseUnavailable, Result
<1>10. ASSUME NEW t \in Target, SkipTarget(g, t) PROVE Guarded
  <2> DEFINE p == [proc[g] EXCEPT !.left = proc[g].left \ {t}]
  <2>1. p \in Process /\ p.job = proc[g].job
    BY <1>4 DEF Process
  <2>. QED  BY <1>3, <1>7, <1>10, <2>1, WriteBackGuarded DEF SkipTarget, Result
<1>11. ASSUME NEW v \in {"pass", "fail"}, FinishTarget(g, v) PROVE Guarded
  <2> DEFINE p == [proc[g] EXCEPT !.on = NoTarget, !.left = proc[g].left \ {proc[g].on}]
  <2>1. p \in Process /\ p.job = proc[g].job /\ proc[g].on \in Target
    BY <1>4, <1>11 DEF Process, FinishTarget
  <2>. QED  BY <1>3, <1>7, <1>11, <2>1, WriteBackGuarded DEF FinishTarget, Result
<1>12. CASE Progress(g)
  BY <1>3, <1>4, <1>12, WriteBackGuarded DEF Progress
<1>13. CASE SaveOutcome(g)
  <2>1. Complete(proc[g].snap) \in Row /\ ~Pending(Complete(proc[g].snap))
    BY <1>4, RowTransitions, QueueAssumption DEF Complete, Row, Pending, Live, Final
  <2>2. Wane(g, [In(g, "publish") EXCEPT !.snap = Complete(proc[g].snap)])
    BY <1>3, <2>1, ActingShapes DEF ProcStates
  <2>. QED  BY <1>13, <2>2, WorkerBeside DEF SaveOutcome
<1>14. CASE Publish(g)
  <2>1. NoReplay(jobs, Update(jobs, j, proc[g].snap))
    BY <1>4, PutNoReplay DEF Update
  <2>2. NoReplay(jobs, jobs)
    BY DEF NoReplay
  <2>3. \A s \in {"failed", "ended"} : Wane(g, Stopped(g, s))
    BY <1>3, ActingShapes DEF ProcStates
  <2>4. PICK s \in {"failed", "ended"} : Access(g, jobs', Stopped(g, s)) /\ NoReplay(jobs, jobs')
    BY <1>14, <2>1, <2>2 DEF Publish, Access, j
  <2>. QED  BY <2>3, <2>4, WorkerBeside DEF Access
<1>15. CASE FinishShip(g) \/ PersistUncertain(g)
  BY <1>3, <1>15, ActingShapes, WorkerBeside DEF FinishShip, PersistUncertain
<1>16. CASE WorkerError(g)
  BY <1>3, <1>16, ActingShapes, WorkerBeside DEF WorkerError, ProcStates
<1>17. CASE RequeueDeferred(g)
  <2>1. Running(jobs[j]) => NoReplay(jobs, RequeueDeferredDaemonWorker(jobs, j))
    BY <1>4, EndsNoReplay
  <2>2. NoReplay(jobs, jobs)
    BY DEF NoReplay
  <2>3. Wane(g, Stopped(g, "parked")) /\ Wane(g, Gone(proc[g]))
    BY <1>3, ActingShapes DEF ProcStates
  <2>4. PICK p \in {Stopped(g, "parked"), Gone(proc[g])} :
           Access(g, jobs', p) /\ NoReplay(jobs, jobs')
    BY <1>17, <2>1, <2>2 DEF RequeueDeferred, Access, j
  <2>. QED  BY <2>3, <2>4, WorkerBeside DEF Access
<1>18. CASE EndUncertain(g)
  <2> DEFINE q == CompleteRunningUncertain(jobs, j)
  <2>1. NoReplay(jobs, q) /\ q \in Queue
    BY <1>4, EndsNoReplay, CompleteUncertainSafe
  <2>2. q[j] \in Row /\ ~Pending(q[j])
    BY <1>4, <2>1 DEF Queue, NoReplay
  <2> HIDE DEF q
  <2>3. /\ Wane(g, In(g, "parked")) /\ Wane(g, Gone(proc[g]))
        /\ Wane(g, [In(g, "persist") EXCEPT !.snap = q[j]])
    BY <1>3, <2>2, ActingShapes DEF ProcStates
  <2>4. PICK p : Access(g, q, p) /\ Wane(g, p)
    BY <1>18, <2>3 DEF EndUncertain, j, q
  <2>. QED  BY <2>1, <2>4, WorkerBeside DEF Access
<1>. QED  BY <1>3, <1>5, <1>6, <1>8, <1>9, <1>10, <1>11, <1>12, <1>13, <1>14, <1>15, <1>16,
             <1>17, <1>18 DEF WorkerStep

-----------------------------------------------------------------------------
(* The operator and the host. *)

\* No boot requeue, and no bump of a priority.
PlainHost == MaxBumps = 0 /\ BootRequeue = FALSE

\* Submissions, cancellations and merges keep custody; bumps are excluded.
LEMMA OperatorGuarded ==
  ASSUME PlainHost, IInv, IInv', Custody, Operator
  PROVE  Guarded
<1>0. jobs \in Queue /\ submitted \in Nat
  BY DEF IInv, TypeOK, QueueOK
<1>1. ASSUME NEW p \in Priority, Submit(p) PROVE Guarded
  <2> DEFINE j == submitted + 1
  <2>1. j \in Job /\ j > submitted /\ submitted' = j
    BY <1>0, <1>1, QueueAssumption DEF Submit, Job
  <2>2. RowsStay
    BY <1>0, <1>1, <2>1, EnqueueNoReplay DEF Submit, RowsStay
  <2>3. Wanes
    BY <1>1, StillWanes DEF Submit, processVars
  <2>4. submitted' >= submitted
    BY <1>0, <2>1
  <2>. QED  BY <1>1, <2>2, <2>3, <2>4, BesideTick
            DEF Submit, durableVars, processVars
<1>2. ASSUME NEW j \in Job, Cancel(j) PROVE Guarded
  <2>1. NoReplay(jobs, jobs')
    BY <1>0, <1>2, EndsNoReplay DEF Cancel
  <2>2. Wanes
    BY <1>2, StillWanes DEF Cancel, processVars
  <2>. QED  BY <1>0, <1>2, <2>1, <2>2, BesideTick
            DEF Cancel, NoReplay, RowsStay, durableVars, processVars, hostVars
<1>3. ASSUME NEW j \in Job, NEW p \in Priority, BumpRead(j, p) PROVE FALSE
  BY <1>3 DEF BumpRead, PlainHost, IInv, TypeOK, HostOK
<1>4. ~BumpWrite
  BY DEF BumpWrite, Custody, TickInv
<1>5. ASSUME NEW j \in Job, Merge(j) PROVE Guarded
  <2>1. Wanes
    BY <1>5, StillWanes DEF Merge, processVars
  <2>. QED  BY <1>0, <1>5, <2>1, BesideTick DEF Merge, RowsStay, durableVars, processVars
<1>. QED  BY <1>1, <1>2, <1>3, <1>4, <1>5 DEF Operator

\* The parts of custody a step of the supervisor or a restart has to show.
LEMMA Moved ==
  ASSUME IInv, IInv', Custody, Wanes, Files, NoReplay(jobs, jobs'),
         spawned' = spawned, submitted' = submitted, TickInv'
  PROVE  Guarded
<1>1. Replays
  BY DEF Replays, NoReplay
<1>2. TreeInv'
  BY <1>1, TreeKept DEF Custody, IInv, TypeOK, QueueOK
<1>. QED  BY <1>1, <1>2 DEF Guarded, Custody

\* A tick that starts over keeps custody.
LEMMA StartsOver ==
  ASSUME IInv, IInv', Custody, Wanes, Files, NoReplay(jobs, jobs'),
         spawned' = spawned, submitted' = submitted, txn' = txn, bump' = NoBump,
         stage' \in EarlyStages, step' = "enter", todo' = {}, cur' = NoJob
  PROVE  Guarded
<1>1. SettledInv'
  BY SettledKept DEF Custody, TickInv, NoReplay
<1>. QED  BY <1>1, FreshStage, Moved

\* Ageing, deaths, crashes of the daemon and reboots keep custody.
LEMMA HostGuarded ==
  ASSUME IInv, IInv', Custody, Host
  PROVE  Guarded
<1>0. jobs \in Queue /\ submitted \in Nat /\ proc \in [Gen -> Process]
  BY DEF IInv, TypeOK, QueueOK, ProcessOK
<1>1. ASSUME NEW j \in Job, GoStale(j) PROVE Guarded
  <2>1. jobs[j] \in Row
    BY <1>0 DEF Queue
  <2>2. RowsStay
    BY <1>0, <1>1, <2>1 DEF GoStale, RowsStay, Queue, Row, Pending, Running
  <2>3. Wanes
    BY <1>1, StillWanes DEF GoStale, processVars
  <2>. QED  BY <1>0, <1>1, <2>2, <2>3, BesideTick
            DEF GoStale, durableVars, processVars, hostVars
<1>2. ASSUME NEW g \in Gen, WorkerDies(g) PROVE Guarded
  <2>1. Wane(g, Gone(proc[g]))
    BY <1>0 DEF Gone, Process, Wane, TreeAlive, Pending, Absent, LiveStates, ActingStates
  <2>. QED  BY <1>2, <2>1, UnchangedNoReplay, WorkerBeside DEF WorkerDies, durableVars
<1>3. ASSUME NEW g \in Gen, OrphansEnd(g) PROVE Guarded
  <2> DEFINE p == [proc[g] EXCEPT !.on = NoTarget]
  <2>1. ~Pending(proc[g].snap)
    BY DEF Custody, TreeInv, PendingQuiet
  <2>2. Wane(g, p)
    BY <1>0, <2>1 DEF Wane, Process, RootAlive, Acting
  <2>3. proc' = [proc EXCEPT ![g] = p]
    BY <1>3 DEF OrphansEnd
  <2> HIDE DEF p
  <2>. QED  BY <1>3, <2>2, <2>3, UnchangedNoReplay, WorkerBeside DEF OrphansEnd, durableVars
<1>4. RestartDaemon /\ UNCHANGED <<receipt, txn>> => Files
  BY DEF RestartDaemon, Files, ReceiptKept, TxnMoves
<1>5. CASE DaemonCrash
  <2>1. Wanes
    BY <1>5, StillWanes DEF DaemonCrash
  <2>. QED  BY <1>4, <1>5, <2>1, UnchangedNoReplay, StartsOver
            DEF DaemonCrash, RestartDaemon, durableVars, EarlyStages, Custody, TickInv
<1>6. CASE Reboot
  <2>1. ASSUME NEW g \in Gen PROVE Wane(g, proc'[g])
    <3>1. proc[g] \in Process /\ ~Pending(proc[g].snap)
      BY <1>0 DEF Custody, TreeInv, PendingQuiet
    <3>2. CASE proc[g].st = "none"
      BY <1>6, <3>1, <3>2 DEF Reboot, Wane, RootAlive, Acting, TreeAlive
    <3>3. CASE proc[g].st # "none"
      <4>1. proc'[g] = [Gone(proc[g]) EXCEPT !.on = NoTarget, !.frozen = FALSE]
        BY <1>6, <3>3 DEF Reboot
      <4>. QED  BY <3>1, <4>1 DEF Gone, Process, Wane, Pending, Absent, LiveStates, ActingStates
    <3>. QED  BY <3>2, <3>3
  <2>2. Wanes
    BY <2>1 DEF Wanes, Wane
  <2>. QED  BY <1>4, <1>6, <2>2, UnchangedNoReplay, StartsOver
            DEF Reboot, RestartDaemon, durableVars, EarlyStages
<1>. QED  BY <1>1, <1>2, <1>3, <1>5, <1>6 DEF Host

-----------------------------------------------------------------------------
(* Moving through the tick. *)

\* What a step of the supervisor leaves as it was, or ends.
Steady == /\ Wanes /\ Files /\ NoReplay(jobs, jobs') /\ txn' = txn
          /\ UNCHANGED <<spawned, submitted, boot, merged, bump, bumps, crashes>>

\* A step that changes neither files, rows nor processes is steady.
LEMMA OnlyTickSteady ==
  ASSUME IInv, Custody, UNCHANGED <<jobs, receipt, txn, proc, spawned, child, hostVars>>
  PROVE  Steady
  BY StillWanes, UnchangedNoReplay DEF Steady, hostVars, Files, ReceiptKept, TxnMoves

\* Ending the tick keeps custody.
LEMMA AbortGuarded ==
  ASSUME IInv, IInv', Custody, Steady, AbortTick
  PROVE  Guarded
  BY StartsOver DEF Steady, AbortTick, EarlyStages, hostVars, Custody, TickInv

\* So does ending a stage, except the one that cleans up.
LEMMA EndGuarded ==
  ASSUME IInv, IInv', Custody, Steady, EndStage, stage # "txns",
         ~(Terminating /\ step \in {"forget", "clear"})
  PROVE  Guarded
<1>1. stage' \in EarlyStages \/ stage \notin EarlyStages
  BY DEF EndStage, After, EarlyStages
<1>2. SettledInv'
  BY <1>1, SettledKept DEF Custody, TickInv, Steady, NoReplay
<1>3. TickInv'
  BY <1>2, FreshStage DEF EndStage, Steady, hostVars, Custody, TickInv
<1>. QED  BY <1>3, Moved DEF Steady, hostVars

\* So does setting out to visit jobs, of which the stage knows what it must.
LEMMA VisitGuarded ==
  ASSUME IInv, IInv', Custody, Steady, NEW S \in SUBSET Job, Visit(S),
         stage \notin EarlyStages, ~(Terminating /\ step \in {"forget", "clear"}),
         stage = "admit" => \A j \in S : /\ Quiet(j)' /\ ~Pending(jobs'[j])
                                         /\ txn[j] = NoTxn /\ j <= submitted,
         Terminating => \A j \in S : ~Pending(jobs[j]) /\ j <= submitted,
         stage = "reap" => \A j \in S : child'[j] # NoGen /\ ~RootAlive(child[j])'
  PROVE  Guarded
<1>1. SettledInv'
  BY SettledKept DEF Custody, TickInv, Steady, NoReplay
<1>2. txn' = txn /\ submitted' = submitted /\ bump' = NoBump /\ stage # "boot"
  BY DEF Steady, hostVars, Custody, TickInv, EarlyStages
<1>3. Terminating => \A j \in S : ~Pending(jobs'[j])
  BY DEF Steady, NoReplay, Pending
<1>4. TickInv'
  BY <1>1, <1>2, <1>3, Visited
<1>. QED  BY <1>4, Moved DEF Steady, hostVars

-----------------------------------------------------------------------------
(* The supervisor: boot pass, repairs, reaping. *)

\* The boot pass requeues nothing and goes on.
LEMMA BootGuarded ==
  ASSUME PlainHost, IInv, IInv', Custody
  PROVE  /\ EnterBoot => Guarded
         /\ \A j \in Job : ~BootIntent(j)
         /\ ~BootRelease /\ ~BootForget /\ ~BootRequeueJob /\ ~BootRequeued
<1>1. EnterBoot => Guarded
  BY OnlyTickSteady, EndGuarded
     DEF EnterBoot, At, Visit, PlainHost, Terminating, durableVars, processVars
<1>2. stage = "boot" => step = "enter"
  BY DEF Custody, TickInv
<1>. QED  BY <1>1, <1>2 DEF BootIntent, BootRelease, BootForget, BootRequeueJob, BootRequeued, At

\* Repairs write outcomes, and remove transactions and receipts only when the
\* process they name is gone.
LEMMA RepairGuarded ==
  ASSUME IInv, IInv', Custody
  PROVE  RepairOutcomes \/ ClearFinalized \/ SweepReceipts => Guarded
<1>1. RepairOutcomes => Guarded
  BY OnlyTickSteady, EndGuarded DEF RepairOutcomes, At, Terminating, processVars
<1>2. ASSUME ClearFinalized PROVE Guarded
  <2>1. ASSUME NEW j \in Job, Finalized(j) PROVE txn[j] # NoTxn /\ TreeGone(txn[j].gen)
    BY <2>1 DEF Finalized, NoTxn, Custody, TreeInv, TxnOwns
  <2>2. Files
    BY <1>2, <2>1
       DEF ClearFinalized, Files, ReceiptKept, TxnMoves, OwnerAlive, TreeGone, processVars
  <2>3. SettledInv'
    <3>1. \A j \in Job : Pending(jobs[j]) => txn'[j] = NoTxn
      BY <1>2 DEF ClearFinalized, Custody, TickInv, SettledInv
    <3>. QED  BY <1>2, <3>1 DEF ClearFinalized, SettledInv, Pending
  <2>4. TickInv'
    BY <1>2, <2>3, FreshStage DEF ClearFinalized, EndStage, hostVars, Custody, TickInv
  <2>. QED  BY <1>2, <2>2, <2>4, StillWanes, UnchangedNoReplay, Moved
            DEF ClearFinalized, processVars, hostVars
<1>3. ASSUME SweepReceipts PROVE Guarded
  <2>1. Steady
    BY <1>3, StillWanes, UnchangedNoReplay
       DEF SweepReceipts, Steady, hostVars, Files, ReceiptKept, TxnMoves, DeadReceipt, processVars
  <2>. QED  BY <1>3, <2>1, EndGuarded DEF SweepReceipts, At, Terminating
<1>. QED  BY <1>1, <1>2, <1>3

\* Reaping and reconcile_running drop a receipt only when its process is gone.
LEMMA LostWorkerGuarded ==
  ASSUME IInv, IInv', Custody
  PROVE  /\ EnterReap \/ EnterRunning \/ LeaveRunning => Guarded
         /\ \A j \in Job : ReapChild(j) \/ ObserveRunning(j) => Guarded
         /\ CompleteLost \/ DropChild => Guarded
<1>0. todo \subseteq Job /\ cur \notin todo /\ jobs \in Queue
  BY DEF IInv, TypeOK, TickOK, QueueOK, Custody, TickInv
<1>1. ASSUME EnterReap PROVE Guarded
  <2> DEFINE S == {j \in Job : child[j] # NoGen /\ ~RootAlive(child[j])}
  <2>1. \A j \in S : child'[j] # NoGen /\ ~RootAlive(child[j])'
    BY <1>1 DEF EnterReap, processVars, RootAlive
  <2>2. Steady
    BY <1>1, OnlyTickSteady DEF EnterReap, durableVars, processVars
  <2>3. Visit(S) /\ stage = "reap"
    BY <1>1 DEF EnterReap, At
  <2> HIDE DEF S
  <2>4. S \subseteq Job
    BY DEF S
  <2>. QED  BY <2>1, <2>2, <2>3, <2>4, VisitGuarded DEF Terminating, EarlyStages
<1>2. ASSUME EnterRunning PROVE Guarded
  BY <1>2, OnlyTickSteady, VisitGuarded
     DEF EnterRunning, At, Terminating, EarlyStages, durableVars, processVars
<1>3. ASSUME LeaveRunning PROVE Guarded
  BY <1>3, OnlyTickSteady, EndGuarded
     DEF LeaveRunning, At, Terminating, durableVars, processVars
<1>4. ASSUME NEW j \in Job, ReapChild(j) PROVE Guarded
  <2>1. Steady
    BY <1>4, OnlyTickSteady DEF ReapChild, durableVars, processVars
  <2>2. stage = "reap" /\ step = "next" /\ j \in todo
    BY <1>4 DEF ReapChild, At
  <2>3. \A i \in todo : child'[i] # NoGen /\ ~RootAlive(child[i])'
    <3>1. todo \subseteq InHand
      BY <1>0 DEF InHand, NoJob, Job
    <3>. QED  BY <1>4, <2>2, <3>1
              DEF ReapChild, processVars, RootAlive, Custody, TickInv, DropInv
  <2>4. CASE Visit(todo \ {j})
    BY <1>0, <2>1, <2>2, <2>3, <2>4, VisitGuarded DEF Terminating, EarlyStages
  <2>5. CASE \E e \in {"complete", "drop"} : Take(j, e)
    <3>1. /\ stage' = stage /\ todo' = todo \ {j} /\ cur' = j
          /\ step' \in {"complete", "drop"}
      BY <2>5 DEF Take
    <3>2. \A i \in InHand' : child'[i] # NoGen /\ ~RootAlive(child[i])'
      BY <2>2, <2>3, <3>1 DEF InHand
    <3>3. SettledInv'
      BY <2>1, <2>2, <3>1, SettledKept
         DEF Custody, TickInv, Steady, NoReplay, EarlyStages, Terminating
    <3>4. TickInv'
      BY <2>1, <2>2, <3>1, <3>2, <3>3
         DEF TickInv, Custody, AdmitInv, TerminateInv, DropInv, Terminating, Steady, hostVars
    <3>. QED  BY <2>1, <3>4, Moved DEF Steady, hostVars
  <2>. QED  BY <1>4, <2>4, <2>5 DEF ReapChild
<1>5. ASSUME NEW j \in Job, ObserveRunning(j) PROVE Guarded
  <2>0. receipt \in [Job -> Gen \cup {NoGen}]
    BY DEF IInv, TypeOK, DurableOK
  <2>1. Steady
    <3>1. \/ UNCHANGED receipt
          \/ ~OwnerAlive(j) /\ receipt' = [receipt EXCEPT ![j] = NoGen]
      BY <1>5, Zenon DEF ObserveRunning
    <3>2. \A i \in Job : ReceiptKept(i)
      BY <2>0, <3>1 DEF ReceiptKept
    <3>. QED  BY <1>5, <3>2, StillWanes, UnchangedNoReplay
              DEF ObserveRunning, Steady, hostVars, Files, TxnMoves, processVars
  <2>2. stage = "running" /\ step = "next" /\ j \in todo
    BY <1>5 DEF ObserveRunning, At
  <2>3. CASE Visit(todo \ {j})
    BY <1>0, <2>1, <2>2, <2>3, VisitGuarded DEF Terminating, EarlyStages
  <2>4. CASE \/ todo' = todo \ {j} /\ UNCHANGED <<stage, step, cur>>
             \/ Take(j, "complete") /\ receipt'[j] = NoGen
    <3>1. /\ stage' = stage /\ todo' = todo \ {j} /\ cur' \notin todo'
          /\ step' = "next" \/ (step' = "complete" /\ receipt'[cur'] = NoGen)
      BY <1>0, <2>2, <2>4 DEF Take
    <3>2. SettledInv'
      BY <2>1, <2>2, <3>1, SettledKept
         DEF Custody, TickInv, Steady, NoReplay, EarlyStages, Terminating
    <3>3. TickInv'
      BY <2>1, <2>2, <3>1, <3>2
         DEF TickInv, Custody, AdmitInv, TerminateInv, DropInv, Terminating, Steady, hostVars
    <3>. QED  BY <2>1, <3>3, Moved DEF Steady, hostVars
  <2>. QED  BY <1>5, <2>0, <2>3, <2>4 DEF ObserveRunning
<1>6. ASSUME CompleteLost PROVE Guarded
  <2>1. cur \in Job /\ step = "complete" /\ stage \in {"reap", "running"}
    BY <1>6 DEF CompleteLost, IInv, TypeOK, TickOK, Custody, TickInv, DropInv
  <2>2. Steady
    BY <1>0, <1>6, <2>1, StillWanes, EndsNoReplay
       DEF CompleteLost, Steady, hostVars, Files, ReceiptKept, TxnMoves, durableVars, processVars
  <2>3. CASE Leave /\ stage = "running"
    BY <1>0, <2>1, <2>2, <2>3, VisitGuarded DEF Leave, Terminating, EarlyStages
  <2>4. CASE Step("outcome") \/ Step("drop")
    <3>1. UNCHANGED <<stage, cur, todo>> /\ step' \in {"outcome", "drop"}
      BY <2>4 DEF Step
    <3>2. SettledInv'
      BY <2>1, <2>2, <3>1, SettledKept
         DEF Custody, TickInv, Steady, NoReplay, EarlyStages, Terminating
    <3>3. UNCHANGED <<receipt, child, proc>>
      BY <1>6 DEF CompleteLost, durableVars, processVars
    <3>4. DropInv'
      BY <2>1, <3>1, <3>3 DEF Custody, TickInv, DropInv, InHand, RootAlive
    <3>5. TickInv'
      BY <1>0, <2>1, <2>2, <3>1, <3>2, <3>4
         DEF TickInv, Custody, AdmitInv, TerminateInv, Terminating, Steady, hostVars
    <3>. QED  BY <2>2, <3>5, Moved DEF Steady, hostVars
  <2>. QED  BY <1>6, <2>1, <2>3, <2>4 DEF CompleteLost
<1>7. ASSUME DropChild PROVE Guarded
  <2>1. cur \in Job /\ step = "drop" /\ stage \in {"reap", "running"}
    BY <1>7 DEF DropChild, IInv, TypeOK, TickOK, Custody, TickInv, DropInv
  <2>2. ~OwnerAlive(cur)
    <3>1. CASE stage = "running"
      BY <2>1, <3>1 DEF Custody, TickInv, DropInv, OwnerAlive
    <3>2. CASE stage = "reap"
      <4>1. cur \in InHand
        BY <2>1 DEF InHand, NoJob, Job
      <4>. QED  BY <2>1, <3>2, <4>1
                DEF Custody, TickInv, DropInv, TreeInv, ReceiptOwns, OwnerAlive
    <3>. QED  BY <2>1, <3>1, <3>2
  <2>3. receipt \in [Job -> Gen \cup {NoGen}] /\ child \in [Job -> Gen \cup {NoGen}]
    BY DEF IInv, TypeOK, DurableOK, ProcessOK
  <2>4. Steady
    BY <1>7, <2>1, <2>2, <2>3, StillWanes, UnchangedNoReplay
       DEF DropChild, Steady, hostVars, Files, ReceiptKept, TxnMoves
  <2>5. stage = "reap" => \A i \in todo : child'[i] # NoGen /\ ~RootAlive(child[i])'
    <3>1. todo \subseteq InHand
      BY <1>0 DEF InHand, NoJob, Job
    <3>. QED  BY <1>0, <1>7, <2>1, <2>3, <3>1
              DEF DropChild, RootAlive, Custody, TickInv, DropInv
  <2>. QED  BY <1>0, <1>7, <2>1, <2>4, <2>5, VisitGuarded
            DEF DropChild, Leave, Terminating, EarlyStages
<1>. QED  BY <1>1, <1>2, <1>3, <1>4, <1>5, <1>6, <1>7

-----------------------------------------------------------------------------
(* The supervisor: merges, and termination transactions. *)

\* The cancellation of merged jobs replays nothing.
LEMMA MergeGuarded ==
  ASSUME IInv, IInv', Custody
  PROVE  /\ ObserveMerged => Guarded
         /\ \A j \in Job : CancelMerged(j) => Guarded
         /\ FinalizeReceiptless \/ ReleaseOrphan => Guarded
<1>0. todo \subseteq Job /\ cur \notin todo /\ jobs \in Queue /\ MergeProof \in Proof
  BY ExecutionAssumption DEF IInv, TypeOK, TickOK, QueueOK, Custody, TickInv
<1>1. ASSUME NoReplay(jobs, jobs'), UNCHANGED <<receipt, txn, proc, spawned, child, hostVars>>
      PROVE  Steady
  BY <1>1, StillWanes DEF Steady, hostVars, Files, ReceiptKept, TxnMoves
<1>2. ASSUME ObserveMerged PROVE Guarded
  <2>1. PICK S \in SUBSET {j \in Job : Observable(j)}, drain \in {TRUE, "drain" \notin Faults} :
          LET P == {j \in S : Pending(jobs[j])} IN
          /\ jobs' = IF drain THEN CancelPending(jobs, P, MergeProof) ELSE jobs
          /\ outcome' = [j \in Job |-> IF drain /\ j \in P THEN "merged" ELSE outcome[j]]
          /\ Visit({j \in S : Running(jobs[j])})
    BY <1>2 DEF ObserveMerged
  <2>2. NoReplay(jobs, jobs')
    BY <1>0, <2>1, PendingJobsNoReplay, UnchangedNoReplay
  <2>. QED  BY <1>1, <1>2, <2>1, <2>2, VisitGuarded
            DEF ObserveMerged, At, Terminating, EarlyStages, processVars
<1>3. ASSUME NEW j \in Job, CancelMerged(j) PROVE Guarded
  <2>1. NoReplay(jobs, jobs')
    BY <1>0, <1>3, EndsNoReplay, UnchangedNoReplay DEF CancelMerged
  <2>2. Steady
    BY <1>1, <1>3, <2>1 DEF CancelMerged, durableVars, processVars
  <2>3. CASE Visit(todo \ {j})
    BY <1>0, <1>3, <2>2, <2>3, VisitGuarded DEF CancelMerged, At, Terminating, EarlyStages
  <2>. QED  BY <1>3, <2>2, <2>3, AbortGuarded DEF CancelMerged
<1>4. ASSUME FinalizeReceiptless PROVE Guarded
  <2>1. NoReplay(jobs, jobs')
    BY <1>0, <1>4, EndsNoReplay, UnchangedNoReplay DEF FinalizeReceiptless
  <2>2. Steady
    BY <1>1, <1>4, <2>1 DEF FinalizeReceiptless, durableVars, processVars
  <2>3. stage = "orphans" /\ step = "enter" /\ todo = {}
    BY <1>4 DEF FinalizeReceiptless, At, Custody, TickInv
  <2>4. CASE step' = "outcome" /\ UNCHANGED <<stage, todo>>
    <3>1. SettledInv'
      BY <2>2, <2>3, <2>4, SettledKept
         DEF Custody, TickInv, Steady, NoReplay, EarlyStages, Terminating
    <3>2. TickInv'
      BY <2>2, <2>3, <2>4, <3>1
         DEF TickInv, Custody, AdmitInv, TerminateInv, DropInv, Terminating, Steady, hostVars
    <3>. QED  BY <2>2, <3>2, Moved DEF Steady, hostVars
  <2>. QED  BY <1>4, <2>2, <2>3, <2>4, EndGuarded DEF FinalizeReceiptless, Terminating
<1>5. ReleaseOrphan => Guarded
  BY <1>1, UnchangedNoReplay, EndGuarded DEF ReleaseOrphan, At, Terminating, processVars
<1>. QED  BY <1>2, <1>3, <1>4, <1>5

\* The jobs a termination stage lists are submitted and not pending.
LEMMA TerminationEntryGuarded ==
  ASSUME IInv, IInv', Custody
  PROVE  EnterCancel \/ EnterDefer => Guarded
<1>1. ASSUME NEW S \in SUBSET Job, Visit(S), Terminating, step = "enter",
             \A j \in S : jobs[j].status \in {"running", "cancelled"},
             UNCHANGED <<jobs, lock, durableVars, processVars, hostVars>>
      PROVE  Guarded
  <2>1. Steady
    BY <1>1, OnlyTickSteady DEF durableVars, processVars
  <2>2. \A j \in S : ~Pending(jobs[j]) /\ j <= submitted
    BY <1>1 DEF Pending, IInv, TypeOK, QueueOK, Job
  <2>. QED  BY <1>1, <2>1, <2>2, VisitGuarded DEF Terminating, EarlyStages
<1>2. EnterCancel => Guarded
  <2> DEFINE S == {j \in Job : CancelRequested(jobs[j]) \/ jobs[j].status = "cancelled"}
  <2>1. \A j \in S : jobs[j].status \in {"running", "cancelled"}
    BY DEF CancelRequested, Running
  <2>. QED  BY <1>1, <2>1 DEF EnterCancel, Terminating
<1>3. EnterDefer => Guarded
  <2> DEFINE S == {j \in Job : CanFinalizeDeferred(jobs, j)}
  <2>1. \A j \in S : jobs[j].status \in {"running", "cancelled"}
    BY DEF CanFinalizeDeferred, Running
  <2>. QED  BY <1>1, <2>1 DEF EnterDefer, At, Terminating
<1>. QED  BY <1>2, <1>3

\* Where a termination goes on with the next job of its list.
LEMMA NextTermination ==
  ASSUME IInv, IInv', Custody, Steady, Terminating, step \notin {"enter", "forget", "clear"},
         NEW S \in SUBSET todo, Visit(S)
  PROVE  Guarded
<1>1. \A j \in todo : ~Pending(jobs[j]) /\ j <= submitted
  BY DEF Custody, TickInv, TerminateInv
<1>2. S \subseteq Job /\ stage \notin EarlyStages /\ stage \notin {"admit", "reap"}
  BY DEF IInv, TypeOK, TickOK, Terminating, EarlyStages
<1>. QED  BY <1>1, <1>2, VisitGuarded

\* Where it goes on with the same job, one step further.
LEMMA TerminationStep ==
  ASSUME IInv, IInv', Custody, Terminating, step \notin {"enter", "forget", "clear"},
         Wanes, Files, UNCHANGED <<jobs, spawned, hostVars, stage>>,
         cur' \in Job, cur' \notin todo', todo' \subseteq todo,
         ~Pending(jobs[cur']), \A j \in Job \ {cur'} : txn'[j] = txn[j],
         step' \in {"kill", "dead", "release", "mark", "settle", "outcome", "forget"},
         txn'[cur'] # NoTxn, txn'[cur'].act = Act,
         step' = "dead" => TreeGone(txn[cur].gen)',
         step' \in {"release", "mark"} => txn'[cur'].phase # "frozen",
         step' \in {"settle", "outcome", "forget"} => txn'[cur'].phase = "released"
  PROVE  Guarded
<1>1. \A j \in todo' : ~Pending(jobs'[j]) /\ j <= submitted'
  BY DEF Custody, TickInv, TerminateInv, hostVars
<1>2. Terminating' /\ Act' = Act /\ submitted' = submitted /\ bump' = NoBump
  BY DEF Terminating, Act, hostVars, Custody, TickInv
<1>3. SettledInv'
  <2>1. stage \notin EarlyStages
    BY DEF Terminating, EarlyStages
  <2>2. \A j \in Job : Pending(jobs[j]) => txn'[j] = NoTxn
    BY <2>1 DEF Custody, TickInv, SettledInv
  <2>. QED  BY <2>2 DEF SettledInv, Pending
<1>4. TerminateInv'
  BY <1>1, <1>2 DEF TerminateInv
<1>5. AdmitInv' /\ DropInv'
  BY <1>2 DEF AdmitInv, DropInv, Terminating
<1>6. TickInv'
  BY <1>2, <1>3, <1>4, <1>5 DEF TickInv, Terminating
<1>. QED  BY <1>2, <1>6, Moved, UnchangedNoReplay

\* What a step of a termination finds: its job and the transaction of it.
LEMMA InTermination ==
  ASSUME IInv, Custody,
         \/ step \in {"save", "kill", "dead", "mark", "settle", "forget", "clear"}
         \/ Terminating /\ step \in {"release", "outcome"}
  PROVE  /\ Terminating /\ cur \in Job /\ cur \notin todo /\ todo \subseteq Job
         /\ step # "save" => /\ txn[cur] # NoTxn /\ txn[cur].act = Act
                             /\ txn[cur].gen \in Gen /\ txn[cur].phase \in Phases
         /\ step \notin {"forget", "clear"} => ~Pending(jobs[cur])
  BY DEF IInv, TypeOK, TickOK, Custody, TickInv, TerminateInv, TreeInv, TxnOwns

\* Setting out on a job: its owner is stopped, or its transaction is resumed.
LEMMA TerminationStartGuarded ==
  ASSUME IInv, IInv', Custody, NEW j \in Job
  PROVE  Freeze(j) \/ NoLiveOwner(j) \/ ResumeTxn(j) => Guarded
<1>0. todo \subseteq Job /\ proc \in [Gen -> Process] /\ txn \in [Job -> Txn]
  BY DEF IInv, TypeOK, TickOK, ProcessOK, DurableOK
<1>1. ASSUME Terminating, step = "next", j \in todo PROVE ~Pending(jobs[j]) /\ j <= submitted
  BY <1>1 DEF Custody, TickInv, TerminateInv
<1>2. ASSUME Freeze(j) PROVE Guarded
  <2> DEFINE g == receipt[j]
             p == [proc[g] EXCEPT !.frozen = TRUE]
  <2>1. g \in Gen /\ RootAlive(g) /\ txn[j] = NoTxn
    BY <1>2 DEF Freeze, OwnerAlive, IInv, TypeOK, DurableOK
  <2>2. Wane(g, p)
    BY <1>0, <2>1 DEF Wane, Process, RootAlive, Acting, TreeAlive, Custody, TreeInv, PendingQuiet
  <2>3. proc' = [proc EXCEPT ![g] = p]
    BY <1>2 DEF Freeze
  <2> HIDE DEF p
  <2>4. Wanes
    BY <2>2, <2>3, OneWanes
  <2>5. Steady
    BY <1>2, <2>4, UnchangedNoReplay
       DEF Freeze, Steady, hostVars, Files, ReceiptKept, TxnMoves, durableVars
  <2>6. /\ Terminating /\ step = "next" /\ j \in todo
        /\ stage' = stage /\ step' = "save" /\ cur' = j /\ todo' = todo \ {j}
    BY <1>2 DEF Freeze, Take
  <2>7. OnlyTree(cur, receipt[cur])'
    <3>1. OnlyTree(j, g)
      BY <2>1 DEF Custody, TreeInv, ReceiptOwns, NoGen, Gen
    <3>2. PICK h \in Gen : h = g
      BY <2>1
    <3>3. OnlyTree(j, h)'
      BY <2>4, <3>1, <3>2, Waned DEF Custody
    <3>4. receipt' = receipt
      BY <1>2 DEF Freeze, durableVars
    <3>. QED  BY <2>6, <3>2, <3>3, <3>4 DEF OnlyTree
  <2>8. SettledInv'
    BY <2>5, <2>6, SettledKept
       DEF Custody, TickInv, Steady, NoReplay, EarlyStages, Terminating
  <2>9. /\ UNCHANGED <<jobs, receipt, txn, submitted>> /\ bump' = NoBump
    BY <1>2 DEF Freeze, durableVars, hostVars, Custody, TickInv
  <2>10. TerminateInv'
    <3>1. Terminating' /\ g # NoGen
      BY <2>1, <2>6 DEF Terminating, NoGen, Gen
    <3>2. \A i \in todo' : ~Pending(jobs'[i]) /\ i <= submitted'
      BY <2>6, <2>9 DEF Custody, TickInv, TerminateInv
    <3>. QED  BY <1>1, <2>1, <2>6, <2>7, <2>9, <3>1, <3>2 DEF TerminateInv
  <2>11. TickInv'
    BY <2>6, <2>8, <2>9, <2>10 DEF TickInv, AdmitInv, DropInv, Terminating
  <2>. QED  BY <2>5, <2>11, Moved DEF Steady, hostVars
<1>3. ASSUME NoLiveOwner(j) PROVE Guarded
  BY <1>3, OnlyTickSteady, NextTermination DEF NoLiveOwner, durableVars, processVars
<1>4. ASSUME ResumeTxn(j) PROVE Guarded
  <2>1. Terminating /\ step = "next" /\ j \in todo /\ txn[j] # NoTxn
    BY <1>4 DEF ResumeTxn
  <2>2. CASE AbortTick /\ UNCHANGED txn
    BY <1>4, <2>2, OnlyTickSteady, AbortGuarded DEF ResumeTxn, processVars
  <2>3. CASE ~(AbortTick /\ UNCHANGED txn)
    <3> DEFINE e == IF txn[j].phase = "frozen" THEN "kill"
                    ELSE IF txn[j].phase = "dead" THEN "release" ELSE "settle"
    <3>1. txn' = [txn EXCEPT ![j].act = Act] /\ Take(j, e)
      BY <1>4, <2>3 DEF ResumeTxn
    <3>2. /\ txn'[j].act = Act /\ txn'[j].gen = txn[j].gen /\ txn'[j].phase = txn[j].phase
          /\ \A i \in Job \ {j} : txn'[i] = txn[i]
      BY <1>0, <3>1 DEF Txn
    <3>3. txn[j].phase \in Phases /\ txn[j].gen \in Gen
      BY <2>1 DEF Custody, TreeInv, TxnOwns
    <3>4. txn'[j] # NoTxn
      BY <3>2, <3>3 DEF NoTxn, NoGen, Gen
    <3>5. Files
      BY <1>4, <2>1, <3>2, <3>3
         DEF ResumeTxn, Files, ReceiptKept, TxnMoves, processVars
    <3>6. e \in {"kill", "release", "settle"} /\ (e = "release" => txn[j].phase # "frozen")
          /\ (e = "settle" => txn[j].phase = "released")
      BY <3>3 DEF Phases
    <3> HIDE DEF e
    <3>7. stage' = stage /\ step' = e /\ cur' = j /\ todo' = todo \ {j}
      BY <3>1 DEF Take
    <3>8. Wanes /\ UNCHANGED <<jobs, spawned, hostVars>>
      BY <1>4, StillWanes DEF ResumeTxn, processVars
    <3>. QED  BY <1>1, <2>1, <3>2, <3>4, <3>5, <3>6, <3>7, <3>8, TerminationStep
  <2>. QED  BY <2>2, <2>3
<1>. QED  BY <1>2, <1>3, <1>4

\* A transaction says what the steps before it made true: first it names the
\* stopped tree, and past its phases that tree is gone.
LEMMA TerminationWorkGuarded ==
  ASSUME IInv, IInv', Custody
  PROVE  SaveTxn \/ KillTree \/ MarkDead \/ ReleaseLeases \/ MarkReleased => Guarded
<1>0. txn \in [Job -> Txn] /\ proc \in [Gen -> Process] /\ receipt \in [Job -> Gen \cup {NoGen}]
  BY DEF IInv, TypeOK, DurableOK, ProcessOK
<1>1. ASSUME SaveTxn PROVE Guarded
  <2>1. /\ Terminating /\ cur \in Job /\ cur \notin todo /\ todo \subseteq Job
        /\ ~Pending(jobs[cur]) /\ step = "save"
    BY <1>1, InTermination DEF SaveTxn
  <2>2. /\ txn[cur] = NoTxn /\ receipt[cur] # NoGen /\ OnlyTree(cur, receipt[cur])
        /\ cur <= submitted
    BY <2>1 DEF Custody, TickInv, TerminateInv
  <2>3. receipt[cur] \in Gen /\ receipt[cur] <= spawned /\ proc[receipt[cur]].job = cur
    BY <1>0, <2>1, <2>2 DEF Custody, TreeInv, ReceiptOwns
  <2>4. /\ txn'[cur] = [gen |-> receipt[cur], act |-> Act, phase |-> "frozen"]
        /\ \A i \in Job \ {cur} : txn'[i] = txn[i]
        /\ UNCHANGED <<jobs, receipt, proc, spawned, child, hostVars, stage, cur, todo>>
        /\ step' = "kill"
    BY <1>0, <1>1, <2>1 DEF SaveTxn, Step, processVars
  <2>5. txn'[cur] # NoTxn
    BY <2>2, <2>4 DEF NoTxn
  <2>6. TxnOwns'
    <3> SUFFICES ASSUME NEW i \in Job, txn'[i] # NoTxn
                 PROVE  /\ txn'[i].gen \in Gen /\ txn'[i].gen <= spawned'
                        /\ proc'[txn'[i].gen].job = i
                        /\ txn'[i].phase \in Phases
                        /\ receipt'[i] \in {NoGen, txn'[i].gen}
                        /\ OnlyTree(i, txn[i].gen)'
                        /\ txn'[i].phase # "frozen" => TreeGone(txn[i].gen)'
      BY DEF TxnOwns
    <3>1. CASE i = cur
      BY <2>2, <2>3, <2>4, <3>1 DEF Phases, OnlyTree, TreeAlive, Acting
    <3>2. CASE i # cur
      BY <2>4, <3>2 DEF Custody, TreeInv, TxnOwns, OnlyTree, TreeGone, TreeAlive, Acting, RootAlive
    <3>. QED  BY <3>1, <3>2
  <2>7. /\ ReceiptOwns' /\ PendingQuiet' /\ ActingHasReceipt' /\ OneTreePerJob'
    BY <2>4 DEF Custody, TreeInv, ReceiptOwns, PendingQuiet, Quiet, ActingHasReceipt,
       OneTreePerJob, OnlyTree, TreeAlive, Acting, RootAlive, Pending
  <2>8. Unsubmitted'
    <3>1. \A i \in Job : i > submitted => i # cur
      BY <2>1, <2>2 DEF IInv, TypeOK, QueueOK, Job
    <3>. QED  BY <2>4, <3>1 DEF Custody, TreeInv, Unsubmitted, hostVars
  <2>9. TreeInv'
    BY <2>6, <2>7, <2>8 DEF TreeInv
  <2>10. TerminateInv'
    <3>1. Terminating' /\ Act' = Act /\ txn'[cur].act = Act
      BY <2>1, <2>4 DEF Terminating, Act
    <3>2. \A i \in todo : ~Pending(jobs[i]) /\ i <= submitted
      BY <2>1 DEF Custody, TickInv, TerminateInv
    <3>. QED  BY <2>1, <2>4, <2>5, <3>1, <3>2 DEF TerminateInv, hostVars
  <2>11. SettledInv'
    <3>1. \A i \in Job : Pending(jobs[i]) => txn[i] = NoTxn /\ i # cur
      BY <2>1 DEF Custody, TickInv, SettledInv, Terminating, EarlyStages
    <3>. QED  BY <2>4, <3>1 DEF SettledInv, Pending
  <2>12. TickInv'
    BY <2>1, <2>4, <2>10, <2>11
       DEF Custody, TickInv, AdmitInv, DropInv, Terminating, hostVars
  <2>13. Replays
    BY <2>4 DEF Replays
  <2>. QED  BY <2>9, <2>12, <2>13 DEF Guarded, Custody
<1>2. ASSUME step \in {"kill", "dead", "mark"} \/ (step = "release" /\ Terminating),
             NEW e \in {"dead", "release", "mark", "settle"}, Step(e), Wanes,
             UNCHANGED <<jobs, receipt, child, spawned, hostVars>>,
             \A i \in Job : TxnMoves(i), \A i \in Job \ {cur} : txn'[i] = txn[i],
             txn'[cur] # NoTxn, txn'[cur].act = txn[cur].act,
             e = "dead" => TreeGone(txn[cur].gen)',
             e \in {"release", "mark"} => txn'[cur].phase # "frozen",
             e = "settle" => txn'[cur].phase = "released"
      PROVE  Guarded
  <2>1. /\ Terminating /\ cur \in Job /\ cur \notin todo /\ ~Pending(jobs[cur])
        /\ txn[cur].act = Act
    BY <1>2, InTermination
  <2>2. Files
    BY <1>2 DEF Files, ReceiptKept
  <2>3. UNCHANGED <<stage, cur, todo>> /\ step' = e
    BY <1>2 DEF Step
  <2>. QED  BY <1>2, <2>1, <2>2, <2>3, TerminationStep
<1>3. ASSUME KillTree PROVE Guarded
  <2> DEFINE g == txn[cur].gen
             p == [Gone(proc[g]) EXCEPT !.on = NoTarget, !.frozen = FALSE]
  <2>1. g \in Gen /\ txn[cur] # NoTxn /\ cur \in Job /\ step = "kill"
    BY <1>3, InTermination DEF KillTree
  <2>2. Wane(g, p) /\ p.st = "dead" /\ p.on = NoTarget
    BY <1>0, <2>1 DEF Wane, Gone, Process, Pending, Absent, LiveStates, ActingStates
  <2>3. proc' = [proc EXCEPT ![g] = p]
    BY <1>3 DEF KillTree
  <2> HIDE DEF p
  <2>4. Wanes
    BY <2>2, <2>3, OneWanes
  <2>5. UNCHANGED <<jobs, receipt, txn, child, spawned, hostVars>> /\ Step("dead")
    BY <1>3 DEF KillTree, durableVars
  <2>6. TreeGone(txn[cur].gen)'
    <3>1. txn' = txn /\ cur' = cur /\ proc'[g] = p
      BY <1>0, <2>1, <2>3, <2>5 DEF Step
    <3>. QED  BY <2>2, <3>1 DEF TreeGone, RootAlive, TreeAlive, Acting, LiveStates, ActingStates
  <2>. QED  BY <1>2, <2>1, <2>4, <2>5, <2>6 DEF TxnMoves
<1>4. ASSUME MarkDead PROVE Guarded
  <2>1. /\ txn[cur].gen \in Gen /\ txn[cur] # NoTxn /\ cur \in Job /\ step = "dead"
        /\ TreeGone(txn[cur].gen)
    BY <1>4, InTermination DEF MarkDead, Custody, TickInv, TerminateInv
  <2>2. /\ txn'[cur].gen = txn[cur].gen /\ txn'[cur].act = txn[cur].act
        /\ txn'[cur].phase = "dead" /\ \A i \in Job \ {cur} : txn'[i] = txn[i]
    BY <1>0, <1>4, <2>1 DEF MarkDead, Txn
  <2>3. txn'[cur] # NoTxn /\ \A i \in Job : TxnMoves(i)
    BY <2>1, <2>2 DEF NoTxn, NoGen, Gen, TxnMoves, Phases
  <2>. QED  BY <1>2, <1>4, <2>1, <2>2, <2>3, StillWanes DEF MarkDead, processVars
<1>5. ASSUME ReleaseLeases PROVE Guarded
  <2>1. txn[cur] # NoTxn /\ cur \in Job /\ step = "release" /\ txn[cur].phase # "frozen"
    BY <1>5, InTermination DEF ReleaseLeases, Custody, TickInv, TerminateInv
  <2>. QED  BY <1>2, <1>5, <2>1, StillWanes DEF ReleaseLeases, processVars, TxnMoves
<1>6. ASSUME MarkReleased PROVE Guarded
  <2>1. /\ txn[cur].gen \in Gen /\ txn[cur] # NoTxn /\ cur \in Job /\ step = "mark"
        /\ txn[cur].phase # "frozen"
    BY <1>6, InTermination DEF MarkReleased, Custody, TickInv, TerminateInv
  <2>2. /\ txn'[cur].gen = txn[cur].gen /\ txn'[cur].act = txn[cur].act
        /\ txn'[cur].phase = "released" /\ \A i \in Job \ {cur} : txn'[i] = txn[i]
    BY <1>0, <1>6, <2>1 DEF MarkReleased, Txn
  <2>3. txn'[cur] # NoTxn /\ \A i \in Job : TxnMoves(i)
    BY <2>1, <2>2 DEF NoTxn, NoGen, Gen, TxnMoves, Phases
  <2>. QED  BY <1>2, <1>6, <2>1, <2>2, <2>3, StillWanes DEF MarkReleased, processVars
<1>. QED  BY <1>1, <1>3, <1>4, <1>5, <1>6

\* A job whose transaction is released is quiet.
LEMMA ReleasedQuiet ==
  ASSUME IInv, Custody, NEW j \in Job, txn[j] # NoTxn, txn[j].phase = "released"
  PROVE  /\ TreeGone(txn[j].gen) /\ Quiet(j)
         /\ receipt[j] \in {NoGen, txn[j].gen} /\ ~OwnerAlive(j)
<1>1. /\ TreeGone(txn[j].gen) /\ OnlyTree(j, txn[j].gen)
      /\ receipt[j] \in {NoGen, txn[j].gen}
  BY DEF Custody, TreeInv, TxnOwns
<1>2. Quiet(j)
  BY <1>1 DEF Quiet, OnlyTree, TreeGone, NoGen, Gen
<1>3. ~OwnerAlive(j)
  BY <1>1 DEF OwnerAlive, TreeGone
<1>. QED  BY <1>1, <1>2, <1>3

\* The settlement replays or cancels a job whose tree is gone.
LEMMA SettleGuarded ==
  ASSUME IInv, IInv', Custody
  PROVE  Settle => Guarded
<1>0. jobs \in Queue /\ child \in [Job -> Gen \cup {NoGen}]
  BY DEF IInv, TypeOK, QueueOK, ProcessOK
<1> SUFFICES ASSUME Settle PROVE Guarded
  OBVIOUS
<1>1. /\ Terminating /\ cur \in Job /\ cur \notin todo /\ todo \subseteq Job
      /\ txn[cur] # NoTxn /\ txn[cur].act = Act /\ txn[cur].phase = "released"
      /\ ~Pending(jobs[cur]) /\ step = "settle"
  BY InTermination DEF Settle, Custody, TickInv, TerminateInv
<1>2. Quiet(cur)
  BY <1>1, ReleasedQuiet
<1>3. Wanes /\ UNCHANGED <<receipt, txn, proc, spawned, hostVars>>
  BY StillWanes DEF Settle, durableVars
<1>4. Files
  BY <1>0, <1>1, <1>3 DEF Settle, Files, ReceiptKept, TxnMoves
<1>5. CASE Act = "defer" /\ CanFinalizeDeferred(jobs, cur)
  <2>1. /\ jobs' = [jobs EXCEPT ![cur].status = "pending"]
        /\ step' = "forget" /\ UNCHANGED <<stage, cur, todo>>
    BY <1>5 DEF Settle, FinalizeDeferredDaemonWorker, Step
  <2>2. /\ jobs'[cur].status = "pending" /\ jobs'[cur].deferred
        /\ \A i \in Job \ {cur} : jobs'[i] = jobs[i]
    <3>1. jobs[cur] \in Row
      BY <1>0, <1>1 DEF Queue
    <3>. QED  BY <1>0, <1>1, <1>5, <2>1, <3>1 DEF CanFinalizeDeferred, Queue, Row
  <2>3. Replays
    BY <1>2, <2>2 DEF Replays
  <2>4. TreeInv'
    BY <1>3, <1>4, <2>3, TreeKept DEF Custody, hostVars, IInv, TypeOK, QueueOK
  <2>5. SettledInv'
    <3>1. \A i \in Job : Pending(jobs[i]) => txn[i] = NoTxn
      BY <1>1 DEF Custody, TickInv, SettledInv, Terminating, EarlyStages
    <3> SUFFICES ASSUME NEW i \in Job, Pending(jobs'[i]), txn'[i] # NoTxn
                 PROVE  Finalized(i)' /\ Terminating' /\ cur' = i
      BY <2>1 DEF SettledInv, Pending
    <3>2. i = cur
      BY <1>3, <2>2, <3>1
    <3>. QED  BY <1>1, <1>3, <1>5, <2>1, <2>2, <3>2 DEF Finalized, Pending, Terminating
  <2>6. TerminateInv'
    <3>1. Terminating' /\ Act' = Act
      BY <1>1, <2>1 DEF Terminating, Act
    <3>2. \A i \in todo' : ~Pending(jobs'[i]) /\ i <= submitted'
      BY <1>1, <1>3, <2>1, <2>2 DEF Custody, TickInv, TerminateInv, hostVars
    <3>. QED  BY <1>1, <1>3, <2>1, <3>1, <3>2 DEF TerminateInv
  <2>7. TickInv'
    BY <1>1, <1>3, <2>1, <2>5, <2>6
       DEF Custody, TickInv, AdmitInv, DropInv, Terminating, hostVars
  <2>. QED  BY <2>3, <2>4, <2>7 DEF Guarded, Custody
<1>6. CASE ~(Act = "defer" /\ CanFinalizeDeferred(jobs, cur)) /\ CancelRequested(jobs[cur])
  <2>1. /\ jobs' = Update(jobs, cur, CancelWithProof(jobs[cur], jobs[cur].proof))
        /\ step' = "outcome" /\ UNCHANGED <<stage, cur, todo>>
    BY <1>6 DEF Settle, Step
  <2>2. NoReplay(jobs, jobs')
    <3>1. jobs[cur].proof \in Proof \cup {NoProof}
      BY <1>0, <1>1 DEF Queue, Row
    <3>. QED  BY <1>0, <1>1, <2>1, <3>1, EndsNoReplay
  <2>3. SettledInv'
    BY <1>1, <1>3, <2>2, SettledKept
       DEF Custody, TickInv, NoReplay, EarlyStages, Terminating
  <2>4. TerminateInv'
    <3>1. Terminating' /\ Act' = Act
      BY <1>1, <2>1 DEF Terminating, Act
    <3>2. \A i \in todo' : ~Pending(jobs'[i]) /\ i <= submitted'
      BY <1>1, <1>3, <2>1, <2>2 DEF Custody, TickInv, TerminateInv, hostVars, NoReplay, Pending
    <3>3. ~Pending(jobs'[cur])
      BY <1>1, <2>2 DEF NoReplay
    <3>. QED  BY <1>1, <1>3, <2>1, <3>1, <3>2, <3>3 DEF TerminateInv
  <2>5. TickInv'
    BY <1>1, <1>3, <2>1, <2>3, <2>4
       DEF Custody, TickInv, AdmitInv, DropInv, Terminating, hostVars
  <2>. QED  BY <1>3, <1>4, <2>2, <2>5, Moved DEF hostVars
<1>7. CASE UNCHANGED jobs /\ Leave
  BY <1>1, <1>3, <1>4, <1>7, UnchangedNoReplay, NextTermination DEF Steady, hostVars, Leave
<1>8. CASE UNCHANGED jobs /\ Step("forget")
  BY <1>1, <1>3, <1>4, <1>8, TerminationStep DEF Step
<1>. QED  BY <1>5, <1>6, <1>7, <1>8 DEF Settle

\* Cleaning up removes the receipt of the gone process, then the transaction.
LEMMA CleanupGuarded ==
  ASSUME IInv, IInv', Custody
  PROVE  Forget \/ Clear \/ PersistOutcome => Guarded
<1>0. /\ receipt \in [Job -> Gen \cup {NoGen}] /\ txn \in [Job -> Txn]
      /\ cur \notin todo /\ todo \subseteq Job
  BY DEF IInv, TypeOK, DurableOK, TickOK, Custody, TickInv
<1>1. ASSUME step \in {"forget", "clear"}
      PROVE  /\ Terminating /\ cur \in Job /\ txn[cur] # NoTxn /\ txn[cur].act = Act
             /\ txn[cur].phase = "released" /\ ~OwnerAlive(cur)
             /\ \A i \in Job \ {cur} : Pending(jobs[i]) => txn[i] = NoTxn
             /\ \A i \in todo : ~Pending(jobs[i]) /\ i <= submitted
  <2>1. /\ Terminating /\ cur \in Job /\ txn[cur] # NoTxn /\ txn[cur].act = Act
        /\ txn[cur].phase = "released"
    BY <1>1, InTermination DEF Custody, TickInv, TerminateInv
  <2>2. \A i \in Job \ {cur} : Pending(jobs[i]) => txn[i] = NoTxn
    BY <2>1 DEF Custody, TickInv, SettledInv, Terminating, EarlyStages
  <2>. QED  BY <1>1, <2>1, <2>2, ReleasedQuiet DEF Custody, TickInv, TerminateInv
<1>2. ASSUME Forget PROVE Guarded
  <2>1. step = "forget"
    BY <1>2 DEF Forget
  <2>2. Wanes /\ UNCHANGED <<jobs, txn, spawned, child, hostVars, stage, cur, todo>> /\ step' = "clear"
    BY <1>2, StillWanes DEF Forget, Step, processVars
  <2>3. Files
    BY <1>0, <1>1, <1>2, <2>1, <2>2 DEF Forget, Files, ReceiptKept, TxnMoves
  <2>4. SettledInv'
    <3> SUFFICES ASSUME NEW i \in Job, Pending(jobs[i]), txn[i] # NoTxn
                 PROVE  Finalized(i)' /\ Terminating' /\ cur' = i
      BY <2>2 DEF SettledInv, Pending
    <3>1. i = cur /\ Finalized(i)
      BY <1>1, <2>1 DEF Custody, TickInv, SettledInv
    <3>. QED  BY <1>1, <2>1, <2>2, <3>1 DEF Finalized, Pending, Terminating
  <2>5. TickInv'
    <3>1. Terminating' /\ Act' = Act
      BY <1>1, <2>1, <2>2 DEF Terminating, Act
    <3>. QED  BY <1>0, <1>1, <2>1, <2>2, <2>4, <3>1
              DEF Custody, TickInv, AdmitInv, TerminateInv, DropInv, Terminating, hostVars
  <2>. QED  BY <2>2, <2>3, <2>5, UnchangedNoReplay, Moved DEF hostVars
<1>3. ASSUME Clear PROVE Guarded
  <2>1. step = "clear" /\ Visit(todo)
    BY <1>3 DEF Clear, Leave
  <2>2. Wanes /\ UNCHANGED <<jobs, receipt, spawned, child, hostVars>>
    BY <1>3, StillWanes DEF Clear, processVars
  <2>3. txn'[cur] = NoTxn /\ \A i \in Job \ {cur} : txn'[i] = txn[i]
    BY <1>0, <1>1, <1>3, <2>1 DEF Clear
  <2>4. Files
    BY <2>2, <2>3 DEF Files, ReceiptKept, TxnMoves
  <2>5. SettledInv'
    BY <1>1, <2>1, <2>2, <2>3 DEF SettledInv, Pending
  <2>6. stage \notin {"boot", "admit", "reap"} /\ bump' = NoBump
    BY <1>1, <2>1, <2>2 DEF Terminating, hostVars, Custody, TickInv
  <2>7. TickInv'
    BY <1>0, <1>1, <2>1, <2>2, <2>5, <2>6, Visited DEF hostVars
  <2>. QED  BY <2>2, <2>4, <2>7, UnchangedNoReplay, Moved DEF hostVars
<1>4. ASSUME PersistOutcome PROVE Guarded
  <2>1. step = "outcome" /\ UNCHANGED <<jobs, receipt, txn, proc, spawned, child, hostVars>>
        /\ UNCHANGED <<stage, cur, todo>>
    BY <1>4 DEF PersistOutcome, Step, processVars
  <2>2. Steady
    BY <2>1, OnlyTickSteady
  <2>3. CASE Terminating
    <3>1. /\ cur \in Job /\ ~Pending(jobs[cur]) /\ txn[cur] # NoTxn /\ txn[cur].act = Act
          /\ txn[cur].phase = "released"
      BY <2>1, <2>3, InTermination DEF Custody, TickInv, TerminateInv
    <3>2. step' = "forget"
      BY <1>4, <2>3 DEF PersistOutcome, Step
    <3>. QED  BY <1>0, <2>1, <2>2, <2>3, <3>1, <3>2, TerminationStep DEF Steady
  <2>4. CASE ~Terminating
    <3>1. \/ stage = "orphans" /\ step' = "release"
          \/ stage \in {"reap", "running"} /\ step' = "drop"
      BY <1>4, <2>1, <2>4 DEF PersistOutcome, Step, Custody, TickInv, DropInv
    <3>2. SettledInv'
      BY <2>1, <2>2, <2>4, <3>1, SettledKept
         DEF Custody, TickInv, Steady, NoReplay, EarlyStages
    <3>3. DropInv'
      BY <2>1, <3>1 DEF Custody, TickInv, DropInv, InHand, RootAlive
    <3>4. TickInv'
      BY <1>0, <2>1, <3>1, <3>2, <3>3
         DEF Custody, TickInv, AdmitInv, TerminateInv, Terminating, hostVars
    <3>. QED  BY <2>2, <3>4, Moved DEF Steady, hostVars
  <2>. QED  BY <2>3, <2>4
<1>. QED  BY <1>2, <1>3, <1>4

-----------------------------------------------------------------------------
(* The supervisor: admission, and what fails. *)

\* What admission knows of the jobs it has started and not yet spawned.
LEMMA InAdmission ==
  ASSUME IInv, Custody, stage = "admit", step \in {"next", "receipt", "spawn"}
  PROVE  /\ \A j \in todo : Quiet(j) /\ ~Pending(jobs[j]) /\ txn[j] = NoTxn /\ j <= submitted
         /\ step # "next" => /\ cur \in Job /\ Quiet(cur) /\ ~Pending(jobs[cur])
                             /\ txn[cur] = NoTxn /\ cur <= submitted
         /\ step = "receipt" => /\ spawned \in Gen /\ receipt[cur] < spawned
                                /\ proc[spawned].job = cur
         /\ cur \notin todo /\ todo \subseteq Job
         /\ stage \notin EarlyStages /\ ~Terminating
<1>1. todo \subseteq Job /\ (step # "next" => cur \in Job) /\ cur \notin todo
  BY DEF IInv, TypeOK, TickOK, Custody, TickInv
<1>2. todo \subseteq InHand /\ (step # "next" => cur \in InHand)
  BY <1>1 DEF InHand, NoJob, Job
<1>3. step = "receipt" => receipt[cur] < spawned /\ proc[spawned].job = cur
  BY DEF Custody, TickInv, AdmitInv
<1>4. step = "receipt" => spawned \in Gen
  BY <1>1, <1>3, ExecutionAssumption DEF IInv, TypeOK, DurableOK, ProcessOK, Gen, NoGen
<1>. QED  BY <1>1, <1>2, <1>3, <1>4 DEF Custody, TickInv, AdmitInv, EarlyStages, Terminating

\* Going on with the rest of the list.
LEMMA NextAdmission ==
  ASSUME IInv, IInv', Custody, stage = "admit", step \in {"next", "receipt", "spawn"},
         \A j \in todo : jobs'[j] = jobs[j] /\ txn'[j] = txn[j] /\ Quiet(j)',
         submitted' = submitted, bump' = NoBump, SettledInv', Leave
  PROVE  TickInv'
  BY InAdmission, Visited DEF Leave, Terminating, Pending

\* Selecting and starting pending jobs: they are quiet and have no transaction.
LEMMA SelectionGuarded ==
  ASSUME IInv, IInv', Custody
  PROVE  /\ \A late \in SUBSET Job : SelectPending(late) => Guarded
         /\ SelectNothing => Guarded
         /\ StartSelected => Guarded
<1>0. jobs \in Queue /\ todo \subseteq Job /\ cur \notin todo
  BY DEF IInv, TypeOK, QueueOK, TickOK, Custody, TickInv
<1>1. ASSUME NEW late \in SUBSET Job, SelectPending(late) PROVE Guarded
  <2>1. NoReplay(jobs, jobs')
    BY <1>0, <1>1, PendingJobsNoReplay, ExecutionAssumption DEF SelectPending
  <2>2. Steady
    BY <1>1, <2>1, StillWanes
       DEF SelectPending, Steady, hostVars, Files, ReceiptKept, TxnMoves, durableVars, processVars
  <2>3. stage = "admit" /\ step = "enter" /\ cur = NoJob
    BY <1>1 DEF SelectPending, At, Custody, TickInv
  <2>4. CASE EndStage
    BY <2>2, <2>3, <2>4, EndGuarded DEF Terminating
  <2>5. ASSUME NEW S \in SUBSET Job, step' = "start", todo' = S, UNCHANGED <<stage, cur>>
        PROVE  Guarded
    <3>1. SettledInv'
      BY <2>2, <2>3, SettledKept
         DEF Custody, TickInv, Steady, NoReplay, EarlyStages, Terminating
    <3>2. NoJob \notin S
      BY DEF NoJob, Job
    <3>3. TickInv'
      BY <2>2, <2>3, <2>5, <3>1, <3>2
         DEF Custody, TickInv, AdmitInv, TerminateInv, DropInv, Terminating, Steady, hostVars
    <3>. QED  BY <2>2, <3>3, Moved DEF Steady, hostVars
  <2>6. Eligible(jobs, late) \subseteq Job
    BY DEF Eligible, Rows
  <2>. QED  BY <1>1, <2>4, <2>5, <2>6 DEF SelectPending
<1>3. ASSUME SelectNothing PROVE Guarded
  <2>1. NoReplay(jobs, jobs')
    BY <1>0, <1>3, PendingJobsNoReplay, ExecutionAssumption DEF SelectNothing
  <2>2. Steady
    BY <1>3, <2>1, StillWanes
       DEF SelectNothing, Steady, hostVars, Files, ReceiptKept, TxnMoves, durableVars, processVars
  <2>. QED  BY <1>3, <2>2, EndGuarded DEF SelectNothing, At, Terminating
<1>2. ASSUME StartSelected PROVE Guarded
  <2> DEFINE S == {j \in todo : Pending(jobs[j])}
  <2>1. NoReplay(jobs, jobs') /\ \A j \in todo : ~Pending(jobs'[j])
    BY <1>0, <1>2, PendingJobsNoReplay DEF StartSelected
  <2>2. Steady
    BY <1>2, <2>1, StillWanes
       DEF StartSelected, Steady, Files, ReceiptKept, TxnMoves, durableVars, processVars
  <2>3. stage = "admit" /\ step = "start" /\ Visit(S)
    BY <1>2 DEF StartSelected, At
  <2>4. ASSUME NEW j \in S PROVE Quiet(j)' /\ txn[j] = NoTxn /\ j <= submitted
    <3>1. Quiet(j) /\ j \in Job /\ Pending(jobs[j])
      BY <1>0 DEF Custody, TreeInv, PendingQuiet
    <3>2. txn[j] = NoTxn
      BY <1>0, <2>3 DEF Custody, TickInv, SettledInv, EarlyStages, Terminating
    <3>3. j <= submitted
      BY <3>1 DEF IInv, TypeOK, QueueOK, Job, Pending
    <3>4. Quiet(j)'
      BY <1>2, <2>2, <3>1, StaysQuiet DEF Steady, StartSelected, durableVars
    <3>. QED  BY <3>2, <3>3, <3>4
  <2>5. \A j \in S : ~Pending(jobs'[j])
    BY <2>1
  <2>6. S \subseteq Job
    BY <1>0
  <2> HIDE DEF S
  <2>. QED  BY <2>2, <2>3, <2>4, <2>5, <2>6, VisitGuarded DEF Terminating, EarlyStages
<1>. QED  BY <1>1, <1>2, <1>3

\* A new process waits: it has no receipt yet and acts for nobody.
LEMMA SpawnGuarded ==
  ASSUME IInv, IInv', Custody, NEW j \in Job
  PROVE  SpawnProcess(j) => Guarded
<1> SUFFICES ASSUME SpawnProcess(j) PROVE Guarded
  OBVIOUS
<1>0. /\ proc \in [Gen -> Process] /\ receipt \in [Job -> Gen \cup {NoGen}]
      /\ spawned \in Nat /\ txn \in [Job -> Txn]
  BY ExecutionAssumption DEF IInv, TypeOK, ProcessOK, DurableOK
<1>1. stage = "admit" /\ step = "next" /\ j \in todo
  BY DEF SpawnProcess, At
<1>2. PICK n \in Gen : n = spawned + 1 /\ n > spawned
  BY <1>0, ExecutionAssumption DEF SpawnProcess, Gen
<1>3. PICK p : /\ p = [NoProcess EXCEPT !.st = "waiting", !.job = j, !.boot = boot]
               /\ p.st = "waiting" /\ p.job = j /\ p.on = NoTarget /\ p.snap = Absent
  <2> DEFINE q == [NoProcess EXCEPT !.st = "waiting", !.job = j, !.boot = boot]
  <2>1. q.st = "waiting" /\ q.job = j /\ q.on = NoTarget /\ q.snap = Absent
    BY DEF NoProcess
  <2>. QED  BY <2>1, Zenon
<1>4. proc' = [proc EXCEPT ![n] = p] /\ spawned' = n
  BY <1>2, <1>3 DEF SpawnProcess
<1>5. /\ UNCHANGED <<jobs, receipt, txn, child, submitted>> /\ bump' = NoBump
      /\ stage' = "admit" /\ step' = "receipt" /\ cur' = j /\ todo' = todo \ {j}
  BY <1>1 DEF SpawnProcess, Take, durableVars, hostVars, Custody, TickInv
<1>6. /\ \A g \in Gen \ {n} : proc'[g] = proc[g]
      /\ proc'[n].job = j /\ ~TreeAlive(n)' /\ ~Acting(n)' /\ ~Pending(proc'[n].snap)
  BY <1>0, <1>2, <1>3, <1>4
     DEF TreeAlive, Acting, ActingStates, Pending, Absent
<1>7. \A i \in Job : /\ receipt[i] # NoGen => receipt[i] \in Gen \ {n} /\ receipt[i] <= spawned'
                     /\ txn[i] # NoTxn => txn[i].gen \in Gen \ {n} /\ txn[i].gen <= spawned'
  BY <1>0, <1>2, <1>4 DEF Custody, TreeInv, ReceiptOwns, TxnOwns, Gen, NoGen
<1>8. \A g \in Gen \ {n} : /\ RootAlive(g)' = RootAlive(g) /\ TreeAlive(g)' = TreeAlive(g)
                           /\ Acting(g)' = Acting(g)
  BY <1>6 DEF RootAlive, TreeAlive, Acting
<1>9. ASSUME NEW i \in Job, NEW g \in Gen, OnlyTree(i, g) PROVE OnlyTree(i, g)'
  BY <1>6, <1>8, <1>9 DEF OnlyTree
<1>10. ASSUME NEW i \in Job, Quiet(i) PROVE Quiet(i)'
  BY <1>0, <1>5, <1>6, <1>7, <1>8, <1>10 DEF Quiet, NoGen, Gen
<1>11. ReceiptOwns'
  <2> SUFFICES ASSUME NEW i \in Job, receipt[i] # NoGen
               PROVE  /\ receipt[i] <= spawned' /\ proc'[receipt[i]].job = i
                      /\ RootAlive(receipt[i])' => /\ OnlyTree(i, receipt[i])'
                                                   /\ child[i] \in {NoGen, receipt[i]}
    BY <1>5 DEF ReceiptOwns
  <2>1. PICK g \in Gen \ {n} : g = receipt[i]
    BY <1>7
  <2>2. RootAlive(g)' => OnlyTree(i, g)' /\ child[i] \in {NoGen, g}
    BY <1>8, <1>9, <2>1 DEF Custody, TreeInv, ReceiptOwns
  <2>3. proc'[g].job = i
    BY <1>6, <2>1 DEF Custody, TreeInv, ReceiptOwns
  <2>. QED  BY <1>5, <1>7, <2>1, <2>2, <2>3 DEF OnlyTree, RootAlive
<1>12. TxnOwns'
  <2> SUFFICES ASSUME NEW i \in Job, txn[i] # NoTxn
               PROVE  /\ txn[i].gen \in Gen /\ txn[i].gen <= spawned'
                      /\ proc'[txn[i].gen].job = i
                      /\ txn[i].phase \in Phases
                      /\ receipt[i] \in {NoGen, txn[i].gen}
                      /\ OnlyTree(i, txn[i].gen)'
                      /\ txn[i].phase # "frozen" => TreeGone(txn[i].gen)'
    BY <1>5 DEF TxnOwns
  <2>1. PICK g \in Gen \ {n} : g = txn[i].gen
    BY <1>7
  <2>2. /\ proc[g].job = i /\ txn[i].phase \in Phases /\ receipt[i] \in {NoGen, g}
        /\ OnlyTree(i, g) /\ (txn[i].phase # "frozen" => TreeGone(g))
    BY <2>1 DEF Custody, TreeInv, TxnOwns
  <2>3. OnlyTree(i, g)' /\ (TreeGone(g) => TreeGone(g)')
    BY <1>8, <1>9, <2>2 DEF TreeGone
  <2>. QED  BY <1>5, <1>6, <1>7, <2>1, <2>2, <2>3
            DEF OnlyTree, TreeGone, RootAlive, TreeAlive, Acting
<1>13. PendingQuiet'
  <2>1. \A i \in Job : Pending(jobs'[i]) => Quiet(i)
    BY <1>5 DEF Custody, TreeInv, PendingQuiet
  <2>2. \A i \in Job : Pending(jobs'[i]) => Quiet(i)'
    BY <1>10, <2>1
  <2>3. \A g \in Gen : ~Pending(proc'[g].snap)
    BY <1>6 DEF Custody, TreeInv, PendingQuiet
  <2>. QED  BY <2>2, <2>3 DEF PendingQuiet
<1>14. Unsubmitted'
  <2>1. j <= submitted
    BY <1>1, InAdmission
  <2>2. \A i \in Job : i > submitted => i # j
    BY <2>1 DEF IInv, TypeOK, QueueOK, Job
  <2>. QED  BY <1>5, <1>6, <2>2 DEF Custody, TreeInv, Unsubmitted
<1>15. ActingHasReceipt' /\ OneTreePerJob'
  BY <1>5, <1>6, <1>8 DEF Custody, TreeInv, ActingHasReceipt, OneTreePerJob
<1>16. SettledInv'
  <2>1. \A i \in Job : Pending(jobs[i]) => txn[i] = NoTxn
    BY <1>1 DEF Custody, TickInv, SettledInv, EarlyStages, Terminating
  <2>. QED  BY <1>5, <2>1 DEF SettledInv, Pending
<1>17. TickInv'
  <2>1. InHand' \subseteq todo
    BY <1>1, <1>5 DEF InHand
  <2>2. ASSUME NEW i \in todo
        PROVE  Quiet(i)' /\ ~Pending(jobs'[i]) /\ txn'[i] = NoTxn /\ i <= submitted'
    BY <1>1, <1>5, <1>10, InAdmission
  <2>3. AdmitInv'
    <3>1. receipt'[cur'] < spawned'
      BY <1>0, <1>2, <1>4, <1>5 DEF NoGen, Gen, Custody, TreeInv, ReceiptOwns
    <3>2. proc'[spawned'].job = cur'
      BY <1>4, <1>5, <1>6
    <3>. QED  BY <2>1, <2>2, <3>1, <3>2 DEF AdmitInv
  <2>. QED  BY <1>5, <1>16, <2>3 DEF TickInv, TerminateInv, DropInv, Terminating
<1>18. Replays
  BY <1>5 DEF Replays
<1>. QED  BY <1>11, <1>12, <1>13, <1>14, <1>15, <1>17, <1>18 DEF Guarded, Custody, TreeInv

\* The receipt makes the new process the only one that may act for its job.
LEMMA ReceiptGuarded ==
  ASSUME IInv, IInv', Custody
  PROVE  WriteReceipt \/ KeepUnverified => Guarded
<1> SUFFICES ASSUME WriteReceipt \/ KeepUnverified PROVE Guarded
  OBVIOUS
<1>0. /\ receipt \in [Job -> Gen \cup {NoGen}] /\ child \in [Job -> Gen \cup {NoGen}]
  BY DEF IInv, TypeOK, ProcessOK, DurableOK
<1>1. stage = "admit" /\ step = "receipt"
  BY DEF WriteReceipt, KeepUnverified, At
<1>2. /\ cur \in Job /\ Quiet(cur) /\ ~Pending(jobs[cur]) /\ txn[cur] = NoTxn /\ cur <= submitted
      /\ spawned \in Gen /\ receipt[cur] < spawned /\ proc[spawned].job = cur
      /\ cur \notin todo /\ todo \subseteq Job
      /\ \A j \in todo : Quiet(j)
  BY <1>1, InAdmission
<1>3. /\ UNCHANGED <<jobs, txn, proc, spawned, submitted>> /\ bump' = NoBump /\ Leave
      /\ receipt'[cur] \in {receipt[cur], spawned} /\ child'[cur] = spawned
      /\ \A j \in Job \ {cur} : receipt'[j] = receipt[j] /\ child'[j] = child[j]
  BY <1>0, <1>2 DEF WriteReceipt, KeepUnverified, durableVars, hostVars, Custody, TickInv
<1>4. \A g \in Gen : /\ RootAlive(g)' = RootAlive(g) /\ TreeAlive(g)' = TreeAlive(g)
                     /\ Acting(g)' = Acting(g)
  BY <1>3 DEF RootAlive, TreeAlive, Acting
<1>5. \A g \in Gen : OnlyTree(cur, g)
  BY <1>2 DEF Quiet, OnlyTree
<1>6. ReceiptOwns'
  <2> SUFFICES ASSUME NEW j \in Job, receipt'[j] # NoGen
               PROVE  /\ receipt'[j] <= spawned /\ proc[receipt'[j]].job = j
                      /\ proc[receipt'[j]].st \in LiveStates
                           => /\ \A h \in Gen : proc[h].job = j /\ h # receipt'[j] => ~TreeAlive(h)
                              /\ child'[j] \in {NoGen, receipt'[j]}
    BY <1>3, <1>4 DEF ReceiptOwns, OnlyTree, RootAlive
  <2>1. CASE j # cur
    BY <1>3, <2>1 DEF Custody, TreeInv, ReceiptOwns, OnlyTree, RootAlive
  <2>2. CASE j = cur /\ receipt'[j] = spawned
    BY <1>2, <1>3, <1>5, <2>2 DEF OnlyTree, Gen
  <2>3. CASE j = cur /\ receipt'[j] = receipt[cur]
    <3>1. receipt[cur] \in Gen /\ proc[receipt[cur]].job = cur /\ receipt[cur] <= spawned
      BY <1>0, <1>2, <2>3 DEF Custody, TreeInv, ReceiptOwns
    <3>2. ~RootAlive(receipt[cur])
      BY <1>2, <3>1 DEF Quiet
    <3>. QED  BY <2>3, <3>1, <3>2 DEF RootAlive
  <2>. QED  BY <1>3, <2>1, <2>2, <2>3
<1>7. TxnOwns'
  <2> SUFFICES ASSUME NEW j \in Job, txn[j] # NoTxn
               PROVE  receipt'[j] = receipt[j]
    BY <1>3, <1>4 DEF Custody, TreeInv, TxnOwns, OnlyTree, TreeGone, RootAlive, TreeAlive, Acting
  <2>. QED  BY <1>2, <1>3
<1>8. ASSUME NEW j \in Job \ {cur}, Quiet(j) PROVE Quiet(j)'
  BY <1>3, <1>4, <1>8 DEF Quiet
<1>9. PendingQuiet'
  <2>1. \A j \in Job : Pending(jobs'[j]) => j # cur /\ Quiet(j)
    BY <1>2, <1>3 DEF Custody, TreeInv, PendingQuiet
  <2>2. \A j \in Job : Pending(jobs'[j]) => Quiet(j)'
    BY <1>8, <2>1
  <2>. QED  BY <1>3, <2>2 DEF Custody, TreeInv, PendingQuiet
<1>10. Unsubmitted'
  <2>1. \A j \in Job : j > submitted => j # cur
    BY <1>2 DEF IInv, TypeOK, QueueOK, Job
  <2>. QED  BY <1>3, <2>1 DEF Custody, TreeInv, Unsubmitted
<1>11. ActingHasReceipt'
  <2>1. ASSUME NEW g \in Gen, Acting(g) PROVE proc[g].job \in Job \ {cur}
    <3>1. RootAlive(g) /\ TreeAlive(g)
      BY <2>1 DEF Acting, RootAlive, TreeAlive, ActingStates
    <3>. QED  BY <1>2, <3>1 DEF Quiet, IInv, TypeOK, ProcessOK
  <2>. QED  BY <1>3, <1>4, <2>1 DEF Custody, TreeInv, ActingHasReceipt
<1>12. OneTreePerJob'
  BY <1>3, <1>4 DEF Custody, TreeInv, OneTreePerJob
<1>13. SettledInv'
  <2>1. \A j \in Job : Pending(jobs[j]) => txn[j] = NoTxn
    BY <1>1 DEF Custody, TickInv, SettledInv, EarlyStages, Terminating
  <2>. QED  BY <1>3, <2>1 DEF SettledInv, Pending
<1>14. ASSUME NEW j \in todo PROVE jobs'[j] = jobs[j] /\ txn'[j] = txn[j] /\ Quiet(j)'
  <2>1. j \in Job \ {cur} /\ Quiet(j)
    BY <1>2
  <2>. QED  BY <1>3, <1>8, <2>1
<1>15. TickInv'
  BY <1>1, <1>3, <1>13, <1>14, NextAdmission
<1>16. Replays
  BY <1>3 DEF Replays
<1>. QED  BY <1>6, <1>7, <1>9, <1>10, <1>11, <1>12, <1>15, <1>16
          DEF Guarded, Custody, TreeInv

\* A job that could not be spawned goes back with no process authorized.
LEMMA UnspawnedGuarded ==
  ASSUME IInv, IInv', Custody
  PROVE  SpawnFails \/ RequeueUnspawned => Guarded
<1>0. jobs \in Queue /\ proc \in [Gen -> Process]
  BY DEF IInv, TypeOK, QueueOK, ProcessOK
<1>1. ASSUME SpawnFails PROVE Guarded
  <2>1. stage = "admit" /\ step \in {"next", "receipt"}
    BY <1>1 DEF SpawnFails, At
  <2>2. /\ stage' = stage /\ step' = "spawn"
        /\ \/ step = "receipt" /\ UNCHANGED <<cur, todo>>
           \/ cur' \in todo /\ todo' = todo \ {cur'}
    BY <1>1 DEF SpawnFails, Take, Step, At
  <2>3. Wanes
    <3>1. CASE UNCHANGED proc
      BY <3>1, StillWanes
    <3>2. CASE step = "receipt" /\ proc' = [proc EXCEPT ![spawned] = Gone(proc[spawned])]
      <4>1. spawned \in Gen
        BY <2>1, <3>2, InAdmission
      <4>2. Wane(spawned, Gone(proc[spawned]))
        BY <1>0, <4>1 DEF Gone, Process, Wane, TreeAlive, Pending, Absent, LiveStates, ActingStates
      <4>. QED  BY <3>2, <4>2, OneWanes
    <3>. QED  BY <1>1, <3>1, <3>2 DEF SpawnFails, At
  <2>4. UNCHANGED <<jobs, receipt, txn, spawned, child, hostVars>>
    BY <1>1 DEF SpawnFails, durableVars
  <2>5. Steady
    BY <2>3, <2>4, UnchangedNoReplay DEF Steady, hostVars, Files, ReceiptKept, TxnMoves
  <2>6. InHand' \subseteq InHand /\ InHand \subseteq Job /\ cur' \notin todo'
    BY <2>1, <2>2 DEF InHand, IInv, TypeOK, TickOK, Custody, TickInv
  <2>7. ASSUME NEW j \in InHand
        PROVE  Quiet(j)' /\ ~Pending(jobs'[j]) /\ txn'[j] = NoTxn /\ j <= submitted'
    <3>1. j \in Job /\ Quiet(j) /\ ~Pending(jobs[j]) /\ txn[j] = NoTxn /\ j <= submitted
      BY <2>1, <2>6 DEF Custody, TickInv, AdmitInv
    <3>2. Quiet(j)'
      BY <2>3, <2>4, <3>1, StaysQuiet
    <3>. QED  BY <2>4, <3>1, <3>2 DEF hostVars
  <2>8. SettledInv'
    BY <2>1, <2>5, SettledKept DEF Custody, TickInv, Steady, NoReplay, EarlyStages, Terminating
  <2>9. TickInv'
    BY <2>1, <2>2, <2>4, <2>6, <2>7, <2>8
       DEF Custody, TickInv, AdmitInv, TerminateInv, DropInv, Terminating, hostVars
  <2>. QED  BY <2>5, <2>9, Moved DEF Steady, hostVars
<1>2. ASSUME RequeueUnspawned PROVE Guarded
  <2>1. stage = "admit" /\ step = "spawn" /\ Leave
    BY <1>2 DEF RequeueUnspawned, At
  <2>2. /\ cur \in Job /\ Quiet(cur) /\ txn[cur] = NoTxn /\ cur \notin todo /\ todo \subseteq Job
        /\ \A j \in todo : Quiet(j)
    BY <2>1, InAdmission
  <2>3. UNCHANGED <<receipt, txn, proc, spawned, child, hostVars>> /\ Wanes
    BY <1>2, StillWanes DEF RequeueUnspawned, durableVars, processVars
  <2>4. \A j \in Job \ {cur} : jobs'[j] = jobs[j]
    BY <1>0, <1>2 DEF RequeueUnspawned, RequeueDeferredRunning, Queue
  <2>5. Replays
    BY <2>2, <2>4 DEF Replays
  <2>6. TreeInv'
    BY <2>3, <2>5, TreeKept
       DEF Files, ReceiptKept, TxnMoves, Custody, hostVars, IInv, TypeOK, QueueOK
  <2>7. SettledInv'
    <3>1. \A j \in Job : Pending(jobs[j]) => txn[j] = NoTxn
      BY <2>1 DEF Custody, TickInv, SettledInv, EarlyStages, Terminating
    <3>. QED  BY <2>2, <2>3, <2>4, <3>1 DEF SettledInv, Pending
  <2>8. ASSUME NEW j \in todo PROVE jobs'[j] = jobs[j] /\ txn'[j] = txn[j] /\ Quiet(j)'
    <3>1. j \in Job \ {cur} /\ Quiet(j)
      BY <2>2
    <3>. QED  BY <2>3, <2>4, <3>1, StaysQuiet
  <2>9. TickInv'
    BY <2>1, <2>3, <2>7, <2>8, NextAdmission DEF hostVars, Custody, TickInv
  <2>. QED  BY <2>5, <2>6, <2>9 DEF Guarded, Custody
<1>. QED  BY <1>1, <1>2

\* The other failures end the tick or go on with the next job.
LEMMA FaultGuarded ==
  ASSUME IInv, IInv', Custody
  PROVE  SupervisorFault => Guarded
<1>0. /\ proc \in [Gen -> Process] /\ receipt \in [Job -> Gen \cup {NoGen}]
      /\ child \in [Job -> Gen \cup {NoGen}]
  BY DEF IInv, TypeOK, DurableOK, ProcessOK
<1>1. ASSUME FreezeFails PROVE Guarded
  <2> DEFINE g == receipt[cur]
             p == [proc[g] EXCEPT !.frozen = FALSE]
  <2>1. g \in Gen => Wane(g, p)
    BY <1>0 DEF Wane, Process, RootAlive, Acting, TreeAlive, Custody, TreeInv, PendingQuiet
  <2>2. proc' = [proc EXCEPT ![g] = p]
    BY <1>1 DEF FreezeFails
  <2> HIDE DEF g, p
  <2>3. Wanes
    BY <2>1, <2>2, OneWanes
  <2>4. Steady
    BY <1>0, <1>1, <2>3, UnchangedNoReplay
       DEF FreezeFails, Steady, hostVars, Files, ReceiptKept, TxnMoves, durableVars
  <2>. QED  BY <1>1, <2>4, AbortGuarded DEF FreezeFails
<1>2. ASSUME KillUnverified PROVE Guarded
  <2>1. Terminating /\ step = "kill"
    BY <1>2, InTermination DEF KillUnverified
  <2>. QED  BY <1>2, <2>1, OnlyTickSteady, NextTermination
            DEF KillUnverified, Leave, durableVars, processVars
<1>3. ASSUME DrainBusy PROVE Guarded
  BY <1>3, OnlyTickSteady, EndGuarded DEF DrainBusy, At, Terminating, durableVars, processVars
<1>4. ASSUME IoError PROVE Guarded
  <2>1. Steady
    BY <1>0, <1>4, StillWanes, UnchangedNoReplay
       DEF IoError, Steady, hostVars, Files, ReceiptKept, TxnMoves, durableVars
  <2>. QED  BY <1>4, <2>1, AbortGuarded DEF IoError
<1>. QED  BY <1>1, <1>2, <1>3, <1>4, ReceiptGuarded, UnspawnedGuarded,
             SelectionGuarded DEF SupervisorFault

-----------------------------------------------------------------------------
(* The theorems. *)

\* Nothing has a tree in the beginning.
LEMMA InitCustody == Init => Custody
<1> SUFFICES ASSUME Init PROVE Custody
  OBVIOUS
<1>1. \A g \in Gen : proc[g].st = "none" /\ proc[g].on = NoTarget /\ proc[g].job = NoJob
                     /\ proc[g].snap = Absent
  BY DEF Init, NoProcess
<1>2. \A g \in Gen : ~RootAlive(g) /\ ~TreeAlive(g) /\ ~Acting(g)
  BY <1>1 DEF RootAlive, TreeAlive, Acting, LiveStates, ActingStates
<1>3. TreeInv
  BY <1>1, <1>2 DEF Init, TreeInv, ReceiptOwns, TxnOwns, PendingQuiet, Unsubmitted, Pending,
     Absent, ActingHasReceipt, OneTreePerJob, NoJob, Job
<1>4. SettledInv
  BY DEF Init, SettledInv
<1>5. TickInv
  BY <1>4 DEF Init, TickInv, AdmitInv, TerminateInv, DropInv, InHand
<1>. QED  BY <1>3, <1>5 DEF Custody

\* Every step keeps custody.
LEMMA NextGuarded ==
  ASSUME PlainHost, IInv, Custody, Next
  PROVE  Guarded
<1>0. IInv'
  BY NextKept DEF Kept
<1>1. CASE SupervisorStep
  BY <1>0, <1>1, BootGuarded, RepairGuarded, TerminationEntryGuarded, TerminationStartGuarded,
     TerminationWorkGuarded, SettleGuarded, CleanupGuarded, LostWorkerGuarded, MergeGuarded,
     SelectionGuarded, SpawnGuarded, ReceiptGuarded, UnspawnedGuarded
     DEF SupervisorStep
<1>. QED  BY <1>0, <1>1, FaultGuarded, WorkerGuarded, OperatorGuarded, HostGuarded DEF Next

\* So does a step that changes nothing.
LEMMA StutterGuarded ==
  ASSUME IInv, Custody, UNCHANGED vars
  PROVE  Guarded
<1>1. IInv'
  BY StutterKept DEF Kept
<1>2. UNCHANGED <<jobs, receipt, txn, spawned, child, bump, tickVars, submitted, proc>>
  BY DEF vars, durableVars, processVars, hostVars
<1>. QED  BY <1>1, <1>2, StillWanes, BesideTick DEF RowsStay, IInv, TypeOK, QueueOK

\* The supervisor always knows the one tree that may act for a job: custody is an
\* inductive invariant of every host without boot requeue and bumps.
THEOREM CustodyKept ==
  ASSUME PlainHost
  PROVE  Spec => []Custody
<1>1. IInv /\ Custody /\ [Next]_vars => Custody'
  BY NextGuarded, StutterGuarded DEF Guarded
<1>. QED  BY Invariance, InitCustody, <1>1, PTL DEF Spec

\* No job is executed twice at the same time, whatever is lost, killed, retried or
\* restarted, for any number of jobs, workers, crashes and reboots.
THEOREM NeverTwoTrees ==
  ASSUME PlainHost
  PROVE  Spec => []OneTreePerJob
<1>1. Custody => OneTreePerJob
  BY DEF Custody, TreeInv
<1>2. Spec => []Custody
  BY CustodyKept
<1>. QED  BY <1>1, <1>2, PTL

\* Every worker that acts for a job is the one the job's receipt names.
THEOREM ReceiptsFindWorkers ==
  ASSUME PlainHost
  PROVE  Spec => []ActingHasReceipt
<1>1. Custody => ActingHasReceipt
  BY DEF Custody, TreeInv
<1>2. Spec => []Custody
  BY CustodyKept
<1>. QED  BY <1>1, <1>2, PTL

\* Deferral and failed spawns return a job to the queue only when no tree acts
\* for it.
THEOREM ReplaysAreDead ==
  ASSUME PlainHost
  PROVE  Spec => ReplayAfterDeath
<1>1. IInv /\ Custody /\ [Next]_vars
        => [\A j \in Job : Running(jobs[j]) /\ Pending(jobs'[j]) => ~Executing(j)]_vars
  <2>1. IInv /\ Custody /\ Next
          => \A j \in Job : Running(jobs[j]) /\ Pending(jobs'[j]) => ~Executing(j)
    BY NextGuarded DEF Guarded, Replays, Quiet, Executing, Running, Pending
  <2>. QED  BY <2>1
<1>2. Spec => []Custody
  BY CustodyKept
<1>. QED  BY Invariance, <1>1, <1>2, PTL DEF Spec, ReplayAfterDeath

-----------------------------------------------------------------------------
(***************************************************************************)
(* Order.  Every step is shown to be lawful, which says what it may do to  *)
(* a row, a process, a lease, a file and the memory of the tick; the       *)
(* invariants, the action properties and the refinement follow from that   *)
(* alone.                                                                  *)
(***************************************************************************)

\* No live process owns job j, though descendants of a dead one may be left.
Unowned(j) ==
  \A g \in Gen : proc[g].job = j /\ RootAlive(g) => ~Acting(g) /\ receipt[j] # g

-----------------------------------------------------------------------------
(* What a step may do. *)

\* Job j is submitted.
RowNew(j) == /\ jobs[j].status = "absent" /\ j > submitted /\ j <= submitted'
             /\ Pending(jobs'[j]) /\ ~jobs'[j].asked

\* The admission of job j is written.
RowStarts(j) == /\ stage = "admit" /\ step = "start" /\ j \in todo
                /\ Pending(jobs[j]) /\ Running(jobs'[j])
                /\ ~jobs'[j].asked /\ ~jobs'[j].deferred

\* The cancellation of running job j is requested.
RowAsked(j) == /\ Running(jobs[j]) /\ Running(jobs'[j])
               /\ jobs'[j].asked /\ jobs'[j].deferred = jobs[j].deferred

\* The worker of job j, which is not stopped, marks it deferred and parks,
\* completes it or refuses it; never after a request.
RowWorked(j) ==
  /\ Running(jobs[j]) /\ ~jobs[j].asked /\ ~jobs[j].deferred
  /\ \E g \in Gen :
       /\ proc[g].job = j /\ Acting(g) /\ ~proc[g].frozen
       /\ \/ Running(jobs'[j]) /\ ~jobs'[j].asked /\ proc'[g].st = "parked"
          \/ jobs'[j].status = "completed"
          \/ jobs'[j].status = "cancelled" /\ jobs'[j].asked

\* The supervisor ends the run of job j, which has no owner any more; it hands it
\* back and acknowledges a cancellation only when the job is quiet.
RowDecided(j) ==
  /\ Running(jobs[j]) /\ Unowned(j)
  /\ j \notin todo' /\ ~(Admitting' /\ j = cur')
  /\ \/ ~jobs[j].asked /\ jobs'[j].status = "completed"
     \/ Quiet(j) /\ ~jobs[j].asked /\ Pending(jobs'[j]) /\ j \notin leases
     \/ Quiet(j) /\ jobs[j].asked /\ jobs'[j].status = "cancelled" /\ jobs'[j].asked

RowStep(j) ==
  \/ Beside(jobs[j], jobs'[j]) \/ RowDropped(jobs[j], jobs'[j])
  \/ RowNew(j) \/ RowStarts(j) \/ RowAsked(j) \/ RowWorked(j) \/ RowDecided(j)

RowsMove == submitted' >= submitted /\ \A j \in Job : RowStep(j)

\* Process g, the owner of a job on the list, is stopped.
Stops(g) == /\ Terminating /\ step = "next" /\ proc[g].job \in todo
            /\ receipt[proc[g].job] = g /\ jobs' = jobs

\* Process g becomes p.
Follow(g, p) ==
  /\ p.job = proc[g].job
  /\ p.st \in LiveStates => RootAlive(g)
  /\ p.st = "waiting" => proc[g].st = "waiting"
  /\ p.st \in ActingStates => Acting(g) \/ Authorized(g)
  /\ proc[g].st = "parked" => p.st \in {"parked", "dead"}
  /\ p.on # NoTarget => TreeAlive(g) /\ (proc[g].on # NoTarget \/ p.job \in leases')
  /\ p.frozen /\ p.st \in LiveStates => proc[g].frozen \/ Stops(g)
  /\ \/ p.st \notin {"prepared", "publish", "working"}
     \/ p.st = proc[g].st /\ p.snap = proc[g].snap
     \/ CopyFits(p, jobs')

\* Process g is created.
Fresh(g) == /\ stage = "admit"
            /\ proc'[g].st = "waiting" /\ proc'[g].on = NoTarget /\ ~proc'[g].frozen
            /\ receipt'[proc'[g].job] # g

ProcsMove == \A g \in Gen : Follow(g, proc'[g]) \/ Fresh(g)

\* A lease is taken by an acting worker, and given back with no validation left.
LeasesMove ==
  /\ \A j \in leases' \ leases : \E g \in Gen : proc[g].job = j /\ Acting(g)
  /\ \A j \in leases \ leases', g \in Gen : proc'[g].job = j => proc'[g].on = NoTarget

\* The receipt of a live owner stays; one is written for the admitted job.  A
\* transaction is marked released after its leases are.
FilesMove ==
  \A j \in Job :
    /\ \/ ReceiptKept(j)
       \/ /\ stage = "admit" /\ step = "receipt" /\ j = cur
          /\ receipt'[j] = spawned /\ jobs' = jobs
    /\ txn'[j].phase = "released" => txn[j].phase = "released" \/ (step = "mark" /\ j = cur)

\* The memory of the tick: what each kind of list may hold.
TickMove ==
  /\ step' = "mark" => cur' = cur /\ (step = "mark" \/ cur \notin leases')
  /\ Admitting' => \/ Admitting /\ InHand' \subseteq InHand
                   \/ /\ stage = "admit" /\ step = "start"
                      /\ \A j \in InHand' : j \in todo /\ Pending(jobs[j]) /\ RowStarts(j)
  /\ stage' = "orphans" /\ step' \in {"outcome", "release"} =>
       /\ stage = "orphans"
       /\ \/ step \in {"outcome", "release"} /\ cur' = cur
          \/ \A g \in Gen : proc[g].job = cur' => TreeGone(g)
  /\ Terminating' /\ step' # "enter" =>
       \/ Terminating /\ step # "enter" /\ todo' \subseteq todo
       \/ \A j \in todo' : Condemned(jobs'[j])
  /\ stage' = "admit" /\ step' = "start" =>
       \/ stage = "admit" /\ step = "start" /\ todo' = todo
       \/ FitTogether(Rows(jobs', {"running"}) \cup todo')

\* The trees that act are the same.
SameTrees == \A g \in Gen : /\ TreeAlive(g)' <=> TreeAlive(g)
                            /\ proc'[g].job = proc[g].job

\* A step does not touch rows and trees at the same time.
Apart == jobs' = jobs \/ SameTrees

Lawful == RowsMove /\ ProcsMove /\ LeasesMove /\ FilesMove /\ TickMove /\ Apart

-----------------------------------------------------------------------------
(* Lawful steps keep order. *)

\* What custody says of an acting worker: it is the owner of its job, the only
\* tree of it, and the job is neither pending nor settled.
LEMMA ActingOwns ==
  ASSUME IInv, Custody, NEW g \in Gen, Acting(g)
  PROVE  LET j == proc[g].job IN
         /\ j \in Job /\ j <= submitted /\ receipt[j] = g
         /\ ~Pending(jobs[j]) /\ ~Quiet(j) /\ ~Unowned(j)
         /\ txn[j] # NoTxn => txn[j].phase = "frozen"
         /\ \A h \in Gen : proc[h].job = j /\ h # g => ~TreeAlive(h)
<1> DEFINE j == proc[g].job
<1>1. RootAlive(g) /\ TreeAlive(g)
  BY DEF Acting, RootAlive, TreeAlive, ActingStates
<1>2. j \in Job /\ receipt[j] = g
  BY <1>1 DEF IInv, TypeOK, ProcessOK, Custody, TreeInv, ActingHasReceipt
<1>3. j <= submitted
  BY <1>2 DEF Custody, TreeInv, Unsubmitted, IInv, TypeOK, QueueOK, Job
<1>4. ~Quiet(j) /\ ~Unowned(j) /\ ~Pending(jobs[j])
  BY <1>1, <1>2 DEF Quiet, Unowned, Custody, TreeInv, PendingQuiet
<1>5. txn[j] # NoTxn => txn[j].phase = "frozen"
  BY <1>1, <1>2 DEF Custody, TreeInv, TxnOwns, TreeGone, NoGen, Gen
<1>6. \A h \in Gen : proc[h].job = j /\ h # g => ~TreeAlive(h)
  BY <1>1 DEF Custody, TreeInv, OneTreePerJob
<1>. QED  BY <1>2, <1>3, <1>4, <1>5, <1>6

\* What a process is after a lawful step, it was allowed to become.
LEMMA Followed ==
  ASSUME IInv, Custody, Lawful, NEW g \in Gen
  PROVE  /\ TreeAlive(g)' => /\ TreeAlive(g) \/ Authorized(g)
                             /\ proc'[g].job = proc[g].job
         /\ Acting(g)' => /\ Acting(g) \/ Authorized(g)
                          /\ proc'[g].job = proc[g].job
                          /\ RootAlive(g)
         /\ RootAlive(g)' => RootAlive(g) \/ Fresh(g)
<1>1. CASE Fresh(g)
  BY <1>1 DEF Fresh, TreeAlive, Acting, ActingStates
<1>2. CASE Follow(g, proc'[g])
  BY <1>2 DEF Follow, TreeAlive, Acting, RootAlive, Authorized, ActingStates
<1>. QED  BY <1>1, <1>2 DEF Lawful, ProcsMove

\* Leases.
LEMMA LeaseKept ==
  ASSUME IInv, IInv', Custody, Custody', Order, Lawful
  PROVE  LeaseInv'
<1> USE DEF Order, LeaseInv, Lawful
<1>1. ASSUME NEW j \in Job, j \in leases', j \notin leases
      PROVE  /\ ~Pending(jobs[j]) /\ ~Quiet(j) /\ j <= submitted
             /\ txn[j] # NoTxn => txn[j].phase = "frozen"
  BY <1>1, ActingOwns DEF LeasesMove
<1>2. ValidationLeased'
  <2> SUFFICES ASSUME NEW g \in Gen, proc'[g].on # NoTarget
               PROVE  proc'[g].job \in leases'
    BY DEF ValidationLeased
  <2>1. Follow(g, proc'[g])
    BY DEF ProcsMove, Fresh
  <2>2. proc[g].on # NoTarget => proc'[g].job \in leases
    BY <2>1 DEF Follow, ValidationLeased
  <2>. QED  BY <2>1, <2>2 DEF Follow, LeasesMove
<1>3. PendingUnleased'
  <2> SUFFICES ASSUME NEW j \in Job, Pending(jobs'[j]), j \in leases'
               PROVE  FALSE
    BY DEF PendingUnleased
  <2>1. Pending(jobs[j]) \/ RowNew(j) \/ (Quiet(j) /\ j \notin leases)
    BY DEF RowsMove, RowStep, Beside, RowSame, RowDropped, RowStarts, RowAsked, RowWorked,
           RowDecided, Pending, Running, Absent
  <2>2. j \notin leases
    BY <2>1 DEF PendingUnleased, RowNew
  <2>3. j <= submitted => ~(j > submitted)
    BY DEF IInv, TypeOK, QueueOK, Job
  <2>. QED  BY <1>1, <2>1, <2>2, <2>3 DEF RowNew
<1>4. ASSUME NEW j \in Job, txn'[j].phase = "released" PROVE j \notin leases'
  <2>1. txn[j] # NoTxn /\ txn[j].phase # "frozen" /\ j \notin leases
    <3>1. CASE txn[j].phase = "released"
      BY <3>1 DEF NoTxn
    <3>2. CASE step = "mark" /\ j = cur
      BY <3>2 DEF Custody, TickInv, TerminateInv
    <3>. QED  BY <1>4, <3>1, <3>2 DEF FilesMove
  <2>. QED  BY <1>1, <2>1
<1>5. ASSUME NEW j \in Job, j > submitted' PROVE j \notin leases'
  <2>1. j > submitted' => j > submitted
    BY DEF RowsMove, IInv, TypeOK, QueueOK, Job
  <2>. QED  BY <1>1, <1>5, <2>1 DEF IInv, TypeOK, QueueOK, Job
<1>6. step' = "mark" => cur' \notin leases'
  <2> SUFFICES ASSUME step' = "mark", cur' \in leases' PROVE FALSE
    OBVIOUS
  <2>1. cur' = cur /\ step = "mark"
    BY DEF TickMove
  <2>2. cur \in Job /\ cur \notin leases /\ txn[cur] # NoTxn /\ txn[cur].phase # "frozen"
    BY <2>1 DEF Custody, TickInv, TerminateInv, IInv, TypeOK, TickOK
  <2>. QED  BY <1>1, <2>1, <2>2
<1>7. ASSUME Admitting', NEW j \in InHand' PROVE j \notin leases'
  <2>1. j \in Job
    BY DEF InHand, IInv, TypeOK, TickOK
  <2>2. CASE Admitting /\ InHand' \subseteq InHand
    BY <1>1, <1>7, <2>1, <2>2 DEF Custody, TickInv, AdmitInv, Admitting
  <2>3. CASE Pending(jobs[j])
    BY <1>1, <2>1, <2>3 DEF PendingUnleased
  <2>. QED  BY <1>7, <2>2, <2>3 DEF TickMove
<1>8. ASSUME stage' = "orphans", step' \in {"outcome", "release"}, NEW g \in Gen,
             proc'[g].job = cur'
      PROVE  TreeGone(g)'
  <2>1. Follow(g, proc'[g])
    BY <1>8 DEF TickMove, ProcsMove, Fresh
  <2>2. TreeGone(g)
    BY <1>8, <2>1 DEF TickMove, Follow
  <2>. QED  BY <2>1, <2>2, Followed DEF TreeGone, RootAlive, Authorized, Follow
<1>. QED  BY <1>2, <1>3, <1>4, <1>5, <1>6, <1>7, <1>8

\* What a lawful step makes of a row that is not running, and of one that is.
LEMMA RowMoves ==
  ASSUME IInv, IInv', Custody, Order, Lawful, NEW j \in Job
  PROVE  /\ Terminal(jobs[j]) \/ (jobs[j].status = "absent" /\ j <= submitted)
              => jobs'[j].status \in {jobs[j].status, "absent"}
         /\ Running(jobs'[j]) => Running(jobs[j]) \/ RowStarts(j)
         /\ Running(jobs[j]) => \/ RowSame(jobs[j], jobs'[j]) \/ RowAsked(j)
                                \/ RowWorked(j) \/ RowDecided(j)
<1>1. RowStep(j)
  BY DEF Lawful, RowsMove
<1>2. ~(j <= submitted /\ j > submitted)
  BY DEF IInv, TypeOK, QueueOK, Job
<1>. QED  BY <1>1, <1>2 DEF RowStep, Beside, RowSame, RowDropped, RowNew, RowStarts, RowAsked,
             RowWorked, RowDecided, Pending, Running, Terminal, Final, Absent

\* Copies of rows.
LEMMA CopyKept ==
  ASSUME IInv, IInv', Custody, Custody', Order, Lawful
  PROVE  CopyInv'
<1> USE DEF Order, Lawful
<1>1. ASSUME NEW j \in Job, jobs'[j].status = "cancelled" PROVE jobs'[j].asked
  <2>1. RowStep(j)
    BY DEF RowsMove
  <2>2. jobs[j].status = "cancelled" => jobs[j].asked
    BY DEF CopyInv
  <2>. QED  BY <1>1, <2>1, <2>2 DEF RowStep, Beside, RowSame, RowDropped, RowNew, RowStarts,
               RowAsked, RowWorked, RowDecided, Pending, Running, Absent
<1>2. ASSUME NEW g \in Gen PROVE CopyFits(proc'[g], jobs')
  <2>1. CASE Fresh(g) \/ proc'[g].st \notin {"prepared", "publish", "working"}
    BY <2>1 DEF Fresh, CopyFits
  <2>2. CASE /\ proc'[g].st \in {"prepared", "publish", "working"}
             /\ proc'[g].st = proc[g].st /\ proc'[g].snap = proc[g].snap
             /\ proc'[g].job = proc[g].job
    <3>1. CopyFits(proc[g], jobs)
      BY DEF CopyInv
    <3>2. Acting(g)
      BY <2>2 DEF Acting, ActingStates, LiveStates, ProcStates
    <3>3. proc[g].job \in Job /\ proc[g].job <= submitted
      BY <3>2, ActingOwns
    <3>4. proc[g].snap \in Row /\ ~Pending(proc[g].snap)
      BY DEF IInv, TypeOK, ProcessOK, Process, Custody, TreeInv, PendingQuiet
    <3>5. CASE proc[g].st = "working" /\ ~Running(proc[g].snap)
      <4>1. jobs[proc[g].job].status \in {proc[g].snap.status, "absent"}
        BY <3>1, <3>5 DEF CopyFits
      <4>2. proc[g].snap.status \in {"absent", "completed", "cancelled"}
        BY <3>4, <3>5 DEF Row, Live, Final, Running, Pending
      <4>3. jobs'[proc[g].job].status \in {jobs[proc[g].job].status, "absent"}
        BY <3>3, <4>1, <4>2, RowMoves DEF Terminal, Final
      <4>. QED  BY <2>2, <3>1, <3>5, <4>1, <4>3 DEF CopyFits
    <3>. QED  BY <2>2, <3>1, <3>5 DEF CopyFits
  <2>. QED  BY <2>1, <2>2 DEF ProcsMove, Follow
<1>. QED  BY <1>1, <1>2 DEF CopyInv

\* Starts and deferrals.
LEMMA StartKept ==
  ASSUME IInv, IInv', Custody, Custody', Order, Lawful
  PROVE  StartInv'
<1> USE DEF Order, Lawful
<1>1. ASSUME Admitting', NEW j \in InHand' PROVE Running(jobs'[j]) /\ ~jobs'[j].deferred
  <2>1. j \in Job
    BY DEF InHand, IInv, TypeOK, TickOK
  <2>2. CASE RowStarts(j)
    BY <2>2 DEF RowStarts
  <2>3. CASE Admitting /\ j \in InHand
    <3>1. Running(jobs[j]) /\ ~jobs[j].deferred /\ Quiet(j)
      BY <2>3 DEF StartInv, Custody, TickInv, AdmitInv, Admitting
    <3>2. ~RowWorked(j)
      BY <3>1, ActingOwns DEF RowWorked
    <3>3. ~RowDecided(j)
      BY <1>1 DEF RowDecided, InHand
    <3>. QED  BY <2>1, <3>1, <3>2, <3>3, RowMoves DEF RowSame, RowAsked, Running
  <2>. QED  BY <1>1, <2>2, <2>3 DEF TickMove
<1>2. ASSUME NEW g \in Gen, proc'[g].st = "waiting", receipt'[proc'[g].job] = g
      PROVE  Running(jobs'[proc'[g].job]) /\ ~jobs'[proc'[g].job].deferred
  <2> DEFINE j == proc[g].job
  <2>1. proc[g].st = "waiting" /\ proc'[g].job = j
    BY <1>2 DEF ProcsMove, Fresh, Follow
  <2>2. j \in Job /\ RootAlive(g) /\ ~Acting(g) /\ g # NoGen
    BY <2>1 DEF IInv, TypeOK, ProcessOK, RootAlive, Acting, LiveStates, ActingStates,
                ProcStates, NoGen, Gen
  <2>3. CASE receipt[j] = g
    <3>1. Running(jobs[j]) /\ ~jobs[j].deferred
      BY <2>1, <2>3 DEF StartInv
    <3>2. ~RowWorked(j)
      BY <2>2, <2>3, ActingOwns DEF RowWorked
    <3>3. ~RowDecided(j)
      BY <2>2, <2>3 DEF RowDecided, Unowned
    <3>. QED  BY <2>1, <2>2, <3>1, <3>2, <3>3, RowMoves DEF RowSame, RowAsked, Running
  <2>4. CASE receipt[j] # g
    <3>1. stage = "admit" /\ step = "receipt" /\ j = cur /\ jobs' = jobs
      BY <1>2, <2>1, <2>2, <2>4 DEF FilesMove, ReceiptKept
    <3>2. Admitting /\ j \in InHand
      BY <2>2, <3>1 DEF Admitting, InHand, NoJob, Job
    <3>. QED  BY <2>1, <3>1, <3>2 DEF StartInv
  <2>. QED  BY <2>3, <2>4
<1>3. ASSUME NEW g \in Gen, Acting(g)', Running(jobs'[proc'[g].job]), jobs'[proc'[g].job].deferred
      PROVE  proc'[g].st = "parked"
  <2> DEFINE j == proc[g].job
  <2>1. proc'[g].job = j /\ RootAlive(g) /\ (Acting(g) \/ Authorized(g))
    BY <1>3, Followed
  <2>2. j \in Job /\ g # NoGen
    BY <2>1 DEF IInv, TypeOK, ProcessOK, NoGen, Gen
  <2>3. receipt[j] = g /\ Follow(g, proc'[g])
    BY <1>3, <2>1, <2>2, ActingOwns DEF Authorized, ProcsMove, Fresh, Acting, ActingStates
  <2>4. CASE Running(jobs[j]) /\ jobs[j].deferred
    <3>1. proc[g].st # "waiting"
      BY <2>3, <2>4 DEF StartInv
    <3>2. Acting(g)
      BY <2>1, <3>1 DEF RootAlive, Acting, ActingStates
    <3>3. proc[g].st = "parked"
      BY <2>4, <3>2 DEF StartInv
    <3>. QED  BY <1>3, <2>3, <3>3 DEF Follow, Acting, ActingStates, LiveStates
  <2>5. CASE RowWorked(j)
    <3>1. PICK h \in Gen : /\ proc[h].job = j /\ Acting(h)
                           /\ Running(jobs'[j]) => proc'[h].st = "parked"
      BY <1>3, <2>1, <2>5 DEF RowWorked, Running
    <3>2. receipt[j] = h
      BY <3>1, ActingOwns
    <3>. QED  BY <1>3, <2>1, <2>3, <3>1, <3>2
  <2>6. ~RowStarts(j) /\ ~RowDecided(j)
    BY <1>3, <2>1, <2>3 DEF RowStarts, RowDecided, Unowned, Running, Pending, Acting, Authorized
  <2>. QED  BY <1>3, <2>1, <2>2, <2>4, <2>5, <2>6, RowMoves DEF RowSame, RowAsked, Running
<1>. QED  BY <1>1, <1>2, <1>3 DEF StartInv

\* A condemned job stays so, unless the supervisor settles it.
LEMMA StaysCondemned ==
  ASSUME IInv, IInv', Custody, Order, Lawful, NEW j \in Job, Condemned(jobs[j]),
         j <= submitted, ~RowDecided(j)
  PROVE  Condemned(jobs'[j])
<1>1. CASE Running(jobs[j])
  BY <1>1, RowMoves DEF Condemned, RowSame, RowAsked, RowWorked, Running
<1>2. CASE jobs[j].status \in {"cancelled", "absent"}
  BY <1>2, RowMoves DEF Condemned, Terminal, Final
<1>. QED  BY <1>1, <1>2 DEF Condemned

\* Stops.
LEMMA StopKept ==
  ASSUME IInv, IInv', Custody, Custody', Order, Lawful
  PROVE  StopInv'
<1> USE DEF Order, Lawful
<1>1. ASSUME NEW g \in Gen, RootAlive(g)', proc'[g].frozen
      PROVE  /\ Condemned(jobs'[proc'[g].job])
             /\ receipt'[proc'[g].job] = g
  <2> DEFINE j == proc[g].job
  <2>1. /\ proc'[g].job = j /\ RootAlive(g)
        /\ proc[g].frozen \/ Stops(g)
    BY <1>1 DEF ProcsMove, Fresh, Follow, RootAlive
  <2>2. j \in Job /\ j <= submitted /\ g # NoGen
    <3>1. j \in Job
      BY <2>1 DEF IInv, TypeOK, ProcessOK
    <3>. QED  BY <3>1 DEF Custody, TreeInv, Unsubmitted, IInv, TypeOK, QueueOK, Job, NoGen, Gen
  <2>3. receipt[j] = g
    BY <2>1 DEF StopInv, Stops
  <2>4. Condemned(jobs[j])
    BY <2>1 DEF StopInv, FrozenCondemned, Condemned, Stops
  <2>5. ~RowDecided(j)
    BY <2>1, <2>3 DEF RowDecided, Unowned
  <2>6. Condemned(jobs'[j])
    BY <2>2, <2>4, <2>5, StaysCondemned
  <2>7. receipt'[j] = g
    <3>1. ~(stage = "admit" /\ step = "receipt" /\ j = cur)
      BY <2>1, <2>2, <2>3 DEF Custody, TickInv, AdmitInv, InHand, Quiet, NoJob, Job
    <3>. QED  BY <2>1, <2>2, <2>3, <3>1 DEF FilesMove, ReceiptKept, OwnerAlive
  <2>. QED  BY <2>1, <2>6, <2>7
<1>2. ASSUME Terminating', step' # "enter", NEW j \in todo' PROVE Condemned(jobs'[j])
  <2>1. CASE Terminating /\ step # "enter" /\ j \in todo
    <3>1. j \in Job /\ j <= submitted /\ Condemned(jobs[j])
      BY <2>1 DEF StopInv, Custody, TickInv, TerminateInv, IInv, TypeOK, TickOK
    <3>. QED  BY <1>2, <3>1, StaysCondemned DEF RowDecided
  <2>. QED  BY <1>2, <2>1 DEF TickMove
<1>. QED  BY <1>1, <1>2 DEF StopInv, FrozenCondemned, Condemned

\* A part of a set of jobs that fit together fits together.
LEMMA FitParts ==
  ASSUME NEW R \in SUBSET Job, NEW S \in SUBSET R, FitTogether(R)
  PROVE  FitTogether(S)
<1>1. ASSUME NEW A \in SUBSET Job, NEW B \in SUBSET A
      PROVE  Cardinality(B) <= Cardinality(A) /\ Cardinality(B) \in Nat /\ Cardinality(A) \in Nat
  BY JobsFinite, FS_Subset
<1>2. Cardinality(S \ Metadata) <= MaxWorkers
  <2>1. Cardinality(S \ Metadata) <= Cardinality(R \ Metadata)
        /\ Cardinality(S \ Metadata) \in Nat /\ Cardinality(R \ Metadata) \in Nat
    BY <1>1
  <2>. QED  BY <2>1, ExecutionAssumption DEF FitTogether
<1>3. Cardinality(S \cap Metadata) <= MaxControllers
  <2>1. Cardinality(S \cap Metadata) <= Cardinality(R \cap Metadata)
        /\ Cardinality(S \cap Metadata) \in Nat /\ Cardinality(R \cap Metadata) \in Nat
    BY <1>1
  <2>. QED  BY <2>1, ExecutionAssumption DEF FitTogether
<1>. QED  BY <1>2, <1>3 DEF FitTogether

\* Admissions.
LEMMA FitKept ==
  ASSUME IInv, IInv', Custody, Custody', Order, Lawful
  PROVE  FitInv'
<1> DEFINE R == Rows(jobs, {"running"})
           R2 == Rows(jobs', {"running"})
           selected == stage = "admit" /\ step = "start"
<1> USE DEF Order, Lawful
<1>1. R \in SUBSET Job /\ R2 \in SUBSET Job /\ todo \in SUBSET Job
  BY DEF Rows, IInv, TypeOK, TickOK
<1>2. /\ R2 \subseteq R \cup todo
      /\ ~selected => R2 \subseteq R
  BY RowMoves DEF Rows, RowStarts, Running
<1>3. FitTogether(R) /\ (selected => FitTogether(R \cup todo))
  BY DEF FitInv
<1> HIDE DEF R, R2
<1>4. FitTogether(R2)
  <2>1. CASE selected
    BY <1>1, <1>2, <1>3, <2>1, FitParts
  <2>2. CASE ~selected
    BY <1>1, <1>2, <1>3, <2>2, FitParts
  <2>. QED  BY <2>1, <2>2
<1>5. ASSUME stage' = "admit", step' = "start" PROVE FitTogether(R2 \cup todo')
  <2>1. CASE selected /\ todo' = todo
    <3>1. R2 \cup todo \in SUBSET (R \cup todo) /\ R \cup todo \in SUBSET Job
      BY <1>1, <1>2
    <3>. QED  BY <1>3, <2>1, <3>1, FitParts
  <2>. QED  BY <1>5, <2>1 DEF TickMove, R2
<1>. QED  BY <1>4, <1>5 DEF FitInv, R2

\* Order is kept.
LEMMA OrderKept ==
  ASSUME IInv, IInv', Custody, Custody', Order, Lawful
  PROVE  Order'
  BY LeaseKept, CopyKept, StartKept, StopKept, FitKept DEF Order

-----------------------------------------------------------------------------
(* The parts of a lawful step. *)

\* Rows and processes that are left alone.
LEMMA RowsStill ==
  ASSUME IInv, UNCHANGED <<jobs, submitted>>
  PROVE  RowsMove /\ Apart
  BY DEF RowsMove, RowStep, Beside, RowSame, Apart, IInv, TypeOK, QueueOK

LEMMA ProcsStill ==
  ASSUME UNCHANGED proc
  PROVE  ProcsMove /\ Apart
  BY DEF ProcsMove, Follow, Apart, SameTrees, TreeAlive, RootAlive, Acting

\* Files and leases that are left alone.
LEMMA FilesStill ==
  ASSUME IInv, UNCHANGED <<receipt, txn>>
  PROVE  FilesMove
  BY DEF FilesMove, ReceiptKept

LEMMA LeasesStill ==
  ASSUME UNCHANGED leases
  PROVE  LeasesMove
  BY DEF LeasesMove

\* One process becomes what it may.
LEMMA OneFollows ==
  ASSUME IInv, NEW g, NEW p, g \in Gen => Follow(g, p), proc' = [proc EXCEPT ![g] = p]
  PROVE  ProcsMove
<1>1. proc \in [Gen -> Process]
  BY DEF IInv, TypeOK, ProcessOK
<1>2. \A h \in Gen : proc'[h] = proc[h] => Follow(h, proc'[h])
  BY DEF Follow, RootAlive, Acting, TreeAlive
<1>. QED  BY <1>1, <1>2 DEF ProcsMove

\* A process ends, with its descendants or without; it is stopped no longer.
LEMMA EndFollows ==
  ASSUME IInv, NEW g \in Gen, NEW p \in Process, p.job = proc[g].job,
         p.st = "dead", p.on \in {proc[g].on, NoTarget}
  PROVE  Follow(g, p)
  BY DEF Follow, LiveStates, ActingStates, TreeAlive

\* The memory of the tick.
LEMMA TickStill ==
  ASSUME UNCHANGED tickVars
  PROVE  TickMove
  BY DEF tickVars, TickMove, Admitting, InHand, Terminating

LEMMA TickEnters ==
  ASSUME step' = "enter"
  PROVE  TickMove
  BY DEF TickMove, Admitting

LEMMA TickVisits ==
  ASSUME IInv, NEW S \in SUBSET Job, Visit(S),
         stage = "admit" => Admitting /\ S \subseteq todo,
         Terminating => \/ step # "enter" /\ S \subseteq todo
                        \/ \A j \in S : Condemned(jobs'[j])
  PROVE  TickMove
<1>1. CASE S = {}
  BY <1>1, TickEnters DEF Visit, EndStage
<1>2. CASE S # {}
  <2>1. step' = "next" /\ todo' = S /\ cur' = NoJob /\ stage' = stage
    BY <1>2 DEF Visit
  <2>2. InHand' = S
    BY <2>1 DEF InHand, NoJob, Job
  <2>3. S \subseteq todo => S \subseteq InHand
    BY DEF InHand, NoJob, Job
  <2>. QED  BY <2>1, <2>2, <2>3 DEF TickMove, Terminating, Admitting
<1>. QED  BY <1>1, <1>2

\* One step further with a job of a termination or of the orphans.
LEMMA TickSteps ==
  ASSUME stage # "admit", stage' = stage, step # "enter", todo' \subseteq todo,
         step' # "mark",
         stage = "orphans" => step \in {"outcome", "release"} /\ cur' = cur
  PROVE  TickMove
  BY DEF TickMove, Terminating, Admitting

\* A step of the supervisor that only moves the tick, or repairs files.
LEMMA TickLawful ==
  ASSUME IInv, TickMove, FilesMove, LeasesMove, UNCHANGED <<jobs, submitted, proc>>
  PROVE  Lawful
  BY RowsStill, ProcsStill DEF Lawful

-----------------------------------------------------------------------------
(* The workers. *)

\* The records a worker step makes of its process.
LEMMA Records ==
  ASSUME IInv, NEW g \in Gen, NEW s \in ProcStates
  PROVE  /\ proc[g] \in Process
         /\ In(g, s) \in Process
         /\ In(g, s).st = s /\ In(g, s).job = proc[g].job /\ In(g, s).on = proc[g].on
         /\ In(g, s).frozen = proc[g].frozen /\ In(g, s).snap = proc[g].snap
         /\ Stopped(g, s) \in Process
         /\ Stopped(g, s).st = s /\ Stopped(g, s).job = proc[g].job
         /\ Stopped(g, s).on = NoTarget /\ Stopped(g, s).frozen = proc[g].frozen
         /\ Gone(proc[g]) \in Process
         /\ Gone(proc[g]).st = "dead" /\ Gone(proc[g]).job = proc[g].job
         /\ Gone(proc[g]).on = proc[g].on /\ Gone(proc[g]).frozen = proc[g].frozen
<1>1. proc[g] \in Process /\ Absent \in Row /\ "dead" \in ProcStates
  BY NewRows DEF IInv, TypeOK, ProcessOK, ProcStates
<1>. QED  BY <1>1 DEF In, Stopped, Gone, Process

\* An acting worker may become any record of its job with a fitting copy.
LEMMA ActingFollows ==
  ASSUME IInv, NEW g \in Gen, Acting(g), proc[g].st # "parked", NEW p \in Process,
         p.job = proc[g].job, p.st \in ActingStates \cup {"dead"},
         p.on # NoTarget => proc[g].on # NoTarget \/ p.job \in leases',
         p.frozen = proc[g].frozen, CopyFits(p, jobs')
  PROVE  Follow(g, p)
  BY DEF Follow, Acting, RootAlive, TreeAlive, ActingStates, LiveStates

\* A worker that goes on acting, or leaves the queue alone, and its lease.
LEMMA ActingLawful ==
  ASSUME IInv, IInv', Custody, NEW g \in Gen, Acting(g), NEW p \in Process, Follow(g, p),
         proc' = [proc EXCEPT ![g] = p],
         p.st \in ActingStates \/ jobs' = jobs,
         \A j \in Job : RowStep(j),
         \/ leases' = leases
         \/ leases' = leases \cup {proc[g].job}
         \/ leases' = leases \ {proc[g].job} /\ p.on = NoTarget,
         UNCHANGED <<receipt, txn, hostVars, tickVars>>
  PROVE  Lawful
<1>1. proc'[g] = p /\ \A h \in Gen \ {g} : proc'[h] = proc[h]
  BY DEF IInv, TypeOK, ProcessOK
<1>2. RowsMove
  BY DEF RowsMove, hostVars, IInv, TypeOK, QueueOK
<1>3. ProcsMove
  BY OneFollows
<1>4. LeasesMove
  <2>1. \A h \in Gen \ {g} : proc[h].job = proc[g].job => proc[h].on = NoTarget
    BY ActingOwns DEF TreeAlive
  <2>2. p.job = proc[g].job
    BY DEF Follow
  <2>3. \A j \in leases' \ leases : j = proc[g].job
    OBVIOUS
  <2>4. \A j \in leases \ leases' : j = proc[g].job /\ p.on = NoTarget
    OBVIOUS
  <2>. QED  BY <1>1, <2>1, <2>2, <2>3, <2>4 DEF LeasesMove
<1>5. Apart
  BY <1>1 DEF Apart, SameTrees, TreeAlive, Acting, Follow
<1>. QED  BY <1>2, <1>3, <1>4, <1>5, FilesStill, TickStill DEF Lawful

\* The row an acting worker writes back, when there is no conflict: what it may be,
\* and that writing it is lawful.
WritesBack(g, r) ==
  LET q == jobs[proc[g].job] IN
  \/ /\ Running(r) => ~r.deferred
     /\ r.status = "cancelled" => r.asked
     /\ ~Running(r) => q.status \in {r.status, "absent"}
  \/ r.status = "completed"
  \/ r.status = "cancelled" /\ r.asked /\ ~CancelRequested(q)

LEMMA WriteBackRow ==
  ASSUME IInv, Custody, Order, NEW g \in Gen, Acting(g), proc[g].st # "parked",
         ~proc[g].frozen, NEW r \in Row, ~Pending(r), RequestSound(r), WritesBack(g, r),
         ~UpdateConflict(jobs, proc[g].job, r), jobs' = Update(jobs, proc[g].job, r)
  PROVE  /\ \A i \in Job : RowStep(i)
         /\ jobs'[proc[g].job].status = r.status
<1> DEFINE j == proc[g].job
           q == jobs[j]
<1>1. jobs \in Queue /\ j \in Job /\ ~Pending(q)
  BY ActingOwns DEF IInv, TypeOK, QueueOK
<1>2. /\ \A i \in Job \ {j} : Beside(jobs[i], jobs'[i])
      /\ jobs'[j] = [r EXCEPT !.age = 0]
  BY <1>1, WriteBeside DEF Update
<1>3. /\ jobs'[j].status = r.status /\ jobs'[j].asked = r.asked
      /\ jobs'[j].deferred = r.deferred
  BY <1>2 DEF Row
<1>4. q \in Row /\ RequestSound(q) /\ (q.status = "cancelled" => q.asked)
  BY <1>1 DEF Queue, IInv, RequestsSound, Order, CopyInv
<1>5. Running(q) => ~q.deferred
  BY DEF Order, StartInv
<1>6. RowStep(j)
  <2>1. CASE Terminal(q)
    <3>1. r.status = q.status
      BY <2>1 DEF UpdateConflict
    <3>2. RowSame(q, jobs'[j])
      BY <1>3, <1>4, <2>1, <3>1 DEF RowSame, RequestSound, WritesBack, Terminal, Final, Running, Row
    <3>. QED  BY <3>2 DEF RowStep, Beside
  <2>2. CASE Running(q)
    <3>1. q.asked => r.asked
      BY <2>2 DEF UpdateConflict, CancelRequested
    <3>2. CASE Running(r) /\ ~r.deferred
      BY <1>3, <1>4, <1>5, <2>2, <3>1, <3>2 DEF RowStep, RowAsked, Beside, RowSame, Running, Row
    <3>3. CASE ~Running(r) \/ r.deferred
      <4>1. r.status = "completed" \/ (r.status = "cancelled" /\ r.asked /\ ~q.asked)
        BY <2>2, <3>3 DEF WritesBack, CancelRequested, Running
      <4>2. ~q.asked
        BY <3>1, <4>1 DEF RequestSound
      <4>3. RowWorked(j)
        BY <1>3, <1>5, <2>2, <4>1, <4>2 DEF RowWorked
      <4>. QED  BY <4>3 DEF RowStep
    <3>. QED  BY <3>2, <3>3
  <2>3. q.status # "absent"
    BY DEF UpdateConflict
  <2>. QED  BY <1>1, <1>4, <2>1, <2>2, <2>3 DEF Row, Live, Final, Terminal, Running, Pending
<1>. QED  BY <1>2, <1>3, <1>6 DEF RowStep

\* Writing back is lawful, conflict or not.
LEMMA WriteBackLawful ==
  ASSUME IInv, IInv', Custody, Order, NEW g \in Gen, Acting(g), proc[g].st # "parked",
         ~proc[g].frozen, NEW r \in Row, ~Pending(r), RequestSound(r),
         Running(r) => ~r.deferred,
         r.status = "cancelled" => r.asked,
         ~Running(r) => jobs[proc[g].job].status \in {r.status, "absent"},
         NEW p \in Process, p.job = proc[g].job, p.st \in {"working", "deferring"},
         p.frozen = proc[g].frozen, WriteBack(g, r, p),
         IF UpdateConflict(jobs, proc[g].job, r)
         THEN leases' \in {leases, leases \ {proc[g].job}}
         ELSE \/ leases' = leases /\ p.on \in {proc[g].on, NoTarget}
              \/ leases' = leases \cup {proc[g].job}
              \/ leases' = leases \ {proc[g].job} /\ p.on = NoTarget
  PROVE  Lawful
<1> DEFINE j == proc[g].job
<1>1. CASE UpdateConflict(jobs, j, r)
  <2> DEFINE n == Stopped(g, "failed")
  <2>1. /\ n \in Process /\ n.st = "failed" /\ n.job = j /\ n.on = NoTarget
        /\ n.frozen = proc[g].frozen
    BY Records DEF ProcStates
  <2>2. Access(g, jobs, n)
    BY <1>1 DEF WriteBack
  <2> HIDE DEF n
  <2>3. CopyFits(n, jobs') /\ n.st \in ActingStates
    BY <2>1 DEF CopyFits, ActingStates, LiveStates, ProcStates
  <2>4. Follow(g, n)
    BY <2>1, <2>3, ActingFollows
  <2>5. \A i \in Job : RowStep(i)
    BY <2>2, RowsStill DEF Access, RowsMove, hostVars
  <2>. QED  BY <1>1, <2>1, <2>2, <2>3, <2>4, <2>5, ActingLawful DEF Access
<1>2. CASE ~UpdateConflict(jobs, j, r)
  <2> DEFINE n == [p EXCEPT !.snap = r]
  <2>1. /\ n \in Process /\ n.st = p.st /\ n.job = j /\ n.on = p.on
        /\ n.frozen = p.frozen /\ n.snap = r
    BY DEF Process
  <2>2. Access(g, Update(jobs, j, r), n)
    BY <1>2 DEF WriteBack
  <2> HIDE DEF n
  <2>3. /\ \A i \in Job : RowStep(i)
        /\ jobs'[j].status = r.status
    BY <1>2, <2>2, WriteBackRow DEF Access, WritesBack
  <2>4. CopyFits(n, jobs') /\ n.st \in ActingStates
    BY <2>1, <2>3 DEF CopyFits, ActingStates, LiveStates, ProcStates
  <2>5. n.on # NoTarget => proc[g].on # NoTarget \/ n.job \in leases'
    BY <1>2, <2>1
  <2>6. Follow(g, n)
    BY <2>1, <2>4, <2>5, ActingFollows
  <2>7. \/ leases' = leases
        \/ leases' = leases \cup {j}
        \/ leases' = leases \ {j} /\ n.on = NoTarget
    BY <1>2, <2>1
  <2>. QED  BY <2>1, <2>2, <2>3, <2>4, <2>6, <2>7, ActingLawful DEF Access
<1>. QED  BY <1>1, <1>2

\* A worker that leaves the queue alone.
LEMMA LeavesQueue ==
  ASSUME IInv, IInv', Custody, Order, NEW g \in Gen, Acting(g), proc[g].st # "parked",
         NEW p \in Process, p.job = proc[g].job, p.st \in ActingStates \cup {"dead"},
         p.on \in {proc[g].on, NoTarget}, p.frozen = proc[g].frozen, CopyFits(p, jobs),
         proc' = [proc EXCEPT ![g] = p], jobs' = jobs,
         \/ leases' = leases
         \/ leases' = leases \ {proc[g].job} /\ p.on = NoTarget,
         UNCHANGED <<receipt, txn, hostVars, tickVars>>
  PROVE  Lawful
<1>1. Follow(g, p)
  BY ActingFollows
<1>2. \A i \in Job : RowStep(i)
  BY RowsStill DEF RowsMove, hostVars
<1>. QED  BY <1>1, <1>2, ActingLawful

\* Every step of a worker is lawful.
LEMMA WorkerLawful ==
  ASSUME IInv, IInv', Custody, Order, NEW g \in Gen, WorkerStep(g)
  PROVE  Lawful
<1> DEFINE j == proc[g].job
<1>1. CASE Lock(g)
  BY <1>1, TickLawful, TickStill, FilesStill, LeasesStill
     DEF Lock, durableVars, processVars, hostVars
<1>2. CASE CheckAuthority(g)
  <2>1. proc[g].st = "waiting" /\ RootAlive(g) /\ "authorized" \in ProcStates
    BY <1>2 DEF CheckAuthority, Runs, ProcStates
  <2>2. Follow(g, Gone(proc[g]))
    BY <2>1, Records, EndFollows
  <2>3. receipt[j] = g => Follow(g, In(g, "authorized"))
    BY <2>1, Records DEF Follow, Authorized, TreeAlive
  <2>4. ProcsMove
    BY <1>2, <2>2, <2>3, OneFollows DEF CheckAuthority
  <2>. QED  BY <1>2, <2>4, RowsStill, TickStill, FilesStill, LeasesStill
            DEF CheckAuthority, durableVars, hostVars, Lawful
<1>3. SUFFICES ASSUME Acting(g), proc[g].st # "parked", ~proc[g].frozen,
                      ~Lock(g), ~CheckAuthority(g)
               PROVE  Lawful
  BY <1>1, <1>2 DEF WorkerStep, OpenJob, BeginTargets, RefuseJob, Dispatch, WriteBack, Access,
     LeaseUnavailable, SkipTarget, FinishTarget, Progress, SeeCancel, SaveOutcome, Publish, FinishShip,
     AwaitCancellation, RequeueDeferred, EndUncertain, PersistUncertain, WorkerError,
     Acting, ActingStates, LiveStates, ProcStates, Holds, Runs
<1>4. /\ j \in Job /\ ~Pending(jobs[j]) /\ ~Pending(proc[g].snap)
      /\ jobs \in Queue /\ jobs[j] \in Row /\ proc[g].snap \in Row /\ proc[g] \in Process
  BY <1>3, ActingShapes DEF IInv, TypeOK, ProcessOK
<1>5. /\ CopyFits(proc[g], jobs) /\ RequestSound(proc[g].snap)
      /\ Running(jobs[j]) => ~jobs[j].deferred
      /\ jobs[j].status = "cancelled" => jobs[j].asked
  BY <1>3, <1>4 DEF Order, CopyInv, StartInv, IInv, RequestsSound
<1> HIDE DEF j
<1>6. ASSUME NEW p \in Process, p.job = j, p.st \in ActingStates \cup {"dead"},
             p.on \in {proc[g].on, NoTarget}, p.frozen = proc[g].frozen, CopyFits(p, jobs),
             proc' = [proc EXCEPT ![g] = p], jobs' = jobs,
             leases' = leases \/ (leases' = leases \ {j} /\ p.on = NoTarget),
             UNCHANGED <<receipt, txn, hostVars, tickVars>>
      PROVE  Lawful
  BY <1>3, <1>6, LeavesQueue DEF j
<1>7. ASSUME NEW s \in ActingStates \ {"prepared", "publish", "working"}
      PROVE  /\ s \in ProcStates
             /\ CopyFits(In(g, s), jobs) /\ CopyFits(Stopped(g, s), jobs)
             /\ CopyFits(Gone(proc[g]), jobs)
  <2>1. s \in ProcStates
    BY <1>7 DEF ActingStates, LiveStates
  <2>. QED  BY <1>7, <2>1, Records DEF CopyFits
<1>8. /\ {"failed", "ended", "posting", "parked", "persist", "deferring"}
            \subseteq ActingStates \ {"prepared", "publish", "working"}
      /\ {"prepared", "publish", "working"} \subseteq ActingStates
      /\ ActingStates \subseteq ProcStates
  BY DEF ActingStates, LiveStates, ProcStates
<1>8a. ASSUME NEW s \in {"failed", "ended", "parked"}, Access(g, jobs, In(g, s)), leases' = leases
       PROVE  Lawful
  <2>1. s \in ActingStates \ {"prepared", "publish", "working"}
    BY <1>8
  <2>. QED  BY <1>6, <1>7, <1>8, <1>8a, <2>1, Records DEF Access, j
<1>8b. ASSUME NEW s \in {"failed", "ended", "parked"}, leases' = leases,
              NEW p \in {Stopped(g, s), Gone(proc[g])}, Access(g, jobs, p)
       PROVE  Lawful
  <2>1. s \in ActingStates \ {"prepared", "publish", "working"} /\ s \in ProcStates
    BY <1>8
  <2>2. CopyFits(p, jobs)
    BY <1>7, <1>8b, <2>1
  <2>3. /\ p \in Process /\ p.job = j /\ p.st \in ActingStates \cup {"dead"}
        /\ p.on \in {proc[g].on, NoTarget} /\ p.frozen = proc[g].frozen
    BY <1>8b, <2>1, Records DEF j
  <2>4. /\ proc' = [proc EXCEPT ![g] = p] /\ jobs' = jobs
        /\ UNCHANGED <<receipt, txn, hostVars, tickVars>>
    BY <1>8b DEF Access
  <2>. QED  BY <1>6, <1>8b, <2>2, <2>3, <2>4
<1>9. CASE OpenJob(g)
  <2> DEFINE p == [In(g, "prepared") EXCEPT !.snap = jobs[j]]
  <2>1. /\ p \in Process /\ p.st = "prepared" /\ p.job = j /\ p.on = proc[g].on
        /\ p.frozen = proc[g].frozen /\ p.snap = jobs[j]
    BY <1>4, <1>8, Records DEF Process, j
  <2>2. Running(jobs[j]) => CopyFits(p, jobs)
    BY <2>1 DEF CopyFits
  <2> HIDE DEF p
  <2>3. CASE ~Running(jobs[j]) \/ jobs[j].asked
    BY <1>9, <1>8a, <2>3 DEF OpenJob, j
  <2>4. CASE Running(jobs[j]) /\ ~jobs[j].asked
    <3>1. Access(g, jobs, p) /\ leases' = leases
      BY <1>9, <2>4 DEF OpenJob, p, j
    <3>. QED  BY <1>6, <1>8, <2>1, <2>2, <2>4, <3>1 DEF Access
  <2>. QED  BY <2>3, <2>4
<1>10. CASE BeginTargets(g)
  <2> DEFINE p == [In(g, "working") EXCEPT !.left = Target, !.snap = jobs[j]]
  <2>0. /\ In(g, "working") \in Process /\ In(g, "working").st = "working"
        /\ In(g, "working").job = j /\ In(g, "working").on = proc[g].on
        /\ In(g, "working").frozen = proc[g].frozen
    BY <1>8, Records DEF j
  <2>1. /\ p \in Process /\ p.st = "working" /\ p.job = j /\ p.on = proc[g].on
        /\ p.frozen = proc[g].frozen /\ p.snap = jobs[j]
    BY <1>4, <2>0 DEF Process
  <2>2. CopyFits(p, jobs)
    BY <1>5, <2>1 DEF CopyFits
  <2> HIDE DEF p
  <2>3. Access(g, jobs, p) /\ leases' = leases
    BY <1>10 DEF BeginTargets, p, j
  <2>. QED  BY <1>6, <1>8, <2>1, <2>2, <2>3 DEF Access
<1>11. CASE SeeCancel(g)
  BY <1>6, <1>7, <1>8, <1>11, Records DEF SeeCancel, ReturnLease, Access, j
<1>12. CASE AwaitCancellation(g)
  <2> DEFINE p == [In(g, "posting") EXCEPT !.snap = jobs[j]]
  <2>1. /\ p \in Process /\ p.st = "posting" /\ p.job = j /\ p.on = proc[g].on
        /\ p.frozen = proc[g].frozen
    BY <1>4, <1>8, Records DEF Process, j
  <2>2. CopyFits(p, jobs)
    BY <2>1 DEF CopyFits
  <2> HIDE DEF p
  <2>3. CASE CancelRequested(jobs[j]) \/ jobs[j].status = "absent"
    BY <1>12, <1>8a, <2>3 DEF AwaitCancellation, j
  <2>4. CASE ~CancelRequested(jobs[j]) /\ jobs[j].status # "absent"
    <3>1. Access(g, jobs, p) /\ leases' = leases
      BY <1>12, <2>4 DEF AwaitCancellation, p, j
    <3>. QED  BY <1>6, <1>8, <2>1, <2>2, <3>1 DEF Access
  <2>. QED  BY <2>3, <2>4
<1>13. CASE FinishShip(g) \/ PersistUncertain(g)
  BY <1>6, <1>7, <1>8, <1>13, Records DEF FinishShip, PersistUncertain, j
<1>14. CASE WorkerError(g)
  BY <1>6, <1>7, <1>8, <1>14, Records DEF WorkerError, ReturnLease, j
<1>15. CASE SaveOutcome(g)
  <2> DEFINE p == [In(g, "publish") EXCEPT !.snap = Complete(proc[g].snap)]
  <2>1. Complete(proc[g].snap) \in Row /\ Complete(proc[g].snap).status = "completed"
    BY <1>4, RowTransitions, QueueAssumption DEF Complete, Row, Live, Final
  <2>2. /\ p \in Process /\ p.st = "publish" /\ p.job = j /\ p.on = proc[g].on
        /\ p.frozen = proc[g].frozen /\ p.snap.status = "completed"
    BY <1>8, <2>1, Records DEF Process, j
  <2>3. CopyFits(p, jobs)
    BY <2>2 DEF CopyFits
  <2>4. proc' = [proc EXCEPT ![g] = p]
    BY <1>15 DEF SaveOutcome
  <2> HIDE DEF p
  <2>. QED  BY <1>6, <1>8, <1>15, <2>2, <2>3, <2>4 DEF SaveOutcome
<1>16. ASSUME NEW t \in Target, NEW v \in Result, proc[g].st = "working"
       PROVE  LET r == WithResult(proc[g].snap, t, v) IN
              /\ r \in Row /\ ~Pending(r) /\ RequestSound(r)
              /\ Running(r) => ~r.deferred
              /\ r.status = "cancelled" => r.asked
              /\ ~Running(r) => jobs[j].status \in {r.status, "absent"}
  <2> DEFINE r == WithResult(proc[g].snap, t, v)
  <2>1. /\ r \in Row /\ r.status = proc[g].snap.status /\ r.asked = proc[g].snap.asked
        /\ r.deferred = proc[g].snap.deferred
    BY <1>4 DEF WithResult, Row
  <2> HIDE DEF r
  <2>2. /\ r \in Row /\ ~Pending(r) /\ RequestSound(r)
        /\ Running(r) => ~r.deferred
        /\ r.status = "cancelled" => r.asked
        /\ ~Running(r) => jobs[j].status \in {r.status, "absent"}
    BY <1>4, <1>5, <1>16, <2>1 DEF CopyFits, RequestSound, Pending, Running, j
  <2>. QED  BY <2>2 DEF r
<1>17. ASSUME NEW t \in Target, Dispatch(g, t) PROVE Lawful
  <2> DEFINE p == [proc[g] EXCEPT !.on = t]
  <2>1. p \in Process /\ p.job = proc[g].job /\ p.st = "working" /\ p.frozen = proc[g].frozen
    BY <1>4, <1>17 DEF Process, Dispatch
  <2>. QED  BY <1>3, <1>16, <1>17, <2>1, WriteBackLawful DEF Dispatch, Result, j
<1>18. ASSUME NEW t \in Target, LeaseUnavailable(g, t) PROVE Lawful
  <2>1. /\ In(g, "deferring") \in Process /\ In(g, "deferring").job = proc[g].job
        /\ In(g, "deferring").st = "deferring" /\ In(g, "deferring").on = proc[g].on
        /\ In(g, "deferring").frozen = proc[g].frozen
    BY Records DEF ProcStates
  <2>. QED  BY <1>3, <1>16, <1>18, <2>1, WriteBackLawful DEF LeaseUnavailable, Result, j
<1>19. ASSUME NEW t \in Target, SkipTarget(g, t) PROVE Lawful
  <2> DEFINE p == [proc[g] EXCEPT !.left = proc[g].left \ {t}]
  <2>1. /\ p \in Process /\ p.job = proc[g].job /\ p.st = "working" /\ p.on = proc[g].on
        /\ p.frozen = proc[g].frozen
    BY <1>4, <1>19 DEF Process, SkipTarget
  <2>. QED  BY <1>3, <1>16, <1>19, <2>1, WriteBackLawful DEF SkipTarget, Result, j
<1>20. ASSUME NEW v \in {"pass", "fail"}, FinishTarget(g, v) PROVE Lawful
  <2> DEFINE p == [proc[g] EXCEPT !.on = NoTarget, !.left = proc[g].left \ {proc[g].on}]
  <2>1. /\ p \in Process /\ p.job = proc[g].job /\ p.st = "working" /\ p.on = NoTarget
        /\ p.frozen = proc[g].frozen /\ proc[g].on \in Target
    BY <1>4, <1>20 DEF Process, FinishTarget
  <2>2. leases' = leases \ {proc[g].job}
    BY <1>20 DEF FinishTarget, ReturnLease
  <2>. QED  BY <1>3, <1>16, <1>20, <2>1, <2>2, WriteBackLawful DEF FinishTarget, Result, j
<1>21. CASE Progress(g)
  <2>1. /\ Running(proc[g].snap) => ~proc[g].snap.deferred
        /\ proc[g].snap.status = "cancelled" => proc[g].snap.asked
        /\ ~Running(proc[g].snap) => jobs[j].status \in {proc[g].snap.status, "absent"}
    BY <1>5, <1>21 DEF CopyFits, Progress, j
  <2>. QED  BY <1>3, <1>4, <1>5, <1>21, <2>1, WriteBackLawful DEF Progress, ReturnLease, j
<1>22. ASSUME NEW r \in Row, ~Pending(r), RequestSound(r), WritesBack(g, r),
              ~UpdateConflict(jobs, j, r), NEW s \in {"failed", "ended"},
              Access(g, Update(jobs, j, r), Stopped(g, s)), leases' = leases
       PROVE  Lawful
  <2> DEFINE p == Stopped(g, s)
  <2>1. /\ p \in Process /\ p.st = s /\ p.job = proc[g].job /\ p.on = NoTarget
        /\ p.frozen = proc[g].frozen
    BY <1>8, Records
  <2>2. proc' = [proc EXCEPT ![g] = p] /\ jobs' = Update(jobs, j, r)
        /\ UNCHANGED <<receipt, txn, hostVars, tickVars>>
    BY <1>22 DEF Access
  <2> HIDE DEF p
  <2>3. \A i \in Job : RowStep(i)
    BY <1>3, <1>22, <2>2, WriteBackRow DEF j
  <2>4. CopyFits(p, jobs')
    BY <2>1 DEF CopyFits
  <2>5. Follow(g, p)
    BY <1>3, <1>8, <2>1, <2>4, ActingFollows
  <2>. QED  BY <1>3, <1>8, <1>22, <2>1, <2>2, <2>3, <2>5, ActingLawful
<1>23. CASE Publish(g)
  <2>1. proc[g].snap.status = "completed"
    BY <1>5, <1>23 DEF Publish, CopyFits
  <2>2. CASE UpdateConflict(jobs, j, proc[g].snap)
    BY <1>8b, <1>23, <2>2 DEF Publish, j
  <2>3. CASE ~UpdateConflict(jobs, j, proc[g].snap)
    BY <1>4, <1>5, <1>22, <1>23, <2>1, <2>3 DEF Publish, WritesBack, j
  <2>. QED  BY <2>2, <2>3
<1>24. CASE RefuseJob(g)
  <2> DEFINE r == CancelWithProof(proc[g].snap, NoProof)
  <2>1. r \in Row /\ r.status = "cancelled" /\ r.asked
    BY <1>4, RowTransitions DEF CancelWithProof, Row
  <2> HIDE DEF r
  <2>2. \/ Access(g, jobs, Stopped(g, "failed")) /\ leases' = leases
        \/ /\ ~CancelRequested(jobs[j]) /\ ~UpdateConflict(jobs, j, r)
           /\ Access(g, Update(jobs, j, r), Stopped(g, "failed")) /\ leases' = leases
    BY <1>24 DEF RefuseJob, r, j
  <2>3. CASE Access(g, jobs, Stopped(g, "failed")) /\ leases' = leases
    BY <1>8b, <2>3
  <2>. QED  BY <1>22, <2>1, <2>2, <2>3 DEF WritesBack, Pending, RequestSound, j
<1>25. CASE RequeueDeferred(g)
  <2>1. CASE Running(jobs[j])
    <3> DEFINE p == Stopped(g, "parked")
    <3>1. /\ p \in Process /\ p.st = "parked" /\ p.job = proc[g].job /\ p.on = NoTarget
          /\ p.frozen = proc[g].frozen
      BY <1>8, Records
    <3>2. /\ proc' = [proc EXCEPT ![g] = p] /\ leases' = leases
          /\ jobs' = RequeueDeferredDaemonWorker(jobs, j)
          /\ UNCHANGED <<receipt, txn, hostVars, tickVars>>
      BY <1>25, <2>1 DEF RequeueDeferred, Access, j
    <3>3. proc'[g] = p
      BY <3>2 DEF IInv, TypeOK, ProcessOK
    <3> HIDE DEF p
    <3>4. RowStep(j) /\ \A i \in Job \ {j} : RowStep(i)
      <4>1. CASE jobs[j].asked
        BY <3>2, <4>1 DEF RequeueDeferredDaemonWorker, RowStep, Beside, RowSame
      <4>2. CASE ~jobs[j].asked
        <5>1. /\ \A i \in Job \ {j} : jobs'[i] = jobs[i]
              /\ jobs'[j].status = jobs[j].status /\ ~jobs'[j].asked
          BY <1>4, <3>2, <4>2 DEF RequeueDeferredDaemonWorker, Queue, Row
        <5>2. RowWorked(j)
          BY <1>3, <1>5, <2>1, <3>1, <3>3, <4>2, <5>1 DEF RowWorked, Running, j
        <5>. QED  BY <5>1, <5>2 DEF RowStep, Beside, RowSame
      <4>. QED  BY <4>1, <4>2
    <3>5. CopyFits(p, jobs')
      BY <3>1 DEF CopyFits
    <3>6. Follow(g, p)
      BY <1>3, <1>8, <3>1, <3>5, ActingFollows
    <3>. QED  BY <1>3, <1>8, <3>1, <3>2, <3>4, <3>6, ActingLawful
  <2>2. CASE ~Running(jobs[j])
    BY <1>6, <1>7, <1>8, <1>25, <2>2, Records DEF RequeueDeferred, Access, j
  <2>. QED  BY <2>1, <2>2
<1>26. CASE EndUncertain(g)
  <2> DEFINE q == CompleteRunningUncertain(jobs, j)
  <2>1. CASE Running(jobs[j]) /\ ~jobs[j].asked
    <3> DEFINE r == [Complete(jobs[j]) EXCEPT !.results = [t \in Target |-> "uncertain"]]
               p == [In(g, "persist") EXCEPT !.snap = q[j]]
    <3>1. r \in Row /\ r.status = "completed" /\ ~r.asked
      <4>1. [t \in Target |-> "uncertain"] \in [Target -> Result]
        BY DEF Result
      <4>2. Complete(jobs[j]) \in Row /\ Complete(jobs[j]).status = "completed"
            /\ ~Complete(jobs[j]).asked
        BY <1>4, <2>1, RowTransitions, QueueAssumption DEF Complete, Row
      <4>. QED  BY <4>1, <4>2 DEF Row
    <3> HIDE DEF r
    <3>2. q = Write(jobs, j, r)
      BY <2>1 DEF CompleteRunningUncertain, r
    <3>3. q[j] = [r EXCEPT !.age = 0] /\ \A i \in Job \ {j} : Beside(jobs[i], q[i])
      BY <1>4, <3>1, <3>2, WriteBeside
    <3>4. q[j] \in Row /\ q[j].status = "completed"
      BY <3>1, <3>3 DEF Row
    <3> HIDE DEF q
    <3>5. /\ p \in Process /\ p.st = "persist" /\ p.job = proc[g].job /\ p.on = proc[g].on
          /\ p.frozen = proc[g].frozen
      BY <1>8, <3>4, Records DEF Process
    <3>6. /\ proc' = [proc EXCEPT ![g] = p] /\ leases' = leases /\ jobs' = q
          /\ UNCHANGED <<receipt, txn, hostVars, tickVars>>
      BY <1>26, <2>1 DEF EndUncertain, Access, CancelRequested, q, j
    <3> HIDE DEF p
    <3>7. RowWorked(j)
      BY <1>3, <1>5, <2>1, <3>4, <3>6 DEF RowWorked, j
    <3>8. \A i \in Job : RowStep(i)
      BY <3>3, <3>6, <3>7 DEF RowStep
    <3>9. CopyFits(p, jobs')
      BY <3>5 DEF CopyFits
    <3>10. Follow(g, p)
      BY <1>3, <1>8, <3>5, <3>9, ActingFollows
    <3>. QED  BY <1>3, <1>8, <3>5, <3>6, <3>8, <3>10, ActingLawful
  <2>2. CASE ~(Running(jobs[j]) /\ ~jobs[j].asked)
    <3>1. q = jobs
      BY <2>2 DEF CompleteRunningUncertain
    <3>2. PICK n \in {In(g, "parked"), Gone(proc[g])} : Access(g, jobs, n) /\ leases' = leases
      BY <1>26, <2>2, <3>1 DEF EndUncertain, CancelRequested, j
    <3>. QED  BY <1>8a, <1>8b, <3>2
  <2>. QED  BY <2>1, <2>2
<1>. QED  BY <1>3, <1>9, <1>10, <1>11, <1>12, <1>13, <1>14, <1>15, <1>17, <1>18, <1>19, <1>20,
             <1>21, <1>23, <1>24, <1>25, <1>26 DEF WorkerStep

-----------------------------------------------------------------------------
(* The operator and the host. *)

\* A request makes a pending job cancelled and is recorded of a running one.
LEMMA RequestRow ==
  ASSUME IInv, NEW j \in Job, NEW p \in Proof \cup {NoProof}, CanRequestCancel(jobs[j], p),
         jobs' = RequestCancel(jobs, j, p)
  PROVE  \A i \in Job : RowStep(i)
<1> DEFINE r == RequestCancelRow(jobs[j], p)
<1>1. jobs \in Queue /\ jobs[j] \in Row
  BY DEF IInv, TypeOK, QueueOK, Queue
<1>2. r \in Row
  BY <1>1, RowTransitions DEF r
<1>3. /\ r.asked
      /\ Pending(jobs[j]) => r.status = "cancelled"
      /\ Running(jobs[j]) => r.status = "running" /\ r.deferred = jobs[j].deferred
  BY <1>1 DEF RequestCancelRow, CancelWithProof, Row, Pending, Running
<1> HIDE DEF r
<1>4. /\ \A i \in Job \ {j} : Beside(jobs[i], jobs'[i])
      /\ jobs'[j] = [r EXCEPT !.age = 0]
  BY <1>1, <1>2, WriteBeside DEF RequestCancel, r
<1>5. jobs'[j].status = r.status /\ jobs'[j].asked = r.asked /\ jobs'[j].deferred = r.deferred
  BY <1>2, <1>4 DEF Row
<1>6. RowStep(j)
  BY <1>3, <1>5 DEF CanRequestCancel, RowStep, RowDropped, RowAsked, Pending, Running
<1>. QED  BY <1>4, <1>6 DEF RowStep

\* Submissions, cancellations and merges are lawful; bumps are excluded.
LEMMA OperatorLawful ==
  ASSUME PlainHost, IInv, IInv', Custody, Operator
  PROVE  Lawful
<1>0. jobs \in Queue /\ submitted \in Nat
  BY DEF IInv, TypeOK, QueueOK
<1>1. ASSUME RowsMove, UNCHANGED <<durableVars, processVars, tickVars>> PROVE Lawful
  BY <1>1, ProcsStill, TickStill, FilesStill, LeasesStill DEF durableVars, processVars, Lawful
<1>2. ASSUME NEW p \in Priority, Submit(p) PROVE Lawful
  <2> DEFINE j == submitted + 1
  <2>1. j \in Job /\ j > submitted /\ submitted' = j /\ jobs' = Enqueue(jobs, j, p)
    BY <1>0, <1>2, QueueAssumption DEF Submit, Job
  <2>2. jobs[j].status = "absent"
    BY <2>1 DEF IInv, TypeOK, QueueOK
  <2>3. jobs'[j] = NewRow(p)
    BY <2>1 DEF Enqueue, CancelAll
  <2>4. RowNew(j)
    <3>1. NewRow(p).status = "pending" /\ ~NewRow(p).asked /\ j <= j
      BY <1>0 DEF NewRow, Absent
    <3>. QED  BY <2>1, <2>2, <2>3, <3>1 DEF RowNew, Pending
  <2>5. ASSUME NEW i \in Job \ {j} PROVE RowStep(i)
    BY <1>0, <2>1, PendingBeside DEF RowStep
  <2>6. RowsMove
    BY <1>0, <2>1, <2>4, <2>5 DEF RowsMove, RowStep
  <2>. QED  BY <1>1, <1>2, <2>6 DEF Submit
<1>3. ASSUME NEW j \in Job, Cancel(j) PROVE Lawful
  BY <1>0, <1>1, <1>3, RequestRow DEF Cancel, RowsMove, hostVars
<1>4. ASSUME NEW j \in Job, NEW p \in Priority, BumpRead(j, p) PROVE FALSE
  BY <1>4 DEF BumpRead, PlainHost, IInv, TypeOK, HostOK
<1>5. ~BumpWrite
  BY DEF BumpWrite, Custody, TickInv
<1>6. ASSUME NEW j \in Job, Merge(j) PROVE Lawful
  BY <1>1, <1>6, RowsStill DEF Merge
<1>. QED  BY <1>2, <1>3, <1>4, <1>5, <1>6 DEF Operator

\* Ageing, deaths, crashes of the daemon and reboots are lawful.
LEMMA HostLawful ==
  ASSUME IInv, IInv', Custody, Host
  PROVE  Lawful
<1>0. jobs \in Queue /\ submitted \in Nat /\ proc \in [Gen -> Process]
  BY DEF IInv, TypeOK, QueueOK, ProcessOK
<1>1. ASSUME ProcsMove, TickMove, UNCHANGED <<jobs, durableVars, submitted>> PROVE Lawful
  BY <1>1, RowsStill, FilesStill, LeasesStill DEF durableVars, Lawful
<1>2. ASSUME NEW j \in Job, GoStale(j) PROVE Lawful
  <2>1. \A i \in Job : RowSame(jobs[i], jobs'[i])
    BY <1>0, <1>2 DEF GoStale, RowSame, Queue, Row
  <2>2. RowsMove
    <3>1. \A i \in Job : RowStep(i)
      BY <2>1 DEF RowStep, Beside
    <3>. QED  BY <1>0, <1>2, <3>1 DEF GoStale, RowsMove, hostVars
  <2>. QED  BY <1>2, <2>2, ProcsStill, TickStill, FilesStill, LeasesStill
            DEF GoStale, durableVars, processVars, Lawful
<1>3. ASSUME NEW g \in Gen, WorkerDies(g) PROVE Lawful
  <2>1. Follow(g, Gone(proc[g]))
    BY Records, EndFollows DEF ProcStates
  <2>. QED  BY <1>1, <1>3, <2>1, OneFollows, TickStill DEF WorkerDies, hostVars
<1>4. ASSUME NEW g \in Gen, OrphansEnd(g) PROVE Lawful
  <2> DEFINE p == [proc[g] EXCEPT !.on = NoTarget]
  <2>1. p \in Process /\ p.job = proc[g].job /\ p.st = "dead" /\ p.on = NoTarget
    BY <1>0, <1>4, ExecutionAssumption DEF OrphansEnd, Process
  <2>2. proc' = [proc EXCEPT ![g] = p]
    BY <1>4 DEF OrphansEnd
  <2> HIDE DEF p
  <2>3. Follow(g, p)
    BY <2>1, EndFollows
  <2>. QED  BY <1>1, <1>4, <2>2, <2>3, OneFollows, TickStill DEF OrphansEnd, hostVars
<1>5. CASE DaemonCrash
  BY <1>1, <1>5, ProcsStill, TickEnters DEF DaemonCrash, RestartDaemon
<1>6. CASE Reboot
  <2>1. ASSUME NEW g \in Gen PROVE Follow(g, proc'[g])
    <3>1. CASE proc[g].st = "none"
      BY <1>6, <3>1 DEF Reboot, Follow, RootAlive, Acting, TreeAlive
    <3>2. CASE proc[g].st # "none"
      <4> DEFINE p == [Gone(proc[g]) EXCEPT !.on = NoTarget, !.frozen = FALSE]
      <4>1. Gone(proc[g]) \in Process /\ Gone(proc[g]).st = "dead" /\ Gone(proc[g]).job = proc[g].job
        BY Records DEF ProcStates
      <4>2. p \in Process /\ p.job = proc[g].job /\ p.st = "dead" /\ p.on = NoTarget
        BY <4>1 DEF Process
      <4>3. proc'[g] = p
        BY <1>6, <3>2 DEF Reboot
      <4> HIDE DEF p
      <4>. QED  BY <4>2, <4>3, EndFollows
    <3>. QED  BY <3>1, <3>2
  <2>. QED  BY <1>1, <1>6, <2>1, TickEnters DEF Reboot, RestartDaemon, ProcsMove
<1>. QED  BY <1>2, <1>3, <1>4, <1>5, <1>6 DEF Host

-----------------------------------------------------------------------------
(* The supervisor: boot pass, repairs, lost workers and merges. *)

\* The boot pass requeues nothing, and the repairs remove the receipts of dead
\* processes only.
LEMMA RepairLawful ==
  ASSUME PlainHost, IInv, IInv', Custody
  PROVE  /\ EnterBoot \/ RepairOutcomes \/ ClearFinalized \/ SweepReceipts => Lawful
         /\ \A j \in Job : ~BootIntent(j)
         /\ ~BootRelease /\ ~BootForget /\ ~BootRequeueJob /\ ~BootRequeued
<1>1. EnterBoot => Lawful
  BY TickLawful, TickEnters, FilesStill, LeasesStill
     DEF EnterBoot, Visit, EndStage, PlainHost, durableVars, processVars, hostVars
<1>2. RepairOutcomes => Lawful
  BY TickLawful, TickEnters, FilesStill, LeasesStill
     DEF RepairOutcomes, EndStage, processVars, hostVars
<1>3. ASSUME ClearFinalized PROVE Lawful
  <2>1. ASSUME NEW j \in Job, Finalized(j) PROVE txn[j] # NoTxn /\ TreeGone(txn[j].gen)
    BY <2>1 DEF Finalized, NoTxn, Custody, TreeInv, TxnOwns
  <2>2. FilesMove
    BY <1>3, <2>1 DEF ClearFinalized, FilesMove, ReceiptKept, OwnerAlive, TreeGone, NoTxn
  <2>. QED  BY <1>3, <2>2, TickLawful, TickEnters, LeasesStill
            DEF ClearFinalized, EndStage, processVars, hostVars
<1>4. ASSUME SweepReceipts PROVE Lawful
  <2>1. FilesMove
    BY <1>4 DEF SweepReceipts, FilesMove, ReceiptKept, DeadReceipt
  <2>. QED  BY <1>4, <2>1, TickLawful, TickEnters, LeasesStill
            DEF SweepReceipts, EndStage, processVars, hostVars
<1>5. stage = "boot" => step = "enter"
  BY DEF Custody, TickInv
<1>. QED  BY <1>1, <1>2, <1>3, <1>4, <1>5
          DEF BootIntent, BootRelease, BootForget, BootRequeueJob, BootRequeued, At

\* A job that is about to be completed or dropped has no owner.
LEMMA DroppedUnowned ==
  ASSUME IInv, Custody, step \in {"complete", "drop"}
  PROVE  /\ cur \in Job /\ stage \in {"reap", "running"} /\ cur \notin todo
         /\ ~OwnerAlive(cur) /\ Unowned(cur)
<1>1. cur \in Job /\ stage \in {"reap", "running"} /\ cur \notin todo
  BY DEF IInv, TypeOK, TickOK, Custody, TickInv, DropInv
<1>2. ~OwnerAlive(cur)
  <2>1. CASE stage = "running"
    BY <2>1 DEF Custody, TickInv, DropInv, OwnerAlive
  <2>2. CASE stage = "reap"
    <3>1. cur \in InHand
      BY <1>1 DEF InHand, NoJob, Job
    <3>. QED  BY <1>1, <2>2, <3>1
              DEF Custody, TickInv, DropInv, TreeInv, ReceiptOwns, OwnerAlive
  <2>. QED  BY <1>1, <2>1, <2>2
<1>3. Unowned(cur)
  <2> SUFFICES ASSUME NEW g \in Gen, proc[g].job = cur, RootAlive(g)
               PROVE  ~Acting(g) /\ receipt[cur] # g
    BY DEF Unowned
  <2>. QED  BY <1>2 DEF OwnerAlive, NoGen, Gen, Custody, TreeInv, ActingHasReceipt
<1>. QED  BY <1>1, <1>2, <1>3

\* Reaping and reconcile_running end only jobs without an owner.
LEMMA LostWorkerLawful ==
  ASSUME IInv, IInv', Custody
  PROVE  /\ EnterReap \/ EnterRunning \/ LeaveRunning => Lawful
         /\ \A j \in Job : ReapChild(j) \/ ObserveRunning(j) => Lawful
         /\ CompleteLost \/ DropChild => Lawful
<1>0. /\ todo \subseteq Job /\ cur \notin todo /\ jobs \in Queue /\ submitted \in Nat
      /\ receipt \in [Job -> Gen \cup {NoGen}]
  BY DEF IInv, TypeOK, TickOK, QueueOK, DurableOK, Custody, TickInv
<1>1. ASSUME NEW S \in SUBSET Job, Visit(S), stage \in {"reap", "running"} PROVE TickMove
  BY <1>1, TickVisits DEF Terminating
<1>2. ASSUME stage \in {"reap", "running"}, stage' = stage, step # "enter", step' # "mark",
             todo' \subseteq todo
      PROVE  TickMove
  BY <1>2, TickSteps
<1>3. ASSUME EnterReap \/ EnterRunning PROVE Lawful
  <2>1. TickMove
    BY <1>1, <1>3 DEF EnterReap, EnterRunning, At
  <2>. QED  BY <1>3, <2>1, TickLawful, FilesStill, LeasesStill
            DEF EnterReap, EnterRunning, durableVars, processVars, hostVars
<1>4. ASSUME LeaveRunning PROVE Lawful
  BY <1>4, TickLawful, TickEnters, FilesStill, LeasesStill
     DEF LeaveRunning, EndStage, durableVars, processVars, hostVars
<1>5. ASSUME NEW j \in Job, ReapChild(j) PROVE Lawful
  <2>1. TickMove
    <3>1. stage = "reap" /\ step = "next"
      BY <1>5 DEF ReapChild, At
    <3>2. CASE Visit(todo \ {j})
      BY <1>0, <1>1, <3>1, <3>2
    <3>3. CASE \E e \in {"complete", "drop"} : Take(j, e)
      BY <1>2, <3>1, <3>3 DEF Take
    <3>. QED  BY <1>5, <3>2, <3>3 DEF ReapChild
  <2>. QED  BY <1>5, <2>1, TickLawful, FilesStill, LeasesStill
            DEF ReapChild, durableVars, processVars, hostVars
<1>6. ASSUME NEW j \in Job, ObserveRunning(j) PROVE Lawful
  <2>1. stage = "running" /\ step = "next"
    BY <1>6 DEF ObserveRunning, At
  <2>2. TickMove
    <3>1. CASE Visit(todo \ {j})
      BY <1>0, <1>1, <2>1, <3>1
    <3>2. CASE todo' = todo \ {j} /\ UNCHANGED <<stage, step, cur>>
      BY <1>2, <2>1, <3>2
    <3>3. CASE Take(j, "complete")
      BY <1>2, <2>1, <3>3 DEF Take
    <3>. QED  BY <1>6, <3>1, <3>2, <3>3 DEF ObserveRunning
  <2>3. FilesMove
    <3>1. \/ UNCHANGED receipt
          \/ ~OwnerAlive(j) /\ receipt' = [receipt EXCEPT ![j] = NoGen]
      BY <1>6, Zenon DEF ObserveRunning
    <3>2. \A i \in Job : ReceiptKept(i)
      BY <1>0, <3>1 DEF ReceiptKept
    <3>. QED  BY <1>6, <3>2 DEF ObserveRunning, FilesMove
  <2>. QED  BY <1>6, <2>2, <2>3, TickLawful, LeasesStill
            DEF ObserveRunning, processVars, hostVars
<1>7. ASSUME CompleteLost PROVE Lawful
  <2>1. step = "complete"
    BY <1>7 DEF CompleteLost
  <2>2. cur \in Job /\ stage \in {"reap", "running"} /\ Unowned(cur)
    BY <2>1, DroppedUnowned
  <2>3. TickMove
    <3>1. CASE Leave
      BY <1>0, <1>1, <2>2, <3>1 DEF Leave
    <3>2. CASE Step("outcome") \/ Step("drop")
      BY <1>2, <2>1, <2>2, <3>2 DEF Step
    <3>. QED  BY <1>7, <3>1, <3>2 DEF CompleteLost
  <2>4. \A i \in Job : RowStep(i)
    <3>1. CASE Running(jobs[cur]) /\ ~jobs[cur].asked
      <4> DEFINE r == [Complete(jobs[cur]) EXCEPT !.results = [t \in Target |-> "uncertain"]]
      <4>1. r \in Row /\ r.status = "completed"
        <5>1. [t \in Target |-> "uncertain"] \in [Target -> Result]
          BY DEF Result
        <5>2. jobs[cur] \in Row
          BY <1>0, <2>2 DEF Queue
        <5>3. Complete(jobs[cur]) \in Row /\ Complete(jobs[cur]).status = "completed"
          BY <5>2, RowTransitions, QueueAssumption DEF Complete, Row
        <5>. QED  BY <5>1, <5>3 DEF Row
      <4> HIDE DEF r
      <4>2. jobs' = Write(jobs, cur, r)
        BY <1>7, <3>1 DEF CompleteLost, CompleteRunningUncertain, r
      <4>3. jobs'[cur] = [r EXCEPT !.age = 0] /\ \A i \in Job \ {cur} : Beside(jobs[i], jobs'[i])
        BY <1>0, <2>2, <4>1, <4>2, WriteBeside
      <4>4. jobs'[cur].status = "completed"
        BY <4>1, <4>3 DEF Row
      <4>5. cur \notin todo' /\ ~Admitting'
        BY <1>0, <1>7, <2>2, <3>1 DEF CompleteLost, Step, Admitting
      <4>6. RowDecided(cur)
        BY <2>2, <3>1, <4>4, <4>5 DEF RowDecided
      <4>. QED  BY <4>3, <4>6 DEF RowStep
    <3>2. CASE ~(Running(jobs[cur]) /\ ~jobs[cur].asked)
      <4>1. jobs' = jobs
        BY <1>7, <3>2 DEF CompleteLost, CompleteRunningUncertain
      <4>. QED  BY <4>1 DEF RowStep, Beside, RowSame
    <3>. QED  BY <3>1, <3>2
  <2>5. RowsMove
    BY <1>0, <1>7, <2>4 DEF CompleteLost, RowsMove, hostVars
  <2>. QED  BY <1>7, <2>3, <2>5, ProcsStill, FilesStill, LeasesStill
            DEF CompleteLost, durableVars, processVars, Lawful
<1>8. ASSUME DropChild PROVE Lawful
  <2>1. step = "drop"
    BY <1>8 DEF DropChild
  <2>2. cur \in Job /\ stage \in {"reap", "running"} /\ ~OwnerAlive(cur)
    BY <2>1, DroppedUnowned
  <2>3. TickMove
    BY <1>0, <1>1, <1>8, <2>2 DEF DropChild, Leave
  <2>4. FilesMove
    BY <1>0, <1>8, <2>2 DEF DropChild, FilesMove, ReceiptKept
  <2>. QED  BY <1>8, <2>3, <2>4, TickLawful, LeasesStill DEF DropChild, hostVars
<1>. QED  BY <1>3, <1>4, <1>5, <1>6, <1>7, <1>8

\* The cancellation of merged jobs is lawful: a pending one is dropped, a running
\* one asked, and an orphaned one settled once no process is left.
LEMMA MergeLawful ==
  ASSUME IInv, IInv', Custody, Order
  PROVE  /\ ObserveMerged => Lawful
         /\ \A j \in Job : CancelMerged(j) => Lawful
         /\ FinalizeReceiptless \/ ReleaseOrphan => Lawful
<1>0. /\ todo \subseteq Job /\ jobs \in Queue /\ MergeProof \in Proof /\ submitted \in Nat
  BY ExecutionAssumption DEF IInv, TypeOK, TickOK, QueueOK
<1>1. ASSUME NEW S \in SUBSET Job, Visit(S), stage = "observe" PROVE TickMove
  BY <1>1, TickVisits DEF Terminating
<1>2. ASSUME \A i \in Job : RowStep(i), TickMove,
             UNCHANGED <<receipt, txn, leases, processVars, hostVars>>
      PROVE  Lawful
  <2>1. RowsMove
    BY <1>0, <1>2 DEF RowsMove, hostVars
  <2>. QED  BY <1>2, <2>1, ProcsStill, FilesStill, LeasesStill DEF processVars, Lawful
<1>3. ASSUME ObserveMerged PROVE Lawful
  <2>1. PICK S \in SUBSET {j \in Job : Observable(j)}, drain \in {TRUE, "drain" \notin Faults} :
          LET P == {j \in S : Pending(jobs[j])} IN
          /\ jobs' = IF drain THEN CancelPending(jobs, P, MergeProof) ELSE jobs
          /\ outcome' = [j \in Job |-> IF drain /\ j \in P THEN "merged" ELSE outcome[j]]
          /\ Visit({j \in S : Running(jobs[j])})
    BY <1>3 DEF ObserveMerged
  <2>2. ASSUME NEW i \in Job PROVE RowStep(i)
    <3> DEFINE P == {j \in S : Pending(jobs[j])}
    <3>1. P \in SUBSET Job /\ jobs' \in {jobs, CancelPending(jobs, P, MergeProof)}
      BY <2>1
    <3> HIDE DEF P
    <3>2. \/ Beside(jobs[i], CancelPending(jobs, P, MergeProof)[i])
          \/ RowDropped(jobs[i], CancelPending(jobs, P, MergeProof)[i])
      BY <1>0, <3>1, PendingBeside
    <3>3. Beside(jobs[i], jobs[i])
      BY DEF Beside, RowSame
    <3>. QED  BY <3>1, <3>2, <3>3 DEF RowStep
  <2>3. TickMove
    BY <1>1, <1>3, <2>1 DEF ObserveMerged, At
  <2>. QED  BY <1>2, <1>3, <2>2, <2>3 DEF ObserveMerged
<1>4. ASSUME NEW j \in Job, CancelMerged(j) PROVE Lawful
  <2>1. \A i \in Job : RowStep(i)
    <3>1. CASE CanRequestCancel(jobs[j], MergeProof)
      BY <1>0, <1>4, <3>1, RequestRow DEF CancelMerged
    <3>2. CASE ~CanRequestCancel(jobs[j], MergeProof)
      BY <1>4, <3>2 DEF CancelMerged, RowStep, Beside, RowSame
    <3>. QED  BY <3>1, <3>2
  <2>2. TickMove
    <3>1. CASE Visit(todo \ {j})
      BY <1>0, <1>1, <1>4, <3>1 DEF CancelMerged, At
    <3>. QED  BY <1>4, <3>1, TickEnters DEF CancelMerged, AbortTick
  <2>. QED  BY <1>2, <1>4, <2>1, <2>2 DEF CancelMerged, durableVars
<1>5. ASSUME FinalizeReceiptless PROVE Lawful
  <2>1. stage = "orphans" /\ step = "enter" /\ todo = {}
    BY <1>5 DEF FinalizeReceiptless, At, Custody, TickInv
  <2>2. ASSUME NEW j \in Job, Receiptless(j), step' = "outcome", cur' = j,
               jobs' = FinalizeAuditedReceiptlessCancel(jobs, j, MergeProof),
               UNCHANGED <<stage, todo, unknown>>
        PROVE  (\A i \in Job : RowStep(i)) /\ TickMove
    <3> DEFINE r == CancelWithProof(jobs[j], MergeProof)
    <3>1. r \in Row /\ r.status = "cancelled" /\ r.asked
      <4>1. jobs[j] \in Row
        BY <1>0 DEF Queue
      <4>. QED  BY <1>0, <4>1, RowTransitions DEF CancelWithProof, Row
    <3> HIDE DEF r
    <3>2. jobs'[j] = [r EXCEPT !.age = 0] /\ \A i \in Job \ {j} : Beside(jobs[i], jobs'[i])
      BY <1>0, <2>2, <3>1, WriteBeside DEF FinalizeAuditedReceiptlessCancel, r
    <3>3. jobs'[j].status = "cancelled" /\ jobs'[j].asked
      BY <3>1, <3>2 DEF Row
    <3>4. \A g \in Gen : proc[g].job = j => TreeGone(g)
      BY <2>2 DEF Receiptless, TreeGone, TreeAlive, Acting, RootAlive, ActingStates
    <3>5. Quiet(j) /\ Unowned(j)
      BY <3>4 DEF Quiet, Unowned, TreeGone
    <3>6. RowDecided(j)
      BY <2>1, <2>2, <3>3, <3>5 DEF RowDecided, Receiptless, CancelRequested, Admitting
    <3>7. TickMove
      BY <2>1, <2>2, <3>4 DEF TickMove, Terminating, Admitting
    <3>. QED  BY <3>2, <3>6, <3>7 DEF RowStep
  <2>3. (\A i \in Job : RowStep(i)) /\ TickMove
    BY <1>5, <2>2, TickEnters DEF FinalizeReceiptless, EndStage, RowStep, Beside, RowSame
  <2>. QED  BY <1>2, <1>5, <2>3 DEF FinalizeReceiptless, durableVars
<1>6. ASSUME ReleaseOrphan PROVE Lawful
  <2>1. \A g \in Gen : proc[g].job = cur => proc[g].on = NoTarget
    BY <1>6 DEF ReleaseOrphan, At, Order, LeaseInv, TreeGone, TreeAlive
  <2>2. LeasesMove
    BY <1>6, <2>1 DEF ReleaseOrphan, LeasesMove, processVars
  <2>. QED  BY <1>6, <2>2, TickLawful, TickEnters, FilesStill
            DEF ReleaseOrphan, EndStage, processVars, hostVars
<1>. QED  BY <1>3, <1>4, <1>5, <1>6

-----------------------------------------------------------------------------
(* The supervisor: terminations. *)

\* Moving on within a termination.
LEMMA TerminationTick ==
  ASSUME IInv, Terminating, step # "enter"
  PROVE  /\ \A S \in SUBSET todo : Visit(S) => TickMove
         /\ \A e \in Steps \ {"mark"} : Step(e) => TickMove
         /\ \A e \in Steps \ {"mark"}, j \in Job : Take(j, e) => TickMove
         /\ AbortTick => TickMove
<1>0. todo \subseteq Job /\ stage \notin {"admit", "orphans"}
  BY DEF IInv, TypeOK, TickOK, Terminating
<1>1. ASSUME NEW S \in SUBSET todo, Visit(S) PROVE TickMove
  BY <1>0, <1>1, TickVisits
<1>2. ASSUME NEW e \in Steps \ {"mark"}, Step(e) PROVE TickMove
  BY <1>0, <1>2, TickSteps DEF Step
<1>3. ASSUME NEW e \in Steps \ {"mark"}, NEW j \in Job, Take(j, e) PROVE TickMove
  BY <1>0, <1>3, TickSteps DEF Take
<1>. QED  BY <1>1, <1>2, <1>3, TickEnters DEF AbortTick

\* The jobs a termination stage visits are condemned.
LEMMA TerminationEntryLawful ==
  ASSUME IInv, IInv', Custody
  PROVE  EnterCancel \/ EnterDefer => Lawful
<1> SUFFICES ASSUME EnterCancel \/ EnterDefer PROVE Lawful
  OBVIOUS
<1>1. UNCHANGED <<jobs, durableVars, processVars, hostVars>> /\ stage \in {"cancel", "defer", "recancel"}
  BY DEF EnterCancel, EnterDefer, At
<1>2. PICK S \in SUBSET Job : Visit(S) /\ \A j \in S : Condemned(jobs[j])
  <2>1. CASE EnterCancel
    BY <2>1 DEF EnterCancel, Condemned, CancelRequested
  <2>2. CASE EnterDefer
    BY <2>2 DEF EnterDefer, Condemned, CanFinalizeDeferred
  <2>. QED  BY <2>1, <2>2
<1>3. TickMove
  BY <1>1, <1>2, TickVisits
<1>. QED  BY <1>1, <1>3, TickLawful, FilesStill, LeasesStill DEF durableVars, processVars, hostVars

\* Only the owner of a job on the list is stopped.
LEMMA TerminationStartLawful ==
  ASSUME IInv, IInv', Custody, NEW j \in Job
  PROVE  Freeze(j) \/ NoLiveOwner(j) \/ ResumeTxn(j) => Lawful
<1>0. /\ todo \subseteq Job /\ proc \in [Gen -> Process] /\ txn \in [Job -> Txn]
      /\ receipt \in [Job -> Gen \cup {NoGen}]
      /\ {"save", "kill", "release", "settle"} \subseteq Steps \ {"mark"}
  BY DEF IInv, TypeOK, TickOK, ProcessOK, DurableOK, Steps
<1>1. ASSUME Freeze(j) PROVE Lawful
  <2> DEFINE g == receipt[j]
             p == [proc[g] EXCEPT !.frozen = TRUE]
  <2>1. /\ Terminating /\ step = "next" /\ j \in todo /\ RootAlive(g) /\ g \in Gen
        /\ proc[g] \in Process /\ proc[g].job = j /\ proc' = [proc EXCEPT ![g] = p]
        /\ UNCHANGED <<jobs, durableVars, hostVars>> /\ Take(j, "save")
    BY <1>0, <1>1 DEF Freeze, OwnerAlive, Custody, TreeInv, ReceiptOwns
  <2>2. /\ p.job = proc[g].job /\ p.st = proc[g].st /\ p.on = proc[g].on
        /\ p.snap = proc[g].snap
    BY <2>1 DEF Process
  <2>3. Stops(g)
    BY <2>1 DEF Stops
  <2> HIDE DEF p, g
  <2>4. Follow(g, p)
    BY <2>1, <2>2, <2>3 DEF Follow, RootAlive, Acting, TreeAlive
  <2>5. TickMove
    BY <1>0, <2>1, TerminationTick
  <2>. QED  BY <2>1, <2>4, <2>5, OneFollows, RowsStill, FilesStill, LeasesStill
            DEF durableVars, hostVars, Lawful
<1>2. ASSUME NoLiveOwner(j) PROVE Lawful
  BY <1>0, <1>2, TerminationTick, TickLawful, FilesStill, LeasesStill
     DEF NoLiveOwner, durableVars, processVars, hostVars
<1>3. ASSUME ResumeTxn(j) PROVE Lawful
  <2>1. TickMove
    <3>1. Terminating /\ step = "next"
      BY <1>3 DEF ResumeTxn
    <3>2. CASE \E e \in {"kill", "release", "settle"} : Take(j, e)
      BY <1>0, <3>1, <3>2, TerminationTick
    <3>3. CASE AbortTick
      BY <3>1, <3>3, TerminationTick
    <3>. QED  BY <1>3, <3>2, <3>3 DEF ResumeTxn
  <2>2. \A i \in Job : txn'[i].phase = txn[i].phase
    BY <1>0, <1>3 DEF ResumeTxn, Txn
  <2>3. FilesMove
    BY <1>3, <2>2 DEF FilesMove, ReceiptKept, ResumeTxn
  <2>. QED  BY <1>3, <2>1, <2>3, TickLawful, LeasesStill DEF ResumeTxn, processVars, hostVars
<1>. QED  BY <1>1, <1>2, <1>3

\* The steps from the snapshot to the released leases.
LEMMA TerminationWorkLawful ==
  ASSUME IInv, IInv', Custody, Order
  PROVE  SaveTxn \/ KillTree \/ MarkDead \/ ReleaseLeases \/ MarkReleased => Lawful
<1>0. /\ proc \in [Gen -> Process] /\ txn \in [Job -> Txn] /\ NoTarget \notin Target
      /\ {"kill", "dead", "release", "settle"} \subseteq Steps \ {"mark"}
  BY ExecutionAssumption DEF IInv, TypeOK, ProcessOK, DurableOK, Steps
<1>1. ASSUME NEW s, NEW phase \in {"frozen", "dead"}, step = s, s \in {"save", "dead"},
             \A i \in Job \ {cur} : txn'[i] = txn[i], txn'[cur].phase = phase,
             UNCHANGED <<jobs, receipt, leases, processVars, hostVars>>,
             Step("kill") \/ Step("release")
      PROVE  Lawful
  <2>1. Terminating /\ cur \in Job
    BY <1>1, InTermination
  <2>2. FilesMove
    BY <1>1 DEF FilesMove, ReceiptKept
  <2>3. TickMove
    BY <1>0, <1>1, <2>1, TerminationTick
  <2>. QED  BY <1>1, <2>2, <2>3, TickLawful, LeasesStill DEF processVars, hostVars
<1>2. ASSUME SaveTxn PROVE Lawful
  <2>1. cur \in Job /\ step = "save"
    BY <1>2, InTermination DEF SaveTxn
  <2>2. txn'[cur].phase = "frozen" /\ \A i \in Job \ {cur} : txn'[i] = txn[i]
    BY <1>0, <1>2, <2>1 DEF SaveTxn
  <2>. QED  BY <1>1, <1>2, <2>1, <2>2 DEF SaveTxn
<1>3. ASSUME MarkDead PROVE Lawful
  <2>1. cur \in Job /\ step = "dead"
    BY <1>3, InTermination DEF MarkDead
  <2>2. txn'[cur].phase = "dead" /\ \A i \in Job \ {cur} : txn'[i] = txn[i]
    BY <1>0, <1>3, <2>1 DEF MarkDead, Txn
  <2>. QED  BY <1>1, <1>3, <2>1, <2>2 DEF MarkDead
<1>4. ASSUME KillTree PROVE Lawful
  <2> DEFINE g == txn[cur].gen
             p == [Gone(proc[g]) EXCEPT !.on = NoTarget, !.frozen = FALSE]
  <2>1. step = "kill" /\ Terminating /\ g \in Gen
    BY <1>4, InTermination DEF KillTree
  <2>2. Gone(proc[g]) \in Process /\ Gone(proc[g]).st = "dead" /\ Gone(proc[g]).job = proc[g].job
    BY <2>1, Records DEF ProcStates
  <2>3. p \in Process /\ p.job = proc[g].job /\ p.st = "dead" /\ p.on = NoTarget
    BY <2>2 DEF Process
  <2>4. proc' = [proc EXCEPT ![g] = p]
    BY <1>4 DEF KillTree
  <2> HIDE DEF p, g
  <2>5. ProcsMove
    BY <2>1, <2>3, <2>4, EndFollows, OneFollows
  <2>6. TickMove
    BY <1>0, <1>4, <2>1, TerminationTick DEF KillTree
  <2>. QED  BY <1>4, <2>5, <2>6, RowsStill, FilesStill, LeasesStill
            DEF KillTree, durableVars, hostVars, Lawful
<1>5. ASSUME ReleaseLeases PROVE Lawful
  <2>1. step = "release" /\ Terminating
    BY <1>5 DEF ReleaseLeases
  <2>2. cur \in Job /\ txn[cur] # NoTxn /\ txn[cur].phase # "frozen"
    BY <2>1, InTermination DEF Custody, TickInv, TerminateInv
  <2>3. \A h \in Gen : proc[h].job = cur => proc[h].on = NoTarget
    BY <2>2 DEF Custody, TreeInv, TxnOwns, OnlyTree, TreeGone, TreeAlive
  <2>4. LeasesMove
    BY <1>5, <2>3 DEF ReleaseLeases, LeasesMove, processVars
  <2>5. TickMove
    BY <1>5, <2>1 DEF ReleaseLeases, Step, TickMove, Terminating, Admitting
  <2>. QED  BY <1>5, <2>4, <2>5, TickLawful, FilesStill DEF ReleaseLeases, processVars, hostVars
<1>6. ASSUME MarkReleased PROVE Lawful
  <2>1. step = "mark" /\ Terminating
    BY <1>6, InTermination DEF MarkReleased
  <2>2. \A i \in Job \ {cur} : txn'[i] = txn[i]
    BY <1>0, <1>6 DEF MarkReleased
  <2>3. FilesMove
    BY <1>6, <2>1, <2>2 DEF MarkReleased, FilesMove, ReceiptKept
  <2>4. TickMove
    BY <1>0, <1>6, <2>1, TerminationTick DEF MarkReleased
  <2>. QED  BY <1>6, <2>3, <2>4, TickLawful, LeasesStill DEF MarkReleased, processVars, hostVars
<1>. QED  BY <1>2, <1>3, <1>4, <1>5, <1>6

\* A job is settled with its tree gone and its leases released.
LEMMA SettleLawful ==
  ASSUME IInv, IInv', Custody, Order, Settle
  PROVE  Lawful
<1>0. jobs \in Queue /\ submitted \in Nat /\ {"forget", "outcome"} \subseteq Steps \ {"mark"}
  BY DEF IInv, TypeOK, QueueOK, Steps
<1>1. /\ step = "settle" /\ Terminating /\ cur \in Job /\ cur \notin todo
      /\ txn[cur] # NoTxn /\ jobs[cur] \in Row
  BY <1>0, InTermination DEF Settle, Queue
<1>2. txn[cur].phase = "released"
  BY <1>1 DEF Custody, TickInv, TerminateInv
<1>3. Quiet(cur) /\ cur \notin leases
  BY <1>1, <1>2, ReleasedQuiet DEF Order, LeaseInv
<1>4. Unowned(cur)
  BY <1>3 DEF Quiet, Unowned, TreeAlive
<1>5. TickMove
  BY <1>0, <1>1, TerminationTick DEF Settle, Leave
<1>6. ASSUME Step("forget") \/ Step("outcome") PROVE cur \notin todo' /\ ~Admitting'
  BY <1>1, <1>6 DEF Step, Admitting, Terminating
<1>7. \A i \in Job : RowStep(i)
  <2>1. CASE Act = "defer" /\ CanFinalizeDeferred(jobs, cur)
    <3>1. jobs' = [jobs EXCEPT ![cur].status = "pending"] /\ Step("forget")
      BY <2>1 DEF Settle, FinalizeDeferredDaemonWorker
    <3>2. Pending(jobs'[cur]) /\ \A i \in Job \ {cur} : jobs'[i] = jobs[i]
      BY <1>0, <1>1, <3>1 DEF Queue, Row, Pending
    <3>3. RowDecided(cur)
      BY <1>3, <1>4, <1>6, <2>1, <3>1, <3>2 DEF RowDecided, CanFinalizeDeferred
    <3>. QED  BY <3>2, <3>3 DEF RowStep, Beside, RowSame
  <2>2. CASE ~(Act = "defer" /\ CanFinalizeDeferred(jobs, cur)) /\ CancelRequested(jobs[cur])
    <3> DEFINE r == CancelWithProof(jobs[cur], jobs[cur].proof)
    <3>1. r \in Row /\ r.status = "cancelled" /\ r.asked
      <4>1. jobs[cur].proof \in Proof \cup {NoProof}
        BY <1>1 DEF Row
      <4>. QED  BY <1>1, <4>1, RowTransitions DEF CancelWithProof, Row
    <3>2. jobs' = Update(jobs, cur, r) /\ Step("outcome")
      BY <2>2 DEF Settle
    <3> HIDE DEF r
    <3>3. jobs'[cur] = [r EXCEPT !.age = 0] /\ \A i \in Job \ {cur} : Beside(jobs[i], jobs'[i])
      BY <1>0, <1>1, <3>1, <3>2, WriteBeside DEF Update
    <3>4. jobs'[cur].status = "cancelled" /\ jobs'[cur].asked
      BY <3>1, <3>3 DEF Row
    <3>5. RowDecided(cur)
      BY <1>3, <1>4, <1>6, <2>2, <3>2, <3>4 DEF RowDecided, CancelRequested
    <3>. QED  BY <3>3, <3>5 DEF RowStep
  <2>3. CASE jobs' = jobs
    BY <2>3 DEF RowStep, Beside, RowSame
  <2>. QED  BY <2>1, <2>2, <2>3 DEF Settle
<1>8. RowsMove
  BY <1>0, <1>7 DEF Settle, RowsMove, hostVars
<1>. QED  BY <1>5, <1>8, ProcsStill, FilesStill, LeasesStill DEF Settle, durableVars, Lawful

\* Cleaning up after a settlement.
LEMMA CleanupLawful ==
  ASSUME IInv, IInv', Custody
  PROVE  Forget \/ Clear \/ PersistOutcome => Lawful
<1>0. /\ receipt \in [Job -> Gen \cup {NoGen}] /\ txn \in [Job -> Txn]
      /\ {"clear"} \subseteq Steps \ {"mark"}
  BY DEF IInv, TypeOK, DurableOK, Steps
<1>1. ASSUME step \in {"forget", "clear"}
      PROVE  /\ Terminating /\ cur \in Job /\ ~OwnerAlive(cur)
             /\ receipt[cur] \in {NoGen, txn[cur].gen}
  <2>1. Terminating /\ cur \in Job /\ txn[cur] # NoTxn
    BY <1>1, InTermination
  <2>2. txn[cur].phase = "released"
    BY <1>1, <2>1 DEF Custody, TickInv, TerminateInv
  <2>. QED  BY <2>1, <2>2, ReleasedQuiet
<1>2. ASSUME Forget PROVE Lawful
  <2>1. step = "forget" /\ Terminating /\ cur \in Job /\ ~OwnerAlive(cur)
    BY <1>1, <1>2 DEF Forget
  <2>2. receipt'[cur] \in {NoGen, receipt[cur]} /\ \A i \in Job \ {cur} : receipt'[i] = receipt[i]
    BY <1>0, <1>2, <2>1 DEF Forget
  <2>3. FilesMove
    BY <1>2, <2>1, <2>2 DEF Forget, FilesMove, ReceiptKept
  <2>4. TickMove
    BY <1>0, <1>2, <2>1, TerminationTick DEF Forget
  <2>. QED  BY <1>2, <2>3, <2>4, TickLawful, LeasesStill DEF Forget, processVars, hostVars
<1>3. ASSUME Clear PROVE Lawful
  <2>1. step = "clear" /\ Terminating /\ cur \in Job
    BY <1>1, <1>3 DEF Clear
  <2>2. txn'[cur].phase = "none" /\ \A i \in Job \ {cur} : txn'[i] = txn[i]
    BY <1>0, <1>3, <2>1 DEF Clear, NoTxn
  <2>3. FilesMove
    BY <1>3, <2>2 DEF Clear, FilesMove, ReceiptKept
  <2>4. TickMove
    BY <1>3, <2>1, TerminationTick DEF Clear, Leave
  <2>. QED  BY <1>3, <2>3, <2>4, TickLawful, LeasesStill DEF Clear, processVars, hostVars
<1>4. ASSUME PersistOutcome PROVE Lawful
  <2>1. step = "outcome" /\ stage # "admit"
    BY <1>4 DEF PersistOutcome, Custody, TickInv, DropInv, Terminating
  <2>2. TickMove
    BY <1>4, <2>1, TickSteps DEF PersistOutcome, Step
  <2>. QED  BY <1>4, <2>2, TickLawful, FilesStill, LeasesStill
            DEF PersistOutcome, processVars, hostVars
<1>. QED  BY <1>2, <1>3, <1>4

-----------------------------------------------------------------------------
(* The supervisor: admission. *)

\* The jobs the scan selects fit beside the running ones and beside each other,
\* although each was only compared with those before it in the queue.
LEMMA FitSelected ==
  ASSUME NEW q \in Queue, NEW late, NEW S \in SUBSET Eligible(q, late), Selected(q, late, S),
         FitTogether(Rows(q, {"running"}))
  PROVE  FitTogether(Rows(q, {"running"}) \cup S)
<1> DEFINE R == Rows(q, {"running"})
           Ahead(j) == {i \in S : Before(q, i, j)}
<1>1. R \in SUBSET Job /\ S \in SUBSET Job /\ R \cap S = {}
  BY DEF Eligible, Rows
<1>2. \A j \in S : Fits(j, R, Ahead(j))
  BY DEF Selected
<1> HIDE DEF R
<1>3. ASSUME NEW i \in R \cup S, NEW j \in S, i # j PROVE Claims[i] \cap Claims[j] = {}
  <2>1. CASE i \in R
    BY <1>2, <2>1 DEF Fits
  <2>2. CASE i \in S
    <3>1. Before(q, i, j) \/ Before(q, j, i)
      BY <1>1, <1>3, <2>2, OrderTotal
    <3>. QED  BY <1>2, <2>2, <3>1 DEF Fits
  <2>. QED  BY <2>1, <2>2
<1>4. \A i, j \in R \cup S : i # j => Claims[i] \cap Claims[j] = {}
  <2>1. \A i, j \in R : i # j => Claims[i] \cap Claims[j] = {}
    BY DEF FitTogether, R
  <2>. QED  BY <1>3, <2>1
<1>5. ASSUME NEW A \in SUBSET Job, NEW m \in Job, m \notin A, NEW n \in Nat, Cardinality(A) < n
      PROVE  Cardinality(A \cup {m}) <= n
  <2>1. IsFiniteSet(A) /\ Cardinality(A) \in Nat
    BY JobsFinite
  <2>2. Cardinality(A \cup {m}) = Cardinality(A) + 1
    BY <1>5, <2>1, FS_AddElement
  <2>. QED  BY <1>5, <2>1, <2>2
<1>6. ASSUME NEW m \in S PROVE m \notin R \cup Ahead(m)
  BY <1>1, OrderStrict
<1>7. Cardinality((R \cup S) \ Metadata) <= MaxWorkers
  <2>1. CASE S \ Metadata = {}
    <3>1. (R \cup S) \ Metadata = R \ Metadata
      BY <2>1
    <3>. QED  BY <3>1 DEF FitTogether, R
  <2>2. CASE S \ Metadata # {}
    <3>1. S \ Metadata \in SUBSET Job
      BY <1>1
    <3>2. PICK m \in S \ Metadata : \A i \in (S \ Metadata) \ {m} : Before(q, i, m)
      BY <2>2, <3>1, LastInOrder
    <3> DEFINE A == (R \cup Ahead(m)) \ Metadata
    <3>3. (R \cup S) \ Metadata = A \cup {m}
      BY <3>2
    <3>4. Cardinality(A) < MaxWorkers /\ A \in SUBSET Job /\ m \in Job /\ m \notin A
      BY <1>1, <1>2, <1>6 DEF Fits
    <3> HIDE DEF A
    <3>. QED  BY <1>5, <3>3, <3>4, ExecutionAssumption
  <2>. QED  BY <2>1, <2>2
<1>8. Cardinality((R \cup S) \cap Metadata) <= MaxControllers
  <2>1. CASE S \cap Metadata = {}
    <3>1. (R \cup S) \cap Metadata = R \cap Metadata
      BY <2>1
    <3>. QED  BY <3>1 DEF FitTogether, R
  <2>2. CASE S \cap Metadata # {}
    <3>1. S \cap Metadata \in SUBSET Job
      BY <1>1
    <3>2. PICK m \in S \cap Metadata : \A i \in (S \cap Metadata) \ {m} : Before(q, i, m)
      BY <2>2, <3>1, LastInOrder
    <3> DEFINE A == (R \cup Ahead(m)) \cap Metadata
    <3>3. (R \cup S) \cap Metadata = A \cup {m}
      BY <3>2
    <3>4. Cardinality(A) < MaxControllers /\ A \in SUBSET Job /\ m \in Job /\ m \notin A
      BY <1>1, <1>2, <1>6 DEF Fits
    <3> HIDE DEF A
    <3>. QED  BY <1>5, <3>3, <3>4, ExecutionAssumption
  <2>. QED  BY <2>1, <2>2
<1>. QED  BY <1>4, <1>7, <1>8 DEF FitTogether, R

\* The selection and its start.
LEMMA SelectionLawful ==
  ASSUME IInv, IInv', Custody, Order
  PROVE  /\ \A late \in SUBSET Job : SelectPending(late) => Lawful
         /\ SelectNothing => Lawful
         /\ StartSelected => Lawful
<1>0. /\ jobs \in Queue /\ jobs' \in Queue /\ submitted \in Nat /\ todo \subseteq Job
      /\ Invalid \in SUBSET Job
  BY ExecutionAssumption DEF IInv, TypeOK, QueueOK, TickOK
<1>1. ASSUME \A i \in Job : RowStep(i), TickMove,
             UNCHANGED <<durableVars, processVars, submitted>>
      PROVE  Lawful
  <2>1. RowsMove
    BY <1>0, <1>1 DEF RowsMove
  <2>. QED  BY <1>1, <2>1, ProcsStill, FilesStill, LeasesStill DEF durableVars, processVars, Lawful
<1>2. ASSUME NEW late \in SUBSET Job, SelectPending(late) PROVE Lawful
  <2> DEFINE R == Rows(jobs, {"running"})
             R2 == Rows(jobs', {"running"})
  <2>1. \A i \in Job : Beside(jobs[i], jobs'[i]) \/ RowDropped(jobs[i], jobs'[i])
    BY <1>0, <1>2, PendingBeside DEF SelectPending
  <2>2. R2 \subseteq R /\ R \in SUBSET Job
    BY <2>1 DEF Rows, Beside, RowSame, RowDropped, Absent
  <2>3. PICK S \in SUBSET Eligible(jobs, late) :
          /\ Selected(jobs, late, S)
          /\ EndStage \/ (step' = "start" /\ todo' = S /\ UNCHANGED <<stage, cur, unknown>>)
    BY <1>2 DEF SelectPending
  <2>4. FitTogether(R \cup S) /\ S \in SUBSET Job
    BY <1>0, <2>3, FitSelected DEF Order, FitInv, Eligible, Rows
  <2> HIDE DEF R, R2
  <2>5. FitTogether(R2 \cup S)
    <3>1. R2 \cup S \in SUBSET (R \cup S) /\ R \cup S \in SUBSET Job
      BY <2>2, <2>4
    <3>. QED  BY <2>4, <3>1, FitParts
  <2>6. TickMove
    <3>1. CASE EndStage
      BY <3>1, TickEnters DEF EndStage
    <3>2. CASE step' = "start" /\ todo' = S /\ UNCHANGED <<stage, cur, unknown>>
      <4>1. stage = "admit"
        BY <1>2 DEF SelectPending, At
      <4>. QED  BY <2>5, <3>2, <4>1 DEF TickMove, Admitting, Terminating, R2
    <3>. QED  BY <2>3, <3>1, <3>2
  <2>. QED  BY <1>1, <1>2, <2>1, <2>6 DEF SelectPending, RowStep, hostVars
<1>4. ASSUME SelectNothing PROVE Lawful
  <2>1. \A i \in Job : Beside(jobs[i], jobs'[i]) \/ RowDropped(jobs[i], jobs'[i])
    BY <1>0, <1>4, PendingBeside DEF SelectNothing
  <2>2. TickMove
    BY <1>4, TickEnters DEF SelectNothing, EndStage
  <2>. QED  BY <1>1, <1>4, <2>1, <2>2 DEF SelectNothing, RowStep, hostVars
<1>3. ASSUME StartSelected PROVE Lawful
  <2>1. stage = "admit" /\ step = "start" /\ jobs' = StartPending(jobs, todo)
    BY <1>3 DEF StartSelected, At
  <2>2. ASSUME NEW i \in Job, i \in todo, Pending(jobs[i]) PROVE RowStarts(i)
    <3>1. ~jobs[i].asked
      BY <2>2 DEF IInv, RequestsSound, RequestSound, Pending
    <3>2. Running(jobs'[i]) /\ ~jobs'[i].deferred /\ jobs'[i].asked = jobs[i].asked
      BY <1>0, <2>1, <2>2, PendingBeside, QueueAssumption
    <3>. QED  BY <2>1, <2>2, <3>1, <3>2 DEF RowStarts
  <2>3. \A i \in Job : RowStep(i)
    BY <1>0, <2>1, <2>2, PendingBeside DEF RowStep, Beside, RowSame
  <2>4. TickMove
    <3> DEFINE S == {j \in todo : Pending(jobs[j])}
    <3>1. CASE S = {}
      BY <1>3, <3>1, TickEnters DEF StartSelected, Visit, EndStage
    <3>2. CASE S # {}
      <4>1. step' = "next" /\ todo' = S /\ cur' = NoJob /\ stage' = stage
        BY <1>3, <3>2 DEF StartSelected, Visit
      <4>2. InHand' \subseteq S
        BY <4>1 DEF InHand
      <4>. QED  BY <1>0, <2>1, <2>2, <4>1, <4>2 DEF TickMove, Admitting, Terminating
    <3>. QED  BY <3>1, <3>2
  <2>. QED  BY <1>1, <1>3, <2>3, <2>4 DEF StartSelected
<1>. QED  BY <1>2, <1>3, <1>4

\* Moving on within an admission.
LEMMA AdmissionTick ==
  ASSUME IInv, Admitting
  PROVE  /\ Leave => TickMove
         /\ \A e \in {"receipt", "spawn"} : Step(e) => TickMove
         /\ \A e \in {"receipt", "spawn"}, j \in todo : Take(j, e) => TickMove
<1>0. todo \in SUBSET Job /\ stage = "admit" /\ ~Terminating
  BY DEF IInv, TypeOK, TickOK, Admitting, Terminating
<1>1. ASSUME Leave PROVE TickMove
  BY <1>0, <1>1, TickVisits DEF Leave
<1>2. ASSUME stage' = stage, step' \in {"receipt", "spawn"}, InHand' \subseteq InHand PROVE TickMove
  BY <1>0, <1>2 DEF TickMove, Admitting, Terminating
<1>. QED  BY <1>1, <1>2 DEF Step, Take, InHand

\* Spawning a worker, its receipt, and what happens without.
LEMMA SpawnLawful ==
  ASSUME IInv, IInv', Custody, Order
  PROVE  /\ \A j \in Job : SpawnProcess(j) => Lawful
         /\ WriteReceipt \/ KeepUnverified \/ SpawnFails \/ RequeueUnspawned => Lawful
<1>0. /\ jobs \in Queue /\ submitted \in Nat /\ todo \subseteq Job /\ proc \in [Gen -> Process]
      /\ receipt \in [Job -> Gen \cup {NoGen}] /\ spawned \in 0 .. MaxSpawns
  BY DEF IInv, TypeOK, QueueOK, TickOK, ProcessOK, DurableOK
<1>1. ASSUME NEW j \in Job, SpawnProcess(j) PROVE Lawful
  <2> DEFINE n == spawned + 1
             p == [NoProcess EXCEPT !.st = "waiting", !.job = j, !.boot = boot]
  <2>1. /\ Admitting /\ j \in todo /\ n \in Gen /\ proc' = [proc EXCEPT ![n] = p]
        /\ Take(j, "receipt") /\ UNCHANGED <<jobs, durableVars, hostVars>>
    BY <1>0, <1>1, ExecutionAssumption DEF SpawnProcess, Admitting, At, Gen
  <2>2. p.st = "waiting" /\ p.on = NoTarget /\ ~p.frozen /\ p.job = j
    BY DEF NoProcess
  <2>3. receipt[j] # n
    BY <1>0, ExecutionAssumption DEF Custody, TreeInv, ReceiptOwns, NoGen
  <2> HIDE DEF p, n
  <2>4. Fresh(n)
    BY <1>0, <2>1, <2>2, <2>3 DEF Fresh, Admitting, durableVars
  <2>5. \A h \in Gen \ {n} : Follow(h, proc'[h])
    BY <1>0, <2>1 DEF Follow, RootAlive, Acting, TreeAlive
  <2>6. TickMove
    BY <2>1, AdmissionTick
  <2>. QED  BY <2>1, <2>4, <2>5, <2>6, RowsStill, FilesStill, LeasesStill
            DEF ProcsMove, durableVars, hostVars, Lawful
<1>2. ASSUME WriteReceipt PROVE Lawful
  <2>1. Admitting /\ stage = "admit" /\ step = "receipt"
    BY <1>2 DEF WriteReceipt, Admitting, At
  <2>2. \A i \in Job : IF i = cur THEN receipt'[i] = spawned ELSE receipt'[i] = receipt[i]
    BY <1>0, <1>2 DEF WriteReceipt
  <2>3. FilesMove
    BY <1>2, <2>1, <2>2 DEF WriteReceipt, FilesMove, ReceiptKept
  <2>. QED  BY <1>2, <2>1, <2>3, AdmissionTick, TickLawful, LeasesStill DEF WriteReceipt, hostVars
<1>3. ASSUME KeepUnverified PROVE Lawful
  <2>1. Admitting
    BY <1>3 DEF KeepUnverified, Admitting, At
  <2>. QED  BY <1>3, <2>1, AdmissionTick, TickLawful, FilesStill, LeasesStill
            DEF KeepUnverified, durableVars, hostVars
<1>4. ASSUME SpawnFails PROVE Lawful
  <2>1. Admitting /\ UNCHANGED <<jobs, durableVars, hostVars>>
    BY <1>4 DEF SpawnFails, Admitting, At
  <2>2. TickMove
    BY <1>4, <2>1, AdmissionTick DEF SpawnFails
  <2>3. ProcsMove
    <3>1. CASE UNCHANGED proc
      BY <3>1, ProcsStill
    <3>2. CASE step = "receipt" /\ proc' = [proc EXCEPT ![spawned] = Gone(proc[spawned])]
      <4>1. spawned \in Gen
        BY <2>1, <3>2, InAdmission DEF Admitting
      <4>2. Follow(spawned, Gone(proc[spawned]))
        BY <4>1, Records, EndFollows DEF ProcStates
      <4>. QED  BY <3>2, <4>2, OneFollows
    <3>. QED  BY <1>4, <3>1, <3>2 DEF SpawnFails, At
  <2>. QED  BY <2>1, <2>2, <2>3, RowsStill, FilesStill, LeasesStill
            DEF durableVars, hostVars, Lawful
<1>5. ASSUME RequeueUnspawned PROVE Lawful
  <2>1. Admitting /\ stage = "admit" /\ step = "spawn"
    BY <1>5 DEF RequeueUnspawned, Admitting, At
  <2>2. cur \in Job /\ cur \notin todo /\ Quiet(cur) /\ jobs[cur] \in Row
    BY <1>0, <2>1, InAdmission DEF Queue
  <2>3. cur \notin leases
    BY <2>1, <2>2 DEF Order, LeaseInv, InHand, NoJob, Job
  <2>4. Unowned(cur)
    BY <2>2 DEF Quiet, Unowned, TreeAlive
  <2>5. cur \notin todo' /\ cur' = NoJob
    BY <1>5, <2>2 DEF RequeueUnspawned, Leave, Visit, EndStage
  <2>6. \A i \in Job : RowStep(i)
    <3>1. CASE Running(jobs[cur]) /\ ~jobs[cur].asked
      <4>1. Pending(DeferForScheduler(jobs[cur]))
        BY <2>2 DEF DeferForScheduler, Pending, Row
      <4>2. jobs'[cur] = DeferForScheduler(jobs[cur]) /\ \A i \in Job \ {cur} : jobs'[i] = jobs[i]
        BY <1>0, <1>5, <2>2, <3>1 DEF RequeueUnspawned, RequeueDeferredRunning, Queue
      <4>3. RowDecided(cur)
        BY <2>2, <2>3, <2>4, <2>5, <3>1, <4>1, <4>2 DEF RowDecided, NoJob, Job
      <4>. QED  BY <4>2, <4>3 DEF RowStep, Beside, RowSame
    <3>2. CASE ~(Running(jobs[cur]) /\ ~jobs[cur].asked)
      BY <1>5, <3>2 DEF RequeueUnspawned, RequeueDeferredRunning, RowStep, Beside, RowSame
    <3>. QED  BY <3>1, <3>2
  <2>7. RowsMove
    BY <1>0, <1>5, <2>6 DEF RequeueUnspawned, RowsMove, hostVars
  <2>. QED  BY <1>5, <2>1, <2>7, AdmissionTick, ProcsStill, FilesStill, LeasesStill
            DEF RequeueUnspawned, durableVars, processVars, Lawful
<1>. QED  BY <1>1, <1>2, <1>3, <1>4, <1>5

\* The remaining faults.
LEMMA FaultLawful ==
  ASSUME IInv, IInv', Custody
  PROVE  FreezeFails \/ KillUnverified \/ DrainBusy \/ IoError => Lawful
<1>1. ASSUME FreezeFails PROVE Lawful
  <2> DEFINE g == receipt[cur]
             p == [proc[g] EXCEPT !.frozen = FALSE]
  <2>1. step = "save" /\ cur \in Job /\ g # NoGen
    BY <1>1, InTermination DEF FreezeFails, Custody, TickInv, TerminateInv
  <2>2. g \in Gen
    BY <2>1 DEF IInv, TypeOK, DurableOK
  <2>3. proc[g] \in Process /\ proc' = [proc EXCEPT ![g] = p]
    BY <1>1, <2>2 DEF FreezeFails, IInv, TypeOK, ProcessOK
  <2>4. /\ p.job = proc[g].job /\ p.st = proc[g].st /\ p.on = proc[g].on
        /\ p.snap = proc[g].snap /\ ~p.frozen
    BY <2>3 DEF Process
  <2> HIDE DEF p, g
  <2>5. Follow(g, p)
    BY <2>4 DEF Follow, RootAlive, Acting, TreeAlive
  <2>. QED  BY <1>1, <2>3, <2>5, OneFollows, TickEnters, RowsStill, FilesStill, LeasesStill
            DEF FreezeFails, AbortTick, durableVars, hostVars, Lawful
<1>2. ASSUME KillUnverified PROVE Lawful
  <2>1. Terminating /\ step # "enter"
    BY <1>2, InTermination DEF KillUnverified
  <2>. QED  BY <1>2, <2>1, TerminationTick, TickLawful, FilesStill, LeasesStill
            DEF KillUnverified, Leave, durableVars, processVars, hostVars
<1>3. ASSUME DrainBusy PROVE Lawful
  BY <1>3, TickEnters, TickLawful, FilesStill, LeasesStill
     DEF DrainBusy, EndStage, durableVars, processVars, hostVars
<1>4. ASSUME IoError PROVE Lawful
  BY <1>4, TickEnters, TickLawful, FilesStill, LeasesStill
     DEF IoError, AbortTick, durableVars, hostVars
<1>. QED  BY <1>1, <1>2, <1>3, <1>4

-----------------------------------------------------------------------------
(* The theorems. *)

\* In the beginning nothing is held, asked, stopped or running.
LEMMA InitOrder == Init => Order
<1> SUFFICES ASSUME Init PROVE Order
  OBVIOUS
<1>1. \A g \in Gen : proc[g] = NoProcess
  BY DEF Init
<1>2. \A g \in Gen : /\ proc[g].st = "none" /\ proc[g].on = NoTarget /\ ~proc[g].frozen
                     /\ ~RootAlive(g) /\ ~Acting(g)
  BY <1>1 DEF NoProcess, RootAlive, Acting, LiveStates, ActingStates
<1>3. \A j \in Job : jobs[j] = Absent /\ txn[j] = NoTxn
  BY DEF Init
<1>4. leases = {} /\ stage = "boot" /\ step = "enter"
  BY DEF Init
<1>5. LeaseInv
  BY <1>2, <1>4 DEF LeaseInv, ValidationLeased, PendingUnleased, Admitting
<1>6. CopyInv
  BY <1>2, <1>3 DEF CopyInv, CopyFits, Absent
<1>7. StartInv /\ StopInv
  BY <1>2, <1>4 DEF StartInv, StopInv, FrozenCondemned, Admitting, Terminating
<1>8. FitInv
  <2>1. Rows(jobs, {"running"}) = {}
    BY <1>3 DEF Rows, Absent
  <2>2. Cardinality({} \ Metadata) = 0 /\ Cardinality({} \cap Metadata) = 0
    <3>1. {} \ Metadata = {} /\ {} \cap Metadata = {}
      OBVIOUS
    <3>. QED  BY <3>1, FS_EmptySet
  <2>. QED  BY <1>4, <2>1, <2>2, ExecutionAssumption DEF FitInv, FitTogether
<1>. QED  BY <1>5, <1>6, <1>7, <1>8 DEF Order

\* Every step is lawful.
LEMMA NextLawful ==
  ASSUME PlainHost, IInv, Custody, Order, Next
  PROVE  Lawful
<1>0. IInv'
  BY NextKept DEF Kept
<1>1. CASE SupervisorStep
  BY <1>0, <1>1, RepairLawful, TerminationEntryLawful, TerminationStartLawful,
     TerminationWorkLawful, SettleLawful, CleanupLawful, LostWorkerLawful, MergeLawful,
     SelectionLawful, SpawnLawful DEF SupervisorStep
<1>2. CASE SupervisorFault
  BY <1>0, <1>2, FaultLawful, SelectionLawful, SpawnLawful DEF SupervisorFault
<1>. QED  BY <1>0, <1>1, <1>2, WorkerLawful, OperatorLawful, HostLawful DEF Next

\* So is a step that changes nothing.
LEMMA StutterLawful ==
  ASSUME IInv, UNCHANGED vars
  PROVE  Lawful
  BY TickLawful, TickStill, FilesStill, LeasesStill
     DEF vars, durableVars, processVars, hostVars

\* Leases, copies of rows, starts, stops and admissions are in order, on every
\* host without boot requeue and bumps.
THEOREM OrderHolds ==
  ASSUME PlainHost
  PROVE  Spec => []Order
<1>1. IInv /\ Custody /\ Order /\ [Next]_vars /\ IInv' /\ Custody' => Order'
  BY NextLawful, StutterLawful, OrderKept
<1>2. Spec => []Custody
  BY CustodyKept
<1>. QED  BY Invariance, InitOrder, <1>1, <1>2, PTL DEF Spec

\* Validation processes run only under the lease of their job, through every
\* failure, kill, crash and reboot (ReleaseLeases, ReturnLease).
THEOREM LeasesHeld ==
  ASSUME PlainHost
  PROVE  Spec => []ValidationLeased
<1>1. Order => ValidationLeased
  BY DEF Order, LeaseInv
<1>2. Spec => []Order
  BY OrderHolds
<1>. QED  BY <1>1, <1>2, PTL

\* A job that waits in the queue holds no host-pool lease.
THEOREM WaitingHoldsNothing ==
  ASSUME PlainHost
  PROVE  Spec => []PendingUnleased
<1>1. Order => PendingUnleased
  BY DEF Order, LeaseInv
<1>2. Spec => []Order
  BY OrderHolds
<1>. QED  BY <1>1, <1>2, PTL

\* What a termination transaction records durably is true of the host: the tree
\* is dead, and then its leases are released.
THEOREM TransactionsAreTrue ==
  ASSUME PlainHost
  PROVE  Spec => []TxnTruthful
<1>1. IInv /\ Custody /\ Order => TxnTruthful
  <2> SUFFICES ASSUME IInv, Custody, Order, NEW j \in Job
               PROVE  /\ txn[j].phase \in {"dead", "released"} => ~Executing(j)
                      /\ txn[j].phase = "released" => j \notin leases
    BY DEF TxnTruthful
  <2>1. txn[j].phase = "released" => j \notin leases
    BY DEF Order, LeaseInv
  <2>2. ASSUME txn[j].phase \in {"dead", "released"} PROVE ~Executing(j)
    <3>1. txn[j] # NoTxn
      BY <2>2 DEF NoTxn
    <3>2. TreeGone(txn[j].gen) /\ OnlyTree(j, txn[j].gen)
      BY <2>2, <3>1 DEF Custody, TreeInv, TxnOwns
    <3>. QED  BY <3>2 DEF Executing, TreeGone, OnlyTree
  <2>. QED  BY <2>1, <2>2
<1>2. Spec => []Custody
  BY CustodyKept
<1>3. Spec => []Order
  BY OrderHolds
<1>. QED  BY Invariance, <1>1, <1>2, <1>3, PTL

\* Only the worker of a condemned job is ever stopped, however old the list the
\* supervisor works from.
THEOREM StopsAreJust ==
  ASSUME PlainHost
  PROVE  Spec => []FrozenCondemned
<1>1. Order => FrozenCondemned
  BY DEF Order, StopInv
<1>2. Spec => []Order
  BY OrderHolds
<1>. QED  BY <1>1, <1>2, PTL

\* Running jobs share no exclusive claim and stay within the worker limits,
\* although they are admitted from what an earlier read of the queue showed.
THEOREM AdmissionsFit ==
  ASSUME PlainHost
  PROVE  Spec => []RunningFit
<1>1. Order => RunningFit
  BY DEF Order, FitInv, FitTogether, RunningFit
<1>2. Spec => []Order
  BY OrderHolds
<1>. QED  BY <1>1, <1>2, PTL

\* A requested cancellation of a running job is acknowledged only after the
\* worker tree is dead.
THEOREM CancelsAreDead ==
  ASSUME PlainHost
  PROVE  Spec => CancelledAfterDeath
<1>1. ASSUME IInv, Custody, Order, Next, NEW j \in Job, CancelRequested(jobs[j]),
             jobs'[j].status = "cancelled"
      PROVE  ~Executing(j)
  <2>1. Lawful /\ IInv'
    BY <1>1, NextLawful, NextKept DEF Kept
  <2>2. RowDecided(j)
    BY <1>1, <2>1, RowMoves
       DEF CancelRequested, RowSame, RowAsked, RowWorked, Running
  <2>. QED  BY <1>1, <2>2 DEF RowDecided, Quiet, Executing, Pending, CancelRequested
<1>2. IInv /\ Custody /\ Order /\ [Next]_vars
        => [\A j \in Job : CancelRequested(jobs[j]) /\ jobs'[j].status = "cancelled"
                           => ~Executing(j)]_vars
  BY <1>1
<1>3. Spec => []Custody
  BY CustodyKept
<1>4. Spec => []Order
  BY OrderHolds
<1>. QED  BY Invariance, <1>2, <1>3, <1>4, PTL DEF Spec, CancelledAfterDeath

-----------------------------------------------------------------------------
(* The refinement. *)

\* Who executes a job now: the agents of the abstract executor.
Trees(j) == {g \in Gen : proc[g].job = j /\ TreeAlive(g)}

\* A lawful step that leaves the rows alone lets at most the authorized worker of
\* a running job begin, and the tree of a job end.
LEMMA TreesMove ==
  ASSUME IInv, Custody, Custody', Order, Lawful, NEW j \in Job
  PROVE  \/ Trees(j)' = Trees(j)
         \/ Trees(j) # {} /\ Trees(j)' = {}
         \/ Running(jobs[j]) /\ Trees(j) = {} /\ \E g \in Gen : Trees(j)' = {g}
<1> SUFFICES ASSUME Trees(j)' # Trees(j), Trees(j)' # {}
             PROVE  Running(jobs[j]) /\ Trees(j) = {} /\ \E g \in Gen : Trees(j)' = {g}
  OBVIOUS
<1>1. PICK g \in Gen : proc'[g].job = j /\ TreeAlive(g)'
  BY DEF Trees
<1>2. Trees(j)' = {g}
  BY <1>1 DEF Trees, Custody, TreeInv, OneTreePerJob
<1>3. proc[g].job = j /\ (TreeAlive(g) \/ Authorized(g))
  BY <1>1, Followed
<1>4. ~TreeAlive(g)
  <2> SUFFICES ASSUME TreeAlive(g) PROVE FALSE
    OBVIOUS
  <2>1. Trees(j) = {g}
    BY <1>3 DEF Trees, Custody, TreeInv, OneTreePerJob
  <2>. QED  BY <1>2, <2>1
<1>5. RootAlive(g) /\ receipt[j] = g /\ g # NoGen /\ ~Acting(g)
  BY <1>3, <1>4 DEF Authorized, TreeAlive, NoGen, Gen
<1>6. proc[g].st = "waiting"
  BY <1>5 DEF RootAlive, Acting, ActingStates
<1>7. Running(jobs[j])
  BY <1>3, <1>5, <1>6 DEF Order, StartInv
<1>8. Trees(j) = {}
  BY <1>4, <1>5 DEF Trees, Custody, TreeInv, ReceiptOwns, OnlyTree
<1>. QED  BY <1>2, <1>7, <1>8

\* Who executes a job and what the queue says of it do not change together.
LEMMA RowsOrTrees ==
  ASSUME Lawful, NEW j \in Job
  PROVE  jobs' = jobs \/ Trees(j)' = Trees(j)
  BY DEF Lawful, Apart, SameTrees, Trees

\* Every lawful step of the system is one of the abstract executor.
LEMMA LawfulRefines ==
  ASSUME IInv, IInv', Custody, Custody', Order, Order', Lawful
  PROVE  Exclusive!AbsNext
<1> SUFFICES ASSUME NEW j \in Job
             PROVE  \/ Exclusive!Same(j) \/ Exclusive!Enqueued(j) \/ Exclusive!Started(j)
                    \/ Exclusive!Requested(j) \/ Exclusive!Requeued(j) \/ Exclusive!Completed(j)
                    \/ Exclusive!Cancelled(j) \/ Exclusive!Trimmed(j) \/ Exclusive!Begins(j)
                    \/ Exclusive!Leaves(j)
  BY DEF Exclusive!AbsNext
<1>1. CASE jobs' = jobs
  BY <1>1, TreesMove DEF Exclusive!Same, Exclusive!Begins, Exclusive!Leaves, Trees, Running
<1>2. CASE Trees(j)' = Trees(j)
  <2>1. RowStep(j)
    BY DEF Lawful, RowsMove
  <2>2. CASE Beside(jobs[j], jobs'[j])
    BY <1>2, <2>2 DEF Beside, RowSame, Terminal, Final, Absent, Trees,
                      Exclusive!Same, Exclusive!Trimmed
  <2>3. CASE RowDropped(jobs[j], jobs'[j])
    BY <1>2, <2>3 DEF RowDropped, Pending, Absent, Trees, Exclusive!Moves,
                      Exclusive!Cancelled, Exclusive!Trimmed
  <2>4. CASE RowNew(j)
    BY <1>2, <2>4 DEF RowNew, Pending, Trees, Exclusive!Moves, Exclusive!Enqueued
  <2>5. CASE RowStarts(j)
    BY <1>2, <2>5 DEF RowStarts, Pending, Running, Trees, Exclusive!Moves, Exclusive!Started
  <2>6. CASE RowAsked(j)
    BY <1>2, <2>6 DEF RowAsked, Running, Trees, Exclusive!Moves, Exclusive!Requested
  <2>7. RequestSound(jobs'[j])
    BY DEF IInv, RequestsSound
  <2>8. CASE RowWorked(j)
    <3>1. /\ Running(jobs[j]) /\ ~jobs[j].asked
          /\ \/ Running(jobs'[j]) /\ ~jobs'[j].asked
             \/ jobs'[j].status = "completed"
             \/ jobs'[j].status = "cancelled" /\ jobs'[j].asked
      BY <2>8 DEF RowWorked
    <3>. QED  BY <1>2, <2>7, <3>1 DEF RequestSound, Running, Trees, Exclusive!Moves,
                 Exclusive!Same, Exclusive!Completed, Exclusive!Cancelled
  <2>9. CASE RowDecided(j)
    <3>1. Quiet(j) => Trees(j) = {}
      BY DEF Quiet, Trees
    <3>2. /\ Running(jobs[j])
          /\ \/ ~jobs[j].asked /\ jobs'[j].status = "completed"
             \/ Trees(j) = {} /\ ~jobs[j].asked /\ Pending(jobs'[j])
             \/ Trees(j) = {} /\ jobs'[j].status = "cancelled" /\ jobs'[j].asked
      BY <2>9, <3>1 DEF RowDecided
    <3>. QED  BY <1>2, <2>7, <3>2 DEF RequestSound, Running, Pending, Trees, Exclusive!Moves,
                 Exclusive!Requeued, Exclusive!Completed, Exclusive!Cancelled
  <2>. QED  BY <2>1, <2>2, <2>3, <2>4, <2>5, <2>6, <2>8, <2>9 DEF RowStep
<1>. QED  BY <1>1, <1>2, RowsOrTrees

\* The queue, the supervisor, the workers, the operator and the host implement
\* the exclusive executor.
THEOREM ExecutorImplemented ==
  ASSUME PlainHost
  PROVE  Spec => ImplementsExclusive
<1>1. Init => Exclusive!AbsInit
  BY DEF Init, Exclusive!AbsInit, Absent, NoProcess, TreeAlive, Acting, ActingStates, LiveStates
<1>2. IInv /\ Custody /\ Order /\ [Next]_vars /\ IInv' /\ Custody' /\ Order'
        => [Exclusive!AbsNext]_(Exclusive!absVars)
  BY NextLawful, StutterLawful, LawfulRefines
<1>3. Spec => []Custody
  BY CustodyKept
<1>4. Spec => []Order
  BY OrderHolds
<1>. QED  BY Invariance, <1>1, <1>2, <1>3, <1>4, PTL DEF Spec, ImplementsExclusive, Exclusive!AbsSpec
=============================================================================
