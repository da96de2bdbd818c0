-------------------------- MODULE ExecutionProofs ---------------------------
(***************************************************************************)
(* Theorems of the execution system, for every number of jobs, workers,    *)
(* crashes and reboots and every choice of faults.                         *)
(*                                                                         *)
(* The first part is about the queue alone.  Each of its lemmas says of    *)
(* one operation that it maps a queue to a queue and that it is a safe     *)
(* edit of it: it ends no ended job again, loses no requested cancellation *)
(* and invents no row.  The rest cites these and nothing inside.           *)
(***************************************************************************)
EXTENDS ExecutionSystem, FiniteSetTheorems, TLAPS

\* Row r becomes r2: the end of a job is final until the row is trimmed.
EndKept(r, r2) == Terminal(r) => r2.status \in {r.status, "absent"}

\* A requested cancellation keeps its request and its proof, and is answered
\* only by becoming cancelled.
RequestKept(r, r2) ==
  CancelRequested(r)
    => /\ r2.status \in {"running", "cancelled", "absent"}
       /\ Running(r2) => r2.asked
       /\ r.proof # NoProof /\ r2.status # "absent" => r2.proof = r.proof

\* A job without a row gets none.
AbsenceKept(r, r2) == r.status = "absent" => r2.status = "absent"

SafeRow(r, r2) ==
  /\ EndKept(r, r2) /\ RequestKept(r, r2) /\ AbsenceKept(r, r2)
  /\ RequestSound(r) => RequestSound(r2)

SafeEdit(q, q2) == \A i \in Job : SafeRow(q[i], q2[i])

-----------------------------------------------------------------------------
(* Rows. *)

\* The absent row and a new one are rows.
LEMMA NewRows ==
  /\ Absent \in Row
  /\ \A p \in Priority : NewRow(p) \in Row
  BY QueueAssumption DEF Absent, NewRow, Row, NoResults, Result, Live, Final

\* The transitions of job.rs map rows to rows.
LEMMA RowTransitions ==
  ASSUME NEW r \in Row, NEW p \in Proof \cup {NoProof}
  PROVE  /\ Start(r) \in Row
         /\ Complete(r) \in Row
         /\ CancelWithProof(r, p) \in Row
         /\ RequestCancelRow(r, p) \in Row
         /\ DeferForScheduler(r) \in Row
         /\ \A t \in Target, v \in Result : WithResult(r, t, v) \in Row
<1>1. Start(r) \in Row /\ Complete(r) \in Row
  BY DEF Row, Start, Complete, Live, Final
<1>2. CancelWithProof(r, p) \in Row
  BY DEF Row, CancelWithProof, Live, Final
<1>3. RequestCancelRow(r, p) \in Row
  BY <1>2 DEF Row, RequestCancelRow
<1>4. DeferForScheduler(r) \in Row
  <2>1. [t \in Target |-> IF r.results[t] \in TerminalResult
                          THEN r.results[t] ELSE "none"] \in [Target -> Result]
    BY DEF TerminalResult, Result
  <2>. QED  BY <2>1 DEF Row, DeferForScheduler, Live, Final
<1>5. ASSUME NEW t \in Target, NEW v \in Result
      PROVE  WithResult(r, t, v) \in Row
  BY DEF Row, WithResult
<1>. QED  BY <1>1, <1>2, <1>3, <1>4, <1>5

-----------------------------------------------------------------------------
(* Writing rows back, and trimming. *)

\* Sets of jobs can be counted.
LEMMA JobsFinite ==
  ASSUME NEW S \in SUBSET Job
  PROVE  IsFiniteSet(S) /\ Cardinality(S) \in Nat
<1>1. IsFiniteSet(Job)
  BY QueueAssumption, FS_Interval DEF Job
<1>2. IsFiniteSet(S)
  BY <1>1, FS_Subset
<1>. QED  BY <1>2, FS_CardinalityType

\* Trimming maps queues to queues and only removes ended jobs.
LEMMA TrimSafe ==
  ASSUME NEW q \in Queue
  PROVE  TrimTerminal(q) \in Queue /\ SafeEdit(q, TrimTerminal(q))
<1>1. TrimTerminal(q) \in Queue
  BY NewRows DEF TrimTerminal, Queue
<1>2. ASSUME NEW i \in Job PROVE SafeRow(q[i], TrimTerminal(q)[i])
  BY DEF TrimTerminal, SafeRow, EndKept, RequestKept, AbsenceKept, Terminal, Running,
         CancelRequested, Final, Absent, RequestSound
<1>. QED  BY <1>1, <1>2 DEF SafeEdit

\* An edit followed by trimming is as safe as the edit.
LEMMA TrimmedEdit ==
  ASSUME NEW q \in Queue, NEW q1 \in Queue, SafeEdit(q, q1)
  PROVE  SafeEdit(q, TrimTerminal(q1))
  BY DEF SafeEdit, TrimTerminal, SafeRow, EndKept, RequestKept, AbsenceKept, Terminal, Running,
         CancelRequested, Final, Absent, RequestSound

\* Writing a safe successor of one row is a safe edit.
LEMMA PutSafe ==
  ASSUME NEW q \in Queue, NEW j \in Job, NEW r \in Row, SafeRow(q[j], r)
  PROVE  Put(q, j, r) \in Queue /\ SafeEdit(q, Put(q, j, r))
<1>1. ASSUME NEW i \in Job, i # j
      PROVE  Put(q, j, r)[i] \in {q[i], [q[i] EXCEPT !.age = q[i].age + 1]}
  BY <1>1 DEF Put
<1>2. Put(q, j, r)[j] = [r EXCEPT !.age = 0]
  BY DEF Put
<1>3. ASSUME NEW i \in Job PROVE Put(q, j, r)[i] \in Row
  <2>1. [r EXCEPT !.age = 0] \in Row
    BY DEF Row
  <2>2. q[i] \in Row
    BY DEF Queue
  <2>3. [q[i] EXCEPT !.age = q[i].age + 1] \in Row
    BY <2>2 DEF Row
  <2>. QED  BY <1>1, <1>2, <2>1, <2>2, <2>3
<1>4. Put(q, j, r) \in Queue
  BY <1>3 DEF Queue, Put
<1>5. ASSUME NEW i \in Job PROVE SafeRow(q[i], Put(q, j, r)[i])
  <2>1. SafeRow(q[j], [r EXCEPT !.age = 0])
    BY DEF Row, Queue, SafeRow, EndKept, RequestKept, AbsenceKept, Terminal, Running,
           CancelRequested, Final, RequestSound
  <2>0. q[i] \in Row
    BY DEF Queue
  <2>2. SafeRow(q[i], q[i]) /\ SafeRow(q[i], [q[i] EXCEPT !.age = q[i].age + 1])
    BY <2>0 DEF Row, SafeRow, EndKept, RequestKept, AbsenceKept, Terminal, Running,
           CancelRequested, Final, RequestSound
  <2>. QED  BY <1>1, <1>2, <2>1, <2>2
<1>. QED  BY <1>4, <1>5 DEF SafeEdit

\* A write that trims is as safe as the row it writes.
LEMMA WriteSafe ==
  ASSUME NEW q \in Queue, NEW j \in Job, NEW r \in Row, SafeRow(q[j], r)
  PROVE  Write(q, j, r) \in Queue /\ SafeEdit(q, Write(q, j, r))
  BY PutSafe, TrimSafe, TrimmedEdit DEF Write

\* Cancelling a set of pending rows is a safe edit.
LEMMA CancelAllSafe ==
  ASSUME NEW q \in Queue, NEW S \in SUBSET Job, NEW p \in Proof \cup {NoProof},
         \A i \in S : Pending(q[i])
  PROVE  CancelAll(q, S, p) \in Queue /\ SafeEdit(q, CancelAll(q, S, p))
<1>1. ASSUME NEW i \in Job
      PROVE  /\ CancelAll(q, S, p)[i] \in Row
             /\ SafeRow(q[i], CancelAll(q, S, p)[i])
  <2>0. q[i] \in Row
    BY DEF Queue
  <2>1. CASE i \in S
    <3>1. Cardinality({k \in S : k > i}) \in Nat
      BY JobsFinite
    <3>2. CancelAll(q, S, p)[i]
            = [CancelWithProof(q[i], p) EXCEPT !.age = Cardinality({k \in S : k > i})]
      BY <2>1 DEF CancelAll
    <3>3. CancelAll(q, S, p)[i] \in Row
      <4>1. CancelWithProof(q[i], p) \in Row
        BY <2>0, RowTransitions
      <4>2. \A r \in Row, n \in Nat : [r EXCEPT !.age = n] \in Row
        BY DEF Row
      <4>. QED  BY <3>1, <3>2, <4>1, <4>2, Zenon
    <3>4. CancelAll(q, S, p)[i].status = "cancelled"
      BY <3>2, <2>0 DEF CancelWithProof, Row
    <3>. QED  BY <3>3, <3>4, <2>1 DEF SafeRow, EndKept, RequestKept, AbsenceKept,
                Terminal, Final, CancelRequested, Running, Pending, RequestSound
  <2>2. CASE i \notin S
    <3>1. Cardinality(S) \in Nat
      BY JobsFinite
    <3>2. CancelAll(q, S, p)[i] \in {q[i], [q[i] EXCEPT !.age = q[i].age + Cardinality(S)]}
      BY <2>2 DEF CancelAll
    <3>3. [q[i] EXCEPT !.age = q[i].age + Cardinality(S)] \in Row
      BY <3>1, <2>0 DEF Row
    <3>4. /\ SafeRow(q[i], q[i])
          /\ SafeRow(q[i], [q[i] EXCEPT !.age = q[i].age + Cardinality(S)])
      BY <2>0 DEF Row, SafeRow, EndKept, RequestKept, AbsenceKept, Terminal, Running,
                  CancelRequested, Final, RequestSound
    <3>. QED  BY <3>2, <3>3, <3>4, <2>0
  <2>. QED  BY <2>1, <2>2
<1>2. CancelAll(q, S, p) \in Queue
  BY <1>1 DEF Queue, CancelAll
<1>. QED  BY <1>1, <1>2 DEF SafeEdit

-----------------------------------------------------------------------------
(* The queue operations. *)

\* enqueue: the other rows are edited safely, the new one had no predecessor.
LEMMA EnqueueSafe ==
  ASSUME NEW q \in Queue, NEW j \in Job, NEW p \in Priority, q[j].status = "absent"
  PROVE  /\ Enqueue(q, j, p) \in Queue
         /\ Enqueue(q, j, p)[j] = NewRow(p)
         /\ \A i \in Job \ {j} : SafeRow(q[i], Enqueue(q, j, p)[i])
<1> DEFINE S == Superseded(q, j)
           q1 == CancelAll(q, S, NoProof)
<1>1. S \in SUBSET Job /\ \A i \in S : Pending(q[i])
  BY DEF Superseded
<1>2. q1 \in Queue /\ SafeEdit(q, q1)
  BY <1>1, CancelAllSafe
<1>3. Enqueue(q, j, p) = [q1 EXCEPT ![j] = NewRow(p)]
  BY DEF Enqueue
<1>4. NewRow(p) \in Row
  BY NewRows
<1> HIDE DEF q1, S
<1>. QED  BY <1>2, <1>3, <1>4 DEF Queue, SafeEdit

\* update: a write that is no conflict is safe if the new row is sound.
LEMMA UpdateSafe ==
  ASSUME NEW q \in Queue, NEW j \in Job, NEW r \in Row, RequestSound(r),
         ~UpdateConflict(q, j, r)
  PROVE  Update(q, j, r) \in Queue /\ SafeEdit(q, Update(q, j, r))
<1>1. SafeRow(q[j], r)
  BY DEF UpdateConflict, SafeRow, EndKept, RequestKept, AbsenceKept, RequestSound,
         CancelRequested, Running, Terminal, Final
<1>. QED  BY <1>1, WriteSafe DEF Update

\* A cancellation is acknowledged with the proof it was requested with.
LEMMA AcknowledgeSafe ==
  ASSUME NEW q \in Queue, NEW j \in Job, CancelRequested(q[j])
  PROVE  LET r == CancelWithProof(q[j], q[j].proof)
         IN  Update(q, j, r) \in Queue /\ SafeEdit(q, Update(q, j, r))
<1>0. q[j] \in Row /\ q[j].proof \in Proof \cup {NoProof}
  BY DEF Queue, Row
<1>1. CancelWithProof(q[j], q[j].proof) \in Row
  BY <1>0, RowTransitions
<1>2. SafeRow(q[j], CancelWithProof(q[j], q[j].proof))
  BY <1>0 DEF CancelWithProof, Row, SafeRow, EndKept, RequestKept, AbsenceKept,
     RequestSound, CancelRequested, Running, Terminal, Final
<1>. QED  BY <1>1, <1>2, WriteSafe DEF Update

\* request_cancel: asking for the cancellation of a live row is a safe edit.
LEMMA RequestCancelSafe ==
  ASSUME NEW q \in Queue, NEW j \in Job, NEW p \in Proof \cup {NoProof},
         CanRequestCancel(q[j], p)
  PROVE  RequestCancel(q, j, p) \in Queue /\ SafeEdit(q, RequestCancel(q, j, p))
<1>0. q[j] \in Row
  BY DEF Queue
<1>1. RequestCancelRow(q[j], p) \in Row
  BY <1>0, RowTransitions
<1>2. SafeRow(q[j], RequestCancelRow(q[j], p))
  BY <1>0 DEF RequestCancelRow, CanRequestCancel, CancelWithProof, Row, SafeRow, EndKept,
     RequestKept, AbsenceKept, RequestSound, CancelRequested, Running, Pending, Terminal, Final
<1>. QED  BY <1>1, <1>2, WriteSafe DEF RequestCancel

\* cancel_pending_jobs_for_drain: only rows that are still pending are cancelled.
LEMMA CancelPendingSafe ==
  ASSUME NEW q \in Queue, NEW S \in SUBSET Job, NEW p \in Proof \cup {NoProof}
  PROVE  CancelPending(q, S, p) \in Queue /\ SafeEdit(q, CancelPending(q, S, p))
<1> DEFINE P == {i \in S : Pending(q[i])}
<1>1. CancelAll(q, P, p) \in Queue /\ SafeEdit(q, CancelAll(q, P, p))
  BY CancelAllSafe
<1> HIDE DEF P
<1>2. CancelPending(q, S, p) = TrimTerminal(CancelAll(q, P, p))
  BY DEF CancelPending, P
<1>. QED  BY <1>1, <1>2, TrimSafe, TrimmedEdit

\* Replacing one row by a safe successor, without trimming.
LEMMA ReplaceSafe ==
  ASSUME NEW q \in Queue, NEW j \in Job, NEW r \in Row, SafeRow(q[j], r)
  PROVE  [q EXCEPT ![j] = r] \in Queue /\ SafeEdit(q, [q EXCEPT ![j] = r])
<1>1. \A i \in Job : SafeRow(q[i], q[i])
  BY DEF SafeRow, EndKept, RequestKept, AbsenceKept, CancelRequested, Running, Terminal, Final
<1>. QED  BY <1>1 DEF Queue, SafeEdit

\* The rest of the queue operations; the first needs sound rows, for a pending
\* row with a request would start with it.
LEMMA StartPendingSafe ==
  ASSUME NEW q \in Queue, NEW S, \A i \in Job : RequestSound(q[i])
  PROVE  StartPending(q, S) \in Queue /\ SafeEdit(q, StartPending(q, S))
<1>1. ASSUME NEW i \in Job
      PROVE  Start(q[i]) \in Row /\ (Pending(q[i]) => SafeRow(q[i], Start(q[i])))
  <2>1. q[i] \in Row
    BY DEF Queue
  <2>2. Start(q[i]) \in Row
    BY <2>1 DEF Row, Start, Live, Final
  <2>. QED  BY <2>1, <2>2 DEF Start, Row, SafeRow, EndKept, RequestKept, AbsenceKept,
     RequestSound, CancelRequested, Running, Pending, Terminal, Final
<1>2. \A i \in Job : SafeRow(q[i], q[i])
  BY DEF SafeRow, EndKept, RequestKept, AbsenceKept,
     RequestSound, CancelRequested, Running, Pending, Terminal, Final
<1>. QED  BY <1>1, <1>2 DEF StartPending, SafeEdit, Queue

\* A queue that is left alone is edited safely.
LEMMA UnchangedSafe ==
  ASSUME NEW q \in Queue
  PROVE  SafeEdit(q, q)
  BY DEF SafeEdit, SafeRow, EndKept, RequestKept, AbsenceKept,
     RequestSound, CancelRequested, Running, Pending, Terminal, Final

\* requeue_deferred_running_jobs never takes back a requested cancellation.
LEMMA RequeueDeferredRunningSafe ==
  ASSUME NEW q \in Queue, NEW j \in Job
  PROVE  RequeueDeferredRunning(q, j) \in Queue /\ SafeEdit(q, RequeueDeferredRunning(q, j))
<1>0. q[j] \in Row
  BY DEF Queue
<1>1. DeferForScheduler(q[j]) \in Row
  BY <1>0, RowTransitions
<1>2. CASE Running(q[j]) /\ ~q[j].asked
  <2>1. SafeRow(q[j], DeferForScheduler(q[j]))
    BY <1>0, <1>2 DEF DeferForScheduler, Row, SafeRow, EndKept, RequestKept, AbsenceKept,
     RequestSound, CancelRequested, Running, Pending, Terminal, Final
  <2>. QED  BY <1>1, <1>2, <2>1, ReplaceSafe DEF RequeueDeferredRunning
<1>. QED  BY <1>2, UnchangedSafe DEF RequeueDeferredRunning

\* requeue_deferred_daemon_worker only marks the row.
LEMMA RequeueDeferredDaemonWorkerSafe ==
  ASSUME NEW q \in Queue, NEW j \in Job
  PROVE  /\ RequeueDeferredDaemonWorker(q, j) \in Queue
         /\ SafeEdit(q, RequeueDeferredDaemonWorker(q, j))
<1> DEFINE r == [q[j] EXCEPT !.deferred = TRUE]
<1>0. q[j] \in Row
  BY DEF Queue
<1>1. r \in Row
  BY <1>0 DEF Row
<1>2. SafeRow(q[j], r)
  BY <1>0 DEF Row, SafeRow, EndKept, RequestKept, AbsenceKept,
     RequestSound, CancelRequested, Running, Pending, Terminal, Final
<1> HIDE DEF r
<1>3. RequeueDeferredDaemonWorker(q, j) \in {q, [q EXCEPT ![j] = r]}
  BY DEF RequeueDeferredDaemonWorker, r
<1>. QED  BY <1>1, <1>2, <1>3, ReplaceSafe, UnchangedSafe

\* finalize_deferred_daemon_worker: a marked row without a request goes back.
LEMMA FinalizeDeferredSafe ==
  ASSUME NEW q \in Queue, NEW j \in Job, CanFinalizeDeferred(q, j)
  PROVE  /\ FinalizeDeferredDaemonWorker(q, j) \in Queue
         /\ SafeEdit(q, FinalizeDeferredDaemonWorker(q, j))
<1> DEFINE r == [q[j] EXCEPT !.status = "pending"]
<1>0. q[j] \in Row
  BY DEF Queue
<1>1. r \in Row
  BY <1>0 DEF Row, Live
<1>2. SafeRow(q[j], r)
  BY <1>0 DEF CanFinalizeDeferred, Row, SafeRow, EndKept, RequestKept, AbsenceKept,
     RequestSound, CancelRequested, Running, Pending, Terminal, Final
<1> HIDE DEF r
<1>3. FinalizeDeferredDaemonWorker(q, j) = [q EXCEPT ![j] = r]
  BY DEF FinalizeDeferredDaemonWorker, r
<1>. QED  BY <1>1, <1>2, <1>3, ReplaceSafe

\* requeue_running_after_reboot: a running row without a request goes back.
LEMMA RequeueAfterRebootSafe ==
  ASSUME NEW q \in Queue, NEW j \in Job
  PROVE  /\ RequeueRunningAfterReboot(q, j) \in Queue
         /\ SafeEdit(q, RequeueRunningAfterReboot(q, j))
<1> DEFINE r == [q[j] EXCEPT !.status = "pending", !.deferred = TRUE]
<1>0. q[j] \in Row
  BY DEF Queue
<1>1. r \in Row
  BY <1>0 DEF Row, Live
<1>2. CASE Running(q[j]) /\ ~q[j].asked
  <2>1. SafeRow(q[j], r)
    BY <1>0, <1>2 DEF Row, SafeRow, EndKept, RequestKept, AbsenceKept,
     RequestSound, CancelRequested, Running, Pending, Terminal, Final
  <2> HIDE DEF r
  <2>2. RequeueRunningAfterReboot(q, j) = [q EXCEPT ![j] = r]
    BY <1>2 DEF RequeueRunningAfterReboot, r, Queue
  <2>. QED  BY <1>1, <2>1, <2>2, ReplaceSafe
<1>. QED  BY <1>2, UnchangedSafe DEF RequeueRunningAfterReboot

\* complete_running_uncertain ends only a running row without a request.
LEMMA CompleteUncertainSafe ==
  ASSUME NEW q \in Queue, NEW j \in Job
  PROVE  /\ CompleteRunningUncertain(q, j) \in Queue
         /\ SafeEdit(q, CompleteRunningUncertain(q, j))
<1> DEFINE r == [Complete(q[j]) EXCEPT !.results = [t \in Target |-> "uncertain"]]
<1>0. q[j] \in Row
  BY DEF Queue
<1>1. r \in Row
  <2>1. Complete(q[j]) \in Row
    BY <1>0 DEF Row, Complete, Live, Final
  <2>2. [t \in Target |-> "uncertain"] \in [Target -> Result]
    BY DEF Result
  <2>. QED  BY <2>1, <2>2 DEF Row
<1>2. CASE Running(q[j]) /\ ~q[j].asked
  <2>1. SafeRow(q[j], r)
    BY <1>0, <1>2 DEF Complete, Row, SafeRow, EndKept, RequestKept, AbsenceKept,
     RequestSound, CancelRequested, Running, Pending, Terminal, Final
  <2> HIDE DEF r
  <2>2. CompleteRunningUncertain(q, j) = Write(q, j, r)
    BY <1>2 DEF CompleteRunningUncertain, r
  <2>. QED  BY <1>1, <2>1, <2>2, WriteSafe
<1>. QED  BY <1>2, UnchangedSafe DEF CompleteRunningUncertain

\* finalize_audited_receiptless_cancel grants the request with its own proof.
LEMMA FinalizeAuditedSafe ==
  ASSUME NEW q \in Queue, NEW j \in Job, NEW p \in Proof,
         CancelRequested(q[j]), q[j].proof = p
  PROVE  /\ FinalizeAuditedReceiptlessCancel(q, j, p) \in Queue
         /\ SafeEdit(q, FinalizeAuditedReceiptlessCancel(q, j, p))
<1>0. q[j] \in Row
  BY DEF Queue
<1>1. CancelWithProof(q[j], p) \in Row
  BY <1>0, RowTransitions
<1>2. SafeRow(q[j], CancelWithProof(q[j], p))
  BY <1>0 DEF CancelWithProof, Row, SafeRow, EndKept, RequestKept, AbsenceKept,
     RequestSound, CancelRequested, Running, Pending, Terminal, Final
<1>. QED  BY <1>1, <1>2, PutSafe DEF FinalizeAuditedReceiptlessCancel

-----------------------------------------------------------------------------
(* Replay: which operations leave no job pending that was not pending before. *)

\* A row that is pending after the edit is the pending row from before it.
NoReplay(q, q2) == \A i \in Job : Pending(q2[i]) => q2[i] = q[i]

\* Leaving the queue alone replays nothing.
LEMMA UnchangedNoReplay == \A q : NoReplay(q, q)
  BY DEF NoReplay

\* Only ended jobs are trimmed or get older.
LEMMA PutNoReplay ==
  ASSUME NEW q \in Queue, NEW j \in Job, NEW r \in Row, ~Pending(r)
  PROVE  NoReplay(q, Put(q, j, r)) /\ NoReplay(q, Write(q, j, r))
<1>1. ASSUME NEW i \in Job, Pending(Put(q, j, r)[i])
      PROVE  Put(q, j, r)[i] = q[i]
  <2>1. CASE i = j
    BY <1>1, <2>1 DEF Put, Pending, Row
  <2>2. CASE i # j
    <3>1. q[i] \in Row
      BY DEF Queue
    <3>2. CASE Terminal(q[i])
      <4>1. Put(q, j, r)[i].status = q[i].status
        BY <2>2, <3>1, <3>2 DEF Put, Row
      <4>. QED  BY <1>1, <3>2, <4>1 DEF Pending, Terminal, Final
    <3>. QED  BY <2>2, <3>2 DEF Put
  <2>. QED  BY <2>1, <2>2
<1>2. ASSUME NEW i \in Job, Pending(Write(q, j, r)[i])
      PROVE  Write(q, j, r)[i] = q[i]
  BY <1>1, <1>2 DEF Write, TrimTerminal, Pending, Absent
<1>. QED  BY <1>1, <1>2 DEF NoReplay

\* Cancelling a set of jobs replays none.
LEMMA CancelAllNoReplay ==
  ASSUME NEW q \in Queue, NEW S \in SUBSET Job, NEW p \in Proof \cup {NoProof}
  PROVE  NoReplay(q, CancelAll(q, S, p))
<1> SUFFICES ASSUME NEW i \in Job, Pending(CancelAll(q, S, p)[i])
             PROVE  CancelAll(q, S, p)[i] = q[i]
  BY DEF NoReplay
<1>0. q[i] \in Row
  BY DEF Queue
<1>1. CASE i \in S
  <2> DEFINE c == CancelWithProof(q[i], p)
  <2>1. c \in Row /\ c.status = "cancelled"
    BY <1>0, RowTransitions DEF CancelWithProof, Row
  <2> HIDE DEF c
  <2>2. CancelAll(q, S, p)[i] = [c EXCEPT !.age = Cardinality({k \in S : k > i})]
    BY <1>1 DEF CancelAll, c
  <2>. QED  BY <2>1, <2>2 DEF Pending, Row
<1>2. CASE i \notin S /\ Terminal(q[i])
  BY <1>0, <1>2 DEF CancelAll, Pending, Terminal, Final, Row
<1>. QED  BY <1>1, <1>2 DEF CancelAll

\* cancel_pending_jobs_for_drain and start_pending_jobs_for_drain replay nothing.
LEMMA PendingJobsNoReplay ==
  ASSUME NEW q \in Queue, NEW S \in SUBSET Job, NEW p \in Proof \cup {NoProof}
  PROVE  /\ NoReplay(q, CancelPending(q, S, p))
         /\ NoReplay(q, StartPending(q, S))
         /\ \A i \in S : ~Pending(StartPending(q, S)[i])
<1>1. NoReplay(q, CancelPending(q, S, p))
  <2> DEFINE T == {i \in S : Pending(q[i])}
  <2>1. NoReplay(q, CancelAll(q, T, p))
    BY CancelAllNoReplay
  <2>. QED  BY <2>1 DEF CancelPending, TrimTerminal, NoReplay, Pending, Absent
<1>2. ASSUME NEW i \in Job
      PROVE  /\ Pending(StartPending(q, S)[i]) => StartPending(q, S)[i] = q[i]
             /\ i \in S => ~Pending(StartPending(q, S)[i])
  <2>1. q[i] \in Row
    BY DEF Queue
  <2>. QED  BY <2>1 DEF StartPending, Start, Pending, Row
<1>. QED  BY <1>1, <1>2 DEF NoReplay

\* Neither do the writes that end a job or ask for its cancellation.
LEMMA EndsNoReplay ==
  ASSUME NEW q \in Queue, NEW j \in Job, NEW p \in Proof \cup {NoProof}
  PROVE  /\ NoReplay(q, CompleteRunningUncertain(q, j))
         /\ NoReplay(q, FinalizeAuditedReceiptlessCancel(q, j, p))
         /\ NoReplay(q, Update(q, j, CancelWithProof(q[j], p)))
         /\ CanRequestCancel(q[j], p) => NoReplay(q, RequestCancel(q, j, p))
         /\ Running(q[j]) => NoReplay(q, RequeueDeferredDaemonWorker(q, j))
<1>0. q[j] \in Row
  BY DEF Queue
<1>1. NoReplay(q, CompleteRunningUncertain(q, j))
  <2> DEFINE r == [Complete(q[j]) EXCEPT !.results = [t \in Target |-> "uncertain"]]
  <2>1. [t \in Target |-> "uncertain"] \in [Target -> Result]
    BY DEF Result
  <2>2. Complete(q[j]) \in Row /\ Complete(q[j]).status = "completed"
    BY <1>0, RowTransitions, QueueAssumption DEF Complete, Row
  <2>3. r \in Row /\ ~Pending(r)
    BY <2>1, <2>2 DEF Row, Pending
  <2> HIDE DEF r
  <2>4. CompleteRunningUncertain(q, j) \in {q, Write(q, j, r)}
    BY DEF CompleteRunningUncertain, r
  <2>. QED  BY <2>3, <2>4, PutNoReplay, UnchangedNoReplay
<1>2. CancelWithProof(q[j], p) \in Row /\ ~Pending(CancelWithProof(q[j], p))
  BY <1>0, RowTransitions DEF CancelWithProof, Row, Pending
<1>3. CanRequestCancel(q[j], p) => ~Pending(RequestCancelRow(q[j], p))
  BY <1>0, <1>2 DEF CanRequestCancel, RequestCancelRow, Row, Pending, Running
<1>4. CanRequestCancel(q[j], p) => NoReplay(q, RequestCancel(q, j, p))
  BY <1>0, <1>3, RowTransitions, PutNoReplay DEF RequestCancel
<1>5. Running(q[j]) => NoReplay(q, RequeueDeferredDaemonWorker(q, j))
  <2> SUFFICES ASSUME Running(q[j]), NEW i \in Job,
                      Pending(RequeueDeferredDaemonWorker(q, j)[i])
               PROVE  RequeueDeferredDaemonWorker(q, j)[i] = q[i]
    BY DEF NoReplay
  <2>. QED  BY <1>0 DEF RequeueDeferredDaemonWorker, Queue, Row, Pending, Running
<1>. QED  BY <1>1, <1>2, <1>4, <1>5, PutNoReplay
          DEF FinalizeAuditedReceiptlessCancel, Update

\* enqueue adds its own pending row and no other.
LEMMA EnqueueNoReplay ==
  ASSUME NEW q \in Queue, NEW j \in Job, NEW p \in Priority
  PROVE  \A i \in Job \ {j} : Pending(Enqueue(q, j, p)[i]) => Enqueue(q, j, p)[i] = q[i]
<1>1. NoReplay(q, CancelAll(q, Superseded(q, j), NoProof))
  BY CancelAllNoReplay DEF Superseded
<1>2. \A i \in Job \ {j} : Enqueue(q, j, p)[i] = CancelAll(q, Superseded(q, j), NoProof)[i]
  BY DEF Enqueue, CancelAll
<1>. QED  BY <1>1, <1>2 DEF NoReplay

-----------------------------------------------------------------------------
(* Neighbours: what an operation does to the rows it is not about. *)

\* Nothing that decides about a job changes in its row.
RowSame(r, r2) == /\ r2.status = r.status /\ r2.asked = r.asked
                  /\ Running(r) => r2.deferred = r.deferred

\* The row stays, or it had ended and is trimmed.
Beside(r, r2) == RowSame(r, r2) \/ (Terminal(r) /\ r2 = Absent)

\* The row of a pending job is cancelled, and perhaps trimmed at once.
RowDropped(r, r2) == /\ Pending(r)
                     /\ r2 = Absent \/ (r2.status = "cancelled" /\ r2.asked)

\* Writing a row is about that row, which survives the trimming of its own write.
LEMMA WriteBeside ==
  ASSUME NEW q \in Queue, NEW j \in Job, NEW r \in Row
  PROVE  /\ \A i \in Job \ {j} : /\ Beside(q[i], Put(q, j, r)[i])
                                 /\ Beside(q[i], Write(q, j, r)[i])
         /\ Put(q, j, r)[j] = [r EXCEPT !.age = 0]
         /\ Write(q, j, r)[j] = [r EXCEPT !.age = 0]
<1>1. Put(q, j, r)[j] = [r EXCEPT !.age = 0]
  BY DEF Put
<1>2. [r EXCEPT !.age = 0].age = 0 /\ ~(0 >= KeepCompleted)
  BY QueueAssumption DEF Row
<1>3. Write(q, j, r)[j] = [r EXCEPT !.age = 0]
  BY <1>1, <1>2 DEF Write, TrimTerminal
<1>4. ASSUME NEW i \in Job, i # j
      PROVE  Beside(q[i], Put(q, j, r)[i]) /\ Beside(q[i], Write(q, j, r)[i])
  <2>1. q[i] \in Row
    BY DEF Queue
  <2>2. /\ Put(q, j, r)[i] \in {q[i], [q[i] EXCEPT !.age = q[i].age + 1]}
        /\ Write(q, j, r)[i] \in {Put(q, j, r)[i], Absent}
        /\ Write(q, j, r)[i] = Absent => Terminal(Put(q, j, r)[i]) \/ Put(q, j, r)[i] = Absent
    BY <1>4 DEF Put, Write, TrimTerminal
  <2>3. RowSame(q[i], Put(q, j, r)[i])
    BY <2>1, <2>2 DEF RowSame, Row
  <2>. QED  BY <2>2, <2>3 DEF Beside, RowSame, Terminal
<1>. QED  BY <1>1, <1>3, <1>4

\* Cancelling a set of pending jobs is about those jobs.
LEMMA CancelBeside ==
  ASSUME NEW q \in Queue, NEW S \in SUBSET Job, NEW p \in Proof \cup {NoProof},
         NEW i \in Job
  PROVE  /\ i \notin S => RowSame(q[i], CancelAll(q, S, p)[i])
         /\ i \in S => CancelAll(q, S, p)[i].status = "cancelled" /\ CancelAll(q, S, p)[i].asked
<1>1. q[i] \in Row
  BY DEF Queue
<1>2. CASE i \in S
  <2> DEFINE c == CancelWithProof(q[i], p)
  <2>1. c \in Row /\ c.status = "cancelled" /\ c.asked
    BY <1>1, RowTransitions DEF CancelWithProof, Row
  <2> HIDE DEF c
  <2>2. CancelAll(q, S, p)[i] = [c EXCEPT !.age = Cardinality({k \in S : k > i})]
    BY <1>2 DEF CancelAll, c
  <2>. QED  BY <1>2, <2>1, <2>2 DEF Row
<1>3. CASE i \notin S
  <2>1. CancelAll(q, S, p)[i] \in {q[i], [q[i] EXCEPT !.age = q[i].age + Cardinality(S)]}
    BY <1>3 DEF CancelAll
  <2>. QED  BY <1>1, <1>3, <2>1 DEF RowSame, Row
<1>. QED  BY <1>2, <1>3

\* cancel_pending_jobs_for_drain, start_pending_jobs_for_drain and enqueue.
LEMMA PendingBeside ==
  ASSUME NEW q \in Queue, NEW S \in SUBSET Job, NEW p \in Proof \cup {NoProof},
         NEW i \in Job
  PROVE  /\ \/ Beside(q[i], CancelPending(q, S, p)[i])
            \/ RowDropped(q[i], CancelPending(q, S, p)[i])
         /\ ~(i \in S /\ Pending(q[i])) => StartPending(q, S)[i] = q[i]
         /\ i \in S /\ Pending(q[i])
              => /\ Running(StartPending(q, S)[i]) /\ ~StartPending(q, S)[i].deferred
                 /\ StartPending(q, S)[i].asked = q[i].asked
         /\ \A j \in Job \ {i}, d \in Priority :
              \/ Beside(q[i], Enqueue(q, j, d)[i])
              \/ RowDropped(q[i], Enqueue(q, j, d)[i])
<1> DEFINE P == {k \in S : Pending(q[k])}
           c == CancelAll(q, P, p)
<1>0. q[i] \in Row
  BY DEF Queue
<1>1. /\ i \notin P => RowSame(q[i], c[i])
      /\ i \in P => c[i].status = "cancelled" /\ c[i].asked /\ Pending(q[i])
  BY CancelBeside
<1>2. CancelPending(q, S, p)[i] \in {c[i], Absent}
      /\ (CancelPending(q, S, p)[i] = Absent => Terminal(c[i]) \/ c[i] = Absent)
  BY DEF CancelPending, TrimTerminal
<1> HIDE DEF P, c
<1>3. \/ Beside(q[i], CancelPending(q, S, p)[i])
      \/ RowDropped(q[i], CancelPending(q, S, p)[i])
  BY <1>1, <1>2 DEF Beside, RowDropped, RowSame, Terminal
<1>4. /\ ~(i \in S /\ Pending(q[i])) => StartPending(q, S)[i] = q[i]
      /\ i \in S /\ Pending(q[i])
           => /\ Running(StartPending(q, S)[i]) /\ ~StartPending(q, S)[i].deferred
              /\ StartPending(q, S)[i].asked = q[i].asked
  BY <1>0 DEF StartPending, Start, Running, Row
<1>5. ASSUME NEW j \in Job \ {i}, NEW d \in Priority
      PROVE  \/ Beside(q[i], Enqueue(q, j, d)[i])
             \/ RowDropped(q[i], Enqueue(q, j, d)[i])
  <2>1. Enqueue(q, j, d)[i] = CancelAll(q, Superseded(q, j), NoProof)[i]
    BY DEF Enqueue, CancelAll
  <2>2. Superseded(q, j) \in SUBSET Job /\ (i \in Superseded(q, j) => Pending(q[i]))
    BY DEF Superseded
  <2>. QED  BY <2>1, <2>2, CancelBeside DEF Beside, RowDropped
<1>. QED  BY <1>3, <1>4, <1>5

\* Queue order is total on jobs, and a set of jobs has a last one in it.
LEMMA OrderTotal ==
  ASSUME NEW q \in Queue, NEW i \in Job, NEW j \in Job, i # j
  PROVE  Before(q, i, j) \/ Before(q, j, i)
<1>1. q[i] \in Row /\ q[j] \in Row /\ Priority \cup {0} \subseteq Int /\ Job \subseteq Int
  BY QueueAssumption DEF Queue, Job
<1>2. q[i].priority \in Int /\ q[j].priority \in Int /\ i \in Int /\ j \in Int
  BY <1>1 DEF Row
<1>. QED  BY <1>2 DEF Before

LEMMA OrderStrict ==
  ASSUME NEW q \in Queue, NEW i \in Job, NEW j \in Job, NEW k \in Job
  PROVE  /\ ~Before(q, i, i)
         /\ Before(q, i, j) /\ Before(q, j, k) => Before(q, i, k)
<1>1. q[i] \in Row /\ q[j] \in Row /\ q[k] \in Row /\ Priority \cup {0} \subseteq Int
      /\ Job \subseteq Int
  BY QueueAssumption DEF Queue, Job
<1>2. /\ q[i].priority \in Int /\ q[j].priority \in Int /\ q[k].priority \in Int
      /\ i \in Int /\ j \in Int /\ k \in Int
  BY <1>1 DEF Row
<1>. QED  BY <1>2 DEF Before

LEMMA LastInOrder ==
  ASSUME NEW q \in Queue, NEW T \in SUBSET Job, T # {}
  PROVE  \E m \in T : \A i \in T \ {m} : Before(q, i, m)
<1> DEFINE Later(m) == {i \in T : Before(q, m, i)}
           Tails == {Later(m) : m \in T}
           Shorter == StrictSubsetOrdering(T)
<1>1. IsWellFoundedOn(Shorter, SUBSET T)
  <2>1. FiniteSubsetsOf(T) = SUBSET T
    BY JobsFinite, FS_FiniteSubsetsOfFinite
  <2>. QED  BY <2>1, FS_StrictSubsetOrderingWellFounded
<1>2. Tails \subseteq SUBSET T /\ Tails # {}
  OBVIOUS
<1>3. \E x \in Tails : \A y \in Tails : ~(<<y, x>> \in Shorter)
  <2> HIDE DEF Tails, Shorter
  <2>. QED  BY <1>1, <1>2, WFMin
<1>4. PICK m \in T : \A n \in T : ~(<<Later(n), Later(m)>> \in Shorter)
  BY <1>3
<1>5. ASSUME NEW n \in Later(m) PROVE FALSE
  <2>1. n \in Job /\ m \in Job /\ Before(q, m, n)
    OBVIOUS
  <2>2. n \notin Later(n)
    BY <2>1, OrderStrict
  <2>3. Later(n) \subseteq Later(m)
    BY <2>1, OrderStrict
  <2>4. <<Later(n), Later(m)>> \in Shorter
    BY <2>2, <2>3 DEF StrictSubsetOrdering
  <2>. QED  BY <1>4, <2>4
<1>6. \A i \in T \ {m} : Before(q, i, m)
  BY <1>5, OrderTotal
<1>. QED  BY <1>6

-----------------------------------------------------------------------------
(* The execution system. *)

\* Moving through the tick keeps its memory in shape.
LEMMA TickMoves ==
  ASSUME TickOK
  PROVE  /\ EndStage \/ AbortTick \/ Leave => TickOK'
         /\ \A S \in SUBSET Job : Visit(S) => TickOK'
         /\ \A j \in Job, e \in Steps : Take(j, e) => TickOK'
         /\ \A e \in Steps : cur \in Job /\ Step(e) => TickOK'
<1>1. EndStage => TickOK'
  BY DEF TickOK, EndStage, Stages, Steps, After, NoJob
<1>2. AbortTick => TickOK'
  BY DEF TickOK, AbortTick, Stages, Steps, After, NoJob
<1>3. ASSUME NEW S \in SUBSET Job PROVE Visit(S) => TickOK'
  BY <1>1 DEF TickOK, Visit, Steps, NoJob
<1>4. Leave => TickOK'
  BY <1>3 DEF Leave, TickOK
<1>5. ASSUME NEW j \in Job, NEW e \in Steps PROVE Take(j, e) => TickOK'
  BY DEF TickOK, Take
<1>6. ASSUME NEW e \in Steps, cur \in Job PROVE Step(e) => TickOK'
  BY <1>6 DEF TickOK, Step
<1>. QED  BY <1>1, <1>2, <1>3, <1>4, <1>5, <1>6

-----------------------------------------------------------------------------

\* The inductive invariant.
IInv == TypeOK /\ RequestsSound

\* What every step keeps: the invariant, ended jobs and requested cancellations.
Kept == /\ IInv'
        /\ \A j \in Job : EndKept(jobs[j], jobs'[j]) /\ RequestKept(jobs[j], jobs'[j])

\* The copies of rows outside the queue are sound after the step.
CopiesSound == (\A g \in Gen : RequestSound(proc[g].snap)) /\ RequestSound(bump.row)

\* A step that edits the queue safely keeps what it should if it leaves the rest
\* of the state well typed and its copies of rows sound.
LEMMA EditKept ==
  ASSUME IInv, jobs' \in Queue, SafeEdit(jobs, jobs'), submitted' = submitted,
         lock' \in Gen \cup {NoGen}, DurableOK', ProcessOK', HostOK', TickOK', CopiesSound'
  PROVE  Kept
<1>1. \A j \in Job : SafeRow(jobs[j], jobs'[j])
  BY DEF SafeEdit
<1>2. QueueOK'
  BY <1>1 DEF IInv, TypeOK, QueueOK, SafeRow, AbsenceKept
<1>3. \A j \in Job : RequestSound(jobs'[j])
  BY <1>1 DEF IInv, RequestsSound, SafeRow
<1>. QED  BY <1>1, <1>2, <1>3 DEF Kept, IInv, TypeOK, RequestsSound, CopiesSound, SafeRow

\* In particular if it leaves the queue alone.
LEMMA QuietKept ==
  ASSUME IInv, jobs' = jobs, submitted' = submitted,
         lock' \in Gen \cup {NoGen}, DurableOK', ProcessOK', HostOK', TickOK', CopiesSound'
  PROVE  Kept
  BY EditKept, UnchangedSafe DEF IInv, TypeOK, QueueOK

\* The parts of the state a step leaves alone stay as they are.
LEMMA Untouched ==
  ASSUME IInv
  PROVE  /\ UNCHANGED lock => lock' \in Gen \cup {NoGen}
         /\ UNCHANGED durableVars => DurableOK'
         /\ UNCHANGED processVars => ProcessOK'
         /\ UNCHANGED hostVars => HostOK' /\ submitted' = submitted
         /\ UNCHANGED tickVars => TickOK'
         /\ UNCHANGED <<proc, bump>> => CopiesSound'
<1>1. UNCHANGED lock => lock' \in Gen \cup {NoGen}
  BY DEF IInv, TypeOK, QueueOK
<1>2. UNCHANGED durableVars => DurableOK'
  BY DEF IInv, TypeOK, DurableOK, durableVars
<1>3. UNCHANGED processVars => ProcessOK'
  BY DEF IInv, TypeOK, ProcessOK, RootAlive, processVars
<1>4. UNCHANGED hostVars => HostOK' /\ submitted' = submitted
  BY DEF IInv, TypeOK, HostOK, hostVars
<1>5. UNCHANGED tickVars => TickOK'
  BY DEF IInv, TypeOK, TickOK, tickVars
<1>6. UNCHANGED <<proc, bump>> => CopiesSound'
  BY DEF IInv, RequestsSound, CopiesSound
<1>. QED  BY <1>1, <1>2, <1>3, <1>4, <1>5, <1>6

\* Ending a process, with or without its descendants, and stopping it leave a
\* process record.
LEMMA ProcessShapes ==
  ASSUME NEW p \in Process
  PROVE  /\ Gone(p) \in Process
         /\ [Gone(p) EXCEPT !.on = NoTarget, !.frozen = FALSE] \in Process
         /\ \A b \in BOOLEAN : [p EXCEPT !.frozen = b] \in Process
         /\ \A s \in ProcStates : [p EXCEPT !.st = s] \in Process
         /\ Gone(p).st = "dead" /\ Gone(p).snap = Absent
         /\ [Gone(p) EXCEPT !.on = NoTarget, !.frozen = FALSE].st = "dead"
         /\ [Gone(p) EXCEPT !.on = NoTarget, !.frozen = FALSE].snap = Absent
<1>1. Gone(p) \in Process /\ Gone(p).st = "dead" /\ Gone(p).snap = Absent
  BY NewRows DEF Gone, Process, ProcStates
<1>2. /\ [Gone(p) EXCEPT !.on = NoTarget, !.frozen = FALSE] \in Process
      /\ [Gone(p) EXCEPT !.on = NoTarget, !.frozen = FALSE].st = "dead"
      /\ [Gone(p) EXCEPT !.on = NoTarget, !.frozen = FALSE].snap = Absent
  BY <1>1 DEF Process
<1>3. ASSUME NEW b \in BOOLEAN PROVE [p EXCEPT !.frozen = b] \in Process
  BY DEF Process
<1>4. ASSUME NEW s \in ProcStates PROVE [p EXCEPT !.st = s] \in Process
  BY DEF Process
<1>. QED  BY <1>1, <1>2, <1>3, <1>4

\* The absent row asks for nothing.
LEMMA AbsentSound == RequestSound(Absent)
  BY DEF RequestSound, Absent

\* Replacing the record of one process by a sound one keeps the processes.
LEMMA OneProcess ==
  ASSUME IInv, NEW g, NEW p, g \in Gen => p \in Process,
         g \in Gen => (p.st \in LiveStates => p.job \in Job),
         g \in Gen => RequestSound(p.snap),
         proc' = [proc EXCEPT ![g] = p], UNCHANGED <<spawned, bump>>,
         child' \in [Job -> Gen \cup {NoGen}]
  PROVE  ProcessOK' /\ CopiesSound'
  BY DEF IInv, TypeOK, ProcessOK, RequestsSound, CopiesSound, RootAlive

-----------------------------------------------------------------------------
(* The supervisor. *)

\* The boot pass (requeue_jobs_interrupted_by_reboot) keeps what it should.
LEMMA BootKept ==
  ASSUME IInv
  PROVE  /\ EnterBoot => Kept
         /\ \A j \in Job : BootIntent(j) => Kept
         /\ BootRelease \/ BootForget => Kept
         /\ BootRequeueJob => Kept
         /\ BootRequeued => Kept
<1> USE DEF IInv, TypeOK, hostVars, processVars
<1>1. EnterBoot => Kept
  BY TickMoves, Untouched, QuietKept DEF EnterBoot
<1>2. ASSUME NEW j \in Job, BootIntent(j) PROVE Kept
  <2>1. TickOK'
    BY <1>2, TickMoves DEF BootIntent, Steps, TickOK
  <2>2. DurableOK'
    BY <1>2 DEF BootIntent, DurableOK
  <2>. QED  BY <1>2, <2>1, <2>2, Untouched, QuietKept DEF BootIntent
<1>3. BootRelease \/ BootForget => Kept
  BY TickMoves, Untouched, QuietKept
     DEF BootRelease, BootForget, At, Steps, TickOK, DurableOK, NoGen
<1>4. BootRequeueJob => Kept
  BY TickMoves, Untouched, EditKept, RequeueAfterRebootSafe
     DEF BootRequeueJob, At, Steps, TickOK, QueueOK
<1>5. BootRequeued => Kept
  BY TickMoves, Untouched, QuietKept DEF BootRequeued, At, TickOK, DurableOK
<1>. QED  BY <1>1, <1>2, <1>3, <1>4, <1>5

\* So do the stages that repair outcomes, transactions and receipts.
LEMMA RepairKept ==
  ASSUME IInv
  PROVE  /\ RepairOutcomes => Kept
         /\ ClearFinalized => Kept
         /\ SweepReceipts => Kept
<1> USE DEF IInv, TypeOK, hostVars, processVars
<1>1. RepairOutcomes => Kept
  <2>1. \A j \in Job : Recovered(jobs[j]) \in Outcomes
    BY DEF Recovered, Outcomes
  <2>. QED  BY <2>1, TickMoves, Untouched, QuietKept DEF RepairOutcomes, DurableOK
<1>2. ClearFinalized => Kept
  BY TickMoves, Untouched, QuietKept DEF ClearFinalized, DurableOK, NoTxn, Txn, NoGen
<1>3. SweepReceipts => Kept
  BY TickMoves, Untouched, QuietKept DEF SweepReceipts, DurableOK, NoGen
<1>. QED  BY <1>1, <1>2, <1>3

\* So do the steps of a termination transaction, its settlement included.
LEMMA TerminationKept ==
  ASSUME IInv
  PROVE  /\ EnterCancel \/ EnterDefer => Kept
         /\ \A j \in Job : Freeze(j) \/ NoLiveOwner(j) \/ ResumeTxn(j) => Kept
         /\ SaveTxn \/ KillTree \/ MarkDead \/ ReleaseLeases \/ MarkReleased => Kept
         /\ Settle \/ Forget \/ Clear \/ PersistOutcome => Kept
<1> USE DEF IInv, TypeOK, hostVars, processVars
<1>1. EnterCancel \/ EnterDefer => Kept
  BY TickMoves, Untouched, QuietKept DEF EnterCancel, EnterDefer
<1>2. ASSUME NEW j \in Job, Freeze(j) PROVE Kept
  <2>1. TickOK'
    BY <1>2, TickMoves DEF Freeze, Steps
  <2> DEFINE g == receipt[j]
             p == [proc[g] EXCEPT !.frozen = TRUE]
  <2>2. g \in Gen => /\ p \in Process
                     /\ p.st \in LiveStates => p.job \in Job
                     /\ RequestSound(p.snap)
    <3>1. SUFFICES ASSUME g \in Gen
                   PROVE  /\ p \in Process /\ (p.st \in LiveStates => p.job \in Job)
                          /\ RequestSound(p.snap)
      OBVIOUS
    <3>2. /\ proc[g] \in Process /\ RequestSound(proc[g].snap)
          /\ proc[g].st \in LiveStates => proc[g].job \in Job
      BY <3>1 DEF ProcessOK, RequestsSound, RootAlive
    <3>3. p \in Process /\ p.st = proc[g].st /\ p.job = proc[g].job /\ p.snap = proc[g].snap
      BY <3>2 DEF Process
    <3>. QED  BY <3>2, <3>3, Zenon
  <2>3. proc' = [proc EXCEPT ![g] = p] /\ UNCHANGED <<spawned, bump, child>>
    BY <1>2 DEF Freeze
  <2>4. child' \in [Job -> Gen \cup {NoGen}]
    BY <2>3 DEF ProcessOK
  <2> HIDE DEF g, p
  <2>5. ProcessOK' /\ CopiesSound'
    BY <2>2, <2>3, <2>4, OneProcess
  <2>. QED  BY <1>2, <2>1, <2>5, Untouched, QuietKept DEF Freeze
<1>3. ASSUME NEW j \in Job, NoLiveOwner(j) PROVE Kept
  BY <1>3, TickMoves, Untouched, QuietKept DEF NoLiveOwner, TickOK
<1>4. ASSUME NEW j \in Job, ResumeTxn(j) PROVE Kept
  <2>1. TickOK'
    BY <1>4, TickMoves DEF ResumeTxn, Steps
  <2>2. DurableOK'
    BY <1>4 DEF ResumeTxn, DurableOK, Txn, Act
  <2>. QED  BY <1>4, <2>1, <2>2, Untouched, QuietKept DEF ResumeTxn
<1>5. ASSUME SaveTxn PROVE Kept
  <2>1. TickOK'
    BY <1>5, TickMoves DEF SaveTxn, Steps, TickOK
  <2>2. DurableOK'
    BY <1>5 DEF SaveTxn, DurableOK, Txn, Phases, Act
  <2>. QED  BY <1>5, <2>1, <2>2, Untouched, QuietKept DEF SaveTxn
<1>6. KillTree => Kept
  <2>1. SUFFICES ASSUME KillTree PROVE Kept
    OBVIOUS
  <2>2. TickOK'
    BY <2>1, TickMoves DEF KillTree, Steps, TickOK
  <2>3. ProcessOK' /\ CopiesSound'
    BY <2>1, ProcessShapes, AbsentSound, OneProcess DEF KillTree, ProcessOK, LiveStates
  <2>4. lock' \in Gen \cup {NoGen}
    BY <2>1 DEF KillTree, LockWithout, QueueOK
  <2>. QED  BY <2>1, <2>2, <2>3, <2>4, Untouched, QuietKept DEF KillTree
<1>7. ASSUME MarkDead \/ MarkReleased PROVE Kept
  <2>1. TickOK'
    BY <1>7, TickMoves DEF MarkDead, MarkReleased, Steps, TickOK
  <2>2. DurableOK'
    BY <1>7 DEF MarkDead, MarkReleased, DurableOK, Txn, Phases
  <2>. QED  BY <1>7, <2>1, <2>2, Untouched, QuietKept DEF MarkDead, MarkReleased
<1>8. ReleaseLeases => Kept
  BY TickMoves, Untouched, QuietKept DEF ReleaseLeases, Steps, TickOK, DurableOK
<1>9. Settle => Kept
  <2>1. SUFFICES ASSUME Settle PROVE Kept
    OBVIOUS
  <2>2. cur \in Job
    BY <2>1 DEF Settle, TickOK
  <2>3. TickOK'
    BY <2>1, <2>2, TickMoves DEF Settle, Steps
  <2>4. jobs' \in Queue /\ SafeEdit(jobs, jobs')
    BY <2>1, <2>2, FinalizeDeferredSafe, AcknowledgeSafe, UnchangedSafe DEF Settle, QueueOK
  <2>5. ProcessOK' /\ CopiesSound'
    BY <2>1 DEF Settle, ProcessOK, RequestsSound, CopiesSound, RootAlive, NoGen
  <2>. QED  BY <2>1, <2>3, <2>4, <2>5, Untouched, EditKept DEF Settle
<1>10. Forget \/ Clear => Kept
  BY TickMoves, Untouched, QuietKept
     DEF Forget, Clear, Steps, TickOK, DurableOK, NoTxn, Txn, NoGen
<1>11. PersistOutcome => Kept
  BY TickMoves, Untouched, QuietKept
     DEF PersistOutcome, Steps, TickOK, DurableOK, Recovered, Outcomes
<1>. QED  BY <1>1, <1>2, <1>3, <1>4, <1>5, <1>6, <1>7, <1>8, <1>9, <1>10, <1>11

\* So do reaping and reconcile_running, which end jobs whose worker is lost.
LEMMA LostWorkerKept ==
  ASSUME IInv
  PROVE  /\ EnterReap \/ EnterRunning \/ LeaveRunning => Kept
         /\ \A j \in Job : ReapChild(j) \/ ObserveRunning(j) => Kept
         /\ CompleteLost \/ DropChild => Kept
<1> USE DEF IInv, TypeOK, hostVars, processVars
<1>1. EnterReap \/ EnterRunning \/ LeaveRunning => Kept
  BY TickMoves, Untouched, QuietKept DEF EnterReap, EnterRunning, LeaveRunning
<1>2. ASSUME NEW j \in Job, ReapChild(j) PROVE Kept
  BY <1>2, TickMoves, Untouched, QuietKept DEF ReapChild, Steps, TickOK
<1>3. ASSUME NEW j \in Job, ObserveRunning(j) PROVE Kept
  <2>1. TickOK'
    BY <1>3, TickMoves DEF ObserveRunning, At, Steps, TickOK
  <2>2. DurableOK'
    BY <1>3 DEF ObserveRunning, DurableOK, NoGen
  <2>. QED  BY <1>3, <2>1, <2>2, Untouched, QuietKept DEF ObserveRunning
<1>4. CompleteLost => Kept
  BY TickMoves, Untouched, EditKept, CompleteUncertainSafe
     DEF CompleteLost, Steps, TickOK, QueueOK
<1>5. DropChild => Kept
  <2>1. DropChild => ProcessOK' /\ CopiesSound'
    BY DEF DropChild, ProcessOK, RequestsSound, CopiesSound, RootAlive, NoGen
  <2>2. DropChild => DurableOK'
    BY DEF DropChild, DurableOK, NoGen
  <2>. QED  BY <2>1, <2>2, TickMoves, Untouched, QuietKept DEF DropChild
<1>. QED  BY <1>1, <1>2, <1>3, <1>4, <1>5

\* So do the cancellations of merged jobs.
LEMMA MergeKept ==
  ASSUME IInv
  PROVE  /\ ObserveMerged => Kept
         /\ \A j \in Job : CancelMerged(j) => Kept
         /\ FinalizeReceiptless \/ ReleaseOrphan => Kept
<1> USE DEF IInv, TypeOK, hostVars, processVars
<1>1. MergeProof \in Proof
  BY ExecutionAssumption
<1>2. ASSUME ObserveMerged PROVE Kept
  <2>1. PICK S \in SUBSET {j \in Job : Observable(j)}, drain \in {TRUE, "drain" \notin Faults} :
          LET P == {j \in S : Pending(jobs[j])} IN
          /\ jobs' = IF drain THEN CancelPending(jobs, P, MergeProof) ELSE jobs
          /\ outcome' = [j \in Job |-> IF drain /\ j \in P THEN "merged" ELSE outcome[j]]
          /\ Visit({j \in S : Running(jobs[j])})
    BY <1>2 DEF ObserveMerged
  <2>2. TickOK'
    BY <2>1, TickMoves
  <2>3. jobs' \in Queue /\ SafeEdit(jobs, jobs')
    BY <1>1, <2>1, CancelPendingSafe, UnchangedSafe DEF QueueOK
  <2>4. DurableOK'
    BY <1>2, <2>1 DEF ObserveMerged, DurableOK, Outcomes
  <2>. QED  BY <1>2, <2>2, <2>3, <2>4, Untouched, EditKept DEF ObserveMerged
<1>3. ASSUME NEW j \in Job, CancelMerged(j) PROVE Kept
  <2>1. TickOK'
    BY <1>3, TickMoves DEF CancelMerged, TickOK
  <2>2. jobs' \in Queue /\ SafeEdit(jobs, jobs')
    BY <1>1, <1>3, RequestCancelSafe, UnchangedSafe DEF CancelMerged, QueueOK
  <2>. QED  BY <1>3, <2>1, <2>2, Untouched, EditKept DEF CancelMerged
<1>4. ASSUME FinalizeReceiptless PROVE Kept
  <2>1. TickOK'
    BY <1>4, TickMoves DEF FinalizeReceiptless, TickOK, Steps
  <2>2. jobs' \in Queue /\ SafeEdit(jobs, jobs')
    BY <1>1, <1>4, FinalizeAuditedSafe, UnchangedSafe
       DEF FinalizeReceiptless, Receiptless, QueueOK
  <2>. QED  BY <1>4, <2>1, <2>2, Untouched, EditKept DEF FinalizeReceiptless
<1>5. ReleaseOrphan => Kept
  BY TickMoves, Untouched, QuietKept DEF ReleaseOrphan, DurableOK
<1>. QED  BY <1>2, <1>3, <1>4, <1>5

\* So does admission, from the selection of jobs to their receipts.
LEMMA AdmissionKept ==
  ASSUME IInv
  PROVE  /\ \A late \in SUBSET Job : SelectPending(late) => Kept
         /\ SelectNothing => Kept
         /\ StartSelected \/ WriteReceipt \/ RequeueUnspawned => Kept
         /\ \A j \in Job : SpawnProcess(j) => Kept
<1> USE DEF IInv, TypeOK, hostVars, processVars
<1>1. ASSUME NEW late \in SUBSET Job, SelectPending(late) PROVE Kept
  <2>1. Eligible(jobs, late) \subseteq Job
    BY DEF Eligible, Rows
  <2>2. TickOK'
    BY <1>1, <2>1, TickMoves DEF SelectPending, TickOK, Steps
  <2>3. jobs' \in Queue /\ SafeEdit(jobs, jobs')
    BY <1>1, ExecutionAssumption, CancelPendingSafe DEF SelectPending, QueueOK
  <2>. QED  BY <1>1, <2>2, <2>3, Untouched, EditKept DEF SelectPending
<1>6. ASSUME SelectNothing PROVE Kept
  <2>1. TickOK'
    BY <1>6, TickMoves DEF SelectNothing
  <2>2. jobs' \in Queue /\ SafeEdit(jobs, jobs')
    BY <1>6, ExecutionAssumption, CancelPendingSafe DEF SelectNothing, QueueOK
  <2>. QED  BY <1>6, <2>1, <2>2, Untouched, EditKept DEF SelectNothing
<1>2. StartSelected => Kept
  <2>1. StartSelected => TickOK'
    BY TickMoves DEF StartSelected, TickOK
  <2>2. StartSelected => HostOK'
    BY DEF StartSelected, HostOK, TickOK
  <2>. QED  BY <2>1, <2>2, Untouched, EditKept, StartPendingSafe
            DEF StartSelected, QueueOK, RequestsSound
<1>3. WriteReceipt => Kept
  <2>1. spawned \in Gen \cup {NoGen}
    BY ExecutionAssumption DEF ProcessOK, Gen, NoGen
  <2>2. WriteReceipt => ProcessOK' /\ CopiesSound'
    BY <2>1 DEF WriteReceipt, ProcessOK, RequestsSound, CopiesSound, RootAlive
  <2>3. WriteReceipt => DurableOK'
    BY <2>1 DEF WriteReceipt, DurableOK
  <2>. QED  BY <2>2, <2>3, TickMoves, Untouched, QuietKept DEF WriteReceipt
<1>4. RequeueUnspawned => Kept
  BY TickMoves, Untouched, EditKept, RequeueDeferredRunningSafe
     DEF RequeueUnspawned, At, TickOK, QueueOK
<1>5. ASSUME NEW j \in Job, SpawnProcess(j) PROVE Kept
  <2> DEFINE p == [NoProcess EXCEPT !.st = "waiting", !.job = j, !.boot = boot]
  <2>1. p \in Process /\ p.job = j /\ p.snap = Absent
    BY NewRows DEF NoProcess, Process, ProcStates, HostOK, NoJob
  <2> HIDE DEF p
  <2>2. proc' = [proc EXCEPT ![spawned + 1] = p]
    BY <1>5 DEF SpawnProcess, p
  <2>3. spawned' \in 0 .. MaxSpawns
    BY <1>5, ExecutionAssumption DEF SpawnProcess, ProcessOK
  <2>4. ProcessOK' /\ CopiesSound'
    BY <1>5, <2>1, <2>2, <2>3, AbsentSound
       DEF SpawnProcess, ProcessOK, RequestsSound, CopiesSound, RootAlive
  <2>5. TickOK'
    BY <1>5, TickMoves DEF SpawnProcess, Steps
  <2>. QED  BY <1>5, <2>4, <2>5, Untouched, QuietKept DEF SpawnProcess
<1>. QED  BY <1>1, <1>2, <1>3, <1>4, <1>5, <1>6

\* So does every failure of the supervisor that ends or shortens its tick.
LEMMA FaultKept ==
  ASSUME IInv
  PROVE  SupervisorFault => Kept
<1> USE DEF IInv, TypeOK, hostVars, processVars
<1>1. FreezeFails => Kept
  <2> DEFINE g == receipt[cur]
             p == [proc[g] EXCEPT !.frozen = FALSE]
  <2>1. g \in Gen => /\ p \in Process
                     /\ p.st \in LiveStates => p.job \in Job
                     /\ RequestSound(p.snap)
    <3>1. SUFFICES ASSUME g \in Gen
                   PROVE  /\ p \in Process /\ (p.st \in LiveStates => p.job \in Job)
                          /\ RequestSound(p.snap)
      OBVIOUS
    <3>2. /\ proc[g] \in Process /\ RequestSound(proc[g].snap)
          /\ proc[g].st \in LiveStates => proc[g].job \in Job
      BY <3>1 DEF ProcessOK, RequestsSound, RootAlive
    <3>3. p \in Process /\ p.st = proc[g].st /\ p.job = proc[g].job /\ p.snap = proc[g].snap
      BY <3>2 DEF Process
    <3>. QED  BY <3>2, <3>3, Zenon
  <2>2. FreezeFails => proc' = [proc EXCEPT ![g] = p] /\ UNCHANGED <<spawned, bump>>
    BY DEF FreezeFails
  <2>3. FreezeFails => child' \in [Job -> Gen \cup {NoGen}]
    BY DEF FreezeFails, ProcessOK, NoGen
  <2> HIDE DEF g, p
  <2>4. FreezeFails => ProcessOK' /\ CopiesSound'
    BY <2>1, <2>2, <2>3, OneProcess
  <2>. QED  BY <2>4, TickMoves, Untouched, QuietKept DEF FreezeFails
<1>2. KillUnverified \/ DrainBusy => Kept
  BY TickMoves, Untouched, QuietKept DEF KillUnverified, DrainBusy
<1>3. ASSUME SpawnFails PROVE Kept
  <2>1. TickOK'
    BY <1>3, TickMoves DEF SpawnFails, At, Steps, TickOK
  <2> DEFINE p == Gone(proc[spawned])
  <2>2. UNCHANGED proc \/ proc' = [proc EXCEPT ![spawned] = p]
    BY <1>3 DEF SpawnFails
  <2>3. spawned \in Gen => p \in Process /\ p.st \notin LiveStates /\ RequestSound(p.snap)
    BY ProcessShapes, AbsentSound DEF ProcessOK, LiveStates
  <2> HIDE DEF p
  <2>4. UNCHANGED <<spawned, child, bump>> /\ child \in [Job -> Gen \cup {NoGen}]
    BY <1>3 DEF SpawnFails, ProcessOK
  <2>5. ProcessOK' /\ CopiesSound'
    BY <2>2, <2>3, <2>4, OneProcess, Untouched
  <2>. QED  BY <1>3, <2>1, <2>5, Untouched, QuietKept DEF SpawnFails
<1>4. KeepUnverified => Kept
  <2>1. spawned \in Gen \cup {NoGen}
    BY ExecutionAssumption DEF ProcessOK, Gen, NoGen
  <2>2. KeepUnverified => ProcessOK' /\ CopiesSound'
    BY <2>1 DEF KeepUnverified, ProcessOK, RequestsSound, CopiesSound, RootAlive
  <2>. QED  BY <2>2, TickMoves, Untouched, QuietKept DEF KeepUnverified
<1>5. IoError => Kept
  <2>1. IoError => ProcessOK' /\ CopiesSound'
    BY DEF IoError, ProcessOK, RequestsSound, CopiesSound, RootAlive, NoGen
  <2>. QED  BY <2>1, TickMoves, Untouched, QuietKept DEF IoError
<1>. QED  BY <1>1, <1>2, <1>3, <1>4, <1>5, AdmissionKept DEF SupervisorFault

-----------------------------------------------------------------------------
(* The workers. *)

\* A record that may stand for worker g.
Fit(p) == p \in Process /\ p.job \in Job /\ RequestSound(p.snap)

\* The records a live worker turns into are fit for it.
LEMMA WorkerShapes ==
  ASSUME IInv, NEW g \in Gen, RootAlive(g), NEW s \in ProcStates
  PROVE  /\ Fit(proc[g]) /\ Fit(In(g, s)) /\ Fit(Stopped(g, s)) /\ Fit(Gone(proc[g]))
         /\ \A r \in Row : RequestSound(r) => Fit([In(g, s) EXCEPT !.snap = r])
         /\ \A r \in Row : RequestSound(r) => Fit([proc[g] EXCEPT !.snap = r])
         /\ \A r \in Row : RequestSound(r) => Fit([In(g, s) EXCEPT !.left = Target, !.snap = r])
         /\ \A t \in Target : /\ Fit([proc[g] EXCEPT !.on = t])
                             /\ Fit([proc[g] EXCEPT !.left = proc[g].left \ {t}])
         /\ \A r : [In(g, s) EXCEPT !.snap = r].st = s
         /\ Fit([proc[g] EXCEPT !.on = NoTarget, !.left = proc[g].left \ {proc[g].on}])
<1>1. proc[g] \in Process /\ proc[g].job \in Job /\ RequestSound(proc[g].snap)
  BY DEF IInv, TypeOK, ProcessOK, RequestsSound
<1>2. Fit(proc[g]) /\ Fit(In(g, s)) /\ \A r : [In(g, s) EXCEPT !.snap = r].st = s
  BY <1>1 DEF Fit, In, Process
<1>3. Fit(Stopped(g, s))
  BY <1>1, NewRows, AbsentSound DEF Fit, In, Stopped, Process
<1>4. Fit(Gone(proc[g]))
  BY <1>1, NewRows, AbsentSound DEF Fit, Gone, Process, ProcStates
<1>5. ASSUME NEW r \in Row, RequestSound(r)
      PROVE  /\ Fit([In(g, s) EXCEPT !.snap = r])
             /\ Fit([proc[g] EXCEPT !.snap = r])
             /\ Fit([In(g, s) EXCEPT !.left = Target, !.snap = r])
  BY <1>1, <1>5 DEF Fit, In, Process
<1>6. ASSUME NEW t \in Target
      PROVE  /\ Fit([proc[g] EXCEPT !.on = t])
             /\ Fit([proc[g] EXCEPT !.left = proc[g].left \ {t}])
  BY <1>1 DEF Fit, Process
<1>7. Fit([proc[g] EXCEPT !.on = NoTarget, !.left = proc[g].left \ {proc[g].on}])
  BY <1>1 DEF Fit, Process
<1>. QED  BY <1>2, <1>3, <1>4, <1>5, <1>6, <1>7

\* A worker step outside the queue keeps what it should.
LEMMA StepOutside ==
  ASSUME IInv, NEW g \in Gen, NEW p, Fit(p), proc' = [proc EXCEPT ![g] = p],
         UNCHANGED <<jobs, lock, receipt, txn, marker, spawned, child, hostVars, tickVars>>,
         outcome' \in [Job -> Outcomes], leases' \subseteq Job
  PROVE  Kept
<1>1. ProcessOK' /\ CopiesSound'
  BY OneProcess DEF Fit, hostVars, IInv, TypeOK, ProcessOK
<1>2. DurableOK'
  BY DEF DurableOK, IInv, TypeOK
<1>. QED  BY <1>1, <1>2, Untouched, QuietKept DEF hostVars

\* One access of a worker to the queue keeps what it should.
LEMMA AccessKept ==
  ASSUME IInv, NEW g \in Gen, NEW q \in Queue, SafeEdit(jobs, q), NEW p, Fit(p),
         Access(g, q, p), leases' \subseteq Job
  PROVE  Kept
<1>1. ProcessOK' /\ CopiesSound'
  BY OneProcess DEF Fit, Access, hostVars, IInv, TypeOK, ProcessOK
<1>2. DurableOK'
  BY DEF DurableOK, IInv, TypeOK, Access
<1>3. lock' \in Gen \cup {NoGen}
  BY DEF Access
<1>. QED  BY <1>1, <1>2, <1>3, Untouched, EditKept DEF Access, hostVars

\* So does writing a sound row back, conflict or not.
LEMMA WriteBackKept ==
  ASSUME IInv, NEW g \in Gen, NEW r \in Row, RequestSound(r), NEW p, Fit(p),
         WriteBack(g, r, p), leases' \subseteq Job
  PROVE  Kept
<1>0. RootAlive(g) /\ proc[g].job \in Job /\ jobs \in Queue
  BY DEF WriteBack, Access, Holds, Runs, IInv, TypeOK, ProcessOK, QueueOK
<1>1. CASE UpdateConflict(jobs, proc[g].job, r)
  <2>1. Fit(Stopped(g, "failed"))
    BY <1>0, WorkerShapes DEF ProcStates
  <2>. QED  BY <1>0, <1>1, <2>1, UnchangedSafe, AccessKept DEF WriteBack
<1>2. CASE ~UpdateConflict(jobs, proc[g].job, r)
  <2>1. Fit([p EXCEPT !.snap = r])
    BY DEF Fit, Process
  <2>2. LET q == Update(jobs, proc[g].job, r) IN q \in Queue /\ SafeEdit(jobs, q)
    BY <1>0, <1>2, UpdateSafe
  <2>. QED  BY <1>2, <2>1, <2>2, AccessKept DEF WriteBack
<1>. QED  BY <1>1, <1>2

\* Every step of a worker keeps what it should.
LEMMA WorkerKept ==
  ASSUME IInv, NEW g \in Gen, WorkerStep(g)
  PROVE  Kept
<1> DEFINE j == proc[g].job
<1>1. RootAlive(g)
  BY DEF WorkerStep, Lock, CheckAuthority, OpenJob, BeginTargets, RefuseJob, Dispatch,
     LeaseUnavailable, SkipTarget, FinishTarget, Progress, SeeCancel, SaveOutcome, Publish, FinishShip,
     AwaitCancellation, RequeueDeferred, EndUncertain, PersistUncertain, WorkerError,
     WriteBack, Access, Holds, Runs
<1>2. j \in Job /\ jobs \in Queue /\ jobs[j] \in Row /\ RequestSound(jobs[j])
  BY <1>1 DEF IInv, TypeOK, ProcessOK, QueueOK, Queue, RequestsSound
<1>3. leases \subseteq Job /\ (ReturnLease(g) => leases' \subseteq Job)
  BY DEF IInv, TypeOK, DurableOK, ReturnLease
<1>4. proc[g].snap \in Row /\ RequestSound(proc[g].snap)
  BY DEF IInv, TypeOK, ProcessOK, Process, RequestsSound
<1>5. outcome \in [Job -> Outcomes] /\ \A r : Validated(r) \in Outcomes /\ Recovered(r) \in Outcomes
  BY DEF IInv, TypeOK, DurableOK, Validated, Recovered, Outcomes
<1>6. SafeEdit(jobs, jobs)
  BY <1>2, UnchangedSafe
<1>7. ASSUME NEW t \in Target, NEW v \in Result
      PROVE  WithResult(proc[g].snap, t, v) \in Row /\ RequestSound(WithResult(proc[g].snap, t, v))
  BY <1>4 DEF WithResult, Row, RequestSound
<1> HIDE DEF j
<1>8. CASE Lock(g)
  BY <1>8, Untouched, QuietKept DEF Lock, processVars, hostVars
<1>9. CASE CheckAuthority(g)
  <2>1. Fit(In(g, "authorized")) /\ Fit(Gone(proc[g]))
    BY <1>1, WorkerShapes DEF ProcStates
  <2>. QED  BY <1>3, <1>5, <1>9, <2>1, StepOutside DEF CheckAuthority, durableVars
<1>10. CASE OpenJob(g)
  <2>1. Fit(In(g, "failed")) /\ Fit(In(g, "ended"))
        /\ Fit([In(g, "prepared") EXCEPT !.snap = jobs[j]])
    BY <1>1, <1>2, WorkerShapes DEF ProcStates
  <2>. QED  BY <1>2, <1>3, <1>6, <1>10, <2>1, AccessKept DEF OpenJob, j
<1>11. CASE BeginTargets(g)
  <2>1. Fit([In(g, "working") EXCEPT !.left = Target, !.snap = jobs[j]])
    BY <1>1, <1>2, WorkerShapes DEF ProcStates
  <2>. QED  BY <1>2, <1>3, <1>6, <1>11, <2>1, AccessKept DEF BeginTargets, j
<1>12. CASE RefuseJob(g)
  <2> DEFINE r == CancelWithProof(proc[g].snap, NoProof)
  <2>1. r \in Row /\ RequestSound(r)
    BY <1>4, RowTransitions DEF CancelWithProof, Row, RequestSound
  <2>2. Fit(Stopped(g, "failed"))
    BY <1>1, WorkerShapes DEF ProcStates
  <2> HIDE DEF r
  <2>3. ~UpdateConflict(jobs, j, r) => Update(jobs, j, r) \in Queue /\ SafeEdit(jobs, Update(jobs, j, r))
    BY <1>2, <2>1, UpdateSafe
  <2>. QED  BY <1>2, <1>3, <1>6, <1>12, <2>2, <2>3, AccessKept DEF RefuseJob, j, r
<1>13. ASSUME NEW t \in Target, Dispatch(g, t) PROVE Kept
  <2>1. Fit([proc[g] EXCEPT !.on = t])
    BY <1>1, WorkerShapes DEF ProcStates
  <2>2. leases' \subseteq Job
    BY <1>2, <1>3, <1>13 DEF Dispatch, j
  <2>. QED  BY <1>7, <1>13, <2>1, <2>2, WriteBackKept DEF Dispatch, Result
<1>14. ASSUME NEW t \in Target, LeaseUnavailable(g, t) PROVE Kept
  <2>1. Fit(In(g, "deferring"))
    BY <1>1, WorkerShapes DEF ProcStates
  <2>. QED  BY <1>3, <1>7, <1>14, <2>1, WriteBackKept DEF LeaseUnavailable, Result
<1>15. ASSUME NEW v \in {"pass", "fail"}, FinishTarget(g, v) PROVE Kept
  <2>1. proc[g].on \in Target
    BY <1>1, <1>15 DEF FinishTarget, IInv, TypeOK, ProcessOK, Process
  <2>2. Fit([proc[g] EXCEPT !.on = NoTarget, !.left = proc[g].left \ {proc[g].on}])
    BY <1>1, WorkerShapes DEF ProcStates
  <2>. QED  BY <1>3, <1>7, <1>15, <2>1, <2>2, WriteBackKept DEF FinishTarget, Result
<1>16. CASE Progress(g)
  <2>1. Fit(proc[g])
    BY <1>1, WorkerShapes DEF ProcStates
  <2>. QED  BY <1>3, <1>4, <1>16, <2>1, WriteBackKept DEF Progress
<1>17. CASE SeeCancel(g)
  <2>1. Fit(Stopped(g, "ended"))
    BY <1>1, WorkerShapes DEF ProcStates
  <2>. QED  BY <1>2, <1>3, <1>6, <1>17, <2>1, AccessKept DEF SeeCancel
<1>18. CASE SaveOutcome(g)
  <2>1. Complete(proc[g].snap) \in Row /\ RequestSound(Complete(proc[g].snap))
    BY <1>4, <1>18 DEF SaveOutcome, Complete, Row, RequestSound, Live, Final
  <2>2. Fit([In(g, "publish") EXCEPT !.snap = Complete(proc[g].snap)])
    BY <1>1, <2>1, WorkerShapes DEF ProcStates
  <2>. QED  BY <1>2, <1>3, <1>5, <1>18, <2>2, StepOutside DEF SaveOutcome, j
<1>19. CASE Publish(g)
  <2>1. Fit(Stopped(g, "failed")) /\ Fit(Stopped(g, "ended"))
    BY <1>1, WorkerShapes DEF ProcStates
  <2>2. LET r == proc[g].snap IN
        ~UpdateConflict(jobs, j, r) => Update(jobs, j, r) \in Queue /\ SafeEdit(jobs, Update(jobs, j, r))
    BY <1>2, <1>4, UpdateSafe
  <2>. QED  BY <1>2, <1>3, <1>6, <1>19, <2>1, <2>2, AccessKept DEF Publish, j
<1>20. CASE FinishShip(g) \/ PersistUncertain(g)
  <2>1. Fit(Gone(proc[g]))
    BY <1>1, WorkerShapes DEF ProcStates
  <2>. QED  BY <1>2, <1>3, <1>5, <1>20, <2>1, StepOutside DEF FinishShip, PersistUncertain, j
<1>21. CASE AwaitCancellation(g)
  <2>1. /\ Fit(In(g, "parked")) /\ Fit(In(g, "failed"))
        /\ Fit([In(g, "posting") EXCEPT !.snap = jobs[j]])
    BY <1>1, <1>2, WorkerShapes DEF ProcStates
  <2>. QED  BY <1>2, <1>3, <1>6, <1>21, <2>1, AccessKept DEF AwaitCancellation, j
<1>22. CASE RequeueDeferred(g)
  <2>1. Fit(Stopped(g, "parked")) /\ Fit(Gone(proc[g]))
    BY <1>1, WorkerShapes DEF ProcStates
  <2>. QED  BY <1>2, <1>3, <1>6, <1>22, <2>1, RequeueDeferredDaemonWorkerSafe, AccessKept
            DEF RequeueDeferred, j
<1>23. CASE EndUncertain(g)
  <2> DEFINE q == CompleteRunningUncertain(jobs, j)
  <2>1. q \in Queue /\ SafeEdit(jobs, q)
    BY <1>2, CompleteUncertainSafe
  <2>2. q[j] \in Row /\ RequestSound(q[j])
    BY <1>2, <2>1 DEF Queue, SafeEdit, SafeRow
  <2> HIDE DEF q
  <2>3. Fit(In(g, "parked")) /\ Fit(Gone(proc[g])) /\ Fit([In(g, "persist") EXCEPT !.snap = q[j]])
    BY <1>1, <2>2, WorkerShapes DEF ProcStates
  <2>. QED  BY <1>3, <1>23, <2>1, <2>3, AccessKept DEF EndUncertain, j, q
<1>24. CASE WorkerError(g)
  <2>1. Fit(Stopped(g, "failed"))
    BY <1>1, WorkerShapes DEF ProcStates
  <2>. QED  BY <1>3, <1>5, <1>24, <2>1, StepOutside DEF WorkerError
<1>25. ASSUME NEW t \in Target, SkipTarget(g, t) PROVE Kept
  <2>1. Fit([proc[g] EXCEPT !.left = proc[g].left \ {t}])
    BY <1>1, WorkerShapes DEF ProcStates
  <2>. QED  BY <1>3, <1>7, <1>25, <2>1, WriteBackKept DEF SkipTarget, Result
<1>. QED  BY <1>8, <1>9, <1>10, <1>11, <1>12, <1>13, <1>14, <1>15, <1>16, <1>17, <1>18,
             <1>19, <1>20, <1>21, <1>22, <1>23, <1>24, <1>25 DEF WorkerStep

-----------------------------------------------------------------------------
(* The operator and the host. *)

\* Every command of the operator, and a merge, keeps what it should: the row a
\* bump command writes back late is checked against the row it replaces.
LEMMA OperatorKept ==
  ASSUME IInv, Operator
  PROVE  Kept
<1> USE DEF IInv, TypeOK
<1>1. ASSUME NEW p \in Priority, Submit(p) PROVE Kept
  <2> DEFINE j == submitted + 1
  <2>1. j \in Job /\ jobs[j].status = "absent" /\ submitted' = j /\ submitted' \in 0 .. MaxJobs
    BY <1>1, QueueAssumption DEF Submit, QueueOK, Job
  <2>2. /\ jobs' \in Queue /\ jobs'[j] = NewRow(p)
        /\ \A i \in Job \ {j} : SafeRow(jobs[i], jobs'[i])
    BY <1>1, <2>1, EnqueueSafe DEF Submit, QueueOK
  <2>3. \A i \in Job : i > j => jobs[i].status = "absent" /\ i # j
    BY <2>1 DEF QueueOK, Job
  <2> HIDE DEF j
  <2>4. QueueOK'
    BY <1>1, <2>1, <2>2, <2>3 DEF QueueOK, Submit, SafeRow, AbsenceKept
  <2>5. ASSUME NEW i \in Job
        PROVE  /\ RequestSound(jobs'[i])
               /\ EndKept(jobs[i], jobs'[i]) /\ RequestKept(jobs[i], jobs'[i])
    <3>1. CASE i = j
      BY <2>1, <2>2, <3>1 DEF NewRow, Absent, RequestSound, EndKept, RequestKept, Terminal,
         Final, CancelRequested, Running
    <3>2. CASE i # j
      BY <2>2, <3>2 DEF SafeRow, RequestsSound
    <3>. QED  BY <3>1, <3>2
  <2>6. HostOK' /\ CopiesSound'
    BY <1>1 DEF Submit, HostOK, processVars, RequestsSound, CopiesSound
  <2>. QED  BY <1>1, <2>4, <2>5, <2>6, Untouched DEF Submit, Kept, RequestsSound, CopiesSound
<1>2. ASSUME NEW j \in Job, Cancel(j) PROVE Kept
  BY <1>2, RequestCancelSafe, Untouched, EditKept DEF Cancel, QueueOK, processVars, hostVars
<1>3. ASSUME NEW j \in Job, NEW p \in Priority, BumpRead(j, p) PROVE Kept
  <2>1. [jobs[j] EXCEPT !.priority = p] \in Row /\ RequestSound([jobs[j] EXCEPT !.priority = p])
    <3>1. jobs[j] \in Row /\ RequestSound(jobs[j])
      BY DEF QueueOK, Queue, RequestsSound
    <3>. QED  BY <3>1 DEF Row, RequestSound
  <2>2. HostOK' /\ CopiesSound'
    BY <1>3, <2>1 DEF BumpRead, HostOK, RequestsSound, CopiesSound, processVars
  <2>. QED  BY <1>3, <2>2, Untouched, QuietKept DEF BumpRead
<1>4. CASE BumpWrite
  <2>1. bump.job \in Job /\ bump.row \in Row /\ RequestSound(bump.row)
    BY <1>4 DEF BumpWrite, HostOK, RequestsSound
  <2>2. jobs' \in Queue /\ SafeEdit(jobs, jobs')
    BY <1>4, <2>1, UpdateSafe, UnchangedSafe DEF BumpWrite, QueueOK
  <2>3. HostOK' /\ CopiesSound'
    BY <1>4, NewRows, AbsentSound
       DEF BumpWrite, HostOK, RequestsSound, CopiesSound, processVars, NoBump, NoJob
  <2>. QED  BY <1>4, <2>2, <2>3, Untouched, EditKept DEF BumpWrite
<1>5. ASSUME NEW j \in Job, Merge(j) PROVE Kept
  <2>1. HostOK' /\ CopiesSound'
    BY <1>5 DEF Merge, HostOK, RequestsSound, CopiesSound, processVars
  <2>. QED  BY <1>5, <2>1, Untouched, QuietKept DEF Merge
<1>. QED  BY <1>1, <1>2, <1>3, <1>4, <1>5 DEF Operator

\* Stale heartbeats, deaths of processes, crashes and reboots keep it too.
LEMMA HostKept ==
  ASSUME IInv, Host
  PROVE  Kept
<1> USE DEF IInv, TypeOK
<1>1. ASSUME NEW j \in Job, GoStale(j) PROVE Kept
  <2> DEFINE r == [jobs[j] EXCEPT !.fresh = FALSE]
  <2>1. jobs[j] \in Row
    BY DEF QueueOK, Queue
  <2>2. r \in Row /\ SafeRow(jobs[j], r)
    BY <2>1 DEF Row, SafeRow, EndKept, RequestKept, AbsenceKept, RequestSound,
       CancelRequested, Running, Terminal, Final
  <2> HIDE DEF r
  <2>3. jobs' = [jobs EXCEPT ![j] = r]
    BY <1>1 DEF GoStale, r
  <2>4. jobs' \in Queue /\ SafeEdit(jobs, jobs')
    BY <2>2, <2>3, ReplaceSafe DEF QueueOK
  <2>5. /\ UNCHANGED <<lock, durableVars, processVars, hostVars, tickVars>>
    BY <1>1 DEF GoStale
  <2>. QED  BY <2>4, <2>5, Untouched, EditKept DEF processVars, hostVars
<1>2. ASSUME NEW g \in Gen, WorkerDies(g) PROVE Kept
  <2>1. Fit(Gone(proc[g]))
    BY <1>2, WorkerShapes DEF WorkerDies, ProcStates
  <2>2. ProcessOK' /\ CopiesSound'
    BY <1>2, <2>1, OneProcess DEF WorkerDies, Fit, ProcessOK, hostVars
  <2>3. lock' \in Gen \cup {NoGen}
    BY <1>2 DEF WorkerDies, LockWithout, QueueOK
  <2>. QED  BY <1>2, <2>2, <2>3, Untouched, QuietKept DEF WorkerDies
<1>3. ASSUME NEW g \in Gen, OrphansEnd(g) PROVE Kept
  <2>1. ProcessOK' /\ CopiesSound'
    BY <1>3 DEF OrphansEnd, ProcessOK, Process, RootAlive, RequestsSound, CopiesSound, hostVars
  <2>. QED  BY <1>3, <2>1, Untouched, QuietKept DEF OrphansEnd
<1>4. RestartDaemon => TickOK' /\ child' \in [Job -> Gen \cup {NoGen}]
  BY DEF RestartDaemon, TickOK, Stages, Steps, NoJob, NoGen
<1>5. CASE DaemonCrash
  <2>1. ProcessOK' /\ CopiesSound' /\ HostOK'
    BY <1>4, <1>5 DEF DaemonCrash, ProcessOK, HostOK, RootAlive, RequestsSound, CopiesSound
  <2>. QED  BY <1>4, <1>5, <2>1, Untouched, QuietKept DEF DaemonCrash
<1>6. CASE Reboot
  <2> DEFINE End(p) == [Gone(p) EXCEPT !.on = NoTarget, !.frozen = FALSE]
  <2>1. ASSUME NEW g \in Gen
        PROVE  /\ proc'[g] \in Process /\ RequestSound(proc'[g].snap)
               /\ proc'[g].st \notin LiveStates
    <3>1. proc[g] \in Process /\ RequestSound(proc[g].snap)
      BY DEF ProcessOK, RequestsSound
    <3>2. proc'[g] = IF proc[g].st = "none" THEN proc[g] ELSE End(proc[g])
      BY <1>6 DEF Reboot
    <3>. QED  BY <3>1, <3>2, ProcessShapes, AbsentSound DEF LiveStates
  <2>2. DOMAIN proc' = Gen /\ proc' = [g \in Gen |-> proc'[g]]
    BY <1>6 DEF Reboot
  <2>3. ProcessOK' /\ CopiesSound' /\ HostOK'
    <3>1. ProcessOK'
      BY <1>4, <1>6, <2>1, <2>2 DEF Reboot, ProcessOK, RootAlive
    <3>2. CopiesSound'
      BY <1>6, <2>1, AbsentSound DEF Reboot, CopiesSound, NoBump
    <3>3. HostOK'
      <4>1. bump' = NoBump /\ NoBump \in [job : Job \cup {NoJob}, row : Row]
        BY <1>6, NewRows DEF Reboot, NoBump
      <4>2. boot' = boot + 1 /\ UNCHANGED <<merged, bumps, crashes, exposed>>
        BY <1>6, Zenon DEF Reboot
      <4>3. boot' \in Nat
        BY <4>2 DEF HostOK
      <4>. QED  BY <4>1, <4>2, <4>3 DEF HostOK
    <3>. QED  BY <3>1, <3>2, <3>3
  <2>4. lock' \in Gen \cup {NoGen}
    BY <1>6 DEF Reboot
  <2>. QED  BY <1>4, <1>6, <2>3, <2>4, Untouched, QuietKept DEF Reboot
<1>. QED  BY <1>1, <1>2, <1>3, <1>5, <1>6 DEF Host

-----------------------------------------------------------------------------
(* The theorems. *)

\* The empty state directory satisfies the invariant.
LEMMA InitInv == Init => IInv
<1> SUFFICES ASSUME Init PROVE IInv
  OBVIOUS
<1>1. QueueOK
  BY NewRows, QueueAssumption DEF Init, QueueOK, Queue, Absent, NoGen
<1>2. DurableOK
  BY DEF Init, DurableOK, NoGen, NoTxn, Txn, Outcomes
<1>3. ProcessOK
  <2>1. NoProcess \in Process /\ NoProcess.st \notin LiveStates
    BY NewRows DEF NoProcess, Process, ProcStates, LiveStates, NoJob
  <2>. QED  BY <2>1, ExecutionAssumption DEF Init, ProcessOK, RootAlive, NoGen
<1>4. HostOK
  BY NewRows DEF Init, HostOK, NoBump, NoJob
<1>5. TickOK
  BY DEF Init, TickOK, Stages, Steps, NoJob
<1>6. RequestsSound
  BY AbsentSound DEF Init, RequestsSound, NoProcess, NoBump
<1>. QED  BY <1>1, <1>2, <1>3, <1>4, <1>5, <1>6 DEF IInv, TypeOK

\* Every step of the system keeps what it should.
LEMMA NextKept ==
  ASSUME IInv, Next
  PROVE  Kept
<1>1. CASE SupervisorStep
  BY <1>1, BootKept, RepairKept, TerminationKept, LostWorkerKept, MergeKept, AdmissionKept
     DEF SupervisorStep
<1>. QED  BY <1>1, FaultKept, WorkerKept, OperatorKept, HostKept DEF Next

\* So does a step that changes nothing.
LEMMA StutterKept ==
  ASSUME IInv, UNCHANGED vars
  PROVE  Kept
  BY QuietKept, Untouched DEF vars, processVars, hostVars

\* The inductive invariant holds always.
LEMMA Invariance == Spec => []IInv
<1>1. IInv /\ [Next]_vars => IInv'
  BY NextKept, StutterKept DEF Kept
<1>. QED  BY InitInv, <1>1, PTL DEF Spec

\* Every file, process record and part of the tick's memory has its type in
\* every reachable state, for any number of jobs, workers, crashes and reboots.
THEOREM TypeCorrect == Spec => []TypeOK
<1>1. IInv => TypeOK
  BY DEF IInv
<1>. QED  BY Invariance, <1>1, PTL

\* Whatever is lost, retried or restarted, no row kept anywhere (in queue.json, by
\* a worker, by a bump command) is pending or completed with a cancellation asked
\* for: queue.rs and job.rs never requeue or complete over a request.
THEOREM RequestsCorrect == Spec => []RequestsSound
<1>1. IInv => RequestsSound
  BY DEF IInv
<1>. QED  BY Invariance, <1>1, PTL

\* The disposition of an ended job is final: no late write of a worker, of the
\* supervisor or of a bump command changes it (the last clause of Queue::update).
THEOREM EndsAreFinal == Spec => TerminalFinal
<1>1. IInv /\ [Next]_vars
        => [\A j \in Job : Terminal(jobs[j])
              => jobs'[j].status \in {jobs[j].status, "absent"}]_vars
  BY NextKept DEF Kept, EndKept
<1>. QED  BY Invariance, <1>1, PTL DEF Spec, TerminalFinal

\* A requested cancellation of a running job survives, with its proof, every
\* concurrent write until the job is cancelled.
THEOREM CancellationsAreKept == Spec => CancelKept
<1>1. IInv /\ [Next]_vars
        => [\A j \in Job : CancelRequested(jobs[j])
              => /\ jobs'[j].status \in {"running", "cancelled", "absent"}
                 /\ Running(jobs'[j]) => jobs'[j].asked
                 /\ jobs[j].proof # NoProof /\ jobs'[j].status # "absent"
                      => jobs'[j].proof = jobs[j].proof]_vars
  BY NextKept DEF Kept, RequestKept
<1>. QED  BY Invariance, <1>1, PTL DEF Spec, CancelKept
=============================================================================
