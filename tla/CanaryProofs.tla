----------------------------- MODULE CanaryProofs -----------------------------
(***************************************************************************)
(* A canary job's receipts are true, its worker is launched once, and a    *)
(* cancellation that was accepted is kept: theorems of CanaryJob for any   *)
(* number of cancel commands and crashes and all times and limits.         *)
(***************************************************************************)
EXTENDS CanaryJob, FiniteSetTheorems, TLAPS

Receipts == [kind : Kinds, at : 0..MaxNow]
Last     == chain[Len(chain)]

-----------------------------------------------------------------------------
(* The invariant. *)

\* The chain begins with the prepared receipt; a request to cancel is answered
\* by an outcome; only a prepared job is cancelled before its launch.
ChainInv ==
  /\ ChainLoads
  /\ Len(chain) > 0 => chain[1] = Receipt("Prepared", 0)
  /\ \A i \in 1..(Len(chain) - 1) :
       /\ chain[i].kind \in Cancelling => chain[i + 1].kind \in Outcomes
       /\ chain[i + 1].kind = "CancelledBeforeLaunch" => i = 1
  /\ HeartbeatCount(Len(chain)) <= MaxHeartbeats

Launched == Len(chain) >= 2 /\ chain[2].kind = "Launching"

\* Whoever launches has claimed the launch, and nobody has launched before.
LaunchInv ==
  /\ worker # "none" => Launched
  /\ bound => worker # "none"
  /\ ~bound => worker \in {"none", "waiting", "dead"}
  /\ daemon \in {"expire", "claim"} => Len(chain) >= 1
  /\ daemon \in {"launch", "spawned", "bound"} => Launched /\ mark = 2 /\ clock = chain[2].at
  /\ daemon = "launch" => worker = "none"
  /\ daemon = "spawned" => worker # "none" /\ ~bound

\* The worker's records are written once; the daemon has read them or not.
RecordsInv ==
  /\ seen \in {NoCompletion, completion}
  /\ worker \in {"none", "waiting", "running", "recorded"} => completion = NoCompletion
  /\ worker = "recorded" \/ completion.code = 0 => artifact
  /\ worker = "exiting" => completion.code \in {0, 1}
  /\ worker = "done" => completion.code = 0
  /\ child => bound
  /\ bound /\ ~child /\ crashes = 0 => completion # NoCompletion \/ worker = "dead"
  /\ daemon = "observe" /\ ~child /\ crashes = 0 => seen # NoCompletion \/ worker = "dead"

\* Nothing of the job runs, and nothing of it will.
Quiet == worker \in {"done", "dead"} \/ (~bound /\ worker \in {"none", "waiting"})

\* A success of the worker's before its deadline and before a request in R.
Proven == completion.code = 0 /\ artifact /\ completion.at <= Deadline
Earlier(r) == r.kind \in Cancelling => completion.at < r.at

\* What may be said of a worker that ended as it should.
Tells(outcome) ==
  \/ outcome \in {"Succeeded", "CancellationUncertain"}
  \/ crashes > 0 /\ outcome = "Lost"

\* The daemon decides on what it has loaded.
VerdictInv ==
  /\ daemon = "reconcile" => Len(chain) >= 2
  /\ daemon \in {"read", "observe", "kill", "record"} =>
       /\ mark >= 2 /\ chain[mark].kind \notin Outcomes /\ clock >= chain[mark].at
  /\ daemon \in {"observe", "kill"} => bound
  /\ daemon = "kill" => verdict \in {"Cancelled", "HeartbeatLimit"}
  /\ daemon = "record" =>
       /\ verdict \in (Outcomes \ {"CancelledBeforeLaunch"}) \cup {"Running", "Heartbeat"}
       /\ verdict \notin Outcomes => chain[mark].kind \notin Cancelling
       /\ verdict = "Running" => chain[mark].kind = "Launching"
       /\ verdict = "Heartbeat" => chain[mark].kind \in Identified /\ HeartbeatLeft
       /\ verdict \in Outcomes \ {"CancellationUncertain"} => Quiet
       /\ verdict = "Succeeded" => Proven /\ Earlier(chain[mark])
       /\ verdict \in Outcomes /\ worker = "done" /\ completion.at < Deadline /\ Earlier(chain[mark])
            => Tells(verdict)

\* What the chain says at its end is so and stays so.
OutcomeInv ==
  Terminal(Len(chain)) =>
    /\ daemon \in {"idle", "expire", "claim"}
    /\ Last.kind # "CancellationUncertain" => Quiet
    /\ Last.kind = "Succeeded" => Proven /\ \A i \in 1..Len(chain) : Earlier(chain[i])
    /\ worker = "done" /\ completion.at < Deadline /\ (\A i \in 1..Len(chain) : Earlier(chain[i]))
         => Tells(Last.kind)

\* A command has found its request in the chain, or puts it where it may go.
CancelOne(r) ==
  /\ cancel[r].pc \in {"idle", "first", "early", "second", "put"} => cancel[r].tries < MaxTries
  /\ cancel[r].pc \in {"first", "early"} => Len(chain) >= 1
  /\ cancel[r].pc = "second" => Len(chain) >= 2
  /\ cancel[r].pc = "put" =>
       /\ cancel[r].mark >= 2 /\ cancel[r].at >= chain[cancel[r].mark].at
       /\ chain[cancel[r].mark].kind \notin Cancelling \cup Outcomes
  /\ cancel[r].pc = "ok" =>
       \/ Len(chain) >= 2 /\ chain[2].kind = "CancelledBeforeLaunch"
       \/ \E i \in 1..Len(chain) : chain[i].kind \in Cancelling /\ chain[i].at = cancel[r].at

CancelInv == \A r \in Requests : CancelOne(r)

CanaryInv ==
  /\ TypeOK /\ ChainInv /\ LaunchInv /\ RecordsInv /\ VerdictInv /\ OutcomeInv /\ CancelInv

-----------------------------------------------------------------------------
(* The chain grows at its end. *)

\* Receipt q may be put at the end of the chain.
Fits(q) ==
  /\ q \in Receipts /\ Len(chain) > 0 /\ Follows(Last, q)
  /\ Last.kind \in Cancelling => q.kind \in Outcomes
  /\ q.kind = "CancelledBeforeLaunch" => Len(chain) = 1
  /\ q.kind = "Heartbeat" => HeartbeatCount(Len(chain)) < MaxHeartbeats

Extended(q) == Fits(q) /\ chain' = Append(chain, q)

LEMMA Prefix ==
  ASSUME TypeOK, NEW q \in Receipts, chain' = Append(chain, q)
  PROVE  /\ chain' \in Seq(Receipts) /\ Len(chain) \in Nat /\ Len(chain') = Len(chain) + 1
         /\ \A i \in 1..Len(chain) : chain'[i] = chain[i]
         /\ chain'[Len(chain) + 1] = q
BY DEF TypeOK, Receipts

LEMMA Members ==
  ASSUME TypeOK
  PROVE  /\ chain \in Seq(Receipts) /\ Len(chain) \in Nat
         /\ \A i \in 1..Len(chain) : /\ chain[i] \in Receipts
                                     /\ chain[i].kind \in Kinds /\ chain[i].at \in 0..MaxNow
<1>1. chain \in Seq(Receipts)
  BY DEF TypeOK, Receipts
<1>2. \A i \in 1..Len(chain) : chain[i] \in Receipts
  BY <1>1
<1>. QED  BY <1>1, <1>2 DEF Receipts

\* The heartbeats of a prefix.
LEMMA Counted ==
  ASSUME TypeOK, NEW n \in 0..Len(chain)
  PROVE  /\ IsFiniteSet({i \in 1..n : Latest(i) = "Heartbeat"}) /\ HeartbeatCount(n) \in Nat
<1>1. n \in Nat
  BY DEF TypeOK
<1>2. IsFiniteSet(1..n)
  BY <1>1, FS_Interval
<1>3. IsFiniteSet({i \in 1..n : Latest(i) = "Heartbeat"})
  BY <1>2, FS_Subset
<1>. QED  BY <1>3, FS_CardinalityType DEF HeartbeatCount

LEMMA ChainStep ==
  ASSUME TypeOK, ChainInv, NEW q, Extended(q)
  PROVE  ChainInv'
<1>. DEFINE n == Len(chain)
<1>0. q \in Receipts /\ n \in Nat /\ n > 0 /\ Follows(chain[n], q)
  BY DEF Extended, Fits, Last, TypeOK
<1>1. /\ Len(chain') = n + 1 /\ \A i \in 1..n : chain'[i] = chain[i]
      /\ chain'[n + 1] = q
  BY <1>0, Prefix DEF Extended
<1>2. ChainLoads'
  <2>1. ASSUME NEW i \in 1..n PROVE Follows(chain'[i], chain'[i + 1])
    <3>1. CASE i = n
      BY <1>0, <1>1, <3>1
    <3>2. CASE i # n
      BY <1>0, <1>1, <3>2 DEF ChainInv, ChainLoads
    <3>. QED  BY <3>1, <3>2
  <2>. QED  BY <1>0, <1>1, <2>1 DEF ChainLoads, Follows
<1>3. Len(chain') > 0 => chain'[1] = Receipt("Prepared", 0)
  BY <1>0, <1>1 DEF ChainInv
<1>4. ASSUME NEW i \in 1..n
      PROVE  /\ chain'[i].kind \in Cancelling => chain'[i + 1].kind \in Outcomes
             /\ chain'[i + 1].kind = "CancelledBeforeLaunch" => i = 1
  <2>1. CASE i = n
    BY <1>0, <1>1, <2>1 DEF Extended, Fits, Last
  <2>2. CASE i # n
    BY <1>0, <1>1, <2>2 DEF ChainInv
  <2>. QED  BY <2>1, <2>2
<1>5. HeartbeatCount(Len(chain))' <= MaxHeartbeats
  <2>. DEFINE B == {i \in 1..n : chain[i].kind = "Heartbeat"}
              C == {i \in 1..(n + 1) : chain'[i].kind = "Heartbeat"}
  <2>0. HeartbeatCount(Len(chain))' = Cardinality(C)
    BY <1>1 DEF HeartbeatCount, Latest
  <2>1. IsFiniteSet(B) /\ Cardinality(B) \in Nat /\ Cardinality(B) <= MaxHeartbeats /\ MaxHeartbeats \in Nat
    <3>1. HeartbeatCount(Len(chain)) = Cardinality(B) /\ B = {i \in 1..Len(chain) : Latest(i) = "Heartbeat"}
      BY DEF HeartbeatCount, Latest
    <3>2. IsFiniteSet(B) /\ Cardinality(B) \in Nat
      <4>1. Len(chain) \in 0..Len(chain)
        BY <1>0
      <4>2. /\ IsFiniteSet({i \in 1..Len(chain) : Latest(i) = "Heartbeat"})
            /\ HeartbeatCount(Len(chain)) \in Nat
        BY <4>1, Counted
      <4>. QED  BY <3>1, <4>2
    <3>3. HeartbeatCount(Len(chain)) <= MaxHeartbeats /\ MaxHeartbeats \in Nat
      BY CanaryAssumption DEF ChainInv
    <3>. QED  BY <3>1, <3>2, <3>3
  <2>2. CASE q.kind = "Heartbeat"
    <3>1. C = B \cup {n + 1} /\ n + 1 \notin B
      <4>1. \A i : i \in C <=> i \in B \/ i = n + 1
        BY <1>0, <1>1, <2>2
      <4>. QED  BY <1>0, <4>1
    <3>2. Cardinality(C) = Cardinality(B) + 1
      BY <2>1, <3>1, FS_AddElement
    <3>3. Cardinality(B) < MaxHeartbeats
      BY <2>2 DEF Extended, Fits, HeartbeatCount, Latest
    <3>. QED  BY <2>0, <2>1, <3>2, <3>3
  <2>3. CASE q.kind # "Heartbeat"
    <3>1. C = B
      BY <1>0, <1>1, <2>3
    <3>. QED  BY <2>0, <2>1, <3>1
  <2>. QED  BY <2>2, <2>3
<1>. QED  BY <1>0, <1>1, <1>2, <1>3, <1>4, <1>5 DEF ChainInv

\* The chain is kept or extended.
Grew == chain' = chain \/ \E q : Extended(q)

LEMMA Growth ==
  ASSUME TypeOK, Grew
  PROVE  /\ chain' \in Seq(Receipts) /\ Len(chain) \in Nat /\ Len(chain') \in Nat
         /\ Len(chain') >= Len(chain)
         /\ \A i \in 1..Len(chain) : chain'[i] = chain[i]
<1>1. CASE chain' = chain
  BY <1>1, Members
<1>2. ASSUME NEW q, Extended(q)
      PROVE  /\ chain' \in Seq(Receipts) /\ Len(chain') = Len(chain) + 1
             /\ \A i \in 1..Len(chain) : chain'[i] = chain[i]
  BY <1>2, Prefix DEF Extended, Fits
<1>. QED  BY <1>1, <1>2, Members DEF Grew

\* A put creates a receipt that fits, or meets another and creates nothing.
LEMMA Placed ==
  ASSUME NEW n, NEW kind, NEW at, Put(n, kind, at), Len(chain) = n => Fits(Receipt(kind, at))
  PROVE  /\ Grew
         /\ Len(chain) = n => Extended(Receipt(kind, at))
         /\ Len(chain) # n => chain' = chain
BY DEF Put, Grew, Extended

-----------------------------------------------------------------------------
(* What is put fits. *)

LEMMA ClockType ==
  ASSUME TypeOK PROVE clock \in 0..MaxNow /\ now \in 0..MaxNow /\ MaxNow \in Nat
BY CanaryAssumption DEF TypeOK

LEMMA ExpireFits ==
  ASSUME CanaryInv, Expire
  PROVE  Len(chain) = 1 => Fits(Receipt("CancelledBeforeLaunch", clock))
<1>1. SUFFICES ASSUME Len(chain) = 1 PROVE Fits(Receipt("CancelledBeforeLaunch", clock))
  OBVIOUS
<1>2. Last = Receipt("Prepared", 0)
  BY <1>1 DEF CanaryInv, ChainInv, Last
<1>3. clock \in 0..MaxNow
  BY ClockType DEF CanaryInv
<1>. QED  BY <1>1, <1>2, <1>3 DEF Fits, Follows, Receipt, Receipts, Kinds, Outcomes, Cancelling

LEMMA ClaimFits ==
  ASSUME CanaryInv, Claim
  PROVE  Len(chain) = 1 => Fits(Receipt("Launching", clock))
<1>1. SUFFICES ASSUME Len(chain) = 1 PROVE Fits(Receipt("Launching", clock))
  OBVIOUS
<1>2. Last = Receipt("Prepared", 0)
  BY <1>1 DEF CanaryInv, ChainInv, Last
<1>3. clock \in 0..MaxNow
  BY ClockType DEF CanaryInv
<1>. QED  BY <1>1, <1>2, <1>3 DEF Fits, Follows, Receipt, Receipts, Kinds, Outcomes, Cancelling

LEMMA EarlyFits ==
  ASSUME CanaryInv, NEW r \in Requests, CancelEarly(r)
  PROVE  Len(chain) = 1 => Fits(Receipt("CancelledBeforeLaunch", cancel[r].at))
<1>1. SUFFICES ASSUME Len(chain) = 1 PROVE Fits(Receipt("CancelledBeforeLaunch", cancel[r].at))
  OBVIOUS
<1>2. Last = Receipt("Prepared", 0)
  BY <1>1 DEF CanaryInv, ChainInv, Last
<1>3. cancel[r].at \in 0..MaxNow
  BY DEF CanaryInv, TypeOK
<1>. QED  BY <1>1, <1>2, <1>3 DEF Fits, Follows, Receipt, Receipts, Kinds, Outcomes, Cancelling

LEMMA RunningFits ==
  ASSUME CanaryInv, RecordRunning
  PROVE  Len(chain) = mark => Fits(Receipt("Running", clock))
<1>1. SUFFICES ASSUME Len(chain) = 2 PROVE Fits(Receipt("Running", clock))
  BY DEF CanaryInv, LaunchInv, RecordRunning
<1>2. Last.kind = "Launching" /\ Last.at = clock
  BY <1>1 DEF CanaryInv, LaunchInv, RecordRunning, Launched, Last
<1>3. clock \in 0..MaxNow
  BY ClockType DEF CanaryInv
<1>. QED  BY <1>1, <1>2, <1>3 DEF Fits, Follows, Receipt, Receipts, Kinds, Identified, Outcomes, Cancelling

\* Where kinds of receipts stand.
LEMMA Places ==
  ASSUME CanaryInv, NEW i \in 1..Len(chain)
  PROVE  /\ chain[i].kind = "Prepared" <=> i = 1
         /\ chain[i].kind = "Launching" => i = 2
         /\ chain[i].kind = "Running" => i = 3
         /\ chain[i].kind \in Outcomes => i = Len(chain)
         /\ i = 2 => chain[i].kind \in Outcomes \cup {"Launching"}
<1>0. Len(chain) \in Nat /\ \A j \in 1..Len(chain) : chain[j].kind \in Kinds
  BY Members DEF CanaryInv
<1>1. chain[1].kind = "Prepared"
  BY <1>0 DEF CanaryInv, ChainInv, Receipt
<1>2. \A j \in 2..Len(chain) : Follows(chain[j - 1], chain[j])
  <2>1. ASSUME NEW j \in 2..Len(chain) PROVE Follows(chain[j - 1], chain[j])
    <3>1. j - 1 \in 1..(Len(chain) - 1) /\ (j - 1) + 1 = j
      BY <1>0
    <3>. QED  BY <3>1 DEF CanaryInv, ChainInv, ChainLoads
  <2>. QED  BY <2>1
<1>3. \A j \in 1..Len(chain) : chain[j].kind = "Prepared" <=> j = 1
  BY <1>0, <1>1, <1>2 DEF Follows
<1>4. \A j \in 1..Len(chain) : chain[j].kind = "Launching" => j = 2
  <2>1. ASSUME NEW j \in 1..Len(chain), chain[j].kind = "Launching" PROVE j = 2
    <3>1. j \in 2..Len(chain) /\ j - 1 \in 1..Len(chain)
      BY <1>0, <1>1, <2>1
    <3>2. chain[j - 1].kind = "Prepared"
      BY <1>2, <2>1, <3>1 DEF Follows
    <3>. QED  BY <1>0, <1>3, <3>1, <3>2
  <2>. QED  BY <2>1
<1>5. chain[i].kind = "Running" => i = 3
  <2>1. SUFFICES ASSUME chain[i].kind = "Running" PROVE i = 3
    OBVIOUS
  <2>2. i \in 2..Len(chain) /\ i - 1 \in 1..Len(chain)
    BY <1>0, <1>1, <2>1
  <2>3. chain[i - 1].kind = "Launching"
    BY <1>2, <2>1, <2>2 DEF Follows
  <2>. QED  BY <1>0, <1>4, <2>2, <2>3
<1>6. chain[i].kind \in Outcomes => i = Len(chain)
  <2>1. SUFFICES ASSUME chain[i].kind \in Outcomes, i # Len(chain) PROVE FALSE
    OBVIOUS
  <2>2. i + 1 \in 2..Len(chain) /\ (i + 1) - 1 = i
    BY <1>0, <2>1
  <2>3. Follows(chain[i], chain[i + 1])
    BY <1>2, <2>2
  <2>. QED  BY <2>1, <2>3 DEF Follows
<1>7. i = 2 => chain[i].kind \in Outcomes \cup {"Launching"}
  <2>1. SUFFICES ASSUME i = 2 PROVE chain[2].kind \in Outcomes \cup {"Launching"}
    OBVIOUS
  <2>2. Follows(chain[1], chain[2]) /\ chain[2].kind \in Kinds
    BY <1>0, <1>2, <2>1
  <2>. QED  BY <1>1, <2>2 DEF Follows, Kinds, Identified, Cancelling, Outcomes
<1>. QED  BY <1>3, <1>4, <1>5, <1>6, <1>7

LEMMA RecordFits ==
  ASSUME CanaryInv, Record
  PROVE  Len(chain) = mark
           => Fits(Receipt(verdict, IF verdict = "Running" THEN chain[2].at ELSE clock))
<1>1. SUFFICES ASSUME Len(chain) = mark
               PROVE  Fits(Receipt(verdict, IF verdict = "Running" THEN chain[2].at ELSE clock))
  OBVIOUS
<1>2. /\ mark >= 2 /\ Last.kind \notin Outcomes /\ clock >= Last.at
      /\ verdict \in (Outcomes \ {"CancelledBeforeLaunch"}) \cup {"Running", "Heartbeat"}
      /\ verdict \notin Outcomes => Last.kind \notin Cancelling
      /\ verdict = "Running" => Last.kind = "Launching"
      /\ verdict = "Heartbeat" => Last.kind \in Identified /\ HeartbeatCount(Len(chain)) < MaxHeartbeats
  BY <1>1 DEF CanaryInv, VerdictInv, Record, Last, HeartbeatLeft
<1>3. /\ Len(chain) \in 1..Len(chain) /\ Len(chain) \in Nat /\ Len(chain) >= 2
      /\ Last \in Receipts /\ Last.kind \in Kinds /\ Last.at \in 0..MaxNow
  BY <1>1, <1>2, Members DEF CanaryInv, Last
<1>4. clock \in 0..MaxNow
  BY ClockType DEF CanaryInv
<1>5. Last.kind # "Prepared" /\ (Last.kind = "Launching" => chain[2] = Last)
  BY <1>3, Places DEF Last
<1>6. CASE verdict = "Running"
  BY <1>2, <1>3, <1>4, <1>5, <1>6
     DEF Fits, Follows, Receipt, Receipts, Kinds, Identified, Outcomes, Cancelling
<1>7. CASE verdict # "Running"
  BY <1>2, <1>3, <1>4, <1>5, <1>7
     DEF Fits, Follows, Receipt, Receipts, Kinds, Identified, Outcomes, Cancelling
<1>. QED  BY <1>6, <1>7

CancelKind(r) ==
  IF HasIdentity(cancel[r].mark) THEN "CancellationRequested"
  ELSE "CancellationRequestedBeforeIdentity"

LEMMA CancelFits ==
  ASSUME CanaryInv, NEW r \in Requests, CancelPut(r)
  PROVE  Len(chain) = cancel[r].mark => Fits(Receipt(CancelKind(r), cancel[r].at))
<1>1. SUFFICES ASSUME Len(chain) = cancel[r].mark
               PROVE  Fits(Receipt(CancelKind(r), cancel[r].at))
  OBVIOUS
<1>2. cancel[r].pc = "put" /\ cancel[r].at \in 0..MaxNow
  BY DEF CancelPut, CanaryInv, TypeOK
<1>3. Len(chain) >= 2 /\ cancel[r].at >= Last.at /\ Last.kind \notin Cancelling \cup Outcomes
  BY <1>1, <1>2 DEF CanaryInv, CancelInv, CancelOne, Last
<1>4. /\ Len(chain) \in 1..Len(chain) /\ Len(chain) \in Nat
      /\ Last \in Receipts /\ Last.kind \in Kinds /\ Last.at \in 0..MaxNow
  BY <1>3, Members DEF CanaryInv, Last
<1>5. Last.kind # "Prepared" /\ (Last.kind = "Launching" => Len(chain) = 2)
  BY <1>3, <1>4, Places DEF Last
<1>6. CASE HasIdentity(cancel[r].mark)
  <2>1. PICK i \in 1..Len(chain) : chain[i].kind \in Identified
    BY <1>1, <1>6 DEF HasIdentity, Latest
  <2>2. i # 1 /\ i # 2
    <3>1. /\ chain[i].kind = "Prepared" <=> i = 1
          /\ i = 2 => chain[i].kind \in Outcomes \cup {"Launching"}
      BY <2>1, Places
    <3>. QED  BY <2>1, <3>1 DEF Identified, Outcomes
  <2>3. Last.kind # "Launching"
    BY <1>4, <1>5, <2>1, <2>2
  <2>4. Last.kind \in Identified
    BY <1>3, <1>4, <1>5, <2>3 DEF Kinds
  <2>. QED  BY <1>2, <1>3, <1>4, <1>6, <2>4
            DEF CancelKind, Fits, Follows, Receipt, Receipts, Kinds, Identified, Outcomes, Cancelling
<1>7. CASE ~HasIdentity(cancel[r].mark)
  <2>1. Last.kind \notin Identified
    BY <1>1, <1>4, <1>7 DEF HasIdentity, Latest, Last
  <2>2. Last.kind = "Launching"
    BY <1>3, <1>4, <1>5, <2>1 DEF Kinds
  <2>. QED  BY <1>2, <1>3, <1>4, <1>7, <2>2
            DEF CancelKind, Fits, Follows, Receipt, Receipts, Kinds, Identified, Outcomes, Cancelling
<1>. QED  BY <1>6, <1>7

\* The actions that put a receipt keep the chain or extend it by what they put.
LEMMA Puts ==
  ASSUME CanaryInv, Expire \/ Claim \/ RecordRunning \/ Record \/ \E r \in Requests : CancelEarly(r) \/ CancelPut(r)
  PROVE  Grew
<1>1. CASE Expire
  BY <1>1, ExpireFits, Placed DEF Expire
<1>2. CASE Claim
  BY <1>2, ClaimFits, Placed DEF Claim
<1>3. CASE RecordRunning
  BY <1>3, RunningFits, Placed DEF RecordRunning
<1>4. CASE Record
  BY <1>4, RecordFits, Placed DEF Record
<1>5. ASSUME NEW r \in Requests, CancelEarly(r) PROVE Grew
  BY <1>5, EarlyFits, Placed DEF CancelEarly
<1>6. ASSUME NEW r \in Requests, CancelPut(r) PROVE Grew
  <2>1. Put(cancel[r].mark, CancelKind(r), cancel[r].at)
    BY <1>6 DEF CancelPut, CancelKind
  <2>. QED  BY <1>6, <2>1, CancelFits, Placed
<1>. QED  BY <1>1, <1>2, <1>3, <1>4, <1>5, <1>6

-----------------------------------------------------------------------------
(* Type correctness. *)

LEMMA CanaryInit ==
  ASSUME Init PROVE CanaryInv
<1>. USE CanaryAssumption DEF Init
<1>1. TypeOK
  <2>1. chain \in Seq([kind : Kinds, at : 0..MaxNow]) /\ Len(chain) = 0
    OBVIOUS
  <2>2. {completion, seen} \subseteq [code : -1..1, at : 0..MaxNow]
    BY DEF NoCompletion
  <2>3. cancel \in [Requests -> [pc : {"idle", "first", "early", "second", "put", "ok", "lost",
                                       "refused", "conflict"},
                                 at : 0..MaxNow, mark : 0..Len(chain), tries : 0..MaxTries]]
    BY <2>1
  <2>4. artifact \in BOOLEAN /\ bound \in BOOLEAN /\ child \in BOOLEAN
    OBVIOUS
  <2>5. now \in 0..MaxNow /\ clock \in 0..now /\ mark \in 0..Len(chain) /\ crashes \in 0..MaxCrashes
    BY <2>1
  <2>6. /\ worker \in {"none", "waiting", "running", "recorded", "exiting", "done", "dead"}
        /\ daemon \in {"idle", "expire", "claim", "launch", "spawned", "bound", "reconcile", "read",
                       "observe", "kill", "record"}
        /\ verdict \in Kinds \cup {None}
    OBVIOUS
  <2>. QED  BY <2>1, <2>2, <2>3, <2>4, <2>5, <2>6 DEF TypeOK
<1>2. ChainInv
  <2>1. HeartbeatCount(Len(chain)) = 0
    <3>1. {i \in 1..0 : Latest(i) = "Heartbeat"} = {}
      OBVIOUS
    <3>. QED  BY <3>1, FS_EmptySet DEF HeartbeatCount
  <2>. QED  BY <2>1 DEF ChainInv, ChainLoads
<1>3. LaunchInv /\ RecordsInv /\ VerdictInv
  BY DEF LaunchInv, RecordsInv, VerdictInv, NoCompletion
<1>4. OutcomeInv /\ CancelInv
  BY DEF OutcomeInv, Terminal, CancelInv, CancelOne
<1>. QED  BY <1>1, <1>2, <1>3, <1>4 DEF CanaryInv

\* The places that were loaded stay in the chain.
LEMMA KeptTypes ==
  ASSUME TypeOK, Grew
  PROVE  /\ chain' \in Seq([kind : Kinds, at : 0..MaxNow])
         /\ mark \in 0..Len(chain')
         /\ \A r \in Requests : cancel[r].mark \in 0..Len(chain')
BY Growth DEF TypeOK, Receipts

\* What a cancel command keeps has its type.
LEMMA CancelTypes ==
  ASSUME TypeOK, Grew, NEW r \in Requests, NEW c, cancel' = [cancel EXCEPT ![r] = c],
         c.pc \in {"idle", "first", "early", "second", "put", "ok", "lost", "refused", "conflict"},
         c = [pc |-> c.pc, at |-> c.at, mark |-> c.mark, tries |-> c.tries],
         c.at \in 0..MaxNow, c.mark \in 0..Len(chain), c.tries \in 0..MaxTries
  PROVE  cancel' \in [Requests -> [pc : {"idle", "first", "early", "second", "put", "ok", "lost",
                                        "refused", "conflict"},
                                   at : 0..MaxNow, mark : 0..Len(chain'), tries : 0..MaxTries]]
BY Growth, KeptTypes DEF TypeOK

CancelRecords ==
  [pc : {"idle", "first", "early", "second", "put", "ok", "lost", "refused", "conflict"},
   at : 0..MaxNow, mark : 0..Len(chain), tries : 0..MaxTries]

LEMMA CancelKeptType ==
  ASSUME TypeOK, Grew, cancel' = cancel
  PROVE  cancel' \in [Requests -> CancelRecords']
BY Growth DEF TypeOK, CancelRecords

DaemonPcs == {"idle", "expire", "claim", "launch", "spawned", "bound", "reconcile", "read",
              "observe", "kill", "record"}

\* What the daemon keeps of its tick has its type.
DaemonType ==
  /\ daemon \in DaemonPcs /\ verdict \in Kinds \cup {None}
  /\ clock \in 0..now /\ mark \in 0..Len(chain) /\ seen \in [code : -1..1, at : 0..MaxNow]

WorkerType ==
  /\ worker \in {"none", "waiting", "running", "recorded", "exiting", "done", "dead"}
  /\ completion \in [code : -1..1, at : 0..MaxNow]
  /\ artifact \in BOOLEAN /\ bound \in BOOLEAN

Slots == {"free", "mine", "other"}

LEMMA Types ==
  TypeOK <=> /\ chain \in Seq(Receipts) /\ DaemonType /\ WorkerType /\ child \in BOOLEAN
             /\ now \in 0..MaxNow /\ crashes \in 0..MaxCrashes
             /\ cancel \in [Requests -> CancelRecords] /\ slot \in Slots
BY DEF TypeOK, Receipts, DaemonType, WorkerType, CancelRecords, DaemonPcs, Slots

LEMMA NextTypes ==
  ASSUME chain' \in Seq(Receipts), DaemonType', WorkerType', child' \in BOOLEAN,
         now' \in 0..MaxNow, crashes' \in 0..MaxCrashes,
         cancel' \in [Requests -> CancelRecords'], slot' \in Slots
  PROVE  TypeOK'
BY DEF TypeOK, Receipts, DaemonType, WorkerType, CancelRecords, DaemonPcs, Slots

\* A tick claims the slot, keeps it or gives it back.
LEMMA DaemonSlot ==
  ASSUME TypeOK, Daemon \/ ObserveFails
  PROVE  slot' \in Slots
<1>1. slot' \in {slot, "mine", "free"}
  BY DEF Daemon, Tick, Expire, Claim, Spawn, Bind, RecordRunning, Load, ReadRecords,
         Reap, Observe, Kill, Record, ObserveFails, Releases
<1>. QED  BY <1>1, Types DEF Slots

\* The daemon's variables when its tick is over.
LEMMA ReturnsType ==
  ASSUME TypeOK, Grew, Returns, now' \in 0..MaxNow
  PROVE  DaemonType'
<1>1. Len(chain') \in Nat /\ MaxNow \in Nat
  BY Growth, CanaryAssumption
<1>2. /\ daemon' \in DaemonPcs /\ verdict' \in Kinds \cup {None}
      /\ seen' \in [code : -1..1, at : 0..MaxNow]
  BY <1>1 DEF Returns, DaemonPcs, NoCompletion
<1>3. clock' \in 0..now' /\ mark' \in 0..Len(chain')
  BY <1>1 DEF Returns
<1>. QED  BY <1>2, <1>3 DEF DaemonType

LEMMA DaemonKept ==
  ASSUME TypeOK, Grew, UNCHANGED <<daemon, localVars>>, now' \in 0..MaxNow, now' >= now
  PROVE  DaemonType'
<1>1. /\ mark' \in 0..Len(chain') /\ clock' \in 0..now'
  BY KeptTypes, ClockType DEF TypeOK, localVars, readVars
<1>2. /\ daemon' \in DaemonPcs /\ verdict' \in Kinds \cup {None}
      /\ seen' \in [code : -1..1, at : 0..MaxNow]
  BY DEF TypeOK, localVars, readVars, DaemonPcs
<1>. QED  BY <1>1, <1>2 DEF DaemonType

\* An exit, or a conclusion, sets the daemon's next step.
LEMMA ConcludesType ==
  ASSUME TypeOK, NEW outcome \in Kinds, Concludes(outcome), chain' = chain, now' = now
  PROVE  DaemonType'
BY DEF TypeOK, Concludes, readVars, DaemonType, DaemonPcs

LEMMA ExitedType ==
  ASSUME TypeOK, NEW c, Exited(c), chain' = chain, now' = now
  PROVE  DaemonType'
<1>1. {"Cancelled", "Succeeded", "Failed"} \subseteq Kinds
  BY DEF Kinds, Outcomes
<1>2. CASE Returns
  BY <1>2, ReturnsType DEF TypeOK, Grew
<1>3. ASSUME NEW o \in {"Cancelled", "Succeeded", "Failed"}, Concludes(o) PROVE DaemonType'
  BY <1>1, <1>3, ConcludesType
<1>. QED  BY <1>2, <1>3 DEF Exited

LEMMA DaemonGrows ==
  ASSUME CanaryInv, Daemon \/ ObserveFails
  PROVE  Grew
BY Puts DEF Daemon, ObserveFails, Tick, Spawn, Bind, Load, ReadRecords, Reap, Observe, Kill, Grew

LEMMA DaemonTypes ==
  ASSUME CanaryInv, Daemon \/ ObserveFails
  PROVE  TypeOK'
<1>. USE DEF workerVars
<1>0. TypeOK /\ now \in 0..MaxNow /\ MaxNow \in Nat
  BY ClockType DEF CanaryInv
<1>1. Grew /\ chain' \in Seq(Receipts)
  BY <1>0, DaemonGrows, Growth
<1>2. now' = now /\ crashes' = crashes /\ cancel' = cancel
  BY DEF Daemon, Tick, Expire, Claim, Spawn, Bind, RecordRunning, Load, ReadRecords, Reap, Observe,
         Kill, Record, ObserveFails
<1>3. /\ now' \in 0..MaxNow /\ crashes' \in 0..MaxCrashes
      /\ cancel' \in [Requests -> CancelRecords']
  BY <1>0, <1>1, <1>2, CancelKeptType DEF TypeOK
<1>4. WorkerType'
  <2>1. CASE Reap
    <3>1. [code |-> 1, at |-> now] \in [code : -1..1, at : 0..MaxNow]
      BY <1>0
    <3>2. completion' \in [code : -1..1, at : 0..MaxNow]
      BY <1>0, <2>1, <3>1 DEF Reap, TypeOK
    <3>. QED  BY <1>0, <2>1, <3>2 DEF WorkerType, TypeOK, Reap
  <2>2. CASE Spawn \/ Bind \/ Kill
    BY <1>0, <2>2 DEF WorkerType, TypeOK, Spawn, Bind, Kill
  <2>3. CASE UNCHANGED <<workerVars, bound>>
    BY <1>0, <2>3 DEF WorkerType, TypeOK
  <2>. QED  BY <2>1, <2>2, <2>3
            DEF Daemon, Tick, Expire, Claim, RecordRunning, Load, ReadRecords, Observe, Record,
                ObserveFails
<1>5. child' \in BOOLEAN
  BY <1>0 DEF TypeOK, Daemon, Tick, Expire, Claim, Spawn, Bind, RecordRunning, Load, ReadRecords,
              Reap, Observe, Kill, Record, ObserveFails
<1>6. DaemonType'
  <2>1. CASE Returns
    BY <1>0, <1>1, <1>3, <2>1, ReturnsType
  <2>2. CASE Tick
    BY <1>0, <1>3, <2>2 DEF Tick, TypeOK, DaemonType, DaemonPcs
  <2>3. CASE Claim /\ ~Returns
    <3>1. mark' = 2 /\ Len(chain) = 1 /\ Put(1, "Launching", clock)
      BY <2>3 DEF Claim
    <3>2. Extended(Receipt("Launching", clock))
      BY <2>3, <3>1, ClaimFits, Placed
    <3>3. Len(chain') = 2
      BY <1>0, <3>1, <3>2, Prefix DEF Extended, Fits
    <3>. QED  BY <1>0, <1>2, <2>3, <3>1, <3>3 DEF Claim, TypeOK, DaemonType, DaemonPcs
  <2>4. CASE (Spawn \/ Bind) /\ ~Returns
    BY <1>0, <1>2, <2>4 DEF Spawn, Bind, TypeOK, DaemonType, DaemonPcs, localVars, readVars
  <2>5. CASE Load /\ ~Returns
    BY <1>0, <1>2, <2>5, Members DEF Load, TypeOK, DaemonType, DaemonPcs
  <2>6. CASE ReadRecords
    <3>1. CASE bound
      BY <1>0, <1>2, <2>6, <3>1 DEF ReadRecords, TypeOK, DaemonType, DaemonPcs
    <3>2. CASE ~bound
      BY <1>0, <1>2, <2>6, <3>2, ConcludesType DEF ReadRecords, Kinds, Outcomes
    <3>. QED  BY <3>1, <3>2
  <2>7. CASE Reap /\ ~Returns
    BY <1>0, <1>2, <2>7, ExitedType DEF Reap
  <2>8. CASE Observe /\ ~Returns
    <3>1. chain' = chain
      BY <2>8 DEF Observe
    <3>2. CASE Exited(seen)
      BY <1>0, <1>2, <3>1, <3>2, ExitedType
    <3>3. CASE Concludes("Lost")
      BY <1>0, <1>2, <3>1, <3>3, ConcludesType DEF Kinds, Outcomes
    <3>4. CASE ObservedAlive
      <4>1. CASE Concludes(IF HasIdentity(mark) THEN "Heartbeat" ELSE "Running")
        <5>1. (IF HasIdentity(mark) THEN "Heartbeat" ELSE "Running") \in Kinds
          BY DEF Kinds, Identified
        <5>. QED  BY <1>0, <1>2, <3>1, <4>1, <5>1, ConcludesType
      <4>2. CASE daemon' = "kill" /\ verdict' \in {"Cancelled", "HeartbeatLimit"} /\ UNCHANGED readVars
        BY <1>0, <1>2, <3>1, <4>2 DEF TypeOK, DaemonType, DaemonPcs, Kinds, Outcomes, readVars
      <4>. QED  BY <2>8, <3>4, <4>1, <4>2 DEF ObservedAlive
    <3>. QED  BY <2>8, <3>2, <3>3, <3>4 DEF Observe
  <2>9. CASE Kill
    BY <1>0, <1>2, <2>9 DEF Kill, TypeOK, DaemonType, DaemonPcs, Kinds, Outcomes
  <2>. QED  BY <2>1, <2>2, <2>3, <2>4, <2>5, <2>6, <2>7, <2>8, <2>9
            DEF Daemon, Expire, RecordRunning, Record, ObserveFails
<1>7. slot' \in Slots
  BY <1>0, DaemonSlot
<1>. QED  BY <1>1, <1>3, <1>4, <1>5, <1>6, <1>7, NextTypes

WorkerActs == Verify \/ RecordArtifact \/ Complete \/ Exit \/ WorkerDies

LEMMA WorkerTypes ==
  ASSUME TypeOK, WorkerActs
  PROVE  TypeOK'
<1>1. Grew /\ UNCHANGED <<chain, bound, now, daemon, child, localVars, cancel, slot, crashes>>
  BY DEF WorkerActs, Verify, RecordArtifact, Complete, Exit, WorkerDies, Grew
<1>2. now \in 0..MaxNow /\ MaxNow \in Nat
  BY ClockType
<1>3. WorkerType'
  <2>1. completion' \in [code : -1..1, at : 0..MaxNow]
    <3>1. {[code |-> 0, at |-> now], [code |-> 1, at |-> now]} \subseteq [code : -1..1, at : 0..MaxNow]
      BY <1>2
    <3>. QED  BY <3>1 DEF TypeOK, WorkerActs, Verify, RecordArtifact, Complete, Exit, WorkerDies
  <2>. QED  BY <2>1
            DEF TypeOK, WorkerType, WorkerActs, Verify, RecordArtifact, Complete, Exit, WorkerDies
<1>4. DaemonType'
  BY <1>1, <1>2, DaemonKept
<1>5. cancel' \in [Requests -> CancelRecords']
  BY <1>1, CancelKeptType
<1>6. chain' \in Seq(Receipts)
  BY <1>1, Growth
<1>. QED  BY <1>1, <1>3, <1>4, <1>5, <1>6, NextTypes DEF TypeOK, Slots

\* Only r's record changes, within its type.
Own(r) ==
  /\ cancel' \in [Requests -> CancelRecords]
  /\ \A x \in Requests \ {r} : cancel'[x] = cancel[x]

\* A cancel command changes the chain, by what fits it, and its own record.
LEMMA CancelMoves ==
  ASSUME CanaryInv, NEW r \in Requests, Cancel(r)
  PROVE  /\ Grew /\ UNCHANGED notCancel
         /\ Own(r)
<1>0. cancel \in [Requests -> CancelRecords] /\ Len(chain) \in Nat /\ now \in 0..MaxNow /\ MaxTries \in Nat
  BY Types, Members, ClockType, CanaryAssumption DEF CanaryInv
<1>1. Grew /\ UNCHANGED notCancel
  BY Puts DEF Cancel, CancelBegin, CancelFirst, CancelEarly, CancelSecond, CancelPut, Grew
<1>. DEFINE pcs == {"idle", "first", "early", "second", "put", "ok", "lost", "refused", "conflict"}
<1>2. ASSUME NEW pc \in pcs, Goes(r, pc)
      PROVE Own(r)
  BY <1>0, <1>2 DEF Goes, Own, CancelRecords
<1>3. ASSUME Keeps(r, "put")
      PROVE Own(r)
  <2>. DEFINE c == [pc |-> "put", at |-> cancel[r].at, mark |-> Len(chain), tries |-> cancel[r].tries]
  <2>1. c \in CancelRecords /\ cancel[r] = [pc |-> cancel[r].pc, at |-> cancel[r].at,
                                        mark |-> cancel[r].mark, tries |-> cancel[r].tries]
    BY <1>0 DEF CancelRecords
  <2>2. cancel'[r] = c /\ \A x \in Requests \ {r} : cancel'[x] = cancel[x]
    BY <1>0, <1>3, <2>1 DEF Keeps
  <2>3. cancel' = [x \in Requests |-> cancel'[x]]
    BY <1>0, <1>3 DEF Keeps
  <2>. QED  BY <1>0, <2>1, <2>2, <2>3 DEF Own
<1>4. ASSUME Retry(r), cancel[r].tries < MaxTries
      PROVE Own(r)
  <2>. DEFINE pc == IF cancel[r].tries + 1 < MaxTries THEN "first" ELSE "conflict"
              c  == [pc |-> pc, at |-> cancel[r].at, mark |-> cancel[r].mark, tries |-> cancel[r].tries + 1]
  <2>1. c \in CancelRecords /\ cancel[r] = [pc |-> cancel[r].pc, at |-> cancel[r].at,
                                        mark |-> cancel[r].mark, tries |-> cancel[r].tries]
    BY <1>0, <1>4 DEF CancelRecords
  <2>2. cancel'[r] = c /\ \A x \in Requests \ {r} : cancel'[x] = cancel[x]
    BY <1>0, <1>4, <2>1 DEF Retry
  <2>3. cancel' = [x \in Requests |-> cancel'[x]]
    BY <1>0, <1>4 DEF Retry
  <2>. QED  BY <1>0, <2>1, <2>2, <2>3 DEF Own
<1>5. cancel[r].pc \in {"idle", "second", "put"} => cancel[r].tries < MaxTries
  BY DEF CanaryInv, CancelInv, CancelOne
<1>6. CASE CancelBegin(r)
  <2>. DEFINE c == [pc |-> "first", at |-> now, mark |-> cancel[r].mark, tries |-> cancel[r].tries]
  <2>1. c \in CancelRecords /\ cancel[r] = [pc |-> cancel[r].pc, at |-> cancel[r].at,
                                        mark |-> cancel[r].mark, tries |-> cancel[r].tries]
    BY <1>0 DEF CancelRecords
  <2>2. cancel'[r] = c /\ \A x \in Requests \ {r} : cancel'[x] = cancel[x]
    BY <1>0, <1>6, <2>1 DEF CancelBegin
  <2>3. cancel' = [x \in Requests |-> cancel'[x]]
    BY <1>0, <1>6 DEF CancelBegin
  <2>. QED  BY <1>0, <1>1, <2>1, <2>2, <2>3 DEF Own
<1>7. CASE CancelFirst(r)
  BY <1>1, <1>2, <1>7 DEF CancelFirst
<1>8. CASE CancelEarly(r)
  BY <1>1, <1>2, <1>8 DEF CancelEarly
<1>9. CASE CancelSecond(r)
  BY <1>1, <1>2, <1>3, <1>4, <1>5, <1>9 DEF CancelSecond
<1>10. CASE CancelPut(r)
  BY <1>1, <1>2, <1>4, <1>5, <1>10 DEF CancelPut
<1>. QED  BY <1>6, <1>7, <1>8, <1>9, <1>10 DEF Cancel

LEMMA CancelsTyped ==
  ASSUME CanaryInv, NEW r \in Requests, Cancel(r)
  PROVE  TypeOK'
<1>1. /\ TypeOK /\ Grew /\ UNCHANGED notCancel
      /\ Own(r)
  BY CancelMoves DEF CanaryInv
<1>2. chain' \in Seq(Receipts) /\ CancelRecords \subseteq CancelRecords'
  BY <1>1, Growth DEF CancelRecords
<1>3. cancel' \in [Requests -> CancelRecords']
  BY <1>1, <1>2 DEF Own
<1>4. DaemonType' /\ WorkerType' /\ now' \in 0..MaxNow
  <2>1. now' = now /\ now \in 0..MaxNow /\ UNCHANGED <<daemon, localVars>>
    BY <1>1, ClockType DEF notCancel
  <2>2. now' \in 0..MaxNow /\ now' >= now
    BY <2>1
  <2>3. DaemonType'
    BY <1>1, <2>1, <2>2, DaemonKept
  <2>. QED  BY <1>1, <2>2, <2>3, Types DEF notCancel, workerVars, WorkerType
<1>. QED  BY <1>1, <1>2, <1>3, <1>4, NextTypes, Types DEF notCancel

LEMMA OtherTypes ==
  ASSUME TypeOK, Submit \/ SlotMoves \/ Advance \/ Crash
  PROVE  TypeOK'
<1>0. now \in 0..MaxNow /\ MaxNow \in Nat /\ MaxCrashes \in Nat /\ Len(chain) \in Nat
  BY ClockType, Members, CanaryAssumption
<1>1. CASE Submit
  <2>1. Receipt("Prepared", 0) \in Receipts
    BY <1>0 DEF Receipt, Receipts, Kinds
  <2>2. chain' \in Seq(Receipts) /\ Len(chain) = 0 /\ Len(chain') = 1
    BY <1>1, <2>1 DEF Submit
  <2>3. mark \in 0..Len(chain') /\ CancelRecords \subseteq CancelRecords'
    BY <2>2 DEF TypeOK, CancelRecords
  <2>4. DaemonType' /\ WorkerType'
    BY <1>1, <2>3, Types DEF Submit, DaemonType, WorkerType, workerVars, localVars, readVars
  <2>5. cancel' \in [Requests -> CancelRecords']
    BY <1>1, <2>3, Types DEF Submit
  <2>. QED  BY <1>1, <2>2, <2>4, <2>5, NextTypes, Types DEF Submit
<1>2. CASE Advance
  <2>1. now' \in 0..MaxNow /\ now' >= now /\ Grew
    BY <1>0, <1>2 DEF Advance, Grew
  <2>2. DaemonType'
    BY <1>2, <2>1, DaemonKept DEF Advance
  <2>3. cancel' \in [Requests -> CancelRecords'] /\ WorkerType'
    BY <1>2, <2>1, CancelKeptType, Types DEF Advance, WorkerType, workerVars
  <2>. QED  BY <1>2, <2>1, <2>2, <2>3, NextTypes, Types DEF Advance
<1>3. CASE Crash
  <2>1. now' \in 0..MaxNow /\ Grew /\ crashes' \in 0..MaxCrashes
    BY <1>0, <1>3 DEF Crash, Grew, TypeOK
  <2>2. DaemonType'
    BY <1>3, <2>1, ReturnsType DEF Crash
  <2>3. cancel' \in [Requests -> CancelRecords'] /\ WorkerType'
    BY <1>3, <2>1, CancelKeptType, Types DEF Crash, WorkerType, workerVars
  <2>. QED  BY <1>3, <2>1, <2>2, <2>3, NextTypes, Types DEF Crash
<1>4. CASE SlotMoves
  <2>1. now' \in 0..MaxNow /\ now' >= now /\ Grew
    BY <1>0, <1>4 DEF SlotMoves, Grew
  <2>2. DaemonType'
    BY <1>4, <2>1, DaemonKept DEF SlotMoves
  <2>3. cancel' \in [Requests -> CancelRecords'] /\ WorkerType' /\ slot' \in Slots
    BY <1>4, <2>1, CancelKeptType, Types DEF SlotMoves, WorkerType, workerVars, Slots
  <2>. QED  BY <1>4, <2>1, <2>2, <2>3, NextTypes, Types DEF SlotMoves
<1>. QED  BY <1>1, <1>2, <1>3, <1>4

LEMMA NextTyped ==
  ASSUME CanaryInv, Next
  PROVE  TypeOK'
BY DaemonTypes, WorkerTypes, CancelsTyped, OtherTypes DEF CanaryInv, Next, WorkerActs

-----------------------------------------------------------------------------
(* The chain. *)

\* Every step but the submission keeps the chain or extends it.
LEMMA NextGrows ==
  ASSUME CanaryInv, Next, ~Submit
  PROVE  Grew
BY Puts, CancelMoves
   DEF Next, Daemon, ObserveFails, Tick, Spawn, Bind, Load, ReadRecords, Reap, Observe, Kill,
       Verify, RecordArtifact, Complete, Exit, WorkerDies, SlotMoves, Advance, Crash, Grew

LEMMA NextChain ==
  ASSUME CanaryInv, Next
  PROVE  ChainInv'
<1>1. CASE Submit
  <2>1. Len(chain') = 1 /\ chain'[1] = Receipt("Prepared", 0) /\ MaxHeartbeats \in Nat
    BY <1>1, CanaryAssumption DEF Submit
  <2>2. HeartbeatCount(Len(chain))' = 0
    <3>1. {i \in 1..1 : chain'[i].kind = "Heartbeat"} = {}
      BY <2>1 DEF Receipt
    <3>2. HeartbeatCount(Len(chain))' = Cardinality({i \in 1..1 : chain'[i].kind = "Heartbeat"})
      BY <2>1 DEF HeartbeatCount, Latest
    <3>. QED  BY <3>1, <3>2, FS_EmptySet
  <2>. QED  BY <2>1, <2>2 DEF ChainInv, ChainLoads
<1>2. CASE ~Submit
  <2>1. CASE chain' = chain
    BY <2>1 DEF CanaryInv, ChainInv, ChainLoads, HeartbeatCount, Latest, Follows
  <2>2. ASSUME NEW q, Extended(q) PROVE ChainInv'
    BY <2>2, ChainStep DEF CanaryInv
  <2>. QED  BY <1>2, <2>1, <2>2, NextGrows DEF Grew
<1>. QED  BY <1>1, <1>2

\* The launch claim stays in the chain.
LEMMA LaunchKept ==
  ASSUME TypeOK, Grew
  PROVE  /\ Len(chain') >= Len(chain) /\ Len(chain) \in Nat /\ Len(chain') \in Nat
         /\ Launched => Launched' /\ chain'[2] = chain[2]
BY Growth DEF Launched

-----------------------------------------------------------------------------
(* The launch. *)

LEMMA DaemonLaunch ==
  ASSUME CanaryInv, Daemon \/ ObserveFails
  PROVE  LaunchInv'
<1>. USE DEF workerVars, localVars, readVars
<1>0. TypeOK /\ LaunchInv /\ Grew
  BY DaemonGrows DEF CanaryInv
<1>1. /\ Len(chain') >= Len(chain) /\ Len(chain) \in Nat /\ Len(chain') \in Nat
      /\ Launched => Launched' /\ chain'[2] = chain[2]
  BY <1>0, LaunchKept
<1>2. CASE Returns /\ UNCHANGED <<worker, bound>>
  BY <1>0, <1>1, <1>2 DEF LaunchInv, Returns
<1>3. CASE Tick
  BY <1>0, <1>1, <1>3 DEF LaunchInv, Tick
<1>4. CASE Claim /\ ~Returns
  <2>1. /\ Len(chain) = 1 /\ mark' = 2 /\ clock' = clock /\ daemon' = "launch"
        /\ worker' = worker /\ bound' = bound /\ Put(1, "Launching", clock)
    BY <1>4 DEF Claim
  <2>2. Extended(Receipt("Launching", clock))
    BY <1>4, <2>1, ClaimFits, Placed
  <2>3. Len(chain') = 2 /\ chain'[2] = Receipt("Launching", clock)
    BY <1>0, <2>1, <2>2, Prefix DEF Extended, Fits
  <2>4. worker = "none"
    BY <1>0, <2>1 DEF LaunchInv, Launched
  <2>. QED  BY <1>0, <2>1, <2>3, <2>4 DEF LaunchInv, Launched, Receipt
<1>5. CASE Spawn /\ ~Returns
  BY <1>0, <1>1, <1>5 DEF LaunchInv, Spawn
<1>6. CASE Bind
  BY <1>0, <1>1, <1>6 DEF LaunchInv, Bind, Alive, Returns
<1>7. CASE (Load \/ ReadRecords \/ Observe) /\ ~Returns
  BY <1>0, <1>1, <1>7
     DEF LaunchInv, Load, ReadRecords, Observe, ObservedAlive, Exited, Concludes
<1>8. CASE Reap /\ ~Returns
  BY <1>0, <1>1, <1>8 DEF LaunchInv, Reap, Exited, Concludes
<1>9. CASE Kill
  BY <1>0, <1>1, <1>9 DEF LaunchInv, Kill, Alive
<1>10. CASE Returns /\ (Expire \/ Claim \/ Spawn \/ RecordRunning \/ Load \/ Record \/ ObserveFails)
  <2>1. UNCHANGED <<worker, bound>>
    BY <1>0, <1>10 DEF LaunchInv, Expire, Claim, Spawn, RecordRunning, Load, Record, ObserveFails, Returns
  <2>. QED  BY <1>2, <1>10, <2>1
<1>11. CASE Returns /\ (ReadRecords \/ Reap \/ Observe)
  BY <1>2, <1>11 DEF ReadRecords, Reap, Observe
<1>. QED  BY <1>3, <1>4, <1>5, <1>6, <1>7, <1>8, <1>9, <1>10, <1>11
          DEF Daemon, Expire, RecordRunning, Record, ObserveFails

\* The steps of others leave the daemon and its tick as they are.
OtherActs == Submit \/ WorkerActs \/ SlotMoves \/ Advance \/ \E r \in Requests : Cancel(r)

LEMMA OthersMove ==
  ASSUME CanaryInv, OtherActs
  PROVE  /\ UNCHANGED <<bound, daemon, child, localVars, crashes>>
         /\ Grew \/ Submit
         /\ WorkerActs \/ UNCHANGED workerVars
<1>1. CASE \E r \in Requests : Cancel(r)
  BY <1>1, CancelMoves DEF notCancel
<1>2. CASE Submit \/ SlotMoves \/ Advance \/ WorkerActs
  BY <1>2 DEF Submit, SlotMoves, Advance, WorkerActs, Verify, RecordArtifact, Complete, Exit, WorkerDies, Grew
<1>. QED  BY <1>1, <1>2 DEF OtherActs

LEMMA OthersLaunch ==
  ASSUME CanaryInv, OtherActs
  PROVE  LaunchInv'
<1>. USE DEF workerVars, localVars, readVars
<1>0. TypeOK /\ LaunchInv
  BY DEF CanaryInv
<1>1. /\ UNCHANGED <<bound, daemon, child, localVars, crashes>>
      /\ Grew \/ Submit
      /\ WorkerActs \/ UNCHANGED workerVars
  BY OthersMove
<1>2. /\ Len(chain') >= Len(chain) /\ Len(chain) \in Nat /\ Len(chain') \in Nat
      /\ Launched => Launched' /\ chain'[2] = chain[2]
  BY <1>0, <1>1, LaunchKept, Members DEF Submit, Launched
<1>3. /\ worker' # "none" <=> worker # "none"
      /\ ~bound => worker' \in {"none", "waiting", "dead"}
  BY <1>0, <1>1 DEF LaunchInv, WorkerActs, Verify, RecordArtifact, Complete, Exit, WorkerDies
<1>. QED  BY <1>0, <1>1, <1>2, <1>3 DEF LaunchInv

LEMMA NextLaunch ==
  ASSUME CanaryInv, Next
  PROVE  LaunchInv'
<1>1. CASE Crash
  <2>1. chain' = chain /\ worker' = worker /\ bound' = bound /\ daemon' = "idle"
    BY <1>1 DEF Crash, Returns, workerVars
  <2>. QED  BY <2>1 DEF CanaryInv, LaunchInv, Launched
<1>. QED  BY <1>1, DaemonLaunch, OthersLaunch DEF Next, OtherActs, WorkerActs

-----------------------------------------------------------------------------
(* The worker's records. *)

LEMMA NextRecords ==
  ASSUME CanaryInv, Next
  PROVE  RecordsInv'
<1>. USE DEF workerVars, localVars, readVars
<1>0. TypeOK /\ RecordsInv /\ LaunchInv /\ VerdictInv /\ MaxNow \in Nat /\ now \in 0..MaxNow
  BY ClockType DEF CanaryInv
<1>1. CASE Crash
  BY <1>0, <1>1 DEF RecordsInv, Crash, Returns, TypeOK
<1>2. CASE Submit \/ SlotMoves \/ Advance \/ \E r \in Requests : Cancel(r)
  <2>1. UNCHANGED <<artifact, completion, worker, bound, daemon, child, seen, crashes>>
    BY <1>2, CancelMoves DEF Submit, SlotMoves, Advance, notCancel
  <2>. QED  BY <1>0, <2>1 DEF RecordsInv
<1>3. CASE Verify \/ RecordArtifact \/ Exit \/ WorkerDies
  BY <1>0, <1>3 DEF RecordsInv, TypeOK, Verify, RecordArtifact, Exit, WorkerDies, NoCompletion
<1>4. CASE Complete
  <2>1. completion' \in {[code |-> 0, at |-> now], [code |-> 1, at |-> now]} /\ worker' = "exiting"
    BY <1>4 DEF Complete
  <2>2. completion = NoCompletion /\ completion'.code \in {0, 1} /\ completion' # NoCompletion
    BY <1>0, <1>4, <2>1 DEF RecordsInv, Complete, NoCompletion
  <2>3. UNCHANGED <<artifact, bound, daemon, child, seen, crashes>>
    BY <1>4 DEF Complete
  <2>4. worker \in {"running", "recorded"}
    BY <1>4 DEF Complete
  <2>5. completion'.code = 0 => artifact
    BY <1>0, <1>4, <2>1 DEF Complete, RecordsInv
  <2>. QED  BY <1>0, <2>1, <2>2, <2>3, <2>4, <2>5 DEF RecordsInv
<1>5. CASE Returns /\ UNCHANGED <<worker, artifact, completion, bound, child, crashes>>
  BY <1>0, <1>5 DEF RecordsInv, Returns
<1>6. CASE Tick \/ Claim \/ Load
  BY <1>0, <1>6 DEF RecordsInv, Tick, Claim, Load, Returns
<1>7. CASE Spawn
  BY <1>0, <1>7 DEF RecordsInv, LaunchInv, Spawn, Returns
<1>8. CASE Bind
  BY <1>0, <1>8 DEF RecordsInv, LaunchInv, Bind, Returns, Alive
<1>9. CASE ReadRecords
  BY <1>0, <1>9 DEF RecordsInv, ReadRecords, Concludes
<1>10. CASE Reap
  <2>. DEFINE c == IF seen = NoCompletion THEN [code |-> 1, at |-> now] ELSE seen
  <2>1. /\ daemon = "observe" /\ child /\ bound /\ worker \in {"done", "dead"}
        /\ UNCHANGED <<worker, artifact, bound, crashes>>
    BY <1>0, <1>10 DEF Reap, RecordsInv, LaunchInv, Alive
  <2>2. CASE completion \in {NoCompletion, c} /\ completion' = c /\ child' = FALSE /\ Exited(c)
    <3>1. c # NoCompletion /\ (c.code = 0 => c = completion)
      BY <1>0 DEF RecordsInv, NoCompletion
    <3>2. worker = "done" => c = completion
      BY <1>0, <2>2 DEF RecordsInv, NoCompletion
    <3>3. seen' \in {NoCompletion, c} /\ daemon' # "observe"
      BY <2>2 DEF Exited, Concludes, Returns
    <3>. QED  BY <1>0, <2>1, <2>2, <3>1, <3>2, <3>3 DEF RecordsInv
  <2>3. CASE Returns /\ UNCHANGED <<completion, child>>
    BY <1>5, <2>1, <2>3
  <2>. QED  BY <1>10, <2>2, <2>3 DEF Reap
<1>11. CASE Observe
  BY <1>0, <1>11 DEF RecordsInv, Observe, ObservedAlive, Exited, Concludes, Returns
<1>12. CASE Kill
  BY <1>0, <1>12 DEF RecordsInv, Kill, Alive
<1>. QED  BY <1>1, <1>2, <1>3, <1>4, <1>5, <1>6, <1>7, <1>8, <1>9, <1>10, <1>11, <1>12
          DEF Next, Daemon, Expire, RecordRunning, Record, ObserveFails

-----------------------------------------------------------------------------
(* The verdict. *)

\* An exit is judged by the request that preceded it and by its records.
LEMMA ExitedVerdict ==
  ASSUME CanaryInv, RecordsInv', TypeOK', daemon = "observe", worker \in {"done", "dead"},
         UNCHANGED <<chain, worker, artifact, bound, crashes>>, Exited(completion')
  PROVE  VerdictInv'
<1>. DEFINE after == chain[mark].kind \in Cancelling => completion'.at < chain[mark].at
<1>1. /\ mark >= 2 /\ chain[mark].kind \notin Outcomes /\ clock >= chain[mark].at
  BY DEF CanaryInv, VerdictInv
<1>2. completion'.at \in Int /\ Deadline \in Int /\ chain[mark].at \in Int
  <2>1. mark \in 1..Len(chain) /\ completion'.at \in 0..MaxNow
    BY <1>1, Members DEF CanaryInv, TypeOK
  <2>2. chain[mark].at \in 0..MaxNow
    BY <2>1, Members DEF CanaryInv
  <2>. QED  BY <2>1, <2>2, CanaryAssumption
<1>3. CASE Returns
  BY <1>3 DEF Returns, VerdictInv
<1>4. ASSUME NEW o \in {"Cancelled", "Succeeded", "Failed"}, Concludes(o),
             o = "Cancelled" => ~after,
             o = "Succeeded" => Proven' /\ after,
             o = "Failed" => ~Proven'
      PROVE  VerdictInv'
  <2>1. daemon' = "record" /\ verdict' = o /\ mark' = mark /\ clock' = clock
    BY <1>4 DEF Concludes, readVars
  <2>2. Quiet' /\ o \in Outcomes \ {"CancelledBeforeLaunch"}
    BY DEF Quiet, Outcomes
  <2>3. Earlier(chain[mark])' <=> after
    BY <2>1 DEF Earlier
  <2>4. worker' = "done" /\ completion'.at < Deadline /\ after => o = "Succeeded"
    BY <1>2, <1>4 DEF RecordsInv, Proven
  <2>5. o = "Succeeded" => Tells(verdict)'
    BY <2>1 DEF Tells
  <2>. QED  BY <1>1, <1>4, <2>1, <2>2, <2>3, <2>4, <2>5 DEF VerdictInv, Outcomes
<1>5. Proven' <=> completion'.code = 0 /\ artifact /\ completion'.at <= Deadline
  BY DEF Proven
<1>. QED  BY <1>2, <1>3, <1>4, <1>5 DEF Exited, Latest

\* What is loaded names the worker's process, or ends in the launch claim.
LEMMA Identity ==
  ASSUME CanaryInv, NEW n \in 2..Len(chain), chain[n].kind \notin Outcomes \cup Cancelling
  PROVE  IF HasIdentity(n) THEN chain[n].kind \in Identified ELSE chain[n].kind = "Launching"
<1>1. Len(chain) \in Nat /\ n \in 1..Len(chain) /\ chain[n].kind \in Kinds
  BY Members DEF CanaryInv
<1>2. chain[n].kind # "Prepared" /\ (chain[n].kind = "Launching" => n = 2)
  BY <1>1, Places
<1>3. ASSUME NEW i \in 1..n, chain[i].kind \in Identified PROVE n # 2
  <2>1. i \in 1..Len(chain)
    BY <1>1
  <2>2. /\ chain[i].kind = "Prepared" <=> i = 1
        /\ i = 2 => chain[i].kind \in Outcomes \cup {"Launching"}
    BY <2>1, Places
  <2>. QED  BY <1>1, <1>3, <2>1, <2>2 DEF Identified, Outcomes
<1>4. CASE HasIdentity(n)
  BY <1>1, <1>2, <1>3, <1>4 DEF HasIdentity, Latest, Kinds
<1>5. CASE ~HasIdentity(n)
  BY <1>1, <1>2, <1>5 DEF HasIdentity, Latest, Kinds
<1>. QED  BY <1>4, <1>5

LEMMA AliveVerdict ==
  ASSUME CanaryInv, daemon = "observe", ObservedAlive, UNCHANGED <<chain, bound>>
  PROVE  VerdictInv'
<1>1. /\ mark >= 2 /\ chain[mark].kind \notin Outcomes /\ clock >= chain[mark].at /\ bound
  BY DEF CanaryInv, VerdictInv
<1>2. mark \in 2..Len(chain) /\ Len(chain) \in Nat
  BY <1>1, Members DEF CanaryInv, TypeOK
<1>3. CASE Returns
  BY <1>3 DEF Returns, VerdictInv
<1>4. CASE daemon' = "kill" /\ verdict' \in {"Cancelled", "HeartbeatLimit"} /\ UNCHANGED readVars
  BY <1>1, <1>4 DEF VerdictInv, readVars
<1>5. CASE /\ chain[mark].kind \notin Cancelling /\ HeartbeatLeft
           /\ Concludes(IF HasIdentity(mark) THEN "Heartbeat" ELSE "Running")
  <2>1. IF HasIdentity(mark) THEN chain[mark].kind \in Identified ELSE chain[mark].kind = "Launching"
    BY <1>1, <1>2, <1>5, Identity
  <2>2. HeartbeatLeft'
    BY <1>5 DEF HeartbeatLeft, HeartbeatCount, Latest, Concludes, readVars
  <2>. QED  BY <1>1, <1>5, <2>1, <2>2 DEF VerdictInv, Concludes, readVars, Outcomes
<1>. QED  BY <1>3, <1>4, <1>5 DEF ObservedAlive, Latest

LEMMA DaemonVerdict ==
  ASSUME CanaryInv, Daemon \/ ObserveFails
  PROVE  VerdictInv'
<1>. USE DEF workerVars
<1>0. TypeOK /\ VerdictInv /\ RecordsInv /\ LaunchInv /\ RecordsInv' /\ TypeOK'
  BY NextRecords, NextTyped DEF CanaryInv, Next
<1>1. CASE Returns
  BY <1>1 DEF Returns, VerdictInv
<1>2. CASE Tick
  <2>1. Latest(Len(chain)) # "Prepared" => Len(chain) >= 2
    BY <1>2, Members DEF Tick, CanaryInv, ChainInv, Latest, Receipt
  <2>. QED  BY <1>2, <2>1 DEF Tick, VerdictInv
<1>3. CASE (Claim \/ Spawn \/ Bind) /\ ~Returns
  BY <1>3 DEF Claim, Spawn, Bind, VerdictInv
<1>4. CASE Load /\ ~Returns
  <2>1. /\ Len(chain) >= 2 /\ ~Terminal(Len(chain)) /\ ~(clock < LastObserved(Len(chain)))
        /\ mark' = Len(chain) /\ daemon' = "read" /\ clock' = clock /\ chain' = chain
    BY <1>0, <1>4 DEF Load, VerdictInv
  <2>2. Len(chain) \in 1..Len(chain)
    BY <1>0, <2>1, Members
  <2>3. clock \in Int /\ chain[Len(chain)].at \in Int
    BY <1>0, <2>2, Members, ClockType
  <2>4. clock >= chain[Len(chain)].at /\ chain[Len(chain)].kind \notin Outcomes
    BY <2>1, <2>2, <2>3 DEF Terminal, LastObserved, Latest
  <2>. QED  BY <2>1, <2>4 DEF VerdictInv
<1>5. CASE ReadRecords
  <2>1. CASE bound
    BY <1>0, <1>5, <2>1 DEF ReadRecords, VerdictInv
  <2>2. CASE ~bound
    BY <1>0, <1>5, <2>2
       DEF ReadRecords, Concludes, readVars, VerdictInv, LaunchInv, Quiet, Outcomes
  <2>. QED  BY <2>1, <2>2
<1>6. CASE Reap /\ ~Returns
  <2>1. worker \in {"done", "dead"}
    BY <1>0, <1>6 DEF Reap, RecordsInv, LaunchInv, Alive
  <2>2. Exited(completion') /\ daemon = "observe" /\ UNCHANGED <<chain, worker, artifact, bound, crashes>>
    BY <1>6 DEF Reap
  <2>. QED  BY <1>0, <2>1, <2>2, ExitedVerdict
<1>7. CASE Observe
  <2>1. /\ daemon = "observe" /\ bound /\ UNCHANGED <<chain, worker, artifact, bound, crashes>>
        /\ completion' = completion
    BY <1>0, <1>7 DEF Observe, VerdictInv
  <2>2. CASE ObservedAlive
    BY <2>1, <2>2, AliveVerdict
  <2>3. ~Alive => worker \in {"done", "dead"}
    BY <1>0, <2>1 DEF LaunchInv, Alive
  <2>4. CASE ~Alive /\ seen # NoCompletion /\ Exited(seen)
    <3>1. completion' = seen
      BY <1>0, <2>1, <2>4 DEF RecordsInv
    <3>. QED  BY <1>0, <2>1, <2>3, <2>4, <3>1, ExitedVerdict
  <2>5. CASE ~Alive /\ ~child /\ seen = NoCompletion /\ Concludes("Lost")
    <3>1. worker = "done" => crashes > 0
      BY <1>0, <2>1, <2>5 DEF RecordsInv, TypeOK
    <3>. QED  BY <1>0, <2>1, <2>3, <2>5, <3>1
              DEF VerdictInv, Concludes, readVars, Quiet, Tells, Outcomes
  <2>. QED  BY <1>7, <2>2, <2>4, <2>5 DEF Observe
<1>8. CASE Kill
  BY <1>0, <1>8 DEF Kill, VerdictInv, Quiet, Tells, Outcomes
<1>. QED  BY <1>1, <1>2, <1>3, <1>4, <1>5, <1>6, <1>7, <1>8
          DEF Daemon, ObserveFails, Expire, RecordRunning, Record

\* Nothing of a quiet job changes but a worker that waits in vain.
LEMMA QuietKept ==
  ASSUME Quiet, WorkerActs \/ UNCHANGED workerVars, bound' = bound
  PROVE  /\ Quiet' /\ UNCHANGED <<completion, artifact>>
         /\ worker' = "done" <=> worker = "done"
BY DEF Quiet, WorkerActs, Verify, RecordArtifact, Complete, Exit, WorkerDies, workerVars

LEMMA OthersVerdict ==
  ASSUME CanaryInv, OtherActs
  PROVE  VerdictInv'
<1>. DEFINE loaded == {"read", "observe", "kill", "record"}
<1>0. TypeOK /\ VerdictInv
  BY DEF CanaryInv
<1>1. /\ UNCHANGED <<bound, daemon, child, mark, clock, seen, verdict, crashes>>
      /\ Grew \/ Submit
      /\ WorkerActs \/ UNCHANGED workerVars
  BY OthersMove DEF localVars, readVars
<1>2. Len(chain') >= Len(chain) /\ Len(chain) \in Nat /\ Len(chain') \in Nat
  BY <1>0, <1>1, LaunchKept, Members DEF Submit
<1>3. daemon \in loaded => mark \in 2..Len(chain) /\ Grew
  <2>1. daemon \in loaded => mark >= 2 /\ mark \in 0..Len(chain)
    BY <1>0 DEF VerdictInv, TypeOK
  <2>. QED  BY <1>1, <1>2, <2>1 DEF Submit
<1>4. daemon \in loaded => \A i \in 1..mark : chain'[i] = chain[i]
  BY <1>0, <1>2, <1>3, Growth
<1>5. daemon \in loaded => chain'[mark] = chain[mark] /\ (HeartbeatLeft => HeartbeatLeft')
  <2>1. SUFFICES ASSUME daemon \in loaded
                 PROVE  chain'[mark] = chain[mark] /\ (HeartbeatLeft => HeartbeatLeft')
    OBVIOUS
  <2>2. chain'[mark] = chain[mark]
    BY <1>3, <1>4, <2>1
  <2>3. {i \in 1..mark : chain'[i].kind = "Heartbeat"} = {i \in 1..mark : chain[i].kind = "Heartbeat"}
    BY <1>4, <2>1
  <2>. QED  BY <1>1, <2>2, <2>3 DEF HeartbeatLeft, HeartbeatCount, Latest
<1>6. CASE daemon # "record"
  BY <1>0, <1>1, <1>2, <1>5, <1>6 DEF VerdictInv
<1>7. CASE daemon = "record" /\ verdict \in Outcomes \ {"CancellationUncertain"}
  <2>1. /\ Quiet' /\ UNCHANGED <<completion, artifact>>
        /\ worker' = "done" <=> worker = "done"
    BY <1>0, <1>1, <1>7, QuietKept DEF VerdictInv
  <2>2. /\ Proven' <=> Proven
        /\ Earlier(chain[mark])' <=> Earlier(chain[mark])
        /\ Tells(verdict)' <=> Tells(verdict)
    BY <1>1, <1>5, <1>7, <2>1 DEF Proven, Earlier, Tells
  <2>. QED  BY <1>0, <1>1, <1>5, <1>7, <2>1, <2>2 DEF VerdictInv
<1>8. CASE daemon = "record" /\ verdict \notin Outcomes \ {"CancellationUncertain"}
  <2>1. verdict = "CancellationUncertain" => Tells(verdict)'
    BY <1>1 DEF Tells
  <2>2. verdict # "Succeeded"
    BY <1>8 DEF Outcomes
  <2>. QED  BY <1>0, <1>1, <1>5, <1>8, <2>1, <2>2 DEF VerdictInv
<1>. QED  BY <1>6, <1>7, <1>8

LEMMA NextVerdict ==
  ASSUME CanaryInv, Next
  PROVE  VerdictInv'
<1>1. CASE Crash
  BY <1>1 DEF Crash, Returns, VerdictInv
<1>. QED  BY <1>1, DaemonVerdict, OthersVerdict DEF Next, OtherActs, WorkerActs

-----------------------------------------------------------------------------
(* The outcome. *)

\* A job that has ended stays as it is.
LEMMA OutcomeKept ==
  ASSUME CanaryInv, Next, Terminal(Len(chain))
  PROVE  chain' = chain /\ OutcomeInv'
<1>0. /\ TypeOK /\ LaunchInv /\ OutcomeInv /\ daemon \in {"idle", "expire", "claim"}
      /\ Len(chain) \in Nat /\ Len(chain) > 0 /\ crashes \in Nat
  <2>1. TypeOK /\ LaunchInv /\ OutcomeInv /\ Len(chain) \in Nat
    BY Members DEF CanaryInv
  <2>2. crashes \in Nat
    BY <2>1, CanaryAssumption DEF TypeOK
  <2>. QED  BY <2>1, <2>2 DEF OutcomeInv, Terminal
<1>1. ~Submit
  BY <1>0 DEF Submit
<1>2. chain' = chain
  <2>1. ASSUME NEW q, Extended(q) PROVE FALSE
    BY <2>1 DEF Extended, Fits, Follows, Last, Terminal, Latest
  <2>. QED  BY <1>1, <2>1, NextGrows DEF Grew
<1>3. Len(chain) # 1
  BY <1>0 DEF CanaryInv, ChainInv, Terminal, Latest, Receipt, Outcomes
<1>4. /\ daemon' \in {"idle", "expire", "claim"} /\ bound' = bound
      /\ crashes' \in Nat /\ crashes' >= crashes
      /\ WorkerActs \/ UNCHANGED workerVars
  <2>1. CASE OtherActs
    BY <1>0, <2>1, OthersMove
  <2>2. CASE Crash
    BY <1>0, <2>2 DEF Crash, Returns
  <2>3. CASE Daemon \/ ObserveFails
    <3>1. Expire \/ Claim
      BY <1>0, <2>3 DEF Daemon, ObserveFails, Tick, Spawn, Bind, RecordRunning, Load, ReadRecords,
                        Reap, Observe, Kill, Record
    <3>2. Returns /\ UNCHANGED <<workerVars, bound, crashes>>
      BY <1>3, <3>1 DEF Expire, Claim
    <3>. QED  BY <1>0, <3>2 DEF Returns
  <2>. QED  BY <2>1, <2>2, <2>3 DEF Next, OtherActs, WorkerActs
<1>5. CASE Last.kind = "CancellationUncertain"
  BY <1>2, <1>4, <1>5 DEF OutcomeInv, Last, Tells
<1>6. CASE Last.kind # "CancellationUncertain"
  <2>1. /\ Quiet' /\ UNCHANGED <<completion, artifact>>
        /\ worker' = "done" <=> worker = "done"
    BY <1>0, <1>4, <1>6, QuietKept DEF OutcomeInv
  <2>2. Last' = Last /\ (Proven' <=> Proven) /\ (Tells(Last.kind) => Tells(Last.kind)')
    BY <1>0, <1>2, <1>4, <2>1 DEF Last, Proven, Tells
  <2>3. \A i \in 1..Len(chain) : Earlier(chain[i])' <=> Earlier(chain[i])
    BY <1>2, <2>1 DEF Earlier
  <2>. QED  BY <1>0, <1>2, <1>4, <2>1, <2>2, <2>3 DEF OutcomeInv
<1>. QED  BY <1>2, <1>5, <1>6

\* A prepared job that is cancelled has not been launched.
LEMMA PreparedOutcome ==
  ASSUME CanaryInv, Len(chain) = 1, NEW at, Extended(Receipt("CancelledBeforeLaunch", at)),
         UNCHANGED <<worker, bound>>, daemon' \in {"idle", daemon}
  PROVE  OutcomeInv'
<1>1. worker = "none" /\ ~bound /\ daemon \in {"idle", "expire", "claim"}
  BY DEF CanaryInv, LaunchInv, VerdictInv, TypeOK, Launched
<1>2. Last'.kind = "CancelledBeforeLaunch"
  BY Prefix DEF CanaryInv, Extended, Fits, Last, Receipt
<1>. QED  BY <1>1, <1>2 DEF OutcomeInv, Quiet

\* The daemon records what its verdict says.
LEMMA RecordedOutcome ==
  ASSUME CanaryInv, Record, Len(chain) = mark, verdict \in Outcomes,
         Extended(Receipt(verdict, clock))
  PROVE  OutcomeInv'
<1>. DEFINE n == Len(chain)
<1>0. /\ mark >= 2 /\ chain[n].kind \notin Outcomes /\ n \in Nat /\ VerdictInv
      /\ daemon' = "idle" /\ UNCHANGED <<worker, completion, artifact, bound, crashes>>
  BY Members DEF CanaryInv, VerdictInv, Record, Returns, workerVars
<1>1. /\ Len(chain') = n + 1 /\ Last' = Receipt(verdict, clock)
      /\ \A i \in 1..n : chain'[i] = chain[i]
      /\ chain'[n + 1] = Receipt(verdict, clock)
  BY Prefix DEF CanaryInv, Extended, Fits, Last
<1>2. \A i \in 1..n : chain[i].kind \in Cancelling => i = n
  <2>1. SUFFICES ASSUME NEW i \in 1..n, chain[i].kind \in Cancelling, i # n PROVE FALSE
    OBVIOUS
  <2>2. i \in 1..(n - 1) /\ i + 1 \in 1..n
    BY <1>0, <2>1
  <2>3. chain[i + 1].kind \in Outcomes
    BY <2>1, <2>2 DEF CanaryInv, ChainInv
  <2>4. i + 1 = n
    BY <2>2, <2>3, Places
  <2>. QED  BY <1>0, <2>3, <2>4
<1>3. /\ Quiet' <=> Quiet
      /\ Proven' <=> Proven
      /\ \A q : Tells(q)' <=> Tells(q)
      /\ \A q : Earlier(q)' <=> Earlier(q)
  BY <1>0 DEF Quiet, Proven, Tells, Earlier
<1>4. (\A i \in 1..Len(chain) : Earlier(chain[i]))' <=> Earlier(chain[n])
  <2>1. \A i \in 1..(n + 1) : i # n => chain'[i].kind \notin Cancelling
    BY <1>0, <1>1, <1>2 DEF Receipt, Outcomes, Cancelling
  <2>2. n \in 1..(n + 1) /\ chain'[n] = chain[n]
    BY <1>0, <1>1
  <2>3. Earlier(chain[n]) <=> \A i \in 1..(n + 1) : Earlier(chain'[i])
    BY <2>1, <2>2 DEF Earlier
  <2>. QED  BY <1>0, <1>1, <2>3 DEF Earlier
<1>5. Last'.kind = verdict
  BY <1>1 DEF Receipt
<1>6. daemon = "record"
  BY DEF Record
<1>. QED  BY <1>0, <1>3, <1>4, <1>5, <1>6 DEF OutcomeInv, VerdictInv

LEMMA NextOutcome ==
  ASSUME CanaryInv, Next
  PROVE  OutcomeInv'
<1>1. CASE Terminal(Len(chain))
  BY <1>1, OutcomeKept
<1>2. CASE ~Terminal(Len(chain)) /\ chain' = chain
  BY <1>2 DEF OutcomeInv, Terminal, Latest
<1>3. ASSUME NEW kind \in Kinds \ Outcomes, NEW at, Extended(Receipt(kind, at)) PROVE OutcomeInv'
  <2>1. chain'[Len(chain')].kind = kind
    BY <1>3, Prefix DEF CanaryInv, Extended, Fits, Receipt
  <2>. QED  BY <2>1 DEF OutcomeInv, Terminal, Latest
<1>4. CASE Submit
  BY <1>4 DEF Submit, OutcomeInv, Terminal, Latest, Receipt, Outcomes
<1>5. CASE Expire /\ chain' # chain
  <2>1. Len(chain) = 1 /\ Extended(Receipt("CancelledBeforeLaunch", clock))
    BY <1>5, ExpireFits, Placed DEF Expire, Put
  <2>. QED  BY <1>5, <2>1, PreparedOutcome DEF Expire, Returns, workerVars
<1>6. CASE Claim /\ chain' # chain
  <2>1. Extended(Receipt("Launching", clock))
    BY <1>6, ClaimFits, Placed DEF Claim, Put
  <2>. QED  BY <1>3, <2>1 DEF Kinds, Outcomes
<1>7. CASE RecordRunning /\ chain' # chain
  <2>1. Extended(Receipt("Running", clock))
    BY <1>7, RunningFits, Placed DEF RecordRunning, Put
  <2>. QED  BY <1>3, <2>1 DEF Kinds, Outcomes, Identified
<1>8. CASE Record /\ chain' # chain
  <2>. DEFINE at == IF verdict = "Running" THEN chain[2].at ELSE clock
  <2>1. Len(chain) = mark /\ Extended(Receipt(verdict, at))
    BY <1>8, RecordFits, Placed DEF Record, Put
  <2>2. CASE verdict \in Outcomes
    <3>1. verdict # "Running"
      BY <2>2 DEF Outcomes
    <3>. QED  BY <1>8, <2>1, <2>2, <3>1, RecordedOutcome
  <2>3. CASE verdict \notin Outcomes
    <3>1. verdict \in Kinds
      BY <1>8 DEF CanaryInv, VerdictInv, Record, Kinds, Identified, Outcomes
    <3>. QED  BY <1>3, <2>1, <2>3, <3>1
  <2>. QED  BY <2>2, <2>3
<1>9. ASSUME NEW r \in Requests, CancelEarly(r), chain' # chain PROVE OutcomeInv'
  <2>1. Len(chain) = 1 /\ Extended(Receipt("CancelledBeforeLaunch", cancel[r].at))
    BY <1>9, EarlyFits, Placed DEF CancelEarly, Put
  <2>. QED  BY <1>9, <2>1, PreparedOutcome DEF CancelEarly, notCancel, workerVars
<1>10. ASSUME NEW r \in Requests, CancelPut(r), chain' # chain PROVE OutcomeInv'
  <2>1. Put(cancel[r].mark, CancelKind(r), cancel[r].at)
    BY <1>10 DEF CancelPut, CancelKind
  <2>2. Extended(Receipt(CancelKind(r), cancel[r].at))
    BY <1>10, <2>1, CancelFits, Placed DEF Put
  <2>3. CancelKind(r) \in Kinds \ Outcomes
    BY DEF CancelKind, Kinds, Cancelling, Outcomes
  <2>. QED  BY <1>3, <2>2, <2>3
<1>11. CASE ~Submit /\ chain' # chain
  <2>1. \/ Expire \/ Claim \/ RecordRunning \/ Record
        \/ \E r \in Requests : CancelEarly(r) \/ CancelPut(r)
    BY <1>11
       DEF Next, Daemon, ObserveFails, Tick, Spawn, Bind, Load, ReadRecords, Reap, Observe, Kill,
           Verify, RecordArtifact, Complete, Exit, WorkerDies, SlotMoves, Advance, Crash,
           Cancel, CancelBegin, CancelFirst, CancelSecond
  <2>. QED  BY <1>5, <1>6, <1>7, <1>8, <1>9, <1>10, <1>11, <2>1
<1>. QED  BY <1>1, <1>2, <1>4, <1>11

-----------------------------------------------------------------------------
(* The cancel commands. *)

\* The commands that do nothing keep what holds of them.
LEMMA CancelWaits ==
  ASSUME CanaryInv, Grew \/ Submit, NEW r \in Requests, cancel'[r] = cancel[r]
  PROVE  CancelOne(r)'
<1>0. CancelOne(r) /\ TypeOK
  BY DEF CanaryInv, CancelInv
<1>1. /\ Len(chain') >= Len(chain) /\ Len(chain) \in Nat /\ Len(chain') \in Nat
      /\ \A i \in 1..Len(chain) : chain'[i] = chain[i]
  BY <1>0, Growth, Members DEF Submit
<1>2. cancel[r].mark \in 0..Len(chain)
  BY <1>0 DEF TypeOK
<1>. QED  BY <1>0, <1>1, <1>2 DEF CancelOne

LEMMA CancelActs ==
  ASSUME CanaryInv, NEW r \in Requests, Cancel(r)
  PROVE  CancelOne(r)'
<1>0. TypeOK /\ Own(r) /\ Grew /\ CancelOne(r) /\ cancel[r] \in CancelRecords /\ Len(chain) \in Nat
  BY CancelMoves, Types, Members DEF CanaryInv, CancelInv
<1>1. /\ Len(chain') >= Len(chain) /\ Len(chain') \in Nat
      /\ \A i \in 1..Len(chain) : chain'[i] = chain[i]
  BY <1>0, Growth
<1>2. cancel[r].tries \in Nat /\ MaxTries \in Nat
  BY <1>0, CanaryAssumption DEF CancelRecords
<1>3. cancel \in [Requests -> CancelRecords]
  BY <1>0, Types
<1>4. ASSUME Retry(r), Len(chain) >= 1 PROVE CancelOne(r)'
  <2>1. /\ cancel'[r].tries = cancel[r].tries + 1
        /\ cancel'[r].pc = IF cancel[r].tries + 1 < MaxTries THEN "first" ELSE "conflict"
    BY <1>3, <1>4 DEF Retry, CancelRecords
  <2>. QED  BY <1>1, <1>2, <1>4, <2>1 DEF CancelOne
<1>5. ASSUME NEW pc, Goes(r, pc)
      PROVE cancel'[r].pc = pc /\ cancel'[r].at = cancel[r].at /\ cancel'[r].tries = cancel[r].tries
  BY <1>3, <1>5 DEF Goes, CancelRecords
<1>6. CASE CancelBegin(r)
  <2>1. cancel'[r].pc = "first" /\ cancel'[r].tries = cancel[r].tries /\ Len(chain) >= 1
    BY <1>0, <1>3, <1>6 DEF CancelBegin, CancelRecords
  <2>. QED  BY <1>0, <1>1, <1>6, <2>1 DEF CancelOne, CancelBegin
<1>7. CASE CancelFirst(r)
  <2>1. Len(chain) \in 1..Len(chain) /\ cancel[r].pc = "first" /\ chain' = chain
    BY <1>0, <1>7 DEF CancelFirst, CancelOne
  <2>2. Latest(Len(chain)) # "Prepared" => Len(chain) >= 2
    BY <2>1, Places DEF Latest
  <2>3. Latest(Len(chain)) = "CancelledBeforeLaunch" => Len(chain) = 2
    <3>1. SUFFICES ASSUME Latest(Len(chain)) = "CancelledBeforeLaunch" PROVE Len(chain) = 2
      OBVIOUS
    <3>2. Len(chain) >= 2
      BY <2>2, <3>1
    <3>3. Len(chain) - 1 \in 1..(Len(chain) - 1) /\ (Len(chain) - 1) + 1 = Len(chain)
      BY <1>0, <3>2
    <3>4. Len(chain) - 1 = 1
      BY <3>1, <3>3 DEF CanaryInv, ChainInv, Latest
    <3>. QED  BY <1>0, <3>4
  <2>4. CASE Latest(Len(chain)) = "CancelledBeforeLaunch"
    <3>1. Goes(r, "ok")
      BY <1>7, <2>4 DEF CancelFirst, Outcomes
    <3>2. cancel'[r].pc = "ok"
      BY <1>5, <3>1
    <3>3. Len(chain') = 2 /\ chain'[2].kind = "CancelledBeforeLaunch"
      BY <2>1, <2>3, <2>4 DEF Latest
    <3>. QED  BY <3>2, <3>3 DEF CancelOne
  <2>5. CASE Latest(Len(chain)) \in Outcomes \ {"CancelledBeforeLaunch"}
    <3>1. Goes(r, "lost")
      BY <1>7, <2>5 DEF CancelFirst, Outcomes
    <3>. QED  BY <1>5, <3>1 DEF CancelOne
  <2>6. CASE Latest(Len(chain)) = "Prepared"
    <3>1. Goes(r, "early")
      BY <1>7, <2>6 DEF CancelFirst, Outcomes
    <3>. QED  BY <1>0, <1>5, <2>1, <3>1 DEF CancelOne
  <2>7. CASE Latest(Len(chain)) \notin Outcomes \cup {"Prepared"}
    <3>1. Goes(r, "second")
      BY <1>7, <2>7 DEF CancelFirst, Outcomes
    <3>. QED  BY <1>0, <1>5, <2>1, <2>2, <2>7, <3>1 DEF CancelOne
  <2>. QED  BY <2>4, <2>5, <2>6, <2>7
<1>8. CASE CancelEarly(r)
  <2>1. /\ Len(chain) >= 1 /\ cancel[r].pc = "early" /\ Put(1, "CancelledBeforeLaunch", cancel[r].at)
        /\ Goes(r, IF chain'[2] = Receipt("CancelledBeforeLaunch", cancel[r].at) THEN "ok" ELSE "second")
    BY <1>0, <1>8 DEF CancelEarly, CancelOne
  <2>2. Len(chain') >= 2
    <3>1. CASE Len(chain) = 1
      <4>1. Extended(Receipt("CancelledBeforeLaunch", cancel[r].at))
        BY <1>8, <2>1, <3>1, EarlyFits, Placed
      <4>. QED  BY <1>0, <3>1, <4>1, Prefix DEF Extended, Fits
    <3>2. CASE Len(chain) # 1
      <4>1. Len(chain) \in Nat /\ Len(chain') \in Nat /\ Len(chain') >= Len(chain) /\ Len(chain) >= 1
        BY <1>0, <1>1, <2>1
      <4>. QED  BY <3>2, <4>1
    <3>. QED  BY <3>1, <3>2
  <2>3. CASE chain'[2] = Receipt("CancelledBeforeLaunch", cancel[r].at)
    BY <1>5, <2>1, <2>2, <2>3 DEF CancelOne, Receipt
  <2>4. CASE chain'[2] # Receipt("CancelledBeforeLaunch", cancel[r].at)
    BY <1>0, <1>5, <2>1, <2>2, <2>4 DEF CancelOne
  <2>. QED  BY <2>3, <2>4
<1>9. CASE CancelSecond(r)
  <2>1. cancel[r].pc = "second" /\ Len(chain) >= 2 /\ chain' = chain /\ Len(chain) \in 1..Len(chain)
    BY <1>0, <1>9 DEF CancelSecond, CancelOne
  <2>2. CASE Latest(Len(chain)) \in Cancelling /\ chain[Len(chain)].at = cancel[r].at /\ Goes(r, "ok")
    BY <1>5, <2>1, <2>2 DEF CancelOne, Latest
  <2>3. CASE Retry(r)
    BY <1>4, <2>1, <2>3
  <2>4. CASE Goes(r, "lost") \/ Goes(r, "refused")
    BY <1>5, <2>4 DEF CancelOne
  <2>5. CASE /\ Latest(Len(chain)) \notin Cancelling \cup Outcomes
             /\ ~(cancel[r].at < LastObserved(Len(chain))) /\ Keeps(r, "put")
    <3>1. /\ cancel'[r].pc = "put" /\ cancel'[r].at = cancel[r].at /\ cancel'[r].mark = Len(chain)
          /\ cancel'[r].tries = cancel[r].tries
      BY <1>3, <2>5 DEF Keeps, CancelRecords
    <3>2. cancel[r].at \in Int /\ chain[Len(chain)].at \in Int
      BY <1>0, <2>1, Members DEF CancelRecords
    <3>3. cancel[r].at >= chain[Len(chain)].at
      BY <2>1, <2>5, <3>2 DEF LastObserved
    <3>. QED  BY <1>0, <2>1, <2>5, <3>1, <3>3 DEF CancelOne, Latest
  <2>. QED  BY <1>9, <2>2, <2>3, <2>4, <2>5 DEF CancelSecond
<1>10. CASE CancelPut(r)
  <2>1. Len(chain') >= 1 /\ Len(chain) >= 1 /\ Len(chain') \in 1..Len(chain')
    <3>1. cancel[r].mark \in 0..Len(chain) /\ cancel[r].mark >= 2
      BY <1>0, <1>10 DEF CancelPut, CancelOne, CancelRecords
    <3>. QED  BY <1>0, <1>1, <3>1
  <2>2. CASE chain'[Len(chain')] = Receipt(CancelKind(r), cancel[r].at) /\ Goes(r, "ok")
    <3>1. CancelKind(r) \in Cancelling
      BY DEF CancelKind, Cancelling
    <3>. QED  BY <1>5, <2>1, <2>2, <3>1 DEF CancelOne, Receipt
  <2>3. CASE Goes(r, "lost")
    BY <1>5, <2>3 DEF CancelOne
  <2>4. CASE Retry(r)
    BY <1>4, <2>1, <2>4
  <2>. QED  BY <1>10, <2>2, <2>3, <2>4 DEF CancelPut, CancelKind
<1>. QED  BY <1>6, <1>7, <1>8, <1>9, <1>10 DEF Cancel

LEMMA NextCancel ==
  ASSUME CanaryInv, Next
  PROVE  CancelInv'
<1>1. ASSUME NEW r \in Requests PROVE CancelOne(r)'
  <2>1. CASE Cancel(r)
    BY <2>1, CancelActs
  <2>2. ASSUME NEW s \in Requests, Cancel(s), s # r PROVE CancelOne(r)'
    <3>1. Grew /\ cancel'[r] = cancel[r]
      BY <2>2, CancelMoves DEF Own
    <3>. QED  BY <3>1, CancelWaits
  <2>3. CASE ~\E s \in Requests : Cancel(s)
    <3>1. cancel' = cancel
      BY <2>3 DEF Next, Submit, Daemon, Tick, Expire, Claim, Spawn, Bind, RecordRunning, Load,
                  ReadRecords, Reap, Observe, Kill, Record, ObserveFails, Verify, RecordArtifact,
                  Complete, Exit, WorkerDies, SlotMoves, Advance, Crash
    <3>. QED  BY <3>1, NextGrows, CancelWaits
  <2>. QED  BY <2>1, <2>2, <2>3
<1>. QED  BY <1>1 DEF CancelInv

-----------------------------------------------------------------------------
(* The theorems. *)

LEMMA CanaryStep ==
  ASSUME CanaryInv, [Next]_vars
  PROVE  CanaryInv'
<1>1. CASE Next
  BY <1>1, NextTyped, NextChain, NextLaunch, NextRecords, NextVerdict, NextOutcome, NextCancel
     DEF CanaryInv
<1>2. CASE UNCHANGED vars
  BY <1>2
     DEF vars, CanaryInv, TypeOK, ChainInv, ChainLoads, Follows, HeartbeatCount, Latest, LaunchInv,
         Launched, RecordsInv, VerdictInv, HeartbeatLeft, Quiet, Proven, Earlier, Tells,
         OutcomeInv, Terminal, Last, CancelInv, CancelOne
<1>. QED  BY <1>1, <1>2

LEMMA CanaryHolds == Spec => []CanaryInv
BY CanaryInit, CanaryStep, PTL DEF Spec

\* All receipts but the first three and the last two are heartbeats.
LEMMA Bounded ==
  ASSUME CanaryInv
  PROVE  ChainBounded
<1>. DEFINE n == Len(chain)
            H == {i \in 1..n : Latest(i) = "Heartbeat"}
<1>0. n \in Nat /\ MaxHeartbeats \in Nat
  BY Members, CanaryAssumption DEF CanaryInv
<1>1. SUFFICES ASSUME n >= 6 PROVE n <= MaxHeartbeats + 5
  BY <1>0 DEF ChainBounded
<1>2. ASSUME NEW i \in 4..(n - 2) PROVE i \in H
  <2>1. i \in 1..n /\ i + 1 \in 1..n /\ i \in 1..(n - 1) /\ i # n /\ i + 1 # n /\ i \notin {1, 2, 3}
    BY <1>0
  <2>2. chain[i].kind \in Kinds /\ chain[i].kind \notin {"Prepared", "Launching", "Running"} \cup Outcomes
    BY <2>1, Places, Members DEF CanaryInv
  <2>3. chain[i + 1].kind \notin Outcomes
    BY <2>1, Places
  <2>4. chain[i].kind \notin Cancelling
    BY <2>1, <2>3 DEF CanaryInv, ChainInv
  <2>. QED  BY <2>1, <2>2, <2>4 DEF Latest, Kinds, Identified, Cancelling
<1>3. n \in 0..n
  BY <1>0
<1>4. IsFiniteSet(H) /\ Cardinality(H) \in Nat /\ Cardinality(H) <= MaxHeartbeats
  BY <1>3, Counted DEF CanaryInv, ChainInv, HeartbeatCount
<1>5. 4..(n - 2) \subseteq H
  BY <1>2
<1>6. Cardinality(4..(n - 2)) = n - 5
  <2>1. 4 \in Int /\ n - 2 \in Int /\ 4 <= n - 2
    BY <1>0, <1>1
  <2>2. Cardinality(4..(n - 2)) = (n - 2) - 4 + 1
    BY <2>1, FS_Interval
  <2>. QED  BY <1>0, <2>2
<1>7. Cardinality(4..(n - 2)) <= Cardinality(H)
  BY <1>4, <1>5, FS_Subset
<1>. QED  BY <1>0, <1>4, <1>6, <1>7

LEMMA Endings ==
  ASSUME CanaryInv
  PROVE  /\ SuccessProven /\ CancelledUnlaunched /\ ExitNotErased
         /\ LaunchedOnce /\ TerminalQuiet /\ CancelHonoured
<1>. DEFINE n == Len(chain)
<1>0. n \in Nat /\ (Terminal(n) => n \in 1..n /\ Outcome = Last.kind)
  BY Members DEF CanaryInv, Terminal, Outcome, Latest, Last
<1>1. ~Terminal(n) => Outcome = None
  BY DEF Outcome
<1>2. None \notin Outcomes
  BY DEF None, Outcomes
<1>3. SuccessProven
  BY <1>0, <1>1 DEF CanaryInv, OutcomeInv, SuccessProven, Proven, None
<1>4. CancelledUnlaunched
  <2>1. SUFFICES ASSUME Terminal(n), Last.kind = "CancelledBeforeLaunch" PROVE worker = "none"
    BY <1>0, <1>1 DEF CancelledUnlaunched, None
  <2>2. n \in 1..n /\ n \in Nat /\ n >= 1
    BY <1>0, <2>1 DEF Terminal
  <2>3. n # 1
    <3>1. chain[n].kind = "Prepared" <=> n = 1
      BY <2>2, Places
    <3>. QED  BY <2>1, <3>1 DEF Last
  <2>4. n \in Nat /\ n >= 2
    <3>1. \A k \in Nat : k >= 1 /\ k # 1 => k >= 2
      OBVIOUS
    <3>. QED  BY <2>2, <2>3, <3>1
  <2>5. n - 1 \in 1..(n - 1) /\ (n - 1) + 1 = n
    BY <2>4
  <2>6. n - 1 = 1
    BY <2>1, <2>5 DEF CanaryInv, ChainInv, Last
  <2>7. n = 2
    BY <2>4, <2>6
  <2>8. ~Launched
    BY <2>1, <2>7 DEF Launched, Last
  <2>. QED  BY <2>8 DEF CanaryInv, LaunchInv
<1>5. ExitNotErased
  <2>1. SUFFICES ASSUME worker = "done", completion.at < Deadline, Terminal(n),
                        \A i \in 1..n : Latest(i) \in Cancelling => chain[i].at > completion.at
                 PROVE  Tells(Outcome)
    BY <1>1 DEF ExitNotErased, Tells
  <2>2. ASSUME NEW i \in 1..n PROVE Earlier(chain[i])
    <3>1. chain[i].at \in Int /\ completion.at \in Int
      <4>1. chain[i].at \in 0..MaxNow /\ completion.at \in 0..MaxNow
        BY Members DEF CanaryInv, TypeOK
      <4>. QED  BY <4>1
    <3>. QED  BY <2>1, <3>1 DEF Earlier, Latest
  <2>. QED  BY <1>0, <2>1, <2>2 DEF CanaryInv, OutcomeInv
<1>6. LaunchedOnce
  BY DEF CanaryInv, LaunchInv, LaunchedOnce
<1>7. TerminalQuiet
  BY <1>0, <1>1 DEF CanaryInv, OutcomeInv, TerminalQuiet, Quiet
<1>8. CancelHonoured
  <2>1. SUFFICES ASSUME NEW r \in Requests, cancel[r].pc = "ok", Outcome = "Succeeded"
                 PROVE  completion.at < cancel[r].at
    BY DEF CancelHonoured
  <2>2. Terminal(n) /\ Last.kind = "Succeeded" /\ n \in 1..n
    BY <1>0, <1>1, <2>1 DEF None
  <2>3. CASE n >= 2 /\ chain[2].kind = "CancelledBeforeLaunch"
    <3>1. 2 \in 1..n
      BY <1>0, <2>3
    <3>2. n = 2
      BY <2>3, <3>1, Places DEF Outcomes
    <3>. QED  BY <2>2, <2>3, <3>2 DEF Last
  <2>4. CASE \E i \in 1..n : chain[i].kind \in Cancelling /\ chain[i].at = cancel[r].at
    BY <2>2, <2>4 DEF CanaryInv, OutcomeInv, Earlier
  <2>. QED  BY <2>1, <2>3, <2>4 DEF CanaryInv, CancelInv, CancelOne
<1>. QED  BY <1>3, <1>4, <1>5, <1>6, <1>7, <1>8

\* The receipt chain tells the truth: every reader can load it, whoever put its
\* receipts and however late, it never outgrows what load_receipt_chain accepts,
\* and the outcome it ends in is one that the worker's records bear out, however
\* often the daemon is restarted.
THEOREM ReceiptsAreTrue == Spec => []ReceiptsTrue
<1>1. CanaryInv => ReceiptsTrue
  BY Bounded, Endings DEF CanaryInv, ChainInv, ReceiptsTrue
<1>. QED  BY <1>1, CanaryHolds, PTL

\* claim_launch and the supervisor's receipt: the daemon that is about to spawn
\* the worker is the only one that ever was, through crashes anywhere.
THEOREM LaunchesOnce == Spec => []LaunchedOnce
<1>1. CanaryInv => LaunchedOnce
  BY Endings
<1>. QED  BY <1>1, CanaryHolds, PTL

\* No worker works on for a job whose outcome has been recorded, unless that
\* outcome admits that its cancellation is uncertain.
THEOREM EndedJobsAreQuiet == Spec => []TerminalQuiet
<1>1. CanaryInv => TerminalQuiet
  BY Endings
<1>. QED  BY <1>1, CanaryHolds, PTL

\* request_cancel: once a command has reported that its request stands, the job
\* is certified only for an exit that preceded the request.
THEOREM CancelsAreHonoured == Spec => []CancelHonoured
<1>1. CanaryInv => CancelHonoured
  BY Endings
<1>. QED  BY <1>1, CanaryHolds, PTL
=============================================================================
