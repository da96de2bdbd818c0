----------------------------- MODULE ClaimProofs ------------------------------
(***************************************************************************)
(* GitHub's receipts and the reviewer claim agree, and the arm guard is    *)
(* safe: theorems of ReviewerClaim for any number of reviewers, heads,     *)
(* bases, check runs, moves and crashes and every outcome of GitHub's API. *)
(***************************************************************************)
EXTENDS ReviewerClaim, WellFoundedInduction, SequenceTheorems, TLAPS

-----------------------------------------------------------------------------
(* The invariant. *)

Working == {"find", "create", "find2", "revoke"}
Holding == {"invalidate", "adopt", "run"}

Acquires ==
    [pc : {"idle", "read", "stamped"} \cup Working, head : 1..Heads, at : 0..clock, dl : Nat]

Shippers ==
    [pc : {"idle", "queued"} \cup Holding, head : 0..Heads, base : Base \cup {Nobody},
     todo : SUBSET (DOMAIN runs)]

Types ==
    /\ clock \in 0..MaxClock
    /\ pull \in [head : 1..Heads, base : Base]
    /\ ship \in Ships \cup {NoShip}
    /\ lock \in Reviewer \cup {Nobody, Shipper}
    /\ acq \in [Reviewer -> Acquires] /\ shipper \in Shippers
    /\ runs \in Seq(Runs) /\ late \subseteq Runs
    /\ checked \in [Reviewer -> 0..Heads]
    /\ issued \subseteq Claims /\ stray \in BOOLEAN
    /\ moves \in 0..MaxMoves /\ crashes \in 0..MaxCrashes

\* The lock is held from the claim to the end of its publication, and by a ship
\* run from its listing to its end.
LockInv ==
    /\ \A r \in Reviewer : acq[r].pc \in Working <=> lock = r
    /\ shipper.pc \in Holding <=> lock = Shipper
    /\ shipper.pc # "idle" => shipper.head # 0 /\ shipper.base \in Base

\* The active claim is the state's, and a publication is about one.
ClaimInv ==
    /\ ship # NoShip /\ ship.claim # NoClaim
         => /\ ship.claim.head = ship.head /\ ship.claim.epoch = ship.epoch
            /\ ship.claim.at <= clock
    /\ lock \in Reviewer => ship # NoShip /\ ship.claim # NoClaim

\* The receipt that run i is, is the active claim's.
Certifies(i) ==
    /\ ship.claim # NoClaim
    /\ ReceiptId(runs[i]) = ReceiptId(ship.claim)
    /\ runs[i].at = ship.claim.at /\ runs[i].dl = ship.claim.dl
    /\ runs[i].base = ship.base

\* Heads and epochs only advance.
OrderInv ==
    ~stray =>
        /\ late = {} /\ ship # NoShip
        /\ ship.head <= pull.head
        /\ shipper.pc # "idle" => ship.head <= shipper.head /\ shipper.head <= pull.head
        /\ \A i \in DOMAIN runs : runs[i].head <= ship.head /\ runs[i].epoch <= ship.epoch
        /\ \A c \in issued : c.epoch <= ship.epoch

\* A claim is published once, and no other unexpired receipt stands on the head.
ReceiptInv ==
    ~stray =>
        /\ \A i, j \in DOMAIN runs : ReceiptId(runs[i]) = ReceiptId(runs[j]) => i = j
        /\ \A i \in OnHead(runs, ship.head) : Unexpired(runs[i]) => Certifies(i)
        /\ lock \in Reviewer => ship.claim \notin issued
        /\ \A r \in Reviewer :
             /\ acq[r].pc \in {"find", "create"} => SameId(ship.claim) = {}
             /\ acq[r].pc \in {"find2", "revoke"} => SameId(ship.claim) \subseteq {Len(runs)}

\* What an adoption has marked failed, or will.
AdoptInv ==
    ~stray =>
        /\ shipper.pc = "invalidate"
             => /\ shipper.head = ship.head
                /\ \A i \in OnHead(runs, ship.head) : runs[i].ok => i \in shipper.todo
        /\ shipper.pc = "adopt" /\ shipper.head = ship.head /\ shipper.base # ship.base
             => \A i \in OnHead(runs, ship.head) : ~Unexpired(runs[i])

ClaimsInv ==
    /\ Types /\ LockInv /\ ClaimInv /\ OrderInv /\ ReceiptInv /\ AdoptInv
    /\ OneReceipt /\ LatestIsCurrent /\ IssuedCertified

-----------------------------------------------------------------------------
(* Least and greatest numbers, and sequences. *)

LEMMA Least ==
  ASSUME NEW S, S \subseteq Nat, S # {}
  PROVE  \E m \in S : \A k \in S : m <= k
<1>. DEFINE R == {ss \in Nat \X Nat : ss[1] < ss[2]}
<1>1. IsWellFoundedOn(R, Nat)
  <2>1. R = OpToRel(<, Nat)
    BY DEF OpToRel
  <2>. QED  BY <2>1, NatLessThanWellFounded, Zenon
<1>2. PICK m \in S : \A k \in S : ~(<<k, m>> \in R)
  <2>. HIDE DEF R
  <2>. QED  BY <1>1, WFMin, Zenon
<1>3. \A k \in S : m <= k
  <2>1. SUFFICES ASSUME NEW k \in S PROVE m <= k
    OBVIOUS
  <2>2. ~(<<k, m>>[1] < <<k, m>>[2])
    BY <1>2
  <2>. QED  BY <2>2
<1>. QED  BY <1>3

LEMMA Greatest ==
  ASSUME NEW S, NEW n \in Nat, S \subseteq 0 .. n, S # {}
  PROVE  \E m \in S : \A k \in S : k <= m
<1>. DEFINE T == {n - k : k \in S}
<1>1. T \subseteq Nat /\ T # {}
  <2>1. T \subseteq Nat
    OBVIOUS
  <2>2. PICK k \in S : TRUE
    OBVIOUS
  <2>3. n - k \in T
    OBVIOUS
  <2>. QED  BY <2>1, <2>3
<1>2. PICK t \in T : \A u \in T : t <= u
  BY <1>1, Least
<1>3. PICK m \in S : t = n - m
  BY <1>2
<1>4. \A k \in S : n - m <= n - k
  BY <1>2, <1>3
<1>. QED  BY <1>3, <1>4

LEMMA Domain ==
  ASSUME Types
  PROVE  /\ Len(runs) \in Nat /\ DOMAIN runs = 1 .. Len(runs) /\ DOMAIN runs \subseteq Nat
         /\ \A i \in DOMAIN runs : runs[i] \in Runs
<1>1. Len(runs) \in Nat /\ DOMAIN runs = 1 .. Len(runs)
  BY LenProperties DEF Types
<1>2. \A i \in 1 .. Len(runs) : runs[i] \in Runs
  BY ElementOfSeq DEF Types
<1>. QED  BY <1>1, <1>2

LEMMA FirstIn ==
  ASSUME NEW S, S \subseteq Nat, S # {}
  PROVE  First(S) \in S
<1>1. \E i \in S : \A j \in S : i <= j
  BY Least
<1>. QED  BY <1>1 DEF First

LEMMA LastIn ==
  ASSUME NEW S, NEW n \in Nat, S \subseteq 1 .. n, S # {}
  PROVE  Last(S) \in S /\ \A j \in S : j <= Last(S)
<1>1. \E i \in S : \A j \in S : j <= i
  <2>1. S \subseteq 0 .. n
    OBVIOUS
  <2>. QED  BY <2>1, Greatest
<1>. QED  BY <1>1 DEF Last

\* A check run is added.
LEMMA Appended ==
  ASSUME Types, NEW x \in Runs, runs' = Append(runs, x)
  PROVE  /\ runs' \in Seq(Runs) /\ Len(runs') = Len(runs) + 1
         /\ Len(runs) \in Nat /\ Len(runs') \notin DOMAIN runs
         /\ DOMAIN runs' = DOMAIN runs \cup {Len(runs')}
         /\ \A i \in DOMAIN runs : runs'[i] = runs[i]
         /\ runs'[Len(runs')] = x
         /\ Last(OnHead(runs', x.head)) = Len(runs')
         /\ OnHead(runs', x.head) = OnHead(runs, x.head) \cup {Len(runs')}
         /\ \A h : h # x.head => OnHead(runs', h) = OnHead(runs, h)
<1>1. /\ runs' \in Seq(Runs) /\ Len(runs') = Len(runs) + 1
      /\ \A i \in 1 .. Len(runs) : runs'[i] = runs[i]
      /\ runs'[Len(runs')] = x
  BY AppendProperties DEF Types
<1>2. Len(runs) \in Nat /\ DOMAIN runs = 1 .. Len(runs)
  BY Domain
<1>3. DOMAIN runs' = 1 .. Len(runs')
  BY <1>1, LenProperties
<1>4. Len(runs') \notin DOMAIN runs /\ DOMAIN runs' = DOMAIN runs \cup {Len(runs')}
  BY <1>1, <1>2, <1>3
<1>5. /\ OnHead(runs', x.head) = OnHead(runs, x.head) \cup {Len(runs')}
      /\ \A h : h # x.head => OnHead(runs', h) = OnHead(runs, h)
  BY <1>1, <1>2, <1>4 DEF OnHead
<1>6. Last(OnHead(runs', x.head)) = Len(runs')
  <2>1. /\ Len(runs') \in OnHead(runs', x.head)
        /\ \A j \in OnHead(runs', x.head) : j <= Len(runs') /\ j \in Nat
    BY <1>1, <1>2, <1>3, <1>5 DEF OnHead
  <2>2. Len(runs') \in Nat
    BY <1>1, <1>2
  <2>3. \A i \in OnHead(runs', x.head) :
           (\A j \in OnHead(runs', x.head) : j <= i) => i = Len(runs')
    BY <2>1, <2>2
  <2>. QED  BY <2>1, <2>3 DEF Last
<1>. QED  BY <1>1, <1>2, <1>4, <1>5, <1>6

\* A check run is marked failed.
LEMMA Patched ==
  ASSUME Types, NEW k \in DOMAIN runs, runs' = [runs EXCEPT ![k].ok = FALSE]
  PROVE  /\ runs' \in Seq(Runs) /\ Len(runs') = Len(runs) /\ DOMAIN runs' = DOMAIN runs
         /\ \A i \in DOMAIN runs :
              /\ ReceiptId(runs'[i]) = ReceiptId(runs[i])
              /\ runs'[i].head = runs[i].head /\ runs'[i].epoch = runs[i].epoch
              /\ runs'[i].at = runs[i].at /\ runs'[i].dl = runs[i].dl
              /\ runs'[i].app = runs[i].app /\ runs'[i].base = runs[i].base
              /\ runs'[i].ok => runs[i].ok /\ i # k
         /\ \A h : OnHead(runs', h) = OnHead(runs, h)
<1>1. Len(runs) \in Nat /\ DOMAIN runs = 1 .. Len(runs) /\ \A i \in DOMAIN runs : runs[i] \in Runs
  BY Domain
<1>. DEFINE e == [runs[k] EXCEPT !.ok = FALSE]
<1>2. /\ e \in Runs /\ e.head = runs[k].head /\ e.epoch = runs[k].epoch /\ e.at = runs[k].at
      /\ e.dl = runs[k].dl /\ e.app = runs[k].app /\ e.base = runs[k].base /\ ~e.ok /\ e.rev = runs[k].rev
  BY <1>1 DEF Runs
<1>3. runs' = [runs EXCEPT ![k] = e]
  OBVIOUS
<1>. HIDE DEF e
<1>4. /\ runs' \in Seq(Runs) /\ Len(runs') = Len(runs)
      /\ \A j \in 1 .. Len(runs) : runs'[j] = IF j = k THEN e ELSE runs[j]
  <2>1. runs \in Seq(Runs) /\ k \in 1 .. Len(runs) /\ e \in Runs
    BY <1>1, <1>2 DEF Types
  <2>2. /\ [runs EXCEPT ![k] = e] \in Seq(Runs) /\ Len([runs EXCEPT ![k] = e]) = Len(runs)
        /\ \A j \in 1 .. Len(runs) : [runs EXCEPT ![k] = e][j] = IF j = k THEN e ELSE runs[j]
    BY <2>1
  <2>. QED  BY <1>3, <2>2, Zenon
<1>5. DOMAIN runs' = DOMAIN runs
  BY <1>1, <1>4, LenProperties
<1>6. \A i \in DOMAIN runs :
              /\ runs'[i].head = runs[i].head /\ runs'[i].epoch = runs[i].epoch
              /\ runs'[i].at = runs[i].at /\ runs'[i].dl = runs[i].dl
              /\ runs'[i].app = runs[i].app /\ runs'[i].base = runs[i].base
              /\ runs'[i].rev = runs[i].rev
              /\ runs'[i].ok => runs[i].ok /\ i # k
  BY <1>1, <1>2, <1>4
<1>7. \A h : OnHead(runs', h) = OnHead(runs, h)
  BY <1>5, <1>6 DEF OnHead
<1>. QED  BY <1>4, <1>5, <1>6, <1>7 DEF ReceiptId

-----------------------------------------------------------------------------
(* Steps that leave the ship state, the check runs and the history alone. *)

LEMMA Quiet ==
  ASSUME ClaimsInv, Types', LockInv', UNCHANGED <<ship, runs, late, issued>>,
         clock' >= clock, stray => stray', lock' \in Reviewer => lock' = lock,
         \A r \in Reviewer : /\ acq'[r].pc \in {"find", "create"} => acq[r].pc \in {"find", "create"}
                             /\ acq'[r].pc \in {"find2", "revoke"} => acq[r].pc \in Working,
         ~stray' => pull'.head >= pull.head,
         shipper' = shipper \/ (OrderInv' /\ AdoptInv')
  PROVE  ClaimsInv'
<1>0. Types /\ LockInv /\ ClaimInv /\ OrderInv /\ ReceiptInv /\ AdoptInv /\ OneReceipt /\ LatestIsCurrent
      /\ IssuedCertified
  BY DEF ClaimsInv
<1>1. /\ clock \in Nat /\ clock' \in Nat /\ pull.head \in Nat /\ pull'.head \in Nat
      /\ \A i \in DOMAIN runs : runs[i].dl \in Nat
      /\ ship # NoShip => ship.head \in Nat
      /\ shipper.head \in Nat
      /\ ship # NoShip /\ ship.claim # NoClaim => ship.claim.at \in Nat
  <2>1. \A i \in DOMAIN runs : runs[i].dl \in Nat
    BY <1>0, Domain DEF Runs
  <2>2. /\ clock \in Nat /\ clock' \in Nat /\ pull.head \in Nat /\ pull'.head \in Nat /\ shipper.head \in Nat
    <3>1. /\ clock \in 0..MaxClock /\ clock' \in 0..MaxClock
          /\ pull \in [head : 1..Heads, base : Base] /\ pull' \in [head : 1..Heads, base : Base]
          /\ shipper \in Shippers
      BY <1>0, Zenon DEF Types
    <3>2. shipper.head \in Nat
      BY <3>1 DEF Shippers
    <3>. QED  BY <3>1, <3>2, ClaimAssumption
  <2>3. /\ ship # NoShip => ship.head \in Nat
        /\ ship # NoShip /\ ship.claim # NoClaim => ship.claim.at \in Nat
    <3>1. ship # NoShip => ship \in Ships
      BY <1>0, Zenon DEF Types
    <3>2. \A s \in Ships : s.head \in Nat /\ (s.claim # NoClaim => s.claim \in Claims)
      BY DEF Ships
    <3>3. \A c \in Claims : c.at \in Nat
      BY DEF Claims
    <3>. QED  BY <3>1, <3>2, <3>3, Zenon
  <2>. QED  BY <2>1, <2>2, <2>3
<1>2. \A i \in DOMAIN runs : Unexpired(runs[i])' => Unexpired(runs[i])
  BY <1>1 DEF Unexpired
<1>3. ClaimInv'
  BY <1>0, <1>1 DEF ClaimInv
<1>4. OrderInv'
  BY <1>0, <1>1 DEF OrderInv
<1>5. ReceiptInv'
  <2>1. SUFFICES ASSUME ~stray' PROVE ReceiptInv'
    BY DEF ReceiptInv
  <2>2. SameId(ship.claim)' = SameId(ship.claim)
    BY DEF SameId
  <2>3. \A i \in OnHead(runs, ship.head) : Unexpired(runs[i])' => Certifies(i)'
    BY <1>0, <1>2, <2>1 DEF ReceiptInv, Certifies, OnHead, ReceiptId
  <2>4. \A i, j \in DOMAIN runs : ReceiptId(runs[i]) = ReceiptId(runs[j]) => i = j
    BY <1>0, <2>1 DEF ReceiptInv
  <2>5. lock' \in Reviewer => ship.claim \notin issued
    BY <1>0, <2>1 DEF ReceiptInv
  <2>6. \A r \in Reviewer :
             /\ acq'[r].pc \in {"find", "create"} => SameId(ship.claim) = {}
             /\ acq'[r].pc \in {"find2", "revoke"} => SameId(ship.claim) \subseteq {Len(runs)}
    BY <1>0, <2>1 DEF ReceiptInv, Working
  <2>. QED  BY <2>2, <2>3, <2>4, <2>5, <2>6 DEF ReceiptInv, OnHead, ReceiptId
<1>6. AdoptInv'
  BY <1>0, <1>2 DEF AdoptInv, OnHead
<1>7. OneReceipt' /\ LatestIsCurrent' /\ IssuedCertified'
  BY <1>0, <1>2 DEF OneReceipt, LatestIsCurrent, IssuedCertified, OnHead, ReceiptId
<1>. QED  BY <1>3, <1>4, <1>5, <1>6, <1>7 DEF ClaimsInv

LEMMA AcquireTyped ==
  ASSUME Types, NEW r \in Reviewer, NEW n, acq' = [acq EXCEPT ![r] = n],
         clock' \in Nat, clock' >= clock, n \in Acquires'
  PROVE  /\ acq' \in [Reviewer -> Acquires'] /\ acq'[r] = n
         /\ \A q \in Reviewer : q # r => acq'[q] = acq[q]
<1>1. clock \in Nat /\ acq \in [Reviewer -> Acquires]
  BY ClaimAssumption DEF Types
<1>2. 0 .. clock \subseteq 0 .. clock'
  BY <1>1
<1>3. Acquires \subseteq Acquires'
  BY <1>2 DEF Acquires
<1>4. acq \in [Reviewer -> Acquires']
  BY <1>1, <1>3
<1>. HIDE DEF Acquires
<1>. QED  BY <1>4

LEMMA ReadPullKeeps ==
  ASSUME ClaimsInv, NEW r \in Reviewer, ReadPull(r)
  PROVE  ClaimsInv'
<1>. DEFINE n == [Idle EXCEPT !.pc = "read", !.head = pull.head]
<1>0. Types /\ LockInv
  BY DEF ClaimsInv
<1>1. UNCHANGED <<clock, pull, ship, lock, shipper, runs, late, checked, issued, stray, moves, crashes>>
  BY DEF ReadPull
<1>2. acq' = [acq EXCEPT ![r] = n] /\ acq[r].pc = "idle"
  BY DEF ReadPull
<1>3. clock \in Nat /\ pull.head \in 1 .. Heads /\ pull.head \in Nat
  BY <1>0, ClaimAssumption DEF Types
<1>4. n \in Acquires' /\ n.pc = "read"
  <2>. DEFINE m == [Idle EXCEPT !.pc = "read"]
  <2>1. 0 \in 0 .. clock /\ clock' = clock /\ 1 \in 1 .. Heads
    BY <1>1, <1>3, ClaimAssumption
  <2>2. m \in Acquires' /\ m.pc = "read"
    BY <2>1 DEF Idle, Acquires
  <2>3. n = [m EXCEPT !.head = pull.head]
    OBVIOUS
  <2>. HIDE DEF m, n
  <2>. QED  BY <1>3, <2>2, <2>3 DEF Acquires
<1>. HIDE DEF n
<1>5. clock' \in Nat /\ clock' >= clock /\ pull'.head >= pull.head
  BY <1>1, <1>3
<1>6. acq' \in [Reviewer -> Acquires'] /\ acq'[r] = n /\ \A q \in Reviewer : q # r => acq'[q] = acq[q]
  BY <1>0, <1>2, <1>4, <1>5, AcquireTyped
<1>7. Types'
  BY <1>0, <1>1, <1>6 DEF Types, Shippers
<1>8. LockInv'
  BY <1>0, <1>1, <1>2, <1>4, <1>6 DEF LockInv, Working
<1>9. \A q \in Reviewer : /\ acq'[q].pc \in {"find", "create"} => acq[q].pc \in {"find", "create"}
                          /\ acq'[q].pc \in {"find2", "revoke"} => acq[q].pc \in Working
  BY <1>4, <1>6 DEF Working
<1>. QED  BY <1>1, <1>5, <1>7, <1>8, <1>9, Quiet

LEMMA StampKeeps ==
  ASSUME ClaimsInv, NEW r \in Reviewer, Stamp(r)
  PROVE  ClaimsInv'
<1>. DEFINE n == [acq[r] EXCEPT !.pc = "stamped", !.at = clock', !.dl = clock' + Term]
<1>0. Types /\ LockInv
  BY DEF ClaimsInv
<1>1. /\ UNCHANGED <<pull, ship, lock, shipper, runs, late, checked, issued, stray, moves, crashes>>
      /\ clock' = clock + 1 /\ clock' \in 0..MaxClock /\ clock' >= clock /\ clock' \in Nat
  BY <1>0, ClaimAssumption DEF Stamp, Types
<1>2. acq' = [acq EXCEPT ![r] = n] /\ acq[r].pc = "read"
  BY DEF Stamp
<1>3. pull.head \in Nat /\ acq[r] \in Acquires
  BY <1>0, ClaimAssumption DEF Types
<1>4. n \in Acquires' /\ n.pc = "stamped"
  <2>. DEFINE k == [acq[r] EXCEPT !.pc = "stamped"]
              m == [k EXCEPT !.at = clock']
  <2>1. clock' \in 0 .. clock' /\ clock' + Term \in Nat /\ 0 .. clock \subseteq 0 .. clock'
    BY <1>0, <1>1, ClaimAssumption DEF Types
  <2>2. k \in Acquires' /\ k.pc = "stamped"
    BY <1>3, <2>1 DEF Acquires
  <2>3. n = [m EXCEPT !.dl = clock' + Term]
    OBVIOUS
  <2>. HIDE DEF k
  <2>4. m \in Acquires' /\ m.pc = "stamped"
    BY <2>1, <2>2 DEF Acquires
  <2>. HIDE DEF m, n
  <2>. QED  BY <2>1, <2>3, <2>4 DEF Acquires
<1>. HIDE DEF n
<1>5. pull'.head >= pull.head
  BY <1>1, <1>3
<1>6. acq' \in [Reviewer -> Acquires'] /\ acq'[r] = n /\ \A q \in Reviewer : q # r => acq'[q] = acq[q]
  BY <1>0, <1>1, <1>2, <1>4, AcquireTyped
<1>7. Types'
  BY <1>0, <1>1, <1>6 DEF Types, Shippers
<1>8. LockInv'
  BY <1>0, <1>1, <1>2, <1>4, <1>6 DEF LockInv, Working
<1>9. \A q \in Reviewer : /\ acq'[q].pc \in {"find", "create"} => acq[q].pc \in {"find", "create"}
                          /\ acq'[q].pc \in {"find2", "revoke"} => acq[q].pc \in Working
  BY <1>4, <1>6 DEF Working
<1>. QED  BY <1>1, <1>5, <1>7, <1>8, <1>9, Quiet

\* A reviewer's step that moves it on, or ends it, without the ship state.
LEMMA ReviewerQuiet ==
  ASSUME ClaimsInv, NEW r \in Reviewer, NEW n \in Acquires,
         acq' = [acq EXCEPT ![r] = n],
         \/ /\ lock = r /\ lock' = r /\ acq[r].pc \in Working /\ n.pc \in Working
            /\ n.pc \in {"find", "create"} => acq[r].pc \in {"find", "create"}
         \/ lock \in {r, Nobody} /\ lock' = Nobody /\ n.pc = "idle",
         crashes' \in 0..MaxCrashes, stray => stray', stray' \in BOOLEAN,
         UNCHANGED <<clock, pull, ship, shipper, runs, late, checked, issued, moves>>
  PROVE  ClaimsInv'
<1>0. Types /\ LockInv
  BY DEF ClaimsInv
<1>1. /\ acq' \in [Reviewer -> Acquires] /\ acq'[r] = n
      /\ \A q \in Reviewer : q # r => acq'[q] = acq[q]
  BY <1>0 DEF Types
<1>2. Types'
  BY <1>0, <1>1 DEF Types, Acquires, Shippers
<1>3. LockInv'
  BY <1>0, <1>1, ClaimAssumption DEF LockInv, Working
<1>4. pull.head >= pull.head /\ clock >= clock
  BY <1>0 DEF Types
<1>5. \A q \in Reviewer : /\ acq'[q].pc \in {"find", "create"} => acq[q].pc \in {"find", "create"}
                          /\ acq'[q].pc \in {"find2", "revoke"} => acq[q].pc \in Working
  BY <1>1 DEF Working
<1>6. lock' \in Reviewer => lock' = lock
  BY ClaimAssumption
<1>. QED  BY <1>2, <1>3, <1>4, <1>5, <1>6, Quiet

LEMMA IdleAcquires ==
  ASSUME Types
  PROVE  Idle \in Acquires
  BY ClaimAssumption DEF Types, Idle, Acquires

\* The rest of the world moves on.
LEMMA OthersKeep ==
  ASSUME ClaimsInv, Tick \/ Push \/ Retarget \/ \E r \in Reviewer : Validate(r) \/ Post(r)
  PROVE  ClaimsInv'
<1>0. Types /\ LockInv /\ pull.head \in Nat /\ clock \in Nat
  BY ClaimAssumption DEF ClaimsInv, Types
<1>1. UNCHANGED <<ship, lock, acq, shipper, runs, late, issued, crashes>>
  BY DEF Tick, Push, Retarget, Validate, Post
<1>2. /\ clock' \in 0..MaxClock /\ clock' >= clock /\ stray' \in BOOLEAN /\ (stray => stray')
      /\ moves' \in 0..MaxMoves /\ checked' \in [Reviewer -> 0..Heads]
      /\ pull' \in [head : 1..Heads, base : Base] /\ (~stray' => pull'.head >= pull.head)
  <2>1. CASE Tick
    <3>1. clock' = clock + 1 /\ clock < MaxClock /\ UNCHANGED <<pull, stray, moves, checked>>
      BY <2>1 DEF Tick
    <3>2. clock' \in 0..MaxClock /\ clock' >= clock /\ pull'.head >= pull.head
      BY <1>0, <3>1, ClaimAssumption
    <3>. QED  BY <1>0, <3>1, <3>2 DEF Types
  <2>2. CASE Push
    <3>1. PICK h \in 1..Heads \ {pull.head} : pull' = [pull EXCEPT !.head = h] /\ stray' = (stray \/ h < pull.head)
      BY <2>2 DEF Push
    <3>2. pull' \in [head : 1..Heads, base : Base] /\ pull'.head = h
      BY <1>0, <3>1 DEF Types
    <3>3. /\ clock' \in 0..MaxClock /\ clock' >= clock /\ moves' \in 0..MaxMoves
          /\ checked' \in [Reviewer -> 0..Heads]
      <4>1. /\ moves \in 0..MaxMoves /\ clock \in 0..MaxClock /\ checked \in [Reviewer -> 0..Heads]
            /\ moves < MaxMoves /\ moves' = moves + 1 /\ clock' = clock /\ checked' = checked
        BY <1>0, <2>2, Zenon DEF Push, Types
      <4>. QED  BY <4>1, ClaimAssumption
    <3>4. stray' \in BOOLEAN /\ (stray => stray') /\ (~stray' => ~(h < pull.head))
      BY <3>1
    <3>5. ~stray' => pull'.head >= pull.head
      BY <1>0, <3>2, <3>4, ClaimAssumption
    <3>. QED  BY <3>2, <3>3, <3>4, <3>5
  <2>3. CASE Retarget
    <3>1. PICK b \in Base \ {pull.base} : pull' = [pull EXCEPT !.base = b]
      BY <2>3 DEF Retarget
    <3>2. pull' \in [head : 1..Heads, base : Base] /\ pull'.head = pull.head
      BY <1>0, <3>1 DEF Types
    <3>3. UNCHANGED <<clock, stray, checked>> /\ moves' = moves + 1 /\ moves < MaxMoves
      BY <2>3 DEF Retarget
    <3>4. clock' >= clock /\ pull'.head >= pull.head /\ moves' \in 0..MaxMoves
      BY <1>0, <3>2, <3>3, ClaimAssumption DEF Types
    <3>. QED  BY <1>0, <3>2, <3>3, <3>4 DEF Types
  <2>4. CASE \E r \in Reviewer : Validate(r) \/ Post(r)
    <3>1. PICK r \in Reviewer : Validate(r) \/ Post(r)
      BY <2>4
    <3>2. UNCHANGED <<clock, pull, stray, moves>>
      BY <3>1 DEF Validate, Post
    <3>3. pull.head \in 0..Heads /\ 0 \in 0..Heads /\ checked \in [Reviewer -> 0..Heads]
      BY <1>0, ClaimAssumption DEF Types
    <3>4. \E v \in 0..Heads : checked' = [checked EXCEPT ![r] = v]
      BY <3>1, <3>3 DEF Validate, Post
    <3>5. checked' \in [Reviewer -> 0..Heads]
      BY <3>3, <3>4
    <3>6. clock' >= clock /\ pull'.head >= pull.head
      BY <1>0, <3>2
    <3>. QED  BY <1>0, <3>2, <3>5, <3>6 DEF Types
  <2>. QED  BY <2>1, <2>2, <2>3, <2>4
<1>3. Types'
  <2>1. acq \in [Reviewer -> Acquires']
    BY <1>0, <1>2 DEF Types, Acquires
  <2>. QED  BY <1>0, <1>1, <1>2, <2>1 DEF Types, Shippers
<1>4. LockInv'
  BY <1>0, <1>1 DEF LockInv
<1>5. \A q \in Reviewer : /\ acq'[q].pc \in {"find", "create"} => acq[q].pc \in {"find", "create"}
                          /\ acq'[q].pc \in {"find2", "revoke"} => acq[q].pc \in Working
  BY <1>1 DEF Working
<1>. QED  BY <1>1, <1>2, <1>3, <1>4, <1>5, Quiet

-----------------------------------------------------------------------------
(* The ship run, up to its adoption. *)

LEMMA ShipQuiet ==
  ASSUME ClaimsInv, shipper' \in Shippers,
         lock' = lock \/ (lock \in {Nobody, Shipper} /\ lock' \in {Nobody, Shipper}),
         shipper'.pc \in Holding <=> lock' = Shipper,
         shipper'.pc # "idle" => shipper'.head # 0 /\ shipper'.base \in Base,
         ~stray /\ shipper'.pc # "idle" => ship.head <= shipper'.head /\ shipper'.head <= pull.head,
         AdoptInv', crashes' \in 0..MaxCrashes,
         UNCHANGED <<clock, pull, ship, acq, runs, late, checked, issued, stray, moves>>
  PROVE  ClaimsInv'
<1>0. Types /\ LockInv /\ OrderInv
  BY DEF ClaimsInv
<1>1. Types'
  <2>1. lock' \in Reviewer \cup {Nobody, Shipper}
    BY <1>0 DEF Types
  <2>2. shipper' \in Shippers'
    BY DEF Shippers
  <2>. QED  BY <1>0, <2>1, <2>2 DEF Types, Acquires
<1>2. LockInv'
  <2>1. \A r \in Reviewer : lock = r <=> lock' = r
    BY ClaimAssumption
  <2>. QED  BY <1>0, <2>1 DEF LockInv
<1>3. OrderInv'
  BY <1>0 DEF OrderInv
<1>4. pull.head >= pull.head /\ clock >= clock
  BY <1>0, ClaimAssumption DEF Types
<1>5. \A q \in Reviewer : /\ acq'[q].pc \in {"find", "create"} => acq[q].pc \in {"find", "create"}
                          /\ acq'[q].pc \in {"find2", "revoke"} => acq[q].pc \in Working
  BY DEF Working
<1>6. lock' \in Reviewer => lock' = lock
  BY ClaimAssumption
<1>. QED  BY <1>1, <1>2, <1>3, <1>4, <1>5, <1>6, Quiet

LEMMA NoRunTyped ==
  NoRun \in Shippers /\ NoRun.pc = "idle"
<1>1. 0 \in 0 .. Heads
  BY ClaimAssumption
<1>. QED  BY <1>1 DEF NoRun, Shippers

\* A ship run that ends, whether or not it held the lock.
LEMMA ShipEndsQuiet ==
  ASSUME ClaimsInv, ShipEnds, lock \in {Nobody, Shipper}, crashes' \in 0..MaxCrashes,
         UNCHANGED <<clock, pull, ship, acq, runs, late, checked, issued, stray, moves>>
  PROVE  ClaimsInv'
<1>1. shipper' = NoRun /\ lock' = Nobody
  BY DEF ShipEnds
<1>2. AdoptInv'
  BY <1>1, NoRunTyped DEF AdoptInv
<1>3. "idle" \notin Holding /\ Nobody # Shipper
  BY ClaimAssumption DEF Holding
<1>. QED  BY <1>1, <1>2, <1>3, NoRunTyped, ShipQuiet

LEMMA ShipRequestKeeps ==
  ASSUME ClaimsInv, ShipRequest
  PROVE  ClaimsInv'
<1>0. Types /\ LockInv /\ OrderInv
  BY DEF ClaimsInv
<1>1. /\ UNCHANGED <<clock, pull, ship, lock, acq, runs, late, checked, issued, stray, moves, crashes>>
      /\ shipper' = [pc |-> "queued", head |-> pull.head, base |-> pull.base, todo |-> {}]
      /\ shipper.pc = "idle"
  BY DEF ShipRequest
<1>2. /\ pull.head \in 1 .. Heads /\ pull.base \in Base /\ pull.head \in 0 .. Heads
      /\ pull.head # 0 /\ pull.head <= pull.head
  BY <1>0, ClaimAssumption DEF Types
<1>3. /\ shipper' \in Shippers /\ shipper'.head = pull.head /\ shipper'.base = pull.base
      /\ shipper'.pc = "queued"
  BY <1>1, <1>2 DEF Shippers
<1>4. AdoptInv'
  BY <1>3 DEF AdoptInv
<1>5. shipper'.pc \in Holding <=> lock' = Shipper
  BY <1>0, <1>1, <1>3 DEF LockInv, Holding
<1>6. ~stray => ship.head <= pull.head
  BY <1>0 DEF OrderInv
<1>7. crashes' \in 0..MaxCrashes
  BY <1>0, <1>1 DEF Types
<1>. QED  BY <1>1, <1>2, <1>3, <1>4, <1>5, <1>6, <1>7, ShipQuiet

LEMMA ShipLockKeeps ==
  ASSUME ClaimsInv, ShipLock
  PROVE  ClaimsInv'
<1>0. Types /\ LockInv /\ OrderInv /\ ReceiptInv
  BY DEF ClaimsInv
<1>1. /\ UNCHANGED <<clock, pull, ship, acq, runs, late, checked, issued, stray, moves, crashes>>
      /\ shipper.pc = "queued" /\ lock = Nobody
  BY DEF ShipLock
<1>2. crashes' \in 0..MaxCrashes
  BY <1>0, <1>1 DEF Types
<1>3. shipper \in Shippers
  BY <1>0 DEF Types
<1>4. /\ shipper.head # 0 /\ shipper.base \in Base
      /\ ~stray => ship # NoShip /\ ship.head <= shipper.head /\ shipper.head <= pull.head
  BY <1>0, <1>1 DEF LockInv, OrderInv
<1>5. CASE ShipEnds
  BY <1>1, <1>2, <1>5, ShipEndsQuiet
<1>6. CASE /\ MustInvalidate /\ lock' = Shipper
           /\ shipper' = [shipper EXCEPT !.pc = "invalidate", !.todo = AdoptedReceipts]
  <2>. DEFINE m == [shipper EXCEPT !.pc = "invalidate"]
  <2>1. m \in Shippers /\ m.pc = "invalidate" /\ m.head = shipper.head /\ m.base = shipper.base
    BY <1>3 DEF Shippers, Holding
  <2>2. shipper' = [m EXCEPT !.todo = AdoptedReceipts]
    BY <1>6
  <2>3. AdoptedReceipts \subseteq DOMAIN runs
    BY DEF AdoptedReceipts
  <2>. HIDE DEF m
  <2>4. /\ shipper' \in Shippers /\ shipper'.pc = "invalidate" /\ shipper'.head = shipper.head
        /\ shipper'.base = shipper.base /\ shipper'.todo = AdoptedReceipts
    BY <2>1, <2>2, <2>3 DEF Shippers
  <2>5. AdoptInv'
    BY <1>1, <1>6, <2>4 DEF AdoptInv, MustInvalidate, AdoptedReceipts, OnHead
  <2>6. shipper'.pc \in Holding
    BY <2>4 DEF Holding
  <2>. QED  BY <1>1, <1>2, <1>4, <1>6, <2>4, <2>5, <2>6, ShipQuiet
<1>7. CASE ~MustInvalidate /\ lock' = Shipper /\ shipper' = [shipper EXCEPT !.pc = "adopt"]
  <2>1. /\ shipper' \in Shippers /\ shipper'.pc = "adopt" /\ shipper'.head = shipper.head
        /\ shipper'.base = shipper.base
    BY <1>3, <1>7 DEF Shippers, Holding
  <2>2. AdoptInv'
    <3>1. SUFFICES ASSUME ~stray, shipper.head = ship.head, shipper.base # ship.base,
                          NEW i \in OnHead(runs, ship.head), Unexpired(runs[i])
                   PROVE  FALSE
      BY <1>1, <2>1 DEF AdoptInv, OnHead, Unexpired
    <3>2. Certifies(i)
      BY <1>0, <3>1 DEF ReceiptInv
    <3>. QED  BY <1>4, <1>7, <3>1, <3>2 DEF Certifies, MustInvalidate
  <2>3. shipper'.pc \in Holding
    BY <2>1 DEF Holding
  <2>. QED  BY <1>1, <1>2, <1>4, <1>7, <2>1, <2>2, <2>3, ShipQuiet
<1>. QED  BY <1>5, <1>6, <1>7 DEF ShipLock

LEMMA HeldByShip ==
  ASSUME ClaimsInv, shipper.pc \in Holding
  PROVE  /\ lock = Shipper /\ shipper \in Shippers /\ shipper.head # 0 /\ shipper.base \in Base
         /\ ~stray => ship # NoShip /\ ship.head <= shipper.head /\ shipper.head <= pull.head
  BY DEF ClaimsInv, LockInv, OrderInv, Types, Holding

LEMMA ShipEndingKeeps ==
  ASSUME ClaimsInv, ShipRefuse \/ ShipFinish \/ ShipCrash
  PROVE  ClaimsInv'
<1>0. Types
  BY DEF ClaimsInv
<1>1. UNCHANGED <<clock, pull, ship, acq, runs, late, checked, issued, stray, moves>> /\ ShipEnds
  BY DEF ShipRefuse, ShipFinish, ShipCrash
<1>2. lock = Shipper
  BY HeldByShip DEF ShipRefuse, ShipFinish, ShipCrash, Holding
<1>3. crashes' \in 0..MaxCrashes
  BY <1>0, ClaimAssumption DEF Types, ShipRefuse, ShipFinish, ShipCrash
<1>. QED  BY <1>1, <1>2, <1>3, ShipEndsQuiet

\* A receipt is marked failed.
LEMMA PatchKeeps ==
  ASSUME ClaimsInv, NEW k \in shipper.todo, shipper.pc = "invalidate",
         runs' = [runs EXCEPT ![k].ok = FALSE], shipper' = [shipper EXCEPT !.todo = @ \ {k}],
         UNCHANGED <<clock, pull, ship, lock, acq, late, checked, issued, stray, moves, crashes>>
  PROVE  ClaimsInv'
<1>0. Types /\ LockInv /\ ClaimInv /\ OrderInv /\ ReceiptInv /\ AdoptInv /\ OneReceipt /\ LatestIsCurrent
      /\ IssuedCertified
  BY DEF ClaimsInv
<1>1. shipper \in Shippers /\ k \in DOMAIN runs
  BY <1>0 DEF Types, Shippers
<1>2. /\ runs' \in Seq(Runs) /\ Len(runs') = Len(runs) /\ DOMAIN runs' = DOMAIN runs
      /\ \A i \in DOMAIN runs :
              /\ ReceiptId(runs'[i]) = ReceiptId(runs[i])
              /\ runs'[i].head = runs[i].head /\ runs'[i].epoch = runs[i].epoch
              /\ runs'[i].at = runs[i].at /\ runs'[i].dl = runs[i].dl
              /\ runs'[i].app = runs[i].app /\ runs'[i].base = runs[i].base
              /\ runs'[i].ok => runs[i].ok /\ i # k
      /\ \A h : OnHead(runs', h) = OnHead(runs, h)
  BY <1>0, <1>1, Patched
<1>3. /\ shipper' \in Shippers' /\ shipper'.pc = "invalidate" /\ shipper'.head = shipper.head
      /\ shipper'.base = shipper.base /\ shipper'.todo = shipper.todo \ {k}
  BY <1>1, <1>2 DEF Shippers
<1>4. \A i \in DOMAIN runs : Unexpired(runs[i])' => Unexpired(runs[i])
  BY <1>2 DEF Unexpired
<1>5. Types'
  BY <1>0, <1>2, <1>3 DEF Types, Acquires
<1>6. LockInv' /\ ClaimInv'
  BY <1>0, <1>3 DEF LockInv, ClaimInv
<1>7. OrderInv'
  BY <1>0, <1>2, <1>3 DEF OrderInv
<1>8. ReceiptInv'
  <2>1. SameId(ship.claim)' = SameId(ship.claim)
    BY <1>2 DEF SameId, ReceiptId
  <2>2. SUFFICES ASSUME ~stray PROVE ReceiptInv'
    BY DEF ReceiptInv
  <2>3. \A i, j \in DOMAIN runs : ReceiptId(runs'[i]) = ReceiptId(runs'[j]) => i = j
    <3>1. \A i, j \in DOMAIN runs : ReceiptId(runs[i]) = ReceiptId(runs[j]) => i = j
      BY <1>0, <2>2 DEF ReceiptInv
    <3>2. \A i \in DOMAIN runs : ReceiptId(runs'[i]) = ReceiptId(runs[i])
      BY <1>2
    <3>. QED  BY <3>1, <3>2, Zenon
  <2>4. ASSUME NEW i \in OnHead(runs, ship.head), Unexpired(runs[i])' PROVE Certifies(i)'
    <3>1. i \in DOMAIN runs /\ Certifies(i)
      BY <1>0, <1>4, <2>2, <2>4 DEF ReceiptInv, OnHead
    <3>2. ReceiptId(runs'[i]) = ReceiptId(ship.claim)
      BY <1>2, <3>1 DEF Certifies
    <3>3. /\ ship.claim # NoClaim /\ runs'[i].at = ship.claim.at /\ runs'[i].dl = ship.claim.dl
          /\ runs'[i].base = ship.base
      BY <1>2, <3>1 DEF Certifies
    <3>. QED  BY <3>2, <3>3 DEF Certifies, ReceiptId
  <2>5. /\ lock \in Reviewer => ship.claim \notin issued
        /\ \A r \in Reviewer :
             /\ acq[r].pc \in {"find", "create"} => SameId(ship.claim) = {}
             /\ acq[r].pc \in {"find2", "revoke"} => SameId(ship.claim) \subseteq {Len(runs)}
    BY <1>0, <2>2 DEF ReceiptInv
  <2>6. OnHead(runs, ship.head)' = OnHead(runs, ship.head)
    BY <1>2 DEF OnHead
  <2>7. (\A i, j \in DOMAIN runs : ReceiptId(runs[i]) = ReceiptId(runs[j]) => i = j)'
    BY <1>2, <2>3 DEF ReceiptId
  <2>8. (\A i \in OnHead(runs, ship.head) : Unexpired(runs[i]) => Certifies(i))'
    BY <2>4, <2>6
  <2>9. (/\ lock \in Reviewer => ship.claim \notin issued
         /\ \A r \in Reviewer :
              /\ acq[r].pc \in {"find", "create"} => SameId(ship.claim) = {}
              /\ acq[r].pc \in {"find2", "revoke"} => SameId(ship.claim) \subseteq {Len(runs)})'
    BY <1>2, <2>1, <2>5
  <2>. QED  BY <2>7, <2>8, <2>9, Zenon DEF ReceiptInv
<1>9. AdoptInv'
  <2>1. OnHead(runs, ship.head)' = OnHead(runs, ship.head) /\ OnHead(runs, ship.head) \subseteq DOMAIN runs
    BY <1>2 DEF OnHead
  <2>. QED  BY <1>0, <1>2, <1>3, <2>1 DEF AdoptInv
<1>10. OneReceipt'
  <2>1. DOMAIN runs' = DOMAIN runs /\ \A i \in DOMAIN runs : runs'[i].head = runs[i].head
    BY <1>2
  <2>2. ~stray => \A i, j \in DOMAIN runs : (i # j /\ runs[i].head = runs[j].head)
                                     => ~(Unexpired(runs[i]) /\ Unexpired(runs[j]))
    BY <1>0 DEF OneReceipt
  <2>3. ~stray => \A i, j \in DOMAIN runs : (i # j /\ runs'[i].head = runs'[j].head)
                                     => ~(Unexpired(runs[i])' /\ Unexpired(runs[j])')
    BY <1>4, <2>1, <2>2
  <2>. QED  BY <2>1, <2>3 DEF OneReceipt
<1>11. LatestIsCurrent'
  <2>1. SUFFICES ASSUME ~stray, ship # NoShip, ship.claim \in issued
                 PROVE  LatestIsCurrent'
    BY DEF LatestIsCurrent
  <2>. DEFINE S == OnHead(runs, ship.claim.head)
  <2>2. S # {} /\ ReceiptId(runs[Last(S)]) = ReceiptId(ship.claim)
    BY <1>0, <2>1 DEF LatestIsCurrent
  <2>3. S \subseteq DOMAIN runs /\ Last(S) \in S
    <3>1. Len(runs) \in Nat /\ S \subseteq 1 .. Len(runs) /\ S \subseteq DOMAIN runs
      BY <1>0, Domain DEF OnHead
    <3>. QED  BY <2>2, <3>1, LastIn
  <2>4. OnHead(runs, ship.claim.head)' = S
    BY <1>2 DEF OnHead
  <2>5. ReceiptId(runs'[Last(S)]) = ReceiptId(ship.claim)
    BY <1>2, <2>2, <2>3
  <2>6. OnHead(runs', ship.claim.head) = S
    BY <1>2
  <2>. HIDE DEF S
  <2>. QED  BY <2>2, <2>5, <2>6 DEF LatestIsCurrent, ReceiptId
<1>12. IssuedCertified'
  <2>1. SUFFICES ASSUME NEW c \in issued
                 PROVE  \E i \in DOMAIN runs : /\ runs'[i].app = "claim"
                          /\ ReceiptId(runs'[i]) = ReceiptId(c) /\ runs'[i].at = c.at /\ runs'[i].dl = c.dl
    BY <1>2 DEF IssuedCertified, ReceiptId
  <2>2. PICK i \in DOMAIN runs : /\ runs[i].app = "claim"
                          /\ ReceiptId(runs[i]) = ReceiptId(c) /\ runs[i].at = c.at /\ runs[i].dl = c.dl
    BY <1>0, <2>1 DEF IssuedCertified
  <2>. QED  BY <1>2, <2>2
<1>. QED  BY <1>5, <1>6, <1>7, <1>8, <1>9, <1>10, <1>11, <1>12 DEF ClaimsInv

LEMMA InvalidateKeeps ==
  ASSUME ClaimsInv, Invalidate
  PROVE  ClaimsInv'
<1>0. Types /\ AdoptInv
  BY DEF ClaimsInv
<1>1. UNCHANGED <<clock, pull, ship, acq, late, checked, issued, stray, moves, crashes>>
      /\ shipper.pc = "invalidate"
  BY DEF Invalidate
<1>2. /\ lock = Shipper /\ shipper \in Shippers /\ shipper.head # 0 /\ shipper.base \in Base
      /\ ~stray => ship # NoShip /\ ship.head <= shipper.head /\ shipper.head <= pull.head
  BY <1>1, HeldByShip DEF Holding
<1>3. crashes' \in 0..MaxCrashes
  BY <1>0, <1>1 DEF Types
<1>4. CASE shipper.todo = {} /\ shipper' = [shipper EXCEPT !.pc = "adopt"] /\ UNCHANGED <<runs, lock>>
  <2>1. /\ shipper' \in Shippers /\ shipper'.pc = "adopt" /\ shipper'.head = shipper.head
        /\ shipper'.base = shipper.base
    BY <1>2, <1>4 DEF Shippers, Holding
  <2>2. AdoptInv'
    BY <1>0, <1>1, <1>4, <2>1 DEF AdoptInv, OnHead, Unexpired
  <2>3. shipper'.pc \in Holding
    BY <2>1 DEF Holding
  <2>. QED  BY <1>1, <1>2, <1>3, <1>4, <2>1, <2>2, <2>3, ShipQuiet
<1>5. CASE ShipEnds /\ UNCHANGED runs
  BY <1>1, <1>2, <1>3, <1>5, ShipEndsQuiet
<1>6. CASE /\ shipper.todo # {} /\ runs' = [runs EXCEPT ![First(shipper.todo)].ok = FALSE]
           /\ shipper' = [shipper EXCEPT !.todo = @ \ {First(shipper.todo)}] /\ UNCHANGED lock
  <2>1. First(shipper.todo) \in shipper.todo
    <3>1. shipper.todo \subseteq Nat
      BY <1>0, <1>2, Domain DEF Shippers
    <3>. QED  BY <1>6, <3>1, FirstIn
  <2>. QED  BY <1>1, <1>6, <2>1, PatchKeeps
<1>. QED  BY <1>4, <1>5, <1>6 DEF Invalidate

-----------------------------------------------------------------------------
(* Publishing a receipt. *)

\* Once a stray receipt may stand, little is claimed.
LEMMA StrayKeeps ==
  ASSUME stray', Types', LockInv', ClaimInv', IssuedCertified'
  PROVE  ClaimsInv'
  BY DEF ClaimsInv, OrderInv, ReceiptInv, AdoptInv, OneReceipt, LatestIsCurrent

\* A reviewer that publishes holds the lock, and nobody else does.
LEMMA HeldByReviewer ==
  ASSUME ClaimsInv, NEW r \in Reviewer, acq[r].pc \in Working
  PROVE  /\ lock = r /\ acq[r] \in Acquires
         /\ ship \in Ships /\ ship.claim \in Claims /\ ship.claim # NoClaim
         /\ ship.claim.head = ship.head /\ ship.claim.epoch = ship.epoch
         /\ \A q \in Reviewer : q # r => acq[q].pc \notin Working
         /\ shipper.pc \notin Holding
<1>0. Types /\ LockInv /\ ClaimInv
  BY DEF ClaimsInv
<1>1. lock = r /\ acq[r] \in Acquires
  BY <1>0 DEF LockInv, Types
<1>2. ship # NoShip /\ ship.claim # NoClaim /\ ship.claim.head = ship.head /\ ship.claim.epoch = ship.epoch
  BY <1>0, <1>1 DEF ClaimInv
<1>3. ship \in Ships
  BY <1>0, <1>2 DEF Types
<1>4. ship.claim \in Claims
  BY <1>2, <1>3 DEF Ships
<1>5. /\ \A q \in Reviewer : q # r => acq[q].pc \notin Working
      /\ shipper.pc \notin Holding
  BY <1>0, <1>1, ClaimAssumption DEF LockInv
<1>. QED  BY <1>1, <1>2, <1>3, <1>4, <1>5

LEMMA GotoQuiet ==
  ASSUME ClaimsInv, NEW r \in Reviewer, NEW p \in Working, Goto(r, p), acq[r].pc \in Working,
         p \in {"find", "create"} => acq[r].pc \in {"find", "create"},
         UNCHANGED <<clock, pull, ship, shipper, runs, late, checked, issued, stray, moves, crashes>>
  PROVE  ClaimsInv'
<1>. DEFINE n == [acq[r] EXCEPT !.pc = p]
<1>0. Types
  BY DEF ClaimsInv
<1>1. lock = r /\ acq[r] \in Acquires
  BY HeldByReviewer
<1>2. acq' = [acq EXCEPT ![r] = n] /\ lock' = r
  BY <1>1 DEF Goto
<1>3. n \in Acquires /\ n.pc = p
  BY <1>1 DEF Acquires
<1>4. crashes' \in 0..MaxCrashes /\ stray' \in BOOLEAN
  BY <1>0 DEF Types
<1>. HIDE DEF n
<1>. QED  BY <1>1, <1>2, <1>3, <1>4, ReviewerQuiet

\* A claim that is refused, and a command that dies before its POST is applied.
LEMMA FinishQuiet ==
  ASSUME ClaimsInv, NEW r \in Reviewer, Finish(r), lock \in {r, Nobody}, crashes' \in 0..MaxCrashes,
         UNCHANGED <<clock, pull, ship, shipper, runs, late, checked, issued, stray, moves>>
  PROVE  ClaimsInv'
<1>0. Types
  BY DEF ClaimsInv
<1>1. acq' = [acq EXCEPT ![r] = Idle] /\ lock' = Nobody
  BY DEF Finish
<1>2. Idle \in Acquires /\ Idle.pc = "idle"
  BY <1>0, IdleAcquires DEF Idle
<1>3. stray' \in BOOLEAN
  BY <1>0 DEF Types
<1>. QED  BY <1>1, <1>2, <1>3, ReviewerQuiet

\* What a publisher's step leaves true of the types and the lock.
LEMMA PublisherTyped ==
  ASSUME ClaimsInv, NEW r \in Reviewer, acq[r].pc \in Working, NEW n \in Acquires,
         acq' = [acq EXCEPT ![r] = n],
         (n.pc \in Working /\ lock' = r) \/ (n.pc = "idle" /\ lock' = Nobody),
         runs' \in Seq(Runs), DOMAIN runs \subseteq DOMAIN runs', late' \subseteq Runs,
         issued' \subseteq Claims, stray' \in BOOLEAN, crashes' \in 0..MaxCrashes,
         UNCHANGED <<clock, pull, ship, shipper, checked, moves>>
  PROVE  /\ Types' /\ LockInv' /\ ClaimInv'
         /\ \A q \in Reviewer : acq'[q].pc \in Working => q = r /\ acq'[q] = n
         /\ shipper'.pc \notin Holding
<1>0. Types /\ LockInv /\ ClaimInv
  BY DEF ClaimsInv
<1>1. /\ lock = r /\ ship # NoShip /\ ship.claim # NoClaim
      /\ \A q \in Reviewer : q # r => acq[q].pc \notin Working
      /\ shipper.pc \notin Holding
  BY <1>0, ClaimAssumption, HeldByReviewer DEF ClaimInv
<1>2. clock' \in Nat /\ clock' >= clock /\ n \in Acquires'
  BY <1>0, ClaimAssumption DEF Types, Acquires
<1>3. acq' \in [Reviewer -> Acquires'] /\ acq'[r] = n /\ \A q \in Reviewer : q # r => acq'[q] = acq[q]
  BY <1>0, <1>2, AcquireTyped
<1>4. lock' \in Reviewer \cup {Nobody, Shipper}
  OBVIOUS
<1>5. shipper' \in Shippers'
  BY <1>0 DEF Types, Shippers
<1>6. Types'
  BY <1>0, <1>3, <1>4, <1>5 DEF Types
<1>7. LockInv'
  <2>1. "idle" \notin Working /\ lock' # Shipper /\ \A q \in Reviewer : lock' = q => q = r
    BY ClaimAssumption DEF Working
  <2>2. \A q \in Reviewer : acq'[q].pc \in Working <=> lock' = q
    BY <1>1, <1>3, <2>1, ClaimAssumption
  <2>. QED  BY <1>0, <1>1, <2>1, <2>2 DEF LockInv
<1>8. ClaimInv'
  BY <1>0, <1>1 DEF ClaimInv
<1>9. \A q \in Reviewer : acq'[q].pc \in Working => q = r /\ acq'[q] = n
  BY <1>1, <1>3
<1>. QED  BY <1>1, <1>6, <1>7, <1>8, <1>9

\* A check run found under the claim's own id is its receipt.
LEMMA FoundReceipt ==
  ASSUME Types, NEW c, FindMatches(c)
  PROVE  \E i \in SameId(c) : /\ i \in DOMAIN runs /\ runs[i].app = "claim"
                              /\ ReceiptId(runs[i]) = ReceiptId(c) /\ runs[i].at = c.at /\ runs[i].dl = c.dl
<1>1. SameId(c) # {} /\ SameId(c) \subseteq Nat /\ SameId(c) \subseteq DOMAIN runs
  BY Domain DEF FindMatches, SameId
<1>2. First(SameId(c)) \in SameId(c)
  BY <1>1, FirstIn
<1>3. Validates(runs[First(SameId(c))], c)
  BY DEF FindMatches
<1>. QED  BY <1>1, <1>2, <1>3 DEF Validates

LEMMA SucceedKeeps ==
  ASSUME ClaimsInv, NEW r \in Reviewer, acq[r].pc \in {"find", "find2"}, FindMatches(ship.claim), Succeed(r),
         UNCHANGED <<clock, pull, ship, shipper, runs, late, checked, stray, moves, crashes>>
  PROVE  ClaimsInv'
<1>0. Types /\ LockInv /\ ClaimInv /\ OrderInv /\ ReceiptInv /\ AdoptInv /\ OneReceipt /\ LatestIsCurrent
      /\ IssuedCertified
  BY DEF ClaimsInv
<1>1. acq[r].pc \in Working /\ Idle \in Acquires /\ Idle.pc = "idle" /\ Idle.pc \notin Working
  BY <1>0, IdleAcquires DEF Working, Idle
<1>2. ship.claim \in Claims /\ ship.claim.epoch = ship.epoch /\ ship \in Ships
  BY <1>1, HeldByReviewer
<1>3. acq' = [acq EXCEPT ![r] = Idle] /\ lock' = Nobody /\ issued' = issued \cup {ship.claim}
  BY DEF Succeed, Finish
<1>4. /\ Types' /\ LockInv' /\ ClaimInv'
      /\ \A q \in Reviewer : acq'[q].pc \notin Working
      /\ shipper'.pc \notin Holding
  <2>1. /\ issued' \subseteq Claims /\ runs' \in Seq(Runs) /\ DOMAIN runs \subseteq DOMAIN runs'
        /\ late' \subseteq Runs /\ stray' \in BOOLEAN /\ crashes' \in 0..MaxCrashes
    BY <1>0, <1>2, <1>3 DEF Types
  <2>. QED  BY <1>1, <1>3, <2>1, PublisherTyped
<1>5. PICK k \in SameId(ship.claim) :
          /\ k \in DOMAIN runs /\ runs[k].app = "claim" /\ ReceiptId(runs[k]) = ReceiptId(ship.claim)
          /\ runs[k].at = ship.claim.at /\ runs[k].dl = ship.claim.dl
  BY <1>0, FoundReceipt
<1>6. IssuedCertified'
  BY <1>0, <1>3, <1>5 DEF IssuedCertified, ReceiptId
<1>7. CASE stray
  BY <1>4, <1>6, <1>7, StrayKeeps
<1>8. CASE ~stray
  <2>1. k = Len(runs)
    BY <1>0, <1>5, <1>8 DEF ReceiptInv
  <2>2. OrderInv'
    <3>1. ship.epoch <= ship.epoch
      BY <1>2 DEF Ships
    <3>. QED  BY <1>0, <1>2, <1>3, <3>1 DEF OrderInv
  <2>3. ReceiptInv'
    <3>1. /\ \A i, j \in DOMAIN runs : ReceiptId(runs[i]) = ReceiptId(runs[j]) => i = j
          /\ \A i \in OnHead(runs, ship.head) : Unexpired(runs[i]) => Certifies(i)
      BY <1>0, <1>8 DEF ReceiptInv
    <3>2. /\ \A i \in OnHead(runs, ship.head) : Unexpired(runs[i])' <=> Unexpired(runs[i])
          /\ \A i \in OnHead(runs, ship.head) : Certifies(i)' <=> Certifies(i)
      BY DEF Unexpired, Certifies, ReceiptId
    <3>3. \A q \in Reviewer : acq'[q].pc \notin {"find", "create", "find2", "revoke"}
      BY <1>4 DEF Working
    <3>4. lock' \notin Reviewer
      BY <1>3, ClaimAssumption
    <3>. QED  BY <3>1, <3>2, <3>3, <3>4 DEF ReceiptInv, OnHead, ReceiptId
  <2>4. AdoptInv'
    BY <1>4 DEF AdoptInv, Holding
  <2>5. OneReceipt'
    BY <1>0 DEF OneReceipt, Unexpired
  <2>6. LatestIsCurrent'
    <3>. DEFINE S == OnHead(runs, ship.claim.head)
    <3>1. Len(runs) \in Nat /\ S \subseteq 1 .. Len(runs) /\ k \in S
      <4>1. runs[k].head = ship.claim.head
        BY <1>5 DEF ReceiptId
      <4>. QED  BY <1>0, <1>5, <4>1, Domain DEF OnHead
    <3>2. Last(S) \in S /\ \A j \in S : j <= Last(S)
      BY <3>1, LastIn
    <3>. HIDE DEF S
    <3>3. Last(S) = k
      <4>1. Last(S) \in 1 .. Len(runs) /\ k <= Last(S)
        BY <3>1, <3>2
      <4>. QED  BY <2>1, <3>1, <4>1
    <3>4. S # {} /\ ReceiptId(runs[Last(S)]) = ReceiptId(ship.claim)
      BY <1>5, <3>1, <3>3
    <3>. USE DEF S
    <3>. QED  BY <3>4 DEF LatestIsCurrent, OnHead, ReceiptId
  <2>. QED  BY <1>4, <1>6, <2>2, <2>3, <2>4, <2>5, <2>6 DEF ClaimsInv
<1>9. stray \in BOOLEAN
  BY <1>0 DEF Types
<1>. QED  BY <1>7, <1>8, <1>9

\* The claim's receipt is created: the step that ends the publication, or that
\* leaves it to the second read, or the command's death.
LEMMA AppendKeeps ==
  ASSUME ClaimsInv, NEW r \in Reviewer, acq[r].pc = "create", NEW app \in {"claim", "other"}, NEW ok \in BOOLEAN,
         runs' = Append(runs, Receipt(ship.claim, app, ok)), NEW n \in Acquires,
         acq' = [acq EXCEPT ![r] = n],
         \/ n.pc = "find2" /\ lock' = r /\ issued' = issued
         \/ n.pc = "idle" /\ lock' = Nobody /\ issued' = issued
         \/ n.pc = "idle" /\ lock' = Nobody /\ issued' = issued \cup {ship.claim} /\ app = "claim",
         crashes' \in 0..MaxCrashes,
         UNCHANGED <<clock, pull, ship, shipper, late, checked, stray, moves>>
  PROVE  ClaimsInv'
<1>. DEFINE x == Receipt(ship.claim, app, ok)
            k == Len(runs')
<1>0. Types /\ LockInv /\ ClaimInv /\ OrderInv /\ ReceiptInv /\ OneReceipt /\ IssuedCertified
  BY DEF ClaimsInv
<1>1. acq[r].pc \in Working /\ "find2" \in Working /\ "idle" \notin Working
  BY DEF Working
<1>2. /\ ship.claim \in Claims /\ ship.claim.epoch = ship.epoch /\ ship.claim.head = ship.head
      /\ ship \in Ships /\ ship.claim # NoClaim
  BY <1>1, HeldByReviewer
<1>3. /\ x \in Runs /\ ReceiptId(x) = ReceiptId(ship.claim) /\ x.at = ship.claim.at /\ x.dl = ship.claim.dl
      /\ x.base = ship.base /\ x.app = app /\ x.head = ship.head /\ x.epoch = ship.epoch
  BY <1>2 DEF Receipt, Runs, Claims, Ships, ReceiptId
<1>4. runs' = Append(runs, x)
  OBVIOUS
<1>. HIDE DEF x
<1>5. /\ runs' \in Seq(Runs) /\ k \notin DOMAIN runs
      /\ DOMAIN runs' = DOMAIN runs \cup {k}
      /\ \A i \in DOMAIN runs : runs'[i] = runs[i]
      /\ runs'[k] = x
      /\ Last(OnHead(runs', ship.head)) = k
      /\ OnHead(runs', ship.head) = OnHead(runs, ship.head) \cup {k}
  BY <1>0, <1>3, <1>4, Appended
<1>. HIDE DEF k
<1>6. /\ Types' /\ LockInv' /\ ClaimInv'
      /\ \A q \in Reviewer : acq'[q].pc \in Working => q = r /\ acq'[q] = n
      /\ shipper'.pc \notin Holding
  <2>1. /\ issued' \subseteq Claims /\ DOMAIN runs \subseteq DOMAIN runs'
        /\ late' \subseteq Runs /\ stray' \in BOOLEAN
    BY <1>0, <1>2, <1>5 DEF Types
  <2>2. (n.pc \in Working /\ lock' = r) \/ (n.pc = "idle" /\ lock' = Nobody)
    BY <1>1
  <2>3. /\ acq' = [acq EXCEPT ![r] = n] /\ crashes' \in 0..MaxCrashes
        /\ UNCHANGED <<clock, pull, ship, shipper, checked, moves>>
    OBVIOUS
  <2>. QED  BY <1>1, <1>5, <2>1, <2>2, <2>3, PublisherTyped
<1>7. IssuedCertified'
  <2>1. SUFFICES ASSUME NEW c \in issued'
                 PROVE  \E i \in DOMAIN runs' : /\ runs'[i].app = "claim"
                          /\ ReceiptId(runs'[i]) = ReceiptId(c) /\ runs'[i].at = c.at /\ runs'[i].dl = c.dl
    BY DEF IssuedCertified, ReceiptId
  <2>2. CASE c \in issued
    <3>1. PICK i \in DOMAIN runs : /\ runs[i].app = "claim"
                          /\ ReceiptId(runs[i]) = ReceiptId(c) /\ runs[i].at = c.at /\ runs[i].dl = c.dl
      BY <1>0, <2>2 DEF IssuedCertified
    <3>2. i \in DOMAIN runs' /\ runs'[i] = runs[i]
      BY <1>5
    <3>. QED  BY <3>1, <3>2
  <2>3. CASE c = ship.claim /\ app = "claim"
    BY <1>3, <1>5, <2>3
  <2>. QED  BY <2>1, <2>2, <2>3
<1>8. CASE stray
  BY <1>6, <1>7, <1>8, StrayKeeps
<1>9. CASE ~stray
  <2>1. SameId(ship.claim) = {}
    BY <1>0, <1>9 DEF ReceiptInv
  <2>2. \A i \in DOMAIN runs : ReceiptId(runs[i]) # ReceiptId(x)
    BY <1>3, <2>1 DEF SameId
  <2>3. \A i \in DOMAIN runs : runs[i].head = ship.head => ~Unexpired(runs[i])
    <3>1. SUFFICES ASSUME NEW i \in DOMAIN runs, runs[i].head = ship.head, Unexpired(runs[i]) PROVE FALSE
      OBVIOUS
    <3>2. i \in OnHead(runs, ship.head)
      BY <3>1 DEF OnHead
    <3>3. Certifies(i)
      BY <1>0, <1>9, <3>1, <3>2 DEF ReceiptInv
    <3>. QED  BY <1>3, <2>2, <3>3 DEF Certifies
  <2>4. \A i \in DOMAIN runs : Unexpired(runs[i])' => Unexpired(runs[i])
    BY <1>5 DEF Unexpired
  <2>5. OrderInv'
    <3>1. ship.epoch <= ship.epoch /\ ship.head <= ship.head
      BY <1>2, ClaimAssumption DEF Ships
    <3>2. \A i \in DOMAIN runs' : runs'[i].head <= ship.head /\ runs'[i].epoch <= ship.epoch
      BY <1>0, <1>3, <1>5, <1>9, <3>1 DEF OrderInv
    <3>3. \A c \in issued' : c.epoch <= ship.epoch
      BY <1>0, <1>2, <1>9, <3>1 DEF OrderInv
    <3>. QED  BY <1>0, <1>9, <3>2, <3>3 DEF OrderInv
  <2>6. ReceiptInv'
    <3>1. ASSUME NEW i \in DOMAIN runs', NEW j \in DOMAIN runs', ReceiptId(runs'[i]) = ReceiptId(runs'[j])
          PROVE  i = j
      <4>1. \A a, b \in DOMAIN runs : ReceiptId(runs[a]) = ReceiptId(runs[b]) => a = b
        BY <1>0, <1>9 DEF ReceiptInv
      <4>. QED  BY <1>5, <2>2, <3>1, <4>1, Zenon
    <3>2. ASSUME NEW i \in OnHead(runs', ship.head), Unexpired(runs[i])' PROVE Certifies(i)'
      <4>1. i = k
        BY <1>5, <2>3, <2>4, <3>2 DEF OnHead
      <4>2. /\ ReceiptId(runs'[i]) = ReceiptId(ship.claim) /\ runs'[i].at = ship.claim.at
            /\ runs'[i].dl = ship.claim.dl /\ runs'[i].base = ship.base
        BY <1>3, <1>5, <4>1
      <4>. QED  BY <1>2, <4>2 DEF Certifies, ReceiptId
    <3>3. {i \in DOMAIN runs' : ReceiptId(runs'[i]) = ReceiptId(ship.claim)} \subseteq {k}
      BY <1>3, <1>5, <2>2
    <3>4. SameId(ship.claim)' \subseteq {Len(runs)'}
      BY <3>3 DEF SameId, ReceiptId, k
    <3>5. lock' \in Reviewer => ship.claim \notin issued'
      <4>1. ship.claim \notin issued
        BY <1>0, <1>1, <1>9, HeldByReviewer DEF ReceiptInv
      <4>. QED  BY <4>1, ClaimAssumption
    <3>6. \A q \in Reviewer : acq'[q].pc \notin {"find", "create"}
      BY <1>6 DEF Working
    <3>7. OnHead(runs, ship.head)' = OnHead(runs', ship.head)
      BY DEF OnHead
    <3>. QED  BY <3>1, <3>2, <3>4, <3>5, <3>6, <3>7 DEF ReceiptInv, ReceiptId
  <2>7. AdoptInv'
    BY <1>6 DEF AdoptInv, Holding
  <2>8. OneReceipt'
    <3>1. SUFFICES ASSUME NEW i \in DOMAIN runs', NEW j \in DOMAIN runs', i # j, runs'[i].head = runs'[j].head,
                          Unexpired(runs[i])', Unexpired(runs[j])'
                   PROVE  FALSE
      BY DEF OneReceipt
    <3>2. CASE i \in DOMAIN runs /\ j \in DOMAIN runs
      <4>1. runs[i].head = runs[j].head /\ Unexpired(runs[i]) /\ Unexpired(runs[j])
        BY <1>5, <2>4, <3>1, <3>2
      <4>. QED  BY <1>0, <1>9, <3>1, <3>2, <4>1 DEF OneReceipt
    <3>3. CASE i = k /\ j \in DOMAIN runs
      BY <1>3, <1>5, <2>3, <2>4, <3>1, <3>3
    <3>4. CASE j = k /\ i \in DOMAIN runs
      BY <1>3, <1>5, <2>3, <2>4, <3>1, <3>4
    <3>. QED  BY <1>5, <3>1, <3>2, <3>3, <3>4
  <2>9. LatestIsCurrent'
    <3>1. OnHead(runs', ship.claim.head) # {}
      BY <1>2, <1>5
    <3>2. ReceiptId(runs'[Last(OnHead(runs', ship.claim.head))]) = ReceiptId(ship.claim)
      BY <1>2, <1>3, <1>5
    <3>. QED  BY <3>1, <3>2 DEF LatestIsCurrent, OnHead, ReceiptId
  <2>. QED  BY <1>6, <1>7, <2>5, <2>6, <2>7, <2>8, <2>9 DEF ClaimsInv
<1>10. stray \in BOOLEAN
  BY <1>0 DEF Types
<1>. QED  BY <1>8, <1>9, <1>10

LEMMA CrashKeeps ==
  ASSUME ClaimsInv, NEW r \in Reviewer, Crash(r)
  PROVE  ClaimsInv'
<1>0. Types /\ LockInv /\ IssuedCertified
  BY DEF ClaimsInv
<1>1. /\ UNCHANGED <<clock, pull, ship, shipper, checked, issued, moves>>
      /\ Finish(r) /\ lock = r /\ crashes' = crashes + 1 /\ crashes < MaxCrashes
  BY DEF Crash
<1>2. crashes' \in 0..MaxCrashes
  BY <1>0, <1>1, ClaimAssumption DEF Types
<1>3. CASE UNCHANGED <<runs, late, stray>>
  BY <1>1, <1>2, <1>3, FinishQuiet
<1>. acq' = [acq EXCEPT ![r] = Idle] /\ lock' = Nobody
  BY <1>1 DEF Finish
<1>. Idle \in Acquires /\ Idle.pc = "idle"
  BY <1>0, IdleAcquires DEF Idle
<1>4. CASE acq[r].pc = "create" /\ runs' = Append(runs, Receipt(ship.claim, "claim", TRUE)) /\ UNCHANGED <<late, stray>>
  BY <1>1, <1>2, <1>4, AppendKeeps
<1>5. CASE /\ acq[r].pc = "create" /\ UNCHANGED runs
           /\ late' = late \cup {Receipt(ship.claim, "claim", TRUE)} /\ stray' = TRUE
  <2>1. acq[r].pc \in Working
    BY <1>5 DEF Working
  <2>2. ship.claim \in Claims /\ ship \in Ships /\ ship.claim.head = ship.head
    BY <2>1, HeldByReviewer
  <2>3. Receipt(ship.claim, "claim", TRUE) \in Runs
    BY <2>2 DEF Receipt, Runs, Claims, Ships
  <2>4. /\ late' \subseteq Runs /\ runs' \in Seq(Runs) /\ DOMAIN runs \subseteq DOMAIN runs'
        /\ issued' \subseteq Claims /\ stray' \in BOOLEAN
    BY <1>0, <1>1, <1>5, <2>3 DEF Types
  <2>5. Types' /\ LockInv' /\ ClaimInv'
    BY <1>1, <1>2, <2>1, <2>4, PublisherTyped
  <2>6. IssuedCertified'
    BY <1>0, <1>1, <1>5 DEF IssuedCertified, ReceiptId
  <2>. QED  BY <1>5, <2>5, <2>6, StrayKeeps
<1>. QED  BY <1>3, <1>4, <1>5 DEF Crash

LEMMA FindKeeps ==
  ASSUME ClaimsInv, NEW r \in Reviewer, Find(r) \/ Find2(r)
  PROVE  ClaimsInv'
<1>1. /\ UNCHANGED <<clock, pull, ship, shipper, runs, late, checked, stray, moves, crashes>>
      /\ acq[r].pc \in {"find", "find2"} /\ acq[r].pc \in Working
      /\ "revoke" \in Working /\ "create" \in Working
  BY DEF Find, Find2, Working
<1>2. CASE FindMatches(ship.claim) /\ Succeed(r)
  BY <1>1, <1>2, SucceedKeeps
<1>3. CASE Goto(r, "revoke") /\ UNCHANGED issued
  BY <1>1, <1>3, GotoQuiet
<1>4. CASE acq[r].pc = "find" /\ Goto(r, "create") /\ UNCHANGED issued
  BY <1>1, <1>4, GotoQuiet
<1>5. CASE Find(r)
  BY <1>2, <1>3, <1>4, <1>5 DEF Find
<1>6. CASE Find2(r)
  BY <1>2, <1>3, <1>6 DEF Find2
<1>. QED  BY <1>5, <1>6

LEMMA CreateKeeps ==
  ASSUME ClaimsInv, NEW r \in Reviewer, Create(r)
  PROVE  ClaimsInv'
<1>. DEFINE c == ship.claim
            n == [acq[r] EXCEPT !.pc = "find2"]
<1>0. Types /\ LockInv /\ IssuedCertified
  BY DEF ClaimsInv
<1>1. /\ UNCHANGED <<clock, pull, ship, shipper, checked, moves, crashes>>
      /\ acq[r].pc = "create" /\ acq[r].pc \in Working /\ "find2" \in Working
  BY DEF Create, Working
<1>2. PICK o \in CreateOutcomes :
          /\ IF o = "ok" THEN Succeed(r) ELSE Goto(r, "find2") /\ UNCHANGED issued
          /\ late' = IF o = "late" THEN late \cup {Receipt(c, "claim", TRUE)} ELSE late
          /\ stray' = (stray \/ o = "late")
          /\ CASE o \in {"ok", "lost"} -> runs' = Append(runs, Receipt(c, "claim", TRUE))
               [] o = "foreign" ->
                    \E p \in PatchOutcomes :
                       runs' = Append(runs, Receipt(c, "other", p = "error"))
               [] OTHER -> UNCHANGED runs
  BY DEF Create
<1>3. /\ lock = r /\ acq[r] \in Acquires /\ ship.claim \in Claims /\ ship \in Ships
      /\ ship.claim.head = ship.head
  BY <1>1, HeldByReviewer
<1>4. n \in Acquires /\ n.pc = "find2"
  BY <1>1, <1>3 DEF Acquires
<1>5. Goto(r, "find2") => acq' = [acq EXCEPT ![r] = n] /\ lock' = r
  BY <1>3 DEF Goto
<1>6. Idle \in Acquires /\ Idle.pc = "idle"
  BY <1>0, IdleAcquires DEF Idle
<1>7. Succeed(r) => acq' = [acq EXCEPT ![r] = Idle] /\ lock' = Nobody /\ issued' = issued \cup {ship.claim}
  BY DEF Succeed, Finish
<1>8. crashes' \in 0..MaxCrashes /\ stray \in BOOLEAN
  BY <1>0, <1>1 DEF Types
<1>. HIDE DEF n
<1>9. CASE o = "ok"
  <2>1. Succeed(r) /\ late' = late /\ stray' = stray /\ runs' = Append(runs, Receipt(ship.claim, "claim", TRUE))
    BY <1>2, <1>8, <1>9
  <2>. QED  BY <1>1, <1>6, <1>7, <1>8, <2>1, AppendKeeps
<1>10. CASE o = "lost"
  <2>1. /\ Goto(r, "find2") /\ issued' = issued /\ late' = late /\ stray' = stray
        /\ runs' = Append(runs, Receipt(ship.claim, "claim", TRUE))
    BY <1>2, <1>8, <1>10
  <2>. QED  BY <1>1, <1>4, <1>5, <1>8, <2>1, AppendKeeps
<1>11. CASE o = "foreign"
  <2>1. /\ Goto(r, "find2") /\ issued' = issued /\ late' = late /\ stray' = stray
        /\ \E p \in PatchOutcomes : runs' = Append(runs, Receipt(c, "other", p = "error"))
    BY <1>2, <1>8, <1>11
  <2>2. PICK p \in PatchOutcomes : runs' = Append(runs, Receipt(ship.claim, "other", p = "error"))
    BY <2>1
  <2>3. (p = "error") \in BOOLEAN
    OBVIOUS
  <2>. QED  BY <1>1, <1>4, <1>5, <1>8, <2>1, <2>2, <2>3, AppendKeeps
<1>12. CASE o = "late"
  <2>1. /\ Goto(r, "find2") /\ issued' = issued /\ stray' /\ runs' = runs
        /\ late' = late \cup {Receipt(ship.claim, "claim", TRUE)}
    BY <1>2, <1>12
  <2>2. Receipt(ship.claim, "claim", TRUE) \in Runs
    BY <1>3 DEF Receipt, Runs, Claims, Ships
  <2>3. /\ late' \subseteq Runs /\ runs' \in Seq(Runs) /\ DOMAIN runs \subseteq DOMAIN runs'
        /\ issued' \subseteq Claims
    BY <1>0, <2>1, <2>2 DEF Types
  <2>4. stray' \in BOOLEAN
    BY <1>2
  <2>5. Types' /\ LockInv' /\ ClaimInv'
    BY <1>1, <1>4, <1>5, <1>8, <2>1, <2>3, <2>4, PublisherTyped
  <2>6. IssuedCertified'
    BY <1>0, <2>1 DEF IssuedCertified, ReceiptId
  <2>. QED  BY <2>1, <2>5, <2>6, StrayKeeps
<1>13. CASE o = "failed"
  <2>1. /\ Goto(r, "find2") /\ issued' = issued /\ stray' = stray /\ runs' = runs /\ late' = late
    BY <1>2, <1>8, <1>13
  <2>. QED  BY <1>1, <2>1, GotoQuiet
<1>. QED  BY <1>9, <1>10, <1>11, <1>12, <1>13, ClaimAssumption

LEMMA LandKeeps ==
  ASSUME ClaimsInv, Land
  PROVE  ClaimsInv'
<1>0. Types /\ LockInv /\ ClaimInv /\ OrderInv /\ IssuedCertified
  BY DEF ClaimsInv
<1>1. UNCHANGED <<clock, pull, ship, lock, acq, shipper, checked, issued, stray, moves, crashes>>
  BY DEF Land
<1>2. PICK x \in late : runs' = Append(runs, x) /\ late' = late \ {x}
  BY DEF Land
<1>3. x \in Runs
  BY <1>0 DEF Types
<1>4. /\ runs' \in Seq(Runs) /\ DOMAIN runs' = DOMAIN runs \cup {Len(runs')}
      /\ \A i \in DOMAIN runs : runs'[i] = runs[i]
  BY <1>0, <1>2, <1>3, Appended
<1>5. shipper' \in Shippers'
  BY <1>0, <1>1, <1>4 DEF Types, Shippers
<1>6. Types'
  BY <1>0, <1>1, <1>2, <1>4, <1>5 DEF Types, Acquires
<1>7. LockInv' /\ ClaimInv'
  BY <1>0, <1>1 DEF LockInv, ClaimInv
<1>8. IssuedCertified'
  <2>1. SUFFICES ASSUME NEW c \in issued
                 PROVE  \E i \in DOMAIN runs' : /\ runs'[i].app = "claim"
                          /\ ReceiptId(runs'[i]) = ReceiptId(c) /\ runs'[i].at = c.at /\ runs'[i].dl = c.dl
    BY <1>1 DEF IssuedCertified, ReceiptId
  <2>2. PICK i \in DOMAIN runs : /\ runs[i].app = "claim"
                          /\ ReceiptId(runs[i]) = ReceiptId(c) /\ runs[i].at = c.at /\ runs[i].dl = c.dl
    BY <1>0, <2>1 DEF IssuedCertified
  <2>3. i \in DOMAIN runs' /\ runs'[i] = runs[i]
    BY <1>4
  <2>. QED  BY <2>2, <2>3
<1>9. stray'
  BY <1>0, <1>1, <1>2 DEF OrderInv, Types
<1>. QED  BY <1>6, <1>7, <1>8, <1>9, StrayKeeps

-----------------------------------------------------------------------------
(* The ship state moves on: a claim, a fence, an adoption, a deletion. *)

\* No unexpired receipt is left on the head the state moves to.
LEMMA ShipMoves ==
  ASSUME ClaimsInv, Types', LockInv', ClaimInv', stray => stray',
         UNCHANGED <<clock, pull, runs, late, issued>>,
         \A q \in Reviewer : acq'[q].pc \in Working => acq'[q].pc = "find",
         ~stray' =>
            /\ ship # NoShip /\ ship' # NoShip /\ ship'.claim \notin issued
            /\ ship.head <= ship'.head /\ ship.epoch <= ship'.epoch /\ ship'.head <= pull.head
            /\ shipper'.pc # "idle" => ship'.head <= shipper'.head /\ shipper'.head <= pull.head
            /\ \A i \in DOMAIN runs : runs[i].head = ship'.head => ~Unexpired(runs[i])
            /\ lock' \in Reviewer => SameId(ship'.claim) = {},
         shipper'.pc \notin {"invalidate", "adopt"}
  PROVE  ClaimsInv'
<1>0. Types /\ LockInv /\ OrderInv /\ ReceiptInv /\ OneReceipt /\ IssuedCertified
  BY DEF ClaimsInv
<1>1. IssuedCertified'
  BY <1>0 DEF IssuedCertified, ReceiptId
<1>2. CASE stray'
  BY <1>1, <1>2, StrayKeeps
<1>3. CASE ~stray'
  <2>1. /\ ship # NoShip /\ ship' # NoShip /\ ship'.claim \notin issued /\ ~stray
        /\ ship.head <= ship'.head /\ ship.epoch <= ship'.epoch /\ ship'.head <= pull.head
        /\ shipper'.pc # "idle" => ship'.head <= shipper'.head /\ shipper'.head <= pull.head
        /\ \A i \in DOMAIN runs : runs[i].head = ship'.head => ~Unexpired(runs[i])
        /\ lock' \in Reviewer => SameId(ship'.claim) = {}
    BY <1>3
  <2>2. /\ ship.head \in Nat /\ ship'.head \in Nat /\ ship.epoch \in Nat /\ ship'.epoch \in Nat
    <3>1. ship \in Ships /\ ship' \in Ships
      BY <1>0, <2>1 DEF Types
    <3>. QED  BY <3>1, ClaimAssumption DEF Ships
  <2>3. OrderInv'
    <3>1. \A i \in DOMAIN runs : /\ runs[i].head <= ship.head /\ runs[i].epoch <= ship.epoch
                                 /\ runs[i].head \in Nat /\ runs[i].epoch \in Nat
      <4>1. \A i \in DOMAIN runs : runs[i].head \in Nat /\ runs[i].epoch \in Nat
        BY <1>0, Domain, ClaimAssumption DEF Runs
      <4>. QED  BY <1>0, <2>1, <4>1 DEF OrderInv
    <3>2. \A i \in DOMAIN runs : runs[i].head <= ship'.head /\ runs[i].epoch <= ship'.epoch
      BY <2>1, <2>2, <3>1
    <3>3. \A c \in issued : c.epoch <= ship.epoch /\ c.epoch \in Nat
      <4>1. \A c \in issued : c.epoch \in Nat
        BY <1>0 DEF Types, Claims
      <4>. QED  BY <1>0, <2>1, <4>1 DEF OrderInv
    <3>4. \A c \in issued : c.epoch <= ship'.epoch
      BY <2>1, <2>2, <3>3
    <3>5. late = {}
      BY <1>0, <2>1 DEF OrderInv
    <3>. QED  BY <2>1, <3>2, <3>4, <3>5 DEF OrderInv
  <2>4. ReceiptInv'
    <3>1. \A i, j \in DOMAIN runs : ReceiptId(runs[i]) = ReceiptId(runs[j]) => i = j
      BY <1>0, <2>1 DEF ReceiptInv
    <3>2. \A i \in OnHead(runs, ship'.head) : ~Unexpired(runs[i])'
      BY <2>1 DEF OnHead, Unexpired
    <3>3. SameId(ship.claim)' = SameId(ship'.claim)
      BY DEF SameId, ReceiptId
    <3>4. \A q \in Reviewer : /\ acq'[q].pc \in {"find", "create"} => SameId(ship.claim)' = {}
                              /\ acq'[q].pc \notin {"find2", "revoke"}
      <4>1. SUFFICES ASSUME NEW q \in Reviewer, acq'[q].pc \in Working
                     PROVE  acq'[q].pc = "find" /\ SameId(ship.claim)' = {}
        BY DEF Working
      <4>2. lock' = q
        BY <4>1 DEF LockInv
      <4>. QED  BY <2>1, <3>3, <4>1, <4>2
    <3>5. OnHead(runs, ship.head)' = OnHead(runs, ship'.head)
      BY DEF OnHead
    <3>. QED  BY <2>1, <3>1, <3>2, <3>4, <3>5 DEF ReceiptInv, ReceiptId
  <2>5. AdoptInv'
    BY DEF AdoptInv
  <2>6. OneReceipt'
    BY <1>0, <2>1 DEF OneReceipt, Unexpired
  <2>7. LatestIsCurrent'
    BY <2>1 DEF LatestIsCurrent
  <2>. QED  BY <1>1, <2>3, <2>4, <2>5, <2>6, <2>7 DEF ClaimsInv
<1>4. stray' \in BOOLEAN
  BY DEF Types
<1>. QED  BY <1>2, <1>3, <1>4

LEMMA ClaimKeeps ==
  ASSUME ClaimsInv, NEW r \in Reviewer, Claim(r)
  PROVE  ClaimsInv'
<1>. DEFINE e == ship.epoch + 1
            c == [head |-> acq[r].head, epoch |-> e, rev |-> r, at |-> acq[r].at, dl |-> acq[r].dl]
            n == [acq[r] EXCEPT !.pc = "find"]
<1>0. Types /\ LockInv /\ ClaimInv /\ OrderInv /\ ReceiptInv
  BY DEF ClaimsInv
<1>1. /\ UNCHANGED <<clock, pull, shipper, runs, late, checked, issued, stray, moves, crashes>>
      /\ acq[r].pc = "stamped" /\ lock = Nobody
  BY DEF Claim
<1>2. CASE Finish(r) /\ UNCHANGED ship
  <2>1. crashes' \in 0..MaxCrashes
    BY <1>0, <1>1 DEF Types
  <2>. QED  BY <1>1, <1>2, <2>1, FinishQuiet
<1>3. CASE /\ ship # NoShip /\ CanClaim(ship, acq[r].head, acq[r].at)
           /\ ship' = Claimed(ship, c) /\ acq' = [acq EXCEPT ![r].pc = "find"] /\ lock' = r
  <2>1. ship \in Ships /\ acq[r] \in Acquires
    BY <1>0, <1>3 DEF Types
  <2>2. /\ acq[r].head \in 1 .. Heads /\ acq[r].at \in Nat /\ acq[r].at <= clock /\ acq[r].dl \in Nat
        /\ clock \in Nat
    BY <1>0, <2>1, ClaimAssumption DEF Types, Acquires
  <2>3. /\ ship.head \in 1 .. Heads /\ ship.epoch \in Nat /\ ship.base \in Base /\ ship.head = acq[r].head
        /\ ship.head \in Nat
    BY <1>3, <2>1, ClaimAssumption DEF Ships, CanClaim
  <2>4. /\ c \in Claims /\ c.head = ship.head /\ c.epoch = ship.epoch + 1 /\ c.at = acq[r].at
    BY <2>2, <2>3 DEF Claims
  <2>. HIDE DEF c
  <2>5. /\ ship' \in Ships /\ ship'.claim = c /\ ship'.epoch = ship.epoch + 1 /\ ship'.head = ship.head
        /\ ship' # NoShip /\ c # NoClaim
    <3>. DEFINE m == [ship EXCEPT !.epoch = c.epoch]
    <3>1. m \in Ships /\ m.epoch = ship.epoch + 1 /\ m.head = ship.head
      BY <2>1, <2>3, <2>4 DEF Ships
    <3>2. ship' = [m EXCEPT !.claim = c]
      BY <1>3 DEF Claimed
    <3>. HIDE DEF m
    <3>3. ship' \in Ships /\ ship'.claim = c /\ ship'.epoch = ship.epoch + 1 /\ ship'.head = ship.head
      BY <2>4, <3>1, <3>2 DEF Ships
    <3>. QED  BY <2>4, <3>3, ClaimAssumption
  <2>6. n \in Acquires' /\ n.pc = "find"
    BY <1>1, <2>1 DEF Acquires, Working
  <2>7. acq' = [acq EXCEPT ![r] = n] /\ clock' \in Nat /\ clock' >= clock
    BY <1>1, <1>3, <2>2
  <2>. HIDE DEF n
  <2>8. acq' \in [Reviewer -> Acquires'] /\ acq'[r] = n /\ \A q \in Reviewer : q # r => acq'[q] = acq[q]
    BY <1>0, <2>6, <2>7, AcquireTyped
  <2>9. Types'
    BY <1>0, <1>1, <1>3, <2>5, <2>8 DEF Types, Shippers
  <2>10. \A q \in Reviewer : acq'[q].pc \in Working <=> q = r
    <3>1. \A q \in Reviewer : acq[q].pc \notin Working
      BY <1>0, <1>1, ClaimAssumption DEF LockInv
    <3>. QED  BY <2>6, <2>8, <3>1 DEF Working
  <2>11. LockInv'
    BY <1>0, <1>1, <1>3, <2>10, ClaimAssumption DEF LockInv
  <2>12. ClaimInv'
    BY <1>1, <1>3, <2>2, <2>4, <2>5 DEF ClaimInv
  <2>13. shipper'.pc \notin {"invalidate", "adopt"}
    BY <1>0, <1>1, ClaimAssumption DEF LockInv, Holding
  <2>14. ASSUME ~stray
         PROVE  /\ ship'.claim \notin issued
                /\ ship.head <= ship'.head /\ ship.epoch <= ship'.epoch /\ ship'.head <= pull.head
                /\ shipper'.pc # "idle" => ship'.head <= shipper'.head /\ shipper'.head <= pull.head
                /\ \A i \in DOMAIN runs : runs[i].head = ship'.head => ~Unexpired(runs[i])
                /\ SameId(ship'.claim) = {}
    <3>1. \A x \in issued : x.epoch # c.epoch
      <4>1. \A x \in issued : x.epoch <= ship.epoch /\ x.epoch \in Nat
        BY <1>0, <2>14 DEF OrderInv, Types, Claims
      <4>. QED  BY <2>3, <2>4, <4>1
    <3>2. SameId(c) = {}
      <4>1. \A i \in DOMAIN runs : runs[i].epoch \in Nat
        BY <1>0, Domain DEF Runs
      <4>2. \A i \in DOMAIN runs : runs[i].epoch <= ship.epoch
        BY <1>0, <2>14 DEF OrderInv
      <4>3. \A i \in DOMAIN runs : runs[i].epoch # c.epoch
        BY <2>3, <2>4, <4>1, <4>2
      <4>. QED  BY <4>3 DEF SameId, ReceiptId
    <3>3. \A i \in DOMAIN runs : runs[i].head = ship.head => ~Unexpired(runs[i])
      <4>1. SUFFICES ASSUME NEW i \in DOMAIN runs, runs[i].head = ship.head, Unexpired(runs[i]) PROVE FALSE
        OBVIOUS
      <4>2. i \in OnHead(runs, ship.head)
        BY <4>1 DEF OnHead
      <4>3. Certifies(i)
        BY <1>0, <2>14, <4>1, <4>2 DEF ReceiptInv
      <4>4. ship.claim # NoClaim /\ runs[i].dl = ship.claim.dl /\ clock < ship.claim.dl
        BY <4>1, <4>3 DEF Certifies, Unexpired
      <4>5. acq[r].at >= ship.claim.dl
        BY <1>3, <4>4 DEF CanClaim
      <4>6. ship.claim.dl \in Nat
        BY <2>1, <4>4 DEF Ships, Claims
      <4>. QED  BY <2>2, <4>4, <4>5, <4>6
    <3>4. /\ ship.head <= pull.head
          /\ shipper.pc # "idle" => ship.head <= shipper.head /\ shipper.head <= pull.head
      BY <1>0, <2>14 DEF OrderInv
    <3>5. ship.head <= ship.head /\ ship.epoch <= ship.epoch + 1
      BY <2>3
    <3>. QED  BY <1>1, <2>5, <3>1, <3>2, <3>3, <3>4, <3>5
  <2>15. \A q \in Reviewer : acq'[q].pc \in Working => acq'[q].pc = "find"
    BY <2>6, <2>8, <2>10
  <2>. QED  BY <1>1, <1>3, <2>5, <2>9, <2>11, <2>12, <2>13, <2>14, <2>15, ShipMoves
<1>. QED  BY <1>2, <1>3 DEF Claim

LEMMA FencedTyped ==
  ASSUME NEW s \in Ships
  PROVE  /\ Fenced(s) \in Ships /\ Fenced(s).claim = NoClaim /\ Fenced(s).epoch = s.epoch + 1
         /\ Fenced(s).head = s.head /\ s.epoch \in Nat /\ s.head \in 1 .. Heads /\ s.head \in Nat
<1>. DEFINE m == [s EXCEPT !.epoch = @ + 1]
<1>1. m \in Ships /\ m.epoch = s.epoch + 1 /\ m.head = s.head
  BY DEF Ships
<1>2. Fenced(s) = [m EXCEPT !.claim = NoClaim]
  BY DEF Fenced
<1>3. s.epoch \in Nat /\ s.head \in 1 .. Heads /\ s.head \in Nat
  BY ClaimAssumption DEF Ships
<1>. HIDE DEF m
<1>. QED  BY <1>1, <1>2, <1>3 DEF Ships

LEMMA RevokeKeeps ==
  ASSUME ClaimsInv, NEW r \in Reviewer, Revoke(r)
  PROVE  ClaimsInv'
<1>0. Types /\ LockInv /\ ClaimInv /\ OrderInv /\ ReceiptInv
  BY DEF ClaimsInv
<1>1. /\ UNCHANGED <<clock, pull, shipper, runs, late, checked, issued, moves, crashes>>
      /\ acq[r].pc = "revoke" /\ acq[r].pc \in Working /\ ship' = Fenced(ship)
      /\ stray' = (stray \/ FindMatches(ship.claim))
      /\ acq' = [acq EXCEPT ![r] = Idle] /\ lock' = Nobody
  BY DEF Revoke, Finish, Working
<1>2. /\ lock = r /\ ship \in Ships /\ ship.claim \in Claims /\ ship.claim # NoClaim
      /\ \A q \in Reviewer : q # r => acq[q].pc \notin Working
      /\ shipper.pc \notin Holding
  BY <1>1, HeldByReviewer
<1>3. /\ ship' \in Ships /\ ship'.claim = NoClaim /\ ship'.epoch = ship.epoch + 1
      /\ ship'.head = ship.head /\ ship.epoch \in Nat /\ ship.head \in Nat /\ ship' # NoShip
  BY <1>1, <1>2, FencedTyped, ClaimAssumption
<1>4. Idle \in Acquires' /\ Idle.pc = "idle" /\ clock' \in Nat /\ clock' >= clock
  BY <1>0, <1>1, IdleAcquires, ClaimAssumption DEF Types, Idle, Acquires
<1>5. acq' \in [Reviewer -> Acquires'] /\ acq'[r] = Idle /\ \A q \in Reviewer : q # r => acq'[q] = acq[q]
  BY <1>0, <1>1, <1>4, AcquireTyped
<1>6. \A q \in Reviewer : acq'[q].pc \notin Working
  BY <1>2, <1>4, <1>5 DEF Working
<1>7. stray' \in BOOLEAN /\ (stray => stray')
  BY <1>1
<1>8. Types'
  BY <1>0, <1>1, <1>3, <1>5, <1>7 DEF Types, Shippers
<1>9. LockInv'
  BY <1>0, <1>1, <1>2, <1>6, ClaimAssumption DEF LockInv
<1>10. ClaimInv'
  BY <1>1, <1>3, ClaimAssumption DEF ClaimInv
<1>11. shipper'.pc \notin {"invalidate", "adopt"}
  BY <1>1, <1>2 DEF Holding
<1>12. ASSUME ~stray'
       PROVE  /\ ship # NoShip /\ ship'.claim \notin issued
              /\ ship.head <= ship'.head /\ ship.epoch <= ship'.epoch /\ ship'.head <= pull.head
              /\ shipper'.pc # "idle" => ship'.head <= shipper'.head /\ shipper'.head <= pull.head
              /\ \A i \in DOMAIN runs : runs[i].head = ship'.head => ~Unexpired(runs[i])
              /\ lock' \notin Reviewer
  <2>1. ~stray /\ ~FindMatches(ship.claim)
    BY <1>1, <1>12
  <2>2. \A i \in DOMAIN runs : runs[i].head = ship.head => ~Unexpired(runs[i])
    <3>1. SUFFICES ASSUME NEW i \in DOMAIN runs, runs[i].head = ship.head, Unexpired(runs[i]) PROVE FALSE
      OBVIOUS
    <3>2. i \in OnHead(runs, ship.head)
      BY <3>1 DEF OnHead
    <3>3. Certifies(i)
      BY <1>0, <2>1, <3>1, <3>2 DEF ReceiptInv
    <3>4. i \in SameId(ship.claim) /\ SameId(ship.claim) \subseteq DOMAIN runs
      BY <3>3 DEF Certifies, SameId
    <3>5. First(SameId(ship.claim)) \in SameId(ship.claim)
      <4>1. SameId(ship.claim) \subseteq Nat
        BY <1>0, <3>4, Domain
      <4>. QED  BY <3>4, <4>1, FirstIn
    <3>6. First(SameId(ship.claim)) = i
      BY <1>0, <1>1, <2>1, <3>4, <3>5 DEF ReceiptInv
    <3>7. Validates(runs[i], ship.claim)
      BY <3>1, <3>3 DEF Validates, Certifies, Unexpired
    <3>. QED  BY <2>1, <3>4, <3>6, <3>7 DEF FindMatches
  <2>3. /\ ship.head <= pull.head /\ ship # NoShip
        /\ shipper.pc # "idle" => ship.head <= shipper.head /\ shipper.head <= pull.head
    BY <1>0, <2>1 DEF OrderInv
  <2>4. NoClaim \notin issued /\ Nobody \notin Reviewer
    BY <1>0, ClaimAssumption DEF Types
  <2>5. ship.head <= ship.head /\ ship.epoch <= ship.epoch + 1
    BY <1>3
  <2>. QED  BY <1>1, <1>3, <2>2, <2>3, <2>4, <2>5
<1>. QED  BY <1>1, <1>3, <1>6, <1>7, <1>8, <1>9, <1>10, <1>11, <1>12, ShipMoves

LEMMA AdoptKeeps ==
  ASSUME ClaimsInv, Adopt
  PROVE  ClaimsInv'
<1>0. Types /\ LockInv /\ ClaimInv /\ OrderInv /\ ReceiptInv /\ AdoptInv /\ IssuedCertified
  BY DEF ClaimsInv
<1>1. /\ UNCHANGED <<clock, pull, lock, acq, runs, late, checked, issued, stray, moves, crashes>>
      /\ shipper.pc = "adopt" /\ shipper' = [shipper EXCEPT !.pc = "run"]
  BY DEF Adopt
<1>2. /\ lock = Shipper /\ shipper \in Shippers /\ shipper.head # 0 /\ shipper.base \in Base
      /\ ~stray => ship # NoShip /\ ship.head <= shipper.head /\ shipper.head <= pull.head
  BY <1>1, HeldByShip DEF Holding
<1>3. /\ shipper' \in Shippers /\ shipper'.pc = "run" /\ shipper'.head = shipper.head
      /\ shipper'.base = shipper.base
  BY <1>1, <1>2 DEF Shippers, Holding
<1>4. /\ "run" \in Holding /\ crashes' \in 0..MaxCrashes
      /\ shipper.head \in 1 .. Heads /\ shipper.head \in Nat
      /\ \A q \in Reviewer : acq[q].pc \notin Working
  <2>1. shipper.head \in 0 .. Heads
    BY <1>2 DEF Shippers
  <2>2. \A q \in Reviewer : acq[q].pc \notin Working
    BY <1>0, <1>2, ClaimAssumption DEF LockInv
  <2>. QED  BY <1>0, <1>1, <1>2, <2>1, <2>2, ClaimAssumption DEF Types, Holding
<1>5. CASE ship' = ship
  <2>1. AdoptInv'
    BY <1>3 DEF AdoptInv
  <2>. QED  BY <1>1, <1>2, <1>3, <1>4, <1>5, <2>1, ShipQuiet
<1>6. ASSUME ship' \in Ships, ship'.claim = NoClaim, ship'.head = shipper.head,
             ~stray => /\ ship.epoch <= ship'.epoch
                       /\ <<ship.head, ship.base>> # <<shipper.head, shipper.base>>
      PROVE  ClaimsInv'
  <2>1. Types'
    BY <1>0, <1>1, <1>3, <1>6 DEF Types, Acquires, Shippers
  <2>2. LockInv'
    BY <1>0, <1>1, <1>2, <1>3, <1>4 DEF LockInv
  <2>3. ClaimInv'
    BY <1>1, <1>2, <1>6, ClaimAssumption DEF ClaimInv
  <2>4. ASSUME ~stray
        PROVE  /\ ship # NoShip /\ ship' # NoShip /\ ship'.claim \notin issued
               /\ ship.head <= ship'.head /\ ship.epoch <= ship'.epoch /\ ship'.head <= pull.head
               /\ ship'.head <= shipper'.head /\ shipper'.head <= pull.head
               /\ \A i \in DOMAIN runs : runs[i].head = ship'.head => ~Unexpired(runs[i])
               /\ lock' \notin Reviewer
    <3>1. ship # NoShip /\ ship.head <= shipper.head /\ shipper.head <= pull.head
      BY <1>2, <2>4
    <3>2. ship.head \in Nat
      BY <1>0, <3>1, ClaimAssumption DEF Types, Ships
    <3>3. CASE ship.head = shipper.head
      <4>1. ship.base # shipper.base
        BY <1>6, <2>4, <3>3
      <4>2. \A i \in OnHead(runs, ship.head) : ~Unexpired(runs[i])
        BY <1>0, <1>1, <2>4, <3>3, <4>1 DEF AdoptInv
      <4>. QED  BY <1>0, <1>1, <1>2, <1>3, <1>6, <2>4, <3>1, <3>2, <3>3, <4>2, ClaimAssumption DEF OnHead, Types
    <3>4. CASE ship.head # shipper.head
      <4>1. \A i \in DOMAIN runs : runs[i].head <= ship.head /\ runs[i].head \in Nat
        <5>1. \A i \in DOMAIN runs : runs[i].head \in Nat
          BY <1>0, Domain, ClaimAssumption DEF Runs
        <5>. QED  BY <1>0, <2>4, <5>1 DEF OrderInv
      <4>2. \A i \in DOMAIN runs : runs[i].head # shipper.head
        BY <1>4, <3>1, <3>2, <3>4, <4>1
      <4>. QED  BY <1>0, <1>1, <1>2, <1>3, <1>4, <1>6, <2>4, <3>1, <3>2, <4>2, ClaimAssumption DEF Types
    <3>. QED  BY <3>3, <3>4
  <2>5. \A q \in Reviewer : acq'[q].pc \in Working => acq'[q].pc = "find"
    BY <1>1, <1>4
  <2>6. shipper'.pc \notin {"invalidate", "adopt"}
    BY <1>3
  <2>. QED  BY <1>1, <2>1, <2>2, <2>3, <2>4, <2>5, <2>6, ShipMoves
<1>7. CASE ship = NoShip /\ ship' = [head |-> shipper.head, base |-> shipper.base, epoch |-> 0, claim |-> NoClaim]
  <2>1. ship' \in Ships /\ ship'.claim = NoClaim /\ ship'.head = shipper.head
    BY <1>2, <1>4, <1>7 DEF Ships
  <2>2. stray
    BY <1>0, <1>2, <1>7 DEF Types
  <2>. QED  BY <1>6, <2>1, <2>2
<1>8. CASE /\ ship # NoShip /\ <<ship.head, ship.base>> # <<shipper.head, shipper.base>>
           /\ ship' = [Fenced(ship) EXCEPT !.head = shipper.head, !.base = shipper.base]
  <2>1. ship \in Ships
    BY <1>0, <1>8 DEF Types
  <2>2. /\ Fenced(ship) \in Ships /\ Fenced(ship).claim = NoClaim /\ Fenced(ship).epoch = ship.epoch + 1
        /\ ship.epoch \in Nat
    BY <2>1, FencedTyped
  <2>. DEFINE m == [Fenced(ship) EXCEPT !.head = shipper.head]
  <2>3. m \in Ships /\ m.claim = NoClaim /\ m.epoch = ship.epoch + 1 /\ m.head = shipper.head
    BY <1>4, <2>2 DEF Ships
  <2>4. ship' = [m EXCEPT !.base = shipper.base]
    BY <1>8
  <2>. HIDE DEF m
  <2>5. ship' \in Ships /\ ship'.claim = NoClaim /\ ship'.epoch = ship.epoch + 1 /\ ship'.head = shipper.head
    BY <1>2, <2>3, <2>4 DEF Ships
  <2>6. ship.epoch <= ship'.epoch
    BY <2>2, <2>5
  <2>. QED  BY <1>6, <1>8, <2>5, <2>6
<1>. QED  BY <1>5, <1>7, <1>8 DEF Adopt

LEMMA DiscardKeeps ==
  ASSUME ClaimsInv, Discard
  PROVE  ClaimsInv'
<1>0. Types /\ LockInv /\ ClaimInv /\ IssuedCertified
  BY DEF ClaimsInv
<1>1. /\ UNCHANGED <<clock, pull, lock, acq, shipper, runs, late, checked, issued, crashes>>
      /\ lock = Nobody /\ ship' = NoShip /\ stray' = TRUE /\ moves' = moves + 1 /\ moves < MaxMoves
  BY DEF Discard
<1>2. moves' \in 0..MaxMoves
  BY <1>0, <1>1, ClaimAssumption DEF Types
<1>3. Types'
  BY <1>0, <1>1, <1>2 DEF Types, Acquires, Shippers
<1>4. LockInv' /\ ClaimInv'
  BY <1>0, <1>1, ClaimAssumption DEF LockInv, ClaimInv
<1>5. IssuedCertified'
  BY <1>0, <1>1 DEF IssuedCertified, ReceiptId
<1>. QED  BY <1>1, <1>3, <1>4, <1>5, StrayKeeps

-----------------------------------------------------------------------------
(* The invariant holds, and what it says of the receipts. *)

LEMMA ClaimsInit ==
  ASSUME Init
  PROVE  ClaimsInv
<1>1. PICK b \in Base : /\ pull = [head |-> 1, base |-> b]
                        /\ ship = [head |-> 1, base |-> b, epoch |-> 0, claim |-> NoClaim]
  BY DEF Init
<1>2. /\ clock = 0 /\ lock = Nobody /\ acq = [r \in Reviewer |-> Idle] /\ shipper = NoRun
      /\ runs = <<>> /\ late = {} /\ checked = [r \in Reviewer |-> 0] /\ issued = {} /\ stray = FALSE
      /\ moves = 0 /\ crashes = 0
  BY DEF Init
<1>3. 1 \in 1 .. Heads /\ 0 \in 0 .. Heads /\ 0 \in 0 .. clock
  BY <1>2, ClaimAssumption
<1>4. ship \in Ships /\ ship.claim = NoClaim /\ ship.head = 1 /\ ship # NoShip
  <2>1. ship \in Ships /\ ship.claim = NoClaim /\ ship.head = 1
    BY <1>1, <1>3 DEF Ships
  <2>. QED  BY <2>1, ClaimAssumption
<1>5. pull \in [head : 1..Heads, base : Base] /\ pull.head = 1
  BY <1>1, <1>3
<1>6. Idle \in Acquires /\ Idle.pc = "idle"
  BY <1>3 DEF Idle, Acquires
<1>7. DOMAIN runs = {} /\ runs \in Seq(Runs)
  BY <1>2
<1>8. Types
  <2>1. acq \in [Reviewer -> Acquires]
    BY <1>2, <1>6
  <2>2. shipper \in Shippers
    BY <1>2, NoRunTyped
  <2>3. /\ clock \in 0..MaxClock /\ moves \in 0..MaxMoves /\ crashes \in 0..MaxCrashes
        /\ checked \in [Reviewer -> 0..Heads]
    BY <1>2, <1>3, ClaimAssumption
  <2>. QED  BY <1>2, <1>4, <1>5, <1>7, <2>1, <2>2, <2>3 DEF Types
<1>9. LockInv
  BY <1>2, <1>6, NoRunTyped, ClaimAssumption DEF LockInv, Working, Holding
<1>10. ClaimInv /\ AdoptInv
  BY <1>2, <1>4, NoRunTyped, ClaimAssumption DEF ClaimInv, AdoptInv
<1>11. OrderInv
  BY <1>2, <1>4, <1>5, <1>7, NoRunTyped DEF OrderInv
<1>12. ReceiptInv
  BY <1>2, <1>6, <1>7, ClaimAssumption DEF ReceiptInv, OnHead
<1>13. OneReceipt /\ LatestIsCurrent /\ IssuedCertified
  BY <1>2, <1>7 DEF OneReceipt, LatestIsCurrent, IssuedCertified
<1>. QED  BY <1>8, <1>9, <1>10, <1>11, <1>12, <1>13 DEF ClaimsInv

LEMMA ClaimsUnchanged ==
  ASSUME ClaimsInv, UNCHANGED vars
  PROVE  ClaimsInv'
  BY DEF ClaimsInv, vars, Types, Acquires, Shippers, LockInv, ClaimInv, OrderInv, ReceiptInv, AdoptInv,
         Certifies, SameId, OnHead, Unexpired, OneReceipt, LatestIsCurrent, IssuedCertified, ReceiptId

LEMMA ClaimsStep ==
  ASSUME ClaimsInv, [Next]_vars
  PROVE  ClaimsInv'
<1>1. ASSUME NEW r \in Reviewer, Acquire(r) \/ Crash(r) PROVE ClaimsInv'
  BY <1>1, ReadPullKeeps, StampKeeps, ClaimKeeps, FindKeeps, CreateKeeps, RevokeKeeps, CrashKeeps DEF Acquire
<1>2. CASE Ship \/ ShipCrash
  BY <1>2, ShipRequestKeeps, ShipLockKeeps, InvalidateKeeps, AdoptKeeps, ShipEndingKeeps DEF Ship
<1>3. CASE Discard \/ Land
  BY <1>3, DiscardKeeps, LandKeeps
<1>4. CASE Push \/ Retarget \/ Tick \/ \E r \in Reviewer : Validate(r) \/ Post(r)
  BY <1>4, OthersKeep
<1>5. CASE UNCHANGED vars
  BY <1>5, ClaimsUnchanged
<1>. QED  BY <1>1, <1>2, <1>3, <1>4, <1>5 DEF Next

LEMMA ClaimsHold == Spec => []ClaimsInv
<1>1. Init => ClaimsInv
  BY ClaimsInit
<1>2. ClaimsInv /\ [Next]_vars => ClaimsInv'
  BY ClaimsStep
<1>. QED  BY <1>1, <1>2, PTL DEF Spec

LEMMA ClaimsTyped ==
  ASSUME ClaimsInv
  PROVE  TypeOK
<1>0. Types /\ LockInv
  BY DEF ClaimsInv
<1>1. \A r \in Reviewer :
          /\ acq[r].pc \in {"idle", "read", "stamped", "find", "create", "find2", "revoke"}
          /\ acq[r].pc \in {"find", "create", "find2", "revoke"} <=> lock = r
  <2>1. \A r \in Reviewer : acq[r] \in Acquires
    BY <1>0 DEF Types
  <2>. QED  BY <1>0, <2>1 DEF Acquires, LockInv, Working
<1>2. /\ shipper.pc \in {"idle", "queued", "invalidate", "adopt", "run"}
      /\ shipper.pc \in {"invalidate", "adopt", "run"} <=> lock = Shipper
  <2>1. shipper \in Shippers
    BY <1>0 DEF Types
  <2>. QED  BY <1>0, <2>1 DEF Shippers, LockInv, Holding
<1>. QED  BY <1>0, <1>1, <1>2 DEF TypeOK, Types

LEMMA ClaimsAgree ==
  ASSUME ClaimsInv
  PROVE  ReceiptsAgree
<1>1. AdoptionInvalidates
  BY DEF ClaimsInv, ReceiptInv, Certifies, AdoptionInvalidates
<1>. QED  BY <1>1, ClaimsTyped DEF ReceiptsAgree, ClaimsInv

LEMMA ClaimsArm ==
  ASSUME ClaimsInv
  PROVE  ArmedCurrent
<1>0. Types /\ ClaimInv /\ ReceiptInv
  BY DEF ClaimsInv
<1>1. SUFFICES ASSUME ~stray, Arms, ship # NoShip, ship.head = pull.head
               PROVE  IsCurrent(ship, pull.head, DecidingVerdict.rev, clock)
  BY DEF ArmedCurrent
<1>. DEFINE S == OnHead(runs, ship.head)
            k == Last(S)
<1>2. /\ S # {} /\ runs[k].app = "claim" /\ runs[k].ok /\ clock < runs[k].dl
      /\ runs[k].rev = DecidingVerdict.rev
  BY <1>1 DEF Arms, Admits
<1>3. k \in S
  <2>1. Len(runs) \in Nat /\ S \subseteq 1 .. Len(runs)
    BY <1>0, Domain DEF OnHead
  <2>. QED  BY <1>2, <2>1, LastIn
<1>. HIDE DEF k
<1>4. Certifies(k)
  <2>1. Unexpired(runs[k])
    BY <1>2 DEF Unexpired
  <2>. QED  BY <1>0, <1>1, <1>3, <2>1 DEF ReceiptInv
<1>5. ship.claim # NoClaim /\ runs[k].rev = ship.claim.rev /\ runs[k].dl = ship.claim.dl
  BY <1>4 DEF Certifies, ReceiptId
<1>6. ship.claim.head = ship.head /\ ship.claim.epoch = ship.epoch /\ ship.claim.at <= clock
  BY <1>0, <1>1, <1>5 DEF ClaimInv
<1>. QED  BY <1>1, <1>2, <1>5, <1>6 DEF IsCurrent

\* A claim that was reported as acquired has its receipt on GitHub, it is the
\* newest check run of its head, and no unexpired receipt of another claim or
\* base stands beside it (claim_reviewer_and_publish, publish_or_reconcile,
\* invalidate_adopted_reviewer_receipts), as long as no receipt was left behind
\* that no ship state vouches for.
THEOREM ReceiptsAlwaysAgree == Spec => []ReceiptsAgree
<1>1. ClaimsInv => ReceiptsAgree
  BY ClaimsAgree
<1>. QED  BY <1>1, ClaimsHold, PTL

\* What the arm guard admits from GitHub's newest check run alone
\* (reviewer_claim_receipt) is a verdict of the reviewer whose claim the ship
\* state holds current at that moment.
THEOREM ArmingNeedsACurrentClaim == Spec => []ArmedCurrent
<1>1. ClaimsInv => ArmedCurrent
  BY ClaimsArm
<1>. QED  BY <1>1, ClaimsHold, PTL
=============================================================================
