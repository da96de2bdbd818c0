--------------------------- MODULE ReviewerClaim ---------------------------
(***************************************************************************)
(* The durable reviewer claim of one pull request and the receipt that     *)
(* certifies it on GitHub (ship_state.rs, reviewer_receipt.rs,             *)
(* app/reviewer_claim_cmd.rs, the adoption path of ship.rs), with the two  *)
(* guards that read them: the reviewer guard, which validates the claim    *)
(* before a verdict is written, and the arm guard, which admits a verdict  *)
(* from the receipt alone.                                                 *)
(*                                                                         *)
(* `reviewer-claim acquire` reads the head, stamps the claim, waits for    *)
(* the per-PR lock, persists the claim and publishes the receipt with the  *)
(* lock held; a publication that fails revokes the claim.  A ship run      *)
(* takes the same lock to adopt a new head or base.  Time is the number    *)
(* of clock readings that matter; a stamp is later than all before it.     *)
(***************************************************************************)
EXTENDS Naturals, Sequences, FiniteSets

CONSTANTS Reviewer,        \* reviewer identities (SHIPYARD_AGENT_ID)
          Heads,           \* heads are 1..Heads, in the order they are pushed
          Base,            \* branches the pull request may target
          Term,            \* --deadline-seconds, in clock readings
          CreateOutcomes,  \* what may become of a check-run POST
          FindOutcomes,    \* what may become of a check-run listing
          PatchOutcomes,   \* what may become of a check-run PATCH
          MaxClock, MaxRuns, MaxMoves, MaxVerdicts, MaxCrashes,
          NoClaim, NoShip, Nobody, Shipper

Claims == [head : 1..Heads, epoch : Nat, rev : Reviewer, at : Nat, dl : Nat]
\* A check run carries its claim's fields, the publishing App and its
\* conclusion.  `base` records the base its claim was taken under.
Runs == [head : 1..Heads, epoch : Nat, rev : Reviewer, at : Nat, dl : Nat,
         app : {"claim", "other"}, ok : BOOLEAN, base : Base]
Ships == [head : 1..Heads, base : Base, epoch : Nat, claim : Claims \cup {NoClaim}]

ASSUME ClaimAssumption ==
    /\ Heads \in Nat \ {0} /\ Term \in Nat \ {0} /\ Base # {}
    /\ CreateOutcomes \subseteq {"ok", "failed", "foreign", "lost", "late"}
    /\ FindOutcomes \subseteq {"ok", "error"}
    /\ PatchOutcomes \subseteq {"ok", "error"}
    /\ {MaxClock, MaxRuns, MaxMoves, MaxVerdicts, MaxCrashes} \subseteq Nat
    /\ Nobody \notin Reviewer /\ Shipper \notin Reviewer /\ Shipper # Nobody
    /\ NoClaim \notin Claims /\ NoShip \notin Ships

VARIABLES
    clock,
    pull,      \* the pull request on GitHub: its head and its base
    ship,      \* the ship state: head, base, claim epoch and active claim
    lock,      \* holder of the per-PR ship-state lock
    acq,       \* one `reviewer-claim acquire` per reviewer
    shipper,   \* one ship execution
    runs,      \* check runs, in id order
    late,      \* POSTs whose client was killed, not yet applied
    checked,   \* the head each reviewer's guard has validated
    verdicts,  \* APPROVE verdicts, in the order they were written
    issued,    \* history: claims whose acquire reported success
    stray,     \* history: a receipt may stand that no ship state vouches for
    moves, crashes
vars == <<clock, pull, ship, lock, acq, shipper, runs, late, checked,
          verdicts, issued, stray, moves, crashes>>

Idle == [pc |-> "idle", head |-> 1, at |-> 0, dl |-> 0]
NoRun == [pc |-> "idle", head |-> 0, base |-> Nobody, todo |-> {}]

Init ==
    /\ clock = 0
    /\ \E b \in Base : /\ pull = [head |-> 1, base |-> b]
                       /\ ship = [head |-> 1, base |-> b, epoch |-> 0, claim |-> NoClaim]
    /\ lock = Nobody
    /\ acq = [r \in Reviewer |-> Idle]
    /\ shipper = NoRun
    /\ runs = <<>> /\ late = {} /\ verdicts = <<>>
    /\ checked = [r \in Reviewer |-> 0]
    /\ issued = {} /\ stray = FALSE
    /\ moves = 0 /\ crashes = 0

-----------------------------------------------------------------------------
(* The ship state's claim operations.                                      *)

\* Mutant: an active claim does not exclude another.
ClaimAnyTime(s, head, now) == head = s.head

\* claim_reviewer's refusals: another head, or an active claim that is
\* unexpired at the caller's own reading or out of step with the epoch.
CanClaim(s, head, now) ==
    /\ head = s.head
    /\ s.claim # NoClaim => s.claim.epoch = s.epoch /\ now >= s.claim.dl

Claimed(s, c) == [s EXCEPT !.epoch = c.epoch, !.claim = c]

\* revoke_reviewer_claim and fence_reviewer_claim advance the epoch and clear
\* the claim; the revocation's identity checks hold under the caller's lock.
Fenced(s) == [s EXCEPT !.epoch = @ + 1, !.claim = NoClaim]

\* reviewer_claim_is_current, with the epoch `validate` passes: the state's.
IsCurrent(s, head, rev, now) ==
    /\ s # NoShip
    /\ s.claim # NoClaim
    /\ s.head = head /\ s.claim.head = head
    /\ s.claim.rev = rev
    /\ s.claim.epoch = s.epoch
    /\ s.claim.at <= now /\ now < s.claim.dl

-----------------------------------------------------------------------------
(* Publishing a receipt.                                                   *)

\* receipt_id: the deterministic external id of a claim's check run.
ReceiptId(c) == <<c.head, c.epoch, c.rev>>

\* request_from_claim and the body of create.
Receipt(c, app, ok) ==
    [head |-> c.head, epoch |-> c.epoch, rev |-> c.rev, at |-> c.at, dl |-> c.dl,
     app |-> app, ok |-> ok, base |-> ship.base]

\* validate_run: the App, the conclusion and every field of the summary.
Validates(run, c) ==
    /\ run.app = "claim" /\ run.ok
    /\ <<ReceiptId(run), run.at, run.dl>> = <<ReceiptId(c), c.at, c.dl>>

\* The first check run of the head that carries the claim's external id.
SameId(c) == {i \in DOMAIN runs : ReceiptId(runs[i]) = ReceiptId(c)}
First(S) == CHOOSE i \in S : \A j \in S : i <= j
FindMatches(c) == SameId(c) # {} /\ Validates(runs[First(SameId(c))], c)

Finish(r) == acq' = [acq EXCEPT ![r] = Idle] /\ lock' = Nobody
Goto(r, pc) == acq' = [acq EXCEPT ![r].pc = pc] /\ UNCHANGED lock
Succeed(r) == Finish(r) /\ issued' = issued \cup {ship.claim}

\* acquire reads the live head; a request for any other head is refused.
ReadPull(r) ==
    /\ acq[r].pc = "idle"
    /\ acq' = [acq EXCEPT ![r] = [Idle EXCEPT !.pc = "read", !.head = pull.head]]
    /\ UNCHANGED <<clock, pull, ship, lock, shipper, runs, late, checked,
                   verdicts, issued, stray, moves, crashes>>

\* acquire stamps the claim before it waits for the lock.
Stamp(r) ==
    /\ acq[r].pc = "read" /\ clock < MaxClock
    /\ clock' = clock + 1
    /\ acq' = [acq EXCEPT ![r].pc = "stamped", ![r].at = clock', ![r].dl = clock' + Term]
    /\ UNCHANGED <<pull, ship, lock, shipper, runs, late, checked,
                   verdicts, issued, stray, moves, crashes>>

\* claim_reviewer_and_publish up to the saved claim; a refusal drops the lock.
Claim(r) ==
    /\ acq[r].pc = "stamped" /\ lock = Nobody
    /\ IF ship # NoShip /\ CanClaim(ship, acq[r].head, acq[r].at)
       THEN LET e == ship.epoch + 1
                c == [head |-> acq[r].head, epoch |-> e, rev |-> r,
                      at |-> acq[r].at, dl |-> acq[r].dl]
            IN /\ ship' = Claimed(ship, c)
               /\ acq' = [acq EXCEPT ![r].pc = "find"]
               /\ lock' = r
       ELSE Finish(r) /\ UNCHANGED ship
    /\ UNCHANGED <<clock, pull, shipper, runs, late, checked,
                   verdicts, issued, stray, moves, crashes>>

\* publish_or_reconcile's first read of the external id.
Find(r) ==
    /\ acq[r].pc = "find"
    /\ \/ "error" \in FindOutcomes /\ Goto(r, "revoke") /\ UNCHANGED issued
       \/ /\ "ok" \in FindOutcomes
          /\ CASE FindMatches(ship.claim) -> Succeed(r)
               [] SameId(ship.claim) = {} -> Goto(r, "create") /\ UNCHANGED issued
               [] OTHER -> Goto(r, "revoke") /\ UNCHANGED issued
    /\ UNCHANGED <<clock, pull, ship, shipper, runs, late, checked,
                   verdicts, stray, moves, crashes>>

\* The POST.  "failed": nothing was created.  "lost": created, but the answer
\* never came.  "late": gh was killed at its timeout and the request is still
\* on its way.  "foreign": created under another App's credentials, which
\* create itself marks failed, if that PATCH goes through.
Create(r) ==
    /\ acq[r].pc = "create" /\ Len(runs) < MaxRuns
    /\ LET c == ship.claim IN
       \E o \in CreateOutcomes :
          /\ IF o = "ok" THEN Succeed(r) ELSE Goto(r, "find2") /\ UNCHANGED issued
          /\ late' = IF o = "late" THEN late \cup {Receipt(c, "claim", TRUE)} ELSE late
          /\ stray' = (stray \/ o = "late")
          /\ CASE o \in {"ok", "lost"} -> runs' = Append(runs, Receipt(c, "claim", TRUE))
               [] o = "foreign" ->
                    \E p \in PatchOutcomes :
                       runs' = Append(runs, Receipt(c, "other", p = "error"))
               [] OTHER -> UNCHANGED runs
    /\ UNCHANGED <<clock, pull, ship, shipper, checked, verdicts,
                   moves, crashes>>

\* The second read, after a create that returned an error.
Find2(r) ==
    /\ acq[r].pc = "find2"
    /\ \/ "ok" \in FindOutcomes /\ FindMatches(ship.claim) /\ Succeed(r)
       \/ /\ "error" \in FindOutcomes \/ ~FindMatches(ship.claim)
          /\ Goto(r, "revoke") /\ UNCHANGED issued
    /\ UNCHANGED <<clock, pull, ship, shipper, runs, late, checked,
                   verdicts, stray, moves, crashes>>

\* A failed publication persists the fence before the error is returned.  A
\* receipt that was created all the same outlives its claim.
Revoke(r) ==
    /\ acq[r].pc = "revoke"
    /\ ship' = Fenced(ship)
    /\ stray' = (stray \/ FindMatches(ship.claim))
    /\ Finish(r)
    /\ UNCHANGED <<clock, pull, shipper, runs, late, checked,
                   verdicts, issued, moves, crashes>>

\* The command dies with the lock, which the kernel drops; a POST under way is
\* lost, was applied, or is applied later: its gh child outlives the command.
Crash(r) ==
    /\ crashes < MaxCrashes /\ lock = r
    /\ crashes' = crashes + 1
    /\ Finish(r)
    /\ \/ UNCHANGED <<runs, late, stray>>
       \/ /\ acq[r].pc = "create" /\ Len(runs) < MaxRuns
          /\ runs' = Append(runs, Receipt(ship.claim, "claim", TRUE))
          /\ UNCHANGED <<late, stray>>
       \/ /\ acq[r].pc = "create" /\ Len(runs) < MaxRuns
          /\ late' = late \cup {Receipt(ship.claim, "claim", TRUE)} /\ stray' = TRUE
          /\ UNCHANGED runs
    /\ UNCHANGED <<clock, pull, ship, shipper, checked, verdicts, issued, moves>>

-----------------------------------------------------------------------------
(* A ship execution, which adopts the head and base it was asked for.      *)

ShipRequest ==
    /\ shipper.pc = "idle"
    /\ shipper' = [pc |-> "queued", head |-> pull.head, base |-> pull.base, todo |-> {}]
    /\ UNCHANGED <<clock, pull, ship, lock, acq, runs, late, checked,
                   verdicts, issued, stray, moves, crashes>>

\* invalidate_adopted_reviewer_receipts runs only for a same-head adoption of
\* another base, and only while the state names an active claim.
MustInvalidate ==
    /\ ship # NoShip
    /\ ship.head = shipper.head /\ ship.base # shipper.base /\ ship.claim # NoClaim

\* adopted_receipt_matches: a receipt already marked failed has lost the
\* summary it is recognised by.
AdoptedReceipts == {i \in DOMAIN runs : runs[i].head = shipper.head /\ runs[i].ok}

ShipEnds == lock' = Nobody /\ shipper' = NoRun

ShipLock ==
    /\ shipper.pc = "queued" /\ lock = Nobody
    /\ IF MustInvalidate
       THEN \/ /\ "ok" \in FindOutcomes
               /\ lock' = Shipper
               /\ shipper' = [shipper EXCEPT !.pc = "invalidate", !.todo = AdoptedReceipts]
            \/ "error" \in FindOutcomes /\ ShipEnds
       ELSE lock' = Shipper /\ shipper' = [shipper EXCEPT !.pc = "adopt"]
    /\ UNCHANGED <<clock, pull, ship, acq, runs, late, checked,
                   verdicts, issued, stray, moves, crashes>>

\* One PATCH per listed receipt; the first that fails cancels the job.
Invalidate ==
    /\ shipper.pc = "invalidate"
    /\ IF shipper.todo = {}
       THEN shipper' = [shipper EXCEPT !.pc = "adopt"] /\ UNCHANGED <<runs, lock>>
       ELSE LET i == First(shipper.todo) IN
            \E p \in PatchOutcomes :
               IF p = "ok"
               THEN /\ runs' = [runs EXCEPT ![i].ok = FALSE]
                    /\ shipper' = [shipper EXCEPT !.todo = @ \ {i}]
                    /\ UNCHANGED lock
               ELSE ShipEnds /\ UNCHANGED runs
    /\ UNCHANGED <<clock, pull, ship, acq, late, checked,
                   verdicts, issued, stray, moves, crashes>>

\* load_or_create_state with --adopt-head, and the save that follows.
Adopt ==
    /\ shipper.pc = "adopt"
    /\ ship' = IF ship = NoShip
               THEN [head |-> shipper.head, base |-> shipper.base, epoch |-> 0, claim |-> NoClaim]
               ELSE IF <<ship.head, ship.base>> = <<shipper.head, shipper.base>> THEN ship
               ELSE [Fenced(ship) EXCEPT !.head = shipper.head, !.base = shipper.base]
    /\ shipper' = [shipper EXCEPT !.pc = "run"]
    /\ UNCHANGED <<clock, pull, lock, acq, runs, late, checked,
                   verdicts, issued, stray, moves, crashes>>

\* validate_existing_state refuses a changed policy: the job is cancelled,
\* after any receipts were already marked failed.
ShipRefuse ==
    /\ shipper.pc = "adopt" /\ ship # NoShip
    /\ ShipEnds
    /\ UNCHANGED <<clock, pull, ship, acq, runs, late, checked,
                   verdicts, issued, stray, moves, crashes>>

ShipFinish ==
    /\ shipper.pc = "run"
    /\ ShipEnds
    /\ UNCHANGED <<clock, pull, ship, acq, runs, late, checked,
                   verdicts, issued, stray, moves, crashes>>

ShipCrash ==
    /\ crashes < MaxCrashes /\ lock = Shipper
    /\ crashes' = crashes + 1
    /\ ShipEnds
    /\ UNCHANGED <<clock, pull, ship, acq, runs, late, checked,
                   verdicts, issued, stray, moves>>

\* delete_scoped: the next ship starts from a fresh state with epoch 0.
Discard ==
    /\ lock = Nobody /\ ship # NoShip /\ moves < MaxMoves
    /\ ship' = NoShip /\ stray' = TRUE /\ moves' = moves + 1
    /\ UNCHANGED <<clock, pull, lock, acq, shipper, runs, late, checked,
                   verdicts, issued, crashes>>

-----------------------------------------------------------------------------
(* The guards around a verdict, and GitHub.                                *)

\* The reviewer guard: the live head is the one `validate` is asked about.
Validate(r) ==
    /\ checked[r] = 0
    /\ Len(verdicts) + Cardinality({q \in Reviewer : checked[q] # 0}) < MaxVerdicts
    /\ IsCurrent(ship, pull.head, r, clock)
    /\ checked' = [checked EXCEPT ![r] = pull.head]
    /\ UNCHANGED <<clock, pull, ship, lock, acq, shipper, runs, late,
                   verdicts, issued, stray, moves, crashes>>

\* The verdict is written after the guard returned.
Post(r) ==
    /\ checked[r] # 0
    /\ verdicts' = Append(verdicts,
          [rev |-> r, head |-> checked[r], at |-> clock])
    /\ checked' = [checked EXCEPT ![r] = 0]
    /\ UNCHANGED <<clock, pull, ship, lock, acq, shipper, runs, late,
                   issued, stray, moves, crashes>>

OnHead(seq, h) == {i \in DOMAIN seq : seq[i].head = h}
Last(S) == CHOOSE i \in S : \A j \in S : j <= i

\* Mutant: an expired receipt still certifies its head.
AdmitsExpired(verdict, h) ==
    /\ OnHead(runs, h) # {}
    /\ LET run == runs[Last(OnHead(runs, h))] IN
       /\ run.app = "claim" /\ run.ok
       /\ run.rev = verdict.rev
       /\ run.at <= verdict.at /\ verdict.at < run.dl

\* reviewer_claim_receipt over parse_claim_receipt: the newest check run of
\* the head decides; it must be a success of the claim App, unexpired, by the
\* newest approval's signer, and the approval must fall in its window.
Admits(verdict, h) ==
    /\ OnHead(runs, h) # {}
    /\ LET run == runs[Last(OnHead(runs, h))] IN
       /\ run.app = "claim" /\ run.ok
       /\ clock < run.dl
       /\ run.rev = verdict.rev
       /\ run.at <= verdict.at /\ verdict.at < run.dl

DecidingVerdict == verdicts[Last(OnHead(verdicts, pull.head))]

\* The arm guard would admit the live head's newest approval.
Arms == OnHead(verdicts, pull.head) # {} /\ Admits(DecidingVerdict, pull.head)

\* A push may bring back an earlier head, with the receipts it had.
Push ==
    /\ moves < MaxMoves
    /\ \E h \in 1..Heads \ {pull.head} :
          pull' = [pull EXCEPT !.head = h] /\ stray' = (stray \/ h < pull.head)
    /\ moves' = moves + 1
    /\ UNCHANGED <<clock, ship, lock, acq, shipper, runs, late, checked,
                   verdicts, issued, crashes>>

Retarget ==
    /\ moves < MaxMoves
    /\ \E b \in Base \ {pull.base} : pull' = [pull EXCEPT !.base = b]
    /\ moves' = moves + 1
    /\ UNCHANGED <<clock, ship, lock, acq, shipper, runs, late, checked,
                   verdicts, issued, stray, crashes>>

\* A POST whose client was killed is applied after all.
Land ==
    /\ Len(runs) < MaxRuns
    /\ \E run \in late : runs' = Append(runs, run) /\ late' = late \ {run}
    /\ UNCHANGED <<clock, pull, ship, lock, acq, shipper, checked,
                   verdicts, issued, stray, moves, crashes>>

Tick ==
    /\ clock < MaxClock
    /\ clock' = clock + 1
    /\ UNCHANGED <<pull, ship, lock, acq, shipper, runs, late, checked,
                   verdicts, issued, stray, moves, crashes>>

Acquire(r) == ReadPull(r) \/ Stamp(r) \/ Claim(r) \/ Find(r) \/ Create(r)
                 \/ Find2(r) \/ Revoke(r)
Ship == ShipRequest \/ ShipLock \/ Invalidate \/ Adopt \/ ShipRefuse \/ ShipFinish

Next ==
    \/ \E r \in Reviewer : Acquire(r) \/ Crash(r) \/ Validate(r) \/ Post(r)
    \/ Ship \/ ShipCrash \/ Discard
    \/ Push \/ Retarget \/ Land \/ Tick

Spec == Init /\ [][Next]_vars

-----------------------------------------------------------------------------
(* Properties.                                                             *)

\* Every variable has its type, and the lock is held by exactly the process
\* that is between claim_reviewer_and_publish's (or the ship run's) first and
\* last step.
TypeOK ==
    /\ clock \in 0..MaxClock
    /\ pull \in [head : 1..Heads, base : Base]
    /\ ship \in Ships \cup {NoShip}
    /\ lock \in Reviewer \cup {Nobody, Shipper}
    /\ \A r \in Reviewer :
          /\ acq[r].pc \in {"idle", "read", "stamped", "find", "create", "find2", "revoke"}
          /\ acq[r].pc \in {"find", "create", "find2", "revoke"} <=> lock = r
    /\ shipper.pc \in {"idle", "queued", "invalidate", "adopt", "run"}
    /\ shipper.pc \in {"invalidate", "adopt", "run"} <=> lock = Shipper
    /\ runs \in Seq(Runs) /\ late \subseteq Runs
    /\ checked \in [Reviewer -> 0..Heads]
    /\ issued \subseteq Claims /\ stray \in BOOLEAN
    /\ moves \in 0..MaxMoves /\ crashes \in 0..MaxCrashes

Unexpired(run) == run.ok /\ run.app = "claim" /\ clock < run.dl

\* The next four hold until a receipt may stand that no ship state vouches
\* for: one whose create was reported failed, one that lands late, and those
\* of a deleted ship state or of a head that comes back.

\* At most one unexpired success receipt of the claim App stands on a head:
\* a second claim needs an expired or a fenced first one, and publication
\* never repeats a create (publish_or_reconcile, claim_reviewer, the
\* invalidation of an adoption).
OneReceipt ==
    ~stray =>
        \A i, j \in DOMAIN runs :
            (i # j /\ runs[i].head = runs[j].head) => ~(Unexpired(runs[i]) /\ Unexpired(runs[j]))

\* While a claim whose acquire succeeded is the active one, the newest check
\* run of its head - the only one the arm guard looks at - is its receipt.
LatestIsCurrent ==
    (~stray /\ ship # NoShip /\ ship.claim \in issued) =>
        /\ OnHead(runs, ship.claim.head) # {}
        /\ ReceiptId(runs[Last(OnHead(runs, ship.claim.head))]) = ReceiptId(ship.claim)

\* No unexpired receipt taken under another base stands on the head the ship
\* state has adopted (invalidate_adopted_reviewer_receipts).
AdoptionInvalidates ==
    (~stray /\ ship # NoShip) =>
        \A i \in OnHead(runs, ship.head) : Unexpired(runs[i]) => runs[i].base = ship.base

\* The arm guard, which reads only GitHub, admits a verdict on the head the
\* ship state validates only from the reviewer whose claim that state holds
\* current at that moment.
ArmedCurrent ==
    (~stray /\ Arms /\ ship # NoShip /\ ship.head = pull.head) =>
        IsCurrent(ship, pull.head, DecidingVerdict.rev, clock)

\* A claim reported as acquired has a receipt of its own on GitHub, carrying
\* exactly its window, whatever was lost, delayed, discarded or left over from
\* an earlier ship state with the same epochs.
IssuedCertified ==
    \A c \in issued : \E i \in DOMAIN runs :
        /\ runs[i].app = "claim"
        /\ <<ReceiptId(runs[i]), runs[i].at, runs[i].dl>> = <<ReceiptId(c), c.at, c.dl>>

\* GitHub's receipts and the ship state agree about who reviews: a claim that was
\* reported as acquired has its receipt, it is the one the arm guard looks at, and
\* no receipt of another reviewer or another base stands beside it.
ReceiptsAgree ==
    TypeOK /\ OneReceipt /\ LatestIsCurrent /\ AdoptionInvalidates /\ IssuedCertified
=============================================================================
