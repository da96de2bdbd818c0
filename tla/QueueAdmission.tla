--------------------------- MODULE QueueAdmission ---------------------------
(***************************************************************************)
(* Merge-queue admission of one pull request: the arm mutation with its    *)
(* write-ahead ledger (merge_queue_control.rs), the two callers that arm   *)
(* (merge_pr under the ship-state lock, supervise_merge_queue without it,  *)
(* app/auto_merge_cmd.rs), the revocation after a retarget, and the        *)
(* steward's settlement of uncertain entries (mutation_outcome.rs).        *)
(*                                                                         *)
(* Three locks order these steps.  The control lock `ctl' is held from the *)
(* guard's acquire to its finish, and every mutation tries it without      *)
(* blocking; hold, resume and the operator's resolve wait for it.  The     *)
(* ship-state lock `prLock' is held by merge_pr for its whole run and      *)
(* waited for by everyone else.  The repository/base lock nests inside the *)
(* control lock and adds nothing on one machine, so it is left out.        *)
(*                                                                         *)
(* Time is a count of stamps: each local stamp and each queue removal gets *)
(* a later one (the two clocks agree).  0 is an absent timestamp.          *)
(* GitHub's reads are current.                                             *)
(***************************************************************************)
EXTENDS Naturals, FiniteSets

CONSTANTS
    Procs,      \* `shipyard ship' / `auto-merge' processes of the machine
    Heads,      \* head commits of the pull request
    Bases,      \* its target branches
    NONE,       \* no lock holder, no ship state, no removal event
    MaxRuns,    \* bounds: process starts,
    MaxId,      \*   audited mutations,
    MaxEvents   \*   crashes and unreadable steward reads, lost replies,
                \*   operator holds, pushes, retargets, removals from the
                \*   queue and actions of other tools or people, together

ASSUME AdmissionAssumption ==
    /\ NONE \notin Procs \cup {"steward", "operator"} /\ Heads # {} /\ Bases # {}
    /\ {"steward", "operator"} \cap Procs = {}
    /\ {MaxRuns, MaxId, MaxEvents} \subseteq Nat
    /\ NONE \notin [head : Heads, base : Bases, created : Nat, attempt : Nat,
                    started : Nat, succeeded : Nat, observed : Nat]
    /\ NONE \notin [reason : {"failed", "manual", "invalid"}, at : Nat, pushed : BOOLEAN]

VARIABLES
    pr,      \* GitHub's view of the pull request
    ship,    \* the active ship state's merge-queue fields, or NONE
    prLock, ctl,
    hold,    \* the HOLD sentinel exists
    ledger,  \* uncertain entries: started, without a definitive finish
    net,     \* mutation requests sent and not yet answered to their sender
    proc,    \* the auto-merge processes
    fix,     \* the settlement in progress, by steward or operator
    op,      \* the operator's pending `merge-queue hold'
    clock,
    used,    \* how much of each bound is spent
    granted, \* history: heads that were armed or queued on GitHub
    struck   \* history: the last removal was terminal, within an attempt and
             \* not in the gap before supervision records an accepted arm

vars == <<pr, ship, prLock, ctl, hold, ledger, net, proc, fix, op, clock,
          used, granted, struck>>

Arm == "arm"
Revocations == {"disable", "dequeue"}
Terminal == {"failed", "manual"}
Now == clock + 1

Fresh(h, b) ==
    [head |-> h, base |-> b, created |-> Now, attempt |-> 0, started |-> 0,
     succeeded |-> 0, observed |-> 0]

Idle ==
    [pc |-> "idle", st |-> NONE, sup |-> FALSE, seen |-> FALSE, stamp |-> 0,
     path |-> "none", act |-> Arm, todo |-> {}, base |-> NONE, id |-> 0,
     dead |-> FALSE]

NoFix == [pc |-> "idle", entry |-> NONE, verdict |-> NONE]

----------------------------------------------------------------------------
(* What a removal event lets an attempt do. *)

AttemptStart(s) == IF s.attempt # 0 THEN s.attempt ELSE s.created

\* merge_queue_attempt/observed bind the removal to this ship state's attempt.
removal_authorizes_rearm(r, s) ==
    /\ r # NONE
    /\ r.reason = "invalid"
    /\ s.observed # 0
    /\ s.observed >= AttemptStart(s)
    /\ r.at >= s.observed

\* Mutant: the attempt-scoped rule is skipped.
removal_ignored(r, s) == FALSE

removal_blocks_rearm(r, s) ==
    /\ r # NONE
    /\ r.at >= AttemptStart(s)
    /\ ~removal_authorizes_rearm(r, s)

owns_native_merge_authority(s) ==
    s.started # 0 \/ s.succeeded # 0 \/ s.observed # 0

queue_absence_allows_arm(r, s) ==
    /\ s.started = 0
    /\ owns_native_merge_authority(s) => removal_authorizes_rearm(r, s)

\* Head-scoped: the queue ejected this head for a reason that repeats.
internal_enqueue_verdict(r) ==
    ~(r # NONE /\ r.reason = "failed" /\ ~r.pushed)

admission_after_removal(r, s) ==
    /\ ~removal_blocks_rearm(r, s)
    /\ queue_absence_allows_arm(r, s)
    /\ internal_enqueue_verdict(r)

removal_follows_queue_observation(r, s) ==
    /\ r # NONE
    /\ r.at >= AttemptStart(s)
    /\ s.observed # 0 /\ r.at >= s.observed

SameIdentity(a, b) == a.head = b.head /\ a.base = b.base

\* The compare half of update_queue_state_if_current.
IsCurrent(s) ==
    ship # NONE /\ SameIdentity(ship, s) /\ ship.attempt = s.attempt

uncertain_mutations(b) == {e \in ledger : e.base = b}
----------------------------------------------------------------------------
AnyOf(S) == CHOOSE x \in S : TRUE

\* Heads and bases are interchangeable, so one of each is enough to begin.
Init ==
    /\ pr \in [head : {AnyOf(Heads)}, base : {AnyOf(Bases)}, merged : {FALSE},
               queued : BOOLEAN, armed : {FALSE}, removal : {NONE}]
    /\ clock = 1
    /\ ship = [Fresh(pr.head, pr.base) EXCEPT !.created = 1]
    /\ prLock = NONE /\ ctl = NONE /\ hold = FALSE
    /\ ledger = {} /\ net = {}
    /\ proc = [p \in Procs |-> Idle]
    /\ fix = NoFix
    /\ op = "idle"
    /\ used = [run |-> 0, id |-> 0, event |-> 0]
    /\ granted = IF pr.queued THEN {pr.head} ELSE {}
    /\ struck = FALSE

Step(p, pc) == proc[p].pc = pc
Spend(b) == used' = [used EXCEPT ![b] = @ + 1]
Event == used.event < MaxEvents /\ Spend("event")

\* The process returns to its caller, dropping the ship-state lock it holds.
End(p) ==
    /\ proc' = [proc EXCEPT ![p] = Idle]
    /\ prLock' = IF prLock = p THEN NONE ELSE prLock

\* merge_pr returned an error: the fallback asks GitHub whether the pull
\* request is merged and archives the ship state if so.  Supervision has no
\* such fallback.
Fail(p) ==
    /\ End(p)
    /\ ship' = IF ~proc[p].sup /\ proc[p].act = Arm /\ pr.merged
               THEN NONE ELSE ship

\* Control may be given up only by its holder.
DropControl(p) == ctl' = IF ctl = p THEN NONE ELSE ctl

github == <<pr, granted, struck>>
rest == <<hold, fix, op>>
----------------------------------------------------------------------------
(* execute_auto_merge: everything up to the guard, under the PR lock. *)

Begin(p) ==
    /\ Step(p, "idle") /\ prLock = NONE /\ ship # NONE
    /\ used.run < MaxRuns /\ Spend("run")
    /\ prLock' = p
    /\ proc' = [proc EXCEPT ![p] = [Idle EXCEPT !.pc = "validate", !.st = ship]]
    /\ UNCHANGED <<ship, ctl, ledger, net, clock, github, rest>>

\* validate_live_pr_before_merge.  Drift ends the run, after an attempt to
\* revoke native authority the ship state owns, which looks at the head again.
Validate(p) ==
    /\ Step(p, "validate")
    /\ LET st == proc[p].st
           drifted == pr.head # st.head \/ pr.base # st.base
       IN  \/ /\ drifted /\ ~owns_native_merge_authority(st)
              /\ End(p)
           \/ /\ drifted /\ owns_native_merge_authority(st)
              /\ proc' = [proc EXCEPT ![p].pc = "revoke", ![p].base = pr.base]
              /\ UNCHANGED prLock
           \/ /\ ~drifted
              /\ proc' = [proc EXCEPT ![p].pc = "admit"]
              /\ UNCHANGED prLock
    /\ UNCHANGED <<ship, ctl, ledger, net, clock, used, github, rest>>

\* queue_admission's AlreadyQueued and AutoMergePending: adopt what is there.
record_observed_queue_adoption(s) ==
    [s EXCEPT !.attempt = IF @ = 0 THEN Now ELSE @,
              !.observed = IF @ = 0 THEN Now ELSE @, !.started = 0]

record_pending_auto_merge(s) ==
    [s EXCEPT !.attempt = IF @ = 0 THEN Now ELSE @, !.started = 0]

Adopt(p, s) ==
    /\ ship' = s
    /\ prLock' = NONE
    /\ proc' = [proc EXCEPT ![p] = [Idle EXCEPT !.pc = "enqueued", !.st = s]]

\* queue_admission: one read of the queue, the removal and the timeline.
Admit(p) ==
    /\ Step(p, "admit")
    /\ clock' = Now
    /\ LET st == proc[p].st
           drifted == pr.head # st.head \/ pr.base # st.base
           foreign == pr.armed /\ st.succeeded = 0
           absent == ~drifted /\ ~pr.merged /\ ~pr.queued
           may == admission_after_removal(pr.removal, st)
       IN  \/ /\ ~drifted /\ pr.merged
              /\ End(p) /\ ship' = NONE
           \/ /\ ~drifted /\ ~pr.merged /\ pr.queued
              /\ Adopt(p, record_observed_queue_adoption(st))
           \/ /\ absent /\ pr.armed /\ ~foreign
              /\ Adopt(p, record_pending_auto_merge(st))
           \/ /\ absent /\ ~pr.armed /\ may
              /\ proc' = [proc EXCEPT ![p].pc = "acquire", ![p].path = "admit",
                            ![p].stamp = Now, ![p].base = st.base,
                            ![p].dead = struck]
              /\ UNCHANGED <<ship, prLock>>
           \/ /\ drifted \/ (absent /\ IF pr.armed THEN foreign ELSE ~may)
              /\ Fail(p)
    /\ UNCHANGED <<ctl, ledger, net, used, github, rest>>

\* require_head_approval or ensure_unstacked refuses.
Unapproved(p) ==
    /\ Step(p, "acquire") /\ proc[p].act = Arm
    /\ Fail(p)
    /\ UNCHANGED <<ctl, ledger, net, clock, used, github, rest>>
----------------------------------------------------------------------------
(* MergeQueueMutationGuard. *)

\* Mutant: unresolved entries do not refuse the guard.
GuardUnfenced(b) == ctl = NONE /\ ~hold

GuardFree(b) == ctl = NONE /\ ~hold /\ uncertain_mutations(b) = {}

\* acquire_with_control_lock: the `started' record precedes every request.
Acquire(p) ==
    /\ Step(p, "acquire") /\ GuardFree(proc[p].base)
    /\ used.id < MaxId /\ Spend("id")
    /\ ctl' = p
    /\ clock' = Now
    /\ ledger' = ledger \cup
         {[id |-> used.id + 1, act |-> proc[p].act, head |-> proc[p].st.head,
           base |-> proc[p].base, at |-> Now]}
    /\ proc' = [proc EXCEPT ![p].id = used.id + 1,
                  ![p].pc = IF proc[p].act = Arm THEN "mark" ELSE "send"]
    /\ UNCHANGED <<ship, prLock, net, github, rest>>

\* Mutant: the control lock is waited for.
RefuseBlocking(p) ==
    /\ Step(p, "acquire") /\ ctl = NONE
    /\ hold \/ uncertain_mutations(proc[p].base) # {} \/ used.id >= MaxId
    /\ Fail(p)
    /\ UNCHANGED <<ctl, ledger, net, clock, used, github, rest>>

\* The guard is taken without blocking, so a busy lock, a hold or an
\* unresolved entry refuses the mutation.
Refuse(p) ==
    /\ Step(p, "acquire") /\ (~GuardFree(proc[p].base) \/ used.id >= MaxId)
    /\ Fail(p)
    /\ UNCHANGED <<ctl, ledger, net, clock, used, github, rest>>

\* The guard is dropped: its entry stays uncertain and control is released.
DropGuard(p) == DropControl(p) /\ Fail(p) /\ UNCHANGED ledger

\* The guard's finish writes a definitive outcome.
Finish(p) == ledger' = {e \in ledger : e.id # proc[p].id}

\* The pre-mutation marker.  merge_pr owns the PR lock and saves its copy;
\* supervision waits for the lock and compares first
\* (mark_queue_enqueue_started).
Mark(p) ==
    /\ Step(p, "mark")
    /\ clock' = Now
    /\ LET st == proc[p].st
           marked == IF proc[p].sup
                     THEN [ship EXCEPT !.started = Now]
                     ELSE [st EXCEPT !.attempt = proc[p].stamp, !.observed = 0,
                             !.succeeded = 0, !.started = proc[p].stamp]
       IN  \/ /\ proc[p].sup => prLock = NONE /\ IsCurrent(st)
              /\ ship' = marked
              /\ proc' = [proc EXCEPT ![p].st = marked, ![p].pc = "send"]
              /\ UNCHANGED <<prLock, ctl, ledger>>
           \/ /\ proc[p].sup /\ prLock = NONE /\ ~IsCurrent(st)
              /\ Finish(p) /\ DropControl(p) /\ Fail(p)
    /\ UNCHANGED <<net, used, github, rest>>

\* `gh' is started: from here the request lives outside the process.
Send(p) ==
    /\ Step(p, "send")
    /\ net' = net \cup
         {[id |-> proc[p].id, act |-> proc[p].act, head |-> proc[p].st.head,
           base |-> proc[p].base, path |-> proc[p].path,
           dead |-> proc[p].dead, reply |-> "none"]}
    /\ proc' = [proc EXCEPT ![p].pc = "wait"]
    /\ UNCHANGED <<ship, prLock, ctl, ledger, clock, used, github, rest>>

\* gate_landing refuses the arm before anything is sent.
GateRefuses(p) ==
    /\ Step(p, "send") /\ proc[p].act = Arm
    /\ proc' = [proc EXCEPT ![p].pc = "gated"]
    /\ UNCHANGED <<ship, prLock, ctl, ledger, net, clock, used, github, rest>>

Mine(p) == CHOOSE r \in net : r.id = proc[p].id

Answered(p) ==
    /\ Step(p, "wait") /\ Mine(p).reply # "none"
    /\ net' = net \ {Mine(p)}
    /\ proc' = [proc EXCEPT ![p].pc =
                  IF Mine(p).reply = "accepted" THEN "won" ELSE "refused"]
    /\ UNCHANGED <<ship, prLock, ctl, ledger, clock, used, github, rest>>

\* A transport failure or an unclassified error.  The request may still be
\* on its way.
Uncertain(p) ==
    /\ Step(p, "wait") /\ Event
    /\ net' = IF Mine(p).reply = "none" THEN net ELSE net \ {Mine(p)}
    /\ DropGuard(p)
    /\ UNCHANGED <<clock, github, rest>>
----------------------------------------------------------------------------
(* The answer is persisted in the ship state before the audit is closed. *)

\* arm accepted: merge_pr's save, or finish_queue_enqueue(true).
Accepted(p, s) ==
    IF proc[p].sup
    THEN [s EXCEPT !.started = 0, !.attempt = Now, !.observed = 0, !.succeeded = Now]
    ELSE [s EXCEPT !.started = 0, !.succeeded = Now]

\* arm refused: merge_pr's save, or finish_queue_enqueue(false).
Refused(p, s) ==
    IF proc[p].sup
    THEN [s EXCEPT !.started = 0]
    ELSE [s EXCEPT !.started = 0, !.succeeded = 0]

\* Without a current ship state the save fails and the guard is dropped.
Save(p) ==
    /\ proc[p].pc \in {"won", "refused", "gated"} /\ proc[p].act = Arm
    /\ proc[p].sup => prLock = NONE
    /\ clock' = Now
    /\ LET st == proc[p].st
           won == proc[p].pc = "won"
           saved == IF won THEN Accepted(p, IF proc[p].sup THEN ship ELSE st)
                           ELSE Refused(p, IF proc[p].sup THEN ship ELSE st)
       IN  \/ /\ proc[p].sup => IsCurrent(st)
              /\ ship' = saved
              /\ proc' = [proc EXCEPT ![p].st = saved,
                            ![p].pc = CASE won -> "close"
                                        [] Step(p, "refused") -> "close_refused"
                                        [] Step(p, "gated") -> "close_gated"]
              /\ UNCHANGED <<prLock, ctl, ledger>>
           \/ /\ proc[p].sup /\ ~IsCurrent(st)
              /\ DropGuard(p)
    /\ UNCHANGED <<net, used, github, rest>>

\* finish("success"): merge_pr returns Enqueued, supervision polls on.
Close(p) ==
    /\ Step(p, "close")
    /\ Finish(p) /\ DropControl(p)
    /\ prLock' = IF prLock = p THEN NONE ELSE prLock
    /\ proc' = [proc EXCEPT ![p] = [Idle EXCEPT !.st = proc[p].st, !.sup = proc[p].sup,
                  !.pc = IF proc[p].sup THEN "poll" ELSE "enqueued"]]
    /\ UNCHANGED <<ship, net, clock, used, github, rest>>

\* finish("rejected"): pending requirements let the caller wait for the
\* queue, except after an eviction; anything else is an error.
CloseRefused(p) ==
    /\ proc[p].pc \in {"close_refused", "close_gated"}
    /\ Finish(p) /\ DropControl(p)
    /\ \/ /\ Step(p, "close_refused") /\ proc[p].path # "evicted"
          /\ prLock' = IF prLock = p THEN NONE ELSE prLock
          /\ proc' = [proc EXCEPT ![p] = [Idle EXCEPT !.st = proc[p].st,
                        !.sup = proc[p].sup,
                        !.pc = IF proc[p].sup THEN "poll" ELSE "enqueued"]]
          /\ UNCHANGED ship
       \/ Fail(p)
    /\ UNCHANGED <<net, clock, used, github, rest>>
----------------------------------------------------------------------------
(* Revocation of native authority after a retarget. *)

\* revoke_drifted_native_merge: read, then disable before dequeue.  Authority
\* of another head is left alone.
Revoke(p) ==
    /\ Step(p, "revoke")
    /\ LET todo == {a \in Revocations :
                      pr.head = proc[p].st.head
                      /\ IF a = "disable" THEN pr.armed ELSE pr.queued}
       IN  IF todo = {}
           THEN End(p)
           ELSE /\ proc' = [proc EXCEPT ![p].pc = "acquire", ![p].todo = todo,
                   ![p].act = IF "disable" \in todo THEN "disable" ELSE "dequeue"]
                /\ UNCHANGED prLock
    /\ UNCHANGED <<ship, ctl, ledger, net, clock, used, github, rest>>

\* run_queue_mutation's finish.  A refusal ends the revocation.
CloseRevocation(p) ==
    /\ proc[p].pc \in {"won", "refused"} /\ proc[p].act # Arm
    /\ Finish(p) /\ DropControl(p)
    /\ LET left == proc[p].todo \ {proc[p].act}
       IN  IF proc[p].pc = "won" /\ left # {}
           THEN /\ proc' = [proc EXCEPT ![p].pc = "acquire", ![p].todo = left,
                              ![p].act = "dequeue"]
                /\ UNCHANGED prLock
           ELSE End(p)
    /\ UNCHANGED <<ship, net, clock, used, github, rest>>
----------------------------------------------------------------------------
(* supervise_merge_queue: `ship' waits for the queue without the PR lock.  *)

\* The one-shot `auto-merge' returns; `ship' re-reads the ship state.
Supervise(p) ==
    /\ Step(p, "enqueued")
    /\ \/ End(p)
       \/ /\ ship # NONE /\ SameIdentity(ship, proc[p].st)
          /\ proc' = [proc EXCEPT ![p] = [Idle EXCEPT !.pc = "poll", !.st = ship,
                        !.sup = TRUE, !.seen = ship.observed # 0]]
          /\ UNCHANGED prLock
    /\ UNCHANGED <<ship, ctl, ledger, net, clock, used, github, rest>>

Polls(p) == Step(p, "poll") /\ ship # NONE /\ SameIdentity(ship, proc[p].st)
OnTarget(p) == pr.head = proc[p].st.head /\ pr.base = proc[p].st.base
Absent(p) == Polls(p) /\ OnTarget(p) /\ ~pr.merged /\ ~pr.queued

\* The validation was replaced, the head moved on (its authority belongs to
\* the newer head), or the wait timed out or spent its error budget.
PollStops(p) ==
    /\ Step(p, "poll")
    /\ End(p)
    /\ UNCHANGED <<ship, ctl, ledger, net, clock, used, github, rest>>

\* A retarget: revoke under the PR lock, if the ship state is still ours.
PollRetargeted(p) ==
    /\ Polls(p) /\ pr.head = proc[p].st.head /\ pr.base # proc[p].st.base
    /\ prLock = NONE
    /\ IF IsCurrent(proc[p].st)
       THEN /\ proc' = [proc EXCEPT ![p].pc = "revoke", ![p].base = pr.base]
            /\ prLock' = p
       ELSE End(p)
    /\ UNCHANGED <<ship, ctl, ledger, net, clock, used, github, rest>>

\* archive_queue_state_if_current.
PollMerged(p) ==
    /\ Polls(p) /\ OnTarget(p) /\ pr.merged /\ prLock = NONE
    /\ ship' = IF IsCurrent(proc[p].st) THEN NONE ELSE ship
    /\ End(p)
    /\ UNCHANGED <<ctl, ledger, net, clock, used, github, rest>>

\* Membership is remembered, durably the first time of an attempt.
PollQueued(p) ==
    /\ Polls(p) /\ OnTarget(p) /\ ~pr.merged /\ pr.queued
    /\ \/ /\ proc[p].st.observed # 0 /\ ~proc[p].seen
          /\ proc' = [proc EXCEPT ![p].seen = TRUE]
          /\ UNCHANGED <<ship, prLock, clock>>
       \/ /\ proc[p].st.observed = 0 /\ prLock = NONE /\ IsCurrent(proc[p].st)
          /\ clock' = Now
          /\ ship' = [ship EXCEPT !.observed = Now]
          /\ proc' = [proc EXCEPT ![p].seen = TRUE, ![p].st = ship']
          /\ UNCHANGED prLock
       \/ /\ proc[p].st.observed = 0 /\ prLock = NONE /\ ~IsCurrent(proc[p].st)
          /\ End(p)
          /\ UNCHANGED <<ship, clock>>
    /\ UNCHANGED <<ctl, ledger, net, used, github, rest>>

Rearm(p, path) ==
    /\ proc' = [proc EXCEPT ![p].pc = "acquire", ![p].path = path,
                  ![p].base = proc[p].st.base, ![p].dead = struck]
    /\ UNCHANGED prLock

\* Seen in the queue and gone: only invalid_merge_commit is re-armed.
PollEvicted(p) ==
    /\ Absent(p) /\ proc[p].seen
    /\ LET again == /\ removal_follows_queue_observation(pr.removal, proc[p].st)
                    /\ pr.removal.reason = "invalid"
       IN  IF again THEN Rearm(p, "evicted") ELSE End(p)
    /\ UNCHANGED <<ship, ctl, ledger, net, clock, used, github, rest>>

\* Never seen: wait for our own arm, refuse an unowned or unfinished one,
\* arm otherwise.
PollAbsent(p) ==
    /\ Absent(p) /\ ~proc[p].seen
    /\ LET st == proc[p].st
       IN  \/ pr.armed /\ st.succeeded = 0 /\ End(p)
           \/ ~pr.armed /\ (st.succeeded # 0 \/ st.started # 0) /\ End(p)
           \/ ~pr.armed /\ st.succeeded = 0 /\ st.started = 0 /\ Rearm(p, "absent")
    /\ UNCHANGED <<ship, ctl, ledger, net, clock, used, github, rest>>

\* A hard termination: the kernel drops both locks, `gh' runs on.
Crash(p) ==
    /\ ~Step(p, "idle") /\ Event
    /\ End(p) /\ DropControl(p)
    /\ net' = {r \in net : r.id = proc[p].id => r.reply = "none"}
    /\ UNCHANGED <<ship, ledger, clock, github, rest>>
----------------------------------------------------------------------------
(* Settlement of uncertain entries: the steward's pass (non-blocking) for  *)
(* admissions, the operator's resolve (blocking) for any entry.            *)

Settlers == {"steward", "operator"}

\* Mutant: absence decides nothing.
judge_waiting(e) ==
    IF pr.merged THEN "accepted"
    ELSE IF (pr.queued \/ pr.armed) /\ pr.head = e.head
         THEN "accepted" ELSE "unresolved"

\* judge: what a read of the pull request says about a recorded arm.
judge(e) ==
    IF pr.merged THEN "accepted"
    ELSE IF pr.queued \/ pr.armed
         THEN IF pr.head = e.head THEN "accepted" ELSE "unresolved"
         ELSE "rejected"

FixAcquire(a) ==
    /\ fix.pc = "idle" /\ ctl = NONE
    /\ \E e \in ledger :
         /\ a = "steward" => e.act = Arm
         /\ fix' = [NoFix EXCEPT !.pc = "judge", !.entry = e]
    /\ ctl' = a
    /\ UNCHANGED <<ship, prLock, hold, ledger, net, proc, op, clock, used, github>>

\* An operator has checked GitHub; what it says of a revocation is not kept.
FixJudge ==
    /\ fix.pc = "judge"
    /\ LET verdict == IF fix.entry.act = Arm THEN judge(fix.entry) ELSE "rejected"
       IN  IF verdict = "unresolved"
           THEN fix' = NoFix /\ ctl' = NONE
           ELSE fix' = [fix EXCEPT !.pc = "apply", !.verdict = verdict] /\ UNCHANGED ctl
    /\ UNCHANGED <<ship, prLock, hold, ledger, net, proc, op, clock, used, github>>

\* The ship-state half of apply_resolution, bound to the recorded identity.
Resolved(e, verdict, s) ==
    IF verdict = "accepted"
    THEN [s EXCEPT !.started = 0, !.attempt = e.at,
                   !.succeeded = IF @ = 0 THEN Now ELSE @]
    ELSE [s EXCEPT !.started = 0, !.succeeded = 0]

FixApply ==
    /\ fix.pc = "apply" /\ prLock = NONE
    /\ LET e == fix.entry
       IN  ship' = IF ship # NONE /\ e.act = Arm /\ SameIdentity(ship, e)
                   THEN Resolved(e, fix.verdict, ship) ELSE ship
    /\ clock' = Now
    /\ fix' = [fix EXCEPT !.pc = "append"]
    /\ UNCHANGED <<prLock, ctl, hold, ledger, net, proc, op, used, github>>

\* The resolved_<outcome> record, then the lock is released.
FixAppend ==
    /\ fix.pc = "append"
    /\ ledger' = {e \in ledger : e.id # fix.entry.id}
    /\ fix' = NoFix /\ ctl' = NONE
    /\ UNCHANGED <<ship, prLock, hold, net, proc, op, clock, used, github>>

\* The read fails, or the settler is terminated.
FixAbandon ==
    /\ fix.pc # "idle" /\ Event
    /\ fix' = NoFix /\ ctl' = NONE
    /\ UNCHANGED <<ship, prLock, hold, ledger, net, proc, op, clock, github>>

\* `merge-queue hold' and `resume' wait for the control lock.
AskHold ==
    /\ op = "idle" /\ Event
    /\ op' = "waiting"
    /\ UNCHANGED <<ship, prLock, ctl, hold, ledger, net, proc, fix, clock, github>>

Hold ==
    /\ op = "waiting" /\ ctl = NONE
    /\ hold' = TRUE /\ op' = "idle"
    /\ UNCHANGED <<ship, prLock, ctl, ledger, net, proc, fix, clock, used, github>>

Resume ==
    /\ hold /\ op = "idle" /\ ctl = NONE
    /\ hold' = FALSE
    /\ UNCHANGED <<ship, prLock, ctl, ledger, net, proc, fix, op, clock, used, github>>
----------------------------------------------------------------------------
(* GitHub, its other users, and the ship that validates a new head. *)

shipyard == <<ship, prLock, ctl, hold, ledger, proc, fix, op>>

Expects(r) == \E p \in Procs : proc[p].id = r.id

\* A request reaches GitHub.  An arm takes effect only on its exact head.
Land(r) ==
    /\ r.reply = "none"
    /\ LET done(answer) == net' = (net \ {r}) \cup
                {x \in {[r EXCEPT !.reply = answer]} : Expects(r)}
       IN  \/ /\ r.act = Arm /\ pr.head = r.head /\ ~pr.merged
              /\ pr' = [pr EXCEPT !.armed = TRUE]
              /\ granted' = granted \cup {pr.head}
              /\ struck' = FALSE
              /\ done("accepted") /\ UNCHANGED clock
           \/ /\ r.act = "disable"
              /\ pr' = [pr EXCEPT !.armed = FALSE]
              /\ done("accepted") /\ UNCHANGED <<granted, struck, clock>>
           \/ /\ r.act = "dequeue" /\ pr.queued
              /\ pr' = [pr EXCEPT !.queued = FALSE,
                          !.removal = [reason |-> "manual", at |-> Now, pushed |-> FALSE]]
              /\ clock' = Now
              /\ done("accepted") /\ UNCHANGED <<granted, struck>>
           \/ /\ done("rejected") /\ UNCHANGED <<github, clock>>
    /\ UNCHANGED <<shipyard, used>>

\* Requirements are met: an armed pull request enters the queue.
Promote ==
    /\ pr.armed /\ ~pr.queued /\ ~pr.merged
    /\ pr' = [pr EXCEPT !.queued = TRUE]
    /\ struck' = FALSE
    /\ granted' = granted \cup {pr.head}
    /\ UNCHANGED <<shipyard, net, clock, used>>

MergeGroup ==
    /\ pr.queued
    /\ pr' = [pr EXCEPT !.merged = TRUE, !.queued = FALSE, !.armed = FALSE]
    /\ UNCHANGED <<shipyard, net, clock, used, granted, struck>>

\* The queue, or a person, removes the pull request.
Evict(reason) ==
    /\ pr.queued /\ Event
    /\ pr' = [pr EXCEPT !.queued = FALSE, !.armed = FALSE,
                !.removal = [reason |-> reason, at |-> Now, pushed |-> FALSE]]
    /\ clock' = Now
    /\ struck' = /\ reason \in Terminal
                 /\ ship # NONE /\ ship.head = pr.head /\ ship.base = pr.base
                 /\ ship.attempt # 0
                 /\ \A p \in Procs : ~(proc[p].sup /\ proc[p].pc \in {"wait", "won"})
    /\ UNCHANGED <<shipyard, net, granted>>

\* Another tool or a person enqueues, or turns auto-merge off.
Foreign ==
    /\ ~pr.merged /\ ~pr.queued /\ Event
    /\ \/ /\ pr' = [pr EXCEPT !.queued = TRUE]
          /\ granted' = granted \cup {pr.head} /\ struck' = FALSE
       \/ /\ pr.armed /\ pr' = [pr EXCEPT !.armed = FALSE]
          /\ UNCHANGED <<granted, struck>>
    /\ UNCHANGED <<shipyard, net, clock>>

\* A push leaves the queue; auto-merge may stay on.
Push(h) ==
    /\ ~pr.merged /\ h # pr.head /\ Event
    /\ \E armed \in {FALSE, pr.armed} :
         /\ pr' = [pr EXCEPT !.head = h, !.queued = FALSE, !.armed = armed,
                     !.removal = IF @ = NONE THEN @ ELSE [@ EXCEPT !.pushed = TRUE]]
         /\ granted' = IF armed THEN granted \cup {h} ELSE granted
    /\ struck' = FALSE
    /\ UNCHANGED <<shipyard, net, clock>>

Retarget(b) ==
    /\ ~pr.merged /\ b # pr.base /\ Event
    /\ \E queued \in {FALSE, pr.queued} :
         pr' = [pr EXCEPT !.base = b, !.queued = queued]
    /\ UNCHANGED <<shipyard, net, clock, granted, struck>>

\* A ship validates the head and base the pull request now has.
Ship ==
    /\ prLock = NONE /\ ~pr.merged
    /\ ship = NONE \/ ~SameIdentity(ship, pr)
    /\ ship' = IF ship = NONE THEN Fresh(pr.head, pr.base)
               ELSE [Fresh(pr.head, pr.base) EXCEPT !.created = ship.created, !.attempt = Now]
    /\ clock' = Now
    /\ struck' = FALSE
    /\ UNCHANGED <<prLock, ctl, hold, ledger, net, proc, fix, op, used, pr, granted>>
----------------------------------------------------------------------------
AutoMerge(p) ==
    \/ Begin(p) \/ Validate(p) \/ Admit(p) \/ Unapproved(p)
    \/ Acquire(p) \/ Refuse(p) \/ Mark(p) \/ Send(p) \/ GateRefuses(p)
    \/ Answered(p) \/ Uncertain(p) \/ Save(p) \/ Close(p) \/ CloseRefused(p)
    \/ Revoke(p) \/ CloseRevocation(p)
    \/ Supervise(p) \/ PollStops(p) \/ PollRetargeted(p) \/ PollMerged(p)
    \/ PollQueued(p) \/ PollEvicted(p) \/ PollAbsent(p)

Settle == (\E a \in Settlers : FixAcquire(a)) \/ FixJudge \/ FixApply \/ FixAppend

GitHub ==
    \/ \E r \in net : Land(r)
    \/ Promote \/ MergeGroup \/ Foreign
    \/ \E reason \in Terminal \cup {"invalid"} : Evict(reason)
    \/ \E h \in Heads : Push(h)
    \/ \E b \in Bases : Retarget(b)

Next ==
    \/ \E p \in Procs : AutoMerge(p) \/ Crash(p)
    \/ Settle \/ FixAbandon
    \/ AskHold \/ Hold \/ Resume
    \/ GitHub \/ Ship

Spec == Init /\ [][Next]_vars
----------------------------------------------------------------------------
Times == 0 .. clock
ShipStates ==
    [head : Heads, base : Bases, created : Times, attempt : Times,
     started : Times, succeeded : Times, observed : Times]
Entries ==
    [id : 1 .. MaxId, act : Revocations \cup {Arm}, head : Heads, base : Bases, at : Times]
Paths == {"none", "admit", "evicted", "absent"}

\* Every variable has its type; no stamp in the ship state, in a process's
\* copy of it, in the ledger or in a removal lies ahead of the clock.
TypeOK ==
    /\ pr \in [head : Heads, base : Bases, merged : BOOLEAN, queued : BOOLEAN,
               armed : BOOLEAN,
               removal : {NONE} \cup [reason : Terminal \cup {"invalid"}, at : Times,
                                      pushed : BOOLEAN]]
    /\ ship \in ShipStates \cup {NONE}
    /\ prLock \in Procs \cup {NONE}
    /\ ctl \in Procs \cup Settlers \cup {NONE}
    /\ hold \in BOOLEAN /\ op \in {"idle", "waiting"} /\ struck \in BOOLEAN
    /\ ledger \subseteq Entries
    /\ \A r \in net : /\ r.id \in 1 .. MaxId /\ r.act \in Revocations \cup {Arm}
                      /\ r.head \in Heads /\ r.base \in Bases /\ r.path \in Paths
                      /\ r.reply \in {"none", "accepted", "rejected"}
                      /\ r.dead \in BOOLEAN
    /\ fix.entry \in Entries \cup {NONE}
    /\ clock \in Nat /\ granted \subseteq Heads
    /\ \A p \in Procs : /\ proc[p].st \in ShipStates \cup {NONE}
                        /\ proc[p].id \in 0 .. MaxId
                        /\ proc[p].todo \subseteq Revocations

Guarded == {"mark", "send", "wait", "won", "refused", "gated", "close",
            "close_refused", "close_gated"}

\* A hold that returned has waited out every admitted writer: while HOLD
\* exists no process is between its guard's acquire and its finish.
HoldQuiet == hold => \A p \in Procs : proc[p].pc \notin Guarded

\* The write-ahead ledger fences retries: two unsettled requests for the same
\* base are never on their way to GitHub, whichever process was terminated or
\* lost its reply in between.
RetryFenced ==
    \A r1, r2 \in net :
        /\ \E e \in ledger : e.id = r1.id
        /\ \E e \in ledger : e.id = r2.id
        /\ r1.base = r2.base
        => r1 = r2

\* A pre-mutation marker left in the ship state always has its uncertain
\* ledger entry, of the same head and base: otherwise nothing would ever
\* settle it and queue_absence_allows_arm would refuse this head for good.
MarkerSettled ==
    ship # NONE /\ ship.started # 0 =>
        \E e \in ledger : e.act = Arm /\ SameIdentity(e, ship)

\* Exact-head proof is real: a ship state that claims a successful enqueue
\* names a head GitHub did arm or queue, across crashes, replaced ship states
\* and settlement.  (A merge of any head settles an entry as accepted.)
ProofReal ==
    ship # NONE /\ ship.succeeded # 0 => ship.head \in granted \/ pr.merged

\* A head that the queue removed for a terminal reason during this ship
\* state's attempt is not armed again, neither by a later admission, after a
\* settlement cleared its markers or not, nor after an observed eviction.
\* (finish_queue_enqueue moves the attempt's start to the moment it records
\* the answer, so a removal before that record is not counted.)
TerminalStays ==
    \A r \in net : r.act = Arm /\ r.path \in {"admit", "evicted"} => ~r.dead

\* Ledger, ship state, HOLD and the queue agree: every marker has the entry that
\* will settle it, every proof an enqueue that happened, HOLD no writer, and every
\* terminal removal is remembered, whatever was lost or terminated.
LedgerTrue == TypeOK /\ MarkerSettled /\ ProofReal /\ HoldQuiet /\ TerminalStays

ProcStep(p) ==
    \/ Validate(p) \/ Admit(p) \/ Acquire(p) \/ Refuse(p) \/ Mark(p) \/ Send(p)
    \/ Answered(p) \/ Save(p) \/ Close(p) \/ CloseRefused(p)
    \/ Revoke(p) \/ CloseRevocation(p)

\* A process that was started runs on, unless it is terminated; the steward keeps
\* passing and, like the waiting operator, gets the control lock if that is free
\* again and again.  That `gh' comes back is assumed of GitHub and the network:
\* arm_native_queue waits for its child without a timeout, under the control lock.
Fairness ==
    /\ \A p \in Procs : WF_vars(ProcStep(p))
    /\ WF_vars(\E r \in net : Land(r))
    /\ SF_vars(FixAcquire("steward"))
    /\ WF_vars(FixJudge) /\ WF_vars(FixApply) /\ WF_vars(FixAppend)
    /\ SF_vars(Hold)

LiveSpec == Spec /\ Fairness

\* `merge-queue hold' returns: no process holds the control lock for ever,
\* although mutations and settlements nest it with the ship-state lock in
\* opposite orders.
HoldReturns == op = "waiting" ~> op = "idle"

\* Uncertain enqueues settle themselves: an uncertain arm entry is resolved by
\* the steward's passes, unless another head holds the queue or auto-merge.
EntrySettles ==
    \A i \in 1 .. MaxId :
        (\E e \in ledger : e.id = i /\ e.act = Arm)
            ~> \/ ~\E e \in ledger : e.id = i
               \/ \E e \in ledger : e.id = i /\ pr.head # e.head /\ (pr.queued \/ pr.armed)
=============================================================================
