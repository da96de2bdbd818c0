---------------------------- MODULE WriterDomain -----------------------------
(***************************************************************************)
(* The writer domain (writer_domain_lease.rs): production threads hold a   *)
(* shared lock around each mutation of protected files, a sandbox audit    *)
(* holds it exclusively, and both pass a turnstile, which an audit keeps.  *)
(*                                                                         *)
(* A thread that enters again while it is inside only counts.  The update  *)
(* command hands its mutation over to a child process, the guardian, which *)
(* enters by itself.  Locks are polled until a deadline; the kernel        *)
(* releases those of a process that dies.                                  *)
(***************************************************************************)
EXTENDS Integers, FiniteSets

CONSTANTS
  Threads,    \* production threads
  GuardOf,    \* the guardian of a thread that hands its mutation over
  Audits,     \* sandbox audits
  MaxDepth,   \* bound: nested acquisitions
  Impatient   \* may a wait for a lock reach its deadline?

None == "none"

DomainAssumption ==
  /\ DOMAIN GuardOf \subseteq Threads /\ MaxDepth \in Nat \ {0} /\ Impatient \in BOOLEAN
  /\ None \notin Threads \cup Audits \cup {GuardOf[t] : t \in DOMAIN GuardOf}

Guards  == {GuardOf[t] : t \in DOMAIN GuardOf}
Writers == Threads \cup Guards

VARIABLES
  turn,    \* holder of the turnstile
  shared,  \* holders of the domain lock in shared mode
  excl,    \* holder of the domain lock in exclusive mode
  pc,      \* what each thread, guardian and audit does
  depth    \* nested leases of each writer

vars == <<turn, shared, excl, pc, depth>>

Goes(p, at) == pc' = [pc EXCEPT ![p] = at]

-----------------------------------------------------------------------------
(* Writers: acquire_thread_lease_at, acquire_at and Drop. *)

Want(t) ==
  /\ t \in Threads /\ pc[t] = "out" /\ Goes(t, "turn")
  /\ UNCHANGED <<turn, shared, excl, depth>>

\* The turnstile, exclusively.
TakeTurn(w) ==
  /\ pc[w] = "turn" /\ turn = None
  /\ turn' = w /\ Goes(w, "domain")
  /\ UNCHANGED <<shared, excl, depth>>

\* Mutant: writers do not pass the turnstile.
TakeSharedAnyway(w) ==
  /\ pc[w] \in {"turn", "domain"} /\ excl = None
  /\ shared' = shared \cup {w} /\ depth' = [depth EXCEPT ![w] = 1] /\ Goes(w, "in")
  /\ turn' = IF turn = w THEN None ELSE turn
  /\ UNCHANGED excl

\* The domain lock, shared; the turnstile is released.
TakeShared(w) ==
  /\ pc[w] = "domain" /\ excl = None
  /\ shared' = shared \cup {w} /\ depth' = [depth EXCEPT ![w] = 1] /\ Goes(w, "in")
  /\ turn' = None
  /\ UNCHANGED excl

\* The deadline passes with the lock still taken: sandbox_writer_domain_overlap.
TimeOut(w) ==
  /\ Impatient
  /\ \/ pc[w] = "turn" /\ turn # None
     \/ pc[w] = "domain" /\ excl # None
  /\ Goes(w, "failed")
  /\ turn' = IF turn = w THEN None ELSE turn
  /\ UNCHANGED <<shared, excl, depth>>

\* A nested acquisition is counted.
Nest(w) ==
  /\ pc[w] = "in" /\ depth[w] < MaxDepth
  /\ depth' = [depth EXCEPT ![w] = @ + 1]
  /\ UNCHANGED <<turn, shared, excl, pc>>

\* Mutant: the first drop releases the lock, whatever the depth.
LeaveInner(w) ==
  /\ pc[w] = "in"
  /\ depth' = [depth EXCEPT ![w] = @ - 1]
  /\ shared' = shared \ {w}
  /\ IF depth[w] = 1 THEN Goes(w, "out") ELSE UNCHANGED pc
  /\ UNCHANGED <<turn, excl>>

\* The last drop releases the lock.
Leave(w) ==
  /\ pc[w] = "in"
  /\ depth' = [depth EXCEPT ![w] = @ - 1]
  /\ IF depth[w] = 1 THEN shared' = shared \ {w} /\ Goes(w, "out") ELSE UNCHANGED <<shared, pc>>
  /\ UNCHANGED <<turn, excl>>

\* The error is propagated; the command may be run again.
GiveUp(p) ==
  /\ pc[p] = "failed" /\ p \notin Guards
  /\ Goes(p, "out")
  /\ UNCHANGED <<turn, shared, excl, depth>>

\* The update command drops its lease before it starts the guardian.
HandOver(t) ==
  /\ t \in DOMAIN GuardOf /\ pc[t] = "in" /\ depth[t] = 1 /\ pc[GuardOf[t]] = "out"
  /\ shared' = shared \ {t} /\ depth' = [depth EXCEPT ![t] = 0]
  /\ pc' = [pc EXCEPT ![t] = "waiting", ![GuardOf[t]] = "turn"]
  /\ UNCHANGED <<turn, excl>>

\* The guardian has exited, with or without success.
Reap(t) ==
  /\ pc[t] = "waiting" /\ pc[GuardOf[t]] \in {"out", "failed"}
  /\ pc' = [pc EXCEPT ![t] = "out", ![GuardOf[t]] = "out"]
  /\ UNCHANGED <<turn, shared, excl, depth>>

-----------------------------------------------------------------------------
(* Audits: final_reconciliation_writer_fence of the sandbox guardian script. *)

AuditWant(a) ==
  /\ pc[a] = "out" /\ Goes(a, "turn")
  /\ UNCHANGED <<turn, shared, excl, depth>>

AuditTurn(a) ==
  /\ pc[a] = "turn" /\ turn = None
  /\ turn' = a /\ Goes(a, "domain")
  /\ UNCHANGED <<shared, excl, depth>>

\* The domain lock, exclusively; the turnstile is kept.
AuditEnter(a) ==
  /\ pc[a] = "domain" /\ shared = {} /\ excl = None
  /\ excl' = a /\ Goes(a, "auditing")
  /\ UNCHANGED <<turn, shared, depth>>

AuditTimeOut(a) ==
  /\ Impatient
  /\ \/ pc[a] = "turn" /\ turn # None
     \/ pc[a] = "domain" /\ shared # {}
  /\ Goes(a, "failed")
  /\ turn' = IF turn = a THEN None ELSE turn
  /\ UNCHANGED <<shared, excl, depth>>

AuditLeave(a) ==
  /\ pc[a] = "auditing"
  /\ excl' = None /\ turn' = None /\ Goes(a, "out")
  /\ UNCHANGED <<shared, depth>>

\* A process dies, or a guardian without a parent exits; its locks go with it.
Crash(p) ==
  /\ pc[p] # "out"
  /\ Goes(p, "out")
  /\ turn' = IF turn = p THEN None ELSE turn
  /\ excl' = IF excl = p THEN None ELSE excl
  /\ shared' = shared \ {p}
  /\ depth' = IF p \in Writers THEN [depth EXCEPT ![p] = 0] ELSE depth

-----------------------------------------------------------------------------
Init ==
  /\ turn = None /\ shared = {} /\ excl = None
  /\ pc = [p \in Writers \cup Audits |-> "out"]
  /\ depth = [w \in Writers |-> 0]

Next ==
  \/ \E w \in Writers : TakeTurn(w) \/ TakeShared(w) \/ TimeOut(w) \/ Nest(w) \/ Leave(w)
  \/ \E t \in Threads : Want(t) \/ HandOver(t) \/ Reap(t)
  \/ \E a \in Audits : \/ AuditWant(a) \/ AuditTurn(a) \/ AuditEnter(a)
                       \/ AuditTimeOut(a) \/ AuditLeave(a)
  \/ \E p \in Writers \cup Audits : GiveUp(p) \/ Crash(p)

Spec == Init /\ [][Next]_vars

\* What a process retries until it succeeds: polling meets a turnstile that is
\* free again and again, and a mutation with nested leases ends.
Retries(p) ==
  \/ p \in Writers /\ (TakeTurn(p) \/ (Leave(p) /\ depth[p] = 1))
  \/ p \in Audits /\ AuditTurn(p)

\* The rest goes on by itself; a command waits for its guardian.  Nobody need
\* enter.
GoesOn(p) ==
  \/ p \in Writers /\ (TakeShared(p) \/ Leave(p))
  \/ p \in Threads /\ Reap(p)
  \/ p \in Audits /\ (AuditEnter(p) \/ AuditLeave(p))

Fairness == \A p \in Writers \cup Audits : SF_vars(Retries(p)) /\ WF_vars(GoesOn(p))

FairSpec == Spec /\ Fairness

-----------------------------------------------------------------------------
(* Properties *)

TypeOK ==
  /\ turn \in Writers \cup Audits \cup {None} /\ excl \in Audits \cup {None}
  /\ shared \subseteq Writers
  /\ pc \in [Writers \cup Audits ->
               {"out", "turn", "domain", "in", "waiting", "auditing", "failed"}]
  /\ depth \in [Writers -> 0..MaxDepth]

\* No protected file changes between an audit's snapshot and its final
\* assertion: no writer is inside a mutation, at whatever depth.
AuditAlone == excl # None => \A w \in Writers : pc[w] # "in"

\* A mutation that has begun is not cut short by an audit: a nested
\* acquisition of a thread that is inside never fails.
MutationUncut == \A w \in Writers : pc[w] = "failed" => depth[w] = 0

\* A steady stream of short writes does not starve an audit, which needs no
\* deadline to get in (module comment of writer_domain_lease.rs).
AuditEnters == \A a \in Audits : pc[a] = "turn" ~> pc[a] # "turn" /\ pc[a] # "domain"

\* A guardian, its parent and an arriving audit do not wait for each other
\* (comment at app/update_cmd.rs on the wait cycle): writers get in too.
WriterEnters == \A w \in Writers : pc[w] = "turn" ~> pc[w] # "turn" /\ pc[w] # "domain"

\* Audits and mutations exclude each other, and neither cuts the other short.
DomainSafe == TypeOK /\ AuditAlone /\ MutationUncut

\* Nobody is starved at the turnstile, and no audit, command and guardian wait for
\* each other in a circle.
EveryoneEnters == AuditEnters /\ WriterEnters

=============================================================================
