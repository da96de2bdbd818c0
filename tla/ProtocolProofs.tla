---------------------------- MODULE ProtocolProofs ----------------------------
(***************************************************************************)
(* The protocols around the state files keep their promises: theorems of   *)
(* Protocols for any number of processes, threads, audits, repositories,   *)
(* keys, records and jobs, and any bound on updates, crashes and nesting.  *)
(*                                                                         *)
(* Each protocol has an inductive invariant of its own; a step of another  *)
(* leaves its variables alone.                                             *)
(***************************************************************************)
EXTENDS Protocols, Sequences, TLAPS, FiniteSetTheorems, NaturalsInduction, WellFoundedInduction

-----------------------------------------------------------------------------
(* Replacement of files: durable_file.rs. *)


FileTypes ==
  /\ renamed \in Seq(Procs) /\ synced \in 0 .. Len(renamed)
  /\ flushed \subseteq Procs /\ promised \subseteq Procs
  /\ filePc \in [Procs -> {"start", "flush", "rename", "sync", "done", "error", "dead"}]

\* Only flushed files are renamed to the path; who syncs the directory has
\* renamed.  What was promised is among the synced, in a directory that is on disk.
FileInv ==
  /\ FileTypes /\ torn = FALSE
  /\ \A i \in 1 .. Len(renamed) : renamed[i] \in flushed
  /\ \A p \in Procs :
       /\ filePc[p] = "rename" => p \in flushed
       /\ filePc[p] = "sync" => \E i \in 1 .. Len(renamed) : renamed[i] = p
  /\ promised # {} => dir = "durable"
  /\ \A p \in promised : \E i \in 1 .. synced : renamed[i] = p

-----------------------------------------------------------------------------
LEMMA FileInit ==
  ASSUME File!Init
  PROVE  FileInv
  BY DEF File!Init, FileInv, FileTypes

LEMMA FileStep ==
  ASSUME FileInv, [File!Next]_(File!vars)
  PROVE  FileInv'
<1>. USE DEF FileInv, FileTypes
<1>1. ASSUME NEW p \in Procs, File!Write(p) \/ File!Fail(p) PROVE FileInv'
  BY <1>1 DEF File!Write, File!Fail, File!Goes
<1>2. ASSUME NEW p \in Procs, File!Flush(p) PROVE FileInv'
  BY <1>2 DEF File!Flush, File!Goes
<1>3. ASSUME NEW p \in Procs, File!Rename(p) PROVE FileInv'
  <2>1. /\ renamed' \in Seq(Procs) /\ Len(renamed') = Len(renamed) + 1
        /\ \A i \in 1 .. Len(renamed) : renamed'[i] = renamed[i]
        /\ renamed'[Len(renamed) + 1] = p /\ p \in flushed /\ Len(renamed) \in Nat
    BY <1>3 DEF File!Rename
  <2>2. UNCHANGED <<dir, synced, flushed, promised>> /\ torn' = FALSE /\ filePc' = [filePc EXCEPT ![p] = "sync"]
    BY <1>3 DEF File!Rename, File!Goes
  <2>. QED  BY <2>1, <2>2
<1>4. ASSUME NEW p \in Procs, File!SyncDirectory(p) PROVE FileInv'
  <2>1. /\ UNCHANGED <<dir, renamed, flushed, torn>>
        /\ synced' = Len(renamed) /\ Len(renamed) \in Nat
        /\ filePc' = [filePc EXCEPT ![p] = "done"] /\ filePc[p] = "sync"
        /\ promised' = IF dir = "durable" THEN promised \cup {p} ELSE promised
    BY <1>4 DEF File!SyncDirectory, File!Reports, File!Goes
  <2>. QED  BY <2>1
<1>5. ASSUME File!PowerLoss PROVE FileInv'
  <2>0. /\ filePc' = [p \in Procs |-> IF filePc[p] \in {"start", "done", "error"} THEN filePc[p] ELSE "dead"]
        /\ UNCHANGED <<flushed, promised>>
    BY <1>5 DEF File!PowerLoss
  <2>1. ASSUME NEW n \in synced .. Len(renamed),
               renamed' = SubSeq(renamed, 1, n), synced' = n,
               torn' = (torn \/ (n > 0 /\ renamed[n] \notin flushed)),
               dir' = IF dir = "created" THEN "durable" ELSE dir
        PROVE  FileInv'
    <3>1. n \in 0 .. Len(renamed) /\ Len(renamed) \in Nat
      BY <2>1
    <3>2. /\ renamed' \in Seq(Procs) /\ Len(renamed') = n
          /\ \A i \in 1 .. n : renamed'[i] = renamed[i]
      BY <2>1, <3>1
    <3>3. torn' = FALSE
      <4>1. ~(n > 0 /\ renamed[n] \notin flushed)
        BY <3>1
      <4>. QED  BY <2>1, <4>1, Zenon
    <3>. QED  BY <2>0, <2>1, <3>1, <3>2, <3>3
  <2>2. CASE /\ dir = "created" /\ renamed' = <<>> /\ synced' = 0 /\ torn' = FALSE
    BY <2>0, <2>2
  <2>. QED  BY <1>5, <2>1, <2>2 DEF File!PowerLoss
<1>6. CASE UNCHANGED File!vars
  BY <1>6 DEF File!vars
<1>. QED  BY <1>1, <1>2, <1>3, <1>4, <1>5, <1>6 DEF File!Next

LEMMA FilePromise ==
  ASSUME FileInv
  PROVE  File!FileSafe
<1>1. \A p \in promised : p \in File!ToSet(renamed)
  BY DEF FileInv, FileTypes, File!ToSet
<1>. QED  BY <1>1 DEF FileInv, File!FileSafe, File!NeverTorn, File!DoneKept

-----------------------------------------------------------------------------
(* The writer domain: writer_domain_lease.rs. *)

DomainActors == Domain!Writers \cup Audits

\* The lock file and the leases tell the same: who holds the domain lock in
\* shared mode is inside, at some depth, and only a writer can be; only a
\* command with a guardian waits for one.
SharedInv ==
  /\ shared = {w \in Domain!Writers : domainPc[w] = "in"}
  /\ \A w \in Domain!Writers : domainPc[w] = "in" <=> depth[w] > 0
  /\ \A p \in DomainActors : /\ domainPc[p] = "in" => p \in Domain!Writers
                             /\ domainPc[p] = "waiting" => p \in DOMAIN GuardOf

\* An audit is inside if and only if it holds the domain lock, and then nobody
\* holds it in shared mode.
ExclusiveInv ==
  /\ excl # Domain!None => shared = {}
  /\ \A p \in DomainActors : domainPc[p] = "auditing" <=> excl = p

\* Whoever waits for the domain lock holds the turnstile, and an audit keeps it.
TurnInv == \A p \in DomainActors : domainPc[p] \in {"domain", "auditing"} => turn = p

DomainInv == Domain!TypeOK /\ SharedInv /\ ExclusiveInv /\ TurnInv

\* Two audits never overlap either.
OneAudit == \A a, b \in Audits : domainPc[a] = "auditing" /\ domainPc[b] = "auditing" => a = b

-----------------------------------------------------------------------------
\* Initially nobody holds a lock.
LEMMA DomainInit ==
  ASSUME Domain!DomainAssumption, Domain!Init
  PROVE  DomainInv
<1>1. Domain!TypeOK
  BY DEF Domain!DomainAssumption, Domain!Init, Domain!TypeOK
<1>2. SharedInv
  BY DEF Domain!Init, SharedInv, DomainActors
<1>3. ExclusiveInv /\ TurnInv
  BY DEF Domain!DomainAssumption, Domain!Init, ExclusiveInv, TurnInv, DomainActors, Domain!Writers,
         Domain!Guards
<1>. QED  BY <1>1, <1>2, <1>3 DEF DomainInv

\* A process outside the locks goes from one such state to another: Want,
\* AuditWant, GiveUp and Reap.
LEMMA Idles ==
  ASSUME Domain!DomainAssumption, DomainInv, UNCHANGED <<turn, shared, excl, depth>>,
         NEW p \in DomainActors, NEW q \in DomainActors,
         domainPc[p] \in {"out", "failed", "waiting"}, domainPc[q] \in {"out", "failed", "waiting"},
         NEW s \in {"out", "turn"}, NEW r \in {"out", "turn"},
         domainPc' = [domainPc EXCEPT ![p] = s, ![q] = r]
  PROVE  DomainInv'
<1>. USE DEF DomainInv, DomainActors
<1>1. Domain!TypeOK'
  BY DEF Domain!TypeOK
<1>2. SharedInv'
  BY DEF Domain!TypeOK, SharedInv
<1>3. ExclusiveInv' /\ TurnInv'
  BY DEF Domain!TypeOK, ExclusiveInv, TurnInv
<1>. QED  BY <1>1, <1>2, <1>3

\* The turnstile is taken: TakeTurn and AuditTurn.
LEMMA TurnTaken ==
  ASSUME Domain!DomainAssumption, DomainInv, NEW p \in DomainActors, Domain!TakeTurn(p) \/ Domain!AuditTurn(p)
  PROVE  DomainInv'
<1>. USE DEF DomainInv, DomainActors, Domain!TakeTurn, Domain!AuditTurn, Domain!Goes
<1>1. Domain!TypeOK'
  BY DEF Domain!TypeOK
<1>2. SharedInv'
  BY DEF Domain!TypeOK, SharedInv
<1>3. ExclusiveInv' /\ TurnInv'
  BY DEF Domain!TypeOK, ExclusiveInv, TurnInv, Domain!DomainAssumption, Domain!Writers, Domain!Guards
<1>. QED  BY <1>1, <1>2, <1>3

\* A wait ends at its deadline: TimeOut and AuditTimeOut.
LEMMA TimedOut ==
  ASSUME Domain!DomainAssumption, DomainInv, NEW p \in DomainActors, Domain!TimeOut(p) \/ Domain!AuditTimeOut(p)
  PROVE  DomainInv'
<1>. USE DEF DomainInv, DomainActors, Domain!TimeOut, Domain!AuditTimeOut, Domain!Goes
<1>1. Domain!TypeOK'
  BY DEF Domain!TypeOK
<1>2. SharedInv'
  BY DEF Domain!TypeOK, SharedInv
<1>3. ExclusiveInv' /\ TurnInv'
  BY DEF Domain!TypeOK, ExclusiveInv, TurnInv
<1>. QED  BY <1>1, <1>2, <1>3

-----------------------------------------------------------------------------
(* The domain lock. *)

\* A writer gets in: no audit is inside.
LEMMA SharedTaken ==
  ASSUME Domain!DomainAssumption, DomainInv, NEW w \in Domain!Writers, Domain!TakeShared(w)
  PROVE  DomainInv'
<1>. USE DEF DomainInv, DomainActors, Domain!TakeShared, Domain!Goes
<1>1. Domain!TypeOK'
  BY DEF Domain!TypeOK, Domain!DomainAssumption
<1>2. SharedInv'
  BY DEF Domain!TypeOK, SharedInv
<1>3. ExclusiveInv' /\ TurnInv'
  BY DEF Domain!TypeOK, ExclusiveInv, TurnInv, Domain!DomainAssumption, Domain!Writers, Domain!Guards
<1>. QED  BY <1>1, <1>2, <1>3

\* A nested lease leaves the lock alone.
LEMMA Nested ==
  ASSUME DomainInv, Domain!DomainAssumption, NEW w \in Domain!Writers, Domain!Nest(w)
  PROVE  DomainInv'
<1>. USE DEF DomainInv, DomainActors, Domain!Nest
<1>1. Domain!TypeOK'
  BY DEF Domain!TypeOK, Domain!DomainAssumption
<1>2. SharedInv'
  BY DEF Domain!TypeOK, SharedInv
<1>3. ExclusiveInv' /\ TurnInv'
  BY DEF ExclusiveInv, TurnInv
<1>. QED  BY <1>1, <1>2, <1>3

\* A lease is dropped; the last one releases the lock.
LEMMA Left ==
  ASSUME Domain!DomainAssumption, DomainInv, NEW w \in Domain!Writers, Domain!Leave(w)
  PROVE  DomainInv'
<1>. USE DEF DomainInv, DomainActors, Domain!Leave, Domain!Goes
<1>0. depth[w] > 0 /\ depth[w] \in Nat
  BY DEF Domain!TypeOK, SharedInv
<1>1. Domain!TypeOK'
  BY <1>0 DEF Domain!TypeOK, Domain!DomainAssumption
<1>2. SharedInv'
  <2>1. CASE depth[w] = 1
    BY <2>1 DEF Domain!TypeOK, SharedInv
  <2>2. CASE depth[w] # 1
    BY <1>0, <2>2 DEF Domain!TypeOK, SharedInv
  <2>. QED  BY <2>1, <2>2
<1>3. ExclusiveInv' /\ TurnInv'
  BY DEF Domain!TypeOK, ExclusiveInv, TurnInv
<1>. QED  BY <1>1, <1>2, <1>3

\* A command drops its lease and starts its guardian.
LEMMA HandedOver ==
  ASSUME Domain!DomainAssumption, DomainInv, NEW t \in Threads, Domain!HandOver(t)
  PROVE  DomainInv'
<1>. USE DEF DomainInv, DomainActors, Domain!HandOver
<1>0. t \in Domain!Writers /\ GuardOf[t] \in Domain!Writers /\ t # GuardOf[t]
  BY DEF Domain!Writers, Domain!Guards
<1>1. Domain!TypeOK'
  BY <1>0 DEF Domain!TypeOK, Domain!DomainAssumption
<1>2. SharedInv'
  BY <1>0 DEF Domain!TypeOK, SharedInv
<1>3. ExclusiveInv' /\ TurnInv'
  BY <1>0 DEF Domain!TypeOK, ExclusiveInv, TurnInv
<1>. QED  BY <1>1, <1>2, <1>3

\* An audit gets in: nobody else is inside.
LEMMA AuditEntered ==
  ASSUME Domain!DomainAssumption, DomainInv, NEW a \in Audits, Domain!AuditEnter(a)
  PROVE  DomainInv'
<1>. USE DEF DomainInv, DomainActors, Domain!AuditEnter, Domain!Goes
<1>1. Domain!TypeOK'
  BY DEF Domain!TypeOK
<1>2. SharedInv'
  BY DEF Domain!TypeOK, SharedInv
<1>3. ExclusiveInv' /\ TurnInv'
  BY DEF Domain!TypeOK, ExclusiveInv, TurnInv, Domain!DomainAssumption, Domain!Writers, Domain!Guards
<1>. QED  BY <1>1, <1>2, <1>3

\* An audit ends and releases both locks.
LEMMA AuditLeft ==
  ASSUME Domain!DomainAssumption, DomainInv, NEW a \in Audits, Domain!AuditLeave(a)
  PROVE  DomainInv'
<1>. USE DEF DomainInv, DomainActors, Domain!AuditLeave, Domain!Goes
<1>1. Domain!TypeOK'
  BY DEF Domain!TypeOK
<1>2. SharedInv'
  BY DEF Domain!TypeOK, SharedInv
<1>3. ExclusiveInv' /\ TurnInv'
  BY DEF Domain!TypeOK, ExclusiveInv, TurnInv, Domain!DomainAssumption, Domain!Writers, Domain!Guards
<1>. QED  BY <1>1, <1>2, <1>3

\* Whoever dies, only its own locks go.
LEMMA Crashed ==
  ASSUME Domain!DomainAssumption, DomainInv, NEW p \in DomainActors, Domain!Crash(p)
  PROVE  DomainInv'
<1>. USE DEF DomainInv, DomainActors, Domain!Crash, Domain!Goes
<1>1. Domain!TypeOK'
  BY DEF Domain!TypeOK, Domain!DomainAssumption
<1>2. SharedInv'
  BY DEF Domain!TypeOK, SharedInv
<1>3. ExclusiveInv' /\ TurnInv'
  BY DEF Domain!TypeOK, ExclusiveInv, TurnInv, Domain!DomainAssumption, Domain!Writers, Domain!Guards
<1>. QED  BY <1>1, <1>2, <1>3

-----------------------------------------------------------------------------
\* Every step keeps the invariant.
LEMMA DomainStep ==
  ASSUME Domain!DomainAssumption, DomainInv, [Domain!Next]_(Domain!vars)
  PROVE  DomainInv'
<1>1. ASSUME NEW w \in Domain!Writers,
             Domain!TakeTurn(w) \/ Domain!TakeShared(w) \/ Domain!TimeOut(w) \/ Domain!Nest(w) \/ Domain!Leave(w)
      PROVE  DomainInv'
  BY <1>1, TurnTaken, SharedTaken, TimedOut, Nested, Left DEF DomainActors
<1>2. ASSUME NEW t \in Threads, Domain!Want(t) \/ Domain!HandOver(t) \/ Domain!Reap(t)
      PROVE  DomainInv'
  <2>0. t \in DomainActors
    BY DEF DomainActors, Domain!Writers
  <2>1. CASE Domain!Want(t)
    <3>1. domainPc' = [domainPc EXCEPT ![t] = "turn", ![t] = "turn"]
      BY <2>0, <2>1 DEF Domain!Want, Domain!Goes, DomainInv, Domain!TypeOK, DomainActors
    <3>. QED  BY <2>0, <2>1, <3>1, Idles DEF Domain!Want
  <2>2. CASE Domain!HandOver(t)
    BY <2>2, HandedOver
  <2>3. CASE Domain!Reap(t)
    <3>1. GuardOf[t] \in DomainActors
      BY <2>0, <2>3 DEF Domain!Reap, DomainInv, SharedInv, DomainActors, Domain!Writers, Domain!Guards
    <3>. QED  BY <2>0, <2>3, <3>1, Idles DEF Domain!Reap
  <2>. QED  BY <1>2, <2>1, <2>2, <2>3
<1>3. ASSUME NEW a \in Audits,
             Domain!AuditWant(a) \/ Domain!AuditTurn(a) \/ Domain!AuditEnter(a) \/ Domain!AuditTimeOut(a) \/ Domain!AuditLeave(a)
      PROVE  DomainInv'
  <2>0. a \in DomainActors
    BY DEF DomainActors
  <2>1. CASE Domain!AuditWant(a)
    <3>1. domainPc' = [domainPc EXCEPT ![a] = "turn", ![a] = "turn"]
      BY <2>0, <2>1 DEF Domain!AuditWant, Domain!Goes, DomainInv, Domain!TypeOK, DomainActors
    <3>. QED  BY <2>0, <2>1, <3>1, Idles DEF Domain!AuditWant
  <2>. QED  BY <1>3, <2>0, <2>1, TurnTaken, AuditEntered, TimedOut, AuditLeft
<1>4. ASSUME NEW p \in DomainActors, Domain!GiveUp(p) \/ Domain!Crash(p)
      PROVE  DomainInv'
  <2>1. CASE Domain!GiveUp(p)
    <3>1. domainPc' = [domainPc EXCEPT ![p] = "out", ![p] = "out"]
      BY <2>1 DEF Domain!GiveUp, Domain!Goes, DomainInv, Domain!TypeOK, DomainActors
    <3>. QED  BY <2>1, <3>1, Idles DEF Domain!GiveUp
  <2>. QED  BY <1>4, <2>1, Crashed
<1>5. CASE UNCHANGED Domain!vars
  BY <1>5 DEF Domain!vars, DomainInv, Domain!TypeOK, SharedInv, ExclusiveInv, TurnInv, DomainActors
<1>. QED  BY <1>1, <1>2, <1>3, <1>4, <1>5 DEF Domain!Next, DomainActors

\* The invariant says what the domain promises.
LEMMA DomainPromise ==
  ASSUME DomainInv
  PROVE  Domain!DomainSafe /\ OneAudit
<1>1. Domain!AuditAlone
  BY DEF DomainInv, SharedInv, ExclusiveInv, Domain!AuditAlone
<1>2. Domain!MutationUncut
  BY DEF DomainInv, Domain!TypeOK, SharedInv, Domain!MutationUncut, DomainActors
<1>3. OneAudit
  BY DEF DomainInv, ExclusiveInv, OneAudit, DomainActors
<1>. QED  BY <1>1, <1>2, <1>3 DEF DomainInv, Domain!DomainSafe


-----------------------------------------------------------------------------
(* The ship-state files: ship_state.rs. *)

\* Where a process is: it syncs the mirror, removes it, has its repository's lock.
Syncing == {"sync", "list", "mirror", "mark"}
Removing == {"unmirror", "unlink"}
Held == {"import", "act", "save", "end"} \cup Syncing \cup Removing
Pcs == {"idle", "check", "migrate", "fence", "lock"} \cup Held
\* The sets of updates made so far, and the processes' records over them.
Known == SUBSET (1 .. update - 1)
ShipProcs == [pc : Pcs, op : ShipState!Op, repo : Repo \cup {"none"}, state : Known,
              list : SUBSET [repo : Repo, state : Known \ {{}}], then : {"idle", "act", "end"}]

\* Every state consists of updates that were made.
ShipTypes ==
  /\ update \in 1 .. Updates + 1 /\ crashes \in 0 .. ShipKills
  /\ marker \in BOOLEAN /\ older \in BOOLEAN /\ used \subseteq Repo
  /\ scoped \in [Repo -> Known] /\ saved \in [Repo -> Known] /\ removed \in Known
  /\ legacy \in [repo : Repo \cup {"none"}, state : Known]
  /\ legacy.repo = "none" <=> legacy.state = {}
  /\ owner \in [Repo -> Proc \cup {"none"}] /\ compat \in Proc \cup {"none"}
  /\ proc \in [Proc -> ShipProcs]
  /\ \A p \in Proc : /\ proc[p].pc # "idle" => proc[p].repo \in Repo
                     /\ proc[p].pc \in Syncing \cup {"unlink"} => proc[p].then \in {"act", "end"}

\* Who holds which lock.
LocksInv ==
  /\ sharers = {p \in Proc : proc[p].pc \in Held \cup {"lock"}}
  /\ \A r \in Repo, p \in Proc : owner[r] = p <=> proc[p].pc \in Held /\ proc[p].repo = r
  /\ \A p \in Proc : compat = p <=> proc[p].pc \in Syncing \ {"sync"}

\* Only repositories that used the number have states, and only they sync.
UsedInv ==
  /\ IsFiniteSet(used) /\ ShipState!Active \subseteq used /\ legacy.repo \in used \cup {"none"}
  /\ \A p \in Proc :
       /\ IsFiniteSet(proc[p].list) /\ \A f \in proc[p].list : f.repo \in used
       /\ proc[p].pc \in Syncing \cup Removing => proc[p].repo \in used
       /\ proc[p].pc = "save" /\ proc[p].state # {} => proc[p].repo \in used

\* Of its own repository a list and the mirror made from it are up to date.
OwnInv ==
  \A p \in Proc :
    /\ proc[p].pc = "mirror" =>
         /\ \A f \in proc[p].list : f.repo = proc[p].repo => f.state = scoped[f.repo]
         /\ scoped[proc[p].repo] # {} => \E f \in proc[p].list : f.repo = proc[p].repo
    /\ proc[p].pc = "mark" /\ Cardinality(proc[p].list) <= 1 /\ legacy.repo = proc[p].repo
         => ~ShipState!Newer(legacy.state, scoped[legacy.repo])

\* Every update is in its repository's file; the mirror has what no file has.
AllImported == \A r \in Repo : saved[r] \subseteq scoped[r]
Unpreserved == legacy.state # {} /\ ShipState!Newer(legacy.state, scoped[legacy.repo])

\* No update is lost: the updates of a repository are in its file, or all in a
\* mirror that is newer.
KeptInv ==
  ~older \/ crashes = 0 =>
    \A r \in Repo : saved[r] \subseteq IF ~marker /\ legacy.repo = r /\ Unpreserved
                                       THEN legacy.state ELSE scoped[r]

\* The same to whoever has a lock: its own repository is complete, and while
\* the mirror is rewritten all are.
HeldInv ==
  ~older \/ crashes = 0 =>
    \A p \in Proc :
      /\ proc[p].pc \in Held \ {"import"} => saved[proc[p].repo] \subseteq scoped[proc[p].repo]
      /\ proc[p].pc = "save" => saved[proc[p].repo] \subseteq proc[p].state
      /\ proc[p].pc \in Removing => saved[proc[p].repo] = {}
      /\ proc[p].pc \in {"unlink", "list", "mirror", "mark"} => AllImported
      /\ proc[p].pc = "mirror" =>
           \A f \in proc[p].list : ShipState!Newer(f.state, scoped[f.repo]) => saved[f.repo] \subseteq f.state
      /\ proc[p].pc = "mark" /\ Cardinality(proc[p].list) <= 1 /\ Unpreserved
           => saved[legacy.repo] \subseteq legacy.state

\* Someone is at one of these places; the mirror has all of the repository, or is
\* another's.
At(S) == \E q \in Proc : proc[q].pc \in S
Good(r) == legacy.repo \notin {r, "none"} \/ saved[r] \subseteq legacy.state

\* An older binary finds every update in the mirror, or someone is about to
\* write it.
SyncInv ==
  crashes = 0 =>
    /\ At({"unmirror", "sync", "list", "mirror"}) \/ marker \/ \A r \in Repo : Good(r)
    /\ \A p \in Proc :
         /\ proc[p].pc = "mirror" =>
              \/ At({"sync"})
              \/ \A r \in Repo : saved[r] # {} => \E f \in proc[p].list : f.repo = r /\ saved[r] \subseteq f.state
         /\ proc[p].pc = "mark" /\ Cardinality(proc[p].list) <= 1
              => At({"unmirror", "sync"}) \/ \A r \in Repo : Good(r)

\* With one repository, what was removed is nowhere but in a mirror that is
\* being removed.
RemovedInv ==
  crashes = 0 /\ Cardinality(used) <= 1 =>
    /\ \A r \in Repo : scoped[r] \cap removed = {}
    /\ ~At(Removing) => legacy.state \cap removed = {}
    /\ \A p \in Proc :
         /\ proc[p].pc = "save" => proc[p].state \cap removed = {}
         /\ proc[p].pc = "mirror" => \A f \in proc[p].list : f.state \cap removed = {}

\* The mirror is being removed; only its repository has a state.
Removes == \E q \in Proc : proc[q].pc \in Removing /\ proc[q].repo = legacy.repo
Alone == ShipState!Active \subseteq {legacy.repo}

\* With two, at most the one of the mirror is active if there is no marker, or
\* someone is about to see to it.
FenceInv ==
  crashes = 0 /\ Cardinality(used) <= 2 =>
    /\ marker \/ Alone \/ Removes \/ At({"unmirror", "sync", "list", "mirror"})
    /\ ~marker /\ Unpreserved => Alone \/ Removes
    /\ \A p \in Proc :
         /\ proc[p].pc = "mirror"
              => At({"sync"}) \/ ShipState!Active \subseteq {f.repo : f \in proc[p].list}
         /\ proc[p].pc = "mark" /\ Cardinality(proc[p].list) <= 1 =>
              /\ Alone \/ Removes \/ At({"unmirror", "sync"})
              /\ Unpreserved => Alone \/ Removes

\* A process about to save saw a preserved mirror, and so it still is but for one
\* that is being removed.
SaveInv ==
  crashes = 0 =>
    \A p \in Proc :
      proc[p].pc = "save" /\ Cardinality(used \cup {proc[p].repo}) <= 2 /\ legacy.repo # proc[p].repo
        => ShipState!Preserved \/ Removes

Promises == UsedInv /\ OwnInv /\ KeptInv /\ HeldInv /\ SyncInv /\ RemovedInv /\ FenceInv /\ SaveInv
ShipInv == ShipTypes /\ LocksInv /\ Promises

-----------------------------------------------------------------------------
(* The latest update of a state, and sets of one or two members. *)

LEMMA HasMax ==
  ASSUME NEW n \in Nat, NEW s \in SUBSET (1 .. n), s # {}
  PROVE  ShipState!Max(s) \in s /\ \A k \in s : k <= ShipState!Max(s)
<1>. DEFINE R == {ss \in Nat \X Nat : ss[1] < ss[2]}
<1>. DEFINE T == {n - k : k \in s}
<1>1. IsWellFoundedOn(R, Nat)
  <2>1. R = OpToRel(<, Nat)
    BY DEF OpToRel
  <2>. QED  BY <2>1, NatLessThanWellFounded, Zenon
<1>2. T \subseteq Nat /\ T # {}
  <2>1. PICK k \in s : TRUE
    OBVIOUS
  <2>2. n - k \in T
    OBVIOUS
  <2>3. \A j \in s : n - j \in Nat
    OBVIOUS
  <2>. QED  BY <2>2, <2>3
<1>3. PICK m \in T : \A k \in T : ~(<<k, m>> \in R)
  <2>. HIDE DEF R, T
  <2>. QED  BY <1>1, <1>2, WFMin, Zenon
<1>4. \A k \in T : m <= k
  <2>1. SUFFICES ASSUME NEW k \in T PROVE m <= k
    OBVIOUS
  <2>2. ~(<<k, m>>[1] < <<k, m>>[2])
    BY <1>2, <1>3
  <2>. QED  BY <1>2, <2>2
<1>5. PICK x \in s : m = n - x
  BY <1>3
<1>6. \A y \in s : x >= y
  <2>1. TAKE y \in s
  <2>2. n - y \in T
    OBVIOUS
  <2>3. m <= n - y
    BY <1>4, <2>2
  <2>. QED  BY <1>5, <2>3
<1>7. ShipState!Max(s) \in s /\ \A y \in s : ShipState!Max(s) >= y
  BY <1>6, Zenon DEF ShipState!Max
<1>8. \A k \in s : k \in Nat
  OBVIOUS
<1>. QED  BY <1>7, <1>8

LEMMA NewerFacts ==
  ASSUME NEW n \in Nat, NEW s \in SUBSET (1 .. n), NEW t \in SUBSET (1 .. n)
  PROVE  /\ ~ShipState!Newer(s, s) /\ ~ShipState!Newer({}, t)
         /\ ShipState!Newer(s, {}) <=> s # {}
         /\ ~ShipState!Newer(s, t \cup {n + 1})
         /\ ShipState!Newer(s \cup {n + 1}, t)
         /\ \A u \in SUBSET (1 .. n) : ShipState!Newer(s, t) /\ ShipState!Newer(t, u) => ShipState!Newer(s, u)
         /\ \A u \in SUBSET (1 .. n) : ~ShipState!Newer(s, t) /\ ~ShipState!Newer(t, u) => ~ShipState!Newer(s, u)
<1>1. /\ s # {} => ShipState!Max(s) \in 1 .. n
      /\ t # {} => ShipState!Max(t) \in 1 .. n
      /\ \A u \in SUBSET (1 .. n) : u # {} => ShipState!Max(u) \in 1 .. n
  BY HasMax
<1>2. ASSUME NEW u \in SUBSET (1 .. n) PROVE ShipState!Max(u \cup {n + 1}) = n + 1
  <2>. DEFINE v == u \cup {n + 1}
  <2>1. v \in SUBSET (1 .. n + 1) /\ v # {} /\ n + 1 \in Nat
    OBVIOUS
  <2>2. ShipState!Max(v) \in v /\ \A k \in v : k <= ShipState!Max(v)
    <3>. HIDE DEF v
    <3>. QED  BY <2>1, HasMax
  <2>3. n + 1 <= ShipState!Max(v) /\ ShipState!Max(v) \in 1 .. n + 1
    BY <2>1, <2>2
  <2>. QED  BY <2>3
<1>3. ~ShipState!Newer(s, s) /\ ~ShipState!Newer({}, t)
  <2>1. s # {} => ~(ShipState!Max(s) > ShipState!Max(s))
    BY <1>1
  <2>. QED  BY <2>1, Zenon DEF ShipState!Newer
<1>4. ShipState!Newer(s, {}) <=> s # {}
  BY DEF ShipState!Newer
<1>5. ~ShipState!Newer(s, t \cup {n + 1})
  <2>1. ShipState!Max(t \cup {n + 1}) = n + 1
    BY <1>2
  <2>. QED  BY <1>1, <2>1 DEF ShipState!Newer
<1>6. ShipState!Newer(s \cup {n + 1}, t)
  <2>1. ShipState!Max(s \cup {n + 1}) = n + 1
    BY <1>2
  <2>2. t = {} \/ n + 1 > ShipState!Max(t)
    BY <1>1
  <2>. QED  BY <2>1, <2>2 DEF ShipState!Newer
<1>7. ASSUME NEW u \in SUBSET (1 .. n)
      PROVE  /\ ShipState!Newer(s, t) /\ ShipState!Newer(t, u) => ShipState!Newer(s, u)
             /\ ~ShipState!Newer(s, t) /\ ~ShipState!Newer(t, u) => ~ShipState!Newer(s, u)
  <2>1. s # {} /\ t # {} /\ u # {} =>
          /\ ShipState!Max(s) > ShipState!Max(t) /\ ShipState!Max(t) > ShipState!Max(u) => ShipState!Max(s) > ShipState!Max(u)
          /\ ~(ShipState!Max(s) > ShipState!Max(t)) /\ ~(ShipState!Max(t) > ShipState!Max(u)) => ~(ShipState!Max(s) > ShipState!Max(u))
    <3>1. u # {} => ShipState!Max(u) \in 1 .. n
      BY <1>1
    <3>. QED  BY <1>1, <3>1
  <2>. QED  BY <2>1, Zenon DEF ShipState!Newer
<1>. QED  BY <1>3, <1>4, <1>5, <1>6, <1>7

\* The cardinality of ShipStateStore is that of the theorems.
LEMMA SameCardinality ==
  \A S : ShipState!Cardinality(S) = Cardinality(S)
BY Zenon DEF ShipState!Cardinality, Cardinality

LEMMA NotNewer ==
  ASSUME NEW n \in Nat, NEW s \in SUBSET (1 .. n)
  PROVE  ~ShipState!Newer(s, s)
BY NewerFacts

LEMMA OfOne ==
  ASSUME NEW S, IsFiniteSet(S)
  PROVE  Cardinality(S) <= 1 <=> \A a, b \in S : a = b
<1>1. ASSUME NEW a \in S, NEW b \in S, a # b PROVE Cardinality(S) > 1
  <2>1. IsFiniteSet({a}) /\ Cardinality({a}) = 1
    BY FS_Singleton
  <2>2. {a} \cup {b} \in SUBSET S
    OBVIOUS
  <2>3. Cardinality({a} \cup {b}) = 2
    BY <1>1, <2>1, FS_AddElement
  <2>. QED  BY <2>2, <2>3, FS_Subset, FS_CardinalityType
<1>2. ASSUME \A a, b \in S : a = b PROVE Cardinality(S) <= 1
  <2>1. CASE S = {}
    BY <2>1, FS_EmptySet
  <2>2. CASE S # {}
    <3>1. PICK a \in S : TRUE
      BY <2>2
    <3>2. S = {a}
      BY <1>2, <3>1
    <3>. QED  BY <3>2, FS_Singleton
  <2>. QED  BY <2>1, <2>2
<1>3. Cardinality(S) \in Nat
  BY FS_CardinalityType
<1>. QED  BY <1>1, <1>2, <1>3

LEMMA OfTwo ==
  ASSUME NEW S, IsFiniteSet(S), Cardinality(S) <= 2
  PROVE  \A a, b, c \in S : a = b \/ a = c \/ b = c
<1>. SUFFICES ASSUME NEW a \in S, NEW b \in S, NEW c \in S, a # b, a # c, b # c
              PROVE  FALSE
  OBVIOUS
<1>1. IsFiniteSet(S \ {a}) /\ Cardinality(S \ {a}) = Cardinality(S) - 1 /\ Cardinality(S) \in Nat
  BY FS_RemoveElement, FS_CardinalityType
<1>2. Cardinality(S \ {a}) <= 1
  BY <1>1
<1>. QED  BY <1>1, <1>2, OfOne

-----------------------------------------------------------------------------
(* Types and locks. *)

LEMMA ProcTypes ==
  ASSUME ShipTypes, NEW p \in Proc, NEW c \in Pcs
  PROVE  /\ [proc[p] EXCEPT !.pc = c] \in ShipProcs
         /\ \A s \in Known : [proc[p] EXCEPT !.pc = c, !.state = s] \in ShipProcs
         /\ \A l \in SUBSET [repo : Repo, state : Known \ {{}}] :
              [proc[p] EXCEPT !.pc = c, !.list = l] \in ShipProcs
         /\ [proc[p] EXCEPT !.pc = c, !.then = "end"] \in ShipProcs
<1>1. proc[p] \in ShipProcs
  BY DEF ShipTypes
<1>. QED  BY <1>1 DEF ShipProcs

LEMMA MoreKnown ==
  ASSUME update \in Nat \ {0}, update' = update + 1
  PROVE  /\ Known \subseteq Known' /\ ShipProcs \subseteq ShipProcs'
         /\ \A s \in Known : s \cup {update} \in Known'
<1>1. Known \subseteq Known' /\ \A s \in Known : s \cup {update} \in Known'
  <2>1. 1 .. update - 1 \subseteq 1 .. update' - 1 /\ update \in 1 .. update' - 1
    OBVIOUS
  <2>. QED  BY <2>1 DEF Known
<1>2. SUBSET [repo : Repo, state : Known \ {{}}] \subseteq SUBSET [repo : Repo, state : Known' \ {{}}]
  BY <1>1
<1>. QED  BY <1>1, <1>2 DEF ShipProcs

LEMMA TypesStep ==
  ASSUME ShipState!ShipStateAssumption, ShipTypes, [ShipState!Next]_(ShipState!vars)
  PROVE  ShipTypes'
<1>. USE DEF ShipTypes, ShipProcs, Known, Pcs, Held, Syncing, Removing, ShipState!Op, ShipState!Idle,
             ShipState!Goes, ShipState!Unlocks, ShipState!Forgets,
             ShipState!NoFile, ShipState!files, ShipState!history, ShipState!ShipStateAssumption
<1>0. UNCHANGED ShipState!vars => ShipTypes'
  BY DEF ShipState!vars
<1>1. ASSUME NEW p \in Proc, ShipState!Check(p) PROVE ShipTypes'
  BY <1>1 DEF ShipState!Check
<1>2. ASSUME NEW p \in Proc, ShipState!Migrate(p) PROVE ShipTypes'
  <2>1. scoped' \in [Repo -> Known]
    BY <1>2 DEF ShipState!Migrate
  <2>2. proc' = [proc EXCEPT ![p].pc = "fence"] /\ proc[p].pc = "migrate"
        /\ UNCHANGED <<legacy, marker, sharers, owner, compat, ShipState!history>>
    BY <1>2 DEF ShipState!Migrate
  <2>. QED  BY <2>1, <2>2
<1>3. ASSUME NEW p \in Proc, ShipState!LegacyFence(p) PROVE ShipTypes'
  BY <1>3 DEF ShipState!LegacyFence
<1>4. ASSUME NEW p \in Proc, ShipState!Lock(p) PROVE ShipTypes'
  BY <1>4 DEF ShipState!Lock
<1>5. ASSUME NEW p \in Proc, ShipState!Import(p) PROVE ShipTypes'
  BY <1>5 DEF ShipState!Import
<1>6. ASSUME NEW p \in Proc, ShipState!Read(p) PROVE ShipTypes'
  <2>1. ShipState!Current(proc[p].repo) \in Known
    BY <1>6 DEF ShipState!Read, ShipState!Current
  <2>2. PICK c \in {"save", "end"} :
          proc' = [proc EXCEPT ![p].pc = c, ![p].state = ShipState!Current(proc[p].repo)]
    BY <1>6 DEF ShipState!Read
  <2>3. proc' \in [Proc -> ShipProcs]
    <3>. HIDE DEF Known, ShipProcs
    <3>. QED  BY <2>1, <2>2, ProcTypes
  <2>4. UNCHANGED <<ShipState!files, sharers, owner, compat, ShipState!history>> /\ proc[p].pc = "act"
    BY <1>6 DEF ShipState!Read
  <2>. QED  BY <2>2, <2>3, <2>4
<1>7. ASSUME NEW p \in Proc, ShipState!Save(p) PROVE ShipTypes'
  <2>1. update \in 1 .. Updates /\ update' = update + 1 /\ proc[p].pc = "save"
    BY <1>7 DEF ShipState!Save, ShipState!Update
  <2>2. Known \subseteq Known' /\ ShipProcs \subseteq ShipProcs' /\ \A s \in Known : s \cup {update} \in Known'
    BY <2>1, MoreKnown
  <2>3. scoped' \in [Repo -> Known'] /\ saved' \in [Repo -> Known'] /\ removed' \in Known'
    <3>. HIDE DEF Known
    <3>. QED  BY <1>7, <2>2 DEF ShipState!Save
  <2>4. legacy' \in [repo : Repo \cup {"none"}, state : Known'] /\ legacy' = legacy
    <3>. HIDE DEF Known
    <3>. QED  BY <1>7, <2>2 DEF ShipState!Save
  <2>5. proc' \in [Proc -> ShipProcs']
    <3>1. proc' = [proc EXCEPT ![p].pc = "sync", ![p].then = "end"]
      BY <1>7 DEF ShipState!Save
    <3>2. [proc[p] EXCEPT !.pc = "sync", !.then = "end"] \in ShipProcs
      <4>. HIDE DEF ShipProcs, Known
      <4>. QED  BY ProcTypes
    <3>. QED
      <4>. HIDE DEF ShipProcs
      <4>. QED  BY <2>2, <3>1, <3>2
  <2>6. \A q \in Proc : /\ proc'[q].pc # "idle" => proc'[q].repo \in Repo
                        /\ proc'[q].pc \in Syncing \cup {"unlink"} => proc'[q].then \in {"act", "end"}
    BY <1>7 DEF ShipState!Save
  <2>7. update' \in 1 .. Updates + 1 /\ used' \subseteq Repo
        /\ UNCHANGED <<marker, older, crashes, owner, compat>>
    BY <1>7, <2>1 DEF ShipState!Save
  <2>. QED
    <3>. HIDE DEF Known, ShipProcs
    <3>. QED  BY <2>3, <2>4, <2>5, <2>6, <2>7
<1>8. ASSUME NEW p \in Proc, ShipState!Refuse(p) PROVE ShipTypes'
  BY <1>8 DEF ShipState!Refuse
<1>9. ASSUME NEW p \in Proc, ShipState!Archive(p) PROVE ShipTypes'
  <2>1. PICK c \in {"end", "unmirror"} : ShipState!Goes(p, c)
    BY <1>9 DEF ShipState!Archive
  <2>2. /\ scoped' \in [Repo -> Known] /\ saved' \in [Repo -> Known] /\ removed' \in Known
        /\ legacy' \in {legacy, ShipState!NoFile} /\ proc[p].pc = "act"
        /\ UNCHANGED <<marker, sharers, owner, compat, update, used, older, crashes>>
    BY <1>9 DEF ShipState!Archive
  <2>3. proc' \in [Proc -> ShipProcs]
    <3>. HIDE DEF Known, ShipProcs
    <3>. QED  BY <2>1, ProcTypes
  <2>. QED  BY <2>1, <2>2, <2>3
<1>10. ASSUME NEW p \in Proc, ShipState!Cleanup(p) PROVE ShipTypes'
  <2>1. PICK c \in {"end", "unmirror"} : ShipState!Goes(p, c)
    BY <1>10 DEF ShipState!Cleanup
  <2>2. /\ scoped' \in [Repo -> Known] /\ saved' \in [Repo -> Known] /\ removed' \in Known
        /\ proc[p].pc = "act" /\ UNCHANGED <<legacy, marker, sharers, owner, compat, update, used, older, crashes>>
    BY <1>10 DEF ShipState!Cleanup
  <2>3. proc' \in [Proc -> ShipProcs]
    <3>. HIDE DEF Known, ShipProcs
    <3>. QED  BY <2>1, ProcTypes
  <2>. QED  BY <2>1, <2>2, <2>3
<1>11. ASSUME NEW p \in Proc, ShipState!Unmirror(p) PROVE ShipTypes'
  <2>1. PICK c \in {"unlink", "sync"} : proc' = [proc EXCEPT ![p].pc = c, ![p].then = "end"]
    BY <1>11 DEF ShipState!Unmirror
  <2>2. UNCHANGED <<ShipState!files, sharers, owner, compat, ShipState!history>> /\ proc[p].pc = "unmirror"
    BY <1>11 DEF ShipState!Unmirror
  <2>3. proc' \in [Proc -> ShipProcs]
    <3>. HIDE DEF Known, ShipProcs
    <3>. QED  BY <2>1, ProcTypes
  <2>. QED  BY <2>1, <2>2, <2>3
<1>12. ASSUME NEW p \in Proc, ShipState!Unlink(p) PROVE ShipTypes'
  <2>1. PICK c \in {"end", "sync"} : proc' = [proc EXCEPT ![p].pc = c]
    BY <1>12 DEF ShipState!Unlink
  <2>2. legacy' = ShipState!NoFile /\ UNCHANGED <<scoped, marker, sharers, owner, compat, ShipState!history>>
        /\ proc[p].pc = "unlink"
    BY <1>12 DEF ShipState!Unlink
  <2>3. proc' \in [Proc -> ShipProcs]
    <3>. HIDE DEF Known, ShipProcs
    <3>. QED  BY <2>1, ProcTypes
  <2>. QED  BY <2>1, <2>2, <2>3
<1>13. ASSUME NEW p \in Proc, ShipState!Sync(p) PROVE ShipTypes'
  BY <1>13 DEF ShipState!Sync
<1>14. ASSUME NEW p \in Proc, ShipState!List(p) PROVE ShipTypes'
  <2>. DEFINE l == {[repo |-> r, state |-> scoped[r]] : r \in {r \in Repo : scoped[r] # {}}}
  <2>1. l \in SUBSET [repo : Repo, state : Known \ {{}}]
    OBVIOUS
  <2>2. proc' = [proc EXCEPT ![p].pc = "mirror", ![p].list = l] /\ proc[p].pc = "list"
        /\ UNCHANGED <<ShipState!files, sharers, owner, compat, ShipState!history>>
    BY <1>14 DEF ShipState!List
  <2>3. proc' \in [Proc -> ShipProcs]
    <3>. HIDE DEF l, Known, ShipProcs
    <3>1. [proc[p] EXCEPT !.pc = "mirror", !.list = l] \in ShipProcs
      BY <2>1, ProcTypes
    <3>. QED  BY <2>2, <3>1
  <2>. HIDE DEF l
  <2>. QED  BY <2>2, <2>3
<1>15. ASSUME NEW p \in Proc, ShipState!Mirror(p) PROVE ShipTypes'
  <2>1. /\ legacy' \in [repo : Repo \cup {"none"}, state : Known]
        /\ legacy'.repo = "none" <=> legacy'.state = {}
    <3>1. proc[p].list \in SUBSET [repo : Repo, state : Known \ {{}}]
      OBVIOUS
    <3>2. legacy' \in proc[p].list \cup {legacy, ShipState!NoFile}
      BY <1>15 DEF ShipState!Mirror
    <3>. QED  BY <3>1, <3>2
  <2>2. proc' = [proc EXCEPT ![p].pc = "mark"] /\ proc[p].pc = "mirror" /\ marker' \in BOOLEAN
        /\ UNCHANGED <<scoped, sharers, owner, compat, ShipState!history>>
    BY <1>15 DEF ShipState!Mirror
  <2>. QED  BY <2>1, <2>2
<1>16. ASSUME NEW p \in Proc, ShipState!Mark(p) PROVE ShipTypes'
  BY <1>16 DEF ShipState!Mark
<1>17. ASSUME NEW p \in Proc, ShipState!End(p) PROVE ShipTypes'
  BY <1>17 DEF ShipState!End
<1>18. ASSUME NEW p \in Proc, ShipState!Crash(p) PROVE ShipTypes'
  BY <1>18 DEF ShipState!Crash
<1>19. ASSUME NEW p \in Proc, NEW op \in ShipState!Op, NEW r \in Repo, ShipState!Begin(p, op, r)
       PROVE  ShipTypes'
  <2>1. ShipState!Listed(r) \in Known /\ {} \in Known
    BY DEF ShipState!Listed
  <2>2. PICK s \in Known :
          proc' = [proc EXCEPT ![p] = [ShipState!Idle EXCEPT !.pc = "check", !.op = op, !.repo = r, !.state = s]]
    BY <1>19, <2>1 DEF ShipState!Begin
  <2>3. UNCHANGED <<ShipState!files, sharers, owner, compat, ShipState!history>>
    BY <1>19 DEF ShipState!Begin
  <2>. QED  BY <2>2, <2>3
<1>20. ASSUME NEW r \in Repo, ShipState!OldSave(r) PROVE ShipTypes'
  <2>1. update \in 1 .. Updates /\ update' = update + 1
    BY <1>20 DEF ShipState!OldSave, ShipState!Update
  <2>2. Known \subseteq Known' /\ ShipProcs \subseteq ShipProcs' /\ \A s \in Known : s \cup {update} \in Known'
    BY <2>1, MoreKnown
  <2>3. scoped' \in [Repo -> Known'] /\ saved' \in [Repo -> Known'] /\ removed' \in Known'
    <3>. HIDE DEF Known
    <3>. QED  BY <1>20, <2>2 DEF ShipState!OldSave
  <2>4. legacy' \in [repo : Repo \cup {"none"}, state : Known'] /\ legacy'.repo # "none" /\ legacy'.state # {}
    <3>. HIDE DEF Known
    <3>. QED  BY <1>20, <2>2 DEF ShipState!OldSave
  <2>5. proc' \in [Proc -> ShipProcs'] /\ proc' = proc
    <3>. HIDE DEF ShipProcs
    <3>. QED  BY <1>20, <2>2 DEF ShipState!OldSave
  <2>6. update' \in 1 .. Updates + 1 /\ used' \subseteq Repo /\ older' \in BOOLEAN
        /\ UNCHANGED <<marker, crashes, owner, compat>>
    BY <1>20, <2>1 DEF ShipState!OldSave
  <2>. QED
    <3>. HIDE DEF Known, ShipProcs
    <3>. QED  BY <2>3, <2>4, <2>5, <2>6
<1>. QED  BY <1>0, <1>1, <1>2, <1>3, <1>4, <1>5, <1>6, <1>7, <1>8, <1>9, <1>10, <1>11, <1>12, <1>13, <1>14,
             <1>15, <1>16, <1>17, <1>18, <1>19, <1>20 DEF ShipState!Next, ShipState!Step

LEMMA LocksStep ==
  ASSUME ShipState!ShipStateAssumption, ShipTypes, LocksInv, [ShipState!Next]_(ShipState!vars)
  PROVE  LocksInv'
<1>. USE DEF ShipTypes, ShipProcs, Pcs, LocksInv, Held, Syncing, Removing, ShipState!Idle, ShipState!Goes,
             ShipState!Unlocks,
             ShipState!files, ShipState!history, ShipState!ShipStateAssumption
<1>0. UNCHANGED ShipState!vars => LocksInv'
  BY DEF ShipState!vars
<1>1. ASSUME NEW p \in Proc, ShipState!Check(p) PROVE LocksInv'
  BY <1>1 DEF ShipState!Check
<1>2. ASSUME NEW p \in Proc, ShipState!Migrate(p) PROVE LocksInv'
  BY <1>2 DEF ShipState!Migrate
<1>3. ASSUME NEW p \in Proc, ShipState!LegacyFence(p) PROVE LocksInv'
  BY <1>3 DEF ShipState!LegacyFence
<1>4. ASSUME NEW p \in Proc, ShipState!Lock(p) PROVE LocksInv'
  BY <1>4 DEF ShipState!Lock
<1>5. ASSUME NEW p \in Proc, ShipState!Import(p) PROVE LocksInv'
  BY <1>5 DEF ShipState!Import
<1>6. ASSUME NEW p \in Proc, ShipState!Read(p) PROVE LocksInv'
  BY <1>6 DEF ShipState!Read
<1>7. ASSUME NEW p \in Proc, ShipState!Save(p) PROVE LocksInv'
  BY <1>7 DEF ShipState!Save
<1>8. ASSUME NEW p \in Proc, ShipState!Refuse(p) PROVE LocksInv'
  BY <1>8 DEF ShipState!Refuse
<1>9. ASSUME NEW p \in Proc, ShipState!Archive(p) PROVE LocksInv'
  BY <1>9 DEF ShipState!Archive
<1>10. ASSUME NEW p \in Proc, ShipState!Cleanup(p) PROVE LocksInv'
  BY <1>10 DEF ShipState!Cleanup
<1>11. ASSUME NEW p \in Proc, ShipState!Unmirror(p) PROVE LocksInv'
  BY <1>11 DEF ShipState!Unmirror
<1>12. ASSUME NEW p \in Proc, ShipState!Unlink(p) PROVE LocksInv'
  BY <1>12 DEF ShipState!Unlink
<1>13. ASSUME NEW p \in Proc, ShipState!Sync(p) PROVE LocksInv'
  BY <1>13 DEF ShipState!Sync
<1>14. ASSUME NEW p \in Proc, ShipState!List(p) PROVE LocksInv'
  BY <1>14 DEF ShipState!List
<1>15. ASSUME NEW p \in Proc, ShipState!Mirror(p) PROVE LocksInv'
  BY <1>15 DEF ShipState!Mirror
<1>16. ASSUME NEW p \in Proc, ShipState!Mark(p) PROVE LocksInv'
  BY <1>16 DEF ShipState!Mark
<1>17. ASSUME NEW p \in Proc, ShipState!End(p) PROVE LocksInv'
  BY <1>17 DEF ShipState!End
<1>18. ASSUME NEW p \in Proc, ShipState!Crash(p) PROVE LocksInv'
  BY <1>18 DEF ShipState!Crash
<1>19. ASSUME NEW p \in Proc, NEW op \in ShipState!Op, NEW r \in Repo, ShipState!Begin(p, op, r)
       PROVE  LocksInv'
  BY <1>19 DEF ShipState!Begin
<1>20. ASSUME NEW r \in Repo, ShipState!OldSave(r) PROVE LocksInv'
  BY <1>20 DEF ShipState!OldSave
<1>. QED  BY <1>0, <1>1, <1>2, <1>3, <1>4, <1>5, <1>6, <1>7, <1>8, <1>9, <1>10, <1>11, <1>12, <1>13, <1>14,
             <1>15, <1>16, <1>17, <1>18, <1>19, <1>20 DEF ShipState!Next, ShipState!Step

-----------------------------------------------------------------------------
(* What each step does, and what the types and locks say of it. *)

States == SUBSET (1 .. update - 1)
Others(p) == \A q \in Proc : q # p => proc'[q] = proc[q]
\* p goes from one place to another and keeps the rest.
Moves(p, c) ==
  /\ Others(p) /\ proc'[p].pc = c /\ proc'[p].repo = proc[p].repo
  /\ proc'[p].list = proc[p].list /\ proc'[p].state = proc[p].state

LEMMA Basics ==
  ASSUME ShipState!ShipStateAssumption, ShipTypes, LocksInv
  PROVE  /\ "none" \notin Repo /\ update - 1 \in Nat /\ update = (update - 1) + 1 /\ update \notin removed
         /\ \A r \in Repo : scoped[r] \in States /\ saved[r] \in States
         /\ legacy.state \in States /\ legacy.repo \in Repo \cup {"none"}
         /\ legacy.repo = "none" <=> legacy.state = {}
         /\ removed \in States
         /\ \A p \in Proc :
              /\ proc[p].pc # "idle" => proc[p].repo \in Repo
              /\ proc[p].state \in States
              /\ \A f \in proc[p].list : f.repo \in Repo /\ f.state \in States /\ f.state # {}
              /\ proc[p].pc \in Syncing \cup {"unlink"} => proc[p].then \in {"act", "end"}
<1>. USE DEF ShipTypes, Known, States
<1>1. update - 1 \in Nat /\ update = (update - 1) + 1 /\ update \notin removed /\ "none" \notin Repo
  BY DEF ShipState!ShipStateAssumption
<1>2. \A p \in Proc : proc[p] \in ShipProcs
  OBVIOUS
<1>3. \A p \in Proc : /\ proc[p].state \in States
                      /\ proc[p].list \in SUBSET [repo : Repo, state : Known \ {{}}]
  BY <1>2 DEF ShipProcs
<1>4. \A p \in Proc : \A f \in proc[p].list : f.repo \in Repo /\ f.state \in States /\ f.state # {}
  BY <1>3
<1>. QED  BY <1>1, <1>3, <1>4

LEMMA Exclusion ==
  ASSUME ShipState!ShipStateAssumption, ShipTypes, LocksInv
  PROVE  /\ \A p, q \in Proc :
              proc[p].pc \in Held /\ proc[q].pc \in Held /\ proc[p].repo = proc[q].repo => p = q
         /\ \A p, q \in Proc :
              proc[p].pc \in {"list", "mirror", "mark"} /\ proc[q].pc \in {"list", "mirror", "mark"} => p = q
         /\ compat = "none" => \A p \in Proc : proc[p].pc \notin {"list", "mirror", "mark"}
         /\ sharers = {} => \A p \in Proc : proc[p].pc \notin Held
<1>1. \A p \in Proc : proc[p].pc \in Held => proc[p].repo \in Repo
  BY DEF ShipTypes, Held, Syncing, Removing
<1>2. \A p, q \in Proc : proc[p].pc \in Held /\ proc[q].pc \in Held /\ proc[p].repo = proc[q].repo => p = q
  BY <1>1 DEF LocksInv
<1>3. \A p \in Proc : proc[p].pc \in {"list", "mirror", "mark"} => compat = p
  BY DEF LocksInv, Syncing
<1>4. sharers = {} => \A p \in Proc : proc[p].pc \notin Held
  BY DEF LocksInv
<1>. QED  BY <1>2, <1>3, <1>4 DEF ShipState!ShipStateAssumption

LEMMA GoesMoves ==
  ASSUME ShipTypes, NEW p \in Proc, NEW c, ShipState!Goes(p, c)
  PROVE  Moves(p, c)
<1>1. proc[p] \in ShipProcs
  BY DEF ShipTypes
<1>. QED  BY <1>1 DEF ShipTypes, ShipProcs, ShipState!Goes, Moves, Others

LEMMA SyncMoves ==
  ASSUME ShipTypes, NEW p \in Proc, NEW c, NEW n, proc' = [proc EXCEPT ![p].pc = c, ![p].then = n]
  PROVE  Moves(p, c)
<1>1. proc[p] \in ShipProcs
  BY DEF ShipTypes
<1>. QED  BY <1>1 DEF ShipTypes, ShipProcs, Moves, Others

LEMMA ListMoves ==
  ASSUME ShipTypes, NEW p \in Proc, NEW c, NEW l, proc' = [proc EXCEPT ![p].pc = c, ![p].list = l]
  PROVE  /\ Others(p) /\ proc'[p].pc = c /\ proc'[p].repo = proc[p].repo
         /\ proc'[p].list = l /\ proc'[p].state = proc[p].state
<1>1. proc[p] \in ShipProcs
  BY DEF ShipTypes
<1>. QED  BY <1>1 DEF ShipTypes, ShipProcs, Others

-----------------------------------------------------------------------------
(* The steps around an operation. *)

\* A process that is not in an operation afterwards, or not yet, and touches no
\* file disturbs nothing.
LEMMA QuietStep ==
  ASSUME ShipTypes, LocksInv, Promises, NEW p \in Proc, Others(p), UNCHANGED <<ShipState!files, ShipState!history>>,
         proc[p].pc \notin (Held \ {"import", "end"}), proc'[p].pc \notin (Held \ {"import"}),
         proc'[p].list \in {{}, proc[p].list}
  PROVE  Promises'
<1>. USE DEF Others, ShipState!files, ShipState!history, Held, Syncing, Removing
<1>0. IsFiniteSet({})
  BY FS_EmptySet
<1>1. UsedInv'
  BY <1>0 DEF Promises, UsedInv, ShipState!Active
<1>2. OwnInv'
  BY DEF Promises, OwnInv
<1>3. KeptInv'
  BY DEF Promises, KeptInv, Unpreserved
<1>4. HeldInv'
  BY DEF Promises, HeldInv, AllImported, Unpreserved
<1>5. SyncInv'
  BY DEF Promises, SyncInv, At, Good
<1>6. RemovedInv'
  BY DEF Promises, RemovedInv, At
<1>7. FenceInv'
  BY DEF Promises, FenceInv, At, Removes, Alone, ShipState!Active, Unpreserved
<1>8. SaveInv'
  BY DEF Promises, SaveInv, Removes, ShipState!Preserved
<1>. QED  BY <1>1, <1>2, <1>3, <1>4, <1>5, <1>6, <1>7, <1>8 DEF Promises

LEMMA Refused ==
  ASSUME ShipState!ShipStateAssumption, ShipTypes, LocksInv, Promises, NEW p \in Proc, ShipState!Refuse(p)
  PROVE  Promises'
<1>. USE DEF Others, ShipState!files, ShipState!history, Held, Syncing, Removing, Moves
<1>0. proc[p].pc = "save" /\ Moves(p, "end") /\ UNCHANGED <<ShipState!files, ShipState!history>>
  BY GoesMoves DEF ShipState!Refuse
<1>1. UsedInv'
  BY <1>0 DEF Promises, UsedInv, ShipState!Active
<1>2. OwnInv'
  BY <1>0 DEF Promises, OwnInv
<1>3. KeptInv'
  BY <1>0 DEF Promises, KeptInv, Unpreserved
<1>4. HeldInv'
  BY <1>0 DEF Promises, HeldInv, AllImported, Unpreserved
<1>5. SyncInv'
  BY <1>0 DEF Promises, SyncInv, At, Good
<1>6. RemovedInv'
  BY <1>0 DEF Promises, RemovedInv, At
<1>7. FenceInv'
  BY <1>0 DEF Promises, FenceInv, At, Removes, Alone, ShipState!Active, Unpreserved
<1>8. SaveInv'
  BY <1>0 DEF Promises, SaveInv, Removes, ShipState!Preserved
<1>. QED  BY <1>1, <1>2, <1>3, <1>4, <1>5, <1>6, <1>7, <1>8 DEF Promises

LEMMA Killed ==
  ASSUME ShipState!ShipStateAssumption, ShipTypes, LocksInv, Promises, NEW p \in Proc, ShipState!Crash(p)
  PROVE  Promises'
<1>. USE DEF Others, ShipState!files, Held, Syncing, Removing
<1>0. /\ Others(p) /\ proc'[p].pc = "idle" /\ proc'[p].list = {}
      /\ UNCHANGED <<ShipState!files, update, saved, removed, used, older>> /\ crashes' # 0
      /\ IsFiniteSet({})
  BY FS_EmptySet DEF ShipState!Crash, ShipState!Unlocks, ShipTypes, ShipState!Idle
<1>1. UsedInv'
  BY <1>0 DEF Promises, UsedInv, ShipState!Active
<1>2. OwnInv'
  BY <1>0 DEF Promises, OwnInv
<1>3. KeptInv'
  BY <1>0 DEF Promises, KeptInv, Unpreserved
<1>4. HeldInv'
  BY <1>0 DEF Promises, HeldInv, AllImported, Unpreserved
<1>5. SyncInv' /\ RemovedInv' /\ FenceInv' /\ SaveInv'
  BY <1>0 DEF SyncInv, RemovedInv, FenceInv, SaveInv
<1>. QED  BY <1>1, <1>2, <1>3, <1>4, <1>5 DEF Promises

LEMMA Reads ==
  ASSUME ShipState!ShipStateAssumption, ShipTypes, LocksInv, Promises, NEW p \in Proc, ShipState!Read(p)
  PROVE  Promises'
<1>. USE DEF Others, ShipState!files, ShipState!history, Held, Syncing, Removing
<1>. DEFINE r == proc[p].repo
<1>0. /\ proc[p].pc = "act" /\ Others(p) /\ r \in Repo /\ UNCHANGED <<ShipState!files, ShipState!history>>
      /\ proc'[p].pc = IF ShipState!Preserved THEN "save" ELSE "end"
      /\ proc'[p].repo = r /\ proc'[p].list = proc[p].list /\ proc'[p].state = ShipState!Current(r)
  <2>. DEFINE c == IF ShipState!Preserved THEN "save" ELSE "end"
  <2>1. proc' = [proc EXCEPT ![p].pc = c, ![p].state = ShipState!Current(r)]
    BY DEF ShipState!Read
  <2>2. proc[p].pc = "act" /\ r \in Repo /\ UNCHANGED <<ShipState!files, ShipState!history>>
    BY Basics DEF ShipState!Read
  <2>3. /\ Others(p) /\ proc'[p].pc = c /\ proc'[p].repo = r
        /\ proc'[p].list = proc[p].list /\ proc'[p].state = ShipState!Current(r)
    <3>1. proc[p] \in ShipProcs
      BY DEF ShipTypes
    <3>. HIDE DEF c
    <3>. QED  BY <2>1, <3>1 DEF ShipTypes, ShipProcs
  <2>. QED  BY <2>2, <2>3
<1>. HIDE DEF r
<1>1. UsedInv'
  <2>1. ShipState!Current(r) # {} => r \in used
    BY <1>0, Basics DEF Promises, UsedInv, ShipState!Active, ShipState!Current
  <2>. QED  BY <1>0, <2>1 DEF Promises, UsedInv, ShipState!Active
<1>2. OwnInv'
  BY <1>0 DEF Promises, OwnInv
<1>3. KeptInv'
  BY <1>0 DEF Promises, KeptInv, Unpreserved
<1>4. HeldInv'
  <2>1. ~older \/ crashes = 0 => saved[r] \subseteq scoped[r] /\ saved[r] \subseteq ShipState!Current(r)
    BY <1>0 DEF Promises, HeldInv, ShipState!Current, r
  <2>. QED  BY <1>0, <2>1 DEF Promises, HeldInv, AllImported, Unpreserved, r
<1>5. SyncInv'
  BY <1>0 DEF Promises, SyncInv, At, Good
<1>6. RemovedInv'
  <2>1. ASSUME crashes = 0, Cardinality(used) <= 1 PROVE ShipState!Current(r) \cap removed = {}
    <3>1. CASE legacy.repo = r
      <4>1. \A a, b \in used : a = b
        BY <2>1, OfOne DEF Promises, UsedInv
      <4>2. ~At(Removing)
        BY <1>0, <3>1, <4>1, Exclusion, Basics DEF At, Promises, UsedInv, r
      <4>. QED  BY <1>0, <2>1, <4>2 DEF Promises, RemovedInv, ShipState!Current
    <3>2. CASE legacy.repo # r
      BY <1>0, <2>1, <3>2 DEF Promises, RemovedInv, ShipState!Current
    <3>. QED  BY <3>1, <3>2
  <2>. QED  BY <1>0, <2>1 DEF Promises, RemovedInv, At
<1>7. FenceInv'
  BY <1>0 DEF Promises, FenceInv, At, Removes, Alone, ShipState!Active, Unpreserved
<1>8. SaveInv'
  BY <1>0 DEF Promises, SaveInv, Removes, ShipState!Preserved
<1>. QED  BY <1>1, <1>2, <1>3, <1>4, <1>5, <1>6, <1>7, <1>8 DEF Promises

LEMMA Imports ==
  ASSUME ShipState!ShipStateAssumption, ShipTypes, LocksInv, Promises, NEW p \in Proc, ShipState!Import(p),
         ~marker, legacy.repo = proc[p].repo
  PROVE  Promises'
<1>. USE DEF Others, ShipState!files, ShipState!history, Held, Syncing, Removing
<1>. DEFINE r == proc[p].repo
<1>0. /\ proc[p].pc = "import" /\ Moves(p, "sync") /\ r \in Repo /\ legacy.repo = r
      /\ UNCHANGED <<legacy, marker, ShipState!history>> /\ ~marker
      /\ scoped'[r] = IF ShipState!Newer(legacy.state, scoped[r]) THEN legacy.state ELSE scoped[r]
      /\ \A x \in Repo : x # r => scoped'[x] = scoped[x]
  <2>1. r \in Repo /\ proc[p].pc = "import"
    BY Basics DEF ShipState!Import
  <2>2. Moves(p, "sync")
    BY SyncMoves DEF ShipState!Import
  <2>. QED  BY <2>1, <2>2 DEF ShipState!Import, ShipTypes
<1>. HIDE DEF r
<1>a. /\ ~ShipState!Newer(legacy.state, scoped'[r]) /\ legacy.state # {} /\ r \in used
      /\ \A s \in States : ShipState!Newer(s, scoped'[r]) => ShipState!Newer(s, scoped[r])
  <2>1. legacy.state \in States /\ scoped[r] \in States /\ update - 1 \in Nat /\ legacy.state # {} /\ r \in used
    BY <1>0, Basics DEF Promises, UsedInv
  <2>2. ~ShipState!Newer(legacy.state, legacy.state)
    BY <2>1, NotNewer DEF States
  <2>3. \A s \in States :
          ShipState!Newer(s, legacy.state) /\ ShipState!Newer(legacy.state, scoped[r]) => ShipState!Newer(s, scoped[r])
    BY <2>1, NewerFacts DEF States
  <2>. QED  BY <1>0, <2>1, <2>2, <2>3
<1>b. \A q \in Proc : q # p /\ proc[q].pc \in Held => proc[q].repo # r
  BY <1>0, Exclusion DEF r
<1>c. ~Unpreserved' /\ ShipState!Preserved'
  BY <1>0, <1>a DEF Unpreserved, ShipState!Preserved
<1>d. ~older \/ crashes = 0 => saved[r] \subseteq scoped'[r]
  BY <1>0, <1>a DEF Promises, KeptInv, Unpreserved
<1>. USE DEF Moves
<1>1. UsedInv'
  BY <1>0, <1>a DEF Promises, UsedInv, ShipState!Active, r
<1>2. OwnInv'
  BY <1>0, <1>a, <1>b, Basics DEF Promises, OwnInv
<1>3. KeptInv'
  BY <1>0, <1>c, <1>d DEF Promises, KeptInv
<1>4. HeldInv'
  <2>. SUFFICES ASSUME ~older \/ crashes = 0
                PROVE  HeldInv'
    BY <1>0 DEF HeldInv
  <2>1. AllImported => AllImported'
    BY <1>0, <1>d DEF AllImported
  <2>2. ASSUME NEW q \in Proc, q # p
        PROVE  /\ proc[q].pc \in Held \ {"import"} => saved[proc[q].repo] \subseteq scoped'[proc[q].repo]
               /\ proc[q].pc = "mirror" =>
                    \A f \in proc[q].list : ShipState!Newer(f.state, scoped'[f.repo]) => saved[f.repo] \subseteq f.state
    BY <1>0, <1>a, <1>b, <2>2, Basics DEF Promises, HeldInv
  <2>. QED  BY <1>0, <1>c, <1>d, <2>1, <2>2 DEF Promises, HeldInv, r
<1>5. SyncInv'
  <2>1. At({"sync"})' /\ At({"unmirror", "sync"})' /\ At({"unmirror", "sync", "list", "mirror"})'
    BY <1>0 DEF At
  <2>. QED  BY <2>1 DEF SyncInv
<1>6. RemovedInv'
  <2>. SUFFICES ASSUME crashes = 0, Cardinality(used) <= 1
                PROVE  RemovedInv'
    BY <1>0 DEF RemovedInv
  <2>1. \A a, b \in used : a = b
    BY OfOne DEF Promises, UsedInv
  <2>2. ~At(Removing)
    BY <1>0, <1>a, <2>1, Exclusion DEF At, Promises, UsedInv, r
  <2>. QED  BY <1>0, <2>2 DEF Promises, RemovedInv, At
<1>7. FenceInv'
  <2>1. At({"sync"})' /\ At({"unmirror", "sync"})' /\ At({"unmirror", "sync", "list", "mirror"})'
    BY <1>0 DEF At
  <2>. QED  BY <1>c, <2>1 DEF FenceInv
<1>8. SaveInv'
  BY <1>c DEF SaveInv
<1>. QED  BY <1>1, <1>2, <1>3, <1>4, <1>5, <1>6, <1>7, <1>8 DEF Promises

LEMMA ImportsNothing ==
  ASSUME ShipState!ShipStateAssumption, ShipTypes, LocksInv, Promises, NEW p \in Proc, ShipState!Import(p),
         marker \/ legacy.repo # proc[p].repo
  PROVE  Promises'
<1>. USE DEF Others, ShipState!files, ShipState!history, Held, Syncing, Removing, Moves
<1>0. /\ proc[p].pc = "import" /\ Moves(p, "act") /\ UNCHANGED <<ShipState!files, ShipState!history>> /\ proc[p].repo \in Repo
  BY GoesMoves, Basics DEF ShipState!Import
<1>1. UsedInv'
  BY <1>0 DEF Promises, UsedInv, ShipState!Active
<1>2. OwnInv'
  BY <1>0 DEF Promises, OwnInv
<1>3. KeptInv'
  BY <1>0 DEF Promises, KeptInv, Unpreserved
<1>4. HeldInv'
  <2>1. ~older \/ crashes = 0 => saved[proc[p].repo] \subseteq scoped[proc[p].repo]
    BY <1>0 DEF Promises, KeptInv
  <2>. QED  BY <1>0, <2>1 DEF Promises, HeldInv, AllImported, Unpreserved
<1>5. SyncInv'
  BY <1>0 DEF Promises, SyncInv, At, Good
<1>6. RemovedInv'
  BY <1>0 DEF Promises, RemovedInv, At
<1>7. FenceInv'
  BY <1>0 DEF Promises, FenceInv, At, Removes, Alone, ShipState!Active, Unpreserved
<1>8. SaveInv'
  BY <1>0 DEF Promises, SaveInv, Removes, ShipState!Preserved
<1>. QED  BY <1>1, <1>2, <1>3, <1>4, <1>5, <1>6, <1>7, <1>8 DEF Promises

LEMMA Saves ==
  ASSUME ShipState!ShipStateAssumption, ShipTypes, LocksInv, Promises, NEW p \in Proc, ShipState!Save(p)
  PROVE  Promises'
<1>. USE DEF Others, Held, Syncing, Removing
<1>. DEFINE r == proc[p].repo
<1>0. /\ proc[p].pc = "save" /\ Moves(p, "sync") /\ r \in Repo
      /\ UNCHANGED <<legacy, marker, removed, older, crashes>> /\ used' = used \cup {r}
      /\ scoped'[r] = proc[p].state \cup {update} /\ saved'[r] = saved[r] \cup {update}
      /\ \A x \in Repo : x # r => scoped'[x] = scoped[x] /\ saved'[x] = saved[x]
  <2>1. r \in Repo /\ proc[p].pc = "save"
    BY Basics DEF ShipState!Save
  <2>2. Moves(p, "sync")
    BY SyncMoves DEF ShipState!Save
  <2>. QED  BY <2>1, <2>2 DEF ShipState!Save, ShipTypes
<1>. HIDE DEF r
<1>a. \A s \in States : ~ShipState!Newer(s, scoped'[r])
  <2>1. proc[p].state \in States /\ update - 1 \in Nat /\ update = (update - 1) + 1
    BY Basics
  <2>2. \A s \in States : ~ShipState!Newer(s, proc[p].state \cup {(update - 1) + 1})
    <3>. HIDE <1>0
    <3>. QED  BY <2>1, NewerFacts DEF States
  <2>. QED  BY <1>0, <2>1, <2>2
<1>b. \A q \in Proc : q # p /\ proc[q].pc \in Held => proc[q].repo # r
  BY <1>0, Exclusion DEF r
<1>c. (~older \/ crashes = 0 => saved'[r] \subseteq scoped'[r]) /\ scoped'[r] # {}
  BY <1>0 DEF Promises, HeldInv, r
<1>d. Unpreserved' => Unpreserved /\ legacy.repo # r /\ legacy.repo \in Repo
  BY <1>0, <1>a, Basics DEF Unpreserved
<1>e. /\ IsFiniteSet(used')
      /\ \A n \in Nat : Cardinality(used') <= n => Cardinality(used) <= n
      /\ Cardinality(used') <= 2 => \A a, b, c \in used' : a = b \/ a = c \/ b = c
  <2>1. IsFiniteSet(used) /\ IsFiniteSet(used') /\ used \in SUBSET used'
    BY <1>0, FS_AddElement DEF Promises, UsedInv
  <2>2. Cardinality(used) <= Cardinality(used') /\ Cardinality(used) \in Nat /\ Cardinality(used') \in Nat
    BY <2>1, FS_Subset, FS_CardinalityType
  <2>. QED  BY <2>1, <2>2, OfTwo
<1>f. At({"sync"})' /\ At({"unmirror", "sync"})' /\ At({"unmirror", "sync", "list", "mirror"})'
  BY <1>0 DEF At, Moves
<1>g. Removes => Removes'
  BY <1>0 DEF Removes, Moves
<1>. USE DEF Moves
<1>1. UsedInv'
  BY <1>0, <1>e DEF Promises, UsedInv, ShipState!Active, r
<1>2. OwnInv'
  <2>1. legacy.state \in States /\ \A q \in Proc : proc[q].pc \in Held => proc[q].repo \in Repo
    BY Basics
  <2>. QED  BY <1>0, <1>b, <2>1 DEF Promises, OwnInv
<1>3. KeptInv'
  <2>1. ~older \/ crashes = 0 => \A x \in Repo : x # r /\ ~(~marker /\ legacy.repo = x /\ Unpreserved')
                                                => saved'[x] \subseteq scoped'[x]
    BY <1>0 DEF Promises, KeptInv, Unpreserved
  <2>. QED  BY <1>0, <1>c, <1>d, <2>1 DEF Promises, KeptInv
<1>4. HeldInv'
  <2>. SUFFICES ASSUME ~older \/ crashes = 0
                PROVE  HeldInv'
    BY <1>0 DEF HeldInv
  <2>1. AllImported => AllImported'
    BY <1>0, <1>c DEF AllImported
  <2>2. ASSUME NEW q \in Proc, q # p
        PROVE  /\ proc[q].pc \in Held \ {"import"} => saved'[proc[q].repo] \subseteq scoped'[proc[q].repo]
               /\ proc[q].pc = "save" => saved'[proc[q].repo] \subseteq proc[q].state
               /\ proc[q].pc \in Removing => saved'[proc[q].repo] = {}
               /\ proc[q].pc = "mirror" =>
                    \A f \in proc[q].list : ShipState!Newer(f.state, scoped'[f.repo]) => saved'[f.repo] \subseteq f.state
    <3>1. proc[q].pc \in Held => proc[q].repo \in Repo /\ proc[q].repo # r
      BY <1>b, <2>2, Basics
    <3>2. proc[q].pc = "mirror" =>
            \A f \in proc[q].list : ShipState!Newer(f.state, scoped'[f.repo]) => saved'[f.repo] \subseteq f.state
      BY <1>0, <1>a, Basics DEF Promises, HeldInv
    <3>. QED  BY <1>0, <3>1, <3>2 DEF Promises, HeldInv
  <2>3. Unpreserved' => saved'[legacy.repo] = saved[legacy.repo]
    BY <1>0, <1>d
  <2>. QED  BY <1>0, <1>c, <1>d, <2>1, <2>2, <2>3 DEF Promises, HeldInv, r
<1>5. SyncInv'
  BY <1>f DEF SyncInv
<1>6. RemovedInv'
  <2>. SUFFICES ASSUME crashes = 0, Cardinality(used') <= 1
                PROVE  RemovedInv'
    BY <1>0 DEF RemovedInv
  <2>1. Cardinality(used) <= 1 /\ update \notin removed
    BY <1>e, Basics
  <2>2. proc[p].state \cap removed = {}
    BY <1>0, <2>1 DEF Promises, RemovedInv
  <2>3. \A x \in Repo : scoped'[x] \cap removed = {}
    BY <1>0, <2>1, <2>2 DEF Promises, RemovedInv
  <2>. QED  BY <1>0, <2>1, <2>3 DEF Promises, RemovedInv, At
<1>7. FenceInv'
  <2>. SUFFICES ASSUME crashes = 0, Cardinality(used') <= 2
                PROVE  FenceInv'
    BY <1>0 DEF FenceInv
  <2>1. ~marker /\ Unpreserved' => Removes'
    BY <1>0, <1>d, <1>g DEF Promises, SaveInv, ShipState!Preserved, Unpreserved, r
  <2>2. ASSUME NEW q \in Proc, proc'[q].pc = "mark", Cardinality(proc'[q].list) <= 1
        PROVE  ~Unpreserved'
    <3>1. q # p /\ proc[q].pc = "mark" /\ Cardinality(proc[q].list) <= 1 /\ proc[q].repo # r
      BY <1>0, <1>b, <2>2
    <3>2. r \in used' /\ proc[q].repo \in used' /\ (Unpreserved' => legacy.repo \in used' /\ legacy.repo # r)
      BY <1>0, <1>d, <3>1, Basics DEF Promises, UsedInv
    <3>3. Unpreserved' => legacy.repo = proc[q].repo /\ Unpreserved
      BY <1>d, <1>e, <3>1, <3>2
    <3>. QED  BY <3>1, <3>3 DEF Promises, OwnInv, Unpreserved
  <2>. QED  BY <1>0, <1>f, <2>1, <2>2 DEF FenceInv
<1>8. SaveInv'
  <2>. SUFFICES ASSUME crashes = 0, NEW q \in Proc, proc'[q].pc = "save",
                       Cardinality(used' \cup {proc'[q].repo}) <= 2, legacy'.repo # proc'[q].repo
                PROVE  ShipState!Preserved' \/ Removes'
    BY <1>0 DEF SaveInv
  <2>1. q # p /\ proc'[q] = proc[q]
    BY <1>0
  <2>2. Cardinality(used \cup {proc[q].repo}) <= 2
    <3>1. IsFiniteSet(used' \cup {proc[q].repo}) /\ used \cup {proc[q].repo} \in SUBSET (used' \cup {proc[q].repo})
      BY <1>0, <1>e, FS_AddElement
    <3>2. /\ Cardinality(used \cup {proc[q].repo}) <= Cardinality(used' \cup {proc[q].repo})
          /\ Cardinality(used \cup {proc[q].repo}) \in Nat /\ Cardinality(used' \cup {proc[q].repo}) \in Nat
      BY <3>1, FS_Subset, FS_CardinalityType
    <3>. QED  BY <2>1, <3>2
  <2>3. ShipState!Preserved \/ Removes
    BY <1>0, <2>1, <2>2 DEF Promises, SaveInv
  <2>4. ShipState!Preserved => ShipState!Preserved'
    BY <1>0, <1>d, Basics DEF ShipState!Preserved, Unpreserved
  <2>. QED  BY <1>g, <2>3, <2>4
<1>. QED  BY <1>1, <1>2, <1>3, <1>4, <1>5, <1>6, <1>7, <1>8 DEF Promises

\* Archive and Cleanup find nothing to remove.
LEMMA KeepsAll ==
  ASSUME ShipState!ShipStateAssumption, ShipTypes, LocksInv, Promises, NEW p \in Proc, proc[p].pc = "act",
         ShipState!Goes(p, "end"), UNCHANGED <<ShipState!files, ShipState!history>>
  PROVE  Promises'
<1>. USE DEF Others, ShipState!files, ShipState!history, Held, Syncing, Removing, Moves
<1>0. Moves(p, "end")
  BY GoesMoves
<1>1. UsedInv'
  BY <1>0 DEF Promises, UsedInv, ShipState!Active
<1>2. OwnInv'
  BY <1>0 DEF Promises, OwnInv
<1>3. KeptInv'
  BY <1>0 DEF Promises, KeptInv, Unpreserved
<1>4. HeldInv'
  BY <1>0 DEF Promises, HeldInv, AllImported, Unpreserved
<1>5. SyncInv'
  BY <1>0 DEF Promises, SyncInv, At, Good
<1>6. RemovedInv'
  BY <1>0 DEF Promises, RemovedInv, At
<1>7. FenceInv'
  BY <1>0 DEF Promises, FenceInv, At, Removes, Alone, ShipState!Active, Unpreserved
<1>8. SaveInv'
  BY <1>0 DEF Promises, SaveInv, Removes, ShipState!Preserved
<1>. QED  BY <1>1, <1>2, <1>3, <1>4, <1>5, <1>6, <1>7, <1>8 DEF Promises

\* Archive and Cleanup remove the state, Archive the mirror if it is all there is.
LEMMA RemovesState ==
  ASSUME ShipState!ShipStateAssumption, ShipTypes, LocksInv, Promises, NEW p \in Proc, proc[p].pc = "act",
         ShipState!Goes(p, "unmirror"), ShipState!Forgets(proc[p].repo), scoped' = [scoped EXCEPT ![proc[p].repo] = {}],
         legacy' = legacy \/ (legacy' = ShipState!NoFile /\ legacy.repo = proc[p].repo),
         scoped[proc[p].repo] # {} \/ legacy.repo = proc[p].repo,
         UNCHANGED <<marker, update, used, older, crashes>>
  PROVE  Promises'
<1>. USE DEF Others, Held, Syncing, Removing
<1>. DEFINE r == proc[p].repo
<1>0. /\ Moves(p, "unmirror") /\ r \in Repo /\ r \in used
      /\ scoped'[r] = {} /\ saved'[r] = {} /\ removed' = removed \cup saved[r]
      /\ \A x \in Repo : x # r => scoped'[x] = scoped[x] /\ saved'[x] = saved[x]
      /\ legacy'.repo # r => legacy' = legacy \/ (legacy' = ShipState!NoFile /\ legacy.repo = r)
  <2>1. r \in Repo /\ r # "none"
    BY Basics
  <2>2. Moves(p, "unmirror")
    BY GoesMoves
  <2>3. r \in used
    BY <2>1 DEF Promises, UsedInv, ShipState!Active
  <2>. QED  BY <2>1, <2>2, <2>3 DEF ShipState!Forgets, ShipTypes
<1>. HIDE DEF r
<1>a. /\ legacy' = legacy \/ (legacy'.repo = "none" /\ legacy'.state = {} /\ legacy.repo = r)
      /\ legacy.state # {} => legacy.repo \in Repo
      /\ "none" \notin Repo /\ marker' = marker
  BY Basics DEF ShipState!NoFile, r
<1>b. \A q \in Proc : q # p /\ proc[q].pc \in Held => proc[q].repo # r /\ proc[q].repo \in Repo
  BY <1>0, Exclusion, Basics DEF r
<1>c. Unpreserved' => legacy' = legacy /\ (legacy.repo = r \/ Unpreserved) /\ legacy.repo \in Repo
  BY <1>0, <1>a DEF Unpreserved
<1>d. ShipState!Active' \subseteq ShipState!Active
  BY <1>0 DEF ShipState!Active
<1>. USE DEF Moves
<1>e. (legacy'.repo = r => Removes') /\ (Removes /\ legacy' = legacy => Removes')
  BY <1>0 DEF Removes, r
<1>f. At({"unmirror", "sync"})' /\ At({"unmirror", "sync", "list", "mirror"})' /\ At(Removing)'
  BY <1>0 DEF At
<1>g. At({"sync"}) => At({"sync"})'
  BY <1>0 DEF At
<1>1. UsedInv'
  BY <1>0, <1>a DEF Promises, UsedInv, ShipState!Active, r
<1>2. OwnInv'
  BY <1>0, <1>a, <1>b DEF Promises, OwnInv
<1>3. KeptInv'
  <2>1. ~older \/ crashes = 0 => \A x \in Repo : x # r /\ ~(~marker /\ legacy.repo = x /\ Unpreserved')
                                                => saved'[x] \subseteq scoped'[x]
    BY <1>0, <1>a DEF Promises, KeptInv, Unpreserved
  <2>. QED  BY <1>0, <1>a, <1>c, <2>1 DEF Promises, KeptInv
<1>4. HeldInv'
  <2>. SUFFICES ASSUME ~older \/ crashes = 0
                PROVE  HeldInv'
    BY DEF HeldInv
  <2>1. AllImported => AllImported'
    BY <1>0 DEF AllImported
  <2>2. ASSUME NEW q \in Proc, q # p
        PROVE  /\ proc[q].pc \in Held \ {"import"} => saved'[proc[q].repo] \subseteq scoped'[proc[q].repo]
               /\ proc[q].pc = "save" => saved'[proc[q].repo] \subseteq proc[q].state
               /\ proc[q].pc \in Removing => saved'[proc[q].repo] = {}
               /\ proc[q].pc = "mirror" =>
                    \A f \in proc[q].list : ShipState!Newer(f.state, scoped'[f.repo]) => saved'[f.repo] \subseteq f.state
    <3>1. proc[q].pc \in Held => proc[q].repo \in Repo /\ proc[q].repo # r
      BY <1>b, <2>2
    <3>2. proc[q].pc = "mirror" =>
            \A f \in proc[q].list : ShipState!Newer(f.state, scoped'[f.repo]) => saved'[f.repo] \subseteq f.state
      BY <1>0, Basics DEF Promises, HeldInv
    <3>. QED  BY <1>0, <3>1, <3>2 DEF Promises, HeldInv
  <2>3. ASSUME NEW q \in Proc, q # p
        PROVE  proc[q].pc = "mark" /\ Cardinality(proc[q].list) <= 1 /\ Unpreserved'
                 => saved'[legacy.repo] \subseteq legacy.state
    BY <1>0, <1>c, <2>3 DEF Promises, HeldInv
  <2>. QED  BY <1>0, <1>c, <2>1, <2>2, <2>3 DEF Promises, HeldInv, r
<1>5. SyncInv'
  <2>1. ASSUME crashes = 0, NEW q \in Proc, proc'[q].pc = "mirror"
        PROVE  \/ At({"sync"})'
               \/ \A x \in Repo : saved'[x] # {} => \E f \in proc'[q].list : f.repo = x /\ saved'[x] \subseteq f.state
    <3>1. q # p /\ proc[q].pc = "mirror" /\ proc'[q] = proc[q]
      BY <1>0, <2>1
    <3>2. \/ At({"sync"})
          \/ \A x \in Repo : saved[x] # {} => \E f \in proc[q].list : f.repo = x /\ saved[x] \subseteq f.state
      BY <2>1, <3>1 DEF Promises, SyncInv
    <3>. QED  BY <1>0, <1>g, <3>1, <3>2
  <2>. QED  BY <1>f, <2>1 DEF SyncInv
<1>6. RemovedInv'
  <2>. SUFFICES ASSUME crashes = 0, Cardinality(used) <= 1
                PROVE  RemovedInv'
    BY DEF RemovedInv
  <2>1. \A a, b \in used : a = b
    BY OfOne DEF Promises, UsedInv
  <2>2. \A x \in Repo : scoped'[x] = {}
    BY <1>0, <2>1 DEF Promises, UsedInv, ShipState!Active
  <2>3. \A q \in Proc : proc'[q].pc # "mirror" /\ (proc'[q].pc = "save" => proc'[q].state = {})
    BY <1>0, <1>b, <2>1 DEF Promises, UsedInv
  <2>. QED  BY <1>f, <2>2, <2>3 DEF RemovedInv
<1>7. FenceInv'
  <2>. SUFFICES ASSUME crashes = 0, Cardinality(used) <= 2
                PROVE  FenceInv'
    BY DEF FenceInv
  <2>1. Alone /\ legacy' = legacy => Alone'
    BY <1>d DEF Alone
  <2>2. ~marker /\ Unpreserved' => Alone' \/ Removes'
    BY <1>c, <1>e, <2>1 DEF Promises, FenceInv
  <2>3. ASSUME NEW q \in Proc, proc'[q].pc = "mirror"
        PROVE  At({"sync"})' \/ ShipState!Active' \subseteq {f.repo : f \in proc'[q].list}
    <3>1. q # p /\ proc[q].pc = "mirror" /\ proc'[q] = proc[q]
      BY <1>0, <2>3
    <3>2. At({"sync"}) \/ ShipState!Active \subseteq {f.repo : f \in proc[q].list}
      BY <3>1 DEF Promises, FenceInv
    <3>. QED  BY <1>d, <1>g, <3>1, <3>2
  <2>4. ASSUME NEW q \in Proc, proc'[q].pc = "mark", Cardinality(proc'[q].list) <= 1
        PROVE  Unpreserved' => Alone' \/ Removes'
    <3>1. q # p /\ proc[q].pc = "mark" /\ Cardinality(proc[q].list) <= 1
      BY <1>0, <2>4
    <3>2. Unpreserved => Alone \/ Removes
      BY <3>1 DEF Promises, FenceInv
    <3>. QED  BY <1>c, <1>e, <2>1, <3>2
  <2>. QED  BY <1>f, <2>2, <2>3, <2>4 DEF FenceInv
<1>8. SaveInv'
  <2>. SUFFICES ASSUME crashes = 0, NEW q \in Proc, proc'[q].pc = "save",
                       Cardinality(used \cup {proc'[q].repo}) <= 2, legacy'.repo # proc'[q].repo
                PROVE  ShipState!Preserved' \/ Removes'
    BY DEF SaveInv
  <2>1. q # p /\ proc'[q] = proc[q]
    BY <1>0
  <2>2. CASE legacy' = legacy /\ legacy.repo # r
    <3>1. ShipState!Preserved \/ Removes
      BY <2>1, <2>2 DEF Promises, SaveInv
    <3>2. ShipState!Preserved => ShipState!Preserved'
      BY <1>0, <1>a, <2>2 DEF ShipState!Preserved
    <3>. QED  BY <1>e, <2>2, <3>1, <3>2
  <2>3. CASE legacy' = legacy /\ legacy.repo = r
    BY <1>e, <2>3
  <2>4. CASE legacy'.state = {}
    BY <2>4 DEF ShipState!Preserved
  <2>. QED  BY <1>a, <2>2, <2>3, <2>4
<1>. QED  BY <1>1, <1>2, <1>3, <1>4, <1>5, <1>6, <1>7, <1>8 DEF Promises

LEMMA Unmirrors ==
  ASSUME ShipState!ShipStateAssumption, ShipTypes, LocksInv, Promises, NEW p \in Proc, ShipState!Unmirror(p)
  PROVE  Promises'
<1>. USE DEF Others, ShipState!files, ShipState!history, Held, Syncing, Removing
<1>. DEFINE r == proc[p].repo
<1>0. /\ proc[p].pc = "unmirror" /\ r \in Repo /\ r # "none" /\ UNCHANGED <<ShipState!files, ShipState!history>>
      /\ (legacy.repo = r /\ Moves(p, "unlink")) \/ (legacy.repo # r /\ Moves(p, "sync"))
  <2>1. proc[p].pc = "unmirror" /\ r \in Repo /\ r # "none" /\ UNCHANGED <<ShipState!files, ShipState!history>>
    BY Basics DEF ShipState!Unmirror
  <2>2. CASE legacy.repo = r
    <3>1. proc' = [proc EXCEPT ![p].pc = "unlink", ![p].then = "end"]
      BY <2>2 DEF ShipState!Unmirror
    <3>2. Moves(p, "unlink")
      BY <3>1, SyncMoves
    <3>. QED  BY <2>1, <2>2, <3>2, Zenon
  <2>3. CASE legacy.repo # r
    <3>1. proc' = [proc EXCEPT ![p].pc = "sync", ![p].then = "end"]
      BY <2>3 DEF ShipState!Unmirror
    <3>2. Moves(p, "sync")
      BY <3>1, SyncMoves
    <3>. QED  BY <2>1, <2>3, <3>2
  <2>. QED  BY <2>2, <2>3
<1>. HIDE DEF r
<1>. USE DEF Moves
<1>a. legacy.repo = r /\ (~older \/ crashes = 0) => AllImported /\ \A x \in Repo : Good(x)
  BY <1>0 DEF Promises, KeptInv, HeldInv, AllImported, Good, r
<1>b. At({"sync"}) => At({"sync"})'
  BY <1>0 DEF At
<1>c. legacy.repo # r => At({"sync"})' /\ At({"unmirror", "sync"})' /\ At({"unmirror", "sync", "list", "mirror"})'
  BY <1>0 DEF At
<1>d. Removes => Removes'
  BY <1>0 DEF Removes, r
<1>e. legacy.repo = r => Removes'
  BY <1>0 DEF Removes, r
<1>f. UNCHANGED <<Unpreserved, Alone, ShipState!Active, ShipState!Preserved>> /\ \A x \in Repo : Good(x) => Good(x)'
  BY <1>0 DEF Unpreserved, Alone, ShipState!Active, ShipState!Preserved, Good
<1>1. UsedInv'
  BY <1>0 DEF Promises, UsedInv, ShipState!Active, r
<1>2. OwnInv'
  BY <1>0 DEF Promises, OwnInv
<1>3. KeptInv'
  BY <1>0 DEF Promises, KeptInv, Unpreserved
<1>4. HeldInv'
  BY <1>0, <1>a DEF Promises, HeldInv, AllImported, Unpreserved, r
<1>5. SyncInv'
  <2>. SUFFICES ASSUME crashes = 0
                PROVE  SyncInv'
    BY <1>0 DEF SyncInv
  <2>1. At({"unmirror", "sync", "list", "mirror"})' \/ \A x \in Repo : Good(x)'
    BY <1>a, <1>c, <1>f
  <2>2. At({"unmirror", "sync"})' \/ \A x \in Repo : Good(x)'
    BY <1>a, <1>c, <1>f
  <2>3. ASSUME NEW q \in Proc, proc'[q].pc = "mirror"
        PROVE  \/ At({"sync"})'
               \/ \A x \in Repo : saved'[x] # {} => \E f \in proc'[q].list : f.repo = x /\ saved'[x] \subseteq f.state
    BY <1>0, <1>b, <2>3 DEF Promises, SyncInv
  <2>. QED  BY <2>1, <2>2, <2>3 DEF SyncInv
<1>6. RemovedInv'
  <2>. SUFFICES ASSUME crashes = 0, Cardinality(used) <= 1
                PROVE  RemovedInv'
    BY <1>0 DEF RemovedInv
  <2>1. \A a, b \in used : a = b
    BY OfOne DEF Promises, UsedInv
  <2>2. ~At(Removing)' => legacy.state = {}
    <3>1. legacy.repo = r => At(Removing)'
      BY <1>0 DEF At
    <3>2. r \in used
      BY <1>0 DEF Promises, UsedInv, r
    <3>3. legacy.repo # r => legacy.repo = "none"
      BY <2>1, <3>2 DEF Promises, UsedInv
    <3>. QED  BY <3>1, <3>3, Basics
  <2>. QED  BY <1>0, <2>2 DEF Promises, RemovedInv
<1>7. FenceInv'
  <2>. SUFFICES ASSUME crashes = 0, Cardinality(used) <= 2
                PROVE  FenceInv'
    BY <1>0 DEF FenceInv
  <2>1. Removes' \/ (At({"unmirror", "sync"})' /\ At({"unmirror", "sync", "list", "mirror"})')
    BY <1>c, <1>e
  <2>2. ~marker /\ Unpreserved => Alone \/ Removes'
    BY <1>d DEF Promises, FenceInv
  <2>3. ASSUME NEW q \in Proc, proc'[q].pc = "mirror"
        PROVE  At({"sync"})' \/ ShipState!Active' \subseteq {f.repo : f \in proc'[q].list}
    BY <1>0, <1>b, <1>f, <2>3 DEF Promises, FenceInv
  <2>4. ASSUME NEW q \in Proc, proc'[q].pc = "mark", Cardinality(proc'[q].list) <= 1
        PROVE  Unpreserved' => Alone' \/ Removes'
    BY <1>0, <1>d, <1>f, <2>4 DEF Promises, FenceInv
  <2>. QED  BY <1>0, <1>f, <2>1, <2>2, <2>3, <2>4 DEF FenceInv
<1>8. SaveInv'
  BY <1>0, <1>d, <1>f DEF Promises, SaveInv
<1>. QED  BY <1>1, <1>2, <1>3, <1>4, <1>5, <1>6, <1>7, <1>8 DEF Promises

LEMMA Unlinks ==
  ASSUME ShipState!ShipStateAssumption, ShipTypes, LocksInv, Promises, NEW p \in Proc, ShipState!Unlink(p)
  PROVE  Promises'
<1>. USE DEF Others, ShipState!files, ShipState!history, Held, Syncing, Removing
<1>0. /\ proc[p].pc = "unlink" /\ proc[p].repo \in Repo /\ "none" \notin Repo
      /\ UNCHANGED <<scoped, marker, ShipState!history>>
      /\ legacy'.repo = "none" /\ legacy'.state = {}
      /\ (legacy' = legacy /\ Moves(p, "end")) \/ Moves(p, "sync")
  <2>1. /\ proc[p].pc = "unlink" /\ proc[p].repo \in Repo /\ "none" \notin Repo
        /\ UNCHANGED <<scoped, marker, ShipState!history>> /\ legacy' = ShipState!NoFile
    BY Basics DEF ShipState!Unlink
  <2>2. CASE legacy = ShipState!NoFile
    <3>1. ShipState!Goes(p, "end")
      BY <2>2 DEF ShipState!Unlink
    <3>. QED  BY <2>1, <2>2, <3>1, GoesMoves DEF ShipState!NoFile
  <2>3. CASE legacy # ShipState!NoFile
    <3>1. ShipState!Goes(p, "sync")
      BY <2>3 DEF ShipState!Unlink
    <3>. QED  BY <2>1, <3>1, GoesMoves DEF ShipState!NoFile
  <2>. QED  BY <2>2, <2>3
<1>. USE DEF Moves
<1>a. ~Unpreserved' /\ ShipState!Preserved'
  BY <1>0 DEF Unpreserved, ShipState!Preserved
<1>b. \/ legacy' = legacy /\ Moves(p, "end")
      \/ At({"sync"})' /\ At({"unmirror", "sync"})' /\ At({"unmirror", "sync", "list", "mirror"})'
  BY <1>0 DEF At
<1>c. At({"sync"}) => At({"sync"})'
  BY <1>0 DEF At
<1>1. UsedInv'
  BY <1>0 DEF Promises, UsedInv, ShipState!Active
<1>2. OwnInv'
  BY <1>0, Basics DEF Promises, OwnInv
<1>3. KeptInv'
  BY <1>0, <1>a DEF Promises, KeptInv, HeldInv, AllImported
<1>4. HeldInv'
  BY <1>0, <1>a DEF Promises, HeldInv, AllImported
<1>5. SyncInv'
  <2>1. CASE legacy' = legacy /\ Moves(p, "end")
    BY <1>0, <2>1 DEF Promises, SyncInv, At, Good
  <2>2. CASE At({"sync"})' /\ At({"unmirror", "sync"})' /\ At({"unmirror", "sync", "list", "mirror"})'
    BY <2>2 DEF SyncInv
  <2>. QED  BY <1>b, <2>1, <2>2
<1>6. RemovedInv'
  BY <1>0 DEF Promises, RemovedInv
<1>7. FenceInv'
  <2>1. CASE legacy' = legacy /\ Moves(p, "end")
    <3>1. ~Removes
      BY <1>0, <2>1, Basics DEF Removes
    <3>. QED  BY <1>0, <1>a, <2>1, <3>1 DEF Promises, FenceInv, At, Alone, ShipState!Active
  <2>2. CASE At({"sync"})' /\ At({"unmirror", "sync"})' /\ At({"unmirror", "sync", "list", "mirror"})'
    BY <1>a, <2>2 DEF FenceInv
  <2>. QED  BY <1>b, <2>1, <2>2
<1>8. SaveInv'
  BY <1>a DEF SaveInv
<1>. QED  BY <1>1, <1>2, <1>3, <1>4, <1>5, <1>6, <1>7, <1>8 DEF Promises

LEMMA Syncs ==
  ASSUME ShipState!ShipStateAssumption, ShipTypes, LocksInv, Promises, NEW p \in Proc, ShipState!Sync(p)
  PROVE  Promises'
<1>. USE DEF Others, ShipState!files, ShipState!history, Held, Syncing, Removing
<1>0. /\ proc[p].pc = "sync" /\ proc[p].repo \in Repo /\ UNCHANGED <<ShipState!files, ShipState!history>>
      /\ (ShipState!Preserved /\ Moves(p, "list")) \/ (~ShipState!Preserved /\ Moves(p, "end"))
      /\ \A q \in Proc : proc[q].pc \notin {"list", "mirror", "mark"}
  <2>1. proc[p].pc = "sync" /\ proc[p].repo \in Repo /\ UNCHANGED <<ShipState!files, ShipState!history>> /\ compat = "none"
    BY Basics DEF ShipState!Sync
  <2>2. \A q \in Proc : proc[q].pc \notin {"list", "mirror", "mark"}
    BY <2>1, Exclusion
  <2>3. CASE ShipState!Preserved
    <3>1. Moves(p, "list")
      BY <2>3, GoesMoves DEF ShipState!Sync
    <3>. QED  BY <2>1, <2>2, <2>3, <3>1, Zenon
  <2>4. CASE ~ShipState!Preserved
    <3>1. Moves(p, "end")
      BY <2>4, GoesMoves DEF ShipState!Sync
    <3>. QED  BY <2>1, <2>2, <2>4, <3>1
  <2>. QED  BY <2>3, <2>4
<1>. USE DEF Moves
<1>a. /\ ShipState!Preserved <=> marker \/ ~Unpreserved
      /\ UNCHANGED <<Unpreserved, Alone, ShipState!Active, ShipState!Preserved, Removes, AllImported>>
      /\ \A x \in Repo : Good(x) => Good(x)'
  BY <1>0 DEF ShipState!Preserved, Unpreserved, Alone, ShipState!Active, Removes, Good, AllImported
<1>b. /\ ShipState!Preserved => At({"unmirror", "sync", "list", "mirror"})'
      /\ \A q \in Proc : proc'[q].pc \notin {"mirror", "mark"}
  BY <1>0 DEF At
<1>1. UsedInv'
  BY <1>0 DEF Promises, UsedInv, ShipState!Active
<1>2. OwnInv'
  BY <1>b DEF OwnInv
<1>3. KeptInv'
  BY <1>0, <1>a DEF Promises, KeptInv
<1>4. HeldInv'
  <2>1. ShipState!Preserved /\ (~older \/ crashes = 0) => AllImported
    BY <1>a DEF Promises, KeptInv, AllImported
  <2>. QED  BY <1>0, <1>a, <1>b, <2>1 DEF Promises, HeldInv
<1>5. SyncInv'
  <2>1. crashes = 0 /\ ~ShipState!Preserved => \A x \in Repo : Good(x)
    BY <1>a, Basics DEF Promises, KeptInv, Good, Unpreserved
  <2>. QED  BY <1>0, <1>a, <1>b, <2>1 DEF SyncInv
<1>6. RemovedInv'
  BY <1>0, <1>b DEF Promises, RemovedInv, At
<1>7. FenceInv'
  BY <1>0, <1>a, <1>b DEF Promises, FenceInv
<1>8. SaveInv'
  BY <1>0, <1>a DEF Promises, SaveInv
<1>. QED  BY <1>1, <1>2, <1>3, <1>4, <1>5, <1>6, <1>7, <1>8 DEF Promises

LEMMA Lists ==
  ASSUME ShipState!ShipStateAssumption, ShipTypes, LocksInv, Promises, NEW p \in Proc, ShipState!List(p)
  PROVE  Promises'
<1>. USE DEF Others, ShipState!files, ShipState!history, Held, Syncing, Removing
<1>. DEFINE l == {[repo |-> x, state |-> scoped[x]] : x \in {x \in Repo : scoped[x] # {}}}
<1>0. /\ proc[p].pc = "list" /\ proc[p].repo \in Repo /\ UNCHANGED <<ShipState!files, ShipState!history>>
      /\ Others(p) /\ proc'[p].pc = "mirror" /\ proc'[p].repo = proc[p].repo /\ proc'[p].list = l
      /\ proc'[p].state = proc[p].state
      /\ \A q \in Proc : q # p => proc[q].pc \notin {"list", "mirror", "mark"}
  <2>1. proc[p].pc = "list" /\ proc[p].repo \in Repo /\ UNCHANGED <<ShipState!files, ShipState!history>>
    BY Basics DEF ShipState!List
  <2>2. proc' = [proc EXCEPT ![p].pc = "mirror", ![p].list = l]
    BY DEF ShipState!List
  <2>3. \A q \in Proc : q # p => proc[q].pc \notin {"list", "mirror", "mark"}
    BY <2>1, Exclusion
  <2>4. proc[p] \in ShipProcs
    BY DEF ShipTypes
  <2>. HIDE DEF l
  <2>. QED  BY <2>1, <2>2, <2>3, <2>4 DEF ShipTypes, ShipProcs
<1>a. /\ \A f \in l : f.repo \in ShipState!Active /\ f.state = scoped[f.repo]
      /\ \A x \in ShipState!Active : \E f \in l : f.repo = x
      /\ \A f, g \in l : f.repo = g.repo => f = g
  <2>1. \A f \in l : \E x \in Repo : f = [repo |-> x, state |-> scoped[x]] /\ scoped[x] # {}
    OBVIOUS
  <2>2. \A x \in Repo : scoped[x] # {} => [repo |-> x, state |-> scoped[x]] \in l
    OBVIOUS
  <2>3. \A f \in l : f.repo \in ShipState!Active /\ f.state = scoped[f.repo]
    <3>. HIDE DEF l
    <3>. QED  BY <2>1 DEF ShipState!Active
  <2>4. \A x \in ShipState!Active : \E f \in l : f.repo = x
    <3>1. TAKE x \in ShipState!Active
    <3>2. [repo |-> x, state |-> scoped[x]] \in l /\ [repo |-> x, state |-> scoped[x]].repo = x
      BY <2>2 DEF ShipState!Active
    <3>. QED  BY <3>2
  <2>5. \A f, g \in l : f.repo = g.repo => f = g
    <3>. HIDE DEF l
    <3>. QED  BY <2>1
  <2>. QED  BY <2>3, <2>4, <2>5
<1>b. UNCHANGED <<Unpreserved, Alone, ShipState!Active, ShipState!Preserved, AllImported>>
      /\ \A x \in Repo : Good(x) => Good(x)'
  BY <1>0 DEF Unpreserved, Alone, ShipState!Active, ShipState!Preserved, AllImported, Good
<1>c. /\ At({"unmirror", "sync", "list", "mirror"})' /\ (At({"sync"}) => At({"sync"})')
      /\ (Removes => Removes') /\ (At(Removing) => At(Removing)')
  BY <1>0 DEF At, Removes
<1>d. IsFiniteSet(l)
  <2>. DEFINE g == [f \in l |-> f.repo]
  <2>1. g \in Injection(l, used)
    <3>. HIDE DEF l
    <3>1. \A f \in l : f.repo \in used
      BY <1>a DEF Promises, UsedInv
    <3>2. g \in [l -> used] /\ \A f, h \in l : g[f] = g[h] => f = h
      BY <1>a, <3>1
    <3>. QED  BY <3>2 DEF Injection, IsInjective
  <2>. QED  BY <2>1, FS_Injection DEF Promises, UsedInv
<1>. HIDE DEF l
<1>e. \A f \in l : ~ShipState!Newer(f.state, scoped[f.repo])
  <2>1. \A f \in l : f.state \in States /\ f.state = scoped[f.repo] /\ update - 1 \in Nat
    BY <1>a, Basics DEF ShipState!Active
  <2>2. \A s \in States : update - 1 \in Nat => ~ShipState!Newer(s, s)
    BY NotNewer DEF States
  <2>. QED  BY <2>1, <2>2
<1>1. UsedInv'
  BY <1>0, <1>a, <1>b, <1>d DEF Promises, UsedInv
<1>2. OwnInv'
  BY <1>0, <1>a DEF OwnInv, ShipState!Active
<1>3. KeptInv'
  BY <1>0, <1>b DEF Promises, KeptInv
<1>4. HeldInv'
  BY <1>0, <1>b, <1>e DEF Promises, HeldInv
<1>5. SyncInv'
  <2>1. ASSUME crashes = 0, NEW x \in Repo, saved[x] # {}
        PROVE  \E f \in l : f.repo = x /\ saved[x] \subseteq f.state
    <3>1. saved[x] \subseteq scoped[x]
      BY <1>0, <2>1 DEF Promises, HeldInv, AllImported
    <3>2. x \in ShipState!Active
      BY <2>1, <3>1 DEF ShipState!Active
    <3>. QED  BY <1>a, <3>1, <3>2
  <2>. QED  BY <1>0, <1>c, <2>1 DEF SyncInv
<1>6. RemovedInv'
  BY <1>0, <1>a, <1>c DEF Promises, RemovedInv, ShipState!Active
<1>7. FenceInv'
  <2>1. ShipState!Active \subseteq {f.repo : f \in l}
    BY <1>a
  <2>. QED  BY <1>0, <1>b, <1>c, <2>1 DEF Promises, FenceInv
<1>8. SaveInv'
  BY <1>0, <1>b, <1>c DEF Promises, SaveInv
<1>. QED  BY <1>1, <1>2, <1>3, <1>4, <1>5, <1>6, <1>7, <1>8 DEF Promises

\* Of several states none is mirrored, and the marker is written.
LEMMA MirrorsNone ==
  ASSUME ShipState!ShipStateAssumption, ShipTypes, LocksInv, Promises, NEW p \in Proc, ShipState!Mirror(p),
         Cardinality(proc[p].list) > 1
  PROVE  Promises'
<1>. USE DEF Others, ShipState!history, Held, Syncing, Removing, Moves
<1>0. /\ proc[p].pc = "mirror" /\ Moves(p, "mark") /\ UNCHANGED <<scoped, legacy, ShipState!history>> /\ marker' = TRUE
      /\ ~(Cardinality(proc[p].list) <= 1)
  <2>1. Cardinality(proc[p].list) \in Nat
    BY FS_CardinalityType DEF Promises, UsedInv
  <2>2. Moves(p, "mark") /\ marker' = TRUE
    BY GoesMoves, SameCardinality DEF ShipState!Mirror
  <2>. QED  BY <2>1, <2>2, SameCardinality DEF ShipState!Mirror
<1>a. \A q \in Proc : q # p => proc[q].pc \notin {"list", "mirror", "mark"}
  BY <1>0, Exclusion
<1>b. ShipState!Preserved' /\ UNCHANGED <<AllImported, Unpreserved, ShipState!Active>>
  BY <1>0 DEF ShipState!Preserved, AllImported, Unpreserved, ShipState!Active
<1>1. UsedInv'
  BY <1>0 DEF Promises, UsedInv, ShipState!Active
<1>2. OwnInv'
  BY <1>0, <1>a DEF Promises, OwnInv
<1>3. KeptInv'
  BY <1>0 DEF Promises, KeptInv, HeldInv, AllImported
<1>4. HeldInv'
  BY <1>0, <1>a, <1>b DEF Promises, HeldInv
<1>5. SyncInv'
  BY <1>0, <1>a DEF SyncInv
<1>6. RemovedInv'
  BY <1>0 DEF Promises, RemovedInv, At
<1>7. FenceInv'
  BY <1>0, <1>a DEF FenceInv
<1>8. SaveInv'
  BY <1>b DEF SaveInv
<1>. QED  BY <1>1, <1>2, <1>3, <1>4, <1>5, <1>6, <1>7, <1>8 DEF Promises

\* At most one state is listed, and the mirror is that one.
LEMMA MirrorsOne ==
  ASSUME ShipState!ShipStateAssumption, ShipTypes, LocksInv, Promises, NEW p \in Proc, ShipState!Mirror(p),
         ~(Cardinality(proc[p].list) > 1)
  PROVE  Promises'
<1>. USE DEF Others, ShipState!history, Held, Syncing, Removing
<1>. DEFINE r == proc[p].repo
<1>. DEFINE l == proc[p].list
<1>0. /\ proc[p].pc = "mirror" /\ Moves(p, "mark") /\ UNCHANGED <<scoped, ShipState!history>> /\ marker' = marker
      /\ Cardinality(l) <= 1 /\ r \in Repo /\ r \in used
      /\ \/ l = {} /\ legacy'.repo = "none" /\ legacy'.state = {}
         \/ legacy' \in l /\ \A f \in l : f = legacy'
  <2>1. Cardinality(l) \in Nat /\ IsFiniteSet(l) /\ r \in Repo /\ r \in used /\ proc[p].pc = "mirror"
    BY FS_CardinalityType, Basics DEF Promises, UsedInv, ShipState!Mirror
  <2>2. Cardinality(l) <= 1 /\ \A f, g \in l : f = g
    BY <2>1, OfOne
  <2>3. Moves(p, "mark")
    BY GoesMoves DEF ShipState!Mirror
  <2>4. marker' = marker
    BY SameCardinality DEF ShipState!Mirror, ShipTypes
  <2>5. CASE l = {}
    BY <2>1, <2>2, <2>3, <2>4, <2>5, SameCardinality DEF ShipState!Mirror, ShipState!NoFile
  <2>6. CASE l # {}
    <3>1. legacy' = CHOOSE f \in l : TRUE
      BY <2>6, SameCardinality DEF ShipState!Mirror
    <3>2. legacy' \in l
      BY <2>6, <3>1
    <3>. QED  BY <2>1, <2>2, <2>3, <2>4, <3>2 DEF ShipState!Mirror
  <2>. QED  BY <2>5, <2>6
<1>a. \A q \in Proc : q # p => proc[q].pc \notin {"list", "mirror", "mark"}
  BY <1>0, Exclusion
<1>b. \A f \in l : f.repo \in Repo /\ f.state \in States /\ f.repo \in used /\ f.state # {}
  BY Basics DEF Promises, UsedInv
<1>c. "none" \notin Repo
  BY Basics
<1>. USE DEF Moves
<1>d. /\ \A S \in {{"sync"}, Removing} : At(S) => At(S)'
      /\ At({"sync"}) => At({"unmirror", "sync"})' /\ At({"unmirror", "sync", "list", "mirror"})'
  BY <1>0 DEF At
<1>e. /\ legacy'.repo = r => ~ShipState!Newer(legacy'.state, scoped[r])
      /\ legacy'.repo # r => scoped[r] = {}
  <2>1. legacy'.repo = r => legacy' \in l /\ legacy'.state = scoped[r]
    BY <1>0, <1>c DEF Promises, OwnInv
  <2>2. scoped[r] \in States /\ update - 1 \in Nat
    BY <1>0, Basics
  <2>3. ~ShipState!Newer(scoped[r], scoped[r])
    BY <2>2, NotNewer DEF States
  <2>4. legacy'.repo # r => scoped[r] = {}
    BY <1>0 DEF Promises, OwnInv
  <2>. QED  BY <2>1, <2>3, <2>4
<1>f. UNCHANGED <<AllImported, ShipState!Active>>
  BY <1>0 DEF AllImported, ShipState!Active
<1>g. Unpreserved' => legacy' \in l /\ ShipState!Newer(legacy'.state, scoped[legacy'.repo]) /\ legacy'.repo # r
  BY <1>0, <1>e DEF Unpreserved
<1>. HIDE DEF l, r
<1>1. UsedInv'
  BY <1>0, <1>b, <1>f DEF Promises, UsedInv, r
<1>2. OwnInv'
  BY <1>0, <1>a, <1>e DEF Promises, OwnInv, r
<1>h. ~older \/ crashes = 0 => AllImported /\ (Unpreserved' => saved[legacy'.repo] \subseteq legacy'.state)
  BY <1>0, <1>g DEF Promises, HeldInv, l
<1>3. KeptInv'
  BY <1>0, <1>h DEF KeptInv, AllImported
<1>4. HeldInv'
  BY <1>0, <1>a, <1>f, <1>h DEF Promises, HeldInv
<1>5. SyncInv'
  <2>. SUFFICES ASSUME crashes = 0
                PROVE  SyncInv'
    BY <1>0 DEF SyncInv
  <2>1. At({"sync"}) \/ \A x \in Repo : Good(x)'
    <3>1. \/ At({"sync"})
          \/ \A x \in Repo : saved[x] # {} => \E f \in l : f.repo = x /\ saved[x] \subseteq f.state
      BY <1>0 DEF Promises, SyncInv, l
    <3>2. ASSUME \A x \in Repo : saved[x] # {} => \E f \in l : f.repo = x /\ saved[x] \subseteq f.state,
                 NEW x \in Repo
          PROVE  Good(x)'
      BY <1>0, <3>2 DEF Good
    <3>. QED  BY <3>1, <3>2
  <2>. QED  BY <1>0, <1>a, <1>d, <2>1 DEF SyncInv
<1>6. RemovedInv'
  BY <1>0, <1>a, <1>d DEF Promises, RemovedInv, l
<1>7. FenceInv'
  <2>. SUFFICES ASSUME crashes = 0, Cardinality(used) <= 2
                PROVE  FenceInv'
    BY <1>0 DEF FenceInv
  <2>1. At({"sync"}) \/ Alone'
    <3>1. At({"sync"}) \/ ShipState!Active \subseteq {f.repo : f \in l}
      BY <1>0 DEF Promises, FenceInv, l
    <3>2. ASSUME ShipState!Active \subseteq {f.repo : f \in l} PROVE Alone'
      BY <1>0, <1>f, <3>2 DEF Alone
    <3>. QED  BY <3>1, <3>2
  <2>2. Unpreserved' => Alone'
    <3>1. \A a, b, c \in used : a = b \/ a = c \/ b = c
      BY OfTwo DEF Promises, UsedInv
    <3>2. Unpreserved' => legacy'.repo \in used /\ legacy'.repo # r /\ r \notin ShipState!Active
      BY <1>b, <1>e, <1>g DEF ShipState!Active
    <3>3. ShipState!Active \subseteq used
      BY DEF Promises, UsedInv
    <3>. QED  BY <1>0, <1>f, <3>1, <3>2, <3>3 DEF Alone
  <2>. QED  BY <1>0, <1>a, <1>d, <2>1, <2>2 DEF FenceInv
<1>8. SaveInv'
  <2>. SUFFICES ASSUME crashes = 0, NEW q \in Proc, proc'[q].pc = "save",
                       Cardinality(used \cup {proc'[q].repo}) <= 2, legacy'.repo # proc'[q].repo
                PROVE  ShipState!Preserved' \/ Removes'
    BY <1>0 DEF SaveInv
  <2>1. q # p /\ proc'[q] = proc[q] /\ proc[q].repo # r
    BY <1>0, Exclusion DEF r
  <2>2. ~Unpreserved'
    <3>. SUFFICES ASSUME Unpreserved' PROVE FALSE
      OBVIOUS
    <3>1. legacy'.repo \in used /\ legacy'.repo # r
      BY <1>b, <1>g
    <3>2. IsFiniteSet(used \cup {proc[q].repo})
      BY FS_AddElement DEF Promises, UsedInv
    <3>3. \A a, b, c \in used \cup {proc[q].repo} : a = b \/ a = c \/ b = c
      BY <2>1, <3>2, OfTwo
    <3>. QED  BY <1>0, <2>1, <3>1, <3>3
  <2>. QED  BY <2>2 DEF ShipState!Preserved, Unpreserved
<1>. QED  BY <1>1, <1>2, <1>3, <1>4, <1>5, <1>6, <1>7, <1>8 DEF Promises

LEMMA Marks ==
  ASSUME ShipState!ShipStateAssumption, ShipTypes, LocksInv, Promises, NEW p \in Proc, ShipState!Mark(p)
  PROVE  Promises'
<1>. USE DEF Others, ShipState!history, Held, Syncing, Removing
<1>. DEFINE r == proc[p].repo
<1>. DEFINE many == Cardinality(proc[p].list) > 1
<1>0. /\ proc[p].pc = "mark" /\ UNCHANGED <<scoped, ShipState!history>> /\ marker' = many
      /\ r \in Repo /\ r \in used /\ (Moves(p, "act") \/ Moves(p, "end"))
      /\ many => legacy'.repo = "none" /\ legacy'.state = {}
      /\ ~many => legacy' = legacy /\ Cardinality(proc[p].list) <= 1
  <2>1. proc[p].pc = "mark" /\ r \in Repo /\ r \in used /\ proc[p].then \in {"act", "end"}
    BY Basics DEF ShipState!Mark, Promises, UsedInv
  <2>2. Moves(p, "act") \/ Moves(p, "end")
    <3>1. PICK c \in {"act", "end"} : c = proc[p].then
      BY <2>1
    <3>2. ShipState!Goes(p, c)
      BY <3>1 DEF ShipState!Mark
    <3>. QED  BY <3>1, <3>2, GoesMoves
  <2>3. Cardinality(proc[p].list) \in Nat
    BY FS_CardinalityType DEF Promises, UsedInv
  <2>4. /\ many => legacy'.repo = "none" /\ legacy'.state = {}
        /\ ~many => legacy' = legacy /\ Cardinality(proc[p].list) <= 1
    BY <2>3, SameCardinality DEF ShipState!Mark, ShipState!NoFile
  <2>. QED  BY <2>1, <2>2, <2>4, SameCardinality DEF ShipState!Mark
<1>. HIDE DEF many, r
<1>a. \A q \in Proc : proc'[q].pc \notin {"list", "mirror", "mark"}
  BY <1>0, Exclusion DEF Moves
<1>. USE DEF Moves
<1>b. /\ ~many => UNCHANGED <<Unpreserved, Alone>> /\ \A x \in Repo : Good(x) => Good(x)'
      /\ ~many /\ Removes => Removes'
      /\ UNCHANGED <<ShipState!Active, AllImported>>
  BY <1>0 DEF Unpreserved, Alone, ShipState!Active, AllImported, Good, Removes
<1>c. /\ At({"unmirror", "sync"}) => At({"unmirror", "sync", "list", "mirror"})'
      /\ At(Removing) => At(Removing)'
  BY <1>0 DEF At
<1>1. UsedInv'
  BY <1>0, <1>b DEF Promises, UsedInv
<1>2. OwnInv'
  BY <1>a DEF OwnInv
<1>3. KeptInv'
  BY <1>0, <1>b DEF Promises, HeldInv, KeptInv, AllImported
<1>4. HeldInv'
  BY <1>0, <1>a, <1>b DEF Promises, HeldInv
<1>5. SyncInv'
  <2>1. crashes = 0 /\ ~many => At({"unmirror", "sync"}) \/ \A x \in Repo : Good(x)
    BY <1>0 DEF Promises, SyncInv
  <2>. QED  BY <1>0, <1>a, <1>b, <1>c, <2>1 DEF SyncInv
<1>6. RemovedInv'
  BY <1>0, <1>a, <1>c DEF Promises, RemovedInv
<1>7. FenceInv'
  <2>. SUFFICES ASSUME crashes = 0, Cardinality(used) <= 2
                PROVE  FenceInv'
    BY <1>0 DEF FenceInv
  <2>1. ~many => /\ Alone \/ Removes \/ At({"unmirror", "sync"})
                 /\ Unpreserved => Alone \/ Removes
    BY <1>0 DEF Promises, FenceInv
  <2>. QED  BY <1>0, <1>a, <1>b, <1>c, <2>1 DEF FenceInv
<1>8. SaveInv'
  <2>. SUFFICES ASSUME crashes = 0, NEW q \in Proc, proc'[q].pc = "save",
                       Cardinality(used \cup {proc'[q].repo}) <= 2, legacy'.repo # proc'[q].repo
                PROVE  ShipState!Preserved' \/ Removes'
    BY <1>0 DEF SaveInv
  <2>1. q # p /\ proc'[q] = proc[q] /\ proc[q].repo # r
    BY <1>0, Exclusion DEF r
  <2>2. ~Unpreserved'
    <3>. SUFFICES ASSUME Unpreserved' PROVE FALSE
      OBVIOUS
    <3>1. ~many /\ legacy' = legacy /\ Unpreserved
      BY <1>0, <1>b DEF Unpreserved
    <3>2. legacy.repo \in used /\ legacy.repo # r
      BY <1>0, <3>1, Basics DEF Promises, UsedInv, OwnInv, Unpreserved, r
    <3>3. IsFiniteSet(used \cup {proc[q].repo})
      BY FS_AddElement DEF Promises, UsedInv
    <3>4. \A a, b, c \in used \cup {proc[q].repo} : a = b \/ a = c \/ b = c
      BY <2>1, <3>3, OfTwo
    <3>. QED  BY <1>0, <2>1, <3>1, <3>2, <3>4
  <2>. QED  BY <2>2 DEF ShipState!Preserved, Unpreserved
<1>. QED  BY <1>1, <1>2, <1>3, <1>4, <1>5, <1>6, <1>7, <1>8 DEF Promises

\* With the fence nobody is in an operation, and the mirror is the whole story.
LEMMA Fence ==
  ASSUME ShipState!ShipStateAssumption, ShipTypes, LocksInv, Promises, sharers = {}
  PROVE  /\ \A p \in Proc : proc[p].pc \notin Held
         /\ crashes = 0 => marker \/ \A x \in Repo : Good(x)
         /\ crashes = 0 /\ Cardinality(used) <= 1 => legacy.state \cap removed = {}
         /\ crashes = 0 /\ Cardinality(used) <= 2 => marker \/ Alone
<1>1. \A p \in Proc : proc[p].pc \notin Held
  BY Exclusion
<1>2. ~At({"unmirror", "sync", "list", "mirror"}) /\ ~At(Removing) /\ ~Removes
  BY <1>1 DEF At, Removes, Held, Syncing, Removing
<1>. QED  BY <1>1, <1>2 DEF Promises, SyncInv, RemovedInv, FenceInv

\* While nobody is in an operation, the rest follows from a few facts.
LEMMA NobodyThere ==
  ASSUME \A p \in Proc : proc'[p].pc \notin (Held \ {"import"}), UsedInv', KeptInv',
         crashes' = 0 => marker' \/ \A x \in Repo : Good(x)',
         crashes' = 0 /\ Cardinality(used') <= 1 =>
           legacy'.state \cap removed' = {} /\ \A x \in Repo : scoped'[x] \cap removed' = {},
         crashes' = 0 /\ Cardinality(used') <= 2 => marker' \/ Alone'
  PROVE  Promises'
<1>. USE DEF Held, Syncing, Removing
<1>1. OwnInv'
  BY DEF OwnInv
<1>2. HeldInv'
  BY DEF HeldInv
<1>3. SyncInv'
  BY DEF SyncInv
<1>4. RemovedInv'
  BY DEF RemovedInv
<1>5. FenceInv'
  BY DEF FenceInv
<1>6. SaveInv'
  BY DEF SaveInv
<1>. QED  BY <1>1, <1>2, <1>3, <1>4, <1>5, <1>6 DEF Promises

LEMMA Migrates ==
  ASSUME ShipState!ShipStateAssumption, ShipTypes, LocksInv, Promises, NEW p \in Proc, ShipState!Migrate(p)
  PROVE  Promises'
<1>. USE DEF Others, ShipState!history, Held, Syncing, Removing
<1>. DEFINE x == legacy.repo
<1>0. /\ proc[p].pc = "migrate" /\ Moves(p, "fence") /\ UNCHANGED <<legacy, marker, ShipState!history>> /\ sharers = {}
  BY GoesMoves DEF ShipState!Migrate
<1>a. /\ \A y \in Repo : y # x \/ ShipState!Preserved => scoped'[y] = scoped[y]
      /\ ~ShipState!Preserved => /\ x \in Repo /\ scoped'[x] = legacy.state /\ ~marker /\ Unpreserved
                                 /\ ~ShipState!Newer(legacy.state, scoped'[x]) /\ legacy.state # {}
  <2>1. legacy.state \in States /\ update - 1 \in Nat /\ (legacy.state # {} => x \in Repo)
    BY Basics
  <2>2. ~ShipState!Newer(legacy.state, legacy.state)
    BY <2>1, NotNewer DEF States
  <2>3. ~ShipState!Preserved => ~marker /\ Unpreserved /\ x \in Repo /\ legacy.state # {}
    BY <2>1 DEF ShipState!Preserved, Unpreserved
  <2>. QED  BY <2>2, <2>3 DEF ShipState!Migrate, ShipTypes
<1>b. ~ShipState!Preserved => ~Unpreserved'
  BY <1>0, <1>a DEF Unpreserved
<1>c. \A q \in Proc : proc'[q].pc \notin (Held \ {"import"})
  BY <1>0, Fence DEF Moves
<1>1. UsedInv'
  <2>1. ShipState!Active' \subseteq used
    <3>1. ~ShipState!Preserved => x \in used
      BY <1>a, Basics DEF Promises, UsedInv
    <3>. QED  BY <1>0, <1>a, <3>1 DEF Promises, UsedInv, ShipState!Active
  <2>. QED  BY <1>0, <1>c, <2>1 DEF Promises, UsedInv, Moves
<1>2. KeptInv'
  <2>1. CASE ShipState!Preserved
    BY <1>0, <1>a, <2>1 DEF Promises, KeptInv, ShipState!Preserved, Unpreserved
  <2>2. CASE ~ShipState!Preserved
    BY <1>0, <1>a, <1>b, <2>2 DEF Promises, KeptInv
  <2>. QED  BY <2>1, <2>2
<1>3. crashes' = 0 => marker' \/ \A y \in Repo : Good(y)'
  BY <1>0, Fence DEF Good
<1>4. crashes' = 0 /\ Cardinality(used') <= 1 =>
        legacy'.state \cap removed' = {} /\ \A y \in Repo : scoped'[y] \cap removed' = {}
  BY <1>0, <1>a, Fence DEF Promises, RemovedInv
<1>5. crashes' = 0 /\ Cardinality(used') <= 2 => marker' \/ Alone'
  BY <1>0, <1>a, Fence DEF Alone, ShipState!Active
<1>. QED  BY <1>c, <1>1, <1>2, <1>3, <1>4, <1>5, NobodyThere

LEMMA OldSaves ==
  ASSUME ShipState!ShipStateAssumption, ShipTypes, LocksInv, Promises, NEW r \in Repo, ShipState!OldSave(r)
  PROVE  Promises'
<1>. USE DEF Held, Syncing, Removing
<1>0. /\ sharers = {} /\ legacy.repo \in {r, "none"} /\ UNCHANGED <<scoped, marker, proc, removed, crashes>>
      /\ legacy'.repo = r /\ legacy'.state = legacy.state \cup {update} /\ older' = TRUE /\ used' = used \cup {r}
      /\ marker => saved' = saved
      /\ ~marker => saved'[r] = saved[r] \cup {update} /\ \A x \in Repo : x # r => saved'[x] = saved[x]
  BY DEF ShipState!OldSave, ShipTypes
<1>a. \A p \in Proc : proc'[p].pc \notin (Held \ {"import"})
  BY <1>0, Fence
<1>b. r # "none" /\ update \notin removed /\ (legacy.repo = "none" => legacy.state = {})
  BY Basics
<1>c. ShipState!Newer(legacy'.state, scoped[r])
  <2>1. legacy.state \in States /\ scoped[r] \in States /\ update - 1 \in Nat /\ update = (update - 1) + 1
    BY Basics
  <2>2. ShipState!Newer(legacy.state \cup {(update - 1) + 1}, scoped[r])
    <3>. HIDE <1>0
    <3>. QED  BY <2>1, NewerFacts DEF States
  <2>. QED  BY <1>0, <2>1, <2>2
<1>d. crashes = 0 /\ ~marker => saved[r] \subseteq legacy.state
  BY <1>0, Fence DEF Good
<1>e. /\ IsFiniteSet(used')
      /\ \A n \in Nat : Cardinality(used') <= n => Cardinality(used) <= n
  <2>1. IsFiniteSet(used) /\ IsFiniteSet(used') /\ used \in SUBSET used'
    BY <1>0, FS_AddElement DEF Promises, UsedInv
  <2>2. Cardinality(used) <= Cardinality(used') /\ Cardinality(used) \in Nat /\ Cardinality(used') \in Nat
    BY <2>1, FS_Subset, FS_CardinalityType
  <2>. QED  BY <2>1, <2>2
<1>1. UsedInv'
  BY <1>0, <1>a, <1>e DEF Promises, UsedInv, ShipState!Active
<1>2. KeptInv'
  <2>1. Unpreserved'
    BY <1>0, <1>c DEF Unpreserved
  <2>2. CASE marker
    BY <1>0, <2>2 DEF Promises, KeptInv
  <2>3. CASE ~marker
    BY <1>0, <1>b, <1>d, <2>1, <2>3 DEF Promises, KeptInv
  <2>. QED  BY <2>2, <2>3
<1>3. crashes' = 0 => marker' \/ \A x \in Repo : Good(x)'
  BY <1>0, <1>b, <1>d DEF Good
<1>4. crashes' = 0 /\ Cardinality(used') <= 1 =>
        legacy'.state \cap removed' = {} /\ \A x \in Repo : scoped'[x] \cap removed' = {}
  <2>. SUFFICES ASSUME crashes = 0, Cardinality(used') <= 1
                PROVE  legacy'.state \cap removed' = {} /\ \A x \in Repo : scoped'[x] \cap removed' = {}
    BY <1>0
  <2>1. Cardinality(used) <= 1
    BY <1>e
  <2>. QED  BY <1>0, <1>b, <2>1, Fence DEF Promises, RemovedInv
<1>5. crashes' = 0 /\ Cardinality(used') <= 2 => marker' \/ Alone'
  <2>. SUFFICES ASSUME crashes = 0, Cardinality(used') <= 2
                PROVE  marker' \/ Alone'
    BY <1>0
  <2>1. Cardinality(used) <= 2
    BY <1>e
  <2>2. marker \/ Alone
    BY <1>0, <2>1, Fence
  <2>3. "none" \notin ShipState!Active
    BY Basics DEF ShipState!Active
  <2>. QED  BY <1>0, <2>2, <2>3 DEF Alone, ShipState!Active
<1>. QED  BY <1>a, <1>1, <1>2, <1>3, <1>4, <1>5, NobodyThere

-----------------------------------------------------------------------------
LEMMA ShipInit ==
  ASSUME ShipState!ShipStateAssumption, ShipState!Init
  PROVE  ShipInv
<1>. USE DEF ShipState!Init, ShipState!Idle, ShipState!NoFile, ShipState!ShipStateAssumption
<1>1. ShipTypes
  <2>1. {} \in Known /\ 1 \in 1 .. Updates + 1 /\ 0 \in 0 .. ShipKills
    BY DEF Known
  <2>2. ShipState!Idle \in ShipProcs /\ ShipState!Idle.pc = "idle"
    BY <2>1 DEF ShipProcs, Pcs, ShipState!Op
  <2>3. proc \in [Proc -> ShipProcs] /\ \A p \in Proc : proc[p].pc = "idle"
    <3>. HIDE DEF ShipState!Idle
    <3>. QED  BY <2>2
  <2>. QED  BY <2>1, <2>3 DEF ShipTypes, Syncing
<1>2. LocksInv
  BY DEF LocksInv, Held, Syncing, Removing
<1>3. UsedInv
  BY FS_EmptySet DEF UsedInv, ShipState!Active, Syncing, Removing
<1>4. OwnInv /\ KeptInv /\ HeldInv
  BY DEF OwnInv, KeptInv, HeldInv, Held, Syncing, Removing
<1>5. SyncInv /\ RemovedInv /\ SaveInv
  BY DEF SyncInv, Good, RemovedInv, SaveInv
<1>6. FenceInv
  BY DEF FenceInv, Alone, ShipState!Active, Unpreserved
<1>. QED  BY <1>1, <1>2, <1>3, <1>4, <1>5, <1>6 DEF ShipInv, Promises

LEMMA ShipStep ==
  ASSUME ShipState!ShipStateAssumption, ShipInv, [ShipState!Next]_(ShipState!vars)
  PROVE  ShipInv'
<1>. USE DEF ShipInv
<1>1. ShipTypes' /\ LocksInv'
  BY TypesStep, LocksStep
<1>2. ASSUME NEW p \in Proc, ShipState!Check(p) \/ ShipState!LegacyFence(p) \/ ShipState!Lock(p) \/ ShipState!End(p)
      PROVE  Promises'
  <2>1. /\ Others(p) /\ UNCHANGED <<ShipState!files, ShipState!history>> /\ proc'[p].list \in {{}, proc[p].list}
        /\ proc[p].pc \in {"check", "fence", "lock", "end"}
        /\ proc'[p].pc \in {"idle", "fence", "migrate", "lock", "import"}
    <3>1. CASE ShipState!Check(p)
      <4>1. PICK c \in {"fence", "migrate"} : ShipState!Goes(p, c)
        BY <3>1 DEF ShipState!Check
      <4>. QED  BY <3>1, <4>1, GoesMoves DEF ShipState!Check, Moves
    <3>2. CASE ShipState!LegacyFence(p)
      BY <3>2, GoesMoves DEF ShipState!LegacyFence, Moves
    <3>3. CASE ShipState!Lock(p)
      BY <3>3, GoesMoves DEF ShipState!Lock, Moves
    <3>4. CASE ShipState!End(p)
      BY <3>4 DEF ShipState!End, ShipState!Unlocks, Others, ShipState!Idle, ShipTypes
    <3>. QED  BY <1>2, <3>1, <3>2, <3>3, <3>4
  <2>. QED  BY <2>1, QuietStep DEF Held, Syncing, Removing
<1>3. ASSUME NEW p \in Proc, NEW op \in ShipState!Op, NEW r \in Repo, ShipState!Begin(p, op, r)
       PROVE  Promises'
  <2>1. /\ Others(p) /\ UNCHANGED <<ShipState!files, ShipState!history>> /\ proc'[p].list = {}
        /\ proc[p].pc = "idle" /\ proc'[p].pc = "check"
    BY <1>3 DEF ShipState!Begin, Others, ShipState!Idle, ShipTypes
  <2>. QED  BY <2>1, QuietStep DEF Held, Syncing, Removing
<1>4. ASSUME NEW p \in Proc, ShipState!Archive(p) PROVE Promises'
  <2>1. CASE scoped[proc[p].repo] = {} /\ legacy.repo # proc[p].repo
    BY <1>4, <2>1, KeepsAll DEF ShipState!Archive, ShipState!files, ShipState!history
  <2>2. CASE ~(scoped[proc[p].repo] = {} /\ legacy.repo # proc[p].repo)
    BY <1>4, <2>2, RemovesState DEF ShipState!Archive
  <2>. QED  BY <2>1, <2>2
<1>5. ASSUME NEW p \in Proc, ShipState!Cleanup(p) PROVE Promises'
  <2>1. CASE ShipState!Current(proc[p].repo) = {} \/ ShipState!Current(proc[p].repo) # proc[p].state
    BY <1>5, <2>1, KeepsAll DEF ShipState!Cleanup, ShipState!files, ShipState!history
  <2>2. CASE ~(ShipState!Current(proc[p].repo) = {} \/ ShipState!Current(proc[p].repo) # proc[p].state)
    <3>1. scoped[proc[p].repo] # {} \/ legacy.repo = proc[p].repo
      BY <2>2 DEF ShipState!Current
    <3>. QED  BY <1>5, <2>2, <3>1, RemovesState DEF ShipState!Cleanup
  <2>. QED  BY <2>1, <2>2
<1>6. ASSUME NEW p \in Proc, ShipState!Import(p) PROVE Promises'
  BY <1>6, Imports, ImportsNothing
<1>7. ASSUME NEW p \in Proc, ShipState!Mirror(p) PROVE Promises'
  BY <1>7, MirrorsNone, MirrorsOne
<1>8. ASSUME NEW p \in Proc, ShipState!Step(p) PROVE Promises'
  BY <1>2, <1>4, <1>5, <1>6, <1>7, <1>8, Migrates, Reads, Saves, Refused, Unmirrors, Unlinks, Syncs, Lists,
     Marks
     DEF ShipState!Step
<1>9. CASE UNCHANGED ShipState!vars
  BY <1>1, <1>9 DEF ShipState!vars, Promises, UsedInv, OwnInv, KeptInv, HeldInv, SyncInv, RemovedInv,
                    FenceInv, SaveInv,
                    ShipState!Active, AllImported, Unpreserved, At, Good, Removes, Alone, ShipState!Preserved
<1>. QED  BY <1>1, <1>3, <1>8, <1>9, Killed, OldSaves DEF ShipState!Next

LEMMA ShipPromise ==
  ASSUME ShipState!ShipStateAssumption, ShipInv
  PROVE  ShipState!ShipStateSafe
<1>1. ShipState!TypeOK
  <2>1. 1 .. update - 1 \subseteq ShipState!Update
    BY DEF ShipInv, ShipTypes, ShipState!Update, ShipState!ShipStateAssumption
  <2>2. \A r \in Repo : owner[r] # "none" => owner[r] \in sharers
    BY DEF ShipInv, ShipTypes, LocksInv
  <2>3. sharers \subseteq Proc
    BY DEF ShipInv, LocksInv
  <2>. QED  BY <2>1, <2>2, <2>3 DEF ShipInv, ShipTypes, ShipState!TypeOK, Known
<1>2. ShipState!NothingLost
  BY DEF ShipInv, Promises, HeldInv, ShipState!NothingLost, ShipState!Acting, ShipState!Current, Held
<1>3. ShipState!StaysRemoved
  <2>. SUFFICES ASSUME crashes = 0, Cardinality(used) <= 1, NEW p \in Proc, proc[p].pc = "act"
                PROVE  ShipState!Current(proc[p].repo) \cap removed = {}
    BY SameCardinality DEF ShipState!StaysRemoved, ShipState!Acting
  <2>1. CASE legacy.repo = proc[p].repo
    <3>1. \A a, b \in used : a = b
      BY OfOne DEF ShipInv, Promises, UsedInv
    <3>2. ~At(Removing)
      BY <2>1, <3>1, Exclusion, Basics DEF At, ShipInv, Promises, UsedInv, Held, Removing, Syncing
    <3>. QED  BY <3>2, Basics DEF ShipInv, Promises, RemovedInv, ShipState!Current
  <2>2. CASE legacy.repo # proc[p].repo
    BY <2>2, Basics DEF ShipInv, Promises, RemovedInv, ShipState!Current
  <2>. QED  BY <2>1, <2>2
<1>4. ShipState!Fenced
  <2>. SUFFICES ASSUME crashes = 0, Cardinality(used) <= 2, sharers = {}, Cardinality(ShipState!Active) > 1
                PROVE  marker
    BY SameCardinality DEF ShipState!Fenced
  <2>1. ~Alone
    <3>1. IsFiniteSet({legacy.repo}) /\ Cardinality({legacy.repo}) = 1
      BY FS_Singleton
    <3>2. ASSUME ShipState!Active \in SUBSET {legacy.repo} PROVE FALSE
      <4>1. Cardinality(ShipState!Active) <= 1 /\ Cardinality(ShipState!Active) \in Nat
        BY <3>1, <3>2, FS_Subset, FS_CardinalityType
      <4>. QED  BY <4>1
    <3>. QED  BY <3>2 DEF Alone
  <2>. QED  BY <2>1, Fence DEF ShipInv
<1>. QED  BY <1>1, <1>2, <1>3, <1>4 DEF ShipState!ShipStateSafe

LEMMA ShipGoesOn ==
  ASSUME ShipState!ShipStateAssumption, ShipInv
  PROVE  ShipState!OneGoesOn
<1>. SUFFICES ASSUME NEW p \in Proc, proc[p].pc # "idle",
                     \A q \in Proc : proc[q].pc # "idle" => ShipState!Blocked(q)
              PROVE  FALSE
  BY DEF ShipState!OneGoesOn
<1>1. \A q \in Proc : proc[q].pc # "sync"
  <2>. SUFFICES ASSUME NEW q \in Proc, proc[q].pc = "sync" PROVE FALSE
    OBVIOUS
  <2>1. compat \in Proc
    BY DEF ShipState!Blocked, ShipInv, ShipTypes
  <2>. QED  BY <2>1 DEF ShipState!Blocked, ShipInv, LocksInv, Syncing
<1>2. \A q \in Proc : proc[q].pc # "lock"
  <2>. SUFFICES ASSUME NEW q \in Proc, proc[q].pc = "lock" PROVE FALSE
    OBVIOUS
  <2>1. proc[q].repo \in Repo
    BY Basics DEF ShipInv
  <2>2. owner[proc[q].repo] \in Proc
    BY <2>1 DEF ShipState!Blocked, ShipInv, ShipTypes
  <2>3. proc[owner[proc[q].repo]].pc \in Held
    BY <2>1, <2>2 DEF ShipInv, LocksInv
  <2>. QED  BY <1>1, <2>2, <2>3 DEF ShipState!Blocked, Held, Syncing, Removing
<1>3. sharers # {}
  BY <1>1, <1>2 DEF ShipState!Blocked
<1>4. PICK q \in Proc : proc[q].pc \in Held \cup {"lock"}
  BY <1>3 DEF ShipInv, LocksInv
<1>. QED  BY <1>1, <1>2, <1>4 DEF ShipState!Blocked, Held, Syncing, Removing


-----------------------------------------------------------------------------
(* Recovery of absent jobs: queue_absent_recovery.rs. *)

\* The steps of the recovery thread at which it holds the workload lock.
AbsentAdmitted == {"read", "claimed", "saved", "inserted"}

AbsentTypes ==
  /\ rows \in [Absent!Job -> {"absent", "pending", "running", "ended"}]
  /\ envelopes \subseteq Absent!Job /\ stored \subseteq Absent!Job /\ receipts \subseteq Absent!Job
  /\ process \in [Absent!Job -> {"none", "spawned", "waiting", "running", "verdict", "stored"}]
  /\ ship \in [source : Absent!Job \cup {Absent!None}, done : BOOLEAN] /\ drifted \in BOOLEAN
  /\ record \in [status : {"none", "claimed", "enqueued", "needs_agent"},
                source : Absent!Job \cup {Absent!None}, replacement : Absent!Job \cup {Absent!None}]
  /\ plock \in Absent!Job \cup {Absent!None, Absent!Rec} /\ wlock \in Absent!Job \cup {Absent!None, Absent!Rec}
  /\ rec \in [pc : {"idle", "locked", "read", "chosen", "verified", "claimed", "saved", "inserted"},
              seen : [Absent!Job -> {"absent", "pending", "running", "ended"}],
              existing : [status : {"none", "claimed", "enqueued", "needs_agent"},
                          source : Absent!Job \cup {Absent!None}, replacement : Absent!Job \cup {Absent!None}],
              source : Absent!Job \cup {Absent!None}]
  /\ next \in 1 .. RecoveryJobs + 1 /\ copies \in [Absent!Job -> SUBSET Absent!Job]
  /\ losses \in 0 .. Losses /\ kills \in 0 .. RecoveryDeaths

\* Who holds the two locks.
AbsentLocks ==
  /\ plock = Absent!Rec <=> rec.pc # "idle"
  /\ \A j \in Absent!Job : process[j] \in {"running", "verdict", "stored"} <=> plock = j
  /\ wlock = Absent!Rec <=> rec.pc \in AbsentAdmitted

\* A living worker has its receipt; a job that is in line has no worker.
AbsentReceipts ==
  \A j \in Absent!Job : /\ process[j] # "none" => j \in receipts
                        /\ rows[j] = "pending" \/ wlock = j => process[j] = "none"
                        /\ wlock = j => rows[j] = "absent"

\* Nothing has happened under a number that was not taken.
AbsentFresh ==
  /\ \A j \in Absent!Job : j >= next =>
       /\ rows[j] = "absent" /\ process[j] = "none" /\ wlock # j /\ copies[j] = {}
       /\ j \notin stored
  /\ ship.source < next /\ record.source < next /\ record.replacement < next

AbsentClaims ==
  /\ record.status = "none" => record = Absent!NoRecord
  /\ record.status # "none" => record.source \in Absent!Job
  /\ record.status \in {"claimed", "enqueued"} => record.replacement \in Absent!Job
  /\ record.replacement \in Absent!Job => record.source # record.replacement

\* What the thread read is still so.
AbsentReading ==
  /\ rec.pc # "idle" => ship.source \in Absent!Job /\ ~ship.done
  /\ rec.pc = "read" => \A j \in Absent!Job : rec.seen[j] = "absent" => rows[j] = "absent"
  /\ rec.pc \in {"read", "chosen", "verified"} =>
       /\ rec.existing = IF Absent!Matches(record) THEN record ELSE Absent!NoRecord
       /\ rec.source = IF rec.existing = Absent!NoRecord THEN ship.source ELSE rec.existing.source

\* A job that has fallen out of the queue and that nobody is about to enqueue.
AbsentOut(j) == j \in Absent!Job /\ j < next /\ rows[j] = "absent" /\ j \notin stored /\ wlock # j

\* Until the insertion the source, and a replacement once it is claimed, stay out.
AbsentChosen ==
  /\ rec.pc \in {"chosen", "verified"} =>
       /\ AbsentOut(rec.source) /\ rec.existing.status # "needs_agent"
       /\ rec.existing.status = "claimed" => AbsentOut(rec.existing.replacement)
  /\ rec.pc \in {"claimed", "saved"} =>
       /\ record.status = "claimed" /\ record.source = rec.source
       /\ AbsentOut(rec.source) /\ AbsentOut(record.replacement)
  /\ rec.pc = "inserted" => record.status = "claimed"

\* A job that was replaced stays out of the queue for good, and as long as the ship
\* is its own the claim remembers the replacement.
AbsentRetired ==
  \A s \in Absent!Job :
    /\ copies[s] # {} =>
         /\ rows[s] = "absent" /\ process[s] = "none" /\ wlock # s /\ record.replacement # s
         /\ ship.source = s => record.source = s
    /\ record.source = s => copies[s] \subseteq {record.replacement}
    /\ \E r \in Absent!Job : copies[s] \subseteq {r}

AbsentInv ==
  /\ AbsentTypes /\ AbsentLocks /\ AbsentReceipts /\ AbsentFresh /\ AbsentClaims
  /\ AbsentReading /\ AbsentChosen /\ AbsentRetired

\* The numbers: jobs, no job, the recovery thread.
LEMMA AbsentNumbers ==
  ASSUME Absent!RecoveryAssumption
  PROVE  /\ Absent!Job \subseteq Nat \ {0} /\ Absent!None = 0 /\ Absent!Rec \in Nat /\ Absent!Rec # 0 /\ Absent!Rec \notin Absent!Job
         /\ \A n \in 1 .. RecoveryJobs + 1 : n \in Nat /\ (n \in Absent!Job => n + 1 \in 1 .. RecoveryJobs + 1)
         /\ 1 .. Submits \subseteq Absent!Job
         /\ \A n \in 0 .. RecoveryDeaths : n < RecoveryDeaths => n + 1 \in 0 .. RecoveryDeaths
         /\ \A n \in 0 .. Losses : n < Losses => n + 1 \in 0 .. Losses
BY DEF Absent!RecoveryAssumption, Absent!Job, Absent!None, Absent!Rec

\* What the verdicts rest on: "commit" on a claim, "replay" on a source that is in no
\* row and has no outcome, and the same of a replacement that was claimed before.
LEMMA AbsentVerdicts ==
  ASSUME Absent!RecoveryAssumption, AbsentInv, rec.pc = "read"
  PROVE  /\ Absent!Verdict = "commit" => rec.existing.status = "claimed"
         /\ Absent!Verdict = "replay" =>
              /\ rec.existing.status # "needs_agent"
              /\ rec.source \in Absent!Job => rec.seen[rec.source] = "absent" /\ rec.source \notin stored
              /\ rec.existing.status = "claimed" =>
                   /\ rec.seen[rec.existing.replacement] = "absent"
                   /\ rec.existing.replacement \notin stored
<1>1. rec.existing.status \in {"none", "claimed", "enqueued", "needs_agent"}
  BY DEF AbsentInv, AbsentTypes
<1>2. Absent!Verdict = "commit" => Absent!ClaimVerdict = "commit"
  BY DEF Absent!Verdict, Absent!SourceVerdict
<1>3. Absent!ClaimVerdict = "commit" => rec.existing.status = "claimed"
  BY <1>1 DEF Absent!ClaimVerdict
<1>4. Absent!Verdict = "replay" => Absent!ClaimVerdict = "look" /\ Absent!SourceVerdict = "replay"
  BY <1>1 DEF Absent!Verdict, Absent!ClaimVerdict
<1>5. Absent!SourceVerdict = "replay" =>
        /\ rec.source \notin stored \cup Absent!SeenEnded
        /\ Absent!SeenLive \cap (envelopes \cup {rec.source}) = {}
  BY DEF Absent!SourceVerdict
<1>6. rec.source \in Absent!Job /\ Absent!SourceVerdict = "replay" =>
        rec.seen[rec.source] = "absent" /\ rec.source \notin stored
  BY <1>5 DEF Absent!SeenLive, Absent!SeenEnded, AbsentInv, AbsentTypes
<1>7. Absent!ClaimVerdict = "look" /\ rec.existing.status = "claimed" =>
        /\ rec.seen[rec.existing.replacement] = "absent"
        /\ rec.existing.replacement \notin stored
  BY DEF Absent!ClaimVerdict
<1>8. Absent!ClaimVerdict = "look" => rec.existing.status # "needs_agent"
  BY DEF Absent!ClaimVerdict
<1>. QED  BY <1>2, <1>3, <1>4, <1>6, <1>7, <1>8

\* A refusal leaves a claim about the job that owns the ship, and forgets no
\* replacement of it.
LEMMA AbsentFence ==
  ASSUME Absent!RecoveryAssumption, AbsentInv, rec.pc # "idle", Absent!Fence
  PROVE  /\ record' \in [status : {"none", "claimed", "enqueued", "needs_agent"},
                         source : Absent!Job \cup {Absent!None}, replacement : Absent!Job \cup {Absent!None}]
         /\ record'.source < next /\ record'.replacement < next /\ AbsentClaims'
         /\ \A s \in Absent!Job :
              /\ copies[s] # {} =>
                   /\ record'.replacement # s
                   /\ ship.source = s => record'.source = s
              /\ record'.source = s => copies[s] \subseteq {record'.replacement}
<1>. USE AbsentNumbers DEF AbsentInv
<1>1. CASE Absent!Matches(record)
  <2>1. /\ record' = [record EXCEPT !.status = "needs_agent"]
        /\ record'.source = record.source /\ record'.replacement = record.replacement
        /\ record'.status = "needs_agent" /\ record.status # "none"
    BY <1>1 DEF Absent!Fence, Absent!Matches, AbsentTypes
  <2>. QED  BY <2>1 DEF AbsentTypes, AbsentFresh, AbsentClaims, AbsentRetired
<1>2. CASE ~Absent!Matches(record)
  <2>1. /\ record' = [status |-> "needs_agent", source |-> ship.source, replacement |-> Absent!None]
        /\ ship.source \in Absent!Job
    BY <1>2 DEF Absent!Fence, AbsentReading
  <2>2. copies[ship.source] = {}
    BY <1>2, <2>1 DEF Absent!Matches, AbsentRetired, AbsentClaims, Absent!NoRecord, AbsentTypes
  <2>. QED  BY <2>1, <2>2 DEF AbsentTypes, AbsentFresh, AbsentClaims
<1>. QED  BY <1>1, <1>2


\* The thread lets go of its locks, with a claim that forgets nothing.
LEMMA AbsentEnds ==
  ASSUME Absent!RecoveryAssumption, AbsentInv, rec.pc # "idle", Absent!Ends,
         record' \in [status : {"none", "claimed", "enqueued", "needs_agent"},
                      source : Absent!Job \cup {Absent!None}, replacement : Absent!Job \cup {Absent!None}],
         record'.source < next, record'.replacement < next, AbsentClaims',
         \A s \in Absent!Job :
           /\ copies[s] # {} =>
                /\ record'.replacement # s
                /\ ship.source = s => record'.source = s
           /\ record'.source = s => copies[s] \subseteq {record'.replacement},
         receipts' \subseteq receipts, \A j \in Absent!Job \cap receipts : process[j] # "none" => j \in receipts',
         kills' \in 0 .. RecoveryDeaths,
         UNCHANGED <<rows, envelopes, stored, process, ship, drifted, next, copies, losses>>
  PROVE  AbsentInv'
<1>. USE AbsentNumbers DEF AbsentInv, AbsentTypes, Absent!Ends
<1>1. AbsentTypes'
  BY DEF Absent!Idle, Absent!NoRecord
<1>2. rec'.pc = "idle"
  BY DEF Absent!Idle
<1>3. AbsentLocks' /\ AbsentReceipts'
  BY <1>2 DEF AbsentLocks, AbsentAdmitted, AbsentReceipts
<1>4. AbsentFresh' /\ AbsentReading' /\ AbsentChosen'
  BY <1>2 DEF AbsentFresh, AbsentReading, AbsentChosen
<1>5. AbsentRetired'
  BY DEF AbsentRetired
<1>. QED  BY <1>1, <1>3, <1>4, <1>5

\* The same when it refuses.
LEMMA AbsentRefuses ==
  ASSUME Absent!RecoveryAssumption, AbsentInv, rec.pc # "idle", Absent!Fence, Absent!Ends,
         receipts' \subseteq receipts, \A j \in Absent!Job \cap receipts : process[j] # "none" => j \in receipts',
         UNCHANGED <<rows, envelopes, stored, process, ship, drifted, next, copies, losses, kills>>
  PROVE  AbsentInv'
<1>1. kills' \in 0 .. RecoveryDeaths
  BY DEF AbsentInv, AbsentTypes
<1>. HIDE DEF Absent!Fence, Absent!Ends
<1>. QED  BY <1>1, AbsentFence, AbsentEnds

\* A step of a submitter.
LEMMA AbsentKeepsSubmitter ==
  ASSUME Absent!RecoveryAssumption, AbsentInv, Absent!Submitter
  PROVE  AbsentInv'
<1>. USE AbsentNumbers DEF AbsentInv, AbsentTypes
<1>1. ASSUME Absent!SubmitCheck PROVE AbsentInv'
  <2>1. AbsentTypes'
    BY <1>1 DEF Absent!SubmitCheck
  <2>2. AbsentLocks' /\ AbsentReceipts' /\ AbsentFresh' /\ AbsentClaims'
    BY <1>1 DEF Absent!SubmitCheck, AbsentLocks, AbsentAdmitted, AbsentReceipts, AbsentFresh, AbsentClaims,
                Absent!NoRecord
  <2>3. AbsentReading' /\ AbsentChosen' /\ AbsentRetired'
    BY <1>1 DEF Absent!SubmitCheck, AbsentLocks, AbsentAdmitted, AbsentReceipts, AbsentFresh, AbsentReading,
                AbsentChosen, AbsentOut, AbsentRetired, Absent!Matches, Absent!NoRecord
  <2>. QED  BY <2>1, <2>2, <2>3
<1>2. ASSUME NEW j \in Absent!Job, Absent!SubmitSave(j) PROVE AbsentInv'
  <2>1. AbsentTypes'
    BY <1>2 DEF Absent!SubmitSave
  <2>2. AbsentLocks' /\ AbsentReceipts' /\ AbsentFresh' /\ AbsentClaims'
    BY <1>2 DEF Absent!SubmitSave, AbsentLocks, AbsentAdmitted, AbsentReceipts, AbsentFresh, AbsentClaims,
                Absent!NoRecord
  <2>3. AbsentReading' /\ AbsentChosen' /\ AbsentRetired'
    BY <1>2 DEF Absent!SubmitSave, AbsentLocks, AbsentAdmitted, AbsentReceipts, AbsentFresh, AbsentReading,
                AbsentChosen, AbsentOut, AbsentRetired, Absent!Matches, Absent!NoRecord
  <2>. QED  BY <2>1, <2>2, <2>3
<1>3. ASSUME NEW j \in Absent!Job, Absent!SubmitEnqueue(j) PROVE AbsentInv'
  <2>1. AbsentTypes'
    BY <1>3 DEF Absent!SubmitEnqueue
  <2>2. AbsentLocks' /\ AbsentReceipts' /\ AbsentFresh' /\ AbsentClaims'
    BY <1>3 DEF Absent!SubmitEnqueue, AbsentLocks, AbsentAdmitted, AbsentReceipts, AbsentFresh,
                AbsentClaims, Absent!NoRecord
  <2>3. AbsentReading' /\ AbsentChosen' /\ AbsentRetired'
    BY <1>3 DEF Absent!SubmitEnqueue, AbsentLocks, AbsentAdmitted, AbsentReceipts, AbsentFresh,
                AbsentReading,
                AbsentChosen, AbsentOut, AbsentRetired, Absent!Matches, Absent!NoRecord
  <2>. QED  BY <2>1, <2>2, <2>3
<1>4. ASSUME NEW j \in Absent!Job, Absent!SubmitDie(j) PROVE AbsentInv'
  <2>1. AbsentTypes'
    BY <1>4 DEF Absent!SubmitDie
  <2>2. AbsentLocks' /\ AbsentReceipts' /\ AbsentFresh' /\ AbsentClaims'
    BY <1>4 DEF Absent!SubmitDie, AbsentLocks, AbsentAdmitted, AbsentReceipts, AbsentFresh, AbsentClaims,
                Absent!NoRecord
  <2>3. AbsentReading' /\ AbsentChosen' /\ AbsentRetired'
    BY <1>4 DEF Absent!SubmitDie, AbsentLocks, AbsentAdmitted, AbsentReceipts, AbsentFresh, AbsentReading,
                AbsentChosen, AbsentOut, AbsentRetired, Absent!Matches, Absent!NoRecord
  <2>. QED  BY <2>1, <2>2, <2>3
<1>. HIDE DEF AbsentInv, AbsentTypes
<1>. QED  BY <1>1, <1>2, <1>3, <1>4 DEF Absent!Submitter

\* A step of the supervisor.
LEMMA AbsentKeepsSupervisor ==
  ASSUME Absent!RecoveryAssumption, AbsentInv, Absent!Supervisor
  PROVE  AbsentInv'
<1>. USE AbsentNumbers DEF AbsentInv, AbsentTypes
<1>1. ASSUME NEW j \in Absent!Job, Absent!Launch(j) PROVE AbsentInv'
  <2>1. AbsentTypes'
    BY <1>1 DEF Absent!Launch
  <2>2. AbsentLocks' /\ AbsentReceipts' /\ AbsentFresh' /\ AbsentClaims'
    BY <1>1 DEF Absent!Launch, AbsentLocks, AbsentAdmitted, AbsentReceipts, AbsentFresh, AbsentClaims,
                Absent!NoRecord
  <2>3. AbsentReading' /\ AbsentChosen' /\ AbsentRetired'
    BY <1>1 DEF Absent!Launch, AbsentLocks, AbsentAdmitted, AbsentReceipts, AbsentFresh, AbsentReading,
                AbsentChosen, AbsentOut, AbsentRetired, Absent!Matches, Absent!NoRecord
  <2>. QED  BY <2>1, <2>2, <2>3
<1>2. ASSUME NEW j \in Absent!Job, Absent!EndLost(j) PROVE AbsentInv'
  <2>1. AbsentTypes'
    BY <1>2 DEF Absent!EndLost
  <2>2. AbsentLocks' /\ AbsentReceipts' /\ AbsentFresh' /\ AbsentClaims'
    BY <1>2 DEF Absent!EndLost, AbsentLocks, AbsentAdmitted, AbsentReceipts, AbsentFresh, AbsentClaims,
                Absent!NoRecord
  <2>3. AbsentReading' /\ AbsentChosen' /\ AbsentRetired'
    BY <1>2 DEF Absent!EndLost, AbsentLocks, AbsentAdmitted, AbsentReceipts, AbsentFresh, AbsentReading,
                AbsentChosen, AbsentOut, AbsentRetired, Absent!Matches, Absent!NoRecord
  <2>. QED  BY <2>1, <2>2, <2>3
<1>3. ASSUME NEW j \in Absent!Job, Absent!RepairOutcome(j) PROVE AbsentInv'
  <2>1. AbsentTypes'
    BY <1>3 DEF Absent!RepairOutcome
  <2>2. AbsentLocks' /\ AbsentReceipts' /\ AbsentFresh' /\ AbsentClaims'
    BY <1>3 DEF Absent!RepairOutcome, AbsentLocks, AbsentAdmitted, AbsentReceipts, AbsentFresh,
                AbsentClaims, Absent!NoRecord
  <2>3. AbsentReading' /\ AbsentChosen' /\ AbsentRetired'
    BY <1>3 DEF Absent!RepairOutcome, AbsentLocks, AbsentAdmitted, AbsentReceipts, AbsentFresh,
                AbsentReading,
                AbsentChosen, AbsentOut, AbsentRetired, Absent!Matches, Absent!NoRecord
  <2>. QED  BY <2>1, <2>2, <2>3
<1>4. ASSUME NEW j \in Absent!Job, Absent!SweepReceipt(j) PROVE AbsentInv'
  <2>1. AbsentTypes'
    BY <1>4 DEF Absent!SweepReceipt
  <2>2. AbsentLocks' /\ AbsentReceipts' /\ AbsentFresh' /\ AbsentClaims'
    BY <1>4 DEF Absent!SweepReceipt, AbsentLocks, AbsentAdmitted, AbsentReceipts, AbsentFresh,
                AbsentClaims, Absent!NoRecord
  <2>3. AbsentReading' /\ AbsentChosen' /\ AbsentRetired'
    BY <1>4 DEF Absent!SweepReceipt, AbsentLocks, AbsentAdmitted, AbsentReceipts, AbsentFresh,
                AbsentReading,
                AbsentChosen, AbsentOut, AbsentRetired, Absent!Matches, Absent!NoRecord
  <2>. QED  BY <2>1, <2>2, <2>3
<1>. HIDE DEF AbsentInv, AbsentTypes
<1>. QED  BY <1>1, <1>2, <1>3, <1>4 DEF Absent!Supervisor

\* A step of a worker, its death included.
LEMMA AbsentKeepsWorker ==
  ASSUME Absent!RecoveryAssumption, AbsentInv,
         \E j \in Absent!Job : Absent!Worker(j) \/ Absent!WorkerDie(j)
  PROVE  AbsentInv'
<1>. USE AbsentNumbers DEF AbsentInv, AbsentTypes
<1>1. ASSUME NEW j \in Absent!Job, Absent!WorkerRead(j) PROVE AbsentInv'
  <2>1. AbsentTypes'
    BY <1>1 DEF Absent!WorkerRead, Absent!Works
  <2>2. AbsentLocks' /\ AbsentReceipts' /\ AbsentFresh' /\ AbsentClaims'
    BY <1>1 DEF Absent!WorkerRead, Absent!Works, AbsentLocks, AbsentAdmitted, AbsentReceipts, AbsentFresh,
                AbsentClaims, Absent!NoRecord
  <2>3. AbsentReading' /\ AbsentChosen' /\ AbsentRetired'
    BY <1>1 DEF Absent!WorkerRead, Absent!Works, AbsentLocks, AbsentAdmitted, AbsentReceipts, AbsentFresh,
                AbsentReading,
                AbsentChosen, AbsentOut, AbsentRetired, Absent!Matches, Absent!NoRecord
  <2>. QED  BY <2>1, <2>2, <2>3
<1>2. ASSUME NEW j \in Absent!Job, Absent!WorkerBegin(j) PROVE AbsentInv'
  <2>1. AbsentTypes'
    BY <1>2 DEF Absent!WorkerBegin, Absent!Works
  <2>2. AbsentLocks' /\ AbsentReceipts' /\ AbsentFresh' /\ AbsentClaims'
    BY <1>2 DEF Absent!WorkerBegin, Absent!Works, AbsentLocks, AbsentAdmitted, AbsentReceipts, AbsentFresh,
                AbsentClaims, Absent!NoRecord
  <2>3. AbsentReading' /\ AbsentChosen' /\ AbsentRetired'
    BY <1>2 DEF Absent!WorkerBegin, Absent!Works, AbsentLocks, AbsentAdmitted, AbsentReceipts, AbsentFresh,
                AbsentReading,
                AbsentChosen, AbsentOut, AbsentRetired, Absent!Matches, Absent!NoRecord
  <2>. QED  BY <2>1, <2>2, <2>3
<1>3. ASSUME NEW j \in Absent!Job, Absent!WorkerLost(j) PROVE AbsentInv'
  <2>1. AbsentTypes'
    BY <1>3 DEF Absent!WorkerLost, Absent!Works
  <2>2. AbsentLocks' /\ AbsentReceipts' /\ AbsentFresh' /\ AbsentClaims'
    BY <1>3 DEF Absent!WorkerLost, Absent!Works, AbsentLocks, AbsentAdmitted, AbsentReceipts, AbsentFresh,
                AbsentClaims, Absent!NoRecord
  <2>3. AbsentReading' /\ AbsentChosen' /\ AbsentRetired'
    BY <1>3 DEF Absent!WorkerLost, Absent!Works, AbsentLocks, AbsentAdmitted, AbsentReceipts, AbsentFresh,
                AbsentReading,
                AbsentChosen, AbsentOut, AbsentRetired, Absent!Matches, Absent!NoRecord
  <2>. QED  BY <2>1, <2>2, <2>3
<1>4. ASSUME NEW j \in Absent!Job, Absent!WorkerVerdict(j) PROVE AbsentInv'
  <2>1. ship' \in [source : Absent!Job \cup {Absent!None}, done : BOOLEAN]
    BY <1>4 DEF Absent!WorkerVerdict
  <2>2. AbsentTypes'
    BY <1>4, <2>1 DEF Absent!WorkerVerdict, Absent!Works
  <2>3. AbsentLocks' /\ AbsentReceipts' /\ AbsentFresh' /\ AbsentClaims'
    BY <1>4 DEF Absent!WorkerVerdict, Absent!Works, AbsentLocks, AbsentAdmitted, AbsentReceipts,
                AbsentFresh, AbsentClaims, Absent!NoRecord
  <2>4. AbsentReading' /\ AbsentChosen' /\ AbsentRetired'
    BY <1>4 DEF Absent!WorkerVerdict, Absent!Works, AbsentLocks, AbsentAdmitted, AbsentReceipts,
                AbsentFresh, AbsentReading,
                AbsentChosen, AbsentOut, AbsentRetired, Absent!Matches, Absent!NoRecord
  <2>. QED  BY <2>2, <2>3, <2>4
<1>5. ASSUME NEW j \in Absent!Job, Absent!WorkerOutcome(j) PROVE AbsentInv'
  <2>1. AbsentTypes'
    BY <1>5 DEF Absent!WorkerOutcome, Absent!Works
  <2>2. AbsentLocks' /\ AbsentReceipts' /\ AbsentFresh' /\ AbsentClaims'
    BY <1>5 DEF Absent!WorkerOutcome, Absent!Works, AbsentLocks, AbsentAdmitted, AbsentReceipts,
                AbsentFresh, AbsentClaims, Absent!NoRecord
  <2>3. AbsentReading' /\ AbsentChosen' /\ AbsentRetired'
    BY <1>5 DEF Absent!WorkerOutcome, Absent!Works, AbsentLocks, AbsentAdmitted, AbsentReceipts,
                AbsentFresh, AbsentReading,
                AbsentChosen, AbsentOut, AbsentRetired, Absent!Matches, Absent!NoRecord
  <2>. QED  BY <2>1, <2>2, <2>3
<1>6. ASSUME NEW j \in Absent!Job, Absent!WorkerEnd(j) PROVE AbsentInv'
  <2>1. AbsentTypes'
    BY <1>6 DEF Absent!WorkerEnd, Absent!Works
  <2>2. AbsentLocks' /\ AbsentReceipts' /\ AbsentFresh' /\ AbsentClaims'
    BY <1>6 DEF Absent!WorkerEnd, Absent!Works, AbsentLocks, AbsentAdmitted, AbsentReceipts, AbsentFresh,
                AbsentClaims, Absent!NoRecord
  <2>3. AbsentReading' /\ AbsentChosen' /\ AbsentRetired'
    BY <1>6 DEF Absent!WorkerEnd, Absent!Works, AbsentLocks, AbsentAdmitted, AbsentReceipts, AbsentFresh,
                AbsentReading,
                AbsentChosen, AbsentOut, AbsentRetired, Absent!Matches, Absent!NoRecord
  <2>. QED  BY <2>1, <2>2, <2>3
<1>7. ASSUME NEW j \in Absent!Job, Absent!WorkerDie(j) PROVE AbsentInv'
  <2>1. AbsentTypes'
    BY <1>7 DEF Absent!WorkerDie, Absent!Works, Absent!Alive
  <2>2. AbsentLocks' /\ AbsentReceipts' /\ AbsentFresh' /\ AbsentClaims'
    BY <1>7 DEF Absent!WorkerDie, Absent!Works, Absent!Alive, AbsentLocks, AbsentAdmitted, AbsentReceipts,
                AbsentFresh, AbsentClaims, Absent!NoRecord
  <2>3. AbsentReading' /\ AbsentChosen' /\ AbsentRetired'
    BY <1>7 DEF Absent!WorkerDie, Absent!Works, Absent!Alive, AbsentLocks, AbsentAdmitted, AbsentReceipts,
                AbsentFresh, AbsentReading,
                AbsentChosen, AbsentOut, AbsentRetired, Absent!Matches, Absent!NoRecord
  <2>. QED  BY <2>1, <2>2, <2>3
<1>. HIDE DEF AbsentInv, AbsentTypes
<1>. QED  BY <1>1, <1>2, <1>3, <1>4, <1>5, <1>6, <1>7 DEF Absent!Worker

\* Losses, sweeps and drift.
LEMMA AbsentKeepsWorld ==
  ASSUME Absent!RecoveryAssumption, AbsentInv,
         Absent!LoseQueue \/ Absent!Drift \/ \E j \in Absent!Job : Absent!SweepEnvelope(j)
  PROVE  AbsentInv'
<1>. USE AbsentNumbers DEF AbsentInv, AbsentTypes
<1>1. ASSUME Absent!LoseQueue PROVE AbsentInv'
  <2>1. AbsentTypes'
    BY <1>1 DEF Absent!LoseQueue
  <2>2. AbsentLocks' /\ AbsentReceipts' /\ AbsentFresh' /\ AbsentClaims'
    BY <1>1 DEF Absent!LoseQueue, AbsentLocks, AbsentAdmitted, AbsentReceipts, AbsentFresh, AbsentClaims,
                Absent!NoRecord
  <2>3. AbsentReading' /\ AbsentChosen' /\ AbsentRetired'
    BY <1>1 DEF Absent!LoseQueue, AbsentLocks, AbsentAdmitted, AbsentReceipts, AbsentFresh, AbsentReading,
                AbsentChosen, AbsentOut, AbsentRetired, Absent!Matches, Absent!NoRecord
  <2>. QED  BY <2>1, <2>2, <2>3
<1>2. ASSUME NEW j \in Absent!Job, Absent!SweepEnvelope(j) PROVE AbsentInv'
  <2>1. AbsentTypes'
    BY <1>2 DEF Absent!SweepEnvelope
  <2>2. AbsentLocks' /\ AbsentReceipts' /\ AbsentFresh' /\ AbsentClaims'
    BY <1>2 DEF Absent!SweepEnvelope, AbsentLocks, AbsentAdmitted, AbsentReceipts, AbsentFresh,
                AbsentClaims, Absent!NoRecord
  <2>3. AbsentReading' /\ AbsentChosen' /\ AbsentRetired'
    BY <1>2 DEF Absent!SweepEnvelope, AbsentLocks, AbsentAdmitted, AbsentReceipts, AbsentFresh,
                AbsentReading,
                AbsentChosen, AbsentOut, AbsentRetired, Absent!Matches, Absent!NoRecord
  <2>. QED  BY <2>1, <2>2, <2>3
<1>3. ASSUME Absent!Drift PROVE AbsentInv'
  <2>1. AbsentTypes'
    BY <1>3 DEF Absent!Drift
  <2>2. AbsentLocks' /\ AbsentReceipts' /\ AbsentFresh' /\ AbsentClaims'
    BY <1>3 DEF Absent!Drift, AbsentLocks, AbsentAdmitted, AbsentReceipts, AbsentFresh, AbsentClaims,
                Absent!NoRecord
  <2>3. AbsentReading' /\ AbsentChosen' /\ AbsentRetired'
    BY <1>3 DEF Absent!Drift, AbsentLocks, AbsentAdmitted, AbsentReceipts, AbsentFresh, AbsentReading,
                AbsentChosen, AbsentOut, AbsentRetired, Absent!Matches, Absent!NoRecord
  <2>. QED  BY <2>1, <2>2, <2>3
<1>. HIDE DEF AbsentInv, AbsentTypes
<1>. QED  BY <1>1, <1>2, <1>3

\* The recovery thread takes the pull request's lock, reads, and lets go of the
\* workload lock when nothing stands in the way.
LEMMA AbsentKeepsReading ==
  ASSUME Absent!RecoveryAssumption, AbsentInv, Absent!RecLock \/ Absent!RecRead \/ Absent!RecChoose
  PROVE  AbsentInv'
<1>. USE AbsentNumbers DEF AbsentInv, AbsentTypes
<1>1. ASSUME Absent!RecLock PROVE AbsentInv'
  <2>1. AbsentTypes'
    BY <1>1 DEF Absent!RecLock, Absent!Idle, Absent!NoRecord
  <2>2. AbsentLocks' /\ AbsentReceipts' /\ AbsentFresh' /\ AbsentClaims'
    BY <1>1 DEF Absent!RecLock, Absent!Idle, AbsentLocks, AbsentAdmitted, AbsentReceipts, AbsentFresh,
                AbsentClaims, Absent!NoRecord
  <2>3. AbsentReading' /\ AbsentChosen' /\ AbsentRetired'
    BY <1>1 DEF Absent!RecLock, Absent!Idle, AbsentReading, AbsentChosen, AbsentOut, AbsentRetired
  <2>. QED  BY <2>1, <2>2, <2>3
<1>2. ASSUME Absent!RecRead PROVE AbsentInv'
  <2>1. rec' \in [pc : {"idle", "locked", "read", "chosen", "verified", "claimed", "saved", "inserted"},
                  seen : [Absent!Job -> {"absent", "pending", "running", "ended"}],
                  existing : [status : {"none", "claimed", "enqueued", "needs_agent"},
                              source : Absent!Job \cup {Absent!None}, replacement : Absent!Job \cup {Absent!None}],
                  source : Absent!Job \cup {Absent!None}]
    BY <1>2 DEF Absent!RecRead, Absent!NoRecord
  <2>2. AbsentTypes'
    BY <1>2, <2>1 DEF Absent!RecRead
  <2>3. AbsentLocks' /\ AbsentReceipts' /\ AbsentFresh' /\ AbsentClaims'
    BY <1>2 DEF Absent!RecRead, AbsentLocks, AbsentAdmitted, AbsentReceipts, AbsentFresh, AbsentClaims,
                Absent!NoRecord
  <2>4. AbsentReading' /\ AbsentChosen' /\ AbsentRetired'
    BY <1>2 DEF Absent!RecRead, AbsentReading, AbsentChosen, AbsentOut, AbsentRetired, Absent!Matches,
                Absent!NoRecord
  <2>. QED  BY <2>2, <2>3, <2>4
<1>3. ASSUME Absent!RecChoose PROVE AbsentInv'
  <2>1. rec.source \in Absent!Job /\ rec.source < next /\ wlock = Absent!Rec
    BY <1>3 DEF Absent!RecChoose, AbsentReading, AbsentClaims, AbsentFresh, Absent!NoRecord, AbsentLocks,
                AbsentAdmitted
  <2>2. AbsentOut(rec.source)'
    BY <1>3, <2>1, AbsentVerdicts DEF Absent!RecChoose, AbsentReading, AbsentOut
  <2>3. rec.existing.status = "claimed" =>
          rec.existing.replacement \in Absent!Job /\ rec.existing.replacement < next
    BY <1>3 DEF Absent!RecChoose, AbsentReading, AbsentClaims, AbsentFresh, Absent!NoRecord
  <2>4. rec.existing.status = "claimed" => AbsentOut(rec.existing.replacement)'
    BY <1>3, <2>1, <2>3, AbsentVerdicts DEF Absent!RecChoose, AbsentReading, AbsentOut
  <2>5. AbsentChosen'
    BY <1>3, <2>2, <2>4, AbsentVerdicts DEF Absent!RecChoose, AbsentChosen
  <2>6. AbsentTypes' /\ AbsentLocks' /\ AbsentReceipts'
    BY <1>3 DEF Absent!RecChoose, Absent!Alive, AbsentLocks, AbsentAdmitted, AbsentReceipts
  <2>7. AbsentFresh' /\ AbsentClaims'
    BY <1>3 DEF Absent!RecChoose, AbsentFresh, AbsentClaims, Absent!NoRecord
  <2>8. AbsentReading' /\ AbsentRetired'
    BY <1>3 DEF Absent!RecChoose, AbsentReading, AbsentRetired, Absent!Matches, Absent!NoRecord,
                AbsentLocks, AbsentAdmitted
  <2>. QED  BY <2>5, <2>6, <2>7, <2>8
<1>. QED  BY <1>1, <1>2, <1>3

\* The claim is made, or found as it was made before.

LEMMA AbsentKeepsRecClaim ==
  ASSUME Absent!RecoveryAssumption, AbsentInv, Absent!RecClaim
  PROVE  AbsentInv'
<1>. USE AbsentNumbers DEF AbsentInv
<1>1. /\ rec.pc = "verified" /\ rec' = [rec EXCEPT !.pc = "claimed"] /\ wlock = Absent!None /\ wlock' = Absent!Rec
      /\ UNCHANGED <<rows, envelopes, stored, receipts, process, ship, drifted, plock, copies, losses, kills>>
  BY DEF Absent!RecClaim
<1>2. CASE rec.existing.status = "claimed"
  <2>1. record = rec.existing /\ record' = record /\ next' = next
    BY <1>1, <1>2 DEF Absent!RecClaim, AbsentReading, Absent!NoRecord
  <2>2. AbsentTypes' /\ AbsentLocks' /\ AbsentReceipts'
    BY <1>1, <2>1 DEF AbsentTypes, AbsentLocks, AbsentAdmitted, AbsentReceipts
  <2>3. AbsentFresh' /\ AbsentClaims' /\ AbsentReading'
    BY <1>1, <2>1 DEF AbsentTypes, AbsentFresh, AbsentClaims, AbsentReading, Absent!NoRecord
  <2>4. rec.source = record.source
    BY <1>1, <1>2, <2>1 DEF AbsentReading, Absent!NoRecord
  <2>5. AbsentChosen'
    BY <1>1, <1>2, <2>1, <2>4 DEF AbsentTypes, AbsentChosen, AbsentOut
  <2>6. AbsentRetired'
    BY <1>1, <2>1 DEF AbsentTypes, AbsentRetired
  <2>. QED  BY <2>2, <2>3, <2>5, <2>6
<1>3. CASE rec.existing.status # "claimed"
  <2>1. /\ next \in Absent!Job /\ next' = next + 1
        /\ record' = [status |-> "claimed", source |-> rec.source, replacement |-> next]
    BY <1>1, <1>3 DEF Absent!RecClaim
  <2>2. AbsentOut(rec.source) /\ rec.existing.status = "none"
    BY <1>1, <1>3 DEF Absent!RecClaim, AbsentChosen, AbsentTypes
  <2>3. rec.source = ship.source /\ ~Absent!Matches(record)
    BY <1>1, <2>2 DEF AbsentReading, Absent!NoRecord, Absent!Matches, AbsentClaims
  <2>4. copies[rec.source] = {}
    BY <2>2, <2>3 DEF Absent!Matches, AbsentRetired, AbsentClaims, Absent!NoRecord, AbsentTypes, AbsentOut
  <2>5. AbsentTypes' /\ AbsentLocks' /\ AbsentReceipts'
    BY <1>1, <2>1, <2>2 DEF AbsentTypes, AbsentLocks, AbsentAdmitted, AbsentReceipts, AbsentOut
  <2>6. AbsentFresh'
    BY <1>1, <2>1, <2>2 DEF AbsentTypes, AbsentFresh, AbsentOut
  <2>7. AbsentClaims' /\ AbsentReading'
    BY <1>1, <2>1, <2>2 DEF AbsentTypes, AbsentClaims, AbsentReading, AbsentOut
  <2>8. AbsentChosen'
    BY <1>1, <2>1, <2>2 DEF AbsentTypes, AbsentChosen, AbsentOut, AbsentFresh
  <2>9. AbsentRetired'
    BY <1>1, <2>1, <2>2, <2>3, <2>4 DEF AbsentTypes, AbsentRetired, AbsentFresh, AbsentOut
  <2>. QED  BY <2>5, <2>6, <2>7, <2>8, <2>9
<1>. QED  BY <1>2, <1>3

\* The envelope and the insertion: the source is retired.
LEMMA AbsentKeepsEnvelope ==
  ASSUME Absent!RecoveryAssumption, AbsentInv, Absent!RecEnvelope
  PROVE  AbsentInv'
<1>. USE AbsentNumbers DEF AbsentInv, AbsentTypes, Absent!RecEnvelope
<1>1. AbsentTypes'
  BY DEF AbsentChosen, AbsentOut
<1>2. AbsentLocks' /\ AbsentReceipts' /\ AbsentFresh' /\ AbsentClaims'
  BY DEF AbsentLocks, AbsentAdmitted, AbsentReceipts, AbsentFresh, AbsentClaims, Absent!NoRecord
<1>3. AbsentReading' /\ AbsentChosen' /\ AbsentRetired'
  BY DEF AbsentReading, AbsentChosen, AbsentOut, AbsentRetired
<1>. QED  BY <1>1, <1>2, <1>3

LEMMA AbsentKeepsInsert ==
  ASSUME Absent!RecoveryAssumption, AbsentInv, Absent!RecInsert
  PROVE  AbsentInv'
<1>. USE AbsentNumbers DEF AbsentInv, AbsentTypes
<1>1. /\ record.replacement \in Absent!Job /\ rec.source \in Absent!Job /\ record.source = rec.source
      /\ rec.source # record.replacement /\ wlock = Absent!Rec /\ rows[rec.source] = "absent"
      /\ rows[record.replacement] = "absent" /\ record.replacement < next /\ rec.source < next
      /\ record.status = "claimed"
  BY DEF Absent!RecInsert, AbsentClaims, AbsentChosen, AbsentOut, AbsentLocks, AbsentAdmitted
<1>2. \A j \in Absent!Job : process[j] = "none"
  BY DEF Absent!RecInsert, Absent!Receipted, Absent!Alive, AbsentReceipts
<1>3. copies' = [copies EXCEPT ![rec.source] = {record.replacement}]
  <2>1. copies[rec.source] \subseteq {record.replacement}
    BY <1>1 DEF AbsentRetired
  <2>2. copies[rec.source] \cup {record.replacement} = {record.replacement}
    BY <2>1
  <2>. QED  BY <2>2 DEF Absent!RecInsert
<1>4. /\ rows' = [rows EXCEPT ![record.replacement] = "pending"] /\ receipts' = {}
      /\ rec' = [rec EXCEPT !.pc = "inserted"] /\ rec.pc = "saved"
      /\ UNCHANGED <<envelopes, stored, process, ship, drifted, record, plock, wlock, next, losses, kills>>
  BY <1>1 DEF Absent!RecInsert
<1>5. AbsentTypes'
  BY <1>1, <1>3, <1>4
<1>6. AbsentLocks' /\ AbsentReceipts'
  BY <1>1, <1>2, <1>4 DEF AbsentLocks, AbsentAdmitted, AbsentReceipts
<1>7. AbsentFresh' /\ AbsentClaims'
  BY <1>1, <1>3, <1>4 DEF AbsentFresh, AbsentClaims, Absent!NoRecord
<1>8. AbsentReading' /\ AbsentChosen'
  BY <1>1, <1>4 DEF AbsentReading, AbsentChosen
<1>9. AbsentRetired'
  <2>1. ASSUME NEW s \in Absent!Job, copies'[s] # {}
        PROVE  /\ rows'[s] = "absent" /\ process'[s] = "none" /\ wlock' # s /\ record'.replacement # s
               /\ ship'.source = s => record'.source = s
    <3>1. CASE s = rec.source
      BY <1>1, <1>2, <1>4, <3>1
    <3>2. CASE s # rec.source
      BY <1>1, <1>3, <1>4, <2>1, <3>2 DEF AbsentRetired
    <3>. QED  BY <3>1, <3>2
  <2>2. ASSUME NEW s \in Absent!Job
        PROVE  /\ record'.source = s => copies'[s] \subseteq {record'.replacement}
               /\ \E r \in Absent!Job : copies'[s] \subseteq {r}
    BY <1>1, <1>3, <1>4 DEF AbsentRetired
  <2>. QED  BY <2>1, <2>2 DEF AbsentRetired
<1>. QED  BY <1>5, <1>6, <1>7, <1>8, <1>9

\* The thread ends: it leaves the ship alone, refuses, commits or dies.
LEMMA AbsentKeepsEnding ==
  ASSUME Absent!RecoveryAssumption, AbsentInv,
         \/ Absent!RecLeave \/ Absent!RecFence \/ Absent!RecResume \/ Absent!RecVerify \/ Absent!RecOutage
         \/ Absent!RecGone \/ Absent!RecBeaten \/ Absent!RecCommit \/ Absent!RecDie
  PROVE  AbsentInv'
<1>1. /\ receipts \subseteq Absent!Job /\ \A j \in Absent!Job \cap receipts : process[j] # "none" => j \in receipts
      /\ kills \in 0 .. RecoveryDeaths
  BY DEF AbsentInv, AbsentTypes
<1>2. ASSUME UNCHANGED record
      PROVE  /\ record' \in [status : {"none", "claimed", "enqueued", "needs_agent"},
                             source : Absent!Job \cup {Absent!None}, replacement : Absent!Job \cup {Absent!None}]
             /\ record'.source < next /\ record'.replacement < next /\ AbsentClaims'
             /\ \A s \in Absent!Job :
                  /\ copies[s] # {} =>
                       /\ record'.replacement # s
                       /\ ship.source = s => record'.source = s
                  /\ record'.source = s => copies[s] \subseteq {record'.replacement}
  BY <1>2 DEF AbsentInv, AbsentTypes, AbsentFresh, AbsentClaims, Absent!NoRecord, AbsentRetired
<1>3. ASSUME Absent!RecLeave PROVE AbsentInv'
  BY <1>1, <1>2, <1>3, AbsentEnds DEF Absent!RecLeave
<1>4. ASSUME Absent!RecDie PROVE AbsentInv'
  <2>1. kills' \in 0 .. RecoveryDeaths
    BY <1>1, <1>4, AbsentNumbers DEF Absent!RecDie
  <2>. QED  BY <1>1, <1>2, <1>4, <2>1, AbsentEnds DEF Absent!RecDie
<1>5. ASSUME record.status = "claimed", record' = [record EXCEPT !.status = "enqueued"]
      PROVE  /\ record' \in [status : {"none", "claimed", "enqueued", "needs_agent"},
                             source : Absent!Job \cup {Absent!None}, replacement : Absent!Job \cup {Absent!None}]
             /\ record'.source < next /\ record'.replacement < next /\ AbsentClaims'
             /\ \A s \in Absent!Job :
                  /\ copies[s] # {} =>
                       /\ record'.replacement # s
                       /\ ship.source = s => record'.source = s
                  /\ record'.source = s => copies[s] \subseteq {record'.replacement}
  BY <1>5 DEF AbsentInv, AbsentTypes, AbsentFresh, AbsentClaims, Absent!NoRecord, AbsentRetired
<1>6. ASSUME Absent!RecResume PROVE AbsentInv'
  <2>1. record.status = "claimed"
    BY <1>6, AbsentVerdicts DEF Absent!RecResume, AbsentInv, AbsentReading, Absent!NoRecord
  <2>. QED  BY <1>1, <1>5, <1>6, <2>1, AbsentEnds DEF Absent!RecResume
<1>7. ASSUME Absent!RecCommit PROVE AbsentInv'
  <2>1. record.status = "claimed"
    BY <1>7 DEF Absent!RecCommit, AbsentInv, AbsentChosen
  <2>. QED  BY <1>1, <1>5, <1>7, <2>1, AbsentEnds DEF Absent!RecCommit
<1>8. ASSUME Absent!RecFence \/ Absent!RecOutage \/ Absent!RecGone PROVE AbsentInv'
  BY <1>1, <1>8, AbsentRefuses DEF Absent!RecFence, Absent!RecOutage, Absent!RecGone
<1>9. ASSUME Absent!RecBeaten PROVE AbsentInv'
  <2>1. receipts' \subseteq receipts /\ \A j \in Absent!Job \cap receipts : process[j] # "none" => j \in receipts'
    BY <1>9 DEF Absent!RecBeaten, Absent!Alive
  <2>. QED  BY <1>9, <2>1, AbsentRefuses DEF Absent!RecBeaten
<1>10. ASSUME Absent!RecVerify, drifted PROVE AbsentInv'
  BY <1>1, <1>10, AbsentRefuses DEF Absent!RecVerify
<1>11. ASSUME Absent!RecVerify, ~drifted PROVE AbsentInv'
  <2>. USE AbsentNumbers DEF AbsentInv, AbsentTypes
  <2>1. /\ rec.pc = "chosen" /\ rec' = [rec EXCEPT !.pc = "verified"]
        /\ UNCHANGED <<rows, envelopes, stored, receipts, process, ship, drifted, record, plock, wlock,
                       next, copies, losses, kills>>
    BY <1>11 DEF Absent!RecVerify
  <2>2. AbsentTypes' /\ AbsentLocks' /\ AbsentReceipts'
    BY <2>1 DEF AbsentLocks, AbsentAdmitted, AbsentReceipts
  <2>3. AbsentFresh' /\ AbsentClaims' /\ AbsentRetired'
    BY <2>1 DEF AbsentFresh, AbsentClaims, AbsentRetired
  <2>4. AbsentReading' /\ AbsentChosen'
    BY <2>1 DEF AbsentReading, AbsentChosen, AbsentOut, Absent!Matches
  <2>. QED  BY <2>2, <2>3, <2>4
<1>. QED  BY <1>3, <1>4, <1>6, <1>7, <1>8, <1>9, <1>10, <1>11

LEMMA AbsentInit == Absent!RecoveryAssumption /\ Absent!Init => AbsentInv
<1>. SUFFICES ASSUME Absent!RecoveryAssumption, Absent!Init PROVE AbsentInv
  OBVIOUS
<1>. USE AbsentNumbers DEF Absent!Init, Absent!Idle, Absent!NoRecord
<1>1. AbsentTypes
  <2>1. 1 \in 1 .. RecoveryJobs + 1 /\ 0 \in 0 .. Losses /\ 0 \in 0 .. RecoveryDeaths
    BY DEF Absent!RecoveryAssumption
  <2>. QED  BY <2>1 DEF AbsentTypes
<1>2. AbsentLocks /\ AbsentReceipts
  BY DEF AbsentLocks, AbsentAdmitted, AbsentReceipts, Absent!RecoveryAssumption, Absent!Rec
<1>3. AbsentFresh /\ AbsentClaims /\ AbsentReading /\ AbsentChosen
  BY DEF AbsentFresh, AbsentClaims, AbsentReading, AbsentChosen
<1>4. AbsentRetired
  BY DEF AbsentRetired
<1>. QED  BY <1>1, <1>2, <1>3, <1>4 DEF AbsentInv

LEMMA AbsentNext ==
  ASSUME Absent!RecoveryAssumption, AbsentInv, [Absent!Next]_(Absent!vars)
  PROVE  AbsentInv'
<1>1. CASE UNCHANGED Absent!vars
  BY <1>1 DEF Absent!vars, AbsentInv, AbsentTypes, AbsentLocks, AbsentReceipts, AbsentFresh, AbsentClaims,
              AbsentReading, AbsentChosen, AbsentOut, AbsentRetired, Absent!Matches
<1>2. CASE Absent!Next
  BY <1>2, AbsentKeepsSubmitter, AbsentKeepsSupervisor, AbsentKeepsWorker, AbsentKeepsWorld,
     AbsentKeepsReading, AbsentKeepsRecClaim, AbsentKeepsEnvelope, AbsentKeepsInsert, AbsentKeepsEnding
     DEF Absent!Next, Absent!Recovery, Absent!World
<1>. QED  BY <1>1, <1>2

LEMMA SameAbsentCardinality ==
  \A S : Absent!Cardinality(S) = Cardinality(S)
BY Zenon DEF Absent!Cardinality, Cardinality

\* What the invariant says of states.
LEMMA AbsentStates ==
  ASSUME Absent!RecoveryAssumption, AbsentInv
  PROVE  Absent!TypeOK /\ Absent!OneGeneration
<1>. USE AbsentNumbers DEF AbsentInv, AbsentTypes
<1>1. plock \in Absent!Job <=> \E j \in Absent!Alive : process[j] \notin {"spawned", "waiting"}
  BY DEF AbsentLocks, Absent!Alive
<1>2. Absent!TypeOK
  BY <1>1 DEF Absent!TypeOK, AbsentLocks
<1>3. ASSUME NEW s \in Absent!Job PROVE Cardinality(copies[s]) <= 1
  <2>1. PICK r \in Absent!Job : copies[s] \subseteq {r}
    BY DEF AbsentRetired
  <2>2. copies[s] = {} \/ copies[s] = {r}
    BY <2>1
  <2>3. Cardinality({}) = 0 /\ Cardinality({r}) = 1
    BY FS_EmptySet, FS_Singleton, Zenon
  <2>4. Cardinality(copies[s]) \in {0, 1}
    BY <2>2, <2>3, Zenon
  <2>. QED  BY <2>4
<1>. QED  BY <1>2, <1>3, SameAbsentCardinality DEF Absent!OneGeneration

\* What it says of the step that queues a replacement.
LEMMA AbsentReplays ==
  ASSUME Absent!RecoveryAssumption, AbsentInv, [Absent!Next]_(Absent!vars), NEW r \in Absent!Job,
         rec.pc = "saved", rows[r] = "absent", rows'[r] = "pending", r = record.replacement
  PROVE  Absent!Alive = {} /\ Absent!Live = {} /\ ~ship.done /\ {rec.source, r} \cap stored = {}
<1>. USE AbsentNumbers DEF AbsentInv, AbsentTypes
<1>1. wlock = Absent!Rec /\ ~ship.done /\ {rec.source, r} \cap stored = {}
  BY DEF AbsentLocks, AbsentAdmitted, AbsentReading, AbsentChosen, AbsentOut
<1>2. Absent!RecInsert
  <2>1. ~UNCHANGED Absent!vars
    BY DEF Absent!vars
  <2>2. ~Absent!Submitter
    BY <1>1 DEF Absent!Submitter, Absent!SubmitCheck, Absent!SubmitSave, Absent!SubmitEnqueue,
                Absent!SubmitDie
  <2>3. ~Absent!Supervisor
    BY DEF Absent!Supervisor, Absent!Launch, Absent!EndLost, Absent!RepairOutcome, Absent!SweepReceipt
  <2>4. ~\E j \in Absent!Job : Absent!Worker(j)
    BY DEF Absent!Worker, Absent!WorkerRead, Absent!WorkerBegin, Absent!WorkerLost, Absent!WorkerVerdict,
           Absent!WorkerOutcome, Absent!WorkerEnd, Absent!Works
  <2>5. ~Absent!World
    BY DEF Absent!World, Absent!LoseQueue, Absent!Drift, Absent!RecOutage, Absent!RecDie,
           Absent!SweepEnvelope, Absent!WorkerDie, Absent!Works
  <2>6. Absent!Recovery => Absent!RecInsert
    BY DEF Absent!Recovery, Absent!RecLock, Absent!RecRead, Absent!RecLeave, Absent!RecFence,
           Absent!RecResume, Absent!RecChoose, Absent!RecVerify, Absent!RecClaim,
           Absent!RecGone, Absent!RecEnvelope, Absent!RecBeaten, Absent!RecCommit
  <2>. QED  BY <2>1, <2>2, <2>3, <2>4, <2>5, <2>6 DEF Absent!Next
<1>3. Absent!Alive = {}
  BY <1>2 DEF Absent!RecInsert, Absent!Receipted, Absent!Alive, AbsentReceipts
<1>4. Absent!Live = {}
  BY <1>2 DEF Absent!RecInsert, Absent!Owners, Absent!Live
<1>. QED  BY <1>1, <1>3, <1>4

-----------------------------------------------------------------------------
(* Foreground drains: ship.rs and queue_scheduler.rs. *)

\* What the holder of the drain lock does; the steps of its cycle.
DrainCycle == {"top", "cancel", "reap", "start", "collect"}
DrainHolding == {"recover", "persist", "recovered"} \cup DrainCycle
DrainUnborn == {"none", "checked", "refused"}
DrainSteps == DrainHolding \cup DrainUnborn \cup {"waiting", "returned", "error", "dead", "gone"}

DrainTypes ==
  /\ setup \in DrainCases
  /\ jobs \in Drain!Queue /\ outcomes \subseteq Drain!Job /\ drain \in Drain!Job \cup {0}
  /\ copy \in Drain!Queue /\ failed \in BOOLEAN /\ deaths \in 0 .. DrainDeaths /\ unsaved \subseteq Drain!Job
  /\ worker \in [Drain!Job -> {"none"} \cup Drain!Working \cup Drain!Reports]
  /\ cmd \in [Drain!Job -> DrainSteps]
  /\ plan \in [cancel : SUBSET Drain!Job, stale : SUBSET Drain!Job, admit : SUBSET Drain!Job, unknown : BOOLEAN]

\* Who holds the lock, and which jobs have no row yet.
DrainHolder ==
  \A d \in Drain!Job :
    /\ cmd[d] \in DrainHolding <=> drain = d
    /\ cmd[d] \in {"recover", "persist"} => Drain!ScopeOf[d] # "awaited"
    /\ cmd[d] \in DrainUnborn => jobs[d].status = "absent"

\* A thread belongs to a foreground job that was started in this cycle, which cannot
\* be waiting to start; what it writes back revives no row and completes none whose
\* outcome is not stored.
DrainThreads ==
  \A j \in Drain!Job :
    /\ worker[j] # "none" =>
         /\ Drain!Foreground(j) /\ drain # 0 /\ cmd[drain] \in DrainCycle
         /\ Drain!ScopeOf[drain] = "awaited" => j = drain
         /\ jobs[j].status # "pending" /\ cmd[j] \notin DrainUnborn
    /\ worker[j] \in Drain!Working => jobs[j].status # "completed"
    /\ worker[j] \in Drain!Working \ {"begin"} =>
         /\ copy[j].status \in {"running", "absent"}
         /\ copy[j].status = "absent" => jobs[j].status = "absent"
    /\ worker[j] = "finish" => j \in outcomes

\* A plan is about foreground jobs, of an awaited-only command about its own; there
\* is none outside of a pass.
DrainPlan ==
  /\ \A j \in plan.stale \cup plan.admit : Drain!Foreground(j)
  /\ drain # 0 /\ Drain!ScopeOf[drain] = "awaited" => plan.cancel \cup plan.stale \cup plan.admit \subseteq {drain}
  /\ drain = 0 \/ cmd[drain] \notin {"persist", "cancel", "reap", "start"} => plan = Drain!NoPlan

\* Jobs that may run together, in the case c.
DrainApart(c, i, j) ==
  c.claims[i] \cap c.claims[j] = {} /\ ~(c.ship[i] = c.ship[j] /\ c.ship[i] # Drain!NoShip)
DrainFits(c, S) == Drain!Cardinality(S) <= DrainSlots /\ \A i, j \in S : i # j => DrainApart(c, i, j)
DrainRunning(q) == {j \in Drain!Job : q[j].status = "running"}

\* The admitted jobs fit beside what runs, at first without the stale ones.
DrainAdmits ==
  /\ DrainFits(setup, DrainRunning(jobs))
  /\ drain # 0 /\ cmd[drain] \in {"cancel", "reap"} /\ ~plan.unknown =>
       DrainFits(setup, (DrainRunning(jobs) \ plan.stale) \cup plan.admit)
  /\ drain # 0 /\ cmd[drain] = "start" => DrainFits(setup, DrainRunning(jobs) \cup plan.admit)

DrainInv ==
  DrainTypes /\ DrainHolder /\ DrainThreads /\ DrainPlan /\ DrainAdmits /\ Drain!CompletedHasOutcome

-----------------------------------------------------------------------------
\* The cardinality of ForegroundDrain is that of the theorems.
LEMMA SameDrainCardinality ==
  \A S : Drain!Cardinality(S) = Cardinality(S)
BY Zenon DEF Drain!Cardinality, Cardinality

\* Sets of jobs can be counted.
LEMMA DrainFinite ==
  ASSUME Drain!DrainAssumption
  PROVE  /\ Drain!Job \subseteq Nat \ {0} /\ 0 \notin Drain!Job /\ Cardinality({}) = 0
         /\ \A S \in SUBSET Drain!Job :
              /\ Cardinality(S) \in Nat
              /\ \A T \in SUBSET S : Cardinality(T) <= Cardinality(S)
              /\ \A j \in Drain!Job : Cardinality(S) < DrainSlots => Cardinality(S \cup {j}) <= DrainSlots
<1>1. Drain!Job \subseteq Nat \ {0} /\ 0 \notin Drain!Job /\ IsFiniteSet(Drain!Job)
  BY FS_Interval DEF Drain!DrainAssumption, Drain!Job
<1>2. ASSUME NEW S \in SUBSET Drain!Job
      PROVE  /\ Cardinality(S) \in Nat
             /\ \A T \in SUBSET S : Cardinality(T) <= Cardinality(S)
             /\ \A j \in Drain!Job : Cardinality(S) < DrainSlots => Cardinality(S \cup {j}) <= DrainSlots
  <2>1. IsFiniteSet(S)
    BY <1>1, FS_Subset
  <2>2. Cardinality(S) \in Nat
    BY <2>1, FS_CardinalityType
  <2>3. ASSUME NEW T \in SUBSET S PROVE Cardinality(T) <= Cardinality(S)
    BY <2>1, FS_Subset
  <2>4. ASSUME NEW j \in Drain!Job, Cardinality(S) < DrainSlots PROVE Cardinality(S \cup {j}) <= DrainSlots
    <3>1. Cardinality(S \cup {j}) \in {Cardinality(S), Cardinality(S) + 1}
      BY <2>1, FS_AddElement, Zenon
    <3>2. DrainSlots \in Nat
      BY DEF Drain!DrainAssumption
    <3>. QED  BY <2>2, <2>4, <3>1, <3>2
  <2>. QED  BY <2>2, <2>3, <2>4
<1>. QED  BY <1>1, <1>2, FS_EmptySet

LEMMA DrainCounts ==
  ASSUME Drain!DrainAssumption
  PROVE  /\ Drain!Job \subseteq Nat \ {0} /\ 0 \notin Drain!Job /\ Drain!Cardinality({}) = 0
         /\ \A S \in SUBSET Drain!Job :
              /\ Drain!Cardinality(S) \in Nat
              /\ \A T \in SUBSET S : Drain!Cardinality(T) <= Drain!Cardinality(S)
              /\ \A j \in Drain!Job : Drain!Cardinality(S) < DrainSlots => Drain!Cardinality(S \cup {j}) <= DrainSlots
  BY DrainFinite, SameDrainCardinality

\* A set of numbers has a least element.
LEMMA DrainLeast ==
  ASSUME NEW S, S \subseteq Nat, S # {}
  PROVE  \E m \in S : \A k \in S : m <= k
<1>. DEFINE R == {ss \in Nat \X Nat : ss[1] < ss[2]}
<1>1. IsWellFoundedOn(R, Nat)
  <2>1. R = OpToRel(<, Nat)
    BY DEF OpToRel
  <2>. QED  BY <2>1, NatLessThanWellFounded, Zenon
<1>2. PICK m \in S : \A k \in S : ~(<<k, m>> \in R)
  <2>. HIDE DEF R
  <2>. QED  BY <1>1, WFMin, Zenon
<1>3. ASSUME NEW k \in S PROVE m <= k
  <2>1. ~(<<k, m>>[1] < <<k, m>>[2])
    BY <1>2
  <2>. QED  BY <2>1
<1>. QED  BY <1>3

\* Of several jobs one comes last in the queue.
LEMMA DrainLast ==
  ASSUME Drain!DrainAssumption, NEW q \in Drain!Queue, NEW S \in SUBSET Drain!Job, S # {}
  PROVE  \E j \in S : \A i \in S : i = j \/ Drain!Before(q, i, j)
<1>1. \A i \in Drain!Job : q[i].priority \in Nat
  <2>1. SUFFICES ASSUME NEW i \in Drain!Job PROVE q[i].priority \in Nat
    OBVIOUS
  <2>2. q[i] \in Drain!Row /\ DrainPriorities \cup {0} \subseteq Nat
    BY DEF Drain!Queue, Drain!DrainAssumption
  <2>. QED  BY <2>2 DEF Drain!Row
<1>. DEFINE P == {q[i].priority : i \in S}
<1>2. PICK p \in P : \A k \in P : p <= k
  <2>1. P \subseteq Nat /\ P # {}
    BY <1>1
  <2>. HIDE DEF P
  <2>. QED  BY <2>1, DrainLeast
<1>. DEFINE N == {DrainJobs - i : i \in {k \in S : q[k].priority = p}}
<1>3. PICK n \in N : \A k \in N : n <= k
  <2>1. N \subseteq Nat /\ N # {}
    BY <1>2 DEF Drain!Job, Drain!DrainAssumption
  <2>. HIDE DEF N, P
  <2>. QED  BY <2>1, DrainLeast
<1>4. PICK j \in S : q[j].priority = p /\ n = DrainJobs - j
  BY <1>3
<1>5. ASSUME NEW i \in S, i # j PROVE Drain!Before(q, i, j)
  <2>1. q[i].priority >= p /\ q[i].priority \in Nat /\ p \in Nat
    BY <1>1, <1>2, <1>4
  <2>2. q[i].priority = p => DrainJobs - j <= DrainJobs - i
    BY <1>3, <1>4
  <2>3. i \in Nat /\ j \in Nat /\ DrainJobs \in Nat
    BY DEF Drain!Job, Drain!DrainAssumption
  <2>. QED  BY <1>4, <1>5, <2>1, <2>2, <2>3 DEF Drain!Before
<1>. QED  BY <1>5

-----------------------------------------------------------------------------
(* What the queue operations do to the status of rows. *)

\* A row that moved to another place among the ended ones.
DrainAged(r, n) == [r EXCEPT !.age = n]

LEMMA DrainAges ==
  ASSUME NEW r \in Drain!Row, NEW n \in Nat
  PROVE  DrainAged(r, n) \in Drain!Row /\ DrainAged(r, n).status = r.status
  BY DEF Drain!Row, DrainAged

\* The transitions of one row.
LEMMA DrainResults ==
  ASSUME NEW r \in Drain!Row, NEW t \in {"t"}, NEW v \in Drain!Result
  PROVE  Drain!WithResult(r, t, v) \in Drain!Row /\ Drain!WithResult(r, t, v).status = r.status
  BY DEF Drain!Row, Drain!WithResult

LEMMA DrainRows ==
  /\ Drain!Absent \in Drain!Row /\ Drain!Absent.status = "absent"
  /\ \A p \in DrainPriorities : Drain!NewRow(p) \in Drain!Row /\ Drain!NewRow(p).status = "pending"
  /\ \A r \in Drain!Row :
       /\ Drain!Start(r) \in Drain!Row /\ Drain!Start(r).status = "running"
       /\ Drain!Complete(r) \in Drain!Row /\ Drain!Complete(r).status = "completed"
       /\ Drain!CancelWithProof(r, "no-proof") \in Drain!Row /\ Drain!CancelWithProof(r, "no-proof").status = "cancelled"
       /\ Drain!RequestCancelRow(r, "no-proof") \in Drain!Row
       /\ Drain!RequestCancelRow(r, "no-proof").status = IF Drain!Pending(r) THEN "cancelled" ELSE r.status
       /\ Drain!DeferForScheduler(r) \in Drain!Row /\ Drain!DeferForScheduler(r).status = "pending"
       /\ Drain!RecoverRow(r) \in Drain!Row /\ Drain!RecoverRow(r).status = "completed"
<1>1. Drain!Absent \in Drain!Row /\ Drain!Absent.status = "absent"
  BY DEF Drain!Absent, Drain!Row, Drain!NoResults, Drain!Result
<1>2. ASSUME NEW p \in DrainPriorities PROVE Drain!NewRow(p) \in Drain!Row /\ Drain!NewRow(p).status = "pending"
  BY <1>1 DEF Drain!NewRow, Drain!Absent, Drain!Row, Drain!NoResults, Drain!Result, Drain!Live
<1>3. ASSUME NEW r \in Drain!Row
      PROVE  /\ Drain!Start(r) \in Drain!Row /\ Drain!Start(r).status = "running"
             /\ Drain!Complete(r) \in Drain!Row /\ Drain!Complete(r).status = "completed"
             /\ Drain!CancelWithProof(r, "no-proof") \in Drain!Row /\ Drain!CancelWithProof(r, "no-proof").status = "cancelled"
  BY DEF Drain!Row, Drain!Start, Drain!Complete, Drain!CancelWithProof, Drain!Live, Drain!Final
<1>4. ASSUME NEW r \in Drain!Row
      PROVE  /\ Drain!RequestCancelRow(r, "no-proof") \in Drain!Row
             /\ Drain!RequestCancelRow(r, "no-proof").status = IF Drain!Pending(r) THEN "cancelled" ELSE r.status
  BY <1>3 DEF Drain!Row, Drain!RequestCancelRow, Drain!Pending
<1>5. ASSUME NEW r \in Drain!Row
      PROVE  Drain!DeferForScheduler(r) \in Drain!Row /\ Drain!DeferForScheduler(r).status = "pending"
  <2>1. [t \in {"t"} |-> IF r.results[t] \in Drain!TerminalResult
                         THEN r.results[t] ELSE "none"] \in [{"t"} -> Drain!Result]
    BY DEF Drain!TerminalResult, Drain!Result
  <2>. QED  BY <2>1 DEF Drain!Row, Drain!DeferForScheduler, Drain!Live, Drain!Final
<1>6. ASSUME NEW r \in Drain!Row
      PROVE  Drain!RecoverRow(r) \in Drain!Row /\ Drain!RecoverRow(r).status = "completed"
  <2>1. [t \in {"t"} |-> IF r.results[t] = "none" THEN "fail" ELSE r.results[t]] \in [{"t"} -> Drain!Result]
    BY DEF Drain!Row, Drain!Result
  <2>. DEFINE res == [t \in {"t"} |-> IF r.results[t] = "none" THEN "fail" ELSE r.results[t]]
  <2>2. Drain!RecoverRow(r) = [Drain!Complete(r) EXCEPT !.results = res]
    BY DEF Drain!RecoverRow
  <2>. HIDE DEF res
  <2>. QED  BY <2>1, <2>2, <1>3 DEF Drain!Row, res
<1>. QED  BY <1>1, <1>2, <1>3, <1>4, <1>5, <1>6

\* Row i is left as it was, unless it had ended and is trimmed.
DrainSame(q, q2, i) ==
  q2[i].status = q[i].status \/ (q[i].status \in {"completed", "cancelled"} /\ q2[i].status = "absent")

LEMMA DrainTrims ==
  ASSUME NEW q \in Drain!Queue
  PROVE  Drain!TrimTerminal(q) \in Drain!Queue /\ \A i \in Drain!Job : DrainSame(q, Drain!TrimTerminal(q), i)
  BY DrainRows DEF Drain!TrimTerminal, Drain!Queue, DrainSame, Drain!Terminal, Drain!Final

LEMMA DrainCancels ==
  ASSUME Drain!DrainAssumption, NEW q \in Drain!Queue, NEW S \in SUBSET Drain!Job
  PROVE  /\ Drain!CancelAll(q, S, "no-proof") \in Drain!Queue
         /\ \A i \in Drain!Job : Drain!CancelAll(q, S, "no-proof")[i].status
                             = IF i \in S THEN "cancelled" ELSE q[i].status
<1>1. ASSUME NEW i \in Drain!Job
      PROVE  /\ Drain!CancelAll(q, S, "no-proof")[i] \in Drain!Row
             /\ Drain!CancelAll(q, S, "no-proof")[i].status = IF i \in S THEN "cancelled" ELSE q[i].status
  <2>1. q[i] \in Drain!Row /\ q[i].age \in Nat
    BY DEF Drain!Queue, Drain!Row
  <2>2. Drain!Cardinality({k \in S : k > i}) \in Nat /\ q[i].age + Drain!Cardinality(S) \in Nat
    BY <2>1, DrainCounts
  <2>3. CASE i \in S
    <3>1. Drain!CancelAll(q, S, "no-proof")[i]
            = DrainAged(Drain!CancelWithProof(q[i], "no-proof"), Drain!Cardinality({k \in S : k > i}))
      BY <2>3 DEF Drain!CancelAll, DrainAged
    <3>2. Drain!CancelWithProof(q[i], "no-proof") \in Drain!Row /\ Drain!CancelWithProof(q[i], "no-proof").status = "cancelled"
      BY <2>1, DrainRows
    <3>. QED  BY <2>2, <2>3, <3>1, <3>2, DrainAges
  <2>4. CASE i \notin S
    <3>1. Drain!CancelAll(q, S, "no-proof")[i] \in {q[i], DrainAged(q[i], q[i].age + Drain!Cardinality(S))}
      BY <2>4 DEF Drain!CancelAll, DrainAged
    <3>. QED  BY <2>1, <2>2, <2>4, <3>1, DrainAges
  <2>. QED  BY <2>3, <2>4
<1>2. Drain!CancelAll(q, S, "no-proof") \in Drain!Queue
  BY <1>1 DEF Drain!Queue, Drain!CancelAll
<1>. QED  BY <1>1, <1>2

\* Rows are cancelled, and old ones trimmed.
LEMMA DrainReaps ==
  ASSUME Drain!DrainAssumption, NEW q \in Drain!Queue, NEW S \in SUBSET Drain!Job
  PROVE  LET q2 == Drain!TrimTerminal(Drain!CancelAll(q, S, "no-proof"))
         IN  /\ q2 \in Drain!Queue
             /\ \A i \in Drain!Job : /\ i \in S => q2[i].status \in {"cancelled", "absent"}
                                     /\ i \notin S => DrainSame(q, q2, i)
<1>1. /\ Drain!CancelAll(q, S, "no-proof") \in Drain!Queue
      /\ \A i \in Drain!Job : Drain!CancelAll(q, S, "no-proof")[i].status = IF i \in S THEN "cancelled" ELSE q[i].status
  BY DrainCancels
<1>. QED  BY <1>1, DrainTrims DEF DrainSame

LEMMA DrainCancelsPending ==
  ASSUME Drain!DrainAssumption, NEW q \in Drain!Queue, NEW S \in SUBSET Drain!Job
  PROVE  LET q2 == Drain!CancelPending(q, S, "no-proof")
         IN  /\ q2 \in Drain!Queue
             /\ \A i \in Drain!Job :
                  \/ DrainSame(q, q2, i)
                  \/ i \in S /\ q[i].status = "pending" /\ q2[i].status \in {"cancelled", "absent"}
<1>. DEFINE P == {i \in S : Drain!Pending(q[i])}
<1>1. P \in SUBSET Drain!Job /\ \A i \in P : i \in S /\ q[i].status = "pending"
  BY DEF Drain!Pending
<1>2. Drain!CancelPending(q, S, "no-proof") = Drain!TrimTerminal(Drain!CancelAll(q, P, "no-proof"))
  BY DEF Drain!CancelPending
<1>. HIDE DEF P
<1>. QED  BY <1>1, <1>2, DrainReaps

LEMMA DrainWrites ==
  ASSUME NEW q \in Drain!Queue, NEW j \in Drain!Job, NEW r \in Drain!Row
  PROVE  LET q2 == Drain!Update(q, j, r)
         IN  /\ q2 \in Drain!Queue
             /\ \A i \in Drain!Job \ {j} : DrainSame(q, q2, i)
             /\ \/ q2[j].status = r.status
                \/ r.status \in {"completed", "cancelled"} /\ q2[j].status = "absent"
<1>1. ASSUME NEW i \in Drain!Job
      PROVE  /\ Drain!Put(q, j, r)[i] \in Drain!Row
             /\ Drain!Put(q, j, r)[i].status = IF i = j THEN r.status ELSE q[i].status
  <2>1. q[i] \in Drain!Row /\ q[i].age + 1 \in Nat /\ 0 \in Nat
    BY DEF Drain!Queue, Drain!Row
  <2>2. CASE i = j
    <3>1. Drain!Put(q, j, r)[i] = DrainAged(r, 0)
      BY <2>2 DEF Drain!Put, DrainAged
    <3>. QED  BY <2>1, <2>2, <3>1, DrainAges
  <2>3. CASE i # j
    <3>1. Drain!Put(q, j, r)[i] \in {q[i], DrainAged(q[i], q[i].age + 1)}
      BY <2>3 DEF Drain!Put, DrainAged
    <3>. QED  BY <2>1, <2>3, <3>1, DrainAges
  <2>. QED  BY <2>2, <2>3
<1>2. Drain!Put(q, j, r) \in Drain!Queue
  BY <1>1 DEF Drain!Queue, Drain!Put
<1>3. Drain!TrimTerminal(Drain!Put(q, j, r)) \in Drain!Queue /\ \A i \in Drain!Job : DrainSame(Drain!Put(q, j, r), Drain!TrimTerminal(Drain!Put(q, j, r)), i)
  BY <1>2, DrainTrims
<1>. QED  BY <1>1, <1>3 DEF Drain!Update, Drain!Write, DrainSame

LEMMA DrainEnqueues ==
  ASSUME Drain!DrainAssumption, NEW q \in Drain!Queue, NEW j \in Drain!Job, NEW p \in DrainPriorities
  PROVE  LET q2 == Drain!Enqueue(q, j, p)
         IN  /\ q2 \in Drain!Queue /\ q2[j].status = "pending"
             /\ \A i \in Drain!Job \ {j} :
                  \/ q2[i].status = q[i].status
                  \/ q[i].status = "pending" /\ q2[i].status = "cancelled"
<1>1. Drain!Superseded(q, j) \in SUBSET Drain!Job /\ \A i \in Drain!Superseded(q, j) : q[i].status = "pending"
  BY DEF Drain!Superseded, Drain!Pending
<1>2. Drain!NewRow(p) \in Drain!Row /\ Drain!NewRow(p).status = "pending"
  BY DrainRows
<1>3. /\ Drain!CancelAll(q, Drain!Superseded(q, j), "no-proof") \in Drain!Queue
      /\ \A i \in Drain!Job : Drain!CancelAll(q, Drain!Superseded(q, j), "no-proof")[i].status
                          = IF i \in Drain!Superseded(q, j) THEN "cancelled" ELSE q[i].status
  BY <1>1, DrainCancels
<1>. QED  BY <1>1, <1>2, <1>3 DEF Drain!Enqueue, Drain!Queue

LEMMA DrainStarts ==
  ASSUME NEW q \in Drain!Queue, NEW S \in SUBSET Drain!Job
  PROVE  LET q2 == Drain!StartPending(q, S)
         IN  /\ q2 \in Drain!Queue
             /\ \A i \in Drain!Job : q2[i].status = IF i \in S /\ q[i].status = "pending"
                                                    THEN "running" ELSE q[i].status
  BY DrainRows DEF Drain!StartPending, Drain!Queue, Drain!Pending

LEMMA DrainRequeues ==
  ASSUME NEW q \in Drain!Queue, NEW j \in Drain!Job
  PROVE  LET q2 == Drain!RequeueDeferredRunning(q, j)
         IN  /\ q2 \in Drain!Queue /\ \A i \in Drain!Job \ {j} : q2[i].status = q[i].status
             /\ q2[j].status = q[j].status \/ (q[j].status = "running" /\ q2[j].status = "pending")
<1>1. q[j] \in Drain!Row /\ Drain!DeferForScheduler(q[j]) \in Drain!Row /\ Drain!DeferForScheduler(q[j]).status = "pending"
  BY DrainRows DEF Drain!Queue
<1>. QED  BY <1>1 DEF Drain!RequeueDeferredRunning, Drain!Queue, Drain!Running

LEMMA DrainCompletes ==
  ASSUME Drain!DrainAssumption, NEW q \in Drain!Queue, NEW S \in SUBSET Drain!Job
  PROVE  LET q2 == Drain!TrimTerminal(Drain!CompleteAll(q, S))
         IN  /\ q2 \in Drain!Queue
             /\ \A i \in Drain!Job : /\ i \in S => q2[i].status \in {"completed", "absent"}
                                     /\ i \notin S => DrainSame(q, q2, i)
<1>1. ASSUME NEW i \in Drain!Job
      PROVE  /\ Drain!CompleteAll(q, S)[i] \in Drain!Row
             /\ Drain!CompleteAll(q, S)[i].status = IF i \in S THEN "completed" ELSE q[i].status
  <2>1. q[i] \in Drain!Row /\ q[i].age \in Nat
    BY DEF Drain!Queue, Drain!Row
  <2>2. Drain!Cardinality({k \in S : k > i}) \in Nat /\ q[i].age + Drain!Cardinality(S) \in Nat
    BY <2>1, DrainCounts
  <2>3. CASE i \in S
    <3>1. Drain!CompleteAll(q, S)[i] = DrainAged(Drain!RecoverRow(q[i]), Drain!Cardinality({k \in S : k > i}))
      BY <2>3 DEF Drain!CompleteAll, DrainAged
    <3>2. Drain!RecoverRow(q[i]) \in Drain!Row /\ Drain!RecoverRow(q[i]).status = "completed"
      BY <2>1, DrainRows
    <3>. QED  BY <2>2, <2>3, <3>1, <3>2, DrainAges
  <2>4. CASE i \notin S
    <3>1. Drain!CompleteAll(q, S)[i] \in {q[i], DrainAged(q[i], q[i].age + Drain!Cardinality(S))}
      BY <2>4 DEF Drain!CompleteAll, DrainAged
    <3>. QED  BY <2>1, <2>2, <2>4, <3>1, DrainAges
  <2>. QED  BY <2>3, <2>4
<1>2. Drain!CompleteAll(q, S) \in Drain!Queue
  BY <1>1 DEF Drain!Queue, Drain!CompleteAll
<1>. QED  BY <1>1, <1>2, DrainTrims DEF DrainSame

-----------------------------------------------------------------------------
(* Jobs that run together. *)

LEMMA DrainFitsLess ==
  ASSUME Drain!DrainAssumption, NEW c, NEW T \in SUBSET Drain!Job, NEW S \in SUBSET T, DrainFits(c, T)
  PROVE  DrainFits(c, S)
<1>1. Drain!Cardinality(S) \in Nat /\ Drain!Cardinality(T) \in Nat /\ Drain!Cardinality(S) <= Drain!Cardinality(T)
  BY DrainCounts
<1>2. Drain!Cardinality(S) <= DrainSlots
  BY <1>1 DEF DrainFits, Drain!DrainAssumption
<1>. QED  BY <1>2 DEF DrainFits

\* Running jobs and what a pass admits may run together.
LEMMA DrainPasses ==
  ASSUME Drain!DrainAssumption, DrainTypes, DrainFits(setup, DrainRunning(jobs)), NEW d \in Drain!Job,
         NEW ready \in SUBSET (Drain!Schedulable(jobs, d) \ Drain!SupersededShips(jobs, d)),
         NEW greedy \in Drain!Greedy(jobs, d, ready)
  PROVE  DrainFits(setup, Drain!Occupied(jobs, d) \cup greedy)
<1>. DEFINE occ == Drain!Occupied(jobs, d)
<1>1. occ \subseteq DrainRunning(jobs) /\ occ \in SUBSET Drain!Job
  BY DEF Drain!Occupied, DrainRunning, Drain!Running
<1>2. DrainFits(setup, occ)
  <2>1. DrainRunning(jobs) \in SUBSET Drain!Job
    BY DEF DrainRunning
  <2>. QED  BY <1>1, <2>1, DrainFitsLess
<1>3. greedy \in SUBSET Drain!Job /\ greedy \subseteq ready
  BY DEF Drain!Greedy, Drain!Schedulable
<1>4. \A j \in greedy : /\ j \in Drain!Job /\ Drain!Pending(jobs[j]) /\ Drain!Foreground(j)
                        /\ \A i \in occ : ~Drain!SamePr(i, j)
                        /\ \A i \in Drain!Job : ~(i > j /\ Drain!Pending(jobs[i]) /\ Drain!Foreground(i) /\ Drain!SamePr(i, j))
  BY <1>3 DEF Drain!Schedulable, Drain!SupersededShips
<1>5. \A j \in greedy : Drain!Fits(j, occ \cup {i \in greedy : Drain!Before(jobs, i, j)})
  BY <1>3 DEF Drain!Greedy
<1>. HIDE DEF occ
<1>6. \A j \in greedy : /\ \A i \in occ : Drain!ClaimsOf[i] \cap Drain!ClaimsOf[j] = {}
                        /\ \A i \in greedy : Drain!Before(jobs, i, j) => Drain!ClaimsOf[i] \cap Drain!ClaimsOf[j] = {}
                        /\ Drain!Cardinality(occ \cup {i \in greedy : Drain!Before(jobs, i, j)}) < DrainSlots
  BY <1>5 DEF Drain!Fits
<1>7. \A i \in Drain!Job : jobs[i].priority \in Nat /\ i \in Nat
  <2>1. SUFFICES ASSUME NEW i \in Drain!Job PROVE jobs[i].priority \in Nat
    BY DrainCounts
  <2>2. jobs[i] \in Drain!Row /\ DrainPriorities \cup {0} \subseteq Nat
    BY DEF DrainTypes, Drain!Queue, Drain!DrainAssumption
  <2>. QED  BY <2>2 DEF Drain!Row
<1>8. \A i, j \in greedy : i # j => (Drain!Before(jobs, i, j) <=> ~Drain!Before(jobs, j, i))
  BY <1>3, <1>7 DEF Drain!Before
<1>8a. \A i \in greedy : ~Drain!Before(jobs, i, i)
  BY <1>3, <1>7 DEF Drain!Before
<1>9. Drain!Cardinality(occ \cup greedy) <= DrainSlots
  <2>1. CASE greedy = {}
    <3>1. occ \cup greedy = occ
      BY <2>1
    <3>. QED  BY <1>2, <3>1 DEF DrainFits
  <2>2. CASE greedy # {}
    <3>1. PICK j \in greedy : \A i \in greedy : i = j \/ Drain!Before(jobs, i, j)
      BY <1>3, <2>2, DrainLast DEF DrainTypes
    <3>. DEFINE early == occ \cup {i \in greedy : Drain!Before(jobs, i, j)}
    <3>2. early \in SUBSET Drain!Job /\ occ \cup greedy = early \cup {j}
      BY <1>1, <1>3, <3>1
    <3>3. Drain!Cardinality(early) < DrainSlots /\ j \in Drain!Job
      BY <1>3, <1>6
    <3>. HIDE DEF early
    <3>. QED  BY <3>2, <3>3, DrainCounts
  <2>. QED  BY <2>1, <2>2
<1>10. ASSUME NEW i \in occ \cup greedy, NEW j \in occ \cup greedy, i # j
       PROVE  DrainApart(setup, i, j)
  <2>1. CASE i \in occ /\ j \in occ
    BY <1>2, <1>10, <2>1 DEF DrainFits
  <2>2. CASE i \in occ /\ j \in greedy
    BY <1>4, <1>6, <2>2 DEF DrainApart, Drain!SamePr, Drain!ClaimsOf, Drain!ShipOf
  <2>3. CASE i \in greedy /\ j \in occ
    BY <1>4, <1>6, <2>3 DEF DrainApart, Drain!SamePr, Drain!ClaimsOf, Drain!ShipOf
  <2>4. CASE i \in greedy /\ j \in greedy
    <3>1. Drain!ClaimsOf[i] \cap Drain!ClaimsOf[j] = {}
      BY <1>6, <1>8, <1>10, <2>4
    <3>2. ~Drain!SamePr(i, j)
      <4>1. i \in Drain!Job /\ j \in Drain!Job /\ i \in Nat /\ j \in Nat
        BY <1>3, <1>7, <2>4
      <4>2. (i > j => ~Drain!SamePr(i, j)) /\ (j > i => ~Drain!SamePr(j, i))
        BY <1>4, <2>4, <4>1
      <4>. QED  BY <1>10, <4>1, <4>2 DEF Drain!SamePr
    <3>. QED  BY <3>1, <3>2 DEF DrainApart, Drain!SamePr, Drain!ClaimsOf, Drain!ShipOf
  <2>. QED  BY <2>1, <2>2, <2>3, <2>4
<1>. QED  BY <1>9, <1>10 DEF DrainFits, occ

\* What may run beside the running jobs may run beside fewer.
LEMMA DrainWanes ==
  ASSUME Drain!DrainAssumption, DrainTypes, DrainAdmits, setup' = setup,
         DrainRunning(jobs') \subseteq DrainRunning(jobs),
         drain' # 0 /\ cmd'[drain'] \in {"cancel", "reap", "start"} =>
           /\ drain' = drain /\ plan' = plan
           /\ cmd'[drain] = cmd[drain] \/ (cmd[drain] = "cancel" /\ cmd'[drain] = "reap")
  PROVE  DrainAdmits'
<1>1. DrainRunning(jobs) \in SUBSET Drain!Job /\ plan.admit \in SUBSET Drain!Job
  BY DEF DrainRunning, DrainTypes
<1>2. DrainFits(setup, DrainRunning(jobs'))
  BY <1>1, DrainFitsLess DEF DrainAdmits
<1>3. ASSUME drain # 0, cmd[drain] \in {"cancel", "reap"}, ~plan.unknown
      PROVE  DrainFits(setup, (DrainRunning(jobs') \ plan.stale) \cup plan.admit)
  <2>1. (DrainRunning(jobs') \ plan.stale) \cup plan.admit \subseteq (DrainRunning(jobs) \ plan.stale) \cup plan.admit
    OBVIOUS
  <2>2. (DrainRunning(jobs) \ plan.stale) \cup plan.admit \in SUBSET Drain!Job
    BY <1>1
  <2>. QED  BY <1>3, <2>1, <2>2, DrainFitsLess DEF DrainAdmits
<1>4. ASSUME drain # 0, cmd[drain] = "start" PROVE DrainFits(setup, DrainRunning(jobs') \cup plan.admit)
  <2>1. DrainRunning(jobs') \cup plan.admit \subseteq DrainRunning(jobs) \cup plan.admit
    OBVIOUS
  <2>2. DrainRunning(jobs) \cup plan.admit \in SUBSET Drain!Job
    BY <1>1
  <2>. QED  BY <1>4, <2>1, <2>2, DrainFitsLess DEF DrainAdmits
<1>. QED  BY <1>2, <1>3, <1>4 DEF DrainAdmits

-----------------------------------------------------------------------------
(* Steps of everybody but the holder of the lock. *)

\* Row i is as it was, or its job is cancelled or trimmed, or a daemon's job has ended.
DrainQuietRow(i) ==
  \/ jobs'[i].status = jobs[i].status
  \/ jobs[i].status # "absent" /\ jobs'[i].status \in {"cancelled", "absent"}
  \/ ~Drain!Foreground(i) /\ jobs[i].status = "running" /\ jobs'[i].status = "completed"

\* A row appears for a job that had none.
DrainEnters(i) ==
  cmd[i] \in DrainUnborn /\ cmd'[i] \notin DrainUnborn /\ jobs'[i].status = "pending"

\* A step beside the drain: neither the holder nor its plan and threads take part.
DrainAsideStep ==
  /\ setup' = setup /\ drain' = drain /\ plan' = plan /\ failed' = failed
  /\ worker' = worker /\ copy' = copy /\ unsaved' = unsaved /\ deaths' \in deaths .. DrainDeaths
  /\ jobs' \in Drain!Queue /\ outcomes \subseteq outcomes' /\ outcomes' \subseteq Drain!Job
  /\ cmd' \in [Drain!Job -> DrainSteps]
  /\ \A i \in Drain!Job : cmd'[i] = cmd[i] \/ (cmd[i] \notin DrainHolding /\ cmd'[i] \notin DrainHolding)
  /\ \A i \in Drain!Job : cmd'[i] \in DrainUnborn => cmd[i] \in DrainUnborn
  /\ \A i \in Drain!Job : DrainQuietRow(i) \/ DrainEnters(i)

LEMMA DrainAside ==
  ASSUME Drain!DrainAssumption, DrainInv, DrainAsideStep
  PROVE  DrainInv'
<1>. USE DEF DrainInv
<1>1. /\ setup' = setup /\ drain' = drain /\ plan' = plan /\ failed' = failed
      /\ worker' = worker /\ copy' = copy /\ outcomes \subseteq outcomes' /\ unsaved' = unsaved
      /\ \A i \in Drain!Job : cmd'[i] = cmd[i] \/ (cmd[i] \notin DrainHolding /\ cmd'[i] \notin DrainHolding)
      /\ \A i \in Drain!Job : cmd'[i] \in DrainUnborn => cmd[i] \in DrainUnborn
      /\ \A i \in Drain!Job : DrainQuietRow(i) \/ DrainEnters(i)
  BY DEF DrainAsideStep
<1>2. drain \in Drain!Job \cup {0} /\ 0 \notin Drain!Job
  BY DrainCounts DEF DrainTypes
<1>3. drain # 0 => cmd[drain] \in DrainHolding /\ cmd'[drain] = cmd[drain]
  BY <1>1, <1>2 DEF DrainHolder
<1>4. DrainTypes'
  BY DEF DrainTypes, DrainAsideStep, Drain!DrainAssumption
<1>5. DrainHolder'
  BY <1>1, <1>2, <1>3 DEF DrainHolder, DrainQuietRow, DrainEnters, Drain!ScopeOf, DrainHolding, DrainCycle,
                          DrainUnborn
<1>6. ASSUME NEW j \in Drain!Job PROVE worker[j] # "none" => DrainQuietRow(j)
  BY <1>1 DEF DrainThreads, DrainEnters
<1>7. DrainThreads'
  <2>1. ASSUME NEW j \in Drain!Job, worker[j] # "none"
        PROVE  /\ Drain!Foreground(j)' /\ drain' # 0 /\ cmd'[drain'] \in DrainCycle
               /\ Drain!ScopeOf'[drain'] = "awaited" => j = drain'
               /\ jobs'[j].status # "pending" /\ cmd'[j] \notin DrainUnborn
    BY <1>1, <1>3, <1>6, <2>1 DEF DrainThreads, DrainQuietRow, Drain!Foreground, Drain!OwnerOf,
                                  Drain!ScopeOf
  <2>2. ASSUME NEW j \in Drain!Job, worker[j] \in Drain!Working PROVE jobs'[j].status # "completed"
    BY <1>1, <1>6, <2>2 DEF DrainThreads, DrainQuietRow, Drain!Working
  <2>3. ASSUME NEW j \in Drain!Job, worker[j] \in Drain!Working \ {"begin"}
        PROVE  /\ copy'[j].status \in {"running", "absent"}
               /\ copy'[j].status = "absent" => jobs'[j].status = "absent"
    BY <1>1, <1>6, <2>3 DEF DrainThreads, DrainQuietRow, Drain!Working
  <2>4. ASSUME NEW j \in Drain!Job, worker[j] = "finish" PROVE j \in outcomes'
    BY <1>1, <2>4 DEF DrainThreads
  <2>. QED  BY <1>1, <2>1, <2>2, <2>3, <2>4 DEF DrainThreads
<1>8. DrainPlan'
  BY <1>1, <1>2, <1>3 DEF DrainPlan, DrainTypes, Drain!Foreground, Drain!OwnerOf, Drain!ScopeOf
<1>9. DrainAdmits'
  <2>1. DrainRunning(jobs') \subseteq DrainRunning(jobs)
    BY <1>1 DEF DrainRunning, DrainQuietRow, DrainEnters
  <2>. QED  BY <1>1, <1>3, <2>1, DrainWanes
<1>10. Drain!CompletedHasOutcome'
  <2>1. \A j \in Drain!Job : Drain!Foreground(j) /\ jobs'[j].status = "completed" => jobs[j].status = "completed"
    BY <1>1 DEF DrainQuietRow, DrainEnters
  <2>. QED  BY <1>1, <1>3, <2>1 DEF Drain!CompletedHasOutcome, Drain!Foreground, Drain!OwnerOf
<1>. QED  BY <1>4, <1>5, <1>7, <1>8, <1>9, <1>10

\* What becomes of the row of a job when its thread writes.
DrainThreadRow(j) ==
  \/ jobs'[j].status = jobs[j].status
  \/ jobs[j].status # "absent" /\ jobs'[j].status \in {"cancelled", "absent"}
  \/ /\ jobs[j].status = "running" /\ jobs'[j].status = "completed"
     /\ j \in outcomes /\ worker'[j] \notin Drain!Working

\* A step of the thread of job j.
DrainThreadStep(j) ==
  /\ setup' = setup /\ drain' = drain /\ plan' = plan /\ failed' = failed
  /\ cmd' = cmd /\ deaths' = deaths /\ unsaved' = unsaved
  /\ jobs' \in Drain!Queue /\ outcomes \subseteq outcomes' /\ outcomes' \subseteq Drain!Job
  /\ worker[j] # "none" /\ worker' \in [Drain!Job -> {"none"} \cup Drain!Working \cup Drain!Reports]
  /\ copy' \in Drain!Queue
  /\ \A i \in Drain!Job \ {j} : worker'[i] = worker[i] /\ copy'[i] = copy[i] /\ DrainSame(jobs, jobs', i)
  /\ DrainThreadRow(j)
  /\ worker'[j] \in Drain!Working => worker[j] \in Drain!Working
  /\ worker'[j] \in Drain!Working \ {"begin"} =>
       /\ copy'[j].status \in {"running", "absent"}
       /\ copy'[j].status = "absent" => jobs'[j].status = "absent"
  /\ worker'[j] = "finish" => j \in outcomes'

LEMMA DrainThread ==
  ASSUME Drain!DrainAssumption, DrainInv, NEW j \in Drain!Job, DrainThreadStep(j)
  PROVE  DrainInv'
<1>. USE DEF DrainInv
<1>1. /\ setup' = setup /\ drain' = drain /\ plan' = plan /\ cmd' = cmd /\ deaths' = deaths /\ unsaved' = unsaved
      /\ outcomes \subseteq outcomes' /\ worker[j] # "none"
      /\ \A i \in Drain!Job \ {j} : worker'[i] = worker[i] /\ copy'[i] = copy[i] /\ DrainSame(jobs, jobs', i)
      /\ DrainThreadRow(j)
      /\ worker'[j] \in Drain!Working => worker[j] \in Drain!Working
      /\ worker'[j] \in Drain!Working \ {"begin"} =>
           /\ copy'[j].status \in {"running", "absent"}
           /\ copy'[j].status = "absent" => jobs'[j].status = "absent"
      /\ worker'[j] = "finish" => j \in outcomes'
  BY DEF DrainThreadStep
<1>2. drain \in Drain!Job \cup {0} /\ 0 \notin Drain!Job
  BY DrainCounts DEF DrainTypes
<1>4. DrainTypes'
  BY DEF DrainTypes, DrainThreadStep, Drain!DrainAssumption
<1>5. DrainHolder'
  BY <1>1 DEF DrainHolder, DrainThreadRow, DrainSame, Drain!ScopeOf
<1>7. DrainThreads'
  <2>1. ASSUME NEW i \in Drain!Job \ {j}
        PROVE  /\ worker'[i] # "none" =>
                    /\ Drain!Foreground(i)' /\ drain' # 0 /\ cmd'[drain'] \in DrainCycle
                    /\ Drain!ScopeOf'[drain'] = "awaited" => i = drain'
                    /\ jobs'[i].status # "pending" /\ cmd'[i] \notin DrainUnborn
               /\ worker'[i] \in Drain!Working => jobs'[i].status # "completed"
               /\ worker'[i] \in Drain!Working \ {"begin"} =>
                    /\ copy'[i].status \in {"running", "absent"}
                    /\ copy'[i].status = "absent" => jobs'[i].status = "absent"
               /\ worker'[i] = "finish" => i \in outcomes'
    BY <1>1, <2>1 DEF DrainThreads, DrainSame, Drain!Foreground, Drain!OwnerOf, Drain!ScopeOf
  <2>2. /\ Drain!Foreground(j)' /\ drain' # 0 /\ cmd'[drain'] \in DrainCycle
        /\ Drain!ScopeOf'[drain'] = "awaited" => j = drain'
        /\ jobs'[j].status # "pending" /\ cmd'[j] \notin DrainUnborn
    BY <1>1 DEF DrainThreads, DrainThreadRow, Drain!Foreground, Drain!OwnerOf, Drain!ScopeOf
  <2>3. worker'[j] \in Drain!Working => jobs'[j].status # "completed"
    BY <1>1 DEF DrainThreads, DrainThreadRow
  <2>. QED  BY <1>1, <2>1, <2>2, <2>3 DEF DrainThreads
<1>8. DrainPlan'
  BY <1>1 DEF DrainPlan, Drain!Foreground, Drain!OwnerOf, Drain!ScopeOf
<1>9. DrainAdmits'
  <2>1. DrainRunning(jobs') \subseteq DrainRunning(jobs)
    BY <1>1 DEF DrainRunning, DrainThreadRow, DrainSame
  <2>. QED  BY <1>1, <2>1, DrainWanes
<1>10. Drain!CompletedHasOutcome'
  <2>1. \A i \in Drain!Job : jobs'[i].status = "completed" => jobs[i].status = "completed" \/ i \in outcomes
    BY <1>1 DEF DrainThreadRow, DrainSame
  <2>. QED  BY <1>1, <2>1 DEF Drain!CompletedHasOutcome, Drain!Foreground, Drain!OwnerOf
<1>. QED  BY <1>4, <1>5, <1>7, <1>8, <1>9, <1>10

-----------------------------------------------------------------------------
(* Steps of the holder of the lock. *)

\* The job of no other command holds the lock.
LEMMA DrainAlone ==
  ASSUME Drain!DrainAssumption, DrainInv, NEW d \in Drain!Job, cmd[d] \in DrainHolding
  PROVE  /\ drain = d /\ drain # 0
         /\ \A i \in Drain!Job : i # d => cmd[i] \notin DrainHolding
         /\ cmd[d] \notin DrainCycle => \A j \in Drain!Job : worker[j] = "none"
  BY DrainCounts DEF DrainInv, DrainHolder, DrainThreads

\* A step of the holder d, to w, that starts no job and has no completed job
\* without an outcome.
DrainHolderStep(d, w) ==
  /\ setup' = setup /\ drain' \in {d, 0} /\ deaths' = deaths /\ failed' \in BOOLEAN
  /\ unsaved \subseteq unsaved' /\ unsaved' \subseteq Drain!Job
  /\ cmd' = [cmd EXCEPT ![d] = w] /\ w \in DrainSteps \ DrainUnborn /\ (w \in DrainHolding <=> drain' = d)
  /\ w \in {"recover", "persist"} => Drain!ScopeOf[d] # "awaited"
  /\ jobs' \in Drain!Queue
  /\ \A i \in Drain!Job : jobs[i].status = "absent" => jobs'[i].status = "absent"
  /\ outcomes \subseteq outcomes' /\ outcomes' \subseteq Drain!Job
  /\ plan' \in [cancel : SUBSET Drain!Job, stale : SUBSET Drain!Job, admit : SUBSET Drain!Job, unknown : BOOLEAN]

LEMMA DrainHolds ==
  ASSUME Drain!DrainAssumption, DrainInv, NEW d \in Drain!Job, NEW w, DrainHolderStep(d, w),
         cmd[d] \in DrainHolding \/ (drain = 0 /\ cmd[d] = "waiting")
  PROVE  /\ DrainHolder' /\ cmd'[d] = w /\ \A i \in Drain!Job : i # d => cmd'[i] = cmd[i]
         /\ worker' \in [Drain!Job -> {"none"} \cup Drain!Working \cup Drain!Reports] /\ copy' \in Drain!Queue => DrainTypes'
<1>. USE DEF DrainInv
<1>1. cmd'[d] = w /\ \A i \in Drain!Job : i # d => cmd'[i] = cmd[i]
  BY DEF DrainHolderStep, DrainTypes
<1>2. \A i \in Drain!Job : i # d => cmd[i] \notin DrainHolding /\ drain # i /\ drain' # i
  BY DrainCounts, DrainAlone DEF DrainHolderStep, DrainHolder
<1>3. DrainHolder'
  BY <1>1, <1>2, DrainCounts DEF DrainHolder, DrainHolderStep, Drain!ScopeOf, DrainHolding, DrainCycle,
                                 DrainUnborn
<1>4. ASSUME worker' \in [Drain!Job -> {"none"} \cup Drain!Working \cup Drain!Reports], copy' \in Drain!Queue
      PROVE  DrainTypes'
  BY <1>4 DEF DrainTypes, DrainHolderStep
<1>. QED  BY <1>1, <1>3, <1>4

\* The threads' rows may be cancelled or trimmed.
LEMMA DrainThreadsKept ==
  ASSUME Drain!DrainAssumption, DrainInv, NEW d \in Drain!Job, drain = d, drain' = d, cmd'[d] \in DrainCycle,
         setup' = setup, outcomes' = outcomes, worker' = worker, copy' = copy,
         \A i \in Drain!Job : i # d => cmd'[i] = cmd[i],
         \A i \in Drain!Job : DrainSame(jobs, jobs', i)
           \/ (jobs[i].status \in {"pending", "running"} /\ jobs'[i].status \in {"cancelled", "absent"})
  PROVE  DrainThreads'
<1>1. DrainThreads /\ cmd'[d] \notin DrainUnborn
  BY DEF DrainInv, DrainCycle, DrainUnborn
<1>2. ASSUME NEW j \in Drain!Job
      PROVE  /\ worker'[j] # "none" =>
                  /\ Drain!Foreground(j)' /\ drain' # 0 /\ cmd'[drain'] \in DrainCycle
                  /\ Drain!ScopeOf'[drain'] = "awaited" => j = drain'
                  /\ jobs'[j].status # "pending" /\ cmd'[j] \notin DrainUnborn
             /\ worker'[j] \in Drain!Working => jobs'[j].status # "completed"
             /\ worker'[j] \in Drain!Working \ {"begin"} =>
                  /\ copy'[j].status \in {"running", "absent"}
                  /\ copy'[j].status = "absent" => jobs'[j].status = "absent"
             /\ worker'[j] = "finish" => j \in outcomes'
  BY <1>1, DrainCounts DEF DrainThreads, DrainSame, Drain!Foreground, Drain!OwnerOf, Drain!ScopeOf
<1>. QED  BY <1>2 DEF DrainThreads

\* Threads outside of a cycle: none.
LEMMA DrainNoThreads ==
  ASSUME \A j \in Drain!Job : worker'[j] = "none"
  PROVE  DrainThreads'
  BY DEF DrainThreads, Drain!Working

LEMMA DrainNoPlans ==
  ASSUME plan' = Drain!NoPlan
  PROVE  DrainPlan'
  BY DEF DrainPlan, Drain!NoPlan

LEMMA DrainNoPlanType ==
  /\ Drain!NoPlan \in [cancel : SUBSET Drain!Job, stale : SUBSET Drain!Job, admit : SUBSET Drain!Job, unknown : BOOLEAN]
  /\ \A S \in SUBSET Drain!Job :
       /\ [Drain!NoPlan EXCEPT !.stale = S]
            \in [cancel : SUBSET Drain!Job, stale : SUBSET Drain!Job, admit : SUBSET Drain!Job, unknown : BOOLEAN]
       /\ [Drain!NoPlan EXCEPT !.stale = S].cancel = {} /\ [Drain!NoPlan EXCEPT !.stale = S].stale = S
       /\ [Drain!NoPlan EXCEPT !.stale = S].admit = {}
  BY DEF Drain!NoPlan

\* Completed foreground jobs have their outcome.
LEMMA DrainOutcomes ==
  ASSUME Drain!DrainAssumption, DrainInv, setup' = setup, deaths' = deaths, unsaved' = unsaved, outcomes' = outcomes,
         \A j \in Drain!Job : jobs'[j].status = "completed" => jobs[j].status = "completed",
         drain # 0 => cmd[drain] # "persist"
  PROVE  Drain!CompletedHasOutcome'
  BY DEF DrainInv, Drain!CompletedHasOutcome, Drain!Foreground, Drain!OwnerOf

LEMMA DrainAcquires ==
  ASSUME Drain!DrainAssumption, DrainInv, setup' = setup, NEW d \in Drain!Job, Drain!Acquire(d)
  PROVE  DrainInv'
<1>. DEFINE w == IF Drain!ScopeOf[d] = "cooperative" THEN "recover" ELSE "recovered"
<1>1. DrainTypes /\ plan = Drain!NoPlan /\ \A j \in Drain!Job : worker[j] = "none"
  BY DEF DrainInv, DrainPlan, DrainThreads, Drain!Acquire
<1>2. DrainHolderStep(d, w) /\ drain = 0 /\ cmd[d] = "waiting"
  BY <1>1 DEF DrainTypes, DrainHolderStep, Drain!Acquire, Drain!Goes, DrainSteps, DrainHolding, DrainUnborn
<1>. HIDE DEF w
<1>3. DrainHolder' /\ cmd'[d] = w /\ DrainTypes'
  BY <1>1, <1>2, DrainHolds DEF Drain!Acquire, DrainTypes
<1>4. DrainThreads' /\ DrainPlan'
  BY <1>1, DrainNoThreads, DrainNoPlans DEF Drain!Acquire
<1>5. DrainAdmits'
  BY <1>1, <1>3, DrainWanes DEF Drain!Acquire, w, DrainInv
<1>6. Drain!CompletedHasOutcome'
  BY DrainOutcomes DEF Drain!Acquire
<1>. QED  BY <1>3, <1>4, <1>5, <1>6 DEF DrainInv

LEMMA DrainReturns ==
  ASSUME Drain!DrainAssumption, DrainInv, setup' = setup, NEW d \in Drain!Job, Drain!Return(d)
  PROVE  DrainInv'
<1>. DEFINE w == IF jobs[d].status = "cancelled" \/ d \in outcomes THEN "returned" ELSE "error"
<1>0. DrainTypes
  BY DEF DrainInv
<1>1. CASE drain # d
  <2>1. cmd[d] = "waiting"
    BY <1>1, DrainAlone DEF Drain!Return, DrainHolding
  <2>2. /\ setup' = setup /\ drain' = drain /\ plan' = plan /\ failed' = failed
        /\ worker' = worker /\ copy' = copy /\ jobs' = jobs /\ outcomes' = outcomes /\ deaths' = deaths /\ unsaved' = unsaved
        /\ cmd' = [cmd EXCEPT ![d] = w]
    BY <1>1 DEF Drain!Return, Drain!Goes
  <2>3. w \in {"returned", "error"}
    OBVIOUS
  <2>. HIDE DEF w
  <2>4. DrainAsideStep
    BY <1>0, <2>1, <2>2, <2>3 DEF DrainTypes, DrainAsideStep, DrainQuietRow, DrainSteps, DrainHolding,
                                  DrainCycle, DrainUnborn, Drain!DrainAssumption
  <2>. QED  BY <2>4, DrainAside
<1>2. CASE drain = d
  <2>1. cmd[d] \in DrainHolding /\ cmd[d] = "recovered" /\ d # 0
    BY <1>2, DrainCounts DEF DrainInv, DrainHolder, Drain!Return, DrainHolding, DrainCycle
  <2>2. plan = Drain!NoPlan /\ \A j \in Drain!Job : worker[j] = "none"
    BY <1>2, <2>1, DrainAlone DEF DrainInv, DrainPlan, DrainCycle
  <2>3. DrainHolderStep(d, w)
    BY <1>0, <1>2, <2>1, <2>2 DEF DrainTypes, DrainHolderStep, Drain!Return, Drain!Goes, DrainSteps,
                                  DrainHolding, DrainCycle, DrainUnborn
  <2>. HIDE DEF w
  <2>4. DrainHolder' /\ cmd'[d] = w /\ DrainTypes'
    BY <1>0, <2>1, <2>3, DrainHolds DEF Drain!Return, DrainTypes
  <2>5. DrainThreads' /\ DrainPlan'
    BY <2>2, DrainNoThreads, DrainNoPlans DEF Drain!Return
  <2>6. DrainAdmits'
    BY <1>0, <1>2, DrainWanes DEF Drain!Return, DrainInv
  <2>7. Drain!CompletedHasOutcome'
    BY <1>2, <2>1, DrainOutcomes DEF Drain!Return
  <2>. QED  BY <2>4, <2>5, <2>6, <2>7 DEF DrainInv
<1>. QED  BY <1>1, <1>2

\* The jobs with local targets only are jobs.
LEMMA DrainLocal ==
  ASSUME Drain!DrainAssumption, DrainInv PROVE Drain!Local \subseteq Drain!Job
  BY DEF Drain!DrainAssumption, Drain!Setup, DrainInv, DrainTypes, Drain!Local

LEMMA DrainRecovers ==
  ASSUME Drain!DrainAssumption, DrainInv, setup' = setup, NEW d \in Drain!Job, Drain!Recover(d)
  PROVE  DrainInv'
<1>. DEFINE lost == {j \in Drain!Local : Drain!Running(jobs[j]) /\ Drain!Foreground(j)}
<1>0. DrainTypes /\ lost \in SUBSET Drain!Job /\ jobs \in Drain!Queue /\ Drain!ScopeOf[d] # "awaited"
  BY DrainLocal DEF DrainInv, DrainTypes, DrainHolder, Drain!Recover
<1>1. /\ cmd[d] = "recover" /\ cmd[d] \in DrainHolding /\ cmd[d] \notin DrainCycle
      /\ jobs' = Drain!TrimTerminal(Drain!CompleteAll(jobs, lost)) /\ plan' = [Drain!NoPlan EXCEPT !.stale = lost]
      /\ cmd' = [cmd EXCEPT ![d] = "persist"]
      /\ outcomes' = outcomes /\ drain' = drain /\ failed' = failed /\ worker' = worker
      /\ copy' = copy /\ deaths' = deaths /\ unsaved' = unsaved
  BY DEF Drain!Recover, Drain!Goes, DrainHolding, DrainCycle
<1>2. drain = d /\ d # 0 /\ \A j \in Drain!Job : worker[j] = "none"
  BY <1>1, DrainAlone
<1>3. \A j \in lost : jobs[j].status = "running" /\ Drain!Foreground(j)
  BY DEF Drain!Running
<1>. HIDE DEF lost
<1>4. /\ jobs' \in Drain!Queue
      /\ \A i \in Drain!Job : /\ i \in lost => jobs'[i].status \in {"completed", "absent"}
                              /\ i \notin lost => DrainSame(jobs, jobs', i)
  BY <1>0, <1>1, DrainCompletes
<1>5. /\ plan' \in [cancel : SUBSET Drain!Job, stale : SUBSET Drain!Job, admit : SUBSET Drain!Job, unknown : BOOLEAN]
      /\ plan'.stale = lost /\ plan'.admit = {}
  BY <1>0, <1>1, DrainNoPlanType
<1>6. DrainHolderStep(d, "persist")
  BY <1>0, <1>1, <1>2, <1>3, <1>4, <1>5
     DEF DrainTypes, DrainHolderStep, DrainSame, DrainSteps, DrainHolding, DrainCycle, DrainUnborn
<1>7. DrainHolder' /\ cmd'[d] = "persist" /\ DrainTypes'
  BY <1>0, <1>1, <1>6, DrainHolds DEF DrainTypes
<1>8. DrainThreads'
  BY <1>1, <1>2, DrainNoThreads
<1>9. DrainPlan'
  BY <1>0, <1>1, <1>2, <1>3, <1>5, <1>7 DEF DrainPlan, Drain!Foreground, Drain!OwnerOf, Drain!ScopeOf
<1>10. DrainAdmits'
  <2>1. DrainRunning(jobs') \subseteq DrainRunning(jobs)
    BY <1>4 DEF DrainRunning, DrainSame
  <2>. QED  BY <1>0, <1>1, <1>2, <1>7, <2>1, DrainWanes DEF DrainInv
<1>11. Drain!CompletedHasOutcome'
  <2>1. \A i \in Drain!Job : jobs'[i].status = "completed" => i \in lost \/ jobs[i].status = "completed"
    BY <1>4 DEF DrainSame
  <2>2. \A i \in Drain!Job : Drain!Foreground(i) /\ jobs[i].status = "completed" => i \in outcomes \cup unsaved
    BY <1>1, <1>2 DEF DrainInv, Drain!CompletedHasOutcome
  <2>. QED  BY <1>1, <1>2, <1>5, <1>7, <2>1, <2>2 DEF Drain!CompletedHasOutcome, Drain!Foreground,
               Drain!OwnerOf
<1>. QED  BY <1>7, <1>8, <1>9, <1>10, <1>11 DEF DrainInv

\* The holder is done with storing, or stores the outcome of one recovered job.
LEMMA DrainPersists ==
  ASSUME Drain!DrainAssumption, DrainInv, setup' = setup, NEW d \in Drain!Job, Drain!PersistRecovered(d)
  PROVE  DrainInv'
<1>0. DrainTypes
  BY DEF DrainInv
<1>1. /\ cmd[d] = "persist" /\ cmd[d] \in DrainHolding /\ cmd[d] \notin DrainCycle
      /\ jobs' = jobs /\ drain' = drain /\ failed' = failed /\ worker' = worker
      /\ copy' = copy /\ deaths' = deaths /\ unsaved' = unsaved
  BY DEF Drain!PersistRecovered, DrainHolding, DrainCycle
<1>2. drain = d /\ d # 0 /\ (\A j \in Drain!Job : worker[j] = "none") /\ Drain!ScopeOf[d] # "awaited"
  BY <1>1, DrainAlone DEF DrainInv, DrainHolder
<1>3. ASSUME NEW w \in {"persist", "recovered"}, cmd' = [cmd EXCEPT ![d] = w], DrainPlan',
             plan' \in [cancel : SUBSET Drain!Job, stale : SUBSET Drain!Job, admit : SUBSET Drain!Job, unknown : BOOLEAN],
             outcomes \subseteq outcomes', outcomes' \subseteq Drain!Job,
             \A i \in plan.stale : i \in outcomes' \/ (w = "persist" /\ i \in plan'.stale)
      PROVE  DrainInv'
  <2>1. DrainHolderStep(d, w)
    BY <1>0, <1>1, <1>2, <1>3 DEF DrainTypes, DrainHolderStep, DrainSteps, DrainHolding, DrainCycle,
                                  DrainUnborn
  <2>2. DrainHolder' /\ cmd'[d] = w /\ DrainTypes'
    BY <1>0, <1>1, <2>1, DrainHolds DEF DrainTypes
  <2>3. DrainThreads'
    BY <1>1, <1>2, DrainNoThreads
  <2>4. DrainAdmits'
    BY <1>0, <1>1, <1>2, <2>2, DrainWanes DEF DrainInv
  <2>5. Drain!CompletedHasOutcome'
    BY <1>1, <1>2, <1>3, <2>2 DEF DrainInv, Drain!CompletedHasOutcome, Drain!Foreground, Drain!OwnerOf
  <2>. QED  BY <1>3, <2>2, <2>3, <2>4, <2>5 DEF DrainInv
<1>4. CASE plan.stale = {} /\ plan' = Drain!NoPlan /\ Drain!Goes(d, "recovered") /\ outcomes' = outcomes
  BY <1>0, <1>3, <1>4, DrainNoPlans, DrainNoPlanType DEF DrainTypes, Drain!Goes
<1>5. ASSUME NEW j \in plan.stale,
             outcomes' = outcomes \cup {j}, plan' = [plan EXCEPT !.stale = @ \ {j}], cmd' = cmd
      PROVE  DrainInv'
  <2>1. cmd' = [cmd EXCEPT ![d] = "persist"]
    BY <1>0, <1>1, <1>5 DEF DrainTypes
  <2>2. /\ plan' \in [cancel : SUBSET Drain!Job, stale : SUBSET Drain!Job, admit : SUBSET Drain!Job, unknown : BOOLEAN]
        /\ plan'.stale = plan.stale \ {j} /\ plan'.admit = plan.admit
        /\ outcomes \subseteq outcomes' /\ outcomes' \subseteq Drain!Job
    BY <1>0, <1>5 DEF DrainTypes
  <2>3. DrainPlan'
    BY <1>1, <1>2, <1>5, <2>2 DEF DrainInv, DrainPlan, Drain!Foreground, Drain!OwnerOf, Drain!ScopeOf
  <2>. QED  BY <1>3, <1>5, <2>1, <2>2, <2>3
<1>. QED  BY <1>4, <1>5 DEF Drain!PersistRecovered

\* The holder gives up: what it has not stored is on record as lost.
LEMMA DrainPersistFails ==
  ASSUME Drain!DrainAssumption, DrainInv, setup' = setup, NEW d \in Drain!Job, Drain!PersistFails(d)
  PROVE  DrainInv'
<1>0. DrainTypes
  BY DEF DrainInv
<1>1. /\ cmd[d] = "persist" /\ cmd[d] \in DrainHolding /\ cmd[d] \notin DrainCycle
      /\ outcomes' = outcomes /\ plan' = Drain!NoPlan /\ cmd' = [cmd EXCEPT ![d] = "error"]
      /\ jobs' = jobs /\ drain' = 0 /\ failed' = failed /\ worker' = worker
      /\ copy' = copy /\ deaths' = deaths /\ unsaved' = unsaved \cup plan.stale
  BY DEF Drain!PersistFails, Drain!Goes, DrainHolding, DrainCycle
<1>2. drain = d /\ d # 0 /\ \A j \in Drain!Job : worker[j] = "none"
  BY <1>1, DrainAlone
<1>3. DrainHolderStep(d, "error")
  BY <1>0, <1>1, <1>2, DrainNoPlanType
     DEF DrainTypes, DrainHolderStep, DrainSteps, DrainHolding, DrainCycle, DrainUnborn
<1>4. DrainHolder' /\ DrainTypes'
  BY <1>0, <1>1, <1>3, DrainHolds DEF DrainTypes
<1>5. DrainThreads' /\ DrainPlan'
  BY <1>1, <1>2, DrainNoThreads, DrainNoPlans
<1>6. DrainAdmits'
  BY <1>0, <1>1, DrainWanes DEF DrainInv
<1>7. Drain!CompletedHasOutcome'
  BY <1>1, <1>2 DEF DrainInv, Drain!CompletedHasOutcome, Drain!Foreground, Drain!OwnerOf
<1>. QED  BY <1>4, <1>5, <1>6, <1>7 DEF DrainInv

LEMMA DrainBegins ==
  ASSUME Drain!DrainAssumption, DrainInv, setup' = setup, NEW d \in Drain!Job, Drain!BeginCycle(d)
  PROVE  DrainInv'
<1>0. DrainTypes
  BY DEF DrainInv
<1>1. /\ cmd[d] = "recovered" /\ cmd[d] \in DrainHolding /\ cmd[d] \notin DrainCycle
      /\ jobs' = Drain!TrimTerminal(jobs) /\ cmd' = [cmd EXCEPT ![d] = "top"]
      /\ outcomes' = outcomes /\ drain' = drain /\ failed' = failed /\ worker' = worker
      /\ copy' = copy /\ deaths' = deaths /\ unsaved' = unsaved /\ plan' = plan
  BY DEF Drain!BeginCycle, Drain!Goes, DrainHolding, DrainCycle
<1>2. drain = d /\ d # 0 /\ \A j \in Drain!Job : worker[j] = "none"
  BY <1>1, DrainAlone
<1>3. plan = Drain!NoPlan
  BY <1>1, <1>2 DEF DrainInv, DrainPlan
<1>4. jobs' \in Drain!Queue /\ \A i \in Drain!Job : DrainSame(jobs, jobs', i)
  BY <1>0, <1>1, DrainTrims DEF DrainTypes
<1>5. DrainHolderStep(d, "top")
  BY <1>0, <1>1, <1>2, <1>4
     DEF DrainTypes, DrainHolderStep, DrainSame, DrainSteps, DrainHolding, DrainCycle, DrainUnborn
<1>6. DrainHolder' /\ cmd'[d] = "top" /\ DrainTypes'
  BY <1>0, <1>1, <1>5, DrainHolds DEF DrainTypes
<1>7. DrainThreads' /\ DrainPlan'
  BY <1>1, <1>2, <1>3, DrainNoThreads, DrainNoPlans
<1>8. DrainAdmits'
  <2>1. DrainRunning(jobs') \subseteq DrainRunning(jobs)
    BY <1>4 DEF DrainRunning, DrainSame
  <2>. QED  BY <1>0, <1>1, <1>2, <1>6, <2>1, DrainWanes DEF DrainInv
<1>9. Drain!CompletedHasOutcome'
  BY <1>1, <1>2, <1>4, DrainOutcomes DEF DrainSame
<1>. QED  BY <1>6, <1>7, <1>8, <1>9 DEF DrainInv

\* What a pass plans: about foreground jobs, of an awaited-only command about its own;
\* what it admits fits beside what runs.
LEMMA DrainPlans ==
  ASSUME Drain!DrainAssumption, DrainInv, NEW d \in Drain!Job, NEW late,
         NEW merged \in SUBSET {j \in Drain!MayMerge : Drain!Pending(jobs[j]) /\ Drain!Foreground(j)},
         NEW greedy \in Drain!Greedy(jobs, d, (Drain!Schedulable(jobs, d) \ Drain!SupersededShips(jobs, d)) \ late)
  PROVE  LET p == Drain!Pass(jobs, d, greedy, merged)
         IN  /\ p \in [cancel : SUBSET Drain!Job, stale : SUBSET Drain!Job, admit : SUBSET Drain!Job, unknown : BOOLEAN]
             /\ \A j \in p.stale \cup p.admit : Drain!Foreground(j)
             /\ Drain!ScopeOf[d] = "awaited" => p.cancel \cup p.stale \cup p.admit \subseteq {d}
             /\ ~p.unknown => DrainFits(setup, (DrainRunning(jobs) \ p.stale) \cup p.admit)
<1>. DEFINE p == Drain!Pass(jobs, d, greedy, merged)
            ready == (Drain!Schedulable(jobs, d) \ Drain!SupersededShips(jobs, d)) \ late
<1>1. greedy \subseteq Drain!Schedulable(jobs, d) /\ ready \in SUBSET (Drain!Schedulable(jobs, d) \ Drain!SupersededShips(jobs, d))
  BY DEF Drain!Greedy
<1>2. \A j \in greedy : j \in Drain!Job /\ Drain!Foreground(j)
  BY <1>1 DEF Drain!Schedulable
<1>3. /\ Drain!StaleShips(jobs, d) \in SUBSET Drain!Job /\ \A j \in Drain!StaleShips(jobs, d) : Drain!Foreground(j)
      /\ Drain!ScopeOf[d] = "awaited" => Drain!StaleShips(jobs, d) \subseteq {d}
  BY DEF Drain!StaleShips
<1>4. merged \in SUBSET Drain!Job /\ Drain!SupersededShips(jobs, d) \in SUBSET Drain!Job
  <2>1. Drain!Setup(setup)
    BY DEF DrainInv, DrainTypes, Drain!DrainAssumption
  <2>2. Drain!MayMerge \subseteq Drain!Job
    BY <2>1 DEF Drain!Setup, Drain!MayMerge
  <2>. QED  BY <2>2 DEF Drain!SupersededShips, Drain!Schedulable
<1>5. \A n, S : Drain!First(jobs, n, S) \subseteq S
  BY DEF Drain!First
<1>6. \A S \in SUBSET Drain!Job : /\ Drain!Mine(d, S) \subseteq S
                                  /\ Drain!ScopeOf[d] = "awaited" => Drain!Mine(d, S) \subseteq {d}
  BY DEF Drain!Mine
<1>7. /\ p.cancel = Drain!Mine(d, Drain!SupersededShips(jobs, d) \cup merged) /\ p.stale = Drain!StaleShips(jobs, d)
      /\ p.admit \subseteq Drain!Mine(d, greedy)
      /\ p.unknown = (Drain!Lost(jobs) # {})
  BY <1>5 DEF Drain!Pass
<1>8. p = [cancel |-> p.cancel, stale |-> p.stale, admit |-> p.admit, unknown |-> p.unknown]
  BY DEF Drain!Pass
<1>9. greedy \in SUBSET Drain!Job /\ Drain!SupersededShips(jobs, d) \cup merged \in SUBSET Drain!Job
  BY <1>2, <1>4
<1>10. p.cancel \in SUBSET Drain!Job /\ p.stale \in SUBSET Drain!Job /\ p.admit \in SUBSET Drain!Job /\ p.unknown \in BOOLEAN
  BY <1>3, <1>6, <1>7, <1>9
<1>11. p.admit \subseteq greedy
  BY <1>6, <1>7, <1>9
<1>12. ASSUME ~p.unknown PROVE DrainFits(setup, (DrainRunning(jobs) \ p.stale) \cup p.admit)
  <2>1. (DrainRunning(jobs) \ p.stale) \cup p.admit \subseteq Drain!Occupied(jobs, d) \cup greedy
    BY <1>7, <1>11, <1>12 DEF DrainRunning, Drain!Occupied, Drain!Running
  <2>2. DrainFits(setup, Drain!Occupied(jobs, d) \cup greedy)
    BY <1>1, DrainPasses DEF DrainInv, DrainAdmits
  <2>3. Drain!Occupied(jobs, d) \cup greedy \in SUBSET Drain!Job
    BY <1>9 DEF Drain!Occupied
  <2>. QED  BY <2>1, <2>2, <2>3, DrainFitsLess
<1>. HIDE DEF p
<1>13. p \in [cancel : SUBSET Drain!Job, stale : SUBSET Drain!Job, admit : SUBSET Drain!Job, unknown : BOOLEAN]
  BY <1>8, <1>10
<1>14. \A j \in p.stale \cup p.admit : Drain!Foreground(j)
  BY <1>2, <1>3, <1>7, <1>11
<1>15. Drain!ScopeOf[d] = "awaited" => p.cancel \cup p.stale \cup p.admit \subseteq {d}
  BY <1>3, <1>6, <1>7, <1>9
<1>. QED  BY <1>12, <1>13, <1>14, <1>15 DEF p

LEMMA DrainPlansPass ==
  ASSUME Drain!DrainAssumption, DrainInv, setup' = setup, NEW d \in Drain!Job, NEW late, Drain!PlanPass(d, late)
  PROVE  DrainInv'
<1>0. DrainTypes
  BY DEF DrainInv
<1>1. /\ cmd[d] = "top" /\ cmd[d] \in DrainHolding /\ cmd' = [cmd EXCEPT ![d] = "cancel"]
      /\ outcomes' = outcomes /\ drain' = drain /\ failed' = failed /\ worker' = worker
      /\ copy' = copy /\ deaths' = deaths /\ unsaved' = unsaved /\ jobs' = jobs
  BY DEF Drain!PlanPass, Drain!Goes, DrainHolding, DrainCycle
<1>2. drain = d /\ d # 0
  BY <1>1, DrainAlone
<1>3. /\ plan' \in [cancel : SUBSET Drain!Job, stale : SUBSET Drain!Job, admit : SUBSET Drain!Job, unknown : BOOLEAN]
      /\ \A j \in plan'.stale \cup plan'.admit : Drain!Foreground(j)
      /\ Drain!ScopeOf[d] = "awaited" => plan'.cancel \cup plan'.stale \cup plan'.admit \subseteq {d}
      /\ ~plan'.unknown => DrainFits(setup, (DrainRunning(jobs) \ plan'.stale) \cup plan'.admit)
  <2>1. PICK merged \in SUBSET {j \in Drain!MayMerge : Drain!Pending(jobs[j]) /\ Drain!Foreground(j)} :
             \E greedy \in Drain!Greedy(jobs, d, (Drain!Schedulable(jobs, d) \ Drain!SupersededShips(jobs, d)) \ late) :
               plan' = Drain!Pass(jobs, d, greedy, merged)
    BY DEF Drain!PlanPass
  <2>2. PICK greedy \in Drain!Greedy(jobs, d, (Drain!Schedulable(jobs, d) \ Drain!SupersededShips(jobs, d)) \ late) :
             plan' = Drain!Pass(jobs, d, greedy, merged)
    BY <2>1
  <2>. QED  BY <2>2, DrainPlans
<1>4. DrainHolderStep(d, "cancel")
  BY <1>0, <1>1, <1>2, <1>3 DEF DrainTypes, DrainHolderStep, DrainSteps, DrainHolding, DrainCycle,
                                DrainUnborn
<1>5. DrainHolder' /\ cmd'[d] = "cancel" /\ DrainTypes' /\ \A i \in Drain!Job : i # d => cmd'[i] = cmd[i]
  BY <1>0, <1>1, <1>4, DrainHolds DEF DrainTypes
<1>6. DrainThreads'
  BY <1>1, <1>2, <1>5, DrainThreadsKept DEF DrainSame, DrainCycle
<1>7. DrainPlan'
  BY <1>1, <1>2, <1>3, <1>5 DEF DrainPlan, Drain!Foreground, Drain!OwnerOf, Drain!ScopeOf
<1>8. DrainAdmits'
  BY <1>1, <1>2, <1>3, <1>5 DEF DrainInv, DrainAdmits
<1>9. Drain!CompletedHasOutcome'
  BY <1>1, <1>2, DrainOutcomes
<1>. QED  BY <1>5, <1>6, <1>7, <1>8, <1>9 DEF DrainInv

LEMMA DrainAppliesCancels ==
  ASSUME Drain!DrainAssumption, DrainInv, setup' = setup, NEW d \in Drain!Job, Drain!ApplyCancels(d)
  PROVE  DrainInv'
<1>0. DrainTypes
  BY DEF DrainInv
<1>1. /\ cmd[d] = "cancel" /\ cmd[d] \in DrainHolding /\ cmd' = [cmd EXCEPT ![d] = "reap"]
      /\ outcomes' = outcomes /\ drain' = drain /\ failed' = failed /\ worker' = worker
      /\ copy' = copy /\ deaths' = deaths /\ unsaved' = unsaved /\ plan' = plan
      /\ jobs' = Drain!CancelPending(jobs, plan.cancel, "no-proof")
  BY DEF Drain!ApplyCancels, Drain!Goes, DrainHolding, DrainCycle
<1>2. drain = d /\ d # 0
  BY <1>1, DrainAlone
<1>3. /\ jobs' \in Drain!Queue
      /\ \A i \in Drain!Job :
           \/ DrainSame(jobs, jobs', i)
           \/ i \in plan.cancel /\ jobs[i].status = "pending" /\ jobs'[i].status \in {"cancelled", "absent"}
  BY <1>0, <1>1, DrainCancelsPending DEF DrainTypes
<1>4. DrainHolderStep(d, "reap")
  BY <1>0, <1>1, <1>2, <1>3
     DEF DrainTypes, DrainHolderStep, DrainSame, DrainSteps, DrainHolding, DrainCycle, DrainUnborn
<1>5. DrainHolder' /\ cmd'[d] = "reap" /\ DrainTypes' /\ \A i \in Drain!Job : i # d => cmd'[i] = cmd[i]
  BY <1>0, <1>1, <1>4, DrainHolds DEF DrainTypes
<1>6. DrainThreads'
  BY <1>1, <1>2, <1>3, <1>5, DrainThreadsKept DEF DrainCycle
<1>7. DrainPlan'
  BY <1>1, <1>2, <1>5 DEF DrainInv, DrainPlan, Drain!Foreground, Drain!OwnerOf, Drain!ScopeOf
<1>8. DrainAdmits'
  <2>1. DrainRunning(jobs') \subseteq DrainRunning(jobs)
    BY <1>3 DEF DrainRunning, DrainSame
  <2>. QED  BY <1>0, <1>1, <1>2, <1>5, <2>1, DrainWanes DEF DrainInv
<1>9. Drain!CompletedHasOutcome'
  BY <1>1, <1>2, <1>3, DrainOutcomes DEF DrainSame
<1>. QED  BY <1>5, <1>6, <1>7, <1>8, <1>9 DEF DrainInv

LEMMA DrainAppliesReaps ==
  ASSUME Drain!DrainAssumption, DrainInv, setup' = setup, NEW d \in Drain!Job, Drain!ApplyReaps(d)
  PROVE  DrainInv'
<1>. DEFINE reaped == {j \in plan.stale : Drain!IsStaleRunning(jobs[j])}
            admit == IF plan.unknown \/ reaped # plan.stale THEN {} ELSE plan.admit
<1>0. DrainTypes /\ reaped \in SUBSET Drain!Job /\ jobs \in Drain!Queue /\ plan.admit \in SUBSET Drain!Job
  BY DEF DrainInv, DrainTypes
<1>1. /\ cmd[d] = "reap" /\ cmd[d] \in DrainHolding /\ cmd' = [cmd EXCEPT ![d] = "start"]
      /\ outcomes' = outcomes /\ drain' = drain /\ failed' = failed /\ worker' = worker
      /\ copy' = copy /\ deaths' = deaths /\ unsaved' = unsaved
      /\ jobs' = Drain!TrimTerminal(Drain!CancelAll(jobs, reaped, "no-proof"))
      /\ plan' = [plan EXCEPT !.admit = admit]
  BY DEF Drain!ApplyReaps, Drain!Goes, DrainHolding, DrainCycle
<1>2. drain = d /\ d # 0
  BY <1>1, DrainAlone
<1>3. \A j \in reaped : jobs[j].status = "running" /\ j \in plan.stale
  BY DEF Drain!IsStaleRunning, Drain!Running
<1>4. /\ admit \subseteq plan.admit
      /\ admit = {} \/ (~plan.unknown /\ admit = plan.admit /\ reaped = plan.stale)
  OBVIOUS
<1>. HIDE DEF reaped, admit
<1>5. /\ jobs' \in Drain!Queue
      /\ \A i \in Drain!Job : /\ i \in reaped => jobs'[i].status \in {"cancelled", "absent"}
                              /\ i \notin reaped => DrainSame(jobs, jobs', i)
  BY <1>0, <1>1, DrainReaps
<1>6. /\ plan' \in [cancel : SUBSET Drain!Job, stale : SUBSET Drain!Job, admit : SUBSET Drain!Job, unknown : BOOLEAN]
      /\ plan'.cancel = plan.cancel /\ plan'.stale = plan.stale /\ plan'.admit = admit
      /\ plan'.unknown = plan.unknown
  BY <1>0, <1>1, <1>4 DEF DrainTypes
<1>7. DrainHolderStep(d, "start")
  BY <1>0, <1>1, <1>2, <1>3, <1>5, <1>6
     DEF DrainTypes, DrainHolderStep, DrainSame, DrainSteps, DrainHolding, DrainCycle, DrainUnborn
<1>8. DrainHolder' /\ cmd'[d] = "start" /\ DrainTypes' /\ \A i \in Drain!Job : i # d => cmd'[i] = cmd[i]
  BY <1>0, <1>1, <1>7, DrainHolds DEF DrainTypes
<1>9. DrainThreads'
  BY <1>1, <1>2, <1>3, <1>5, <1>8, DrainThreadsKept DEF DrainCycle
<1>10. DrainPlan'
  BY <1>1, <1>2, <1>4, <1>6, <1>8 DEF DrainInv, DrainPlan, Drain!Foreground, Drain!OwnerOf, Drain!ScopeOf
<1>11. DrainAdmits'
  <2>1. DrainRunning(jobs') \subseteq DrainRunning(jobs) /\ DrainRunning(jobs) \in SUBSET Drain!Job
    BY <1>5 DEF DrainRunning, DrainSame
  <2>2. DrainRunning(jobs') \cap reaped = {}
    BY <1>5 DEF DrainRunning
  <2>3. DrainFits(setup, DrainRunning(jobs'))
    BY <2>1, DrainFitsLess DEF DrainInv, DrainAdmits
  <2>4. DrainFits(setup, DrainRunning(jobs') \cup admit)
    <3>1. CASE admit = {}
      <4>1. DrainRunning(jobs') \cup admit = DrainRunning(jobs')
        BY <3>1
      <4>. QED  BY <2>3, <4>1
    <3>2. CASE ~plan.unknown /\ admit = plan.admit /\ reaped = plan.stale
      <4>1. DrainRunning(jobs') \cup admit \subseteq (DrainRunning(jobs) \ plan.stale) \cup plan.admit
        BY <2>1, <2>2, <3>2
      <4>2. (DrainRunning(jobs) \ plan.stale) \cup plan.admit \in SUBSET Drain!Job
        BY <1>0, <2>1
      <4>3. DrainFits(setup, (DrainRunning(jobs) \ plan.stale) \cup plan.admit)
        BY <1>1, <1>2, <3>2 DEF DrainInv, DrainAdmits
      <4>. QED  BY <4>1, <4>2, <4>3, DrainFitsLess
    <3>. QED  BY <1>4, <3>1, <3>2
  <2>. QED  BY <1>1, <1>2, <1>6, <1>8, <2>3, <2>4 DEF DrainAdmits
<1>12. Drain!CompletedHasOutcome'
  BY <1>1, <1>2, <1>5, DrainOutcomes DEF DrainSame
<1>. QED  BY <1>8, <1>9, <1>10, <1>11, <1>12 DEF DrainInv

LEMMA DrainAppliesStarts ==
  ASSUME Drain!DrainAssumption, DrainInv, setup' = setup, NEW d \in Drain!Job, Drain!ApplyStarts(d)
  PROVE  DrainInv'
<1>. DEFINE started == {j \in plan.admit : Drain!Pending(jobs[j])}
<1>0. DrainTypes /\ started \in SUBSET Drain!Job /\ jobs \in Drain!Queue /\ plan.admit \in SUBSET Drain!Job
  BY DEF DrainInv, DrainTypes
<1>1. /\ cmd[d] = "start" /\ cmd[d] \in DrainHolding /\ cmd' = [cmd EXCEPT ![d] = "collect"]
      /\ outcomes' = outcomes /\ drain' = drain /\ failed' = failed
      /\ copy' = copy /\ deaths' = deaths /\ unsaved' = unsaved /\ plan' = Drain!NoPlan
      /\ jobs' = Drain!StartPending(jobs, started)
      /\ worker' = [j \in Drain!Job |-> IF j \in started THEN "begin" ELSE worker[j]]
  BY DEF Drain!ApplyStarts, Drain!Goes, DrainHolding, DrainCycle
<1>2. drain = d /\ d # 0
  BY <1>1, DrainAlone
<1>3. \A j \in started : j \in plan.admit /\ jobs[j].status = "pending"
  BY DEF Drain!Pending
<1>. HIDE DEF started
<1>4. /\ jobs' \in Drain!Queue
      /\ \A i \in Drain!Job : jobs'[i].status = IF i \in started /\ jobs[i].status = "pending"
                                                THEN "running" ELSE jobs[i].status
  BY <1>0, <1>1, DrainStarts
<1>5. DrainHolderStep(d, "collect")
  BY <1>0, <1>1, <1>2, <1>3, <1>4, DrainNoPlanType
     DEF DrainTypes, DrainHolderStep, DrainSteps, DrainHolding, DrainCycle, DrainUnborn
<1>6. worker' \in [Drain!Job -> {"none"} \cup Drain!Working \cup Drain!Reports]
  BY <1>0, <1>1 DEF DrainTypes, Drain!Working
<1>7. DrainHolder' /\ cmd'[d] = "collect" /\ DrainTypes' /\ \A i \in Drain!Job : i # d => cmd'[i] = cmd[i]
  BY <1>0, <1>1, <1>5, <1>6, DrainHolds DEF DrainTypes
<1>8. DrainThreads'
  <2>1. ASSUME NEW j \in Drain!Job, j \in started
        PROVE  /\ worker'[j] = "begin" /\ jobs'[j].status = "running"
               /\ Drain!Foreground(j)' /\ drain' # 0 /\ cmd'[drain'] \in DrainCycle
               /\ Drain!ScopeOf'[drain'] = "awaited" => j = drain'
               /\ cmd'[j] \notin DrainUnborn
    <3>1. jobs[j].status = "pending" /\ j \in plan.admit
      BY <1>3, <2>1
    <3>2. cmd[j] \notin DrainUnborn
      BY <3>1 DEF DrainInv, DrainHolder
    <3>. QED  BY <1>1, <1>2, <1>4, <1>7, <2>1, <3>1, <3>2
              DEF DrainInv, DrainPlan, DrainCycle, DrainUnborn, Drain!Foreground, Drain!OwnerOf, Drain!ScopeOf
  <2>2. ASSUME NEW j \in Drain!Job, j \notin started
        PROVE  /\ worker'[j] = worker[j] /\ jobs'[j].status = jobs[j].status
               /\ Drain!Foreground(j)' = Drain!Foreground(j) /\ drain' = drain /\ cmd'[drain'] \in DrainCycle
               /\ Drain!ScopeOf' = Drain!ScopeOf /\ copy' = copy /\ outcomes' = outcomes
               /\ cmd[j] \notin DrainUnborn => cmd'[j] \notin DrainUnborn
    BY <1>1, <1>2, <1>4, <1>7, <2>2 DEF DrainCycle, DrainUnborn, Drain!Foreground, Drain!OwnerOf,
                                        Drain!ScopeOf
  <2>. QED  BY <2>1, <2>2 DEF DrainInv, DrainThreads, Drain!Working
<1>9. DrainPlan'
  BY <1>1, DrainNoPlans
<1>10. DrainAdmits'
  <2>1. DrainRunning(jobs') \subseteq DrainRunning(jobs) \cup plan.admit
    BY <1>3, <1>4 DEF DrainRunning
  <2>2. DrainRunning(jobs) \cup plan.admit \in SUBSET Drain!Job
    BY <1>0 DEF DrainRunning
  <2>3. DrainFits(setup, DrainRunning(jobs'))
    BY <1>1, <1>2, <2>1, <2>2, DrainFitsLess DEF DrainInv, DrainAdmits
  <2>. QED  BY <1>1, <1>2, <1>7, <2>3 DEF DrainAdmits
<1>11. Drain!CompletedHasOutcome'
  BY <1>1, <1>2, <1>4, DrainOutcomes
<1>. QED  BY <1>7, <1>8, <1>9, <1>10, <1>11 DEF DrainInv

\* A pass fails; at its end, with its jobs started and without threads.
LEMMA DrainPassFails ==
  ASSUME Drain!DrainAssumption, DrainInv, setup' = setup, NEW d \in Drain!Job, Drain!PassFails(d)
  PROVE  DrainInv'
<1>0. DrainTypes /\ plan.admit \in SUBSET Drain!Job /\ jobs \in Drain!Queue
  BY DEF DrainInv, DrainTypes
<1>1. /\ cmd[d] \in DrainHolding /\ cmd' = [cmd EXCEPT ![d] = "collect"]
      /\ outcomes' = outcomes /\ drain' = drain /\ failed' = TRUE /\ worker' = worker
      /\ copy' = copy /\ deaths' = deaths /\ unsaved' = unsaved /\ plan' = Drain!NoPlan
      /\ cmd[d] # "persist"
      /\ jobs' = jobs \/ (cmd[d] = "start" /\ jobs' = Drain!StartPending(jobs, plan.admit))
  BY DEF Drain!PassFails, Drain!Goes, DrainHolding, DrainCycle
<1>2. drain = d /\ d # 0
  BY <1>1, DrainAlone
<1>3. /\ jobs' \in Drain!Queue
      /\ \A i \in Drain!Job : \/ jobs'[i].status = jobs[i].status
                              \/ /\ cmd[d] = "start" /\ i \in plan.admit
                                 /\ jobs[i].status = "pending" /\ jobs'[i].status = "running"
  BY <1>0, <1>1, DrainStarts
<1>4. DrainHolderStep(d, "collect")
  BY <1>0, <1>1, <1>2, <1>3, DrainNoPlanType
     DEF DrainTypes, DrainHolderStep, DrainSteps, DrainHolding, DrainCycle, DrainUnborn
<1>5. DrainHolder' /\ cmd'[d] = "collect" /\ DrainTypes' /\ \A i \in Drain!Job : i # d => cmd'[i] = cmd[i]
  BY <1>0, <1>1, <1>4, DrainHolds DEF DrainTypes
<1>6. DrainThreads'
  <2>1. ASSUME NEW j \in Drain!Job
        PROVE  /\ worker'[j] = worker[j] /\ (worker[j] # "none" => jobs'[j].status = jobs[j].status)
               /\ Drain!Foreground(j)' = Drain!Foreground(j) /\ drain' = drain /\ cmd'[drain'] \in DrainCycle
               /\ Drain!ScopeOf' = Drain!ScopeOf /\ copy' = copy /\ outcomes' = outcomes
               /\ cmd[j] \notin DrainUnborn => cmd'[j] \notin DrainUnborn
    <3>1. worker[j] # "none" => jobs[j].status # "pending"
      BY DEF DrainInv, DrainThreads
    <3>. QED  BY <1>1, <1>2, <1>3, <1>5, <3>1 DEF DrainCycle, DrainUnborn, Drain!Foreground, Drain!OwnerOf,
                 Drain!ScopeOf
  <2>. QED  BY <2>1 DEF DrainInv, DrainThreads, Drain!Working
<1>7. DrainPlan'
  BY <1>1, DrainNoPlans
<1>8. DrainAdmits'
  <2>1. CASE cmd[d] = "start"
    <3>1. DrainRunning(jobs') \subseteq DrainRunning(jobs) \cup plan.admit
      BY <1>3 DEF DrainRunning
    <3>2. DrainRunning(jobs) \cup plan.admit \in SUBSET Drain!Job
      BY <1>0 DEF DrainRunning
    <3>3. DrainFits(setup, DrainRunning(jobs'))
      BY <1>2, <2>1, <3>1, <3>2, DrainFitsLess DEF DrainInv, DrainAdmits
    <3>. QED  BY <1>1, <1>2, <1>5, <3>3 DEF DrainAdmits
  <2>2. CASE cmd[d] # "start"
    BY <1>0, <1>1, <1>2, <1>5, <2>2, DrainWanes DEF DrainInv
  <2>. QED  BY <2>1, <2>2
<1>9. Drain!CompletedHasOutcome'
  BY <1>1, <1>2, <1>3, DrainOutcomes
<1>. QED  BY <1>5, <1>6, <1>7, <1>8, <1>9 DEF DrainInv

LEMMA DrainSkips ==
  ASSUME Drain!DrainAssumption, DrainInv, setup' = setup, NEW d \in Drain!Job, Drain!SkipPass(d)
  PROVE  DrainInv'
<1>0. DrainTypes
  BY DEF DrainInv
<1>1. /\ cmd[d] = "top" /\ cmd[d] \in DrainHolding /\ cmd' = [cmd EXCEPT ![d] = "collect"]
      /\ outcomes' = outcomes /\ drain' = drain /\ failed' = failed /\ worker' = worker
      /\ copy' = copy /\ deaths' = deaths /\ unsaved' = unsaved /\ plan' = plan /\ jobs' = jobs
  BY DEF Drain!SkipPass, Drain!Goes, DrainHolding, DrainCycle
<1>2. drain = d /\ d # 0
  BY <1>1, DrainAlone
<1>3. plan = Drain!NoPlan
  BY <1>1, <1>2 DEF DrainInv, DrainPlan
<1>4. DrainHolderStep(d, "collect")
  BY <1>0, <1>1, <1>2 DEF DrainTypes, DrainHolderStep, DrainSteps, DrainHolding, DrainCycle, DrainUnborn
<1>5. DrainHolder' /\ cmd'[d] = "collect" /\ DrainTypes' /\ \A i \in Drain!Job : i # d => cmd'[i] = cmd[i]
  BY <1>0, <1>1, <1>4, DrainHolds DEF DrainTypes
<1>6. DrainThreads'
  BY <1>1, <1>2, <1>5, DrainThreadsKept DEF DrainSame, DrainCycle
<1>7. DrainPlan'
  BY <1>1, <1>3, DrainNoPlans
<1>8. DrainAdmits'
  BY <1>0, <1>1, <1>2, <1>5, DrainWanes DEF DrainInv
<1>9. Drain!CompletedHasOutcome'
  BY <1>1, <1>2, DrainOutcomes
<1>. QED  BY <1>5, <1>6, <1>7, <1>8, <1>9 DEF DrainInv

LEMMA DrainCollects ==
  ASSUME Drain!DrainAssumption, DrainInv, setup' = setup, NEW d \in Drain!Job, NEW j \in Drain!Job, Drain!Collect(d, j)
  PROVE  DrainInv'
<1>0. DrainTypes
  BY DEF DrainInv
<1>1. /\ cmd[d] = "collect" /\ cmd[d] \in DrainHolding /\ cmd' = [cmd EXCEPT ![d] = "top"]
      /\ jobs' = IF worker[j] = "deferred" THEN Drain!RequeueDeferredRunning(jobs, j) ELSE jobs
      /\ outcomes' = outcomes /\ drain' = drain /\ failed' = (failed \/ worker[j] = "error")
      /\ worker' = [worker EXCEPT ![j] = "none"] /\ copy' = [copy EXCEPT ![j] = Drain!Absent]
      /\ deaths' = deaths /\ unsaved' = unsaved /\ plan' = plan
  BY DEF Drain!Collect, Drain!Goes, DrainHolding, DrainCycle
<1>1a. failed' \in BOOLEAN
  BY <1>1
<1>2. drain = d /\ d # 0
  BY <1>1, DrainAlone
<1>3. plan = Drain!NoPlan
  BY <1>1, <1>2 DEF DrainInv, DrainPlan
<1>4. /\ jobs' \in Drain!Queue /\ \A i \in Drain!Job \ {j} : jobs'[i].status = jobs[i].status
      /\ jobs'[j].status = jobs[j].status \/ (jobs[j].status = "running" /\ jobs'[j].status = "pending")
  <2>1. /\ Drain!RequeueDeferredRunning(jobs, j) \in Drain!Queue
        /\ \A i \in Drain!Job \ {j} : Drain!RequeueDeferredRunning(jobs, j)[i].status = jobs[i].status
        /\ \/ Drain!RequeueDeferredRunning(jobs, j)[j].status = jobs[j].status
           \/ jobs[j].status = "running" /\ Drain!RequeueDeferredRunning(jobs, j)[j].status = "pending"
    BY <1>0, DrainRequeues DEF DrainTypes
  <2>. QED  BY <1>0, <1>1, <2>1 DEF DrainTypes
<1>5. DrainHolderStep(d, "top")
  BY <1>0, <1>1, <1>1a, <1>2, <1>4 DEF DrainTypes, DrainHolderStep, DrainSteps, DrainHolding, DrainCycle,
                                       DrainUnborn
<1>6. worker' \in [Drain!Job -> {"none"} \cup Drain!Working \cup Drain!Reports] /\ copy' \in Drain!Queue
  BY <1>0, <1>1, DrainRows DEF DrainTypes, Drain!Queue
<1>7. DrainHolder' /\ cmd'[d] = "top" /\ DrainTypes' /\ \A i \in Drain!Job : i # d => cmd'[i] = cmd[i]
  BY <1>1, <1>5, <1>6, DrainHolds
<1>8. DrainThreads'
  <2>1. worker'[j] = "none"
    BY <1>0, <1>1 DEF DrainTypes
  <2>2. ASSUME NEW i \in Drain!Job, i # j
        PROVE  /\ worker'[i] = worker[i] /\ jobs'[i].status = jobs[i].status
               /\ Drain!Foreground(i)' = Drain!Foreground(i) /\ drain' = drain /\ cmd'[drain'] \in DrainCycle
               /\ Drain!ScopeOf' = Drain!ScopeOf /\ copy'[i] = copy[i] /\ outcomes' = outcomes
               /\ cmd[i] \notin DrainUnborn => cmd'[i] \notin DrainUnborn
    BY <1>0, <1>1, <1>2, <1>4, <1>7, <2>2
       DEF DrainTypes, Drain!Queue, DrainCycle, DrainUnborn, Drain!Foreground, Drain!OwnerOf, Drain!ScopeOf
  <2>. QED  BY <2>1, <2>2 DEF DrainInv, DrainThreads, Drain!Working
<1>9. DrainPlan'
  BY <1>1, <1>3, DrainNoPlans
<1>10. DrainAdmits'
  <2>1. DrainRunning(jobs') \subseteq DrainRunning(jobs)
    BY <1>4 DEF DrainRunning
  <2>. QED  BY <1>0, <1>1, <1>2, <1>7, <2>1, DrainWanes DEF DrainInv
<1>11. Drain!CompletedHasOutcome'
  BY <1>1, <1>2, <1>4, DrainOutcomes
<1>. QED  BY <1>7, <1>8, <1>9, <1>10, <1>11 DEF DrainInv

LEMMA DrainEnds ==
  ASSUME Drain!DrainAssumption, DrainInv, setup' = setup, NEW d \in Drain!Job, Drain!EndCycle(d)
  PROVE  DrainInv'
<1>. DEFINE w == IF failed THEN "error" ELSE "waiting"
<1>0. DrainTypes
  BY DEF DrainInv
<1>1. /\ cmd[d] = "collect" /\ cmd[d] \in DrainHolding /\ cmd' = [cmd EXCEPT ![d] = w]
      /\ outcomes' = outcomes /\ drain' = 0 /\ failed' = FALSE /\ worker' = worker
      /\ copy' = copy /\ deaths' = deaths /\ unsaved' = unsaved /\ plan' = plan /\ jobs' = jobs
      /\ \A j \in Drain!Job : worker[j] = "none"
  BY DEF Drain!EndCycle, Drain!Goes, DrainHolding, DrainCycle, Drain!Active
<1>2. drain = d /\ d # 0
  BY <1>1, DrainAlone
<1>3. plan = Drain!NoPlan /\ w \in {"error", "waiting"}
  BY <1>1, <1>2 DEF DrainInv, DrainPlan
<1>. HIDE DEF w
<1>4. DrainHolderStep(d, w)
  BY <1>0, <1>1, <1>2, <1>3 DEF DrainTypes, DrainHolderStep, DrainSteps, DrainHolding, DrainCycle,
                                DrainUnborn
<1>5. DrainHolder' /\ DrainTypes'
  BY <1>0, <1>1, <1>4, DrainHolds DEF DrainTypes
<1>6. DrainThreads' /\ DrainPlan'
  BY <1>1, <1>3, DrainNoThreads, DrainNoPlans
<1>7. DrainAdmits'
  BY <1>0, <1>1, DrainWanes DEF DrainInv
<1>8. Drain!CompletedHasOutcome'
  BY <1>1, <1>2, DrainOutcomes
<1>. QED  BY <1>5, <1>6, <1>7, <1>8 DEF DrainInv

LEMMA DrainDies ==
  ASSUME Drain!DrainAssumption, DrainInv, setup' = setup, NEW d \in Drain!Job, Drain!Die(d)
  PROVE  DrainInv'
<1>0. DrainTypes /\ deaths \in Nat /\ deaths' = deaths + 1 /\ deaths' \in 0 .. DrainDeaths /\ DrainDeaths \in Nat
  BY DEF DrainInv, DrainTypes, Drain!Die, Drain!DrainAssumption
<1>1. /\ cmd' = [cmd EXCEPT ![d] = "dead"] /\ jobs' = jobs /\ outcomes' = outcomes
      /\ cmd[d] \notin {"none", "refused", "returned", "error", "dead"}
  BY DEF Drain!Die, Drain!Goes
<1>2. CASE drain # d
  <2>1. cmd[d] \notin DrainHolding
    BY <1>2 DEF DrainInv, DrainHolder
  <2>2. /\ drain' = drain /\ plan' = plan /\ failed' = failed /\ worker' = worker /\ copy' = copy
        /\ unsaved' = unsaved
    BY <1>2 DEF Drain!Die
  <2>3. DrainAsideStep
    BY <1>0, <1>1, <2>1, <2>2 DEF DrainTypes, DrainAsideStep, DrainQuietRow, DrainSteps, DrainHolding,
                                  DrainCycle, DrainUnborn
  <2>. QED  BY <2>3, DrainAside
<1>3. CASE drain = d
  <2>1. /\ drain' = 0 /\ plan' = Drain!NoPlan /\ failed' = FALSE
        /\ worker' = [j \in Drain!Job |-> "none"] /\ copy' = [j \in Drain!Job |-> Drain!Absent]
        /\ unsaved' = IF cmd[d] = "persist" THEN unsaved \cup plan.stale ELSE unsaved
    BY <1>3 DEF Drain!Die
  <2>2. DrainTypes'
    BY <1>0, <1>1, <2>1, DrainRows, DrainNoPlanType DEF DrainTypes, Drain!Queue, DrainSteps
  <2>3. DrainHolder'
    BY <1>0, <1>1, <1>3, <2>1, DrainCounts
       DEF DrainInv, DrainTypes, DrainHolder, DrainHolding, DrainCycle, DrainUnborn, Drain!ScopeOf
  <2>4. DrainThreads' /\ DrainPlan'
    BY <2>1, DrainNoThreads, DrainNoPlans
  <2>5. DrainAdmits'
    BY <1>0, <1>1, <2>1, DrainWanes DEF DrainInv
  <2>6. Drain!CompletedHasOutcome'
    BY <1>1, <1>3, <2>1 DEF DrainInv, Drain!CompletedHasOutcome, Drain!Foreground, Drain!OwnerOf
  <2>. QED  BY <2>2, <2>3, <2>4, <2>5, <2>6 DEF DrainInv
<1>. QED  BY <1>2, <1>3

-----------------------------------------------------------------------------
(* Steps beside the drain, of the world and of the threads. *)

LEMMA DrainChecks ==
  ASSUME Drain!DrainAssumption, DrainInv, setup' = setup, NEW d \in Drain!Job, Drain!Check(d)
  PROVE  /\ DrainAsideStep
         /\ \A j \in Drain!Job : Drain!OwnerOf[j] = "daemon" /\ jobs[j].status = "running" => jobs'[j].status = "running"
<1>. DEFINE same == {j \in Drain!Job : Drain!Running(jobs[j]) /\ Drain!SamePr(j, d) /\ Drain!OwnerOf[j] # "lost"}
            stale == {j \in same : Drain!IsStaleRunning(jobs[j]) /\ Drain!Foreground(j)}
<1>0. DrainTypes /\ stale \in SUBSET Drain!Job /\ jobs \in Drain!Queue
  BY DEF DrainInv, DrainTypes
<1>1. PICK S \in SUBSET stale, w \in {"checked", "refused"} :
        /\ cmd[d] = "none" /\ cmd' = [cmd EXCEPT ![d] = w]
        /\ jobs' = Drain!TrimTerminal(Drain!CancelAll(jobs, S, "no-proof"))
        /\ outcomes' = outcomes /\ drain' = drain /\ failed' = failed /\ worker' = worker
        /\ copy' = copy /\ deaths' = deaths /\ unsaved' = unsaved /\ plan' = plan
  <2>1. stale \in SUBSET stale
    OBVIOUS
  <2>. QED  BY <2>1 DEF Drain!Check, Drain!Goes
<1>2. S \in SUBSET Drain!Job /\ \A j \in S : jobs[j].status = "running" /\ Drain!OwnerOf[j] # "daemon"
  BY <1>0 DEF Drain!IsStaleRunning, Drain!Running, Drain!Foreground
<1>. HIDE DEF stale, same
<1>3. /\ jobs' \in Drain!Queue
      /\ \A i \in Drain!Job : /\ i \in S => jobs'[i].status \in {"cancelled", "absent"}
                              /\ i \notin S => DrainSame(jobs, jobs', i)
  BY <1>0, <1>1, <1>2, DrainReaps
<1>4. \A i \in Drain!Job : DrainQuietRow(i)
  BY <1>2, <1>3 DEF DrainQuietRow, DrainSame
<1>5. DrainAsideStep
  BY <1>0, <1>1, <1>3, <1>4
     DEF DrainTypes, DrainAsideStep, DrainSteps, DrainHolding, DrainCycle, DrainUnborn, Drain!DrainAssumption
<1>. QED  BY <1>2, <1>3, <1>5 DEF DrainSame

\* A job enters the queue, and supersedes pending ones.
LEMMA DrainSubmits ==
  ASSUME Drain!DrainAssumption, DrainInv, setup' = setup, NEW d \in Drain!Job,
         Drain!Submit(d) \/ Drain!DaemonSubmit(d)
  PROVE  /\ DrainAsideStep
         /\ \A j \in Drain!Job : jobs[j].status = "running" => jobs'[j].status = "running"
<1>0. DrainTypes /\ jobs \in Drain!Queue /\ jobs[d].status = "absent"
  BY DEF DrainInv, DrainTypes, DrainHolder, Drain!Submit, Drain!DaemonSubmit, DrainUnborn
<1>1. PICK w \in {"waiting", "gone"} :
        /\ cmd[d] \in {"none", "checked"} /\ cmd' = [cmd EXCEPT ![d] = w]
        /\ \E p \in DrainPriorities : jobs' = Drain!Enqueue(jobs, d, p)
        /\ outcomes' = outcomes /\ drain' = drain /\ failed' = failed /\ worker' = worker
        /\ copy' = copy /\ deaths' = deaths /\ unsaved' = unsaved /\ plan' = plan
  BY DEF Drain!Submit, Drain!DaemonSubmit, Drain!Goes
<1>2. /\ jobs' \in Drain!Queue /\ jobs'[d].status = "pending"
      /\ \A i \in Drain!Job \ {d} :
           jobs'[i].status = jobs[i].status \/ (jobs[i].status = "pending" /\ jobs'[i].status = "cancelled")
  BY <1>0, <1>1, DrainEnqueues
<1>3. cmd'[d] = w /\ \A i \in Drain!Job : i # d => cmd'[i] = cmd[i]
  BY <1>0, <1>1 DEF DrainTypes
<1>4. \A i \in Drain!Job : DrainQuietRow(i) \/ DrainEnters(i)
  BY <1>1, <1>2, <1>3 DEF DrainQuietRow, DrainEnters, DrainUnborn
<1>5. DrainAsideStep
  BY <1>0, <1>1, <1>2, <1>3, <1>4
     DEF DrainTypes, DrainAsideStep, DrainSteps, DrainHolding, DrainCycle, DrainUnborn, Drain!DrainAssumption
<1>. QED  BY <1>0, <1>2, <1>5

\* The daemon, an operator and time.
LEMMA DrainWorld ==
  ASSUME Drain!DrainAssumption, DrainInv, setup' = setup, NEW j \in Drain!Job,
         Drain!DaemonEnd(j) \/ Drain!DaemonRepair(j) \/ Drain!UserCancel(j) \/ Drain!Silence(j)
  PROVE  DrainAsideStep /\ cmd' = cmd /\ worker' = worker
<1>0. DrainTypes /\ jobs \in Drain!Queue /\ jobs[j] \in Drain!Row
  BY DEF DrainInv, DrainTypes, Drain!Queue
<1>1. ASSUME jobs' \in Drain!Queue, outcomes \subseteq outcomes', outcomes' \subseteq Drain!Job,
             \A i \in Drain!Job : DrainQuietRow(i),
             cmd' = cmd, drain' = drain, failed' = failed, worker' = worker,
             copy' = copy, deaths' = deaths, unsaved' = unsaved, plan' = plan
      PROVE  DrainAsideStep
  BY <1>0, <1>1 DEF DrainTypes, DrainAsideStep, Drain!DrainAssumption
<1>2. CASE Drain!DaemonEnd(j)
  <2>. DEFINE r == IF jobs[j].asked THEN Drain!CancelWithProof(jobs[j], "no-proof") ELSE Drain!RecoverRow(jobs[j])
  <2>1. r \in Drain!Row /\ r.status \in {"cancelled", "completed"}
    BY <1>0, DrainRows
  <2>2. jobs' = Drain!Update(jobs, j, r) /\ jobs[j].status = "running" /\ ~Drain!Foreground(j)
    BY <1>2 DEF Drain!DaemonEnd, Drain!Running
  <2>. HIDE DEF r
  <2>3. /\ jobs' \in Drain!Queue /\ \A i \in Drain!Job \ {j} : DrainSame(jobs, jobs', i)
        /\ jobs'[j].status \in {"cancelled", "completed", "absent"}
    BY <1>0, <2>1, <2>2, DrainWrites
  <2>4. \A i \in Drain!Job : DrainQuietRow(i)
    BY <2>2, <2>3 DEF DrainQuietRow, DrainSame
  <2>. QED  BY <1>0, <1>1, <1>2, <2>3, <2>4 DEF Drain!DaemonEnd, Drain!Others, DrainTypes
<1>3. CASE Drain!DaemonRepair(j)
  BY <1>0, <1>1, <1>3 DEF Drain!DaemonRepair, DrainTypes, DrainQuietRow
<1>4. CASE Drain!UserCancel(j)
  <2>1. /\ jobs' = Drain!Update(jobs, j, Drain!RequestCancelRow(jobs[j], "no-proof"))
        /\ jobs[j].status \in {"pending", "running"}
    BY <1>4 DEF Drain!UserCancel, Drain!RequestCancel, Drain!Update, Drain!CanRequestCancel, Drain!Pending,
                Drain!Running
  <2>2. /\ Drain!RequestCancelRow(jobs[j], "no-proof") \in Drain!Row
        /\ Drain!RequestCancelRow(jobs[j], "no-proof").status \in {"cancelled", jobs[j].status}
    BY <1>0, DrainRows
  <2>3. /\ jobs' \in Drain!Queue /\ \A i \in Drain!Job \ {j} : DrainSame(jobs, jobs', i)
        /\ jobs'[j].status \in {"cancelled", "absent", jobs[j].status}
    BY <1>0, <2>1, <2>2, DrainWrites
  <2>4. \A i \in Drain!Job : DrainQuietRow(i)
    BY <2>1, <2>3 DEF DrainQuietRow, DrainSame
  <2>. QED  BY <1>0, <1>1, <1>4, <2>3, <2>4 DEF Drain!UserCancel, Drain!Others, DrainTypes
<1>5. CASE Drain!Silence(j)
  <2>1. jobs' = [jobs EXCEPT ![j].fresh = FALSE]
    BY <1>5 DEF Drain!Silence
  <2>2. [jobs[j] EXCEPT !.fresh = FALSE] \in Drain!Row /\ [jobs[j] EXCEPT !.fresh = FALSE].status = jobs[j].status
    BY <1>0 DEF Drain!Row
  <2>3. jobs' \in Drain!Queue /\ \A i \in Drain!Job : jobs'[i].status = jobs[i].status
    BY <1>0, <2>1, <2>2 DEF Drain!Queue
  <2>. QED  BY <1>0, <1>1, <1>5, <2>3 DEF Drain!Silence, Drain!Others, DrainTypes, DrainQuietRow
<1>6. cmd' = cmd /\ worker' = worker
  BY DEF Drain!DaemonEnd, Drain!DaemonRepair, Drain!UserCancel, Drain!Silence, Drain!Others
<1>. QED  BY <1>2, <1>3, <1>4, <1>5, <1>6

\* The daemon starts a job that fits beside all that run.
LEMMA DrainDaemonStarts ==
  ASSUME Drain!DrainAssumption, DrainInv, setup' = setup, NEW j \in Drain!Job, Drain!DaemonStart(j)
  PROVE  DrainInv'
<1>0. DrainTypes /\ jobs \in Drain!Queue /\ DrainRunning(jobs) \in SUBSET Drain!Job /\ {j} \in SUBSET Drain!Job
  BY DEF DrainInv, DrainTypes, DrainRunning
<1>1. /\ jobs[j].status = "pending" /\ drain = 0 /\ ~Drain!Foreground(j)
      /\ Drain!Fits(j, DrainRunning(jobs)) /\ \A i \in DrainRunning(jobs) : ~Drain!SamePr(i, j)
      /\ jobs' = Drain!StartPending(jobs, {j})
      /\ outcomes' = outcomes /\ drain' = drain /\ failed' = failed /\ worker' = worker
      /\ copy' = copy /\ deaths' = deaths /\ unsaved' = unsaved /\ plan' = plan /\ cmd' = cmd
  BY DEF Drain!DaemonStart, Drain!Others, Drain!Pending, Drain!Running, DrainRunning
<1>2. jobs' \in Drain!Queue /\ \A i \in Drain!Job : jobs'[i].status = IF i = j THEN "running" ELSE jobs[i].status
  BY <1>0, <1>1, DrainStarts
<1>3. DrainTypes'
  BY <1>0, <1>1, <1>2 DEF DrainTypes
<1>4. DrainHolder'
  BY <1>1, <1>2 DEF DrainInv, DrainHolder, Drain!ScopeOf
<1>5. plan = Drain!NoPlan /\ \A i \in Drain!Job : worker[i] = "none"
  BY <1>1 DEF DrainInv, DrainPlan, DrainThreads
<1>6. DrainThreads' /\ DrainPlan'
  BY <1>1, <1>5, DrainNoThreads, DrainNoPlans
<1>7. DrainAdmits'
  <2>1. DrainRunning(jobs') = DrainRunning(jobs) \cup {j}
    BY <1>2 DEF DrainRunning
  <2>2. Drain!Cardinality(DrainRunning(jobs) \cup {j}) <= DrainSlots
    <3>1. Drain!Cardinality(DrainRunning(jobs)) < DrainSlots
      BY <1>1 DEF Drain!Fits
    <3>. QED  BY <1>0, <3>1, DrainCounts
  <2>3. \A i \in DrainRunning(jobs) : DrainApart(setup, i, j) /\ DrainApart(setup, j, i)
    BY <1>1 DEF Drain!Fits, Drain!SamePr, DrainApart, Drain!ClaimsOf, Drain!ShipOf
  <2>4. \A i, k \in DrainRunning(jobs) : i # k => DrainApart(setup, i, k)
    BY DEF DrainInv, DrainAdmits, DrainFits
  <2>5. DrainFits(setup, DrainRunning(jobs) \cup {j})
    BY <2>2, <2>3, <2>4 DEF DrainFits
  <2>. QED  BY <1>1, <2>1, <2>5 DEF DrainAdmits
<1>8. Drain!CompletedHasOutcome'
  BY <1>1, <1>2, DrainOutcomes
<1>. QED  BY <1>3, <1>4, <1>6, <1>7, <1>8 DEF DrainInv

\* A thread writes its row back only over a row that is running.
LEMMA DrainWritesBack ==
  ASSUME Drain!DrainAssumption, DrainInv, setup' = setup, NEW j \in Drain!Job, NEW r \in Drain!Row, NEW at,
         Drain!WriteBack(j, r, at), UNCHANGED <<outcomes, drain, cmd, plan, failed, deaths, unsaved>>,
         \/ worker[j] = "validate" /\ r.status = copy[j].status /\ at \in {"validate", "save"}
         \/ worker[j] = "finish" /\ r.status = "completed" /\ at = "ok"
  PROVE  DrainThreadStep(j)
<1>0. DrainTypes /\ jobs \in Drain!Queue /\ copy \in Drain!Queue /\ jobs[j] \in Drain!Row
  BY DEF DrainInv, DrainTypes, Drain!Queue
<1>1. worker[j] \in Drain!Working \ {"begin"} /\ worker[j] # "none"
  BY DEF Drain!Working
<1>2. /\ copy[j].status \in {"running", "absent"}
      /\ copy[j].status = "absent" => jobs[j].status = "absent"
      /\ jobs[j].status \notin {"pending", "completed"}
      /\ worker[j] = "finish" => j \in outcomes
  BY <1>1 DEF DrainInv, DrainThreads
<1>3. CASE Drain!UpdateConflict(jobs, j, r)
  <2>1. worker' = [worker EXCEPT ![j] = "error"] /\ jobs' = jobs /\ copy' = copy
    BY <1>3 DEF Drain!WriteBack, Drain!Turns
  <2>. QED  BY <1>0, <1>1, <2>1 DEF DrainTypes, DrainThreadStep, DrainThreadRow, DrainSame, Drain!Working,
                                    Drain!Reports
<1>4. CASE ~Drain!UpdateConflict(jobs, j, r)
  <2>1. /\ worker' = [worker EXCEPT ![j] = at] /\ jobs' = Drain!Update(jobs, j, r)
        /\ copy' = [copy EXCEPT ![j] = r]
    BY <1>4 DEF Drain!WriteBack, Drain!Turns
  <2>2. jobs[j].status = "running" /\ copy[j].status = "running"
    <3>1. jobs[j].status \in {"absent", "pending", "running", "completed", "cancelled"}
      BY <1>0 DEF Drain!Row, Drain!Live, Drain!Final
    <3>2. jobs[j].status # "absent" /\ (jobs[j].status = "cancelled" => r.status = "cancelled")
      BY <1>4 DEF Drain!UpdateConflict, Drain!Terminal, Drain!Final
    <3>. QED  BY <1>2, <3>1, <3>2
  <2>3. /\ jobs' \in Drain!Queue /\ \A i \in Drain!Job \ {j} : DrainSame(jobs, jobs', i)
        /\ \/ jobs'[j].status = r.status
           \/ r.status \in {"completed", "cancelled"} /\ jobs'[j].status = "absent"
    BY <1>0, <2>1, DrainWrites
  <2>4. /\ copy' \in Drain!Queue /\ copy'[j] = r /\ \A i \in Drain!Job \ {j} : copy'[i] = copy[i]
    BY <1>0, <2>1 DEF Drain!Queue
  <2>5. /\ worker' \in [Drain!Job -> {"none"} \cup Drain!Working \cup Drain!Reports] /\ worker'[j] = at
        /\ \A i \in Drain!Job \ {j} : worker'[i] = worker[i]
    BY <1>0, <2>1 DEF DrainTypes, Drain!Working, Drain!Reports
  <2>6. DrainThreadRow(j)
    BY <1>2, <2>2, <2>3, <2>5 DEF DrainThreadRow, Drain!Working
  <2>. QED  BY <1>0, <1>1, <2>2, <2>3, <2>4, <2>5, <2>6 DEF DrainTypes, DrainThreadStep, Drain!Working
<1>. QED  BY <1>3, <1>4

LEMMA DrainThreadSteps ==
  ASSUME Drain!DrainAssumption, DrainInv, setup' = setup, NEW j \in Drain!Job, Drain!Thread(j)
  PROVE  DrainThreadStep(j)
<1>0. /\ DrainTypes /\ jobs \in Drain!Queue /\ copy \in Drain!Queue /\ jobs[j] \in Drain!Row /\ copy[j] \in Drain!Row
      /\ outcomes \subseteq Drain!Job /\ worker \in [Drain!Job -> {"none"} \cup Drain!Working \cup Drain!Reports]
  BY DEF DrainInv, DrainTypes, Drain!Queue
<1>1. ASSUME NEW at \in Drain!Reports \cup {"finish"}, worker[j] # "none", worker' = [worker EXCEPT ![j] = at],
             jobs' = jobs, copy' = copy, outcomes \subseteq outcomes', outcomes' \subseteq Drain!Job,
             UNCHANGED <<drain, cmd, plan, failed, deaths, unsaved>>,
             at = "finish" => j \in outcomes' /\ worker[j] = "save"
      PROVE  DrainThreadStep(j)
  <2>1. /\ worker' \in [Drain!Job -> {"none"} \cup Drain!Working \cup Drain!Reports] /\ worker'[j] = at
        /\ \A i \in Drain!Job \ {j} : worker'[i] = worker[i]
    BY <1>0, <1>1 DEF Drain!Working
  <2>2. at = "finish" => /\ copy[j].status \in {"running", "absent"}
                         /\ copy[j].status = "absent" => jobs[j].status = "absent"
    BY <1>1 DEF DrainInv, DrainThreads, Drain!Working
  <2>. QED  BY <1>0, <1>1, <2>1, <2>2 DEF DrainThreadStep, DrainThreadRow, DrainSame, Drain!Working,
                                          Drain!Reports
<1>2. CASE Drain!WorkerNotice(j)
  BY <1>0, <1>1, <1>2 DEF Drain!WorkerNotice, Drain!Turns, Drain!Reports
<1>3. CASE Drain!WorkerBegin(j)
  <2>1. /\ worker[j] = "begin" /\ worker' = [worker EXCEPT ![j] = "validate"]
        /\ copy' = [copy EXCEPT ![j] = jobs[j]] /\ jobs' = jobs /\ outcomes' = outcomes
        /\ UNCHANGED <<drain, cmd, plan, failed, deaths, unsaved>> /\ jobs[j].status # "cancelled"
    BY <1>3 DEF Drain!WorkerBegin, Drain!Turns, Drain!DurablyCancelled
  <2>2. jobs[j].status \in {"running", "absent"}
    <3>1. jobs[j].status \in {"absent", "pending", "running", "completed", "cancelled"}
      BY <1>0 DEF Drain!Row, Drain!Live, Drain!Final
    <3>2. jobs[j].status \notin {"pending", "completed"}
      BY <2>1 DEF DrainInv, DrainThreads, Drain!Working
    <3>. QED  BY <2>1, <3>1, <3>2
  <2>3. copy' \in Drain!Queue /\ copy'[j] = jobs[j] /\ \A i \in Drain!Job \ {j} : copy'[i] = copy[i]
    BY <1>0, <2>1 DEF Drain!Queue
  <2>4. /\ worker' \in [Drain!Job -> {"none"} \cup Drain!Working \cup Drain!Reports] /\ worker'[j] = "validate"
        /\ \A i \in Drain!Job \ {j} : worker'[i] = worker[i]
    BY <1>0, <2>1 DEF Drain!Working
  <2>. QED  BY <1>0, <2>1, <2>2, <2>3, <2>4 DEF DrainThreadStep, DrainThreadRow, DrainSame, Drain!Working
<1>4. CASE Drain!WorkerRefused(j)
  <2>1. /\ worker[j] = "begin" /\ worker' = [worker EXCEPT ![j] = "error"]
        /\ jobs' = Drain!Update(jobs, j, Drain!CancelWithProof(jobs[j], "no-proof"))
        /\ copy' = copy /\ outcomes' = outcomes
        /\ UNCHANGED <<drain, cmd, plan, failed, deaths, unsaved>> /\ jobs[j].status # "absent"
    BY <1>4 DEF Drain!WorkerRefused, Drain!Turns
  <2>2. Drain!CancelWithProof(jobs[j], "no-proof") \in Drain!Row /\ Drain!CancelWithProof(jobs[j], "no-proof").status = "cancelled"
    BY <1>0, DrainRows
  <2>3. /\ jobs' \in Drain!Queue /\ \A i \in Drain!Job \ {j} : DrainSame(jobs, jobs', i)
        /\ jobs'[j].status \in {"cancelled", "absent"}
    BY <1>0, <2>1, <2>2, DrainWrites
  <2>4. /\ worker' \in [Drain!Job -> {"none"} \cup Drain!Working \cup Drain!Reports] /\ worker'[j] = "error"
        /\ \A i \in Drain!Job \ {j} : worker'[i] = worker[i]
    BY <1>0, <2>1 DEF Drain!Reports
  <2>. QED  BY <1>0, <2>1, <2>3, <2>4 DEF DrainThreadStep, DrainThreadRow, Drain!Working
<1>5. CASE Drain!WorkerFails(j)
  BY <1>0, <1>1, <1>5 DEF Drain!WorkerFails, Drain!Turns, Drain!Reports, Drain!Working
<1>6. CASE Drain!WorkerProgress(j)
  <2>1. PICK t \in {"t"} : Drain!WriteBack(j, Drain!WithResult(copy[j], t, "running"), "validate")
    BY <1>6 DEF Drain!WorkerProgress
  <2>2. Drain!WithResult(copy[j], t, "running") \in Drain!Row /\ Drain!WithResult(copy[j], t, "running").status = copy[j].status
    BY <1>0, DrainResults DEF Drain!Result
  <2>3. worker[j] = "validate" /\ UNCHANGED <<outcomes, drain, cmd, plan, failed, deaths, unsaved>>
    BY <1>6 DEF Drain!WorkerProgress
  <2>. DEFINE r == Drain!WithResult(copy[j], t, "running")
  <2>4. r \in Drain!Row /\ r.status = copy[j].status /\ Drain!WriteBack(j, r, "validate")
    BY <2>1, <2>2
  <2>. HIDE DEF r
  <2>. QED  BY <2>3, <2>4, DrainWritesBack
<1>7. CASE Drain!WorkerResult(j)
  <2>1. PICK t \in {"t"}, v \in {"pass", "fail"}, at \in {"save", "validate"} :
             Drain!WriteBack(j, Drain!WithResult(copy[j], t, v), at)
    BY <1>7 DEF Drain!WorkerResult
  <2>2. Drain!WithResult(copy[j], t, v) \in Drain!Row /\ Drain!WithResult(copy[j], t, v).status = copy[j].status
    <3>1. v \in Drain!Result
      BY DEF Drain!Result
    <3>. QED  BY <1>0, <3>1, DrainResults
  <2>3. worker[j] = "validate" /\ UNCHANGED <<outcomes, drain, cmd, plan, failed, deaths, unsaved>>
    BY <1>7 DEF Drain!WorkerResult
  <2>. DEFINE r == Drain!WithResult(copy[j], t, v)
  <2>4. r \in Drain!Row /\ r.status = copy[j].status /\ Drain!WriteBack(j, r, at)
    BY <2>1, <2>2
  <2>. HIDE DEF r
  <2>. QED  BY <2>3, <2>4, DrainWritesBack
<1>8. CASE Drain!WorkerDefer(j)
  BY <1>0, <1>1, <1>8 DEF Drain!WorkerDefer, Drain!Turns, Drain!Reports
<1>9. CASE Drain!WorkerSave(j)
  BY <1>0, <1>1, <1>9 DEF Drain!WorkerSave, Drain!Turns
<1>10. CASE Drain!WorkerFinish(j)
  <2>1. Drain!Complete(copy[j]) \in Drain!Row /\ Drain!Complete(copy[j]).status = "completed"
    BY <1>0, DrainRows
  <2>2. /\ Drain!WriteBack(j, Drain!Complete(copy[j]), "ok") /\ worker[j] = "finish"
        /\ UNCHANGED <<outcomes, drain, cmd, plan, failed, deaths, unsaved>>
    BY <1>10 DEF Drain!WorkerFinish
  <2>. DEFINE r == Drain!Complete(copy[j])
  <2>3. r \in Drain!Row /\ r.status = "completed" /\ Drain!WriteBack(j, r, "ok")
    BY <2>1, <2>2
  <2>. HIDE DEF r
  <2>. QED  BY <2>2, <2>3, DrainWritesBack
<1>. QED  BY <1>2, <1>3, <1>4, <1>5, <1>6, <1>7, <1>8, <1>9, <1>10 DEF Drain!Thread

-----------------------------------------------------------------------------
(* Foreground drains. *)

LEMMA DrainInit ==
  ASSUME Drain!DrainAssumption, Drain!Init PROVE DrainInv
<1>1. /\ setup \in DrainCases /\ outcomes = {} /\ drain = 0 /\ plan = Drain!NoPlan /\ failed = FALSE /\ deaths = 0 /\ unsaved = {}
      /\ jobs = [j \in Drain!Job |-> Drain!Absent] /\ cmd = [j \in Drain!Job |-> "none"]
      /\ worker = [j \in Drain!Job |-> "none"] /\ copy = [j \in Drain!Job |-> Drain!Absent]
  BY DEF Drain!Init
<1>2. DrainTypes
  <2>1. jobs \in Drain!Queue /\ copy \in Drain!Queue
    BY <1>1, DrainRows DEF Drain!Queue
  <2>2. /\ worker \in [Drain!Job -> {"none"} \cup Drain!Working \cup Drain!Reports] /\ cmd \in [Drain!Job -> DrainSteps]
        /\ deaths \in 0 .. DrainDeaths
    BY <1>1 DEF DrainSteps, DrainUnborn, Drain!DrainAssumption
  <2>. QED  BY <1>1, <2>1, <2>2, DrainNoPlanType DEF DrainTypes
<1>3. \A j \in Drain!Job : jobs[j].status = "absent" /\ cmd[j] = "none" /\ worker[j] = "none"
  BY <1>1, DrainRows
<1>4. DrainHolder
  BY <1>1, <1>3, DrainCounts DEF DrainHolder, DrainHolding, DrainCycle
<1>5. DrainThreads /\ DrainPlan /\ Drain!CompletedHasOutcome
  BY <1>1, <1>3 DEF DrainThreads, DrainPlan, Drain!CompletedHasOutcome, Drain!NoPlan, Drain!Working
<1>6. DrainAdmits
  <2>1. DrainRunning(jobs) = {}
    BY <1>3 DEF DrainRunning
  <2>2. Drain!Cardinality({}) = 0
    BY DrainCounts
  <2>. QED  BY <1>1, <2>1, <2>2 DEF DrainAdmits, DrainFits, Drain!DrainAssumption
<1>. QED  BY <1>2, <1>4, <1>5, <1>6 DEF DrainInv

LEMMA DrainNext ==
  ASSUME Drain!DrainAssumption, DrainInv, [Drain!Next]_<<Drain!vars, setup>> PROVE DrainInv'
<1>1. CASE UNCHANGED <<Drain!vars, setup>>
  <2>1. DrainAsideStep
    BY <1>1 DEF Drain!vars, DrainInv, DrainTypes, DrainAsideStep, DrainQuietRow, Drain!DrainAssumption
  <2>. QED  BY <2>1, DrainAside
<1>2. ASSUME setup' = setup, NEW d \in Drain!Job, Drain!Command(d) PROVE DrainInv'
  <2>1. CASE Drain!Check(d) \/ Drain!Submit(d)
    BY <1>2, <2>1, DrainChecks, DrainSubmits, DrainAside
  <2>2. CASE Drain!Return(d) \/ Drain!Acquire(d)
    BY <1>2, <2>2, DrainReturns, DrainAcquires
  <2>3. CASE Drain!Recover(d) \/ Drain!PersistRecovered(d) \/ Drain!PersistFails(d) \/ Drain!BeginCycle(d)
    BY <1>2, <2>3, DrainRecovers, DrainPersists, DrainPersistFails, DrainBegins
  <2>4. CASE \E late \in SUBSET Drain!Job : Drain!PlanPass(d, late)
    BY <1>2, <2>4, DrainPlansPass
  <2>5. CASE Drain!ApplyCancels(d) \/ Drain!ApplyReaps(d) \/ Drain!ApplyStarts(d) \/ Drain!PassFails(d) \/ Drain!SkipPass(d)
    BY <1>2, <2>5, DrainAppliesCancels, DrainAppliesReaps, DrainAppliesStarts, DrainPassFails, DrainSkips
  <2>6. CASE (\E j \in Drain!Job : Drain!Collect(d, j)) \/ Drain!EndCycle(d)
    BY <1>2, <2>6, DrainCollects, DrainEnds
  <2>. QED  BY <1>2, <2>1, <2>2, <2>3, <2>4, <2>5, <2>6 DEF Drain!Command
<1>3. ASSUME setup' = setup, NEW j \in Drain!Job, Drain!Thread(j) PROVE DrainInv'
  BY <1>3, DrainThreadSteps, DrainThread
<1>4. ASSUME setup' = setup, NEW j \in Drain!Job, Drain!World(j) PROVE DrainInv'
  <2>1. CASE Drain!DaemonSubmit(j)
    BY <1>4, <2>1, DrainSubmits, DrainAside
  <2>2. CASE Drain!DaemonStart(j) \/ Drain!Die(j)
    BY <1>4, <2>2, DrainDaemonStarts, DrainDies
  <2>3. CASE Drain!DaemonEnd(j) \/ Drain!DaemonRepair(j) \/ Drain!UserCancel(j) \/ Drain!Silence(j)
    BY <1>4, <2>3, DrainWorld, DrainAside
  <2>. QED  BY <1>4, <2>1, <2>2, <2>3 DEF Drain!World
<1>. QED  BY <1>1, <1>2, <1>3, <1>4 DEF Drain!Next

LEMMA DrainImplies ==
  ASSUME Drain!DrainAssumption, DrainInv PROVE Drain!DrainSafe
<1>1. Drain!TypeOK
  BY DEF DrainInv, DrainTypes, DrainThreads, Drain!TypeOK, DrainSteps, DrainHolding, DrainCycle, DrainUnborn
<1>2. Drain!RunningDisjoint
  <2>1. {j \in Drain!Job : Drain!Running(jobs[j])} = DrainRunning(jobs)
    BY DEF Drain!Running, DrainRunning
  <2>2. /\ Drain!Cardinality(DrainRunning(jobs)) <= DrainSlots
        /\ \A i, j \in DrainRunning(jobs) : i # j => Drain!ClaimsOf[i] \cap Drain!ClaimsOf[j] = {} /\ ~Drain!SamePr(i, j)
    BY DEF DrainInv, DrainAdmits, DrainFits, DrainApart, Drain!ClaimsOf, Drain!ShipOf, Drain!SamePr
  <2>. QED  BY <2>1, <2>2, Zenon DEF Drain!RunningDisjoint
<1>. QED  BY <1>1, <1>2 DEF Drain!DrainSafe, DrainInv

\* What the steps of a command make of rows that are not its own.
LEMMA DrainMoves ==
  ASSUME Drain!DrainAssumption, DrainInv, setup' = setup, NEW d \in Drain!Job, Drain!Command(d)
  PROVE  /\ \A j \in Drain!Job : Drain!OwnerOf[j] = "daemon" /\ jobs[j].status = "running" => jobs'[j].status = "running"
         /\ drain = d /\ Drain!ScopeOf[d] = "awaited" => \A j \in Drain!Job : j # d => DrainSame(jobs, jobs', j)
<1>0. DrainTypes /\ jobs \in Drain!Queue
  BY DEF DrainInv, DrainTypes
<1>1. ASSUME \A j \in Drain!Job : DrainSame(jobs, jobs', j)
      PROVE  \A j \in Drain!Job : Drain!OwnerOf[j] = "daemon" /\ jobs[j].status = "running" => jobs'[j].status = "running"
  BY <1>1 DEF DrainSame
<1>2. drain = d => cmd[d] \in DrainHolding
  BY DEF DrainInv, DrainHolder
<1>3. CASE Drain!Check(d)
  BY <1>2, <1>3, DrainChecks DEF Drain!Check, DrainHolding, DrainCycle
<1>4. CASE Drain!Submit(d)
  BY <1>2, <1>4, DrainSubmits DEF Drain!Submit, DrainHolding, DrainCycle
<1>5. CASE Drain!Return(d) \/ Drain!Acquire(d) \/ Drain!PersistRecovered(d) \/ Drain!PersistFails(d) \/ Drain!SkipPass(d) \/ Drain!EndCycle(d)
           \/ \E late \in SUBSET Drain!Job : Drain!PlanPass(d, late)
  <2>1. jobs' = jobs
    BY <1>5 DEF Drain!Return, Drain!Acquire, Drain!PersistRecovered, Drain!PersistFails, Drain!SkipPass,
                Drain!EndCycle, Drain!PlanPass
  <2>. QED  BY <1>1, <2>1 DEF DrainSame
<1>6. CASE Drain!Recover(d)
  <2>. DEFINE lost == {j \in Drain!Local : Drain!Running(jobs[j]) /\ Drain!Foreground(j)}
  <2>1. jobs' = Drain!TrimTerminal(Drain!CompleteAll(jobs, lost)) /\ lost \in SUBSET Drain!Job
    BY <1>6, DrainLocal DEF Drain!Recover
  <2>2. \A j \in lost : Drain!OwnerOf[j] # "daemon"
    BY DEF Drain!Foreground
  <2>. HIDE DEF lost
  <2>3. \A i \in Drain!Job : i \notin lost => DrainSame(jobs, jobs', i)
    BY <1>0, <2>1, DrainCompletes
  <2>4. Drain!ScopeOf[d] # "awaited"
    BY <1>6 DEF Drain!Recover, DrainInv, DrainHolder
  <2>. QED  BY <2>2, <2>3, <2>4 DEF DrainSame
<1>7. CASE Drain!BeginCycle(d)
  <2>1. \A i \in Drain!Job : DrainSame(jobs, jobs', i)
    BY <1>0, <1>7, DrainTrims DEF Drain!BeginCycle
  <2>. QED  BY <1>1, <2>1
<1>8. CASE Drain!ApplyCancels(d)
  <2>1. \A i \in Drain!Job : DrainSame(jobs, jobs', i) \/ (i \in plan.cancel /\ jobs[i].status = "pending")
    BY <1>0, <1>8, DrainCancelsPending DEF Drain!ApplyCancels, DrainTypes
  <2>. QED  BY <2>1, DrainCounts DEF DrainInv, DrainPlan, DrainSame
<1>9. CASE Drain!ApplyReaps(d)
  <2>. DEFINE reaped == {j \in plan.stale : Drain!IsStaleRunning(jobs[j])}
  <2>1. jobs' = Drain!TrimTerminal(Drain!CancelAll(jobs, reaped, "no-proof")) /\ reaped \in SUBSET Drain!Job
    BY <1>0, <1>9 DEF Drain!ApplyReaps, DrainTypes
  <2>2. reaped \subseteq plan.stale
    OBVIOUS
  <2>. HIDE DEF reaped
  <2>3. \A i \in Drain!Job : i \notin reaped => DrainSame(jobs, jobs', i)
    BY <1>0, <2>1, DrainReaps
  <2>4. \A i \in reaped : Drain!OwnerOf[i] # "daemon"
    BY <2>2 DEF DrainInv, DrainPlan, Drain!Foreground
  <2>. QED  BY <2>2, <2>3, <2>4, DrainCounts DEF DrainInv, DrainPlan, DrainSame
<1>10. CASE Drain!ApplyStarts(d)
  <2>. DEFINE started == {j \in plan.admit : Drain!Pending(jobs[j])}
  <2>1. jobs' = Drain!StartPending(jobs, started) /\ started \in SUBSET Drain!Job
    BY <1>0, <1>10 DEF Drain!ApplyStarts, DrainTypes
  <2>2. started \subseteq plan.admit
    OBVIOUS
  <2>. HIDE DEF started
  <2>3. \A i \in Drain!Job : jobs'[i].status = IF i \in started /\ jobs[i].status = "pending"
                                               THEN "running" ELSE jobs[i].status
    BY <1>0, <2>1, DrainStarts
  <2>. QED  BY <2>2, <2>3, DrainCounts DEF DrainInv, DrainPlan, DrainSame
<1>11. CASE \E j \in Drain!Job : Drain!Collect(d, j)
  <2>1. PICK j \in Drain!Job : Drain!Collect(d, j)
    BY <1>11
  <2>2. /\ worker[j] # "none" /\ jobs' \in {jobs, Drain!RequeueDeferredRunning(jobs, j)}
    BY <2>1 DEF Drain!Collect, Drain!Reports
  <2>3. \A i \in Drain!Job \ {j} : jobs'[i].status = jobs[i].status
    BY <1>0, <2>2, DrainRequeues
  <2>4. Drain!OwnerOf[j] # "daemon" /\ (drain = d /\ Drain!ScopeOf[d] = "awaited" => j = d)
    BY <2>2 DEF DrainInv, DrainThreads, Drain!Foreground
  <2>. QED  BY <2>3, <2>4 DEF DrainSame
<1>12. CASE Drain!PassFails(d)
  <2>1. jobs' = jobs \/ jobs' = Drain!StartPending(jobs, plan.admit)
    BY <1>12 DEF Drain!PassFails
  <2>2. \A i \in Drain!Job : jobs'[i].status = jobs[i].status \/ (i \in plan.admit /\ jobs[i].status = "pending")
    BY <1>0, <2>1, DrainStarts DEF DrainTypes
  <2>. QED  BY <2>2, DrainCounts DEF DrainInv, DrainPlan, DrainSame
<1>. QED  BY <1>3, <1>4, <1>5, <1>6, <1>7, <1>8, <1>9, <1>10, <1>11, <1>12 DEF Drain!Command

LEMMA DrainScopes ==
  ASSUME Drain!DrainAssumption, DrainInv, [Drain!Next]_<<Drain!vars, setup>>
  PROVE  /\ \A j \in Drain!Job : Drain!OwnerOf[j] = "daemon" /\ Drain!Running(jobs[j]) /\ ~Drain!Running(jobs'[j])
                             => cmd' = cmd /\ worker' = worker
         /\ \A d, j \in Drain!Job :
              /\ Drain!ScopeOf[d] = "awaited" /\ drain = d /\ cmd'[d] # cmd[d] /\ j # d
              => jobs'[j].status = jobs[j].status \/ Drain!Terminal(jobs[j])
<1>. USE DEF Drain!Running, Drain!Terminal, Drain!Final
<1>1. CASE UNCHANGED <<Drain!vars, setup>>
  BY <1>1 DEF Drain!vars
<1>2. ASSUME setup' = setup, NEW d \in Drain!Job, Drain!Command(d)
      PROVE  /\ \A j \in Drain!Job : Drain!OwnerOf[j] = "daemon" /\ Drain!Running(jobs[j]) => Drain!Running(jobs'[j])
             /\ \A c, j \in Drain!Job :
                  /\ Drain!ScopeOf[c] = "awaited" /\ drain = c /\ cmd'[c] # cmd[c] /\ j # c
                  => jobs'[j].status = jobs[j].status \/ Drain!Terminal(jobs[j])
  <2>1. \A c \in Drain!Job : c # d => cmd'[c] = cmd[c]
    <3>1. cmd' = cmd \/ \E w : cmd' = [cmd EXCEPT ![d] = w]
      BY <1>2 DEF Drain!Command, Drain!Check, Drain!Submit, Drain!Return, Drain!Acquire, Drain!Recover,
                  Drain!PersistRecovered, Drain!PersistFails,
                  Drain!BeginCycle, Drain!PlanPass, Drain!ApplyCancels, Drain!ApplyReaps, Drain!ApplyStarts, Drain!PassFails, Drain!SkipPass,
                  Drain!Collect, Drain!EndCycle, Drain!Goes
    <3>. QED  BY <3>1 DEF DrainInv, DrainTypes
  <2>. QED  BY <1>2, <2>1, DrainMoves DEF DrainSame
<1>3. ASSUME setup' = setup, NEW j \in Drain!Job, Drain!Thread(j)
      PROVE  /\ \A i \in Drain!Job : Drain!OwnerOf[i] = "daemon" /\ Drain!Running(jobs[i]) => Drain!Running(jobs'[i])
             /\ cmd' = cmd
  <2>1. DrainThreadStep(j)
    BY <1>3, DrainThreadSteps
  <2>2. cmd' = cmd /\ worker[j] # "none" /\ \A i \in Drain!Job \ {j} : DrainSame(jobs, jobs', i)
    BY <2>1 DEF DrainThreadStep
  <2>3. Drain!OwnerOf[j] # "daemon"
    BY <2>2 DEF DrainInv, DrainThreads, Drain!Foreground
  <2>. QED  BY <2>2, <2>3 DEF DrainSame
<1>4. ASSUME setup' = setup, NEW j \in Drain!Job, Drain!World(j)
      PROVE  \/ cmd' = cmd /\ worker' = worker
             \/ /\ \A i \in Drain!Job : Drain!Running(jobs[i]) => Drain!Running(jobs'[i])
                /\ \A c \in Drain!Job : drain = c /\ cmd'[c] # cmd[c] => jobs' = jobs
  <2>1. CASE Drain!DaemonSubmit(j)
    <3>1. cmd[j] = "none" /\ cmd' = [cmd EXCEPT ![j] = "gone"]
      BY <2>1 DEF Drain!DaemonSubmit, Drain!Goes
    <3>2. \A c \in Drain!Job : drain = c => cmd'[c] = cmd[c]
      BY <3>1 DEF DrainInv, DrainTypes, DrainHolder, DrainHolding, DrainCycle
    <3>. QED  BY <1>4, <2>1, <3>2, DrainSubmits
  <2>2. CASE Drain!DaemonStart(j)
    BY <2>2 DEF Drain!DaemonStart, Drain!Others
  <2>3. CASE Drain!Die(j)
    BY <2>3 DEF Drain!Die
  <2>4. CASE Drain!DaemonEnd(j) \/ Drain!DaemonRepair(j) \/ Drain!UserCancel(j) \/ Drain!Silence(j)
    BY <1>4, <2>4, DrainWorld
  <2>. QED  BY <1>4, <2>1, <2>2, <2>3, <2>4 DEF Drain!World
<1>5. CASE Drain!Next
  <2>1. setup' = setup /\ \E j \in Drain!Job : Drain!Command(j) \/ Drain!Thread(j) \/ Drain!World(j)
    BY <1>5 DEF Drain!Next
  <2>2. PICK j \in Drain!Job : Drain!Command(j) \/ Drain!Thread(j) \/ Drain!World(j)
    BY <2>1
  <2>3. CASE Drain!Command(j)
    BY <1>2, <2>1, <2>3
  <2>4. CASE Drain!Thread(j)
    BY <1>3, <2>1, <2>4
  <2>5. CASE Drain!World(j)
    BY <1>4, <2>1, <2>5
  <2>. QED  BY <2>2, <2>3, <2>4, <2>5
<1>. QED  BY <1>1, <1>5


-----------------------------------------------------------------------------
(* The protocols side by side. *)

\* A step is a step of one protocol, or leaves it alone.
LEMMA Projections ==
  ASSUME [Next]_vars
  PROVE  /\ [File!Next]_(File!vars)
         /\ [Domain!Next]_(Domain!vars)
         /\ [ShipState!Next]_(ShipState!vars)
         /\ [Absent!Next]_(Absent!vars)
         /\ [Drain!Next]_<<Drain!vars, setup>>
<1>1. [File!Next]_(File!vars)
  BY DEF Next, vars, fileVars, File!vars, BytesOnly, ProofsOnly, DomainOnly, ShipOnly,
         AbsentOnly, DrainOnly
<1>2. [Domain!Next]_(Domain!vars)
  BY DEF Next, vars, domainVars, Domain!vars, FileOnly, BytesOnly, ProofsOnly, ShipOnly,
         AbsentOnly, DrainOnly
<1>3. [ShipState!Next]_(ShipState!vars)
  BY DEF Next, vars, shipVars, ShipState!vars, FileOnly, BytesOnly, ProofsOnly, DomainOnly,
         AbsentOnly, DrainOnly
<1>4. [Absent!Next]_(Absent!vars)
  BY DEF Next, vars, absentVars, Absent!vars, FileOnly, BytesOnly, ProofsOnly, DomainOnly,
         ShipOnly, DrainOnly
<1>5. [Drain!Next]_<<Drain!vars, setup>>
  BY DEF Next, vars, drainVars, Drain!vars, FileOnly, BytesOnly, ProofsOnly, DomainOnly,
         ShipOnly, AbsentOnly
<1>. QED  BY <1>1, <1>2, <1>3, <1>4, <1>5

\* Replacement of a file is atomic and durable, for any number of processes,
\* with a failure of any step and a power loss at any point (replace in
\* durable_file.rs).
THEOREM FilesStaySafe == Spec => []FileSafe
<1>1. Init => FileInv
  BY FileInit DEF Init
<1>2. FileInv /\ [Next]_vars => FileInv'
  BY FileStep, Projections
<1>3. FileInv => FileSafe
  BY FilePromise DEF FileSafe
<1>. QED  BY <1>1, <1>2, <1>3, PTL DEF Spec

\* While an audit is inside no writer is, at whatever depth, and no mutation
\* that has begun fails for want of the lock, whoever dies or times out
\* (acquire_at and Drop in writer_domain_lease.rs, the hand-over in
\* app/update_cmd.rs).
THEOREM DomainStaysSafe == Spec => []DomainSafe
<1>0. Domain!DomainAssumption
  BY Assumptions DEF Assumptions
<1>1. Init => DomainInv
  BY <1>0, DomainInit DEF Init
<1>2. DomainInv /\ [Next]_vars => DomainInv'
  BY <1>0, DomainStep, Projections
<1>3. DomainInv => DomainSafe
  BY DomainPromise DEF DomainSafe
<1>. QED  BY <1>1, <1>2, <1>3, PTL DEF Spec

\* Audits exclude each other: each keeps turnstile and domain lock until it
\* ends or dies (final_reconciliation_writer_fence).
THEOREM AuditsExclude == Spec => []OneAudit
<1>0. Domain!DomainAssumption
  BY Assumptions DEF Assumptions
<1>1. Init => DomainInv
  BY <1>0, DomainInit DEF Init
<1>2. DomainInv /\ [Next]_vars => DomainInv'
  BY <1>0, DomainStep, Projections
<1>3. DomainInv => OneAudit
  BY DomainPromise
<1>. QED  BY <1>1, <1>2, <1>3, PTL DEF Spec

\* Whoever has the lock of its repository finds every update, those of older
\* binaries included; what was removed does not come back; a number that two
\* repositories use has a marker whenever an older binary can look (the
\* migration, the mirror and the marker of ship_state.rs).
THEOREM ShipStatesStaySafe == Spec => []ShipStateSafe
<1>0. ShipState!ShipStateAssumption
  BY Assumptions DEF Assumptions
<1>1. Init => ShipInv
  BY <1>0, ShipInit DEF Init
<1>2. ShipInv /\ [Next]_vars => ShipInv'
  BY <1>0, ShipStep, Projections
<1>3. ShipInv => ShipStateSafe
  BY <1>0, ShipPromise DEF ShipStateSafe
<1>. QED  BY <1>1, <1>2, <1>3, PTL DEF Spec

\* The fence, the locks of the repositories and the lock of the mirror are never
\* waited for in a circle, for any number of processes and repositories
\* (lock_pr_scoped and sync_legacy_mirror_for_pr in ship_state.rs).
THEOREM ShipLocksGoOn == Spec => []OneGoesOn
<1>0. ShipState!ShipStateAssumption
  BY Assumptions DEF Assumptions
<1>1. Init => ShipInv
  BY <1>0, ShipInit DEF Init
<1>2. ShipInv /\ [Next]_vars => ShipInv'
  BY <1>0, ShipStep, Projections
<1>3. ShipInv => OneGoesOn
  BY <1>0, ShipGoesOn DEF OneGoesOn
<1>. QED  BY <1>1, <1>2, <1>3, PTL DEF Spec

\* The work of a job that fell out of the queue is queued again at most once, and
\* only when no worker lives, no job is queued and neither source nor replacement
\* has an outcome, for any number of submissions, losses of the queue and deaths
\* (recover_locked and claim_and_enqueue in queue_absent_recovery.rs).
THEOREM RecoveryStaysSafe == Spec => RecoverySafe
<1>0. Absent!RecoveryAssumption
  BY Assumptions DEF Assumptions
<1>1. Init => AbsentInv
  BY <1>0, AbsentInit DEF Init
<1>2. AbsentInv /\ [Next]_vars => AbsentInv'
  BY <1>0, AbsentNext, Projections
<1>3. AbsentInv => Absent!TypeOK /\ Absent!OneGeneration
  BY <1>0, AbsentStates
<1>4. AbsentInv /\ [Next]_vars =>
        [\A r \in Absent!Job :
           rec.pc = "saved" /\ rows[r] = "absent" /\ rows'[r] = "pending" /\ r = record.replacement
             => Absent!Alive = {} /\ Absent!Live = {} /\ ~ship.done
                /\ {rec.source, r} \cap stored = {}]_(Absent!vars)
  BY <1>0, AbsentReplays, Projections
<1>. QED  BY <1>1, <1>2, <1>3, <1>4, PTL DEF Spec, RecoverySafe, Absent!RecoverySafe, Absent!ReplaySafe

\* Admission passes that are planned over a snapshot and applied in three writes,
\* by changing holders of the drain lock, never let two running jobs share an
\* exclusive claim or a pull request or overcommit the host pool, and every completed
\* job can be waited for, for any number of jobs, slots and workers, any owners,
\* claims, priorities and workloads (admit_drain_worker_inputs and run_started_worker
\* in ship.rs, the planner in queue_scheduler.rs).
THEOREM DrainStaysSafe == Spec => []DrainSafe
<1>0. Drain!DrainAssumption
  BY Assumptions DEF Assumptions
<1>1. Init => DrainInv
  BY <1>0, DrainInit DEF Init
<1>2. DrainInv /\ [Next]_vars => DrainInv'
  BY <1>0, DrainNext, Projections
<1>3. DrainInv => DrainSafe
  BY <1>0, DrainImplies DEF DrainSafe
<1>. QED  BY <1>1, <1>2, <1>3, PTL DEF Spec

\* No command and no thread of a command ends a running job of the daemon, and the
\* drain of a command that awaits its own job only leaves every other live row alone
\* (the awaited-only scope of ship.rs).
THEOREM DrainStaysScoped == Spec => DrainScoped
<1>0. Drain!DrainAssumption
  BY Assumptions DEF Assumptions
<1>1. Init => DrainInv
  BY <1>0, DrainInit DEF Init
<1>2. DrainInv /\ [Next]_vars => DrainInv'
  BY <1>0, DrainNext, Projections
<1>3. DrainInv /\ [Next]_vars =>
        [\A j \in Drain!Job : Drain!OwnerOf[j] = "daemon" /\ Drain!Running(jobs[j]) /\ ~Drain!Running(jobs'[j])
           => cmd' = cmd /\ worker' = worker]_(Drain!vars)
  BY <1>0, DrainScopes, Projections
<1>4. DrainInv /\ [Next]_vars =>
        [\A d, j \in Drain!Job :
           /\ Drain!ScopeOf[d] = "awaited" /\ drain = d /\ cmd'[d] # cmd[d] /\ j # d
           => jobs'[j].status = jobs[j].status \/ Drain!Terminal(jobs[j])]_(Drain!vars)
  BY <1>0, DrainScopes, Projections
<1>. QED  BY <1>1, <1>2, <1>3, <1>4, PTL
          DEF Spec, DrainScoped, Drain!DrainScoped, Drain!DaemonRowsKept, Drain!AwaitedOnlyScoped
-----------------------------------------------------------------------------
(* The record stores: StoreProofs, for each of the two. *)

ByteStore == INSTANCE StoreProofs WITH
  pc <- storePc, SyncOnReplay <- FALSE, Reconciles <- TRUE
ProofStore == INSTANCE StoreProofs WITH
  pc <- storePc, SyncOnReplay <- TRUE, Reconciles <- FALSE

LEMMA ByteSteps ==
  ASSUME Bytes!Next
  PROVE  ByteStore!Next
  BY Zenon
     DEF Bytes!Next, Bytes!Step, Bytes!Lock, Bytes!Check, Bytes!WritePending, Bytes!Rename,
         Bytes!Sync, Bytes!Reconcile, Bytes!Opened, Bytes!Open, Bytes!Die, Bytes!Put,
         Bytes!PowerLoss, Bytes!Replay, Bytes!Answer, Bytes!Fail, Bytes!Free, Bytes!Goes,
         Bytes!KeyOf, Bytes!BytesOf, Bytes!None, Bytes!Ended,
         ByteStore!Next, ByteStore!Step, ByteStore!Lock, ByteStore!Check,
         ByteStore!WritePending, ByteStore!Rename, ByteStore!Sync, ByteStore!Reconcile,
         ByteStore!Opened, ByteStore!Open, ByteStore!Die, ByteStore!Put, ByteStore!PowerLoss,
         ByteStore!Replay, ByteStore!Answer, ByteStore!Fail, ByteStore!Free, ByteStore!Goes,
         ByteStore!KeyOf, ByteStore!BytesOf, ByteStore!None, ByteStore!Ended

LEMMA ProofSteps ==
  ASSUME Proofs!Next
  PROVE  ProofStore!Next
  BY Zenon
     DEF Proofs!Next, Proofs!Step, Proofs!Lock, Proofs!Check, Proofs!WritePending, Proofs!Rename,
         Proofs!Sync, Proofs!Reconcile, Proofs!Opened, Proofs!Open, Proofs!Die, Proofs!Put,
         Proofs!PowerLoss, Proofs!Replay, Proofs!Answer, Proofs!Fail, Proofs!Free, Proofs!Goes,
         Proofs!KeyOf, Proofs!BytesOf, Proofs!None, Proofs!Ended,
         ProofStore!Next, ProofStore!Step, ProofStore!Lock, ProofStore!Check,
         ProofStore!WritePending, ProofStore!Rename, ProofStore!Sync, ProofStore!Reconcile,
         ProofStore!Opened, ProofStore!Open, ProofStore!Die, ProofStore!Put, ProofStore!PowerLoss,
         ProofStore!Replay, ProofStore!Answer, ProofStore!Fail, ProofStore!Free, ProofStore!Goes,
         ProofStore!KeyOf, ProofStore!BytesOf, ProofStore!None, ProofStore!Ended

\* The stores differ in their steps, not in their invariant or their promise.
LEMMA OneInvariant ==
  /\ ProofStore!StoreInv = ByteStore!StoreInv
  /\ ProofStore!StoreInv' = ByteStore!StoreInv'
  /\ ProofStore!Promised = ByteStore!Promised
<1>1. /\ ProofStore!StoreInv = ByteStore!StoreInv
      /\ ProofStore!StoreInv' = ByteStore!StoreInv'
  BY Zenon DEF ByteStore!StoreInv, ByteStore!TypeOK, ByteStore!LockInv, ByteStore!DiskInv,
     ByteStore!CheckHolds, ByteStore!NoLitter, ByteStore!Holding, ByteStore!KeyOf,
     ByteStore!None, ByteStore!Ended,
     ProofStore!StoreInv, ProofStore!TypeOK, ProofStore!LockInv, ProofStore!DiskInv,
     ProofStore!CheckHolds, ProofStore!NoLitter, ProofStore!Holding, ProofStore!KeyOf,
     ProofStore!None, ProofStore!Ended
<1>2. ProofStore!Promised = ByteStore!Promised
  BY Zenon DEF ByteStore!Promised, ByteStore!Publishes, ByteStore!Tells, ByteStore!Forgets,
     ByteStore!None, ProofStore!Promised, ProofStore!Publishes, ProofStore!Tells,
     ProofStore!Forgets, ProofStore!None
<1>. QED  BY <1>1, <1>2

LEMMA StoresStep ==
  ASSUME ByteStore!StoreInv, [Next]_vars
  PROVE  ByteStore!StoreInv' /\ ByteStore!Promised
<1>0. ByteStore!ImmutableAssumption /\ ProofStore!ImmutableAssumption
  BY Assumptions DEF Assumptions, Bytes!ImmutableAssumption, Proofs!ImmutableAssumption,
     Bytes!None, Proofs!None, ByteStore!ImmutableAssumption, ProofStore!ImmutableAssumption,
     ByteStore!None, ProofStore!None
<1>1. CASE subject = "bytes" /\ Bytes!Next
  BY <1>0, <1>1, ByteSteps, ByteStore!StoreStep
<1>2. CASE subject = "proofs" /\ Proofs!Next
  <2>1. ProofStore!StoreInv' /\ ProofStore!Promised
    BY <1>0, <1>2, ProofSteps, OneInvariant, ProofStore!StoreStep
  <2>. QED  BY <2>1, OneInvariant
<1>3. CASE UNCHANGED storeVars
  BY <1>0, <1>3, ByteStore!StoreStep DEF storeVars, ByteStore!vars
<1>. QED  BY <1>1, <1>2, <1>3 DEF Next, vars, FileOnly, DomainOnly, ShipOnly, AbsentOnly, DrainOnly

\* Both record stores implement WriteOnce: a record that a caller was told of
\* after a sync of the directory survives every crash and is never another
\* (put of immutable_store.rs and of parallel_proof.rs).
THEOREM StoresKeepTheirPromise == Spec => KeepsPromise
<1>0. ByteStore!ImmutableAssumption
  BY Assumptions DEF Assumptions, Bytes!ImmutableAssumption, Bytes!None,
     ByteStore!ImmutableAssumption, ByteStore!None
<1>1. Init => ByteStore!StoreInv /\ Bytes!Promise!Init
  <2>1. Bytes!Init => ByteStore!Init
    BY Zenon DEF Bytes!Init, ByteStore!Init, Bytes!None, ByteStore!None
  <2>2. Bytes!Init => Bytes!Promise!Init
    BY DEF Bytes!Init, Bytes!Promise!Init, Bytes!None
  <2>. QED  BY <1>0, <2>1, <2>2, ByteStore!StoreInit DEF Init
<1>2. ByteStore!StoreInv /\ [Next]_vars
        => ByteStore!StoreInv' /\ [Bytes!Promise!Next]_(Bytes!Promise!vars)
  <2>1. SUFFICES ASSUME ByteStore!StoreInv, [Next]_vars
                 PROVE  ByteStore!StoreInv' /\ [Bytes!Promise!Next]_(Bytes!Promise!vars)
    OBVIOUS
  <2>2. ByteStore!StoreInv' /\ [ByteStore!Promise!Next]_(ByteStore!Promise!vars)
    BY <2>1, StoresStep, ByteStore!PromisedSteps
  <2>. QED  BY <2>2 DEF Bytes!Promise!Next, Bytes!Promise!vars, Bytes!Promise!Write,
             Bytes!Promise!Tell, Bytes!Promise!Forget, Bytes!None, ByteStore!Promise!Next,
             ByteStore!Promise!vars, ByteStore!Promise!Write, ByteStore!Promise!Tell,
             ByteStore!Promise!Forget, ByteStore!None
<1>. QED  BY <1>1, <1>2, PTL DEF Spec, KeepsPromise, Bytes!KeepsPromise, Bytes!Promise!Spec
=============================================================================
