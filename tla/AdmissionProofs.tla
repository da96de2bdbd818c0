--------------------------- MODULE AdmissionProofs ----------------------------
(***************************************************************************)
(* The mutation ledger is true and fences retries: theorems of             *)
(* QueueAdmission for any number of processes, heads, bases, starts,       *)
(* mutations, crashes, lost replies and interventions.                     *)
(***************************************************************************)
EXTENDS QueueAdmission, TLAPS

-----------------------------------------------------------------------------
(* The invariant. *)

States == {"idle", "validate", "admit", "acquire", "revoke", "enqueued", "poll"} \cup Guarded
Actions == Revocations \cup {Arm}

Pulls ==
    [head : Heads, base : Bases, merged : BOOLEAN, queued : BOOLEAN, armed : BOOLEAN,
     removal : {NONE} \cup [reason : Terminal \cup {"invalid"}, at : Times, pushed : BOOLEAN]]

ProcStates ==
    [pc : States, st : ShipStates \cup {NONE}, sup : BOOLEAN, seen : BOOLEAN, stamp : Times,
     path : Paths, act : Actions, todo : SUBSET Revocations, base : Bases \cup {NONE},
     id : 0 .. used.id, dead : BOOLEAN]

Requests ==
    [id : 1 .. used.id, act : Actions, head : Heads, base : Bases, path : Paths,
     dead : BOOLEAN, reply : {"none", "accepted", "rejected"}]

Fixes ==
    [pc : {"idle", "judge", "apply", "append"}, entry : Entries \cup {NONE},
     verdict : {"accepted", "rejected", NONE}]

Types ==
    /\ pr \in Pulls /\ ship \in ShipStates \cup {NONE}
    /\ prLock \in Procs \cup {NONE} /\ ctl \in Procs \cup Settlers \cup {NONE}
    /\ hold \in BOOLEAN /\ op \in {"idle", "waiting"} /\ struck \in BOOLEAN
    /\ ledger \subseteq Entries /\ net \subseteq Requests
    /\ fix \in Fixes /\ proc \in [Procs -> ProcStates]
    /\ clock \in Nat /\ used \in [run : Nat, id : 0 .. MaxId, event : Nat]
    /\ granted \subseteq Heads

\* Whoever writes to the ledger has control; merge_pr works on the ship state
\* itself, supervision on a copy it compares.
LockInv ==
    /\ \A p \in Procs : proc[p].pc \in Guarded => ctl = p
    /\ fix.pc # "idle" => ctl \in Settlers /\ fix.entry \in ledger
    /\ \A p \in Procs :
         ~proc[p].sup /\ proc[p].pc \notin {"idle", "enqueued"}
           => prLock = p /\ proc[p].st = ship

\* What a process in state n carries with it.
Carries(n) ==
    /\ n.pc # "idle" => n.st # NONE
    /\ n.pc \in {"revoke", "acquire"} \cup Guarded => n.base \in Bases
    /\ n.act = Arm /\ n.pc \in {"acquire"} \cup Guarded => n.base = n.st.base
    /\ n.act # Arm => n.pc \in {"acquire", "send", "wait", "won", "refused"}
    /\ n.sup => n.pc \notin {"validate", "admit", "enqueued"}
    /\ n.pc = "poll" => n.sup
    /\ ~n.sup /\ n.act = Arm /\ n.pc \in {"acquire", "mark"} => n.stamp # 0

CarryInv == \A p \in Procs : Carries(proc[p])

\* A number is given once, and a base has one uncertain entry.
IdInv ==
    /\ \A e \in ledger : e.id <= used.id /\ e.at # 0
    /\ \A e1, e2 \in ledger : e1.id = e2.id \/ e1.base = e2.base => e1 = e2
    /\ \A p, q \in Procs : proc[p].id = proc[q].id /\ proc[p].id # 0 => p = q
    /\ \A r1, r2 \in net : r1.id = r2.id => r1 = r2

\* The entry a guarded process has written.
Entry(p, e) ==
    /\ e.id = proc[p].id /\ e.act = proc[p].act /\ e.base = proc[p].base
    /\ e.head = proc[p].st.head

\* A guarded process has its entry, and a waiting one its request.
EntryInv ==
    /\ \A p \in Procs : proc[p].pc \in Guarded => \E e \in ledger : Entry(p, e)
    /\ \A r \in net, e \in ledger : r.id = e.id => r.base = e.base
    /\ \A p \in Procs :
         /\ proc[p].pc \in {"mark", "send"} => \A r \in net : r.id # proc[p].id
         /\ proc[p].pc = "wait"
              => \E r \in net : r.id = proc[p].id /\ r.act = proc[p].act /\ r.head = proc[p].st.head

Unmarked == ship # NONE => ship.started = 0

\* Who removes an entry leaves no marker of it behind.
MarkInv ==
    /\ MarkerSettled
    /\ \A p \in Procs :
         /\ proc[p].pc = "mark" => Unmarked \/ ship.base # proc[p].base
         /\ proc[p].pc \in {"close", "close_refused", "close_gated"} => Unmarked
    /\ fix.pc = "append" /\ fix.entry.act = Arm => Unmarked \/ ~SameIdentity(ship, fix.entry)

\* Every acceptance was one.
ProofInv ==
    /\ ProofReal
    /\ pr.queued \/ pr.armed => pr.head \in granted
    /\ \A r \in net : r.act = Arm /\ r.reply = "accepted" => r.head \in granted
    /\ \A p \in Procs : proc[p].pc = "won" /\ proc[p].act = Arm => proc[p].st.head \in granted
    /\ fix.pc = "apply" /\ fix.entry.act = Arm /\ fix.verdict = "accepted"
         => fix.entry.head \in granted \/ pr.merged

\* A terminal removal is later than the start of the attempt, whatever is about
\* to move that start.
StruckInv ==
    /\ pr.merged => ~pr.queued /\ ~pr.armed /\ ~struck
    /\ struck => /\ ~pr.queued /\ ~pr.armed
                 /\ pr.removal # NONE /\ pr.removal.reason \in Terminal
                 /\ ship # NONE => AttemptStart(ship) <= pr.removal.at
    /\ \A p \in Procs :
         /\ struck /\ ~proc[p].sup /\ proc[p].act = Arm /\ proc[p].pc \in {"acquire", "mark"}
              => proc[p].stamp <= pr.removal.at
         /\ proc[p].sup /\ proc[p].act = Arm /\ proc[p].pc = "won" => ~struck
         /\ proc[p].sup /\ proc[p].act = Arm /\ proc[p].pc = "wait"
              => \A r \in net : r.id = proc[p].id /\ r.reply = "accepted" => ~struck
    /\ struck /\ fix.pc = "apply" /\ fix.entry.act = Arm /\ fix.verdict = "accepted"
         => fix.entry.at <= pr.removal.at

\* A terminal removal is not armed over.
PathInv ==
    /\ TerminalStays
    /\ \A p \in Procs :
         proc[p].act = Arm /\ proc[p].path \in {"admit", "evicted"} => ~proc[p].dead

AdmissionInv ==
    /\ Types /\ LockInv /\ HoldQuiet /\ CarryInv /\ IdInv /\ EntryInv /\ MarkInv /\ ProofInv
    /\ StruckInv /\ PathInv

-----------------------------------------------------------------------------
(* What a step keeps. *)

\* Time and numbers only grow.
Later ==
    /\ clock' \in {clock, Now}
    /\ used' \in [run : Nat, id : 0 .. MaxId, event : Nat] /\ used'.id >= used.id

LEMMA Grows ==
  ASSUME Types, Later
  PROVE  /\ Times \subseteq Times' /\ clock' \in Nat /\ clock' \in Times'
         /\ ShipStates \subseteq ShipStates' /\ Entries \subseteq Entries'
         /\ Pulls \subseteq Pulls' /\ Fixes \subseteq Fixes'
         /\ ProcStates \subseteq ProcStates' /\ Requests \subseteq Requests'
<1>1. Times \subseteq Times' /\ clock' \in Nat /\ clock' \in Times'
  BY DEF Types, Later, Now, Times
<1>2. ShipStates \subseteq ShipStates' /\ Entries \subseteq Entries'
  BY <1>1 DEF ShipStates, Entries
<1>3. Pulls \subseteq Pulls' /\ Fixes \subseteq Fixes'
  BY <1>1, <1>2 DEF Pulls, Fixes
<1>4. 0 .. used.id \subseteq 0 .. used'.id /\ 1 .. used.id \subseteq 1 .. used'.id
  BY AdmissionAssumption DEF Types, Later
<1>5. ProcStates \subseteq ProcStates'
  BY <1>1, <1>2, <1>4 DEF ProcStates
<1>6. Requests \subseteq Requests'
  BY <1>4 DEF Requests
<1>. QED  BY <1>1, <1>2, <1>3, <1>5, <1>6

\* Variables that keep their values keep their types.
LEMMA TypesKept ==
  ASSUME Types, Later
  PROVE  /\ pr' = pr => pr' \in Pulls'
         /\ ship' \in {ship, NONE} => ship' \in ShipStates' \cup {NONE}
         /\ ledger' \subseteq ledger => ledger' \subseteq Entries'
         /\ net' \subseteq net => net' \subseteq Requests'
         /\ fix' = fix => fix' \in Fixes'
         /\ proc' = proc => proc' \in [Procs -> ProcStates']
         /\ \A p \in Procs, n \in ProcStates' :
              proc' = [proc EXCEPT ![p] = n] => proc' \in [Procs -> ProcStates']
<1>1. /\ ShipStates \subseteq ShipStates' /\ Entries \subseteq Entries'
      /\ Pulls \subseteq Pulls' /\ Fixes \subseteq Fixes'
      /\ ProcStates \subseteq ProcStates' /\ Requests \subseteq Requests'
  BY Grows
<1>. QED  BY <1>1 DEF Types

LEMMA IdleTyped ==
  ASSUME Types, Later
  PROVE  Idle \in ProcStates'
  BY AdmissionAssumption DEF Types, Later, Now, Idle, ProcStates, States, Actions, Paths, Times, Arm

LEMMA NoneApart ==
    /\ clock \in Nat => NONE \notin ShipStates
    /\ clock' \in Nat => NONE \notin ShipStates'
  BY AdmissionAssumption DEF ShipStates, Times

-----------------------------------------------------------------------------
(* Processes without the guard. *)

\* Process p goes on in state n, without the guard.
Unguarded(p, n) ==
    /\ n.pc \notin Guarded /\ n.id \in {0, proc[p].id} /\ Carries(n)
    /\ ~n.sup /\ n.pc \notin {"idle", "enqueued"} => prLock' = p /\ n.st = ship'
    /\ n.act = Arm /\ n.path \in {"admit", "evicted"} => ~n.dead
    /\ struck /\ ~n.sup /\ n.act = Arm /\ n.pc = "acquire" => n.stamp <= pr.removal.at

\* What p may do on the way: take or drop the ship-state lock, drop control,
\* archive the ship state nobody else works on, close its own entry, and take
\* or give up its own reply.
Leaves(p) ==
    /\ \/ prLock' = prLock
       \/ prLock = NONE /\ prLock' = p
       \/ prLock = p /\ prLock' = NONE
    /\ ctl' = ctl \/ (ctl = p /\ ctl' = NONE)
    /\ ship' = ship \/ (ship' = NONE /\ prLock \in {p, NONE})
    /\ ledger' = ledger \/ (proc[p].pc \in Guarded /\ Finish(p))
    /\ MarkerSettled'
    /\ net' \subseteq net /\ \A r \in net : r.id # proc[p].id => r \in net'
    /\ UNCHANGED <<pr, granted, struck, hold, fix, op>>

\* A process that goes on without the guard disturbs nobody.
LEMMA Turns ==
  ASSUME AdmissionInv, Later, NEW p \in Procs, NEW n \in ProcStates',
         proc' = [proc EXCEPT ![p] = n], Unguarded(p, n), Leaves(p)
  PROVE  AdmissionInv'
<1>0. /\ Types /\ LockInv /\ HoldQuiet /\ CarryInv /\ IdInv /\ EntryInv /\ MarkInv /\ ProofInv
      /\ StruckInv /\ PathInv
  BY DEF AdmissionInv
<1>1. /\ proc'[p] = n /\ \A q \in Procs : q # p => proc'[q] = proc[q]
      /\ n.pc \notin Guarded
  BY <1>0 DEF Types, Unguarded
<1>2. /\ ledger' \subseteq ledger /\ net' \subseteq net
      /\ \A q \in Procs : q # p /\ proc[q].pc \in Guarded => ledger' = ledger
      /\ fix.pc # "idle" => ledger' = ledger
  BY <1>0, AdmissionAssumption DEF Leaves, Finish, LockInv, Settlers
<1>3. Types'
  <2>1. /\ pr' \in Pulls' /\ ship' \in ShipStates' \cup {NONE} /\ ledger' \subseteq Entries'
        /\ net' \subseteq Requests' /\ fix' \in Fixes'
    BY <1>0, <1>2, TypesKept DEF Leaves
  <2>2. proc' \in [Procs -> ProcStates']
    BY <1>0, TypesKept
  <2>3. clock' \in Nat
    BY <1>0, Grows
  <2>. QED  BY <1>0, <2>1, <2>2, <2>3 DEF Types, Leaves, Later
<1>4. LockInv'
  BY <1>0, <1>1, <1>2, AdmissionAssumption DEF LockInv, Leaves, Unguarded, Settlers, Types
<1>5. HoldQuiet'
  BY <1>0, <1>1 DEF HoldQuiet, Leaves
<1>6. CarryInv'
  BY <1>0, <1>1 DEF CarryInv, Unguarded
<1>7. IdInv'
  <2>1. used'.id >= used.id /\ used.id \in Nat /\ used'.id \in Nat
    BY <1>0 DEF Types, Later
  <2>2. \A e \in ledger : e.id \in Nat /\ e.id <= used'.id
    BY <1>0, <2>1 DEF IdInv, Types, Entries
  <2>. QED  BY <1>0, <1>1, <1>2, <2>2 DEF IdInv, Unguarded
<1>8. EntryInv'
  <2>1. \A q \in Procs : q # p /\ proc[q].pc = "wait" => \A r \in net : r.id = proc[q].id => r \in net'
    <3>1. SUFFICES ASSUME NEW q \in Procs, q # p, proc[q].pc = "wait",
                          NEW r \in net, r.id = proc[q].id
                   PROVE  r \in net'
      OBVIOUS
    <3>2. r.id # 0 /\ r.id # proc[p].id
      BY <1>0, <3>1 DEF IdInv, Types, Requests
    <3>. QED  BY <3>2 DEF Leaves
  <2>2. \A q \in Procs : proc'[q].pc \in Guarded => \E e \in ledger' : Entry(q, e)'
    BY <1>0, <1>1, <1>2 DEF EntryInv, Entry
  <2>3. \A r \in net', e \in ledger' : r.id = e.id => r.base = e.base
    BY <1>0, <1>2 DEF EntryInv
  <2>4. ASSUME NEW q \in Procs
        PROVE  /\ proc'[q].pc \in {"mark", "send"} => \A r \in net' : r.id # proc'[q].id
               /\ proc'[q].pc = "wait"
                    => \E r \in net' : /\ r.id = proc'[q].id /\ r.act = proc'[q].act
                                       /\ r.head = proc'[q].st.head
    <3>1. CASE q = p
      BY <1>1, <3>1 DEF Guarded
    <3>2. CASE q # p
      BY <1>0, <1>1, <1>2, <2>1, <3>2 DEF EntryInv
    <3>. QED  BY <3>1, <3>2
  <2>. QED  BY <2>2, <2>3, <2>4 DEF EntryInv
<1>9. MarkInv'
  BY <1>0, <1>1 DEF MarkInv, Leaves, Unmarked, SameIdentity, Guarded
<1>10. ProofInv'
  BY <1>0, <1>1, <1>2 DEF ProofInv, ProofReal, Leaves, Guarded
<1>11. StruckInv'
  BY <1>0, <1>1, <1>2 DEF StruckInv, AttemptStart, Leaves, Unguarded, Guarded
<1>12. PathInv'
  BY <1>0, <1>1, <1>2 DEF PathInv, TerminalStays, Unguarded
<1>. QED  BY <1>3, <1>4, <1>5, <1>6, <1>7, <1>8, <1>9, <1>10, <1>11, <1>12 DEF AdmissionInv

LEMMA MarkerKept ==
  ASSUME AdmissionInv, ledger' = ledger, ship' \in {ship, NONE}
  PROVE  MarkerSettled'
  BY DEF AdmissionInv, MarkInv, MarkerSettled, SameIdentity

\* A finish never orphans a marker.
LEMMA FinishKept ==
  ASSUME AdmissionInv, NEW p \in Procs, Finish(p), ship' \in {ship, NONE},
         \/ proc[p].pc \in {"mark", "close", "close_refused", "close_gated"}
         \/ proc[p].pc \in Guarded /\ proc[p].act # Arm
  PROVE  MarkerSettled'
<1>1. SUFFICES ASSUME ship' = ship, ship # NONE, ship.started # 0
               PROVE  \E e \in ledger' : e.act = Arm /\ SameIdentity(e, ship)
  BY DEF MarkerSettled, SameIdentity
<1>2. PICK e \in ledger : e.act = Arm /\ SameIdentity(e, ship)
  BY <1>1 DEF AdmissionInv, MarkInv, MarkerSettled
<1>3. PICK own \in ledger : Entry(p, own)
  BY DEF AdmissionInv, EntryInv, Guarded
<1>4. e # own
  BY <1>1, <1>2, <1>3 DEF AdmissionInv, MarkInv, Unmarked, SameIdentity, Entry
<1>5. e.id # proc[p].id
  BY <1>2, <1>3, <1>4 DEF AdmissionInv, IdInv, Entry
<1>. QED  BY <1>2, <1>5 DEF Finish

\* A process that ends disturbs nobody.
LEMMA Ends ==
  ASSUME AdmissionInv, Later, NEW p \in Procs, End(p), DropControl(p) \/ UNCHANGED ctl,
         ship' = ship \/ (ship' = NONE /\ prLock \in {p, NONE}),
         ledger' = ledger \/ (proc[p].pc \in Guarded /\ Finish(p)), MarkerSettled',
         net' \subseteq net, \A r \in net : r.id # proc[p].id => r \in net',
         UNCHANGED <<github, rest>>
  PROVE  AdmissionInv'
<1>1. Types
  BY DEF AdmissionInv
<1>2. Idle \in ProcStates'
  BY <1>1, IdleTyped
<1>3. Unguarded(p, Idle)
  BY DEF Unguarded, Idle, Guarded, Carries, Arm
<1>4. Leaves(p)
  BY DEF Leaves, End, DropControl, github, rest
<1>. QED  BY <1>2, <1>3, <1>4, Turns DEF End

\* The ship state that merge_pr archives is its own.
LEMMA Fails ==
  ASSUME AdmissionInv, Later, NEW p \in Procs, Fail(p), DropControl(p) \/ UNCHANGED ctl,
         proc[p].pc \notin {"idle", "enqueued"},
         ledger' = ledger \/ (proc[p].pc \in Guarded /\ Finish(p)), MarkerSettled',
         net' \subseteq net, \A r \in net : r.id # proc[p].id => r \in net',
         UNCHANGED <<github, rest>>
  PROVE  AdmissionInv'
<1>1. ship' = ship \/ (ship' = NONE /\ prLock \in {p, NONE})
  BY DEF Fail, AdmissionInv, LockInv
<1>. QED  BY <1>1, Ends DEF Fail

-----------------------------------------------------------------------------
(* The actions of a process. *)

\* One lemma for the many steps that stamp nothing and number nothing.
LEMMA LaterSame ==
  ASSUME AdmissionInv, used' = used \/ Event, clock' \in {clock, Now}
  PROVE  Later
<1>1. used' \in [run : Nat, id : 0 .. MaxId, event : Nat] /\ used'.id = used.id
  BY DEF AdmissionInv, Types, Event, Spend
<1>. QED  BY <1>1 DEF Later, AdmissionInv, Types

LEMMA BeginKeeps ==
  ASSUME AdmissionInv, NEW p \in Procs, Begin(p)
  PROVE  AdmissionInv'
<1>. DEFINE n == [Idle EXCEPT !.pc = "validate", !.st = ship]
<1>1. Later
  BY DEF Begin, Spend, Later, AdmissionInv, Types
<1>2. n \in ProcStates'
  <2>1. Idle \in ProcStates' /\ ship \in ShipStates'
    BY <1>1, IdleTyped, Grows DEF AdmissionInv, Types, Begin
  <2>. QED  BY <2>1 DEF ProcStates, States
<1>3. Unguarded(p, n)
  BY DEF Unguarded, Idle, Guarded, Carries, Arm, Begin
<1>4. Leaves(p)
  BY MarkerKept DEF Leaves, Begin, github, rest
<1>5. proc' = [proc EXCEPT ![p] = n]
  BY DEF Begin
<1>. QED  BY <1>1, <1>2, <1>3, <1>4, <1>5, Turns

LEMMA ValidateKeeps ==
  ASSUME AdmissionInv, NEW p \in Procs, Validate(p)
  PROVE  AdmissionInv'
<1>1. Later /\ proc[p] \in ProcStates' /\ pr.base \in Bases
  <2>1. Later
    BY LaterSame DEF Validate
  <2>. QED  BY <2>1, Grows DEF AdmissionInv, Types, Pulls
<1>2. CASE End(p)
  BY <1>1, <1>2, MarkerKept, Ends DEF Validate
<1>3. CASE \E s \in {"revoke", "admit"}, b \in Bases \cup {proc[p].base} :
             /\ proc' = [proc EXCEPT ![p] = [proc[p] EXCEPT !.pc = s, !.base = b]]
             /\ s = "revoke" => b \in Bases
             /\ UNCHANGED prLock
  <2>1. PICK s \in {"revoke", "admit"}, b \in Bases \cup {proc[p].base} :
             /\ proc' = [proc EXCEPT ![p] = [proc[p] EXCEPT !.pc = s, !.base = b]]
             /\ s = "revoke" => b \in Bases
             /\ UNCHANGED prLock
    BY <1>3
  <2>. DEFINE n == [proc[p] EXCEPT !.pc = s, !.base = b]
  <2>2. n \in ProcStates'
    BY <1>1 DEF ProcStates, States
  <2>3. Unguarded(p, n)
    BY <2>1, <1>1 DEF Unguarded, Guarded, Carries, Arm, Validate, Step, AdmissionInv, LockInv, CarryInv,
             PathInv, ProcStates
  <2>4. Leaves(p)
    BY <2>1, MarkerKept DEF Leaves, Validate, github, rest
  <2>. QED  BY <1>1, <2>1, <2>2, <2>3, <2>4, Turns
<1>4. \/ End(p)
      \/ /\ proc' = [proc EXCEPT ![p].pc = "revoke", ![p].base = pr.base]
         /\ UNCHANGED prLock
      \/ /\ proc' = [proc EXCEPT ![p].pc = "admit"]
         /\ UNCHANGED prLock
  BY DEF Validate
<1>5. ASSUME proc' = [proc EXCEPT ![p].pc = "admit"]
      PROVE  proc' = [proc EXCEPT ![p] = [proc[p] EXCEPT !.pc = "admit", !.base = proc[p].base]]
  BY <1>1, <1>5 DEF ProcStates, AdmissionInv, Types
<1>. QED  BY <1>1, <1>2, <1>3, <1>4, <1>5

\* Refusals before anything was sent.
LEMMA UnapprovedKeeps ==
  ASSUME AdmissionInv, NEW p \in Procs, Unapproved(p)
  PROVE  AdmissionInv'
<1>1. Later
  BY LaterSame DEF Unapproved
<1>2. MarkerSettled'
  BY MarkerKept DEF Unapproved, Fail
<1>. QED  BY <1>1, <1>2, Fails DEF Unapproved, Step

LEMMA RefuseKeeps ==
  ASSUME AdmissionInv, NEW p \in Procs, Refuse(p)
  PROVE  AdmissionInv'
<1>1. Later
  BY LaterSame DEF Refuse
<1>2. MarkerSettled'
  BY MarkerKept DEF Refuse, Fail
<1>. QED  BY <1>1, <1>2, Fails DEF Refuse, Step

LEMMA UncertainKeeps ==
  ASSUME AdmissionInv, NEW p \in Procs, Uncertain(p)
  PROVE  AdmissionInv'
<1>1. Later
  BY LaterSame DEF Uncertain
<1>2. MarkerSettled'
  BY MarkerKept DEF Uncertain, DropGuard, Fail
<1>3. \E r \in net : r.id = proc[p].id
  BY DEF Uncertain, Step, AdmissionInv, EntryInv
<1>4. Mine(p) \in net /\ Mine(p).id = proc[p].id
  BY <1>3 DEF Mine
<1>5. net' \subseteq net /\ \A r \in net : r.id # proc[p].id => r \in net'
  BY <1>4 DEF Uncertain
<1>. QED  BY <1>1, <1>2, <1>5, Fails DEF Uncertain, DropGuard, Step

LEMMA CrashKeeps ==
  ASSUME AdmissionInv, NEW p \in Procs, Crash(p)
  PROVE  AdmissionInv'
<1>1. Later
  BY LaterSame DEF Crash
<1>2. MarkerSettled'
  BY MarkerKept DEF Crash
<1>. QED  BY <1>1, <1>2, Ends DEF Crash

LEMMA PollStopsKeeps ==
  ASSUME AdmissionInv, NEW p \in Procs, PollStops(p)
  PROVE  AdmissionInv'
<1>1. Later
  BY LaterSame DEF PollStops
<1>2. MarkerSettled'
  BY MarkerKept DEF PollStops
<1>. QED  BY <1>1, <1>2, Ends DEF PollStops

LEMMA PollMergedKeeps ==
  ASSUME AdmissionInv, NEW p \in Procs, PollMerged(p)
  PROVE  AdmissionInv'
<1>1. Later
  BY LaterSame DEF PollMerged
<1>2. MarkerSettled'
  BY MarkerKept DEF PollMerged
<1>. QED  BY <1>1, <1>2, Ends DEF PollMerged

LEMMA CloseKeeps ==
  ASSUME AdmissionInv, NEW p \in Procs, Close(p) \/ CloseRefused(p)
  PROVE  AdmissionInv'
<1>0. proc[p].pc \in {"close", "close_refused", "close_gated"} /\ Finish(p) /\ DropControl(p)
  BY DEF Close, CloseRefused, Step
<1>1. Later
  BY LaterSame DEF Close, CloseRefused
<1>2. MarkerSettled'
  BY <1>0, FinishKept DEF Close, CloseRefused, Fail
<1>3. CASE Fail(p)
  BY <1>0, <1>1, <1>2, <1>3, Fails DEF Close, CloseRefused, Guarded
<1>4. CASE \E s \in {"poll", "enqueued"} :
             /\ s = "poll" <=> proc[p].sup
             /\ proc' = [proc EXCEPT ![p] = [Idle EXCEPT !.st = proc[p].st, !.sup = proc[p].sup, !.pc = s]]
             /\ prLock' = IF prLock = p THEN NONE ELSE prLock
             /\ UNCHANGED ship
  <2>1. PICK s \in {"poll", "enqueued"} :
             /\ s = "poll" <=> proc[p].sup
             /\ proc' = [proc EXCEPT ![p] = [Idle EXCEPT !.st = proc[p].st, !.sup = proc[p].sup, !.pc = s]]
             /\ prLock' = IF prLock = p THEN NONE ELSE prLock
             /\ UNCHANGED ship
    BY <1>4
  <2>. DEFINE n == [Idle EXCEPT !.st = proc[p].st, !.sup = proc[p].sup, !.pc = s]
  <2>2. n \in ProcStates'
    <3>1. Idle \in ProcStates' /\ proc[p] \in ProcStates'
      BY <1>1, IdleTyped, Grows DEF AdmissionInv, Types
    <3>. QED  BY <3>1 DEF ProcStates, States
  <2>3. Unguarded(p, n)
    BY <1>0, <2>1 DEF Unguarded, Guarded, Idle, Carries, Arm, AdmissionInv, CarryInv
  <2>4. Leaves(p)
    BY <1>0, <1>2, <2>1 DEF Leaves, Close, CloseRefused, DropControl, github, rest, Guarded
  <2>. QED  BY <1>1, <2>1, <2>2, <2>3, <2>4, Turns
<1>. QED  BY <1>3, <1>4 DEF Close, CloseRefused

LEMMA SuperviseKeeps ==
  ASSUME AdmissionInv, NEW p \in Procs, Supervise(p)
  PROVE  AdmissionInv'
<1>1. Later /\ MarkerSettled'
  BY LaterSame, MarkerKept DEF Supervise
<1>2. CASE End(p)
  BY <1>1, <1>2, Ends DEF Supervise
<1>3. CASE ~End(p)
  <2>. DEFINE n == [Idle EXCEPT !.pc = "poll", !.st = ship, !.sup = TRUE, !.seen = ship.observed # 0]
  <2>1. /\ ship # NONE /\ UNCHANGED prLock
        /\ proc' = [proc EXCEPT ![p] = n]
    BY <1>3 DEF Supervise
  <2>2. n \in ProcStates'
    <3>1. Idle \in ProcStates' /\ ship \in ShipStates'
      BY <1>1, <2>1, IdleTyped, Grows DEF AdmissionInv, Types
    <3>2. PICK b \in BOOLEAN : b = (ship.observed # 0)
      OBVIOUS
    <3>. QED  BY <3>1, <3>2 DEF ProcStates, States
  <2>3. Unguarded(p, n)
    BY <2>1 DEF Unguarded, Guarded, Idle, Carries, Arm
  <2>4. Leaves(p)
    BY <1>1, <2>1 DEF Leaves, Supervise, github, rest
  <2>. QED  BY <1>1, <2>1, <2>2, <2>3, <2>4, Turns
<1>. QED  BY <1>2, <1>3

LEMMA PollRetargetedKeeps ==
  ASSUME AdmissionInv, NEW p \in Procs, PollRetargeted(p)
  PROVE  AdmissionInv'
<1>1. Later /\ MarkerSettled' /\ proc[p] \in ProcStates' /\ pr.base \in Bases
  <2>1. Later
    BY LaterSame DEF PollRetargeted
  <2>. QED  BY <2>1, Grows, MarkerKept DEF PollRetargeted, AdmissionInv, Types, Pulls
<1>2. CASE End(p)
  BY <1>1, <1>2, Ends DEF PollRetargeted
<1>3. CASE ~End(p)
  <2>. DEFINE n == [proc[p] EXCEPT !.pc = "revoke", !.base = pr.base]
  <2>1. proc' = [proc EXCEPT ![p] = n] /\ prLock' = p /\ prLock = NONE
    BY <1>1, <1>3 DEF PollRetargeted, ProcStates
  <2>2. n \in ProcStates'
    BY <1>1 DEF ProcStates, States
  <2>3. Unguarded(p, n)
    BY <1>1, <2>1 DEF Unguarded, Guarded, Carries, Arm, PollRetargeted, Polls, Step, AdmissionInv, LockInv, CarryInv,
             PathInv, ProcStates, IsCurrent
  <2>4. Leaves(p)
    BY <1>1, <2>1 DEF Leaves, PollRetargeted, github, rest
  <2>. QED  BY <1>1, <2>1, <2>2, <2>3, <2>4, Turns
<1>. QED  BY <1>2, <1>3

LEMMA RevokeKeeps ==
  ASSUME AdmissionInv, NEW p \in Procs, Revoke(p)
  PROVE  AdmissionInv'
<1>1. Later /\ MarkerSettled' /\ proc[p] \in ProcStates'
  <2>1. Later
    BY LaterSame DEF Revoke
  <2>. QED  BY <2>1, Grows, MarkerKept DEF Revoke, AdmissionInv, Types
<1>2. CASE End(p)
  BY <1>1, <1>2, Ends DEF Revoke
<1>3. CASE ~End(p)
  <2>1. PICK todo \in SUBSET Revocations, a \in Revocations :
          /\ proc' = [proc EXCEPT ![p] = [proc[p] EXCEPT !.pc = "acquire", !.todo = todo, !.act = a]]
          /\ UNCHANGED prLock
    <3>. DEFINE todo == {a \in Revocations : pr.head = proc[p].st.head
                                             /\ IF a = "disable" THEN pr.armed ELSE pr.queued}
                a == IF "disable" \in todo THEN "disable" ELSE "dequeue"
    <3>1. todo \in SUBSET Revocations /\ a \in Revocations
      BY DEF Revocations
    <3>2. proc' = [proc EXCEPT ![p].pc = "acquire", ![p].todo = todo, ![p].act = a] /\ UNCHANGED prLock
      BY <1>3 DEF Revoke
    <3>. HIDE DEF todo, a
    <3>3. proc' = [proc EXCEPT ![p] = [proc[p] EXCEPT !.pc = "acquire", !.todo = todo, !.act = a]]
      BY <1>1, <3>2 DEF ProcStates
    <3>. QED  BY <3>1, <3>2, <3>3
  <2>. DEFINE n == [proc[p] EXCEPT !.pc = "acquire", !.todo = todo, !.act = a]
  <2>2. n \in ProcStates'
    BY <1>1 DEF ProcStates, States, Actions
  <2>3. Unguarded(p, n)
    BY <1>1, <2>1 DEF Unguarded, Guarded, Carries, Arm, Revoke, Step, AdmissionInv, LockInv, CarryInv,
             ProcStates, Revocations
  <2>4. Leaves(p)
    BY <1>1, <2>1 DEF Leaves, Revoke, github, rest
  <2>. QED  BY <1>1, <2>1, <2>2, <2>3, <2>4, Turns
<1>. QED  BY <1>2, <1>3

LEMMA CloseRevocationKeeps ==
  ASSUME AdmissionInv, NEW p \in Procs, CloseRevocation(p)
  PROVE  AdmissionInv'
<1>0. /\ proc[p].pc \in {"won", "refused"} /\ proc[p].pc \in Guarded /\ proc[p].act # Arm
      /\ Finish(p) /\ DropControl(p) /\ UNCHANGED ship
  BY DEF CloseRevocation, Guarded
<1>1. Later /\ MarkerSettled' /\ proc[p] \in ProcStates'
  <2>1. Later /\ MarkerSettled'
    BY <1>0, LaterSame, FinishKept DEF CloseRevocation
  <2>. QED  BY <2>1, Grows DEF AdmissionInv, Types
<1>2. CASE End(p)
  BY <1>0, <1>1, <1>2, Ends DEF CloseRevocation
<1>3. CASE ~End(p)
  <2>. DEFINE left == proc[p].todo \ {proc[p].act}
              n == [proc[p] EXCEPT !.pc = "acquire", !.todo = left, !.act = "dequeue"]
  <2>1. proc' = [proc EXCEPT ![p] = n] /\ UNCHANGED prLock
    BY <1>1, <1>3 DEF CloseRevocation, ProcStates
  <2>2. n \in ProcStates'
    BY <1>1 DEF ProcStates, States, Actions, Revocations
  <2>3. Unguarded(p, n)
    BY <1>0, <1>1, <2>1 DEF Unguarded, Guarded, Carries, Arm, AdmissionInv, LockInv, CarryInv, ProcStates
  <2>4. Leaves(p)
    BY <1>0, <1>1, <2>1 DEF Leaves, DropControl, CloseRevocation, github, rest
  <2>. QED  BY <1>1, <2>1, <2>2, <2>3, <2>4, Turns
<1>. QED  BY <1>2, <1>3

\* A process of supervision turns to the guard.
LEMMA RearmKeeps ==
  ASSUME AdmissionInv, NEW p \in Procs, NEW path \in {"evicted", "absent"}, Polls(p),
         Rearm(p, path), struck => path = "absent",
         UNCHANGED <<ship, ctl, ledger, net, clock, used, github, rest>>
  PROVE  AdmissionInv'
<1>1. Later /\ MarkerSettled' /\ proc[p] \in ProcStates' /\ struck \in BOOLEAN
  <2>1. Later
    BY LaterSame
  <2>. QED  BY <2>1, Grows, MarkerKept DEF AdmissionInv, Types
<1>2. PICK b \in BOOLEAN : b = struck
  BY <1>1
<1>. DEFINE n == [proc[p] EXCEPT !.pc = "acquire", !.path = path, !.base = proc[p].st.base, !.dead = b]
<1>3. proc' = [proc EXCEPT ![p] = n] /\ UNCHANGED prLock
  BY <1>1, <1>2 DEF Rearm, ProcStates
<1>4. proc[p].st.base \in Bases /\ proc[p].st # NONE
  BY <1>1, AdmissionAssumption DEF Polls, Step, AdmissionInv, CarryInv, Carries, ProcStates, ShipStates
<1>5. n \in ProcStates'
  BY <1>1, <1>2, <1>4 DEF ProcStates, States, Paths
<1>6. Unguarded(p, n)
  BY <1>1, <1>2, <1>3, <1>4 DEF Unguarded, Guarded, Carries, Arm, AdmissionInv, LockInv, CarryInv, ProcStates,
           Polls, Step
<1>7. Leaves(p)
  BY <1>1, <1>3 DEF Leaves, github, rest
<1>. QED  BY <1>1, <1>3, <1>5, <1>6, <1>7, Turns

LEMMA PollEvictedKeeps ==
  ASSUME AdmissionInv, NEW p \in Procs, PollEvicted(p) \/ PollAbsent(p)
  PROVE  AdmissionInv'
<1>1. Later /\ MarkerSettled'
  BY LaterSame, MarkerKept DEF PollEvicted, PollAbsent
<1>2. CASE End(p)
  BY <1>1, <1>2, Ends DEF PollEvicted, PollAbsent
<1>3. CASE PollAbsent(p) /\ Rearm(p, "absent")
  BY <1>3, RearmKeeps DEF PollAbsent, Absent
<1>4. CASE PollEvicted(p) /\ pr.removal.reason = "invalid" /\ Rearm(p, "evicted")
  <2>1. ~struck
    BY <1>4 DEF AdmissionInv, StruckInv, Terminal
  <2>. QED  BY <1>4, <2>1, RearmKeeps DEF PollEvicted, Absent
<1>. QED  BY <1>2, <1>3, <1>4 DEF PollEvicted, PollAbsent

\* The ship state that a process rewrites is its own, or it has compared it
\* under the lock.
LEMMA Rewritten ==
  ASSUME AdmissionInv, NEW p \in Procs, proc[p].pc \notin {"idle", "enqueued"},
         proc[p].sup => prLock = NONE /\ IsCurrent(proc[p].st)
  PROVE  /\ ship # NONE /\ ship \in ShipStates /\ SameIdentity(ship, proc[p].st)
         /\ ship.attempt = proc[p].st.attempt
         /\ \A q \in Procs : q # p /\ ~proc[q].sup => proc[q].pc \in {"idle", "enqueued"}
<1>1. proc[p].st # NONE
  BY DEF AdmissionInv, CarryInv, Carries
<1>. QED  BY <1>1, AdmissionAssumption DEF AdmissionInv, LockInv, Types, IsCurrent, SameIdentity

LEMMA AdmitKeeps ==
  ASSUME AdmissionInv, NEW p \in Procs, Admit(p)
  PROVE  AdmissionInv'
<1>0. /\ Types /\ LockInv /\ HoldQuiet /\ CarryInv /\ IdInv /\ EntryInv /\ MarkInv /\ ProofInv
      /\ StruckInv /\ PathInv
  BY DEF AdmissionInv
<1>1. /\ Later /\ proc[p] \in ProcStates /\ proc[p] \in ProcStates' /\ clock' = Now
      /\ proc[p].pc = "admit" /\ ~proc[p].sup /\ proc[p].act = Arm
  <2>1. Later
    BY LaterSame DEF Admit
  <2>. QED  BY <1>0, <2>1, Grows DEF Types, Admit, Step, CarryInv, Carries
<1>2. /\ prLock = p /\ proc[p].st = ship /\ ship # NONE /\ ship \in ShipStates
      /\ \A q \in Procs : q # p /\ ~proc[q].sup => proc[q].pc \in {"idle", "enqueued"}
  BY <1>0, <1>1, Rewritten DEF LockInv
<1>3. Now \in Times' /\ Now # 0 /\ ship \in ShipStates'
  <2>1. Now # 0
    BY <1>0 DEF Types, Now
  <2>. QED  BY <1>0, <1>1, <1>2, <2>1, Grows
<1>4. CASE End(p) /\ ship' = NONE
  BY <1>1, <1>2, <1>4, Ends DEF Admit, MarkerSettled
<1>5. CASE Fail(p)
  <2>1. MarkerSettled'
    BY <1>5, MarkerKept DEF Admit, Fail
  <2>. QED  BY <1>1, <1>5, <2>1, Fails DEF Admit
<1>6. CASE /\ ~pr.armed /\ admission_after_removal(pr.removal, proc[p].st)
           /\ proc' = [proc EXCEPT ![p].pc = "acquire", ![p].path = "admit", ![p].stamp = Now,
                         ![p].base = proc[p].st.base, ![p].dead = struck]
           /\ UNCHANGED <<ship, prLock>>
  <2>1. ~struck
    <3>1. SUFFICES ASSUME struck PROVE FALSE
      OBVIOUS
    <3>2. /\ pr.removal # NONE /\ pr.removal.reason # "invalid" /\ AttemptStart(ship) <= pr.removal.at
          /\ AttemptStart(ship) \in Nat /\ pr.removal.at \in Nat
      BY <1>0, <1>2, <3>1 DEF StruckInv, Terminal, Types, Pulls, Times, ShipStates, AttemptStart
    <3>. QED  BY <1>2, <1>6, <3>2 DEF admission_after_removal, removal_blocks_rearm, removal_authorizes_rearm
  <2>2. struck = FALSE
    BY <1>0, <2>1 DEF Types
  <2>. DEFINE n == [proc[p] EXCEPT !.pc = "acquire", !.path = "admit", !.stamp = Now,
                      !.base = proc[p].st.base, !.dead = FALSE]
  <2>3. proc' = [proc EXCEPT ![p] = n]
    BY <1>1, <1>6, <2>2 DEF ProcStates
  <2>4. n \in ProcStates'
    BY <1>1, <1>2, <1>3 DEF ProcStates, States, Paths, ShipStates
  <2>5. Unguarded(p, n)
    BY <1>0, <1>1, <1>2, <1>3, <1>6, <2>2 DEF Unguarded, Guarded, Carries, ProcStates, ShipStates
  <2>6. Leaves(p)
    BY <1>6, MarkerKept DEF Leaves, Admit, github, rest
  <2>. QED  BY <1>1, <2>3, <2>4, <2>5, <2>6, Turns
<1>7. CASE \E s \in ShipStates' :
             /\ s.head = ship.head /\ s.base = ship.base /\ s.succeeded = ship.succeeded /\ s.started = 0
             /\ pr.queued \/ pr.armed
             /\ Adopt(p, s)
  <2>1. PICK s \in ShipStates' :
             /\ s.head = ship.head /\ s.base = ship.base /\ s.succeeded = ship.succeeded /\ s.started = 0
             /\ pr.queued \/ pr.armed
             /\ Adopt(p, s)
    BY <1>7
  <2>. DEFINE n == [Idle EXCEPT !.pc = "enqueued", !.st = s]
  <2>2. /\ proc'[p] = n /\ \A q \in Procs : q # p => proc'[q] = proc[q]
        /\ n.pc = "enqueued" /\ n.sup = FALSE /\ n.id = 0 /\ n.act = Arm /\ n.path = "none" /\ n.st = s
    BY <1>0, <2>1 DEF Adopt, Types, Idle
  <2>3. /\ ship' = s /\ s # NONE /\ prLock' = NONE
        /\ UNCHANGED <<pr, granted, struck, hold, fix, op, ctl, ledger, net, used>>
    <3>1. s # NONE
      <4>1. NONE \notin ShipStates'
        BY <1>0, <1>1, Grows, NoneApart
      <4>. QED  BY <2>1, <4>1
    <3>. QED  BY <3>1, <2>1 DEF Adopt, Admit, github, rest
  <2>4. ~struck
    BY <1>0, <2>1 DEF StruckInv
  <2>. HIDE DEF n
  <2>5. Types'
    <3>1. n \in ProcStates'
      <4>1. Idle \in ProcStates'
        BY <1>0, <1>1, IdleTyped
      <4>. QED  BY <2>1, <4>1 DEF n, ProcStates, States
    <3>2. proc' = [proc EXCEPT ![p] = n]
      BY <2>1 DEF Adopt, n
    <3>3. proc' \in [Procs -> ProcStates'] /\ clock' \in Nat
      BY <1>0, <1>1, <3>1, <3>2, TypesKept, Grows
    <3>4. pr' \in Pulls' /\ ledger' \subseteq Entries' /\ net' \subseteq Requests' /\ fix' \in Fixes'
      BY <1>0, <1>1, <2>3, TypesKept
    <3>. QED  BY <1>0, <2>1, <2>3, <3>3, <3>4 DEF Types
  <2>6. LockInv'
    BY <1>0, <1>1, <1>2, <2>1, <2>2, <2>3, <2>4, AdmissionAssumption DEF LockInv, Guarded, Settlers
  <2>7. HoldQuiet'
    BY <1>0, <1>1, <1>2, <2>1, <2>2, <2>3, <2>4, AdmissionAssumption DEF HoldQuiet, LockInv, Guarded
  <2>8. CarryInv'
    BY <1>0, <1>1, <1>2, <2>1, <2>2, <2>3, <2>4, AdmissionAssumption DEF CarryInv, Carries, LockInv, Guarded, Arm
  <2>9. IdInv'
    BY <1>0, <1>1, <1>2, <2>1, <2>2, <2>3, <2>4, AdmissionAssumption DEF IdInv
  <2>10. EntryInv'
    BY <1>0, <1>1, <1>2, <2>1, <2>2, <2>3, <2>4, AdmissionAssumption DEF LockInv, IdInv, EntryInv, Entry, Guarded
  <2>11. MarkInv'
    BY <1>0, <1>1, <1>2, <2>1, <2>2, <2>3, <2>4, AdmissionAssumption DEF LockInv, CarryInv, Carries, IdInv, EntryInv, Entry, Guarded, MarkInv, MarkerSettled, Unmarked, SameIdentity, Arm
  <2>12. ProofInv'
    BY <1>0, <1>1, <1>2, <2>1, <2>2, <2>3, <2>4, AdmissionAssumption DEF LockInv, CarryInv, Carries, ProofInv, ProofReal, Guarded
  <2>13. StruckInv'
    BY <1>0, <1>1, <1>2, <2>1, <2>2, <2>3, <2>4, AdmissionAssumption DEF LockInv, CarryInv, Carries, StruckInv, AttemptStart, Guarded
  <2>14. PathInv'
    BY <1>0, <1>1, <1>2, <2>1, <2>2, <2>3, <2>4, AdmissionAssumption DEF PathInv, TerminalStays
  <2>. QED  BY <2>5, <2>6, <2>7, <2>8, <2>9, <2>10, <2>11, <2>12, <2>13, <2>14 DEF AdmissionInv
<1>8. \A s \in {record_observed_queue_adoption(ship), record_pending_auto_merge(ship)} :
        /\ s \in ShipStates' /\ s.head = ship.head /\ s.base = ship.base
        /\ s.succeeded = ship.succeeded /\ s.started = 0
  <2>1. 0 \in Times'
    BY <1>0, <1>1 DEF Times, Types, Now
  <2>. QED  BY <1>3, <2>1 DEF record_observed_queue_adoption, record_pending_auto_merge, ShipStates
<1>9. \/ End(p) /\ ship' = NONE
      \/ pr.queued /\ Adopt(p, record_observed_queue_adoption(ship))
      \/ pr.armed /\ Adopt(p, record_pending_auto_merge(ship))
      \/ /\ ~pr.armed /\ admission_after_removal(pr.removal, proc[p].st)
         /\ proc' = [proc EXCEPT ![p].pc = "acquire", ![p].path = "admit", ![p].stamp = Now,
                         ![p].base = proc[p].st.base, ![p].dead = struck]
         /\ UNCHANGED <<ship, prLock>>
      \/ Fail(p)
  BY <1>2 DEF Admit
<1>. QED  BY <1>4, <1>5, <1>6, <1>7, <1>8, <1>9

LEMMA MarkKeeps ==
  ASSUME AdmissionInv, NEW p \in Procs, Mark(p)
  PROVE  AdmissionInv'
<1>0. /\ Types /\ LockInv /\ HoldQuiet /\ CarryInv /\ IdInv /\ EntryInv /\ MarkInv /\ ProofInv
      /\ StruckInv /\ PathInv
  BY DEF AdmissionInv
<1>1. /\ Later /\ proc[p] \in ProcStates' /\ proc[p].st \in ShipStates' /\ clock' = Now
      /\ Now \in Times' /\ 0 \in Times' /\ proc[p].stamp \in Times'
      /\ proc[p].pc = "mark" /\ proc[p].act = Arm /\ proc[p].base = proc[p].st.base
      /\ ctl = p /\ fix.pc = "idle" /\ NONE \notin ShipStates'
  <2>1. Later
    BY LaterSame DEF Mark
  <2>2. proc[p] \in ProcStates' /\ Now \in Times' /\ 0 \in Times' /\ proc[p].pc = "mark"
    BY <1>0, <2>1, Grows DEF Types, Mark, Step, Times
  <2>3. proc[p].st # NONE /\ proc[p].act = Arm /\ proc[p].base = proc[p].st.base
    BY <1>0, <2>2 DEF CarryInv, Carries, Guarded, Arm
  <2>4. ctl = p /\ fix.pc = "idle"
    BY <1>0, <2>2, AdmissionAssumption DEF LockInv, Guarded, Settlers
  <2>5. proc[p].st \in ShipStates' /\ proc[p].stamp \in Times'
    BY <2>2, <2>3 DEF ProcStates
  <2>6. NONE \notin ShipStates'
    BY <1>0, <2>1, Grows, NoneApart
  <2>. QED  BY <2>1, <2>2, <2>3, <2>4, <2>5, <2>6 DEF Mark
<1>5. /\ proc[p].pc = "mark" /\ proc[p].act = Arm /\ proc[p].base = proc[p].st.base /\ ctl = p /\ fix.pc = "idle"
      /\ proc[p].pc \in Guarded
  BY <1>1 DEF Guarded
<1>2. CASE Finish(p) /\ DropControl(p) /\ Fail(p)
  <2>1. MarkerSettled'
    BY <1>1, <1>2, FinishKept DEF Fail
  <2>. QED  BY <1>1, <1>2, <2>1, Fails DEF Mark, Guarded
<1>3. CASE \E s \in ShipStates' :
             /\ SameIdentity(s, ship) /\ SameIdentity(s, proc[p].st)
             /\ \/ s.succeeded = ship.succeeded /\ s.attempt = ship.attempt /\ s.created = ship.created
                \/ s.succeeded = 0 /\ s.attempt = proc[p].stamp /\ ~proc[p].sup
             /\ ship' = s
             /\ proc' = [proc EXCEPT ![p].st = s, ![p].pc = "send"]
             /\ proc[p].sup => prLock = NONE /\ IsCurrent(proc[p].st)
             /\ UNCHANGED <<prLock, ctl, ledger>>
  <2>1. PICK s \in ShipStates' :
             /\ SameIdentity(s, ship) /\ SameIdentity(s, proc[p].st)
             /\ \/ s.succeeded = ship.succeeded /\ s.attempt = ship.attempt /\ s.created = ship.created
                \/ s.succeeded = 0 /\ s.attempt = proc[p].stamp /\ ~proc[p].sup
             /\ ship' = s
             /\ proc' = [proc EXCEPT ![p].st = s, ![p].pc = "send"]
             /\ proc[p].sup => prLock = NONE /\ IsCurrent(proc[p].st)
             /\ UNCHANGED <<prLock, ctl, ledger>>
    BY <1>3
  <2>2. /\ ship # NONE /\ s # NONE /\ ship' = s /\ s.head = ship.head /\ s.base = ship.base
        /\ s.head = proc[p].st.head /\ s.base = proc[p].st.base
        /\ \/ s.succeeded = ship.succeeded /\ s.attempt = ship.attempt /\ s.created = ship.created
           \/ s.succeeded = 0 /\ s.attempt = proc[p].stamp /\ ~proc[p].sup
        /\ \A q \in Procs : q # p /\ ~proc[q].sup => proc[q].pc \in {"idle", "enqueued"}
    BY <1>1, <2>1, Rewritten DEF SameIdentity
  <2>. DEFINE n == [proc[p] EXCEPT !.st = s, !.pc = "send"]
  <2>3. /\ n \in ProcStates' /\ proc' = [proc EXCEPT ![p] = n]
    BY <1>0, <1>1, <2>1 DEF Types, ProcStates, States, Guarded
  <2>15. /\ proc'[p].pc = "send" /\ proc'[p].st = s /\ \A q \in Procs : q # p => proc'[q] = proc[q]
        /\ \A q \in Procs : /\ proc'[q].sup = proc[q].sup /\ proc'[q].id = proc[q].id /\ proc'[q].act = proc[q].act
                            /\ proc'[q].path = proc[q].path /\ proc'[q].base = proc[q].base
                            /\ proc'[q].dead = proc[q].dead /\ proc'[q].stamp = proc[q].stamp
    BY <1>0, <1>1, <2>1, <2>3 DEF Types, ProcStates
  <2>4. UNCHANGED <<pr, granted, struck, hold, fix, op, prLock, ctl, ledger, net, used>>
    BY <2>1 DEF Mark, github, rest
  <2>. HIDE DEF n
  <2>5. Types'
    <3>1. proc' \in [Procs -> ProcStates'] /\ clock' \in Nat
      BY <1>0, <1>1, <2>3, TypesKept, Grows
    <3>2. pr' \in Pulls' /\ ledger' \subseteq Entries' /\ net' \subseteq Requests' /\ fix' \in Fixes'
      BY <1>0, <1>1, <2>4, TypesKept
    <3>. QED  BY <1>0, <2>1, <2>4, <3>1, <3>2 DEF Types
  <2>6. LockInv'
    BY <1>0, <1>5, <2>2, <2>15, <2>4 DEF LockInv, Guarded, Settlers
  <2>7. HoldQuiet'
    BY <1>0, <1>5, <2>4, <2>15 DEF HoldQuiet, LockInv, Guarded
  <2>8. CarryInv'
    BY <1>0, <1>5, <2>2, <2>15 DEF CarryInv, Carries, LockInv, Guarded, Arm
  <2>9. IdInv'
    BY <1>0, <2>4, <2>15 DEF IdInv
  <2>10. EntryInv'
    BY <1>0, <1>5, <2>2, <2>4, <2>15 DEF LockInv, IdInv, EntryInv, Entry, Guarded
  <2>11. MarkInv'
    BY <1>0, <1>5, <2>2, <2>4, <2>15 DEF LockInv, CarryInv, Carries, IdInv, EntryInv, Entry, Guarded, MarkInv, MarkerSettled, Unmarked, SameIdentity, Arm
  <2>12. ProofInv'
    BY <1>0, <1>5, <2>2, <2>4, <2>15 DEF LockInv, CarryInv, Carries, ProofInv, ProofReal, Guarded
  <2>13. StruckInv'
    BY <1>0, <1>5, <2>2, <2>4, <2>15 DEF LockInv, CarryInv, Carries, StruckInv, AttemptStart, Guarded
  <2>14. PathInv'
    BY <1>0, <2>4, <2>15 DEF PathInv, TerminalStays
  <2>. QED  BY <2>5, <2>6, <2>7, <2>8, <2>9, <2>10, <2>11, <2>12, <2>13, <2>14 DEF AdmissionInv
<1>4. CASE /\ proc[p].sup => prLock = NONE /\ IsCurrent(proc[p].st)
           /\ ship' = IF proc[p].sup
                      THEN [ship EXCEPT !.started = Now]
                      ELSE [proc[p].st EXCEPT !.attempt = proc[p].stamp, !.observed = 0,
                              !.succeeded = 0, !.started = proc[p].stamp]
           /\ proc' = [proc EXCEPT ![p].st = ship', ![p].pc = "send"]
           /\ UNCHANGED <<prLock, ctl, ledger>>
  <2>1. SameIdentity(ship, proc[p].st) /\ ship \in ShipStates'
    <3>1. ship \in ShipStates /\ SameIdentity(ship, proc[p].st)
      BY <1>1, <1>4, Rewritten
    <3>. QED  BY <1>0, <1>1, <3>1, Grows
  <2>2. /\ ship' \in ShipStates' /\ SameIdentity(ship', ship) /\ SameIdentity(ship', proc[p].st)
        /\ \/ /\ ship'.succeeded = ship.succeeded /\ ship'.attempt = ship.attempt
              /\ ship'.created = ship.created
           \/ ship'.succeeded = 0 /\ ship'.attempt = proc[p].stamp /\ ~proc[p].sup
    BY <1>1, <1>4, <2>1 DEF SameIdentity, ShipStates
  <2>. QED  BY <1>3, <1>4, <2>2
<1>. QED  BY <1>2, <1>4 DEF Mark

LEMMA SaveKeeps ==
  ASSUME AdmissionInv, NEW p \in Procs, Save(p)
  PROVE  AdmissionInv'
<1>0. /\ Types /\ LockInv /\ HoldQuiet /\ CarryInv /\ IdInv /\ EntryInv /\ MarkInv /\ ProofInv
      /\ StruckInv /\ PathInv
  BY DEF AdmissionInv
<1>1. /\ Later /\ proc[p] \in ProcStates' /\ proc[p].st \in ShipStates' /\ clock' = Now
      /\ Now \in Times' /\ 0 \in Times'
      /\ proc[p].pc \in {"won", "refused", "gated"} /\ proc[p].act = Arm /\ proc[p].base = proc[p].st.base
      /\ ctl = p /\ fix.pc = "idle" /\ NONE \notin ShipStates'
  <2>1. Later
    BY LaterSame DEF Save
  <2>2. /\ proc[p] \in ProcStates' /\ Now \in Times' /\ 0 \in Times'
        /\ proc[p].pc \in {"won", "refused", "gated"} /\ proc[p].act = Arm
    BY <1>0, <2>1, Grows DEF Types, Save, Times
  <2>3. proc[p].st # NONE /\ proc[p].base = proc[p].st.base
    BY <1>0, <2>2 DEF CarryInv, Carries, Guarded, Arm
  <2>4. ctl = p /\ fix.pc = "idle"
    BY <1>0, <2>2, AdmissionAssumption DEF LockInv, Guarded, Settlers
  <2>5. proc[p].st \in ShipStates'
    BY <2>2, <2>3 DEF ProcStates
  <2>6. NONE \notin ShipStates'
    BY <1>0, <2>1, Grows, NoneApart
  <2>. QED  BY <2>1, <2>2, <2>3, <2>4, <2>5, <2>6 DEF Save
<1>5. /\ proc[p].pc \in {"won", "refused", "gated"} /\ proc[p].act = Arm /\ proc[p].base = proc[p].st.base
      /\ ctl = p /\ fix.pc = "idle" /\ proc[p].pc \in Guarded
  BY <1>1 DEF Guarded
<1>2. CASE DropGuard(p)
  <2>1. MarkerSettled'
    BY <1>2, MarkerKept DEF DropGuard, Fail
  <2>. QED  BY <1>1, <1>2, <2>1, Fails DEF Save, DropGuard
<1>3. CASE \E s \in ShipStates', c \in {"close", "close_refused", "close_gated"} :
             /\ SameIdentity(s, ship) /\ SameIdentity(s, proc[p].st)
             /\ s.started = 0
             /\ s.succeeded \in {ship.succeeded, 0} \/ proc[p].pc = "won"
             /\ \/ s.attempt = ship.attempt /\ s.created = ship.created
                \/ proc[p].sup /\ proc[p].pc = "won"
             /\ ship' = s
             /\ proc' = [proc EXCEPT ![p].st = s, ![p].pc = c]
             /\ proc[p].sup => prLock = NONE /\ IsCurrent(proc[p].st)
             /\ UNCHANGED <<prLock, ctl, ledger>>
  <2>1. PICK s \in ShipStates', c \in {"close", "close_refused", "close_gated"} :
             /\ SameIdentity(s, ship) /\ SameIdentity(s, proc[p].st)
             /\ s.started = 0
             /\ s.succeeded \in {ship.succeeded, 0} \/ proc[p].pc = "won"
             /\ \/ s.attempt = ship.attempt /\ s.created = ship.created
                \/ proc[p].sup /\ proc[p].pc = "won"
             /\ ship' = s
             /\ proc' = [proc EXCEPT ![p].st = s, ![p].pc = c]
             /\ proc[p].sup => prLock = NONE /\ IsCurrent(proc[p].st)
             /\ UNCHANGED <<prLock, ctl, ledger>>
    BY <1>3
  <2>2. /\ ship # NONE /\ s # NONE /\ ship' = s /\ s.head = ship.head /\ s.base = ship.base
        /\ s.head = proc[p].st.head /\ s.base = proc[p].st.base /\ s.started = 0
        /\ s.succeeded \in {ship.succeeded, 0} \/ proc[p].pc = "won"
        /\ \/ s.attempt = ship.attempt /\ s.created = ship.created
           \/ proc[p].sup /\ proc[p].pc = "won"
        /\ \A q \in Procs : q # p /\ ~proc[q].sup => proc[q].pc \in {"idle", "enqueued"}
    BY <1>1, <2>1, Rewritten DEF SameIdentity
  <2>. DEFINE n == [proc[p] EXCEPT !.st = s, !.pc = c]
  <2>3. /\ n \in ProcStates' /\ proc' = [proc EXCEPT ![p] = n]
    BY <1>0, <1>1, <2>1 DEF Types, ProcStates, States, Guarded
  <2>15. /\ proc'[p].pc = c /\ proc'[p].st = s /\ \A q \in Procs : q # p => proc'[q] = proc[q]
        /\ \A q \in Procs : /\ proc'[q].sup = proc[q].sup /\ proc'[q].id = proc[q].id /\ proc'[q].act = proc[q].act
                            /\ proc'[q].path = proc[q].path /\ proc'[q].base = proc[q].base
                            /\ proc'[q].dead = proc[q].dead /\ proc'[q].stamp = proc[q].stamp
    BY <1>0, <1>1, <2>1, <2>3 DEF Types, ProcStates
  <2>4. UNCHANGED <<pr, granted, struck, hold, fix, op, prLock, ctl, ledger, net, used>>
    BY <2>1 DEF Save, github, rest
  <2>. HIDE DEF n
  <2>5. Types'
    <3>1. proc' \in [Procs -> ProcStates'] /\ clock' \in Nat
      BY <1>0, <1>1, <2>3, TypesKept, Grows
    <3>2. pr' \in Pulls' /\ ledger' \subseteq Entries' /\ net' \subseteq Requests' /\ fix' \in Fixes'
      BY <1>0, <1>1, <2>4, TypesKept
    <3>. QED  BY <1>0, <2>1, <2>4, <3>1, <3>2 DEF Types
  <2>6. LockInv'
    BY <1>0, <1>5, <2>2, <2>15, <2>4 DEF LockInv, Guarded, Settlers
  <2>7. HoldQuiet'
    BY <1>0, <1>5, <2>4, <2>15 DEF HoldQuiet, LockInv, Guarded
  <2>8. CarryInv'
    BY <1>0, <1>5, <2>2, <2>15 DEF CarryInv, Carries, LockInv, Guarded, Arm
  <2>9. IdInv'
    BY <1>0, <2>4, <2>15 DEF IdInv
  <2>10. EntryInv'
    BY <1>0, <1>5, <2>2, <2>4, <2>15 DEF LockInv, IdInv, EntryInv, Entry, Guarded
  <2>11. MarkInv'
    BY <1>0, <1>5, <2>2, <2>4, <2>15 DEF LockInv, CarryInv, Carries, IdInv, EntryInv, Entry, Guarded, MarkInv, MarkerSettled, Unmarked, SameIdentity, Arm
  <2>12. ProofInv'
    BY <1>0, <1>5, <2>2, <2>4, <2>15 DEF LockInv, CarryInv, Carries, ProofInv, ProofReal, Guarded
  <2>13. StruckInv'
    BY <1>0, <1>5, <2>2, <2>4, <2>15 DEF LockInv, CarryInv, Carries, StruckInv, AttemptStart, Guarded
  <2>14. PathInv'
    BY <1>0, <2>4, <2>15 DEF PathInv, TerminalStays
  <2>. QED  BY <2>5, <2>6, <2>7, <2>8, <2>9, <2>10, <2>11, <2>12, <2>13, <2>14 DEF AdmissionInv
<1>4. CASE /\ proc[p].sup => IsCurrent(proc[p].st)
           /\ ship' = IF proc[p].pc = "won" THEN Accepted(p, IF proc[p].sup THEN ship ELSE proc[p].st)
                      ELSE Refused(p, IF proc[p].sup THEN ship ELSE proc[p].st)
           /\ proc' = [proc EXCEPT ![p].st = ship',
                         ![p].pc = CASE proc[p].pc = "won" -> "close"
                                     [] Step(p, "refused") -> "close_refused"
                                     [] Step(p, "gated") -> "close_gated"]
           /\ UNCHANGED <<prLock, ctl, ledger>>
  <2>1. /\ SameIdentity(ship, proc[p].st) /\ ship \in ShipStates'
        /\ ~proc[p].sup => proc[p].st = ship
    <3>1. ship \in ShipStates /\ SameIdentity(ship, proc[p].st)
      BY <1>1, <1>4, Rewritten DEF Save
    <3>. QED  BY <1>0, <1>1, <3>1, Grows DEF LockInv
  <2>2. /\ ship' \in ShipStates' /\ SameIdentity(ship', ship) /\ SameIdentity(ship', proc[p].st)
        /\ ship'.started = 0
        /\ ship'.succeeded \in {ship.succeeded, 0} \/ proc[p].pc = "won"
        /\ \/ ship'.attempt = ship.attempt /\ ship'.created = ship.created
           \/ proc[p].sup /\ proc[p].pc = "won"
    BY <1>1, <1>4, <2>1 DEF SameIdentity, ShipStates, Accepted, Refused
  <2>3. PICK c \in {"close", "close_refused", "close_gated"} :
          c = CASE proc[p].pc = "won" -> "close"
                [] Step(p, "refused") -> "close_refused"
                [] Step(p, "gated") -> "close_gated"
    BY <1>1 DEF Step
  <2>4. proc[p].sup => prLock = NONE
    BY DEF Save
  <2>. QED  BY <1>3, <1>4, <2>2, <2>3, <2>4
<1>. QED  BY <1>2, <1>4 DEF Save

LEMMA PollQueuedKeeps ==
  ASSUME AdmissionInv, NEW p \in Procs, PollQueued(p)
  PROVE  AdmissionInv'
<1>0. /\ Types /\ LockInv /\ HoldQuiet /\ CarryInv /\ IdInv /\ EntryInv /\ MarkInv /\ ProofInv
      /\ StruckInv /\ PathInv
  BY DEF AdmissionInv
<1>1. /\ Later /\ proc[p] \in ProcStates' /\ Now \in Nat
      /\ proc[p].pc = "poll" /\ proc[p].sup /\ ship # NONE /\ pr.queued
  <2>1. Later
    BY LaterSame DEF PollQueued
  <2>. QED  BY <1>0, <2>1, Grows DEF Types, PollQueued, Polls, Step, CarryInv, Carries, Now
<1>5. proc[p].pc = "poll" /\ proc[p].sup /\ ship # NONE /\ pr.queued /\ proc[p].act = Arm
  BY <1>0, <1>1 DEF CarryInv, Carries
<1>2. CASE End(p) /\ UNCHANGED ship
  <2>1. MarkerSettled' /\ UNCHANGED <<ship, ctl, ledger, net, github, rest>>
    BY <1>2, MarkerKept DEF PollQueued
  <2>. QED  BY <1>1, <1>2, <2>1, Ends
<1>3. CASE proc' = [proc EXCEPT ![p].seen = TRUE] /\ UNCHANGED <<ship, prLock, clock>>
  <2>. DEFINE n == [proc[p] EXCEPT !.seen = TRUE]
  <2>1. proc' = [proc EXCEPT ![p] = n] /\ n \in ProcStates'
    BY <1>1, <1>3 DEF ProcStates
  <2>2. Unguarded(p, n)
    BY <1>0, <1>1 DEF Unguarded, Guarded, Carries, CarryInv, PathInv, ProcStates
  <2>3. Leaves(p)
    BY <1>3, MarkerKept DEF Leaves, PollQueued, github, rest
  <2>. QED  BY <1>1, <2>1, <2>2, <2>3, Turns
<1>4. CASE /\ prLock = NONE /\ clock' = Now /\ ship' = [ship EXCEPT !.observed = Now]
           /\ proc' = [proc EXCEPT ![p].seen = TRUE, ![p].st = ship'] /\ UNCHANGED prLock
  <2>1. ship' \in ShipStates' /\ ship' # NONE
    <3>1. ship \in ShipStates' /\ Now \in Times' /\ NONE \notin ShipStates'
      BY <1>0, <1>1, <1>4, Grows, NoneApart DEF Types
    <3>2. ship' \in ShipStates'
      BY <1>4, <3>1 DEF ShipStates
    <3>. QED  BY <3>1, <3>2
  <2>2. /\ ship'.head = ship.head /\ ship'.base = ship.base /\ ship'.started = ship.started
        /\ ship'.succeeded = ship.succeeded /\ ship'.attempt = ship.attempt /\ ship'.created = ship.created
    BY <1>0, <1>1, <1>4, AdmissionAssumption DEF Types, ShipStates
  <2>. DEFINE n == [proc[p] EXCEPT !.seen = TRUE, !.st = ship']
  <2>3. n \in ProcStates' /\ proc' = [proc EXCEPT ![p] = n]
    BY <1>1, <1>4, <2>1 DEF ProcStates
  <2>4. /\ UNCHANGED <<pr, granted, struck, hold, fix, op, prLock, ctl, ledger, net, used>>
        /\ \A q \in Procs : ~proc[q].sup => proc[q].pc \in {"idle", "enqueued"}
    BY <1>0, <1>4, AdmissionAssumption DEF PollQueued, github, rest, LockInv
  <2>5. /\ proc'[p].pc = "poll" /\ proc'[p].st = ship' /\ \A q \in Procs : q # p => proc'[q] = proc[q]
        /\ \A q \in Procs : /\ proc'[q].sup = proc[q].sup /\ proc'[q].id = proc[q].id
                            /\ proc'[q].act = proc[q].act /\ proc'[q].path = proc[q].path
                            /\ proc'[q].base = proc[q].base /\ proc'[q].dead = proc[q].dead
                            /\ proc'[q].stamp = proc[q].stamp
    BY <1>0, <1>1, <2>3 DEF Types, ProcStates
  <2>. HIDE DEF n
  <2>6. Types'
    <3>1. proc' \in [Procs -> ProcStates'] /\ clock' \in Nat
      BY <1>0, <1>1, <2>3, TypesKept, Grows
    <3>2. pr' \in Pulls' /\ ledger' \subseteq Entries' /\ net' \subseteq Requests' /\ fix' \in Fixes'
      BY <1>0, <1>1, <2>4, TypesKept
    <3>. QED  BY <1>0, <2>1, <2>4, <3>1, <3>2 DEF Types
  <2>7. LockInv'
    BY <1>0, <1>5, <2>1, <2>2, <2>4, <2>5 DEF LockInv, Guarded, Settlers
  <2>8. HoldQuiet'
    BY <1>0, <1>5, <2>1, <2>2, <2>4, <2>5 DEF HoldQuiet, LockInv, Guarded
  <2>9. CarryInv'
    BY <1>0, <1>5, <2>1, <2>5 DEF CarryInv, Carries, LockInv, Guarded, Arm
  <2>10. IdInv'
    BY <1>0, <2>4, <2>5 DEF IdInv
  <2>11. EntryInv'
    BY <1>0, <1>5, <2>1, <2>2, <2>4, <2>5 DEF LockInv, IdInv, EntryInv, Entry, Guarded
  <2>12. MarkInv'
    BY <1>0, <1>5, <2>1, <2>2, <2>4, <2>5 DEF LockInv, CarryInv, Carries, IdInv, EntryInv, Entry, Guarded, MarkInv, MarkerSettled, Unmarked, SameIdentity, Arm
  <2>13. ProofInv'
    BY <1>0, <1>5, <2>1, <2>2, <2>4, <2>5 DEF LockInv, CarryInv, Carries, ProofInv, ProofReal, Guarded
  <2>14. StruckInv'
    BY <1>0, <1>5, <2>1, <2>2, <2>4, <2>5 DEF LockInv, CarryInv, Carries, StruckInv, AttemptStart, Guarded
  <2>15. PathInv'
    BY <1>0, <2>4, <2>5 DEF PathInv, TerminalStays
  <2>. QED  BY <2>6, <2>7, <2>8, <2>9, <2>10, <2>11, <2>12, <2>13, <2>14, <2>15 DEF AdmissionInv
<1>. QED  BY <1>2, <1>3, <1>4 DEF PollQueued

LEMMA AcquireKeeps ==
  ASSUME AdmissionInv, NEW p \in Procs, Acquire(p)
  PROVE  AdmissionInv'
<1>0. /\ Types /\ LockInv /\ HoldQuiet /\ CarryInv /\ IdInv /\ EntryInv /\ MarkInv /\ ProofInv
      /\ StruckInv /\ PathInv
  BY DEF AdmissionInv
<1>. DEFINE i == used.id + 1
            e == [id |-> i, act |-> proc[p].act, head |-> proc[p].st.head, base |-> proc[p].base, at |-> Now]
            c == IF proc[p].act = Arm THEN "mark" ELSE "send"
            n == [proc[p] EXCEPT !.id = i, !.pc = c]
<1>1. /\ Later /\ clock' = Now /\ Now \in Times' /\ Now # 0 /\ used.id \in Nat /\ i \in 1 .. MaxId /\ used'.id = i
  <2>1. /\ used' = [used EXCEPT !.id = @ + 1] /\ used.id < MaxId /\ clock' = Now
        /\ used \in [run : Nat, id : 0 .. MaxId, event : Nat]
    BY <1>0 DEF Acquire, Spend, Types
  <2>2. /\ used' \in [run : Nat, id : 0 .. MaxId, event : Nat] /\ used'.id = i
        /\ used.id \in Nat /\ i \in 1 .. MaxId /\ used'.id >= used.id
    BY <2>1, AdmissionAssumption
  <2>3. Later
    BY <2>1, <2>2 DEF Later
  <2>4. Now # 0
    BY <1>0 DEF Now, Types
  <2>. QED  BY <1>0, <2>1, <2>2, <2>3, <2>4, Grows
<1>2. /\ proc[p].pc = "acquire" /\ ctl = NONE /\ ctl' = p /\ ~hold /\ uncertain_mutations(proc[p].base) = {}
      /\ UNCHANGED <<ship, prLock, net, pr, granted, struck, hold, fix, op>> /\ fix.pc = "idle"
  BY <1>0, AdmissionAssumption DEF Acquire, Step, GuardFree, github, rest, LockInv, Settlers
<1>3. proc[p] \in ProcStates /\ proc[p] \in ProcStates' /\ proc[p].st \in ShipStates /\ proc[p].base \in Bases
  <2>1. proc[p].st # NONE /\ proc[p].base \in Bases
    BY <1>0, <1>2 DEF CarryInv, Carries
  <2>. QED  BY <1>0, <1>1, <2>1, Grows DEF Types, ProcStates
<1>4. e \in Entries'
  BY <1>1, <1>3 DEF Entries, ProcStates, ShipStates, Actions
<1>5. ledger' = ledger \cup {e} /\ proc' = [proc EXCEPT ![p] = n] /\ n \in ProcStates'
  <2>1. i \in 0 .. used'.id /\ c \in States
    BY <1>1 DEF States, Guarded
  <2>2. n \in ProcStates'
    BY <1>3, <2>1 DEF ProcStates
  <2>3. proc' = [proc EXCEPT ![p] = n]
    BY <1>3 DEF Acquire, ProcStates
  <2>. QED  BY <2>2, <2>3 DEF Acquire
<1>6. /\ proc'[p].pc = c /\ proc'[p].id = i
      /\ proc'[p].st = proc[p].st /\ proc'[p].act = proc[p].act /\ proc'[p].base = proc[p].base
      /\ proc'[p].path = proc[p].path /\ proc'[p].dead = proc[p].dead /\ proc'[p].sup = proc[p].sup
      /\ proc'[p].stamp = proc[p].stamp
      /\ \A q \in Procs : q # p => proc'[q] = proc[q]
  BY <1>0, <1>3, <1>5 DEF Types, ProcStates
<1>7. /\ e.id = i /\ e.act = proc[p].act /\ e.head = proc[p].st.head /\ e.base = proc[p].base /\ e.at = Now
      /\ c \in Guarded /\ (c = "mark" <=> proc[p].act = Arm) /\ c \in {"mark", "send"}
  BY DEF Guarded
<1>. HIDE DEF e, n, c, i
<1>8. /\ \A q \in Procs : proc[q].id # i /\ proc[q].pc \notin Guarded
      /\ \A r \in net : r.id # i
      /\ \A x \in ledger : x.id # i /\ x.id <= i /\ x.base # proc[p].base
  <2>1. \A q \in Procs : proc[q].id \in 0 .. used.id /\ proc[q].pc \notin Guarded
    BY <1>0, <1>2, AdmissionAssumption DEF Types, ProcStates, LockInv
  <2>2. \A r \in net : r.id \in 1 .. used.id
    BY <1>0 DEF Types, Requests
  <2>3. \A x \in ledger : x.id <= used.id /\ x.id \in Nat /\ x.base # proc[p].base
    BY <1>0, <1>2 DEF IdInv, uncertain_mutations, Types, Entries
  <2>. QED  BY <1>1, <2>1, <2>2, <2>3 DEF i
<1>9. Types'
  <2>1. proc' \in [Procs -> ProcStates'] /\ clock' \in Nat
    BY <1>0, <1>1, <1>5, TypesKept, Grows
  <2>2. pr' \in Pulls' /\ ship' \in ShipStates' \cup {NONE} /\ net' \subseteq Requests' /\ fix' \in Fixes'
    BY <1>0, <1>1, <1>2, TypesKept
  <2>3. ledger' \subseteq Entries'
    BY <1>0, <1>1, <1>4, <1>5, Grows DEF Types
  <2>. QED  BY <1>0, <1>1, <1>2, <2>1, <2>2, <2>3 DEF Types, Later
<1>10. LockInv'
  BY <1>0, <1>2, <1>5, <1>6, <1>7, <1>8 DEF LockInv, Guarded, Settlers
<1>11. HoldQuiet'
  BY <1>0, <1>2, <1>5, <1>6, <1>7, <1>8 DEF HoldQuiet, LockInv, Guarded
<1>12. CarryInv'
  BY <1>0, <1>2, <1>5, <1>6, <1>7, <1>8 DEF CarryInv, Carries, LockInv, Guarded, Arm
<1>13. IdInv'
  BY <1>0, <1>1, <1>2, <1>5, <1>6, <1>7, <1>8 DEF IdInv
<1>14. EntryInv'
  BY <1>0, <1>2, <1>5, <1>6, <1>7, <1>8 DEF LockInv, IdInv, EntryInv, Entry, Guarded
<1>15. MarkInv'
  BY <1>0, <1>2, <1>5, <1>6, <1>7, <1>8 DEF LockInv, CarryInv, Carries, IdInv, EntryInv, Entry, Guarded, MarkInv, MarkerSettled, Unmarked, SameIdentity, Arm
<1>16. ProofInv'
  BY <1>0, <1>2, <1>5, <1>6, <1>7, <1>8 DEF LockInv, CarryInv, Carries, ProofInv, ProofReal, Guarded
<1>17. StruckInv'
  BY <1>0, <1>2, <1>5, <1>6, <1>7, <1>8 DEF LockInv, CarryInv, Carries, StruckInv, AttemptStart, Guarded
<1>18. PathInv'
  BY <1>0, <1>2, <1>5, <1>6, <1>7, <1>8 DEF PathInv, TerminalStays
<1>. QED  BY <1>9, <1>10, <1>11, <1>12, <1>13, <1>14, <1>15, <1>16, <1>17, <1>18 DEF AdmissionInv

LEMMA SendKeeps ==
  ASSUME AdmissionInv, NEW p \in Procs, Send(p)
  PROVE  AdmissionInv'
<1>0. /\ Types /\ LockInv /\ HoldQuiet /\ CarryInv /\ IdInv /\ EntryInv /\ MarkInv /\ ProofInv
      /\ StruckInv /\ PathInv
  BY DEF AdmissionInv
<1>. DEFINE r == [id |-> proc[p].id, act |-> proc[p].act, head |-> proc[p].st.head, base |-> proc[p].base,
                  path |-> proc[p].path, dead |-> proc[p].dead, reply |-> "none"]
            n == [proc[p] EXCEPT !.pc = "wait"]
<1>1. /\ Later /\ proc[p].pc = "send" /\ proc[p].pc \in Guarded /\ ctl = p /\ fix.pc = "idle"
      /\ UNCHANGED <<ship, prLock, ctl, ledger, clock, used, pr, granted, struck, hold, fix, op>>
  <2>1. Later
    BY LaterSame DEF Send
  <2>2. proc[p].pc = "send" /\ proc[p].pc \in Guarded
    BY DEF Send, Step, Guarded
  <2>. QED  BY <1>0, <2>1, <2>2, AdmissionAssumption DEF Send, github, rest, LockInv, Settlers
<1>2. /\ proc[p] \in ProcStates /\ proc[p] \in ProcStates' /\ proc[p].st \in ShipStates /\ proc[p].base \in Bases
  <2>1. proc[p].st # NONE /\ proc[p].base \in Bases
    BY <1>0, <1>1 DEF CarryInv, Carries
  <2>. QED  BY <1>0, <1>1, <2>1, Grows DEF Types, ProcStates
<1>3. PICK own \in ledger : Entry(p, own)
  BY <1>0, <1>1 DEF EntryInv
<1>4. r \in Requests
  <2>1. own.id \in 1 .. used.id
    BY <1>0, <1>3, AdmissionAssumption DEF Types, Entries, IdInv
  <2>. QED  BY <1>2, <1>3, <2>1 DEF Requests, ProcStates, ShipStates, Entry
<1>5. net' = net \cup {r} /\ proc' = [proc EXCEPT ![p] = n] /\ n \in ProcStates'
  BY <1>2 DEF Send, ProcStates, States, Guarded
<1>6. /\ proc'[p].pc = "wait" /\ \A q \in Procs : q # p => proc'[q] = proc[q]
      /\ \A q \in Procs : /\ proc'[q].sup = proc[q].sup /\ proc'[q].id = proc[q].id
                          /\ proc'[q].act = proc[q].act /\ proc'[q].path = proc[q].path
                          /\ proc'[q].base = proc[q].base /\ proc'[q].dead = proc[q].dead
                          /\ proc'[q].stamp = proc[q].stamp /\ proc'[q].st = proc[q].st
  BY <1>0, <1>2, <1>5 DEF Types, ProcStates
<1>7. /\ r.id = proc[p].id /\ r.act = proc[p].act /\ r.head = proc[p].st.head /\ r.base = proc[p].base
      /\ r.path = proc[p].path /\ r.dead = proc[p].dead /\ r.reply = "none"
  OBVIOUS
<1>. HIDE DEF r, n
<1>8. /\ \A x \in net : x.id # proc[p].id
      /\ own.id = proc[p].id /\ own.base = proc[p].base
      /\ \A x \in ledger : x.id = own.id => x = own
      /\ \A q \in Procs : q # p => proc[q].pc \notin Guarded
  BY <1>0, <1>1, <1>3 DEF EntryInv, Entry, IdInv, LockInv
<1>9. Types'
  <2>1. proc' \in [Procs -> ProcStates'] /\ clock' \in Nat
    BY <1>0, <1>1, <1>5, TypesKept, Grows
  <2>2. pr' \in Pulls' /\ ship' \in ShipStates' \cup {NONE} /\ ledger' \subseteq Entries' /\ fix' \in Fixes'
    BY <1>0, <1>1, TypesKept
  <2>3. net' \subseteq Requests'
    BY <1>0, <1>1, <1>4, <1>5, Grows DEF Types
  <2>. QED  BY <1>0, <1>1, <2>1, <2>2, <2>3 DEF Types
<1>10. LockInv'
  BY <1>0, <1>1, <1>5, <1>6, <1>7, <1>8 DEF LockInv, Guarded, Settlers
<1>11. HoldQuiet'
  BY <1>0, <1>1, <1>5, <1>6, <1>7, <1>8 DEF HoldQuiet, LockInv, Guarded
<1>12. CarryInv'
  BY <1>0, <1>1, <1>5, <1>6, <1>7, <1>8 DEF CarryInv, Carries, LockInv, Guarded, Arm
<1>13. IdInv'
  BY <1>0, <1>1, <1>5, <1>6, <1>7, <1>8 DEF IdInv
<1>14. EntryInv'
  BY <1>0, <1>1, <1>5, <1>6, <1>7, <1>8 DEF LockInv, IdInv, EntryInv, Entry, Guarded
<1>15. MarkInv'
  BY <1>0, <1>1, <1>5, <1>6, <1>7, <1>8 DEF LockInv, CarryInv, Carries, IdInv, EntryInv, Entry, Guarded, MarkInv, MarkerSettled, Unmarked, SameIdentity, Arm
<1>16. ProofInv'
  BY <1>0, <1>1, <1>5, <1>6, <1>7, <1>8 DEF LockInv, CarryInv, Carries, ProofInv, ProofReal, Guarded
<1>17. StruckInv'
  BY <1>0, <1>1, <1>5, <1>6, <1>7, <1>8 DEF LockInv, CarryInv, Carries, StruckInv, AttemptStart, Guarded
<1>18. PathInv'
  BY <1>0, <1>1, <1>5, <1>6, <1>7, <1>8 DEF PathInv, TerminalStays
<1>. QED  BY <1>9, <1>10, <1>11, <1>12, <1>13, <1>14, <1>15, <1>16, <1>17, <1>18 DEF AdmissionInv

LEMMA GateRefusesKeeps ==
  ASSUME AdmissionInv, NEW p \in Procs, GateRefuses(p)
  PROVE  AdmissionInv'
<1>0. /\ Types /\ LockInv /\ HoldQuiet /\ CarryInv /\ IdInv /\ EntryInv /\ MarkInv /\ ProofInv
      /\ StruckInv /\ PathInv
  BY DEF AdmissionInv
<1>. DEFINE n == [proc[p] EXCEPT !.pc = "gated"]
<1>1. /\ Later /\ proc[p].pc = "send" /\ proc[p].pc \in Guarded /\ proc[p].act = Arm
      /\ UNCHANGED <<ship, prLock, ctl, ledger, net, clock, used, pr, granted, struck, hold, fix, op>>
  <2>1. Later
    BY LaterSame DEF GateRefuses
  <2>. QED  BY <2>1 DEF GateRefuses, Step, Guarded, github, rest
<1>2. proc' = [proc EXCEPT ![p] = n] /\ n \in ProcStates' /\ proc[p] \in ProcStates
  <2>1. proc[p] \in ProcStates /\ proc[p] \in ProcStates'
    BY <1>0, <1>1, Grows DEF Types
  <2>. QED  BY <2>1 DEF GateRefuses, ProcStates, States, Guarded
<1>3. /\ proc'[p].pc = "gated" /\ \A q \in Procs : q # p => proc'[q] = proc[q]
      /\ \A q \in Procs : /\ proc'[q].sup = proc[q].sup /\ proc'[q].id = proc[q].id
                          /\ proc'[q].act = proc[q].act /\ proc'[q].path = proc[q].path
                          /\ proc'[q].base = proc[q].base /\ proc'[q].dead = proc[q].dead
                          /\ proc'[q].stamp = proc[q].stamp /\ proc'[q].st = proc[q].st
  BY <1>0, <1>2 DEF Types, ProcStates
<1>. HIDE DEF n
<1>4. Types'
  <2>1. proc' \in [Procs -> ProcStates'] /\ clock' \in Nat
    BY <1>0, <1>1, <1>2, TypesKept, Grows
  <2>2. /\ pr' \in Pulls' /\ ship' \in ShipStates' \cup {NONE} /\ ledger' \subseteq Entries'
        /\ net' \subseteq Requests' /\ fix' \in Fixes'
    BY <1>0, <1>1, TypesKept
  <2>. QED  BY <1>0, <1>1, <2>1, <2>2 DEF Types
<1>5. LockInv'
  BY <1>0, <1>1, <1>3 DEF LockInv, Guarded, Settlers
<1>6. HoldQuiet'
  BY <1>0, <1>1, <1>3 DEF HoldQuiet, LockInv, Guarded
<1>7. CarryInv'
  BY <1>0, <1>1, <1>3 DEF CarryInv, Carries, LockInv, Guarded, Arm
<1>8. IdInv'
  BY <1>0, <1>1, <1>3 DEF IdInv
<1>9. EntryInv'
  BY <1>0, <1>1, <1>3 DEF LockInv, IdInv, EntryInv, Entry, Guarded
<1>10. MarkInv'
  BY <1>0, <1>1, <1>3 DEF LockInv, CarryInv, Carries, IdInv, EntryInv, Entry, Guarded, MarkInv, MarkerSettled, Unmarked, SameIdentity, Arm
<1>11. ProofInv'
  BY <1>0, <1>1, <1>3 DEF LockInv, CarryInv, Carries, ProofInv, ProofReal, Guarded
<1>12. StruckInv'
  BY <1>0, <1>1, <1>3 DEF LockInv, CarryInv, Carries, StruckInv, AttemptStart, Guarded
<1>13. PathInv'
  BY <1>0, <1>1, <1>3 DEF PathInv, TerminalStays
<1>. QED  BY <1>4, <1>5, <1>6, <1>7, <1>8, <1>9, <1>10, <1>11, <1>12, <1>13 DEF AdmissionInv

LEMMA AnsweredKeeps ==
  ASSUME AdmissionInv, NEW p \in Procs, Answered(p)
  PROVE  AdmissionInv'
<1>0. /\ Types /\ LockInv /\ HoldQuiet /\ CarryInv /\ IdInv /\ EntryInv /\ MarkInv /\ ProofInv
      /\ StruckInv /\ PathInv
  BY DEF AdmissionInv
<1>. DEFINE c == IF Mine(p).reply = "accepted" THEN "won" ELSE "refused"
            n == [proc[p] EXCEPT !.pc = c]
<1>1. /\ Later /\ proc[p].pc = "wait" /\ proc[p].pc \in Guarded
      /\ UNCHANGED <<ship, prLock, ctl, ledger, clock, used, pr, granted, struck, hold, fix, op>>
  <2>1. Later
    BY LaterSame DEF Answered
  <2>. QED  BY <2>1 DEF Answered, Step, Guarded, github, rest
<1>2. proc' = [proc EXCEPT ![p] = n] /\ n \in ProcStates' /\ proc[p] \in ProcStates
  <2>1. proc[p] \in ProcStates /\ proc[p] \in ProcStates'
    BY <1>0, <1>1, Grows DEF Types
  <2>. QED  BY <2>1 DEF Answered, ProcStates, States, Guarded
<1>3. /\ proc'[p].pc = c /\ \A q \in Procs : q # p => proc'[q] = proc[q]
      /\ \A q \in Procs : /\ proc'[q].sup = proc[q].sup /\ proc'[q].id = proc[q].id
                          /\ proc'[q].act = proc[q].act /\ proc'[q].path = proc[q].path
                          /\ proc'[q].base = proc[q].base /\ proc'[q].dead = proc[q].dead
                          /\ proc'[q].stamp = proc[q].stamp /\ proc'[q].st = proc[q].st
  BY <1>0, <1>2 DEF Types, ProcStates
<1>4. PICK r \in net : r.id = proc[p].id /\ r.act = proc[p].act /\ r.head = proc[p].st.head
  BY <1>0, <1>1 DEF EntryInv
<1>5. Mine(p) = r /\ net' = net \ {r}
  <2>1. Mine(p) \in net /\ Mine(p).id = proc[p].id
    BY <1>4 DEF Mine
  <2>. QED  BY <1>0, <1>4, <2>1 DEF IdInv, Answered
<1>6. c \in {"won", "refused"} /\ (c = "won" <=> r.reply = "accepted") /\ c \in Guarded
  BY <1>5 DEF Guarded
<1>. HIDE DEF n, c
<1>7. \A q \in Procs : q # p => proc[q].pc \notin Guarded
  BY <1>0, <1>1 DEF LockInv
<1>8. Types'
  <2>1. proc' \in [Procs -> ProcStates'] /\ clock' \in Nat
    BY <1>0, <1>1, <1>2, TypesKept, Grows
  <2>2. /\ pr' \in Pulls' /\ ship' \in ShipStates' \cup {NONE} /\ ledger' \subseteq Entries'
        /\ net' \subseteq Requests' /\ fix' \in Fixes'
    BY <1>0, <1>1, <1>5, TypesKept
  <2>. QED  BY <1>0, <1>1, <2>1, <2>2 DEF Types
<1>9. LockInv'
  BY <1>0, <1>1, <1>3, <1>4, <1>5, <1>6, <1>7 DEF LockInv, Guarded, Settlers
<1>10. HoldQuiet'
  BY <1>0, <1>1, <1>3, <1>4, <1>5, <1>6, <1>7 DEF HoldQuiet, LockInv, Guarded
<1>11. CarryInv'
  BY <1>0, <1>1, <1>3, <1>4, <1>5, <1>6, <1>7 DEF CarryInv, Carries, LockInv, Guarded, Arm
<1>12. IdInv'
  BY <1>0, <1>1, <1>3, <1>4, <1>5, <1>6, <1>7 DEF IdInv
<1>13. EntryInv'
  BY <1>0, <1>1, <1>3, <1>4, <1>5, <1>6, <1>7 DEF LockInv, IdInv, EntryInv, Entry, Guarded
<1>14. MarkInv'
  BY <1>0, <1>1, <1>3, <1>4, <1>5, <1>6, <1>7 DEF LockInv, CarryInv, Carries, IdInv, EntryInv, Entry, Guarded, MarkInv, MarkerSettled, Unmarked, SameIdentity, Arm
<1>15. ProofInv'
  BY <1>0, <1>1, <1>3, <1>4, <1>5, <1>6, <1>7 DEF LockInv, CarryInv, Carries, ProofInv, ProofReal, Guarded
<1>16. StruckInv'
  BY <1>0, <1>1, <1>3, <1>4, <1>5, <1>6, <1>7 DEF LockInv, CarryInv, Carries, StruckInv, AttemptStart, Guarded
<1>17. PathInv'
  BY <1>0, <1>1, <1>3, <1>4, <1>5, <1>6, <1>7 DEF PathInv, TerminalStays
<1>. QED  BY <1>8, <1>9, <1>10, <1>11, <1>12, <1>13, <1>14, <1>15, <1>16, <1>17 DEF AdmissionInv

-----------------------------------------------------------------------------
(* Settlement, the operator, GitHub and the ship. *)

LEMMA FixAcquireKeeps ==
  ASSUME AdmissionInv, NEW a \in Settlers, FixAcquire(a)
  PROVE  AdmissionInv'
<1>0. /\ Types /\ LockInv /\ HoldQuiet /\ CarryInv /\ IdInv /\ EntryInv /\ MarkInv /\ ProofInv
      /\ StruckInv /\ PathInv
  BY DEF AdmissionInv
<1>1. Later /\ UNCHANGED <<pr, ship, prLock, hold, ledger, net, proc, op, clock, used, granted, struck>>
  <2>1. Later
    BY LaterSame DEF FixAcquire
  <2>. QED  BY <2>1 DEF FixAcquire, github
<1>2. PICK e \in ledger : fix' = [pc |-> "judge", entry |-> e, verdict |-> NONE]
  BY DEF FixAcquire, NoFix
<1>3. /\ fix'.pc = "judge" /\ fix'.entry = e /\ ctl' = a /\ ctl = NONE
      /\ \A q \in Procs : proc[q].pc \notin Guarded
  BY <1>0, <1>2, AdmissionAssumption DEF FixAcquire, LockInv
<1>4. fix' \in Fixes' /\ ctl' \in Procs \cup Settlers \cup {NONE}
  BY <1>0, <1>1, <1>2, <1>3 DEF Fixes, Types, Entries, Times
<1>5. Types'
  <2>1. clock' \in Nat
    BY <1>0, <1>1, Grows
  <2>2. /\ pr' \in Pulls'
        /\ ship' \in ShipStates' \cup {NONE}
        /\ ledger' \subseteq Entries'
        /\ net' \subseteq Requests'
        /\ proc' \in [Procs -> ProcStates']
    BY <1>0, <1>1, TypesKept
  <2>. QED  BY <1>0, <1>1, <1>4, <2>1, <2>2 DEF Types, Later
<1>6. LockInv'
  BY <1>0, <1>1, <1>3 DEF LockInv, Guarded, Settlers
<1>7. HoldQuiet'
  BY <1>0, <1>1, <1>3 DEF HoldQuiet, LockInv, Guarded
<1>8. CarryInv'
  BY <1>0, <1>1, <1>3 DEF CarryInv, Carries, LockInv, Guarded, Arm
<1>9. IdInv'
  BY <1>0, <1>1, <1>3 DEF IdInv
<1>10. EntryInv'
  BY <1>0, <1>1, <1>3 DEF LockInv, IdInv, EntryInv, Entry, Guarded
<1>11. MarkInv'
  BY <1>0, <1>1, <1>3 DEF LockInv, CarryInv, Carries, IdInv, EntryInv, Entry, Guarded, MarkInv, MarkerSettled, Unmarked, SameIdentity, Arm
<1>12. ProofInv'
  BY <1>0, <1>1, <1>3 DEF LockInv, CarryInv, Carries, ProofInv, ProofReal, Guarded
<1>13. StruckInv'
  BY <1>0, <1>1, <1>3 DEF LockInv, CarryInv, Carries, StruckInv, AttemptStart, Guarded
<1>14. PathInv'
  BY <1>0, <1>1, <1>3 DEF PathInv, TerminalStays
<1>. QED  BY <1>5, <1>6, <1>7, <1>8, <1>9, <1>10, <1>11, <1>12, <1>13, <1>14 DEF AdmissionInv

LEMMA FixJudgeKeeps ==
  ASSUME AdmissionInv, FixJudge
  PROVE  AdmissionInv'
<1>0. /\ Types /\ LockInv /\ HoldQuiet /\ CarryInv /\ IdInv /\ EntryInv /\ MarkInv /\ ProofInv
      /\ StruckInv /\ PathInv
  BY DEF AdmissionInv
<1>1. Later /\ UNCHANGED <<pr, ship, prLock, hold, ledger, net, proc, op, clock, used, granted, struck>>
  <2>1. Later
    BY LaterSame DEF FixJudge
  <2>. QED  BY <2>1 DEF FixJudge, github
<1>2. /\ fix.pc = "judge" /\ ctl \in Settlers /\ fix.entry \in ledger
      /\ \A q \in Procs : proc[q].pc \notin Guarded
  BY <1>0, AdmissionAssumption DEF FixJudge, LockInv, Settlers
<1>3. \/ fix' = NoFix /\ ctl' = NONE
      \/ \E v \in {"accepted", "rejected"} :
           /\ fix' = [fix EXCEPT !.pc = "apply", !.verdict = v] /\ ctl' = ctl
           /\ v = "accepted" => fix.entry.act = Arm /\ judge(fix.entry) = "accepted"
  BY DEF FixJudge, judge
<1>4. judge(fix.entry) = "accepted" => (fix.entry.head \in granted \/ pr.merged) /\ ~struck
  BY <1>0 DEF judge, ProofInv, StruckInv
<1>5. /\ fix' \in Fixes' /\ ctl' \in Procs \cup Settlers \cup {NONE}
      /\ \/ fix'.pc = "idle" /\ ctl' = NONE
         \/ /\ fix'.pc = "apply" /\ fix'.verdict \in {"accepted", "rejected"} /\ fix'.entry = fix.entry
            /\ ctl' = ctl
            /\ fix'.verdict = "accepted" => (fix.entry.head \in granted \/ pr.merged) /\ ~struck
  <2>1. CASE fix' = NoFix /\ ctl' = NONE
    BY <2>1 DEF NoFix, Fixes
  <2>2. CASE ~(fix' = NoFix /\ ctl' = NONE)
    <3>1. PICK v \in {"accepted", "rejected"} :
           /\ fix' = [fix EXCEPT !.pc = "apply", !.verdict = v] /\ ctl' = ctl
           /\ v = "accepted" => fix.entry.act = Arm /\ judge(fix.entry) = "accepted"
      BY <1>3, <2>2
    <3>2. fix \in Fixes /\ Fixes \subseteq Fixes' /\ ctl \in Procs \cup Settlers \cup {NONE}
      BY <1>0, <1>1, Grows DEF Types
    <3>3. /\ fix'.pc = "apply" /\ fix'.verdict = v /\ fix'.entry = fix.entry
          /\ [fix EXCEPT !.pc = "apply", !.verdict = v] \in Fixes
      BY <3>1, <3>2 DEF Fixes
    <3>. QED  BY <1>4, <3>1, <3>2, <3>3
  <2>. QED  BY <2>1, <2>2
<1>6. Types'
  <2>1. clock' \in Nat
    BY <1>0, <1>1, Grows
  <2>2. /\ pr' \in Pulls'
        /\ ship' \in ShipStates' \cup {NONE}
        /\ ledger' \subseteq Entries'
        /\ net' \subseteq Requests'
        /\ proc' \in [Procs -> ProcStates']
    BY <1>0, <1>1, TypesKept
  <2>. QED  BY <1>0, <1>1, <1>5, <2>1, <2>2 DEF Types, Later
<1>7. LockInv'
  BY <1>0, <1>1, <1>2, <1>5 DEF LockInv, Guarded, Settlers
<1>8. HoldQuiet'
  BY <1>0, <1>1, <1>2, <1>5 DEF HoldQuiet, LockInv, Guarded
<1>9. CarryInv'
  BY <1>0, <1>1, <1>2, <1>5 DEF CarryInv, Carries, LockInv, Guarded, Arm
<1>10. IdInv'
  BY <1>0, <1>1, <1>2, <1>5 DEF IdInv
<1>11. EntryInv'
  BY <1>0, <1>1, <1>2, <1>5 DEF LockInv, IdInv, EntryInv, Entry, Guarded
<1>12. MarkInv'
  BY <1>0, <1>1, <1>2, <1>5 DEF LockInv, CarryInv, Carries, IdInv, EntryInv, Entry, Guarded, MarkInv, MarkerSettled, Unmarked, SameIdentity, Arm
<1>13. ProofInv'
  BY <1>0, <1>1, <1>2, <1>5 DEF LockInv, CarryInv, Carries, ProofInv, ProofReal, Guarded
<1>14. StruckInv'
  BY <1>0, <1>1, <1>2, <1>5 DEF LockInv, CarryInv, Carries, StruckInv, AttemptStart, Guarded
<1>15. PathInv'
  BY <1>0, <1>1, <1>2, <1>5 DEF PathInv, TerminalStays
<1>. QED  BY <1>6, <1>7, <1>8, <1>9, <1>10, <1>11, <1>12, <1>13, <1>14, <1>15 DEF AdmissionInv

LEMMA FixApplyKeeps ==
  ASSUME AdmissionInv, FixApply
  PROVE  AdmissionInv'
<1>0. /\ Types /\ LockInv /\ HoldQuiet /\ CarryInv /\ IdInv /\ EntryInv /\ MarkInv /\ ProofInv
      /\ StruckInv /\ PathInv
  BY DEF AdmissionInv
<1>1. Later /\ UNCHANGED <<pr, prLock, ctl, hold, ledger, net, proc, op, used, granted, struck>>
  <2>1. Later
    BY LaterSame DEF FixApply
  <2>. QED  BY <2>1 DEF FixApply, github
<1>2. /\ fix.pc = "apply" /\ ctl \in Settlers /\ fix.entry \in ledger /\ clock' = Now
      /\ fix' = [fix EXCEPT !.pc = "append"] /\ prLock = NONE
      /\ \A q \in Procs : proc[q].pc \notin Guarded /\ (~proc[q].sup => proc[q].pc \in {"idle", "enqueued"})
  BY <1>0, AdmissionAssumption DEF FixApply, LockInv, Settlers
<1>3. fix'.pc = "append" /\ fix'.entry = fix.entry /\ fix' \in Fixes'
  <2>1. fix \in Fixes /\ Fixes \subseteq Fixes'
    BY <1>0, <1>1, Grows DEF Types
  <2>. QED  BY <1>2, <2>1 DEF Fixes
<1>4. \/ /\ ship' = ship
         /\ ship = NONE \/ fix.entry.act # Arm \/ ~SameIdentity(ship, fix.entry)
      \/ /\ ship # NONE /\ ship' # NONE /\ ship' \in ShipStates' /\ SameIdentity(ship, fix.entry)
         /\ fix.entry.act = Arm
         /\ ship'.head = ship.head /\ ship'.base = ship.base /\ ship'.created = ship.created
         /\ ship'.started = 0
         /\ \/ ship'.succeeded = 0 /\ ship'.attempt = ship.attempt
            \/ fix.verdict = "accepted" /\ ship'.attempt = fix.entry.at
  <2>1. /\ ship # NONE => ship \in ShipStates' 
        /\ NONE \notin ShipStates' /\ Now \in Times' /\ 0 \in Times' /\ fix.entry.at \in Times'
    BY <1>0, <1>1, <1>2, Grows, NoneApart DEF Types, Entries, Times
  <2>2. CASE ~(ship # NONE /\ fix.entry.act = Arm /\ SameIdentity(ship, fix.entry))
    BY <2>2 DEF FixApply
  <2>3. CASE ship # NONE /\ fix.entry.act = Arm /\ SameIdentity(ship, fix.entry)
    <3>1. ship' = Resolved(fix.entry, fix.verdict, ship)
      BY <2>3 DEF FixApply
    <3>2. /\ ship' \in ShipStates'
          /\ ship'.head = ship.head /\ ship'.base = ship.base /\ ship'.created = ship.created
          /\ ship'.started = 0
          /\ \/ ship'.succeeded = 0 /\ ship'.attempt = ship.attempt
             \/ fix.verdict = "accepted" /\ ship'.attempt = fix.entry.at
      BY <2>1, <2>3, <3>1 DEF Resolved, ShipStates
    <3>. QED  BY <2>1, <2>3, <3>2
  <2>. QED  BY <2>2, <2>3
<1>5. ship' \in ShipStates' \cup {NONE}
  BY <1>0, <1>1, <1>4, TypesKept
<1>6. fix.entry.at # 0
  BY <1>0, <1>2 DEF IdInv
<1>7. Types'
  <2>1. clock' \in Nat
    BY <1>0, <1>1, Grows
  <2>2. /\ pr' \in Pulls'
        /\ ledger' \subseteq Entries'
        /\ net' \subseteq Requests'
        /\ proc' \in [Procs -> ProcStates']
    BY <1>0, <1>1, TypesKept
  <2>. QED  BY <1>0, <1>1, <1>2, <1>3, <1>5, <2>1, <2>2 DEF Types, Later
<1>8. LockInv'
  BY <1>0, <1>1, <1>2, <1>3, <1>4, <1>6 DEF LockInv, Guarded, Settlers
<1>9. HoldQuiet'
  BY <1>0, <1>1, <1>2, <1>3, <1>4, <1>6 DEF HoldQuiet, LockInv, Guarded
<1>10. CarryInv'
  BY <1>0, <1>1, <1>2, <1>3, <1>4, <1>6 DEF CarryInv, Carries, LockInv, Guarded, Arm
<1>11. IdInv'
  BY <1>0, <1>1, <1>2, <1>3, <1>4, <1>6 DEF IdInv
<1>12. EntryInv'
  BY <1>0, <1>1, <1>2, <1>3, <1>4, <1>6 DEF LockInv, IdInv, EntryInv, Entry, Guarded
<1>13. MarkInv'
  BY <1>0, <1>1, <1>2, <1>3, <1>4, <1>6 DEF LockInv, CarryInv, Carries, IdInv, EntryInv, Entry, Guarded, MarkInv, MarkerSettled, Unmarked, SameIdentity, Arm
<1>14. ProofInv'
  BY <1>0, <1>1, <1>2, <1>3, <1>4, <1>6 DEF LockInv, CarryInv, Carries, ProofInv, ProofReal, Guarded, SameIdentity
<1>15. StruckInv'
  BY <1>0, <1>1, <1>2, <1>3, <1>4, <1>6 DEF LockInv, CarryInv, Carries, StruckInv, AttemptStart, Guarded
<1>16. PathInv'
  BY <1>0, <1>1, <1>2, <1>3, <1>4, <1>6 DEF PathInv, TerminalStays
<1>. QED  BY <1>7, <1>8, <1>9, <1>10, <1>11, <1>12, <1>13, <1>14, <1>15, <1>16 DEF AdmissionInv

LEMMA FixAppendKeeps ==
  ASSUME AdmissionInv, FixAppend
  PROVE  AdmissionInv'
<1>0. /\ Types /\ LockInv /\ HoldQuiet /\ CarryInv /\ IdInv /\ EntryInv /\ MarkInv /\ ProofInv
      /\ StruckInv /\ PathInv
  BY DEF AdmissionInv
<1>1. Later /\ UNCHANGED <<pr, ship, prLock, hold, net, proc, op, clock, used, granted, struck>>
  <2>1. Later
    BY LaterSame DEF FixAppend
  <2>. QED  BY <2>1 DEF FixAppend, github
<1>2. /\ fix.pc = "append" /\ ctl \in Settlers /\ fix.entry \in ledger
      /\ fix' = NoFix /\ ctl' = NONE /\ fix'.pc = "idle" /\ fix' \in Fixes'
      /\ ledger' = {e \in ledger : e.id # fix.entry.id}
      /\ \A q \in Procs : proc[q].pc \notin Guarded
  BY <1>0, AdmissionAssumption DEF FixAppend, LockInv, Settlers, NoFix, Fixes
<1>3. MarkerSettled'
  <2>1. SUFFICES ASSUME ship # NONE, ship.started # 0
                 PROVE  \E e \in ledger' : e.act = Arm /\ SameIdentity(e, ship)
    BY <1>1 DEF MarkerSettled, SameIdentity
  <2>2. PICK e \in ledger : e.act = Arm /\ SameIdentity(e, ship)
    BY <1>0, <2>1 DEF MarkInv, MarkerSettled
  <2>3. e.id # fix.entry.id
    BY <1>0, <1>2, <2>1, <2>2 DEF IdInv, MarkInv, Unmarked, SameIdentity
  <2>. QED  BY <1>2, <2>2, <2>3
<1>4. Types'
  <2>1. clock' \in Nat
    BY <1>0, <1>1, Grows
  <2>2. /\ pr' \in Pulls'
        /\ ship' \in ShipStates' \cup {NONE}
        /\ ledger' \subseteq Entries'
        /\ net' \subseteq Requests'
        /\ proc' \in [Procs -> ProcStates']
    BY <1>0, <1>1, <1>2, TypesKept
  <2>. QED  BY <1>0, <1>1, <1>2, <2>1, <2>2 DEF Types, Later
<1>5. LockInv'
  BY <1>0, <1>1, <1>2 DEF LockInv, Guarded, Settlers
<1>6. HoldQuiet'
  BY <1>0, <1>1, <1>2 DEF HoldQuiet, LockInv, Guarded
<1>7. CarryInv'
  BY <1>0, <1>1, <1>2 DEF CarryInv, Carries, LockInv, Guarded, Arm
<1>8. IdInv'
  BY <1>0, <1>1, <1>2 DEF IdInv
<1>9. EntryInv'
  BY <1>0, <1>1, <1>2 DEF LockInv, IdInv, EntryInv, Entry, Guarded
<1>10. MarkInv'
  BY <1>0, <1>1, <1>2, <1>3 DEF LockInv, CarryInv, Carries, IdInv, EntryInv, Entry, Guarded, MarkInv, MarkerSettled, Unmarked, SameIdentity, Arm
<1>11. ProofInv'
  BY <1>0, <1>1, <1>2 DEF LockInv, CarryInv, Carries, ProofInv, ProofReal, Guarded
<1>12. StruckInv'
  BY <1>0, <1>1, <1>2 DEF LockInv, CarryInv, Carries, StruckInv, AttemptStart, Guarded
<1>13. PathInv'
  BY <1>0, <1>1, <1>2 DEF PathInv, TerminalStays
<1>. QED  BY <1>4, <1>5, <1>6, <1>7, <1>8, <1>9, <1>10, <1>11, <1>12, <1>13 DEF AdmissionInv

LEMMA FixAbandonKeeps ==
  ASSUME AdmissionInv, FixAbandon
  PROVE  AdmissionInv'
<1>0. /\ Types /\ LockInv /\ HoldQuiet /\ CarryInv /\ IdInv /\ EntryInv /\ MarkInv /\ ProofInv
      /\ StruckInv /\ PathInv
  BY DEF AdmissionInv
<1>1. Later /\ UNCHANGED <<pr, ship, prLock, hold, ledger, net, proc, op, clock, granted, struck>>
  <2>1. Later
    BY LaterSame DEF FixAbandon
  <2>. QED  BY <2>1 DEF FixAbandon, github
<1>2. /\ fix' = NoFix /\ ctl' = NONE /\ fix'.pc = "idle" /\ fix' \in Fixes'
      /\ \A q \in Procs : proc[q].pc \notin Guarded
  BY <1>0, AdmissionAssumption DEF FixAbandon, LockInv, Settlers, NoFix, Fixes
<1>3. \A e \in ledger : e.id <= used'.id
  BY <1>0, <1>1 DEF IdInv, Types, Entries, Later
<1>4. Types'
  <2>1. clock' \in Nat
    BY <1>0, <1>1, Grows
  <2>2. /\ pr' \in Pulls'
        /\ ship' \in ShipStates' \cup {NONE}
        /\ ledger' \subseteq Entries'
        /\ net' \subseteq Requests'
        /\ proc' \in [Procs -> ProcStates']
    BY <1>0, <1>1, TypesKept
  <2>. QED  BY <1>0, <1>1, <1>2, <2>1, <2>2 DEF Types, Later
<1>5. LockInv'
  BY <1>0, <1>1, <1>2 DEF LockInv, Guarded, Settlers
<1>6. HoldQuiet'
  BY <1>0, <1>1, <1>2 DEF HoldQuiet, LockInv, Guarded
<1>7. CarryInv'
  BY <1>0, <1>1, <1>2 DEF CarryInv, Carries, LockInv, Guarded, Arm
<1>8. IdInv'
  BY <1>0, <1>1, <1>3 DEF IdInv
<1>9. EntryInv'
  BY <1>0, <1>1, <1>2 DEF LockInv, IdInv, EntryInv, Entry, Guarded
<1>10. MarkInv'
  BY <1>0, <1>1, <1>2 DEF LockInv, CarryInv, Carries, IdInv, EntryInv, Entry, Guarded, MarkInv, MarkerSettled, Unmarked, SameIdentity, Arm
<1>11. ProofInv'
  BY <1>0, <1>1, <1>2 DEF LockInv, CarryInv, Carries, ProofInv, ProofReal, Guarded
<1>12. StruckInv'
  BY <1>0, <1>1, <1>2 DEF LockInv, CarryInv, Carries, StruckInv, AttemptStart, Guarded
<1>13. PathInv'
  BY <1>0, <1>1, <1>2 DEF PathInv, TerminalStays
<1>. QED  BY <1>4, <1>5, <1>6, <1>7, <1>8, <1>9, <1>10, <1>11, <1>12, <1>13 DEF AdmissionInv

LEMMA AskHoldKeeps ==
  ASSUME AdmissionInv, AskHold
  PROVE  AdmissionInv'
<1>0. /\ Types /\ LockInv /\ HoldQuiet /\ CarryInv /\ IdInv /\ EntryInv /\ MarkInv /\ ProofInv
      /\ StruckInv /\ PathInv
  BY DEF AdmissionInv
<1>1. Later /\ UNCHANGED <<pr, ship, prLock, ctl, hold, ledger, net, proc, fix, clock, granted, struck>>
  <2>1. Later
    BY LaterSame DEF AskHold
  <2>. QED  BY <2>1 DEF AskHold, github
<1>2. op' \in {"idle", "waiting"} /\ \A e \in ledger : e.id <= used'.id
  BY <1>0, <1>1 DEF AskHold, IdInv, Types, Entries, Later
<1>3. Types'
  <2>1. clock' \in Nat
    BY <1>0, <1>1, Grows
  <2>2. /\ pr' \in Pulls'
        /\ ship' \in ShipStates' \cup {NONE}
        /\ ledger' \subseteq Entries'
        /\ net' \subseteq Requests'
        /\ fix' \in Fixes'
        /\ proc' \in [Procs -> ProcStates']
    BY <1>0, <1>1, TypesKept
  <2>. QED  BY <1>0, <1>1, <1>2, <2>1, <2>2 DEF Types, Later
<1>4. LockInv'
  BY <1>0, <1>1 DEF LockInv, Guarded, Settlers
<1>5. HoldQuiet'
  BY <1>0, <1>1 DEF HoldQuiet, LockInv, Guarded
<1>6. CarryInv'
  BY <1>0, <1>1 DEF CarryInv, Carries, LockInv, Guarded, Arm
<1>7. IdInv'
  BY <1>0, <1>1, <1>2 DEF IdInv
<1>8. EntryInv'
  BY <1>0, <1>1 DEF LockInv, IdInv, EntryInv, Entry, Guarded
<1>9. MarkInv'
  BY <1>0, <1>1 DEF LockInv, CarryInv, Carries, IdInv, EntryInv, Entry, Guarded, MarkInv, MarkerSettled, Unmarked, SameIdentity, Arm
<1>10. ProofInv'
  BY <1>0, <1>1 DEF LockInv, CarryInv, Carries, ProofInv, ProofReal, Guarded
<1>11. StruckInv'
  BY <1>0, <1>1 DEF LockInv, CarryInv, Carries, StruckInv, AttemptStart, Guarded
<1>12. PathInv'
  BY <1>0, <1>1 DEF PathInv, TerminalStays
<1>. QED  BY <1>3, <1>4, <1>5, <1>6, <1>7, <1>8, <1>9, <1>10, <1>11, <1>12 DEF AdmissionInv

LEMMA HoldKeeps ==
  ASSUME AdmissionInv, Hold
  PROVE  AdmissionInv'
<1>0. /\ Types /\ LockInv /\ HoldQuiet /\ CarryInv /\ IdInv /\ EntryInv /\ MarkInv /\ ProofInv
      /\ StruckInv /\ PathInv
  BY DEF AdmissionInv
<1>1. Later /\ UNCHANGED <<pr, ship, prLock, ctl, ledger, net, proc, fix, clock, used, granted, struck>>
  <2>1. Later
    BY LaterSame DEF Hold
  <2>. QED  BY <2>1 DEF Hold, github
<1>2. /\ op' \in {"idle", "waiting"} /\ hold' \in BOOLEAN
      /\ \A q \in Procs : proc[q].pc \notin Guarded
  BY <1>0, AdmissionAssumption DEF Hold, LockInv
<1>3. Types'
  <2>1. clock' \in Nat
    BY <1>0, <1>1, Grows
  <2>2. /\ pr' \in Pulls'
        /\ ship' \in ShipStates' \cup {NONE}
        /\ ledger' \subseteq Entries'
        /\ net' \subseteq Requests'
        /\ fix' \in Fixes'
        /\ proc' \in [Procs -> ProcStates']
    BY <1>0, <1>1, TypesKept
  <2>. QED  BY <1>0, <1>1, <1>2, <2>1, <2>2 DEF Types, Later
<1>4. LockInv'
  BY <1>0, <1>1 DEF LockInv, Guarded, Settlers
<1>5. HoldQuiet'
  BY <1>0, <1>1, <1>2 DEF HoldQuiet, LockInv, Guarded
<1>6. CarryInv'
  BY <1>0, <1>1 DEF CarryInv, Carries, LockInv, Guarded, Arm
<1>7. IdInv'
  BY <1>0, <1>1 DEF IdInv
<1>8. EntryInv'
  BY <1>0, <1>1 DEF LockInv, IdInv, EntryInv, Entry, Guarded
<1>9. MarkInv'
  BY <1>0, <1>1 DEF LockInv, CarryInv, Carries, IdInv, EntryInv, Entry, Guarded, MarkInv, MarkerSettled, Unmarked, SameIdentity, Arm
<1>10. ProofInv'
  BY <1>0, <1>1 DEF LockInv, CarryInv, Carries, ProofInv, ProofReal, Guarded
<1>11. StruckInv'
  BY <1>0, <1>1 DEF LockInv, CarryInv, Carries, StruckInv, AttemptStart, Guarded
<1>12. PathInv'
  BY <1>0, <1>1 DEF PathInv, TerminalStays
<1>. QED  BY <1>3, <1>4, <1>5, <1>6, <1>7, <1>8, <1>9, <1>10, <1>11, <1>12 DEF AdmissionInv

LEMMA ResumeKeeps ==
  ASSUME AdmissionInv, Resume
  PROVE  AdmissionInv'
<1>0. /\ Types /\ LockInv /\ HoldQuiet /\ CarryInv /\ IdInv /\ EntryInv /\ MarkInv /\ ProofInv
      /\ StruckInv /\ PathInv
  BY DEF AdmissionInv
<1>1. Later /\ UNCHANGED <<pr, ship, prLock, ctl, ledger, net, proc, fix, op, clock, used, granted, struck>>
  <2>1. Later
    BY LaterSame DEF Resume
  <2>. QED  BY <2>1 DEF Resume, github
<1>2. hold' = FALSE
  BY DEF Resume
<1>3. Types'
  <2>1. clock' \in Nat
    BY <1>0, <1>1, Grows
  <2>2. /\ pr' \in Pulls'
        /\ ship' \in ShipStates' \cup {NONE}
        /\ ledger' \subseteq Entries'
        /\ net' \subseteq Requests'
        /\ fix' \in Fixes'
        /\ proc' \in [Procs -> ProcStates']
    BY <1>0, <1>1, TypesKept
  <2>. QED  BY <1>0, <1>1, <1>2, <2>1, <2>2 DEF Types, Later
<1>4. LockInv'
  BY <1>0, <1>1 DEF LockInv, Guarded, Settlers
<1>5. HoldQuiet'
  BY <1>0, <1>1, <1>2 DEF HoldQuiet, LockInv, Guarded
<1>6. CarryInv'
  BY <1>0, <1>1 DEF CarryInv, Carries, LockInv, Guarded, Arm
<1>7. IdInv'
  BY <1>0, <1>1 DEF IdInv
<1>8. EntryInv'
  BY <1>0, <1>1 DEF LockInv, IdInv, EntryInv, Entry, Guarded
<1>9. MarkInv'
  BY <1>0, <1>1 DEF LockInv, CarryInv, Carries, IdInv, EntryInv, Entry, Guarded, MarkInv, MarkerSettled, Unmarked, SameIdentity, Arm
<1>10. ProofInv'
  BY <1>0, <1>1 DEF LockInv, CarryInv, Carries, ProofInv, ProofReal, Guarded
<1>11. StruckInv'
  BY <1>0, <1>1 DEF LockInv, CarryInv, Carries, StruckInv, AttemptStart, Guarded
<1>12. PathInv'
  BY <1>0, <1>1 DEF PathInv, TerminalStays
<1>. QED  BY <1>3, <1>4, <1>5, <1>6, <1>7, <1>8, <1>9, <1>10, <1>11, <1>12 DEF AdmissionInv

LEMMA PromoteKeeps ==
  ASSUME AdmissionInv, Promote
  PROVE  AdmissionInv'
<1>0. /\ Types /\ LockInv /\ HoldQuiet /\ CarryInv /\ IdInv /\ EntryInv /\ MarkInv /\ ProofInv
      /\ StruckInv /\ PathInv
  BY DEF AdmissionInv
<1>1. Later /\ UNCHANGED <<ship, prLock, ctl, hold, ledger, net, proc, fix, op, clock, used>>
  <2>1. Later
    BY LaterSame DEF Promote
  <2>. QED  BY <2>1 DEF Promote, shipyard
<1>2. /\ pr \in Pulls /\ pr' = [pr EXCEPT !.queued = TRUE] /\ ~pr.merged /\ struck' = FALSE
      /\ granted' = granted \cup {pr.head} /\ pr.head \in Heads
  BY <1>0 DEF Promote, Types, Pulls
<1>3. /\ pr'.head = pr.head /\ pr'.merged = pr.merged /\ pr'.removal = pr.removal /\ pr' \in Pulls'
  BY <1>0, <1>1, <1>2, Grows DEF Pulls
<1>4. Types'
  <2>1. clock' \in Nat
    BY <1>0, <1>1, Grows
  <2>2. /\ ship' \in ShipStates' \cup {NONE}
        /\ ledger' \subseteq Entries'
        /\ net' \subseteq Requests'
        /\ fix' \in Fixes'
        /\ proc' \in [Procs -> ProcStates']
    BY <1>0, <1>1, TypesKept
  <2>. QED  BY <1>0, <1>1, <1>2, <1>3, <2>1, <2>2 DEF Types, Later
<1>5. LockInv'
  BY <1>0, <1>1, <1>2, <1>3 DEF LockInv, Guarded, Settlers
<1>6. HoldQuiet'
  BY <1>0, <1>1, <1>2, <1>3 DEF HoldQuiet, LockInv, Guarded
<1>7. CarryInv'
  BY <1>0, <1>1, <1>2, <1>3 DEF CarryInv, Carries, LockInv, Guarded, Arm
<1>8. IdInv'
  BY <1>0, <1>1, <1>2, <1>3 DEF IdInv
<1>9. EntryInv'
  BY <1>0, <1>1, <1>2, <1>3 DEF LockInv, IdInv, EntryInv, Entry, Guarded
<1>10. MarkInv'
  BY <1>0, <1>1, <1>2, <1>3 DEF LockInv, CarryInv, Carries, IdInv, EntryInv, Entry, Guarded, MarkInv, MarkerSettled, Unmarked, SameIdentity, Arm
<1>11. ProofInv'
  BY <1>0, <1>1, <1>2, <1>3 DEF LockInv, CarryInv, Carries, ProofInv, ProofReal, Guarded
<1>12. StruckInv'
  BY <1>0, <1>1, <1>2, <1>3 DEF LockInv, CarryInv, Carries, StruckInv, AttemptStart, Guarded
<1>13. PathInv'
  BY <1>0, <1>1, <1>2, <1>3 DEF PathInv, TerminalStays
<1>. QED  BY <1>4, <1>5, <1>6, <1>7, <1>8, <1>9, <1>10, <1>11, <1>12, <1>13 DEF AdmissionInv

LEMMA MergeGroupKeeps ==
  ASSUME AdmissionInv, MergeGroup
  PROVE  AdmissionInv'
<1>0. /\ Types /\ LockInv /\ HoldQuiet /\ CarryInv /\ IdInv /\ EntryInv /\ MarkInv /\ ProofInv
      /\ StruckInv /\ PathInv
  BY DEF AdmissionInv
<1>1. Later /\ UNCHANGED <<ship, prLock, ctl, hold, ledger, net, proc, fix, op, clock, used, granted, struck>>
  <2>1. Later
    BY LaterSame DEF MergeGroup
  <2>. QED  BY <2>1 DEF MergeGroup, shipyard
<1>2. /\ pr \in Pulls /\ pr' = [pr EXCEPT !.merged = TRUE, !.queued = FALSE, !.armed = FALSE] /\ ~struck
  BY <1>0 DEF MergeGroup, Types, StruckInv
<1>3. /\ pr'.head = pr.head /\ pr'.merged = TRUE /\ pr'.queued = FALSE /\ pr'.armed = FALSE /\ pr' \in Pulls'
  BY <1>0, <1>1, <1>2, Grows DEF Pulls
<1>4. Types'
  <2>1. clock' \in Nat
    BY <1>0, <1>1, Grows
  <2>2. /\ ship' \in ShipStates' \cup {NONE}
        /\ ledger' \subseteq Entries'
        /\ net' \subseteq Requests'
        /\ fix' \in Fixes'
        /\ proc' \in [Procs -> ProcStates']
    BY <1>0, <1>1, TypesKept
  <2>. QED  BY <1>0, <1>1, <1>2, <1>3, <2>1, <2>2 DEF Types, Later
<1>5. LockInv'
  BY <1>0, <1>1, <1>2, <1>3 DEF LockInv, Guarded, Settlers
<1>6. HoldQuiet'
  BY <1>0, <1>1, <1>2, <1>3 DEF HoldQuiet, LockInv, Guarded
<1>7. CarryInv'
  BY <1>0, <1>1, <1>2, <1>3 DEF CarryInv, Carries, LockInv, Guarded, Arm
<1>8. IdInv'
  BY <1>0, <1>1, <1>2, <1>3 DEF IdInv
<1>9. EntryInv'
  BY <1>0, <1>1, <1>2, <1>3 DEF LockInv, IdInv, EntryInv, Entry, Guarded
<1>10. MarkInv'
  BY <1>0, <1>1, <1>2, <1>3 DEF LockInv, CarryInv, Carries, IdInv, EntryInv, Entry, Guarded, MarkInv, MarkerSettled, Unmarked, SameIdentity, Arm
<1>11. ProofInv'
  BY <1>0, <1>1, <1>2, <1>3 DEF LockInv, CarryInv, Carries, ProofInv, ProofReal, Guarded
<1>12. StruckInv'
  BY <1>0, <1>1, <1>2, <1>3 DEF LockInv, CarryInv, Carries, StruckInv, AttemptStart, Guarded
<1>13. PathInv'
  BY <1>0, <1>1, <1>2, <1>3 DEF PathInv, TerminalStays
<1>. QED  BY <1>4, <1>5, <1>6, <1>7, <1>8, <1>9, <1>10, <1>11, <1>12, <1>13 DEF AdmissionInv

LEMMA ForeignKeeps ==
  ASSUME AdmissionInv, Foreign
  PROVE  AdmissionInv'
<1>0. /\ Types /\ LockInv /\ HoldQuiet /\ CarryInv /\ IdInv /\ EntryInv /\ MarkInv /\ ProofInv
      /\ StruckInv /\ PathInv
  BY DEF AdmissionInv
<1>1. Later /\ UNCHANGED <<ship, prLock, ctl, hold, ledger, net, proc, fix, op, clock>>
  <2>1. Later
    BY LaterSame DEF Foreign
  <2>. QED  BY <2>1 DEF Foreign, shipyard
<1>2. /\ pr \in Pulls /\ pr.head \in Heads /\ ~pr.merged
      /\ \/ pr' = [pr EXCEPT !.queued = TRUE] /\ granted' = granted \cup {pr.head} /\ struck' = FALSE
         \/ pr' = [pr EXCEPT !.armed = FALSE] /\ granted' = granted /\ struck' = struck
  BY <1>0 DEF Foreign, Types, Pulls
<1>3. /\ pr'.head = pr.head /\ pr'.merged = pr.merged /\ pr'.removal = pr.removal /\ pr' \in Pulls'
      /\ granted' \subseteq Heads /\ granted \subseteq granted' /\ struck' \in {struck, FALSE} /\ ~pr'.merged
      /\ pr'.queued \/ pr'.armed => pr.head \in granted'
      /\ struck' => struck /\ ~pr'.queued /\ ~pr'.armed
  <2>1. CASE pr' = [pr EXCEPT !.queued = TRUE] /\ granted' = granted \cup {pr.head} /\ struck' = FALSE
    BY <1>0, <1>1, <1>2, <2>1, Grows DEF Pulls, Types
  <2>2. CASE pr' = [pr EXCEPT !.armed = FALSE] /\ granted' = granted /\ struck' = struck
    <3>1. /\ pr'.head = pr.head /\ pr'.merged = pr.merged /\ pr'.removal = pr.removal /\ pr' \in Pulls'
          /\ pr'.queued = pr.queued /\ pr'.armed = FALSE
      BY <1>0, <1>1, <1>2, <2>2, Grows DEF Pulls
    <3>2. granted \subseteq Heads /\ (pr.queued => pr.head \in granted) /\ (struck => ~pr.queued)
      BY <1>0 DEF Types, ProofInv, StruckInv
    <3>. QED  BY <1>2, <2>2, <3>1, <3>2
  <2>. QED  BY <1>2, <2>1, <2>2
<1>4. \A e \in ledger : e.id <= used'.id
  BY <1>0, <1>1 DEF IdInv, Types, Entries, Later
<1>5. Types'
  <2>1. clock' \in Nat
    BY <1>0, <1>1, Grows
  <2>2. /\ ship' \in ShipStates' \cup {NONE}
        /\ ledger' \subseteq Entries'
        /\ net' \subseteq Requests'
        /\ fix' \in Fixes'
        /\ proc' \in [Procs -> ProcStates']
    BY <1>0, <1>1, TypesKept
  <2>. QED  BY <1>0, <1>1, <1>3, <2>1, <2>2 DEF Types, Later
<1>6. LockInv'
  BY <1>0, <1>1, <1>3 DEF LockInv, Guarded, Settlers
<1>7. HoldQuiet'
  BY <1>0, <1>1, <1>3 DEF HoldQuiet, LockInv, Guarded
<1>8. CarryInv'
  BY <1>0, <1>1, <1>3 DEF CarryInv, Carries, LockInv, Guarded, Arm
<1>9. IdInv'
  BY <1>0, <1>1, <1>4 DEF IdInv
<1>10. EntryInv'
  BY <1>0, <1>1, <1>3 DEF LockInv, IdInv, EntryInv, Entry, Guarded
<1>11. MarkInv'
  BY <1>0, <1>1, <1>3 DEF LockInv, CarryInv, Carries, IdInv, EntryInv, Entry, Guarded, MarkInv, MarkerSettled, Unmarked, SameIdentity, Arm
<1>12. ProofInv'
  BY <1>0, <1>1, <1>3 DEF LockInv, CarryInv, Carries, ProofInv, ProofReal, Guarded
<1>13. StruckInv'
  BY <1>0, <1>1, <1>3 DEF LockInv, CarryInv, Carries, StruckInv, AttemptStart, Guarded
<1>14. PathInv'
  BY <1>0, <1>1, <1>3 DEF PathInv, TerminalStays
<1>. QED  BY <1>5, <1>6, <1>7, <1>8, <1>9, <1>10, <1>11, <1>12, <1>13, <1>14 DEF AdmissionInv

LEMMA EvictKeeps ==
  ASSUME AdmissionInv, NEW reason \in Terminal \cup {"invalid"}, Evict(reason)
  PROVE  AdmissionInv'
<1>0. /\ Types /\ LockInv /\ HoldQuiet /\ CarryInv /\ IdInv /\ EntryInv /\ MarkInv /\ ProofInv
      /\ StruckInv /\ PathInv
  BY DEF AdmissionInv
<1>1. Later /\ UNCHANGED <<ship, prLock, ctl, hold, ledger, net, proc, fix, op, granted>>
  <2>1. Later
    BY LaterSame DEF Evict
  <2>. QED  BY <2>1 DEF Evict, shipyard
<1>2. /\ pr \in Pulls /\ pr.queued /\ clock' = Now /\ struck' \in BOOLEAN
      /\ pr' = [pr EXCEPT !.queued = FALSE, !.armed = FALSE,
                  !.removal = [reason |-> reason, at |-> Now, pushed |-> FALSE]]
      /\ struck' => /\ reason \in Terminal
                    /\ \A q \in Procs : ~(proc[q].sup /\ proc[q].pc \in {"wait", "won"})
  BY <1>0 DEF Evict, Types
<1>3. /\ pr'.head = pr.head /\ pr'.merged = pr.merged /\ ~pr'.queued /\ ~pr'.armed /\ pr' \in Pulls' /\ ~pr'.merged
      /\ pr'.removal = [reason |-> reason, at |-> Now, pushed |-> FALSE]
  <2>1. Now \in Times' /\ Pulls \subseteq Pulls' /\ ~pr.merged
    BY <1>0, <1>1, <1>2, Grows DEF StruckInv
  <2>. QED  BY <1>2, <2>1 DEF Pulls
<1>4. /\ \A e \in ledger : e.id <= used'.id /\ e.at <= Now
      /\ \A q \in Procs : proc[q].stamp <= Now
      /\ ship # NONE => AttemptStart(ship) <= Now
  <2>1. Now \in Nat /\ clock \in Nat /\ clock <= Now
    BY <1>0 DEF Types, Now
  <2>2. \A e \in ledger : e.id <= used'.id /\ e.at <= Now
    BY <1>0, <1>1, <2>1 DEF IdInv, Types, Entries, Later, Times
  <2>3. \A q \in Procs : proc[q].stamp <= Now
    BY <1>0, <2>1 DEF Types, ProcStates, Times
  <2>4. ship # NONE => AttemptStart(ship) <= Now
    BY <1>0, <2>1 DEF Types, ShipStates, Times, AttemptStart
  <2>. QED  BY <2>2, <2>3, <2>4
<1>5. pr'.removal # NONE /\ pr'.removal.at = Now /\ pr'.removal.reason = reason
  <2>1. [reason |-> reason, at |-> Now, pushed |-> FALSE]
           \in [reason : {"failed", "manual", "invalid"}, at : Nat, pushed : BOOLEAN]
    BY <1>0 DEF Types, Now, Terminal
  <2>2. NONE # [reason |-> reason, at |-> Now, pushed |-> FALSE]
    BY <2>1, AdmissionAssumption, Zenon
  <2>. QED  BY <1>3, <2>2
<1>6. fix.pc # "idle" => fix.entry \in ledger
  BY <1>0 DEF LockInv
<1>7. Types'
  <2>1. clock' \in Nat
    BY <1>0, <1>1, Grows
  <2>2. /\ ship' \in ShipStates' \cup {NONE}
        /\ ledger' \subseteq Entries'
        /\ net' \subseteq Requests'
        /\ fix' \in Fixes'
        /\ proc' \in [Procs -> ProcStates']
    BY <1>0, <1>1, TypesKept
  <2>. QED  BY <1>0, <1>1, <1>2, <1>3, <2>1, <2>2 DEF Types, Later
<1>8. LockInv'
  BY <1>0, <1>1, <1>3 DEF LockInv, Guarded, Settlers
<1>9. HoldQuiet'
  BY <1>0, <1>1, <1>3 DEF HoldQuiet, LockInv, Guarded
<1>10. CarryInv'
  BY <1>0, <1>1, <1>3 DEF CarryInv, Carries, LockInv, Guarded, Arm
<1>11. IdInv'
  BY <1>0, <1>1, <1>4 DEF IdInv
<1>12. EntryInv'
  BY <1>0, <1>1, <1>3 DEF LockInv, IdInv, EntryInv, Entry, Guarded
<1>13. MarkInv'
  BY <1>0, <1>1, <1>3 DEF LockInv, CarryInv, Carries, IdInv, EntryInv, Entry, Guarded, MarkInv, MarkerSettled, Unmarked, SameIdentity, Arm
<1>14. ProofInv'
  BY <1>0, <1>1, <1>3 DEF LockInv, CarryInv, Carries, ProofInv, ProofReal, Guarded
<1>15. StruckInv'
  BY <1>0, <1>1, <1>2, <1>3, <1>4, <1>5, <1>6 DEF LockInv, CarryInv, Carries, StruckInv, AttemptStart, Guarded
<1>16. PathInv'
  BY <1>0, <1>1, <1>3 DEF PathInv, TerminalStays
<1>. QED  BY <1>7, <1>8, <1>9, <1>10, <1>11, <1>12, <1>13, <1>14, <1>15, <1>16 DEF AdmissionInv

LEMMA PushKeeps ==
  ASSUME AdmissionInv, NEW h \in Heads, Push(h)
  PROVE  AdmissionInv'
<1>0. /\ Types /\ LockInv /\ HoldQuiet /\ CarryInv /\ IdInv /\ EntryInv /\ MarkInv /\ ProofInv
      /\ StruckInv /\ PathInv
  BY DEF AdmissionInv
<1>1. Later /\ UNCHANGED <<ship, prLock, ctl, hold, ledger, net, proc, fix, op, clock>>
  <2>1. Later
    BY LaterSame DEF Push
  <2>. QED  BY <2>1 DEF Push, shipyard
<1>2. PICK armed \in {FALSE, pr.armed} :
        /\ pr' = [pr EXCEPT !.head = h, !.queued = FALSE, !.armed = armed,
                     !.removal = IF @ = NONE THEN @ ELSE [@ EXCEPT !.pushed = TRUE]]
        /\ granted' = IF armed THEN granted \cup {h} ELSE granted
  BY DEF Push
<1>3. /\ pr \in Pulls /\ ~pr.merged /\ armed \in BOOLEAN /\ struck' = FALSE
      /\ pr.removal # NONE => [pr.removal EXCEPT !.pushed = TRUE] \in
            [reason : Terminal \cup {"invalid"}, at : Times, pushed : BOOLEAN]
  BY <1>0 DEF Types, Push, Pulls
<1>4. /\ pr' \in Pulls' /\ ~pr'.merged /\ ~pr'.queued /\ pr'.head = h /\ pr'.armed = armed
  BY <1>0, <1>1, <1>2, <1>3, Grows DEF Pulls
<1>5. /\ granted' \subseteq Heads /\ granted \subseteq granted'
      /\ pr'.armed => pr'.head \in granted' /\ ~pr'.queued
      /\ \A e \in ledger : e.id <= used'.id
  BY <1>0, <1>1, <1>2, <1>4 DEF IdInv, Types, Entries, Later
<1>6. pr.merged = pr'.merged
  BY <1>2, <1>3 DEF Pulls
<1>7. Types'
  <2>1. clock' \in Nat
    BY <1>0, <1>1, Grows
  <2>2. /\ ship' \in ShipStates' \cup {NONE}
        /\ ledger' \subseteq Entries'
        /\ net' \subseteq Requests'
        /\ fix' \in Fixes'
        /\ proc' \in [Procs -> ProcStates']
    BY <1>0, <1>1, TypesKept
  <2>. QED  BY <1>0, <1>1, <1>3, <1>4, <1>5, <2>1, <2>2 DEF Types, Later
<1>8. LockInv'
  BY <1>0, <1>1, <1>3, <1>4, <1>5, <1>6 DEF LockInv, Guarded, Settlers
<1>9. HoldQuiet'
  BY <1>0, <1>1, <1>3, <1>4, <1>5, <1>6 DEF HoldQuiet, LockInv, Guarded
<1>10. CarryInv'
  BY <1>0, <1>1, <1>3, <1>4, <1>5, <1>6 DEF CarryInv, Carries, LockInv, Guarded, Arm
<1>11. IdInv'
  BY <1>0, <1>1, <1>3, <1>4, <1>5, <1>6 DEF IdInv
<1>12. EntryInv'
  BY <1>0, <1>1, <1>3, <1>4, <1>5, <1>6 DEF LockInv, IdInv, EntryInv, Entry, Guarded
<1>13. MarkInv'
  BY <1>0, <1>1, <1>3, <1>4, <1>5, <1>6 DEF LockInv, CarryInv, Carries, IdInv, EntryInv, Entry, Guarded, MarkInv, MarkerSettled, Unmarked, SameIdentity, Arm
<1>14. ProofInv'
  BY <1>0, <1>1, <1>3, <1>4, <1>5, <1>6 DEF LockInv, CarryInv, Carries, ProofInv, ProofReal, Guarded
<1>15. StruckInv'
  BY <1>0, <1>1, <1>3, <1>4, <1>5, <1>6 DEF LockInv, CarryInv, Carries, StruckInv, AttemptStart, Guarded
<1>16. PathInv'
  BY <1>0, <1>1, <1>3, <1>4, <1>5, <1>6 DEF PathInv, TerminalStays
<1>. QED  BY <1>7, <1>8, <1>9, <1>10, <1>11, <1>12, <1>13, <1>14, <1>15, <1>16 DEF AdmissionInv

LEMMA RetargetKeeps ==
  ASSUME AdmissionInv, NEW b \in Bases, Retarget(b)
  PROVE  AdmissionInv'
<1>0. /\ Types /\ LockInv /\ HoldQuiet /\ CarryInv /\ IdInv /\ EntryInv /\ MarkInv /\ ProofInv
      /\ StruckInv /\ PathInv
  BY DEF AdmissionInv
<1>1. Later /\ UNCHANGED <<ship, prLock, ctl, hold, ledger, net, proc, fix, op, clock, granted, struck>>
  <2>1. Later
    BY LaterSame DEF Retarget
  <2>. QED  BY <2>1 DEF Retarget, shipyard
<1>2. PICK queued \in {FALSE, pr.queued} : pr' = [pr EXCEPT !.base = b, !.queued = queued]
  BY DEF Retarget
<1>3. pr \in Pulls /\ queued \in BOOLEAN /\ ~pr.merged
  BY <1>0, <1>2 DEF Types, Pulls, Retarget
<1>4. /\ pr' \in Pulls' /\ pr'.merged = pr.merged /\ pr'.head = pr.head /\ pr'.armed = pr.armed
      /\ pr'.removal = pr.removal /\ pr'.queued = queued
  BY <1>0, <1>1, <1>2, <1>3, Grows DEF Pulls
<1>5. (pr'.queued => pr.queued) /\ \A e \in ledger : e.id <= used'.id
  <2>1. \A e \in ledger : e.id <= used'.id
    BY <1>0, <1>1 DEF IdInv, Types, Entries, Later
  <2>2. pr'.queued => pr.queued
    BY <1>3, <1>4
  <2>. QED  BY <2>1, <2>2
<1>6. Types'
  <2>1. clock' \in Nat
    BY <1>0, <1>1, Grows
  <2>2. /\ ship' \in ShipStates' \cup {NONE}
        /\ ledger' \subseteq Entries'
        /\ net' \subseteq Requests'
        /\ fix' \in Fixes'
        /\ proc' \in [Procs -> ProcStates']
    BY <1>0, <1>1, TypesKept
  <2>. QED  BY <1>0, <1>1, <1>3, <1>4, <1>5, <2>1, <2>2 DEF Types, Later
<1>7. LockInv'
  BY <1>0, <1>1, <1>3, <1>4, <1>5 DEF LockInv, Guarded, Settlers
<1>8. HoldQuiet'
  BY <1>0, <1>1, <1>3, <1>4, <1>5 DEF HoldQuiet, LockInv, Guarded
<1>9. CarryInv'
  BY <1>0, <1>1, <1>3, <1>4, <1>5 DEF CarryInv, Carries, LockInv, Guarded, Arm
<1>10. IdInv'
  BY <1>0, <1>1, <1>3, <1>4, <1>5 DEF IdInv
<1>11. EntryInv'
  BY <1>0, <1>1, <1>3, <1>4, <1>5 DEF LockInv, IdInv, EntryInv, Entry, Guarded
<1>12. MarkInv'
  BY <1>0, <1>1, <1>3, <1>4, <1>5 DEF LockInv, CarryInv, Carries, IdInv, EntryInv, Entry, Guarded, MarkInv, MarkerSettled, Unmarked, SameIdentity, Arm
<1>13. ProofInv'
  BY <1>0, <1>1, <1>3, <1>4, <1>5 DEF LockInv, CarryInv, Carries, ProofInv, ProofReal, Guarded
<1>14. StruckInv'
  BY <1>0, <1>1, <1>3, <1>4, <1>5 DEF LockInv, CarryInv, Carries, StruckInv, AttemptStart, Guarded
<1>15. PathInv'
  BY <1>0, <1>1, <1>3, <1>4, <1>5 DEF PathInv, TerminalStays
<1>. QED  BY <1>6, <1>7, <1>8, <1>9, <1>10, <1>11, <1>12, <1>13, <1>14, <1>15 DEF AdmissionInv

LEMMA ShipKeeps ==
  ASSUME AdmissionInv, Ship
  PROVE  AdmissionInv'
<1>0. /\ Types /\ LockInv /\ HoldQuiet /\ CarryInv /\ IdInv /\ EntryInv /\ MarkInv /\ ProofInv
      /\ StruckInv /\ PathInv
  BY DEF AdmissionInv
<1>1. Later /\ UNCHANGED <<pr, prLock, ctl, hold, ledger, net, proc, fix, op, used, granted>>
  <2>1. Later
    BY LaterSame DEF Ship
  <2>. QED  BY <2>1 DEF Ship
<1>2. /\ clock' = Now /\ struck' = FALSE
      /\ \A q \in Procs : ~proc[q].sup => proc[q].pc \in {"idle", "enqueued"}
  BY <1>0, AdmissionAssumption DEF Ship, LockInv
<1>3. ship' \in ShipStates' /\ ship' # NONE /\ ship'.started = 0 /\ ship'.succeeded = 0
  <2>1. Now \in Times' /\ 0 \in Times' /\ NONE \notin ShipStates' /\ pr.head \in Heads /\ pr.base \in Bases
    BY <1>0, <1>1, <1>2, Grows, NoneApart DEF Types, Times, Pulls
  <2>2. CASE ship = NONE
    BY <2>1, <2>2 DEF Ship, Fresh, ShipStates
  <2>3. CASE ship # NONE
    <3>1. ship.created \in Times'
      BY <1>0, <1>1, <2>3, Grows DEF Types, ShipStates
    <3>. QED  BY <2>1, <2>3, <3>1 DEF Ship, Fresh, ShipStates
  <2>. QED  BY <2>2, <2>3
<1>4. Types'
  <2>1. clock' \in Nat
    BY <1>0, <1>1, Grows
  <2>2. /\ pr' \in Pulls'
        /\ ledger' \subseteq Entries'
        /\ net' \subseteq Requests'
        /\ fix' \in Fixes'
        /\ proc' \in [Procs -> ProcStates']
    BY <1>0, <1>1, TypesKept
  <2>. QED  BY <1>0, <1>1, <1>2, <1>3, <2>1, <2>2 DEF Types, Later
<1>5. LockInv'
  BY <1>0, <1>1, <1>2, <1>3 DEF LockInv, Guarded, Settlers
<1>6. HoldQuiet'
  BY <1>0, <1>1, <1>2, <1>3 DEF HoldQuiet, LockInv, Guarded
<1>7. CarryInv'
  BY <1>0, <1>1, <1>2, <1>3 DEF CarryInv, Carries, LockInv, Guarded, Arm
<1>8. IdInv'
  BY <1>0, <1>1, <1>2, <1>3 DEF IdInv
<1>9. EntryInv'
  BY <1>0, <1>1, <1>2, <1>3 DEF LockInv, IdInv, EntryInv, Entry, Guarded
<1>10. MarkInv'
  BY <1>0, <1>1, <1>2, <1>3 DEF LockInv, CarryInv, Carries, IdInv, EntryInv, Entry, Guarded, MarkInv, MarkerSettled, Unmarked, SameIdentity, Arm
<1>11. ProofInv'
  BY <1>0, <1>1, <1>2, <1>3 DEF LockInv, CarryInv, Carries, ProofInv, ProofReal, Guarded
<1>12. StruckInv'
  BY <1>0, <1>1, <1>2, <1>3 DEF LockInv, CarryInv, Carries, StruckInv, AttemptStart, Guarded
<1>13. PathInv'
  BY <1>0, <1>1, <1>2, <1>3 DEF PathInv, TerminalStays
<1>. QED  BY <1>4, <1>5, <1>6, <1>7, <1>8, <1>9, <1>10, <1>11, <1>12, <1>13 DEF AdmissionInv

LEMMA LandKeeps ==
  ASSUME AdmissionInv, NEW r \in net, Land(r)
  PROVE  AdmissionInv'
<1>0. /\ Types /\ LockInv /\ HoldQuiet /\ CarryInv /\ IdInv /\ EntryInv /\ MarkInv /\ ProofInv
      /\ StruckInv /\ PathInv
  BY DEF AdmissionInv
<1>1. Later /\ UNCHANGED <<ship, prLock, ctl, hold, ledger, proc, fix, op, used>>
  <2>1. Later
    BY LaterSame DEF Land
  <2>. QED  BY <2>1 DEF Land, shipyard
<1>2. PICK answer \in {"accepted", "rejected"} :
        /\ net' = (net \ {r}) \cup {x \in {[r EXCEPT !.reply = answer]} : Expects(r)}
        /\ \/ /\ r.act = Arm /\ pr.head = r.head /\ ~pr.merged /\ pr' = [pr EXCEPT !.armed = TRUE]
              /\ granted' = granted \cup {pr.head} /\ struck' = FALSE /\ UNCHANGED clock
           \/ /\ r.act = "disable" /\ pr' = [pr EXCEPT !.armed = FALSE] /\ UNCHANGED <<granted, struck, clock>>
           \/ /\ r.act = "dequeue" /\ pr.queued /\ clock' = Now /\ UNCHANGED <<granted, struck>>
              /\ pr' = [pr EXCEPT !.queued = FALSE,
                          !.removal = [reason |-> "manual", at |-> Now, pushed |-> FALSE]]
           \/ answer = "rejected" /\ UNCHANGED <<pr, granted, struck, clock>>
  BY DEF Land, github
<1>. DEFINE a == [r EXCEPT !.reply = answer]
<1>3. /\ r \in Requests /\ a \in Requests' /\ a.id = r.id /\ a.act = r.act /\ a.head = r.head /\ a.base = r.base
      /\ a.path = r.path /\ a.dead = r.dead /\ a.reply = answer
  <2>1. r \in Requests /\ r \in Requests'
    BY <1>0, <1>1, Grows DEF Types
  <2>. QED  BY <2>1 DEF Requests
<1>4. /\ net' \subseteq (net \ {r}) \cup {a} /\ net \ {r} \subseteq net'
      /\ \A q \in Procs : proc[q].id = r.id => a \in net'
  BY <1>2 DEF Expects
<1>. HIDE DEF a
<1>5. net' \subseteq Requests'
  BY <1>0, <1>1, <1>3, <1>4, Grows DEF Types
<1>6. /\ pr' \in Pulls' /\ granted' \subseteq Heads /\ granted \subseteq granted' /\ struck' \in BOOLEAN
      /\ pr'.head = pr.head /\ pr'.merged = pr.merged
      /\ struck' => struck /\ pr'.removal = pr.removal
      /\ struck' \/ pr'.merged => (pr'.queued => pr.queued) /\ (pr'.armed => pr.armed)
      /\ pr'.queued \/ pr'.armed => pr.queued \/ pr.armed \/ pr.head \in granted'
      /\ r.act = Arm /\ answer = "accepted" => r.head \in granted' /\ ~struck'
  <2>0. pr \in Pulls /\ granted \subseteq Heads /\ struck \in BOOLEAN /\ pr.head \in Heads
    BY <1>0 DEF Types, Pulls
  <2>1. CASE /\ r.act = Arm /\ pr.head = r.head /\ ~pr.merged /\ pr' = [pr EXCEPT !.armed = TRUE]
             /\ granted' = granted \cup {pr.head} /\ struck' = FALSE /\ UNCHANGED clock
    <3>1. pr' \in Pulls' /\ pr'.head = pr.head /\ pr'.merged = pr.merged
      BY <1>0, <1>1, <2>0, <2>1, Grows DEF Pulls
    <3>. QED  BY <2>0, <2>1, <3>1
  <2>2. CASE r.act = "disable" /\ pr' = [pr EXCEPT !.armed = FALSE] /\ UNCHANGED <<granted, struck, clock>>
    <3>1. /\ pr' \in Pulls' /\ pr'.head = pr.head /\ pr'.merged = pr.merged /\ pr'.armed = FALSE
          /\ pr'.queued = pr.queued /\ pr'.removal = pr.removal
      BY <1>0, <1>1, <2>0, <2>2, Grows DEF Pulls
    <3>. QED  BY <2>0, <2>2, <3>1 DEF Arm
  <2>3. CASE /\ r.act = "dequeue" /\ pr.queued /\ clock' = Now /\ UNCHANGED <<granted, struck>>
             /\ pr' = [pr EXCEPT !.queued = FALSE,
                         !.removal = [reason |-> "manual", at |-> Now, pushed |-> FALSE]]
    <3>1. /\ pr' \in Pulls' /\ pr'.head = pr.head /\ pr'.merged = pr.merged /\ pr'.armed = pr.armed
          /\ pr'.queued = FALSE
      <4>1. Now \in Times' /\ Pulls \subseteq Pulls'
        BY <1>0, <1>1, <2>3, Grows
      <4>. QED  BY <2>0, <2>3, <4>1 DEF Pulls, Terminal
    <3>2. ~struck
      BY <1>0, <2>3 DEF StruckInv
    <3>. QED  BY <2>0, <2>3, <3>1, <3>2 DEF Arm
  <2>4. CASE answer = "rejected" /\ UNCHANGED <<pr, granted, struck, clock>>
    <3>1. pr' \in Pulls'
      BY <1>0, <1>1, <2>4, TypesKept
    <3>. QED  BY <2>0, <2>4, <3>1
  <2>. QED  BY <1>2, <2>1, <2>2, <2>3, <2>4
<1>7. \A x \in net : x.id = r.id => x = r
  BY <1>0 DEF IdInv
<1>8. \A q \in Procs : proc[q].pc = "wait" /\ proc[q].id = r.id => proc[q].act = r.act
  BY <1>0, <1>7 DEF EntryInv
<1>9. Types'
  <2>1. clock' \in Nat
    BY <1>0, <1>1, Grows
  <2>2. /\ ship' \in ShipStates' \cup {NONE}
        /\ ledger' \subseteq Entries'
        /\ fix' \in Fixes'
        /\ proc' \in [Procs -> ProcStates']
    BY <1>0, <1>1, TypesKept
  <2>. QED  BY <1>0, <1>1, <1>5, <1>6, <2>1, <2>2 DEF Types, Later
<1>10. LockInv'
  BY <1>0, <1>1, <1>3, <1>4, <1>6, <1>7, <1>8 DEF LockInv, Guarded, Settlers
<1>11. HoldQuiet'
  BY <1>0, <1>1, <1>3, <1>4, <1>6, <1>7, <1>8 DEF HoldQuiet, LockInv, Guarded
<1>12. CarryInv'
  BY <1>0, <1>1, <1>3, <1>4, <1>6, <1>7, <1>8 DEF CarryInv, Carries, LockInv, Guarded, Arm
<1>13. IdInv'
  BY <1>0, <1>1, <1>3, <1>4, <1>6, <1>7, <1>8 DEF IdInv
<1>14. EntryInv'
  BY <1>0, <1>1, <1>3, <1>4, <1>6, <1>7, <1>8 DEF LockInv, IdInv, EntryInv, Entry, Guarded
<1>15. MarkInv'
  BY <1>0, <1>1, <1>3, <1>4, <1>6, <1>7, <1>8 DEF LockInv, CarryInv, Carries, IdInv, EntryInv, Entry, Guarded, MarkInv, MarkerSettled, Unmarked, SameIdentity, Arm
<1>16. ProofInv'
  BY <1>0, <1>1, <1>3, <1>4, <1>6, <1>7, <1>8 DEF LockInv, CarryInv, Carries, ProofInv, ProofReal, Guarded
<1>17. StruckInv'
  BY <1>0, <1>1, <1>3, <1>4, <1>6, <1>7, <1>8 DEF LockInv, CarryInv, Carries, StruckInv, AttemptStart, Guarded
<1>18. PathInv'
  BY <1>0, <1>1, <1>3, <1>4, <1>6, <1>7, <1>8 DEF PathInv, TerminalStays
<1>. QED  BY <1>9, <1>10, <1>11, <1>12, <1>13, <1>14, <1>15, <1>16, <1>17, <1>18 DEF AdmissionInv

-----------------------------------------------------------------------------
(* The theorems. *)

LEMMA AdmissionInit ==
  Init => AdmissionInv
<1>1. SUFFICES ASSUME Init PROVE AdmissionInv
  OBVIOUS
<1>2. AnyOf(Heads) \in Heads /\ AnyOf(Bases) \in Bases
  BY AdmissionAssumption DEF AnyOf
<1>3. /\ pr \in Pulls /\ ~pr.merged /\ ~pr.armed /\ pr.removal = NONE
      /\ clock \in Nat /\ 0 \in Times /\ 1 \in Times
  <2>1. clock = 1
    BY <1>1 DEF Init
  <2>2. pr \in Pulls /\ ~pr.merged /\ ~pr.armed /\ pr.removal = NONE
    <3>1. pr \in [head : {AnyOf(Heads)}, base : {AnyOf(Bases)}, merged : {FALSE},
                  queued : BOOLEAN, armed : {FALSE}, removal : {NONE}]
      BY <1>1 DEF Init
    <3>. QED  BY <1>2, <3>1 DEF Pulls
  <2>. QED  BY <2>1, <2>2 DEF Times
<1>4. /\ ship \in ShipStates /\ ship.started = 0 /\ ship.succeeded = 0 /\ ship # NONE
  <2>1. ship \in ShipStates /\ ship.started = 0 /\ ship.succeeded = 0
    BY <1>1, <1>3 DEF Init, Fresh, ShipStates, Pulls
  <2>. QED  BY <1>3, <2>1, NoneApart
<1>5. /\ \A p \in Procs : proc[p] = Idle
      /\ Idle.pc = "idle" /\ Idle.id = 0 /\ Idle.act = Arm /\ Idle.path = "none" /\ Idle.sup = FALSE
      /\ proc \in [Procs -> ProcStates]
  <2>1. used = [run |-> 0, id |-> 0, event |-> 0]
    BY <1>1 DEF Init
  <2>2. Idle \in ProcStates
    BY <1>3, <2>1 DEF Idle, ProcStates, States, Actions, Paths, Arm
  <2>. QED  BY <1>1, <2>2 DEF Init, Idle
<1>6. Types
  <2>1. used \in [run : Nat, id : 0 .. MaxId, event : Nat]
    BY <1>1, AdmissionAssumption DEF Init
  <2>2. granted \subseteq Heads
    BY <1>1, <1>3 DEF Init, Pulls
  <2>3. fix \in Fixes
    BY <1>1 DEF Init, NoFix, Fixes
  <2>. QED  BY <1>1, <1>3, <1>4, <1>5, <2>1, <2>2, <2>3 DEF Init, Types
<1>7. LockInv /\ HoldQuiet /\ CarryInv /\ IdInv
  BY <1>1, <1>5 DEF Init, NoFix, LockInv, HoldQuiet, Guarded, CarryInv, Carries, IdInv
<1>8. EntryInv /\ MarkInv /\ ProofInv
  BY <1>1, <1>3, <1>4, <1>5 DEF Init, NoFix, EntryInv, Guarded, MarkInv, MarkerSettled, ProofInv, ProofReal
<1>9. StruckInv /\ PathInv
  BY <1>1, <1>3, <1>5 DEF Init, NoFix, StruckInv, PathInv, TerminalStays
<1>. QED  BY <1>6, <1>7, <1>8, <1>9 DEF AdmissionInv

LEMMA AdmissionStep ==
  AdmissionInv /\ [Next]_vars => AdmissionInv'
<1>1. SUFFICES ASSUME AdmissionInv, [Next]_vars PROVE AdmissionInv'
  OBVIOUS
<1>2. ASSUME NEW p \in Procs, AutoMerge(p) \/ Crash(p)
      PROVE  AdmissionInv'
  BY <1>1, <1>2, BeginKeeps, ValidateKeeps, AdmitKeeps, UnapprovedKeeps, AcquireKeeps, RefuseKeeps, MarkKeeps,
     SendKeeps, GateRefusesKeeps, AnsweredKeeps, UncertainKeeps, SaveKeeps, CloseKeeps, RevokeKeeps,
     CloseRevocationKeeps, SuperviseKeeps, PollStopsKeeps, PollRetargetedKeeps, PollMergedKeeps,
     PollQueuedKeeps, PollEvictedKeeps, CrashKeeps DEF AutoMerge
<1>3. CASE Settle \/ FixAbandon \/ AskHold \/ Hold \/ Resume
  BY <1>1, <1>3, FixAcquireKeeps, FixJudgeKeeps, FixApplyKeeps, FixAppendKeeps, FixAbandonKeeps, AskHoldKeeps,
     HoldKeeps, ResumeKeeps DEF Settle
<1>4. CASE GitHub \/ Ship
  BY <1>1, <1>4, LandKeeps, PromoteKeeps, MergeGroupKeeps, ForeignKeeps, EvictKeeps, PushKeeps, RetargetKeeps,
     ShipKeeps DEF GitHub
<1>5. CASE UNCHANGED vars
  <2>1. Later /\ Types
    BY <1>1, <1>5, LaterSame DEF vars, AdmissionInv
  <2>2. /\ Times' = Times /\ ShipStates' = ShipStates /\ Entries' = Entries /\ Pulls' = Pulls /\ Fixes' = Fixes
        /\ ProcStates' = ProcStates /\ Requests' = Requests
    BY <1>5 DEF vars, Times, ShipStates, Entries, Pulls, Fixes, ProcStates, Requests
  <2>3. Types' /\ LockInv' /\ HoldQuiet' /\ CarryInv' /\ IdInv'
    BY <1>1, <1>5, <2>2 DEF vars, AdmissionInv, Types, LockInv, HoldQuiet, CarryInv, IdInv
  <2>4. EntryInv' /\ MarkInv' /\ ProofInv' /\ StruckInv' /\ PathInv'
    BY <1>1, <1>5 DEF vars, AdmissionInv, EntryInv, Entry, MarkInv, MarkerSettled, Unmarked, SameIdentity,
       ProofInv, ProofReal, StruckInv, AttemptStart, PathInv, TerminalStays
  <2>. QED  BY <2>3, <2>4 DEF AdmissionInv
<1>. QED  BY <1>1, <1>2, <1>3, <1>4, <1>5 DEF Next

LEMMA AdmissionAlways ==
  Spec => []AdmissionInv
  BY AdmissionInit, AdmissionStep, PTL DEF Spec

\* Ledger, ship state, HOLD and the queue agree whatever was lost or terminated:
\* a marker has the entry that settles it, a claimed enqueue happened, no writer
\* runs under HOLD, and a terminal removal is not armed over
\* (merge_queue_control.rs, mutation_outcome.rs, app/auto_merge_cmd.rs).
THEOREM LedgerIsTrue ==
  Spec => []LedgerTrue
<1>1. ASSUME AdmissionInv PROVE TypeOK
  <2>1. Types
    BY <1>1 DEF AdmissionInv
  <2>2. \A r \in net : /\ r.id \in 1 .. MaxId /\ r.act \in Revocations \cup {Arm}
                       /\ r.head \in Heads /\ r.base \in Bases /\ r.path \in Paths
                       /\ r.reply \in {"none", "accepted", "rejected"}
                       /\ r.dead \in BOOLEAN
    BY <2>1, AdmissionAssumption DEF Types, Requests, Actions
  <2>3. \A p \in Procs : /\ proc[p].st \in ShipStates \cup {NONE}
                         /\ proc[p].id \in 0 .. MaxId
                         /\ proc[p].todo \subseteq Revocations
    BY <2>1, AdmissionAssumption DEF Types, ProcStates
  <2>. QED  BY <2>1, <2>2, <2>3 DEF Types, TypeOK, Pulls, Fixes
<1>2. AdmissionInv => LedgerTrue
  BY <1>1 DEF AdmissionInv, LedgerTrue, MarkInv, ProofInv, PathInv
<1>. QED  BY <1>2, AdmissionAlways, PTL

\* Two unsettled requests for one base are never on their way to GitHub: the
\* write-ahead entry refuses the retry (acquire_with_control_lock).
THEOREM RetriesAreFenced ==
  Spec => []RetryFenced
<1>1. ASSUME AdmissionInv PROVE RetryFenced
  <2>1. SUFFICES ASSUME NEW r1 \in net, NEW r2 \in net, NEW e1 \in ledger, NEW e2 \in ledger,
                        e1.id = r1.id, e2.id = r2.id, r1.base = r2.base
                 PROVE  r1 = r2
    BY DEF RetryFenced
  <2>2. e1.base = e2.base
    BY <1>1, <2>1 DEF AdmissionInv, EntryInv
  <2>3. e1 = e2
    BY <1>1, <2>2 DEF AdmissionInv, IdInv
  <2>. QED  BY <1>1, <2>1, <2>3 DEF AdmissionInv, IdInv
<1>. QED  BY <1>1, AdmissionAlways, PTL
=============================================================================
