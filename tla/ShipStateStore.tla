--------------------------- MODULE ShipStateStore ---------------------------
(***************************************************************************)
(* The ship-state files of one pull request number (ship_state.rs): one    *)
(* file per repository, a mirror <pr>.json that older binaries read and    *)
(* write, and a marker that fences the mirror while two repositories have  *)
(* the number.  New binaries share the legacy fence and hold the lock of   *)
(* their repository; older ones take the fence exclusively.                *)
(*                                                                         *)
(* A state is the set of the updates made to it, {} is no file, and its    *)
(* updated_at is its latest update.                                        *)
(***************************************************************************)
EXTENDS Naturals, FiniteSets, FiniteSetsExt

CONSTANTS Repo, Proc,
          MaxUpdates,   \* bound: updates ever made
          MaxCrashes,   \* bound: new binaries killed in the middle of an operation
          OldBinaries,  \* do older binaries run on this host?
          NoProc, NoRepo

ShipStateAssumption ==
  /\ MaxUpdates \in Nat /\ MaxCrashes \in Nat /\ OldBinaries \in BOOLEAN
  /\ NoProc \notin Proc /\ NoRepo \notin Repo

Update == 1 .. MaxUpdates
Op == {"update", "archive", "cleanup"}

VARIABLES
  scoped,   \* scoped/<repository>/<pr>.json
  legacy,   \* <pr>.json
  marker,   \* <pr>.scoped-collision
  sharers,  \* the holders of the legacy fence
  owner,    \* holder of each repository's lock
  compat,   \* holder of the mirror's lock
  proc,     \* each new binary's operation
  next,     \* the next update
  saved,    \* history: updates of each repository since it was last removed
  removed,  \* history: updates that were archived or deleted
  used,     \* history: the repositories that ever used the number
  older,    \* history: has an older binary written?
  crashes

vars == <<scoped, legacy, marker, sharers, owner, compat, proc, next, saved, removed, used, older, crashes>>
files == <<scoped, legacy, marker>>
history == <<next, saved, removed, used, older, crashes>>

NoFile == [repo |-> NoRepo, state |-> {}]
Idle == [pc |-> "idle", op |-> "update", repo |-> NoRepo, state |-> {}, list |-> {}, then |-> "idle"]

Newer(s, t) == s # {} /\ (t = {} \/ Max(s) > Max(t))

\* legacy_is_preserved
Preserved == marker \/ legacy.state = {} \/ ~Newer(legacy.state, scoped[legacy.repo])

\* get_locked_scoped
Current(r) ==
  IF scoped[r] # {} THEN scoped[r]
  ELSE IF ~marker /\ legacy.repo = r THEN legacy.state ELSE {}

\* list_active, which takes no lock: the newer of both files.
Listed(r) ==
  IF ~marker /\ legacy.repo = r /\ ~Newer(scoped[r], legacy.state) THEN legacy.state ELSE scoped[r]

Goes(p, pc) == proc' = [proc EXCEPT ![p].pc = pc]

-----------------------------------------------------------------------------
(* lock_pr_scoped *)

\* cleanup lists before it locks and compares.
Begin(p, op, r) ==
  /\ proc[p].pc = "idle"
  /\ proc' = [proc EXCEPT ![p] = [Idle EXCEPT !.pc = "check", !.op = op, !.repo = r,
                                              !.state = IF op = "cleanup" THEN Listed(r) ELSE {}]]
  /\ UNCHANGED <<files, sharers, owner, compat, history>>

\* Mutant: the fence is shared before the migration asks for it exclusively.
CheckFenced(p) ==
  /\ proc[p].pc = "check"
  /\ sharers' = sharers \cup {p} /\ Goes(p, IF Preserved THEN "fence" ELSE "migrate")
  /\ UNCHANGED <<files, owner, compat, history>>

\* migrate_unrepresented_legacy looks without a lock first.
Check(p) ==
  /\ proc[p].pc = "check"
  /\ Goes(p, IF Preserved THEN "fence" ELSE "migrate")
  /\ UNCHANGED <<files, sharers, owner, compat, history>>

\* The fence is taken exclusively, and no repository's lock is held without it.
Migrate(p) ==
  /\ proc[p].pc = "migrate" /\ sharers = {}
  /\ scoped' = IF Preserved THEN scoped ELSE [scoped EXCEPT ![legacy.repo] = legacy.state]
  /\ Goes(p, "fence")
  /\ UNCHANGED <<legacy, marker, sharers, owner, compat, history>>

LegacyFence(p) ==
  /\ proc[p].pc = "fence"
  /\ sharers' = sharers \cup {p} /\ Goes(p, "lock")
  /\ UNCHANGED <<files, owner, compat, history>>

Lock(p) ==
  LET r == proc[p].repo
  IN /\ proc[p].pc = "lock" /\ owner[r] = NoProc
     /\ owner' = [owner EXCEPT ![r] = p] /\ Goes(p, "import")
     /\ UNCHANGED <<files, sharers, compat, history>>

\* Mutant: a mirror is imported however old it is.
ImportAny(p) ==
  LET r == proc[p].repo
  IN /\ proc[p].pc = "import"
     /\ IF marker \/ legacy.repo # r THEN Goes(p, "act") /\ scoped' = scoped
        ELSE /\ scoped' = [scoped EXCEPT ![r] = legacy.state]
             /\ proc' = [proc EXCEPT ![p].pc = "sync", ![p].then = "act"]
     /\ UNCHANGED <<legacy, marker, sharers, owner, compat, history>>

\* migrate_matching_legacy_locked
Import(p) ==
  LET r == proc[p].repo
  IN /\ proc[p].pc = "import"
     /\ IF marker \/ legacy.repo # r THEN Goes(p, "act") /\ scoped' = scoped
        ELSE /\ scoped' = IF Newer(legacy.state, scoped[r]) THEN [scoped EXCEPT ![r] = legacy.state] ELSE scoped
             /\ proc' = [proc EXCEPT ![p].pc = "sync", ![p].then = "act"]
     /\ UNCHANGED <<legacy, marker, sharers, owner, compat, history>>

-----------------------------------------------------------------------------
(* The operations. *)

\* with_pr_state_scoped_locked; save_scoped_locked refuses to write next to a
\* mirror that is not preserved.
Read(p) ==
  /\ proc[p].pc = "act" /\ proc[p].op = "update"
  /\ proc' = [proc EXCEPT ![p].pc = IF Preserved THEN "save" ELSE "end",
                          ![p].state = Current(proc[p].repo)]
  /\ UNCHANGED <<files, sharers, owner, compat, history>>

Save(p) ==
  LET r == proc[p].repo
  IN /\ proc[p].pc = "save" /\ next \in Update
     /\ scoped' = [scoped EXCEPT ![r] = proc[p].state \cup {next}]
     /\ next' = next + 1 /\ saved' = [saved EXCEPT ![r] = @ \cup {next}] /\ used' = used \cup {r}
     /\ proc' = [proc EXCEPT ![p].pc = "sync", ![p].then = "end"]
     /\ UNCHANGED <<legacy, marker, sharers, owner, compat, removed, older, crashes>>

\* The caller's closure fails, and nothing is written.
Refuse(p) ==
  /\ proc[p].pc = "save" /\ Goes(p, "end")
  /\ UNCHANGED <<files, sharers, owner, compat, history>>

Forgets(r) == removed' = removed \cup saved[r] /\ saved' = [saved EXCEPT ![r] = {}]

\* archive_scoped_locked moves the repository's file, or the mirror if it is all
\* there is.
Archive(p) ==
  LET r == proc[p].repo
  IN /\ proc[p].pc = "act" /\ proc[p].op = "archive"
     /\ IF scoped[r] = {} /\ legacy.repo # r THEN Goes(p, "end") /\ UNCHANGED <<scoped, legacy, saved, removed>>
        ELSE /\ scoped' = [scoped EXCEPT ![r] = {}]
             /\ legacy' = IF scoped[r] = {} THEN NoFile ELSE legacy
             /\ Forgets(r) /\ Goes(p, "unmirror")
     /\ UNCHANGED <<marker, sharers, owner, compat, next, used, older, crashes>>

\* delete_scoped_if_matches removes what cleanup has listed, if it is the same.
Cleanup(p) ==
  LET r == proc[p].repo
  IN /\ proc[p].pc = "act" /\ proc[p].op = "cleanup"
     /\ IF Current(r) = {} \/ Current(r) # proc[p].state THEN Goes(p, "end") /\ UNCHANGED <<scoped, saved, removed>>
        ELSE scoped' = [scoped EXCEPT ![r] = {}] /\ Forgets(r) /\ Goes(p, "unmirror")
     /\ UNCHANGED <<legacy, marker, sharers, owner, compat, next, used, older, crashes>>

\* remove_matching_legacy looks at the mirror and then unlinks it.
Unmirror(p) ==
  /\ proc[p].pc = "unmirror"
  /\ proc' = [proc EXCEPT ![p].pc = IF legacy.repo = proc[p].repo THEN "unlink" ELSE "sync", ![p].then = "end"]
  /\ UNCHANGED <<files, sharers, owner, compat, history>>

Unlink(p) ==
  /\ proc[p].pc = "unlink"
  /\ legacy' = NoFile
  /\ Goes(p, IF legacy = NoFile THEN "end" ELSE "sync")
  /\ UNCHANGED <<scoped, marker, sharers, owner, compat, history>>

-----------------------------------------------------------------------------
(* sync_legacy_mirror_for_pr *)

Sync(p) ==
  /\ proc[p].pc = "sync" /\ compat = NoProc
  /\ IF Preserved THEN compat' = p /\ Goes(p, "list") ELSE compat' = compat /\ Goes(p, "end")
  /\ UNCHANGED <<files, sharers, owner, history>>

\* scoped_states_for_pr
List(p) ==
  /\ proc[p].pc = "list"
  /\ proc' = [proc EXCEPT ![p].pc = "mirror",
                          ![p].list = {[repo |-> r, state |-> scoped[r]] : r \in {r \in Repo : scoped[r] # {}}}]
  /\ UNCHANGED <<files, sharers, owner, compat, history>>

\* One state is mirrored; of several, none: the marker is written first.
Mirror(p) ==
  LET list == proc[p].list
  IN /\ proc[p].pc = "mirror"
     /\ legacy' = IF Cardinality(list) > 1 THEN legacy
                  ELSE IF list = {} THEN NoFile ELSE CHOOSE f \in list : TRUE
     /\ marker' = (marker \/ Cardinality(list) > 1)
     /\ Goes(p, "mark")
     /\ UNCHANGED <<scoped, sharers, owner, compat, history>>

Mark(p) ==
  /\ proc[p].pc = "mark"
  /\ marker' = (Cardinality(proc[p].list) > 1)
  /\ legacy' = IF Cardinality(proc[p].list) > 1 THEN NoFile ELSE legacy
  /\ compat' = NoProc /\ Goes(p, proc[p].then)
  /\ UNCHANGED <<scoped, sharers, owner, history>>

-----------------------------------------------------------------------------
Unlocks(p) ==
  /\ sharers' = sharers \ {p}
  /\ owner' = [r \in Repo |-> IF owner[r] = p THEN NoProc ELSE owner[r]]
  /\ compat' = IF compat = p THEN NoProc ELSE compat
  /\ proc' = [proc EXCEPT ![p] = Idle]

End(p) == proc[p].pc = "end" /\ Unlocks(p) /\ UNCHANGED <<files, history>>

Crash(p) ==
  /\ proc[p].pc # "idle" /\ crashes < MaxCrashes
  /\ crashes' = crashes + 1 /\ Unlocks(p)
  /\ UNCHANGED <<files, next, saved, removed, used, older>>

\* An older binary reads and writes the mirror only, under the exclusive fence,
\* and stops at another repository's.  What it writes while the marker is there
\* is ignored by new binaries.
OldSave(r) ==
  /\ OldBinaries /\ sharers = {} /\ next \in Update /\ legacy.repo \in {r, NoRepo}
  /\ legacy' = [repo |-> r, state |-> legacy.state \cup {next}]
  /\ next' = next + 1 /\ saved' = IF marker THEN saved ELSE [saved EXCEPT ![r] = @ \cup {next}]
  /\ used' = used \cup {r} /\ older' = TRUE
  /\ UNCHANGED <<scoped, marker, sharers, owner, compat, proc, removed, crashes>>

-----------------------------------------------------------------------------
Init ==
  /\ scoped = [r \in Repo |-> {}] /\ legacy = NoFile /\ marker = FALSE
  /\ sharers = {} /\ owner = [r \in Repo |-> NoProc] /\ compat = NoProc
  /\ proc = [p \in Proc |-> Idle] /\ next = 1
  /\ saved = [r \in Repo |-> {}] /\ removed = {}
  /\ used = {} /\ older = FALSE /\ crashes = 0

Step(p) ==
  \/ Check(p) \/ Migrate(p) \/ LegacyFence(p) \/ Lock(p) \/ Import(p)
  \/ Read(p) \/ Save(p) \/ Refuse(p) \/ Archive(p) \/ Cleanup(p) \/ Unmirror(p) \/ Unlink(p)
  \/ Sync(p) \/ List(p) \/ Mirror(p) \/ Mark(p) \/ End(p)

Next ==
  \/ \E p \in Proc : Step(p) \/ Crash(p) \/ \E op \in Op, r \in Repo : Begin(p, op, r)
  \/ \E r \in Repo : OldSave(r)

Spec == Init /\ [][Next]_vars

-----------------------------------------------------------------------------
(* Properties. *)

TypeOK ==
  /\ scoped \in [Repo -> SUBSET Update] /\ marker \in BOOLEAN
  /\ legacy \in [repo : Repo \cup {NoRepo}, state : SUBSET Update]
  /\ legacy.repo = NoRepo <=> legacy.state = {}
  /\ sharers \subseteq Proc /\ owner \in [Repo -> Proc \cup {NoProc}] /\ compat \in Proc \cup {NoProc}
  /\ used \subseteq Repo /\ older \in BOOLEAN
  /\ next \in 1 .. MaxUpdates + 1 /\ crashes \in 0 .. MaxCrashes
  /\ \A r \in Repo : owner[r] # NoProc => owner[r] \in sharers

Acting(p) == proc[p].pc = "act"

\* Whoever has the lock finds every update of its repository, those older
\* binaries made to the mirror included.  Not so once an older binary has
\* written and a new one was killed in the middle of an operation.
NothingLost ==
  ~older \/ crashes = 0
    => \A p \in Proc : Acting(p) => saved[proc[p].repo] \subseteq Current(proc[p].repo)

\* A state that was archived or deleted does not come back, as long as one
\* repository uses the number and no operation is cut short.
StaysRemoved ==
  crashes = 0 /\ Cardinality(used) <= 1
    => \A p \in Proc : Acting(p) => Current(proc[p].repo) \cap removed = {}

Active == {r \in Repo : scoped[r] # {}}

\* An older binary never finds the mirror of one of two repositories: when it
\* can take the fence, a number that both use is marked and has no mirror but
\* what an older binary wrote since.  A kill before the marker leaves it out.
\* Not so with a third: a mirror made from a stale list, of a state that was
\* archived meanwhile, keeps a second one from being mirrored or marked.
Fenced ==
  crashes = 0 /\ Cardinality(used) <= 2 /\ sharers = {} /\ Cardinality(Active) > 1 => marker

\* Waits for the fence, for a repository or for the mirror.
Blocked(p) ==
  \/ proc[p].pc = "migrate" /\ sharers # {}
  \/ proc[p].pc = "lock" /\ owner[proc[p].repo] # NoProc
  \/ proc[p].pc = "sync" /\ compat # NoProc

\* The three locks are never waited for in a circle, and a process never waits
\* for itself: while operations are under way, one of them can go on.
OneGoesOn ==
  (\E p \in Proc : proc[p].pc # "idle") => \E p \in Proc : proc[p].pc # "idle" /\ ~Blocked(p)

\* Scoped files and mirror tell one story, to new binaries and old ones: no update
\* is lost, nothing that was removed returns, and a shared number has no mirror.
ShipStateSafe == TypeOK /\ NothingLost /\ StaysRemoved /\ Fenced

=============================================================================
