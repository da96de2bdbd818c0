----------------------------- MODULE DurableFile -----------------------------
(***************************************************************************)
(* Durable replacement of one file (durable_file.rs): the directory is     *)
(* created if it is not there, the new contents are written to a temporary *)
(* file, synced, renamed over the path, and the directory is synced.  The  *)
(* directory that holds a new directory is not.  Each process replaces the *)
(* file once; the machine may stop at any point.                           *)
(***************************************************************************)
EXTENDS Integers, Sequences, SequencesExt

CONSTANT Procs

VARIABLES
  dir,       \* the file's directory: "absent", "created" or "durable", on disk
  renamed,   \* the replacements of the path so far, oldest first
  synced,    \* how many of them the directory on disk has
  flushed,   \* the processes whose temporary file was synced
  torn,      \* is the file at the path incomplete?
  promised,  \* history: done while the directory was on disk
  pc

vars == <<dir, renamed, synced, flushed, torn, promised, pc>>

Goes(p, at) == pc' = [pc EXCEPT ![p] = at]

\* create_dir_all, and the temporary file.
Write(p) ==
  /\ pc[p] = "start" /\ Goes(p, "flush")
  /\ dir' = IF dir = "absent" THEN "created" ELSE dir
  /\ UNCHANGED <<renamed, synced, flushed, torn, promised>>

Flush(p) ==
  /\ pc[p] = "flush" /\ Goes(p, "rename")
  /\ flushed' = flushed \cup {p}
  /\ UNCHANGED <<dir, renamed, synced, torn, promised>>

\* The new contents are reported to be durable.
Reports(p) ==
  /\ Goes(p, "done")
  /\ promised' = IF dir = "durable" THEN promised \cup {p} ELSE promised

\* Mutant: the answer does not wait for the directory.
RenameDone(p) ==
  /\ pc[p] = "rename"
  /\ renamed' = Append(renamed, p) /\ torn' = FALSE /\ Reports(p)
  /\ UNCHANGED <<dir, synced, flushed>>

Rename(p) ==
  /\ pc[p] = "rename"
  /\ renamed' = Append(renamed, p) /\ torn' = FALSE /\ Goes(p, "sync")
  /\ UNCHANGED <<dir, synced, flushed, promised>>

SyncDirectory(p) ==
  /\ pc[p] = "sync" /\ Reports(p)
  /\ synced' = Len(renamed)
  /\ UNCHANGED <<dir, renamed, flushed, torn>>

\* A step fails and its error is returned; the temporary file is removed.
Fail(p) ==
  /\ pc[p] \in {"start", "flush", "rename", "sync"} /\ Goes(p, "error")
  /\ UNCHANGED <<dir, renamed, synced, flushed, torn, promised>>

\* The machine stops.  The path names one of the files it was renamed to since
\* the last sync, and what was not flushed of that file is lost; a directory that
\* was created since the start may be gone with all that is in it.
PowerLoss ==
  /\ \/ /\ \E n \in synced..Len(renamed) :
             /\ renamed' = SubSeq(renamed, 1, n) /\ synced' = n
             /\ torn' = (torn \/ (n > 0 /\ renamed[n] \notin flushed))
        /\ dir' = IF dir = "created" THEN "durable" ELSE dir
     \/ /\ dir = "created" /\ dir' = "absent"
        /\ renamed' = <<>> /\ synced' = 0 /\ torn' = FALSE
  /\ pc' = [p \in Procs |-> IF pc[p] \in {"start", "done", "error"} THEN pc[p] ELSE "dead"]
  /\ UNCHANGED <<flushed, promised>>

Init ==
  /\ dir \in {"absent", "durable"}
  /\ renamed = <<>> /\ synced = 0 /\ flushed = {} /\ torn = FALSE /\ promised = {}
  /\ pc = [p \in Procs |-> "start"]

Next ==
  \/ \E p \in Procs : Write(p) \/ Flush(p) \/ Rename(p) \/ SyncDirectory(p) \/ Fail(p)
  \/ PowerLoss

Spec == Init /\ [][Next]_vars

-----------------------------------------------------------------------------
(* Properties *)

\* A reader finds complete contents, even after the machine stopped.
NeverTorn == ~torn

\* A replacement that was reported durable is there or was replaced by a later
\* one, even after the machine stopped, if the directory was on disk when it was
\* reported: the first replacements in a directory that replace itself created are
\* lost with the directory.
DoneKept == promised \subseteq ToSet(renamed)

\* Replacement is atomic and, in a directory that is on disk, durable: whoever
\* reads the path finds complete contents, and what replace reported done is not
\* undone by a power loss.
FileSafe == NeverTorn /\ DoneKept

=============================================================================
