---------------------------- MODULE WorkerCustody -----------------------------
(***************************************************************************)
(* Why a job never has two worker trees: the inductive invariant behind    *)
(* OneTreePerJob, ActingHasReceipt and ReplayAfterDeath.  It relates       *)
(* receipts, transactions, processes and rows, and says what each step of  *)
(* the tick may take for granted of the jobs it works on.  It holds of a   *)
(* host without boot requeue whose operator does not bump jobs; with them  *)
(* OneTreePerJob itself is violated (runs bump_race and restart_replay).   *)
(***************************************************************************)
EXTENDS ExecutionSystem

\* No tree acts for job j and no process is authorized to start.
Quiet(j) ==
  \A g \in Gen : proc[g].job = j => ~TreeAlive(g) /\ (RootAlive(g) => receipt[j] # g)

\* A process of job j other than g, and all its descendants, are gone or waiting.
OnlyTree(j, g) == \A h \in Gen : proc[h].job = j /\ h # g => ~TreeAlive(h)

\* Nothing is left of process g.
TreeGone(g) == ~RootAlive(g) /\ ~TreeAlive(g)

-----------------------------------------------------------------------------
(* Receipts, transactions, processes and rows. *)

\* A receipt names a process created for the job; while that process lives it
\* has the only tree of the job, and it is the child the supervisor holds.
ReceiptOwns ==
  \A j \in Job : receipt[j] # NoGen =>
    /\ receipt[j] <= spawned
    /\ proc[receipt[j]].job = j
    /\ RootAlive(receipt[j]) => /\ OnlyTree(j, receipt[j])
                                /\ child[j] \in {NoGen, receipt[j]}

\* A transaction names a process of the job, which alone may have a tree, and is
\* gone once the transaction has left its first phase.
TxnOwns ==
  \A j \in Job : txn[j] # NoTxn =>
    /\ txn[j].gen \in Gen /\ txn[j].gen <= spawned
    /\ proc[txn[j].gen].job = j
    /\ txn[j].phase \in Phases
    /\ receipt[j] \in {NoGen, txn[j].gen}
    /\ OnlyTree(j, txn[j].gen)
    /\ txn[j].phase # "frozen" => TreeGone(txn[j].gen)

\* A pending job is quiet, and no row copy a worker may write back is pending.
PendingQuiet ==
  /\ \A j \in Job : Pending(jobs[j]) => Quiet(j)
  /\ \A g \in Gen : ~Pending(proc[g].snap)

\* A job that was not submitted has no files and no process.
Unsubmitted ==
  \A j \in Job : j > submitted =>
    /\ receipt[j] = NoGen /\ txn[j] = NoTxn
    /\ \A g \in Gen : proc[g].job # j

TreeInv ==
  /\ ReceiptOwns /\ TxnOwns /\ PendingQuiet /\ Unsubmitted
  /\ ActingHasReceipt /\ OneTreePerJob

-----------------------------------------------------------------------------
(* What the steps of the tick rely on. *)

\* The jobs the supervisor works on in this stage.
InHand == (todo \cup {cur}) \ {NoJob}

\* Between its start and its receipt an admitted job is quiet.
AdmitInv ==
  /\ stage = "admit" /\ step \in {"next", "receipt", "spawn"} =>
       \A j \in InHand : Quiet(j) /\ ~Pending(jobs[j]) /\ txn[j] = NoTxn /\ j <= submitted
  /\ stage = "admit" /\ step = "receipt" =>
       receipt[cur] < spawned /\ proc[spawned].job = cur

\* A job is settled or forgotten only with its tree gone.
TerminateInv ==
  /\ step \in {"save", "kill", "dead", "mark", "settle", "forget", "clear"} => Terminating
  /\ Terminating /\ step # "enter" => \A j \in todo : ~Pending(jobs[j]) /\ j <= submitted
  /\ Terminating /\ step \in {"save", "kill", "dead", "release", "mark", "settle", "outcome"}
       => ~Pending(jobs[cur])
  /\ step = "save" => /\ txn[cur] = NoTxn /\ receipt[cur] # NoGen
                      /\ OnlyTree(cur, receipt[cur]) /\ cur <= submitted
  /\ Terminating /\ step \in {"kill", "dead", "release", "mark", "settle", "outcome",
                              "forget", "clear"}
       => txn[cur] # NoTxn /\ txn[cur].act = Act
  /\ step = "dead" => TreeGone(txn[cur].gen)
  /\ Terminating /\ step \in {"release", "mark"} => txn[cur].phase # "frozen"
  /\ Terminating /\ step \in {"settle", "outcome", "forget", "clear"}
       => txn[cur].phase = "released"

\* A job is dropped only when no live process holds its receipt.
DropInv ==
  /\ step \in {"complete", "drop"} => stage \in {"reap", "running"}
  /\ step = "outcome" => Terminating \/ stage \in {"reap", "running", "orphans"}
  /\ stage = "reap" => \A j \in InHand : child[j] # NoGen /\ ~RootAlive(child[j])
  /\ stage = "running" /\ step \in {"complete", "outcome", "drop"} => receipt[cur] = NoGen

\* The stages before the transactions of the last tick are cleaned up.
EarlyStages == {"boot", "outcomes", "txns"}

\* A pending job with a transaction is one whose settlement is being cleaned up,
\* by this tick or the next, before anything can be admitted.
SettledInv ==
  \A j \in Job : Pending(jobs[j]) /\ txn[j] # NoTxn =>
    /\ Finalized(j)
    /\ \/ stage \in EarlyStages
       \/ Terminating /\ step \in {"forget", "clear"} /\ cur = j

TickInv ==
  /\ AdmitInv /\ TerminateInv /\ DropInv /\ SettledInv
  /\ cur \notin todo
  /\ step = "enter" => todo = {} /\ cur = NoJob
  /\ stage = "boot" => step = "enter"
  /\ bump = NoBump

\* The supervisor always knows the one tree that may act for a job: a live worker
\* with a receipt has the only tree of its job, a transaction names that tree and
\* says truly whether it is gone, a pending job has none, and every step of the
\* tick finds what the steps before it established, however much the workers, the
\* operator and the host did in between.
Custody == TreeInv /\ TickInv
=============================================================================
