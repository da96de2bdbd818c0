----------------------------- MODULE MCProtocols -----------------------------
(* Values for TLC: the guardian of a thread, an order of the writer domain's *)
(* actors, and the cases of the foreground drain.                            *)
EXTENDS Protocols

Guardians == [t \in {"t1"} |-> "g1"]
ActorsInLine == <<"t1", "t2", "g1", "a1">>

-----------------------------------------------------------------------------
DrainJob == 1..DrainJobs
\* Each job is a workload of its own.
OwnLanes == [j \in DrainJob |-> j]
All(v) == [j \in DrainJob |-> v]
OddEven == [j \in DrainJob |-> IF j % 2 = 1 THEN "odd" ELSE "even"]

\* Cooperative ships of two pull requests; the first, of a remote target, falls silent
\* and reports again, the other two share a claim; a store of the last one's fails.
Silent ==
  [owner |-> All("foreground"), ship |-> OddEven, scope |-> All("cooperative"),
   claims |-> [j \in DrainJob |-> IF j = 1 THEN {} ELSE {"c"}], merge |-> {}, cancel |-> {}, prompt |-> {2, 3},
   local |-> {2, 3}, mortal |-> {}, faulty |-> {3}]
\* A daemon job, a cooperative and an awaited-only command, a merge.
Mixed ==
  [Silent EXCEPT !.owner[1] = "daemon", !.ship[1] = "no-ship", !.scope[DrainJobs] = "awaited",
                 !.claims = All({}), !.merge = {2}, !.prompt = DrainJob, !.mortal = DrainJob]
\* The first job's envelope does not load.
LostOne ==
  [Silent EXCEPT !.owner[1] = "lost", !.ship = All("odd"), !.claims = All({"c"}), !.cancel = {2},
                 !.prompt = {}, !.mortal = DrainJob]
\* Jobs with one claim whose workers report in time, and a cancellation: two ships, one
\* of them with a remote target, or a run with a remote target and a ship.
Prompt ==
  [owner |-> All("foreground"), ship |-> OddEven, scope |-> All("cooperative"), claims |-> All({"c"}),
   merge |-> {}, cancel |-> {1}, prompt |-> DrainJob, local |-> {2}, mortal |-> {}, faulty |-> {2}]
Remote == [Prompt EXCEPT !.ship[1] = "no-ship"]

DrainSafety == {Silent, Mixed, LostOne}
DrainLiveness == {Prompt, Remote}
=============================================================================
