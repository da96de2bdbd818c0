-------------------------- MODULE ExclusiveExecution --------------------------
(***************************************************************************)
(* What the queue and its supervisor promise about a job, without files,   *)
(* processes or crashes: a job is executed by at most one agent at a time, *)
(* it can be executed again only after that agent is gone, a requested     *)
(* cancellation takes effect only then and is never overtaken by another   *)
(* disposition, and a disposition is final.  Any number of jobs may move   *)
(* in one step.                                                            *)
(***************************************************************************)
CONSTANTS Jobs,   \* queue job ids
          Agents  \* whoever may execute a job

VARIABLES state,  \* what the queue says of a job
          asked,  \* the jobs a cancellation was requested for
          agents  \* who executes a job now

absVars == <<state, asked, agents>>

States == {"absent", "pending", "running", "completed", "cancelled"}

AbsInit ==
  /\ state = [j \in Jobs |-> "absent"]
  /\ asked = {}
  /\ agents = [j \in Jobs |-> {}]

Same(j) == /\ state'[j] = state[j] /\ agents'[j] = agents[j]
           /\ j \in asked' <=> j \in asked

\* The queue moves job j from a to b; who executes it does not change.
Moves(j, a, b) == state[j] = a /\ state'[j] = b /\ agents'[j] = agents[j]

Enqueued(j) == Moves(j, "absent", "pending") /\ j \notin asked'
Started(j) == Moves(j, "pending", "running") /\ j \notin asked'
Requested(j) == Moves(j, "running", "running") /\ j \in asked'

\* Back to the queue: only an unrequested job that nobody executes.
Requeued(j) == /\ Moves(j, "running", "pending")
               /\ agents[j] = {} /\ j \notin asked /\ j \notin asked'

\* A job ends completed, or cancelled: while pending, by its own refusal, or by
\* a request once nobody executes it.
Completed(j) == Moves(j, "running", "completed") /\ j \notin asked /\ j \notin asked'
Cancelled(j) == /\ \/ Moves(j, "pending", "cancelled")
                   \/ Moves(j, "running", "cancelled") /\ (j \in asked => agents[j] = {})
                /\ j \in asked'

\* Terminal rows may be trimmed; when many are cancelled while pending, the same
\* write may trim the oldest of them.
Trimmed(j) == /\ state[j] \in {"pending", "completed", "cancelled"} /\ state'[j] = "absent"
              /\ agents'[j] = agents[j]

\* An agent takes a running job nobody executes, and leaves at any time.
Begins(j) == /\ state[j] = "running" /\ agents[j] = {}
             /\ \E a \in Agents : agents'[j] = {a}
             /\ state'[j] = state[j] /\ (j \in asked' <=> j \in asked)
Leaves(j) == /\ agents[j] # {} /\ agents'[j] = {}
             /\ state'[j] = state[j] /\ (j \in asked' <=> j \in asked)

AbsNext ==
  \A j \in Jobs :
    \/ Same(j) \/ Enqueued(j) \/ Started(j) \/ Requested(j) \/ Requeued(j)
    \/ Completed(j) \/ Cancelled(j) \/ Trimmed(j) \/ Begins(j) \/ Leaves(j)

AbsSpec == AbsInit /\ [][AbsNext]_absVars
=============================================================================
