------------------------------ MODULE WriteOnce ------------------------------
(***************************************************************************)
(* What an immutable record store promises: a key is given one value, and  *)
(* once a caller has been told that the value is stored it is never lost   *)
(* and never another.  A value nobody has been told of may disappear.      *)
(***************************************************************************)
CONSTANTS Keys, Vals, None

VARIABLES
  reg,     \* the value of each key, or None
  told     \* the keys whose value a caller was told is stored

vars == <<reg, told>>

Init == reg = [k \in Keys |-> None] /\ told = {}

Write(k, v) ==
  /\ reg[k] = None
  /\ reg' = [reg EXCEPT ![k] = v]
  /\ UNCHANGED told

Tell(k) ==
  /\ reg[k] # None
  /\ told' = told \cup {k}
  /\ UNCHANGED reg

Forget(K) ==
  /\ K \cap told = {}
  /\ reg' = [k \in Keys |-> IF k \in K THEN None ELSE reg[k]]
  /\ UNCHANGED told

Next ==
  \/ \E k \in Keys, v \in Vals : Write(k, v)
  \/ \E k \in Keys : Tell(k)
  \/ \E K \in SUBSET Keys : Forget(K)

Spec == Init /\ [][Next]_vars
=============================================================================
