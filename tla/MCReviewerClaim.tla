-------------------------- MODULE MCReviewerClaim --------------------------
(* Instances of ReviewerClaim for TLC: reviewers and branches are          *)
(* interchangeable.                                                        *)
EXTENDS ReviewerClaim, TLC

Symmetry == Permutations(Reviewer) \cup Permutations(Base)

\* Once a receipt is stray no property is about verdicts any more.
Followed == stray => verdicts = <<>> /\ \A r \in Reviewer : checked[r] = 0
=============================================================================
