----------------------------- MODULE ClassifyMC -----------------------------
(***************************************************************************)
(* Instances of Classify: which posts repeat each other, and which         *)
(* searches found them.                                                    *)
(***************************************************************************)
EXTENDS Classify, TLC

\* Posts 2 and 3 are one post written twice; post 4 is a reply.
Copying == [p \in Posts |-> IF p \in {2, 3} THEN "a" ELSE IF p = 4 THEN None ELSE "b"]

\* No search is known; or two overlap, and none found the reply.
Unfound == [p \in Posts |-> {}]
Searches ==
  [p \in Posts |-> (IF p \in {1, 2} THEN {"x"} ELSE {}) \cup (IF p \in {2, 3} THEN {"y"} ELSE {})]

\* Jobs are interchangeable.
Symmetry == Permutations(Jobs)
=============================================================================
