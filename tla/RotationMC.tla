----------------------------- MODULE RotationMC -----------------------------
(***************************************************************************)
(* Instances of Rotation: the lists of units, by what they weigh.          *)
(***************************************************************************)
EXTENDS Rotation

\* Nothing to search; one platform; two light searches beside one that outweighs the
\* rate (LinkedIn, five credits); three light ones.
Lists == {<<>>, <<5>>, <<1, 5, 1>>, <<1, 1, 2>>}
=============================================================================
