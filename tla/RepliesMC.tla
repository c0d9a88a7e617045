----------------------------- MODULE RepliesMC -----------------------------
(***************************************************************************)
(* Instances of Replies: which faults meet in one behaviour.               *)
(***************************************************************************)
EXTENDS Replies

\* Runs that die beside every refusal; comments written between polls beside the month's
\* cap and a spent day; and each of the two alone, for what must end when the step is let through.
Quiet == AllFaults \ {"late", "growth"}
Meetings == {Quiet, {"growth", "budget", "day"}, {"growth"}, {"crash"}}
=============================================================================
