------------------------------ MODULE OutboxMC ------------------------------
(***************************************************************************)
(* Instances of Outbox: the forms people save in each run.                 *)
(***************************************************************************)
EXTENDS Outbox, TLC

HookNow == [email |-> FALSE, webhook |-> TRUE, mode |-> "match", immediate |-> FALSE]
HookDigest == [HookNow EXCEPT !.mode = "digest"]
EmailNow == [email |-> TRUE, webhook |-> FALSE, mode |-> "match", immediate |-> TRUE]

\* A save that changes the channel, and one that changes the webhook's mode.
Channel == {EmailNow, HookNow}
Hooks == {HookNow, HookDigest}

\* Jobs are interchangeable.
Symmetry == Permutations(Workers)
=============================================================================
