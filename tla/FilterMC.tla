------------------------------ MODULE FilterMC ------------------------------
(***************************************************************************)
(* Instances of Filter: two polls that both find post 1.  Posts 1 and 2     *)
(* are cut, 3 is a comment, and one was started before the first window.    *)
(***************************************************************************)
EXTENDS Filter, TLC

CONSTANTS m1, j1, j2

Asked == (j1 :> m1) @@ (j2 :> m1)
Found == (j1 :> {1, 2}) @@ (j2 :> {1, 3})
Windows == (j1 :> 1) @@ (j2 :> 2)
Starts == <<2, 1, 2>>

\* Jobs that die, and a monitor that goes while pages are missed or not asked for.
Meetings == {{"crash"}, AllFaults \ {"crash"}}
=============================================================================
