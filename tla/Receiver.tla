------------------------------ MODULE Receiver ------------------------------
(***************************************************************************)
(* What the people and the systems at the other end of a channel are       *)
(* promised (docs/notifications.md, notifications/deliver.ts): a delivery  *)
(* may arrive more than once, always under the same id and with nothing    *)
(* new in it, so a receiver that drops an id it has heard is told of a     *)
(* match at most once in each lane, a lane being a channel and a kind of   *)
(* message.                                                                *)
(***************************************************************************)
CONSTANTS Lanes, Matches, Ids

VARIABLE told  \* lane -> id -> the matches told under it, {} when unheard

Init == told = [lane \in Lanes |-> [id \in Ids |-> {}]]

\* A delivery heard for the first time tells of matches never told before.
Hear(lane, id, load) ==
  /\ told[lane][id] = {}
  /\ \A other \in Ids : load \cap told[lane][other] = {}
  /\ told' = [told EXCEPT ![lane][id] = load]

Next == \E lane \in Lanes, id \in Ids, load \in SUBSET Matches : Hear(lane, id, load)

Spec == Init /\ [][Next]_told
=============================================================================
