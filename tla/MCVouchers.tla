----------------------------- MODULE MCVouchers -----------------------------
(***************************************************************************)
(* Small instances of Vouchers.  A day has room for three units, or for    *)
(* two once the policy says so; an increment of one needs no approval and  *)
(* of two does; an agent may lock two units, in one step or two.           *)
(***************************************************************************)
EXTENDS Vouchers, TLC

CONSTANTS r1, r2, r3, a, b, shop

Limits(daily) ==
    [terms |-> {shop},
     perTxMax |-> [x \in {Asset} |-> 2],
     dailyMax |-> [x \in {Asset} |-> daily],
     approvalAbove |-> [x \in {Asset} |-> 1],
     maxPerHour |-> 5, maxVouchersPerHour |-> 5,
     depositMax |-> 2, lockedMax |-> 2]

Asks(agent, price) == [agent |-> agent, terms |-> shop, price |-> price]

(* Requests of one agent, one of them dear; or one of a's and the others b's. *)
OneAgentQ == [r \in Requests |-> Asks(a, IF r = r2 THEN 2 ELSE 1)]

TwoAgentsQ == [r \in Requests |-> IF r = r1 THEN Asks(a, 1) ELSE Asks(b, 2)]

RoomForThree == {[x \in Agents |-> Limits(3)]}

ThreeOrTwo == {[x \in Agents |-> Limits(3)], [x \in Agents |-> Limits(2)]}

(* Channels are alike, and so are the requests OneAgentQ gives one price. *)
Symmetry == Permutations(Channels) \cup Permutations({r1, r3})
=============================================================================
