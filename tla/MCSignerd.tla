------------------------------ MODULE MCSignerd ------------------------------
(***************************************************************************)
(* Small instances of Signerd: a cheap payment of agent a, signed at once, *)
(* beside a dear one of agent b, which waits for an operator; or two dear  *)
(* payments of one agent with room for both but for their fees.            *)
(***************************************************************************)
EXTENDS Signerd, TLC

CONSTANTS r1, r2, a, b, shop

Ask(agent, asset, amount) ==
    [agent |-> agent, asset |-> asset, amount |-> amount, terms |-> shop, batch |-> FALSE]

Limits(perTx, daily, above) ==
    [terms |-> {shop}, perTxMax |-> perTx, dailyMax |-> daily, approvalAbove |-> above,
     maxPerHour |-> 5, maxVouchersPerHour |-> 5]

Caps(asset, n) == [x \in {asset} |-> n]

(* A cheap request of agent a, and a dear one of agent b. *)
CheapAndDearQ ==
    [r \in Requests |-> IF r = r1 THEN Ask(a, "lovelace", 2) ELSE Ask(b, "lovelace", 3)]

LovelaceLimits(daily) == Limits(Caps("lovelace", 4), Caps("lovelace", daily), Caps("lovelace", 2))

OnePolicy == {[x \in {a, b} |-> LovelaceLimits(5)]}

OnePolicyOrNone == OnePolicy \cup {Unreadable}

(* Two dear requests of one agent: room for both but for a fee. *)
DearQ == [r \in Requests |-> Ask(a, "lovelace", 3)]

RoomForBoth == {[x \in {a} |-> LovelaceLimits(7)]}

(* Requests of one agent alike, as operators are. *)
Symmetry == Permutations(Requests) \cup Permutations(Operators)
=============================================================================
