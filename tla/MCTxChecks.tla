----------------------------- MODULE MCTxChecks -----------------------------
(***************************************************************************)
(* Instance of TxChecks: amounts of a few lovelace around the two bounds.  *)
(* The transactions a builder may answer with are every amount in a sound  *)
(* shape and every shape at a sound amount.                                *)
(***************************************************************************)
EXTENDS TxChecks

MCAuthorised == [own : BOOLEAN, asset : {"lovelace", "token"}, amount : 1 .. 2]

MCPayments ==
    [readable : {TRUE}, spendsNonce : {TRUE}, extras : 0 .. 1, fee : 0 .. 2,
     coin : 0 .. 4, token : 0 .. 2, others : 0 .. 1]
      \cup [readable : BOOLEAN, spendsNonce : BOOLEAN, extras : {0}, fee : {1},
            coin : {1}, token : {1}, others : {0}]

MCChannels ==
    [ada : {TRUE}, lovelace : {2}, signed : {2}, redeemed : {1, 3}, reserveFrom : {"wallet"}]
      \cup [ada : {FALSE}, lovelace : {2}, signed : {2}, redeemed : {1, 2},
            reserveFrom : {"wallet", "seller"}]

MCOffers == [lovelace : {3}, onChain : {2, 3}, mine : BOOLEAN]

Put(of, total, home) == [of |-> of, total |-> total, home |-> home]

MCCollaterals ==
    {NoCollateral, Put({"own"}, 1, TRUE), Put({"own"}, 2, TRUE), Put({"own"}, Unstated, TRUE),
     Put({"own"}, 1, FALSE), Put({"offer"}, 1, FALSE), Put({"offer", "own"}, 1, TRUE)}

MCSpends == {{"own"}, {"offer", "own"}, {"channel", "own"}, {"channel"},
             {"channel", "offer", "own"}, {"channel", "other"}}

Shapes ==
    [extras : {0}, fee : 0 .. 2, spends : MCSpends, redeems : {"refund"},
     witnessed : {TRUE}, bothSign : {TRUE},
     atValidator : 0 .. 1, lovelace : 0 .. 4, kept : {TRUE},
     paid : 0 .. 2, paidTokens : {FALSE}, others : {0},
     collateral : {NoCollateral, Put({"offer"}, 1, FALSE)}]
      \cup
    [extras : 0 .. 1, fee : 1 .. 2, spends : {{"own"}, {"channel"}}, redeems : {"close", "end"},
     witnessed : {TRUE}, bothSign : {TRUE},
     atValidator : 0 .. 2, lovelace : {0, 2, 3}, kept : BOOLEAN,
     paid : 0 .. 1, paidTokens : {FALSE}, others : 0 .. 1, collateral : {NoCollateral}]
      \cup
    [extras : {0}, fee : {1}, spends : {{"channel"}, {"channel", "own"}},
     redeems : {"refund", "elapse", "another"}, witnessed : BOOLEAN, bothSign : BOOLEAN,
     atValidator : {0}, lovelace : {0}, kept : {TRUE},
     paid : 0 .. 1, paidTokens : BOOLEAN, others : {0}, collateral : MCCollaterals]

MCSteps == {t \in Shapes : t.atValidator = 0 => t.lovelace = 0}
=============================================================================
