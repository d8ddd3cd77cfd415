------------------------------ MODULE MCJournal ------------------------------
(***************************************************************************)
(* A lovelace payment, whose overhead is lovelace too.                     *)
(***************************************************************************)
EXTENDS Journal

LovelacePayment ==
    [tx |-> "t1", agent |-> "a", asset |-> "lovelace", amount |-> 2, overhead |-> 1]

OnePayment == {LovelacePayment}
=============================================================================
