------------------------------ MODULE TxChecks ------------------------------
(***************************************************************************)
(* What signerd checks of a built transaction before handing it over: the  *)
(* payment checks of src/src/verifyTx.ts, the channel-step checks of       *)
(* src/src/channelTx.ts and the fee-sponsor checks of src/src/signerd.ts.  *)
(* The builder and the seller are not trusted: a request is met with any   *)
(* transaction of Payments or Steps, and either it is handed over or it is *)
(* refused.                                                                *)
(*                                                                         *)
(* A transaction is where its value goes.  Addresses are told apart as the *)
(* checks tell them apart (the payee, this wallet, the validator, anyone   *)
(* else), and the outputs to one are its total.  Value is conserved and    *)
(* everything spent besides the channel and a seller's offer is this       *)
(* wallet's, so what the wallet loses is what the others get (Lost).       *)
(***************************************************************************)
EXTENDS Integers

CONSTANTS
    MaxFee,         \* MAX_FEE_LOVELACE
    MaxRide,        \* MAX_RIDE_LOVELACE
    FEE_MAX,        \* the most a channel step may pay in fee
    COLLATERAL_MAX, \* the most it may put up as collateral
    Authorised,     \* the payments the policy has allowed
    Payments,       \* the transactions built for them
    Channels,       \* the channels a step is for, as signerd and the chain know them
    NoOffer,        \* a step that is not sponsored
    Offers,         \* the sponsor offers a 402 may make, and what the chain shows
    Deposits,       \* what an opening or a top-up of an ADA channel puts in
    Steps           \* the transactions built for a channel

ChannelStep == {"open", "topUp", "refund", "close", "end", "elapse"}

Unstated == -1

NoCollateral == [of |-> {}, total |-> 0, home |-> TRUE]

(***************************************************************************)
(* A payment: own is whether the payee is this wallet itself.  The         *)
(* transaction: whether it can be decoded and spends the nonce, what       *)
(* operations besides outputs take, its fee, what the payee's outputs      *)
(* carry and what anyone else's do.                                        *)
(***************************************************************************)
Authorisation == [own : BOOLEAN, asset : {"lovelace", "token"}, amount : Nat]

SignedTransaction ==
    [readable : BOOLEAN, spendsNonce : BOOLEAN, extras : Nat, fee : Nat,
     coin : Nat, token : Nat, others : Nat]

(***************************************************************************)
(* A channel: its ADA where it stands, whether ADA is its currency, what   *)
(* was signed and redeemed on it, and whether signerd saw the seller's     *)
(* offer pay its reserve.  An offer: the lovelace it claims and what the   *)
(* chain shows of it.                                                      *)
(***************************************************************************)
Channel == [ada : BOOLEAN, lovelace : Nat, signed : Nat, redeemed : Nat,
            reserveFrom : {"wallet", "seller"}]

Offer == [lovelace : Nat, onChain : Nat, mine : BOOLEAN]

(***************************************************************************)
(* A step's summary: the channel output as it was but for its stage        *)
(* (kept), how many outputs are at the validator and the lovelace there,   *)
(* what the seller and anyone else get, and its collateral.                *)
(***************************************************************************)
TxSummary ==
    [extras : Nat, fee : Nat, spends : SUBSET {"channel", "offer", "own", "other"},
     redeems : ChannelStep \cup {"another"}, witnessed : BOOLEAN, bothSign : BOOLEAN,
     atValidator : Nat, lovelace : Nat, kept : BOOLEAN,
     paid : Nat, paidTokens : BOOLEAN, others : Nat,
     collateral : [of : SUBSET {"offer", "own"}, total : Nat \cup {Unstated}, home : BOOLEAN]]

ASSUME ChecksAssumption ==
    /\ MaxFee \in Nat \ {0} /\ MaxRide \in Nat /\ FEE_MAX \in Nat /\ COLLATERAL_MAX \in Nat
    /\ Authorised \subseteq Authorisation /\ Payments \subseteq SignedTransaction
    /\ Channels \subseteq Channel /\ Offers \subseteq Offer /\ NoOffer \notin Offers
    /\ Deposits \subseteq Nat /\ Steps \subseteq TxSummary
    /\ \A t \in Steps : t.atValidator = 0 => t.lovelace = 0

VARIABLES
    request,    \* what was authorised
    tx,         \* the transaction that came back
    verdict     \* "unchecked", "handed over" or "refused"

checkvars == <<request, tx, verdict>>

-----------------------------------------------------------------------------
(***************************************************************************)
(* A payment.                                                              *)
(***************************************************************************)
Over(a, b) == IF a > b THEN a - b ELSE 0

InLovelace(w) == IF w.asset = "lovelace" THEN w.amount ELSE 0

(* Mutant: the ride is reckoned for tokens only. *)
RideOfTokens(t, w) == IF w.own \/ w.asset = "lovelace" THEN 0 ELSE t.coin

RideOf(t, w) == IF w.own THEN 0 ELSE Over(t.coin, InLovelace(w))

OverheadOf(t, w) == t.fee + RideOf(t, w)

PaidIn(t, asset) == IF asset = "lovelace" THEN t.coin ELSE t.token

NoMismatch(t, w) ==
    /\ t.readable
    /\ t.spendsNonce
    /\ t.extras = 0
    /\ t.fee <= MaxFee
    /\ PaidIn(t, w.asset) >= w.amount
    /\ RideOf(t, w) <= MaxRide
    /\ t.others = 0

-----------------------------------------------------------------------------
(***************************************************************************)
(* A channel step.  a is what was authorised: its step, its channel, the   *)
(* lovelace an opening or a top-up of an ADA channel puts in (adds), and   *)
(* the seller's offer when the client says it is sponsored.                *)
(***************************************************************************)
Sponsored(a) == a.offer # NoOffer

Keeps(step) == step \in {"open", "topUp", "close"}

(* Mutant: whose the offer is goes unchecked. *)
AnyonesOffer(o) == o.onChain = o.lovelace

(* offerOnChainProblem, external: the chain shows the offer unspent, with  *)
(* the lovelace it claims, and it is not this wallet's.                    *)
OfferOnChain(o) == o.onChain = o.lovelace /\ ~o.mine

SponsorOffer(a) == ~a.channel.ada /\ OfferOnChain(a.offer)

NoCollateralProblem(a, t) ==
    LET c == t.collateral
    IN  IF c.of = {}
        THEN ~(Sponsored(a) /\ a.step = "refund")
        ELSE /\ a.step # "open"
             /\ c.total # Unstated
             /\ c.total <= COLLATERAL_MAX
             /\ IF Sponsored(a) THEN c.of = {"offer"} ELSE c.home

(* Mutant: the offer and the channel are not asked to cover the fee. *)
BroughtWithoutFee(a, t, brought) == t.lovelace + t.paid <= brought

BringsEnough(a, t, brought) == t.lovelace + t.paid + t.fee <= brought

(* Mutant: an offer that is only put up counts as spent. *)
BroughtByOffer(a) ==
    a.offer.lovelace + (IF a.step = "open" THEN 0 ELSE a.channel.lovelace)

Brought(a) ==
    (IF a.step = "refund" THEN 0 ELSE a.offer.lovelace)
      + (IF a.step = "open" THEN 0 ELSE a.channel.lovelace)

(* Mutant: what the seller has redeemed already may be paid again. *)
MaxPayoutOfSigned(a) == IF a.step = "refund" THEN a.channel.signed ELSE 0

(* In the channel's currency. *)
MaxPayout(a) ==
    IF a.step = "refund" THEN Over(a.channel.signed, a.channel.redeemed) ELSE 0

MayPay(a) == a.step = "refund" \/ Sponsored(a)

NoSummaryProblem(a, t) ==
    /\ t.extras = 0
    /\ t.fee <= FEE_MAX
    /\ Sponsored(a) => a.step \in {"open", "topUp", "refund"}
    /\ NoCollateralProblem(a, t)
    /\ Sponsored(a) => ("offer" \in t.spends) = (a.step # "refund")
    /\ t.atValidator = IF Keeps(a.step) THEN 1 ELSE 0
    /\ t.others = 0
    /\ t.paid > 0 => MayPay(a) /\ ~t.paidTokens
    /\ IF Sponsored(a) THEN BringsEnough(a, t, Brought(a)) ELSE t.paid <= MaxPayout(a)

(* checkDeposit and checkTopUp, external: an ADA channel's output holds    *)
(* what it held and what the step puts in; a top-up spends the channel.    *)
FundsChannel(a, t) ==
    /\ a.step = "topUp" => "channel" \in t.spends
    /\ a.channel.ada =>
         t.lovelace = a.adds + (IF a.step = "open" THEN 0 ELSE a.channel.lovelace)

(* ownInputsOf: what else a sponsored refund spends is this wallet's by    *)
(* the chain; any other refund spends the channel alone.                   *)
RefundInputs(a, t) ==
    t.spends \subseteq IF Sponsored(a) THEN {"channel", "own"} ELSE {"channel"}

(* Mutant: a close may put the channel back at another value. *)
StepOfAnyValue(a, t) ==
    IF a.step \in {"open", "topUp"} THEN FundsChannel(a, t)
    ELSE "channel" \in t.spends /\ t.redeems = a.step /\ t.witnessed

NoStepProblem(a, t) ==
    IF a.step \in {"open", "topUp"} THEN FundsChannel(a, t)
    ELSE /\ "channel" \in t.spends
         /\ t.redeems = a.step
         /\ t.witnessed
         /\ a.step = "refund" => RefundInputs(a, t) /\ t.bothSign
         /\ a.step = "close" => t.atValidator = 1 /\ t.kept /\ t.lovelace = a.channel.lovelace

(***************************************************************************)
(* authorizeChannel up to the policy: a sponsored step's offer is read     *)
(* from the chain, and a sponsored refund is for a channel whose reserve   *)
(* is the seller's.                                                        *)
(***************************************************************************)
CheckChannelTx(a, t) ==
    /\ Sponsored(a) =>
         /\ SponsorOffer(a)
         /\ a.step = "refund" => a.channel.reserveFrom = "seller"
    /\ NoStepProblem(a, t)
    /\ NoSummaryProblem(a, t)

-----------------------------------------------------------------------------
(***************************************************************************)
(* The requests.  Only an opening, a top-up or a refund may be said to be  *)
(* sponsored.                                                              *)
(***************************************************************************)
Payment(w) == [step |-> "pay", want |-> w]

StepAsked(step, c, adds, o) == [step |-> step, channel |-> c, adds |-> adds, offer |-> o]

OffersFor(step) ==
    IF step \in {"open", "topUp", "refund"} THEN Offers \cup {NoOffer} ELSE {NoOffer}

ChecksInit ==
    /\ verdict = "unchecked"
    /\ \/ /\ request \in {Payment(w) : w \in Authorised}
          /\ tx \in Payments
       \/ \E step \in ChannelStep, c \in Channels :
              /\ request \in {StepAsked(step, c, adds, o) : adds \in Deposits, o \in OffersFor(step)}
              /\ tx \in Steps

Judge(fine) ==
    /\ verdict = "unchecked"
    /\ verdict' = IF fine THEN "handed over" ELSE "refused"
    /\ UNCHANGED <<request, tx>>

CheckPayment == request.step = "pay" /\ Judge(NoMismatch(tx, request.want))

AuthorizeChannel == request.step # "pay" /\ Judge(CheckChannelTx(request, tx))

ChecksNext == CheckPayment \/ AuthorizeChannel

ChecksSpec == ChecksInit /\ [][ChecksNext]_checkvars

-----------------------------------------------------------------------------
(***************************************************************************)
(* Properties.                                                             *)
(***************************************************************************)
HandedOver == verdict = "handed over"

(* What the wallet is short of once a payment lands: all that goes to      *)
(* anyone but itself.                                                      *)
LostBy(t, w) == t.extras + t.fee + t.others + IF w.own THEN 0 ELSE t.coin

(* What sign enters in the ledger for it: the payment and its overhead.    *)
Counted(t, w) == InLovelace(w) + OverheadOf(t, w)

(***************************************************************************)
(* A payment that is handed over takes no more lovelace out of the wallet  *)
(* than the ledger counts for it, and beyond the payment no more than one  *)
(* fee and one ride, whatever the builder or the provider's protocol       *)
(* parameters did; and the payee is paid.                                  *)
(***************************************************************************)
PaymentsCostWhatIsCounted ==
    HandedOver /\ request.step = "pay" =>
        LET w == request.want
        IN  /\ LostBy(tx, w) <= Counted(tx, w)
            /\ Counted(tx, w) <= InLovelace(w) + MaxFee + MaxRide
            /\ PaidIn(tx, w.asset) >= w.amount

(* What the wallet's own ADA loses by a channel step: all that goes        *)
(* elsewhere, less what the channel and an offer that is not its own bring.*)
LostByStep(a, t) ==
    t.extras + t.fee + t.others + t.paid + t.lovelace
      - (IF a.step # "open" /\ "channel" \in t.spends THEN a.channel.lovelace ELSE 0)
      - (IF Sponsored(a) /\ "offer" \in t.spends THEN (IF a.offer.mine THEN 0 ELSE a.offer.onChain) ELSE 0)

(* What the seller may still claim of a channel's ADA: of an ADA channel   *)
(* what is signed and not redeemed, of a token channel nothing.  ("A token *)
(* channel's refund pays the seller nothing", summaryProblem.)             *)
OwedInAda(c) == IF c.ada THEN Over(c.signed, c.redeemed) ELSE 0

(* The ADA a step puts in the channel: of an ADA channel what was          *)
(* authorised, of a token channel whatever is there, which checkDeposit    *)
(* and checkTopUp alone bound.                                             *)
PutIn(a, t) ==
    IF a.channel.ada THEN a.adds
    ELSE t.lovelace - (IF a.step = "open" THEN 0 ELSE a.channel.lovelace)

(* What a step this wallet pays for is meant to cost its own ADA.  All of  *)
(* the channel comes home but what the seller is owed, at a refund.        *)
MeantToCost(a, t) ==
    CASE a.step \in {"open", "topUp"} -> PutIn(a, t)
      [] a.step = "close" -> 0
      [] a.step = "refund" -> OwedInAda(a.channel) - a.channel.lovelace
      [] a.step \in {"end", "elapse"} -> -a.channel.lovelace

(* The exception: the lovelace a refund of a token channel pays the seller *)
(* is compared with the tokens that are signed and not redeemed.           *)
ComparedWithTokens(a) ==
    /\ a.step = "refund" /\ ~Sponsored(a)
    /\ ~a.channel.ada /\ a.channel.signed > a.channel.redeemed

PaidForTokens(a, t) == IF ComparedWithTokens(a) THEN t.paid ELSE 0

(***************************************************************************)
(* A step the seller's offer pays for costs this wallet no ADA at all, and *)
(* any other costs it what the step is for and one bounded fee, whatever   *)
(* the builder answered with: an opening or a top-up the ADA authorised, a *)
(* refund what the seller is owed in ADA, any other step nothing.  But for *)
(* what a refund pays the seller of a token channel with tokens signed and *)
(* not redeemed: "none of it may go to the seller" (channelTx.test.ts),    *)
(* and summaryProblem sees to that only when no token is left to redeem.   *)
(***************************************************************************)
StepsCostWhatTheyAreFor ==
    HandedOver /\ request.step # "pay" =>
        LostByStep(request, tx) - PaidForTokens(request, tx)
            <= IF Sponsored(request) THEN 0 ELSE MeantToCost(request, tx) + FEE_MAX

TypeOK ==
    /\ verdict \in {"unchecked", "handed over", "refused"}
    /\ \/ /\ request.step = "pay"
          /\ request.want \in Authorised
          /\ tx \in Payments
       \/ /\ request.step \in ChannelStep
          /\ request.channel \in Channels
          /\ request.adds \in Deposits
          /\ request.offer \in OffersFor(request.step)
          /\ tx \in Steps
=============================================================================
