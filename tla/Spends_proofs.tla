---------------------------- MODULE Spends_proofs ----------------------------
(***************************************************************************)
(* What a signed transaction costs the wallet, and when what was counted   *)
(* for it is given back: the checks of TxChecks and the pass of Expiry.    *)
(*                                                                         *)
(* TxChecks, for every bound, every authorisation, every channel and every *)
(* transaction a builder could answer with: what is let through costs the  *)
(* wallet what was counted or authorised.  The arithmetic is two lemmas    *)
(* about the checks alone.  The invariant that carries them says what a    *)
(* verdict stands for: a transaction is handed over only when the check of *)
(* its own kind passed.                                                    *)
(*                                                                         *)
(* Expiry, for any number of transactions, any times to live, any batch,   *)
(* any lag and rollback the margin covers, and a chain of any length: what *)
(* is given back never lands, all of it is given back, and the rotation of *)
(* the batches leaves nothing out.                                         *)
(***************************************************************************)
EXTENDS TxChecks, Expiry, FiniteSetTheorems, SequenceTheorems, WellFoundedInduction, TLAPS

(***************************************************************************)
(* The payment lemma: a transaction with no mismatch costs what the ledger *)
(* counts, and its overhead is within one fee and one ride.                *)
(***************************************************************************)
LEMMA NoMismatchCosts ==
    ASSUME NEW w \in Authorised, NEW t \in Payments, NoMismatch(t, w)
    PROVE  /\ LostBy(t, w) <= Counted(t, w)
           /\ Counted(t, w) <= InLovelace(w) + MaxFee + MaxRide
           /\ PaidIn(t, w.asset) >= w.amount
<1>1. w \in Authorisation /\ t \in SignedTransaction
  BY ChecksAssumption
<1>2. /\ w.own \in BOOLEAN /\ w.amount \in Nat
      /\ t.extras \in Nat /\ t.fee \in Nat /\ t.coin \in Nat /\ t.token \in Nat /\ t.others \in Nat
  BY <1>1 DEF Authorisation, SignedTransaction
<1>3. MaxFee \in Nat /\ MaxRide \in Nat
  BY ChecksAssumption
<1>4. InLovelace(w) \in Nat
  BY <1>2 DEF InLovelace
<1>5. t.coin <= InLovelace(w) + RideOf(t, w) \/ w.own
  BY <1>2, <1>4 DEF RideOf, Over
<1>6. /\ RideOf(t, w) \in Nat /\ RideOf(t, w) <= MaxRide
      /\ t.fee <= MaxFee /\ t.extras = 0 /\ t.others = 0
  BY <1>2, <1>4 DEF NoMismatch, RideOf, Over
<1>7. LostBy(t, w) <= Counted(t, w)
  <2>1. CASE w.own
    BY <2>1, <1>2, <1>4, <1>6 DEF LostBy, Counted, OverheadOf
  <2>2. CASE ~w.own
    BY <2>2, <1>2, <1>4, <1>5, <1>6 DEF LostBy, Counted, OverheadOf
  <2> QED BY <2>1, <2>2
<1>8. Counted(t, w) <= InLovelace(w) + MaxFee + MaxRide
  BY <1>2, <1>3, <1>4, <1>6 DEF Counted, OverheadOf
<1>9. PaidIn(t, w.asset) >= w.amount
  BY DEF NoMismatch
<1> QED BY <1>7, <1>8, <1>9

(***************************************************************************)
(* What a request for a step is made of.                                   *)
(***************************************************************************)
StepRequest(a) ==
    /\ a.step \in ChannelStep
    /\ a.channel \in Channels
    /\ a.adds \in Deposits
    /\ a.offer \in Offers \cup {NoOffer}

(***************************************************************************)
(* Conservation makes the sponsored check enough: if the offer and the     *)
(* channel cover what leaves, this wallet's own ADA covers none of it.     *)
(***************************************************************************)
LEMMA SponsoredCostsNothing ==
    ASSUME NEW a, StepRequest(a), NEW t \in Steps, Sponsored(a), CheckChannelTx(a, t)
    PROVE  LostByStep(a, t) <= 0
<1>1. /\ a.offer \in Offers /\ a.offer.lovelace \in Nat /\ a.offer.onChain = a.offer.lovelace
      /\ ~a.offer.mine
  BY ChecksAssumption DEF StepRequest, Sponsored, CheckChannelTx, SponsorOffer, OfferOnChain, Offer
<1>2. a.channel.lovelace \in Nat
  BY ChecksAssumption DEF StepRequest, Channel
<1>3. /\ t.extras = 0 /\ t.others = 0
      /\ t.fee \in Nat /\ t.paid \in Nat /\ t.lovelace \in Nat
  BY ChecksAssumption DEF CheckChannelTx, NoSummaryProblem, TxSummary
<1>4. t.lovelace + t.paid + t.fee <= Brought(a)
  BY DEF CheckChannelTx, NoSummaryProblem, BringsEnough
<1>5. /\ a.step \in {"open", "topUp", "refund"}
      /\ ("offer" \in t.spends) = (a.step # "refund")
      /\ a.step # "open" => "channel" \in t.spends
  BY DEF CheckChannelTx, NoSummaryProblem, NoStepProblem, FundsChannel
<1>6. CASE a.step = "open"
  BY <1>1, <1>2, <1>3, <1>4, <1>5, <1>6 DEF LostByStep, Brought
<1>7. CASE a.step = "topUp"
  BY <1>1, <1>2, <1>3, <1>4, <1>5, <1>7 DEF LostByStep, Brought
<1>8. CASE a.step = "refund"
  BY <1>1, <1>2, <1>3, <1>4, <1>5, <1>8 DEF LostByStep, Brought
<1> QED BY <1>5, <1>6, <1>7, <1>8

(***************************************************************************)
(* A step of the wallet's own costs what it is for and one fee.            *)
(***************************************************************************)
LEMMA OwnStepCostsWhatItIsFor ==
    ASSUME NEW a, StepRequest(a), NEW t \in Steps, ~Sponsored(a), CheckChannelTx(a, t)
    PROVE  LostByStep(a, t) - PaidForTokens(a, t) <= MeantToCost(a, t) + FEE_MAX
<1>1. FEE_MAX \in Nat /\ a.step \in ChannelStep
  BY ChecksAssumption DEF StepRequest
<1>2. /\ a.channel.lovelace \in Nat /\ a.channel.signed \in Nat /\ a.channel.redeemed \in Nat
      /\ a.channel.ada \in BOOLEAN /\ a.adds \in Nat
  BY ChecksAssumption DEF StepRequest, Channel
<1>3. /\ t.extras = 0 /\ t.others = 0 /\ t.fee \in Nat /\ t.fee <= FEE_MAX
      /\ t.paid \in Nat /\ t.paid <= MaxPayout(a) /\ t.lovelace \in Nat
  BY ChecksAssumption DEF CheckChannelTx, NoSummaryProblem, TxSummary
<1>4. a.step # "open" => "channel" \in t.spends
  BY <1>1 DEF CheckChannelTx, NoStepProblem, FundsChannel
<1>5. LostByStep(a, t) =
        t.fee + t.paid + t.lovelace - (IF a.step # "open" THEN a.channel.lovelace ELSE 0)
  BY <1>2, <1>3, <1>4 DEF LostByStep
<1>6. a.step # "refund" => t.paid = 0 /\ PaidForTokens(a, t) = 0
  BY <1>3 DEF MaxPayout, PaidForTokens, ComparedWithTokens
<1>7. CASE a.step \in {"open", "topUp"}
  <2>1. MeantToCost(a, t) = PutIn(a, t)
    BY <1>7 DEF MeantToCost
  <2>2. CASE a.channel.ada
    <3>1. t.lovelace = a.adds + (IF a.step = "open" THEN 0 ELSE a.channel.lovelace)
      BY <1>7, <2>2 DEF CheckChannelTx, NoStepProblem, FundsChannel
    <3>2. PutIn(a, t) = a.adds
      BY <2>2 DEF PutIn
    <3> QED BY <1>1, <1>2, <1>3, <1>5, <1>6, <1>7, <2>1, <3>1, <3>2
  <2>3. CASE ~a.channel.ada
    <3>1. PutIn(a, t) = t.lovelace - (IF a.step = "open" THEN 0 ELSE a.channel.lovelace)
      BY <2>3 DEF PutIn
    <3> QED BY <1>1, <1>2, <1>3, <1>5, <1>6, <1>7, <2>1, <3>1
  <2> QED BY <2>2, <2>3
<1>8. CASE a.step = "close"
  <2>1. t.lovelace = a.channel.lovelace
    BY <1>8 DEF CheckChannelTx, NoStepProblem
  <2>2. MeantToCost(a, t) = 0
    BY <1>8 DEF MeantToCost
  <2> QED BY <1>1, <1>2, <1>3, <1>5, <1>6, <1>8, <2>1, <2>2
<1>9. a.step \in {"refund", "end", "elapse"} => t.lovelace = 0
  BY ChecksAssumption DEF CheckChannelTx, NoSummaryProblem, Keeps
<1>10. CASE a.step \in {"end", "elapse"}
  <2>1. MeantToCost(a, t) = -a.channel.lovelace
    BY <1>10 DEF MeantToCost
  <2> QED BY <1>1, <1>2, <1>3, <1>5, <1>6, <1>9, <1>10, <2>1
<1>11. CASE a.step = "refund"
  <2>1. LostByStep(a, t) = t.fee + t.paid - a.channel.lovelace
    BY <1>2, <1>3, <1>5, <1>9, <1>11
  <2>2. MeantToCost(a, t) = OwedInAda(a.channel) - a.channel.lovelace
    BY <1>11 DEF MeantToCost
  <2>3. OwedInAda(a.channel) \in Nat
    BY <1>2 DEF OwedInAda, Over
  <2>4. t.paid - PaidForTokens(a, t) <= OwedInAda(a.channel)
    BY <1>2, <1>3, <1>11 DEF MaxPayout, Over, OwedInAda, PaidForTokens, ComparedWithTokens
  <2>5. PaidForTokens(a, t) \in Nat
    BY <1>3 DEF PaidForTokens
  <2> QED BY <1>1, <1>2, <1>3, <2>1, <2>2, <2>3, <2>4, <2>5
<1> QED BY <1>1, <1>7, <1>8, <1>10, <1>11 DEF ChannelStep

-----------------------------------------------------------------------------
(***************************************************************************)
(* What a verdict stands for: handed over means the check of the request's *)
(* own kind passed.                                                        *)
(***************************************************************************)
VerdictIsChecked ==
    HandedOver => IF request.step = "pay" THEN NoMismatch(tx, request.want) ELSE CheckChannelTx(request, tx)

ChecksInv == TypeOK /\ VerdictIsChecked

(***************************************************************************)
(* Every request TxChecks starts from is a payment the policy allowed or a *)
(* step of a known channel.                                                *)
(***************************************************************************)
LEMMA InitChecksInv == ChecksInit => ChecksInv
<1> SUFFICES ASSUME ChecksInit PROVE ChecksInv
  OBVIOUS
<1>1. VerdictIsChecked
  BY DEF ChecksInit, VerdictIsChecked, HandedOver
<1>2. CASE request \in {Payment(w) : w \in Authorised} /\ tx \in Payments
  BY <1>1, <1>2 DEF ChecksInit, ChecksInv, TypeOK, Payment
<1>3. CASE \E step \in ChannelStep, c \in Channels :
              /\ request \in {StepAsked(step, c, adds, o) : adds \in Deposits, o \in OffersFor(step)}
              /\ tx \in Steps
  <2>1. PICK step \in ChannelStep, c \in Channels :
              /\ request \in {StepAsked(step, c, adds, o) : adds \in Deposits, o \in OffersFor(step)}
              /\ tx \in Steps
    BY <1>3
  <2>2. PICK adds \in Deposits, o \in OffersFor(step) : request = StepAsked(step, c, adds, o)
    BY <2>1
  <2>3. request.step = step /\ request.channel = c /\ request.adds = adds /\ request.offer = o
    BY <2>2 DEF StepAsked
  <2>4. TypeOK
    BY <2>1, <2>2, <2>3 DEF ChecksInit, TypeOK
  <2> QED BY <1>1, <2>4 DEF ChecksInv
<1> QED BY <1>2, <1>3 DEF ChecksInit

(***************************************************************************)
(* A check changes the verdict and nothing else.                           *)
(***************************************************************************)
LEMMA NextChecksInv == ChecksInv /\ [ChecksNext]_checkvars => ChecksInv'
<1> SUFFICES ASSUME ChecksInv, [ChecksNext]_checkvars PROVE ChecksInv'
  OBVIOUS
<1>1. request' = request /\ tx' = tx
  BY DEF ChecksNext, CheckPayment, AuthorizeChannel, Judge, checkvars
<1>2. TypeOK'
  BY <1>1 DEF ChecksInv, TypeOK, ChecksNext, CheckPayment, AuthorizeChannel, Judge, checkvars
<1>3. VerdictIsChecked'
  <2>1. CASE CheckPayment
    BY <2>1, <1>1 DEF CheckPayment, Judge, VerdictIsChecked, HandedOver
  <2>2. CASE AuthorizeChannel
    BY <2>2, <1>1 DEF AuthorizeChannel, Judge, VerdictIsChecked, HandedOver
  <2>3. CASE UNCHANGED checkvars
    BY <2>3, <1>1 DEF checkvars, ChecksInv, VerdictIsChecked, HandedOver
  <2> QED BY <2>1, <2>2, <2>3 DEF ChecksNext
<1> QED BY <1>2, <1>3 DEF ChecksInv

(***************************************************************************)
(* The request is well formed and a transaction that was handed over       *)
(* passed the check of its own kind.                                       *)
(***************************************************************************)
THEOREM VerdictsAreChecked == ChecksSpec => []ChecksInv
BY InitChecksInv, NextChecksInv, PTL DEF ChecksSpec

(***************************************************************************)
(* Whatever the builder answers with, a payment signerd hands over costs   *)
(* the wallet no more than the ledger counts for it, and never more than   *)
(* one fee and one ride beyond the payment.                                *)
(***************************************************************************)
THEOREM PaymentCost == ChecksSpec => []PaymentsCostWhatIsCounted
<1>1. ChecksInv => PaymentsCostWhatIsCounted
  <2> SUFFICES ASSUME ChecksInv, HandedOver, request.step = "pay"
               PROVE  /\ LostBy(tx, request.want) <= Counted(tx, request.want)
                      /\ Counted(tx, request.want) <= InLovelace(request.want) + MaxFee + MaxRide
                      /\ PaidIn(tx, request.want.asset) >= request.want.amount
    BY DEF PaymentsCostWhatIsCounted
  <2>1. request.want \in Authorised /\ tx \in Payments
    BY DEF ChecksInv, TypeOK, ChannelStep
  <2>2. NoMismatch(tx, request.want)
    BY DEF ChecksInv, VerdictIsChecked
  <2> QED BY <2>1, <2>2, NoMismatchCosts
<1> QED BY <1>1, VerdictsAreChecked, PTL

(***************************************************************************)
(* Whatever the builder answers with and whatever the seller offers, a     *)
(* sponsored step costs this wallet no ADA, and any other step what it is  *)
(* for and one bounded fee, but for the ADA that a token channel's refund  *)
(* may pay the seller against tokens.                                      *)
(***************************************************************************)
THEOREM StepCost == ChecksSpec => []StepsCostWhatTheyAreFor
<1>1. ChecksInv => StepsCostWhatTheyAreFor
  <2> SUFFICES ASSUME ChecksInv, HandedOver, request.step # "pay"
               PROVE  LostByStep(request, tx) - PaidForTokens(request, tx)
                        <= IF Sponsored(request) THEN 0 ELSE MeantToCost(request, tx) + FEE_MAX
    BY DEF StepsCostWhatTheyAreFor
  <2>1. StepRequest(request) /\ tx \in Steps
    BY DEF ChecksInv, TypeOK, StepRequest, OffersFor
  <2>2. CheckChannelTx(request, tx)
    BY DEF ChecksInv, VerdictIsChecked
  <2>3. CASE Sponsored(request)
    <3>1. PaidForTokens(request, tx) = 0
      BY <2>3 DEF PaidForTokens, ComparedWithTokens
    <3>2. LostByStep(request, tx) <= 0
      BY <2>1, <2>2, <2>3, SponsoredCostsNothing
    <3>3. LostByStep(request, tx) \in Int
      BY <2>1, ChecksAssumption DEF LostByStep, StepRequest, TxSummary, Channel, Offer, Sponsored
    <3> QED BY <2>3, <3>1, <3>2, <3>3
  <2>4. CASE ~Sponsored(request)
    BY <2>1, <2>2, <2>4, OwnStepCostsWhatItIsFor
  <2> QED BY <2>3, <2>4
<1> QED BY <1>1, VerdictsAreChecked, PTL

-----------------------------------------------------------------------------
(***************************************************************************)
(* The chain.  No block holds a transaction after its time to live, and    *)
(* the tip is never further than a rollback below the highest one.         *)
(***************************************************************************)
ChainOK ==
    /\ tip \in Nat /\ top \in Nat
    /\ tip <= top /\ top <= tip + Depth
    /\ block \in [Txs -> Nat \cup {None}]
    /\ \A t \in Txs : block[t] # None => block[t] <= tip /\ block[t] <= Ttl[t]

(***************************************************************************)
(* A transaction is dead when it is in no block and the chain has been     *)
(* past its time to live by the margin.  It stays dead: a rollback goes    *)
(* back less than the margin.                                              *)
(***************************************************************************)
Dead(t) == block[t] = None /\ top > Ttl[t] + Margin

PassOK ==
    /\ ledger \in Seq(Spends) /\ snapshot \in Seq(Spends)
    /\ due \subseteq DOMAIN snapshot /\ asked \subseteq due /\ absent \subseteq DOMAIN snapshot
    /\ unsigned \subseteq Txs
    /\ pass \in {"idle", "tip", "asking", "releasing"}
    /\ pass = "releasing" => absent # {}
    /\ pass # "asking" => due = {}
    /\ pass # "releasing" => absent = {}
    /\ \A i \in due : snapshot[i].tx \in Txs /\ top > Ttl[snapshot[i].tx] + Margin

NothingDeadIsLeft ==
    /\ \A i \in absent : snapshot[i].tx \in Txs /\ Dead(snapshot[i].tx)
    /\ \A t \in released : t \in Txs /\ Dead(t)

ReleaseInv == ChainOK /\ PassOK /\ NothingDeadIsLeft

LEMMA ExpiryParameters ==
    /\ \A t \in Txs : Ttl[t] \in Nat
    /\ Margin \in Nat /\ Lag \in Nat /\ Depth \in Nat
    /\ Lag + Depth <= Margin
    /\ None \notin Txs /\ None \notin Nat
    /\ Batch \in Nat \ {0}
BY ExpiryAssumption

LEMMA ReleaseInit == Init => ReleaseInv
<1> SUFFICES ASSUME Init PROVE ReleaseInv
  OBVIOUS
<1>1. ChainOK
  BY ExpiryParameters DEF Init, ChainOK
<1>2. ledger \in Seq(Spends)
  <2>1. ledger = <<Voucher>> /\ Voucher \in Spends
    BY Zenon DEF Init, Spends
  <2> QED BY <2>1
<1>3. snapshot \in Seq(Spends)
  BY EmptySeq DEF Init
<1> QED BY <1>1, <1>2, <1>3 DEF Init, ReleaseInv, PassOK, NothingDeadIsLeft

LEMMA StaysDead ==
    ASSUME ChainOK, NEW t \in Txs, Dead(t), top' \in Nat, top' >= top,
           block'[t] = None
    PROVE  Dead(t)'
BY ExpiryParameters DEF Dead, ChainOK

(***************************************************************************)
(* What only the chain changes, and what only signerd does.                *)
(***************************************************************************)
LEMMA ChainRests ==
    ASSUME ChainOK, UNCHANGED chain
    PROVE  ChainOK' /\ \A t : Dead(t) => Dead(t)'
<1>1. tip' = tip /\ top' = top /\ block' = block
  BY DEF chain
<1> QED BY <1>1 DEF ChainOK, Dead

(***************************************************************************)
(* A block.  None takes a transaction that is dead, for the tip is past    *)
(* its time to live however far a rollback has taken it back.              *)
(***************************************************************************)
LEMMA Advances ==
    ASSUME ReleaseInv, Advance PROVE ReleaseInv'
<1>1. PICK landing \in SUBSET {t \in Txs \ unsigned : block[t] = None /\ tip' <= Ttl[t]} :
           block' = [t \in Txs |-> IF t \in landing THEN tip' ELSE block[t]]
  BY DEF Advance
<1>2. /\ tip' = tip + 1 /\ top' = IF tip' > top THEN tip' ELSE top
      /\ UNCHANGED <<ledger, pass, snapshot, due, asked, absent, unsigned, released>>
  BY DEF Advance, lists
<1>3. tip' \in Nat /\ top' \in Nat /\ top' >= top /\ tip' <= top' /\ top' <= tip' + Depth
  BY <1>2, ExpiryParameters DEF ReleaseInv, ChainOK
<1>4. ChainOK'
  <2>1. block' \in [Txs -> Nat \cup {None}]
    BY <1>1, <1>3 DEF ReleaseInv, ChainOK
  <2>2. ASSUME NEW t \in Txs, block'[t] # None PROVE block'[t] <= tip' /\ block'[t] <= Ttl[t]
    <3>1. CASE t \in landing
      BY <1>1, <1>3, <3>1
    <3>2. CASE t \notin landing
      <4>1. block'[t] = block[t] /\ block[t] # None
        BY <1>1, <2>2, <3>2
      <4> QED BY <1>2, <4>1, ExpiryParameters DEF ReleaseInv, ChainOK
    <3> QED BY <3>1, <3>2
  <2> QED BY <1>3, <2>1, <2>2 DEF ChainOK
<1>5. ASSUME NEW t \in Txs, Dead(t) PROVE Dead(t)'
  <2>1. t \notin landing
    BY <1>1, <1>2, <1>5, ExpiryParameters DEF Dead, ReleaseInv, ChainOK
  <2>2. block'[t] = None
    BY <1>1, <1>5, <2>1 DEF Dead
  <2> QED BY <1>3, <1>5, <2>2, StaysDead DEF ReleaseInv
<1>6. PassOK'
  <2>1. \A i \in due : snapshot[i].tx \in Txs /\ top' > Ttl[snapshot[i].tx] + Margin
    BY <1>3, ExpiryParameters DEF ReleaseInv, ChainOK, PassOK
  <2> QED BY <1>2, <2>1 DEF ReleaseInv, PassOK
<1>7. NothingDeadIsLeft'
  BY <1>2, <1>5 DEF ReleaseInv, NothingDeadIsLeft
<1> QED BY <1>4, <1>6, <1>7 DEF ReleaseInv

LEMMA RollsBack ==
    ASSUME ReleaseInv, NEW slot \in 0 .. tip, Rollback(slot) PROVE ReleaseInv'
<1>1. /\ slot < tip /\ slot + Depth >= top /\ tip' = slot /\ top' = top
      /\ block' = [t \in Txs |-> IF block[t] # None /\ block[t] > slot THEN None ELSE block[t]]
      /\ UNCHANGED <<ledger, pass, snapshot, due, asked, absent, unsigned, released>>
  BY DEF Rollback, lists
<1>2. ChainOK'
  BY <1>1, ExpiryParameters DEF ReleaseInv, ChainOK
<1>3. ASSUME NEW t \in Txs, Dead(t) PROVE Dead(t)'
  BY <1>1, <1>3 DEF Dead
<1>4. PassOK'
  BY <1>1 DEF ReleaseInv, PassOK
<1>5. NothingDeadIsLeft'
  BY <1>1, <1>3 DEF ReleaseInv, NothingDeadIsLeft
<1> QED BY <1>2, <1>4, <1>5 DEF ReleaseInv

-----------------------------------------------------------------------------
(***************************************************************************)
(* The ledger without one of its spends.                                   *)
(***************************************************************************)
At(l, t) == {k \in DOMAIN l : l[k].tx = t}

IsWithout(m, l, i) ==
    /\ m \in Seq(Spends) /\ l \in Seq(Spends) /\ i \in DOMAIN l
    /\ Len(m) = Len(l) - 1
    /\ \A k \in 1 .. Len(m) : m[k] = l[IF k < i THEN k ELSE k + 1]

LEMMA RemoveIsWithout ==
    \A l \in Seq(Spends) : \A i \in DOMAIN l : IsWithout(RemoveAt(l, i), l, i)
<1> SUFFICES ASSUME NEW l \in Seq(Spends), NEW i \in DOMAIN l PROVE IsWithout(RemoveAt(l, i), l, i)
  OBVIOUS
<1> DEFINE a == SubSeq(l, 1, i - 1)
           b == SubSeq(l, i + 1, Len(l))
<1>1. Len(l) \in Nat /\ i \in 1 .. Len(l) /\ \A k \in 1 .. Len(l) : l[k] \in Spends
  OBVIOUS
<1>2. a \in Seq(Spends) /\ Len(a) = i - 1 /\ \A k \in 1 .. i - 1 : a[k] = l[k]
  <2>1. \A k \in 1 .. i - 1 : l[k] \in Spends
    BY <1>1
  <2> QED BY <1>1, <2>1, SubSeqProperties
<1>3. b \in Seq(Spends) /\ Len(b) = Len(l) - i /\ \A k \in 1 .. Len(l) - i : b[k] = l[i + k]
  <2>1. \A k \in i + 1 .. Len(l) : l[k] \in Spends
    BY <1>1
  <2>2. /\ b \in Seq(Spends)
        /\ Len(b) = IF i + 1 <= Len(l) THEN Len(l) - (i + 1) + 1 ELSE 0
        /\ \A k \in 1 .. Len(l) - (i + 1) + 1 : b[k] = l[i + 1 + k - 1]
    <3>1. i + 1 \in Int /\ Len(l) \in Int
      BY <1>1
    <3> QED BY <2>1, <3>1, SubSeqProperties
  <2>3. Len(l) - (i + 1) + 1 = Len(l) - i /\ \A k \in 1 .. Len(l) - i : i + 1 + k - 1 = i + k
    BY <1>1
  <2> HIDE DEF b
  <2> QED BY <1>1, <2>2, <2>3
<1> HIDE DEF a, b
<1>4. /\ a \o b \in Seq(Spends) /\ Len(a \o b) = Len(a) + Len(b)
      /\ \A k \in 1 .. Len(a) + Len(b) : (a \o b)[k] = IF k <= Len(a) THEN a[k] ELSE b[k - Len(a)]
  BY <1>2, <1>3, ConcatProperties
<1>5. ASSUME NEW k \in 1 .. Len(a \o b) PROVE (a \o b)[k] = l[IF k < i THEN k ELSE k + 1]
  <2>1. CASE k < i
    BY <1>1, <1>2, <1>3, <1>4, <2>1
  <2>2. CASE k >= i
    <3>1. k - Len(a) \in 1 .. Len(l) - i /\ i + (k - Len(a)) = k + 1
      <4>1. Len(a) = i - 1 /\ Len(a \o b) = Len(l) - 1 /\ k \in 1 .. Len(l) - 1
        BY <1>1, <1>2, <1>3, <1>4
      <4> QED BY <1>1, <2>2, <4>1
    <3>2. (a \o b)[k] = b[k - Len(a)]
      BY <1>1, <1>2, <1>3, <1>4, <2>2
    <3> QED BY <1>1, <1>3, <2>2, <3>1, <3>2
  <2> QED BY <1>1, <2>1, <2>2
<1>6. Len(a \o b) = Len(l) - 1
  BY <1>1, <1>2, <1>3, <1>4
<1> QED BY <1>4, <1>5, <1>6 DEF IsWithout, RemoveAt, a, b

LEMMA TailIsWithout ==
    \A l \in Seq(Spends) : l # <<>> => IsWithout(Tail(l), l, 1)
<1> SUFFICES ASSUME NEW l \in Seq(Spends), l # <<>> PROVE IsWithout(Tail(l), l, 1)
  OBVIOUS
<1>1. /\ Tail(l) \in Seq(Spends) /\ Len(Tail(l)) = Len(l) - 1
      /\ \A k \in 1 .. Len(Tail(l)) : Tail(l)[k] = l[k + 1]
  BY HeadTailProperties
<1>2. 1 \in DOMAIN l
  BY EmptySeq
<1> QED BY <1>1, <1>2 DEF IsWithout

(***************************************************************************)
(* The first of some places.                                               *)
(***************************************************************************)
LEMMA Least == \A S \in SUBSET Nat : S # {} => \E i \in S : \A j \in S : i <= j
<1> SUFFICES ASSUME NEW S \in SUBSET Nat, S # {} PROVE \E i \in S : \A j \in S : i <= j
  OBVIOUS
<1>1. \E x \in S : \A y \in S : ~(<<y, x>> \in OpToRel(<, Nat))
  BY NatLessThanWellFounded, WFMin
<1>2. PICK x \in S : \A y \in S : ~(<<y, x>> \in OpToRel(<, Nat))
  BY <1>1
<1>3. \A y \in S : ~(y < x)
  BY <1>2 DEF OpToRel
<1> QED BY <1>3

LEMMA FirstIsIn ==
    \A S \in SUBSET Nat : S # {} => First(S) \in S /\ \A j \in S : First(S) <= j
BY Least DEF First

(***************************************************************************)
(* A spend with a time to live is a transaction's.                         *)
(***************************************************************************)
LEMMA LookupableIsTx == \A s \in Spends : Lookupable(s) => s.tx \in Txs
<1> SUFFICES ASSUME NEW s \in Spends, Lookupable(s) PROVE s.tx \in Txs
  OBVIOUS
<1>1. s # Voucher
  BY DEF Lookupable, Voucher
<1>2. PICK t \in Txs : s \in {PaymentSpend(t), OverheadSpend(t)}
  BY <1>1 DEF Spends
<1> QED BY <1>2 DEF PaymentSpend, OverheadSpend

(***************************************************************************)
(* The end of a pass, and what leaves the lists alone.                     *)
(***************************************************************************)
LEMMA PassEnds ==
    ASSUME PassOK, NothingDeadIsLeft, EndPass, ledger' \in Seq(Spends), unsigned' = unsigned,
           NothingDeadIsLeft => \A t \in released' : t \in Txs /\ Dead(t)'
    PROVE  PassOK' /\ NothingDeadIsLeft'
<1>1. snapshot' = <<>> /\ snapshot' \in Seq(Spends)
  BY EmptySeq DEF EndPass
<1> QED BY <1>1 DEF EndPass, PassOK, NothingDeadIsLeft

LEMMA ListsRest ==
    ASSUME PassOK, NothingDeadIsLeft, UNCHANGED <<pass, lists, chain, released>>,
           ledger' \in Seq(Spends), unsigned' \subseteq Txs, ChainOK
    PROVE  PassOK' /\ NothingDeadIsLeft'
<1>1. UNCHANGED <<pass, snapshot, due, asked, absent, released, top>>
  BY DEF lists, chain
<1>2. \A t : Dead(t) => Dead(t)'
  BY ChainRests
<1> QED BY <1>1, <1>2 DEF PassOK, NothingDeadIsLeft

(***************************************************************************)
(* What the answers say.  A row that says no comes from a backend that     *)
(* has read the chain to within Lag of its tip; the tip is within Depth of *)
(* its highest; the margin is both.  So that backend has read past the     *)
(* time to live, and there is no block left the transaction could be in.   *)
(***************************************************************************)
LEMMA AbsentIsDead ==
    ASSUME ChainOK, NEW t \in Txs, top > Ttl[t] + Margin,
           NEW rows \in Rows(t), Answer(rows) = "absent"
    PROVE  Dead(t)
<1> SUFFICES ASSUME block[t] # None PROVE FALSE
  BY DEF Dead
<1>1. t \notin Mute
  <2>1. t \in Mute => rows = <<>>
    BY DEF Rows
  <2>2. ToSet(<<>>) = {}
    BY DEF ToSet
  <2> QED BY <2>1, <2>2 DEF Answer
<1>2. PICK near \in NearTip : rows = <<Row(t, near)>> \/ \E far \in 0 .. tip : rows = <<Row(t, near), Row(t, far)>>
  BY <1>1 DEF Rows
<1>3. Row(t, near) \in ToSet(rows)
  <2>1. CASE rows = <<Row(t, near)>>
    BY <2>1 DEF ToSet
  <2>2. CASE \E far \in 0 .. tip : rows = <<Row(t, near), Row(t, far)>>
    <3>1. PICK far \in 0 .. tip : rows = <<Row(t, near), Row(t, far)>>
      BY <2>2
    <3>2. 1 \in DOMAIN rows /\ rows[1] = Row(t, near)
      BY <3>1
    <3> QED BY <3>2 DEF ToSet
  <2> QED BY <1>2, <2>1, <2>2
<1>4. Row(t, near) # "block"
  BY <1>3 DEF Answer
<1>5. ~(block[t] <= near)
  BY <1>4 DEF Row
<1>6. near \in Nat /\ near + Lag >= tip
  BY DEF NearTip, ChainOK
<1>7. block[t] \in Nat /\ block[t] <= Ttl[t]
  BY DEF ChainOK
<1> QED BY <1>5, <1>6, <1>7, ExpiryParameters DEF ChainOK

LEMMA ReleaseRelease ==
    ASSUME ReleaseInv, Release PROVE ReleaseInv'
<1> DEFINE i == First(absent)
           t == snapshot[i].tx
<1>1. /\ pass = "releasing"
      /\ IF SpendsOf(t) = {} THEN UNCHANGED <<ledger, released>>
         ELSE /\ ledger' = RemoveAt(ledger, First(SpendsOf(t)))
              /\ released' = released \cup {t}
      /\ IF absent = {i} THEN EndPass
         ELSE absent' = absent \ {i} /\ UNCHANGED <<pass, snapshot, due, asked>>
      /\ UNCHANGED <<unsigned, chain>>
  BY DEF Release
<1>2. absent # {} /\ absent \subseteq Nat
  BY <1>1 DEF ReleaseInv, PassOK
<1>3. i \in absent
  BY <1>2, FirstIsIn
<1>4. t \in Txs /\ Dead(t)
  BY <1>3 DEF ReleaseInv, NothingDeadIsLeft
<1>5. SpendsOf(t) # {} => First(SpendsOf(t)) \in DOMAIN ledger
  <2>1. SpendsOf(t) \subseteq DOMAIN ledger /\ DOMAIN ledger \subseteq Nat
    BY DEF SpendsOf, ReleaseInv, PassOK
  <2> QED BY <2>1, FirstIsIn
<1> HIDE DEF i, t
<1>6. ledger' \in Seq(Spends)
  <2>1. ledger \in Seq(Spends)
    BY DEF ReleaseInv, PassOK
  <2>2. ASSUME SpendsOf(t) # {} PROVE RemoveAt(ledger, First(SpendsOf(t))) \in Seq(Spends)
    BY <1>5, <2>1, <2>2, RemoveIsWithout DEF IsWithout
  <2> QED BY <1>1, <2>1, <2>2
<1>7. ChainOK' /\ \A u : Dead(u) => Dead(u)'
  BY <1>1, ChainRests DEF ReleaseInv
<1>8. \A u \in released' : u \in Txs /\ Dead(u)'
  BY <1>1, <1>4, <1>7 DEF ReleaseInv, NothingDeadIsLeft
<1>9. CASE absent = {i}
  <2>1. EndPass
    BY <1>1, <1>9
  <2> QED BY <1>1, <1>6, <1>7, <1>8, <2>1, PassEnds DEF ReleaseInv
<1>10. CASE absent # {i}
  <2>1. absent' = absent \ {i} /\ UNCHANGED <<pass, snapshot, due, asked, unsigned>> /\ absent' # {}
    BY <1>1, <1>2, <1>3, <1>10
  <2>2. top' = top
    BY <1>1 DEF chain
  <2>3. PassOK'
    BY <1>6, <2>1, <2>2 DEF ReleaseInv, PassOK
  <2>4. NothingDeadIsLeft'
    BY <1>7, <1>8, <2>1 DEF ReleaseInv, NothingDeadIsLeft
  <2> QED BY <1>7, <2>3, <2>4 DEF ReleaseInv
<1> QED BY <1>9, <1>10

(***************************************************************************)
(* A payment's spends join the ledger at its end.                          *)
(***************************************************************************)
LEMMA Joined ==
    \A l, m \in Seq(Spends) :
        /\ l \o m \in Seq(Spends) /\ Len(l \o m) = Len(l) + Len(m)
        /\ \A i \in 1 .. Len(l) + Len(m) : (l \o m)[i] = IF i <= Len(l) THEN l[i] ELSE m[i - Len(l)]
BY ConcatProperties

Added(t) == IF t \in Dual THEN <<PaymentSpend(t), OverheadSpend(t)>> ELSE <<PaymentSpend(t)>>

LEMMA AddedOfOne ==
    \A t \in Txs : Added(t) \in Seq(Spends) /\ \A i \in DOMAIN Added(t) : Added(t)[i].tx = t
<1> SUFFICES ASSUME NEW t \in Txs
             PROVE  Added(t) \in Seq(Spends) /\ \A i \in DOMAIN Added(t) : Added(t)[i].tx = t
  OBVIOUS
<1>1. PaymentSpend(t) \in Spends /\ OverheadSpend(t) \in Spends
  BY DEF Spends
<1>2. PaymentSpend(t).tx = t /\ OverheadSpend(t).tx = t
  BY DEF PaymentSpend, OverheadSpend
<1>3. /\ <<PaymentSpend(t)>> \in Seq(Spends) /\ <<PaymentSpend(t), OverheadSpend(t)>> \in Seq(Spends)
  BY <1>1
<1>4. \A i \in 1 .. 2 : <<PaymentSpend(t), OverheadSpend(t)>>[i].tx = t
  BY <1>2
<1> QED BY <1>2, <1>3, <1>4 DEF Added

LEMMA SignRelease ==
    ASSUME ReleaseInv, NEW t \in Txs, Sign(t) PROVE ReleaseInv'
<1>1. /\ UNCHANGED <<pass, lists, chain, released>> /\ unsigned' = unsigned \ {t}
      /\ ledger' = ledger \o Added(t)
  BY DEF Sign, Added
<1>2. ledger' \in Seq(Spends)
  <2>1. ledger \in Seq(Spends) /\ Added(t) \in Seq(Spends)
    BY AddedOfOne DEF ReleaseInv, PassOK
  <2> QED BY <1>1, <2>1, Joined
<1>4. unsigned' \subseteq Txs
  BY <1>1 DEF ReleaseInv, PassOK
<1>5. ChainOK'
  BY <1>1, ChainRests DEF ReleaseInv
<1> QED BY <1>1, <1>2, <1>4, <1>5, ListsRest DEF ReleaseInv

LEMMA AgeOutRelease ==
    ASSUME ReleaseInv, AgeOut PROVE ReleaseInv'
<1>1. /\ ledger # <<>> /\ ledger' = Tail(ledger)
      /\ UNCHANGED <<pass, lists, chain, released>> /\ unsigned' = unsigned
  BY DEF AgeOut
<1>2. ledger' \in Seq(Spends)
  BY <1>1, TailIsWithout DEF ReleaseInv, PassOK, IsWithout
<1>3. unsigned' \subseteq Txs
  BY <1>1 DEF ReleaseInv, PassOK
<1>4. ChainOK'
  BY <1>1, ChainRests DEF ReleaseInv
<1> QED BY <1>1, <1>2, <1>3, <1>4, ListsRest DEF ReleaseInv

LEMMA SnapshotRelease ==
    ASSUME ReleaseInv, Snapshot PROVE ReleaseInv'
<1>1. /\ pass = "idle"
      /\ \/ pass' = "tip" /\ snapshot' = ledger
         \/ UNCHANGED <<pass, snapshot>>
      /\ UNCHANGED <<ledger, due, asked, absent, unsigned, chain, released>>
  BY DEF Snapshot
<1>2. due = {} /\ asked = {} /\ absent = {}
  BY <1>1 DEF ReleaseInv, PassOK
<1>3. ChainOK' /\ \A t : Dead(t) => Dead(t)'
  BY <1>1, ChainRests DEF ReleaseInv
<1>4. PassOK'
  BY <1>1, <1>2 DEF ReleaseInv, PassOK
<1>5. NothingDeadIsLeft'
  BY <1>1, <1>2, <1>3 DEF ReleaseInv, NothingDeadIsLeft
<1> QED BY <1>3, <1>4, <1>5 DEF ReleaseInv

LEMMA BatchIsOfThem == \A places, r : BatchOf(places, r) \subseteq places
BY DEF BatchOf

(***************************************************************************)
(* The tip a provider names is not above the chain's.                      *)
(***************************************************************************)
LEMMA ReadTipRelease ==
    ASSUME ReleaseInv, NEW slot \in NearTip, ReadTip(slot) PROVE ReleaseInv'
<1> DEFINE passed == Releasable(snapshot, slot)
<1>1. /\ pass = "tip"
      /\ IF passed = {} THEN EndPass
         ELSE /\ due' = passed /\ asked' = BatchOf(passed, round) /\ pass' = "asking"
              /\ UNCHANGED <<snapshot, absent>>
      /\ UNCHANGED <<ledger, unsigned, chain, released>>
  BY DEF ReadTip
<1>2. ChainOK' /\ \A t : Dead(t) => Dead(t)'
  BY <1>1, ChainRests DEF ReleaseInv
<1>3. \A t \in released' : t \in Txs /\ Dead(t)'
  BY <1>1, <1>2 DEF ReleaseInv, NothingDeadIsLeft
<1>4. ASSUME NEW i \in passed
      PROVE  i \in DOMAIN snapshot /\ snapshot[i].tx \in Txs /\ top > Ttl[snapshot[i].tx] + Margin
  <2>1. i \in DOMAIN snapshot /\ Lookupable(snapshot[i]) /\ slot > Ttl[snapshot[i].tx] + Margin
    BY <1>4 DEF Releasable, Passed
  <2>2. snapshot[i].tx \in Txs
    BY <2>1, LookupableIsTx DEF ReleaseInv, PassOK
  <2>3. slot \in Nat /\ slot <= tip
    BY DEF NearTip, ReleaseInv, ChainOK
  <2> QED BY <2>1, <2>2, <2>3, ExpiryParameters DEF ReleaseInv, ChainOK
<1> HIDE DEF passed
<1>5. CASE passed = {}
  <2>1. EndPass
    BY <1>1, <1>5
  <2>2. ledger' \in Seq(Spends)
    BY <1>1 DEF ReleaseInv, PassOK
  <2> QED BY <1>1, <1>2, <1>3, <2>1, <2>2, PassEnds DEF ReleaseInv
<1>6. CASE passed # {}
  <2>1. /\ due' = passed /\ asked' \subseteq passed /\ pass' = "asking" /\ top' = top
        /\ UNCHANGED <<ledger, unsigned, snapshot, absent>> /\ absent = {}
    BY <1>1, <1>6, BatchIsOfThem DEF chain, ReleaseInv, PassOK
  <2>2. PassOK'
    BY <1>4, <2>1 DEF ReleaseInv, PassOK
  <2>3. NothingDeadIsLeft'
    BY <1>3, <2>1 DEF ReleaseInv, NothingDeadIsLeft
  <2> QED BY <1>2, <2>2, <2>3 DEF ReleaseInv
<1> QED BY <1>5, <1>6

LEMMA AnswersRelease ==
    ASSUME ReleaseInv, Answers PROVE ReleaseInv'
<1>1. PICK rows \in [TxsAt(asked) -> UNION {Rows(t) : t \in TxsAt(asked)}] :
           /\ \A t \in TxsAt(asked) : rows[t] \in Rows(t)
           /\ LET no == {t \in TxsAt(asked) : Answer(rows[t]) = "absent"}
              IN  IF no = {} THEN EndPass
                  ELSE /\ absent' = AbsentOf(no) /\ pass' = "releasing" /\ UNCHANGED snapshot
                       /\ due' = {} /\ asked' = {}
  BY DEF Answers
<1> DEFINE no == {t \in TxsAt(asked) : Answer(rows[t]) = "absent"}
<1>2. pass = "asking" /\ UNCHANGED <<ledger, unsigned, chain, released>>
  BY DEF Answers
<1>3. ChainOK' /\ \A t : Dead(t) => Dead(t)'
  BY <1>2, ChainRests DEF ReleaseInv
<1>4. \A t \in released' : t \in Txs /\ Dead(t)'
  BY <1>2, <1>3 DEF ReleaseInv, NothingDeadIsLeft
<1>5. ASSUME NEW t \in no PROVE (\E i \in asked : snapshot[i].tx = t) /\ t \in Txs /\ Dead(t)
  <2>1. t \in TxsAt(asked) /\ Answer(rows[t]) = "absent" /\ rows[t] \in Rows(t)
    BY <1>1
  <2>2. PICK i \in asked : t = snapshot[i].tx
    BY <2>1 DEF TxsAt
  <2>3. t \in Txs /\ top > Ttl[t] + Margin
    BY <2>2 DEF ReleaseInv, PassOK
  <2> QED BY <2>1, <2>2, <2>3, AbsentIsDead DEF ReleaseInv
<1>6. IF no = {} THEN EndPass
      ELSE /\ absent' = AbsentOf(no) /\ pass' = "releasing" /\ UNCHANGED snapshot
           /\ due' = {} /\ asked' = {}
  BY <1>1
<1> HIDE DEF no
<1>7. CASE no = {}
  <2>1. EndPass
    BY <1>6, <1>7
  <2>2. ledger' \in Seq(Spends)
    BY <1>2 DEF ReleaseInv, PassOK
  <2> QED BY <1>2, <1>3, <1>4, <2>1, <2>2, PassEnds DEF ReleaseInv
<1>8. CASE no # {}
  <2>1. /\ absent' = AbsentOf(no) /\ pass' = "releasing" /\ UNCHANGED <<ledger, unsigned, snapshot>>
        /\ due' = {} /\ asked' = {}
    BY <1>2, <1>6, <1>8
  <2>2. absent' # {} /\ absent' \subseteq DOMAIN snapshot
    <3>1. PICK t \in no : TRUE
      BY <1>8
    <3>2. PICK i \in asked : snapshot[i].tx = t
      BY <1>5, <3>1
    <3>3. i \in due /\ due \subseteq DOMAIN snapshot
      BY DEF ReleaseInv, PassOK
    <3> QED BY <2>1, <3>1, <3>2, <3>3 DEF AbsentOf
  <2>3. PassOK'
    BY <2>1, <2>2 DEF ReleaseInv, PassOK
  <2>4. \A i \in absent' : snapshot[i].tx \in no
    BY <2>1 DEF AbsentOf
  <2>5. NothingDeadIsLeft'
    BY <1>3, <1>4, <1>5, <2>1, <2>4 DEF NothingDeadIsLeft
  <2> QED BY <1>3, <2>3, <2>5 DEF ReleaseInv
<1> QED BY <1>7, <1>8

LEMMA EndsRelease ==
    ASSUME ReleaseInv, PassFails \/ Restart PROVE ReleaseInv'
<1>1. EndPass /\ UNCHANGED <<ledger, unsigned, chain, released>>
  BY DEF PassFails, Restart
<1>2. ChainOK' /\ \A t : Dead(t) => Dead(t)'
  BY <1>1, ChainRests DEF ReleaseInv
<1>3. \A t \in released' : t \in Txs /\ Dead(t)'
  BY <1>1, <1>2 DEF ReleaseInv, NothingDeadIsLeft
<1>4. ledger' \in Seq(Spends)
  BY <1>1 DEF ReleaseInv, PassOK
<1> QED BY <1>1, <1>2, <1>3, <1>4, PassEnds DEF ReleaseInv

LEMMA ReleaseStep == ReleaseInv /\ [Next]_vars => ReleaseInv'
<1> SUFFICES ASSUME ReleaseInv, [Next]_vars PROVE ReleaseInv'
  OBVIOUS
<1>1. ASSUME UNCHANGED vars PROVE ReleaseInv'
  <2>1. UNCHANGED <<ledger, unsigned, pass, lists, chain, released>>
    BY <1>1 DEF vars
  <2>2. ledger' \in Seq(Spends) /\ unsigned' \subseteq Txs /\ ChainOK'
    BY <2>1, ChainRests DEF ReleaseInv, PassOK
  <2> QED BY <2>1, <2>2, ListsRest DEF ReleaseInv
<1> QED BY <1>1, SignRelease, AgeOutRelease, Advances, RollsBack, SnapshotRelease, ReadTipRelease,
           AnswersRelease, ReleaseRelease, EndsRelease DEF Next

(***************************************************************************)
(* ReleasedNeverLands: however many transactions are signed, whatever      *)
(* their times to live, and however the provider's lag and the rollbacks   *)
(* fall within the margin, no transaction whose budget releaseExpired gave *)
(* back is ever in a block.                                                *)
(***************************************************************************)
THEOREM GivenBackNeverLands == Spec => []ReleasedNeverLands
<1>1. ReleaseInv => ReleasedNeverLands
  BY DEF ReleaseInv, NothingDeadIsLeft, Dead, ReleasedNeverLands
<1> QED BY ReleaseInit, ReleaseStep, <1>1, PTL DEF Spec

-----------------------------------------------------------------------------
(***************************************************************************)
(* A payment and its overhead.  While a pass runs the ledger has no more   *)
(* of a transaction than its copy had, for what is signed meanwhile is     *)
(* another transaction; the places the chain has moved past are all of a   *)
(* transaction or none; and so are those it gives back.                    *)
(***************************************************************************)
WholeInv ==
    /\ \A i \in DOMAIN ledger : ledger[i].tx \notin unsigned
    /\ \A i \in DOMAIN snapshot : snapshot[i].tx \notin unsigned
    /\ pass \in {"tip", "asking"} =>
         \A i \in DOMAIN snapshot :
             Cardinality(At(ledger, snapshot[i].tx)) <= Cardinality(At(snapshot, snapshot[i].tx))
    /\ \A i \in due : \A j \in DOMAIN snapshot : snapshot[j].tx = snapshot[i].tx => j \in due
    /\ BothOrNeither

Places(places, t) == {i \in places : snapshot[i].tx = t}

LEMMA BothOrNeitherByPlace ==
    BothOrNeither <=>
        \A i \in absent : Cardinality(At(ledger, snapshot[i].tx)) <= Cardinality(Places(absent, snapshot[i].tx))
BY DEF BothOrNeither, TxsAt, SpendsOf, At, Places

LEMMA AtIsFinite ==
    \A l \in Seq(Spends) : \A t : IsFiniteSet(At(l, t)) /\ Cardinality(At(l, t)) \in Nat
<1> SUFFICES ASSUME NEW l \in Seq(Spends), NEW t
             PROVE  IsFiniteSet(At(l, t)) /\ Cardinality(At(l, t)) \in Nat
  OBVIOUS
<1>1. DOMAIN l = 1 .. Len(l) /\ Len(l) \in Nat
  OBVIOUS
<1>2. IsFiniteSet(DOMAIN l)
  BY <1>1, FS_Interval
<1>3. At(l, t) \in SUBSET DOMAIN l
  BY DEF At
<1> QED BY <1>2, <1>3, FS_Subset, FS_CardinalityType

LEMMA FewerLeft ==
    \A l, m, i : IsWithout(m, l, i) =>
        /\ \A t : Cardinality(At(m, t)) <= Cardinality(At(l, t))
        /\ Cardinality(At(m, l[i].tx)) <= Cardinality(At(l, l[i].tx)) - 1
        /\ \A k \in DOMAIN m : \E j \in DOMAIN l : m[k] = l[j]
<1> SUFFICES ASSUME NEW l, NEW m, NEW i, IsWithout(m, l, i)
             PROVE  /\ \A t : Cardinality(At(m, t)) <= Cardinality(At(l, t))
                    /\ Cardinality(At(m, l[i].tx)) <= Cardinality(At(l, l[i].tx)) - 1
                    /\ \A k \in DOMAIN m : \E j \in DOMAIN l : m[k] = l[j]
  OBVIOUS
<1>1. /\ m \in Seq(Spends) /\ l \in Seq(Spends) /\ i \in 1 .. Len(l)
      /\ Len(l) \in Nat /\ Len(m) = Len(l) - 1
      /\ DOMAIN m = 1 .. Len(m) /\ DOMAIN l = 1 .. Len(l)
      /\ \A k \in 1 .. Len(m) : m[k] = l[IF k < i THEN k ELSE k + 1]
  BY DEF IsWithout
<1> DEFINE g(k) == IF k < i THEN k ELSE k + 1
<1>2. \A k \in DOMAIN m : g(k) \in DOMAIN l /\ g(k) # i /\ m[k] = l[g(k)]
  BY <1>1
<1>3. \A k, j \in DOMAIN m : g(k) = g(j) => k = j
  BY <1>1
<1> HIDE DEF g
<1>4. ASSUME NEW t PROVE Cardinality(At(m, t)) <= Cardinality(At(l, t) \ {i})
  <2> DEFINE f == [k \in At(m, t) |-> g(k)]
  <2>1. \A k \in At(m, t) : g(k) \in At(l, t) \ {i}
    BY <1>2 DEF At
  <2>2. f \in [At(m, t) -> At(l, t) \ {i}]
    BY <2>1
  <2>3. \A k, j \in At(m, t) : f[k] = f[j] => k = j
    BY <1>3 DEF At
  <2>4. f \in Injection(At(m, t), At(l, t) \ {i})
    BY <2>2, <2>3 DEF Injection, IsInjective
  <2>5. IsFiniteSet(At(l, t) \ {i})
    BY <1>1, AtIsFinite, FS_RemoveElement
  <2> QED BY <2>4, <2>5, FS_Injection
<1>5. ASSUME NEW t PROVE Cardinality(At(m, t)) <= Cardinality(At(l, t))
  <2>1. IsFiniteSet(At(l, t)) /\ Cardinality(At(l, t)) \in Nat /\ Cardinality(At(m, t)) \in Nat
    BY <1>1, AtIsFinite
  <2>2. Cardinality(At(l, t) \ {i}) \in Nat /\ Cardinality(At(l, t) \ {i}) <= Cardinality(At(l, t))
    <3>1. At(l, t) \ {i} \in SUBSET At(l, t)
      OBVIOUS
    <3> QED BY <2>1, <3>1, FS_Subset, FS_CardinalityType
  <2>3. Cardinality(At(m, t)) <= Cardinality(At(l, t) \ {i})
    BY <1>4
  <2> HIDE DEF At
  <2> QED BY <2>1, <2>2, <2>3
<1>6. Cardinality(At(m, l[i].tx)) <= Cardinality(At(l, l[i].tx)) - 1
  <2>1. i \in At(l, l[i].tx)
    BY <1>1 DEF At
  <2>2. IsFiniteSet(At(l, l[i].tx))
    BY <1>1, AtIsFinite
  <2>3. Cardinality(At(l, l[i].tx) \ {i}) = Cardinality(At(l, l[i].tx)) - 1
    BY <2>1, <2>2, FS_RemoveElement
  <2> QED BY <1>4, <2>3
<1> QED BY <1>2, <1>5, <1>6

LEMMA PlacesAreFinite ==
    ASSUME PassOK, NEW t
    PROVE  /\ IsFiniteSet(Places(absent, t)) /\ Cardinality(Places(absent, t)) \in Nat
           /\ Cardinality(At(ledger, t)) \in Nat /\ Cardinality(At(snapshot, t)) \in Nat
<1>1. IsFiniteSet(DOMAIN snapshot)
  <2>1. DOMAIN snapshot = 1 .. Len(snapshot) /\ Len(snapshot) \in Nat
    BY DEF PassOK
  <2> QED BY <2>1, FS_Interval
<1>2. Places(absent, t) \in SUBSET DOMAIN snapshot
  BY DEF PassOK, Places
<1>3. IsFiniteSet(Places(absent, t))
  BY <1>1, <1>2, FS_Subset
<1> QED BY <1>3, AtIsFinite, FS_CardinalityType DEF PassOK

(***************************************************************************)
(* The ledger moves while a pass waits.                                    *)
(***************************************************************************)
LEMMA LedgerMoves ==
    ASSUME PassOK, PassOK', WholeInv, UNCHANGED <<pass, lists>>, unsigned' \subseteq unsigned,
           \A i \in DOMAIN ledger' : ledger'[i].tx \notin unsigned',
           \A i \in DOMAIN snapshot :
               Cardinality(At(ledger', snapshot[i].tx)) <= Cardinality(At(ledger, snapshot[i].tx))
    PROVE  WholeInv'
<1>1. UNCHANGED <<pass, snapshot, due, absent>>
  BY DEF lists
<1>2. ASSUME NEW t
      PROVE  /\ Cardinality(At(ledger, t)) \in Nat /\ Cardinality(At(ledger', t)) \in Nat
             /\ Cardinality(At(snapshot, t)) \in Nat /\ Cardinality(Places(absent, t)) \in Nat
  <2>1. ledger' \in Seq(Spends)
    BY DEF PassOK
  <2> QED BY <2>1, PlacesAreFinite, AtIsFinite
<1>3. ASSUME pass \in {"tip", "asking"}, NEW i \in DOMAIN snapshot
      PROVE  Cardinality(At(ledger', snapshot[i].tx)) <= Cardinality(At(snapshot, snapshot[i].tx))
  <2>1. Cardinality(At(ledger, snapshot[i].tx)) <= Cardinality(At(snapshot, snapshot[i].tx))
    BY <1>3 DEF WholeInv
  <2>2. Cardinality(At(ledger', snapshot[i].tx)) <= Cardinality(At(ledger, snapshot[i].tx))
    OBVIOUS
  <2> QED BY <1>2, <2>1, <2>2
<1>4. ASSUME NEW i \in absent
      PROVE  Cardinality(At(ledger', snapshot[i].tx)) <= Cardinality(Places(absent, snapshot[i].tx))
  <2>1. Cardinality(At(ledger, snapshot[i].tx)) <= Cardinality(Places(absent, snapshot[i].tx))
    BY BothOrNeitherByPlace DEF WholeInv
  <2>2. Cardinality(At(ledger', snapshot[i].tx)) <= Cardinality(At(ledger, snapshot[i].tx))
    BY DEF PassOK
  <2> QED BY <1>2, <2>1, <2>2
<1>5. BothOrNeither'
  <2>1. ASSUME NEW t \in TxsAt(absent)'
        PROVE  Cardinality(SpendsOf(t)') <= Cardinality({i \in absent' : snapshot'[i].tx = t})
    <3>1. PICK i \in absent : t = snapshot[i].tx
      BY <1>1, <2>1 DEF TxsAt
    <3>2. SpendsOf(t)' = At(ledger', t)
      BY DEF SpendsOf, At
    <3>3. {j \in absent' : snapshot'[j].tx = t} = Places(absent, t)
      BY <1>1 DEF Places
    <3> QED BY <1>4, <3>1, <3>2, <3>3
  <2> QED BY <2>1 DEF BothOrNeither
<1>6. \A i \in DOMAIN snapshot' : snapshot'[i].tx \notin unsigned'
  BY <1>1 DEF WholeInv
<1>7. \A i \in due' : \A j \in DOMAIN snapshot' : snapshot'[j].tx = snapshot'[i].tx => j \in due'
  BY <1>1 DEF WholeInv
<1> QED BY <1>1, <1>3, <1>5, <1>6, <1>7 DEF WholeInv

LEMMA SignWhole ==
    ASSUME PassOK, PassOK', WholeInv, NEW t \in Txs, Sign(t) PROVE WholeInv'
<1>1. /\ t \in unsigned /\ unsigned' = unsigned \ {t} /\ ledger' = ledger \o Added(t)
      /\ UNCHANGED <<pass, lists>>
  BY DEF Sign, Added
<1>2. ledger \in Seq(Spends) /\ Added(t) \in Seq(Spends) /\ \A i \in DOMAIN Added(t) : Added(t)[i].tx = t
  BY AddedOfOne DEF PassOK
<1>3. /\ Len(ledger') = Len(ledger) + Len(Added(t)) /\ ledger' \in Seq(Spends)
      /\ \A i \in 1 .. Len(ledger) + Len(Added(t)) :
             ledger'[i] = IF i <= Len(ledger) THEN ledger[i] ELSE Added(t)[i - Len(ledger)]
  BY <1>1, <1>2, Joined
<1>4. /\ DOMAIN ledger' = 1 .. Len(ledger) + Len(Added(t)) /\ DOMAIN ledger = 1 .. Len(ledger)
      /\ Len(ledger) \in Nat /\ Len(Added(t)) \in Nat /\ DOMAIN Added(t) = 1 .. Len(Added(t))
  BY <1>2, <1>3
<1>5. ASSUME NEW i \in DOMAIN ledger'
      PROVE  IF i \in DOMAIN ledger THEN ledger'[i] = ledger[i] ELSE ledger'[i].tx = t
  <2>1. CASE i \in DOMAIN ledger
    BY <1>3, <1>4, <2>1
  <2>2. CASE i \notin DOMAIN ledger
    <3>1. i - Len(ledger) \in DOMAIN Added(t) /\ ledger'[i] = Added(t)[i - Len(ledger)]
      BY <1>3, <1>4, <2>2
    <3> QED BY <1>2, <2>2, <3>1
  <2> QED BY <2>1, <2>2
<1>6. DOMAIN ledger \subseteq DOMAIN ledger'
  BY <1>4
<1>7. \A i \in DOMAIN ledger' : ledger'[i].tx \notin unsigned'
  BY <1>1, <1>5 DEF WholeInv
<1>8. ASSUME NEW i \in DOMAIN snapshot
      PROVE  Cardinality(At(ledger', snapshot[i].tx)) <= Cardinality(At(ledger, snapshot[i].tx))
  <2>1. snapshot[i].tx # t
    BY <1>1 DEF WholeInv
  <2>2. At(ledger', snapshot[i].tx) = At(ledger, snapshot[i].tx)
    BY <1>5, <1>6, <2>1 DEF At
  <2>3. Cardinality(At(ledger, snapshot[i].tx)) \in Nat
    BY PlacesAreFinite
  <2> QED BY <2>2, <2>3
<1>9. unsigned' \subseteq unsigned
  BY <1>1
<1> QED BY <1>1, <1>7, <1>8, <1>9, LedgerMoves

LEMMA AgeOutWhole ==
    ASSUME PassOK, PassOK', WholeInv, AgeOut PROVE WholeInv'
<1>1. IsWithout(ledger', ledger, 1) /\ UNCHANGED <<pass, lists>> /\ unsigned' = unsigned
  BY TailIsWithout DEF AgeOut, PassOK
<1>2. /\ \A t : Cardinality(At(ledger', t)) <= Cardinality(At(ledger, t))
      /\ \A k \in DOMAIN ledger' : \E j \in DOMAIN ledger : ledger'[k] = ledger[j]
  BY <1>1, FewerLeft
<1>3. \A i \in DOMAIN ledger' : ledger'[i].tx \notin unsigned'
  BY <1>1, <1>2 DEF WholeInv
<1> QED BY <1>1, <1>2, <1>3, LedgerMoves

LEMMA EndWhole ==
    ASSUME EndPass, \A i \in DOMAIN ledger' : ledger'[i].tx \notin unsigned' PROVE WholeInv'
<1>1. snapshot' = <<>> /\ due' = {} /\ absent' = {} /\ pass' = "idle"
  BY DEF EndPass
<1>2. BothOrNeither'
  BY <1>1 DEF BothOrNeither, TxsAt
<1>3. DOMAIN snapshot' = {}
  BY <1>1
<1> QED BY <1>1, <1>2, <1>3 DEF WholeInv

LEMMA SnapshotWhole ==
    ASSUME PassOK, PassOK', WholeInv, Snapshot PROVE WholeInv'
<1>1. /\ pass = "idle"
      /\ \/ pass' = "tip" /\ snapshot' = ledger
         \/ pass' = pass /\ snapshot' = snapshot
      /\ ledger' = ledger /\ due' = due /\ absent' = absent /\ unsigned' = unsigned
  BY DEF Snapshot
<1>2. due' = {} /\ absent' = {}
  BY <1>1 DEF PassOK
<1>3. BothOrNeither'
  BY <1>2 DEF BothOrNeither, TxsAt
<1>4. ASSUME pass' \in {"tip", "asking"}, NEW i \in DOMAIN snapshot'
      PROVE  Cardinality(At(ledger', snapshot'[i].tx)) <= Cardinality(At(snapshot', snapshot'[i].tx))
  <2>1. snapshot' = ledger /\ ledger' = ledger
    BY <1>1, <1>4
  <2>2. \A t : Cardinality(At(ledger, t)) \in Nat
    BY AtIsFinite DEF PassOK
  <2> QED BY <2>1, <2>2
<1>5. \A i \in DOMAIN snapshot' : snapshot'[i].tx \notin unsigned'
  BY <1>1 DEF WholeInv
<1>6. \A i \in DOMAIN ledger' : ledger'[i].tx \notin unsigned'
  BY <1>1 DEF WholeInv
<1> QED BY <1>2, <1>3, <1>4, <1>5, <1>6 DEF WholeInv

(***************************************************************************)
(* Whether the chain has moved past a spend, and whether it may be asked   *)
(* about, is a matter of its transaction.                                  *)
(***************************************************************************)
LEMMA OneTxOneVerdict ==
    \A r, s \in Spends : \A slot :
        r.tx = s.tx /\ Lookupable(r) /\ Passed(r, slot) => Lookupable(s) /\ Passed(s, slot)
<1> SUFFICES ASSUME NEW r \in Spends, NEW s \in Spends, NEW slot,
                    r.tx = s.tx, Lookupable(r), Passed(r, slot)
             PROVE  Lookupable(s) /\ Passed(s, slot)
  OBVIOUS
<1>1. s.tx \in Txs
  BY LookupableIsTx
<1>2. s # Voucher
  BY <1>1, ExpiryParameters DEF Voucher
<1>3. PICK t \in Txs : s \in {PaymentSpend(t), OverheadSpend(t)}
  BY <1>2 DEF Spends
<1>4. s.kind # "voucher"
  BY <1>3 DEF PaymentSpend, OverheadSpend
<1> QED BY <1>4 DEF Lookupable, Passed

LEMMA ReadTipWhole ==
    ASSUME PassOK, PassOK', WholeInv, NEW slot \in NearTip, ReadTip(slot) PROVE WholeInv'
<1>1. /\ pass = "tip" /\ ledger' = ledger /\ unsigned' = unsigned
      /\ \/ EndPass
         \/ /\ due' = Releasable(snapshot, slot) /\ pass' = "asking"
            /\ snapshot' = snapshot /\ absent' = absent
  BY DEF ReadTip
<1>2. \A i \in DOMAIN ledger' : ledger'[i].tx \notin unsigned'
  BY <1>1 DEF WholeInv
<1>3. CASE EndPass
  BY <1>2, <1>3, EndWhole
<1>4. CASE /\ due' = Releasable(snapshot, slot) /\ pass' = "asking"
           /\ snapshot' = snapshot /\ absent' = absent
  <2>1. absent' = {}
    BY <1>1, <1>4 DEF PassOK
  <2>2. BothOrNeither'
    BY <2>1 DEF BothOrNeither, TxsAt
  <2>3. ASSUME NEW i \in due', NEW j \in DOMAIN snapshot', snapshot'[j].tx = snapshot'[i].tx
        PROVE  j \in due'
    <3>1. i \in DOMAIN snapshot /\ Lookupable(snapshot[i]) /\ Passed(snapshot[i], slot)
      BY <1>4 DEF Releasable
    <3>2. snapshot[i] \in Spends /\ snapshot[j] \in Spends /\ snapshot[j].tx = snapshot[i].tx
      BY <1>4, <2>3, <3>1 DEF PassOK
    <3>3. Lookupable(snapshot[j]) /\ Passed(snapshot[j], slot)
      BY <3>1, <3>2, OneTxOneVerdict
    <3> QED BY <1>4, <3>3 DEF Releasable
  <2>4. \A i \in DOMAIN snapshot' :
            Cardinality(At(ledger', snapshot'[i].tx)) <= Cardinality(At(snapshot', snapshot'[i].tx))
    BY <1>1, <1>4 DEF WholeInv
  <2>5. \A i \in DOMAIN snapshot' : snapshot'[i].tx \notin unsigned'
    BY <1>1, <1>4 DEF WholeInv
  <2> QED BY <1>2, <2>2, <2>3, <2>4, <2>5 DEF WholeInv
<1> QED BY <1>1, <1>3, <1>4

(***************************************************************************)
(* An answer applies to all places of its transaction.                     *)
(***************************************************************************)
LEMMA AnswersWhole ==
    ASSUME PassOK, PassOK', WholeInv, Answers PROVE WholeInv'
<1>1. PICK no : /\ no \subseteq TxsAt(asked)
                /\ IF no = {} THEN EndPass
                   ELSE /\ absent' = AbsentOf(no) /\ pass' = "releasing" /\ UNCHANGED snapshot
                        /\ due' = {} /\ asked' = {}
  <2>1. PICK rows \in [TxsAt(asked) -> UNION {Rows(t) : t \in TxsAt(asked)}] :
           LET no == {t \in TxsAt(asked) : Answer(rows[t]) = "absent"}
           IN  IF no = {} THEN EndPass
               ELSE /\ absent' = AbsentOf(no) /\ pass' = "releasing" /\ UNCHANGED snapshot
                    /\ due' = {} /\ asked' = {}
    BY DEF Answers
  <2>2. {t \in TxsAt(asked) : Answer(rows[t]) = "absent"} \subseteq TxsAt(asked)
    OBVIOUS
  <2> QED BY <2>1, <2>2
<1>2. pass = "asking" /\ ledger' = ledger /\ unsigned' = unsigned
  BY DEF Answers
<1>3. \A i \in DOMAIN ledger' : ledger'[i].tx \notin unsigned'
  BY <1>2 DEF WholeInv
<1>4. CASE no = {}
  <2>1. EndPass
    BY <1>1, <1>4
  <2> QED BY <1>3, <2>1, EndWhole
<1>5. CASE no # {}
  <2>1. /\ absent' = {i \in due : snapshot[i].tx \in no} /\ pass' = "releasing"
        /\ snapshot' = snapshot /\ due' = {}
    BY <1>1, <1>5 DEF AbsentOf
  <2>2. ASSUME NEW t \in TxsAt(absent)'
        PROVE  Cardinality(SpendsOf(t)') <= Cardinality({i \in absent' : snapshot'[i].tx = t})
    <3>1. PICK i \in absent' : t = snapshot[i].tx
      BY <2>1, <2>2 DEF TxsAt
    <3>2. i \in due /\ i \in DOMAIN snapshot /\ t \in no
      BY <2>1, <3>1 DEF PassOK
    <3>3. \A j \in DOMAIN snapshot : snapshot[j].tx = t => j \in due
      BY <3>1, <3>2 DEF WholeInv
    <3>4. {j \in absent' : snapshot'[j].tx = t} = At(snapshot, t)
      <4>1. \A j : j \in absent' /\ snapshot'[j].tx = t <=> j \in DOMAIN snapshot /\ snapshot[j].tx = t
        BY <2>1, <3>2, <3>3 DEF PassOK
      <4> QED BY <4>1 DEF At
    <3>5. SpendsOf(t)' = At(ledger, t)
      BY <1>2 DEF SpendsOf, At
    <3>6. Cardinality(At(ledger, t)) <= Cardinality(At(snapshot, t))
      BY <1>2, <3>1, <3>2 DEF WholeInv
    <3> QED BY <3>4, <3>5, <3>6
  <2>3. BothOrNeither'
    BY <2>2 DEF BothOrNeither
  <2>4. \A i \in DOMAIN snapshot' : snapshot'[i].tx \notin unsigned'
    BY <1>2, <2>1 DEF WholeInv
  <2> QED BY <1>3, <2>1, <2>3, <2>4 DEF WholeInv
<1> QED BY <1>4, <1>5

(***************************************************************************)
(* A release takes one of the transaction's spends from the ledger and one *)
(* of its places from what is left to give back.                           *)
(***************************************************************************)
LEMMA ReleaseWhole ==
    ASSUME PassOK, PassOK', WholeInv, Release PROVE WholeInv'
<1> DEFINE i == First(absent)
           t == snapshot[i].tx
<1>1. /\ pass = "releasing"
      /\ IF SpendsOf(t) = {} THEN UNCHANGED <<ledger, released>>
         ELSE ledger' = RemoveAt(ledger, First(SpendsOf(t)))
      /\ IF absent = {i} THEN EndPass
         ELSE absent' = absent \ {i} /\ UNCHANGED <<pass, snapshot, due, asked>>
      /\ unsigned' = unsigned
  BY DEF Release
<1>2. i \in absent
  <2>1. absent # {} /\ absent \subseteq Nat
    BY <1>1 DEF PassOK
  <2> QED BY <2>1, FirstIsIn
<1>3. SpendsOf(t) # {} => First(SpendsOf(t)) \in SpendsOf(t)
  <2>1. SpendsOf(t) \subseteq Nat
    BY DEF SpendsOf, PassOK
  <2> QED BY <2>1, FirstIsIn
<1>4. SpendsOf(t) = At(ledger, t)
  BY DEF SpendsOf, At
<1> HIDE DEF i, t
<1>5. /\ \A u : Cardinality(At(ledger', u)) <= Cardinality(At(ledger, u))
      /\ \A k \in DOMAIN ledger' : \E j \in DOMAIN ledger : ledger'[k] = ledger[j]
      /\ At(ledger, t) # {} => Cardinality(At(ledger', t)) <= Cardinality(At(ledger, t)) - 1
      /\ At(ledger, t) = {} => ledger' = ledger
  <2>1. CASE At(ledger, t) = {}
    <3>1. ledger' = ledger
      BY <1>1, <1>4, <2>1
    <3>2. \A u : Cardinality(At(ledger, u)) \in Nat
      BY AtIsFinite DEF PassOK
    <3> QED BY <2>1, <3>1, <3>2
  <2>2. CASE At(ledger, t) # {}
    <3> DEFINE k == First(SpendsOf(t))
    <3>1. k \in DOMAIN ledger /\ ledger[k].tx = t
      BY <1>3, <1>4, <2>2 DEF SpendsOf
    <3>2. IsWithout(ledger', ledger, k)
      BY <1>1, <1>4, <2>2, <3>1, RemoveIsWithout DEF PassOK
    <3> HIDE DEF k
    <3>3. /\ \A u : Cardinality(At(ledger', u)) <= Cardinality(At(ledger, u))
          /\ Cardinality(At(ledger', ledger[k].tx)) <= Cardinality(At(ledger, ledger[k].tx)) - 1
          /\ \A n \in DOMAIN ledger' : \E j \in DOMAIN ledger : ledger'[n] = ledger[j]
      BY <3>2, FewerLeft
    <3> QED BY <2>2, <3>1, <3>3
  <2> QED BY <2>1, <2>2
<1>6. \A k \in DOMAIN ledger' : ledger'[k].tx \notin unsigned'
  BY <1>1, <1>5 DEF WholeInv
<1>7. CASE absent = {i}
  <2>1. EndPass
    BY <1>1, <1>7
  <2> QED BY <1>6, <2>1, EndWhole
<1>8. CASE absent # {i}
  <2>1. absent' = absent \ {i} /\ pass' = "releasing" /\ snapshot' = snapshot /\ due' = due
    BY <1>1, <1>8
  <2>2. ASSUME NEW u \in TxsAt(absent)'
        PROVE  Cardinality(SpendsOf(u)') <= Cardinality({j \in absent' : snapshot'[j].tx = u})
    <3>1. PICK k \in absent' : u = snapshot[k].tx
      BY <2>1, <2>2 DEF TxsAt
    <3>2. k \in absent
      BY <2>1, <3>1
    <3>3. SpendsOf(u)' = At(ledger', u)
      BY DEF SpendsOf, At
    <3>4. {j \in absent' : snapshot'[j].tx = u} = Places(absent, u) \ {i}
      BY <2>1 DEF Places
    <3>5. Cardinality(At(ledger, u)) <= Cardinality(Places(absent, u))
      BY <3>1, <3>2, BothOrNeitherByPlace DEF WholeInv
    <3>6. /\ IsFiniteSet(Places(absent, u)) /\ Cardinality(Places(absent, u)) \in Nat
          /\ Cardinality(At(ledger, u)) \in Nat /\ Cardinality(At(ledger', u)) \in Nat
      <4>1. ledger' \in Seq(Spends)
        BY DEF PassOK
      <4> QED BY <4>1, PlacesAreFinite, AtIsFinite
    <3>7. Cardinality(Places(absent, u) \ {i}) =
            IF i \in Places(absent, u) THEN Cardinality(Places(absent, u)) - 1 ELSE Cardinality(Places(absent, u))
      BY <3>6, FS_RemoveElement
    <3>8. Cardinality(At(ledger', u)) <= Cardinality(Places(absent, u) \ {i})
      <4>1. CASE i \in Places(absent, u)
        <5>1. u = t
          BY <4>1 DEF Places, t
        <5>2. CASE At(ledger, t) # {}
          BY <1>5, <3>5, <3>6, <3>7, <4>1, <5>1, <5>2
        <5>3. CASE At(ledger, t) = {}
          <6>1. Cardinality(At(ledger', u)) = 0
            BY <1>5, <5>1, <5>3, FS_EmptySet
          <6>2. k \in Places(absent, u) \ {i}
            BY <2>1, <3>1, <3>2 DEF Places
          <6>3. IsFiniteSet(Places(absent, u) \ {i})
            BY <3>6, FS_RemoveElement
          <6>4. Cardinality(Places(absent, u) \ {i}) \in Nat
            BY <6>3, FS_CardinalityType
          <6> QED BY <6>1, <6>4
        <5> QED BY <5>2, <5>3
      <4>2. CASE i \notin Places(absent, u)
        <5>1. Cardinality(At(ledger', u)) <= Cardinality(At(ledger, u))
          BY <1>5
        <5> QED BY <3>5, <3>6, <3>7, <4>2, <5>1
      <4> QED BY <4>1, <4>2
    <3> QED BY <3>3, <3>4, <3>8
  <2>3. BothOrNeither'
    BY <2>2 DEF BothOrNeither
  <2>4. \A k \in DOMAIN snapshot' : snapshot'[k].tx \notin unsigned'
    BY <1>1, <2>1 DEF WholeInv
  <2>5. \A k \in due' : \A j \in DOMAIN snapshot' : snapshot'[j].tx = snapshot'[k].tx => j \in due'
    BY <2>1 DEF WholeInv
  <2> QED BY <1>6, <2>1, <2>3, <2>4, <2>5 DEF WholeInv
<1> QED BY <1>7, <1>8

LEMMA WholeInit == Init => WholeInv
<1> SUFFICES ASSUME Init PROVE WholeInv
  OBVIOUS
<1>1. /\ ledger = <<Voucher>> /\ snapshot = <<>> /\ due = {} /\ absent = {} /\ pass = "idle"
      /\ unsigned = Txs
  BY DEF Init
<1>2. BothOrNeither
  BY <1>1 DEF BothOrNeither, TxsAt
<1>3. Voucher.tx \notin unsigned
  BY <1>1, ExpiryParameters DEF Voucher
<1> QED BY <1>1, <1>2, <1>3 DEF WholeInv

LEMMA WholeStep == ReleaseInv /\ ReleaseInv' /\ WholeInv /\ [Next]_vars => WholeInv'
<1> SUFFICES ASSUME PassOK, PassOK', WholeInv, [Next]_vars PROVE WholeInv'
  BY DEF ReleaseInv
<1>1. ASSUME UNCHANGED <<ledger, unsigned, pass, lists>> PROVE WholeInv'
  <2>1. \A t : Cardinality(At(ledger, t)) \in Nat
    BY AtIsFinite DEF PassOK
  <2>2. ledger' = ledger /\ unsigned' = unsigned /\ UNCHANGED <<pass, lists>>
    BY <1>1
  <2>3. \A i \in DOMAIN ledger' : ledger'[i].tx \notin unsigned'
    BY <2>2 DEF WholeInv
  <2>4. \A t : Cardinality(At(ledger', t)) <= Cardinality(At(ledger, t))
    BY <2>1, <2>2
  <2> QED BY <2>2, <2>3, <2>4, LedgerMoves
<1>2. ASSUME UNCHANGED vars PROVE WholeInv'
  BY <1>1, <1>2 DEF vars
<1>3. ASSUME Advance \/ \E slot \in 0 .. tip : Rollback(slot) PROVE WholeInv'
  BY <1>1, <1>3 DEF Advance, Rollback
<1>4. ASSUME PassFails \/ Restart PROVE WholeInv'
  <2>1. EndPass /\ ledger' = ledger /\ unsigned' = unsigned
    BY <1>4 DEF PassFails, Restart
  <2>2. \A i \in DOMAIN ledger' : ledger'[i].tx \notin unsigned'
    BY <2>1 DEF WholeInv
  <2> QED BY <2>1, <2>2, EndWhole
<1> QED BY <1>2, <1>3, <1>4, SignWhole, AgeOutWhole, SnapshotWhole, ReadTipWhole, AnswersWhole, ReleaseWhole
        DEF Next

(***************************************************************************)
(* BothOrNeither: whatever a pass of releaseExpired is giving back of a    *)
(* transaction is all the ledger has of it, wherever the batch's limit     *)
(* fell, whatever aged out or was signed while the provider was asked, and *)
(* however many spends the ledger holds.                                   *)
(***************************************************************************)
THEOREM AllOfItComesBack == Spec => []BothOrNeither
<1>1. WholeInv => BothOrNeither
  BY DEF WholeInv
<1>2. Spec => []ReleaseInv
  BY ReleaseInit, ReleaseStep, PTL DEF Spec
<1> QED BY <1>1, <1>2, WholeInit, WholeStep, PTL DEF Spec

-----------------------------------------------------------------------------
(***************************************************************************)
(* Division, and what it does to the round a pass is counted as.           *)
(***************************************************************************)
LEMMA RemainderIs ==
    ASSUME NEW n \in Nat \ {0}, NEW q \in Int, NEW d \in 0 .. n - 1
    PROVE  (q * n + d) % n = d
BY SMT

LEMMA Divided ==
    ASSUME NEW n \in Nat \ {0}, NEW x \in Nat
    PROVE  \E q \in Nat, d \in 0 .. n - 1 : x = q * n + d /\ x % n = d
BY SMT

LEMMA StartIsModular ==
    ASSUME NEW n \in Nat \ {0}, Rounds % n = 0, NEW r \in Nat
    PROVE  Start(n, r % Rounds) = Start(n, r)
<1>0. Batch \in Nat \ {0} /\ Rounds \in Nat \ {0}
  BY ExpiryAssumption
<1>1. PICK q \in Nat, d \in 0 .. Rounds - 1 : r = q * Rounds + d /\ r % Rounds = d
  BY <1>0, Divided
<1>2. PICK m \in Nat : Rounds = m * n
  <2>1. PICK m \in Nat, e \in 0 .. n - 1 : Rounds = m * n + e /\ Rounds % n = e
    BY <1>0, Divided
  <2> QED BY <2>1
<1>3. PICK u \in Nat, f \in 0 .. n - 1 : d * Batch = u * n + f /\ (d * Batch) % n = f
  <2>1. d * Batch \in Nat
    BY <1>0
  <2> QED BY <2>1, Divided
<1>4. r * Batch = (q * m * Batch + u) * n + f
  <2>1. r * Batch = q * Rounds * Batch + d * Batch
    BY <1>0, <1>1
  <2>2. q * Rounds * Batch = q * m * Batch * n
    BY <1>0, <1>2
  <2> QED BY <1>0, <1>3, <2>1, <2>2
<1>5. q * m * Batch + u \in Int
  BY <1>0
<1>6. (r * Batch) % n = f
  BY <1>4, <1>5, RemainderIs
<1> QED BY <1>0, <1>1, <1>3, <1>6 DEF Start

(***************************************************************************)
(* From a place's turn in one round to the round that asks about it: the   *)
(* start moves by a batch a round, and a batch covers what it moves by.    *)
(***************************************************************************)
LEMMA TurnComes ==
    ASSUME NEW n \in Nat \ {0}, NEW b \in 0 .. n - 1, NEW r \in Nat
    PROVE  \E j \in Nat : j * Batch < n /\ (b + n - Start(n, r + j)) % n < Batch
<1>0. Batch \in Nat \ {0}
  BY ExpiryAssumption
<1>1. CASE n <= Batch
  <2>1. Start(n, r + 0) = 0
    BY <1>0, <1>1 DEF Start
  <2>2. (1 * n + b) % n = b
    BY RemainderIs
  <2>3. (b + n - Start(n, r + 0)) % n = b
    BY <2>1, <2>2
  <2>4. 0 * Batch < n
    BY <1>0
  <2> QED BY <1>0, <1>1, <2>3, <2>4
<1>2. CASE n > Batch
  <2>1. PICK q \in Nat, s \in 0 .. n - 1 : r * Batch = q * n + s
    <3>1. r * Batch \in Nat
      BY <1>0
    <3> QED BY <3>1, Divided
  <2>2. PICK c \in {0, 1} : b + c * n - s \in 0 .. n - 1
    BY SMT
  <2>3. PICK k \in Nat, e \in 0 .. Batch - 1 : b + c * n - s = k * Batch + e
    <3>1. b + c * n - s \in Nat
      BY <2>2
    <3> QED BY <1>0, <3>1, Divided
  <2>4. k * Batch \in Nat /\ k * Batch < n
    BY <1>0, <2>2, <2>3
  <2>5. (r + k) * Batch = (q + c) * n + (b - e)
    <3>1. (r + k) * Batch = r * Batch + k * Batch
      BY <1>0
    <3>2. (q + c) * n = q * n + c * n
      OBVIOUS
    <3> QED BY <1>0, <2>1, <2>3, <3>1, <3>2
  <2>6. (b + n - Start(n, r + k)) % n = e
    <3>1. CASE e <= b
      <4>1. b - e \in 0 .. n - 1 /\ q + c \in Int
        BY <1>0, <3>1
      <4>2. ((r + k) * Batch) % n = b - e
        BY <2>5, <4>1, RemainderIs
      <4>3. b + n - Start(n, r + k) = 1 * n + e
        BY <1>0, <1>2, <4>2 DEF Start
      <4> QED BY <1>0, <1>2, <4>3, RemainderIs
    <3>2. CASE e > b
      <4>1. b - e + n \in 0 .. n - 1 /\ q + c - 1 \in Int
        BY <1>0, <1>2, <3>2
      <4>2. (q + c) * n + (b - e) = (q + c - 1) * n + (b - e + n)
        OBVIOUS
      <4>3. ((r + k) * Batch) % n = b - e + n
        BY <2>5, <4>1, <4>2, RemainderIs
      <4>4. b + n - Start(n, r + k) = 0 * n + e
        BY <1>0, <1>2, <4>3 DEF Start
      <4> QED BY <1>0, <1>2, <4>4, RemainderIs
    <3> QED BY <1>0, <3>1, <3>2
  <2>7. e < Batch
    BY <1>0, <2>3
  <2>8. (b + n - Start(n, r + k)) % n < Batch
    BY <2>6, <2>7, Zenon
  <2> QED BY <2>4, <2>8, Zenon
<1> QED BY <1>0, <1>1, <1>2

(***************************************************************************)
(* While the same spends stay due, each is asked about within as many      *)
(* passes as it takes to go round them once, whatever round the first is,  *)
(* whoever the provider never answers for, and however round wraps: what   *)
(* NobodyIsCrowdedOut rests on.  ("cannot crowd every other out of the     *)
(* same twenty places".)                                                   *)
(***************************************************************************)
THEOREM EveryPlaceGetsItsTurn ==
    ASSUME NEW places \in SUBSET Nat, IsFiniteSet(places),
           Cardinality(places) <= Cardinality(Txs) + Cardinality(Dual),
           NEW i \in places, NEW r \in Nat
    PROVE  \E j \in Nat : /\ j * Batch < Cardinality(places)
                          /\ i \in BatchOf(places, (r + j) % Rounds)
<1> DEFINE n == Cardinality(places)
<1>1. n \in Nat \ {0}
  BY FS_CardinalityType, FS_EmptySet
<1>2. Before(places, i) \in 0 .. n - 1
  <2> DEFINE below == {j \in places : j < i}
  <2>1. below \subseteq places /\ i \in places \ below
    OBVIOUS
  <2>2. /\ IsFiniteSet(below) /\ Cardinality(below) <= n
        /\ n = Cardinality(below) => places = below
    BY <2>1, FS_Subset
  <2>3. Cardinality(below) \in Nat /\ n # Cardinality(below)
    BY <2>1, <2>2, FS_CardinalityType
  <2> QED BY <1>1, <2>2, <2>3 DEF Before
<1>3. PICK j \in Nat : j * Batch < n /\ (Before(places, i) + n - Start(n, r + j)) % n < Batch
  BY <1>1, <1>2, TurnComes
<1>4. Start(n, (r + j) % Rounds) = Start(n, r + j)
  <2>1. n \in 1 .. Cardinality(Txs) + Cardinality(Dual)
    <3> QED BY <1>1
  <2>2. Rounds % n = 0
    BY <2>1, ExpiryAssumption
  <2> QED BY <1>1, <2>2, StartIsModular
<1> QED BY <1>3, <1>4 DEF BatchOf
=============================================================================
