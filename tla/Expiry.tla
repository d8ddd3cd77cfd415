-------------------------------- MODULE Expiry --------------------------------
(***************************************************************************)
(* Which signed payments can never land (src/src/expiry.ts), and the pass  *)
(* that asks (releaseExpired in src/src/signerd.ts).  Signerd takes a      *)
(* released transaction to be dead; this module shows why, from how far a  *)
(* provider may lag and a chain roll back, and that the batches of a pass  *)
(* leave no transaction out.                                               *)
(*                                                                         *)
(* The chain is a tip and the slot each transaction is in.  A provider     *)
(* names a tip and answers from an index at most Lag behind the chain; an  *)
(* answer is the rows it sends for a transaction, more than one when its   *)
(* backends disagree.  Blockfrost's status is one row: 200, 404, other.    *)
(***************************************************************************)
EXTENDS Naturals, FiniteSets, Sequences, SequencesExt

CONSTANTS
    Txs,
    Ttl,         \* the slot after which a transaction is invalid
    Dual,        \* those with an overhead beside the payment
    Mute,        \* those the provider never answers for
    Margin,      \* RELEASE_MARGIN_SECONDS, in slots
    Batch,       \* RELEASE_BATCH
    Lag, Depth,  \* how far a provider lags, how deep a rollback goes
    LastSlot,    \* bound on the chain's tip
    Rounds,      \* bound: round is counted modulo this multiple of every batch list's length
    Hitches,     \* bound on failed passes and restarts together
    None

ASSUME ExpiryAssumption ==
    /\ Ttl \in [Txs -> Nat]
    /\ Dual \subseteq Txs /\ Mute \subseteq Txs
    /\ Margin \in Nat /\ Lag \in Nat /\ Depth \in Nat
    /\ Lag + Depth <= Margin
    /\ None \notin Txs /\ None \notin Nat
    /\ Batch \in Nat \ {0}
    /\ \A n \in 1 .. Cardinality(Txs) + Cardinality(Dual) : Rounds % n = 0
    /\ Rounds \in Nat \ {0} /\ LastSlot \in Nat /\ Hitches \in Nat

VARIABLES
    ledger,    \* spends, oldest first
    settled,   \* settledTxs: seen in a block
    round,     \* releaseRound
    pass,      \* the await a pass is at
    snapshot,  \* its copy of the ledger
    due,       \* the places in it of the spends the chain has moved past
    asked,     \* of those it looks up
    absent,    \* of those it still has to release
    unsigned,
    tip, top,  \* the chain's tip, and the highest it ever had
    block,     \* the slot a transaction is in, or None
    released,  \* history: transactions a spend was given back of
    hitches

chain == <<tip, top, block>>
lists == <<snapshot, due, asked, absent>>
vars == <<ledger, settled, round, pass, lists, unsigned, chain, released, hitches>>

PaymentSpend(t) == [tx |-> t, kind |-> "payment"]
OverheadSpend(t) == [tx |-> t, kind |-> "overhead"]
Voucher == [tx |-> None, kind |-> "voucher"]

TxsOf(spends) == {s.tx : s \in ToSet(spends)} \ {None}

Init ==
    /\ ledger = <<Voucher>>
    /\ settled = {} /\ round = 0
    /\ pass = "idle"
    /\ snapshot = <<>> /\ due = {} /\ asked = {} /\ absent = {}
    /\ unsigned = Txs
    /\ tip = 0 /\ top = 0
    /\ block = [t \in Txs |-> None]
    /\ released = {} /\ hitches = 0

-----------------------------------------------------------------------------
(***************************************************************************)
(* The rest of signerd: a payment is recorded, the oldest spend ages out.  *)
(***************************************************************************)
Sign(t) ==
    /\ t \in unsigned
    /\ tip <= Ttl[t]
    /\ ledger' = ledger \o IF t \in Dual THEN <<PaymentSpend(t), OverheadSpend(t)>> ELSE <<PaymentSpend(t)>>
    /\ unsigned' = unsigned \ {t}
    /\ UNCHANGED <<settled, round, pass, lists, chain, released, hitches>>

AgeOut ==
    /\ ledger # <<>>
    /\ ledger' = Tail(ledger)
    /\ UNCHANGED <<settled, round, pass, lists, unsigned, chain, released, hitches>>

-----------------------------------------------------------------------------
(***************************************************************************)
(* The chain.  A transaction is valid in a block up to its time to live;   *)
(* a rollback undoes blocks, never past Depth below the highest tip.       *)
(***************************************************************************)
Advance ==
    /\ tip < LastSlot
    /\ tip' = tip + 1
    /\ top' = IF tip' > top THEN tip' ELSE top
    /\ \E landing \in SUBSET {t \in Txs \ unsigned : block[t] = None /\ tip' <= Ttl[t]} :
           block' = [t \in Txs |-> IF t \in landing THEN tip' ELSE block[t]]
    /\ UNCHANGED <<ledger, settled, round, pass, lists, unsigned, released, hitches>>

Rollback(slot) ==
    /\ slot < tip /\ slot + Depth >= top
    /\ tip' = slot
    /\ block' = [t \in Txs |-> IF block[t] # None /\ block[t] > slot THEN None ELSE block[t]]
    /\ UNCHANGED <<ledger, settled, round, pass, lists, unsigned, top, released, hitches>>

-----------------------------------------------------------------------------
(***************************************************************************)
(* The spends a pass may ask about, and which of them it does.  round      *)
(* rotates the batch, so that spends nobody answers for do not crowd the   *)
(* others out.                                                             *)
(***************************************************************************)
Lookupable(s) == s.kind # "voucher" /\ s.tx \notin settled

(* Mutant: the margin is forgotten. *)
PassedTtl(s, slot) == slot > Ttl[s.tx]

Passed(s, slot) == slot > Ttl[s.tx] + Margin

Releasable(spends, slot) ==
    {i \in DOMAIN spends : Lookupable(spends[i]) /\ Passed(spends[i], slot)}

(* Mutant: every pass asks about the same ones. *)
StartFirst(n, r) == 0

Start(n, r) == IF n > Batch THEN (r * Batch) % n ELSE 0

Before(places, i) == Cardinality({j \in places : j < i})

(* From start on and around, Batch of them. *)
BatchOf(places, r) ==
    LET n == Cardinality(places)
    IN  {i \in places : (Before(places, i) + n - Start(n, r)) % n < Batch}

(***************************************************************************)
(* What a backend that has read the chain up to a slot sends for a         *)
(* transaction: confirmations, a definite no, or nothing of use.  Of two   *)
(* rows the one that keeps the budget spent wins.                          *)
(***************************************************************************)
Row(t, slot) == IF block[t] # None /\ block[t] <= slot THEN "block" ELSE "absent"

NearTip == {n \in 0 .. tip : n + Lag >= tip}

Rows(t) ==
    IF t \in Mute THEN {<<>>}
    ELSE {<<Row(t, near)>> : near \in NearTip}
         \cup {<<Row(t, near), Row(t, far)>> : near \in NearTip, far \in 0 .. tip}

(* Mutant: the last row sent is the answer. *)
AnswerOfLast(rows) == IF rows = <<>> THEN "unclear" ELSE Last(rows)

Answer(rows) ==
    IF "block" \in ToSet(rows) THEN "block"
    ELSE IF "absent" \in ToSet(rows) THEN "absent" ELSE "unclear"

-----------------------------------------------------------------------------
(***************************************************************************)
(* A pass of releaseExpired: the copy, the tip, the answers, a release at  *)
(* a time under its agent's lock.  A lookup or a record that fails ends    *)
(* it, and the round was counted all the same.                             *)
(***************************************************************************)
EndPass ==
    /\ pass' = "idle"
    /\ snapshot' = <<>> /\ due' = {} /\ asked' = {} /\ absent' = {}

Snapshot ==
    /\ pass = "idle"
    /\ settled' = settled \cap TxsOf(ledger)
    /\ round' = (round + 1) % Rounds
    /\ IF \E s \in ToSet(ledger) : Lookupable(s) THEN pass' = "tip" /\ snapshot' = ledger
                                                ELSE UNCHANGED <<pass, snapshot>>
    /\ UNCHANGED <<ledger, due, asked, absent, unsigned, chain, released, hitches>>

ReadTip(slot) ==
    /\ pass = "tip"
    /\ LET passed == Releasable(snapshot, slot)
       IN  IF passed = {} THEN EndPass
           ELSE /\ due' = passed
                /\ asked' = BatchOf(passed, round)
                /\ pass' = "asking"
                /\ UNCHANGED <<snapshot, absent>>
    /\ UNCHANGED <<ledger, settled, round, unsigned, chain, released, hitches>>

TxsAt(places) == {snapshot[i].tx : i \in places}

(* Mutant: an answer applies to the spends that were asked about only. *)
AbsentOfAsked(txs) == {i \in asked : snapshot[i].tx \in txs}

AbsentOf(txs) == {i \in due : snapshot[i].tx \in txs}

Answers ==
    /\ pass = "asking"
    /\ \E rows \in [TxsAt(asked) -> UNION {Rows(t) : t \in TxsAt(asked)}] :
           /\ \A t \in TxsAt(asked) : rows[t] \in Rows(t)
           /\ LET no == {t \in TxsAt(asked) : Answer(rows[t]) = "absent"}
              IN  /\ settled' = settled \cup {t \in TxsAt(asked) : Answer(rows[t]) = "block"}
                  /\ IF no = {} THEN EndPass
                     ELSE /\ absent' = AbsentOf(no)
                          /\ pass' = "releasing"
                          /\ UNCHANGED snapshot
                          /\ due' = {} /\ asked' = {}
    /\ UNCHANGED <<ledger, round, unsigned, chain, released, hitches>>

SpendsOf(t) == {i \in DOMAIN ledger : ledger[i].tx = t}

First(places) == CHOOSE i \in places : \A j \in places : i <= j

(* The first spend of the transaction goes; none is left when it aged out meanwhile. *)
Release ==
    /\ pass = "releasing"
    /\ LET i == First(absent)
           t == snapshot[i].tx
       IN  /\ IF SpendsOf(t) = {} THEN UNCHANGED <<ledger, released>>
              ELSE /\ ledger' = RemoveAt(ledger, First(SpendsOf(t)))
                   /\ released' = released \cup {t}
           /\ IF absent = {i} THEN EndPass
              ELSE absent' = absent \ {i} /\ UNCHANGED <<pass, snapshot, due, asked>>
    /\ UNCHANGED <<settled, round, unsigned, chain, hitches>>

Hitch == hitches < Hitches /\ hitches' = hitches + 1

(* The tip, an answer, or the record of a release that cannot be written. *)
PassFails ==
    /\ pass # "idle"
    /\ Hitch
    /\ EndPass
    /\ UNCHANGED <<ledger, settled, round, unsigned, chain, released>>

(* The ledger comes back as it was, as Journal shows; the rest was in memory. *)
Restart ==
    /\ Hitch
    /\ EndPass
    /\ settled' = {} /\ round' = 0
    /\ UNCHANGED <<ledger, unsigned, chain, released>>

Next ==
    \/ \E t \in Txs : Sign(t)
    \/ AgeOut
    \/ Advance
    \/ \E slot \in 0 .. tip : Rollback(slot)
    \/ Snapshot
    \/ \E slot \in NearTip : ReadTip(slot)
    \/ Answers \/ Release
    \/ PassFails \/ Restart

Spec == Init /\ [][Next]_vars

(***************************************************************************)
(* The chain grows, the interval fires, an await that does not fail ends.  *)
(***************************************************************************)
Fairness ==
    /\ WF_vars(Advance)
    /\ WF_vars(Snapshot) /\ WF_vars(\E slot \in NearTip : ReadTip(slot))
    /\ WF_vars(Answers) /\ WF_vars(Release)

FairSpec == Spec /\ Fairness

-----------------------------------------------------------------------------
Spends == {Voucher} \cup UNION {{PaymentSpend(t), OverheadSpend(t)} : t \in Txs}

(***************************************************************************)
(* A transaction whose budget was given back is in no block and gets into  *)
(* none, as long as the margin covers the provider's lag and the depth of  *)
(* a rollback together.  ("one the chain has passed without including it   *)
(* never will be", releaseExpired's comment.)                              *)
(***************************************************************************)
ReleasedNeverLands == \A t \in released : block[t] = None

(***************************************************************************)
(* A payment and its overhead come back together: whatever a pass is       *)
(* giving back of a transaction is all the ledger has of it.  ("the answer *)
(* applies to both, even when the pass's limit fell between them".)        *)
(***************************************************************************)
BothOrNeither ==
    \A t \in TxsAt(absent) :
        Cardinality(SpendsOf(t)) <= Cardinality({i \in absent : snapshot[i].tx = t})

(***************************************************************************)
(* Once the chain is past its rollbacks, a transaction the provider does   *)
(* answer for is not crowded out by those it never does: it is seen in a   *)
(* block or its spends leave the ledger.  (round, and "cannot crowd every  *)
(* other out of the same twenty places".)                                  *)
(***************************************************************************)
NobodyIsCrowdedOut ==
    <>[](tip = LastSlot) =>
        \A t \in Txs \ Mute : t \in TxsOf(ledger) ~> t \notin TxsOf(ledger) \/ block[t] # None
=============================================================================
