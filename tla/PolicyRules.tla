----------------------------- MODULE PolicyRules -----------------------------
(***************************************************************************)
(* The rules of src/src/policy.ts as operators: what one agent may spend,  *)
(* judged against a ledger.  A ledger is a set of spends                   *)
(*                                                                         *)
(*   [tx, kind, agent, asset, amount, ts]                                  *)
(*                                                                         *)
(* where tx names the request the spend belongs to and kind is "payment",  *)
(* "overhead" (the fee and min-UTxO ADA beside it), "voucher" (a channel   *)
(* increment) or "held" (the budget of a queued approval).  tx and kind    *)
(* tell two spends apart, so a set loses nothing the code's array keeps.   *)
(*                                                                         *)
(* A policy is a function from the agents it names to their limits; a cap  *)
(* that is absent is an asset outside the domain of the function.  What    *)
(* the allowlists compare (payee, scheme, transfer method, resource,       *)
(* provider key, a usable reason) is one abstract value, q.terms.          *)
(***************************************************************************)
EXTENDS Integers, FiniteSets

CONSTANTS
    Lovelace,   \* the asset fees and min-UTxO are paid in
    Day,        \* the rolling window of the daily caps
    Hour,       \* the rolling window of the rate limits
    Mainnet     \* whether this wallet is on mainnet

ASSUME RulesAssumption ==
    /\ Hour \in Nat \ {0}
    /\ Day \in Nat
    /\ Hour <= Day
    /\ Mainnet \in BOOLEAN

(***************************************************************************)
(* parsePolicy: what a file has to say for the wallet to run on it.  A cap *)
(* or a threshold for an asset that perTxMax leaves out would be a typo    *)
(* that does nothing.                                                      *)
(***************************************************************************)
Amounts(m) == \A x \in DOMAIN m : m[x] \in Nat

Parses(policy) ==
    \A agent \in DOMAIN policy :
        LET ap == policy[agent]
        IN  /\ Amounts(ap.perTxMax) /\ Amounts(ap.dailyMax) /\ Amounts(ap.approvalAbove)
            /\ DOMAIN ap.dailyMax \subseteq DOMAIN ap.perTxMax
            /\ DOMAIN ap.approvalAbove \subseteq DOMAIN ap.perTxMax
            /\ ap.terms # {}
            /\ ap.maxPerHour \in Nat \ {0} /\ ap.maxVouchersPerHour \in Nat \ {0}

(***************************************************************************)
(* The sum of the amounts of a set of spends, as the number of units in    *)
(* it: one pair per spend and unit.                                        *)
(***************************************************************************)
UnitsOf(s) == {s} \X (1 .. s.amount)

Units(S) == UNION {UnitsOf(s) : s \in S}

Total(S) == Cardinality(Units(S))

(***************************************************************************)
(* What the agent has spent of an asset in the rolling day.                *)
(***************************************************************************)
InDay(S, agent, asset, t) ==
    {s \in S : s.agent = agent /\ s.asset = asset /\ t - s.ts < Day}

SpentToday(S, agent, asset, t) == Total(InDay(S, agent, asset, t))

(***************************************************************************)
(* Vouchers and transactions are counted apart; an overhead is neither.    *)
(***************************************************************************)
LastHour(S, agent, batch, t) ==
    {s \in S : /\ s.agent = agent
               /\ s.kind # "overhead"
               /\ (s.kind = "voucher") = batch
               /\ t - s.ts < Hour}

DailyCap(ap, asset) ==
    IF asset \in DOMAIN ap.dailyMax THEN ap.dailyMax[asset] ELSE ap.perTxMax[asset]

(***************************************************************************)
(* decide: the conjuncts are its denial rules in the order it tries them.  *)
(***************************************************************************)
Admits(policy, S, q, t) ==
    /\ q.agent \in DOMAIN policy
    /\ LET ap == policy[q.agent]
       IN  /\ q.amount > 0
           /\ q.asset \in DOMAIN ap.perTxMax
           /\ ~q.batch /\ Mainnet /\ q.asset # Lovelace => Lovelace \in DOMAIN ap.perTxMax
           /\ q.terms \in ap.terms
           /\ q.amount <= ap.perTxMax[q.asset]
           /\ SpentToday(S, q.agent, q.asset, t) + q.amount <= DailyCap(ap, q.asset)
           /\ Cardinality(LastHour(S, q.agent, q.batch, t))
                < IF q.batch THEN ap.maxVouchersPerHour ELSE ap.maxPerHour

AboveThreshold(policy, q) ==
    LET above == policy[q.agent].approvalAbove
    IN  q.asset \in DOMAIN above /\ q.amount > above[q.asset]

Decide(policy, S, q, t) ==
    IF ~Admits(policy, S, q, t) THEN "deny"
    ELSE IF AboveThreshold(policy, q) THEN "needs_approval" ELSE "allow"

(***************************************************************************)
(* decideOverhead: whether the ADA leaving with a built payment fits the   *)
(* agent's lovelace caps.  A lovelace payment and its overhead are judged  *)
(* together, a token's overhead alone.                                     *)
(***************************************************************************)
(* Mutant: an overhead is judged without its payment. *)
LeavingAlone(q, overhead) == overhead

Leaving(q, overhead) == overhead + IF q.asset = Lovelace THEN q.amount ELSE 0

AdmitsOverhead(policy, S, q, overhead, t) ==
    /\ q.agent \in DOMAIN policy
    /\ LET ap == policy[q.agent]
       IN  IF Lovelace \notin DOMAIN ap.perTxMax
           THEN q.asset = Lovelace \/ ~Mainnet
           ELSE /\ Leaving(q, overhead) <= ap.perTxMax[Lovelace]
                /\ SpentToday(S, q.agent, Lovelace, t) + Leaving(q, overhead)
                     <= DailyCap(ap, Lovelace)
=============================================================================
