--------------------------------- MODULE Tidy ---------------------------------
(***************************************************************************)
(* The layout of the wallet's UTxOs (src/src/tidy.ts), the transaction     *)
(* that puts it right (tidyWallet in src/src/signerd.ts), and the tidy     *)
(* signerd starts itself when a channel step runs short.                   *)
(*                                                                         *)
(* Ada is counted in a unit of the instance, the tokens as quantities of   *)
(* one.  A provider's listing follows the chain when it likes.  A payment  *)
(* builds and books in one step, under the wallet's lock.  The builder is  *)
(* not trusted: Built has what it may get wrong.  What no longer holds an  *)
(* input (PENDING_MS, or a payment's shorter hold) is as good as dropped.  *)
(***************************************************************************)
EXTENDS Integers, FiniteSets, FiniteSetsExt

CONSTANTS
    Shorts,          \* channel steps that run short
    Start,           \* the wallet at first
    Collateral,      \* DEFAULT_COLLATERAL
    Collaterals,     \* what an operator may ask for
    TokenMin,        \* what minAda gives for the tokens
    TokenSlack, FeeMax, ChangeMin, MaxInputs,
    MinInterval,     \* AUTO_TIDY_MIN_INTERVAL_SECONDS
    PayHold, PendingMs,
    LastTime,        \* bound on the clock
    Payments,        \* bound on payments
    OperatorTidies,  \* bound on tidies by hand
    None

ASSUME TidyAssumption ==
    /\ Collaterals \subseteq Nat /\ Collateral \in Nat
    /\ \A u \in Start : u.ada \in Nat /\ u.tok \in Nat /\ u.own
    /\ {TokenMin, TokenSlack, FeeMax, ChangeMin, MinInterval, PayHold, PendingMs} \subseteq Nat \ {0}
    /\ {MaxInputs, LastTime, Payments, OperatorTidies} \subseteq Nat
    /\ None \notin Nat \cup {"auto", "operator"}

Runs == {"auto", "operator"}

VARIABLES
    utxos,       \* the wallet on the chain
    listed,      \* what the provider lists of it
    sent,        \* history: every transaction that may be under way
    inFlight,    \* inputs booked: [ref, until]
    ownOutputs,  \* what tidies paid back: [ref, tx, until]
    lastTidyTx,
    walletLock,
    tidy,        \* of each run of tidyWallet: [pc, us, collateral, tx]
    running, lastAt,  \* autoTidy, and
    before,           \* the lastAt that startAutoTidy replaced
    short,       \* of each channel step that ran short: [pc, us]
    now,
    byHand       \* tidies an operator has asked for

wallet == <<utxos, listed>>
booked == <<sent, inFlight, ownOutputs, lastTidyTx>>
autoTidy == <<running, lastAt, before>>
vars == <<wallet, booked, walletLock, tidy, autoTidy, short, now, byHand>>

AtRest == [pc |-> "idle", us |-> {}, collateral |-> 0, tx |-> None]

Init ==
    /\ utxos = Start /\ listed = Start
    /\ sent = {} /\ inFlight = {} /\ ownOutputs = {} /\ lastTidyTx = None
    /\ walletLock = None
    /\ tidy = [p \in Runs |-> AtRest]
    /\ running = FALSE /\ lastAt = None /\ before = None
    /\ short = [s \in Shorts |-> [pc |-> "short", us |-> {}]]
    /\ now = 0 /\ byHand = 0

-----------------------------------------------------------------------------
(***************************************************************************)
(* tidyPlan: when a layout is tidy, and when one transaction can make it.  *)
(***************************************************************************)
Refs(us) == {u.ref : u \in us}

Ada(us) == MapThenSumSet(LAMBDA u : u.ada, us)
Tokens(us) == MapThenSumSet(LAMBDA u : u.tok, us)

Carrying(us) == {u \in us : u.tok > 0}
AdaOnly(us) == us \ Carrying(us)

TokenNeed(us) == IF Carrying(us) = {} THEN 0 ELSE TokenMin

IsTidy(us, collateral) ==
    /\ Cardinality(Carrying(us)) <= 1
    /\ \A u \in Carrying(us) : u.ada <= TokenMin + TokenSlack
    /\ \E u \in AdaOnly(us) : u.ada >= collateral

CanTidy(us, collateral) ==
    /\ us # {} /\ Cardinality(us) <= MaxInputs
    /\ Ada(us) >= collateral + TokenNeed(us) + FeeMax + ChangeMin

Plans(us, collateral) == ~IsTidy(us, collateral) /\ CanTidy(us, collateral)

(* autoTidyDecision's gain: the fee is counted at its ceiling. *)
Frees(us) == Ada(us) - TokenNeed(us) - FeeMax > Ada(AdaOnly(us))

(***************************************************************************)
(* What a builder may come back with for the plan: the outputs and the fee *)
(* use up the inputs, and that is all the chain asks.                      *)
(***************************************************************************)
NextTx == Cardinality(sent) + 1

Output(i, ada, tok, own) == [ref |-> <<NextTx, i>>, ada |-> ada, tok |-> tok, own |-> own]

Outputs(us, holder, collateral, fee, own) ==
    LET rest == Ada(us) - holder - collateral - fee
    IN  {o \in {Output(1, holder, Tokens(us), TRUE), Output(2, collateral, 0, TRUE),
                Output(3, rest, 0, own)} : o.ada > 0}

Built(us, collateral) ==
    {[id |-> NextTx, by |-> "tidy", inputs |-> ins,
      outputs |-> Outputs(ins, h, c, f, own), fee |-> f, at |-> now, until |-> now + PendingMs, started |-> now] :
        ins \in {us} \cup {us \ {u} : u \in us}, c \in {collateral, collateral - 1},
        h \in IF Carrying(us) = {} THEN {0} ELSE {TokenMin, TokenMin + TokenSlack + 1},
        f \in {FeeMax, FeeMax + 1}, own \in BOOLEAN}

OwnOutputs(tx) == {o \in tx.outputs : o.own}

(* Mutant: the ADA that rides with the tokens is not looked at. *)
MatchesWithRide(tx, us, collateral) ==
    /\ tx.inputs = us
    /\ \A o \in tx.outputs : o.own
    /\ tx.fee <= FeeMax
    /\ Tokens(tx.outputs) = Tokens(us)
    /\ Cardinality(Carrying(tx.outputs)) = IF Carrying(us) = {} THEN 0 ELSE 1
    /\ \E o \in AdaOnly(tx.outputs) : o.ada = collateral

(* tidyProblem finds none. *)
Matches(tx, us, collateral) ==
    /\ tx.inputs = us
    /\ \A o \in tx.outputs : o.own
    /\ tx.fee <= FeeMax
    /\ Tokens(tx.outputs) = Tokens(us)
    /\ Cardinality(Carrying(tx.outputs)) = IF Carrying(us) = {} THEN 0 ELSE 1
    /\ \A o \in Carrying(tx.outputs) : o.ada <= TokenMin + TokenSlack
    /\ \E o \in AdaOnly(tx.outputs) : o.ada = collateral
    /\ Ada(tx.outputs) + tx.fee = Ada(us)

-----------------------------------------------------------------------------
(***************************************************************************)
(* What is booked.  inputBusy is Held; walletUnsettled adds the outputs a  *)
(* tidy paid back that are not listed yet.                                 *)
(***************************************************************************)
Held(ref) == \E b \in inFlight : b.ref = ref /\ now < b.until

Unlisted(refs, outs) == \E o \in outs : o.ref \notin refs /\ ~Held(o.ref) /\ now < o.until

(* Mutant: only what is not listed yet counts. *)
UnsettledIfUnlisted(refs) == Unlisted(refs, ownOutputs)

Unsettled(refs) == (\E ref \in refs : Held(ref)) \/ Unlisted(refs, ownOutputs)

TidyUnlisted(refs) == Unlisted(refs, {o \in ownOutputs : o.tx = lastTidyTx})

Without(refs) == {b \in inFlight : b.ref \notin refs}

BookInputs(tx) == inFlight' = Without(Refs(tx.inputs)) \cup {[ref |-> r, until |-> tx.until] : r \in Refs(tx.inputs)}

(***************************************************************************)
(* tidyWallet: the wallet's lock, the listing, the plan, the build, and    *)
(* the booking before the submit.  What it answers matters to the          *)
(* automatic one only: utxo_busy does not use up the interval.             *)
(***************************************************************************)
At(p, pc) == tidy[p].pc = pc

Turn(p, pc) == tidy' = [tidy EXCEPT ![p].pc = pc]

(* Mutant: no way of failing uses up the interval. *)
LastAtUnlessTidied(outcome) == IF outcome = "tidied" THEN lastAt ELSE before

LastAtAfter(outcome) == IF outcome = "utxo_busy" THEN before ELSE lastAt

End(p, outcome) ==
    /\ tidy' = [tidy EXCEPT ![p] = AtRest]
    /\ walletLock' = None
    /\ IF p = "auto" THEN running' = FALSE /\ lastAt' = LastAtAfter(outcome) /\ before' = None
                     ELSE UNCHANGED autoTidy

AskTidy(collateral) ==
    /\ At("operator", "idle")
    /\ byHand < OperatorTidies
    /\ byHand' = byHand + 1
    /\ tidy' = [tidy EXCEPT !["operator"] = [AtRest EXCEPT !.pc = "lock", !.collateral = collateral]]
    /\ UNCHANGED <<wallet, booked, walletLock, autoTidy, short, now>>

Enter(p) ==
    /\ At(p, "lock")
    /\ walletLock = None
    /\ walletLock' = p
    /\ Turn(p, "reading")
    /\ UNCHANGED <<wallet, booked, autoTidy, short, now, byHand>>

Read(p) ==
    /\ At(p, "reading")
    /\ IF Unsettled(Refs(listed)) THEN End(p, "utxo_busy")
       ELSE /\ tidy' = [tidy EXCEPT ![p].pc = "planning", ![p].us = listed]
            /\ UNCHANGED <<walletLock, autoTidy>>
    /\ UNCHANGED <<wallet, booked, short, now, byHand>>

Plan(p) ==
    /\ At(p, "planning")
    /\ IF Plans(tidy[p].us, tidy[p].collateral) THEN Turn(p, "building") /\ UNCHANGED <<walletLock, autoTidy>>
                                                ELSE End(p, "no_plan")
    /\ UNCHANGED <<wallet, booked, short, now, byHand>>

(* Also a dry run, which plans and no more. *)
Fails(p) ==
    /\ tidy[p].pc \in {"reading", "planning", "building"}
    /\ End(p, "failed")
    /\ UNCHANGED <<wallet, booked, short, now, byHand>>

(* A transaction that is not the plan's is refused, which is Fails. *)
Book(p) ==
    /\ At(p, "building")
    /\ \E tx \in Built(tidy[p].us, tidy[p].collateral) :
           /\ Matches(tx, tidy[p].us, tidy[p].collateral)
           /\ tidy' = [tidy EXCEPT ![p].pc = "submitting", ![p].tx = tx]
           /\ BookInputs(tx)
           /\ ownOutputs' = ownOutputs \cup
                  {[ref |-> r, tx |-> tx.id, until |-> tx.until] : r \in Refs(tx.outputs)}
           /\ lastTidyTx' = tx.id
    /\ UNCHANGED <<wallet, sent, walletLock, autoTidy, short, now, byHand>>

(* Accepted, or failed on the way back: nobody knows which. *)
Submit(p) ==
    /\ At(p, "submitting")
    /\ sent' = sent \cup {[tidy[p].tx EXCEPT !.by = p, !.started = IF p = "auto" THEN lastAt ELSE @]}
    /\ \E outcome \in {"tidied", "failed"} : End(p, outcome)
    /\ UNCHANGED <<wallet, inFlight, ownOutputs, lastTidyTx, short, now, byHand>>

Rejected(p) ==
    /\ At(p, "submitting")
    /\ inFlight' = Without(Refs(tidy[p].tx.inputs))
    /\ ownOutputs' = {o \in ownOutputs : o.ref \notin Refs(tidy[p].tx.outputs)}
    /\ lastTidyTx' = None
    /\ End(p, "failed")
    /\ UNCHANGED <<wallet, sent, short, now, byHand>>

-----------------------------------------------------------------------------
(***************************************************************************)
(* onShortOfFunds: an await to read the wallet and another to plan, with   *)
(* no lock, and then the decision in one step with the start.              *)
(***************************************************************************)
Answered(s, answer) == short' = [short EXCEPT ![s] = [pc |-> answer, us |-> {}]]

Look(s) ==
    /\ short[s].pc = "short"
    /\ IF running THEN Answered(s, "wait")
                  ELSE short' = [short EXCEPT ![s].pc = "reading"]
    /\ UNCHANGED <<wallet, booked, walletLock, tidy, autoTidy, now, byHand>>

ReadShort(s) ==
    /\ short[s].pc = "reading"
    /\ IF TidyUnlisted(Refs(listed)) THEN Answered(s, "wait")
                                     ELSE short' = [short EXCEPT ![s] = [pc |-> "deciding", us |-> listed]]
    /\ UNCHANGED <<wallet, booked, walletLock, tidy, autoTidy, now, byHand>>

ReadFails(s) ==
    /\ short[s].pc \in {"reading", "deciding"}
    /\ Answered(s, "refused")
    /\ UNCHANGED <<wallet, booked, walletLock, tidy, autoTidy, now, byHand>>

Worth(us) ==
    /\ lastAt # None => now - lastAt >= MinInterval
    /\ ~Unsettled(Refs(us))
    /\ Plans(us, Collateral)
    /\ Frees(us)

Decides(us) == ~running /\ Worth(us)

Schedule == [tidy EXCEPT !["auto"] = [AtRest EXCEPT !.pc = "lock", !.collateral = Collateral]]

StartAutoTidy(s) ==
    /\ short[s].pc = "deciding"
    /\ Decides(short[s].us)
    /\ running' = TRUE /\ before' = lastAt /\ lastAt' = now
    /\ tidy' = Schedule
    /\ Answered(s, "wait")
    /\ UNCHANGED <<wallet, booked, walletLock, now, byHand>>

(* Mutant: running is set before the audit, which throws. *)
LeftRunning == running' = TRUE /\ UNCHANGED <<lastAt, before>>

LeftAlone == UNCHANGED autoTidy

(* The audit record cannot be written: nothing was set, nothing starts. *)
AuditThrows(s) ==
    /\ short[s].pc = "deciding"
    /\ Decides(short[s].us)
    /\ LeftAlone
    /\ Answered(s, "refused")
    /\ UNCHANGED <<wallet, booked, walletLock, tidy, now, byHand>>

DecideNot(s) ==
    /\ short[s].pc = "deciding"
    /\ ~Decides(short[s].us)
    /\ Answered(s, IF running THEN "wait" ELSE "refused")
    /\ UNCHANGED <<wallet, booked, walletLock, tidy, autoTidy, now, byHand>>

-----------------------------------------------------------------------------
(***************************************************************************)
(* A payment: some listed UTxOs, none of them held, its price and fee one  *)
(* unit each, and the tokens and the rest back in one output.              *)
(***************************************************************************)
PaymentTx(us) ==
    [id |-> NextTx, by |-> "payment", inputs |-> us,
     outputs |-> {Output(1, Ada(us) - 2, Tokens(us), TRUE)}, fee |-> 1, at |-> now, until |-> now + PayHold,
     started |-> now]

Pay(us) ==
    /\ walletLock = None
    /\ Cardinality({tx \in sent : tx.by = "payment"}) < Payments
    /\ us # {} /\ Ada(us) > 2
    /\ \A u \in us : ~Held(u.ref)
    /\ sent' = sent \cup {PaymentTx(us)}
    /\ BookInputs(PaymentTx(us))
    /\ UNCHANGED <<wallet, ownOutputs, lastTidyTx, walletLock, tidy, autoTidy, short, now, byHand>>

Land(tx) ==
    /\ tx.inputs \subseteq utxos
    /\ utxos' = (utxos \ tx.inputs) \cup OwnOutputs(tx)
    /\ UNCHANGED <<listed, booked, walletLock, tidy, autoTidy, short, now, byHand>>

List ==
    /\ listed # utxos
    /\ listed' = utxos
    /\ UNCHANGED <<utxos, booked, walletLock, tidy, autoTidy, short, now, byHand>>

Tick ==
    /\ now < LastTime
    /\ now' = now + 1
    /\ UNCHANGED <<wallet, booked, walletLock, tidy, autoTidy, short, byHand>>

TidySteps(p) == Enter(p) \/ Read(p) \/ Plan(p) \/ Fails(p) \/ Book(p) \/ Submit(p) \/ Rejected(p)

ShortSteps(s) ==
    Look(s) \/ ReadShort(s) \/ ReadFails(s) \/ StartAutoTidy(s) \/ AuditThrows(s) \/ DecideNot(s)

Next ==
    \/ \E c \in Collaterals : AskTidy(c)
    \/ \E p \in Runs : TidySteps(p)
    \/ \E s \in Shorts : ShortSteps(s)
    \/ \E us \in SUBSET listed : Pay(us)
    \/ \E tx \in sent : Land(tx)
    \/ List \/ Tick

Spec == Init /\ [][Next]_vars

(* A lock that is let go reaches the next, and an await ends. *)
Fairness ==
    /\ \A p \in Runs : WF_vars(TidySteps(p))
    /\ \A s \in Shorts : WF_vars(ShortSteps(s))

FairSpec == Spec /\ Fairness

-----------------------------------------------------------------------------
(***************************************************************************)
(* No two transactions that signerd sent spend one UTxO while the first    *)
(* still holds it, tidies among them: a tidy waits for what is not         *)
(* settled, and what it books stays booked when the submit fails.          *)
(***************************************************************************)
HoldsRespected ==
    \A t1, t2 \in sent :
        t1 # t2 /\ Refs(t1.inputs) \cap Refs(t2.inputs) # {} => t1.at >= t2.until \/ t2.at >= t1.until

Tidies == {tx \in sent : tx.by # "payment"}

(***************************************************************************)
(* What a tidy leaves needs no tidy: it costs its fee once, not again and  *)
(* again.  (tidyPlan's three conditions against tidyProblem's.)            *)
(***************************************************************************)
TidyIsTidy == \A tx \in Tidies : \E c \in Collaterals \cup {Collateral} : IsTidy(OwnOutputs(tx), c)

(***************************************************************************)
(* Tidies that signerd started itself and that may have cost a fee are     *)
(* started an interval apart.  ("at most one automatic tidy per this many  *)
(* seconds".)                                                              *)
(***************************************************************************)
AutoTidiesApart ==
    \A t1, t2 \in {tx \in sent : tx.by = "auto"} :
        t1 # t2 => t1.started >= t2.started + MinInterval \/ t2.started >= t1.started + MinInterval

(***************************************************************************)
(* A caller told to wait for an automatic tidy is not told so for ever:    *)
(* whatever happens to the tidy, running goes off again.                   *)
(***************************************************************************)
NotRunningForGood == running ~> ~running
=============================================================================
