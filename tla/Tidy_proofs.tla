------------------------------ MODULE Tidy_proofs ------------------------------
(***************************************************************************)
(* Proofs about Tidy, for any wallet, holds, intervals, number of channel  *)
(* steps, payments and tidies.                                             *)
(***************************************************************************)
EXTENDS Tidy, TLAPS

Inside == {"reading", "planning", "building", "submitting"}

Asked == Collaterals \cup {Collateral}

IsTx(tx) ==
    \E id, ins, outs, fee :
        tx \in [id : {id}, by : Runs \cup {"tidy", "payment"}, inputs : {ins}, outputs : {outs},
                fee : {fee}, at : Nat, until : Nat, started : Nat]

IsRun(run) ==
    \E us, tx :
        run \in [pc : {"idle", "lock"} \cup Inside, us : {us}, collateral : Nat, tx : {tx}]

Typed ==
    /\ now \in Nat
    /\ tidy = [p \in Runs |-> tidy[p]]
    /\ \A p \in Runs : IsRun(tidy[p])
    /\ \A t \in sent : IsTx(t)
    /\ \A b \in inFlight : b.until \in Nat
    /\ lastAt \in Nat \cup {None} /\ before \in Nat \cup {None}

(***************************************************************************)
(* One run at a time is inside, and it was asked for a collateral.  What   *)
(* it is to spend is held by nothing while it plans and builds.            *)
(***************************************************************************)
OneInside ==
    \A p \in Runs :
        /\ tidy[p].pc \in Inside => walletLock = p
        /\ tidy[p].pc # "idle" => tidy[p].collateral \in Asked
        /\ tidy[p].pc \in {"planning", "building"} => \A u \in tidy[p].us : ~Held(u.ref)

(***************************************************************************)
(* Inputs stay booked until the hold is over.                              *)
(***************************************************************************)
StaysBooked(t) ==
    \A ref \in Refs(t.inputs) : now >= t.until \/ \E b \in inFlight : b.ref = ref /\ b.until = t.until

Shares(t1, t2) == \E ref \in Refs(t1.inputs) : ref \in Refs(t2.inputs)

(***************************************************************************)
(* What a run is about to send came after whatever shares an input with    *)
(* it, and leaves the wallet tidy.                                         *)
(***************************************************************************)
Submitting == {p \in Runs : tidy[p].pc = "submitting"}

Sendable(tx, collateral) ==
    /\ IsTx(tx) /\ StaysBooked(tx) /\ tx.at <= now
    /\ \A t \in sent : Shares(t, tx) => tx.at >= t.until
    /\ IsTidy(OwnOutputs(tx), collateral)

AboutToSend == \A run \in {tidy[p] : p \in Submitting} : Sendable(run.tx, run.collateral)

SentSound ==
    /\ \A t \in sent : StaysBooked(t)
    /\ \A t1, t2 \in sent : t1 # t2 /\ Shares(t1, t2) => t1.at >= t2.until \/ t2.at >= t1.until
    /\ \A t \in sent : t.by # "payment" => \E c \in Asked : IsTidy(OwnOutputs(t), c)

(***************************************************************************)
(* Automatic tidies that were sent were started no later than the one that *)
(* the next has to wait for.                                               *)
(***************************************************************************)
LastKept == IF running THEN before ELSE lastAt

Apart(t1, t2) == t1.started >= t2.started + MinInterval \/ t2.started >= t1.started + MinInterval

AutoSound ==
    /\ tidy["auto"].pc # "idle" => running
    /\ running => lastAt # None /\ (before # None => lastAt >= before + MinInterval)
    /\ \A t \in sent : t.by = "auto" => LastKept # None /\ t.started <= LastKept
    /\ \A t1, t2 \in sent : t1.by = "auto" /\ t2.by = "auto" /\ t1 # t2 => Apart(t1, t2)

TidyInv == Typed /\ OneInside /\ AboutToSend /\ SentSound /\ AutoSound

LEMMA Rests == IsRun(AtRest)
BY DEF AtRest, IsRun

LEMMA TidyInit == Init => TidyInv
<1> SUFFICES ASSUME Init PROVE TidyInv
  OBVIOUS
<1>1. \A p \in Runs : tidy[p] = AtRest /\ tidy[p].pc = "idle"
  BY DEF Init, AtRest
<1>2. Typed
  BY <1>1, Rests DEF Init, Typed
<1>3. OneInside /\ AboutToSend
  BY <1>1 DEF OneInside, AboutToSend, Submitting, Inside
<1>4. SentSound /\ AutoSound
  BY <1>1 DEF Init, SentSound, AutoSound, Runs
<1> QED BY <1>2, <1>3, <1>4 DEF TidyInv

-----------------------------------------------------------------------------
LEMMA TxTimes ==
    ASSUME NEW tx, IsTx(tx)
    PROVE  tx.at \in Nat /\ tx.until \in Nat /\ tx.started \in Nat
BY DEF IsTx

LEMMA BuiltTx ==
    ASSUME now \in Nat, NEW us, NEW c, NEW tx \in Built(us, c)
    PROVE  IsTx(tx) /\ tx.at = now
<1>1. now + PendingMs \in Nat
  BY TidyAssumption
<1>2. \E id, ins, outs, fee : tx = [id |-> id, by |-> "tidy", inputs |-> ins, outputs |-> outs, fee |-> fee,
                                    at |-> now, until |-> now + PendingMs, started |-> now]
  BY DEF Built
<1> QED BY <1>1, <1>2 DEF IsTx

LEMMA PaidTx ==
    ASSUME now \in Nat, NEW us
    PROVE  /\ IsTx(PaymentTx(us)) /\ PaymentTx(us).at = now /\ PaymentTx(us).inputs = us
           /\ PaymentTx(us).by = "payment"
<1>1. now + PayHold \in Nat
  BY TidyAssumption
<1> QED BY <1>1 DEF IsTx, PaymentTx

LEMMA MatchingIsTidy ==
    ASSUME NEW tx, NEW us, NEW c \in Nat, Matches(tx, us, c)
    PROVE  IsTidy(OwnOutputs(tx), c)
<1>1. OwnOutputs(tx) = tx.outputs
  BY DEF Matches, OwnOutputs
<1>2. Cardinality(Carrying(tx.outputs)) \in {0, 1}
  BY DEF Matches
<1>3. /\ \A u \in Carrying(tx.outputs) : u.ada <= TokenMin + TokenSlack
      /\ \E u \in AdaOnly(tx.outputs) : u.ada = c
  BY DEF Matches
<1> QED BY <1>1, <1>2, <1>3 DEF IsTidy

-----------------------------------------------------------------------------
(***************************************************************************)
(* Booking what nothing holds disturbs no hold that is not over.           *)
(***************************************************************************)
Unheld(tx) == \A ref \in Refs(tx.inputs) : ~Held(ref)

LEMMA HoldsOver ==
    ASSUME Typed, NEW tx, Unheld(tx), NEW t, IsTx(t), StaysBooked(t),
           NEW ref \in Refs(t.inputs), ref \in Refs(tx.inputs)
    PROVE  now >= t.until
<1>1. \A b \in inFlight : b.ref = ref => ~(now < b.until)
  BY DEF Unheld, Held
<1>2. now \in Nat /\ t.until \in Nat
  BY TxTimes DEF Typed
<1> QED BY <1>1, <1>2 DEF StaysBooked

LEMMA Booking ==
    ASSUME Typed, NEW tx, IsTx(tx), Unheld(tx), BookInputs(tx), now' = now
    PROVE  /\ StaysBooked(tx)'
           /\ \A b \in inFlight' : b.until \in Nat
           /\ \A t : IsTx(t) /\ StaysBooked(t) => StaysBooked(t)'
           /\ \A t : IsTx(t) /\ StaysBooked(t) /\ Shares(t, tx) => now >= t.until
<1>1. tx.until \in Nat
  BY TxTimes
<1>2. \A b \in inFlight' : \/ b \in inFlight /\ b.ref \notin Refs(tx.inputs)
                           \/ b.ref \in Refs(tx.inputs) /\ b.until = tx.until
  BY DEF BookInputs, Without
<1>3. \A b \in inFlight : b.ref \notin Refs(tx.inputs) => b \in inFlight'
  BY DEF BookInputs, Without
<1>4. \A ref \in Refs(tx.inputs) : \E b \in inFlight' : b.ref = ref /\ b.until = tx.until
  <2> TAKE ref \in Refs(tx.inputs)
  <2>1. [ref |-> ref, until |-> tx.until] \in inFlight'
    BY DEF BookInputs
  <2> QED BY <2>1
<1>5. StaysBooked(tx)'
  BY <1>4 DEF StaysBooked
<1>6. \A b \in inFlight' : b.until \in Nat
  BY <1>1, <1>2 DEF Typed
<1>7. ASSUME NEW t, IsTx(t), StaysBooked(t) PROVE StaysBooked(t)'
  <2> SUFFICES ASSUME NEW ref \in Refs(t.inputs)
               PROVE  now' >= t.until \/ \E b \in inFlight' : b.ref = ref /\ b.until = t.until
    BY DEF StaysBooked
  <2>1. CASE ref \in Refs(tx.inputs)
    BY <1>7, <2>1, HoldsOver
  <2>2. CASE ref \notin Refs(tx.inputs)
    BY <1>3, <1>7, <2>2 DEF StaysBooked
  <2> QED BY <2>1, <2>2
<1>8. ASSUME NEW t, IsTx(t), StaysBooked(t), Shares(t, tx) PROVE now >= t.until
  BY <1>8, HoldsOver DEF Shares
<1> QED BY <1>5, <1>6, <1>7, <1>8

(***************************************************************************)
(* A run goes on short of sending anything.                                *)
(***************************************************************************)
LEMMA GoesOn ==
    ASSUME TidyInv, NEW p \in Runs, NEW run, tidy' = [tidy EXCEPT ![p] = run],
           IsRun(run), run.pc # "submitting",
           run.pc \in Inside => walletLock' = p /\ walletLock \in {None, p},
           run.pc # "idle" => run.collateral \in Asked,
           run.pc \in {"planning", "building"} => \A u \in run.us : ~Held(u.ref),
           run.pc \notin Inside => walletLock' = walletLock \/ (walletLock = p /\ walletLock' = None),
           UNCHANGED <<sent, inFlight, now>>,
           lastAt' \in Nat \cup {None}, before' \in Nat \cup {None}, AutoSound'
    PROVE  TidyInv'
<1>1. tidy' = [q \in Runs |-> tidy'[q]] /\ tidy'[p] = run /\ \A q \in Runs : q # p => tidy'[q] = tidy[q]
  BY DEF TidyInv, Typed
<1>2. Typed'
  BY <1>1 DEF TidyInv, Typed, IsRun, IsTx
<1>3. OneInside'
  <2>1. ASSUME NEW q \in Runs, q # p, tidy'[q].pc \in Inside PROVE walletLock' = q
    <3>1. walletLock = q
      BY <1>1, <2>1 DEF TidyInv, OneInside
    <3>2. q # None
      BY TidyAssumption DEF Runs
    <3> QED BY <3>1, <3>2, <2>1
  <2>2. \A ref : Held(ref)' <=> Held(ref)
    BY DEF Held
  <2> QED BY <1>1, <2>1, <2>2 DEF TidyInv, OneInside
<1>4. \A t : StaysBooked(t)' <=> StaysBooked(t)
  BY DEF StaysBooked
<1>5. SentSound'
  BY <1>4 DEF TidyInv, SentSound
<1>6. AboutToSend'
  <2>1. \A tx, c : Sendable(tx, c)' <=> Sendable(tx, c)
    BY <1>4 DEF Sendable
  <2>2. {tidy'[q] : q \in Submitting'} \subseteq {tidy[q] : q \in Submitting}
    BY <1>1 DEF Submitting
  <2> QED BY <2>1, <2>2 DEF TidyInv, AboutToSend
<1> QED BY <1>2, <1>3, <1>5, <1>6 DEF TidyInv

LEMMA AutoRests ==
    ASSUME AutoSound, UNCHANGED <<sent, autoTidy>>, tidy'["auto"].pc # "idle" => tidy["auto"].pc # "idle"
    PROVE  AutoSound'
BY DEF AutoSound, LastKept, Apart, autoTidy

LEMMA AutoTimes ==
    ASSUME Typed
    PROVE  /\ lastAt # None => lastAt \in Nat
           /\ before # None => before \in Nat
           /\ MinInterval \in Nat
           /\ \A t \in sent : t.started \in Nat
BY TxTimes, TidyAssumption DEF Typed

LEMMA EndsAuto ==
    ASSUME TidyInv, NEW p \in Runs, tidy[p].pc \in Inside, NEW outcome, End(p, outcome)
    PROVE  /\ lastAt' \in Nat \cup {None} /\ before' \in Nat \cup {None}
           /\ tidy'["auto"].pc # "idle" => running'
           /\ p = "auto" => running /\ ~running'
           /\ running' => lastAt' # None /\ (before' # None => lastAt' >= before' + MinInterval)
           /\ LastKept # None => LastKept' # None /\ LastKept' >= LastKept
<1>1. tidy' = [tidy EXCEPT ![p] = AtRest] /\ AtRest.pc = "idle"
  BY DEF End, AtRest
<1>2. CASE p = "auto"
  <2>1. /\ running /\ running' = FALSE /\ before' = None
        /\ lastAt' \in {lastAt, before}
    BY <1>2 DEF End, LastAtAfter, TidyInv, AutoSound, Inside
  <2>2. lastAt # None /\ (before # None => lastAt >= before + MinInterval)
    BY <2>1 DEF TidyInv, AutoSound
  <2>3. LastKept = before /\ LastKept' = lastAt'
    BY <2>1 DEF LastKept
  <2>4. before # None => lastAt >= before
    BY <2>2, AutoTimes DEF TidyInv
  <2>5. tidy'["auto"] = AtRest
    BY <1>1, <1>2 DEF TidyInv, Typed
  <2>6. before # None => before \in Nat
    BY AutoTimes DEF TidyInv
  <2> QED BY <1>1, <1>2, <2>1, <2>2, <2>3, <2>4, <2>5, <2>6 DEF TidyInv, Typed
<1>3. CASE p # "auto"
  <2>1. UNCHANGED <<running, lastAt, before>>
    BY <1>3 DEF End, autoTidy
  <2>2. tidy'["auto"] = tidy["auto"] /\ LastKept' = LastKept
    BY <1>1, <1>3, <2>1 DEF TidyInv, Typed, Runs, LastKept
  <2>3. LastKept # None => LastKept \in Nat
    BY AutoTimes DEF TidyInv, LastKept
  <2> QED BY <1>3, <2>1, <2>2, <2>3 DEF TidyInv, Typed, AutoSound
<1> QED BY <1>2, <1>3

LEMMA EndStep ==
    ASSUME TidyInv, NEW p \in Runs, tidy[p].pc \in Inside, NEW outcome, End(p, outcome),
           UNCHANGED <<sent, inFlight, now>>
    PROVE  TidyInv'
<1>1. tidy' = [tidy EXCEPT ![p] = AtRest] /\ AtRest.pc = "idle" /\ walletLock = p /\ walletLock' = None
  BY DEF End, AtRest, TidyInv, OneInside
<1>2. AutoSound'
  <2>1. \A t \in sent : t.by = "auto" => LastKept' # None /\ t.started <= LastKept'
    <3>1. LastKept \in Nat \cup {None} /\ LastKept' \in Nat \cup {None}
      BY EndsAuto DEF TidyInv, Typed, LastKept
    <3> QED BY <3>1, EndsAuto, AutoTimes DEF TidyInv, AutoSound
  <2> QED BY <2>1, EndsAuto DEF TidyInv, AutoSound, Apart
<1> QED BY <1>1, <1>2, Rests, EndsAuto, GoesOn DEF Inside

LEMMA AskStep == ASSUME TidyInv, NEW c \in Collaterals, AskTidy(c) PROVE TidyInv'
<1> DEFINE run == [AtRest EXCEPT !.pc = "lock", !.collateral = c]
<1>1. /\ tidy' = [tidy EXCEPT !["operator"] = run] /\ walletLock' = walletLock
      /\ UNCHANGED <<sent, inFlight, now, autoTidy, running, lastAt, before>>
  BY DEF AskTidy, booked, autoTidy
<1>2. IsRun(run) /\ run.pc = "lock" /\ run.collateral = c /\ c \in Asked
  BY TidyAssumption DEF AtRest, IsRun, Asked
<1>3. tidy'["auto"] = tidy["auto"]
  BY <1>1 DEF TidyInv, Typed, Runs
<1>4. AutoSound'
  BY <1>1, <1>3, AutoRests DEF TidyInv
<1>5. lastAt' \in Nat \cup {None} /\ before' \in Nat \cup {None} /\ "operator" \in Runs
  BY <1>1 DEF TidyInv, Typed, Runs
<1> HIDE DEF run
<1> QED BY <1>1, <1>2, <1>4, <1>5, GoesOn DEF Inside

LEMMA EnterStep == ASSUME TidyInv, NEW p \in Runs, Enter(p) PROVE TidyInv'
<1> DEFINE run == [tidy[p] EXCEPT !.pc = "reading"]
<1>1. /\ tidy' = [tidy EXCEPT ![p] = run] /\ walletLock = None /\ walletLock' = p /\ tidy[p].pc = "lock"
      /\ UNCHANGED <<sent, inFlight, now, autoTidy, running, lastAt, before>>
  BY DEF Enter, Turn, At, booked, autoTidy
<1>2. IsRun(run) /\ run.pc = "reading" /\ run.collateral = tidy[p].collateral
  BY DEF TidyInv, Typed, IsRun, Inside
<1>3. tidy'["auto"].pc # "idle" => tidy["auto"].pc # "idle"
  BY <1>1 DEF TidyInv, Typed, Runs
<1>4. AutoSound'
  BY <1>1, <1>3, AutoRests DEF TidyInv
<1>5. lastAt' \in Nat \cup {None} /\ before' \in Nat \cup {None} /\ run.collateral \in Asked
  BY <1>1, <1>2 DEF TidyInv, Typed, OneInside
<1> HIDE DEF run
<1> QED BY <1>1, <1>2, <1>4, <1>5, GoesOn DEF Inside

(***************************************************************************)
(* A run that is inside goes on with what nothing holds.                   *)
(***************************************************************************)
LEMMA InsideOn ==
    ASSUME TidyInv, NEW p \in Runs, tidy[p].pc \in Inside, NEW run, tidy' = [tidy EXCEPT ![p] = run],
           IsRun(run), run.pc \in {"planning", "building"}, run.collateral = tidy[p].collateral,
           \A u \in run.us : ~Held(u.ref),
           UNCHANGED <<sent, inFlight, now, walletLock, autoTidy>>
    PROVE  TidyInv'
<1>1. walletLock = p /\ run.collateral \in Asked
  BY DEF TidyInv, OneInside, Inside
<1>2. tidy'["auto"].pc # "idle" => tidy["auto"].pc # "idle"
  BY DEF TidyInv, Typed, Runs, Inside
<1>3. AutoSound'
  BY <1>2, AutoRests DEF TidyInv
<1>4. lastAt' \in Nat \cup {None} /\ before' \in Nat \cup {None}
  BY DEF TidyInv, Typed, autoTidy
<1> QED BY <1>1, <1>3, <1>4, GoesOn DEF Inside

LEMMA ReadStep == ASSUME TidyInv, NEW p \in Runs, Read(p) PROVE TidyInv'
<1> DEFINE run == [tidy[p] EXCEPT !.pc = "planning", !.us = listed]
<1>1. tidy[p].pc \in Inside /\ UNCHANGED <<sent, inFlight, now>>
  BY DEF Read, At, Inside, booked
<1>2. CASE Unsettled(Refs(listed))
  BY <1>1, <1>2, EndStep DEF Read
<1>3. CASE ~Unsettled(Refs(listed))
  <2>1. tidy' = [tidy EXCEPT ![p] = run] /\ UNCHANGED <<walletLock, autoTidy>>
    BY <1>3 DEF Read
  <2>2. /\ IsRun(run) /\ run.pc = "planning" /\ run.us = listed
        /\ run.collateral = tidy[p].collateral
    BY DEF TidyInv, Typed, IsRun, Inside
  <2>3. \A u \in listed : ~Held(u.ref)
    BY <1>3 DEF Unsettled, Refs
  <2> HIDE DEF run
  <2> QED BY <1>1, <2>1, <2>2, <2>3, InsideOn
<1> QED BY <1>2, <1>3

LEMMA PlanStep == ASSUME TidyInv, NEW p \in Runs, Plan(p) PROVE TidyInv'
<1> DEFINE run == [tidy[p] EXCEPT !.pc = "building"]
<1>1. tidy[p].pc = "planning" /\ tidy[p].pc \in Inside /\ UNCHANGED <<sent, inFlight, now>>
  BY DEF Plan, At, Inside, booked
<1>2. ASSUME Turn(p, "building"), UNCHANGED <<walletLock, autoTidy>> PROVE TidyInv'
  <2>1. tidy' = [tidy EXCEPT ![p] = run]
    BY <1>2 DEF Turn
  <2>2. /\ IsRun(run) /\ run.pc = "building" /\ run.us = tidy[p].us
        /\ run.collateral = tidy[p].collateral
    BY DEF TidyInv, Typed, IsRun, Inside
  <2>3. \A u \in tidy[p].us : ~Held(u.ref)
    BY <1>1 DEF TidyInv, OneInside
  <2> HIDE DEF run
  <2> QED BY <1>1, <1>2, <2>1, <2>2, <2>3, InsideOn
<1>3. \/ Turn(p, "building") /\ UNCHANGED <<walletLock, autoTidy>>
      \/ End(p, "no_plan")
  BY DEF Plan
<1> QED BY <1>1, <1>2, <1>3, EndStep

LEMMA FailsStep == ASSUME TidyInv, NEW p \in Runs, Fails(p) PROVE TidyInv'
<1>1. tidy[p].pc \in Inside /\ UNCHANGED <<sent, inFlight, now>> /\ End(p, "failed")
  BY DEF Fails, Inside, booked
<1> QED BY <1>1, EndStep

LEMMA StartStep == ASSUME TidyInv, NEW s \in Shorts, StartAutoTidy(s) PROVE TidyInv'
<1> DEFINE run == [AtRest EXCEPT !.pc = "lock", !.collateral = Collateral]
<1>1. /\ tidy' = [tidy EXCEPT !["auto"] = run] /\ walletLock' = walletLock
      /\ ~running /\ running' = TRUE /\ before' = lastAt /\ lastAt' = now
      /\ lastAt # None => now - lastAt >= MinInterval
      /\ UNCHANGED <<sent, inFlight, now>>
  BY DEF StartAutoTidy, Decides, Worth, Schedule, booked
<1>2. IsRun(run) /\ run.pc = "lock" /\ run.collateral = Collateral /\ Collateral \in Asked
  BY TidyAssumption DEF AtRest, IsRun, Asked
<1>3. lastAt' \in Nat \cup {None} /\ before' \in Nat \cup {None} /\ "auto" \in Runs /\ lastAt' # None
  BY <1>1, TidyAssumption DEF TidyInv, Typed, Runs
<1>4. before' # None => lastAt' >= before' + MinInterval
  BY <1>1, AutoTimes DEF TidyInv, Typed
<1>5. LastKept' = LastKept
  BY <1>1 DEF LastKept
<1>6. AutoSound'
  BY <1>1, <1>3, <1>4, <1>5 DEF TidyInv, AutoSound, Apart
<1> HIDE DEF run
<1> QED BY <1>1, <1>2, <1>3, <1>6, GoesOn DEF Inside

-----------------------------------------------------------------------------
(***************************************************************************)
(* While one run is inside no other is, and once it is out none is.        *)
(***************************************************************************)
LEMMA NoOther ==
    ASSUME TidyInv, NEW p \in Runs, tidy[p].pc \in Inside
    PROVE  walletLock = p /\ \A q \in Runs : q # p => tidy[q].pc \notin Inside
BY DEF TidyInv, OneInside

LEMMA Leaves ==
    ASSUME TidyInv, NEW p \in Runs, tidy[p].pc \in Inside, NEW outcome, End(p, outcome)
    PROVE  /\ tidy' = [q \in Runs |-> tidy'[q]] /\ \A q \in Runs : IsRun(tidy'[q])
           /\ OneInside' /\ AboutToSend'
<1>1. tidy' = [tidy EXCEPT ![p] = AtRest] /\ AtRest.pc = "idle"
  BY DEF End, AtRest
<1>2. /\ tidy' = [q \in Runs |-> tidy'[q]] /\ tidy'[p] = AtRest
      /\ \A q \in Runs : q # p => tidy'[q] = tidy[q]
  BY <1>1 DEF TidyInv, Typed
<1>3. \A q \in Runs : IsRun(tidy'[q])
  BY <1>2, Rests DEF TidyInv, Typed
<1>4. \A q \in Runs : tidy'[q].pc \notin Inside
  BY <1>1, <1>2, NoOther DEF Inside
<1>5. OneInside'
  BY <1>1, <1>2, <1>4 DEF TidyInv, OneInside, Inside
<1>6. AboutToSend'
  BY <1>4 DEF AboutToSend, Submitting, Inside
<1> QED BY <1>2, <1>3, <1>5, <1>6

LEMMA BookStep == ASSUME TidyInv, NEW p \in Runs, Book(p) PROVE TidyInv'
<1>1. PICK tx \in Built(tidy[p].us, tidy[p].collateral) :
          /\ Matches(tx, tidy[p].us, tidy[p].collateral)
          /\ tidy' = [tidy EXCEPT ![p].pc = "submitting", ![p].tx = tx]
          /\ BookInputs(tx)
  BY DEF Book
<1>2. tidy[p].pc = "building" /\ tidy[p].pc \in Inside /\ UNCHANGED <<sent, now, walletLock, autoTidy>>
  BY DEF Book, At, Inside
<1>3. IsTx(tx) /\ tx.at = now /\ tx.inputs = tidy[p].us
  BY <1>1, BuiltTx DEF TidyInv, Typed, Matches
<1>4. Unheld(tx)
  BY <1>2, <1>3 DEF TidyInv, OneInside, Unheld, Refs
<1>5. /\ StaysBooked(tx)'
      /\ \A b \in inFlight' : b.until \in Nat
      /\ \A t : IsTx(t) /\ StaysBooked(t) => StaysBooked(t)'
      /\ \A t : IsTx(t) /\ StaysBooked(t) /\ Shares(t, tx) => now >= t.until
  BY <1>1, <1>2, <1>3, <1>4, Booking DEF TidyInv
<1>6. /\ tidy' = [q \in Runs |-> tidy'[q]] /\ \A q \in Runs : q # p => tidy'[q] = tidy[q]
      /\ tidy'[p] = [tidy[p] EXCEPT !.pc = "submitting", !.tx = tx]
  BY <1>1 DEF TidyInv, Typed
<1>7. /\ IsRun(tidy'[p]) /\ tidy'[p].pc = "submitting" /\ tidy'[p].tx = tx
      /\ tidy'[p].collateral = tidy[p].collateral
  BY <1>6 DEF TidyInv, Typed, IsRun, Inside
<1>8. Typed'
  BY <1>2, <1>5, <1>6, <1>7 DEF TidyInv, Typed, IsRun, IsTx, autoTidy
<1>9. OneInside'
  <2>1. \A q \in Runs : tidy'[q].pc \in Inside => q = p
    BY <1>2, <1>6, NoOther
  <2>2. \A q \in Runs : tidy'[q].pc \notin {"planning", "building"}
    BY <2>1, <1>7 DEF Inside
  <2>3. \A q \in Runs : tidy'[q].pc # "idle" => tidy'[q].collateral \in Asked
    BY <1>2, <1>6, <1>7 DEF TidyInv, OneInside
  <2> QED BY <2>1, <2>2, <2>3, <1>2, NoOther DEF OneInside
<1>10. AboutToSend'
  <2>1. Submitting' = {p}
    BY <1>2, <1>6, <1>7, NoOther DEF Submitting, Inside
  <2>2. Sendable(tx, tidy[p].collateral)'
    <3>1. tidy[p].collateral \in Nat
      BY DEF TidyInv, Typed, IsRun
    <3>2. IsTidy(OwnOutputs(tx), tidy[p].collateral)
      BY <1>1, <3>1, MatchingIsTidy
    <3>3. tx.at <= now' /\ \A t \in sent' : Shares(t, tx) => tx.at >= t.until
      BY <1>2, <1>3, <1>5, TxTimes DEF TidyInv, Typed, SentSound
    <3> QED BY <1>3, <1>5, <3>2, <3>3, <1>7 DEF Sendable
  <2> QED BY <2>1, <2>2, <1>7 DEF AboutToSend
<1>11. SentSound'
  BY <1>2, <1>5 DEF TidyInv, Typed, SentSound
<1>12. AutoSound'
  BY <1>2, <1>6, AutoRests DEF TidyInv, Inside, Runs
<1> QED BY <1>8, <1>9, <1>10, <1>11, <1>12 DEF TidyInv

LEMMA SentStep ==
    ASSUME TidyInv, NEW p \in Runs, tidy[p].pc = "submitting",
           NEW outcome \in {"tidied", "failed"}, End(p, outcome),
           NEW tx, Sendable(tx, tidy[p].collateral), NEW sentTx, IsTx(sentTx),
           sentTx.by = p, p = "auto" => sentTx.started = lastAt,
           sentTx.inputs = tx.inputs, sentTx.outputs = tx.outputs,
           sentTx.at = tx.at, sentTx.until = tx.until,
           sent' = sent \cup {sentTx}, UNCHANGED <<inFlight, now>>
    PROVE  TidyInv'
<1>1. /\ tidy[p].pc = "submitting" /\ sent' = sent \cup {sentTx} /\ UNCHANGED <<inFlight, now>>
  OBVIOUS
<1>2. End(p, outcome)
  OBVIOUS
<1>3. Sendable(tx, tidy[p].collateral) /\ tidy[p].collateral \in Asked
  BY <1>1 DEF TidyInv, OneInside, Inside
<1>4. sentTx.started \in Nat
  BY TxTimes
<1>5. /\ IsTx(sentTx) /\ sentTx.by = p
      /\ sentTx.inputs = tx.inputs /\ sentTx.outputs = tx.outputs
      /\ sentTx.at = tx.at /\ sentTx.until = tx.until
  OBVIOUS
<1>6. /\ lastAt' \in Nat \cup {None} /\ before' \in Nat \cup {None}
      /\ tidy'["auto"].pc # "idle" => running'
      /\ p = "auto" => running /\ ~running'
      /\ running' => lastAt' # None /\ (before' # None => lastAt' >= before' + MinInterval)
      /\ LastKept # None => LastKept' # None /\ LastKept' >= LastKept
  BY <1>1, <1>2, EndsAuto DEF Inside
<1>7. /\ tidy' = [q \in Runs |-> tidy'[q]] /\ \A q \in Runs : IsRun(tidy'[q])
      /\ OneInside' /\ AboutToSend'
  BY <1>1, <1>2, Leaves DEF Inside
<1>8. Typed'
  BY <1>1, <1>5, <1>6, <1>7 DEF TidyInv, Typed, IsRun, IsTx
<1>9. SentSound'
  <2>1. \A t : StaysBooked(t)' <=> StaysBooked(t)
    BY <1>1 DEF StaysBooked
  <2>2. StaysBooked(sentTx)
    BY <1>3, <1>5 DEF Sendable, StaysBooked
  <2>3. \A t \in sent : Shares(t, sentTx) \/ Shares(sentTx, t) => sentTx.at >= t.until
    BY <1>3, <1>5 DEF Sendable, Shares
  <2>4. IsTidy(OwnOutputs(sentTx), tidy[p].collateral)
    BY <1>3, <1>5 DEF Sendable, OwnOutputs
  <2>5. \A t \in sent' : StaysBooked(t)'
    BY <1>1, <2>1, <2>2 DEF TidyInv, SentSound
  <2>6. \A t1, t2 \in sent' : t1 # t2 /\ Shares(t1, t2) => t1.at >= t2.until \/ t2.at >= t1.until
    BY <1>1, <2>3 DEF TidyInv, SentSound
  <2>7. \A t \in sent' : t.by # "payment" => \E c \in Asked : IsTidy(OwnOutputs(t), c)
    BY <1>1, <1>3, <2>4 DEF TidyInv, SentSound
  <2> QED BY <2>5, <2>6, <2>7 DEF SentSound
<1>10. AutoSound'
  <2>1. LastKept \in Nat \cup {None} /\ LastKept' \in Nat \cup {None}
    BY <1>6 DEF TidyInv, Typed, LastKept
  <2>2. \A t \in sent : t.by = "auto" => LastKept' # None /\ t.started <= LastKept'
    BY <2>1, <1>6, AutoTimes DEF TidyInv, AutoSound
  <2>3. p = "auto" => LastKept' = lastAt /\ sentTx.started = lastAt /\ lastAt \in Nat
    BY <1>2, <1>4, <1>6 DEF End, LastAtAfter, LastKept
  <2>4. sentTx.by = "auto" => LastKept' # None /\ sentTx.started <= LastKept'
    BY <1>5, <2>3, TidyAssumption
  <2>5. sentTx.by = "auto" => \A t \in sent : t.by = "auto" => sentTx.started >= t.started + MinInterval
    <3> SUFFICES ASSUME p = "auto", NEW t \in sent, t.by = "auto" PROVE lastAt >= t.started + MinInterval
      BY <1>5, <2>3
    <3>1. before # None /\ t.started <= before /\ lastAt >= before + MinInterval
      BY <1>6 DEF TidyInv, AutoSound, LastKept
    <3>2. before \in Nat /\ t.started \in Nat /\ MinInterval \in Nat /\ lastAt \in Nat
      BY <2>3, <3>1, AutoTimes DEF TidyInv
    <3> QED BY <3>1, <3>2
  <2>6. \A t1, t2 \in sent' : t1.by = "auto" /\ t2.by = "auto" /\ t1 # t2 => Apart(t1, t2)
    BY <1>1, <2>5 DEF TidyInv, AutoSound, Apart
  <2>7. \A t \in sent' : t.by = "auto" => LastKept' # None /\ t.started <= LastKept'
    BY <1>1, <2>2, <2>4
  <2> QED BY <1>6, <2>6, <2>7 DEF AutoSound, Apart
<1> QED BY <1>7, <1>8, <1>9, <1>10 DEF TidyInv

LEMMA SubmitStep == ASSUME TidyInv, NEW p \in Runs, Submit(p) PROVE TidyInv'
<1> DEFINE started == IF p = "auto" THEN lastAt ELSE tidy[p].tx.started
           sentTx == [tidy[p].tx EXCEPT !.by = p, !.started = started]
<1>1. /\ tidy[p].pc = "submitting" /\ sent' = sent \cup {sentTx} /\ UNCHANGED <<inFlight, now>>
      /\ \E outcome \in {"tidied", "failed"} : End(p, outcome)
  BY DEF Submit, At
<1>2. Sendable(tidy[p].tx, tidy[p].collateral)
  BY <1>1 DEF TidyInv, AboutToSend, Submitting
<1>3. started \in Nat
  <2>1. CASE p = "auto"
    BY <1>1, <2>1, AutoTimes DEF TidyInv, AutoSound
  <2>2. CASE p # "auto"
    BY <1>2, <2>2, TxTimes DEF Sendable
  <2> QED BY <2>1, <2>2
<1> HIDE DEF started
<1>4. /\ IsTx(sentTx) /\ sentTx.by = p /\ sentTx.started = started
      /\ sentTx.inputs = tidy[p].tx.inputs /\ sentTx.outputs = tidy[p].tx.outputs
      /\ sentTx.at = tidy[p].tx.at /\ sentTx.until = tidy[p].tx.until
  BY <1>2, <1>3 DEF Sendable, IsTx
<1>5. p = "auto" => started = lastAt
  BY DEF started
<1> HIDE DEF sentTx
<1> QED BY <1>1, <1>2, <1>4, <1>5, SentStep

LEMMA RejectedStep == ASSUME TidyInv, NEW p \in Runs, Rejected(p) PROVE TidyInv'
<1> DEFINE tx == tidy[p].tx
<1>1. /\ tidy[p].pc = "submitting" /\ tidy[p].pc \in Inside /\ UNCHANGED <<sent, now>>
      /\ inFlight' = Without(Refs(tx.inputs)) /\ End(p, "failed")
  BY DEF Rejected, At, Inside
<1>2. Sendable(tx, tidy[p].collateral)
  BY <1>1 DEF TidyInv, AboutToSend, Submitting
<1> HIDE DEF tx
<1>3. /\ lastAt' \in Nat \cup {None} /\ before' \in Nat \cup {None}
      /\ tidy'["auto"].pc # "idle" => running'
      /\ running' => lastAt' # None /\ (before' # None => lastAt' >= before' + MinInterval)
      /\ LastKept # None => LastKept' # None /\ LastKept' >= LastKept
  BY <1>1, EndsAuto
<1>4. /\ tidy' = [q \in Runs |-> tidy'[q]] /\ \A q \in Runs : IsRun(tidy'[q])
      /\ OneInside' /\ AboutToSend'
  BY <1>1, Leaves
<1>5. Typed'
  BY <1>1, <1>3, <1>4 DEF TidyInv, Typed, Without, IsRun, IsTx
<1>6. ASSUME NEW t \in sent PROVE StaysBooked(t)'
  <2> SUFFICES ASSUME NEW ref \in Refs(t.inputs)
               PROVE  now' >= t.until \/ \E b \in inFlight' : b.ref = ref /\ b.until = t.until
    BY DEF StaysBooked
  <2>1. CASE ref \in Refs(tx.inputs)
    <3>1. tx.at >= t.until /\ tx.at <= now
      BY <1>2, <2>1 DEF Sendable, Shares
    <3>2. tx.at \in Nat /\ t.until \in Nat /\ now \in Nat
      BY <1>2, TxTimes DEF Sendable, TidyInv, Typed
    <3> QED BY <1>1, <3>1, <3>2
  <2>2. CASE ref \notin Refs(tx.inputs)
    BY <1>1, <2>2 DEF TidyInv, SentSound, StaysBooked, Without
  <2> QED BY <2>1, <2>2
<1>7. SentSound'
  BY <1>1, <1>6 DEF TidyInv, SentSound
<1>8. AutoSound'
  <2>1. LastKept \in Nat \cup {None} /\ LastKept' \in Nat \cup {None}
    BY <1>3 DEF TidyInv, Typed, LastKept
  <2>2. \A t \in sent : t.by = "auto" => LastKept' # None /\ t.started <= LastKept'
    BY <2>1, <1>3, AutoTimes DEF TidyInv, AutoSound
  <2> QED BY <1>1, <1>3, <2>2 DEF TidyInv, AutoSound, Apart
<1> QED BY <1>4, <1>5, <1>7, <1>8 DEF TidyInv

(***************************************************************************)
(* A payment is made while no run is inside, of what nothing holds.        *)
(***************************************************************************)
LEMMA PayStep == ASSUME TidyInv, NEW us, Pay(us) PROVE TidyInv'
<1> PICK tx : tx = PaymentTx(us)
  OBVIOUS
<1>1. /\ sent' = sent \cup {tx} /\ BookInputs(tx) /\ walletLock = None
      /\ \A u \in us : ~Held(u.ref)
      /\ UNCHANGED <<now, walletLock, tidy, running, lastAt, before>>
  BY DEF Pay, autoTidy
<1>2. IsTx(tx) /\ tx.at = now /\ tx.inputs = us /\ tx.by = "payment"
  BY PaidTx DEF TidyInv, Typed
<1>3. Unheld(tx)
  BY <1>1, <1>2 DEF Unheld, Refs
<1>4. /\ StaysBooked(tx)'
      /\ \A b \in inFlight' : b.until \in Nat
      /\ \A t : IsTx(t) /\ StaysBooked(t) => StaysBooked(t)'
      /\ \A t : IsTx(t) /\ StaysBooked(t) /\ Shares(t, tx) => now >= t.until
  BY <1>1, <1>2, <1>3, Booking DEF TidyInv
<1>5. \A q \in Runs : tidy[q].pc \notin Inside
  BY <1>1, TidyAssumption DEF TidyInv, OneInside, Runs
<1>6. Typed'
  BY <1>1, <1>2, <1>4 DEF TidyInv, Typed, IsRun, IsTx
<1>7. OneInside'
  BY <1>1, <1>5 DEF TidyInv, OneInside, Inside
<1>8. AboutToSend'
  BY <1>1, <1>5 DEF AboutToSend, Submitting, Inside
<1>9. SentSound'
  <2>1. \A t \in sent' : StaysBooked(t)'
    BY <1>1, <1>4 DEF TidyInv, Typed, SentSound
  <2>2. \A t \in sent : Shares(t, tx) \/ Shares(tx, t) => tx.at >= t.until
    BY <1>2, <1>4 DEF TidyInv, Typed, SentSound, Shares
  <2>3. \A t1, t2 \in sent' : t1 # t2 /\ Shares(t1, t2) => t1.at >= t2.until \/ t2.at >= t1.until
    BY <1>1, <2>2 DEF TidyInv, SentSound
  <2>4. \A t \in sent' : t.by # "payment" => \E c \in Asked : IsTidy(OwnOutputs(t), c)
    BY <1>1, <1>2 DEF TidyInv, SentSound
  <2> QED BY <2>1, <2>3, <2>4 DEF SentSound
<1>10. AutoSound'
  BY <1>1, <1>2 DEF TidyInv, AutoSound, LastKept, Apart
<1> QED BY <1>6, <1>7, <1>8, <1>9, <1>10 DEF TidyInv

LEMMA TidyRests ==
    ASSUME TidyInv, UNCHANGED <<sent, inFlight, walletLock, tidy, running, lastAt, before, now>>
    PROVE  TidyInv'
<1>1. \A t : StaysBooked(t)' <=> StaysBooked(t)
  BY DEF StaysBooked
<1>2. \A tx, c : Sendable(tx, c)' <=> Sendable(tx, c)
  BY <1>1 DEF Sendable
<1>3. Typed' /\ OneInside'
  BY DEF TidyInv, Typed, OneInside, Held, IsRun, IsTx
<1>4. AboutToSend' /\ SentSound' /\ AutoSound'
  BY <1>1, <1>2 DEF TidyInv, AboutToSend, Submitting, SentSound, AutoSound, LastKept, Apart
<1> QED BY <1>3, <1>4 DEF TidyInv

LEMMA TickStep == ASSUME TidyInv, Tick PROVE TidyInv'
<1>1. now \in Nat /\ now' = now + 1
      /\ UNCHANGED <<sent, inFlight, walletLock, tidy, running, lastAt, before>>
  BY DEF TidyInv, Typed, Tick, booked, autoTidy
<1>2. \A b \in inFlight : b.until \in Nat
  BY DEF TidyInv, Typed
<1>3. \A ref : Held(ref)' => Held(ref)
  BY <1>1, <1>2 DEF Held
<1>4. \A t : IsTx(t) /\ StaysBooked(t) => StaysBooked(t)'
  BY <1>1, TxTimes DEF StaysBooked
<1>5. \A tx, c : Sendable(tx, c) => Sendable(tx, c)'
  BY <1>1, <1>4, TxTimes DEF Sendable
<1>6. Typed' /\ OneInside'
  BY <1>1, <1>3 DEF TidyInv, Typed, OneInside, IsRun, IsTx
<1>7. AboutToSend' /\ SentSound' /\ AutoSound'
  BY <1>1, <1>4, <1>5 DEF TidyInv, Typed, AboutToSend, Submitting, SentSound, AutoSound, LastKept, Apart
<1> QED BY <1>6, <1>7 DEF TidyInv

LEMMA TidyStep == TidyInv /\ [Next]_vars => TidyInv'
<1> SUFFICES ASSUME TidyInv, [Next]_vars PROVE TidyInv'
  OBVIOUS
<1>1. ASSUME NEW s \in Shorts, Look(s) \/ ReadShort(s) \/ ReadFails(s) \/ AuditThrows(s) \/ DecideNot(s)
      PROVE  TidyInv'
  BY <1>1, TidyRests DEF Look, ReadShort, ReadFails, AuditThrows, LeftAlone, DecideNot, booked, autoTidy
<1>2. ASSUME (\E tx \in sent : Land(tx)) \/ List \/ UNCHANGED vars PROVE TidyInv'
  BY <1>2, TidyRests DEF Land, List, vars, booked, autoTidy
<1>3. ASSUME NEW s \in Shorts, ShortSteps(s) PROVE TidyInv'
  BY <1>1, <1>3, StartStep DEF ShortSteps
<1>4. ASSUME NEW p \in Runs, TidySteps(p) PROVE TidyInv'
  BY <1>4, EnterStep, ReadStep, PlanStep, FailsStep, BookStep, SubmitStep, RejectedStep DEF TidySteps
<1> QED BY <1>2, <1>3, <1>4, AskStep, PayStep, TickStep DEF Next

-----------------------------------------------------------------------------
(***************************************************************************)
(* For any holds, and payments and tidies that race: two transactions that *)
(* signerd sent spend one UTxO only when the first no longer holds it.     *)
(***************************************************************************)
THEOREM NoHoldIsBroken == Spec => []HoldsRespected
<1>1. TidyInv => HoldsRespected
  <2> SUFFICES ASSUME TidyInv, NEW t1 \in sent, NEW t2 \in sent, t1 # t2,
                      Refs(t1.inputs) \cap Refs(t2.inputs) # {}
               PROVE  t1.at >= t2.until \/ t2.at >= t1.until
    BY DEF HoldsRespected
  <2> QED BY DEF TidyInv, SentSound, Shares
<1> QED BY <1>1, TidyInit, TidyStep, PTL DEF Spec

(***************************************************************************)
(* For any wallet and collateral, and whatever the builder comes back      *)
(* with: the outputs of a tidy that was sent need no other tidy.           *)
(***************************************************************************)
THEOREM ATidyNeedsNoTidy == Spec => []TidyIsTidy
<1>1. TidyInv => TidyIsTidy
  BY DEF TidyInv, SentSound, TidyIsTidy, Tidies, Asked
<1> QED BY <1>1, TidyInit, TidyStep, PTL DEF Spec

(***************************************************************************)
(* For any interval and any number of channel steps that run short at      *)
(* once: automatic tidies that were sent were started an interval apart,   *)
(* also those that failed, while one that found the wallet busy gives the  *)
(* interval back.                                                          *)
(***************************************************************************)
THEOREM AutomaticTidiesAreRare == Spec => []AutoTidiesApart
<1>1. TidyInv => AutoTidiesApart
  BY DEF TidyInv, AutoSound, AutoTidiesApart, Apart
<1> QED BY <1>1, TidyInit, TidyStep, PTL DEF Spec
=============================================================================
