---------------------------- MODULE Journal_proofs ----------------------------
(***************************************************************************)
(* Proofs about Journal, for any set of payments, any window and any       *)
(* number of crashes.                                                      *)
(*                                                                         *)
(* The argument: whatever is or was in memory, each of the two checkpoints *)
(* that may survive holds, together with the log written since it, every   *)
(* spend that still counts (Base), and the releases the log shows since    *)
(* then are exactly those of spends in Base.  Rebuilding from either then  *)
(* yields what was issued, minus what was given back, minus what is old.   *)
(***************************************************************************)
EXTENDS Journal, TLAPS

SpendsLogged(c) ==
    UNION {SpendsOf(e.of, e.ts) : e \in {x \in Unseen(c) : x.event = "signed"}}

Base(c) == c.spends \cup SpendsLogged(c)

Live(s) == s \in issued /\ Recent(s.ts) /\ Part(s) \notin released

PaymentOf(tx) == [tx |-> tx, kind |-> "payment"]

Checkpoints == {ckpt, oldCkpt}

(***************************************************************************)
(* What the records, the spends and the releases ever written say of each  *)
(* other; a payment is given back before its overhead.                     *)
(***************************************************************************)
IssuedSound ==
    /\ \A s \in issued : s.ts <= now /\ s.tx \in recorded
    /\ \A s, p \in issued : s.tx = p.tx => s.ts = p.ts /\ (s.kind = p.kind => s = p)
    /\ \A part \in released : \E s \in issued : Part(s) = part
    /\ \A part \in released : part.kind = "overhead" => PaymentOf(part.tx) \in released

LogSound ==
    /\ \A e \in log \cup ckpt.covers \cup oldCkpt.covers :
          /\ e.event = "signed" => SpendsOf(e.of, e.ts) \subseteq issued
          /\ e.event = "spend_released" => e.of \in released
    /\ \A e, f \in log :
          e.event = "spend_released" /\ f.event = "spend_released" /\ e.of = f.of => e = f

(***************************************************************************)
(* A checkpoint and the log after it.                                      *)
(***************************************************************************)
ReleasedSince(c, part, t) ==
    \E e \in Unseen(c) : e.event = "spend_released" /\ e.of = part /\ t <= e.ts

Complete(c) ==
    /\ Base(c) \subseteq issued
    /\ \A s \in issued : Live(s) => s \in Base(c)

ReleasesMatch(c) ==
    /\ \A s \in Base(c) : Part(s) \in released => ReleasedSince(c, Part(s), s.ts)
    /\ \A e \in Unseen(c) : e.event = "spend_released" => \E s \in Base(c) : Part(s) = e.of

PaymentsStay(S) ==
    \A s \in S : s.kind = "overhead" =>
        PaymentOf(s.tx) \in released \/ \E p \in S : Part(p) = PaymentOf(s.tx)

LoggedOnce(c) ==
    \A e \in Unseen(c) : e.event = "signed" => \A s \in c.spends : s.tx # e.of.tx

Restorable(c) == Complete(c) /\ ReleasesMatch(c) /\ PaymentsStay(Base(c)) /\ LoggedOnce(c)

(***************************************************************************)
(* The ledger in memory, of which only the payment being recorded is not   *)
(* in Base yet.                                                            *)
(***************************************************************************)
Pushing == IF phase = "pushed" THEN SpendsOf(bill, now) ELSE {}

LedgerSound ==
    /\ \A c \in Checkpoints : ledger \subseteq Base(c) \cup Pushing
    /\ Pushing \subseteq ledger
    /\ \A s \in ledger : Part(s) \notin released
    /\ PaymentsStay(ledger)
    /\ phase # "down" => \A s \in issued : Live(s) => s \in ledger

PhaseSound ==
    /\ phase \in {"down", "starting"} => oldCkpt = ckpt
    /\ phase = "pushed" =>
          bill \in Bills /\ bill.tx \in recorded /\ \A s \in issued : s.tx # bill.tx

JournalInv ==
    /\ TypeOK
    /\ IssuedSound
    /\ LogSound
    /\ \A c \in Checkpoints : Restorable(c)
    /\ LedgerSound
    /\ PhaseSound

-----------------------------------------------------------------------------
(***************************************************************************)
(* Facts about spends and records.                                         *)
(***************************************************************************)
LEMMA SpendsOfFacts ==
    ASSUME NEW b \in Bills, NEW t \in Nat
    PROVE  /\ SpendsOf(b, t) \subseteq Spends
           /\ Payment(b, t) \in SpendsOf(b, t)
           /\ Part(Payment(b, t)) = PaymentOf(b.tx)
           /\ \A s \in SpendsOf(b, t) : s.tx = b.tx /\ s.ts = t
BY JournalAssumption DEF SpendsOf, Payment, Overhead, Spends, Txs, Part, PaymentOf

LEMMA SpendParts ==
    ASSUME NEW s \in Spends
    PROVE  /\ Part(s) \in Parts /\ Part(s).tx = s.tx /\ Part(s).kind = s.kind
           /\ s.kind = "payment" => Part(s) = PaymentOf(s.tx)
           /\ s.ts \in Nat
BY DEF Spends, Part, Parts, PaymentOf

LEMMA LoggedTypes ==
    ASSUME TypeOK, NEW e \in log
    PROVE  /\ e.event = "signed" => e.of \in Bills /\ e.ts \in Nat
           /\ e.event = "spend_released" => e.of \in Parts /\ e.ts \in Nat
BY DEF TypeOK, ClosingEvents

LEMMA BaseTypes ==
    ASSUME JournalInv, NEW c \in Checkpoints
    PROVE  Base(c) \subseteq issued /\ issued \subseteq Spends
BY DEF JournalInv, Restorable, Complete, TypeOK

(***************************************************************************)
(* What a start rebuilds from a checkpoint that may survive: the recent    *)
(* spends of Base that were not given back, neither fewer nor more.        *)
(***************************************************************************)
LEMMA Recovered ==
    ASSUME JournalInv, NEW c \in Checkpoints
    PROVE  Rebuilt(c) = {s \in Base(c) : Recent(s.ts) /\ Part(s) \notin released}
<1> DEFINE S == FromCheckpoint(c) \cup FromLog(c)
<1>1. S = {s \in Base(c) : Recent(s.ts)}
  <2>1. \A e \in Unseen(c) : e.event = "signed" => \A s \in SpendsOf(e.of, e.ts) : s.ts = e.ts
    BY LoggedTypes, SpendsOfFacts DEF Unseen, JournalInv
  <2> QED BY <2>1 DEF FromCheckpoint, FromLog, Base, SpendsLogged
<1>2. S \subseteq issued /\ issued \subseteq Spends
  BY <1>1, BaseTypes
<1> HIDE DEF S
<1>3. ASSUME NEW s \in S
      PROVE  s \in Removed(S, c) <=> Part(s) \in released
  <2> DEFINE R == Releases(c, s.tx)
  <2>1. /\ s \in Base(c) /\ s \in issued /\ s \in Spends /\ Recent(s.ts)
        /\ s.kind \in {"payment", "overhead"}
    BY <1>1, <1>2, <1>3 DEF Spends
  <2>2. R = {e \in Unseen(c) : e.event = "spend_released" /\ Recent(e.ts) /\ e.of.tx = s.tx}
    BY DEF Releases
  <2>3. \A e \in R : /\ e \in log /\ e.of \in released /\ e.of \in Parts /\ e.of.tx = s.tx
    BY <2>2, LoggedTypes DEF Unseen, JournalInv, LogSound
  <2> HIDE DEF R
  <2>4. ASSUME NEW p \in S, p.tx = s.tx, Part(p) \in released
        PROVE  \E e \in R : e.of = Part(p)
    <3>1. /\ p \in Base(c) /\ p \in Spends /\ Recent(p.ts) /\ p.ts \in Nat
          /\ Part(p).tx = s.tx
      BY <1>1, <1>2, <2>4, SpendParts
    <3>2. PICK e \in Unseen(c) : e.event = "spend_released" /\ e.of = Part(p) /\ p.ts <= e.ts
      BY <3>1, <2>4 DEF JournalInv, Restorable, ReleasesMatch, ReleasedSince
    <3>3. e.ts \in Nat /\ now \in Nat /\ Day \in Nat
      BY <3>2, LoggedTypes, JournalAssumption DEF Unseen, JournalInv, TypeOK
    <3>4. Recent(e.ts)
      BY <3>1, <3>2, <3>3 DEF Recent
    <3> QED BY <2>2, <3>1, <3>2, <3>4
  <2>5. ASSUME NEW e \in R
        PROVE  /\ e.of = PaymentOf(s.tx) => \E p \in S : p.kind = "payment" /\ p.tx = s.tx
               /\ e.of # PaymentOf(s.tx) => PaymentOf(s.tx) \in released
    <3>1. PICK p \in Base(c) : Part(p) = e.of
      BY <2>2, <2>5 DEF JournalInv, Restorable, ReleasesMatch
    <3>2. p \in issued /\ p \in Spends /\ Part(p).tx = p.tx /\ Part(p).kind = p.kind
      BY <3>1, BaseTypes, SpendParts
    <3>3. p.tx = s.tx /\ p.ts = s.ts
      BY <2>1, <2>3, <2>5, <3>1, <3>2 DEF JournalInv, IssuedSound
    <3>4. p \in S
      BY <3>1, <3>3, <1>1, <2>1
    <3>5. CASE e.of = PaymentOf(s.tx)
      BY <3>1, <3>2, <3>3, <3>4, <3>5 DEF PaymentOf
    <3>6. CASE e.of # PaymentOf(s.tx)
      <4>1. e.of.kind = "overhead" /\ e.of \in released /\ e.of.tx = s.tx
        BY <2>3, <2>5, <3>6 DEF Parts, PaymentOf
      <4> QED BY <4>1, <3>6 DEF JournalInv, IssuedSound
    <3> QED BY <3>5, <3>6
  <2>6. CASE s.kind = "payment"
    <3>1. Part(s) = PaymentOf(s.tx)
      BY <2>1, <2>6, SpendParts
    <3>2. R # {} <=> Part(s) \in released
      <4>1. ASSUME NEW e \in R PROVE Part(s) \in released
        BY <3>1, <2>3, <2>5
      <4> QED BY <4>1, <1>3, <2>4
    <3>3. s \in Removed(S, c) => R # {}
      BY <2>6 DEF Removed, R
    <3>4. R # {} => s \in Removed(S, c)
      BY <2>6, <1>3 DEF Removed, R
    <3> QED BY <3>2, <3>3, <3>4
  <2>7. CASE s.kind = "overhead"
    <3>1. Part(s) # PaymentOf(s.tx) /\ Part(s).tx = s.tx
      BY <2>1, <2>7, SpendParts DEF PaymentOf
    <3>2. \A e \in R : e.of = PaymentOf(s.tx) \/ e.of = Part(s)
      BY <2>3, <2>7 DEF Parts, PaymentOf, Part
    <3>3. s \in Removed(S, c) <=>
             \/ R # {} /\ \A p \in S : p.kind = "payment" => p.tx # s.tx
             \/ \E r1, r2 \in R : r1 # r2
      BY <1>3, <2>7 DEF Removed, R
    <3>4. CASE Part(s) \in released
      <4>1. PICK e \in R : e.of = Part(s)
        BY <3>4, <1>3, <2>4
      <4>2. CASE \A p \in S : p.kind = "payment" => p.tx # s.tx
        BY <4>1, <4>2, <3>3, <3>4
      <4>3. CASE \E p \in S : p.kind = "payment" /\ p.tx = s.tx
        <5>1. PICK p \in S : p.kind = "payment" /\ p.tx = s.tx
          BY <4>3
        <5>2. Part(p) = PaymentOf(s.tx)
          BY <5>1, <1>2, SpendParts
        <5>3. PaymentOf(s.tx) \in released
          BY <4>1, <3>1, <2>5
        <5>4. PICK f \in R : f.of = PaymentOf(s.tx)
          BY <5>1, <5>2, <5>3, <2>4
        <5> QED BY <5>4, <4>1, <3>1, <3>3, <3>4
      <4> QED BY <4>2, <4>3
    <3>5. CASE Part(s) \notin released
      <4>1. \A e \in R : e.of = PaymentOf(s.tx)
        BY <3>2, <3>5, <2>3
      <4>2. \A e, f \in R : e = f
        BY <4>1, <2>2, <2>3 DEF JournalInv, LogSound
      <4>3. R # {} => \E p \in S : p.kind = "payment" /\ p.tx = s.tx
        BY <4>1, <2>5
      <4> QED BY <4>2, <4>3, <3>3, <3>5
    <3> QED BY <3>4, <3>5
  <2> QED BY <2>1, <2>6, <2>7
<1>4. Rebuilt(c) = S \ Removed(S, c)
  BY DEF Rebuilt, S
<1> QED BY <1>1, <1>3, <1>4

-----------------------------------------------------------------------------
(***************************************************************************)
(* The initial state, and the facts the steps share.                       *)
(***************************************************************************)
LEMMA InvInit == Init => JournalInv
<1> SUFFICES ASSUME Init PROVE JournalInv
  OBVIOUS
<1>1. TypeOK
  BY JournalAssumption DEF Init, TypeOK, Spends, Parts
<1>2. IssuedSound /\ LogSound /\ PhaseSound
  BY DEF Init, IssuedSound, LogSound, PhaseSound
<1>3. \A c \in Checkpoints : Base(c) = {} /\ Unseen(c) = {} /\ c.spends = {}
  BY DEF Init, Checkpoints, Base, SpendsLogged, Unseen
<1>4. \A c \in Checkpoints : Restorable(c)
  BY <1>3 DEF Init, Restorable, Complete, ReleasesMatch, PaymentsStay, LoggedOnce
<1>5. LedgerSound
  BY DEF Init, LedgerSound, Pushing, PaymentsStay
<1> QED BY <1>1, <1>2, <1>4, <1>5 DEF JournalInv

LEMMA FirstOfFacts ==
    ASSUME NEW tx, \E s \in ledger : s.tx = tx, ledger \subseteq Spends
    PROVE  /\ FirstOf(tx) \in ledger
           /\ FirstOf(tx).tx = tx
           /\ FirstOf(tx).kind = "overhead" =>
                 \A p \in ledger : p.tx = tx => p.kind # "payment"
<1> DEFINE First(s) == /\ s.tx = tx
                      /\ \A p \in ledger : p.tx = tx /\ p.kind = "payment" => s.kind = "payment"
<1>1. \E s \in ledger : First(s)
  OBVIOUS
<1>2. FirstOf(tx) \in ledger /\ First(FirstOf(tx))
  BY <1>1 DEF FirstOf
<1> QED BY <1>2

(***************************************************************************)
(* The records replay reads spends and releases from.                      *)
(***************************************************************************)
Spending(c) == {e \in Unseen(c) : e.event \in {"signed", "spend_released"}}

(***************************************************************************)
(* A step that neither issues nor gives back leaves what can be restored   *)
(* as it is.                                                               *)
(***************************************************************************)
LEMMA Undisturbed ==
    ASSUME JournalInv, NEW c \in Checkpoints,
           Spending(c)' = Spending(c), issued' = issued, released' = released,
           now' \in Nat, now <= now'
    PROVE  Base(c)' = Base(c) /\ Restorable(c)'
<1>1. Base(c)' = Base(c)
  <2>1. {x \in Unseen(c) : x.event = "signed"} = {x \in Spending(c) : x.event = "signed"}
    BY DEF Spending
  <2>2. {x \in Unseen(c) : x.event = "signed"}' = {x \in Spending(c) : x.event = "signed"}
    BY DEF Spending
  <2> QED BY <2>1, <2>2 DEF Base, SpendsLogged, SpendsOf, Payment, Overhead
<1>2. Complete(c)'
  <2>1. \A s \in issued : Live(s)' => Live(s)
    BY BaseTypes, SpendParts, JournalAssumption DEF Live, Recent, JournalInv, TypeOK, Part
  <2> QED BY <1>1, <2>1 DEF Complete, JournalInv, Restorable
<1>3. ReleasesMatch(c)'
  <2>1. \A e : e \in Unseen(c)' /\ e.event = "spend_released" <=>
                e \in Unseen(c) /\ e.event = "spend_released"
    BY DEF Spending
  <2> QED BY <1>1, <2>1 DEF ReleasesMatch, ReleasedSince, Part, JournalInv, Restorable
<1>4. PaymentsStay(Base(c))'
  <2>1. PaymentsStay(Base(c))
    BY DEF JournalInv, Restorable
  <2>2. \A s \in Base(c)' : s.kind = "overhead" =>
           PaymentOf(s.tx) \in released' \/ \E p \in Base(c)' : Part(p) = PaymentOf(s.tx)
    BY <1>1, <2>1 DEF PaymentsStay
  <2> QED BY <2>2 DEF PaymentsStay, PaymentOf, Part
<1>5. LoggedOnce(c)'
  <2>1. \A e : e \in Unseen(c)' /\ e.event = "signed" <=> e \in Unseen(c) /\ e.event = "signed"
    BY DEF Spending
  <2> QED BY <2>1 DEF LoggedOnce, JournalInv, Restorable
<1> QED BY <1>1, <1>2, <1>3, <1>4, <1>5 DEF Restorable

LEMMA LiveShrinks ==
    ASSUME JournalInv, NEW s, issued' = issued, released' = released,
           now' \in Nat, now <= now', Live(s)'
    PROVE  Live(s)
BY BaseTypes, SpendParts, JournalAssumption DEF Live, Recent, JournalInv, TypeOK, Part

LEMMA Basics ==
    ASSUME JournalInv
    PROVE  /\ now \in Nat /\ Day \in Nat
           /\ issued \subseteq Spends /\ ledger \subseteq Spends
           /\ \A s \in Spends : s.ts \in Nat
           /\ \A c \in Checkpoints : Base(c) \subseteq issued
           /\ phase # "pushed" => Pushing = {} /\ ledger \subseteq issued
<1>1. now \in Nat /\ Day \in Nat /\ issued \subseteq Spends /\ ledger \subseteq Spends
  BY JournalAssumption DEF JournalInv, TypeOK
<1>2. \A s \in Spends : s.ts \in Nat
  BY DEF Spends
<1>3. \A c \in Checkpoints : Base(c) \subseteq issued
  BY BaseTypes
<1>4. phase # "pushed" => Pushing = {} /\ ledger \subseteq issued
  BY <1>3 DEF Pushing, JournalInv, LedgerSound, Checkpoints
<1> QED BY <1>1, <1>2, <1>3, <1>4

(***************************************************************************)
(* Two spends of one transaction are of one moment, so an overhead that is *)
(* not too old has a payment that is not, or was given back.               *)
(***************************************************************************)
LEMMA PaymentsStayRecent ==
    ASSUME JournalInv, NEW S, NEW T, S \subseteq issued, PaymentsStay(S),
           \A s \in S : s \in T <=> Recent(s.ts) /\ Part(s) \notin released,
           T \subseteq S
    PROVE  PaymentsStay(T)
<1> SUFFICES ASSUME NEW s \in T, s.kind = "overhead", PaymentOf(s.tx) \notin released
             PROVE  \E p \in T : Part(p) = PaymentOf(s.tx)
  BY DEF PaymentsStay
<1>1. PICK p \in S : Part(p) = PaymentOf(s.tx)
  BY DEF PaymentsStay
<1>2. s \in issued /\ p \in issued /\ p.tx = s.tx
  BY <1>1, Basics, SpendParts DEF PaymentOf
<1>3. p.ts = s.ts
  BY <1>2 DEF JournalInv, IssuedSound
<1> QED BY <1>1, <1>3

-----------------------------------------------------------------------------
(***************************************************************************)
(* Steps that only move the clock or write about approvals.                *)
(***************************************************************************)
LEMMA TickStep ==
    ASSUME JournalInv, Tick
    PROVE  JournalInv'
<1>1. /\ now' \in Nat /\ now <= now' /\ now' \in 0 .. MaxTime
      /\ UNCHANGED <<phase, ledger, bill, waiting, openPending, log, ckpt, oldCkpt,
                     recorded, issued, released>>
      /\ phase # "pushed"
  BY JournalAssumption DEF Tick, JournalInv, TypeOK, memory, disk, history
<1>2. TypeOK'
  BY <1>1 DEF JournalInv, TypeOK, Spends, Parts, Txs
<1>3. IssuedSound'
  <2>1. \A s \in issued : s.ts <= now' /\ s.tx \in recorded
    BY <1>1, Basics DEF JournalInv, IssuedSound
  <2> QED BY <1>1, <2>1 DEF JournalInv, IssuedSound, Part, PaymentOf
<1>4. LogSound'
  BY <1>1 DEF JournalInv, LogSound, SpendsOf, Payment, Overhead
<1>5. \A c \in Checkpoints : Spending(c)' = Spending(c)
  BY <1>1 DEF Spending, Unseen
<1>6. \A c \in Checkpoints : Base(c)' = Base(c) /\ Restorable(c)'
  BY <1>1, <1>5, Undisturbed
<1>7. (\A c \in Checkpoints : Restorable(c))'
  BY <1>1, <1>6 DEF Checkpoints
<1>8. LedgerSound'
  <2>1. Pushing = {} /\ Pushing' = {}
    BY <1>1 DEF Pushing
  <2>2. (\A c \in Checkpoints : ledger \subseteq Base(c) \cup Pushing)'
    BY <1>1, <1>6, <2>1 DEF Checkpoints, JournalInv, LedgerSound
  <2>3. PaymentsStay(ledger)'
    BY <1>1 DEF PaymentsStay, JournalInv, LedgerSound, Part, PaymentOf
  <2>4. phase' # "down" => \A s \in issued' : Live(s)' => s \in ledger'
    BY <1>1, LiveShrinks DEF JournalInv, LedgerSound
  <2> QED BY <1>1, <2>1, <2>2, <2>3, <2>4 DEF JournalInv, LedgerSound, Part
<1>9. PhaseSound'
  BY <1>1 DEF JournalInv, PhaseSound
<1> QED BY <1>2, <1>3, <1>4, <1>7, <1>8, <1>9 DEF JournalInv

LEMMA ApprovalStep ==
    ASSUME JournalInv, TypeOK', NEW e, e.event \in ClosingEvents \cup {"pending"},
           log' = log \cup {e},
           UNCHANGED <<now, phase, ckpt, oldCkpt, ledger, bill, recorded, issued, released>>
    PROVE  JournalInv'
<1>1. e.event # "signed" /\ e.event # "spend_released"
  BY DEF ClosingEvents
<1>2. IssuedSound' /\ PhaseSound'
  BY DEF JournalInv, IssuedSound, PhaseSound, Part, PaymentOf
<1>3. LogSound'
  BY <1>1 DEF JournalInv, LogSound, SpendsOf, Payment, Overhead
<1>4. \A c \in Checkpoints : Spending(c)' = Spending(c)
  BY <1>1 DEF Spending, Unseen
<1>5. \A c \in Checkpoints : Base(c)' = Base(c) /\ Restorable(c)'
  BY <1>4, Undisturbed, Basics
<1>6. (\A c \in Checkpoints : Restorable(c))'
  BY <1>5 DEF Checkpoints
<1>7. LedgerSound'
  <2>1. Pushing' = Pushing
    BY DEF Pushing, SpendsOf, Payment, Overhead
  <2>2. (\A c \in Checkpoints : ledger \subseteq Base(c) \cup Pushing)'
    BY <1>5, <2>1 DEF Checkpoints, JournalInv, LedgerSound
  <2>3. PaymentsStay(ledger)'
    BY DEF PaymentsStay, JournalInv, LedgerSound, Part, PaymentOf
  <2> QED BY <2>1, <2>2, <2>3 DEF JournalInv, LedgerSound, Part, Live, Recent
<1> QED BY <1>2, <1>3, <1>6, <1>7 DEF JournalInv

LEMMA ApprovalSteps ==
    ASSUME JournalInv, NEW id \in Ids,
           \/ AuditPending(id)
           \/ \E event \in ClosingEvents : AuditClosed(id, event)
           \/ CloseAbandoned(id)
    PROVE  JournalInv'
<1>1. TypeOK /\ now \in Nat
  BY Basics DEF JournalInv
<1>2. PICK event \in ClosingEvents \cup {"pending"} :
         /\ log' = log \cup {Entry(event, id)}
         /\ waiting' \subseteq waiting \cup {id}
         /\ openPending' \subseteq openPending
         /\ UNCHANGED <<now, phase, ckpt, oldCkpt, ledger, bill, recorded, issued, released>>
  <2>1. CASE AuditPending(id)
    BY <2>1 DEF AuditPending, history
  <2>2. CASE \E event \in ClosingEvents : AuditClosed(id, event)
    BY <2>2 DEF AuditClosed, history
  <2>3. CASE CloseAbandoned(id)
    BY <2>3 DEF CloseAbandoned, history, ClosingEvents
  <2> QED BY <2>1, <2>2, <2>3
<1>3. Entry(event, id) \in [event : ClosingEvents \cup {"pending"}, of : Ids, ts : Nat]
  BY <1>1 DEF Entry
<1>4. TypeOK'
  BY <1>1, <1>2, <1>3 DEF TypeOK, Spends, Parts, Txs
<1> QED BY <1>2, <1>4, ApprovalStep DEF Entry

-----------------------------------------------------------------------------
(***************************************************************************)
(* The steps of a recording.                                               *)
(***************************************************************************)
LEMMA PushStep ==
    ASSUME JournalInv, NEW b \in Bills, Push(b)
    PROVE  JournalInv'
<1>1. /\ phase = "idle" /\ b.tx \notin recorded /\ phase' = "pushed" /\ bill' = b
      /\ ledger' = {s \in ledger \cup SpendsOf(b, now) : Recent(s.ts)}
      /\ recorded' = recorded \cup {b.tx}
      /\ UNCHANGED <<now, log, ckpt, oldCkpt, waiting, openPending, issued, released>>
  BY DEF Push, disk
<1>2. /\ SpendsOf(b, now) \subseteq Spends /\ Payment(b, now) \in SpendsOf(b, now)
      /\ Part(Payment(b, now)) = PaymentOf(b.tx)
      /\ \A s \in SpendsOf(b, now) : s.tx = b.tx /\ s.ts = now /\ Recent(s.ts)
  BY SpendsOfFacts, Basics DEF Recent
<1>3. TypeOK'
  BY <1>1, <1>2 DEF JournalInv, TypeOK, Spends, Parts, Txs
<1>4. IssuedSound'
  BY <1>1 DEF JournalInv, IssuedSound, Part, PaymentOf
<1>5. LogSound'
  BY <1>1 DEF JournalInv, LogSound, SpendsOf, Payment, Overhead
<1>6. \A c \in Checkpoints : Spending(c)' = Spending(c)
  BY <1>1 DEF Spending, Unseen
<1>7. \A c \in Checkpoints : Base(c)' = Base(c) /\ Restorable(c)'
  BY <1>1, <1>6, Undisturbed, Basics
<1>8. (\A c \in Checkpoints : Restorable(c))'
  BY <1>1, <1>7 DEF Checkpoints
<1>9. Pushing = {} /\ Pushing' = SpendsOf(b, now) /\ ledger \subseteq issued
  BY <1>1, Basics DEF Pushing, SpendsOf, Payment, Overhead
<1>10. LedgerSound'
  <2>1. (\A c \in Checkpoints : ledger \subseteq Base(c) \cup Pushing)'
    BY <1>1, <1>7, <1>9 DEF Checkpoints, JournalInv, LedgerSound
  <2>2. Pushing' \subseteq ledger'
    BY <1>1, <1>2, <1>9
  <2>3. \A s \in SpendsOf(b, now) : Part(s) \notin released
    <3> SUFFICES ASSUME NEW s \in SpendsOf(b, now), Part(s) \in released PROVE FALSE
      OBVIOUS
    <3>1. PICK p \in issued : Part(p) = Part(s)
      BY DEF JournalInv, IssuedSound
    <3>2. p.tx = b.tx
      BY <1>2, <3>1, SpendParts, Basics
    <3> QED BY <1>1, <3>1, <3>2 DEF JournalInv, IssuedSound
  <2>4. \A s \in ledger' : Part(s) \notin released
    BY <1>1, <2>3 DEF JournalInv, LedgerSound
  <2>5. \A s \in ledger' : s.kind = "overhead" =>
           PaymentOf(s.tx) \in released \/ \E p \in ledger' : Part(p) = PaymentOf(s.tx)
    <3> DEFINE Kept == {s \in ledger : Recent(s.ts)}
    <3>1. PaymentsStay(Kept)
      <4>1. \A s \in ledger : s \in Kept <=> Recent(s.ts) /\ Part(s) \notin released
        BY DEF JournalInv, LedgerSound
      <4>2. PaymentsStay(ledger) /\ Kept \subseteq ledger
        BY DEF JournalInv, LedgerSound
      <4> HIDE DEF Kept
      <4> QED BY <4>1, <4>2, <1>9, PaymentsStayRecent
    <3>2. ledger' = Kept \cup SpendsOf(b, now)
      BY <1>1, <1>2
    <3> HIDE DEF Kept
    <3>3. ASSUME NEW s \in SpendsOf(b, now) PROVE \E p \in ledger' : Part(p) = PaymentOf(s.tx)
      BY <1>2, <3>2
    <3> QED BY <3>1, <3>2, <3>3 DEF PaymentsStay
  <2>6. PaymentsStay(ledger)'
    BY <1>1, <2>5 DEF PaymentsStay, Part, PaymentOf
  <2>7. \A s \in issued : Live(s) => s \in ledger'
    BY <1>1 DEF JournalInv, LedgerSound, Live
  <2> QED BY <1>1, <2>1, <2>2, <2>4, <2>6, <2>7 DEF LedgerSound, Part, Live, Recent
<1>11. PhaseSound'
  BY <1>1 DEF JournalInv, PhaseSound, IssuedSound
<1> QED BY <1>3, <1>4, <1>5, <1>8, <1>10, <1>11 DEF JournalInv

LEMMA AuditSignedStep ==
    ASSUME JournalInv, AuditSigned
    PROVE  JournalInv'
<1> DEFINE e == Entry("signed", bill)
          New == SpendsOf(bill, now)
<1>1. /\ phase = "pushed" /\ phase' = "logged" /\ log' = log \cup {e}
      /\ issued' = issued \cup New
      /\ UNCHANGED <<now, ckpt, oldCkpt, ledger, bill, waiting, openPending, recorded, released>>
  BY DEF AuditSigned, memory
<1>2. /\ bill \in Bills /\ bill.tx \in recorded
      /\ \A s \in issued : s.tx # bill.tx
      /\ now \in Nat /\ issued \subseteq Spends
  BY <1>1, Basics DEF JournalInv, PhaseSound
<1>3. /\ New \subseteq Spends /\ Payment(bill, now) \in New
      /\ Part(Payment(bill, now)) = PaymentOf(bill.tx)
      /\ \A s \in New : s.tx = bill.tx /\ s.ts = now
      /\ \A s, p \in New : s.kind = p.kind => s = p
  <2>1. \A s, p \in New : s.kind = p.kind => s = p
    BY DEF SpendsOf, Payment, Overhead
  <2> QED BY <1>2, <2>1, SpendsOfFacts
<1>4. e.event = "signed" /\ e.of = bill /\ e.ts = now /\ e \in [event : {"signed"}, of : Bills, ts : Nat]
  BY <1>2 DEF Entry
<1>5. \A c \in Checkpoints : e \notin c.covers
  <2> SUFFICES ASSUME NEW c \in Checkpoints, e \in c.covers PROVE FALSE
    OBVIOUS
  <2>1. New \subseteq issued
    BY <1>4 DEF JournalInv, LogSound, Checkpoints
  <2> QED BY <2>1, <1>2, <1>3
<1>6. \A part \in released : part.tx # bill.tx
  BY <1>2, SpendParts DEF JournalInv, IssuedSound
<1>7. \A s \in New : Part(s) \notin released
  BY <1>3, <1>6, SpendParts
<1> HIDE DEF e, New
<1>8. TypeOK'
  BY <1>1, <1>3, <1>4 DEF JournalInv, TypeOK, Spends, Parts, Txs
<1>9. IssuedSound'
  <2>1. \A s \in issued' : s.ts <= now /\ s.tx \in recorded
    BY <1>1, <1>2, <1>3 DEF JournalInv, IssuedSound
  <2>2. \A s, p \in issued' : s.tx = p.tx => s.ts = p.ts /\ (s.kind = p.kind => s = p)
    BY <1>1, <1>2, <1>3 DEF JournalInv, IssuedSound
  <2> QED BY <1>1, <2>1, <2>2 DEF JournalInv, IssuedSound, Part, PaymentOf
<1>10. LogSound'
  <2>1. SpendsOf(e.of, e.ts) \subseteq issued'
    BY <1>1, <1>4 DEF New
  <2> QED BY <1>1, <1>4, <2>1 DEF JournalInv, LogSound, SpendsOf, Payment, Overhead
<1>11. ASSUME NEW c \in Checkpoints
       PROVE  Base(c)' = Base(c) \cup New /\ Restorable(c)'
  <2>1. Unseen(c)' = Unseen(c) \cup {e}
    BY <1>1, <1>5 DEF Unseen
  <2>2. SpendsLogged(c)' = SpendsLogged(c) \cup SpendsOf(e.of, e.ts)
    <3>1. {x \in Unseen(c) : x.event = "signed"}'
            = {x \in Unseen(c) : x.event = "signed"} \cup {e}
      BY <2>1, <1>4
    <3> QED BY <3>1 DEF SpendsLogged, SpendsOf, Payment, Overhead
  <2>3. Base(c)' = Base(c) \cup New
    BY <2>2, <1>4 DEF Base, New
  <2>4. Complete(c)'
    <3>1. \A s \in issued : Live(s)' => Live(s)
      BY <1>1 DEF Live, Recent, Part
    <3> QED BY <1>1, <2>3, <3>1 DEF Complete, JournalInv, Restorable
  <2>5. ReleasesMatch(c)'
    <3>1. \A s \in Base(c) : Part(s) \in released =>
             \E x \in Unseen(c)' : x.event = "spend_released" /\ x.of = Part(s) /\ s.ts <= x.ts
      BY <2>1 DEF JournalInv, Restorable, ReleasesMatch, ReleasedSince
    <3>2. \A s \in Base(c)' : Part(s) \in released =>
             \E x \in Unseen(c)' : x.event = "spend_released" /\ x.of = Part(s) /\ s.ts <= x.ts
      BY <3>1, <2>3, <1>7
    <3>3. \A x \in Unseen(c)' : x.event = "spend_released" => \E s \in Base(c)' : Part(s) = x.of
      BY <1>4, <2>1, <2>3 DEF JournalInv, Restorable, ReleasesMatch
    <3> QED BY <1>1, <3>2, <3>3 DEF ReleasesMatch, ReleasedSince, Part
  <2>6. PaymentsStay(Base(c))'
    <3>1. PaymentsStay(Base(c))
      BY DEF JournalInv, Restorable
    <3>2. \A s \in Base(c)' : s.kind = "overhead" =>
             PaymentOf(s.tx) \in released' \/ \E p \in Base(c)' : Part(p) = PaymentOf(s.tx)
      BY <1>1, <1>3, <2>3, <3>1 DEF PaymentsStay
    <3> QED BY <3>2 DEF PaymentsStay, PaymentOf, Part
  <2>7. LoggedOnce(c)'
    <3>1. \A s \in c.spends : s.tx # bill.tx
      BY <1>2, Basics DEF Base
    <3> QED BY <1>4, <2>1, <3>1 DEF LoggedOnce, JournalInv, Restorable
  <2> QED BY <2>3, <2>4, <2>5, <2>6, <2>7 DEF Restorable
<1>12. (\A c \in Checkpoints : Restorable(c))'
  BY <1>1, <1>11 DEF Checkpoints
<1>13. LedgerSound'
  <2>1. Pushing = New /\ Pushing' = {}
    BY <1>1 DEF Pushing, New
  <2>2. (\A c \in Checkpoints : ledger \subseteq Base(c) \cup Pushing)'
    BY <1>1, <1>11, <2>1 DEF Checkpoints, JournalInv, LedgerSound
  <2>3. PaymentsStay(ledger)'
    BY <1>1 DEF PaymentsStay, JournalInv, LedgerSound, Part, PaymentOf
  <2>4. \A s \in issued' : Live(s)' => s \in ledger'
    BY <1>1, <2>1 DEF JournalInv, LedgerSound, Live, Recent, Part
  <2> QED BY <1>1, <2>1, <2>2, <2>3, <2>4 DEF JournalInv, LedgerSound, Part
<1>14. PhaseSound'
  BY <1>1 DEF PhaseSound
<1> QED BY <1>8, <1>9, <1>10, <1>12, <1>13, <1>14 DEF JournalInv

LEMMA WriteCheckpointStep ==
    ASSUME JournalInv, WriteCheckpoint
    PROVE  JournalInv'
<1>1. /\ phase \in {"logged", "starting"} /\ phase' = "idle"
      /\ oldCkpt' = ckpt /\ ckpt' = [covers |-> log, spends |-> ledger]
      /\ bill' = NoBill
      /\ UNCHANGED <<now, log, ledger, waiting, openPending, recorded, issued, released>>
  BY DEF WriteCheckpoint, history
<1>2. TypeOK'
  BY <1>1 DEF JournalInv, TypeOK, Spends, Parts, Txs
<1>3. IssuedSound'
  BY <1>1 DEF JournalInv, IssuedSound, Part, PaymentOf
<1>4. LogSound'
  BY <1>1 DEF JournalInv, LogSound, SpendsOf, Payment, Overhead
<1>5. Pushing = {} /\ Pushing' = {} /\ ledger \subseteq issued
  BY <1>1, Basics DEF Pushing
<1>6. ASSUME NEW c \in Checkpoints'
      PROVE  ledger \subseteq Base(c)' /\ Restorable(c)'
  <2>1. CASE c \in Checkpoints
    <3>1. Spending(c)' = Spending(c)
      BY <1>1 DEF Spending, Unseen
    <3>2. Base(c)' = Base(c) /\ Restorable(c)'
      BY <1>1, <2>1, <3>1, Undisturbed, Basics
    <3> QED BY <1>5, <2>1, <3>2 DEF JournalInv, LedgerSound
  <2>2. CASE c \notin Checkpoints
    <3>1. c.covers = log /\ c.spends = ledger
      BY <1>1, <2>2 DEF Checkpoints
    <3>2. Unseen(c)' = {}
      BY <1>1, <3>1 DEF Unseen
    <3>3. Base(c)' = ledger
      BY <1>1, <3>1, <3>2 DEF Base, SpendsLogged
    <3>4. Complete(c)'
      BY <1>1, <1>5, <3>3 DEF Complete, JournalInv, LedgerSound, Live, Recent, Part
    <3>5. ReleasesMatch(c)'
      BY <1>1, <3>2, <3>3 DEF ReleasesMatch, JournalInv, LedgerSound, Part
    <3>6. PaymentsStay(Base(c))'
      <4>1. \A s \in Base(c)' : s.kind = "overhead" =>
               PaymentOf(s.tx) \in released' \/ \E p \in Base(c)' : Part(p) = PaymentOf(s.tx)
        BY <1>1, <3>3 DEF PaymentsStay, JournalInv, LedgerSound
      <4> QED BY <4>1 DEF PaymentsStay, PaymentOf, Part
    <3>7. LoggedOnce(c)'
      BY <3>2 DEF LoggedOnce
    <3> QED BY <3>3, <3>4, <3>5, <3>6, <3>7 DEF Restorable
  <2> QED BY <2>1, <2>2
<1>7. (\A c \in Checkpoints : Restorable(c))'
  BY <1>6
<1>8. LedgerSound'
  <2>1. (\A c \in Checkpoints : ledger \subseteq Base(c) \cup Pushing)'
    BY <1>1, <1>6
  <2>2. PaymentsStay(ledger)'
    BY <1>1 DEF PaymentsStay, JournalInv, LedgerSound, Part, PaymentOf
  <2> QED BY <1>1, <1>5, <2>1, <2>2 DEF JournalInv, LedgerSound, Live, Recent, Part
<1>9. PhaseSound'
  BY <1>1 DEF PhaseSound
<1> QED BY <1>2, <1>3, <1>4, <1>7, <1>8, <1>9 DEF JournalInv

LEMMA AuditReleaseStep ==
    ASSUME JournalInv, NEW tx \in Txs, AuditRelease(tx)
    PROVE  JournalInv'
<1> DEFINE f == FirstOf(tx)
          e == Entry("spend_released", Part(f))
<1>1. /\ phase = "idle" /\ phase' = "logged" /\ log' = log \cup {e}
      /\ ledger' = ledger \ {f} /\ released' = released \cup {Part(f)}
      /\ \E s \in ledger : s.tx = tx
      /\ UNCHANGED <<now, ckpt, oldCkpt, bill, waiting, openPending, recorded, issued>>
  BY DEF AuditRelease
<1>2. /\ now \in Nat /\ issued \subseteq Spends /\ ledger \subseteq Spends
      /\ Pushing = {} /\ Pushing' = {} /\ ledger \subseteq issued
  BY <1>1, Basics DEF Pushing
<1>3. /\ f \in ledger /\ f.tx = tx
      /\ f.kind = "overhead" => \A p \in ledger : p.tx = tx => p.kind # "payment"
  BY <1>1, <1>2, FirstOfFacts
<1> HIDE DEF f
<1>4. /\ f \in issued /\ f \in Spends /\ Part(f) \in Parts
      /\ Part(f).tx = tx /\ Part(f).kind = f.kind
      /\ Part(f) \notin released
  BY <1>2, <1>3, SpendParts DEF JournalInv, LedgerSound
<1>5. e.event = "spend_released" /\ e.of = Part(f) /\ e.ts = now
      /\ e \in [event : {"spend_released"}, of : Parts, ts : Nat]
  BY <1>2, <1>4 DEF Entry
<1>6. \A x \in log \cup ckpt.covers \cup oldCkpt.covers :
         x.event = "spend_released" => x.of # Part(f)
  BY <1>4 DEF JournalInv, LogSound
<1>7. \A s \in issued : Part(s) = Part(f) => s = f
  BY <1>2, <1>4, SpendParts DEF JournalInv, IssuedSound
<1>8. f.kind = "overhead" => PaymentOf(tx) \in released
  <2> SUFFICES ASSUME f.kind = "overhead", PaymentOf(tx) \notin released PROVE FALSE
    OBVIOUS
  <2>1. PICK p \in ledger : Part(p) = PaymentOf(tx)
    BY <1>3 DEF JournalInv, LedgerSound, PaymentsStay
  <2>2. p.tx = tx /\ p.kind = "payment"
    BY <1>2, <2>1, SpendParts DEF PaymentOf
  <2> QED BY <1>3, <2>2
<1> HIDE DEF e
<1>9. TypeOK'
  BY <1>1, <1>4, <1>5 DEF JournalInv, TypeOK, Spends, Parts, Txs
<1>10. IssuedSound'
  <2>1. \A part \in released' : \E s \in issued : Part(s) = part
    BY <1>1, <1>4 DEF JournalInv, IssuedSound
  <2>2. \A part \in released' : part.kind = "overhead" => PaymentOf(part.tx) \in released'
    BY <1>1, <1>4, <1>8 DEF JournalInv, IssuedSound
  <2> QED BY <1>1, <2>1, <2>2 DEF JournalInv, IssuedSound, Part, PaymentOf
<1>11. LogSound'
  BY <1>1, <1>5, <1>6 DEF JournalInv, LogSound, SpendsOf, Payment, Overhead
<1>12. ASSUME NEW c \in Checkpoints
       PROVE  Base(c)' = Base(c) /\ Restorable(c)'
  <2>1. Unseen(c)' = Unseen(c) \cup {e} /\ e \notin c.covers
    BY <1>1, <1>5, <1>6 DEF Unseen, Checkpoints
  <2>2. Base(c)' = Base(c)
    <3>1. {x \in Unseen(c) : x.event = "signed"}' = {x \in Unseen(c) : x.event = "signed"}
      BY <2>1, <1>5
    <3> QED BY <3>1 DEF Base, SpendsLogged, SpendsOf, Payment, Overhead
  <2>3. Base(c) \subseteq issued /\ f \in Base(c)
    BY <1>2, <1>3, Basics DEF JournalInv, LedgerSound
  <2>4. Complete(c)'
    <3>1. \A s \in issued : Live(s)' => Live(s)
      BY <1>1 DEF Live, Recent, Part
    <3> QED BY <1>1, <2>2, <3>1 DEF Complete, JournalInv, Restorable
  <2>5. ReleasesMatch(c)'
    <3>1. \A s \in Base(c) : Part(s) \in released' =>
             \E x \in Unseen(c)' : x.event = "spend_released" /\ x.of = Part(s) /\ s.ts <= x.ts
      <4>1. \A s \in Base(c) : Part(s) \in released =>
               \E x \in Unseen(c)' : x.event = "spend_released" /\ x.of = Part(s) /\ s.ts <= x.ts
        BY <2>1 DEF JournalInv, Restorable, ReleasesMatch, ReleasedSince
      <4>2. \A s \in Base(c) : s.ts <= now
        BY <2>3 DEF JournalInv, IssuedSound
      <4> QED BY <1>1, <1>5, <2>1, <4>1, <4>2
    <3>2. \A x \in Unseen(c)' : x.event = "spend_released" => \E s \in Base(c) : Part(s) = x.of
      BY <1>5, <2>1, <2>3 DEF JournalInv, Restorable, ReleasesMatch
    <3> QED BY <2>2, <3>1, <3>2 DEF ReleasesMatch, ReleasedSince, Part
  <2>6. PaymentsStay(Base(c))'
    <3>1. PaymentsStay(Base(c))
      BY DEF JournalInv, Restorable
    <3>2. \A s \in Base(c)' : s.kind = "overhead" =>
             PaymentOf(s.tx) \in released' \/ \E p \in Base(c)' : Part(p) = PaymentOf(s.tx)
      BY <1>1, <2>2, <3>1 DEF PaymentsStay
    <3> QED BY <3>2 DEF PaymentsStay, PaymentOf, Part
  <2>7. LoggedOnce(c)'
    BY <1>5, <2>1 DEF LoggedOnce, JournalInv, Restorable
  <2> QED BY <2>2, <2>4, <2>5, <2>6, <2>7 DEF Restorable
<1>13. (\A c \in Checkpoints : Restorable(c))'
  BY <1>1, <1>12 DEF Checkpoints
<1>14. LedgerSound'
  <2>1. (\A c \in Checkpoints : ledger \subseteq Base(c) \cup Pushing)'
    BY <1>1, <1>2, <1>12 DEF Checkpoints, JournalInv, LedgerSound
  <2>2. \A s \in ledger' : Part(s) \notin released'
    BY <1>1, <1>2, <1>7 DEF JournalInv, LedgerSound
  <2>3. \A s \in ledger' : s.kind = "overhead" =>
           PaymentOf(s.tx) \in released' \/ \E p \in ledger' : Part(p) = PaymentOf(s.tx)
    BY <1>1 DEF JournalInv, LedgerSound, PaymentsStay
  <2>4. PaymentsStay(ledger)'
    BY <2>3 DEF PaymentsStay, Part, PaymentOf
  <2>5. \A s \in issued' : Live(s)' => s \in ledger'
    BY <1>1 DEF JournalInv, LedgerSound, Live, Recent, Part
  <2> QED BY <1>2, <2>1, <2>2, <2>4, <2>5 DEF LedgerSound, Part
<1>15. PhaseSound'
  BY <1>1 DEF PhaseSound
<1> QED BY <1>9, <1>10, <1>11, <1>13, <1>14, <1>15 DEF JournalInv

-----------------------------------------------------------------------------
(***************************************************************************)
(* A crash, a cut log and the start after them.                            *)
(***************************************************************************)
LEMMA CrashStep ==
    ASSUME JournalInv, Crash
    PROVE  JournalInv'
<1>1. /\ phase' = "down" /\ ckpt' \in {ckpt, oldCkpt} /\ oldCkpt' = ckpt'
      /\ ledger' = {} /\ bill' = NoBill /\ waiting' = {} /\ openPending' = {}
      /\ UNCHANGED <<now, log, recorded, issued, released>>
  BY DEF Crash, history
<1>2. TypeOK'
  BY <1>1 DEF JournalInv, TypeOK, Spends, Parts, Txs
<1>3. IssuedSound'
  BY <1>1 DEF JournalInv, IssuedSound, Part, PaymentOf
<1>4. LogSound'
  BY <1>1 DEF JournalInv, LogSound, SpendsOf, Payment, Overhead
<1>5. \A c \in Checkpoints : Spending(c)' = Spending(c)
  BY <1>1 DEF Spending, Unseen
<1>6. \A c \in Checkpoints : Restorable(c)'
  BY <1>1, <1>5, Undisturbed, Basics
<1>7. (\A c \in Checkpoints : Restorable(c))'
  BY <1>1, <1>6 DEF Checkpoints
<1>8. LedgerSound' /\ PhaseSound'
  BY <1>1 DEF LedgerSound, PhaseSound, Pushing, PaymentsStay
<1> QED BY <1>2, <1>3, <1>4, <1>7, <1>8 DEF JournalInv

LEMMA RotateStep ==
    ASSUME JournalInv, Rotate
    PROVE  JournalInv'
<1>1. PICK gone \in SUBSET (ckpt.covers \cap log) : log' = log \ gone
  BY DEF Rotate
<1>2. /\ phase = "down" /\ ckpt = oldCkpt
      /\ UNCHANGED <<now, phase, ckpt, oldCkpt, ledger, bill, waiting, openPending,
                     recorded, issued, released>>
  BY DEF Rotate, memory, history, JournalInv, PhaseSound
<1>3. TypeOK'
  BY <1>1, <1>2 DEF JournalInv, TypeOK, Spends, Parts, Txs
<1>4. IssuedSound' /\ PhaseSound'
  BY <1>2 DEF JournalInv, IssuedSound, PhaseSound, Part, PaymentOf
<1>5. LogSound'
  BY <1>1, <1>2 DEF JournalInv, LogSound, SpendsOf, Payment, Overhead
<1>6. \A c \in Checkpoints : Spending(c)' = Spending(c)
  BY <1>1, <1>2 DEF Spending, Unseen, Checkpoints
<1>7. \A c \in Checkpoints : Base(c)' = Base(c) /\ Restorable(c)'
  BY <1>2, <1>6, Undisturbed, Basics
<1>8. (\A c \in Checkpoints : Restorable(c))'
  BY <1>2, <1>7 DEF Checkpoints
<1>9. LedgerSound'
  <2>1. Pushing = {} /\ Pushing' = {}
    BY <1>2 DEF Pushing
  <2>2. (\A c \in Checkpoints : ledger \subseteq Base(c) \cup Pushing)'
    BY <1>2, <1>7, <2>1 DEF Checkpoints, JournalInv, LedgerSound
  <2>3. PaymentsStay(ledger)'
    BY <1>2 DEF PaymentsStay, JournalInv, LedgerSound, Part, PaymentOf
  <2> QED BY <1>2, <2>1, <2>2, <2>3 DEF JournalInv, LedgerSound, Part
<1> QED BY <1>3, <1>4, <1>5, <1>8, <1>9 DEF JournalInv

LEMMA ReplayStep ==
    ASSUME JournalInv, Replay
    PROVE  JournalInv'
<1>1. /\ phase = "down" /\ phase' = "starting" /\ ckpt = oldCkpt
      /\ ledger' = Rebuilt(ckpt) /\ openPending' = OpenApprovals
      /\ UNCHANGED <<now, log, ckpt, oldCkpt, bill, waiting, recorded, issued, released>>
  BY DEF Replay, disk, history, JournalInv, PhaseSound
<1>2. /\ Checkpoints = {ckpt} /\ Restorable(ckpt) /\ Base(ckpt) \subseteq issued
      /\ issued \subseteq Spends
  BY <1>1, Basics DEF Checkpoints, JournalInv
<1>3. Rebuilt(ckpt) = {s \in Base(ckpt) : Recent(s.ts) /\ Part(s) \notin released}
  BY <1>2, Recovered
<1>4. OpenApprovals \subseteq Ids
  BY DEF OpenApprovals, JournalInv, TypeOK
<1>5. TypeOK'
  <2>1. ledger' \subseteq Spends
    BY <1>1, <1>2, <1>3
  <2> QED BY <1>1, <1>4, <2>1 DEF JournalInv, TypeOK, Spends, Parts, Txs
<1>6. IssuedSound' /\ PhaseSound'
  BY <1>1 DEF JournalInv, IssuedSound, PhaseSound, Part, PaymentOf
<1>7. LogSound'
  BY <1>1 DEF JournalInv, LogSound, SpendsOf, Payment, Overhead
<1>8. \A c \in Checkpoints : Spending(c)' = Spending(c)
  BY <1>1 DEF Spending, Unseen
<1>9. \A c \in Checkpoints : Base(c)' = Base(c) /\ Restorable(c)'
  BY <1>1, <1>8, Undisturbed, Basics
<1>10. (\A c \in Checkpoints : Restorable(c))'
  BY <1>1, <1>9 DEF Checkpoints
<1>11. LedgerSound'
  <2>1. Pushing' = {}
    BY <1>1 DEF Pushing
  <2>2. \A c \in Checkpoints : ledger' \subseteq Base(c)
    BY <1>1, <1>2, <1>3
  <2>3. (\A c \in Checkpoints : ledger \subseteq Base(c) \cup Pushing)'
    BY <1>1, <1>9, <2>1, <2>2 DEF Checkpoints
  <2>4. PaymentsStay(ledger')
    BY <1>1, <1>2, <1>3, PaymentsStayRecent DEF Restorable
  <2>5. PaymentsStay(ledger)'
    BY <1>1, <2>4 DEF PaymentsStay, Part, PaymentOf
  <2>6. \A s \in issued : Live(s) => s \in ledger'
    BY <1>1, <1>2, <1>3 DEF Restorable, Complete, Live
  <2> QED BY <1>1, <1>3, <2>1, <2>3, <2>5, <2>6 DEF LedgerSound, Live, Recent, Part
<1> QED BY <1>5, <1>6, <1>7, <1>10, <1>11 DEF JournalInv

LEMMA InvNext == JournalInv /\ [Next]_jvars => JournalInv'
<1> SUFFICES ASSUME JournalInv, [Next]_jvars PROVE JournalInv'
  OBVIOUS
<1>1. CASE Tick
  BY <1>1, TickStep
<1>2. CASE \E b \in Bills : Push(b)
  BY <1>2, PushStep
<1>3. CASE AuditSigned
  BY <1>3, AuditSignedStep
<1>4. CASE WriteCheckpoint
  BY <1>4, WriteCheckpointStep
<1>5. CASE \E tx \in Txs : AuditRelease(tx)
  BY <1>5, AuditReleaseStep
<1>6. CASE \/ \E id \in Ids : AuditPending(id)
           \/ \E id \in Ids, event \in ClosingEvents : AuditClosed(id, event)
           \/ \E id \in Ids : CloseAbandoned(id)
  BY <1>6, ApprovalSteps
<1>7. CASE Crash
  BY <1>7, CrashStep
<1>8. CASE Rotate
  BY <1>8, RotateStep
<1>9. CASE Replay
  BY <1>9, ReplayStep
<1>10. CASE UNCHANGED jvars
  <2>1. UNCHANGED <<now, phase, log, ckpt, oldCkpt, ledger, bill, waiting, openPending,
                    recorded, issued, released>>
    BY <1>10 DEF jvars, memory, disk, history
  <2>2. \A c \in Checkpoints : Spending(c)' = Spending(c)
    BY <2>1 DEF Spending, Unseen
  <2>3. \A c \in Checkpoints : Base(c)' = Base(c) /\ Restorable(c)'
    BY <2>1, <2>2, Undisturbed, Basics
  <2>4. (\A c \in Checkpoints : Restorable(c))'
    BY <2>1, <2>3 DEF Checkpoints
  <2>5. TypeOK'
    BY <2>1 DEF JournalInv, TypeOK, Spends, Parts, Txs
  <2>6. IssuedSound' /\ PhaseSound'
    BY <2>1 DEF JournalInv, IssuedSound, PhaseSound, Part, PaymentOf
  <2>7. LogSound'
    BY <2>1 DEF JournalInv, LogSound, SpendsOf, Payment, Overhead
  <2>8. Pushing' = Pushing
    BY <2>1 DEF Pushing, SpendsOf, Payment, Overhead
  <2>9. (\A c \in Checkpoints : ledger \subseteq Base(c) \cup Pushing)'
    BY <2>1, <2>3, <2>8 DEF Checkpoints, JournalInv, LedgerSound
  <2>10. PaymentsStay(ledger)'
    BY <2>1 DEF PaymentsStay, JournalInv, LedgerSound, Part, PaymentOf
  <2>11. LedgerSound'
    BY <2>1, <2>8, <2>9, <2>10 DEF JournalInv, LedgerSound, Part, Live, Recent
  <2> QED BY <2>4, <2>5, <2>6, <2>7, <2>11 DEF JournalInv
<1>11. Next \/ UNCHANGED jvars
  OBVIOUS
<1> QED BY ONLY <1>1, <1>2, <1>3, <1>4, <1>5, <1>6, <1>7, <1>8, <1>9, <1>10, <1>11, Zenon DEF Next

LEMMA Inductive == Spec => []JournalInv
BY InvInit, InvNext, PTL DEF Spec

-----------------------------------------------------------------------------
(***************************************************************************)
(* Every variable keeps its shape, for any payments and any approvals.     *)
(***************************************************************************)
THEOREM TypeCorrect == Spec => []TypeOK
<1>1. JournalInv => TypeOK
  BY DEF JournalInv
<1> QED BY <1>1, Inductive, PTL

(***************************************************************************)
(* A crash at any step, a checkpoint lost to a power cut, a log cut short: *)
(* what replayAudit rebuilds still holds every spend of a payment that was *)
(* handed out in the last day and not given back.                          *)
(***************************************************************************)
THEOREM NoSpendIsForgotten == Spec => []HandedOutIsCounted
<1>1. JournalInv => HandedOutIsCounted
  <2> SUFFICES ASSUME JournalInv, NEW c \in Checkpoints, NEW s \in issued,
                      now - s.ts < Day, Part(s) \notin released
               PROVE  s \in Rebuilt(c)
    BY DEF HandedOutIsCounted, Checkpoints
  <2>1. s.ts \in Nat /\ now \in Nat /\ Day \in Nat
    BY Basics
  <2>2. Recent(s.ts)
    BY <2>1 DEF Recent
  <2>3. s \in Base(c)
    BY <2>2 DEF JournalInv, Restorable, Complete, Live
  <2> QED BY <2>2, <2>3, Recovered
<1> QED BY <1>1, Inductive, PTL

(***************************************************************************)
(* And it holds nothing that was not handed out or was given back, and no  *)
(* spend from the checkpoint and from the log as well.                     *)
(***************************************************************************)
THEOREM NoSpendIsInvented == Spec => []NothingElseIsCounted
<1>1. ASSUME JournalInv, NEW c \in Checkpoints
      PROVE  Rebuilt(c) \subseteq issued /\ PartsOf(Rebuilt(c)) \cap released = {}
  BY <1>1, Recovered, BaseTypes DEF PartsOf
<1>2. ASSUME JournalInv, NEW c \in Checkpoints
      PROVE  PartsOf(FromCheckpoint(c)) \cap PartsOf(FromLog(c)) = {}
  <2> SUFFICES ASSUME NEW s \in FromCheckpoint(c), NEW p \in FromLog(c), Part(s) = Part(p)
               PROVE  FALSE
    BY DEF PartsOf
  <2>1. PICK e \in Unseen(c) : e.event = "signed" /\ p \in SpendsOf(e.of, e.ts)
    BY DEF FromLog
  <2>2. e.of \in Bills /\ e.ts \in Nat
    BY <1>2, <2>1, LoggedTypes DEF JournalInv, Unseen
  <2>3. p \in Spends /\ p.tx = e.of.tx
    BY <2>1, <2>2, SpendsOfFacts
  <2>4. s \in c.spends /\ s \in Spends
    BY <1>2, BaseTypes DEF FromCheckpoint, Base
  <2>5. s.tx = p.tx
    BY <2>3, <2>4, SpendParts
  <2> QED BY <1>2, <2>1, <2>3, <2>4, <2>5 DEF JournalInv, Restorable, LoggedOnce
<1>3. JournalInv => NothingElseIsCounted
  BY <1>1, <1>2 DEF NothingElseIsCounted, Checkpoints
<1> QED BY <1>3, Inductive, PTL

(***************************************************************************)
(* At rest, the ledger the next decision is made on is, over the rolling   *)
(* day, the one a restart would rebuild.                                   *)
(***************************************************************************)
THEOREM LedgerIsWhatAStartRebuilds == Spec => []MemoryMatchesDisk
<1>1. JournalInv => MemoryMatchesDisk
  <2> SUFFICES ASSUME JournalInv, phase = "idle", NEW c \in Checkpoints,
                      NEW s, now - s.ts < Day
               PROVE  s \in ledger <=> s \in Rebuilt(c)
    BY DEF MemoryMatchesDisk, Checkpoints
  <2>1. Rebuilt(c) = {p \in Base(c) : Recent(p.ts) /\ Part(p) \notin released}
    BY Recovered
  <2>2. ASSUME s \in ledger PROVE s \in Rebuilt(c)
    <3>1. s \in Base(c) /\ Part(s) \notin released
      BY <2>2, Basics DEF JournalInv, LedgerSound
    <3>2. s.ts \in Nat /\ now \in Nat /\ Day \in Nat
      BY <2>2, Basics
    <3> QED BY <2>1, <3>1, <3>2 DEF Recent
  <2>3. ASSUME s \in Rebuilt(c) PROVE s \in ledger
    BY <2>1, <2>3, Basics DEF JournalInv, LedgerSound, Live
  <2> QED BY <2>2, <2>3
<1> QED BY <1>1, Inductive, PTL

-----------------------------------------------------------------------------
(***************************************************************************)
(* The approvals in the log.  Every end follows its question, so an        *)
(* approval is open exactly when its question is recent and has no end.    *)
(***************************************************************************)
Asks == {e \in log : e.event = "pending"}
Ends == {e \in log : e.event \in ClosingEvents}

Unanswered(id) == \E x \in Asks : x.of = id /\ Recent(x.ts) /\ \A y \in Ends : y.of # id

ApprovalsInv ==
    /\ \A x \in Asks : x.ts <= now
    /\ \A y \in Ends : \E x \in Asks : x.of = y.of
    /\ \A x \in Asks, y \in Ends : x.of = y.of => x.ts <= y.ts
    /\ \A id \in waiting : Unanswered(id)
    /\ \A id \in openPending : \E x \in Asks : x.of = id
    /\ phase \in {"down", "starting"} => waiting = {}
    /\ phase # "starting" => openPending = {}
    /\ phase # "down" => \A id : Unanswered(id) => id \in waiting \cup openPending

LEMMA AskTypes ==
    ASSUME TypeOK
    PROVE  /\ now \in Nat /\ Day \in Nat
           /\ \A x \in Asks \cup Ends : x.ts \in Nat /\ x.of \in Ids
BY JournalAssumption DEF TypeOK, Asks, Ends, ClosingEvents

LEMMA OpenMeansUnanswered ==
    ASSUME TypeOK, ApprovalsInv, NEW id
    PROVE  id \in OpenApprovals <=> Unanswered(id)
<1>1. id \in OpenApprovals <=>
         \E x \in Asks : x.of = id /\ Recent(x.ts) /\ \A y \in Ends : y.of = id => ~Recent(y.ts)
  BY DEF OpenApprovals, Asks, Ends, TerminalEvents, ClosingEvents
<1>2. ASSUME NEW x \in Asks, NEW y \in Ends, x.of = id, y.of = id, Recent(x.ts)
      PROVE  Recent(y.ts)
  BY <1>2, AskTypes DEF ApprovalsInv, Recent
<1> QED BY <1>1, <1>2 DEF Unanswered

LEMMA ApprovalsNext == JournalInv /\ ApprovalsInv /\ [Next]_jvars => ApprovalsInv'
<1> SUFFICES ASSUME JournalInv, ApprovalsInv, [Next]_jvars PROVE ApprovalsInv'
  OBVIOUS
<1> USE DEF ClosingEvents
<1>1. /\ TypeOK /\ now \in Nat /\ Day \in Nat
      /\ \A x \in Asks \cup Ends : x.ts \in Nat /\ x.of \in Ids
  BY AskTypes DEF JournalInv
<1>2. ASSUME Asks' = Asks, Ends' = Ends, UNCHANGED <<waiting, openPending>>,
             now' = now, phase' = phase \/ phase' \in {"pushed", "logged", "idle"},
             phase' = "pushed" \/ phase' = "logged" => phase \notin {"down", "starting"},
             phase' = "idle" => phase # "down" /\ openPending = {}
      PROVE  ApprovalsInv'
  BY <1>2 DEF ApprovalsInv, Unanswered, Recent
<1>3. CASE Tick
  <2>1. /\ now' = now + 1 /\ Asks' = Asks /\ Ends' = Ends
        /\ UNCHANGED <<waiting, openPending, phase>>
        /\ \A x \in Asks : x.of \in waiting => now + 1 - x.ts < Day
    BY <1>3 DEF Tick, memory, disk, Asks, Ends
  <2>2. \A id : Unanswered(id)' => Unanswered(id)
    BY <1>1, <2>1 DEF Unanswered, Recent
  <2>3. \A id \in waiting : Unanswered(id)'
    BY <1>1, <2>1 DEF Unanswered, Recent, ApprovalsInv
  <2> QED BY <1>1, <2>1, <2>2, <2>3 DEF ApprovalsInv
<1>4. CASE \E b \in Bills : Push(b)
  BY <1>2, <1>4 DEF Push, disk, Asks, Ends
<1>5. CASE AuditSigned
  BY <1>2, <1>5 DEF AuditSigned, memory, Asks, Ends, Entry
<1>6. CASE WriteCheckpoint
  BY <1>2, <1>6 DEF WriteCheckpoint, Asks, Ends
<1>7. CASE \E tx \in Txs : AuditRelease(tx)
  BY <1>2, <1>7 DEF AuditRelease, Asks, Ends, Entry
<1>8. CASE \E id \in Ids : AuditPending(id)
  <2>1. PICK id \in Ids : AuditPending(id)
    BY <1>8
  <2> DEFINE e == Entry("pending", id)
  <2>2. e.event = "pending" /\ e.of = id /\ e.ts = now
    BY DEF Entry
  <2>3. /\ phase = "idle" /\ \A x \in Asks : x.of # id
        /\ log' = log \cup {e} /\ waiting' = waiting \cup {id}
        /\ UNCHANGED <<now, phase, openPending>>
    BY <2>1 DEF AuditPending, Asks
  <2> HIDE DEF e
  <2>4. Asks' = Asks \cup {e} /\ Ends' = Ends
    BY <2>2, <2>3 DEF Asks, Ends
  <2>5. \A y \in Ends : y.of # id
    BY <2>3 DEF ApprovalsInv
  <2>6. \A k : Unanswered(k)' <=> Unanswered(k) \/ k = id
    BY <1>1, <2>2, <2>3, <2>4, <2>5 DEF Unanswered, Recent
  <2> QED BY <1>1, <2>2, <2>3, <2>4, <2>5, <2>6 DEF ApprovalsInv
<1>9. ASSUME NEW id \in Ids, NEW event \in ClosingEvents, log' = log \cup {Entry(event, id)},
             id \in waiting \cup openPending,
             waiting' = waiting \ {id}, openPending' = openPending \ {id},
             UNCHANGED <<now, phase>>
      PROVE  ApprovalsInv'
  <2> DEFINE e == Entry(event, id)
  <2>1. e.event \in ClosingEvents /\ e.of = id /\ e.ts = now
    BY DEF Entry
  <2> HIDE DEF e
  <2>2. Asks' = Asks /\ Ends' = Ends \cup {e}
    BY <1>9, <2>1 DEF Asks, Ends, e
  <2>3. \E x \in Asks : x.of = id
    BY <1>9 DEF ApprovalsInv, Unanswered
  <2>4. \A k : Unanswered(k)' <=> Unanswered(k) /\ k # id
    BY <1>9, <2>1, <2>2 DEF Unanswered, Recent
  <2> QED BY <1>1, <1>9, <2>1, <2>2, <2>3, <2>4 DEF ApprovalsInv
<1>10. CASE \E id \in Ids, event \in ClosingEvents : AuditClosed(id, event)
  <2>1. PICK id \in Ids, event \in ClosingEvents : AuditClosed(id, event)
    BY <1>10
  <2>2. openPending = {} /\ openPending' = {}
    BY <2>1 DEF AuditClosed, ApprovalsInv
  <2> QED BY <1>9, <2>1, <2>2 DEF AuditClosed
<1>11. CASE \E id \in Ids : CloseAbandoned(id)
  <2>1. PICK id \in Ids : CloseAbandoned(id)
    BY <1>11
  <2>2. id \notin waiting
    BY <2>1 DEF CloseAbandoned, ApprovalsInv
  <2> QED BY <1>9, <2>1, <2>2 DEF CloseAbandoned
<1>12. CASE Crash
  <2>1. /\ Asks' = Asks /\ Ends' = Ends /\ now' = now
        /\ waiting' = {} /\ openPending' = {} /\ phase' = "down"
    BY <1>12 DEF Crash, Asks, Ends
  <2> QED BY <2>1 DEF ApprovalsInv
<1>13. CASE Rotate
  <2>1. Asks' = Asks /\ Ends' = Ends
    BY <1>13 DEF Rotate, Asks, Ends
  <2> QED BY <1>2, <1>13, <2>1 DEF Rotate, memory
<1>14. CASE Replay
  <2>1. /\ Asks' = Asks /\ Ends' = Ends /\ now' = now
        /\ waiting' = waiting /\ openPending' = OpenApprovals
        /\ phase = "down" /\ phase' = "starting"
    BY <1>14 DEF Replay, disk, Asks, Ends
  <2>2. \A id : Unanswered(id)' <=> Unanswered(id)
    BY <2>1 DEF Unanswered, Recent
  <2>3. \A id : id \in OpenApprovals <=> Unanswered(id)
    BY <1>1, OpenMeansUnanswered
  <2> QED BY <2>1, <2>2, <2>3 DEF ApprovalsInv, Unanswered
<1>15. CASE UNCHANGED jvars
  <2>1. /\ Asks' = Asks /\ Ends' = Ends
        /\ UNCHANGED <<now, phase, waiting, openPending>>
    BY <1>15 DEF jvars, memory, disk, Asks, Ends
  <2> QED BY <2>1 DEF ApprovalsInv, Unanswered, Recent
<1>16. Next \/ UNCHANGED jvars
  OBVIOUS
<1> QED BY ONLY <1>3, <1>4, <1>5, <1>6, <1>7, <1>8, <1>10, <1>11, <1>12, <1>13, <1>14, <1>15,
                <1>16, Zenon DEF Next

(***************************************************************************)
(* Whatever was lost on the way, once signerd runs, the log shows as open  *)
(* the approvals someone is waiting on, and no others.                     *)
(***************************************************************************)
THEOREM NoApprovalIsOrphaned == Spec => []LogKnowsWhoWaits
<1>1. Init => ApprovalsInv
  BY DEF Init, ApprovalsInv, Asks, Ends
<1>2. JournalInv /\ ApprovalsInv => LogKnowsWhoWaits
  <2> SUFFICES ASSUME JournalInv, ApprovalsInv, phase = "idle", NEW id
               PROVE  id \in OpenApprovals <=> id \in waiting
    BY DEF LogKnowsWhoWaits
  <2> QED BY OpenMeansUnanswered DEF ApprovalsInv, JournalInv
<1>3. Spec => []ApprovalsInv
  BY <1>1, ApprovalsNext, Inductive, PTL DEF Spec
<1> QED BY <1>2, <1>3, Inductive, PTL
=============================================================================
