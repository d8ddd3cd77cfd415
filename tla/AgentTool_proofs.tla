--------------------------- MODULE AgentTool_proofs ---------------------------
(***************************************************************************)
(* Proofs about AgentTool, for any calls, entries, sellers and answers.    *)
(***************************************************************************)
EXTENDS AgentTool, TLAPS

Places == {"idle", "status", "connecting", "asking", "signing", "paying", "responding", "done"}

Resources == {ResourceOf(a) : a \in Asks} \cup {Undefined}

Contexts ==
    [resource : Resources, by : Calls \cup {NoOne}, batch : BOOLEAN, denial : BOOLEAN, signed : BOOLEAN]

Heard ==
    {s \in [is : {"nothing", "undecodable", "settlement", "corrective"}, success : BOOLEAN, names : BOOLEAN] :
        s.success => s.is = "settlement"}

Reports ==
    [kind : {"described", "denied", "error"}, paid : BOOLEAN, unsettled : BOOLEAN]

(***************************************************************************)
(* What each variable ranges over.  A voucher may be of any amount: a URL  *)
(* that resolves to no known host has no channel.                          *)
(***************************************************************************)
AgentTypes ==
    /\ at \in [Calls -> Places]
    /\ asked \in [Calls -> Asks \cup {Undefined}]
    /\ ctx \in [Calls -> Contexts]
    /\ to \in [Calls -> {Resolved(a.url) : a \in Asks} \cup {<< >>}]
    /\ scheme \in [Calls -> Schemes]
    /\ voucher = [c \in Calls |-> voucher[c]]
    /\ tries = [c \in Calls |-> tries[c]]
    /\ answer \in [Calls -> Heard]
    /\ report \in [Calls -> Reports \cup {Undefined}]
    /\ signedMax \in [Hosts -> Nat]
    /\ count \in [Hosts -> Nat]
    /\ charged \in [Hosts -> Nat]

(***************************************************************************)
(* A call under way was asked for something, and what it presents on a     *)
(* channel is an amount.                                                   *)
(***************************************************************************)
Prepared ==
    /\ \A c \in Calls : at[c] # "idle" => asked[c] \in Asks
    /\ \A c \in Calls : at[c] = "status" => voucher[c] = 0
    /\ \A c \in Calls : Head(to[c]) \in Hosts => voucher[c] \in Nat

LEMMA TypesInit == Init => AgentTypes
BY DEF Init, AgentTypes, Places, Contexts, Resources, NoContext, Schemes, Heard, Settlements,
       NoHeader, Answer, Reports

LEMMA HeardAnswers ==
    /\ NoHeader \in Heard /\ Corrective \in Heard /\ Accepted \in Heard
    /\ Answer("settlement", FALSE, FALSE) \in Heard
    /\ Settlements \subseteq Heard
    /\ \A s \in Heard :
          s.success \in BOOLEAN /\ s.names \in BOOLEAN /\ (s.success => s.is = "settlement")
<1>1. NoHeader \in Heard /\ Corrective \in Heard
  BY DEF Heard, NoHeader, Corrective, Answer
<1>2. \A p, q \in BOOLEAN : Answer("settlement", p, q) \in Heard
  BY DEF Heard, Answer
<1>3. Settlements \subseteq Heard
  BY DEF Heard, Settlements
<1>4. \A s \in Heard :
         s.success \in BOOLEAN /\ s.names \in BOOLEAN /\ (s.success => s.is = "settlement")
  BY DEF Heard
<1> QED BY <1>1, <1>2, <1>3, <1>4 DEF Accepted

LEMMA HeardHeaders == Bare \subseteq Heard /\ \A c \in Calls : Headers(c) \subseteq Heard
<1>1. Bare \subseteq Heard
  BY HeardAnswers DEF Bare, Heard, Answer
<1> QED BY <1>1, HeardAnswers DEF Headers

LEMMA DescribedTypes ==
    ASSUME AgentTypes, NEW c \in Calls, NEW s \in Heard
    PROVE  DescribePayment(c, s) \in Reports
BY HeardAnswers DEF DescribePayment, Paid, Reports, AgentTypes, Contexts

LEMMA SaysTypes ==
    ASSUME AgentTypes, NEW c \in Calls, NEW what \in Reports, Says(c, what)
    PROVE  at' \in [Calls -> Places] /\ report' \in [Calls -> Reports \cup {Undefined}]
BY DEF Says, AgentTypes, Places

LEMMA ThrowsTypes ==
    ASSUME AgentTypes, NEW c \in Calls, NEW denial, Throws(c, denial)
    PROVE  at' \in [Calls -> Places] /\ report' \in [Calls -> Reports \cup {Undefined}]
<1>1. [kind |-> IF denial THEN "denied" ELSE "error",
       paid |-> FALSE, unsettled |-> FALSE] \in Reports
  BY DEF Reports
<1> QED BY <1>1, SaysTypes DEF Throws

LEMMA TypesStep == AgentTypes /\ Prepared /\ [Next]_vars => AgentTypes'
<1> SUFFICES ASSUME AgentTypes, Prepared, [Next]_vars PROVE AgentTypes'
  OBVIOUS
<1> USE HeardAnswers, DescribedTypes, SaysTypes, ThrowsTypes DEF AgentTypes, Goes
<1>1. ASSUME NEW c \in Calls, NEW a \in Asks, Begin(c, a) PROVE AgentTypes'
  BY <1>1 DEF Begin, Places, NoContext, Contexts, Resources, Schemes
<1>2. ASSUME NEW c \in Calls, NEW allowed \in BOOLEAN, BatchAllowed(c, allowed) PROVE AgentTypes'
  BY <1>2 DEF Prepared, BatchAllowed, Places, NoContext, Contexts, Resources, signerdvars, historyvars
<1>3. ASSUME NEW c \in Calls, Connect(c) PROVE AgentTypes'
  BY <1>3 DEF Connect, Places, signerdvars, historyvars
<1>4. ASSUME NEW c \in Calls, NEW offers, PaymentRequired(c, offers) PROVE AgentTypes'
  BY <1>4 DEF PaymentRequired, PreferBatch, Schemes, Places, signerdvars, historyvars
<1>5. ASSUME NEW c \in Calls, Free(c) PROVE AgentTypes'
  BY <1>5 DEF Free, Described, signerdvars, historyvars
<1>6. ASSUME NEW c \in Calls, NEW url, Redirect(c, url) PROVE AgentTypes'
  BY <1>6, HeardHeaders DEF Redirect, HandedBack, Described, Receive, signerdvars, historyvars
<1>7. ASSUME NEW c \in Calls, Lost(c) \/ NoAnswer(c) \/ ResponseRefused(c) PROVE AgentTypes'
  BY <1>7 DEF Lost, NoAnswer, ResponseRefused, signerdvars, historyvars
<1>8. ASSUME NEW c \in Calls, Refuse(c) PROVE AgentTypes'
  BY <1>8 DEF Refuse, OwnContext, Contexts, signerdvars
<1>9. ASSUME NEW c \in Calls, NEW arrives \in BOOLEAN, Sign(c, arrives) PROVE AgentTypes'
  <2> DEFINE h == Head(to[c])
             v == IF scheme[c] = "exact" THEN 0 ELSE NextVoucher(h)
  <2>1. h \in Hosts => v \in Nat
    BY DEF Prepared, NextVoucher
  <2>2. signedMax' = [signedMax EXCEPT ![h] = Larger(@, v)]
    BY <1>9 DEF Sign
  <2>3. signedMax' \in [Hosts -> Nat]
    BY <2>1, <2>2 DEF Larger
  <2>4. /\ at[c] = "signing" /\ UNCHANGED <<asked, latest, to, scheme, answer, count, charged, historyvars>>
        /\ IF arrives
           THEN /\ Goes(c, "paying")
                /\ ctx' = [ctx EXCEPT ![c].signed = TRUE]
                /\ voucher' = [voucher EXCEPT ![c] = v]
                /\ tries' = [tries EXCEPT ![c] = @ + 1]
                /\ UNCHANGED report
           ELSE Throws(c, ctx[c].denial) /\ UNCHANGED <<ctx, voucher, tries>>
    BY <1>9 DEF Sign, OwnContext
  <2> HIDE DEF v
  <2>5. CASE arrives
    <3>1. at' = [at EXCEPT ![c] = "paying"] /\ report' = report /\ ctx' = [ctx EXCEPT ![c].signed = TRUE]
      BY <2>4, <2>5
    <3>2. at' \in [Calls -> Places]
      BY <3>1 DEF Places
    <3>3. ctx' \in [Calls -> Contexts]
      <4>1. ctx[c] \in Contexts
        OBVIOUS
      <4>2. [ctx[c] EXCEPT !.signed = TRUE] \in Contexts
        BY <4>1 DEF Contexts
      <4> QED BY <3>1, <4>2
    <3>4. voucher' = [voucher EXCEPT ![c] = v] /\ tries' = [tries EXCEPT ![c] = @ + 1]
      BY <2>4, <2>5
    <3> QED BY <2>3, <2>4, <3>1, <3>2, <3>3, <3>4
  <2>6. CASE ~arrives
    BY <2>3, <2>4, <2>6
  <2> QED BY <2>5, <2>6
<1>10. ASSUME NEW c \in Calls, SettleExact(c) PROVE AgentTypes'
  BY <1>10 DEF SettleExact, Described, Receive, signerdvars
<1>11. ASSUME NEW c \in Calls, SettleVoucher(c) PROVE AgentTypes'
  <2>1. charged' \in [Hosts -> Nat]
    <3>1. \/ charged' = charged
          \/ charged' = [charged EXCEPT ![Head(to[c])] = charged[Head(to[c])] + 1]
      BY <1>11 DEF SettleVoucher
    <3> QED BY <3>1
  <2>2. /\ at' \in [Calls -> Places] /\ at[c] = "paying"
        /\ answer' \in [Calls -> Heard] /\ report' \in [Calls -> Reports \cup {Undefined}]
    <3>1. at[c] = "paying" /\ (\/ \E what \in Heard : Answers(c, what) /\ UNCHANGED report
                               \/ Throws(c, ctx[c].denial) /\ UNCHANGED answer
                               \/ \E s \in Heard : Described(c, s))
      BY <1>11, HeardHeaders DEF SettleVoucher
    <3>2. CASE \E what \in Heard : Answers(c, what) /\ UNCHANGED report
      BY <3>1, <3>2 DEF Answers, Places
    <3>3. CASE Throws(c, ctx[c].denial) /\ UNCHANGED answer
      BY <3>1, <3>3
    <3>4. CASE \E s \in Heard : Described(c, s)
      BY <3>1, <3>4 DEF Described
    <3> QED BY <3>1, <3>2, <3>3, <3>4
  <2> QED BY <1>11, <2>1, <2>2 DEF SettleVoucher, Receive, signerdvars
<1>12. ASSUME NEW c \in Calls, NEW takes \in BOOLEAN, OnPaymentResponse(c, takes) PROVE AgentTypes'
  <2> DEFINE h == Head(to[c])
  <2>1. h \in Hosts => CountAfter(c, h) \in Nat /\ charged[h] \in Nat
    BY DEF Prepared, CountAfter
  <2>2. /\ count' = [count EXCEPT ![h] = IF takes THEN CountAfter(c, h) ELSE @]
        /\ signedMax' = [signedMax EXCEPT ![h] = IF Recovers(c, takes) THEN Larger(@, charged[h]) ELSE @]
    BY <1>12 DEF OnPaymentResponse
  <2>3. count' \in [Hosts -> Nat] /\ signedMax' \in [Hosts -> Nat]
    BY <2>1, <2>2 DEF Larger
  <2>4. /\ at' \in [Calls -> Places] /\ at[c] = "responding"
        /\ report' \in [Calls -> Reports \cup {Undefined}]
    BY <1>12 DEF OnPaymentResponse, Places
  <2> QED BY <1>12, <2>3, <2>4 DEF OnPaymentResponse, historyvars
<1>13. CASE UNCHANGED vars
  BY <1>13 DEF vars, callvars, signerdvars
<1> QED BY <1>1, <1>2, <1>3, <1>4, <1>5, <1>6, <1>7, <1>8, <1>9, <1>10, <1>11, <1>12, <1>13
           DEF Next, Step

LEMMA PreparedStep == AgentTypes /\ Prepared /\ [Next]_vars => Prepared'
<1> SUFFICES ASSUME AgentTypes, Prepared, [Next]_vars PROVE Prepared'
  OBVIOUS
<1> USE DEF AgentTypes, Prepared, Goes
<1>1. ASSUME NEW c \in Calls, NEW a \in Asks, Begin(c, a) PROVE Prepared'
  BY <1>1 DEF Begin
<1>2. ASSUME NEW c \in Calls, NEW allowed \in BOOLEAN, BatchAllowed(c, allowed) PROVE Prepared'
  BY <1>2 DEF BatchAllowed
<1>3. ASSUME NEW c \in Calls,
             at[c] # "idle", at' = [at EXCEPT ![c] = at'[c]], at'[c] # "status",
             UNCHANGED <<asked, to, voucher>>
      PROVE  Prepared'
  BY <1>3
<1>4. ASSUME NEW c \in Calls,
             \/ Connect(c) \/ Free(c) \/ Lost(c) \/ Refuse(c) \/ NoAnswer(c) \/ ResponseRefused(c)
             \/ SettleExact(c) \/ SettleVoucher(c)
             \/ \E offers : PaymentRequired(c, offers)
             \/ \E url : Redirect(c, url)
             \/ \E takes : OnPaymentResponse(c, takes)
      PROVE  Prepared'
  <2>1. /\ at[c] # "idle" /\ at' = [at EXCEPT ![c] = at'[c]] /\ at'[c] # "status"
        /\ UNCHANGED <<asked, to, voucher>>
    BY <1>4 DEF Connect, Free, Lost, Refuse, NoAnswer, ResponseRefused, SettleExact, SettleVoucher, Answers,
                PaymentRequired, Redirect, HandedBack, OnPaymentResponse, Described, Throws, Says
  <2> QED BY <1>3, <2>1
<1>5. ASSUME NEW c \in Calls, NEW arrives \in BOOLEAN, Sign(c, arrives) PROVE Prepared'
  <2>1. CASE arrives
    <3>1. /\ at' = [at EXCEPT ![c] = "paying"]
          /\ voucher' = [voucher EXCEPT ![c] = IF scheme[c] = "exact" THEN 0 ELSE count[Head(to[c])] + 1]
          /\ at[c] = "signing" /\ UNCHANGED <<asked, to>>
      BY <1>5, <2>1 DEF Sign, NextVoucher
    <3>2. Head(to[c]) \in Hosts => voucher'[c] \in Nat
      BY <3>1
    <3> QED BY <3>1, <3>2
  <2>2. CASE ~arrives
    <3>1. /\ at[c] # "idle" /\ at' = [at EXCEPT ![c] = at'[c]] /\ at'[c] # "status"
          /\ UNCHANGED <<asked, to, voucher>>
      BY <1>5, <2>2 DEF Sign, Throws, Says
    <3> QED BY <1>3, <3>1
  <2> QED BY <2>1, <2>2
<1>6. CASE UNCHANGED vars
  BY <1>6 DEF vars, callvars
<1> QED BY <1>1, <1>2, <1>4, <1>5, <1>6 DEF Next, Step

-----------------------------------------------------------------------------
(***************************************************************************)
(* A URL that was matched as it was asked for is matched where it goes.    *)
(***************************************************************************)
LEMMA MatchedWhereItGoes ==
    ASSUME NEW a \in Asks, Allowed(ResourceOf(a))
    PROVE  Allowed([url |-> Resolved(a.url), tool |-> a.run])
<1>1. PICK e \in Entries : ResourceMatches(e, ResourceOf(a))
  BY DEF Allowed
<1>2. ResourceOf(a).url = a.url /\ (ResourceOf(a).tool = a.run)
  BY AgentToolAssumption DEF ResourceOf, McpResource, WithoutFragment
<1>3. ResourceMatches(e, [url |-> Resolved(a.url), tool |-> a.run])
  BY <1>1, <1>2, AgentToolAssumption DEF ResourceMatches, NormalizeUrl
<1> QED BY <1>3 DEF Allowed

(***************************************************************************)
(* What a call under way told signerd is what it was asked for, by itself, *)
(* and it goes there; once signed for, it is allowed and on record.        *)
(***************************************************************************)
Underway == {"connecting", "asking", "signing", "paying", "responding"}

TellsItself ==
    \A c \in Calls : at[c] \in Underway =>
        /\ ctx[c].resource = ResourceOf(asked[c]) /\ ctx[c].by = c
        /\ to[c] = Resolved(asked[c].url)

OnRecord(c) == \E r \in records : r.call = c /\ r.resource = ctx[c].resource

SignedIsAllowed ==
    \A c \in Calls : at[c] \in {"paying", "responding"} => Allowed(ctx[c].resource) /\ OnRecord(c)

LEMMA TellsItselfStep == AgentTypes /\ Prepared /\ TellsItself /\ [Next]_vars => TellsItself'
<1> SUFFICES ASSUME AgentTypes, Prepared, TellsItself, [Next]_vars PROVE TellsItself'
  OBVIOUS
<1> USE DEF AgentTypes, TellsItself, Underway, Goes
<1>1. ASSUME NEW c \in Calls, NEW a \in Asks, Begin(c, a) PROVE TellsItself'
  BY <1>1 DEF Begin
<1>2. ASSUME NEW c \in Calls, NEW allowed \in BOOLEAN, BatchAllowed(c, allowed) PROVE TellsItself'
  BY <1>2 DEF BatchAllowed, NoContext
<1>3. ASSUME NEW c \in Calls, at' = [at EXCEPT ![c] = at'[c]],
             at[c] \in Underway, UNCHANGED <<asked, to>>,
             \/ ctx' = ctx
             \/ ctx' = [ctx EXCEPT ![c].denial = TRUE]
             \/ ctx' = [ctx EXCEPT ![c].signed = TRUE]
      PROVE  TellsItself'
  <2>1. \A d \in Calls : ctx'[d].resource = ctx[d].resource /\ ctx'[d].by = ctx[d].by
    <3> SUFFICES ASSUME NEW d \in Calls
                 PROVE  ctx'[d].resource = ctx[d].resource /\ ctx'[d].by = ctx[d].by
      OBVIOUS
    <3>1. ctx[d] \in Contexts /\ ctx[c] \in Contexts
      OBVIOUS
    <3>2. CASE ctx' = [ctx EXCEPT ![c].denial = TRUE]
      BY <3>1, <3>2 DEF Contexts
    <3>3. CASE ctx' = [ctx EXCEPT ![c].signed = TRUE]
      BY <3>1, <3>3 DEF Contexts
    <3> QED BY <1>3, <3>2, <3>3
  <2> QED BY <1>3, <2>1
<1>4. ASSUME NEW c \in Calls,
             \/ Connect(c) \/ Free(c) \/ Lost(c) \/ NoAnswer(c) \/ ResponseRefused(c)
             \/ SettleExact(c) \/ SettleVoucher(c)
             \/ \E offers : PaymentRequired(c, offers)
             \/ \E url : Redirect(c, url)
             \/ \E takes : OnPaymentResponse(c, takes)
      PROVE  TellsItself'
  <2>1. /\ at[c] \in Underway /\ at' = [at EXCEPT ![c] = at'[c]] /\ UNCHANGED <<asked, to, ctx>>
    BY <1>4 DEF Connect, Free, Lost, NoAnswer, ResponseRefused, SettleExact, SettleVoucher, Answers,
                PaymentRequired, Redirect, HandedBack, OnPaymentResponse, Described, Throws, Says
  <2> QED BY <1>3, <2>1
<1>5. ASSUME NEW c \in Calls, NEW arrives \in BOOLEAN, Sign(c, arrives) PROVE TellsItself'
  <2>1. /\ at[c] \in Underway /\ at' = [at EXCEPT ![c] = at'[c]] /\ UNCHANGED <<asked, to>>
        /\ ctx' = ctx \/ ctx' = [ctx EXCEPT ![c].signed = TRUE]
    BY <1>5 DEF Sign, OwnContext, Throws, Says
  <2> QED BY <1>3, <2>1
<1>6. ASSUME NEW c \in Calls, Refuse(c) PROVE TellsItself'
  <2>1. /\ at[c] \in Underway /\ at' = [at EXCEPT ![c] = at'[c]] /\ UNCHANGED <<asked, to>>
        /\ ctx' = [ctx EXCEPT ![c].denial = TRUE]
    BY <1>6 DEF Refuse, OwnContext, Throws, Says
  <2> QED BY <1>3, <2>1
<1>7. CASE UNCHANGED vars
  BY <1>7 DEF vars, callvars
<1> QED BY <1>1, <1>2, <1>4, <1>5, <1>6, <1>7 DEF Next, Step

CallInv == AgentTypes /\ Prepared /\ TellsItself /\ SignedIsAllowed

LEMMA SignedIsAllowedStep == CallInv /\ [Next]_vars => SignedIsAllowed'
<1> SUFFICES ASSUME CallInv, [Next]_vars PROVE SignedIsAllowed'
  OBVIOUS
<1> USE DEF CallInv, AgentTypes, Goes
<1>1. ASSUME NEW c \in Calls, NEW a \in Asks, Begin(c, a) PROVE SignedIsAllowed'
  <2> SUFFICES ASSUME NEW d \in Calls, at'[d] \in {"paying", "responding"}
               PROVE  Allowed(ctx'[d].resource) /\ \E r \in records' : r.call = d /\ r.resource = ctx'[d].resource
    BY DEF SignedIsAllowed, OnRecord
  <2>1. d # c /\ at[d] \in {"paying", "responding"} /\ ctx'[d] = ctx[d]
    BY <1>1 DEF Begin
  <2>2. PICK r \in records : r.call = d /\ r.resource = ctx[d].resource
    BY <2>1 DEF SignedIsAllowed, OnRecord
  <2>3. r \in records'
    BY <1>1, <2>1, <2>2 DEF Begin
  <2> QED BY <2>1, <2>2, <2>3 DEF SignedIsAllowed
<1>2. ASSUME NEW c \in Calls, \A d \in Calls : d # c => at'[d] = at[d] /\ ctx'[d] = ctx[d],
             records \subseteq records',
             \/ at'[c] \notin {"paying", "responding"}
             \/ at[c] = "paying" /\ ctx'[c] = ctx[c]
      PROVE  SignedIsAllowed'
  <2> SUFFICES ASSUME NEW d \in Calls, at'[d] \in {"paying", "responding"}
               PROVE  Allowed(ctx'[d].resource) /\ \E r \in records' : r.call = d /\ r.resource = ctx'[d].resource
    BY DEF SignedIsAllowed, OnRecord
  <2>1. at[d] \in {"paying", "responding"} /\ ctx'[d] = ctx[d]
    BY <1>2
  <2> QED BY <1>2, <2>1 DEF SignedIsAllowed, OnRecord
<1>3. ASSUME NEW c \in Calls,
             \/ Connect(c) \/ Free(c) \/ Lost(c) \/ Refuse(c) \/ NoAnswer(c) \/ ResponseRefused(c)
             \/ SettleExact(c) \/ SettleVoucher(c)
             \/ \E offers : PaymentRequired(c, offers)
             \/ \E url : Redirect(c, url)
             \/ \E takes : OnPaymentResponse(c, takes)
             \/ \E allowed : BatchAllowed(c, allowed)
             \/ Sign(c, FALSE)
      PROVE  SignedIsAllowed'
  <2>1. /\ \A d \in Calls : d # c => at'[d] = at[d] /\ ctx'[d] = ctx[d]
        /\ records \subseteq records'
    BY <1>3 DEF Connect, Free, Lost, Refuse, NoAnswer, ResponseRefused, SettleExact, SettleVoucher, Answers,
                PaymentRequired, Redirect, HandedBack, OnPaymentResponse, BatchAllowed, Sign, OwnContext,
                Described, Throws, Says, signerdvars
  <2>2. \/ at'[c] \notin {"paying", "responding"}
        \/ at[c] = "paying" /\ ctx'[c] = ctx[c]
    BY <1>3 DEF Connect, Free, Lost, Refuse, NoAnswer, ResponseRefused, SettleExact, SettleVoucher, Answers,
                PaymentRequired, Redirect, HandedBack, OnPaymentResponse, BatchAllowed, Sign,
                Described, Throws, Says
  <2> QED BY <1>2, <2>1, <2>2
<1>4. ASSUME NEW c \in Calls, Sign(c, TRUE) PROVE SignedIsAllowed'
  <2> DEFINE signed == [call |-> c, by |-> ctx[c].by, resource |-> ctx[c].resource]
  <2>1. /\ Allowed(ctx[c].resource) /\ records' = records \cup {signed}
        /\ at' = [at EXCEPT ![c] = "paying"] /\ ctx' = [ctx EXCEPT ![c].signed = TRUE]
    BY <1>4 DEF Sign, OwnContext, Told
  <2>2. ctx'[c].resource = ctx[c].resource
    <3>1. ctx[c] \in Contexts
      OBVIOUS
    <3> QED BY <3>1, <2>1 DEF Contexts
  <2> SUFFICES ASSUME NEW d \in Calls, at'[d] \in {"paying", "responding"}
               PROVE  Allowed(ctx'[d].resource) /\ \E r \in records' : r.call = d /\ r.resource = ctx'[d].resource
    BY DEF SignedIsAllowed, OnRecord
  <2>3. CASE d = c
    <3>1. signed \in records' /\ signed.call = d /\ signed.resource = ctx'[d].resource
      BY <2>1, <2>2, <2>3
    <3> QED BY <3>1, <2>1, <2>2, <2>3
  <2>4. CASE d # c
    <3>1. at[d] \in {"paying", "responding"} /\ ctx'[d] = ctx[d]
      BY <2>1, <2>4
    <3> QED BY <2>1, <3>1 DEF SignedIsAllowed, OnRecord
  <2> QED BY <2>3, <2>4
<1>5. CASE UNCHANGED vars
  BY <1>5 DEF vars, callvars, signerdvars, SignedIsAllowed, OnRecord
<1>6. \A c, arrives : arrives \in BOOLEAN /\ Sign(c, arrives) => Sign(c, TRUE) \/ Sign(c, FALSE)
  OBVIOUS
<1> QED BY <1>1, <1>3, <1>4, <1>5, <1>6 DEF Next, Step

LEMMA CallInvStep == CallInv /\ [Next]_vars => CallInv'
BY TypesStep, PreparedStep, TellsItselfStep, SignedIsAllowedStep DEF CallInv

LEMMA CallInvInit == Init => CallInv
<1> SUFFICES ASSUME Init PROVE CallInv
  OBVIOUS
<1>1. \A c \in Calls : at[c] = "idle" /\ voucher[c] = 0
  BY DEF Init
<1>2. Prepared /\ TellsItself /\ SignedIsAllowed
  BY <1>1 DEF Prepared, TellsItself, SignedIsAllowed, Underway
<1> QED BY <1>2, TypesInit DEF CallInv

LEMMA ReachStep == CallInv /\ PaymentsReachWhatIsAllowed /\ [Next]_vars => PaymentsReachWhatIsAllowed'
<1> SUFFICES ASSUME CallInv, PaymentsReachWhatIsAllowed, [Next]_vars PROVE PaymentsReachWhatIsAllowed'
  OBVIOUS
<1> USE DEF PaymentsReachWhatIsAllowed
<1>1. ASSUME NEW c \in Calls, NEW a \in Asks, Begin(c, a) PROVE PaymentsReachWhatIsAllowed'
  <2>1. /\ records' = {r \in records : r.call # c}
        /\ sent' = {p \in sent : p.call # c}
    BY <1>1 DEF Begin
  <2> QED BY <2>1
<1>2. ASSUME NEW c \in Calls,
             \/ BatchAllowed(c, TRUE) \/ BatchAllowed(c, FALSE)
             \/ Connect(c) \/ Free(c) \/ Lost(c) \/ Refuse(c) \/ NoAnswer(c) \/ ResponseRefused(c)
             \/ \E offers : PaymentRequired(c, offers)
             \/ \E url : Redirect(c, url) /\ at[c] # "paying"
             \/ \E takes : OnPaymentResponse(c, takes)
      PROVE  PaymentsReachWhatIsAllowed'
  <2>1. records' = records /\ sent' = sent
    BY <1>2 DEF BatchAllowed, Connect, Free, Lost, Refuse, NoAnswer, ResponseRefused,
                PaymentRequired, Redirect, OnPaymentResponse, signerdvars, historyvars
  <2> QED BY <2>1
<1>3. ASSUME NEW c \in Calls, NEW arrives \in BOOLEAN, Sign(c, arrives) PROVE PaymentsReachWhatIsAllowed'
  <2> DEFINE signed == [call |-> c, by |-> ctx[c].by, resource |-> ctx[c].resource]
  <2>1. records' = records \cup {signed} /\ sent' = sent /\ at[c] = "signing"
    BY <1>3 DEF Sign, OwnContext, Told, historyvars
  <2>2. signed.by = signed.call
    BY <2>1 DEF CallInv, TellsItself, Underway
  <2> QED BY <2>1, <2>2
<1>4. ASSUME NEW c \in Calls,
             \/ SettleExact(c) \/ SettleVoucher(c)
             \/ \E url : Redirect(c, url) /\ at[c] = "paying"
      PROVE  PaymentsReachWhatIsAllowed'
  <2> DEFINE payment == [call |-> c, url |-> to[c], run |-> asked[c].run]
  <2>1. records' = records /\ sent' = sent \cup {payment} /\ at[c] = "paying"
    BY <1>4 DEF SettleExact, SettleVoucher, Redirect, Receive, signerdvars
  <2>2. /\ asked[c] \in Asks /\ to[c] = Resolved(asked[c].url)
        /\ Allowed(ResourceOf(asked[c]))
        /\ \E r \in records : r.call = c /\ r.resource = ResourceOf(asked[c])
    BY <2>1 DEF CallInv, Prepared, TellsItself, Underway, SignedIsAllowed, OnRecord
  <2>3. Allowed([url |-> payment.url, tool |-> payment.run])
    BY <2>2, MatchedWhereItGoes
  <2>4. ResourceOf(asked[c]).url = asked[c].url
    BY DEF ResourceOf, McpResource, WithoutFragment
  <2>5. \E r \in records : r.call = payment.call /\ Resolved(r.resource.url) = payment.url
    BY <2>2, <2>4
  <2> QED BY <2>1, <2>3, <2>5
<1>5. CASE UNCHANGED vars
  BY <1>5 DEF vars, signerdvars, historyvars
<1>6. \A c, allowed : allowed \in BOOLEAN /\ BatchAllowed(c, allowed) => BatchAllowed(c, TRUE) \/ BatchAllowed(c, FALSE)
  OBVIOUS
<1> QED BY <1>1, <1>2, <1>3, <1>4, <1>5, <1>6 DEF Next, Step

(***************************************************************************)
(* For any entries and URLs, any calls at once and any redirects: a seller *)
(* is paid only at an address, and for a tool, that an entry of the policy *)
(* matches and that signerd was told of by the call that pays.             *)
(***************************************************************************)
THEOREM PaymentsReachTheAllowed == Spec => []PaymentsReachWhatIsAllowed
<1>1. Init => PaymentsReachWhatIsAllowed
  BY DEF Init, PaymentsReachWhatIsAllowed
<1> QED BY <1>1, CallInvInit, CallInvStep, ReachStep, PTL DEF Spec

-----------------------------------------------------------------------------
(***************************************************************************)
(* signerd's client never counts more than was charged, and takes a        *)
(* success for a voucher only when the seller charged it.                  *)
(***************************************************************************)
CountsWhatWasCharged ==
    /\ \A h \in Hosts : count[h] <= charged[h] /\ signedMax[h] <= charged[h] + 1
    /\ \A c \in Calls :
          at[c] = "responding" /\ answer[c].success /\ Head(to[c]) \in Hosts
              => voucher[c] <= charged[Head(to[c])]

LEMMA CountStep == AgentTypes /\ Prepared /\ CountsWhatWasCharged /\ [Next]_vars => CountsWhatWasCharged'
<1> SUFFICES ASSUME AgentTypes, Prepared, CountsWhatWasCharged, [Next]_vars PROVE CountsWhatWasCharged'
  OBVIOUS
<1> USE DEF AgentTypes, Goes
<1>1. ASSUME NEW c \in Calls, UNCHANGED <<signedMax, count, charged>>,
             at'[c] # "responding",
             \A d \in Calls : d # c => /\ at'[d] = at[d] /\ answer'[d] = answer[d]
                                      /\ to'[d] = to[d] /\ voucher'[d] = voucher[d]
      PROVE  CountsWhatWasCharged'
  BY <1>1 DEF CountsWhatWasCharged
<1>2. ASSUME NEW c \in Calls,
             \/ \E a \in Asks : Begin(c, a)
             \/ \E allowed \in BOOLEAN : BatchAllowed(c, allowed)
             \/ Connect(c) \/ Free(c) \/ Lost(c) \/ Refuse(c) \/ NoAnswer(c) \/ ResponseRefused(c)
             \/ SettleExact(c)
             \/ \E offers : PaymentRequired(c, offers)
             \/ \E url : Redirect(c, url)
      PROVE  CountsWhatWasCharged'
  <2>1. UNCHANGED <<signedMax, count, charged>>
    BY <1>2 DEF Begin, BatchAllowed, Connect, Free, Lost, Refuse, NoAnswer, ResponseRefused,
                SettleExact, PaymentRequired, Redirect, signerdvars
  <2>2. /\ at'[c] # "responding"
        /\ \A d \in Calls : d # c => /\ at'[d] = at[d] /\ answer'[d] = answer[d]
                                    /\ to'[d] = to[d] /\ voucher'[d] = voucher[d]
    BY <1>2 DEF Begin, BatchAllowed, Connect, Free, Lost, Refuse, NoAnswer, ResponseRefused,
                SettleExact, PaymentRequired, Redirect, HandedBack, Described, Throws, Says
  <2> QED BY <1>1, <2>1, <2>2
<1>3. ASSUME NEW c \in Calls, NEW arrives \in BOOLEAN, Sign(c, arrives) PROVE CountsWhatWasCharged'
  <2> DEFINE h == Head(to[c])
             v == IF scheme[c] = "exact" THEN 0 ELSE count[h] + 1
  <2>1. /\ signedMax' = [signedMax EXCEPT ![h] = Larger(@, v)]
        /\ UNCHANGED <<count, charged, answer, to>>
    BY <1>3 DEF Sign, NextVoucher
  <2>2. \A g \in Hosts : signedMax[g] \in Nat /\ charged[g] \in Nat /\ count[g] \in Nat
    OBVIOUS
  <2>3. h \in Hosts => v \in Nat /\ v <= charged[h] + 1
    BY <2>2 DEF CountsWhatWasCharged
  <2>4. /\ at'[c] # "responding"
        /\ \A d \in Calls : d # c => at'[d] = at[d] /\ voucher'[d] = voucher[d]
    BY <1>3 DEF Sign, Throws, Says
  <2> HIDE DEF v
  <2>5. \A g \in Hosts : signedMax'[g] <= charged[g] + 1
    BY <2>1, <2>2, <2>3 DEF CountsWhatWasCharged, Larger
  <2> QED BY <2>1, <2>4, <2>5 DEF CountsWhatWasCharged
<1>4. ASSUME NEW c \in Calls, SettleVoucher(c) PROVE CountsWhatWasCharged'
  <2> DEFINE h == Head(to[c])
  <2>1. /\ UNCHANGED <<signedMax, count, to, voucher>>
        /\ \A d \in Calls : d # c => at'[d] = at[d] /\ answer'[d] = answer[d]
    BY <1>4 DEF SettleVoucher, Answers, Described, Throws, Says, signerdvars
  <2>2. \/ charged' = [charged EXCEPT ![h] = charged[h] + 1] /\ voucher[c] = charged[h] + 1
        \/ charged' = charged /\ voucher[c] = charged[h]
        \/ charged' = charged /\ (at'[c] = "responding" => ~answer'[c].success)
    BY <1>4 DEF SettleVoucher, Answers, Described, Says, Corrective, Answer
  <2>3. \A g \in Hosts : charged'[g] \in Nat /\ charged[g] <= charged'[g]
    <3>1. charged' = charged \/ charged' = [charged EXCEPT ![h] = charged[h] + 1]
      BY <2>2
    <3>2. \A g \in Hosts : charged[g] \in Nat
      OBVIOUS
    <3>3. ASSUME NEW g \in Hosts PROVE charged'[g] = charged[g] \/ charged'[g] = charged[g] + 1
      BY <3>1
    <3> QED BY <3>2, <3>3
  <2>4. at'[c] = "responding" /\ answer'[c].success /\ h \in Hosts => voucher[c] <= charged'[h]
    BY <2>2
  <2>5. \A d \in Calls : d # c /\ at[d] = "responding" /\ answer[d].success /\ Head(to[d]) \in Hosts
                             => voucher[d] <= charged'[Head(to[d])]
    BY <2>3 DEF CountsWhatWasCharged, Prepared
  <2>6. \A g \in Hosts : count'[g] <= charged'[g] /\ signedMax'[g] <= charged'[g] + 1
    <3>1. \A g \in Hosts : signedMax[g] \in Nat /\ charged[g] \in Nat /\ count[g] \in Nat
      OBVIOUS
    <3> QED BY <2>1, <2>3, <3>1 DEF CountsWhatWasCharged
  <2> SUFFICES ASSUME NEW d \in Calls,
                      at'[d] = "responding", answer'[d].success, Head(to'[d]) \in Hosts
               PROVE  voucher'[d] <= charged'[Head(to'[d])]
    BY <2>6 DEF CountsWhatWasCharged
  <2>7. CASE d = c
    BY <2>1, <2>4, <2>7
  <2>8. CASE d # c
    BY <2>1, <2>5, <2>8
  <2> QED BY <2>7, <2>8
<1>5. ASSUME NEW c \in Calls, NEW takes \in BOOLEAN, OnPaymentResponse(c, takes) PROVE CountsWhatWasCharged'
  <2> DEFINE h == Head(to[c])
  <2>1. /\ UNCHANGED <<charged, to, voucher, answer>>
        /\ at[c] = "responding"
        /\ count' = [count EXCEPT ![h] = IF takes THEN CountAfter(c, h) ELSE @]
        /\ signedMax' = [signedMax EXCEPT ![h] = IF Recovers(c, takes) THEN Larger(@, charged[h]) ELSE @]
    BY <1>5 DEF OnPaymentResponse
  <2>2. h \in Hosts => CountAfter(c, h) <= charged[h]
    BY <2>1 DEF CountAfter, CountsWhatWasCharged
  <2>3. \A g \in Hosts : count'[g] <= charged[g] /\ signedMax'[g] <= charged[g] + 1
    BY <2>1, <2>2 DEF CountsWhatWasCharged, Larger
  <2>4. at'[c] # "responding" /\ \A d \in Calls : d # c => at'[d] = at[d]
    BY <1>5 DEF OnPaymentResponse, Says
  <2> QED BY <2>1, <2>3, <2>4 DEF CountsWhatWasCharged
<1>6. CASE UNCHANGED vars
  BY <1>6 DEF vars, callvars, signerdvars, CountsWhatWasCharged
<1> QED BY <1>2, <1>3, <1>4, <1>5, <1>6 DEF Next, Step

(***************************************************************************)
(* However many answers are lost, vouchers refused and counts corrected,   *)
(* and however calls of one channel overlap, signerd has signed at most    *)
(* one price past what the seller charged.                                 *)
(***************************************************************************)
THEOREM LostAnswersAreFree == Spec => []LostAnswersCostNothing
<1>1. Init => CountsWhatWasCharged
  BY DEF Init, CountsWhatWasCharged
<1>2. CountsWhatWasCharged => LostAnswersCostNothing
  BY DEF CountsWhatWasCharged, LostAnswersCostNothing
<1>3. CallInv => AgentTypes /\ Prepared
  BY DEF CallInv
<1> QED BY <1>1, <1>2, <1>3, CallInvInit, CallInvStep, CountStep, PTL DEF Spec

-----------------------------------------------------------------------------
(***************************************************************************)
(* A call under way knows whether signerd signed for it, and was not       *)
(* refused; one that is done said so.                                      *)
(***************************************************************************)
Knows(c) ==
    /\ at[c] = "status" => ctx[c].signed = FALSE
    /\ at[c] \notin {"idle", "done"} =>
          (SignedFor(c) <=> ctx[c].signed) /\ ctx[c].denial = FALSE /\ c \notin refused
    /\ at[c] = "done" =>
          /\ report[c].kind = "described" =>
                /\ SignedFor(c) => report[c].paid \/ report[c].unsettled
                /\ report[c].unsettled => SignedFor(c)
                /\ report[c].paid => Settled(c)
          /\ report[c].kind = "denied" <=> c \in refused

(***************************************************************************)
(* What another call does is nothing to a call.                            *)
(***************************************************************************)
LEMMA OthersKnow ==
    ASSUME NEW d \in Calls, Knows(d),
           at'[d] = at[d], ctx'[d] = ctx[d], report'[d] = report[d], answer'[d] = answer[d],
           \A r : r.call = d => (r \in records' <=> r \in records),
           d \in refused' <=> d \in refused
    PROVE  Knows(d)'
<1>1. SignedFor(d)' <=> SignedFor(d)
  BY DEF SignedFor
<1>2. Settled(d)' <=> Settled(d)
  BY DEF Settled
<1> QED BY <1>1, <1>2 DEF Knows

LEMMA DescribedKnows ==
    ASSUME AgentTypes, NEW c \in Calls, Knows(c), at[c] \notin {"idle", "done"},
           NEW s \in Heard, Says(c, DescribePayment(c, s)), answer'[c] = s,
           records' = records, refused' = refused
    PROVE  Knows(c)'
<1>1. /\ at'[c] = "done" /\ report'[c].kind = "described"
      /\ report'[c].paid = Paid(s) /\ report'[c].unsettled = (ctx[c].signed /\ ~Paid(s))
  BY DEF Says, DescribePayment, AgentTypes
<1>2. SignedFor(c)' <=> SignedFor(c)
  BY DEF SignedFor
<1>3. SignedFor(c) <=> ctx[c].signed
  BY DEF Knows
<1>4. c \notin refused'
  BY DEF Knows
<1>5. Paid(s) => Settled(c)'
  BY HeardAnswers DEF Paid, Settled
<1>6. SignedFor(c)' => report'[c].paid \/ report'[c].unsettled
  BY <1>1, <1>2, <1>3
<1>7. report'[c].unsettled => SignedFor(c)'
  BY <1>1, <1>2, <1>3
<1>8. report'[c].paid => Settled(c)'
  BY <1>1, <1>5
<1>9. report'[c].kind # "denied"
  BY <1>1
<1> QED BY <1>1, <1>4, <1>6, <1>7, <1>8, <1>9 DEF Knows

LEMMA ThrowsKnows ==
    ASSUME AgentTypes, NEW c \in Calls, NEW denial, Throws(c, denial),
           c \in refused' <=> denial
    PROVE  Knows(c)'
<1>1. /\ at'[c] = "done" /\ report'[c].kind = IF denial THEN "denied" ELSE "error"
  BY DEF Throws, Says, AgentTypes
<1> QED BY <1>1 DEF Knows

LEMMA GoesOnKnows ==
    ASSUME NEW c \in Calls, Knows(c), at[c] \notin {"idle", "done"}, at'[c] \notin {"idle", "status", "done"},
           ctx'[c].signed = ctx[c].signed, ctx'[c].denial = ctx[c].denial,
           records' = records, refused' = refused
    PROVE  Knows(c)'
<1>1. SignedFor(c)' <=> SignedFor(c)
  BY DEF SignedFor
<1> QED BY <1>1 DEF Knows

AllKnow == \A c \in Calls : Knows(c)

LEMMA KnowsStep == AgentTypes /\ AllKnow /\ [Next]_vars => AllKnow'
<1> SUFFICES ASSUME AgentTypes, AllKnow, [Next]_vars PROVE AllKnow'
  OBVIOUS
<1> \A d \in Calls : Knows(d)
  BY DEF AllKnow
<1>1. ASSUME NEW c \in Calls, Knows(c)',
             \A d \in Calls : d # c => /\ at'[d] = at[d] /\ ctx'[d] = ctx[d]
                                     /\ report'[d] = report[d] /\ answer'[d] = answer[d],
             \A r : r.call # c => (r \in records' <=> r \in records),
             \A d \in Calls : d # c => (d \in refused' <=> d \in refused)
      PROVE  AllKnow'
  <2> SUFFICES ASSUME NEW d \in Calls, d # c PROVE Knows(d)'
    BY <1>1 DEF AllKnow
  <2> QED BY <1>1, OthersKnow
<1> USE DEF AgentTypes, Goes
<1>2. ASSUME NEW c \in Calls, NEW a \in Asks, Begin(c, a) PROVE AllKnow'
  <2>1. /\ \A d \in Calls : d # c => /\ at'[d] = at[d] /\ ctx'[d] = ctx[d]
                                    /\ report'[d] = report[d] /\ answer'[d] = answer[d]
        /\ records' = {r \in records : r.call # c}
        /\ refused' = refused \ {c}
        /\ at'[c] = "status" /\ ctx'[c] = NoContext
    BY <1>2 DEF Begin
  <2>2. ~SignedFor(c)'
    BY <2>1 DEF SignedFor
  <2>3. Knows(c)'
    BY <2>1, <2>2 DEF Knows, NoContext
  <2> QED BY <1>1, <2>1, <2>3
<1>3. ASSUME NEW c \in Calls, NEW allowed \in BOOLEAN, BatchAllowed(c, allowed) PROVE AllKnow'
  <2>1. /\ \A d \in Calls : d # c => /\ at'[d] = at[d] /\ ctx'[d] = ctx[d]
                                    /\ report'[d] = report[d] /\ answer'[d] = answer[d]
        /\ records' = records /\ refused' = refused
        /\ at[c] = "status" /\ at'[c] \in {"connecting", "asking"}
        /\ ctx'[c].signed = FALSE /\ ctx'[c].denial = FALSE
    BY <1>3 DEF BatchAllowed, NoContext, signerdvars, historyvars
  <2>2. ctx[c].signed = FALSE /\ ctx[c].denial = FALSE
    BY <2>1 DEF Knows
  <2> QED BY <1>1, <2>1, <2>2, GoesOnKnows
<1>4. ASSUME NEW c \in Calls,
             \/ Connect(c) /\ at'[c] = "asking"
             \/ \E offers : PaymentRequired(c, offers)
      PROVE  AllKnow'
  <2>1. /\ \A d \in Calls : d # c => /\ at'[d] = at[d] /\ ctx'[d] = ctx[d]
                                    /\ report'[d] = report[d] /\ answer'[d] = answer[d]
        /\ records' = records /\ refused' = refused
        /\ at[c] \notin {"idle", "done"} /\ at'[c] \notin {"idle", "status", "done"} /\ ctx' = ctx
    BY <1>4 DEF Connect, PaymentRequired, Throws, Says, signerdvars, historyvars
  <2> QED BY <1>1, <2>1, GoesOnKnows
<1>5. ASSUME NEW c \in Calls,
             \/ Lost(c) \/ NoAnswer(c) \/ ResponseRefused(c)
             \/ Connect(c) /\ at'[c] # "asking"
             \/ \E url : Redirect(c, url) /\ asked[c].kind # "fetch"
      PROVE  AllKnow'
  <2>1. /\ \A d \in Calls : d # c => /\ at'[d] = at[d] /\ ctx'[d] = ctx[d]
                                    /\ report'[d] = report[d] /\ answer'[d] = answer[d]
        /\ records' = records /\ refused' = refused
        /\ at[c] \notin {"idle", "done"} /\ Throws(c, ctx[c].denial)
    BY <1>5 DEF Lost, NoAnswer, ResponseRefused, Connect, Redirect, HandedBack, Receive, Throws, Says,
                signerdvars, historyvars
  <2>2. ctx[c].denial = FALSE /\ c \notin refused
    BY <2>1 DEF Knows
  <2> QED BY <1>1, <2>1, <2>2, ThrowsKnows
<1>6. ASSUME NEW c \in Calls,
             \/ Free(c) \/ SettleExact(c)
             \/ SettleVoucher(c) /\ \E s \in Heard : Described(c, s)
             \/ \E url : Redirect(c, url) /\ asked[c].kind = "fetch"
      PROVE  AllKnow'
  <2>1. /\ \A d \in Calls : d # c => /\ at'[d] = at[d] /\ ctx'[d] = ctx[d]
                                    /\ report'[d] = report[d] /\ answer'[d] = answer[d]
        /\ records' = records /\ refused' = refused
        /\ at[c] \notin {"idle", "done"}
    BY <1>6 DEF Free, SettleExact, SettleVoucher, Redirect, HandedBack, Described, Receive, Says,
                signerdvars, historyvars
  <2>2. \E s \in Heard : Says(c, DescribePayment(c, s)) /\ answer'[c] = s
    BY <1>6, HeardAnswers, HeardHeaders DEF Free, SettleExact, Redirect, HandedBack, Described
  <2> QED BY <1>1, <2>1, <2>2, DescribedKnows
<1>7. ASSUME NEW c \in Calls, SettleVoucher(c), ~\E s \in Heard : Described(c, s) PROVE AllKnow'
  <2>1. /\ \A d \in Calls : d # c => /\ at'[d] = at[d] /\ ctx'[d] = ctx[d]
                                    /\ report'[d] = report[d] /\ answer'[d] = answer[d]
        /\ records' = records /\ refused' = refused /\ ctx' = ctx
        /\ at[c] \notin {"idle", "done"}
        /\ at' = [at EXCEPT ![c] = "responding"] \/ Throws(c, ctx[c].denial)
    BY <1>7, HeardHeaders DEF SettleVoucher, Answers, Receive, Throws, Says, signerdvars
  <2>2. ctx[c].denial = FALSE /\ c \notin refused
    BY <2>1 DEF Knows
  <2>3. CASE at' = [at EXCEPT ![c] = "responding"]
    BY <1>1, <2>1, <2>3, GoesOnKnows
  <2>4. CASE Throws(c, ctx[c].denial)
    BY <1>1, <2>1, <2>2, <2>4, ThrowsKnows
  <2> QED BY <2>1, <2>3, <2>4
<1>8. ASSUME NEW c \in Calls, NEW takes \in BOOLEAN, OnPaymentResponse(c, takes) PROVE AllKnow'
  <2>1. /\ \A d \in Calls : d # c => /\ at'[d] = at[d] /\ ctx'[d] = ctx[d]
                                    /\ report'[d] = report[d] /\ answer'[d] = answer[d]
        /\ records' = records /\ refused' = refused /\ ctx' = ctx /\ answer' = answer
        /\ at[c] \notin {"idle", "done"}
        /\ at' = [at EXCEPT ![c] = "signing"] \/ Says(c, DescribePayment(c, answer[c]))
    BY <1>8 DEF OnPaymentResponse, Says, historyvars
  <2>2. CASE at' = [at EXCEPT ![c] = "signing"]
    BY <1>1, <2>1, <2>2, GoesOnKnows
  <2>3. CASE Says(c, DescribePayment(c, answer[c]))
    BY <1>1, <2>1, <2>3, DescribedKnows
  <2> QED BY <2>1, <2>2, <2>3
<1>9. ASSUME NEW c \in Calls, Refuse(c) PROVE AllKnow'
  <2>1. /\ \A d \in Calls : d # c => /\ at'[d] = at[d] /\ ctx'[d] = ctx[d]
                                    /\ report'[d] = report[d] /\ answer'[d] = answer[d]
        /\ records' = records /\ refused' = refused \cup {c}
        /\ at[c] = "signing" /\ ctx' = [ctx EXCEPT ![c].denial = TRUE]
        /\ Throws(c, ctx'[c].denial)
    BY <1>9 DEF Refuse, OwnContext, Throws, Says, signerdvars
  <2>2. ctx'[c].denial = TRUE
    <3>1. ctx[c] \in Contexts
      OBVIOUS
    <3> QED BY <2>1, <3>1 DEF Contexts
  <2>3. Knows(c)'
    BY <2>1, <2>2, ThrowsKnows
  <2> QED BY <1>1, <2>1, <2>3
<1>10. ASSUME NEW c \in Calls, Sign(c, FALSE) PROVE AllKnow'
  <2>1. /\ \A d \in Calls : d # c => /\ at'[d] = at[d] /\ ctx'[d] = ctx[d]
                                    /\ report'[d] = report[d] /\ answer'[d] = answer[d]
        /\ \A r : r.call # c => (r \in records' <=> r \in records)
        /\ refused' = refused /\ at[c] = "signing" /\ Throws(c, ctx[c].denial)
    BY <1>10 DEF Sign, Throws, Says, historyvars
  <2>2. ctx[c].denial = FALSE /\ c \notin refused
    BY <2>1 DEF Knows
  <2> QED BY <1>1, <2>1, <2>2, ThrowsKnows
<1>11. ASSUME NEW c \in Calls, Sign(c, TRUE) PROVE AllKnow'
  <2> DEFINE signed == [call |-> c, by |-> ctx[c].by, resource |-> ctx[c].resource]
  <2>1. /\ \A d \in Calls : d # c => /\ at'[d] = at[d] /\ ctx'[d] = ctx[d]
                                    /\ report'[d] = report[d] /\ answer'[d] = answer[d]
        /\ records' = records \cup {signed} /\ refused' = refused
        /\ at[c] = "signing" /\ at'[c] = "paying" /\ ctx' = [ctx EXCEPT ![c].signed = TRUE]
    BY <1>11 DEF Sign, OwnContext, Told, historyvars
  <2>2. ctx'[c].signed = TRUE /\ ctx'[c].denial = ctx[c].denial
    <3>1. ctx[c] \in Contexts
      OBVIOUS
    <3> QED BY <2>1, <3>1 DEF Contexts
  <2>3. signed.call = c
    OBVIOUS
  <2> HIDE DEF signed
  <2>4. SignedFor(c)'
    BY <2>1, <2>3 DEF SignedFor
  <2>5. Knows(c)'
    BY <2>1, <2>2, <2>4 DEF Knows
  <2>6. \A r : r.call # c => (r \in records' <=> r \in records)
    BY <2>1, <2>3
  <2> QED BY <1>1, <2>1, <2>5, <2>6
<1>12. CASE UNCHANGED vars
  BY <1>12, OthersKnow DEF vars, callvars, signerdvars, historyvars, AllKnow
<1>13. \A c, arrives : arrives \in BOOLEAN /\ Sign(c, arrives) => Sign(c, TRUE) \/ Sign(c, FALSE)
  OBVIOUS
<1> HIDE DEF AgentTypes, Goes
<1> QED BY <1>2, <1>3, <1>4, <1>5, <1>6, <1>7, <1>8, <1>9, <1>10, <1>11, <1>12, <1>13 DEF Next, Step

(***************************************************************************)
(* Whatever sellers answer and whichever connections are lost: a call that *)
(* signerd signed for is described as paid only if it is, and else as      *)
(* unsettled; unsettled is said of no other; and denied exactly when       *)
(* signerd refused.                                                        *)
(***************************************************************************)
THEOREM ReportsAreTrue == Spec => []ReportsTellTheSpend
<1>1. Init => AllKnow
  <2> SUFFICES ASSUME Init PROVE AllKnow
    OBVIOUS
  <2>1. \A c \in Calls : at[c] = "idle"
    BY DEF Init
  <2> QED BY <2>1 DEF AllKnow, Knows
<1>2. AllKnow => ReportsTellTheSpend
  BY DEF AllKnow, Knows, ReportsTellTheSpend
<1>3. CallInv => AgentTypes
  BY DEF CallInv
<1> QED BY <1>1, <1>2, <1>3, CallInvInit, CallInvStep, KnowsStep, PTL DEF Spec
=============================================================================
