------------------------------ MODULE AgentTool ------------------------------
(***************************************************************************)
(* The agent's side of a payment: the tools x402_fetch and x402_mcp_call   *)
(* (src/src/mcp.ts) with the two schemes that forward a 402 to signerd     *)
(* (gatedSigner.ts, batchProxy.ts), redirects handed back (redirects.ts),  *)
(* what a settlement means (receipt.ts) and how signerd matches the        *)
(* resource it is told against a policy's entries (policy.ts).             *)
(*                                                                         *)
(* Tool calls run concurrently in one process.  The library that walks the *)
(* 402 round trip and the channel client inside signerd are not part of    *)
(* the repository: they do here what the code around them relies on.  The  *)
(* seller is dev/batchseller.ts's: it charges a voucher that is one step   *)
(* ahead of its count, gives a repeated one the stored answer, and may     *)
(* lose an answer on its way.  Every price is one step of a channel.       *)
(***************************************************************************)
EXTENDS Integers, Sequences, SequencesExt

CONSTANTS
    Calls,
    Asks,           \* what a call may be: [kind, url, fragment, run]
    Entries,        \* allowedResources: [url, prefix, tool]
    Destinations,   \* where a seller may redirect to
    MaxCharged,     \* bound: vouchers a seller charges
    NoTool, NoOne, Undefined

Schemes == {"exact", "batch-settlement"}

Hosts == {Head(a.url) : a \in Asks} \cup {Head(u) : u \in Destinations}

VARIABLES
    at,         \* the await a call is at
    asked,      \* what it was called with
    ctx,        \* its CallContext: [resource, by, batch, denial, signed]
    latest,     \* the call whose context was made last
    to,         \* the URL its request reaches
    scheme,     \* of the offer it pays
    voucher,    \* the cumulative amount of the voucher it presents
    tries,      \* paid requests it made
    answer,     \* the seller's answer: to its last request
    report,     \* what the tool tells the agent
    records,    \* signerd: what it signed, [call, by, resource]
    signedMax,  \* signerd: the most signed on each seller's channel
    count,      \* signerd's channel client: what it takes to be charged
    charged,    \* sellers: what each has charged on the channel
    refused,    \* history: calls signerd refused
    sent        \* history: [call, url, run] of each payment a seller received

callvars == <<at, asked, ctx, latest, to, scheme, voucher, tries, answer, report>>
signerdvars == <<records, signedMax, count>>
historyvars == <<refused, sent>>
vars == <<callvars, signerdvars, charged, historyvars>>

(***************************************************************************)
(* The seller's answer: a settlement, none, a header that does not decode, *)
(* or a corrective 402.                                                    *)
(***************************************************************************)
Answer(is, success, names) == [is |-> is, success |-> success, names |-> names]

NoHeader == Answer("nothing", FALSE, FALSE)
Corrective == Answer("corrective", FALSE, FALSE)
Accepted == Answer("settlement", TRUE, TRUE)

Settlements ==
    {s \in [is : {"nothing", "undecodable", "settlement"}, success : BOOLEAN, names : BOOLEAN] :
        s.success \/ s.names => s.is = "settlement"}

(* An answer with nothing in it to hand to signerd. *)
Bare == {NoHeader, Answer("undecodable", FALSE, FALSE)}

NoContext == [resource |-> Undefined, by |-> NoOne, batch |-> FALSE, denial |-> FALSE, signed |-> FALSE]

Init ==
    /\ at = [c \in Calls |-> "idle"]
    /\ asked = [c \in Calls |-> Undefined]
    /\ ctx = [c \in Calls |-> NoContext]
    /\ latest = NoOne
    /\ to = [c \in Calls |-> << >>]
    /\ scheme = [c \in Calls |-> "exact"]
    /\ voucher = [c \in Calls |-> 0]
    /\ tries = [c \in Calls |-> 0]
    /\ answer = [c \in Calls |-> Answer("nothing", FALSE, FALSE)]
    /\ report = [c \in Calls |-> Undefined]
    /\ records = {}
    /\ signedMax = [h \in Hosts |-> 0]
    /\ count = [h \in Hosts |-> 0]
    /\ charged = [h \in Hosts |-> 0]
    /\ refused = {}
    /\ sent = {}

-----------------------------------------------------------------------------
(***************************************************************************)
(* Resources.  A URL is its host and path segments as written; a request   *)
(* goes where it resolves to, and normalizeUrl resolves it the same way.   *)
(***************************************************************************)
Resolved(url) ==
    FoldLeft(LAMBDA path, s : IF s # ".." THEN Append(path, s)
                              ELSE IF Len(path) > 1 THEN Front(path) ELSE path,
             << >>, url)

(* Mutant: a URL is matched as it was written. *)
AsWritten(url) == url

NormalizeUrl(url) == Resolved(url)

(* Mutant: the fragment stays on a fetch's URL. *)
WithFragment(a) == [url |-> a.url, tool |-> a.fragment]

WithoutFragment(a) == [url |-> a.url, tool |-> NoTool]

McpResource(a) == [url |-> a.url, tool |-> a.run]

ResourceOf(a) == IF a.kind = "mcp" THEN McpResource(a) ELSE WithoutFragment(a)

(***************************************************************************)
(* resourceMatches: an entry that names a tool needs the resource to name  *)
(* it; one that ends in a slash and a star takes what lies below.          *)
(***************************************************************************)
ResourceMatches(entry, resource) ==
    /\ entry.tool # NoTool => resource.tool = entry.tool
    /\ IF entry.prefix
       THEN IsStrictPrefix(NormalizeUrl(entry.url), NormalizeUrl(resource.url))
       ELSE NormalizeUrl(entry.url) = NormalizeUrl(resource.url)

Allowed(resource) == \E e \in Entries : ResourceMatches(e, resource)

(***************************************************************************)
(* A fetch runs no tool; a path that was resolved resolves to itself.      *)
(***************************************************************************)
ASSUME AgentToolAssumption ==
    \A a \in Asks :
        /\ a.kind # "mcp" => a.run = NoTool
        /\ Resolved(Resolved(a.url)) = Resolved(a.url)

-----------------------------------------------------------------------------
(***************************************************************************)
(* receiptOf: paid when it settled and names what can be checked; and what *)
(* a tool reports.                                                         *)
(***************************************************************************)
(* Mutant: that a settlement is there is taken for a payment. *)
PaidByItsHeader(settlement) == settlement.is = "settlement"

Paid(settlement) == settlement.success /\ settlement.names

DescribePayment(c, settlement) ==
    [kind |-> "described", paid |-> Paid(settlement),
     unsettled |-> ctx[c].signed /\ ~Paid(settlement)]

Says(c, what) ==
    /\ at' = [at EXCEPT ![c] = "done"]
    /\ report' = [report EXCEPT ![c] = what]

Described(c, settlement) ==
    /\ answer' = [answer EXCEPT ![c] = settlement]
    /\ Says(c, DescribePayment(c, settlement))

(***************************************************************************)
(* The catch of both tools: the denial the call's context holds, if any;   *)
(* else the error alone.                                                   *)
(***************************************************************************)
Throws(c, denial) ==
    Says(c, [kind |-> IF denial THEN "denied" ELSE "error",
             paid |-> FALSE, unsettled |-> FALSE])

Goes(c, place) == at' = [at EXCEPT ![c] = place]

-----------------------------------------------------------------------------
(***************************************************************************)
(* A call: batchAllowed is asked first, then its context is made.  A call  *)
(* that was reported is forgotten when another takes its name.             *)
(***************************************************************************)
Begin(c, a) ==
    /\ at[c] \in {"idle", "done"}
    /\ Goes(c, "status")
    /\ asked' = [asked EXCEPT ![c] = a]
    /\ ctx' = [ctx EXCEPT ![c] = NoContext]
    /\ tries' = [tries EXCEPT ![c] = 0]
    /\ voucher' = [voucher EXCEPT ![c] = 0]
    /\ answer' = [answer EXCEPT ![c] = NoHeader]
    /\ to' = [to EXCEPT ![c] = << >>]
    /\ scheme' = [scheme EXCEPT ![c] = "exact"]
    /\ report' = [report EXCEPT ![c] = Undefined]
    /\ records' = {r \in records : r.call # c}
    /\ sent' = {p \in sent : p.call # c}
    /\ refused' = refused \ {c}
    /\ UNCHANGED <<latest, signedMax, count, charged>>

(* signerd not answering, or answering an error, is a no. *)
BatchAllowed(c, allowed) ==
    /\ at[c] = "status"
    /\ Goes(c, IF asked[c].kind = "mcp" THEN "connecting" ELSE "asking")
    /\ ctx' = [ctx EXCEPT ![c] = [NoContext EXCEPT !.resource = ResourceOf(asked[c]),
                                                   !.by = c, !.batch = allowed]]
    /\ latest' = c
    /\ to' = [to EXCEPT ![c] = Resolved(asked[c].url)]
    /\ UNCHANGED <<asked, scheme, voucher, tries, answer, report, signerdvars,
                   charged, historyvars>>

(* withRemote: one connection per call. *)
Connect(c) ==
    /\ at[c] = "connecting"
    /\ \/ Goes(c, "asking") /\ UNCHANGED report
       \/ Throws(c, ctx[c].denial)
    /\ UNCHANGED <<asked, ctx, latest, to, scheme, voucher, tries, answer,
                   signerdvars, charged, historyvars>>

(***************************************************************************)
(* preferBatch: batch-settlement first for an agent that may use it, last  *)
(* for another; the library pays the first offer.                          *)
(***************************************************************************)
PreferBatch(offers, allowed) ==
    IF allowed /\ "batch-settlement" \in offers THEN "batch-settlement"
    ELSE IF "exact" \in offers THEN "exact" ELSE "batch-settlement"

PaymentRequired(c, offers) ==
    /\ at[c] = "asking"
    /\ Goes(c, "signing")
    /\ scheme' = [scheme EXCEPT ![c] = PreferBatch(offers, ctx[c].batch)]
    /\ UNCHANGED <<asked, ctx, latest, to, voucher, tries, answer, report,
                   signerdvars, charged, historyvars>>

(* A free answer, whatever header comes with it. *)
Free(c) ==
    /\ at[c] = "asking"
    /\ \E s \in Settlements : Described(c, s)
    /\ UNCHANGED <<asked, ctx, latest, to, scheme, voucher, tries,
                   signerdvars, charged, historyvars>>

(* The seller gets what the call pays with. *)
Receive(c) ==
    /\ sent' = sent \cup {[call |-> c, url |-> to[c], run |-> asked[c].run]}
    /\ UNCHANGED refused

(***************************************************************************)
(* A 3xx is not followed, with a payment or without: a fetch hands it      *)
(* back, with what its header says, and a connection to an MCP server      *)
(* fails.  A voucher's settlement goes to signerd first, whatever the      *)
(* status: SettleVoucher has it.                                           *)
(***************************************************************************)
Headers(c) == IF at[c] = "paying" /\ scheme[c] = "batch-settlement" THEN Bare ELSE Settlements

(* Mutant: the request, and the payment in it, goes where it is sent. *)
Followed(c, url) ==
    /\ to' = [to EXCEPT ![c] = url]
    /\ UNCHANGED <<at, answer, report>>

HandedBack(c, url) ==
    /\ IF asked[c].kind = "fetch"
       THEN \E s \in Headers(c) : Described(c, s)
       ELSE Throws(c, ctx[c].denial) /\ UNCHANGED answer
    /\ UNCHANGED to

Redirect(c, url) ==
    /\ at[c] \in {"asking", "paying"}
    /\ to[c] # url
    /\ HandedBack(c, url)
    /\ IF at[c] = "paying" THEN Receive(c) ELSE UNCHANGED historyvars
    /\ UNCHANGED <<asked, ctx, latest, scheme, voucher, tries, signerdvars, charged>>

(* The seller's connection is lost, on its way there or back. *)
Lost(c) ==
    /\ at[c] \in {"asking", "paying"}
    /\ Throws(c, ctx[c].denial)
    /\ UNCHANGED <<asked, ctx, latest, to, scheme, voucher, tries, answer,
                   signerdvars, charged, historyvars>>

-----------------------------------------------------------------------------
(***************************************************************************)
(* The signer callbacks find their call through AsyncLocalStorage.         *)
(***************************************************************************)
(* Mutant: one slot for the module, the last call's. *)
LastContext(c) == latest

OwnContext(c) == c

(***************************************************************************)
(* buildAndSignPaymentTransaction and createPaymentPayload: what signerd   *)
(* is told, and what becomes of its answer.                                *)
(***************************************************************************)
Told(c) == ctx[OwnContext(c)].resource

Refuse(c) ==
    /\ at[c] = "signing"
    /\ ctx' = [ctx EXCEPT ![OwnContext(c)].denial = TRUE]
    /\ Throws(c, ctx'[c].denial)
    /\ refused' = refused \cup {c}
    /\ UNCHANGED <<asked, latest, to, scheme, voucher, tries, answer,
                   signerdvars, charged, sent>>

(* No answer came: not running, or 300 s waited for a human. *)
NoAnswer(c) ==
    /\ at[c] = "signing"
    /\ Throws(c, ctx[c].denial)
    /\ UNCHANGED <<asked, ctx, latest, to, scheme, voucher, tries, answer,
                   signerdvars, charged, historyvars>>

(***************************************************************************)
(* signerd signs what an entry allows.  The client's voucher is one step   *)
(* past its count.  The answer may be lost once the spend is recorded.     *)
(***************************************************************************)
NextVoucher(h) == count[h] + 1

Larger(m, n) == IF m > n THEN m ELSE n

Sign(c, arrives) ==
    LET h == Head(to[c])
        v == IF scheme[c] = "exact" THEN 0 ELSE NextVoucher(h)
    IN  /\ at[c] = "signing"
        /\ Allowed(Told(c))
        /\ v <= MaxCharged
        /\ records' = records \cup
             {[call |-> c, by |-> ctx[OwnContext(c)].by, resource |-> Told(c)]}
        /\ signedMax' = [signedMax EXCEPT ![h] = Larger(@, v)]
        /\ IF arrives
           THEN /\ Goes(c, "paying")
                /\ ctx' = [ctx EXCEPT ![OwnContext(c)].signed = TRUE]
                /\ voucher' = [voucher EXCEPT ![c] = v]
                /\ tries' = [tries EXCEPT ![c] = @ + 1]
                /\ UNCHANGED report
           ELSE Throws(c, ctx[c].denial) /\ UNCHANGED <<ctx, voucher, tries>>
        /\ UNCHANGED <<asked, latest, to, scheme, answer, count, charged, historyvars>>

-----------------------------------------------------------------------------
(***************************************************************************)
(* The seller's answers to a payment.                                      *)
(***************************************************************************)
(* exact: settled or not, with a header or without. *)
SettleExact(c) ==
    /\ at[c] = "paying" /\ scheme[c] = "exact"
    /\ Receive(c)
    /\ \E s \in Settlements : Described(c, s)
    /\ UNCHANGED <<asked, ctx, latest, to, scheme, voucher, tries,
                   signerdvars, charged>>

Answers(c, what) ==
    /\ Goes(c, "responding")
    /\ answer' = [answer EXCEPT ![c] = what]

(***************************************************************************)
(* A voucher in step is charged and its answer may be dropped; the last    *)
(* one again gets the stored answer; any other, and one for a different    *)
(* request, the corrective 402.  Charged or not, an answer without a       *)
(* header that decodes is not handed to signerd.                           *)
(***************************************************************************)
SettleVoucher(c) ==
    LET h == Head(to[c])
        next == charged[h] + 1
    IN  /\ at[c] = "paying" /\ scheme[c] = "batch-settlement"
        /\ Receive(c)
        /\ \/ /\ voucher[c] = next
              /\ charged' = [charged EXCEPT ![h] = next]
              /\ \/ Answers(c, Accepted) /\ UNCHANGED report
                 \/ Throws(c, ctx[c].denial) /\ UNCHANGED answer
                 \/ \E s \in Bare : Described(c, s)
           \/ /\ voucher[c] = charged[h]
              /\ Answers(c, Accepted)
              /\ UNCHANGED <<charged, report>>
           \/ /\ voucher[c] # next
              /\ Answers(c, Corrective)
              /\ UNCHANGED <<charged, report>>
           \/ /\ Answers(c, Answer("settlement", FALSE, FALSE))
              /\ UNCHANGED <<charged, report>>
           \/ /\ \E s \in Bare : Described(c, s)
              /\ UNCHANGED charged
        /\ UNCHANGED <<asked, ctx, latest, to, scheme, voucher, tries, signerdvars>>

(***************************************************************************)
(* onPaymentResponse hands the seller's answer to signerd, which moves its *)
(* client's count and never the most it signed; corrected, the library     *)
(* pays once more.                                                         *)
(***************************************************************************)
(* Mutant: the count moves with what was sent, whatever the seller said. *)
CountWhatWasSent(c, h) == IF answer[c] = Corrective THEN charged[h] ELSE voucher[c]

CountAfter(c, h) ==
    IF answer[c] = Corrective THEN charged[h]
    ELSE IF answer[c].success THEN voucher[c] ELSE count[h]

(* Whether the client takes the correction, and a first try was corrected. *)
Recovers(c, takes) == answer[c] = Corrective /\ takes

OnPaymentResponse(c, takes) ==
    LET h == Head(to[c])
    IN  /\ at[c] = "responding"
        /\ takes \/ answer[c] = Corrective
        /\ count' = [count EXCEPT ![h] = IF takes THEN CountAfter(c, h) ELSE @]
        /\ signedMax' = [signedMax EXCEPT ![h] = IF Recovers(c, takes) THEN Larger(@, charged[h]) ELSE @]
        /\ IF Recovers(c, takes) /\ tries[c] = 1
           THEN Goes(c, "signing") /\ UNCHANGED report
           ELSE Says(c, DescribePayment(c, answer[c]))
        /\ UNCHANGED <<asked, ctx, latest, to, scheme, voucher, tries, answer,
                       records, charged, historyvars>>

(* signerd refuses the answer, or is not there to take it. *)
ResponseRefused(c) ==
    /\ at[c] = "responding"
    /\ Throws(c, ctx[c].denial)
    /\ UNCHANGED <<asked, ctx, latest, to, scheme, voucher, tries, answer,
                   signerdvars, charged, historyvars>>

Step(c) ==
    \/ \E a \in Asks : Begin(c, a)
    \/ \E allowed \in BOOLEAN : BatchAllowed(c, allowed)
    \/ Connect(c)
    \/ \E offers \in SUBSET Schemes \ {{}} : PaymentRequired(c, offers)
    \/ Free(c)
    \/ \E url \in Destinations : Redirect(c, url)
    \/ Lost(c)
    \/ Refuse(c)
    \/ NoAnswer(c)
    \/ \E arrives \in BOOLEAN : Sign(c, arrives)
    \/ SettleExact(c)
    \/ SettleVoucher(c)
    \/ \E takes \in BOOLEAN : OnPaymentResponse(c, takes)
    \/ ResponseRefused(c)

Next == \E c \in Calls : Step(c)

Spec == Init /\ [][Next]_vars

-----------------------------------------------------------------------------
(***************************************************************************)
(* A payment reaches only what the policy allows: the address it goes to   *)
(* and the tool it runs are what signerd was told and matched, and it was  *)
(* told by the call that pays.  So through redirects, URLs written with a  *)
(* fragment or "..", and calls that run at the same time.                  *)
(***************************************************************************)
PaymentsReachWhatIsAllowed ==
    /\ \A r \in records : r.by = r.call
    /\ \A p \in sent :
          /\ Allowed([url |-> p.url, tool |-> p.run])
          /\ \E r \in records : r.call = p.call /\ Resolved(r.resource.url) = p.url

(***************************************************************************)
(* What a tool describes is what happened to the agent's money: paid only  *)
(* when the seller settled and named it, and when signerd signed for the   *)
(* call and it is not paid, unsettled; unsettled for no call it did not    *)
(* sign for.  And a call says denied exactly when signerd refused it.      *)
(***************************************************************************)
Settled(c) == answer[c].is = "settlement" /\ answer[c].success /\ answer[c].names

SignedFor(c) == \E r \in records : r.call = c

ReportsTellTheSpend ==
    \A c \in Calls :
        at[c] = "done" =>
            /\ report[c].kind = "described" =>
                  /\ SignedFor(c) => report[c].paid \/ report[c].unsettled
                  /\ report[c].unsettled => SignedFor(c)
                  /\ report[c].paid => Settled(c)
            /\ report[c].kind = "denied" <=> c \in refused

(***************************************************************************)
(* An answer that never arrives, a seller that refuses and a count out of  *)
(* step cost the agent nothing more: on a channel signerd has signed at    *)
(* most one price past what the seller charged.                            *)
(***************************************************************************)
LostAnswersCostNothing ==
    \A h \in Hosts : signedMax[h] <= charged[h] + 1
=============================================================================
