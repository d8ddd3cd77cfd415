-------------------------------- MODULE Daemon --------------------------------
(***************************************************************************)
(* signerd serving requests (src/src/signerd.ts): who may call what, the   *)
(* policy file re-read for each decision, the approval queue when a record *)
(* cannot be written, builds that are retried, and the shutdown.           *)
(*                                                                         *)
(* What a decision weighs is PolicyRules', how locks are handed on is      *)
(* KeyedLock's, and how a spend survives a crash is Journal's.  Here a     *)
(* policy allows, gates or denies an agent's payment, any request may be   *)
(* the next to run (more orders than the agents' locks permit), and what   *)
(* matters of the log is whether each write succeeded.                     *)
(*                                                                         *)
(* A request is a POST to /sign, /approve or /deny.  While reading names   *)
(* one, the thread is between the two system calls of refreshPolicy.       *)
(***************************************************************************)
EXTENDS Startup, Sequences

CONSTANTS
    Requests,       \* POST requests
    Agents,         \* agent ids; an agent's token is known by its agent
    OperatorToken,
    NoToken,        \* any other bearer
    Busy,           \* bound: the environments in which requests are made
    Served,         \* bound: the policies they are made under
    NoOne

ASSUME DaemonAssumption ==
    /\ Busy \subseteq Environments /\ Served \subseteq Policies
    /\ OperatorToken \notin Agents /\ NoToken \notin Agents \cup {OperatorToken}
    /\ NoOne \notin Requests \cup Agents
    /\ Policies \subseteq PolicyFiles(Agents) \cup {Unreadable}
    /\ Unreadable \notin PolicyFiles(Agents)

VARIABLES
    at,         \* where each request is
    header,     \* its bearer token
    path,
    agent,      \* the agent a /sign is for
    target,     \* the queued request an /approve works on
    reading,    \* who is in refreshPolicy (NoOne: a GET), with the mtime it stat'ed
    pending,    \* the approval queue
    reserved,   \* whose budget is held for it
    walletQ,    \* withWalletLock: holder first
    tries,      \* failed builds of each request
    gone,       \* requests whose connection has closed
    unplaced,   \* history: requests whose place on the queue was not recorded
    unrecorded, \* history: requests whose outcome was not recorded
    late,       \* history: requests queued after shutdown drained the queue
    logged,     \* history: payments whose signed record is on disk
    handed,     \* history: payments whose transaction was given to a caller
    payers,     \* history: [header, agent] of each payment signed
    approvers   \* history: the tokens that approved or denied

queuevars == <<pending, reserved, unplaced, unrecorded, late>>
historyvars == <<logged, handed, payers, approvers>>
servevars == <<at, header, path, agent, target, reading, walletQ, tries, gone, queuevars, historyvars>>
vars == <<kvars, startvars, servevars>>

NotReading == [of |-> NoOne, mtime |-> -1]

Init ==
    /\ StartupInit
    /\ at = [r \in Requests |-> "idle"]
    /\ header = [r \in Requests |-> NoToken]
    /\ path = [r \in Requests |-> "none"]
    /\ agent = [r \in Requests |-> NoOne]
    /\ target = [r \in Requests |-> NoOne]
    /\ reading = NotReading
    /\ pending = {}
    /\ reserved = {}
    /\ walletQ = << >>
    /\ tries = [r \in Requests |-> 0]
    /\ gone = {}
    /\ unplaced = {}
    /\ unrecorded = {}
    /\ late = {}
    /\ logged = {}
    /\ handed = {}
    /\ payers = {}
    /\ approvers = {}

(* Node runs one thread: a step starts where the last one awaited. *)
Free == Up /\ reading = NotReading

Moves(r, places) == at' = [at EXCEPT ![r] = places]

(* The bounds: where and under which policies requests are made. *)
Open == stage \in {"listening", "stopping"} /\ env \in Busy /\ cached.policy \in Served

(* The handlers of these requests return. *)
Done(R) == at' = [r \in Requests |-> IF r \in R THEN "done" ELSE at[r]]

Dies == stage' = "died" /\ UNCHANGED <<env, modes, notes, file, cached, balance, raced>>

(***************************************************************************)
(* audit: how each of n writes goes, on a disk that may be full at any     *)
(* moment; one that throws is never undone.                                *)
(***************************************************************************)
Writes(n) == [1 .. n -> BOOLEAN]

-----------------------------------------------------------------------------
(***************************************************************************)
(* The gate: identify, then shutting_down, then the body, then what a      *)
(* caller of this kind may do.                                             *)
(***************************************************************************)
Identify(h) ==
    IF h = OperatorToken THEN OperatorToken
    ELSE IF env.tokens = "sound" /\ h \in Agents THEN h ELSE NoOne

AgentPaths == {"/sign"}

Arrive(r, h, p) ==
    /\ Open
    /\ at[r] = "idle"
    /\ IF Identify(h) = NoOne \/ stage = "stopping"
       THEN Moves(r, "done") /\ UNCHANGED <<header, path>>
       ELSE /\ Moves(r, "body")
            /\ header' = [header EXCEPT ![r] = h]
            /\ path' = [path EXCEPT ![r] = p]
    /\ UNCHANGED <<kvars, startvars, agent, target, reading, walletQ, tries,
                   gone, queuevars, historyvars>>

(* The body does not parse, or is too large. *)
BadRequest(r) ==
    /\ Free
    /\ at[r] = "body"
    /\ Moves(r, "done")
    /\ UNCHANGED <<kvars, startvars, header, path, agent, target, reading,
                   walletQ, tries, gone, queuevars, historyvars>>

(* Mutant: any token may call any path. *)
MayCallAnything(h, p) == TRUE

MayCall(h, p) == h = OperatorToken \/ p \in AgentPaths

(***************************************************************************)
(* The agent a /sign is for: the token's, when tokens mean something, else *)
(* the one the body claims.                                                *)
(***************************************************************************)
(* Mutant: the body's word is taken for it. *)
PayingAgentClaimed(h, claims) == claims

PayingAgent(h, claims) ==
    IF env.tokens = "sound"
    THEN IF h \in Agents /\ claims \in {h, NoOne} THEN h ELSE NoOne
    ELSE claims

SignBody(r, claims) ==
    /\ Free
    /\ at[r] = "body"
    /\ path[r] = "/sign"
    /\ IF MayCall(header[r], "/sign") /\ PayingAgent(header[r], claims) # NoOne
       THEN /\ Moves(r, "deciding")
            /\ agent' = [agent EXCEPT ![r] = PayingAgent(header[r], claims)]
       ELSE Moves(r, "done") /\ UNCHANGED agent
    /\ UNCHANGED <<kvars, startvars, header, path, target, reading, walletQ,
                   tries, gone, queuevars, historyvars>>

ApproveBody(o, r) ==
    /\ Free
    /\ at[o] = "body"
    /\ path[o] = "/approve"
    /\ IF MayCall(header[o], "/approve") /\ r \in pending
       THEN /\ Moves(o, "deciding")
            /\ target' = [target EXCEPT ![o] = r]
            /\ approvers' = approvers \cup {header[o]}
       ELSE Moves(o, "done") /\ UNCHANGED <<target, approvers>>
    /\ UNCHANGED <<kvars, startvars, header, path, agent, reading, walletQ,
                   tries, gone, queuevars, logged, handed, payers>>

-----------------------------------------------------------------------------
(***************************************************************************)
(* closePending: off the queue, its budget back, the record, the answer.   *)
(* When the record cannot be written audit throws, and the caller is never *)
(* answered.                                                               *)
(***************************************************************************)
(* Mutant: the budget comes back once the record is written. *)
OffTheQueueThenFreed(r, ok) ==
    /\ pending' = pending \ {r}
    /\ reserved' = IF ok THEN reserved \ {r} ELSE reserved
    /\ unrecorded' = IF ok THEN unrecorded ELSE unrecorded \cup {r}
    /\ UNCHANGED unplaced

OffTheQueue(r, ok) ==
    /\ pending' = pending \ {r}
    /\ reserved' = reserved \ {r}
    /\ unrecorded' = IF ok THEN unrecorded ELSE unrecorded \cup {r}
    /\ UNCHANGED unplaced

(***************************************************************************)
(* From a timer or a close listener nothing catches what audit throws, and *)
(* an exception nobody catches ends the process.                           *)
(***************************************************************************)
CloseFromCallback(r) ==
    \E w \in Writes(1) :
        /\ OffTheQueue(r, w[1])
        /\ IF w[1] THEN Done({r}) /\ UNCHANGED startvars ELSE Dies /\ UNCHANGED at
        /\ UNCHANGED <<kvars, header, path, agent, target, reading, walletQ,
                       tries, late, historyvars>>

TimeOut(r) ==
    /\ Free
    /\ r \in pending
    /\ CloseFromCallback(r)
    /\ UNCHANGED gone

(* The caller's connection closes. *)
CallerLeaves(r) ==
    /\ Free
    /\ at[r] \notin {"idle", "done"}
    /\ r \notin gone
    /\ gone' = gone \cup {r}
    /\ IF r \in pending
       THEN CloseFromCallback(r)
       ELSE /\ IF at[r] = "body" THEN Done({r}) ELSE UNCHANGED at
            /\ UNCHANGED <<kvars, startvars, header, path, agent, target, reading,
                           walletQ, tries, queuevars, historyvars>>

DenyBody(o, r) ==
    /\ Free
    /\ at[o] = "body"
    /\ path[o] = "/deny"
    /\ IF MayCall(header[o], "/deny") /\ r \in pending
       THEN /\ approvers' = approvers \cup {header[o]}
            /\ \E w \in Writes(1) :
                  /\ OffTheQueue(r, w[1])
                  /\ Done(IF w[1] THEN {o, r} ELSE {o})
       ELSE Moves(o, "done") /\ UNCHANGED <<pending, reserved, unplaced, unrecorded, approvers>>
    /\ UNCHANGED <<kvars, startvars, header, path, agent, target, reading, walletQ,
                   tries, gone, late, logged, handed, payers>>

-----------------------------------------------------------------------------
Verdict(p, a) ==
    IF a \notin p.agents THEN "deny" ELSE IF p.gated THEN "needs_approval" ELSE "allow"

(* What s pays for: itself, or the request it approves. *)
For(s) == IF path[s] = "/approve" THEN target[s] ELSE s

TurnedDown(r) ==
    /\ Done({r})
    /\ UNCHANGED <<queuevars, walletQ>>

(***************************************************************************)
(* enqueue: the budget is held and the request recorded before it is on    *)
(* the queue; a caller that left while it waited takes it off at once.     *)
(***************************************************************************)
Enqueue(r) ==
    \E w \in Writes(2) :
        /\ IF ~w[1]
           THEN /\ Done({r})
                /\ reserved' = reserved \cup {r}
                /\ unplaced' = unplaced \cup {r}
                /\ UNCHANGED <<pending, unrecorded, late>>
           ELSE IF r \in gone
           THEN /\ Done({r})
                /\ unrecorded' = IF w[2] THEN unrecorded ELSE unrecorded \cup {r}
                /\ UNCHANGED <<pending, reserved, unplaced, late>>
           ELSE /\ Moves(r, "queued")
                /\ reserved' = reserved \cup {r}
                /\ pending' = pending \cup {r}
                /\ late' = IF stage = "stopping" THEN late \cup {r} ELSE late
                /\ UNCHANGED <<unplaced, unrecorded>>
        /\ UNCHANGED walletQ

ToTheWallet(s) == Moves(s, "signing") /\ walletQ' = Append(walletQ, s)

JudgeSign(r, p) ==
    IF PolicyRefused(env, p) THEN TurnedDown(r)
    ELSE \/ Verdict(p, agent[r]) = "deny" /\ TurnedDown(r)
         \/ Verdict(p, agent[r]) = "needs_approval" /\ Enqueue(r)
         \/ Verdict(p, agent[r]) = "allow" /\ ToTheWallet(r) /\ UNCHANGED queuevars

(***************************************************************************)
(* An approval is judged again; allowed, it leaves the queue and its hold  *)
(* stays until the payment has been recorded.                              *)
(***************************************************************************)
Refused(p, a) == IF PolicyRefused(env, p) THEN TRUE ELSE Verdict(p, a) = "deny"

JudgeApproval(o, p) ==
    LET r == target[o]
    IN  IF r \notin pending THEN TurnedDown(o)
        ELSE IF Refused(p, agent[r])
        THEN /\ \E w \in Writes(1) :
                   /\ OffTheQueue(r, w[1])
                   /\ Done(IF w[1] THEN {o, r} ELSE {o})
             /\ UNCHANGED <<late, walletQ>>
        ELSE /\ ToTheWallet(o)
             /\ pending' = pending \ {r}
             /\ UNCHANGED <<reserved, unplaced, unrecorded, late>>

(***************************************************************************)
(* sign, once the transaction is built: the lovelace caps, the ledger, the *)
(* signed record and the checkpoint; then, for an approval, its own        *)
(* record, or the one that says it failed.                                 *)
(***************************************************************************)
(* Mutant: the transaction is handed out however the writes went. *)
HandsOutAnyway(w) == TRUE

HandsOut(w) == w[1] /\ w[2] /\ w[3]

Finish(s, signed, out, failureWritten) ==
    LET r == For(s)
        told == out \/ failureWritten
    IN  /\ Done({s} \cup (IF told THEN {r} ELSE {}))
        /\ walletQ' = Tail(walletQ)
        /\ reserved' = reserved \ {r}
        /\ unrecorded' = IF told \/ s = r THEN unrecorded ELSE unrecorded \cup {r}
        /\ logged' = IF signed THEN logged \cup {r} ELSE logged
        /\ handed' = IF out /\ r \notin gone THEN handed \cup {r} ELSE handed
        /\ UNCHANGED <<pending, unplaced, late>>

(* The two first writes are sign's; a direct /sign has no third. *)
Commit(s) ==
    \E w \in Writes(4) :
        /\ s = For(s) => w[3]
        /\ Finish(s, w[1], HandsOut(w), w[4])
        /\ payers' = payers \cup {[header |-> header[For(s)], agent |-> agent[For(s)]]}

SignFails(s) ==
    \E w \in Writes(1) :
        /\ Finish(s, FALSE, FALSE, w[1])
        /\ UNCHANGED payers

JudgeBuilt(s, p) ==
    IF PolicyRefused(env, p) THEN SignFails(s) ELSE SignFails(s) \/ Commit(s)

Judge(s, p) ==
    IF at[s] = "built" THEN JudgeBuilt(s, p)
    ELSE /\ IF path[s] = "/sign" THEN JudgeSign(s, p) ELSE JudgeApproval(s, p)
         /\ UNCHANGED <<logged, handed, payers>>

(***************************************************************************)
(* refreshPolicy: the mtime first, and the file only if it changed.  What  *)
(* does not parse is not cached.                                           *)
(***************************************************************************)
(* Mutant: the mtime is remembered before the file is parsed. *)
MtimeFirst(p, mtime) ==
    cached' = IF PolicyRefused(env, p) THEN [cached EXCEPT !.mtime = mtime]
              ELSE [policy |-> p, mtime |-> mtime]

Cache(p, mtime) ==
    cached' = IF PolicyRefused(env, p) THEN cached ELSE [policy |-> p, mtime |-> mtime]

Stat(s) ==
    /\ Free
    /\ at[s] \in {"deciding", "built"}
    /\ IF file.mtime = cached.mtime
       THEN Judge(s, cached.policy) /\ UNCHANGED reading
       ELSE /\ reading' = [of |-> s, mtime |-> file.mtime]
            /\ UNCHANGED <<at, walletQ, queuevars, logged, handed, payers>>
    /\ UNCHANGED <<kvars, startvars, header, path, agent, target, tries, gone, approvers>>

(* /status, /metrics and /preflight refresh it too, and decide nothing.    *)
Status ==
    /\ Free
    /\ Open
    /\ file.mtime # cached.mtime
    /\ reading' = [of |-> NoOne, mtime |-> file.mtime]
    /\ UNCHANGED <<kvars, startvars, at, header, path, agent, target, walletQ, tries,
                   gone, queuevars, historyvars>>

Read ==
    LET s == reading.of
        p == file.policy
    IN  /\ Up
        /\ reading # NotReading
        /\ reading' = NotReading
        /\ Cache(p, reading.mtime)
        /\ raced' = (raced /\ PolicyRefused(env, p))
        /\ IF s = NoOne
           THEN UNCHANGED <<at, walletQ, queuevars, logged, handed, payers>>
           ELSE Judge(s, p)
        /\ UNCHANGED <<kvars, stage, env, modes, notes, file, balance, header, path,
                       agent, target, tries, gone, approvers>>

(***************************************************************************)
(* The build, under the wallet's lock: tried three times at most, and      *)
(* again only after a provider read that failed.                           *)
(***************************************************************************)
MaxRetries == 2

HasWallet(s) == walletQ # << >> /\ Head(walletQ) = s /\ at[s] = "signing"

BuildRetried(s) ==
    /\ Free
    /\ HasWallet(s)
    /\ tries[s] < MaxRetries
    /\ tries' = [tries EXCEPT ![s] = @ + 1]
    /\ UNCHANGED <<kvars, startvars, at, header, path, agent, target, reading,
                   walletQ, gone, queuevars, historyvars>>

(* Out of tries, out of funds, or a retry that could not be recorded. *)
BuildFails(s) ==
    /\ Free
    /\ HasWallet(s)
    /\ SignFails(s)
    /\ UNCHANGED <<kvars, startvars, header, path, agent, target, reading, tries,
                   gone, approvers>>

Built(s) ==
    /\ Free
    /\ HasWallet(s)
    /\ Moves(s, "built")
    /\ UNCHANGED <<kvars, startvars, header, path, agent, target, reading, walletQ,
                   tries, gone, queuevars, historyvars>>

-----------------------------------------------------------------------------
(***************************************************************************)
(* shutdown: the queue drained, record by record; then the process ends    *)
(* once every connection has closed and the wallet's lock is free, or ten  *)
(* seconds later.                                                          *)
(***************************************************************************)
(* Mutant: whoever waits for an approval is left waiting. *)
NobodyToDrain == {}

ToDrain == pending

Shutdown ==
    /\ Free
    /\ stage = "listening"
    /\ Open
    /\ \E w \in Writes(1) :
          IF w[1] \/ ToDrain = {}
          THEN /\ stage' = "stopping"
               /\ Done(ToDrain)
               /\ pending' = pending \ ToDrain
               /\ reserved' = reserved \ ToDrain
               /\ UNCHANGED <<env, modes, notes, file, cached, balance, raced>>
          ELSE Dies /\ UNCHANGED <<at, pending, reserved>>
    /\ UNCHANGED <<kvars, header, path, agent, target, reading, walletQ, tries,
                   gone, unplaced, unrecorded, late, historyvars>>

Stop ==
    /\ stage' = "stopped"
    /\ UNCHANGED <<kvars, env, modes, notes, file, cached, balance, raced, servevars>>

Closed ==
    /\ Free
    /\ stage = "stopping"
    /\ \A r \in Requests : at[r] \in {"idle", "done"} \/ r \in gone
    /\ walletQ = << >>
    /\ Stop

TenSeconds ==
    /\ Free
    /\ stage = "stopping"
    /\ Stop

Serve(r) ==
    \/ \E h \in Agents \cup {OperatorToken, NoToken}, p \in {"/sign", "/approve", "/deny"} :
          Arrive(r, h, p)
    \/ BadRequest(r)
    \/ \E claims \in Agents \cup {NoOne} : SignBody(r, claims)
    \/ \E q \in Requests : ApproveBody(r, q)
    \/ \E q \in Requests : DenyBody(r, q)
    \/ TimeOut(r)
    \/ CallerLeaves(r)
    \/ Stat(r)
    \/ BuildRetried(r)
    \/ BuildFails(r)
    \/ Built(r)

(***************************************************************************)
(* The policy is replaced while the daemon starts or serves; the balance,  *)
(* which preflight alone reads, is read where no request is made.          *)
(***************************************************************************)
Around ==
    /\ \/ StartupNext
       \/ env \notin Busy /\ RefreshBalance
       \/ env \in Busy /\ \E p \in Served : ReplacePolicy(p)
    /\ UNCHANGED servevars

Next ==
    \/ Around
    \/ \E r \in Requests : Serve(r)
    \/ Status
    \/ Read
    \/ Shutdown
    \/ Closed
    \/ TenSeconds

Spec == Init /\ [][Next]_vars

-----------------------------------------------------------------------------
(***************************************************************************)
(* The policy a decision uses is the file's: whenever refreshPolicy would  *)
(* keep the one in memory, that is what the file says, through a           *)
(* replacement at any moment of a request.  The start itself reads before  *)
(* it stats, and a file replaced just then stays unread until it changes   *)
(* again, or until another request finds its mtime new.                    *)
(***************************************************************************)
PolicyIsTheFile ==
    Up /\ ~raced /\ cached.mtime = file.mtime => cached.policy = file.policy

(***************************************************************************)
(* With agents' tokens a payment is only ever made for the agent whose     *)
(* token asked for it, and without them only by the operator's; and no     *)
(* agent's token ever decides on the approval queue, its own payment       *)
(* included.                                                               *)
(***************************************************************************)
AuthorityIsTheTokens ==
    /\ approvers \subseteq {OperatorToken}
    /\ \A p \in payers :
          IF env.tokens = "sound" THEN p.header = p.agent ELSE p.header = OperatorToken

BeingApproved ==
    {target[o] : o \in {s \in Requests : path[s] = "/approve" /\ at[s] \in {"signing", "built"}}}

(***************************************************************************)
(* A caller whose request was queued is answered, still on the queue, or   *)
(* being approved, unless a record about it could not be written; and once *)
(* shutdown has begun nobody is left on the queue but those who got there  *)
(* afterwards.                                                             *)
(***************************************************************************)
NobodyIsForgotten ==
    /\ \A r \in Requests :
          at[r] = "queued" => r \in pending \cup BeingApproved \cup unrecorded
    /\ stage \in {"stopping", "stopped"} => pending \subseteq late

(***************************************************************************)
(* A request that is queued or being approved has its budget held, and no  *)
(* budget stays held for one that is neither, whatever throws: but for one *)
(* whose place on the queue could not be recorded.                         *)
(***************************************************************************)
HeldForWhoWaits ==
    /\ pending \cup BeingApproved \subseteq reserved
    /\ reserved \subseteq pending \cup BeingApproved \cup unplaced

(***************************************************************************)
(* No caller is given a transaction whose signed record is not on disk,    *)
(* with writes that fail at any point and builds that are retried.         *)
(***************************************************************************)
HandedOutIsRecorded == handed \subseteq logged
=============================================================================
