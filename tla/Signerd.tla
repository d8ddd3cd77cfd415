------------------------------- MODULE Signerd -------------------------------
(***************************************************************************)
(* The payment path of signerd (src/src/signerd.ts): POST /sign under the  *)
(* agent's lock and the wallet's, the approval queue with its operator     *)
(* calls, timers and callers that leave, the give-back of expired spends,  *)
(* the in-flight inputs, the policy file, and crash and restart.           *)
(*                                                                         *)
(* A session is one asynchronous activity of the daemon: a /sign request,  *)
(* an operator's /approve call, or the release pass.  Locks are the FIFO   *)
(* queues KeyedLock implements: the session at the head holds the lock.    *)
(* Node runs one thread, so what happens between two awaits is one step;   *)
(* the exception is a section that writes files, which a crash can cut     *)
(* between two writes: sync names the session in such a section, and no    *)
(* other session runs until it ends.                                       *)
(*                                                                         *)
(* The ledger, the log and the checkpoint are those of Journal, whose      *)
(* actions are used here, so that this module implements Journal.          *)
(***************************************************************************)
EXTENDS PolicyRules, Sequences, Functions

CONSTANTS
    Requests,   \* the /sign requests; a request signs at most one transaction
    Q,          \* what each asks: [agent, asset, amount, terms, batch]
    Agents,
    Operators,  \* concurrent /approve calls
    Releaser,   \* the release pass; releaseInFlight allows only one
    UTxOs,      \* the wallet's outputs
    Overheads,  \* what a built payment may cost beyond its amount
    Policies,   \* what the policy file may say
    Unreadable, \* or that it cannot be parsed
    Edits,      \* bound: what it may be replaced by while the daemon runs
    Hold,       \* how long an input stays committed to a handed-out payment
    MaxTime,    \* bound: the clock stops here
    NoBill,
    NoOne

Sessions == Requests \cup Operators \cup {Releaser}

Bill(r, overhead) ==
    [tx |-> r, agent |-> Q[r].agent, asset |-> Q[r].asset,
     amount |-> Q[r].amount, overhead |-> overhead]

Bills == {Bill(r, o) : r \in Requests, o \in Overheads}

ASSUME SignerdAssumption ==
    /\ Q \in [Requests -> [agent : Agents, asset : {Q[r].asset : r \in Requests},
                           amount : Nat, terms : {Q[r].terms : r \in Requests},
                           batch : {FALSE}]]
    /\ Requests \cap Operators = {}
    /\ Releaser \notin Requests \cup Operators
    /\ NoOne \notin Sessions
    /\ NoBill \notin Bills
    /\ Overheads \subseteq Nat /\ Overheads # {}
    /\ Unreadable \notin Policies
    /\ \A p \in Policies : Parses(p)
    /\ Edits \subseteq Policies \cup {Unreadable}
    /\ Hold \in Nat
    /\ MaxTime \in Nat

VARIABLES
    now, log, ckpt, oldCkpt, ledger, phase, bill, openPending,
    recorded, issued, released,     \* as in Journal
    policyFile, \* what refreshPolicy would read
    reserved,   \* budget held by queued approvals
    pending,    \* the approval queue
    agentQ,     \* withAgentLock, per agent: holder first
    walletQ,    \* withWalletLock
    sync,       \* the session in a section of file writes
    pc,         \* where each session is
    target,     \* the request an operator or the release pass works on
    verdict,    \* what a request's caller is to be told
    caller,     \* "open" while the caller's connection is
    inFlight,   \* when each output stops being committed
    nonces,     \* the same for the outputs claimed as nonces
    inputs,     \* history: [tx, of, at] of what was signed since the start
    chain       \* what became of each transaction

jvars == <<now, log, ckpt, oldCkpt, ledger, phase, bill, openPending,
           recorded, issued, released>>
lockvars == <<agentQ, walletQ, sync>>
holdvars == <<inFlight, nonces, inputs>>
vars == <<jvars, policyFile, reserved, pending, lockvars, pc, target, verdict,
          caller, holdvars, chain>>

J == INSTANCE Journal WITH Ids <- Requests, waiting <- {h.tx : h \in reserved}

On(s) == IF s \in Requests THEN s ELSE target[s]

AgentOf(s) == Q[On(s)].agent

Idle == phase = "idle" /\ sync = NoOne

HasAgentLock(s) == agentQ[AgentOf(s)] # << >> /\ Head(agentQ[AgentOf(s)]) = s

HasWalletLock(s) == walletQ # << >> /\ Head(walletQ) = s

Init ==
    /\ reserved = {}
    /\ J!Init
    /\ policyFile \in Policies
    /\ pending = {}
    /\ agentQ = [a \in Agents |-> << >>]
    /\ walletQ = << >>
    /\ sync = NoOne
    /\ pc = [s \in Sessions |-> IF s \in Requests THEN "new" ELSE "idle"]
    /\ target = [s \in Operators \cup {Releaser} |-> NoOne]
    /\ verdict = [r \in Requests |-> "none"]
    /\ caller = [r \in Requests |-> "open"]
    /\ inFlight = [u \in UTxOs |-> 0]
    /\ nonces = [u \in UTxOs |-> 0]
    /\ inputs = {}
    /\ chain = [r \in Requests |-> "open"]

-----------------------------------------------------------------------------
(***************************************************************************)
(* Locks.  A session that ends its turn wakes the one behind it.           *)
(***************************************************************************)
JoinAgent(s, a) == agentQ' = [agentQ EXCEPT ![a] = Append(@, s)]

LeaveAgent(s) == agentQ' = [agentQ EXCEPT ![AgentOf(s)] = Tail(@)]

(* An operator's call or a release that is over works on nothing. *)
Returns(s) == target' = [target EXCEPT ![s] = NoOne]

JoinWallet(s) == walletQ' = Append(walletQ, s)

(* Mutant: the turn is not passed on. *)
KeepWallet == UNCHANGED walletQ

LeaveWallet == walletQ' = Tail(walletQ)

(***************************************************************************)
(* The budget a request is judged against: everything spent and everything *)
(* held, except its own hold when it is being approved.                    *)
(***************************************************************************)
JudgedAgainst(s) ==
    ledger \cup {h \in reserved : s \in Requests \/ h.tx # On(s)}

DecideFor(s) ==
    IF policyFile = Unreadable THEN "deny"
    ELSE Decide(policyFile, JudgedAgainst(s), Q[On(s)], now)

HoldFor(r) ==
    [tx |-> r, kind |-> "held", agent |-> Q[r].agent, asset |-> Q[r].asset,
     amount |-> Q[r].amount, ts |-> now]

WithoutHold(r) == {h \in reserved : h.tx # r}

(* Mutant: the timer of a request already taken off the queue still closes it. *)
CloseAnyway(r, event) ==
    /\ pending' = pending \ {r}
    /\ reserved' = WithoutHold(r)
    /\ J!AuditClosed(r, event)
    /\ verdict' = [verdict EXCEPT ![r] = "refused"]

(* Mutant: the end of a queued request is not recorded. *)
CloseUnrecorded(r, event) ==
    /\ r \in pending
    /\ pending' = pending \ {r}
    /\ reserved' = WithoutHold(r)
    /\ UNCHANGED jvars
    /\ verdict' = [verdict EXCEPT ![r] = "refused"]

(***************************************************************************)
(* closePending: off the queue, budget back, record written, caller told.  *)
(***************************************************************************)
ClosePending(r, event) ==
    /\ r \in pending
    /\ pending' = pending \ {r}
    /\ reserved' = WithoutHold(r)
    /\ J!AuditClosed(r, event)
    /\ verdict' = [verdict EXCEPT ![r] = "refused"]

-----------------------------------------------------------------------------
(***************************************************************************)
(* POST /sign.                                                             *)
(***************************************************************************)
Arrive(r) ==
    /\ Idle
    /\ pc[r] = "new"
    /\ pc' = [pc EXCEPT ![r] = "agentLock"]
    /\ JoinAgent(r, Q[r].agent)
    /\ UNCHANGED <<jvars, policyFile, reserved, pending, walletQ, sync, target,
                   verdict, caller, holdvars, chain>>

Denied(r) ==
    /\ Idle
    /\ pc[r] = "agentLock"
    /\ HasAgentLock(r)
    /\ DecideFor(r) = "deny"
    /\ pc' = [pc EXCEPT ![r] = "settled"]
    /\ verdict' = [verdict EXCEPT ![r] = "refused"]
    /\ LeaveAgent(r)
    /\ UNCHANGED <<jvars, policyFile, reserved, pending, walletQ, sync, target,
                   caller, holdvars, chain>>

Allowed(r) ==
    /\ Idle
    /\ pc[r] = "agentLock"
    /\ HasAgentLock(r)
    /\ DecideFor(r) = "allow"
    /\ pc' = [pc EXCEPT ![r] = "walletLock"]
    /\ JoinWallet(r)
    /\ UNCHANGED <<jvars, policyFile, reserved, pending, agentQ, sync, target,
                   verdict, caller, holdvars, chain>>

(* Mutant: the close listener is attached after the event has fired. *)
StaysQueued(r) == NoOne

AfterEnqueue(r) == IF caller[r] = "open" THEN NoOne ELSE r

(***************************************************************************)
(* enqueue: a caller that has already left takes its request out again in  *)
(* the same section, once the record of it is written (Withdraw).          *)
(***************************************************************************)
Enqueue(r) ==
    /\ Idle
    /\ pc[r] = "agentLock"
    /\ HasAgentLock(r)
    /\ DecideFor(r) = "needs_approval"
    /\ reserved' = reserved \cup {HoldFor(r)}
    /\ J!AuditPending(r)
    /\ pending' = pending \cup {r}
    /\ pc' = [pc EXCEPT ![r] = "queued"]
    /\ sync' = AfterEnqueue(r)
    /\ LeaveAgent(r)
    /\ UNCHANGED <<policyFile, walletQ, target, verdict, caller, holdvars, chain>>

Withdraw(r) ==
    /\ sync = r
    /\ phase = "idle"
    /\ ClosePending(r, "pending_abandoned")
    /\ pc' = [pc EXCEPT ![r] = "settled"]
    /\ sync' = NoOne
    /\ UNCHANGED <<policyFile, agentQ, walletQ, target, caller, holdvars, chain>>

(***************************************************************************)
(* sign() refuses: the build failed, what was built is not what was        *)
(* authorised, its overhead is past a cap, or its inputs are committed.    *)
(* Nothing has been recorded.                                              *)
(***************************************************************************)
Refuse(s) ==
    /\ LeaveWallet
    /\ LeaveAgent(s)
    /\ verdict' = [verdict EXCEPT ![On(s)] = "refused"]
    /\ IF s \in Requests
       THEN /\ pc' = [pc EXCEPT ![s] = "settled"]
            /\ UNCHANGED <<jvars, reserved, target>>
       ELSE /\ pc' = [pc EXCEPT ![s] = "idle", ![On(s)] = "settled"]
            /\ reserved' = WithoutHold(On(s))
            /\ J!AuditClosed(On(s), "approval_sign_error")
            /\ Returns(s)
    /\ UNCHANGED <<policyFile, pending, sync, caller, holdvars, chain>>

BuildFails(s) ==
    /\ Idle
    /\ pc[s] = "walletLock"
    /\ HasWalletLock(s)
    /\ Refuse(s)

OverheadAllowed(s, overhead) ==
    /\ policyFile # Unreadable
    /\ AdmitsOverhead(policyFile, JudgedAgainst(s), Q[On(s)], overhead, now)

(* Mutant: inputs are spent whatever else is about to spend them. *)
FreeAnyway(of, nonce) == TRUE

Free(of, nonce) == /\ \A u \in of : inFlight[u] <= now
                   /\ nonces[nonce] <= now

BuildRefused(s) ==
    /\ Idle
    /\ pc[s] = "walletLock"
    /\ HasWalletLock(s)
    /\ \E overhead \in Overheads, of \in SUBSET UTxOs : \E nonce \in of :
          ~OverheadAllowed(s, overhead) \/ ~Free(of, nonce)
    /\ Refuse(s)

Claim(r, of, nonce) ==
    /\ inFlight' = [u \in UTxOs |-> IF u \in of THEN now + Hold ELSE inFlight[u]]
    /\ nonces' = [nonces EXCEPT ![nonce] = now + Hold]
    /\ inputs' = inputs \cup {[tx |-> r, of |-> of, at |-> now]}

Commit(s) ==
    /\ Idle
    /\ pc[s] = "walletLock"
    /\ HasWalletLock(s)
    /\ UNCHANGED reserved
    /\ \E overhead \in Overheads, of \in SUBSET UTxOs : \E nonce \in of :
          /\ OverheadAllowed(s, overhead)
          /\ Free(of, nonce)
          /\ Claim(On(s), of, nonce)
          /\ J!Push(Bill(On(s), overhead))
    /\ pc' = [pc EXCEPT ![s] = "recording"]
    /\ sync' = s
    /\ UNCHANGED <<policyFile, pending, agentQ, walletQ, target, verdict, caller, chain>>

Record ==
    /\ UNCHANGED reserved
    /\ J!AuditSigned
    /\ UNCHANGED <<policyFile, pending, lockvars, pc, target, verdict,
                   caller, holdvars, chain>>

(***************************************************************************)
(* The checkpoint ends the section: of a request, which has its answer; of *)
(* an approval, which still has to be closed; of a release.                *)
(***************************************************************************)
Signed(r) ==
    /\ sync = r
    /\ phase = "logged"
    /\ UNCHANGED reserved
    /\ J!WriteCheckpoint
    /\ sync' = NoOne
    /\ pc' = [pc EXCEPT ![r] = "settled"]
    /\ verdict' = [verdict EXCEPT ![r] = "signed"]
    /\ LeaveWallet
    /\ LeaveAgent(r)
    /\ UNCHANGED <<policyFile, pending, target, caller, holdvars, chain>>

Respond(r) ==
    /\ Idle
    /\ pc[r] = "settled"
    /\ pc' = [pc EXCEPT ![r] = IF caller[r] = "open" THEN "answered" ELSE "undelivered"]
    /\ UNCHANGED <<jvars, policyFile, reserved, pending, lockvars, target, verdict,
                   caller, holdvars, chain>>

CallerLeaves(r) ==
    /\ Idle
    /\ pc[r] \in {"agentLock", "walletLock", "queued", "settled"}
    /\ caller[r] = "open"
    /\ caller' = [caller EXCEPT ![r] = "gone"]
    /\ \/ /\ ClosePending(r, "pending_abandoned")
          /\ pc' = [pc EXCEPT ![r] = "settled"]
       \/ /\ r \notin pending
          /\ UNCHANGED <<jvars, reserved, pending, verdict, pc>>
    /\ UNCHANGED <<policyFile, lockvars, target, holdvars, chain>>

-----------------------------------------------------------------------------
(***************************************************************************)
(* The approval queue: its timers and the operator's /deny and /approve.   *)
(***************************************************************************)
ApprovalEnds(r, event) ==
    /\ Idle
    /\ ClosePending(r, event)
    /\ pc' = [pc EXCEPT ![r] = "settled"]
    /\ UNCHANGED <<policyFile, lockvars, target, caller, holdvars, chain>>

TimeOut(r) == ApprovalEnds(r, "approval_timeout")

Deny(r) == ApprovalEnds(r, "approval_denied")

Approve(o, r) ==
    /\ Idle
    /\ pc[o] = "idle"
    /\ r \in pending
    /\ target' = [target EXCEPT ![o] = r]
    /\ pc' = [pc EXCEPT ![o] = "agentLock"]
    /\ JoinAgent(o, Q[r].agent)
    /\ UNCHANGED <<jvars, policyFile, reserved, pending, walletQ, sync, verdict,
                   caller, holdvars, chain>>

(* Mutant: the queue is not looked at again under the lock. *)
FoundQueued(o) == TRUE

StillQueued(o) == target[o] \in pending

(***************************************************************************)
(* Under the lock: the request may be gone, or the policy now in force may *)
(* refuse it.  needs_approval is what the human is answering.              *)
(***************************************************************************)
ApproveGone(o) ==
    /\ Idle
    /\ pc[o] = "agentLock"
    /\ HasAgentLock(o)
    /\ ~StillQueued(o)
    /\ pc' = [pc EXCEPT ![o] = "idle"]
    /\ LeaveAgent(o)
    /\ Returns(o)
    /\ UNCHANGED <<jvars, policyFile, reserved, pending, walletQ, sync,
                   verdict, caller, holdvars, chain>>

ApproveStale(o) ==
    /\ Idle
    /\ pc[o] = "agentLock"
    /\ HasAgentLock(o)
    /\ StillQueued(o)
    /\ DecideFor(o) = "deny"
    /\ ClosePending(target[o], "approval_stale")
    /\ pc' = [pc EXCEPT ![o] = "idle", ![target[o]] = "settled"]
    /\ LeaveAgent(o)
    /\ Returns(o)
    /\ UNCHANGED <<policyFile, walletQ, sync, caller, holdvars, chain>>

ApproveTaken(o) ==
    /\ Idle
    /\ pc[o] = "agentLock"
    /\ HasAgentLock(o)
    /\ StillQueued(o)
    /\ DecideFor(o) # "deny"
    /\ pending' = pending \ {target[o]}
    /\ pc' = [pc EXCEPT ![o] = "walletLock"]
    /\ JoinWallet(o)
    /\ UNCHANGED <<jvars, policyFile, reserved, agentQ, sync, target, verdict,
                   caller, holdvars, chain>>

ApproveSigned(o) ==
    /\ sync = o
    /\ phase = "logged"
    /\ UNCHANGED reserved
    /\ J!WriteCheckpoint
    /\ sync' = NoOne
    /\ pc' = [pc EXCEPT ![o] = "approved"]
    /\ LeaveWallet
    /\ UNCHANGED <<policyFile, pending, agentQ, target, verdict, caller, holdvars, chain>>

ApproveDone(o) ==
    /\ Idle
    /\ pc[o] = "approved"
    /\ reserved' = WithoutHold(target[o])
    /\ J!AuditClosed(target[o], "approved")
    /\ pc' = [pc EXCEPT ![o] = "idle", ![target[o]] = "settled"]
    /\ verdict' = [verdict EXCEPT ![target[o]] = "signed"]
    /\ LeaveAgent(o)
    /\ Returns(o)
    /\ UNCHANGED <<policyFile, pending, walletQ, sync, caller, holdvars, chain>>

-----------------------------------------------------------------------------
(* Mutant: only payments are looked up, not the overhead left of one. *)
ChargedAsPayment(r) == \E s \in ledger : s.tx = r /\ s.kind = "payment"

Charged(r) == \E s \in ledger : s.tx = r

(***************************************************************************)
(* releaseExpired, one transaction of a pass at a time; what a provider    *)
(* may answer is the concern of expiry.ts, here it answers truly.          *)
(***************************************************************************)
FindExpired(r) ==
    /\ Idle
    /\ pc[Releaser] = "idle"
    /\ chain[r] = "expired"
    /\ Charged(r)
    /\ target' = [target EXCEPT ![Releaser] = r]
    /\ pc' = [pc EXCEPT ![Releaser] = "agentLock"]
    /\ JoinAgent(Releaser, Q[r].agent)
    /\ UNCHANGED <<jvars, policyFile, reserved, pending, walletQ, sync, verdict,
                   caller, holdvars, chain>>

Release ==
    /\ Idle
    /\ pc[Releaser] = "agentLock"
    /\ HasAgentLock(Releaser)
    /\ UNCHANGED reserved
    /\ J!AuditRelease(target[Releaser])
    /\ pc' = [pc EXCEPT ![Releaser] = "recording"]
    /\ sync' = Releaser
    /\ UNCHANGED <<policyFile, pending, agentQ, walletQ, target, verdict, caller,
                   holdvars, chain>>

ReleaseAgedOut ==
    /\ Idle
    /\ pc[Releaser] = "agentLock"
    /\ HasAgentLock(Releaser)
    /\ \A s \in ledger : s.tx # target[Releaser]
    /\ pc' = [pc EXCEPT ![Releaser] = "idle"]
    /\ LeaveAgent(Releaser)
    /\ Returns(Releaser)
    /\ UNCHANGED <<jvars, policyFile, reserved, pending, walletQ, sync,
                   verdict, caller, holdvars, chain>>

Released ==
    /\ sync = Releaser
    /\ phase = "logged"
    /\ UNCHANGED reserved
    /\ J!WriteCheckpoint
    /\ sync' = NoOne
    /\ pc' = [pc EXCEPT ![Releaser] = "idle"]
    /\ LeaveAgent(Releaser)
    /\ Returns(Releaser)
    /\ UNCHANGED <<policyFile, pending, walletQ, verdict, caller, holdvars, chain>>

-----------------------------------------------------------------------------
(***************************************************************************)
(* Crash and restart.  Callers of a daemon that died see their connection  *)
(* break; nothing in memory survives, the holds on inputs included.        *)
(***************************************************************************)
Crash ==
    /\ reserved' = {}
    /\ J!Crash
    /\ pending' = {}
    /\ agentQ' = [a \in Agents |-> << >>]
    /\ walletQ' = << >>
    /\ sync' = NoOne
    /\ pc' = [s \in Sessions |->
                IF s \notin Requests THEN "idle"
                ELSE IF pc[s] \in {"new", "answered", "undelivered"} THEN pc[s] ELSE "lost"]
    /\ target' = [s \in Operators \cup {Releaser} |-> NoOne]
    /\ inFlight' = [u \in UTxOs |-> 0]
    /\ nonces' = [u \in UTxOs |-> 0]
    /\ inputs' = {}
    /\ UNCHANGED <<policyFile, verdict, caller, chain>>

Restart ==
    /\ UNCHANGED reserved
    /\ J!Replay
    /\ UNCHANGED <<policyFile, pending, lockvars, pc, target, verdict, caller, holdvars, chain>>

FinishStart ==
    /\ phase = "starting"
    /\ UNCHANGED reserved
    /\ \/ \E r \in Requests : J!CloseAbandoned(r)
       \/ J!WriteCheckpoint
    /\ UNCHANGED <<policyFile, pending, lockvars, pc, target, verdict, caller, holdvars, chain>>

(***************************************************************************)
(* The world: the clock, the operator's editor, and the chain, on which a  *)
(* transaction handed out may land until its time to live has passed.  A   *)
(* section of writes takes milliseconds of a clock that counts in parts of *)
(* a day, so it reads one time.                                            *)
(***************************************************************************)
Tick ==
    /\ sync = NoOne
    /\ UNCHANGED reserved
    /\ J!Tick
    /\ UNCHANGED <<policyFile, pending, lockvars, pc, target, verdict,
                   caller, holdvars, chain>>

EditPolicy(p) ==
    /\ policyFile # p
    /\ policyFile' = p
    /\ UNCHANGED <<jvars, reserved, pending, lockvars, pc, target, verdict,
                   caller, holdvars, chain>>

Land(r) ==
    /\ pc[r] = "answered" /\ verdict[r] = "signed"
    /\ chain[r] = "open"
    /\ chain' = [chain EXCEPT ![r] = "landed"]
    /\ UNCHANGED <<jvars, policyFile, reserved, pending, lockvars, pc, target,
                   verdict, caller, holdvars>>

Expire(r) ==
    /\ \E e \in log : e.event = "signed" /\ e.of.tx = r
    /\ chain[r] = "open"
    /\ chain' = [chain EXCEPT ![r] = "expired"]
    /\ UNCHANGED <<jvars, policyFile, reserved, pending, lockvars, pc, target,
                   verdict, caller, holdvars>>

SignSteps(r) ==
    Arrive(r) \/ Denied(r) \/ Allowed(r) \/ Enqueue(r) \/ Withdraw(r)
        \/ Signed(r) \/ Respond(r)

BuildSteps(s) == BuildFails(s) \/ BuildRefused(s) \/ Commit(s)

ApproveSteps(o) ==
    ApproveGone(o) \/ ApproveStale(o) \/ ApproveTaken(o)
        \/ ApproveSigned(o) \/ ApproveDone(o)

QueueSteps(r) == CallerLeaves(r) \/ TimeOut(r) \/ Deny(r)

ReleaseSteps == Release \/ ReleaseAgedOut \/ Released

World(r) == Land(r) \/ Expire(r)

Next ==
    \/ \E r \in Requests : SignSteps(r) \/ QueueSteps(r) \/ FindExpired(r) \/ World(r)
    \/ \E s \in Requests \cup Operators : BuildSteps(s)
    \/ \E o \in Operators : ApproveSteps(o)
    \/ \E o \in Operators, r \in Requests : Approve(o, r)
    \/ Record
    \/ ReleaseSteps
    \/ Crash
    \/ Restart \/ FinishStart
    \/ Tick
    \/ \E p \in Edits : EditPolicy(p)

Spec == Init /\ [][Next]_vars

(***************************************************************************)
(* Promises resolve, builds end (each read has a timeout, a build at most  *)
(* two retries), the approval and release timers fire, a start completes.  *)
(* Nobody has to approve, and nothing has to restart a daemon that died.   *)
(***************************************************************************)
Answering(r) == Denied(r) \/ Allowed(r) \/ Enqueue(r) \/ Withdraw(r) \/ Signed(r) \/ Respond(r)

Fairness ==
    /\ \A r \in Requests : WF_vars(Answering(r)) /\ WF_vars(TimeOut(r)) /\ WF_vars(FindExpired(r))
    /\ \A s \in Requests \cup Operators : WF_vars(BuildSteps(s))
    /\ \A o \in Operators : WF_vars(ApproveSteps(o))
    /\ WF_vars(Record)
    /\ WF_vars(ReleaseSteps)
    /\ WF_vars(FinishStart)

FairSpec == Spec /\ Fairness

-----------------------------------------------------------------------------
(***************************************************************************)
(* What an agent has committed of an asset: signed in the rolling day, as  *)
(* long as it counts or can land or did, whether or not signerd still      *)
(* remembers it; or held for an approval that is not a spend yet.          *)
(***************************************************************************)
Signatures == ledger \cup {s \in issued : chain[s.tx] # "expired"}

Committed(agent, asset) ==
    LET signed == {s.tx : s \in Signatures}
    IN  SpentToday(Signatures \cup {h \in reserved : h.tx \notin signed}, agent, asset, now)

Capped(agent, asset) ==
    \A p \in Policies :
        agent \in DOMAIN p =>
            asset \in DOMAIN p[agent].perTxMax

(***************************************************************************)
(* No agent ever has more of an asset committed than the largest daily cap *)
(* any version of the policy gives it: not by requests racing each other,  *)
(* not by queueing approvals and having them all approved, not by fees on  *)
(* top, not by a crash, a release or the policy changing in between.       *)
(* (withAgentLock around decide and sign, reserved, decideOverhead.)       *)
(***************************************************************************)
CapHolds ==
    \A agent \in Agents, asset \in {Q[r].asset : r \in Requests} \cup {Lovelace} :
        Capped(agent, asset) =>
            \/ Committed(agent, asset) = 0
            \/ \E p \in Policies : /\ agent \in DOMAIN p
                                  /\ Committed(agent, asset) <= DailyCap(p[agent], asset)

(***************************************************************************)
(* Budget is held for exactly the requests in the queue and those an       *)
(* operator is having signed: no way out of the queue forgets to give it   *)
(* back, and none gives it back before the spend is recorded.  (reserved,  *)
(* closePending, the two ends of /approve.)                                *)
(***************************************************************************)
BeingApproved ==
    {target[o] : o \in {x \in Operators : pc[x] \in {"walletLock", "recording", "approved"}}}

HeldForTheQueue ==
    /\ {h.tx : h \in reserved} = pending \cup BeingApproved
    /\ pending \cap BeingApproved = {}
    /\ \A r \in pending \cup BeingApproved : pc[r] = "queued"

(***************************************************************************)
(* A request is signed by one session and once, whatever number of         *)
(* operators approve it at the same moment; and one that was turned down,  *)
(* timed out, went stale or failed has no transaction, then or later.      *)
(* (/approve takes it off the queue before signing, under the agent's      *)
(* lock.)                                                                  *)
(***************************************************************************)
SignedOnce ==
    /\ \A s1, s2 \in Requests \cup Operators :
          pc[s1] = "walletLock" =>
              /\ On(s1) \notin recorded
              /\ pc[s2] \in {"walletLock", "recording"} /\ s1 # s2 => On(s1) # On(s2)
    /\ \A e \in log :
          e.event \in {"approval_denied", "approval_timeout", "approval_stale",
                       "approval_sign_error"} => e.of \notin recorded

(***************************************************************************)
(* A caller that left while its request was queued is never signed for:    *)
(* only one that leaves after the operator's approval took the request off *)
(* the queue can miss its transaction.  (withdraw in enqueue.)             *)
(***************************************************************************)
NoneQueuedForTheGone ==
    sync = NoOne => \A r \in pending : caller[r] = "open"

(***************************************************************************)
(* Two transactions signed within a hold of each other spend no common     *)
(* output, so neither keeps the other from landing.  (inputBusy and        *)
(* claimNonce, checked and set with no await between them.)                *)
(***************************************************************************)
NoSharedInput ==
    \A i, j \in inputs :
        i # j /\ i.of \cap j.of # {} => i.at >= j.at + Hold \/ j.at >= i.at + Hold

(***************************************************************************)
(* Every request that arrives is answered, unless its caller leaves or the *)
(* daemon dies first: no lock, queue or approval keeps it for ever.        *)
(***************************************************************************)
EveryRequestIsAnswered ==
    \A r \in Requests :
        pc[r] = "agentLock" ~> pc[r] \in {"answered", "undelivered", "lost"}

(***************************************************************************)
(* A transaction whose time to live has passed stops costing its agent     *)
(* budget: payment and overhead both come back.                            *)
(***************************************************************************)
ExpiredIsReleased ==
    \A r \in Requests :
        chain[r] = "expired" /\ (\E s \in ledger : s.tx = r) ~> \A s \in ledger : s.tx # r

(***************************************************************************)
(* The files and the ledger behave as Journal says.                        *)
(***************************************************************************)
ImplementsJournal == J!Spec
=============================================================================
