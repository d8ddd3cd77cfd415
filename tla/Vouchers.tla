------------------------------ MODULE Vouchers ------------------------------
(***************************************************************************)
(* batch-settlement (src/src/signerd.ts): payment channels, the vouchers   *)
(* signed on them, and the channel index (src/src/channelStore.ts) that    *)
(* says whose a channel is and the most signerd has signed on it.  A       *)
(* voucher spends what it adds to that.                                    *)
(*                                                                         *)
(* The channel client (subbit-x402) is not part of the repository.  Its    *)
(* count of a channel follows what sellers answer through the agent's      *)
(* process, so it may be anything: a new channel's voucher is for the      *)
(* price, a later one for the price and more.  It builds a transaction     *)
(* only once the change of the last one is listed.                         *)
(*                                                                         *)
(* One asset, and one instant of the rolling day.  Locks are held or free: *)
(* KeyedLock shows their order.  A restart rebuilds the ledger from the    *)
(* records written, as Journal shows, and happens at once.  The index is   *)
(* renamed into place and not fsynced, like the checkpoint.                *)
(***************************************************************************)
EXTENDS PolicyRules

CONSTANTS
    Agents,
    Requests,   \* POST /batch/payload calls
    Q,          \* of each: [agent, terms, price]
    Channels,
    Asset,
    Policies,   \* what the policy file may hold: agent -> limits
    Deposits,   \* what an opening or a top-up may lock
    MaxSigned,  \* bound: the most a client asks for on a channel
    Losses,     \* of "kill", "powercut" and "records": what may happen to the daemon
    NoEntry, NoOne

(* A channel in the index. *)
Entries == [agent : Agents, signedMax : Nat, deposit : Nat, status : {"open", "closed"}]

(* parsePolicy, of channelDepositMax and channelLockedMax. *)
DepositsParse(p) == \A a \in DOMAIN p : p[a].depositMax \in Nat /\ p[a].lockedMax \in Nat

ASSUME VouchersAssumption ==
    /\ MaxSigned \in Nat
    /\ IsFiniteSet(Channels)
    /\ \A p \in Policies : Parses(p) /\ DepositsParse(p)
    /\ Deposits \subseteq Nat
    /\ Losses \subseteq {"kill", "powercut", "records"}
    /\ Agents \cap Requests = {}
    /\ NoOne \notin Agents \cup Requests
    /\ NoEntry \notin Entries
    /\ \A r \in Requests : Q[r].agent \in Agents /\ Q[r].price \in Nat \ {0}

VARIABLES
    index,      \* channel index: an entry of each channel, or NoEntry
    oldIndex,   \* the file before its last write
    log,        \* voucher_signed records
    ledger,     \* voucher spends in memory
    reserved,   \* budget held for queued vouchers
    pending,    \* vouchers waiting for an operator
    approved,   \* vouchers being made again for an approval
    policy,     \* the policy as last read
    agentLock, walletLock,
    sync,       \* the request between the index's write and the record
    pc,         \* the await a request is at
    ask,        \* what its client wants signed
    aux,        \* an agent's recovery, or its seller's answer, in progress
    handed,     \* history: the highest cumulative amount sellers hold signed
    chain,      \* what the chain will show of a channel; late: landed after a restart
    cut,        \* history: units whose recording a crash cut short
    intact      \* history: every file is as the daemon left it

files == <<index, oldIndex, log>>
budget == <<ledger, reserved, pending, approved>>
locks == <<agentLock, walletLock, sync>>
world == <<handed, chain>>
history == <<cut, intact>>
vars == <<files, budget, policy, locks, pc, ask, aux, world, history>>

Idle == sync = NoOne

At(r, place) == Idle /\ pc[r] = place

AgentFree(a) == agentLock[a] = NoOne

AgentOf(r) == Q[r].agent

Larger(m, n) == IF m > n THEN m ELSE n

NotOnChain == [state |-> "none", amount |-> 0, flying |-> 0, awaited |-> FALSE, late |-> 0]

NoAsk ==
    [kind |-> "none", ch |-> NoOne, upTo |-> 0, deposit |-> 0, locked |-> 0,
     entry |-> NoEntry, policy |-> NoEntry]

Resting == [doing |-> "nothing", ch |-> NoOne, entry |-> NoEntry]

Init ==
    /\ index = [ch \in Channels |-> NoEntry]
    /\ oldIndex = index
    /\ log = {} /\ ledger = {} /\ reserved = {}
    /\ pending = {} /\ approved = {}
    /\ policy \in Policies
    /\ agentLock = [a \in Agents |-> NoOne]
    /\ walletLock = NoOne
    /\ sync = NoOne
    /\ pc = [r \in Requests |-> "new"]
    /\ ask = [r \in Requests |-> NoAsk]
    /\ aux = [a \in Agents |-> Resting]
    /\ handed = [ch \in Channels |-> 0]
    /\ chain = [ch \in Channels |-> NotOnChain]
    /\ cut = {}
    /\ intact = TRUE

-----------------------------------------------------------------------------
(***************************************************************************)
(* A voucher's increment, the spend it becomes, and the hold of a queued   *)
(* one.  increment is 0 at or below what was signed before.                *)
(***************************************************************************)
(* Mutant: the whole voucher is a spend, not what it adds. *)
WholeAmount(k) == IF k.upTo > k.entry.signedMax THEN k.upTo ELSE 0

Increment(k) == IF k.upTo > k.entry.signedMax THEN k.upTo - k.entry.signedMax ELSE 0

VoucherSpend(r, k) ==
    [tx |-> Cardinality(log), kind |-> "voucher", agent |-> AgentOf(r), asset |-> Asset,
     amount |-> Increment(k), ts |-> 0, ch |-> k.ch, upTo |-> k.upTo,
     approval |-> IF r \in approved THEN r ELSE NoOne]

Hold(r, k) ==
    [tx |-> r, kind |-> "voucher", agent |-> AgentOf(r), asset |-> Asset,
     amount |-> Increment(k), ts |-> 0]

WithoutHold(r) == {h \in reserved : h.tx # r}

(* Mutant: a voucher is judged beside no hold. *)
LedgerAlone(r) == ledger

(* effectiveLedger, or ledgerExcluding for a voucher made for an approval. *)
LedgerFor(r) == ledger \cup IF r \in approved THEN WithoutHold(r) ELSE reserved

Decision(r, k) ==
    Decide(policy, LedgerFor(r),
           [agent |-> AgentOf(r), asset |-> Asset, amount |-> Increment(k),
            terms |-> Q[r].terms, batch |-> TRUE],
           0)

(* Whether the increment is the one the human was shown. *)
AsShown(r, k) == \E h \in reserved : h.tx = r /\ h.amount = Increment(k)

(***************************************************************************)
(* The end of a run of the client: both locks are let go, and an approval  *)
(* that was being signed gives its hold back.                              *)
(***************************************************************************)
ReleaseLocks(r) ==
    /\ agentLock' = [agentLock EXCEPT ![AgentOf(r)] = NoOne]
    /\ walletLock' = IF walletLock = r THEN NoOne ELSE walletLock
    /\ sync' = NoOne

(* Mutant: an approval that ends without a voucher keeps its hold. *)
FinishHolding(r, place) ==
    /\ ReleaseLocks(r)
    /\ pc' = [pc EXCEPT ![r] = place]
    /\ ask' = [ask EXCEPT ![r] = NoAsk]
    /\ approved' = approved \ {r}
    /\ UNCHANGED <<ledger, reserved, pending, policy, aux, history>>

Finish(r, place) ==
    /\ ReleaseLocks(r)
    /\ pc' = [pc EXCEPT ![r] = place]
    /\ ask' = [ask EXCEPT ![r] = NoAsk]
    /\ reserved' = IF r \in approved THEN WithoutHold(r) ELSE reserved
    /\ approved' = approved \ {r}
    /\ UNCHANGED <<ledger, pending, policy, aux, history>>

Refuse(r) == Finish(r, "refused") /\ UNCHANGED <<files, world>>

(***************************************************************************)
(* commitVoucher, its five ends.  The index is written first, then the     *)
(* ledger and the record; no await comes between, only a crash can.        *)
(***************************************************************************)
Resign(r, k) ==
    /\ Increment(k) = 0
    /\ pc' = [pc EXCEPT ![r] = "authorized"]
    /\ ask' = [ask EXCEPT ![r] = k]
    /\ UNCHANGED <<files, budget, policy, locks, aux, world, history>>

Deny(r, k) ==
    /\ Increment(k) > 0
    /\ \/ Decision(r, k) = "deny"
       \/ Decision(r, k) = "needs_approval" /\ r \in approved /\ ~AsShown(r, k)
    /\ Refuse(r)

Queue(r, k) ==
    /\ Increment(k) > 0
    /\ Decision(r, k) = "needs_approval" /\ r \notin approved
    /\ reserved' = reserved \cup {Hold(r, k)}
    /\ pending' = pending \cup {r}
    /\ pc' = [pc EXCEPT ![r] = "queued"]
    /\ ask' = [ask EXCEPT ![r] = NoAsk]
    /\ ReleaseLocks(r)
    /\ UNCHANGED <<files, ledger, approved, policy, aux, world, history>>

(* Mutant: the increment is stored instead of the cumulative amount. *)
EnteredIncrement(e, k) == [e EXCEPT !.signedMax = Increment(k)]

Entered(e, k) == [e EXCEPT !.signedMax = k.upTo]

Store(r, k) ==
    /\ Increment(k) > 0
    /\ \/ Decision(r, k) = "allow"
       \/ Decision(r, k) = "needs_approval" /\ r \in approved /\ AsShown(r, k)
    /\ index' = [index EXCEPT ![k.ch] = Entered(k.entry, k)]
    /\ oldIndex' = index
    /\ ledger' = ledger \cup {VoucherSpend(r, k)}
    /\ sync' = r
    /\ pc' = [pc EXCEPT ![r] = "indexed"]
    /\ ask' = [ask EXCEPT ![r] = k]
    /\ UNCHANGED <<log, reserved, pending, approved, policy, agentLock, walletLock, aux, world, history>>

CommitVoucher(r, k) == Resign(r, k) \/ Deny(r, k) \/ Queue(r, k) \/ Store(r, k)

Audit(r) ==
    /\ sync = r
    /\ log' = log \cup {VoucherSpend(r, ask[r])}
    /\ sync' = NoOne
    /\ pc' = [pc EXCEPT ![r] = "authorized"]
    /\ UNCHANGED <<index, oldIndex, budget, policy, agentLock, walletLock, ask, aux, world, history>>

-----------------------------------------------------------------------------
(***************************************************************************)
(* A call of /batch/payload: the agent's lock, the policy, the wallet's    *)
(* lock, the client.  The policy file may hold anything when it is read.   *)
(***************************************************************************)
Begin(r) ==
    /\ At(r, "new")
    /\ AgentFree(AgentOf(r))
    /\ agentLock' = [agentLock EXCEPT ![AgentOf(r)] = r]
    /\ policy' \in Policies
    /\ pc' = [pc EXCEPT ![r] = "walletLock"]
    /\ UNCHANGED <<files, budget, walletLock, sync, ask, aux, world, history>>

Unreadable(r) == At(r, "walletLock") /\ Refuse(r)

Enter(r) ==
    /\ At(r, "walletLock")
    /\ walletLock = NoOne
    /\ walletLock' = r
    /\ pc' = [pc EXCEPT ![r] = "client"]
    /\ UNCHANGED <<files, budget, policy, agentLock, sync, ask, aux, world, history>>

(* The client gives up: a provider error, a busy channel, too few funds. *)
ClientFails(r) ==
    /\ At(r, "client") \/ At(r, "reading") \/ At(r, "deciding")
    /\ Refuse(r)

(* authorizeChannel reads the entry, and refuses another agent's channel. *)
Authorizes(r, ch) == index[ch] # NoEntry /\ index[ch].agent = AgentOf(r)

Wants(kind, ch, upTo, deposit, entry) ==
    [kind |-> kind, ch |-> ch, upTo |-> upTo, deposit |-> deposit, locked |-> 0,
     entry |-> entry, policy |-> policy]

AskVoucher(r, ch, upTo) ==
    /\ At(r, "client")
    /\ chain[ch] # NotOnChain
    /\ upTo >= Q[r].price
    /\ IF Authorizes(r, ch) THEN CommitVoucher(r, Wants("voucher", ch, upTo, 0, index[ch]))
                            ELSE Refuse(r)

(* The client builds only once what its own transactions paid back is listed. *)
NothingAwaited == \A ch \in Channels : ~chain[ch].awaited

Untouched(ch) ==
    /\ index[ch] = NoEntry /\ oldIndex[ch] = NoEntry
    /\ chain[ch] = NotOnChain /\ handed[ch] = 0

NewEntry(r, deposit) ==
    [agent |-> AgentOf(r), signedMax |-> 0, deposit |-> deposit, status |-> "open"]

Consider(r, k) ==
    /\ ask' = [ask EXCEPT ![r] = k]
    /\ pc' = [pc EXCEPT ![r] = "reading"]
    /\ UNCHANGED <<files, budget, policy, locks, aux, world, history>>

AskOpen(r, ch, deposit) ==
    /\ At(r, "client")
    /\ NothingAwaited
    /\ Untouched(ch)
    /\ Consider(r, Wants("open", ch, Q[r].price, deposit, NewEntry(r, deposit)))

AskTopUp(r, ch, upTo, deposit) ==
    /\ At(r, "client")
    /\ NothingAwaited
    /\ chain[ch].state = "landed" /\ chain[ch].flying = 0
    /\ upTo >= Q[r].price /\ upTo > chain[ch].amount
    /\ IF Authorizes(r, ch) THEN Consider(r, Wants("topUp", ch, upTo, deposit, index[ch]))
                            ELSE Refuse(r)

(***************************************************************************)
(* lockedBy: what the agent's open channels hold on the chain, and what an *)
(* opening not there yet will lock.  A channel spent, or an opening given  *)
(* up, is marked closed.                                                   *)
(***************************************************************************)
OpenChannels(a) ==
    {ch \in Channels : index[ch] # NoEntry /\ index[ch].agent = a /\ index[ch].status = "open"}

(* Mutant: what the opening locked, whatever came after it. *)
HoldsOpening(ch) == index[ch].deposit

Holds(ch) ==
    CASE chain[ch].state = "landed" -> chain[ch].amount
      [] chain[ch].state = "none"   -> index[ch].deposit
      [] OTHER                      -> 0

LockedBy(a) == Cardinality(UNION {{ch} \X (1 .. Holds(ch)) : ch \in OpenChannels(a)})

ReadLocked(r) ==
    /\ At(r, "reading")
    /\ ask' = [ask EXCEPT ![r].locked = LockedBy(AgentOf(r))]
    /\ LET over == {ch \in OpenChannels(AgentOf(r)) : chain[ch].state = "gone"}
       IN  /\ index' = [ch \in Channels |-> IF ch \in over THEN [index[ch] EXCEPT !.status = "closed"]
                                                          ELSE index[ch]]
           /\ oldIndex' = IF over = {} THEN oldIndex ELSE index
    /\ pc' = [pc EXCEPT ![r] = "deciding"]
    /\ UNCHANGED <<log, budget, policy, locks, aux, world, history>>

(* decideDeposit. *)
AdmitsDeposit(p, a, k) ==
    /\ a \in DOMAIN p
    /\ k.deposit <= p[a].depositMax
    /\ k.locked + k.deposit <= p[a].lockedMax

(* The policy is the one read before lockedBy was awaited: it is the first argument. *)
Fund(r) ==
    /\ At(r, "deciding")
    /\ IF AdmitsDeposit(ask[r].policy, AgentOf(r), ask[r]) THEN CommitVoucher(r, ask[r])
                                                         ELSE Refuse(r)

(***************************************************************************)
(* The payload leaves, and with it the channel step it carries, or finds   *)
(* nobody to go to.                                                        *)
(***************************************************************************)
HandOver(r) ==
    /\ At(r, "authorized")
    /\ handed' = [handed EXCEPT ![ask[r].ch] = Larger(@, ask[r].upTo)]
    /\ chain' = IF ask[r].kind = "voucher" THEN chain
                ELSE [chain EXCEPT ![ask[r].ch].flying = @ + ask[r].deposit,
                                   ![ask[r].ch].awaited = TRUE]
    /\ Finish(r, "paid")
    /\ UNCHANGED files

Undelivered(r) ==
    /\ At(r, "authorized")
    /\ Finish(r, "undelivered")
    /\ UNCHANGED <<files, world>>

-----------------------------------------------------------------------------
(***************************************************************************)
(* The approval queue: approveVoucher runs the client again with the       *)
(* approval in hand; everything else takes the request off the queue.      *)
(***************************************************************************)
Approve(r) ==
    /\ Idle
    /\ r \in pending
    /\ AgentFree(AgentOf(r))
    /\ agentLock' = [agentLock EXCEPT ![AgentOf(r)] = r]
    /\ pending' = pending \ {r}
    /\ approved' = approved \cup {r}
    /\ policy' \in Policies
    /\ pc' = [pc EXCEPT ![r] = "walletLock"]
    /\ UNCHANGED <<files, ledger, reserved, walletLock, sync, ask, aux, world, history>>

Unqueue(r) ==
    /\ Idle
    /\ r \in pending
    /\ pending' = pending \ {r}
    /\ reserved' = WithoutHold(r)
    /\ pc' = [pc EXCEPT ![r] = "refused"]
    /\ UNCHANGED <<files, ledger, approved, policy, locks, ask, aux, world, history>>

-----------------------------------------------------------------------------
(***************************************************************************)
(* recover, under the agent's lock: each channel of this wallet's key that *)
(* the index does not have is followed on the chain, and then stored, with *)
(* what the seller has redeemed as the least that was signed.              *)
(***************************************************************************)
Turn(a, to) == aux' = [aux EXCEPT ![a] = to]

Recover(a) ==
    /\ Idle
    /\ AgentFree(a)
    /\ agentLock' = [agentLock EXCEPT ![a] = a]
    /\ Turn(a, [Resting EXCEPT !.doing = "recovering"])
    /\ UNCHANGED <<files, budget, policy, walletLock, sync, pc, ask, world, history>>

Unowned(ch) == index[ch] = NoEntry

Follow(a, ch) ==
    /\ Idle
    /\ aux[a].doing = "recovering"
    /\ Unowned(ch)
    /\ chain[ch].state = "landed"
    /\ Turn(a, [Resting EXCEPT !.doing = "following", !.ch = ch])
    /\ UNCHANGED <<files, budget, policy, locks, pc, ask, world, history>>

(* Mutant: everything a channel can hold is taken as signed. *)
RecoveredInFull(a, subbed) ==
    [agent |-> a, signedMax |-> MaxSigned, deposit |-> 0, status |-> "open"]

Recovered(a, subbed) ==
    [agent |-> a, signedMax |-> subbed, deposit |-> 0, status |-> "open"]

StoreRecovered(a, subbed) ==
    /\ Idle
    /\ aux[a].doing = "following"
    /\ chain[aux[a].ch].state = "landed"
    /\ subbed <= handed[aux[a].ch]
    /\ index' = [index EXCEPT ![aux[a].ch] = Recovered(a, subbed)]
    /\ oldIndex' = index
    /\ Turn(a, [Resting EXCEPT !.doing = "recovering"])
    /\ UNCHANGED <<log, budget, policy, locks, pc, ask, world, history>>

FoundClosed(a) ==
    /\ Idle
    /\ aux[a].doing = "following"
    /\ chain[aux[a].ch].state = "gone"
    /\ Turn(a, [Resting EXCEPT !.doing = "recovering"])
    /\ UNCHANGED <<files, budget, policy, locks, pc, ask, world, history>>

(***************************************************************************)
(* /batch/response: after a corrective 402 the client adopts a count the   *)
(* seller shows a voucher for, and liftSignedMax tells the index.          *)
(***************************************************************************)
ReadForLift(a, ch) ==
    /\ Idle
    /\ AgentFree(a)
    /\ index[ch] # NoEntry
    /\ agentLock' = [agentLock EXCEPT ![a] = a]
    /\ Turn(a, [doing |-> "lifting", ch |-> ch, entry |-> index[ch]])
    /\ UNCHANGED <<files, budget, policy, walletLock, sync, pc, ask, world, history>>

Lifts(a, count) == aux[a].entry.agent = a /\ count > aux[a].entry.signedMax

Lift(a, count) ==
    /\ Idle
    /\ aux[a].doing = "lifting"
    /\ Lifts(a, count)
    /\ count <= handed[aux[a].ch]
    /\ index' = [index EXCEPT ![aux[a].ch] = [aux[a].entry EXCEPT !.signedMax = count]]
    /\ oldIndex' = index
    /\ Turn(a, Resting)
    /\ agentLock' = [agentLock EXCEPT ![a] = NoOne]
    /\ UNCHANGED <<log, budget, policy, walletLock, sync, pc, ask, world, history>>

(* A recovery's last channel, or an answer that lifts nothing. *)
EndAux(a) ==
    /\ Idle
    /\ aux[a].doing \in {"recovering", "lifting"}
    /\ Turn(a, Resting)
    /\ agentLock' = [agentLock EXCEPT ![a] = NoOne]
    /\ UNCHANGED <<files, budget, policy, walletLock, sync, pc, ask, world, history>>

(***************************************************************************)
(* A refund's voucher is for the seller's count, at most what was signed.  *)
(***************************************************************************)
(* Mutant: the seller's count is signed as it is. *)
RefundableAsAsked(ch, amount) == index[ch].signedMax > 0

Refundable(ch, amount) == amount <= index[ch].signedMax

Refund(ch, amount) ==
    /\ Idle
    /\ index[ch] # NoEntry
    /\ AgentFree(index[ch].agent) /\ walletLock = NoOne
    /\ chain[ch].state = "landed"
    /\ Refundable(ch, amount)
    /\ handed' = [handed EXCEPT ![ch] = Larger(@, amount)]
    /\ UNCHANGED <<files, budget, policy, locks, pc, ask, aux, chain, history>>

-----------------------------------------------------------------------------
(***************************************************************************)
(* The chain: a step handed over lands, or its inputs go elsewhere; a      *)
(* channel is closed out by a refund or an exit.                           *)
(***************************************************************************)
Land(ch) ==
    /\ Idle
    /\ chain[ch].flying > 0
    /\ chain' = [chain EXCEPT ![ch] = [state |-> "landed", amount |-> @.amount + @.flying,
                                       flying |-> 0, awaited |-> FALSE,
                                       late |-> IF @.awaited THEN @.late ELSE @.late + @.flying]]
    /\ UNCHANGED <<files, budget, policy, locks, pc, ask, aux, handed, history>>

Drop(ch) ==
    /\ Idle
    /\ chain[ch].flying > 0
    /\ chain' = [chain EXCEPT ![ch] = [state |-> IF @.state = "none" THEN "gone" ELSE @.state,
                                       amount |-> @.amount, flying |-> 0, awaited |-> FALSE,
                                       late |-> @.late]]
    /\ UNCHANGED <<files, budget, policy, locks, pc, ask, aux, handed, history>>

CloseOut(ch) ==
    /\ Idle
    /\ chain[ch].state = "landed"
    /\ chain' = [chain EXCEPT ![ch] = [NotOnChain EXCEPT !.state = "gone"]]
    /\ UNCHANGED <<files, budget, policy, locks, pc, ask, aux, handed, history>>

(***************************************************************************)
(* The daemon dies and starts again.  A power cut may bring back the index *)
(* before the last write; its data directory may be lost.                  *)
(***************************************************************************)
UnitsOfVoucher(s) == {s.ch} \X (s.upTo - s.amount + 1 .. s.upTo)

CutShort == UNION {UnitsOfVoucher(VoucherSpend(r, ask[r])) : r \in {x \in Requests : sync = x}}

Ongoing == {"walletLock", "client", "reading", "deciding", "indexed", "authorized", "queued"}

SurvivingIndexes ==
    {index} \cup (IF "powercut" \in Losses THEN {oldIndex} ELSE {})
            \cup (IF "records" \in Losses THEN {[ch \in Channels |-> NoEntry]} ELSE {})

Crash ==
    /\ Losses # {}
    /\ index' \in SurvivingIndexes
    /\ oldIndex' = index'
    /\ ledger' = log
    /\ reserved' = {} /\ pending' = {} /\ approved' = {}
    /\ agentLock' = [a \in Agents |-> NoOne]
    /\ walletLock' = NoOne
    /\ sync' = NoOne
    /\ pc' = [r \in Requests |-> IF pc[r] \in Ongoing THEN "lost" ELSE pc[r]]
    /\ ask' = [r \in Requests |-> NoAsk]
    /\ aux' = [a \in Agents |-> Resting]
    /\ chain' = [ch \in Channels |-> [chain[ch] EXCEPT !.awaited = FALSE]]
    /\ cut' = cut \cup CutShort
    /\ intact' = (intact /\ index' = index)
    /\ UNCHANGED <<log, policy, handed>>

Counts == 1 .. MaxSigned

PayloadSteps(r) ==
    Begin(r) \/ Unreadable(r) \/ Enter(r) \/ ClientFails(r) \/ ReadLocked(r)
        \/ Fund(r) \/ Audit(r) \/ HandOver(r) \/ Undelivered(r)

ClientAsks(r, ch) ==
    \/ \E n \in Counts : AskVoucher(r, ch, n)
    \/ \E d \in Deposits : AskOpen(r, ch, d)
    \/ \E n \in Counts, d \in Deposits : AskTopUp(r, ch, n, d)

IndexSteps(a) ==
    \/ Recover(a) \/ FoundClosed(a) \/ EndAux(a)
    \/ \E ch \in Channels : Follow(a, ch) \/ ReadForLift(a, ch)
    \/ \E n \in 0 .. MaxSigned : StoreRecovered(a, n) \/ Lift(a, n)

ChainSteps(ch) == Land(ch) \/ Drop(ch) \/ CloseOut(ch)

Next ==
    \/ \E r \in Requests : PayloadSteps(r) \/ Approve(r) \/ Unqueue(r)
    \/ \E r \in Requests, ch \in Channels : ClientAsks(r, ch)
    \/ \E a \in Agents : IndexSteps(a)
    \/ \E ch \in Channels, n \in Counts : Refund(ch, n)
    \/ \E ch \in Channels : ChainSteps(ch)
    \/ Crash

Spec == Init /\ [][Next]_vars

-----------------------------------------------------------------------------
Redeemable == UNION {{ch} \X (1 .. handed[ch]) : ch \in Channels}

Counted == UNION {UnitsOfVoucher(s) : s \in log}

(***************************************************************************)
(* Every unit a seller can redeem was counted as a spend, whatever sellers *)
(* answer and whatever becomes of the records, but for those whose         *)
(* recording a crash cut short.  (commitVoucher, liftSignedMax, recover,   *)
(* refund.)                                                                *)
(***************************************************************************)
RedeemableIsCounted == Redeemable \subseteq Counted \cup cut

(***************************************************************************)
(* "every amount the seller can redeem has been counted" (DESIGN-batch-    *)
(* settlement.md), and commitVoucher's "a crash in between counts a spend  *)
(* that did not happen, never the reverse".                                *)
(***************************************************************************)
EveryAmountIsCounted == Redeemable \subseteq Counted

(***************************************************************************)
(* No unit of a channel is counted twice: retries, re-signed vouchers,     *)
(* corrected counts, approvals and kills cost an agent its budget once.    *)
(* (increment over signedMax in commitVoucher.)                            *)
(***************************************************************************)
NoUnitIsCountedTwice ==
    intact => \A s1, s2 \in log : s1 # s2 => UnitsOfVoucher(s1) \cap UnitsOfVoucher(s2) = {}

(***************************************************************************)
(* While no file is lost, the index knows of every channel a seller holds  *)
(* a voucher on, and at least as much as the highest: what a refund may    *)
(* pay is never below what the seller can show.                            *)
(***************************************************************************)
IndexKnowsTheMost ==
    intact =>
        \A ch \in Channels :
            handed[ch] > 0 => index[ch] # NoEntry /\ handed[ch] <= index[ch].signedMax

(***************************************************************************)
(* What an agent's vouchers have spent and its queued ones hold, the       *)
(* latter once, stays within the largest daily cap of any policy, however  *)
(* requests, approvals and crashes interleave.                             *)
(***************************************************************************)
Recorded(r) == \E s \in ledger : s.approval = r

VouchersWithinCap ==
    \A a \in Agents :
        LET spent == SpentToday(ledger \cup {h \in reserved : ~Recorded(h.tx)}, a, Asset, 0)
        IN  spent = 0 \/ \E p \in Policies : a \in DOMAIN p /\ spent <= DailyCap(p[a], Asset)

(***************************************************************************)
(* Budget is held for exactly the vouchers in the queue and those being    *)
(* made for an approval, whichever way each of them ends.                  *)
(***************************************************************************)
VoucherHoldsMatch ==
    /\ {h.tx : h \in reserved} = pending \cup approved
    /\ pending \cap approved = {}

(***************************************************************************)
(* What an agent's channels hold, once what was handed over has landed, is *)
(* within its channelLockedMax ("the most this agent's open channels may   *)
(* hold together", DESIGN-batch-settlement.md), but for steps handed over  *)
(* before a restart, for which nothing makes the daemon wait, and for what *)
(* an index that was lost had noted.                                       *)
(***************************************************************************)
LockedInOneRun(ch) ==
    (chain[ch].amount - chain[ch].late) + IF chain[ch].awaited THEN chain[ch].flying ELSE 0

LockedNow(a) == Cardinality(UNION {{ch} \X (1 .. LockedInOneRun(ch)) : ch \in OpenChannels(a)})

LockedWithinLimit ==
    intact =>
        \A a \in Agents :
            LockedNow(a) = 0 \/ \E p \in Policies : a \in DOMAIN p /\ LockedNow(a) <= p[a].lockedMax

(***************************************************************************)
(* A channel the index gives to one agent is not taken over by another:    *)
(* "a channel the index gives to another agent is closed in this agent's   *)
(* records for good".  (recover.)                                          *)
(***************************************************************************)
ChannelStaysItsOwners ==
    [][\A ch \in Channels : index[ch] # NoEntry /\ index'[ch] # NoEntry
                                => index'[ch].agent = index[ch].agent]_vars
=============================================================================
