# A verification of ada-agent-wallet

TLA+ models of the wallet's signing daemon, the TLC runs that check them on small instances, and
TLAPS proofs of what matters most for instances of any size. Paths below are relative to the
repository; `signerd.ts:860` is line 860 of `src/signerd.ts`.

- [The system](#the-system): its parts, their state, how they interact, what is hard about them
- [The modules](#the-modules): which models what, and how state and actions map to the code
- [The runs](#the-runs): the question each asks, its bounds, the fairness assumed
- [What disagrees](#what-disagrees): where the code does not do what its comments say
- [The proofs](#the-proofs): what is proved, from what, and how
- [What is not modelled](#what-is-not-modelled)
- [The plan](#the-plan)

How to run, from this directory:

    tlc -workers 2 -config MCJournal.cfg MCJournal
    tlapm Journal_proofs.tla

## The system

An AI agent may pay for HTTP resources and paid tools (the x402 protocol), but holds no key. The
key is in a separate daemon, *signerd*, which decides what may be spent, asks a human when a policy
says so, builds and signs the transaction, and keeps a record of it that survives a crash. What the
wallet promises is about this daemon: no agent spends more than the policy file allows, and the
record of what it spent is neither lost nor inflated, whatever interleaves with what.

| component | source | state | operations |
| --- | --- | --- | --- |
| policy rules | `src/policy.ts` | none | `decide`, `decideOverhead`, `decideDeposit`, `remaining`, `parsePolicy`, `resourceMatches` |
| locks | `src/serialize.ts` | one promise chain per key | `createKeyedLock` (per agent), `createLock` (the wallet) |
| ledger and its files | `src/signerd.ts`, `src/replay.ts` | ledger in memory; audit log; checkpoint file | record a spend, release one, checkpoint, replay at start, rotate the log |
| payment path | `src/signerd.ts` | `reserved`, `inFlight`, `nonces` | `POST /sign`: decide, build, verify, record, answer |
| approval queue | `src/signerd.ts` | `pending`, its timers and listeners | enqueue, `/approve`, `/deny`, time out, withdraw, close at start |
| expiry | `src/expiry.ts`, `releaseExpired` | `settledTxs`, the batch's round | which handed-out transactions can no longer land; give their budget back |
| channels and vouchers | `src/signerd.ts`, `src/channelStore.ts` | channel index on disk, `channelBusy` | open, top up, voucher, recover, refund, exit |
| transaction checks | `src/verifyTx.ts`, `src/channelTx.ts` | none | does a built transaction do what was authorised |
| tidy | `src/tidy.ts`, `src/signerd.ts` | last attempt, in-flight inputs | rearrange the wallet's outputs, on request or by a timer |
| provider retries | `src/retry.ts` | none | which failures to try again, and how often |
| policy file cache | `refreshPolicy` in `src/signerd.ts` | cached policy, its mtime | stat the file before a decision, read it if it changed |
| authentication | `src/signerd.ts` | agents' tokens by hash | who a bearer token is, what it may call, whom it may pay for |
| start | `src/signerd.ts`, `src/hardening.ts` | stages, notes on file modes | check settings and modes, open the key, read policy, log, checkpoint and channels, listen |
| preflight | `src/signerd.ts` | cached balance | grade the whole configuration, for the network it runs on |
| keystore | `src/keystore.ts`, `src/keystoreCli.ts` | the sealed mnemonic on disk | create, verify, decrypt at start |
| shutdown | `src/signerd.ts` | `shuttingDown` | drain the queue, let the last signature finish, exit |
| agent side | `src/mcp.ts`, `src/gatedSigner.ts`, `src/batchProxy.ts`, `src/receipt.ts`, `src/redirects.ts` | a `CallContext` per tool call | tools and adapters that forward a 402 to signerd over loopback HTTP and report what became of it |
| operator side | `src/walletctl.ts` | none | prints status, sends `/approve`, `/deny` and the rest |
| tables | `src/network.ts`, `src/assets.ts` | none | names of networks and assets |

**How they interact.** signerd runs one thread. A `/sign` request waits for its agent's lock, is
judged by `decide` against the ledger and the budget held by queued approvals, and is refused,
queued, or goes on to `sign()`, which waits for the wallet's lock, builds (asking the chain
provider), reads the built transaction back, judges its overhead, and then, with no await between
them, commits its inputs, pushes its spends on the ledger, writes the audit record and the
checkpoint, and answers. `/approve` takes the agent's lock and goes the same way. A timer asks the
chain which handed-out transactions have expired and gives their spends back, under the agent's
lock. A start replays log and checkpoint into a ledger and closes the approvals a previous run left
open. A voucher goes a third way: the channel client runs inside signerd and calls back for a
signature, which raises what the channel index says was signed and spends the difference.

On the other side, an MCP server gives an agent two tools that pay. A call asks signerd what the agent
may use, requests the URL, has signerd sign for a 402 it meets, pays, and reads the seller's settlement;
calls run at the same time in one process and share the signer callbacks, which find their call in an
`AsyncLocalStorage`.

**What is hard.**

- *Interleaving at awaits.* Every `await` is a point where another request, an operator, a timer or
  a closing connection may run. A cap is safe only because decide and record happen under one lock,
  and an approval only because it is looked up again once the lock is held.
- *Crashes between writes.* A recording is a push in memory, a line in the log and a file renamed
  into place. A SIGKILL can fall between any two; a power cut can also undo the rename.
- *Two spends, one transaction.* A payment and the fee and min-UTxO ADA beside it are separate spends
  with the same hash, released by one record each. Replay has to match them up again.
- *Boundaries of the rolling day.* Three comparisons in two files decide when a spend a day old stops
  counting.
- *Two files for one fact.* A voucher is in the channel index and in the ledger. They are written one
  after the other, survive different accidents, and have to agree on what sellers can redeem.
- *Answers that are not true yet.* A provider lags, its backends disagree and a block can be rolled
  back; what it says of a transaction decides whether budget comes back.
- *Ways out of the queue.* A queued request ends by an approval, a denial, a timer, a stale policy, a
  failed signature, a caller that leaves, or a crash; each has to give back the hold, write a record
  and answer.
- *Writes that fail.* `audit()` throws on a full disk, in the middle of a sequence whose other half has
  happened, and in a timer or a listener nothing catches it.
- *A file that changes under the daemon.* The policy is stat'ed and read in two system calls, before a
  decision and again before an overhead is judged; the operator may replace it between any two.
- *Shutdown beside everything.* The queue is drained once, while requests that passed the check are
  still on their way to it.
- *A transaction somebody else built.* The builder, and on a sponsored step the seller, decide what is
  in it; the checks are all that stands between it and the key.
- *Two tool calls at once.* The library calls back without saying for which call it asks.
- *Sellers.* They redirect, lose answers, answer twice, settle without naming a transaction, and keep a
  count of their own.
- *One chance.* A keystore whose passphrase was mistyped loses the wallet, once the plaintext is gone.

`PROJECT.json` lists each of these at its line, as a hazard, with the properties that watch it; the
ones no property covers yet say why.

**What makes each component correct.** The locks: one task at a time per key, in order, none stuck
behind a failed one, nothing kept for idle keys. The files: what a restart rebuilds is what was
handed out and not given back, no more and no less. The payment path: no agent has more committed
than a cap allows; nothing is signed twice or after it was turned down; no two live transactions
share an input. The queue: held budget is exactly that of the requests in it, and nobody waits in it
for ever. Vouchers: every unit a seller can redeem was counted, once. The checks: a transaction costs
the wallet what the ledger counts. Expiry: nothing given back lands. Tidy: nothing held is spent, and
a tidied wallet needs no tidying. The policy cache: decisions are by the file. Authentication: a payment
is for the agent whose token asked. Start: what others could write is noticed before it is used. The
keystore: it opens with the passphrase that is kept. The agent side: money goes where signerd was told,
and the report says what happened to it. Everything: each request is answered, and expired budget comes
back.

## The modules

| module | models | composed with |
| --- | --- | --- |
| `PolicyRules` | `parsePolicy`, `decide` and `decideOverhead` as operators over a set of spends | used by `Signerd` and `Vouchers` |
| `FifoLock` | what a lock promises: a queue per key, its head inside | the abstraction `Signerd` runs on |
| `KeyedLock` | `createKeyedLock`, reaction by reaction | implements `FifoLock` |
| `Journal` | ledger, log, checkpoint, crash, rotation, replay | the abstraction of `Signerd`'s files |
| `Signerd` | `/sign`, approvals, `sign()`, releases, crash and restart | uses `PolicyRules` and `Journal`'s actions, implements `Journal` |
| `Vouchers` | channels, vouchers, the channel index and its recovery | uses `PolicyRules`; what a restart reads back is what `Journal` says |
| `TxChecks` | `mismatch`, `stepProblem` and the sponsor checks, over where a transaction's value goes | says why a payment of `Signerd` costs its amount and overhead |
| `Expiry` | which transactions a pass asks about, what it believes, what it gives back | says why `Signerd` may take a released transaction for dead |
| `Tidy` | the tidy, the check of what was built, the automatic one and its timer | books inputs as `Signerd` does |
| `Keystore` | `keystore create`, the file it leaves, the operator who trusts it | extended by `Startup` |
| `StartRules` | what is refused, noted or graded, as operators on an environment and a policy | used by `Startup` and `Daemon` |
| `Startup` | from the environment to the listening socket | extends `Keystore` and `StartRules` |
| `Daemon` | tokens, the policy cache, failing writes, retried builds, shutdown | extends `Startup`: a daemon that serves is one that started |
| `AgentTool` | the tools, the schemes, redirects, receipts, a seller | stands beside the daemon: signerd is the two steps it is called for |
| `MC...` | the small instances TLC runs | |
| `KeyedLock_proofs`, `Journal_proofs`, `Signerd_proofs`, `Spends_proofs`, `Daemon_proofs`, `AgentTool_proofs`, `Vouchers_proofs`, `Tidy_proofs` | the theorems | |

### KeyedLock

`chains` is the `Map`, `after[n]` the promise call *n* chained onto, `state[n]` how far the call is.
`Run` is the synchronous body of `run`; `Start`, `Settle` and `Forget` are the three reactions (the
task runs, the promise it left settles, the `.then` that deletes the key), which are separate
microtasks and so separate actions in any order; `End` is the task resolving or rejecting. `Forget`
deletes the key only if the chain still ends with this call (`serialize.ts:18`).

### Journal

`log`, `ckpt` and `ledger` are the audit file, the checkpoint file and the array in memory. `Push`,
`AuditSigned` and `WriteCheckpoint` are the three writes of a recording, `AuditRelease` and
`WriteCheckpoint` those of a release, `AuditPending`, `AuditClosed` and `CloseAbandoned` the records
of the approval queue, `Replay` is `replayAudit`. `Crash` is enabled between any two of them.

- `phase` makes the section between two awaits uninterruptible by anything but a crash, which is what
  a single thread does.
- A record is on disk when `audit()` returns, because it is fsynced. The checkpoint is renamed and not
  fsynced, so `Crash` may bring back `oldCkpt`, the one before.
- The order of the log matters to replay in one way: is a record after the checkpoint's `seq`?
  `ckpt.covers` is the set of records that are not. The hash chain, which detects a rewritten log, has
  no part in what is rebuilt and is left out.
- `Removed` is "one release takes one spend" of `replay.ts`: the records carry the hash, the code
  takes the first spend of it still on the ledger.
- `Rotate` removes any set of spend records the checkpoint covers, as the README of the repository
  lets an operator do between runs.
- The clock is coarse and does not move inside a section of writes. The spend's own timestamp and its
  record's differ by milliseconds in the code, the record's being the later.
- `recorded`, `issued` and `released` are history: what was pushed, whose record is on disk, and what
  was given back. No action of the daemon reads them, except that `Push` takes each transaction once.

### Signerd

A *session* is an asynchronous activity: a request, an `/approve` call, or the release pass. `pc` is
the await it is at; an action is what runs from there to the next one. `agentQ` and `walletQ` are the
two locks, as the queues `KeyedLock` was shown to implement. `sync` names the session in a section of
file writes, during which nothing else runs and only a crash can intervene.

| action | code |
| --- | --- |
| `Arrive`, `Denied`, `Allowed`, `Enqueue` | the `/sign` handler up to `decide` and its outcomes |
| `Withdraw` | `enqueue` finding the caller's socket already closed |
| `BuildFails`, `BuildRefused` | `sign()` returning an error before anything is recorded |
| `Commit`, `Record`, `Signed` / `ApproveSigned` | `claimNonce` and the ledger push; the audit record; the checkpoint and the return |
| `CallerLeaves`, `TimeOut`, `Deny` | the close listener, the timer, `/deny`: all through `closePending` |
| `Approve`, `ApproveGone`, `ApproveStale`, `ApproveTaken`, `ApproveDone` | `/approve`, before and under the lock, and after `sign()` |
| `FindExpired`, `Release`, `ReleaseAgedOut`, `Released` | `releaseExpired` |
| `Crash`, `Restart`, `FinishStart` | a dead daemon, `replayAudit`, the loop over open approvals and the first checkpoint |
| `EditPolicy`, `Land`, `Expire`, `Tick` | the operator's editor, the chain, the clock |

A build and its provider retries are one step that succeeds with some inputs and overhead, or fails.
The allowlists of the policy are one value, `terms`. `waiting` of `Journal` is refined to the
requests that hold budget: from the pending record until the closing one, which for an approved
request comes after its spend.

### Vouchers

A channel is opened with a deposit and paid from by *vouchers*, each signed for the cumulative amount
so far; what a voucher adds to the most signed before (`signedMax`) is its increment, and that is
what it spends. `index` is `channelStore.ts`'s file, `oldIndex` the one before its last write, `log`
and `ledger` the records and the spends of vouchers, `reserved` and `pending` the queue. `handed` is
the most a seller holds a signature for, and `chain` what the chain will show of a channel.

| action | code |
| --- | --- |
| `Begin`, `Enter`, `Unreadable`, `ClientFails` | `/batch/payload`: both locks, the policy, a client that gives up |
| `AskVoucher`, `AskOpen`, `AskTopUp` | the client's call to `authorizeChannel`, and whose channel it is |
| `ReadLocked`, `Fund` | `lockedBy`, and `decideDeposit` once it has answered |
| `Resign`, `Deny`, `Queue`, `Store`, `Audit` | the ends of `commitVoucher`, and the two halves of its writing |
| `HandOver`, `Undelivered` | the payload leaves, with the channel step in it, or nobody waits for it |
| `Approve`, `Unqueue` | `approveVoucher`; a denial, a timer, a caller that left |
| `Recover`, `Follow`, `StoreRecovered`, `FoundClosed` | `/channels/recover`, one await at a time |
| `ReadForLift`, `Lift` | `liftSignedMax`, after a seller's corrective answer |
| `Refund` | the voucher of a refund, for the seller's count |
| `Land`, `Drop`, `CloseOut`, `Crash` | the chain; a kill, a power cut, a lost data directory |

- The channel client (subbit-x402) is not in the repository. Its count comes from sellers by way of
  the agent, so a voucher may ask for any amount from the price up. That it builds a step only once
  the change of the last one is listed is its `ownOutputs`, which a restart empties (`awaited`).
- An agent the policy does not name is denied a deposit as it is denied a voucher: the policy is read
  again at every ask, and may have dropped the agent of a channel that stays open.
- A recovery needs a lost index, since a channel in the index is not recovered; `Losses` says what a
  run lets happen. `cut` holds the units whose recording a crash cut short, `intact` says that no
  file was lost, and `late` counts what landed of a step handed over before a restart: three
  histories, so that a property can name the exception it makes.
- One asset, one instant of the rolling day, and locks that are held or free: the window is
  `Signerd`'s subject and the order of the locks `KeyedLock`'s.

### TxChecks

A request is met with any transaction of a set, and either handed over or refused: the builder, and the
seller who sponsors a step, may have put anything in it. A transaction is *where its value goes*: the
checks tell four kinds of address apart (payee, this wallet, the validator, anyone else), so a
transaction is the totals they get, its fee, what it spends and redeems, and its collateral. Decoding
CBOR, and which output holds what, is abstracted to these. `NoMismatch` is `mismatch` of `verifyTx.ts`,
`RideOf` and `OverheadOf` what the ledger counts beside the amount; `NoSummaryProblem` and `NoStepProblem`
are `summaryProblem` and `stepProblem` of `channelTx.ts`, and `SponsorOffer` what signerd asks of the chain
before it believes a seller's offer. Value is conserved, so what the wallet loses (`Lost`,
`LostByStep`) is what the others get; the two properties compare it with what the transaction was for.

What a step is for (`MeantToCost`) is reckoned from what was authorised and what the seller can still
claim, not from the bounds the code hands to its checks: an ADA channel takes the ADA authorised
(`PutIn`) and at a refund owes the seller what is signed and not redeemed (`OwedInAda`); a token channel
owes no ADA, and the ADA it holds is whatever `checkDeposit` and `checkTopUp` let it hold.

The checks subbit-x402 makes on its own datum and redeemers are not in the repository, and are mapped as
external.

### Keystore, StartRules, Startup

A sealed wallet is a record of the words and the passphrase: it opens with that passphrase only, and not
once it is torn. `Create`, `Created` and `CutShort` are a `keystore create`, with the prompt that may be
mistyped; `DeletePlain` is the operator who deletes the plaintext because the tool printed the
wallet's address.

An environment is a record of what the code distinguishes about its settings, files and modes;
`SettingsRefused`, `PolicyRefused`, `LogRefused`, `TokensRefused`, `NotesOn` and `Preflight` are the
checks, in the order `Startup` asks them: `Configure`, `CheckSettings`, `LoadKey`, `ReadPolicy`,
`StatPolicy`, `Replay`, `CheckLedger`, `OpenChannels`. The stages are the points where somebody else can
act: a prompt, an await, and the gap between the policy's read and its stat. `Configurations` and
`PolicyFiles` are every environment and every policy these checks could be asked about; the runs take a
few of them, the theorems all.

### Daemon

What `Signerd` takes for granted: who may call, that the policy is the file's, that writes succeed, that
builds are retried, that the daemon goes down in order.

| action | code |
| --- | --- |
| `Arrive`, `BadRequest` | `identify`, `shutting_down`, the body |
| `SignBody`, `ApproveBody`, `DenyBody` | `payingAgent`, what an agent's token may call, the three handlers' first part |
| `Stat`, `Read`, `Status` | the two system calls of `refreshPolicy`, with the decision that follows; `/status` and `/metrics` refresh it too |
| `Judge` (`JudgeSign`, `JudgeApproval`, `JudgeBuilt`) | `decide` and its outcomes; the lovelace caps once the transaction is built |
| `Enqueue`, `OffTheQueue`, `Commit`, `SignFails` | the queue, `closePending` and `sign()`, each of their writes succeeding or not |
| `TimeOut`, `CallerLeaves` | a timer and a close listener, from which an exception ends the process |
| `BuildRetried`, `BuildFails`, `Built` | `withRetry` around the build, under the wallet's lock |
| `Shutdown`, `Closed`, `TenSeconds` | the signal handler, `server.close` with the wallet's lock, the forced exit |

- Any request may be the next to run: these are more orders than the agents' locks permit, so what
  holds here does not rest on them.
- A policy is what it says of an agent: allow, ask, or deny. What amounts do to a verdict is `PolicyRules`'.
- A write that throws is never undone, and whoever threw in a handler answers an error. `unplaced`,
  `unrecorded` and `late` are histories of the requests that such a write, or a shutdown, caught: they
  name the exceptions the properties make.
- `Busy` and `Served` bound where requests are made: in the soundly configured preprod wallet, with
  agents' tokens and without, under the policies of a small set. `MaxEdits` bounds the edits.

### AgentTool

A call goes through `Begin` (`batchAllowed` asked), `BatchAllowed` (its `CallContext` made), `Connect`
(MCP only), `PaymentRequired` or `Free`, `Sign`, `SettleExact` or `SettleVoucher`, `OnPaymentResponse`;
`Refuse`, `NoAnswer`, `Lost`, `Redirect` and `ResponseRefused` are its ways out. Two run at once.

- `OwnContext(c)` is what `AsyncLocalStorage` gives the signer callbacks: the context of the call they
  run in.
- A URL is its host and path segments as written. `NormalizeUrl` resolves "..", as `URL` does both where
  the request goes and where signerd matches it.
- signerd is `Sign` and `Refuse`: it allows what an entry matches, and records what it was told. Its
  channel client counts what a seller accepted; `signedMax` is the most it signed.
- The seller is the one of `dev/batchseller.ts`: charges a voucher one step past its count, stores its
  last answer, corrects a wrong count, and may lose an answer after it has charged. It may also settle
  without naming a transaction, or not at all, and answer, charged or not, with a header that is missing
  or does not decode: the proxy then tells signerd nothing (`Bare`). `MaxCharged` bounds its count.
- An answer's status is not modelled but for a redirect: a 3xx after a payment may carry a settlement as
  any answer may (`Redirect`; `SettleVoucher` where signerd hears of it).

### Expiry

`releaseExpired` copies the ledger, asks for the tip, picks those past their time to live by more
than the margin, asks about a batch of them, and gives back what is in no block: `Snapshot`,
`ReadTip`, `Answers`, `Release`, an await each. The spends it works on are named by their places in
the copy, since the same spend may have moved in the ledger or aged out of it meanwhile. `PassFails` ends
a pass anywhere: the tip, a lookup, or the record of a release that cannot be written.

- A provider answers from an index at most `Lag` behind the chain, and may send rows of several
  backends, one of them any age; a chain rolls back at most `Depth` below the highest tip it had.
  `ExpiryAssumption` asks that the margin cover both, which is what `RELEASE_MARGIN_SECONDS` is for.
- `round` only matters modulo the length of the list, so it is counted modulo `Rounds`, a multiple of
  every length the list can have.

### Tidy

The plan, the check of what the builder made of it and the decision to start one automatically are
operators (`tidyPlan`, `tidyProblem`, `autoTidyDecision`); `tidyWallet` is a process of steps (`Enter`,
`Read`, `Plan`, `Book`, `Submit`), run by an operator or by a channel step that was short of ADA (`Look`
to `StartAutoTidy`). What the builder returns is any transaction at all over the wallet's outputs,
within the amounts; the check is what stands between it and the signature. Inputs are booked before the
submit, and a submit may fail on the way back although the transaction lands. A payment books and spends
an output meanwhile.

Left out: `AUTO_TIDY=0`, which starts none; shortages of a token, which a tidy cannot help; outputs
with a datum or a script, which the plan skips.

## The runs

| run | asks | instance | why it is enough |
| --- | --- | --- | --- |
| `locks` | is the chain a FIFO lock, and live? | 4 calls, 2 keys | three calls on a key are needed to delete a chain another has joined and start a third beside it; one more for the other key |
| `journal` | does the rebuilt ledger hold exactly what it should, and does the log know who waits? | a payment with its overhead, an approval, day 2, time to 3 | two spends of one hash; records inside, at and past the window; any number of crashes and rotations. Several payments: the proofs, and `signerd` |
| `signerd` | does the payment path keep its files as `Journal` says; do transactions share inputs; is everybody answered? | a cheap and a dear request of 2 agents, 1 operator, 1 output, crashes, a policy that becomes unreadable and readable again, clock at 0 | agents do not share a lock, so only the wallet's lock and the holds order them; every way through, any crash point; the refinement and the liveness are its properties |
| `queue` | can the queue lose, double or resurrect a request, or pass a cap? | 2 dear requests of one agent, 2 operators, day 1, time to 2 | two operators on one request, and one each; room for both payments but for their fees; spends inside the day, exactly a day old and older, released meanwhile |
| `vouchers` | is every unit a seller can redeem counted, once, within caps and deposits? | 1 agent, 3 requests, 2 channels, amounts to 3, two policies, kills, power cuts, a lost index | an opening, a top-up and a voucher in any order, one of them queued; a third deposit is what passes `channelLockedMax` |
| `crash_uncounted` | is it counted whatever crashes? (violated) | 2 requests, 1 channel, kills | one voucher cut short, one to sign it again |
| `owner_race` | does a channel keep its owner? (violated) | 2 agents, a lost index | two recoveries at once |
| `expiry` | does anything given back land, come back in part, or get left out? | 2 transactions, three spends, batches of one, lag 1, rollback 1, margin 2 | the margin is exactly lag and rollback together; a batch splits a payment from its overhead; one transaction is never answered for |
| `tidy` | does a tidy spend what is held, leave reason for another, or run away? | 2 shortages, an operator's tidy, a payment, interval 2, time to 2 | two tidies an interval apart and one beside them; every output of the wallet folded with tokens |
| `checks` | does a transaction that passes cost what is counted? | amounts to 2, every bound 1, every amount in a sound shape and every shape at a sound amount; token channels with a token left to redeem and without | each bound is met, passed by one and undercut; any size: the proofs |
| `daemon` | is the start safe, are decisions by the file and the tokens, and is nobody left waiting, held for or paid without a record? | sound wallets on preprod and mainnet and each one with a single departure; 2 requests, 2 agents, 3 policies, 2 edits | a second edit is what falls between the stat and the read; a second request is the approval of the first |
| `agent` | do payments reach only what is allowed, and do reports tell? | 2 calls of 5 kinds, 2 entries, a redirect, counts to 3 | two calls are needed to mix contexts; a third charge is what a correction and a retry pay |

**The bounds.** `MaxTime` (`LastTime`, `LastSlot`) stops the clock, and with it whatever needs more
time to happen; the values above let a spend be made, age to the boundary and pass it. Runs about
interleavings alone keep the clock at 0: no rule of theirs reads the time except through windows that
then all apply. `MaxSigned` bounds what a client asks for, `Hitches` the failed passes and restarts
of `Expiry` together, `Payments` and `OperatorTidies` what happens beside an automatic tidy. The other
counters need none: requests, bills, calls and operators are finite sets, and crashes and rollbacks
are unlimited. `Edits` (`MaxEdits`) bounds what becomes of the policy file, `MaxCharged` a seller's count.
`queue`, `vouchers`, `daemon` and `agent` use symmetry, in requests, operators, channels, passphrases or
calls that are alike; none of them has a liveness property.

**What the properties say.** Each is stated in a comment above its definition. The central ones:

- `CapHolds`: what an agent has committed of an asset (signed in the rolling day, and able to land or
  still counted; or held for an approval) never exceeds the largest daily cap some version of the policy
  gave it. It counts what was *signed*, not what the daemon remembers, so forgetting is a violation.
- `HandedOutIsCounted`, `NothingElseIsCounted`, `MemoryMatchesDisk`, `LogKnowsWhoWaits`: at every
  moment, from either checkpoint, a restart would rebuild exactly the spends recorded, not given back
  and not too old, each once, and close exactly the approvals still open.
- `HeldForTheQueue`, `SignedOnce`, `NoneQueuedForTheGone`: the queue, among locks and crashes.
- `RedeemableIsCounted`, `NoUnitIsCountedTwice`, `IndexKnowsTheMost`: of vouchers, between the index,
  the records and what sellers hold. The first holds whatever is lost, but for `cut`.
- `LockedWithinLimit`: deposits handed over in one run of the daemon stay within `channelLockedMax`, as
  long as no file was lost. Those still in flight at a restart are excepted because nothing makes the
  new run wait for them: `lockedBy` (`signerd.ts:1330`) sees only what the chain shows.
- `PaymentsCostWhatIsCounted`, `StepsCostWhatTheyAreFor`: what leaves the wallet is what the ledger
  counts, or what a channel step is for and one bounded fee. The second excepts, by name
  (`ComparedWithTokens`), the ADA that an unsponsored refund of a token channel pays the seller while
  tokens are signed and not redeemed; what disagrees, below, has the reason. A token payment may pay the payee more
  tokens than asked, which the code does not refuse and the property does not either.
- `PolicyIsTheFile`: whenever the cached policy would be kept, it is the file. Excepted: a file replaced
  between the start's read and its stat (`signerd.ts:412`), until a later mtime is found.
- `AuthorityIsTheTokens`: whom a payment is for, and who decides on the queue.
- `NobodyIsForgotten`, `HeldForWhoWaits`, `HandedOutIsRecorded`: the queue and the answers, among writes
  that fail and a shutdown. Excepted, by name: who could not be placed or whose end could not be
  recorded (they do wait, and the first keep their budget held, until a restart), and who got to the
  queue after the drain (they wait for the forced exit).
- `LooseFilesAreSeen`, `CleanHereStartsThere`, `WordsAreNeverLost`: the start and the keystore; the last
  but for a keystore forced over another.
- `PaymentsReachWhatIsAllowed`, `ReportsTellTheSpend`, `LostAnswersCostNothing`: the agent side. A
  report that is only an error says nothing of the spend, and is excepted.
- `ReleasedNeverLands`, `BothOrNeither`, `NobodyIsCrowdedOut`: the pass over expired transactions.
- `HoldsRespected`, `TidyIsTidy`, `AutoTidiesApart`, `NotRunningForGood`: tidies.
- `ImplementsFifoLock`, `ImplementsJournal`: the refinements.

A type invariant is stated and proved for `Journal` and `KeyedLock`, and `TxChecks`' is part of
`ChecksInv`; the invariants of the other proofs contain theirs.

Each property of each run has a mutant in `PROJECT.json`: a definition changed the way a plausible
bug would change the code, under which TLC finds that property violated.

**Deadlock.** `Journal`, `KeyedLock`, `Tidy` and `AgentTool` come to rest once everything bounded has been
used up, `TxChecks` once it has its verdict, and `Daemon` once it was refused, stopped or died, so their
runs say `CHECK_DEADLOCK FALSE`. In `Vouchers` and `Expiry` there is always a crash or another
pass. `Signerd` never stops, since the operator may always edit the
policy; its deadlock check says little, and its liveness properties are what exclude waiting for ever.

**Fairness.** Weak fairness of: each reaction of a promise and each task's end (`KeyedLock`); the
steps of a request, an operator and the release pass once they hold their lock; the build, because
every provider read has a timeout and a build is retried at most twice; the approval timer; the pass
over expired transactions, an interval; and the end of a start. It is not assumed that anyone
approves, that a caller stays, that a daemon which died is started again, or that the chain accepts
anything. A request must therefore end answered, undelivered, or lost with the daemon.

In `Expiry`: the chain grows, the interval fires, and an await that does not fail ends; the number of
failures is bounded, and nothing is assumed for what the provider never answers for. `NobodyIsCrowdedOut`
is about a chain past its rollbacks. A provider whose failures keep step with the rotation for ever
could still starve a transaction, since a failed pass counts its round too. In `Tidy`: the steps of a
tidy and of a channel step that found itself short, which wait for nothing but the wallet's lock and
calls that time out.

## What disagrees

Two runs end in a violation; the steps are in `PROJECT.json`'s findings.

- `crash_uncounted`: `commitVoucher` writes the channel index (`signerd.ts:1388`) before the ledger and
  the record. The comment at 1354 says that a crash in between "counts a spend that did not happen, never
  the reverse"; the restarted daemon finds the amount signed already and signs it again for nothing,
  with no spend ever recorded.
- `owner_race`: `recover` looks for a channel's owner (1941), waits for the chain (1950) and stores the
  entry without looking again. Two agents recovering at once each find no owner, and the later takes
  the channel from the earlier, whose records keep it open although the comment has them closed "for good".

Others are settled by reading, and the models follow the code:

- The README (117) says that the limits "are re-read from `policy.json` on every decision".
  `refreshPolicy` stats first, so a later change is never missed; the start reads first and stats after
  (`signerd.ts:411`), and a file replaced in between is not read until it changes again.
  `PolicyIsTheFile` excepts it.
- The comment on `closePending` (984) says that no exit can forget "the reservation, the timer, or the
  caller still waiting on the answer". It writes the record before it answers: when `audit()` throws,
  the caller is not answered; `enqueue` holds the budget before its record, and keeps it then.
- The README (547) says that SIGTERM "drains the queue and answers whoever was waiting". A request past
  the `shuttingDown` check may reach the queue after the drain, and is cut off by the exit ten seconds
  later.
- The comment on `loadMnemonic` (`signerd.ts:323`) says "Keystore, then plaintext file, then
  environment". The environment's mnemonic is taken before the file's.
- A failed `fsync` in `audit()` leaves a record that may be on disk and a `prev` hash that is not its
  own: the next record does not follow it, and the next start refuses the log.
- A refund of a token channel that nobody sponsors compares the *lovelace* the seller gets with
  `maxPayout`, which is in the channel's token (`channelTx.ts:129`, `signerd.ts:1234`): two amounts in
  different units. The comment says "A token channel's refund pays the seller nothing"
  (`channelTx.ts:111`) and the test, of a channel with no token left to redeem, "none of it may go to the
  seller" (`test/channelTx.test.ts:116`); with N tokens left to redeem, up to N lovelace pass.
  `StepsCostWhatTheyAreFor` excepts these lovelace by name (`PaidForTokens`); `checks` reaches the case,
  and TLC violates the property once the exception is dropped.
- The README (566, 885) says that the tools say `unsettled` when signerd signed something that did not
  settle. On an error after the signature, a lost connection for one, they report `error:` alone
  (`mcp.ts:199`).

## The proofs

Every theorem holds for every value of the constants that the modules' named assumptions admit: any
number of calls, keys, payments and approvals, any window, any history of crashes.

**KeyedLock** (`KeyedLock_proofs`): `TypeCorrect`, `ServedInOrder`, `MutualExclusion`, `NoIdleKeyKept`,
`ChainsAreQueues`.
Mutual exclusion is not inductive: that a call waits for the *previous* one is lost to sight once the
key may be deleted. The invariant `LockInv` adds that a call is made at most once and on one key
(`MadeOnce`); that a key's entry is its last call, not yet forgotten, and that there is no entry only
when all its calls are over (`ChainsEnd`); that a call waits for the one made just before it, unless
everything before it was over already (`WaitsForPrevious`); and the order itself (`InOrder`), from
which the rest follows. `ChainsAreQueues` is the refinement of `FifoLock`: the queue of a key is what
its calls leave once those that are over are taken off the front, and `FifoInv` is why that is a queue:
the calls that are over are the first of their key, and every call made was made for some key. A task
that ends is then the head that leaves, and a call made is one that joins, whether or not the key was
forgotten in between.

**Journal** (`Journal_proofs`): `NoSpendIsForgotten`, `NoSpendIsInvented`, `LedgerIsWhatAStartRebuilds`,
`NoApprovalIsOrphaned`, `TypeCorrect`. `Rebuilt` drops what is old, so nothing about it can be carried
forward as the clock moves. The invariant is therefore about `Base(c)`, all the spends of a checkpoint
and of the log after it, old or not, for each checkpoint `c` that a crash might leave:

- `Complete`: `Base(c)` was issued, and holds every issued spend that still counts;
- `ReleasesMatch`: the releases after `c` are those of spends in `Base(c)`, and no other;
- `PaymentsStay`: an overhead has its payment with it, unless the payment was given back;
- `LoggedOnce`: no payment logged after `c` is in `c` already;
- `LedgerSound`: memory holds what still counts, and beyond `Base` only the payment being recorded;
- `IssuedSound`, `LogSound`, `PhaseSound`: records, spends and releases agree with each other, and a
  payment is released before its overhead.

`PaymentsStay` and the last are what a matching by hash needs: a record names a transaction, the code
takes the first spend of it left, and the lemma `Recovered` shows that this takes exactly the spends
the records were written for. With it,
`Rebuilt(c) = {s \in Base(c) : Recent(s.ts) /\ Part(s) \notin released}`,
and the theorems follow. One lemma per action shows the invariant kept; `Undisturbed` covers the
actions that neither issue nor give back. `NoApprovalIsOrphaned` has an invariant of its own: every
end follows its question in time, so an approval whose question is recent cannot have lost its answer
to the window.

**Signerd** (`Signerd_proofs`): `HeldBudgetIsTheQueues`, `NothingIsSignedTwice`, `NobodyGoneIsQueued`,
`NoOutputIsPromisedTwice`, `ThePaymentPathImplementsJournal`. The invariant of the first two, `QueueInv`, is about the requests and the
operators' calls together: a request that is queued, or that an operator has taken, waits at "queued",
is held for, and has one taker (`Held`); what is early, queued or taken has no transaction, and what the
log says was turned down is over for good (`Once`); whoever is between two writes is recording
(`Inside`), so that only it can finish. No part of it mentions the agents' locks: `/approve` takes a
request off the queue before it awaits anything. The third adds that a request whose caller left is on the
queue only inside the section that put it there. The last is independent of the queue: an
output is committed for a hold from the moment it is claimed, so whoever is found free is a hold away.
`ThePaymentPathImplementsJournal` is the refinement: every step is one of `Journal`'s or leaves the files
alone. It needs `QueueInv`, for a reservation is written once, and that the release works on a request
(`FilesInv`).

`RestartsAreSafe` is what the refinement is for: an implementation of `Journal` has what was proved of
it, so the daemon, with its queue, its locks and its approvals, forgets no spend that was handed out,
invents none, rebuilds what memory holds, and strands no approval, whenever it is killed.

`TheCapIsKept` is `CapHolds`, the cap over all that may still land. What was signed may no longer be in
the ledger, because it was released or because a crash cut its recording short; what is held will be
signed without `decide` being asked again. The invariant, `CapInv`, is therefore about `Weight`: the
ledger, whatever was signed and not given back, and the holds of what is not recorded yet.

- `Bounded`: what weighs on a cap is within the cap some policy gave, for every agent and asset;
- `Promised`: what `decide` allowed still fits when the wallet's turn comes, which is after other
  requests, other agents' payments and edits of the policy;
- `LocksHeld`: whoever is between its decision and its record holds its agent's lock, the reason
  `Promised` survives the steps of everybody else;
- `HoldsSound`: a hold is its request's, for its amount, less than a day old and in the log, and once
  its transaction is recorded the ledger has that, dated no earlier;
- `OnlyTheDead`: a release is of a transaction that has expired, so nothing given back can land.

The sums are cardinalities of sets of units (`Units`, `Total` in `PolicyRules`), so that what a union
adds, or an aged spend takes away, follows from facts on finite sets, without an induction over the sum.

**TxChecks and Expiry** (`Spends_proofs`): what a signed transaction costs, and when what was counted for
it is given back.

- `VerdictsAreChecked`, `PaymentCost`, `StepCost`. The strengthening (`ChecksInv`) says that whatever was
  handed over passed the checks for what was asked; the rest is arithmetic of where value goes, a
  payment, a sponsored step and one of the wallet's own apart, for amounts and bounds of any size.
  `StepCost` is `StepsCostWhatTheyAreFor` with the exception that property names.
- `GivenBackNeverLands`. That a released transaction is in no block is not inductive, for the chain
  moves on and rolls back. That it is `Dead` is: in no block, with the highest tip there ever was past
  its time to live by more than the margin. A rollback leaves the tip within `Depth` of the highest, so
  after it the transaction is still too late; and the row that said "absent" came, by `Answer`'s rule
  that a row with a block wins, from a provider within `Lag` of a tip within `Depth` of the highest,
  which is past the time to live as well. `ReleaseInv` carries this with `ChainOK` (blocks hold nothing
  late) and `PassOK` (the places a pass is working on).
- `AllOfItComesBack` counts. While a pass is under way the ledger holds no more spends of a transaction
  than its copy does, as what is signed meanwhile is another transaction; the places due are all of a
  transaction's or none; so are those to give back, and a release takes one from each side (`WholeInv`).
- `EveryPlaceGetsItsTurn`: each of the spends due is in the batch of one of the next `n / Batch` passes
  (rounded up), whatever round the first is, for any batch size. It is the part of `NobodyIsCrowdedOut`
  that is not about fairness, and its lemma `StartIsModular` is why `round` may be counted modulo `Rounds`.

**Daemon** (`Daemon_proofs`): `DecisionsAreByTheFile`, `NobodyPaysForAnother`,
`BudgetIsHeldForTheQueue`, `QueuedIsAnswered`, `NothingUnrecordedGoesOut`. The first needs that mtimes
grow, and that the policy and the mtime in memory belong together, or that whoever is between the stat
and the read has seen an older one (`MtimesGrow`, `BelongTogether`). The next two share `ServeInv`:
`Authority` ties a request at each of its awaits to the token it came with, `InOrder` says who is where
in the wallet's lock, and `Held` that budget is held for the queue and for approvals under way,
whichever writes and builds fail. The last two are `AnswerInv` on top of it: who waits is on the queue,
in one operator's hands, or without a record of its end (`Waiting`); what the drain left came after it
(`Drained`).

The start and the keystore are proved of the same specification, for a daemon that is started again and
again: `KeystoreKeepsTheWords`, `LooseFilesAreNoted`, `CleanWalletsMoveToMainnet`. `KeysInv` says that
what is being written, and what is on the disk, opens with the passphrase its operator means to keep,
and that words somebody trusts the file with are in it: a `create` that would replace them needs force.
`StartInv` follows one start through its stages: what was refused before a stage is not so at it, the
modes and the environment are still those of the files not looked at yet, and what was looked at is
among the notes (`Seen`), so that a daemon that is up has a note for each file that is loose. The
last of the three compares the two networks check by check: a mainnet start refuses what a preprod one
notes, and a preflight that is clean has had no such note.

**AgentTool** (`AgentTool_proofs`): `PaymentsReachTheAllowed`, `LostAnswersAreFree`, `ReportsAreTrue`.
A call under way told signerd what it was asked, and told it itself, not a call beside it
(`TellsItself`); what was signed for is allowed and on record (`SignedIsAllowed`); a channel's counts
never pass what its seller charged (`CountsWhatWasCharged`); and a call knows whether it was signed for
(`Knows`), which is what its report rests on. `AgentToolAssumption` says that resolving a resolved URL
changes nothing and that a fetch runs no tool.

**Vouchers** (`Vouchers_proofs`): `EveryRedeemableUnitIsCounted`, `HoldsMatchTheQueue`,
`EveryUnitIsCountedOnce`, `TheIndexIsAhead`, `VouchersKeepTheCap`, `DepositsStayWithinTheLimit`. What a
seller can redeem may be known to the index, to an older copy of it, to a client, or to nobody here.
`CoverInv` says it of each: whatever one of them says was signed is counted up to there, or was given up
by a crash, or is being recorded by the run that signs. `HoldInv` gives each queued request its place and
its hold, and each approved one its hold and the run that is making its voucher.

- `EveryUnitIsCountedOnce` and `TheIndexIsAhead` are about a wallet that lost no file, and rest on
  `FreshInv`: while nothing was lost, the index is ahead of the sellers and of the records, what a
  request or a seller's answer read under its agent's lock is still what the index says, nobody follows
  a recovered channel, and the records of a channel lie one above the other (`SellersKnown`, `LogBelow`,
  `AskFresh`, `LiftFresh`, `LogApart`). `LocksHeld` keeps other steps of the agent out, `ChainInv` says
  what the chain can show.
- `VouchersKeepTheCap`: `BudgetInv`, over the ledger and the holds of what is not recorded yet. A policy
  may be edited while a voucher is queued, so the bound is the cap of one of the policies, as the property
  has it; that a record takes the place of its hold is why it does not grow when one is written.
- `DepositsStayWithinTheLimit`: `LockedInv`. What `lockedBy` answered is at least what the agent's
  channels hold, the one being opened included, from the answer until the step is handed over:
  the agent's lock and the wallet's keep its other channels still, and a client that waits for its last
  step's change builds no second one (`FundedWell`). A step that lands, or is dropped, later only
  moves what was counted (`LockedWell`).

**Tidy** (`Tidy_proofs`): `NoHoldIsBroken`, `ATidyNeedsNoTidy`, `AutomaticTidiesAreRare`. `TidyInv`: one
run is inside the wallet's lock, and what it means to spend is held by nobody (`OneInside`); what was
spent stays booked until its hold is over (`StaysBooked`); what is about to be sent came after all that
shares an input with it, and leaves a wallet that is tidy (`AboutToSend`); and the automatic tidies that
were sent started no later than the one the next has to wait for, which a run that found the wallet busy
gives back without moving it past one that was sent (`AutoSound`, `LastKept`).

**Only model-checked**: liveness. Every invariant and every action property of a passing run is a theorem;
`EveryCallRuns`, `EveryRequestIsAnswered`, `ExpiredIsReleased`, `NotRunningForGood` and
`NobodyIsCrowdedOut` are about fairness and ENABLED, which are out of TLAPS's reach.

## What is not modelled

- *The log's hash chain and the reports of a malformed one.* They decide whether a start is refused,
  which is one setting of an environment in `StartRules`; nothing rebuilt depends on them.
- *What `/status`, `/metrics`, `/pending` and `/channels` say*, and `walletctl`, which prints it. They
  change nothing but the policy cache (`Status`).
- *Of channels*: a token channel's ADA reserve in `Vouchers` (`TxChecks` has it), and the client's own
  records beside the index. Exits are a channel closing on the chain.
- *Failing writes outside the payment path*: of the channel index, of a tidy's records, of the
  checkpoint at start.
- *The chain provider's mistakes*, in `Signerd`: what is reported expired there is expired. `Expiry`
  shows when that is so.
- *Which provider errors are worth a retry*: `retry.ts` matches their messages; here either may be.
- *A token payment's overhead* is in `PolicyRules`, `Signerd` and `TxChecks`, and only `checks` pays in
  a token.
- *Holds on inputs across a restart.* They are in memory only, by design; `NoSharedInput` is stated
  within one run of the daemon.
- *Cryptography, HTTP, parsing, formatting.* A passphrase opens what it sealed and nothing else; tokens
  are compared as values; a transaction is what it does with value.
- *The development scripts*, integration tests against a real chain, but for the seller of one.

## The plan

1. `Vouchers` composed with `Journal`, so that a voucher's record and a payment's share a log, and with
   `TxChecks`' reserves for a token channel.
2. Failing writes in `Vouchers` and `Tidy`, as `Daemon` has them for payments.
3. `Signerd` and `Daemon` composed: amounts and locks beside tokens, edits and failing writes.
4. **Proofs**: an abstract budget (a ledger with holds, decided and recorded under a lock) that both
   `Signerd` and `Vouchers` refine, so that `Bounded` and `BudgetInv` are proved once; `FifoLock`'s order
   carried into `Signerd` as a refinement of its two queues.
