------------------------------- MODULE Journal -------------------------------
(***************************************************************************)
(* How signerd keeps its spend ledger across crashes: the ledger in        *)
(* memory, the append-only audit log, and the checkpoint file written      *)
(* after each spend (src/src/signerd.ts), and the replay that rebuilds the *)
(* ledger from the last two at start (src/src/replay.ts).                  *)
(*                                                                         *)
(* A record is on disk when audit() returns (it is fsynced), so the log    *)
(* never loses one; a line torn by a crash is cut off at start, which is a *)
(* crash before the record.  The checkpoint is renamed into place but not  *)
(* fsynced, so a power cut may bring back the one before it.               *)
(*                                                                         *)
(* The log is a set of records [event, of, ts].  The only order replay     *)
(* uses is whether a record comes after the checkpoint (seq >              *)
(* checkpoint.seq); ckpt.covers holds the records that do not.  The hash   *)
(* chain, which detects a rewritten log, is left out.                      *)
(*                                                                         *)
(* Everything between two awaits of one thread is one uninterrupted        *)
(* section: while phase is not "idle" only that section's next step or a   *)
(* crash can happen.  Its two reads of the clock, for the spend and for    *)
(* its record, are taken as one: they are milliseconds apart, the record's *)
(* the later, so a spend rebuilt from the log counts that much longer.     *)
(***************************************************************************)
EXTENDS Integers, FiniteSets

CONSTANTS
    Bills,      \* payments: [tx, agent, asset, amount, overhead]
    Ids,        \* requests that may wait for an approval
    Lovelace,
    Day,        \* LEDGER_WINDOW_MS, the same 24h as the caps' rolling day
    MaxTime,    \* bound: the clock stops here
    NoBill      \* no payment is being recorded

ASSUME JournalAssumption ==
    /\ \A b \in Bills : /\ DOMAIN b = {"tx", "agent", "asset", "amount", "overhead"}
                        /\ b.amount \in Nat /\ b.overhead \in Nat
    /\ NoBill \notin Bills
    /\ Day \in Nat
    /\ MaxTime \in Nat

VARIABLES
    now,        \* Date.now(), in coarse steps
    log,        \* the audit file
    ckpt,       \* the ledger checkpoint file: [covers, spends]
    oldCkpt,    \* the checkpoint before it, which a power cut may bring back
    ledger,     \* the spends in memory
    phase,      \* what the running thread is in the middle of
    bill,       \* the payment being recorded
    waiting,    \* approvals queued by this run and not closed yet
    openPending, \* approvals replay found open, to be closed at start
    recorded,   \* history: the transactions ever pushed on the ledger
    issued,     \* history: the spends of every payment whose record is on disk
    released    \* history: the spends given back, as [tx, kind]

memory == <<ledger, bill, waiting, openPending>>
disk == <<log, ckpt, oldCkpt>>
history == <<recorded, issued, released>>
jvars == <<now, phase, memory, disk, history>>

Txs == {b.tx : b \in Bills}

(***************************************************************************)
(* The records signerd closes an approval with, and those replay takes as  *)
(* the end of one.                                                         *)
(***************************************************************************)
ClosingEvents ==
    {"approved", "approval_denied", "approval_timeout", "shutdown_denied",
     "approval_sign_error", "approval_stale", "pending_abandoned"}

(* Mutant: replay does not know one of the ends. *)
TerminalButStale == ClosingEvents \ {"approval_stale"}

TerminalEvents ==
    {"approved", "approval_denied", "approval_timeout", "shutdown_denied",
     "approval_sign_error", "approval_stale", "pending_abandoned"}

Entry(event, of) == [event |-> event, of |-> of, ts |-> now]

Payment(b, t) ==
    [tx |-> b.tx, kind |-> "payment", agent |-> b.agent, asset |-> b.asset,
     amount |-> b.amount, ts |-> t]

Overhead(b, t) ==
    [tx |-> b.tx, kind |-> "overhead", agent |-> b.agent, asset |-> Lovelace,
     amount |-> b.overhead, ts |-> t]

SpendsOf(b, t) ==
    {Payment(b, t)} \cup (IF b.overhead > 0 THEN {Overhead(b, t)} ELSE {})

(***************************************************************************)
(* Replay.  A record older than the window, or one the checkpoint was      *)
(* written after, is not read again.                                       *)
(***************************************************************************)
Recent(t) == t >= now - Day

(* Mutant: replay reads the whole log on top of the checkpoint. *)
UnseenAll(c) == log

Unseen(c) == log \ c.covers

FromCheckpoint(c) == {s \in c.spends : Recent(s.ts)}

(* Mutant: replay trusts the checkpoint to hold every spend. *)
FromLogNothing(c) == {}

FromLog(c) ==
    UNION {SpendsOf(e.of, e.ts) :
             e \in {x \in Unseen(c) : x.event = "signed" /\ Recent(x.ts)}}

Releases(c, tx) ==
    {e \in Unseen(c) : e.event = "spend_released" /\ Recent(e.ts) /\ e.of.tx = tx}

(* Mutant: one release takes every spend of its transaction. *)
RemovedWhole(S, c) == {s \in S : Releases(c, s.tx) # {}}

(* Mutant: a release takes back the payment only, whatever it was of. *)
RemovedPayments(S, c) == {s \in S : s.kind = "payment" /\ Releases(c, s.tx) # {}}

(***************************************************************************)
(* One release takes one spend of its transaction: the first, which is the *)
(* payment while it is there.                                              *)
(***************************************************************************)
Removed(S, c) ==
    {s \in S :
       LET R == Releases(c, s.tx)
       IN  \/ s.kind = "payment" /\ R # {}
           \/ /\ s.kind = "overhead" /\ R # {}
              /\ \A p \in S : p.kind = "payment" => p.tx # s.tx
           \/ \E r1, r2 \in R : r1 # r2}

Rebuilt(c) ==
    LET S == FromCheckpoint(c) \cup FromLog(c)
    IN  S \ Removed(S, c)

(***************************************************************************)
(* Approvals the log shows as asked for and never answered.                *)
(***************************************************************************)
OpenApprovals ==
    {e.of : e \in {x \in log : /\ x.event = "pending" /\ Recent(x.ts)
                               /\ \A y \in log : ~ (/\ y.event \in TerminalEvents
                                                    /\ y.of = x.of /\ Recent(y.ts))}}

Init ==
    /\ now = 0
    /\ log = {}
    /\ ckpt = [covers |-> {}, spends |-> {}]
    /\ oldCkpt = ckpt
    /\ ledger = {}
    /\ phase = "down"
    /\ bill = NoBill
    /\ waiting = {}
    /\ openPending = {}
    /\ recorded = {}
    /\ issued = {}
    /\ released = {}

(***************************************************************************)
(* Approvals run out after at most 900 seconds, so none waits for a day.   *)
(***************************************************************************)
Tick ==
    /\ now < MaxTime
    /\ phase # "pushed"
    /\ \A e \in log : e.event = "pending" /\ e.of \in waiting => now + 1 - e.ts < Day
    /\ now' = now + 1
    /\ UNCHANGED <<phase, memory, disk, history>>

(***************************************************************************)
(* sign(), from the moment nothing can refuse the payment any more: the    *)
(* spends go on the ledger, what has expired comes off it, the record is   *)
(* written, and then the checkpoint that names it.                         *)
(***************************************************************************)
Push(b) ==
    /\ phase = "idle"
    /\ b.tx \notin recorded
    /\ ledger' = {s \in ledger \cup SpendsOf(b, now) : Recent(s.ts)}
    /\ bill' = b
    /\ phase' = "pushed"
    /\ recorded' = recorded \cup {b.tx}
    /\ UNCHANGED <<now, disk, waiting, openPending, issued, released>>

AuditSigned ==
    /\ phase = "pushed"
    /\ log' = log \cup {Entry("signed", bill)}
    /\ issued' = issued \cup SpendsOf(bill, now)
    /\ phase' = "logged"
    /\ UNCHANGED <<now, ckpt, oldCkpt, memory, recorded, released>>

(***************************************************************************)
(* The end of a recording, of a release or of the start.  A payment is     *)
(* handed over only from here on.                                          *)
(***************************************************************************)
WriteCheckpoint ==
    /\ phase \in {"logged", "starting"}
    /\ openPending = {}
    /\ oldCkpt' = ckpt
    /\ ckpt' = [covers |-> log, spends |-> ledger]
    /\ phase' = "idle"
    /\ bill' = NoBill
    /\ UNCHANGED <<now, log, ledger, waiting, openPending, history>>

(***************************************************************************)
(* Giving back the first spend a transaction still has on the ledger; the  *)
(* record names the transaction and which spend it was.                    *)
(***************************************************************************)
Part(s) == [tx |-> s.tx, kind |-> s.kind]

(* Mutant: the last spend of the transaction instead. *)
LastOf(tx) ==
    CHOOSE s \in ledger :
        /\ s.tx = tx
        /\ \A p \in ledger : p.tx = tx /\ p.kind = "overhead" => s.kind = "overhead"

FirstOf(tx) ==
    CHOOSE s \in ledger :
        /\ s.tx = tx
        /\ \A p \in ledger : p.tx = tx /\ p.kind = "payment" => s.kind = "payment"

AuditRelease(tx) ==
    /\ phase = "idle"
    /\ \E s \in ledger : s.tx = tx
    /\ log' = log \cup {Entry("spend_released", Part(FirstOf(tx)))}
    /\ ledger' = ledger \ {FirstOf(tx)}
    /\ released' = released \cup {Part(FirstOf(tx))}
    /\ phase' = "logged"
    /\ UNCHANGED <<now, ckpt, oldCkpt, bill, waiting, openPending, recorded, issued>>

AuditPending(id) ==
    /\ phase = "idle"
    /\ \A e \in log : e.event = "pending" => e.of # id
    /\ log' = log \cup {Entry("pending", id)}
    /\ waiting' = waiting \cup {id}
    /\ UNCHANGED <<now, phase, ckpt, oldCkpt, ledger, bill, openPending, history>>

AuditClosed(id, event) ==
    /\ phase = "idle"
    /\ id \in waiting
    /\ event \in ClosingEvents
    /\ log' = log \cup {Entry(event, id)}
    /\ waiting' = waiting \ {id}
    /\ UNCHANGED <<now, phase, ckpt, oldCkpt, ledger, bill, openPending, history>>

(***************************************************************************)
(* A SIGKILL or a power cut, at any step; everything in memory is gone.    *)
(***************************************************************************)
Crash ==
    /\ phase # "down"
    /\ ckpt' \in {ckpt, oldCkpt}
    /\ oldCkpt' = ckpt'
    /\ ledger' = {}
    /\ phase' = "down"
    /\ bill' = NoBill
    /\ waiting' = {}
    /\ openPending' = {}
    /\ UNCHANGED <<now, log, history>>

(***************************************************************************)
(* The operator may cut the log, keeping everything from the checkpointed  *)
(* record onward; here any of the records before it.                       *)
(***************************************************************************)
Rotate ==
    /\ phase = "down"
    /\ \E gone \in SUBSET {e \in ckpt.covers \cap log : e.event \in {"signed", "spend_released"}} :
          /\ gone # {}
          /\ log' = log \ gone
    /\ UNCHANGED <<now, phase, memory, ckpt, oldCkpt, history>>

Replay ==
    /\ phase = "down"
    /\ ledger' = Rebuilt(ckpt)
    /\ openPending' = OpenApprovals
    /\ phase' = "starting"
    /\ UNCHANGED <<now, disk, bill, waiting, history>>

(***************************************************************************)
(* What a previous run left unanswered is closed, one record at a time.    *)
(***************************************************************************)
CloseAbandoned(id) ==
    /\ phase = "starting"
    /\ id \in openPending
    /\ log' = log \cup {Entry("pending_abandoned", id)}
    /\ openPending' = openPending \ {id}
    /\ UNCHANGED <<now, phase, ckpt, oldCkpt, ledger, bill, waiting, history>>

Next ==
    \/ Tick
    \/ \E b \in Bills : Push(b)
    \/ AuditSigned
    \/ WriteCheckpoint
    \/ \E tx \in Txs : AuditRelease(tx)
    \/ \E id \in Ids : AuditPending(id)
    \/ \E id \in Ids, event \in ClosingEvents : AuditClosed(id, event)
    \/ Crash
    \/ Rotate
    \/ Replay
    \/ \E id \in Ids : CloseAbandoned(id)

Spec == Init /\ [][Next]_jvars

-----------------------------------------------------------------------------
Spends ==
    [tx : Txs, kind : {"payment", "overhead"}, agent : {b.agent : b \in Bills},
     asset : {b.asset : b \in Bills} \cup {Lovelace}, amount : Nat, ts : Nat]

Parts == [tx : Txs, kind : {"payment", "overhead"}]

(***************************************************************************)
(* Every variable has the shape its declaration says.                      *)
(***************************************************************************)
TypeOK ==
    /\ now \in 0 .. MaxTime
    /\ phase \in {"down", "starting", "idle", "pushed", "logged"}
    /\ \A e \in log :
          \/ e \in [event : {"signed"}, of : Bills, ts : Nat]
          \/ e \in [event : {"spend_released"}, of : Parts, ts : Nat]
          \/ e \in [event : ClosingEvents \cup {"pending"}, of : Ids, ts : Nat]
    /\ \A c \in {ckpt, oldCkpt} : /\ DOMAIN c = {"covers", "spends"}
                                 /\ c.spends \subseteq Spends
    /\ ledger \subseteq Spends
    /\ bill \in Bills \cup {NoBill}
    /\ waiting \subseteq Ids
    /\ openPending \subseteq Ids
    /\ recorded \subseteq Txs
    /\ issued \subseteq Spends
    /\ released \subseteq Parts

PartsOf(S) == {Part(s) : s \in S}

(***************************************************************************)
(* The spends of every payment whose record was written, and so of every   *)
(* transaction handed out, are in what a restart would rebuild from the    *)
(* disk as it is, at any moment and whichever checkpoint survives, until   *)
(* they are given back or a day old: a crash gives an agent no budget      *)
(* back.  (writeCheckpoint "after the audit record", replayAudit.)         *)
(***************************************************************************)
HandedOutIsCounted ==
    \A c \in {ckpt, oldCkpt}, s \in issued :
        now - s.ts < Day /\ Part(s) \notin released => s \in Rebuilt(c)

(***************************************************************************)
(* And nothing else is: a spend given back stays given back, none is made  *)
(* up, and none reaches the rebuilt ledger from the checkpoint and again   *)
(* from the log, whatever was lost and wherever the log was cut.           *)
(* (releaseExpired; in replayAudit "one release takes one spend" and "only *)
(* what the checkpoint cannot already hold".)                              *)
(***************************************************************************)
NothingElseIsCounted ==
    \A c \in {ckpt, oldCkpt} :
        /\ Rebuilt(c) \subseteq issued
        /\ PartsOf(Rebuilt(c)) \cap released = {}
        /\ PartsOf(FromCheckpoint(c)) \cap PartsOf(FromLog(c)) = {}

(***************************************************************************)
(* The ledger decisions are made on is the one a restart would rebuild: at *)
(* rest, memory and disk agree on the rolling day.                         *)
(***************************************************************************)
MemoryMatchesDisk ==
    phase = "idle" =>
        \A c \in {ckpt, oldCkpt} :
            {s \in ledger : now - s.ts < Day} = {s \in Rebuilt(c) : now - s.ts < Day}

(***************************************************************************)
(* While signerd runs, the approvals the log shows as unanswered are the   *)
(* ones someone is waiting on: none of an earlier run, none closed without *)
(* a record.  (The loop over openPending at start, closePending.)          *)
(***************************************************************************)
LogKnowsWhoWaits == phase = "idle" => OpenApprovals = waiting
=============================================================================
