---------------------------- MODULE Signerd_proofs ----------------------------
(***************************************************************************)
(* The approval queue of Signerd, the outputs it commits, the callers that *)
(* leave, its files and its caps, for any number of requests, agents,      *)
(* operators and outputs, any policies and any history of crashes.         *)
(*                                                                         *)
(* The queue and the outputs do not need the agents' locks: /approve takes *)
(* a request off the queue before it awaits anything, so what an operator  *)
(* has taken nobody else can take, close or sign; and a commitment is      *)
(* checked and made with no await in between.  The caps do: what decide    *)
(* admitted still fits when the wallet's turn comes, because the agent's   *)
(* lock is held from one to the other.                                     *)
(***************************************************************************)
EXTENDS Signerd, FiniteSetTheorems, SequenceTheorems, TLAPS

Places ==
    {"new", "agentLock", "walletLock", "recording", "queued", "settled",
     "answered", "undelivered", "lost", "idle", "approved"}

(* Where a request is before it can have been signed, and once it is over. *)
Early == {"new", "agentLock", "walletLock"}

Over == {"settled", "answered", "undelivered", "lost"}

TurnedDownBy ==
    {"approval_denied", "approval_timeout", "approval_stale", "approval_sign_error"}

QueueTypes ==
    /\ pc \in [Sessions -> Places]
    /\ target \in [Operators \cup {Releaser} -> Requests \cup {NoOne}]
    /\ pending \subseteq Requests
    /\ recorded \subseteq Requests
    /\ sync \in Sessions \cup {NoOne}

(* Who is in a section of file writes is either recording or, having found *)
(* its caller gone, about to be withdrawn.                                 *)
Inside ==
    /\ sync \in Requests =>
          \/ pc[sync] = "recording" /\ phase \in {"pushed", "logged"}
          \/ pc[sync] = "queued" /\ sync \in pending /\ phase = "idle"
    /\ sync \in Operators => pc[sync] = "recording" /\ phase \in {"pushed", "logged"}

Approving(o) == pc[o] \in {"walletLock", "recording", "approved"}

IsHeld(r) == \E h \in reserved : h.tx = r

Held ==
    /\ \A r \in pending : IsHeld(r) /\ pc[r] = "queued"
    /\ \A o \in Operators : Approving(o) =>
          /\ target[o] \in Requests \ pending
          /\ IsHeld(target[o]) /\ pc[target[o]] = "queued"
    /\ \A o, x \in Operators : Approving(o) /\ Approving(x) /\ target[o] = target[x] => o = x
    /\ \A h \in reserved :
          h.tx \in pending \/ \E o \in Operators : Approving(o) /\ target[o] = h.tx

Once ==
    /\ \A r \in Requests : pc[r] \in Early \/ r \in pending => r \notin recorded
    /\ \A o \in Operators : pc[o] = "walletLock" => target[o] \notin recorded
    /\ \A e \in log : e.event \in TurnedDownBy =>
          e.of \in Requests /\ e.of \notin recorded /\ pc[e.of] \in Over

QueueInv == QueueTypes /\ Inside /\ Held /\ Once

LEMMA Apart ==
  /\ Requests \cap Operators = {} /\ Releaser \notin Requests \cup Operators
  /\ NoOne \notin Requests /\ NoOne \notin Operators /\ NoOne # Releaser
  BY SignerdAssumption DEF Sessions

LEMMA QueueInit == Init => QueueInv
<1> SUFFICES ASSUME Init PROVE QueueInv
  OBVIOUS
<1>1. QueueTypes
  BY DEF Init, J!Init, QueueTypes, Places, Sessions
<1>2. Inside
  BY Apart DEF Init, Inside
<1>3. \A o \in Operators : pc[o] = "idle"
  BY Apart DEF Init, Sessions
<1>4. Held
  BY <1>3 DEF Init, Held, Approving
<1>5. Once
  BY <1>3 DEF Init, J!Init, Once
<1> QED
  BY <1>1, <1>2, <1>4, <1>5 DEF QueueInv

(***************************************************************************)
(* What leaves the queue and its sessions alone and records no refusal.    *)
(***************************************************************************)
LEMMA QueueUndisturbed ==
  ASSUME QueueInv, UNCHANGED <<pc, target, pending, reserved, recorded>>,
         \A e \in log' : e \in log \/ e.event \notin TurnedDownBy,
         \/ sync' = NoOne
         \/ sync' = sync /\ phase' = phase
         \/ sync' = sync /\ phase = "pushed" /\ phase' = "logged"
         \/ sync' = sync /\ phase \in {"down", "starting"}
  PROVE  QueueInv'
<1>1. QueueTypes'
  BY DEF QueueInv, QueueTypes
<1>2. Inside'
  BY Apart DEF QueueInv, Inside
<1>3. Held'
  BY DEF QueueInv, Held, Approving, IsHeld
<1>4. Once'
  BY DEF QueueInv, Once
<1> QED
  BY <1>1, <1>2, <1>3, <1>4 DEF QueueInv

(* A request on its way to the locks, or turned down or answered.          *)
LEMMA RequestMoves ==
  ASSUME QueueInv, NEW r \in Requests, NEW to \in Places,
         pc' = [pc EXCEPT ![r] = to],
         \/ pc[r] \in Early /\ to \in Early \cup Over
         \/ pc[r] \in Over \cup {"recording"} /\ to \in Over,
         UNCHANGED <<target, pending, reserved, recorded, log>>, sync' = NoOne
  PROVE  QueueInv'
<1>1. QueueTypes'
  BY DEF QueueInv, QueueTypes, Sessions
<1>2. Inside'
  BY Apart DEF Inside
<1>3. \A s \in Sessions : s # r => pc'[s] = pc[s]
  BY DEF QueueInv, QueueTypes
<1>4. pc'[r] = to /\ pc[r] # "queued"
  BY DEF QueueInv, QueueTypes, Sessions, Early, Over
<1>5. \A o \in Operators : o # r /\ o \in Sessions
  BY Apart DEF Sessions
<1>6. Held'
  BY <1>3, <1>4, <1>5 DEF QueueInv, QueueTypes, Held, Approving, IsHeld, Sessions
<1>7. Once'
  BY <1>3, <1>4, <1>5 DEF QueueInv, QueueTypes, Once, Early, Over, Sessions
<1> QED
  BY <1>1, <1>2, <1>6, <1>7 DEF QueueInv

(* An operator's call that has taken nothing off the queue, or a release.  *)
LEMMA OtherMoves ==
  ASSUME QueueInv, NEW s \in Operators \cup {Releaser}, NEW to \in Places,
         pc' = [pc EXCEPT ![s] = to],
         s \in Operators => ~Approving(s) /\ to \in {"idle", "agentLock"},
         target' = target \/ \E r \in Requests \cup {NoOne} : target' = [target EXCEPT ![s] = r],
         UNCHANGED <<pending, reserved, recorded>>,
         \A e \in log' : e \in log \/ e.event \notin TurnedDownBy,
         sync' \in {NoOne, Releaser}
  PROVE  QueueInv'
<1>1. QueueTypes'
  BY DEF QueueInv, QueueTypes, Sessions
<1>2. Inside'
  BY Apart DEF Inside
<1>3. /\ \A x \in Sessions : x # s => pc'[x] = pc[x]
      /\ \A x \in Operators : x # s => target'[x] = target[x]
  BY DEF QueueInv, QueueTypes
<1>4. s \notin Requests /\ pc'[s] = to
  BY Apart DEF QueueInv, QueueTypes, Sessions
<1>5. /\ \A r \in Requests : pc'[r] = pc[r]
      /\ \A o \in Operators : Approving(o)' <=> Approving(o)
      /\ \A o \in Operators : Approving(o) => target'[o] = target[o] /\ pc'[o] = pc[o]
  BY <1>3, <1>4 DEF Approving, Sessions
<1>6. Held'
  BY <1>5 DEF QueueInv, QueueTypes, Held, IsHeld
<1>7. Once'
  BY <1>5 DEF QueueInv, QueueTypes, Once, Approving
<1> QED
  BY <1>1, <1>2, <1>6, <1>7 DEF QueueInv

(***************************************************************************)
(* closePending, from a timer, an operator or the caller: an operator o    *)
(* who found it stale, if any, has finished.                               *)
(***************************************************************************)
LEMMA Closed ==
  ASSUME QueueInv, NEW r \in pending,
         pending' = pending \ {r}, reserved' = WithoutHold(r), recorded' = recorded,
         \A e \in log' : e \in log \/ e.of = r,
         \/ pc' = [pc EXCEPT ![r] = "settled"] /\ target' = target
         \/ \E o \in Operators :
               /\ ~Approving(o)
               /\ pc' = [pc EXCEPT ![o] = "idle", ![r] = "settled"]
               /\ target' = [target EXCEPT ![o] = NoOne],
         sync' = NoOne
  PROVE  QueueInv'
<1>1. /\ pending' = pending \ {r}
      /\ reserved' = {h \in reserved : h.tx # r}
      /\ recorded' = recorded
      /\ \A e \in log' : e \in log \/ e.of = r
  BY DEF WithoutHold
<1>2. r \in Requests
  BY DEF QueueInv, QueueTypes
<1>3. /\ pc' \in [Sessions -> Places] /\ pc'[r] = "settled"
      /\ target' \in [Operators \cup {Releaser} -> Requests \cup {NoOne}]
      /\ \A q \in Requests : q # r => pc'[q] = pc[q]
      /\ \A o \in Operators : Approving(o)' <=> Approving(o)
      /\ \A o \in Operators : Approving(o) => target'[o] = target[o] /\ pc'[o] = pc[o]
  <2>1. CASE pc' = [pc EXCEPT ![r] = "settled"] /\ target' = target
    BY <1>2, <2>1, Apart DEF QueueInv, QueueTypes, Approving, Sessions, Places
  <2>2. ASSUME NEW o \in Operators, ~Approving(o),
               pc' = [pc EXCEPT ![o] = "idle", ![r] = "settled"],
               target' = [target EXCEPT ![o] = NoOne]
        PROVE  /\ pc' \in [Sessions -> Places] /\ pc'[r] = "settled"
               /\ target' \in [Operators \cup {Releaser} -> Requests \cup {NoOne}]
               /\ \A q \in Requests : q # r => pc'[q] = pc[q]
               /\ \A x \in Operators : Approving(x)' <=> Approving(x)
               /\ \A x \in Operators : Approving(x) => target'[x] = target[x] /\ pc'[x] = pc[x]
    BY <1>2, <2>2, Apart DEF QueueInv, QueueTypes, Approving, Sessions, Places
  <2> QED
    BY <2>1, <2>2
<1>4. QueueTypes'
  BY <1>1, <1>3 DEF QueueInv, QueueTypes
<1>5. Inside'
  BY Apart DEF Inside
<1>6. \A o \in Operators : Approving(o) => target[o] # r
  BY DEF QueueInv, Held
<1>7. Held'
  BY <1>1, <1>3, <1>6 DEF QueueInv, QueueTypes, Held, IsHeld
<1>8. Once'
  <2>1. \A q \in Requests : pc'[q] \in Early \/ q \in pending' => q \notin recorded'
    BY <1>1, <1>3 DEF QueueInv, Once, Early
  <2>2. \A o \in Operators : pc'[o] = "walletLock" => target'[o] \notin recorded'
    BY <1>1, <1>3 DEF QueueInv, Once, Approving
  <2>3. \A e \in log' : e.event \in TurnedDownBy =>
            e.of \in Requests /\ e.of \notin recorded' /\ pc'[e.of] \in Over
    BY <1>1, <1>2, <1>3 DEF QueueInv, Once, Over
  <2> QED
    BY <2>1, <2>2, <2>3 DEF Once
<1> QED
  BY <1>4, <1>5, <1>7, <1>8 DEF QueueInv

LEMMA Closing ==
  ASSUME NEW r, NEW event, ClosePending(r, event)
  PROVE  /\ r \in pending
         /\ pending' = pending \ {r} /\ reserved' = WithoutHold(r) /\ recorded' = recorded
         /\ \A e \in log' : e \in log \/ e.of = r
  BY DEF ClosePending, J!AuditClosed, J!Entry, J!history

(***************************************************************************)
(* One operator's approval ends without a signature, or with one: its      *)
(* request leaves the queue for good.                                      *)
(***************************************************************************)
LEMMA Taken ==
  ASSUME QueueInv, NEW o \in Operators, Approving(o),
         pc' = [pc EXCEPT ![o] = "idle", ![target[o]] = "settled"],
         target' = [target EXCEPT ![o] = NoOne],
         reserved' = WithoutHold(target[o]),
         UNCHANGED <<pending, recorded>>,
         NEW event,
         log' = log \cup {J!Entry(event, target[o])},
         event \in TurnedDownBy => pc[o] = "walletLock",
         sync' = NoOne
  PROVE  QueueInv'
<1> DEFINE r == target[o]
<1>1. r \in Requests \ pending /\ pc[r] = "queued"
  BY DEF QueueInv, Held
<1>2. /\ pc' \in [Sessions -> Places] /\ pc'[r] = "settled"
      /\ target' \in [Operators \cup {Releaser} -> Requests \cup {NoOne}]
      /\ \A q \in Requests : q # r => pc'[q] = pc[q]
      /\ ~Approving(o)'
      /\ \A x \in Operators : x # o => target'[x] = target[x] /\ pc'[x] = pc[x]
  BY <1>1, Apart DEF QueueInv, QueueTypes, Approving, Sessions, Places
<1>3. \A x \in Operators : Approving(x)' => Approving(x) /\ x # o /\ target'[x] = target[x]
  BY <1>2 DEF Approving
<1>4. \A x \in Operators : Approving(x) /\ x # o =>
         Approving(x)' /\ target'[x] = target[x] /\ target[x] # r
  BY <1>2 DEF QueueInv, Held, Approving
<1>5. \A h : h \in reserved' <=> h \in reserved /\ h.tx # r
  BY DEF WithoutHold
<1>6. QueueTypes'
  BY <1>2 DEF QueueInv, QueueTypes
<1>7. Inside'
  BY Apart DEF Inside
<1>8. Held'
  <2>1. \A q \in pending' : (\E h \in reserved' : h.tx = q) /\ pc'[q] = "queued"
    <3> SUFFICES ASSUME NEW q \in pending
                 PROVE  (\E h \in reserved' : h.tx = q) /\ pc'[q] = "queued"
      OBVIOUS
    <3>1. (\E h \in reserved : h.tx = q) /\ pc[q] = "queued" /\ q # r /\ q \in Requests
      BY <1>1 DEF QueueInv, QueueTypes, Held, IsHeld
    <3> QED
      BY <1>2, <1>5, <3>1
  <2>2. \A x \in Operators : Approving(x)' =>
           /\ target'[x] \in Requests \ pending'
           /\ (\E h \in reserved' : h.tx = target'[x]) /\ pc'[target'[x]] = "queued"
    <3> SUFFICES ASSUME NEW x \in Operators, Approving(x)'
                 PROVE  /\ target'[x] \in Requests \ pending'
                        /\ \E h \in reserved' : h.tx = target'[x]
                        /\ pc'[target'[x]] = "queued"
      OBVIOUS
    <3>1. /\ target[x] \in Requests \ pending /\ pc[target[x]] = "queued"
          /\ (\E h \in reserved : h.tx = target[x])
          /\ target'[x] = target[x] /\ target[x] # r
      BY <1>3, <1>4 DEF QueueInv, Held, IsHeld
    <3> QED
      BY <1>2, <1>5, <3>1
  <2>3. \A x, y \in Operators : Approving(x)' /\ Approving(y)' /\ target'[x] = target'[y] => x = y
    BY <1>3 DEF QueueInv, Held
  <2>4. \A h \in reserved' :
           h.tx \in pending' \/ \E x \in Operators : Approving(x)' /\ target'[x] = h.tx
    BY <1>4, <1>5 DEF QueueInv, Held
  <2> QED
    BY <2>1, <2>2, <2>3, <2>4, <1>3 DEF Held, IsHeld
<1>9. Once'
  <2>1. \A q \in Requests : pc'[q] \in Early \/ q \in pending' => q \notin recorded'
    BY <1>1, <1>2 DEF QueueInv, Once, Early
  <2>2. \A x \in Operators : pc'[x] = "walletLock" => target'[x] \notin recorded'
    BY <1>2 DEF QueueInv, Once, Approving
  <2>3. \A e \in log' : e.event \in TurnedDownBy =>
            e.of \in Requests /\ e.of \notin recorded' /\ pc'[e.of] \in Over
    <3> SUFFICES ASSUME NEW e \in log', e.event \in TurnedDownBy
                 PROVE  e.of \in Requests /\ e.of \notin recorded' /\ pc'[e.of] \in Over
      OBVIOUS
    <3>1. CASE e \in log
      BY <1>1, <1>2, <3>1 DEF QueueInv, Once, Over
    <3>2. CASE e = J!Entry(event, r)
      <4>1. e.event = event /\ e.of = r
        BY <3>2 DEF J!Entry
      <4> QED
        BY <1>1, <1>2, <4>1 DEF QueueInv, Once, Over
    <3> QED
      BY <3>1, <3>2
  <2> QED
    BY <2>1, <2>2, <2>3 DEF Once
<1> QED
  BY <1>6, <1>7, <1>8, <1>9 DEF QueueInv

LEMMA Queued ==
  ASSUME QueueInv, NEW r \in Requests, Enqueue(r) PROVE QueueInv'
<1>1. /\ pc[r] = "agentLock" /\ pc' = [pc EXCEPT ![r] = "queued"]
      /\ pending' = pending \cup {r} /\ phase = "idle" /\ phase' = phase
      /\ sync' \in {r, NoOne} /\ UNCHANGED <<target, recorded>>
      /\ reserved' = reserved \cup {HoldFor(r)} /\ HoldFor(r).tx = r
      /\ \A e \in log' : e \in log \/ e.event = "pending"
  BY DEF Enqueue, Idle, AfterEnqueue, HoldFor, J!AuditPending, J!Entry, J!history
<1>2. /\ pc' \in [Sessions -> Places] /\ pc'[r] = "queued"
      /\ \A q \in Requests : q # r => pc'[q] = pc[q]
      /\ \A o \in Operators : pc'[o] = pc[o]
  BY <1>1, Apart DEF QueueInv, QueueTypes, Places, Sessions
<1>3. r \notin pending /\ r \notin recorded
  BY <1>1 DEF QueueInv, Held, Once, Early
<1>4. QueueTypes'
  BY <1>1, <1>2 DEF QueueInv, QueueTypes, Sessions
<1>5. Inside'
  BY <1>1, <1>2, Apart DEF Inside
<1>6. Held'
  BY <1>1, <1>2 DEF QueueInv, QueueTypes, Held, IsHeld, Approving
<1>7. Once'
  <2>1. \A q \in Requests : pc'[q] \in Early \/ q \in pending' => q \notin recorded'
    BY <1>1, <1>2, <1>3 DEF QueueInv, Once, Early
  <2>2. \A x \in Operators : pc'[x] = "walletLock" => target'[x] \notin recorded'
    BY <1>1, <1>2 DEF QueueInv, Once
  <2>3. \A e \in log' : e.event \in TurnedDownBy =>
            e.of \in Requests /\ e.of \notin recorded' /\ pc'[e.of] \in Over
    BY <1>1, <1>2 DEF QueueInv, Once, Over, TurnedDownBy
  <2> QED
    BY <2>1, <2>2, <2>3 DEF Once
<1> QED
  BY <1>4, <1>5, <1>6, <1>7 DEF QueueInv

LEMMA Takes ==
  ASSUME QueueInv, NEW o \in Operators, ApproveTaken(o) PROVE QueueInv'
<1> DEFINE r == target[o]
<1>1. /\ pc[o] = "agentLock" /\ pc' = [pc EXCEPT ![o] = "walletLock"]
      /\ r \in pending /\ pending' = pending \ {r} /\ sync' = NoOne
      /\ UNCHANGED <<target, recorded, reserved, log>>
  BY DEF ApproveTaken, Idle, StillQueued, jvars
<1>2. /\ pc' \in [Sessions -> Places] /\ pc'[o] = "walletLock"
      /\ \A q \in Requests : pc'[q] = pc[q]
      /\ \A x \in Operators : x # o => pc'[x] = pc[x]
  BY <1>1, Apart DEF QueueInv, QueueTypes, Places, Sessions
<1>3. /\ Approving(o)'
      /\ \A x \in Operators : x # o => (Approving(x)' <=> Approving(x))
      /\ \A x \in Operators : Approving(x) => x # o /\ target[x] # r
  BY <1>1, <1>2 DEF QueueInv, Held, Approving
<1>4. QueueTypes'
  BY <1>1, <1>2 DEF QueueInv, QueueTypes
<1>5. Inside'
  BY <1>1, Apart DEF Inside
<1>6. Held'
  BY <1>1, <1>2, <1>3 DEF QueueInv, QueueTypes, Held, IsHeld
<1>7. Once'
  BY <1>1, <1>2 DEF QueueInv, QueueTypes, Once
<1> QED
  BY <1>4, <1>5, <1>6, <1>7 DEF QueueInv

LEMMA Commits ==
  ASSUME QueueInv, NEW s \in Requests \cup Operators, Commit(s) PROVE QueueInv'
<1> DEFINE r == On(s)
<1>1. /\ pc[s] = "walletLock" /\ pc' = [pc EXCEPT ![s] = "recording"]
      /\ sync' = s /\ phase' = "pushed" /\ recorded' = recorded \cup {r}
      /\ UNCHANGED <<target, pending, reserved, log>>
  BY DEF Commit, J!Push, Bill, J!disk
<1>2. /\ pc' \in [Sessions -> Places] /\ pc'[s] = "recording"
      /\ \A q \in Sessions : q # s => pc'[q] = pc[q]
  BY <1>1 DEF QueueInv, QueueTypes, Places, Sessions
<1>3. /\ r \in Requests \ pending
      /\ pc[r] = (IF s \in Requests THEN "walletLock" ELSE "queued")
  <2>1. CASE s \in Requests
    BY <1>1, <2>1 DEF On, QueueInv, Held
  <2>2. CASE s \in Operators
    BY <1>1, <2>2, Apart DEF On, QueueInv, Held, Approving
  <2> QED
    BY <2>1, <2>2
<1>4. /\ \A o \in Operators : Approving(o)' <=> Approving(o)
      /\ \A o \in Operators : pc'[o] = "walletLock" => pc[o] = "walletLock" /\ target[o] # r
  <2>1. CASE s \in Requests
    BY <1>1, <1>2, <1>3, <2>1, Apart DEF On, QueueInv, Held, Approving, Sessions
  <2>2. CASE s \in Operators
    BY <1>1, <1>2, <1>3, <2>2, Apart DEF On, QueueInv, Held, Approving, Sessions
  <2> QED
    BY <2>1, <2>2
<1>5. QueueTypes'
  BY <1>1, <1>2, <1>3 DEF QueueInv, QueueTypes, Sessions
<1>6. Inside'
  BY <1>1, <1>2 DEF Inside
<1>7. \A q \in Requests : pc[q] = "queued" => pc'[q] = "queued"
  BY <1>1, <1>2 DEF Sessions
<1>8. Held'
  BY <1>1, <1>4, <1>7 DEF QueueInv, QueueTypes, Held, IsHeld
<1>9. Once'
  <2>1. \A q \in Requests : pc'[q] \in Early \/ q \in pending' => q \notin recorded'
    BY <1>1, <1>2, <1>3, Apart DEF QueueInv, Once, Early, On, Sessions
  <2>2. \A x \in Operators : pc'[x] = "walletLock" => target'[x] \notin recorded'
    BY <1>1, <1>4 DEF QueueInv, Once
  <2>3. \A e \in log' : e.event \in TurnedDownBy =>
            e.of \in Requests /\ e.of \notin recorded' /\ pc'[e.of] \in Over
    BY <1>1, <1>2, <1>3 DEF QueueInv, Once, Over, Sessions
  <2> QED
    BY <2>1, <2>2, <2>3 DEF Once
<1> QED
  BY <1>5, <1>6, <1>8, <1>9 DEF QueueInv

LEMMA SignedForAnOperator ==
  ASSUME QueueInv, NEW o \in Operators, ApproveSigned(o) PROVE QueueInv'
<1>1. /\ pc[o] = "recording" /\ pc' = [pc EXCEPT ![o] = "approved"]
      /\ sync' = NoOne /\ UNCHANGED <<target, pending, reserved, log, recorded>>
  BY Apart DEF ApproveSigned, J!WriteCheckpoint, J!history, QueueInv, Inside
<1>2. /\ pc' \in [Sessions -> Places] /\ pc'[o] = "approved"
      /\ \A q \in Requests : pc'[q] = pc[q]
      /\ \A x \in Operators : x # o => pc'[x] = pc[x]
  BY <1>1, Apart DEF QueueInv, QueueTypes, Places, Sessions
<1>3. \A x \in Operators : Approving(x)' <=> Approving(x)
  BY <1>1, <1>2 DEF Approving
<1>4. QueueTypes'
  BY <1>1, <1>2 DEF QueueInv, QueueTypes
<1>5. Inside'
  BY <1>1, Apart DEF Inside
<1>6. Held'
  BY <1>1, <1>2, <1>3 DEF QueueInv, QueueTypes, Held, IsHeld
<1>7. Once'
  BY <1>1, <1>2 DEF QueueInv, QueueTypes, Once
<1> QED
  BY <1>4, <1>5, <1>6, <1>7 DEF QueueInv

LEMMA Refused ==
  ASSUME QueueInv, NEW s \in Requests \cup Operators,
         pc[s] = "walletLock", Idle, Refuse(s)
  PROVE  QueueInv'
<1>1. sync' = NoOne /\ UNCHANGED <<pending, recorded>>
  BY DEF Refuse, Idle, jvars, J!AuditClosed, J!history
<1>2. CASE s \in Requests
  <2>1. /\ pc' = [pc EXCEPT ![s] = "settled"]
        /\ UNCHANGED <<target, reserved, recorded, log>>
    BY <1>2 DEF Refuse, jvars
  <2> QED
    BY <1>1, <1>2, <2>1, RequestMoves DEF Early, Over, Places
<1>3. CASE s \in Operators
  <2>1. /\ pc' = [pc EXCEPT ![s] = "idle", ![target[s]] = "settled"]
        /\ target' = [target EXCEPT ![s] = NoOne]
        /\ reserved' = WithoutHold(target[s])
        /\ log' = log \cup {J!Entry("approval_sign_error", target[s])}
    BY <1>3, Apart DEF Refuse, On, Returns, J!AuditClosed
  <2>2. Approving(s)
    BY DEF Approving
  <2> QED
    BY <1>1, <1>3, <2>1, <2>2, Taken
<1> QED
  BY <1>2, <1>3

LEMMA Crashed == ASSUME QueueInv, Crash PROVE QueueInv'
<1>1. /\ pending' = {} /\ reserved' = {} /\ sync' = NoOne
      /\ \A o \in Operators : pc'[o] = "idle"
      /\ \A r \in Requests : pc'[r] = (IF pc[r] \in {"new", "answered", "undelivered"}
                                        THEN pc[r] ELSE "lost")
      /\ UNCHANGED <<log, recorded>>
  BY Apart DEF Crash, J!Crash, J!history, Sessions
<1>2. QueueTypes'
  <2>1. pc' \in [Sessions -> Places]
    BY DEF Crash, Places, QueueInv, QueueTypes
  <2>2. target' \in [Operators \cup {Releaser} -> Requests \cup {NoOne}]
    BY DEF Crash
  <2> QED
    BY <1>1, <2>1, <2>2 DEF QueueInv, QueueTypes
<1>3. Inside'
  BY <1>1, Apart DEF Inside
<1>4. Held'
  BY <1>1 DEF Held, Approving
<1>5. Once'
  BY <1>1 DEF QueueInv, Once, Early, Over
<1> QED
  BY <1>2, <1>3, <1>4, <1>5 DEF QueueInv

(***************************************************************************)
(* Every step of the daemon keeps the queue as it should be.               *)
(***************************************************************************)
LEMMA SignKeepsQueue ==
  ASSUME QueueInv, NEW r \in Requests, SignSteps(r) PROVE QueueInv'
<1>1. CASE Arrive(r)
  <2>1. /\ pc[r] = "new" /\ pc' = [pc EXCEPT ![r] = "agentLock"] /\ sync' = NoOne
        /\ UNCHANGED <<target, pending, reserved, recorded, log>>
    BY <1>1 DEF Arrive, Idle, jvars
  <2> QED
    BY <2>1, RequestMoves DEF Early, Places
<1>2. CASE Denied(r)
  <2>1. /\ pc[r] = "agentLock" /\ pc' = [pc EXCEPT ![r] = "settled"] /\ sync' = NoOne
        /\ UNCHANGED <<target, pending, reserved, recorded, log>>
    BY <1>2 DEF Denied, Idle, jvars
  <2> QED
    BY <2>1, RequestMoves DEF Early, Over, Places
<1>3. CASE Allowed(r)
  <2>1. /\ pc[r] = "agentLock" /\ pc' = [pc EXCEPT ![r] = "walletLock"] /\ sync' = NoOne
        /\ UNCHANGED <<target, pending, reserved, recorded, log>>
    BY <1>3 DEF Allowed, Idle, jvars
  <2> QED
    BY <2>1, RequestMoves DEF Early, Places
<1>4. CASE Enqueue(r)
  BY <1>4, Queued
<1>5. CASE Withdraw(r)
  <2>1. r \in pending /\ ClosePending(r, "pending_abandoned")
    BY <1>5 DEF Withdraw, ClosePending
  <2>2. pc' = [pc EXCEPT ![r] = "settled"] /\ target' = target /\ sync' = NoOne
    BY <1>5 DEF Withdraw
  <2> QED
    BY <2>1, <2>2, Closing, Closed
<1>6. CASE Signed(r)
  <2>1. /\ pc' = [pc EXCEPT ![r] = "settled"] /\ sync' = NoOne
        /\ UNCHANGED <<target, pending, reserved, recorded, log>>
        /\ sync = r /\ phase = "logged"
    BY <1>6 DEF Signed, J!WriteCheckpoint, J!history
  <2>2. pc[r] = "recording"
    BY <2>1 DEF QueueInv, Inside
  <2> QED
    BY <2>1, <2>2, RequestMoves DEF Over, Places
<1>7. CASE Respond(r)
  <2>1. /\ pc[r] = "settled" /\ sync' = NoOne
        /\ UNCHANGED <<target, pending, reserved, recorded, log>>
    BY <1>7 DEF Respond, Idle, jvars, lockvars
  <2>2. CASE caller[r] = "open"
    <3>1. pc' = [pc EXCEPT ![r] = "answered"]
      BY <1>7, <2>2 DEF Respond
    <3> QED
      BY <2>1, <3>1, RequestMoves DEF Over, Places
  <2>3. CASE caller[r] # "open"
    <3>1. pc' = [pc EXCEPT ![r] = "undelivered"]
      BY <1>7, <2>3 DEF Respond
    <3> QED
      BY <2>1, <3>1, RequestMoves DEF Over, Places
  <2> QED
    BY <2>2, <2>3
<1> QED
  BY <1>1, <1>2, <1>3, <1>4, <1>5, <1>6, <1>7 DEF SignSteps

LEMMA QueueStepsKeepQueue ==
  ASSUME QueueInv, NEW r \in Requests, QueueSteps(r) PROVE QueueInv'
<1>1. ASSUME NEW event, ApprovalEnds(r, event) PROVE QueueInv'
  <2>1. /\ r \in pending /\ ClosePending(r, event)
        /\ pc' = [pc EXCEPT ![r] = "settled"] /\ target' = target /\ sync' = NoOne
    BY <1>1 DEF ApprovalEnds, ClosePending, lockvars, Idle
  <2> QED
    BY <2>1, Closing, Closed
<1>2. CASE CallerLeaves(r)
  <2>1. target' = target /\ sync = NoOne /\ sync' = NoOne
    BY <1>2 DEF CallerLeaves, lockvars, Idle
  <2>2. CASE ClosePending(r, "pending_abandoned") /\ pc' = [pc EXCEPT ![r] = "settled"]
    <3>1. r \in pending
      BY <2>2 DEF ClosePending
    <3> QED
      BY <2>1, <2>2, <3>1, Closing, Closed
  <2>3. CASE UNCHANGED <<jvars, reserved, pending, verdict, pc>>
    <3>1. UNCHANGED <<pc, target, pending, reserved, recorded, log>>
      BY <2>1, <2>3 DEF jvars
    <3> QED
      BY <2>1, <3>1, QueueUndisturbed
  <2> QED
    BY <1>2, <2>2, <2>3 DEF CallerLeaves
<1> QED
  BY <1>1, <1>2 DEF QueueSteps, TimeOut, Deny

LEMMA ApproveKeepsQueue ==
  ASSUME QueueInv, NEW o \in Operators, ApproveSteps(o) PROVE QueueInv'
<1>1. CASE ApproveGone(o)
  <2>1. /\ ~Approving(o) /\ pc' = [pc EXCEPT ![o] = "idle"] /\ sync' = NoOne
        /\ target' = [target EXCEPT ![o] = NoOne]
        /\ UNCHANGED <<pending, reserved, recorded, log>>
    BY <1>1 DEF ApproveGone, Idle, jvars, Returns, Approving
  <2> QED
    BY <2>1, OtherMoves DEF Places
<1>2. CASE ApproveStale(o)
  <2>1. /\ target[o] \in pending /\ ~Approving(o) /\ sync' = NoOne
        /\ pc' = [pc EXCEPT ![o] = "idle", ![target[o]] = "settled"]
        /\ target' = [target EXCEPT ![o] = NoOne]
    BY <1>2 DEF ApproveStale, Idle, Returns, Approving, StillQueued
  <2>2. /\ pending' = pending \ {target[o]} /\ reserved' = WithoutHold(target[o])
        /\ recorded' = recorded
        /\ \A e \in log' : e \in log \/ e.of = target[o]
    BY <1>2 DEF ApproveStale, ClosePending, J!AuditClosed, J!Entry, J!history
  <2>3. \E x \in Operators :
           /\ ~Approving(x)
           /\ pc' = [pc EXCEPT ![x] = "idle", ![target[o]] = "settled"]
           /\ target' = [target EXCEPT ![x] = NoOne]
    BY <2>1
  <2> QED
    BY <2>1, <2>2, <2>3, Closed
<1>3. CASE ApproveTaken(o)
  BY <1>3, Takes
<1>4. CASE ApproveSigned(o)
  BY <1>4, SignedForAnOperator
<1>5. CASE ApproveDone(o)
  <2>1. /\ Approving(o)
        /\ pc' = [pc EXCEPT ![o] = "idle", ![target[o]] = "settled"] /\ sync' = NoOne
        /\ target' = [target EXCEPT ![o] = NoOne]
        /\ reserved' = WithoutHold(target[o])
        /\ UNCHANGED <<pending, recorded>>
        /\ log' = log \cup {J!Entry("approved", target[o])}
    BY <1>5 DEF ApproveDone, Idle, Returns, Approving, J!AuditClosed, J!history
  <2>2. "approved" \notin TurnedDownBy
    BY DEF TurnedDownBy
  <2> QED
    BY <2>1, <2>2, Taken
<1> QED
  BY <1>1, <1>2, <1>3, <1>4, <1>5 DEF ApproveSteps

LEMMA ApproveCallKeepsQueue ==
  ASSUME QueueInv, NEW o \in Operators, NEW r \in Requests, Approve(o, r) PROVE QueueInv'
<1>1. /\ ~Approving(o) /\ pc' = [pc EXCEPT ![o] = "agentLock"] /\ sync' = NoOne
      /\ target' = [target EXCEPT ![o] = r]
      /\ UNCHANGED <<pending, reserved, recorded, log>>
  BY DEF Approve, Idle, jvars, Approving, ClosePending
<1> QED
  BY <1>1, OtherMoves DEF Places

LEMMA BuildKeepsQueue ==
  ASSUME QueueInv, NEW s \in Requests \cup Operators, BuildSteps(s) PROVE QueueInv'
  BY Refused, Commits DEF BuildSteps, BuildFails, BuildRefused

LEMMA ReleaseKeepsQueue ==
  ASSUME QueueInv, ReleaseSteps \/ \E r \in Requests : FindExpired(r) PROVE QueueInv'
<1>1. CASE Release
  <2>1. /\ pc' = [pc EXCEPT ![Releaser] = "recording"] /\ sync' = Releaser
        /\ UNCHANGED <<target, pending, reserved, recorded>>
        /\ \A e \in log' : e \in log \/ e.event = "spend_released"
    BY <1>1 DEF Release, J!AuditRelease, J!Entry
  <2> QED
    BY <2>1, Apart, OtherMoves DEF Places, TurnedDownBy
<1>2. CASE ReleaseAgedOut
  <2>1. /\ pc' = [pc EXCEPT ![Releaser] = "idle"] /\ sync' = NoOne
        /\ target' = [target EXCEPT ![Releaser] = NoOne]
        /\ UNCHANGED <<pending, reserved, recorded, log>>
    BY <1>2 DEF ReleaseAgedOut, Idle, Returns, jvars
  <2> QED
    BY <2>1, Apart, OtherMoves DEF Places
<1>3. CASE Released
  <2>1. /\ pc' = [pc EXCEPT ![Releaser] = "idle"] /\ sync' = NoOne
        /\ target' = [target EXCEPT ![Releaser] = NoOne]
        /\ UNCHANGED <<pending, reserved, recorded, log>>
    BY <1>3 DEF Released, Returns, J!WriteCheckpoint, J!history
  <2> QED
    BY <2>1, Apart, OtherMoves DEF Places
<1>4. ASSUME NEW r \in Requests, FindExpired(r) PROVE QueueInv'
  <2>1. /\ pc' = [pc EXCEPT ![Releaser] = "agentLock"] /\ sync' = NoOne
        /\ target' = [target EXCEPT ![Releaser] = r]
        /\ UNCHANGED <<pending, reserved, recorded, log>>
    BY <1>4 DEF FindExpired, Idle, jvars
  <2> QED
    BY <2>1, Apart, OtherMoves DEF Places
<1> QED
  BY <1>1, <1>2, <1>3, <1>4 DEF ReleaseSteps

LEMMA RestKeepsQueue ==
  ASSUME QueueInv,
         \/ Record \/ Restart \/ FinishStart \/ Tick
         \/ \E p \in Edits : EditPolicy(p)
         \/ \E r \in Requests : World(r)
  PROVE  QueueInv'
<1>1. CASE Record
  <2>1. /\ UNCHANGED <<pc, target, pending, reserved, recorded, sync>>
        /\ phase = "pushed" /\ phase' = "logged"
        /\ \A e \in log' : e \in log \/ e.event = "signed"
    BY <1>1 DEF Record, lockvars, J!AuditSigned, J!Entry
  <2> QED
    BY <2>1, QueueUndisturbed DEF TurnedDownBy
<1>2. CASE Restart
  <2>1. /\ UNCHANGED <<pc, target, pending, reserved, recorded, sync, log>>
        /\ phase = "down"
    BY <1>2 DEF Restart, lockvars, J!Replay, J!disk, J!history
  <2> QED
    BY <2>1, QueueUndisturbed
<1>3. CASE FinishStart
  <2>1. /\ UNCHANGED <<pc, target, pending, reserved, recorded, sync>>
        /\ phase = "starting"
        /\ \A e \in log' : e \in log \/ e.event = "pending_abandoned"
    BY <1>3 DEF FinishStart, lockvars, J!CloseAbandoned, J!WriteCheckpoint, J!Entry, J!history
  <2> QED
    BY <2>1, QueueUndisturbed DEF TurnedDownBy
<1>4. CASE Tick
  <2>1. UNCHANGED <<pc, target, pending, reserved, recorded, sync, phase, log>>
    BY <1>4 DEF Tick, lockvars, J!Tick, J!disk, J!history
  <2> QED
    BY <2>1, QueueUndisturbed
<1>5. ASSUME NEW p \in Edits, EditPolicy(p) PROVE QueueInv'
  <2>1. UNCHANGED <<pc, target, pending, reserved, recorded, sync, phase, log>>
    BY <1>5 DEF EditPolicy, lockvars, jvars
  <2> QED
    BY <2>1, QueueUndisturbed
<1>6. ASSUME NEW r \in Requests, World(r) PROVE QueueInv'
  <2>1. UNCHANGED <<pc, target, pending, reserved, recorded, sync, phase, log>>
    BY <1>6 DEF World, Land, Expire, lockvars, jvars
  <2> QED
    BY <2>1, QueueUndisturbed
<1> QED
  BY <1>1, <1>2, <1>3, <1>4, <1>5, <1>6

LEMMA QueueStep == QueueInv /\ [Next]_vars => QueueInv'
<1> SUFFICES ASSUME QueueInv, [Next]_vars PROVE QueueInv'
  OBVIOUS
<1>1. CASE UNCHANGED vars
  <2>1. UNCHANGED <<pc, target, pending, reserved, recorded, sync, phase, log>>
    BY <1>1 DEF vars, lockvars, jvars
  <2> QED
    BY <2>1, QueueUndisturbed
<1>2. CASE Next
  BY <1>2, SignKeepsQueue, QueueStepsKeepQueue, ApproveKeepsQueue, ApproveCallKeepsQueue,
     BuildKeepsQueue, ReleaseKeepsQueue, RestKeepsQueue, Crashed DEF Next
<1> QED
  BY <1>1, <1>2

LEMMA QueueIsSound == Spec => []QueueInv
  BY QueueInit, QueueStep, PTL DEF Spec

(***************************************************************************)
(* The property HeldForTheQueue: budget is held for exactly the requests   *)
(* in the queue and those an operator is having signed, whoever closes     *)
(* them and whenever the daemon dies.                                      *)
(***************************************************************************)
THEOREM HeldBudgetIsTheQueues == Spec => []HeldForTheQueue
<1>1. QueueInv => HeldForTheQueue
  <2> SUFFICES ASSUME QueueInv PROVE HeldForTheQueue
    OBVIOUS
  <2>1. BeingApproved = {target[o] : o \in {x \in Operators : Approving(x)}}
    BY DEF BeingApproved, Approving
  <2>2. \A r : r \in BeingApproved <=> \E o \in Operators : Approving(o) /\ target[o] = r
    BY <2>1
  <2> QED
    BY <2>2 DEF HeldForTheQueue, QueueInv, Held, IsHeld
<1> QED
  BY <1>1, QueueIsSound, PTL

(***************************************************************************)
(* The property SignedOnce: a request is with one session that signs, and  *)
(* one that was turned down has no transaction, then or later, a restart   *)
(* included.                                                               *)
(***************************************************************************)
THEOREM NothingIsSignedTwice == Spec => []SignedOnce
<1>1. QueueInv => SignedOnce
  <2> SUFFICES ASSUME QueueInv PROVE SignedOnce
    OBVIOUS
  <2>1. \A s1 \in Requests \cup Operators : pc[s1] = "walletLock" => On(s1) \notin recorded
    BY Apart DEF QueueInv, Once, Early, On
  <2>2. ASSUME NEW s1 \in Requests \cup Operators, NEW s2 \in Requests \cup Operators,
               pc[s1] = "walletLock", pc[s2] \in {"walletLock", "recording"}, s1 # s2
        PROVE  On(s1) # On(s2)
    BY <2>2, Apart DEF QueueInv, Held, Approving, On
  <2>3. \A e \in log : e.event \in TurnedDownBy => e.of \notin recorded
    BY DEF QueueInv, Once
  <2> QED
    BY <2>1, <2>2, <2>3 DEF SignedOnce, TurnedDownBy
<1> QED
  BY <1>1, QueueIsSound, PTL

-----------------------------------------------------------------------------
(***************************************************************************)
(* The outputs committed to payments that were handed out.                 *)
(***************************************************************************)
HoldTypes ==
    /\ now \in Nat
    /\ inFlight \in [UTxOs -> Nat]
    /\ \A i \in inputs : i.of \subseteq UTxOs /\ i.at \in Nat /\ i.at <= now

HeldLongEnough == \A i \in inputs : \A u \in i.of : inFlight[u] >= i.at + Hold

HoldInv == HoldTypes /\ HeldLongEnough /\ NoSharedInput

LEMMA HoldInit == Init => HoldInv
  BY DEF Init, J!Init, HoldInv, HoldTypes, HeldLongEnough, NoSharedInput

LEMMA CommitKeepsHolds ==
  ASSUME HoldInv, NEW s \in Requests \cup Operators, Commit(s) PROVE HoldInv'
<1>1. PICK of \in SUBSET UTxOs : \E nonce \in of : Free(of, nonce) /\ Claim(On(s), of, nonce)
  BY DEF Commit
<1>2. /\ now' = now
      /\ \A u \in of : inFlight[u] <= now
      /\ inFlight' = [u \in UTxOs |-> IF u \in of THEN now + Hold ELSE inFlight[u]]
      /\ inputs' = inputs \cup {[tx |-> On(s), of |-> of, at |-> now]}
  BY <1>1 DEF Commit, J!Push, Free, Claim
<1>3. Hold \in Nat
  BY SignerdAssumption
<1>4. HoldTypes'
  BY <1>2, <1>3 DEF HoldInv, HoldTypes
<1>5. HeldLongEnough'
  <2> SUFFICES ASSUME NEW i \in inputs', NEW u \in i.of PROVE inFlight'[u] >= i.at + Hold
    BY DEF HeldLongEnough
  <2>1. u \in UTxOs /\ i.at \in Nat /\ i.at <= now /\ now \in Nat
    BY <1>2, <1>4 DEF HoldInv, HoldTypes
  <2>2. i \in inputs => inFlight[u] >= i.at + Hold
    BY DEF HoldInv, HeldLongEnough
  <2>3. inFlight[u] \in Nat
    BY <2>1 DEF HoldInv, HoldTypes
  <2>4. i \notin inputs => u \in of
    BY <1>2
  <2> QED
    BY <1>2, <1>3, <2>1, <2>2, <2>3, <2>4
<1>6. NoSharedInput'
  <2>1. ASSUME NEW j \in inputs, j.of \cap of # {} PROVE now >= j.at + Hold
    <3>1. PICK u \in j.of : u \in of
      BY <2>1
    <3>2. inFlight[u] >= j.at + Hold /\ inFlight[u] <= now
      BY <1>2, <3>1 DEF HoldInv, HeldLongEnough
    <3>3. inFlight[u] \in Nat /\ j.at \in Nat /\ now \in Nat
      BY <3>1 DEF HoldInv, HoldTypes
    <3> QED
      BY <1>3, <3>2, <3>3
  <2> SUFFICES ASSUME NEW i \in inputs', NEW j \in inputs', i # j, i.of \cap j.of # {}
               PROVE  i.at >= j.at + Hold \/ j.at >= i.at + Hold
    BY DEF NoSharedInput
  <2>2. \A x \in inputs' : x \in inputs \/ x = [tx |-> On(s), of |-> of, at |-> now]
    BY <1>2
  <2>3. CASE i \in inputs /\ j \in inputs
    BY <2>3 DEF HoldInv, NoSharedInput
  <2>4. CASE i \in inputs /\ j \notin inputs
    BY <2>1, <2>2, <2>4
  <2>5. CASE i \notin inputs /\ j \in inputs
    BY <2>1, <2>2, <2>5
  <2>6. CASE i \notin inputs /\ j \notin inputs
    BY <2>2, <2>6
  <2> QED
    BY <2>3, <2>4, <2>5, <2>6
<1> QED
  BY <1>4, <1>5, <1>6 DEF HoldInv

LEMMA TickKeepsHolds == ASSUME HoldInv, Tick PROVE HoldInv'
<1>1. now' = now + 1 /\ UNCHANGED <<inFlight, inputs>>
  BY DEF Tick, J!Tick, holdvars
<1>2. HoldTypes'
  BY <1>1 DEF HoldInv, HoldTypes
<1> QED
  BY <1>1, <1>2 DEF HoldInv, HeldLongEnough, NoSharedInput

LEMMA HoldStep == HoldInv /\ [Next]_vars => HoldInv'
<1> SUFFICES ASSUME HoldInv, [Next]_vars PROVE HoldInv'
  OBVIOUS
<1>1. ASSUME UNCHANGED <<now, inFlight, inputs>> PROVE HoldInv'
  BY <1>1 DEF HoldInv, HoldTypes, HeldLongEnough, NoSharedInput
<1>2. ASSUME NEW r \in Requests, SignSteps(r) PROVE UNCHANGED <<now, inFlight, inputs>>
  BY <1>2 DEF SignSteps, Arrive, Denied, Allowed, Enqueue, Withdraw, Signed, Respond,
     ClosePending, J!AuditPending, J!AuditClosed, J!WriteCheckpoint, jvars, holdvars
<1>3. ASSUME NEW r \in Requests, QueueSteps(r) PROVE UNCHANGED <<now, inFlight, inputs>>
  BY <1>3 DEF QueueSteps, CallerLeaves, TimeOut, Deny, ApprovalEnds,
     ClosePending, J!AuditClosed, jvars, holdvars
<1>4. ASSUME NEW s \in Requests \cup Operators, BuildFails(s) \/ BuildRefused(s)
      PROVE  UNCHANGED <<now, inFlight, inputs>>
  BY <1>4 DEF BuildFails, BuildRefused, Refuse, J!AuditClosed, jvars, holdvars
<1>5. ASSUME NEW o \in Operators, ApproveSteps(o) PROVE UNCHANGED <<now, inFlight, inputs>>
  BY <1>5 DEF ApproveSteps, ApproveGone, ApproveStale, ApproveTaken, ApproveSigned, ApproveDone,
     ClosePending, J!AuditClosed, J!WriteCheckpoint, jvars, holdvars
<1>6. ASSUME NEW o \in Operators, NEW r \in Requests, Approve(o, r)
      PROVE  UNCHANGED <<now, inFlight, inputs>>
  BY <1>6 DEF Approve, jvars, holdvars
<1>7. ASSUME ReleaseSteps \/ \E r \in Requests : FindExpired(r) \/ World(r)
      PROVE  UNCHANGED <<now, inFlight, inputs>>
  BY <1>7 DEF ReleaseSteps, Release, ReleaseAgedOut, Released, FindExpired, World, Land, Expire,
     J!AuditRelease, J!WriteCheckpoint, jvars, holdvars
<1>8. ASSUME Record \/ Restart \/ FinishStart \/ \E p \in Edits : EditPolicy(p)
      PROVE  UNCHANGED <<now, inFlight, inputs>>
  BY <1>8 DEF Record, Restart, FinishStart, EditPolicy, J!AuditSigned, J!Replay,
     J!CloseAbandoned, J!WriteCheckpoint, jvars, holdvars
<1>9. CASE Crash
  <2>1. now' = now /\ inputs' = {} /\ inFlight' = [u \in UTxOs |-> 0]
    BY <1>9 DEF Crash, J!Crash
  <2> QED
    BY <2>1 DEF HoldInv, HoldTypes, HeldLongEnough, NoSharedInput
<1>10. CASE UNCHANGED vars
  BY <1>1, <1>10 DEF vars, jvars, holdvars
<1> QED
  BY <1>1, <1>2, <1>3, <1>4, <1>5, <1>6, <1>7, <1>8, <1>9, <1>10,
     CommitKeepsHolds, TickKeepsHolds DEF Next, BuildSteps

(***************************************************************************)
(* The property NoSharedInput: two transactions signed within a hold of    *)
(* each other spend no common output, for any number of outputs and of     *)
(* sessions that build at the same time.                                   *)
(***************************************************************************)
THEOREM NoOutputIsPromisedTwice == Spec => []NoSharedInput
<1>1. Spec => []HoldInv
  BY HoldInit, HoldStep, PTL DEF Spec
<1>2. HoldInv => NoSharedInput
  BY DEF HoldInv
<1> QED
  BY <1>1, <1>2, PTL

-----------------------------------------------------------------------------
(***************************************************************************)
(* The callers that leave.  A request whose caller is gone is in the queue *)
(* only during the section that put it there.                              *)
(***************************************************************************)
CallerTypes == caller \in [Requests -> {"open", "gone"}]

GoneAreLeaving == \A r \in pending : caller[r] = "open" \/ sync = r

CallerInv == QueueInv /\ CallerTypes /\ GoneAreLeaving

LEMMA CallersUndisturbed ==
  ASSUME CallerInv, caller' = caller, pending' \subseteq pending,
         sync' = sync \/ sync \notin pending
  PROVE  CallerTypes' /\ GoneAreLeaving'
  BY DEF CallerInv, CallerTypes, GoneAreLeaving

LEMMA CallerStep == CallerInv /\ [Next]_vars => CallerInv'
<1> SUFFICES ASSUME CallerInv, [Next]_vars PROVE CallerTypes' /\ GoneAreLeaving'
  BY QueueStep DEF CallerInv
<1>1. NoOne \notin pending /\ Releaser \notin pending /\ \A o \in Operators : o \notin pending
  BY Apart DEF CallerInv, QueueInv, QueueTypes
<1>2. sync \in Requests /\ phase = "logged" => sync \notin pending
  BY DEF CallerInv, QueueInv, Inside, Held
<1>3. ASSUME NEW r \in Requests, Enqueue(r) PROVE CallerTypes' /\ GoneAreLeaving'
  <2>1. /\ sync = NoOne /\ pending' = pending \cup {r} /\ caller' = caller
        /\ sync' = IF caller[r] = "open" THEN NoOne ELSE r
    BY <1>3 DEF Enqueue, Idle, AfterEnqueue
  <2> QED
    BY <1>1, <2>1 DEF CallerInv, CallerTypes, GoneAreLeaving
<1>4. ASSUME NEW r \in Requests, CallerLeaves(r) PROVE CallerTypes' /\ GoneAreLeaving'
  <2>1. /\ sync = NoOne /\ sync' = sync /\ caller' = [caller EXCEPT ![r] = "gone"]
        /\ pending' \subseteq pending /\ r \notin pending'
    BY <1>4 DEF CallerLeaves, Idle, ClosePending, lockvars
  <2>2. \A q \in pending' : caller'[q] = caller[q]
    BY <2>1 DEF CallerInv, CallerTypes
  <2> QED
    BY <1>1, <2>1, <2>2 DEF CallerInv, CallerTypes, GoneAreLeaving
<1>5. ASSUME NEW r \in Requests,
             Arrive(r) \/ Denied(r) \/ Allowed(r) \/ Respond(r) \/ TimeOut(r) \/ Deny(r)
                \/ FindExpired(r) \/ World(r)
      PROVE  CallerTypes' /\ GoneAreLeaving'
  <2>1. sync' = sync /\ caller' = caller /\ pending' \subseteq pending
    BY <1>5 DEF Arrive, Denied, Allowed, Respond, TimeOut, Deny, ApprovalEnds, ClosePending,
       FindExpired, World, Land, Expire, lockvars
  <2> QED
    BY <2>1, CallersUndisturbed
<1>6. ASSUME NEW r \in Requests, Withdraw(r) PROVE CallerTypes' /\ GoneAreLeaving'
  <2>1. sync = r /\ caller' = caller /\ pending' = pending \ {r}
    BY <1>6 DEF Withdraw, ClosePending
  <2> QED
    BY <2>1 DEF CallerInv, CallerTypes, GoneAreLeaving
<1>7. ASSUME NEW r \in Requests, Signed(r) PROVE CallerTypes' /\ GoneAreLeaving'
  <2>1. sync = r /\ phase = "logged" /\ caller' = caller /\ pending' = pending
    BY <1>7 DEF Signed
  <2> QED
    BY <1>2, <2>1, CallersUndisturbed
<1>8. ASSUME NEW s \in Requests \cup Operators, BuildSteps(s)
      PROVE  CallerTypes' /\ GoneAreLeaving'
  <2>1. sync = NoOne /\ caller' = caller /\ pending' = pending
    BY <1>8 DEF BuildSteps, BuildFails, BuildRefused, Refuse, Commit, Idle
  <2> QED
    BY <1>1, <2>1, CallersUndisturbed
<1>9. ASSUME NEW o \in Operators, ApproveSteps(o) \/ \E r \in Requests : Approve(o, r)
      PROVE  CallerTypes' /\ GoneAreLeaving'
  <2>1. sync \in {o, NoOne} /\ caller' = caller /\ pending' \subseteq pending
    BY <1>9 DEF ApproveSteps, ApproveGone, ApproveStale, ApproveTaken, ApproveSigned,
       ApproveDone, Approve, ClosePending, Idle
  <2> QED
    BY <1>1, <2>1, CallersUndisturbed
<1>10. ASSUME ReleaseSteps PROVE CallerTypes' /\ GoneAreLeaving'
  <2>1. sync \in {Releaser, NoOne} /\ caller' = caller /\ pending' = pending
    BY <1>10 DEF ReleaseSteps, Release, ReleaseAgedOut, Released, Idle
  <2> QED
    BY <1>1, <2>1, CallersUndisturbed
<1>11. ASSUME Record \/ Restart \/ FinishStart \/ Tick \/ \E p \in Edits : EditPolicy(p)
       PROVE  CallerTypes' /\ GoneAreLeaving'
  <2>1. sync' = sync /\ caller' = caller /\ pending' = pending
    BY <1>11 DEF Record, Restart, FinishStart, Tick, EditPolicy, lockvars
  <2> QED
    BY <2>1, CallersUndisturbed
<1>12. ASSUME Crash PROVE CallerTypes' /\ GoneAreLeaving'
  BY <1>12 DEF Crash, CallerInv, CallerTypes, GoneAreLeaving
<1>13. ASSUME UNCHANGED vars PROVE CallerTypes' /\ GoneAreLeaving'
  <2>1. sync' = sync /\ caller' = caller /\ pending' = pending
    BY <1>13 DEF vars, lockvars
  <2> QED
    BY <2>1, CallersUndisturbed
<1> QED
  BY <1>3, <1>4, <1>5, <1>6, <1>7, <1>8, <1>9, <1>10, <1>11, <1>12, <1>13
     DEF Next, SignSteps, QueueSteps

(***************************************************************************)
(* The property NoneQueuedForTheGone: whoever leaves, and whenever, no     *)
(* request is left in the queue for a human to approve in vain.            *)
(***************************************************************************)
THEOREM NobodyGoneIsQueued == Spec => []NoneQueuedForTheGone
<1>1. Init => CallerInv
  BY QueueInit DEF Init, CallerInv, CallerTypes, GoneAreLeaving
<1>2. Spec => []CallerInv
  BY <1>1, CallerStep, PTL DEF Spec
<1>3. CallerInv => NoneQueuedForTheGone
  BY Apart DEF CallerInv, QueueInv, QueueTypes, GoneAreLeaving, NoneQueuedForTheGone
<1> QED
  BY <1>2, <1>3, PTL

-----------------------------------------------------------------------------
(***************************************************************************)
(* The payment path keeps its files as Journal says: every step of the     *)
(* daemon is one of Journal's or leaves what Journal speaks of alone.      *)
(***************************************************************************)
WorksOnARequest ==
    \A x \in Operators \cup {Releaser} : pc[x] = "agentLock" => target[x] \in Requests

FilesInv == QueueInv /\ WorksOnARequest

(***************************************************************************)
(* An operator or the release pass waits for the lock from the moment it   *)
(* names its request to the moment it has the lock, and names no other.    *)
(***************************************************************************)
LEMMA TargetsStay ==
  ASSUME QueueInv, [Next]_vars, NEW x \in Operators \cup {Releaser}, pc'[x] = "agentLock"
  PROVE  \/ pc[x] = "agentLock" /\ target'[x] = target[x]
         \/ \E r \in Requests : target'[x] = r /\ (x = Releaser => FindExpired(r))
<1> DEFINE Stays == pc[x] = "agentLock" /\ target'[x] = target[x]
<1>1. /\ pc \in [Sessions -> Places]
      /\ target \in [Operators \cup {Releaser} -> Requests \cup {NoOne}]
      /\ x \in Sessions /\ x \notin Requests
  BY Apart DEF QueueInv, QueueTypes, Sessions
<1>2. ASSUME pc' = pc, target' = target PROVE Stays
  BY <1>2
<1>3. ASSUME NEW r \in Requests, SignSteps(r) \/ QueueSteps(r) \/ World(r) PROVE Stays
  <2>1. target' = target
    BY <1>3 DEF SignSteps, Arrive, Denied, Allowed, Enqueue, Withdraw, Signed, Respond,
       QueueSteps, CallerLeaves, TimeOut, Deny, ApprovalEnds, World, Land, Expire
  <2>2. pc' = pc \/ \E to : pc' = [pc EXCEPT ![r] = to]
    BY <1>3 DEF SignSteps, Arrive, Denied, Allowed, Enqueue, Withdraw, Signed, Respond,
       QueueSteps, CallerLeaves, TimeOut, Deny, ApprovalEnds, World, Land, Expire
  <2> QED
    BY <1>1, <2>1, <2>2
<1>4. ASSUME NEW r \in Requests, FindExpired(r)
      PROVE  Stays \/ (x = Releaser /\ target'[x] = r)
  BY <1>1, <1>4 DEF FindExpired
<1>5. ASSUME NEW o \in Operators, NEW r \in Requests, Approve(o, r)
      PROVE  Stays \/ (x = o /\ target'[x] = r)
  BY <1>1, <1>5 DEF Approve
<1>6. ASSUME NEW s \in Requests \cup Operators, Commit(s) PROVE Stays
  BY <1>1, <1>6 DEF Commit
<1>7. ASSUME NEW s \in Requests \cup Operators, BuildFails(s) \/ BuildRefused(s) PROVE Stays
  <2>1. Refuse(s)
    BY <1>7 DEF BuildFails, BuildRefused
  <2>2. CASE s \in Requests
    BY <1>1, <2>1, <2>2 DEF Refuse
  <2>3. CASE s \notin Requests
    <3>1. /\ pc' = [pc EXCEPT ![s] = "idle", ![On(s)] = "settled"]
          /\ target' = [target EXCEPT ![s] = NoOne]
      BY <2>1, <2>3 DEF Refuse, Returns
    <3>2. x # s /\ x # On(s)
      BY <1>1, <3>1
    <3> QED
      BY <1>1, <3>1, <3>2
  <2> QED
    BY <2>2, <2>3
<1>8. ASSUME NEW o \in Operators, ApproveSteps(o) PROVE Stays
  <2>1. CASE ApproveTaken(o) \/ ApproveSigned(o)
    BY <1>1, <2>1 DEF ApproveTaken, ApproveSigned
  <2>2. CASE ApproveGone(o) \/ ApproveStale(o) \/ ApproveDone(o)
    <3>1. /\ \/ pc' = [pc EXCEPT ![o] = "idle"]
             \/ pc' = [pc EXCEPT ![o] = "idle", ![target[o]] = "settled"]
          /\ target' = [target EXCEPT ![o] = NoOne]
      BY <2>2 DEF ApproveGone, ApproveStale, ApproveDone, Returns
    <3> QED
      BY <1>1, <3>1
  <2> QED
    BY <1>8, <2>1, <2>2 DEF ApproveSteps
<1>9. ASSUME ReleaseSteps PROVE Stays
  BY <1>1, <1>9 DEF ReleaseSteps, Release, ReleaseAgedOut, Released, Returns
<1>10. ASSUME Record \/ Restart \/ FinishStart \/ Tick \/ \E p \in Edits : EditPolicy(p) PROVE Stays
  BY <1>2, <1>10 DEF Record, Restart, FinishStart, Tick, EditPolicy
<1>11. ASSUME Crash PROVE Stays
  BY <1>1, <1>11 DEF Crash
<1>12. ASSUME UNCHANGED vars PROVE Stays
  BY <1>2, <1>12 DEF vars
<1> HIDE DEF Stays
<1>13. \/ Stays
       \/ \E r \in Requests : FindExpired(r) /\ x = Releaser /\ target'[x] = r
       \/ \E o \in Operators, r \in Requests : x = o /\ target'[x] = r
  BY <1>3, <1>4, <1>5, <1>6, <1>7, <1>8, <1>9, <1>10, <1>11, <1>12 DEF Next, BuildSteps
<1> QED
  BY <1>13, Apart DEF Stays

LEMMA FilesStep == FilesInv /\ [Next]_vars => FilesInv'
<1> SUFFICES ASSUME FilesInv, [Next]_vars PROVE WorksOnARequest'
  BY QueueStep DEF FilesInv
<1> QED
  BY TargetsStay DEF FilesInv, WorksOnARequest

LEMMA FilesInit == Init => FilesInv
  BY QueueInit, Apart DEF Init, FilesInv, WorksOnARequest, Sessions

LEMMA FilesAreSound == Spec => []FilesInv
  BY FilesInit, FilesStep, PTL DEF Spec

LEMMA FilesAlone ==
  ASSUME UNCHANGED <<jvars, reserved>> PROVE UNCHANGED J!jvars
  BY DEF jvars, J!jvars, J!memory, J!disk, J!history

LEMMA SignMapsToJournal ==
  ASSUME NEW r \in Requests, SignSteps(r) PROVE [J!Next]_(J!jvars)
<1>1. ASSUME UNCHANGED <<jvars, reserved>> PROVE [J!Next]_(J!jvars)
  BY <1>1, FilesAlone
<1>2. CASE Enqueue(r)
  BY <1>2 DEF Enqueue, J!Next
<1>3. CASE Withdraw(r)
  BY <1>3 DEF Withdraw, ClosePending, J!Next, J!ClosingEvents
<1>4. CASE Signed(r)
  BY <1>4 DEF Signed, J!Next
<1>5. CASE Arrive(r) \/ Denied(r) \/ Allowed(r) \/ Respond(r)
  BY <1>1, <1>5 DEF Arrive, Denied, Allowed, Respond
<1> QED
  BY <1>2, <1>3, <1>4, <1>5 DEF SignSteps

LEMMA QueueMapsToJournal ==
  ASSUME NEW r \in Requests, QueueSteps(r) PROVE [J!Next]_(J!jvars)
<1>1. ASSUME UNCHANGED <<jvars, reserved>> PROVE [J!Next]_(J!jvars)
  BY <1>1, FilesAlone
<1>2. CASE CallerLeaves(r)
  <2>1. J!AuditClosed(r, "pending_abandoned") \/ UNCHANGED <<jvars, reserved>>
    BY <1>2 DEF CallerLeaves, ClosePending
  <2> QED
    BY <1>1, <2>1 DEF J!Next, J!ClosingEvents
<1>3. CASE TimeOut(r)
  BY <1>3 DEF TimeOut, ApprovalEnds, ClosePending, J!Next, J!ClosingEvents
<1>4. CASE Deny(r)
  BY <1>4 DEF Deny, ApprovalEnds, ClosePending, J!Next, J!ClosingEvents
<1> QED
  BY <1>2, <1>3, <1>4 DEF QueueSteps

LEMMA BuildMapsToJournal ==
  ASSUME FilesInv, NEW s \in Requests \cup Operators, BuildSteps(s) PROVE [J!Next]_(J!jvars)
<1>1. ASSUME UNCHANGED <<jvars, reserved>> PROVE [J!Next]_(J!jvars)
  BY <1>1, FilesAlone
<1>2. pc[s] = "walletLock"
  BY DEF BuildSteps, BuildFails, BuildRefused, Commit
<1>3. On(s) \in Requests
  <2>1. CASE s \in Requests
    BY <2>1 DEF On
  <2>2. CASE s \in Operators
    BY <1>2, <2>2, Apart DEF FilesInv, QueueInv, Held, Approving, On
  <2> QED
    BY <2>1, <2>2
<1>4. CASE BuildFails(s) \/ BuildRefused(s)
  <2>1. Refuse(s)
    BY <1>4 DEF BuildFails, BuildRefused
  <2>2. UNCHANGED <<jvars, reserved>> \/ J!AuditClosed(On(s), "approval_sign_error")
    BY <2>1 DEF Refuse
  <2> QED
    BY <1>1, <1>3, <2>2 DEF J!Next, J!ClosingEvents
<1>5. CASE Commit(s)
  <2>1. PICK overhead \in Overheads : J!Push(Bill(On(s), overhead))
    BY <1>5 DEF Commit
  <2>2. Bill(On(s), overhead) \in Bills
    BY <1>3 DEF Bills
  <2> QED
    BY <2>1, <2>2 DEF J!Next
<1> QED
  BY <1>4, <1>5 DEF BuildSteps

LEMMA ApproveMapsToJournal ==
  ASSUME FilesInv, NEW o \in Operators, ApproveSteps(o) PROVE [J!Next]_(J!jvars)
<1>1. ASSUME UNCHANGED <<jvars, reserved>> PROVE [J!Next]_(J!jvars)
  BY <1>1, FilesAlone
<1>2. CASE ApproveStale(o)
  <2>1. target[o] \in Requests /\ J!AuditClosed(target[o], "approval_stale")
    BY <1>2 DEF ApproveStale, ClosePending, FilesInv, QueueInv, QueueTypes
  <2> QED
    BY <2>1 DEF J!Next, J!ClosingEvents
<1>3. CASE ApproveSigned(o)
  BY <1>3 DEF ApproveSigned, J!Next
<1>4. CASE ApproveDone(o)
  <2>1. target[o] \in Requests /\ J!AuditClosed(target[o], "approved")
    BY <1>4 DEF ApproveDone, FilesInv, QueueInv, Held, Approving
  <2> QED
    BY <2>1 DEF J!Next, J!ClosingEvents
<1>5. CASE ApproveGone(o) \/ ApproveTaken(o)
  BY <1>1, <1>5 DEF ApproveGone, ApproveTaken
<1> QED
  BY <1>2, <1>3, <1>4, <1>5 DEF ApproveSteps

LEMMA ReleaseMapsToJournal ==
  ASSUME FilesInv, ReleaseSteps PROVE [J!Next]_(J!jvars)
<1>1. CASE Release
  <2>1. J!AuditRelease(target[Releaser]) /\ target[Releaser] \in Requests
    BY <1>1 DEF Release, FilesInv, WorksOnARequest
  <2>2. target[Releaser] \in J!Txs
    <3>1. PICK overhead \in Overheads : TRUE
      BY SignerdAssumption
    <3>2. Bill(target[Releaser], overhead) \in Bills
      BY <2>1 DEF Bills
    <3>3. Bill(target[Releaser], overhead).tx = target[Releaser]
      BY DEF Bill
    <3> QED
      BY <3>2, <3>3 DEF J!Txs
  <2> QED
    BY <2>1, <2>2 DEF J!Next
<1>2. CASE ReleaseAgedOut
  BY <1>2, FilesAlone DEF ReleaseAgedOut
<1>3. CASE Released
  BY <1>3 DEF Released, J!Next
<1> QED
  BY <1>1, <1>2, <1>3 DEF ReleaseSteps

LEMMA StepMapsToJournal == FilesInv /\ [Next]_vars => [J!Next]_(J!jvars)
<1> SUFFICES ASSUME FilesInv, [Next]_vars PROVE [J!Next]_(J!jvars)
  OBVIOUS
<1>1. ASSUME UNCHANGED <<jvars, reserved>> PROVE [J!Next]_(J!jvars)
  BY <1>1, FilesAlone
<1>2. ASSUME NEW r \in Requests, FindExpired(r) \/ World(r) PROVE [J!Next]_(J!jvars)
  BY <1>1, <1>2 DEF FindExpired, World, Land, Expire
<1>3. ASSUME NEW o \in Operators, NEW r \in Requests, Approve(o, r) PROVE [J!Next]_(J!jvars)
  BY <1>1, <1>3 DEF Approve
<1>4. CASE Record
  BY <1>4 DEF Record, J!Next
<1>5. CASE Crash
  BY <1>5 DEF Crash, J!Next
<1>6. CASE Restart
  BY <1>6 DEF Restart, J!Next
<1>7. CASE FinishStart
  BY <1>7 DEF FinishStart, J!Next
<1>8. CASE Tick
  BY <1>8 DEF Tick, J!Next
<1>9. CASE \E p \in Edits : EditPolicy(p)
  BY <1>1, <1>9 DEF EditPolicy
<1>10. CASE UNCHANGED vars
  BY <1>1, <1>10 DEF vars
<1> QED
  BY <1>2, <1>3, <1>4, <1>5, <1>6, <1>7, <1>8, <1>9, <1>10, SignMapsToJournal,
     QueueMapsToJournal, BuildMapsToJournal, ApproveMapsToJournal, ReleaseMapsToJournal DEF Next

(***************************************************************************)
(* The property ImplementsJournal: whatever interleaves, the daemon writes *)
(* its ledger, log and checkpoint in the orders Journal allows, so what    *)
(* Journal's theorems say of a restart they say of this daemon.            *)
(***************************************************************************)
THEOREM ThePaymentPathImplementsJournal == Spec => ImplementsJournal
<1>1. Init => J!Init
  BY DEF Init
<1> QED
  BY <1>1, FilesAreSound, StepMapsToJournal, PTL DEF Spec, ImplementsJournal, J!Spec

-----------------------------------------------------------------------------
(***************************************************************************)
(* Sums of spends.  A sum is the number of units in a set, so what is      *)
(* known of finite sets is known of it.                                    *)
(***************************************************************************)
Summable(S) == IsFiniteSet(Units(S))

LEMMA UnitsJoin ==
  ASSUME NEW S, NEW T
  PROVE  Units(S \cup T) = Units(S) \cup Units(T)
BY DEF Units

LEMMA FewerUnits ==
  ASSUME NEW T, Summable(T), NEW S \in SUBSET T
  PROVE  /\ Summable(S)
         /\ Total(S) \in Nat /\ Total(T) \in Nat
         /\ Total(S) <= Total(T)
<1>1. Units(S) \in SUBSET Units(T)
  BY DEF Units
<1> QED
  BY <1>1, FS_Subset, FS_CardinalityType DEF Summable, Total

LEMMA OneSpend ==
  ASSUME NEW s, s.amount \in Nat
  PROVE  Summable({s}) /\ Total({s}) = s.amount
<1>1. Units({s}) = {s} \X (1 .. s.amount)
  BY DEF Units, UnitsOf
<1>2. IsFiniteSet(1 .. s.amount) /\ Cardinality(1 .. s.amount) = s.amount
  BY FS_Interval
<1>3. IsFiniteSet({s}) /\ Cardinality({s}) = 1
  BY FS_Singleton
<1>4. /\ IsFiniteSet({s} \X (1 .. s.amount))
      /\ Cardinality({s} \X (1 .. s.amount)) = Cardinality({s}) * Cardinality(1 .. s.amount)
  BY <1>2, <1>3, FS_Product
<1>5. Cardinality({s} \X (1 .. s.amount)) = s.amount
  BY <1>2, <1>3, <1>4
<1> QED
  BY <1>1, <1>4, <1>5 DEF Summable, Total

LEMMA JoinedUnits ==
  ASSUME NEW S, NEW T, Summable(S), Summable(T)
  PROVE  /\ Summable(S \cup T)
         /\ Total(S \cup T) <= Total(S) + Total(T)
<1>1. Units(S \cup T) = Units(S) \cup Units(T)
  BY UnitsJoin
<1>2. /\ IsFiniteSet(Units(S) \cup Units(T))
      /\ Cardinality(Units(S) \cup Units(T)) =
           Cardinality(Units(S)) + Cardinality(Units(T)) - Cardinality(Units(S) \cap Units(T))
  BY FS_Union DEF Summable
<1>3. /\ Cardinality(Units(S)) \in Nat /\ Cardinality(Units(T)) \in Nat
      /\ Cardinality(Units(S) \cap Units(T)) \in Nat
  BY FS_CardinalityType, FS_Intersection DEF Summable
<1>4. ASSUME NEW l \in Nat, NEW m \in Nat, NEW n \in Nat PROVE l + m - n <= l + m
  OBVIOUS
<1>5. Cardinality(Units(S \cup T)) <= Cardinality(Units(S)) + Cardinality(Units(T))
  BY <1>1, <1>2, <1>3, <1>4
<1> QED
  BY <1>1, <1>2, <1>5 DEF Summable, Total

LEMMA OneSpendMore ==
  ASSUME NEW S, Summable(S), NEW s, s.amount \in Nat
  PROVE  /\ Summable(S \cup {s})
         /\ Total(S \cup {s}) <= Total(S) + s.amount
         /\ s \notin S => Total(S \cup {s}) = Total(S) + s.amount
<1>1. Summable(S \cup {s}) /\ Total(S \cup {s}) <= Total(S) + s.amount
  BY OneSpend, JoinedUnits
<1>2. ASSUME s \notin S PROVE Total(S \cup {s}) = Total(S) + s.amount
  <2>1. Units(S) \cap Units({s}) = {}
    BY <1>2 DEF Units, UnitsOf
  <2>2. Cardinality(Units(S) \cup Units({s})) =
          Cardinality(Units(S)) + Cardinality(Units({s})) - Cardinality(Units(S) \cap Units({s}))
    BY OneSpend, FS_Union DEF Summable
  <2>3. Cardinality(Units(S)) \in Nat /\ Cardinality(Units({s})) = s.amount
    BY OneSpend, FS_CardinalityType DEF Summable, Total
  <2>4. Cardinality(Units(S) \cap Units({s})) = 0
    BY <2>1, FS_EmptySet
  <2>5. Units(S \cup {s}) = Units(S) \cup Units({s})
    BY UnitsJoin
  <2>6. ASSUME NEW l \in Nat, NEW m \in Nat PROVE l + m - 0 = l + m
    OBVIOUS
  <2>7. Cardinality(Units(S) \cup Units({s})) = Cardinality(Units(S)) + s.amount
    BY <2>2, <2>3, <2>4, <2>6
  <2> QED
    BY <2>5, <2>7 DEF Total
<1> QED
  BY <1>1, <1>2

-----------------------------------------------------------------------------
(***************************************************************************)
(* Who has begun to sign, or to give back, holds the agent's lock to the   *)
(* end of it.                                                              *)
(***************************************************************************)
Holding(s) == pc[s] \in {"walletLock", "recording", "approved"}

LocksHeld ==
    /\ agentQ \in [Agents -> Seq(Sessions)]
    /\ sync = Releaser => pc[Releaser] = "recording"
    /\ \A s \in Sessions : Holding(s) => On(s) \in Requests /\ HasAgentLock(s)

LEMMA AgentOfRequest == \A r \in Requests : Q[r].agent \in Agents
  BY SignerdAssumption

LEMMA QueueEnds ==
  ASSUME NEW S, NEW q \in Seq(S), NEW x \in S
  PROVE  /\ Append(q, x) \in Seq(S) /\ Append(q, x) # << >>
         /\ q # << >> => Head(Append(q, x)) = Head(q) /\ Tail(q) \in Seq(S)
BY AppendProperties, HeadTailAppend, HeadTailProperties

(* A step that leaves the queues as they are. *)
LEMMA LocksKept ==
  ASSUME LocksHeld, agentQ' = agentQ,
         sync' = Releaser => pc'[Releaser] = "recording",
         \A s \in Sessions : Holding(s)' =>
            /\ On(s)' = On(s)
            /\ Holding(s) \/ (On(s) \in Requests /\ HasAgentLock(s))
  PROVE  LocksHeld'
BY DEF LocksHeld, HasAgentLock, AgentOf

(* A session that joins its agent's queue gets behind whoever holds it. *)
LEMMA LocksJoined ==
  ASSUME LocksHeld, NEW x \in Sessions, NEW a \in Agents, JoinAgent(x, a),
         sync' = Releaser => pc'[Releaser] = "recording",
         \A s \in Sessions : Holding(s)' => On(s)' = On(s) /\ Holding(s)
  PROVE  LocksHeld'
<1>1. agentQ \in [Agents -> Seq(Sessions)] /\ agentQ' = [agentQ EXCEPT ![a] = Append(@, x)]
  BY DEF LocksHeld, JoinAgent
<1>2. agentQ' \in [Agents -> Seq(Sessions)]
  BY <1>1, QueueEnds
<1>3. ASSUME NEW b \in Agents, agentQ[b] # << >>
      PROVE  agentQ'[b] # << >> /\ Head(agentQ'[b]) = Head(agentQ[b])
  BY <1>1, <1>3, QueueEnds
<1>4. ASSUME NEW s \in Sessions, Holding(s)' PROVE On(s)' \in Requests /\ HasAgentLock(s)'
  <2>1. On(s)' = On(s) /\ On(s) \in Requests /\ HasAgentLock(s)
    BY <1>4 DEF LocksHeld
  <2> QED
    BY <1>3, <2>1, AgentOfRequest DEF HasAgentLock, AgentOf
<1> QED
  BY <1>2, <1>4 DEF LocksHeld

(* The holder of a lock that leaves it is in no section any more. *)
LEMMA LocksLeft ==
  ASSUME LocksHeld, NEW x \in Sessions, On(x) \in Requests, HasAgentLock(x), LeaveAgent(x),
         sync' = Releaser => pc'[Releaser] = "recording",
         ~Holding(x)',
         \A s \in Sessions : Holding(s)' => On(s)' = On(s) /\ Holding(s)
  PROVE  LocksHeld'
<1> DEFINE a == AgentOf(x)
<1>1. a \in Agents
  BY AgentOfRequest DEF AgentOf
<1>2. /\ agentQ \in [Agents -> Seq(Sessions)] /\ agentQ' = [agentQ EXCEPT ![a] = Tail(@)]
      /\ agentQ[a] # << >> /\ Head(agentQ[a]) = x
  BY DEF LocksHeld, LeaveAgent, HasAgentLock
<1> HIDE DEF a
<1>3. agentQ' \in [Agents -> Seq(Sessions)]
  BY <1>1, <1>2, QueueEnds
<1>4. ASSUME NEW s \in Sessions, Holding(s)' PROVE On(s)' \in Requests /\ HasAgentLock(s)'
  <2>1. /\ On(s)' = On(s) /\ On(s) \in Requests /\ s # x
        /\ agentQ[AgentOf(s)] # << >> /\ Head(agentQ[AgentOf(s)]) = s
    BY <1>4 DEF LocksHeld, HasAgentLock
  <2>2. AgentOf(s) # a /\ AgentOf(s) \in Agents /\ AgentOf(s)' = AgentOf(s)
    BY <1>2, <2>1, AgentOfRequest DEF AgentOf
  <2> QED
    BY <1>2, <2>1, <2>2 DEF HasAgentLock
<1> QED
  BY <1>3, <1>4 DEF LocksHeld

(* Two sessions do not hold one agent's lock. *)
LEMMA OneHolder ==
  ASSUME LocksHeld, NEW s \in Sessions, NEW x \in Sessions, Holding(s),
         HasAgentLock(x), AgentOf(s) = AgentOf(x)
  PROVE  s = x
BY DEF LocksHeld, HasAgentLock

LEMMA OnRequests == \A s \in Sessions : On(s) = IF s \in Requests THEN s ELSE target[s]
  BY DEF On

LEMMA SignKeepsLocks ==
  ASSUME FilesInv, LocksHeld, NEW r \in Requests, SignSteps(r) PROVE LocksHeld'
<1>1. /\ pc \in [Sessions -> Places] /\ r \in Sessions /\ On(r) = r /\ r # Releaser
      /\ r # NoOne /\ Releaser # NoOne /\ Q[r].agent \in Agents
  BY Apart, AgentOfRequest DEF FilesInv, QueueInv, QueueTypes, Sessions, On
<1>2. target' = target
  BY DEF SignSteps, Arrive, Denied, Allowed, Enqueue, Withdraw, Signed, Respond
<1>3. \A s : On(s)' = On(s)
  BY <1>2 DEF On
<1>4. ASSUME NEW to \in Places, pc' = [pc EXCEPT ![r] = to], to \in {"walletLock"} => HasAgentLock(r),
             to \notin {"recording", "approved"}
      PROVE  /\ pc'[Releaser] = pc[Releaser]
             /\ \A s \in Sessions : Holding(s)' => Holding(s) \/ (On(s) \in Requests /\ HasAgentLock(s))
             /\ to # "walletLock" =>
                   ~Holding(r)' /\ \A s \in Sessions : Holding(s)' => Holding(s)
  BY <1>1, <1>4 DEF Holding, Sessions
<1>5. CASE Arrive(r)
  <2>1. /\ pc' = [pc EXCEPT ![r] = "agentLock"] /\ JoinAgent(r, Q[r].agent) /\ sync' = NoOne
    BY <1>5 DEF Arrive, Idle, lockvars
  <2>2. \A s \in Sessions : Holding(s)' => Holding(s)
    BY <2>1, <1>4 DEF Places
  <2> QED
    BY <1>1, <1>3, <2>1, <2>2, LocksJoined
<1>6. CASE Denied(r) \/ Enqueue(r) \/ Signed(r)
  <2>1. /\ \E to \in {"settled", "queued"} : pc' = [pc EXCEPT ![r] = to]
        /\ LeaveAgent(r) /\ sync' \in {NoOne, r}
    BY <1>6 DEF Denied, Enqueue, Signed, Idle, AfterEnqueue
  <2>2. HasAgentLock(r)
    <3>1. CASE Signed(r)
      <4>1. pc[r] = "recording"
        BY <3>1 DEF Signed, FilesInv, QueueInv, Inside
      <4> QED
        BY <4>1, <1>1 DEF LocksHeld, Holding
    <3> QED
      BY <1>6, <3>1 DEF Denied, Enqueue
  <2>3. ~Holding(r)' /\ \A s \in Sessions : Holding(s)' => Holding(s)
    BY <2>1, <1>4 DEF Places
  <2> QED
    BY <1>1, <1>3, <2>1, <2>2, <2>3, LocksLeft
<1>7. CASE Allowed(r) \/ Withdraw(r) \/ Respond(r)
  <2>1. /\ agentQ' = agentQ /\ sync' \in {NoOne, r}
        /\ \/ pc' = [pc EXCEPT ![r] = "walletLock"] /\ HasAgentLock(r)
           \/ \E to \in {"settled", "answered", "undelivered"} : pc' = [pc EXCEPT ![r] = to]
    BY <1>7 DEF Allowed, Withdraw, Respond, lockvars, Idle
  <2>2. \A s \in Sessions : Holding(s)' => Holding(s) \/ (On(s) \in Requests /\ HasAgentLock(s))
    BY <2>1, <1>4 DEF Places
  <2> QED
    BY <1>1, <1>3, <2>1, <2>2, LocksKept
<1> QED
  BY <1>5, <1>6, <1>7 DEF SignSteps

LEMMA OperatorPlaces ==
  ASSUME FilesInv, LocksHeld, NEW o \in Operators, Holding(o)
  PROVE  On(o) = target[o] /\ target[o] \in Requests /\ HasAgentLock(o)
BY Apart DEF LocksHeld, On, Sessions

LEMMA BuildKeepsLocks ==
  ASSUME FilesInv, LocksHeld, NEW s \in Requests \cup Operators, BuildSteps(s) PROVE LocksHeld'
<1>1. /\ pc \in [Sessions -> Places] /\ s \in Sessions /\ s # Releaser
      /\ s # NoOne /\ Releaser # NoOne
      /\ target \in [Operators \cup {Releaser} -> Requests \cup {NoOne}]
  BY Apart DEF FilesInv, QueueInv, QueueTypes, Sessions
<1>2. pc[s] = "walletLock" /\ Holding(s) /\ Idle
  BY DEF BuildSteps, BuildFails, BuildRefused, Commit, Holding
<1>3. On(s) \in Requests /\ HasAgentLock(s)
  BY <1>1, <1>2 DEF LocksHeld
<1>4. CASE BuildFails(s) \/ BuildRefused(s)
  <2>1. Refuse(s)
    BY <1>4 DEF BuildFails, BuildRefused
  <2>2. LeaveAgent(s) /\ sync' = NoOne
    BY <1>2, <2>1 DEF Refuse, Idle
  <2>3. /\ \A x \in Sessions : pc'[x] = pc[x] \/ pc'[x] \in {"settled", "idle"}
        /\ pc'[s] \in {"settled", "idle"}
    <3>1. CASE s \in Requests
      BY <1>1, <2>1, <3>1 DEF Refuse
    <3>2. CASE s \notin Requests
      <4>1. pc' = [pc EXCEPT ![s] = "idle", ![On(s)] = "settled"]
        BY <2>1, <3>2 DEF Refuse
      <4> QED
        BY <1>1, <4>1
    <3> QED
      BY <3>1, <3>2
  <2>4. ~Holding(s)' /\ \A x \in Sessions : Holding(x)' => Holding(x) /\ x # s
    BY <2>3 DEF Holding
  <2>5. target' = target \/ target' = [target EXCEPT ![s] = NoOne]
    BY <2>1 DEF Refuse, Returns
  <2>6. \A x \in Sessions : x # s => On(x)' = On(x)
    BY <1>1, <2>5, Apart DEF On, Sessions
  <2> QED
    BY <1>1, <1>3, <2>2, <2>4, <2>6, LocksLeft
<1>5. CASE Commit(s)
  <2>1. agentQ' = agentQ /\ sync' = s /\ pc' = [pc EXCEPT ![s] = "recording"] /\ target' = target
    BY <1>5 DEF Commit
  <2>2. \A x \in Sessions : Holding(x)' => Holding(x)
    BY <1>1, <1>2, <2>1 DEF Holding
  <2>3. \A x : On(x)' = On(x)
    BY <2>1 DEF On
  <2> QED
    BY <1>1, <2>1, <2>2, <2>3, LocksKept
<1> QED
  BY <1>4, <1>5 DEF BuildSteps

LEMMA ApproveKeepsLocks ==
  ASSUME FilesInv, LocksHeld, NEW o \in Operators, ApproveSteps(o) PROVE LocksHeld'
<1>1. /\ pc \in [Sessions -> Places] /\ o \in Sessions /\ o # Releaser
      /\ o # NoOne /\ Releaser # NoOne /\ On(o) = target[o]
      /\ target \in [Operators \cup {Releaser} -> Requests \cup {NoOne}]
      /\ pending \subseteq Requests
  BY Apart DEF FilesInv, QueueInv, QueueTypes, Sessions, On
<1>2. ASSUME target' = [target EXCEPT ![o] = NoOne]
      PROVE  \A x \in Sessions : x # o => On(x)' = On(x)
  BY <1>1, <1>2, Apart DEF On, Sessions
<1>3. CASE ApproveGone(o) \/ ApproveStale(o) \/ ApproveDone(o)
  <2>1. LeaveAgent(o) /\ sync' = NoOne /\ Returns(o)
    BY <1>3 DEF ApproveGone, ApproveStale, ApproveDone, Idle
  <2>2. HasAgentLock(o) /\ On(o) \in Requests
    <3>1. CASE ApproveDone(o)
      <4>1. Holding(o)
        BY <3>1 DEF ApproveDone, Holding
      <4> QED
        BY <4>1, OperatorPlaces
    <3>2. CASE ApproveStale(o)
      BY <3>2, <1>1 DEF ApproveStale, StillQueued
    <3>3. CASE ApproveGone(o)
      BY <3>3, <1>1 DEF ApproveGone, FilesInv, WorksOnARequest
    <3> QED
      BY <1>3, <3>1, <3>2, <3>3
  <2>3. /\ \A x \in Sessions : pc'[x] = pc[x] \/ pc'[x] \in {"settled", "idle"}
        /\ pc'[o] \in {"settled", "idle"}
    <3>1. \/ pc' = [pc EXCEPT ![o] = "idle"]
          \/ pc' = [pc EXCEPT ![o] = "idle", ![target[o]] = "settled"]
      BY <1>3 DEF ApproveGone, ApproveStale, ApproveDone
    <3> QED
      BY <1>1, <3>1
  <2>4. ~Holding(o)' /\ \A x \in Sessions : Holding(x)' => Holding(x) /\ x # o
    BY <2>3 DEF Holding
  <2>5. \A x \in Sessions : x # o => On(x)' = On(x)
    BY <1>2, <2>1 DEF Returns
  <2> QED
    BY <1>1, <2>1, <2>2, <2>4, <2>5, LocksLeft
<1>4. CASE ApproveTaken(o) \/ ApproveSigned(o)
  <2>1. agentQ' = agentQ /\ sync' = NoOne /\ target' = target
    BY <1>4 DEF ApproveTaken, ApproveSigned, Idle
  <2>2. \A x : On(x)' = On(x)
    BY <2>1 DEF On
  <2>3. \A x \in Sessions : Holding(x)' => Holding(x) \/ (On(x) \in Requests /\ HasAgentLock(x))
    <3>1. CASE ApproveTaken(o)
      <4>1. pc' = [pc EXCEPT ![o] = "walletLock"] /\ HasAgentLock(o) /\ On(o) \in Requests
        BY <3>1, <1>1 DEF ApproveTaken, StillQueued
      <4> QED
        BY <1>1, <4>1 DEF Holding
    <3>2. CASE ApproveSigned(o)
      <4>1. pc' = [pc EXCEPT ![o] = "approved"] /\ Holding(o)
        BY <3>2 DEF ApproveSigned, FilesInv, QueueInv, Inside, Holding
      <4> QED
        BY <1>1, <4>1 DEF Holding
    <3> QED
      BY <1>4, <3>1, <3>2
  <2> QED
    BY <1>1, <2>1, <2>2, <2>3, LocksKept
<1> QED
  BY <1>3, <1>4 DEF ApproveSteps

LEMMA ReleaseKeepsLocks ==
  ASSUME FilesInv, LocksHeld, ReleaseSteps PROVE LocksHeld'
<1>1. /\ pc \in [Sessions -> Places] /\ Releaser \in Sessions
      /\ Releaser # NoOne /\ On(Releaser) = target[Releaser]
      /\ target \in [Operators \cup {Releaser} -> Requests \cup {NoOne}]
  BY Apart DEF FilesInv, QueueInv, QueueTypes, Sessions, On
<1>2. CASE Release
  <2>1. /\ agentQ' = agentQ /\ target' = target /\ pc' = [pc EXCEPT ![Releaser] = "recording"]
        /\ HasAgentLock(Releaser) /\ target[Releaser] \in Requests
    BY <1>2 DEF Release, FilesInv, WorksOnARequest
  <2>2. /\ \A x : On(x)' = On(x)
        /\ \A x \in Sessions : Holding(x)' => Holding(x) \/ (On(x) \in Requests /\ HasAgentLock(x))
    BY <1>1, <2>1 DEF On, Holding
  <2> QED
    BY <1>1, <2>1, <2>2, LocksKept
<1>3. CASE ReleaseAgedOut \/ Released
  <2>1. /\ LeaveAgent(Releaser) /\ sync' = NoOne /\ pc' = [pc EXCEPT ![Releaser] = "idle"]
        /\ target' = [target EXCEPT ![Releaser] = NoOne]
    BY <1>3 DEF ReleaseAgedOut, Released, Idle, Returns
  <2>2. HasAgentLock(Releaser) /\ On(Releaser) \in Requests
    <3>1. CASE ReleaseAgedOut
      BY <3>1, <1>1 DEF ReleaseAgedOut, FilesInv, WorksOnARequest
    <3>2. CASE Released
      BY <3>2, <1>1 DEF Released, LocksHeld, Holding
    <3> QED
      BY <1>3, <3>1, <3>2
  <2>3. /\ ~Holding(Releaser)'
        /\ \A x \in Sessions : Holding(x)' => On(x)' = On(x) /\ Holding(x)
    BY <1>1, <2>1, Apart DEF On, Holding, Sessions
  <2> QED
    BY <1>1, <2>1, <2>2, <2>3, LocksLeft
<1> QED
  BY <1>2, <1>3 DEF ReleaseSteps

LEMMA LocksStep == FilesInv /\ LocksHeld /\ [Next]_vars => LocksHeld'
<1> SUFFICES ASSUME FilesInv, LocksHeld, [Next]_vars PROVE LocksHeld'
  OBVIOUS
<1>1. /\ pc \in [Sessions -> Places] /\ Releaser \in Sessions /\ Releaser # NoOne
      /\ target \in [Operators \cup {Releaser} -> Requests \cup {NoOne}]
  BY Apart DEF FilesInv, QueueInv, QueueTypes, Sessions
<1>2. ASSUME agentQ' = agentQ, target' = target, pc' = pc, sync' = sync PROVE LocksHeld'
  BY <1>2, LocksKept DEF On, Holding, LocksHeld
<1>3. ASSUME NEW r \in Requests, QueueSteps(r) PROVE LocksHeld'
  <2>1. /\ agentQ' = agentQ /\ target' = target /\ sync' = sync
        /\ pc' = pc \/ pc' = [pc EXCEPT ![r] = "settled"]
    BY <1>3 DEF QueueSteps, CallerLeaves, TimeOut, Deny, ApprovalEnds, lockvars
  <2>2. \A x : On(x)' = On(x)
    BY <2>1 DEF On
  <2>3. \A x \in Sessions : Holding(x)' => Holding(x)
    BY <1>1, <2>1 DEF Holding
  <2>4. r # Releaser
    BY Apart
  <2> QED
    BY <1>1, <2>1, <2>2, <2>3, <2>4, LocksKept DEF LocksHeld
<1>4. ASSUME NEW o \in Operators, NEW r \in Requests, Approve(o, r) PROVE LocksHeld'
  <2>1. /\ target' = [target EXCEPT ![o] = r] /\ pc' = [pc EXCEPT ![o] = "agentLock"]
        /\ JoinAgent(o, Q[r].agent) /\ sync' = NoOne
    BY <1>4 DEF Approve, Idle
  <2>2. \A x \in Sessions : Holding(x)' => On(x)' = On(x) /\ Holding(x)
    BY <1>1, <2>1, Apart DEF Holding, On, Sessions
  <2>3. o \in Sessions
    BY DEF Sessions
  <2> QED
    BY <1>1, <2>1, <2>2, <2>3, LocksJoined, AgentOfRequest
<1>5. ASSUME NEW r \in Requests, FindExpired(r) PROVE LocksHeld'
  <2>1. /\ target' = [target EXCEPT ![Releaser] = r] /\ pc' = [pc EXCEPT ![Releaser] = "agentLock"]
        /\ JoinAgent(Releaser, Q[r].agent) /\ sync' = NoOne
    BY <1>5 DEF FindExpired, Idle
  <2>2. \A x \in Sessions : Holding(x)' => On(x)' = On(x) /\ Holding(x)
    BY <1>1, <2>1, Apart DEF Holding, On, Sessions
  <2> QED
    BY <1>1, <2>1, <2>2, LocksJoined, AgentOfRequest
<1>6. ASSUME Crash PROVE LocksHeld'
  <2>1. agentQ' = [a \in Agents |-> << >>] /\ sync' = NoOne
    BY <1>6 DEF Crash
  <2>2. agentQ' \in [Agents -> Seq(Sessions)]
    BY <2>1
  <2>3. \A s \in Sessions : pc'[s] \in {"idle", "new", "answered", "undelivered", "lost"}
    BY <1>6 DEF Crash
  <2> QED
    BY <1>1, <2>1, <2>2, <2>3 DEF LocksHeld, Holding
<1>7. ASSUME NEW r \in Requests, World(r) PROVE LocksHeld'
  BY <1>2, <1>7 DEF World, Land, Expire, lockvars
<1>8. ASSUME Record \/ Restart \/ FinishStart \/ Tick \/ \E p \in Edits : EditPolicy(p) PROVE LocksHeld'
  BY <1>2, <1>8 DEF Record, Restart, FinishStart, Tick, EditPolicy, lockvars
<1>9. ASSUME UNCHANGED vars PROVE LocksHeld'
  BY <1>2, <1>9 DEF vars, lockvars
<1> QED
  BY <1>3, <1>4, <1>5, <1>6, <1>7, <1>8, <1>9, SignKeepsLocks, BuildKeepsLocks,
     ApproveKeepsLocks, ReleaseKeepsLocks DEF Next

-----------------------------------------------------------------------------
(***************************************************************************)
(* What Journal's proofs say of the daemon's files.                        *)
(***************************************************************************)
JP == INSTANCE Journal_proofs WITH Ids <- Requests, waiting <- {h.tx : h \in reserved}

LEMMA AssumptionOfJournal == JP!JournalAssumption
<1>1. ASSUME NEW b \in Bills
      PROVE  /\ DOMAIN b = {"tx", "agent", "asset", "amount", "overhead"}
             /\ b.amount \in Nat /\ b.overhead \in Nat
  <2>1. PICK r \in Requests, o \in Overheads : b = Bill(r, o)
    BY DEF Bills
  <2>2. Q[r].amount \in Nat /\ o \in Nat
    BY SignerdAssumption
  <2> QED
    BY <2>1, <2>2 DEF Bill
<1> QED
  BY <1>1, SignerdAssumption, RulesAssumption DEF JP!JournalAssumption

LEMMA TheFilesAreJournals == Spec => JP!Spec
<1>1. Init => JP!Init
  BY DEF Init, J!Init, JP!Init
<1>2. [J!Next]_(J!jvars) => [JP!Next]_(JP!jvars)
  BY DEF J!Next, JP!Next, J!jvars, JP!jvars, J!memory, JP!memory, J!disk, JP!disk,
     J!history, JP!history, J!Tick, JP!Tick, J!Push, JP!Push, J!AuditSigned, JP!AuditSigned,
     J!WriteCheckpoint, JP!WriteCheckpoint, J!AuditRelease, JP!AuditRelease,
     J!AuditPending, JP!AuditPending, J!AuditClosed, JP!AuditClosed, J!Crash, JP!Crash,
     J!Rotate, JP!Rotate, J!Replay, JP!Replay, J!CloseAbandoned, JP!CloseAbandoned,
     J!Entry, JP!Entry, J!Txs, JP!Txs, J!ClosingEvents, JP!ClosingEvents, J!Recent, JP!Recent,
     J!SpendsOf, JP!SpendsOf, J!Payment, JP!Payment, J!Overhead, JP!Overhead,
     J!FirstOf, JP!FirstOf, J!Part, JP!Part, J!Rebuilt, JP!Rebuilt,
     J!OpenApprovals, JP!OpenApprovals, J!FromCheckpoint, JP!FromCheckpoint,
     J!FromLog, JP!FromLog, J!Removed, JP!Removed, J!Releases, JP!Releases,
     J!Unseen, JP!Unseen, J!TerminalEvents, JP!TerminalEvents
<1> QED
  BY <1>1, <1>2, ThePaymentPathImplementsJournal, PTL
     DEF Spec, ImplementsJournal, J!Spec, JP!Spec

LEMMA JournalIsSound == Spec => []JP!JournalInv
<1>1. JP!Spec => []JP!JournalInv
  BY AssumptionOfJournal, JP!Inductive
<1> QED
  BY <1>1, TheFilesAreJournals

(***************************************************************************)
(* What of it the caps need.                                               *)
(***************************************************************************)
LEMMA FilesFacts ==
  ASSUME JP!JournalInv
  PROVE  /\ now \in Nat /\ Day \in Nat
         /\ \A s \in ledger \cup issued : s.amount \in Nat /\ s.ts \in Nat
         /\ \A s \in ledger \cup issued : s.tx \in recorded
         /\ phase # "down" =>
               \A s \in issued : now - s.ts < Day /\ J!Part(s) \notin released => s \in ledger
         /\ \A s \in ledger : J!Part(s) \notin released
         /\ phase = "pushed" => J!SpendsOf(bill, now) \subseteq ledger
<1>1. now \in Nat /\ Day \in Nat
  BY RulesAssumption, SignerdAssumption DEF JP!JournalInv, JP!TypeOK
<1>2. \A s \in ledger \cup issued : s.amount \in Nat /\ s.ts \in Nat
  BY DEF JP!JournalInv, JP!TypeOK, JP!Spends
<1>3. \A s \in ledger \cup issued : s.tx \in recorded
  <2>1. \A s \in issued : s.tx \in recorded
    BY DEF JP!JournalInv, JP!IssuedSound
  <2>2. ledger \subseteq JP!Base(ckpt) \cup JP!Pushing /\ JP!Base(ckpt) \subseteq issued
    BY DEF JP!JournalInv, JP!LedgerSound, JP!Checkpoints, JP!Restorable, JP!Complete
  <2>3. \A s \in JP!Pushing : s.tx \in recorded
    BY <1>1, AssumptionOfJournal, JP!SpendsOfFacts DEF JP!Pushing, JP!JournalInv, JP!PhaseSound
  <2> QED
    BY <2>1, <2>2, <2>3
<1>4. ASSUME phase # "down", NEW s \in issued, now - s.ts < Day, J!Part(s) \notin released
      PROVE  s \in ledger
  <2>1. JP!Live(s)
    BY <1>1, <1>2, <1>4 DEF JP!Live, JP!Recent, J!Part, JP!Part
  <2> QED
    BY <1>4, <2>1 DEF JP!JournalInv, JP!LedgerSound
<1>5. \A s \in ledger : J!Part(s) \notin released
  BY DEF JP!JournalInv, JP!LedgerSound, J!Part, JP!Part
<1>6. phase = "pushed" => J!SpendsOf(bill, now) \subseteq ledger
  BY DEF JP!JournalInv, JP!LedgerSound, JP!Pushing, J!SpendsOf, JP!SpendsOf,
     J!Payment, JP!Payment, J!Overhead, JP!Overhead
<1> QED
  BY <1>1, <1>2, <1>3, <1>4, <1>5, <1>6

(* Replay as this module reads it and as Journal's proofs do.              *)
LEMMA ReplayIsOne ==
  /\ \A c : J!Rebuilt(c) = JP!Rebuilt(c)
  /\ \A c : J!FromCheckpoint(c) = JP!FromCheckpoint(c) /\ J!FromLog(c) = JP!FromLog(c)
  /\ \A s : J!Part(s) = JP!Part(s)
BY DEF J!Rebuilt, JP!Rebuilt, J!FromCheckpoint, JP!FromCheckpoint,
     J!FromLog, JP!FromLog, J!Removed, JP!Removed, J!Releases, JP!Releases,
     J!Unseen, JP!Unseen, J!Recent, JP!Recent, J!SpendsOf, JP!SpendsOf, J!Payment, JP!Payment,
     J!Overhead, JP!Overhead, J!Part, JP!Part

LEMMA RebuiltFacts ==
  ASSUME JP!JournalInv
  PROVE  J!Rebuilt(ckpt) \subseteq {s \in issued : J!Part(s) \notin released}
<1>1. ckpt \in JP!Checkpoints
  BY DEF JP!Checkpoints
<1>2. JP!Rebuilt(ckpt) = {s \in JP!Base(ckpt) : JP!Recent(s.ts) /\ JP!Part(s) \notin released}
  BY <1>1, AssumptionOfJournal, JP!Recovered
<1>3. JP!Base(ckpt) \subseteq issued
  BY <1>1 DEF JP!JournalInv, JP!Restorable, JP!Complete
<1> QED
  BY <1>2, <1>3, ReplayIsOne

(***************************************************************************)
(* What Journal proves of a restart holds of the daemon with its locks,    *)
(* queue and operators: HandedOutIsCounted, NothingElseIsCounted,          *)
(* MemoryMatchesDisk and LogKnowsWhoWaits, at every crash of its payment   *)
(* path.  (writeCheckpoint and replayAudit, called as signerd calls them.) *)
(***************************************************************************)
THEOREM RestartsAreSafe ==
  Spec => [](J!HandedOutIsCounted /\ J!NothingElseIsCounted /\ J!MemoryMatchesDisk /\ J!LogKnowsWhoWaits)
<1>1. JP!HandedOutIsCounted => J!HandedOutIsCounted
  BY ReplayIsOne DEF JP!HandedOutIsCounted, J!HandedOutIsCounted
<1>2. JP!NothingElseIsCounted => J!NothingElseIsCounted
  BY ReplayIsOne DEF JP!NothingElseIsCounted, J!NothingElseIsCounted, JP!PartsOf, J!PartsOf
<1>3. JP!MemoryMatchesDisk => J!MemoryMatchesDisk
  BY ReplayIsOne DEF JP!MemoryMatchesDisk, J!MemoryMatchesDisk
<1>4. JP!LogKnowsWhoWaits => J!LogKnowsWhoWaits
  BY DEF JP!LogKnowsWhoWaits, J!LogKnowsWhoWaits, JP!OpenApprovals, J!OpenApprovals,
     J!TerminalEvents, JP!TerminalEvents, J!Recent, JP!Recent
<1>5. JP!Spec => /\ []JP!HandedOutIsCounted /\ []JP!NothingElseIsCounted
                 /\ []JP!MemoryMatchesDisk /\ []JP!LogKnowsWhoWaits
  BY AssumptionOfJournal, JP!NoSpendIsForgotten, JP!NoSpendIsInvented,
     JP!LedgerIsWhatAStartRebuilds, JP!NoApprovalIsOrphaned
<1> QED
  BY <1>1, <1>2, <1>3, <1>4, <1>5, TheFilesAreJournals, PTL

LEMMA SpendsOfABill ==
  ASSUME NEW r \in Requests, NEW o \in Overheads, NEW s \in J!SpendsOf(Bill(r, o), now)
  PROVE  /\ s.tx = r /\ s.agent = Q[r].agent /\ s.ts = now
         /\ \/ s = J!Payment(Bill(r, o), now) /\ s.asset = Q[r].asset /\ s.amount = Q[r].amount
            \/ s = J!Overhead(Bill(r, o), now) /\ s.asset = Lovelace /\ s.amount = o
BY DEF J!SpendsOf, J!Payment, J!Overhead, Bill

-----------------------------------------------------------------------------
(***************************************************************************)
(* The steps that touch what is spent or held; all others are quiet.       *)
(***************************************************************************)
Quiet ==
    /\ UNCHANGED <<now, ledger, issued, released, recorded>>
    /\ reserved' \subseteq reserved
    /\ log \subseteq log'
    /\ phase' \in {"down", "starting"} => phase \in {"down", "starting"}

LEMMA ClosingIsQuiet ==
  ASSUME NEW r, ClosePending(r, "pending_abandoned") \/ ClosePending(r, "approval_timeout")
                \/ ClosePending(r, "approval_denied")
  PROVE  Quiet
BY DEF ClosePending, Quiet, J!AuditClosed, J!history, WithoutHold

LEMMA NothingIsQuiet == ASSUME UNCHANGED <<jvars, reserved>> PROVE Quiet
  BY DEF jvars, Quiet

LEMMA CheckpointIsQuiet == ASSUME J!WriteCheckpoint, UNCHANGED reserved PROVE Quiet
  BY DEF J!WriteCheckpoint, J!history, Quiet

LEMMA Steps ==
  ASSUME [Next]_vars
  PROVE  \/ Quiet \/ Record \/ Release \/ Crash \/ Restart \/ Tick
         \/ \E r \in Requests : Enqueue(r)
         \/ \E s \in Requests \cup Operators : Commit(s)
<1>1. ASSUME NEW r \in Requests, SignSteps(r) PROVE Quiet \/ Enqueue(r)
  <2>1. CASE Arrive(r) \/ Denied(r) \/ Allowed(r) \/ Respond(r)
    BY <2>1, NothingIsQuiet DEF Arrive, Denied, Allowed, Respond
  <2>2. CASE Withdraw(r)
    BY <2>2, ClosingIsQuiet DEF Withdraw
  <2>3. CASE Signed(r)
    BY <2>3, CheckpointIsQuiet DEF Signed
  <2> QED
    BY <1>1, <2>1, <2>2, <2>3 DEF SignSteps
<1>2. ASSUME NEW r \in Requests, QueueSteps(r) PROVE Quiet
  <2>1. CASE CallerLeaves(r)
    <3>1. ClosePending(r, "pending_abandoned") \/ UNCHANGED <<jvars, reserved>>
      BY <2>1 DEF CallerLeaves
    <3> QED
      BY <3>1, ClosingIsQuiet, NothingIsQuiet
  <2>2. CASE TimeOut(r) \/ Deny(r)
    BY <2>2, ClosingIsQuiet DEF TimeOut, Deny, ApprovalEnds
  <2> QED
    BY <1>2, <2>1, <2>2 DEF QueueSteps
<1>3. ASSUME NEW r \in Requests, FindExpired(r) \/ World(r) PROVE Quiet
  BY <1>3, NothingIsQuiet DEF FindExpired, World, Land, Expire
<1>4. ASSUME NEW s \in Requests \cup Operators, BuildSteps(s) PROVE Quiet \/ Commit(s)
  <2>1. CASE BuildFails(s) \/ BuildRefused(s)
    <3>1. Refuse(s)
      BY <2>1 DEF BuildFails, BuildRefused
    <3>2. CASE s \in Requests
      BY <3>1, <3>2, NothingIsQuiet DEF Refuse
    <3>3. CASE s \notin Requests
      BY <3>1, <3>3 DEF Refuse, Quiet, J!AuditClosed, J!history, WithoutHold
    <3> QED
      BY <3>2, <3>3
  <2> QED
    BY <1>4, <2>1 DEF BuildSteps
<1>5. ASSUME NEW o \in Operators, ApproveSteps(o) PROVE Quiet
  <2>1. CASE ApproveGone(o) \/ ApproveTaken(o)
    BY <2>1, NothingIsQuiet DEF ApproveGone, ApproveTaken
  <2>2. CASE ApproveStale(o)
    BY <2>2 DEF ApproveStale, ClosePending, Quiet, J!AuditClosed, J!history, WithoutHold
  <2>3. CASE ApproveSigned(o)
    BY <2>3, CheckpointIsQuiet DEF ApproveSigned
  <2>4. CASE ApproveDone(o)
    BY <2>4 DEF ApproveDone, Quiet, J!AuditClosed, J!history, WithoutHold
  <2> QED
    BY <1>5, <2>1, <2>2, <2>3, <2>4 DEF ApproveSteps
<1>6. ASSUME NEW o \in Operators, NEW r \in Requests, Approve(o, r) PROVE Quiet
  BY <1>6, NothingIsQuiet DEF Approve
<1>7. ASSUME ReleaseSteps PROVE Quiet \/ Release
  <2>1. CASE ReleaseAgedOut
    BY <2>1, NothingIsQuiet DEF ReleaseAgedOut
  <2>2. CASE Released
    BY <2>2, CheckpointIsQuiet DEF Released
  <2> QED
    BY <1>7, <2>1, <2>2 DEF ReleaseSteps
<1>8. ASSUME FinishStart PROVE Quiet
  <2>1. CASE J!WriteCheckpoint
    BY <1>8, <2>1, CheckpointIsQuiet DEF FinishStart
  <2>2. CASE \E r \in Requests : J!CloseAbandoned(r)
    BY <1>8, <2>2 DEF FinishStart, J!CloseAbandoned, J!history, Quiet
  <2> QED
    BY <1>8, <2>1, <2>2 DEF FinishStart
<1>9. ASSUME NEW p, EditPolicy(p) PROVE Quiet
  BY <1>9, NothingIsQuiet DEF EditPolicy
<1>10. ASSUME UNCHANGED vars PROVE Quiet
  BY <1>10, NothingIsQuiet DEF vars
<1> QED
  BY <1>1, <1>2, <1>3, <1>4, <1>5, <1>6, <1>7, <1>8, <1>9, <1>10 DEF Next

LEMMA PolicyMoves ==
  ASSUME [Next]_vars PROVE policyFile' = policyFile \/ policyFile' \in Edits
<1>1. ASSUME NEW s \in Requests \cup Operators, BuildSteps(s) PROVE policyFile' = policyFile
  BY <1>1 DEF BuildSteps, BuildFails, BuildRefused, Refuse, Commit
<1>2. ASSUME NEW r \in Requests, SignSteps(r) \/ QueueSteps(r) \/ FindExpired(r) \/ World(r)
      PROVE  policyFile' = policyFile
  BY <1>2 DEF SignSteps, Arrive, Denied, Allowed, Enqueue, Withdraw, Signed, Respond,
     QueueSteps, CallerLeaves, TimeOut, Deny, ApprovalEnds, FindExpired, World, Land, Expire
<1>3. ASSUME NEW o \in Operators, ApproveSteps(o) \/ \E r \in Requests : Approve(o, r)
      PROVE  policyFile' = policyFile
  BY <1>3 DEF ApproveSteps, ApproveGone, ApproveStale, ApproveTaken, ApproveSigned, ApproveDone,
     Approve
<1>4. ASSUME ReleaseSteps \/ Record \/ Crash \/ Restart \/ FinishStart \/ Tick \/ UNCHANGED vars
      PROVE  policyFile' = policyFile
  BY <1>4 DEF ReleaseSteps, Release, ReleaseAgedOut, Released, Record, Crash, Restart,
     FinishStart, Tick, vars
<1>5. ASSUME NEW p \in Edits, EditPolicy(p) PROVE policyFile' \in Edits
  BY <1>5 DEF EditPolicy
<1> QED
  BY <1>1, <1>2, <1>3, <1>4, <1>5 DEF Next

LEMMA ChainMoves ==
  ASSUME [Next]_vars
  PROVE  chain' = chain \/ \E r \in Requests, to \in {"landed", "expired"} :
            chain[r] = "open" /\ chain' = [chain EXCEPT ![r] = to]
<1>1. ASSUME NEW s \in Requests \cup Operators, BuildSteps(s) PROVE chain' = chain
  BY <1>1 DEF BuildSteps, BuildFails, BuildRefused, Refuse, Commit
<1>2. ASSUME NEW r \in Requests, SignSteps(r) \/ QueueSteps(r) \/ FindExpired(r) PROVE chain' = chain
  BY <1>2 DEF SignSteps, Arrive, Denied, Allowed, Enqueue, Withdraw, Signed, Respond,
     QueueSteps, CallerLeaves, TimeOut, Deny, ApprovalEnds, FindExpired
<1>3. ASSUME NEW o \in Operators, ApproveSteps(o) \/ \E r \in Requests : Approve(o, r)
      PROVE  chain' = chain
  BY <1>3 DEF ApproveSteps, ApproveGone, ApproveStale, ApproveTaken, ApproveSigned, ApproveDone,
     Approve
<1>4. ASSUME ReleaseSteps \/ Record \/ Crash \/ Restart \/ FinishStart \/ Tick \/ UNCHANGED vars
             \/ \E p \in Edits : EditPolicy(p)
      PROVE  chain' = chain
  BY <1>4 DEF ReleaseSteps, Release, ReleaseAgedOut, Released, Record, Crash, Restart,
     FinishStart, Tick, EditPolicy, vars
<1>5. ASSUME NEW r \in Requests, World(r)
      PROVE  \E to \in {"landed", "expired"} : chain[r] = "open" /\ chain' = [chain EXCEPT ![r] = to]
  BY <1>5 DEF World, Land, Expire
<1> QED
  BY <1>1, <1>2, <1>3, <1>4, <1>5 DEF Next

LEMMA WalletTurns ==
  ASSUME QueueInv, [Next]_vars, NEW r \in Requests, pc'[r] = "walletLock"
  PROVE  pc[r] = "walletLock" \/ Allowed(r)
<1> DEFINE Stays == pc[r] = "walletLock"
<1>1. /\ pc \in [Sessions -> Places] /\ r \in Sessions /\ r \notin Operators /\ r # Releaser
      /\ target \in [Operators \cup {Releaser} -> Requests \cup {NoOne}]
  BY Apart DEF QueueInv, QueueTypes, Sessions
<1>2. ASSUME pc' = pc PROVE Stays
  BY <1>2
<1>3. ASSUME NEW x \in Requests, SignSteps(x) \/ QueueSteps(x) \/ World(x) PROVE Stays \/ Allowed(r)
  <2>1. pc' = pc \/ (\E to : pc' = [pc EXCEPT ![x] = to] /\ (to = "walletLock" => Allowed(x)))
    BY <1>3 DEF SignSteps, Arrive, Denied, Allowed, Enqueue, Withdraw, Signed, Respond,
       QueueSteps, CallerLeaves, TimeOut, Deny, ApprovalEnds, World, Land, Expire
  <2> QED
    BY <1>1, <2>1
<1>4. ASSUME NEW x \in Requests, FindExpired(x) PROVE Stays
  BY <1>1, <1>4 DEF FindExpired
<1>5. ASSUME NEW o \in Operators, NEW x \in Requests, Approve(o, x) PROVE Stays
  BY <1>1, <1>5 DEF Approve
<1>6. ASSUME NEW s \in Requests \cup Operators, BuildSteps(s) PROVE Stays
  BY <1>1, <1>6 DEF BuildSteps, BuildFails, BuildRefused, Refuse, Commit
<1>7. ASSUME NEW o \in Operators, ApproveSteps(o) PROVE Stays
  BY <1>1, <1>7 DEF ApproveSteps, ApproveGone, ApproveStale, ApproveTaken, ApproveSigned, ApproveDone
<1>8. ASSUME ReleaseSteps PROVE Stays
  BY <1>1, <1>8 DEF ReleaseSteps, Release, ReleaseAgedOut, Released
<1>9. ASSUME Record \/ Restart \/ FinishStart \/ Tick \/ \E p \in Edits : EditPolicy(p) PROVE Stays
  BY <1>2, <1>9 DEF Record, Restart, FinishStart, Tick, EditPolicy
<1>10. ASSUME Crash PROVE Stays
  BY <1>1, <1>10 DEF Crash
<1>11. ASSUME UNCHANGED vars PROVE Stays
  BY <1>2, <1>11 DEF vars
<1> QED
  BY <1>3, <1>4, <1>5, <1>6, <1>7, <1>8, <1>9, <1>10, <1>11 DEF Next

-----------------------------------------------------------------------------
(***************************************************************************)
(* A hold is of what its request asked, recorded when it was made and not  *)
(* a day old; once its transaction is recorded its payment is counted.     *)
(***************************************************************************)
HoldOf(h) ==
    /\ h.tx \in Requests /\ h.agent = Q[h.tx].agent
    /\ h.asset = Q[h.tx].asset /\ h.amount = Q[h.tx].amount
    /\ h.ts \in Nat /\ h.ts <= now /\ now - h.ts < Day

HoldsSound ==
    /\ phase \in {"down", "starting"} => reserved = {}
    /\ \A h \in reserved :
        /\ HoldOf(h)
        /\ \E e \in log : e.event = "pending" /\ e.of = h.tx /\ e.ts = h.ts
        /\ h.tx \in recorded => \E s \in ledger : s.tx = h.tx /\ h.ts <= s.ts

(* Only what is dead on the chain is given back. *)
OnlyTheDead ==
    /\ chain \in [Requests -> {"open", "landed", "expired"}]
    /\ \A part \in released : part.tx \in Requests /\ chain[part.tx] = "expired"
    /\ pc[Releaser] = "agentLock" => chain[target[Releaser]] = "expired"

AllSummable == Summable(ledger \cup issued \cup reserved)

(* What a request asks, as the caps read it. *)
LEMMA AskFacts ==
  ASSUME NEW r \in Requests
  PROVE  Q[r].agent \in Agents /\ Q[r].amount \in Nat /\ Day \in Nat
  BY SignerdAssumption, RulesAssumption

(* What the lock keeps from being given back while it is being approved.   *)
LEMMA ReleasedIsNotHeld ==
  ASSUME FilesInv, LocksHeld, Release, NEW h \in reserved, h.tx \in recorded
  PROVE  h.tx # target[Releaser]
<1> SUFFICES ASSUME h.tx = target[Releaser] PROVE FALSE
  OBVIOUS
<1>1. HasAgentLock(Releaser) /\ target[Releaser] \in Requests /\ pc[Releaser] = "agentLock"
  BY DEF Release, FilesInv, WorksOnARequest
<1>2. h.tx \notin pending
  BY DEF FilesInv, QueueInv, Once, Held, QueueTypes
<1>3. PICK o \in Operators : Approving(o) /\ target[o] = h.tx
  BY <1>2 DEF FilesInv, QueueInv, Held
<1>4. Holding(o) /\ o \in Sessions /\ Releaser \in Sessions /\ o # Releaser
  BY <1>3, Apart DEF Approving, Holding, Sessions
<1>5. AgentOf(o) = AgentOf(Releaser)
  BY <1>3, Apart DEF AgentOf, On
<1> QED
  BY <1>1, <1>4, <1>5, OneHolder

LEMMA FirstIsOfIt ==
  ASSUME \E s \in ledger : s.tx = target[Releaser]
  PROVE  J!FirstOf(target[Releaser]).tx = target[Releaser]
<1> DEFINE First(s) == /\ s.tx = target[Releaser]
                      /\ \A p \in ledger : p.tx = target[Releaser] /\ p.kind = "payment"
                                              => s.kind = "payment"
<1>1. \E s \in ledger : First(s)
  OBVIOUS
<1> QED
  BY <1>1 DEF J!FirstOf

LEMMA HoldsStep ==
  ASSUME FilesInv, JP!JournalInv, LocksHeld, HoldsSound, [Next]_vars
  PROVE  HoldsSound'
<1>1. now \in Nat /\ Day \in Nat /\ \A s \in ledger \cup issued : s.ts \in Nat
  BY FilesFacts
<1>2. ASSUME now' = now, reserved' \subseteq reserved, log \subseteq log',
             recorded' = recorded,
             phase' \in {"down", "starting"} => phase \in {"down", "starting"},
             \A h \in reserved : h.tx \in recorded => \A s \in ledger : s.tx = h.tx => s \in ledger'
      PROVE  HoldsSound'
  <2>1. phase' \in {"down", "starting"} => reserved' = {}
    BY <1>2 DEF HoldsSound
  <2>2. ASSUME NEW h \in reserved'
        PROVE  /\ HoldOf(h)'
               /\ (\E e \in log : e.event = "pending" /\ e.of = h.tx /\ e.ts = h.ts)'
               /\ (h.tx \in recorded => \E s \in ledger : s.tx = h.tx /\ h.ts <= s.ts)'
    BY <1>2, <2>2 DEF HoldsSound, HoldOf
  <2> QED
    BY <2>1, <2>2 DEF HoldsSound
<1>3. CASE Quiet
  BY <1>2, <1>3 DEF Quiet
<1>4. CASE Record
  BY <1>2, <1>4 DEF Record, J!AuditSigned, J!memory
<1>5. CASE Release
  <2>1. /\ reserved' = reserved /\ now' = now /\ log \subseteq log' /\ recorded' = recorded
        /\ phase' = "logged" /\ ledger' = ledger \ {J!FirstOf(target[Releaser])}
        /\ \E s \in ledger : s.tx = target[Releaser]
    BY <1>5 DEF Release, J!AuditRelease
  <2>2. J!FirstOf(target[Releaser]).tx = target[Releaser]
    BY <2>1, FirstIsOfIt
  <2>3. \A h \in reserved : h.tx \in recorded => h.tx # target[Releaser]
    BY <1>5, ReleasedIsNotHeld
  <2> QED
    BY <1>2, <2>1, <2>2, <2>3
<1>6. CASE Crash
  <2>1. reserved' = {}
    BY <1>6 DEF Crash
  <2> QED
    BY <2>1 DEF HoldsSound
<1>7. CASE Restart
  <2>1. reserved' = {}
    BY <1>7 DEF Restart, J!Replay, HoldsSound
  <2> QED
    BY <2>1 DEF HoldsSound
<1>8. CASE Tick
  <2>1. /\ reserved' = reserved /\ now' = now + 1
        /\ log' = log /\ recorded' = recorded /\ ledger' = ledger /\ phase' = phase
        /\ \A e \in log : e.event = "pending" /\ e.of \in {h.tx : h \in reserved}
              => now + 1 - e.ts < Day
    BY <1>8 DEF Tick, J!Tick, J!memory, J!disk, J!history
  <2>2. ASSUME NEW h \in reserved
        PROVE  HoldOf(h)'
    <3>1. PICK e \in log : e.event = "pending" /\ e.of = h.tx /\ e.ts = h.ts
      BY DEF HoldsSound
    <3>2. now + 1 - h.ts < Day
      BY <2>1, <3>1
    <3> QED
      BY <1>1, <2>1, <3>2 DEF HoldsSound, HoldOf
  <2> QED
    BY <2>1, <2>2 DEF HoldsSound
<1>9. ASSUME NEW r \in Requests, Enqueue(r) PROVE HoldsSound'
  <2>1. /\ phase = "idle" /\ phase' = phase /\ now' = now /\ ledger' = ledger
        /\ recorded' = recorded /\ reserved' = reserved \cup {HoldFor(r)}
        /\ log' = log \cup {J!Entry("pending", r)} /\ pc[r] = "agentLock"
    BY <1>9 DEF Enqueue, Idle, J!AuditPending, J!history
  <2>2. r \notin recorded
    BY <2>1 DEF FilesInv, QueueInv, Once, Early
  <2>3. ASSUME NEW h \in reserved'
        PROVE  /\ HoldOf(h)'
               /\ (\E e \in log : e.event = "pending" /\ e.of = h.tx /\ e.ts = h.ts)'
               /\ (h.tx \in recorded => \E s \in ledger : s.tx = h.tx /\ h.ts <= s.ts)'
    <3>1. CASE h \in reserved
      BY <2>1, <3>1 DEF HoldsSound, HoldOf
    <3>2. CASE h = HoldFor(r)
      <4>1. h.tx = r /\ h.agent = Q[r].agent /\ h.asset = Q[r].asset
            /\ h.amount = Q[r].amount /\ h.ts = now
        BY <3>2 DEF HoldFor
      <4>2. HoldOf(h)'
        BY <1>1, <1>9, <2>1, <4>1, RulesAssumption DEF HoldOf
      <4>3. J!Entry("pending", r) \in log' /\ J!Entry("pending", r).event = "pending"
            /\ J!Entry("pending", r).of = h.tx /\ J!Entry("pending", r).ts = h.ts
        BY <2>1, <4>1 DEF J!Entry
      <4> QED
        BY <2>1, <2>2, <4>1, <4>2, <4>3
    <3> QED
      BY <2>1, <3>1, <3>2
  <2> QED
    BY <2>1, <2>3 DEF HoldsSound
<1>10. ASSUME NEW s \in Requests \cup Operators, Commit(s) PROVE HoldsSound'
  <2>1. PICK o \in Overheads : J!Push(Bill(On(s), o))
    BY <1>10 DEF Commit
  <2> DEFINE B == J!SpendsOf(Bill(On(s), o), now)
  <2>2. /\ phase' = "pushed" /\ now' = now /\ reserved' = reserved /\ log' = log
        /\ recorded' = recorded \cup {On(s)}
        /\ ledger' = {x \in ledger \cup B : J!Recent(x.ts)}
    BY <1>10, <2>1 DEF Commit, J!Push, J!disk, Bill
  <2>3. J!Payment(Bill(On(s), o), now) \in B
    BY DEF J!SpendsOf
  <2>4. /\ J!Payment(Bill(On(s), o), now).tx = On(s)
        /\ J!Payment(Bill(On(s), o), now).ts = now
    BY DEF J!Payment, Bill
  <2> HIDE DEF B
  <2>5. ASSUME NEW h \in reserved
        PROVE  h.tx \in recorded' => \E x \in ledger' : x.tx = h.tx /\ h.ts <= x.ts
    <3>1. h.ts \in Nat /\ now - h.ts < Day
      BY DEF HoldsSound, HoldOf
    <3>2. CASE h.tx \in recorded
      <4>1. PICK x \in ledger : x.tx = h.tx /\ h.ts <= x.ts
        BY <3>2 DEF HoldsSound
      <4>2. x.ts \in Nat
        BY <1>1
      <4>3. J!Recent(x.ts)
        BY <1>1, <3>1, <4>1, <4>2 DEF J!Recent
      <4> QED
        BY <2>2, <4>1, <4>3
    <3>3. CASE h.tx = On(s)
      <4>1. J!Recent(now)
        BY <1>1 DEF J!Recent
      <4>2. h.ts <= now
        BY DEF HoldsSound, HoldOf
      <4> QED
        BY <2>2, <2>3, <2>4, <3>3, <4>1, <4>2
    <3> QED
      BY <2>2, <3>2, <3>3
  <2> QED
    BY <2>2, <2>5 DEF HoldsSound, HoldOf
<1> QED
  BY <1>3, <1>4, <1>5, <1>6, <1>7, <1>8, <1>9, <1>10, Steps

LEMMA TheDeadStep ==
  ASSUME FilesInv, JP!JournalInv, OnlyTheDead, [Next]_vars
  PROVE  OnlyTheDead'
<1>1. /\ chain \in [Requests -> {"open", "landed", "expired"}]
      /\ \A part \in released : part.tx \in Requests /\ chain[part.tx] = "expired"
  BY DEF OnlyTheDead
<1>2. /\ chain' \in [Requests -> {"open", "landed", "expired"}]
      /\ \A r \in Requests : chain[r] = "expired" => chain'[r] = "expired"
  BY <1>1, ChainMoves
<1>3. ASSUME pc'[Releaser] = "agentLock" PROVE chain'[target'[Releaser]] = "expired"
  <2>1. CASE pc[Releaser] = "agentLock" /\ target'[Releaser] = target[Releaser]
    BY <1>2, <2>1 DEF OnlyTheDead, FilesInv, WorksOnARequest
  <2>2. CASE \E r \in Requests : target'[Releaser] = r /\ FindExpired(r)
    BY <2>2 DEF FindExpired
  <2> QED
    BY <1>3, <2>1, <2>2, TargetsStay DEF FilesInv
<1>4. ASSUME released' = released PROVE \A part \in released' : part.tx \in Requests /\ chain'[part.tx] = "expired"
  BY <1>1, <1>2, <1>4
<1>5. CASE Release
  <2>1. /\ released' = released \cup {J!Part(J!FirstOf(target[Releaser]))}
        /\ \E s \in ledger : s.tx = target[Releaser]
        /\ target[Releaser] \in Requests /\ chain[target[Releaser]] = "expired"
    BY <1>5 DEF Release, J!AuditRelease, OnlyTheDead, FilesInv, WorksOnARequest
  <2>2. J!FirstOf(target[Releaser]).tx = target[Releaser]
    BY <2>1, FirstIsOfIt
  <2>3. J!Part(J!FirstOf(target[Releaser])).tx = target[Releaser]
    BY <2>2 DEF J!Part
  <2>4. \A part \in released' : part.tx \in Requests /\ chain'[part.tx] = "expired"
    BY <1>1, <1>2, <2>1, <2>3
  <2> QED
    BY <1>2, <1>3, <2>4 DEF OnlyTheDead
<1>6. CASE ~Release
  <2>1. released' = released
    BY <1>6, Steps DEF Quiet, Record, J!AuditSigned, Crash, J!Crash, J!history, Restart, J!Replay,
       Tick, J!Tick, Enqueue, J!AuditPending, Commit, J!Push
  <2> QED
    BY <1>2, <1>3, <1>4, <2>1 DEF OnlyTheDead
<1> QED
  BY <1>5, <1>6

LEMMA SpendsOfABillSum ==
  ASSUME NEW r \in Requests, NEW o \in Overheads
  PROVE  Summable(J!SpendsOf(Bill(r, o), now))
<1> DEFINE p == J!Payment(Bill(r, o), now)
           v == J!Overhead(Bill(r, o), now)
<1>1. p.amount \in Nat /\ v.amount \in Nat
  BY AskFacts, SignerdAssumption DEF J!Payment, J!Overhead, Bill
<1>2. J!SpendsOf(Bill(r, o), now) \in SUBSET ({p} \cup {v})
  BY DEF J!SpendsOf
<1> HIDE DEF p, v
<1>3. Summable({p} \cup {v})
  BY <1>1, OneSpend, JoinedUnits
<1> QED
  BY <1>2, <1>3, FewerUnits

LEMMA SumsStep ==
  ASSUME FilesInv, JP!JournalInv, AllSummable, [Next]_vars
  PROVE  AllSummable'
<1> DEFINE All == ledger \cup issued \cup reserved
<1>1. Summable(All)
  BY DEF AllSummable
<1>2. ASSUME ledger' \cup issued' \cup reserved' \subseteq All PROVE AllSummable'
  BY <1>1, <1>2, FewerUnits DEF AllSummable, Summable, Units
<1>3. CASE Quiet
  BY <1>2, <1>3 DEF Quiet
<1>4. CASE Record
  <2>1. /\ ledger' = ledger /\ issued' = issued \cup J!SpendsOf(bill, now) /\ reserved' = reserved
        /\ phase = "pushed"
    BY <1>4 DEF Record, J!AuditSigned, J!memory
  <2>2. J!SpendsOf(bill, now) \subseteq ledger
    BY <2>1, FilesFacts
  <2> QED
    BY <1>2, <2>1, <2>2
<1>5. CASE Release
  BY <1>2, <1>5 DEF Release, J!AuditRelease
<1>6. CASE Crash
  BY <1>2, <1>6 DEF Crash, J!Crash, J!history
<1>7. CASE Restart
  <2>1. ledger' = J!Rebuilt(ckpt) /\ issued' = issued /\ reserved' = reserved
    BY <1>7 DEF Restart, J!Replay, J!history
  <2> QED
    BY <1>2, <2>1, RebuiltFacts
<1>8. CASE Tick
  BY <1>2, <1>8 DEF Tick, J!Tick, J!memory, J!history
<1>9. ASSUME NEW r \in Requests, Enqueue(r) PROVE AllSummable'
  <2>1. /\ ledger' = ledger /\ issued' = issued /\ reserved' = reserved \cup {HoldFor(r)}
    BY <1>9 DEF Enqueue, J!AuditPending, J!history
  <2>2. HoldFor(r).amount \in Nat
    BY AskFacts DEF HoldFor
  <2>3. Summable(All \cup {HoldFor(r)})
    <3>1. ASSUME NEW h, h.amount \in Nat PROVE Summable(All \cup {h})
      BY <1>1, <3>1, OneSpendMore
    <3> QED
      BY <2>2, <3>1
  <2>4. All \cup {HoldFor(r)} = ledger' \cup issued' \cup reserved'
    BY <2>1
  <2> QED
    BY <2>3, <2>4 DEF AllSummable, Summable, Units
<1>10. ASSUME NEW s \in Requests \cup Operators, Commit(s) PROVE AllSummable'
  <2>1. PICK o \in Overheads : J!Push(Bill(On(s), o))
    BY <1>10 DEF Commit
  <2>2. On(s) \in Requests
    <3>1. pc[s] = "walletLock"
      BY <1>10 DEF Commit
    <3> QED
      BY <3>1, Apart DEF FilesInv, QueueInv, Held, Approving, On
  <2> DEFINE B == J!SpendsOf(Bill(On(s), o), now)
  <2>3. ledger' \subseteq ledger \cup B /\ issued' = issued /\ reserved' = reserved
    BY <1>10, <2>1 DEF Commit, J!Push
  <2>4. Summable(B)
    <3>1. ASSUME NEW r \in Requests PROVE Summable(J!SpendsOf(Bill(r, o), now))
      BY SpendsOfABillSum
    <3> QED
      BY <2>2, <3>1
  <2> HIDE DEF B
  <2>5. Summable(All \cup B)
    BY <1>1, <2>4, JoinedUnits
  <2>6. ledger' \cup issued' \cup reserved' \in SUBSET (All \cup B)
    BY <2>3
  <2> HIDE DEF All
  <2>7. Summable(ledger' \cup issued' \cup reserved')
    BY <2>5, <2>6, FewerUnits
  <2> QED
    BY <2>7 DEF AllSummable, Summable, Units
<1> QED
  BY <1>3, <1>4, <1>5, <1>6, <1>7, <1>8, <1>9, <1>10, Steps

-----------------------------------------------------------------------------
(***************************************************************************)
(* What weighs on a cap: all that was signed and not given back, whatever  *)
(* became of it, and the holds of what is not signed yet.                  *)
(***************************************************************************)
Weight ==
    ledger \cup {s \in issued : J!Part(s) \notin released}
           \cup {h \in reserved : h.tx \notin recorded}

Outstanding(agent, asset) == SpentToday(Weight, agent, asset, now)

FitsWith(amount, agent, asset) ==
    \E p \in Policies :
        /\ agent \in DOMAIN p /\ asset \in DOMAIN p[agent].perTxMax
        /\ Outstanding(agent, asset) + amount <= DailyCap(p[agent], asset)

Bounded ==
    \A agent \in Agents, asset \in {Q[r].asset : r \in Requests} \cup {Lovelace} :
        Capped(agent, asset) => Outstanding(agent, asset) = 0 \/ FitsWith(0, agent, asset)

(* What was allowed still fits when the wallet's turn comes. *)
Promised ==
    \A r \in Requests :
        pc[r] = "walletLock" => FitsWith(Q[r].amount, Q[r].agent, Q[r].asset)

CapInv ==
    /\ policyFile \in Policies \cup {Unreadable}
    /\ LocksHeld /\ HoldsSound /\ OnlyTheDead /\ AllSummable /\ Bounded /\ Promised

LEMMA CapsAreNumbers ==
  ASSUME NEW p \in Policies, NEW agent \in DOMAIN p, NEW asset \in DOMAIN p[agent].perTxMax
  PROVE  DailyCap(p[agent], asset) \in Nat
<1>1. Parses(p)
  BY SignerdAssumption
<1>2. Amounts(p[agent].perTxMax) /\ Amounts(p[agent].dailyMax)
  BY <1>1 DEF Parses
<1> QED
  BY <1>2 DEF Amounts, DailyCap

LEMMA WeightFacts ==
  ASSUME JP!JournalInv, HoldsSound, AllSummable
  PROVE  /\ \A s \in Weight : s.ts \in Nat /\ s.amount \in Nat
         /\ Weight \subseteq ledger \cup issued \cup reserved
         /\ \A agent, asset, t : /\ Summable(InDay(Weight, agent, asset, t))
                                 /\ Summable(InDay(ledger \cup reserved, agent, asset, t))
         /\ \A agent, asset : Outstanding(agent, asset) \in Nat
<1>1. \A s \in ledger \cup issued : s.amount \in Nat /\ s.ts \in Nat
  BY FilesFacts
<1>2. \A h \in reserved : h.amount \in Nat /\ h.ts \in Nat
  BY AskFacts DEF HoldsSound, HoldOf
<1>3. Weight \subseteq ledger \cup issued \cup reserved
  BY DEF Weight
<1>4. ASSUME NEW agent, NEW asset, NEW t, NEW S \in SUBSET (ledger \cup issued \cup reserved)
      PROVE  Summable(InDay(S, agent, asset, t)) /\ Total(InDay(S, agent, asset, t)) \in Nat
  <2>1. InDay(S, agent, asset, t) \in SUBSET (ledger \cup issued \cup reserved)
    BY DEF InDay
  <2> QED
    BY <2>1, FewerUnits DEF AllSummable
<1>5. /\ \A agent, asset, t : /\ Summable(InDay(Weight, agent, asset, t))
                              /\ Summable(InDay(ledger \cup reserved, agent, asset, t))
      /\ \A agent, asset : Total(InDay(Weight, agent, asset, now)) \in Nat
  BY <1>3, <1>4
<1> QED
  BY <1>1, <1>2, <1>3, <1>5 DEF Outstanding, SpentToday

(***************************************************************************)
(* A step under which an agent's weight does not grow keeps what fits it.  *)
(***************************************************************************)
LEMMA StillFits ==
  ASSUME JP!JournalInv, HoldsSound, AllSummable, NEW agent, NEW asset,
         InDay(Weight, agent, asset, now)' \subseteq InDay(Weight, agent, asset, now)
  PROVE  /\ Outstanding(agent, asset)' \in Nat
         /\ Outstanding(agent, asset)' <= Outstanding(agent, asset)
         /\ \A n \in Nat : FitsWith(n, agent, asset) => FitsWith(n, agent, asset)'
<1> DEFINE S == InDay(Weight, agent, asset, now)
           T == InDay(Weight, agent, asset, now)'
<1>1. Summable(S) /\ T \in SUBSET S
  BY WeightFacts
<1>2. Outstanding(agent, asset) = Total(S) /\ Outstanding(agent, asset)' = Total(T)
  BY DEF Outstanding, SpentToday, Total, Units
<1> HIDE DEF S, T
<1>3. Total(T) \in Nat /\ Total(S) \in Nat /\ Total(T) <= Total(S)
  BY <1>1, FewerUnits
<1>4. ASSUME NEW n \in Nat, FitsWith(n, agent, asset) PROVE FitsWith(n, agent, asset)'
  <2>1. PICK p \in Policies :
           /\ agent \in DOMAIN p /\ asset \in DOMAIN p[agent].perTxMax
           /\ Outstanding(agent, asset) + n <= DailyCap(p[agent], asset)
    BY <1>4 DEF FitsWith
  <2>2. DailyCap(p[agent], asset) \in Nat
    BY <2>1, CapsAreNumbers
  <2>3. Outstanding(agent, asset)' + n <= DailyCap(p[agent], asset)
    BY <1>2, <1>3, <2>1, <2>2
  <2> QED
    BY <2>1, <2>3 DEF FitsWith
<1> QED
  BY <1>2, <1>3, <1>4

(***************************************************************************)
(* Between two sections of writes, all that weighs on an agent today is on *)
(* the ledger or held: what decide counts.                                 *)
(***************************************************************************)
LEMMA AtRest ==
  ASSUME JP!JournalInv, HoldsSound, AllSummable, phase = "idle", NEW agent, NEW asset
  PROVE  /\ InDay(Weight, agent, asset, now) \subseteq InDay(ledger \cup reserved, agent, asset, now)
         /\ SpentToday(ledger \cup reserved, agent, asset, now) \in Nat
         /\ Outstanding(agent, asset) <= SpentToday(ledger \cup reserved, agent, asset, now)
<1> DEFINE S == InDay(Weight, agent, asset, now)
           T == InDay(ledger \cup reserved, agent, asset, now)
<1>1. S \in SUBSET T
  BY FilesFacts DEF Weight, InDay
<1>2. Summable(T)
  BY WeightFacts
<1> HIDE DEF S, T
<1>3. Total(S) \in Nat /\ Total(T) \in Nat /\ Total(S) <= Total(T)
  BY <1>1, <1>2, FewerUnits
<1> QED
  BY <1>1, <1>3 DEF S, T, Outstanding, SpentToday

(* What decide admits, by the policy it read. *)
LEMMA AdmittedFits ==
  ASSUME policyFile \in Policies \cup {Unreadable}, NEW r \in Requests, DecideFor(r) # "deny"
  PROVE  \E p \in Policies :
            /\ Q[r].agent \in DOMAIN p /\ Q[r].asset \in DOMAIN p[Q[r].agent].perTxMax
            /\ SpentToday(ledger \cup reserved, Q[r].agent, Q[r].asset, now) + Q[r].amount
                 <= DailyCap(p[Q[r].agent], Q[r].asset)
<1>1. policyFile \in Policies /\ Admits(policyFile, JudgedAgainst(r), Q[r], now)
  BY DEF DecideFor, Decide, On
<1>2. JudgedAgainst(r) = ledger \cup reserved
  BY DEF JudgedAgainst
<1> QED
  BY <1>1, <1>2 DEF Admits

LEMMA AllowedFits ==
  ASSUME JP!JournalInv, CapInv, NEW r \in Requests, Allowed(r)
  PROVE  FitsWith(Q[r].amount, Q[r].agent, Q[r].asset)
<1>1. phase = "idle" /\ DecideFor(r) # "deny"
  BY DEF Allowed, Idle
<1>2. PICK p \in Policies :
            /\ Q[r].agent \in DOMAIN p /\ Q[r].asset \in DOMAIN p[Q[r].agent].perTxMax
            /\ SpentToday(ledger \cup reserved, Q[r].agent, Q[r].asset, now) + Q[r].amount
                 <= DailyCap(p[Q[r].agent], Q[r].asset)
  BY <1>1, AdmittedFits DEF CapInv
<1>3. /\ SpentToday(ledger \cup reserved, Q[r].agent, Q[r].asset, now) \in Nat
      /\ Outstanding(Q[r].agent, Q[r].asset) \in Nat
      /\ Outstanding(Q[r].agent, Q[r].asset)
           <= SpentToday(ledger \cup reserved, Q[r].agent, Q[r].asset, now)
  BY <1>1, AtRest, WeightFacts DEF CapInv
<1>4. Q[r].amount \in Nat /\ DailyCap(p[Q[r].agent], Q[r].asset) \in Nat
  BY <1>2, AskFacts, CapsAreNumbers
<1>5. Outstanding(Q[r].agent, Q[r].asset) + Q[r].amount <= DailyCap(p[Q[r].agent], Q[r].asset)
  BY <1>2, <1>3, <1>4
<1> QED
  BY <1>2, <1>5 DEF FitsWith

(***************************************************************************)
(* The bound for an agent and an asset after a step that grew its weight.  *)
(***************************************************************************)
LEMMA GrownFits ==
  ASSUME NEW agent, NEW asset, NEW p \in Policies,
         agent \in DOMAIN p, asset \in DOMAIN p[agent].perTxMax,
         Outstanding(agent, asset)' \in Nat,
         Outstanding(agent, asset)' <= DailyCap(p[agent], asset)
  PROVE  FitsWith(0, agent, asset)'
<1>1. Outstanding(agent, asset)' + 0 <= DailyCap(p[agent], asset)
  OBVIOUS
<1> QED
  BY <1>1 DEF FitsWith

(***************************************************************************)
(* A step that makes only one agent's weight grow breaks no promise when   *)
(* the session that takes it holds that agent's lock and is promised       *)
(* nothing any more.                                                       *)
(***************************************************************************)
LEMMA PromisesKept ==
  ASSUME QueueInv, JP!JournalInv, CapInv, NEW x \in Sessions, On(x) \in Requests, HasAgentLock(x),
         pc'[x] # "walletLock",
         \A r \in Requests : pc'[r] = "walletLock" => pc[r] = "walletLock",
         \A agent, asset : agent # AgentOf(x) =>
            InDay(Weight, agent, asset, now)' \subseteq InDay(Weight, agent, asset, now)
  PROVE  Promised'
<1> SUFFICES ASSUME NEW r \in Requests, pc'[r] = "walletLock"
             PROVE  FitsWith(Q[r].amount, Q[r].agent, Q[r].asset)'
  BY DEF Promised
<1>1. pc[r] = "walletLock" /\ r # x /\ r \in Sessions /\ Holding(r) /\ AgentOf(r) = Q[r].agent
  BY DEF Sessions, Holding, AgentOf, On
<1>2. Q[r].agent # AgentOf(x)
  BY <1>1, OneHolder DEF CapInv
<1>3. FitsWith(Q[r].amount, Q[r].agent, Q[r].asset)
  BY <1>1 DEF CapInv, Promised
<1> QED
  BY <1>2, <1>3, StillFits, AskFacts DEF CapInv

LEMMA EnqueueKeepsCaps ==
  ASSUME QueueInv, JP!JournalInv, CapInv, NEW r \in Requests, Enqueue(r)
  PROVE  Bounded' /\ Promised'
<1> DEFINE a == Q[r].agent
           h == HoldFor(r)
<1>1. /\ phase = "idle" /\ pc[r] = "agentLock" /\ DecideFor(r) # "deny" /\ HasAgentLock(r)
      /\ pc' = [pc EXCEPT ![r] = "queued"] /\ reserved' = reserved \cup {h}
      /\ now' = now /\ ledger' = ledger /\ issued' = issued /\ released' = released
      /\ recorded' = recorded
  BY DEF Enqueue, Idle, J!AuditPending, J!history
<1>2. h.agent = a /\ h.asset = Q[r].asset /\ h.amount = Q[r].amount /\ h.amount \in Nat
  BY AskFacts DEF HoldFor
<1> HIDE DEF h
<1>3. Weight' \subseteq Weight \cup {h}
  BY <1>1 DEF Weight, J!Part
<1>4. ASSUME NEW agent, NEW asset, agent # a \/ asset # Q[r].asset
      PROVE  InDay(Weight, agent, asset, now)' \subseteq InDay(Weight, agent, asset, now)
  BY <1>1, <1>2, <1>3, <1>4 DEF InDay
<1>5. FitsWith(0, a, Q[r].asset)'
  <2> DEFINE T == InDay(ledger \cup reserved, a, Q[r].asset, now)
             S == InDay(Weight, a, Q[r].asset, now)'
  <2>1. Summable(T) /\ InDay(Weight, a, Q[r].asset, now) \subseteq T
    BY <1>1, WeightFacts, AtRest DEF CapInv
  <2>2. S \in SUBSET (T \cup {h})
    BY <1>1, <1>3, <2>1 DEF InDay
  <2> HIDE DEF S, T
  <2>3. Summable(T \cup {h}) /\ Total(T \cup {h}) <= Total(T) + Q[r].amount
    BY <1>2, <2>1, OneSpendMore
  <2>4. Total(S) \in Nat /\ Total(T \cup {h}) \in Nat /\ Total(S) <= Total(T \cup {h})
    BY <2>2, <2>3, FewerUnits
  <2>5. PICK p \in Policies :
            /\ a \in DOMAIN p /\ Q[r].asset \in DOMAIN p[a].perTxMax
            /\ SpentToday(ledger \cup reserved, a, Q[r].asset, now) + Q[r].amount
                 <= DailyCap(p[a], Q[r].asset)
    BY <1>1, AdmittedFits DEF CapInv
  <2>6. DailyCap(p[a], Q[r].asset) \in Nat
    BY <2>5, CapsAreNumbers
  <2>7. SpentToday(ledger \cup reserved, a, Q[r].asset, now) = Total(T)
    BY DEF T, SpentToday
  <2>8. Outstanding(a, Q[r].asset)' = Total(S)
    BY DEF S, Outstanding, SpentToday, Total, Units
  <2>9. Total(T) \in Nat /\ Q[r].amount \in Nat
    BY <2>1, FewerUnits, AskFacts
  <2>10. Outstanding(a, Q[r].asset)' \in Nat /\ Outstanding(a, Q[r].asset)' <= DailyCap(p[a], Q[r].asset)
    BY <2>3, <2>4, <2>5, <2>6, <2>7, <2>8, <2>9
  <2> QED
    BY <2>5, <2>10, GrownFits
<1>6. Bounded'
  <2> SUFFICES ASSUME NEW agent \in Agents, NEW asset \in {Q[x].asset : x \in Requests} \cup {Lovelace},
                      Capped(agent, asset)
               PROVE  Outstanding(agent, asset)' = 0 \/ FitsWith(0, agent, asset)'
    BY DEF Bounded, Capped
  <2>1. CASE agent = a /\ asset = Q[r].asset
    BY <1>5, <2>1
  <2>2. CASE agent # a \/ asset # Q[r].asset
    <3>1. Outstanding(agent, asset) = 0 \/ FitsWith(0, agent, asset)
      BY DEF CapInv, Bounded
    <3> QED
      BY <1>4, <2>2, <3>1, StillFits DEF CapInv
  <2> QED
    BY <2>1, <2>2
<1>7. Promised'
  <2>1. r \in Sessions /\ On(r) = r /\ AgentOf(r) = a /\ pc \in [Sessions -> Places]
    BY DEF Sessions, On, AgentOf, QueueInv, QueueTypes
  <2>2. \A x \in Requests : pc'[x] = "walletLock" => pc[x] = "walletLock" /\ x # r
    BY <1>1, <2>1 DEF Sessions
  <2>3. pc'[r] # "walletLock"
    BY <1>1, <2>1
  <2> QED
    BY <1>1, <1>4, <2>1, <2>2, <2>3, PromisesKept
<1> QED
  BY <1>6, <1>7

(***************************************************************************)
(* A payment in the asset of its fees: decideOverhead judges the two       *)
(* together, against all but the approval's own hold.                      *)
(***************************************************************************)
LEMMA CommittedLovelaceFits ==
  ASSUME JP!JournalInv, CapInv, NEW s \in Requests \cup Operators, NEW o \in Overheads,
         NEW r \in Requests, r = On(s), phase = "idle",
         OverheadAllowed(s, o), Capped(Q[r].agent, Lovelace), now' = now,
         Weight' \subseteq ledger \cup J!SpendsOf(Bill(r, o), now)
                      \cup {x \in issued : J!Part(x) \notin released}
                      \cup {h \in reserved : h.tx \notin recorded /\ h.tx # r}
  PROVE  FitsWith(0, Q[r].agent, Lovelace)'
<1> DEFINE a == Q[r].agent
           V == JudgedAgainst(s)
           T == InDay(V, a, Lovelace, now)
           S == InDay(Weight, a, Lovelace, now)'
           pay == J!Payment(Bill(r, o), now)
           over == J!Overhead(Bill(r, o), now)
           p == policyFile
<1>1. /\ p \in Policies /\ AdmitsOverhead(p, V, Q[r], o, now)
      /\ a \in DOMAIN p /\ Lovelace \in DOMAIN p[a].perTxMax
      /\ SpentToday(V, a, Lovelace, now) + Leaving(Q[r], o) <= DailyCap(p[a], Lovelace)
  <2>1. p \in Policies /\ AdmitsOverhead(p, V, Q[r], o, now)
    BY DEF OverheadAllowed, CapInv
  <2>2. a \in DOMAIN p
    BY <2>1 DEF AdmitsOverhead
  <2>3. Lovelace \in DOMAIN p[a].perTxMax
    BY <2>1, <2>2 DEF Capped
  <2> QED
    BY <2>1, <2>2, <2>3 DEF AdmitsOverhead
<1>2. /\ o \in Nat /\ Q[r].amount \in Nat /\ DailyCap(p[a], Lovelace) \in Nat
  BY <1>1, AskFacts, CapsAreNumbers, SignerdAssumption
<1>3. /\ pay.asset = Q[r].asset /\ pay.amount = Q[r].amount
      /\ over.asset = Lovelace /\ over.amount = o
  BY DEF J!Payment, J!Overhead, Bill
<1>4. T \in SUBSET InDay(ledger \cup reserved, a, Lovelace, now)
  BY DEF InDay, JudgedAgainst
<1>5. Summable(T)
  <2>1. Summable(InDay(ledger \cup reserved, a, Lovelace, now))
    BY WeightFacts DEF CapInv
  <2> QED
    BY <1>4, <2>1, FewerUnits
<1>6. S \subseteq T \cup {over} \cup (IF Q[r].asset = Lovelace THEN {pay} ELSE {})
  <2> SUFFICES ASSUME NEW x \in S
               PROVE  x \in T \cup {over} \cup (IF Q[r].asset = Lovelace THEN {pay} ELSE {})
    OBVIOUS
  <2>1. x \in Weight' /\ x.agent = a /\ x.asset = Lovelace /\ now - x.ts < Day
    BY DEF InDay
  <2>2. CASE x \in J!SpendsOf(Bill(r, o), now)
    BY <2>1, <2>2, SpendsOfABill
  <2>3. CASE x \in ledger
    BY <2>1, <2>3 DEF InDay, JudgedAgainst
  <2>4. CASE x \in issued /\ J!Part(x) \notin released
    BY <2>1, <2>4, FilesFacts DEF InDay, JudgedAgainst
  <2>5. CASE x \in reserved /\ x.tx \notin recorded /\ x.tx # r
    BY <2>1, <2>5 DEF InDay, JudgedAgainst
  <2> QED
    BY <2>1, <2>2, <2>3, <2>4, <2>5
<1>7. SpentToday(V, a, Lovelace, now) = Total(T)
  BY DEF SpentToday
<1>8. Outstanding(a, Lovelace)' = Total(S)
  BY DEF Outstanding, SpentToday, Total, Units
<1> HIDE DEF S, T, V, pay, over, p
<1>9. Total(S) \in Nat /\ Total(S) <= Total(T) + Leaving(Q[r], o)
  <2>1. Summable(T \cup {over}) /\ Total(T \cup {over}) <= Total(T) + o /\ Total(T) \in Nat
    BY <1>2, <1>3, <1>5, OneSpendMore, FewerUnits
  <2>2. CASE Q[r].asset # Lovelace
    <3>1. S \in SUBSET (T \cup {over})
      BY <1>6, <2>2
    <3>2. Total(S) \in Nat /\ Total(T \cup {over}) \in Nat /\ Total(S) <= Total(T \cup {over})
      BY <2>1, <3>1, FewerUnits
    <3>3. Leaving(Q[r], o) = o
      BY <1>2, <2>2 DEF Leaving
    <3> QED
      BY <1>2, <2>1, <3>2, <3>3
  <2>3. CASE Q[r].asset = Lovelace
    <3>1. S \in SUBSET (T \cup {over} \cup {pay})
      BY <1>6, <2>3
    <3>2. /\ Summable(T \cup {over} \cup {pay})
          /\ Total(T \cup {over} \cup {pay}) <= Total(T \cup {over}) + Q[r].amount
      BY <1>2, <1>3, <2>1, OneSpendMore
    <3>3. /\ Total(S) \in Nat /\ Total(T \cup {over} \cup {pay}) \in Nat
          /\ Total(S) <= Total(T \cup {over} \cup {pay})
      BY <3>1, <3>2, FewerUnits
    <3>4. Total(T \cup {over}) \in Nat
      BY <2>1, FewerUnits
    <3>5. Leaving(Q[r], o) = o + Q[r].amount
      BY <1>2, <2>3 DEF Leaving
    <3> QED
      BY <1>2, <2>1, <3>2, <3>3, <3>4, <3>5
  <2> QED
    BY <2>2, <2>3
<1>10. Total(T) \in Nat /\ Leaving(Q[r], o) \in Nat
  BY <1>2, <1>5, FewerUnits DEF Leaving
<1>11. Outstanding(a, Lovelace)' \in Nat /\ Outstanding(a, Lovelace)' <= DailyCap(p[a], Lovelace)
  BY <1>1, <1>2, <1>7, <1>8, <1>9, <1>10
<1> QED
  BY <1>1, <1>11, GrownFits

(***************************************************************************)
(* A payment in another asset: a request takes what it was promised, and   *)
(* an approval's payment takes the place of its hold.                      *)
(***************************************************************************)
LEMMA CommittedTokenFits ==
  ASSUME FilesInv, JP!JournalInv, CapInv, NEW s \in Requests \cup Operators, NEW o \in Overheads,
         NEW r \in Requests, r = On(s), pc[s] = "walletLock", r \notin recorded,
         Q[r].asset # Lovelace, Capped(Q[r].agent, Q[r].asset), now' = now,
         Weight' \subseteq ledger \cup J!SpendsOf(Bill(r, o), now)
                      \cup {x \in issued : J!Part(x) \notin released}
                      \cup {h \in reserved : h.tx \notin recorded /\ h.tx # r}
  PROVE  Outstanding(Q[r].agent, Q[r].asset)' = 0 \/ FitsWith(0, Q[r].agent, Q[r].asset)'
<1> DEFINE a == Q[r].agent
           c == Q[r].asset
           pay == J!Payment(Bill(r, o), now)
           T == InDay(Weight, a, c, now)
           S == InDay(Weight, a, c, now)'
<1>1. pay.asset = c /\ pay.agent = a /\ pay.amount = Q[r].amount /\ pay.tx = r /\ Q[r].amount \in Nat
  BY AskFacts DEF J!Payment, Bill
<1>2. \A x \in S : x = pay \/ (x \in T /\ ~(x \in reserved /\ x.tx = r /\ x \notin ledger \cup issued))
  <2> SUFFICES ASSUME NEW x \in S, x # pay
               PROVE  x \in T /\ ~(x \in reserved /\ x.tx = r /\ x \notin ledger \cup issued)
    OBVIOUS
  <2>1. x \in Weight' /\ x.agent = a /\ x.asset = c /\ now - x.ts < Day
    BY DEF InDay
  <2>2. x \notin J!SpendsOf(Bill(r, o), now)
    BY <2>1, SpendsOfABill
  <2> QED
    BY <2>1, <2>2 DEF InDay, Weight
<1>3. Outstanding(a, c)' = Total(S) /\ Outstanding(a, c) = Total(T)
  BY DEF Outstanding, SpentToday, Total, Units
<1>4. Summable(T)
  BY WeightFacts DEF CapInv
<1>5. ASSUME s \in Requests PROVE FitsWith(0, a, c)'
  <2>1. PICK p \in Policies :
           /\ a \in DOMAIN p /\ c \in DOMAIN p[a].perTxMax
           /\ Outstanding(a, c) + Q[r].amount <= DailyCap(p[a], c)
    <3>1. s = r
      BY <1>5 DEF On
    <3>2. FitsWith(Q[r].amount, a, c)
      BY <3>1 DEF CapInv, Promised
    <3> QED
      BY <3>2 DEF FitsWith
  <2>2. DailyCap(p[a], c) \in Nat
    BY <2>1, CapsAreNumbers
  <2>3. S \in SUBSET (T \cup {pay})
    BY <1>2
  <2> HIDE DEF S, T, pay
  <2>4. Summable(T \cup {pay}) /\ Total(T \cup {pay}) <= Total(T) + Q[r].amount /\ Total(T) \in Nat
    BY <1>1, <1>4, OneSpendMore, FewerUnits
  <2>5. Total(S) \in Nat /\ Total(T \cup {pay}) \in Nat /\ Total(S) <= Total(T \cup {pay})
    BY <2>3, <2>4, FewerUnits
  <2>6. Outstanding(a, c)' \in Nat /\ Outstanding(a, c)' <= DailyCap(p[a], c)
    BY <1>1, <1>3, <2>1, <2>2, <2>4, <2>5
  <2> QED
    BY <2>1, <2>6, GrownFits
<1>6. ASSUME s \in Operators PROVE Outstanding(a, c)' \in Nat /\ Outstanding(a, c)' <= Outstanding(a, c)
  <2>1. target[s] = r /\ IsHeld(r)
    BY <1>6, Apart DEF On, FilesInv, QueueInv, Held, Approving
  <2>2. PICK h \in reserved : h.tx = r
    BY <2>1 DEF IsHeld
  <2>3. h.agent = a /\ h.asset = c /\ h.amount = Q[r].amount /\ now - h.ts < Day
    BY <2>2 DEF CapInv, HoldsSound, HoldOf
  <2>4. h \in T
    BY <2>2, <2>3 DEF InDay, Weight
  <2>5. h \notin ledger \cup issued
    BY <2>2, FilesFacts
  <2>6. h \notin S \/ h = pay
    BY <1>2, <2>2, <2>5
  <2>7. S \in SUBSET ((T \ {h}) \cup {pay})
    BY <1>2, <2>6
  <2> HIDE DEF S, T, pay
  <2>8. Summable(T \ {h}) /\ Total(T \ {h}) \in Nat
    BY <1>4, FewerUnits
  <2>9. Total((T \ {h}) \cup {h}) = Total(T \ {h}) + Q[r].amount
    BY <1>1, <2>3, <2>8, OneSpendMore
  <2>10. (T \ {h}) \cup {h} = T
    BY <2>4
  <2>11. /\ Summable((T \ {h}) \cup {pay})
         /\ Total((T \ {h}) \cup {pay}) <= Total(T \ {h}) + Q[r].amount
    BY <1>1, <2>8, OneSpendMore
  <2>12. /\ Total(S) \in Nat /\ Total((T \ {h}) \cup {pay}) \in Nat
         /\ Total(S) <= Total((T \ {h}) \cup {pay})
    BY <2>7, <2>11, FewerUnits
  <2>13. Total(T) = Total(T \ {h}) + Q[r].amount
    BY <2>9, <2>10
  <2> QED
    BY <1>1, <1>3, <2>8, <2>11, <2>12, <2>13
<1>7. ASSUME s \in Operators PROVE Outstanding(a, c)' = 0 \/ FitsWith(0, a, c)'
  <2>1. Outstanding(a, c) = 0 \/ FitsWith(0, a, c)
    BY AskFacts DEF CapInv, Bounded
  <2>2. Outstanding(a, c) \in Nat
    BY WeightFacts DEF CapInv
  <2>3. CASE Outstanding(a, c) = 0
    BY <1>6, <1>7, <2>3
  <2>4. CASE FitsWith(0, a, c)
    <3>1. PICK p \in Policies :
           /\ a \in DOMAIN p /\ c \in DOMAIN p[a].perTxMax
           /\ Outstanding(a, c) + 0 <= DailyCap(p[a], c)
      BY <2>4 DEF FitsWith
    <3>2. DailyCap(p[a], c) \in Nat
      BY <3>1, CapsAreNumbers
    <3>3. Outstanding(a, c)' \in Nat /\ Outstanding(a, c)' <= DailyCap(p[a], c)
      BY <1>6, <1>7, <2>2, <3>1, <3>2
    <3> QED
      BY <3>1, <3>3, GrownFits
  <2> QED
    BY <2>1, <2>3, <2>4
<1> QED
  BY <1>5, <1>7

LEMMA CommitKeepsCaps ==
  ASSUME FilesInv, JP!JournalInv, CapInv, NEW s \in Requests \cup Operators, Commit(s)
  PROVE  Bounded' /\ Promised'
<1>1. pc[s] = "walletLock" /\ phase = "idle"
  BY DEF Commit, Idle
<1>2. s \in Sessions /\ On(s) \in Requests /\ HasAgentLock(s) /\ pc \in [Sessions -> Places]
  <2>1. s \in Sessions /\ Holding(s)
    BY <1>1 DEF Sessions, Holding
  <2> QED
    BY <2>1 DEF CapInv, LocksHeld, FilesInv, QueueInv, QueueTypes
<1>3. PICK r \in Requests : r = On(s)
  BY <1>2
<1>4. PICK o \in Overheads : OverheadAllowed(s, o) /\ J!Push(Bill(r, o))
  BY <1>3 DEF Commit
<1>5. /\ now' = now /\ issued' = issued /\ released' = released /\ reserved' = reserved
      /\ recorded' = recorded \cup {r} /\ r \notin recorded
      /\ ledger' \subseteq ledger \cup J!SpendsOf(Bill(r, o), now)
      /\ pc' = [pc EXCEPT ![s] = "recording"]
  BY <1>4 DEF Commit, J!Push, Bill
<1>6. Weight' \subseteq ledger \cup J!SpendsOf(Bill(r, o), now)
                      \cup {x \in issued : J!Part(x) \notin released}
                      \cup {h \in reserved : h.tx \notin recorded /\ h.tx # r}
  BY <1>5 DEF Weight, J!Part
<1>7. ASSUME NEW agent, NEW asset,
             agent # Q[r].agent \/ (asset # Q[r].asset /\ asset # Lovelace)
      PROVE  InDay(Weight, agent, asset, now)' \subseteq InDay(Weight, agent, asset, now)
  <2> SUFFICES ASSUME NEW x \in InDay(Weight, agent, asset, now)'
               PROVE  x \in InDay(Weight, agent, asset, now)
    OBVIOUS
  <2>1. x \in Weight' /\ x.agent = agent /\ x.asset = asset /\ now - x.ts < Day
    BY <1>5 DEF InDay
  <2>2. x \notin J!SpendsOf(Bill(r, o), now)
    BY <1>7, <2>1, SpendsOfABill
  <2>3. x \in Weight
    BY <1>6, <2>1, <2>2 DEF Weight
  <2> QED
    BY <2>1, <2>3 DEF InDay
<1>8. Bounded'
  <2> SUFFICES ASSUME NEW agent \in Agents, NEW asset \in {Q[x].asset : x \in Requests} \cup {Lovelace},
                      Capped(agent, asset)
               PROVE  Outstanding(agent, asset)' = 0 \/ FitsWith(0, agent, asset)'
    BY DEF Bounded, Capped
  <2>1. CASE agent = Q[r].agent /\ asset = Lovelace
    BY <1>1, <1>3, <1>4, <1>5, <1>6, <2>1, CommittedLovelaceFits
  <2>2. CASE agent = Q[r].agent /\ asset = Q[r].asset /\ asset # Lovelace
    BY <1>1, <1>3, <1>5, <1>6, <2>2, CommittedTokenFits
  <2>3. CASE agent # Q[r].agent \/ (asset # Q[r].asset /\ asset # Lovelace)
    <3>1. Outstanding(agent, asset) = 0 \/ FitsWith(0, agent, asset)
      BY DEF CapInv, Bounded
    <3> QED
      BY <1>7, <2>3, <3>1, StillFits DEF CapInv
  <2> QED
    BY <2>1, <2>2, <2>3
<1>9. Promised'
  <2>1. AgentOf(s) = Q[r].agent
    BY <1>3 DEF AgentOf
  <2>2. \A x \in Requests : pc'[x] = "walletLock" => pc[x] = "walletLock"
    BY <1>2, <1>5 DEF Sessions
  <2>3. pc'[s] # "walletLock"
    BY <1>2, <1>5
  <2> QED
    BY <1>2, <1>3, <1>7, <2>1, <2>2, <2>3, PromisesKept DEF FilesInv
<1> QED
  BY <1>8, <1>9

(***************************************************************************)
(* Every other step lightens what weighs, or leaves it.                    *)
(***************************************************************************)
LEMMA OthersLighten ==
  ASSUME JP!JournalInv, CapInv, [Next]_vars,
         \A r \in Requests : ~Enqueue(r), \A s \in Requests \cup Operators : ~Commit(s)
  PROVE  Weight' \subseteq Weight /\ now' \in Nat /\ now <= now'
<1>1. now \in Nat
  BY FilesFacts
<1>2. CASE Quiet
  BY <1>1, <1>2 DEF Quiet, Weight, J!Part
<1>3. CASE Record
  <2>1. /\ ledger' = ledger /\ issued' = issued \cup J!SpendsOf(bill, now) /\ reserved' = reserved
        /\ phase = "pushed" /\ recorded' = recorded /\ released' = released /\ now' = now
    BY <1>3 DEF Record, J!AuditSigned, J!memory
  <2>2. J!SpendsOf(bill, now) \subseteq ledger
    BY <2>1, FilesFacts
  <2> QED
    BY <1>1, <2>1, <2>2 DEF Weight, J!Part
<1>4. CASE Release
  BY <1>1, <1>4 DEF Release, J!AuditRelease, Weight, J!Part
<1>5. CASE Crash
  BY <1>1, <1>5 DEF Crash, J!Crash, J!history, Weight, J!Part
<1>6. CASE Restart
  <2>1. /\ ledger' = J!Rebuilt(ckpt) /\ issued' = issued /\ released' = released
        /\ recorded' = recorded /\ reserved' = reserved /\ now' = now
    BY <1>6 DEF Restart, J!Replay, J!history
  <2> QED
    BY <1>1, <2>1, RebuiltFacts DEF Weight, J!Part
<1>7. CASE Tick
  <2>1. /\ ledger' = ledger /\ issued' = issued /\ released' = released
        /\ recorded' = recorded /\ reserved' = reserved /\ now' = now + 1
    BY <1>7 DEF Tick, J!Tick, J!memory, J!history
  <2> QED
    BY <1>1, <2>1 DEF Weight, J!Part
<1> QED
  BY <1>2, <1>3, <1>4, <1>5, <1>6, <1>7, Steps

LEMMA CapsKept ==
  ASSUME FilesInv, JP!JournalInv, CapInv, [Next]_vars
  PROVE  Bounded' /\ Promised'
<1>1. CASE \E r \in Requests : Enqueue(r)
  BY <1>1, EnqueueKeepsCaps DEF FilesInv
<1>2. CASE \E s \in Requests \cup Operators : Commit(s)
  BY <1>2, CommitKeepsCaps
<1>3. CASE (\A r \in Requests : ~Enqueue(r)) /\ \A s \in Requests \cup Operators : ~Commit(s)
  <2>1. Weight' \subseteq Weight /\ now' \in Nat /\ now <= now' /\ now \in Nat /\ Day \in Nat
    BY <1>3, OthersLighten, FilesFacts
  <2>2. ASSUME NEW agent, NEW asset
        PROVE  InDay(Weight, agent, asset, now)' \subseteq InDay(Weight, agent, asset, now)
    BY <2>1, WeightFacts DEF InDay, CapInv
  <2>3. ASSUME NEW r \in Requests, pc'[r] = "walletLock"
        PROVE  FitsWith(Q[r].amount, Q[r].agent, Q[r].asset)'
    <3>1. FitsWith(Q[r].amount, Q[r].agent, Q[r].asset)
      <4>1. pc[r] = "walletLock" \/ Allowed(r)
        BY <2>3, WalletTurns DEF FilesInv
      <4> QED
        BY <4>1, AllowedFits DEF CapInv, Promised
    <3> QED
      BY <2>2, <3>1, StillFits, AskFacts DEF CapInv
  <2>4. ASSUME NEW agent \in Agents, NEW asset \in {Q[r].asset : r \in Requests} \cup {Lovelace},
               Capped(agent, asset)
        PROVE  Outstanding(agent, asset)' = 0 \/ FitsWith(0, agent, asset)'
    <3>1. Outstanding(agent, asset) = 0 \/ FitsWith(0, agent, asset)
      BY <2>4 DEF CapInv, Bounded
    <3>2. /\ Outstanding(agent, asset)' \in Nat
          /\ Outstanding(agent, asset)' <= Outstanding(agent, asset)
          /\ FitsWith(0, agent, asset) => FitsWith(0, agent, asset)'
      BY <2>2, StillFits DEF CapInv
    <3> QED
      BY <3>1, <3>2
  <2>5. Bounded'
    BY <2>4 DEF Bounded, Capped
  <2> QED
    BY <2>3, <2>5 DEF Promised
<1> QED
  BY <1>1, <1>2, <1>3

LEMMA CapStep == FilesInv /\ JP!JournalInv /\ CapInv /\ [Next]_vars => CapInv'
<1> SUFFICES ASSUME FilesInv, JP!JournalInv, CapInv, [Next]_vars PROVE CapInv'
  OBVIOUS
<1>1. policyFile' \in Policies \cup {Unreadable}
  BY PolicyMoves, SignerdAssumption DEF CapInv
<1>2. LocksHeld' /\ HoldsSound' /\ OnlyTheDead' /\ AllSummable'
  BY LocksStep, HoldsStep, TheDeadStep, SumsStep DEF CapInv
<1>3. Bounded' /\ Promised'
  BY CapsKept
<1> QED
  BY <1>1, <1>2, <1>3 DEF CapInv

LEMMA CapInit == Init => CapInv
<1> SUFFICES ASSUME Init PROVE CapInv
  OBVIOUS
<1>1. /\ policyFile \in Policies /\ reserved = {} /\ ledger = {} /\ issued = {} /\ released = {}
      /\ phase = "down" /\ sync = NoOne /\ agentQ = [a \in Agents |-> << >>]
      /\ chain = [r \in Requests |-> "open"]
      /\ \A s \in Sessions : pc[s] \in {"new", "idle"}
  BY DEF Init, J!Init, Sessions
<1>2. LocksHeld
  <2>1. agentQ \in [Agents -> Seq(Sessions)]
    BY <1>1
  <2> QED
    BY <1>1, <2>1, Apart DEF LocksHeld, Holding
<1>3. HoldsSound
  BY <1>1 DEF HoldsSound
<1>4. OnlyTheDead
  BY <1>1, Apart DEF OnlyTheDead, Sessions
<1>5. AllSummable
  <2>1. Units(ledger \cup issued \cup reserved) = {}
    BY <1>1 DEF Units
  <2> QED
    BY <2>1, FS_EmptySet DEF AllSummable, Summable
<1>6. Bounded
  <2>1. \A agent, asset : Units(InDay(Weight, agent, asset, now)) = {}
    BY <1>1 DEF Units, InDay, Weight
  <2> QED
    BY <2>1, FS_EmptySet DEF Bounded, Outstanding, SpentToday, Total
<1>7. Promised
  BY <1>1 DEF Promised, Sessions
<1> QED
  BY <1>1, <1>2, <1>3, <1>4, <1>5, <1>6, <1>7 DEF CapInv

(***************************************************************************)
(* What an agent has committed is part of what weighs on its caps: what is *)
(* released is dead on the chain, and a hold whose spend is not counted    *)
(* any more is of nothing recorded.                                        *)
(***************************************************************************)
LEMMA CommittedIsOutstanding ==
  ASSUME JP!JournalInv, CapInv, NEW agent, NEW asset
  PROVE  /\ Committed(agent, asset) \in Nat
         /\ Committed(agent, asset) <= Outstanding(agent, asset)
<1> DEFINE signed == {s.tx : s \in Signatures}
           S == InDay(Signatures \cup {h \in reserved : h.tx \notin signed}, agent, asset, now)
           T == InDay(Weight, agent, asset, now)
<1>1. ASSUME NEW s \in issued, chain[s.tx] # "expired" PROVE J!Part(s) \notin released
  <2>1. J!Part(s).tx = s.tx
    BY DEF J!Part
  <2> QED
    BY <1>1, <2>1 DEF CapInv, OnlyTheDead
<1>2. ASSUME NEW h \in reserved, h.tx \notin signed PROVE h.tx \notin recorded
  BY <1>2 DEF CapInv, HoldsSound, Signatures
<1>3. S \in SUBSET T
  BY <1>1, <1>2 DEF Weight, Signatures, InDay
<1>4. Summable(T)
  BY WeightFacts DEF CapInv
<1>5. Committed(agent, asset) = Total(S) /\ Outstanding(agent, asset) = Total(T)
  BY DEF Committed, SpentToday, Outstanding
<1> HIDE DEF S, T
<1> QED
  BY <1>3, <1>4, <1>5, FewerUnits

(***************************************************************************)
(* The property CapHolds: no interleaving of requests, approvals, fees,    *)
(* policy edits, releases and crashes commits more of an asset in a day    *)
(* than the largest daily cap any version of the policy gives the agent.   *)
(***************************************************************************)
THEOREM TheCapIsKept == Spec => []CapHolds
<1>1. Spec => []CapInv
  BY CapInit, CapStep, FilesAreSound, JournalIsSound, PTL DEF Spec
<1>2. JP!JournalInv /\ CapInv => CapHolds
  <2> SUFFICES ASSUME JP!JournalInv, CapInv,
                      NEW agent \in Agents, NEW asset \in {Q[r].asset : r \in Requests} \cup {Lovelace},
                      Capped(agent, asset)
               PROVE  \/ Committed(agent, asset) = 0
                      \/ \E p \in Policies : /\ agent \in DOMAIN p
                                            /\ Committed(agent, asset) <= DailyCap(p[agent], asset)
    BY DEF CapHolds
  <2>1. /\ Committed(agent, asset) \in Nat /\ Outstanding(agent, asset) \in Nat
        /\ Committed(agent, asset) <= Outstanding(agent, asset)
    BY CommittedIsOutstanding, WeightFacts DEF CapInv
  <2>2. Outstanding(agent, asset) = 0 \/ FitsWith(0, agent, asset)
    BY DEF CapInv, Bounded
  <2>3. CASE Outstanding(agent, asset) = 0
    BY <2>1, <2>3
  <2>4. CASE FitsWith(0, agent, asset)
    <3>1. PICK p \in Policies :
           /\ agent \in DOMAIN p /\ asset \in DOMAIN p[agent].perTxMax
           /\ Outstanding(agent, asset) + 0 <= DailyCap(p[agent], asset)
      BY <2>4 DEF FitsWith
    <3>2. DailyCap(p[agent], asset) \in Nat
      BY <3>1, CapsAreNumbers
    <3> QED
      BY <2>1, <3>1, <3>2
  <2> QED
    BY <2>2, <2>3, <2>4
<1> QED
  BY <1>1, <1>2, JournalIsSound, PTL
=============================================================================
