---------------------------- MODULE Daemon_proofs ----------------------------
(***************************************************************************)
(* What holds of Daemon for any number of requests and agents, any         *)
(* environments and policies, and any number of edits.                     *)
(***************************************************************************)
EXTENDS Daemon, TLAPS

-----------------------------------------------------------------------------
(***************************************************************************)
(* The policy.  An mtime only grows, so a policy remembered with an older  *)
(* mtime than the file's is read again; what has to be shown is that the   *)
(* policy and the mtime in memory belong together.  They do from the       *)
(* start's stat on, unless it raced, and refreshPolicy reads after its     *)
(* stat: what it read is at least as new as the mtime it remembers.        *)
(***************************************************************************)
BeforeStat == {"off", "settings", "key", "policy", "refused"}

AfterStat == {"replay", "ledger", "channels", "listening", "stopping", "stopped", "died"}

PolicyTypes ==
    /\ file \in [policy : Policies, mtime : Nat]
    /\ cached \in [policy : Policies \cup {Unreadable}, mtime : Int]
    /\ reading \in [of : Requests \cup {NoOne}, mtime : Int]
    /\ raced \in BOOLEAN
    /\ stage \in BeforeStat \cup {"stat"} \cup AfterStat

MtimesGrow ==
    /\ cached.mtime <= file.mtime
    /\ reading.mtime <= file.mtime

BelongTogether ==
    /\ stage = "stat" /\ ~raced => cached.policy = file.policy
    /\ stage \in AfterStat /\ ~raced /\ cached.mtime = file.mtime =>
          cached.policy = file.policy

PolicyInv == PolicyTypes /\ MtimesGrow /\ BelongTogether

LEMMA PolicyInit == Init => PolicyInv
<1> SUFFICES ASSUME Init PROVE PolicyInv
  OBVIOUS
<1>1. /\ stage = "off" /\ raced = FALSE
      /\ file \in [policy : Policies, mtime : {0}]
      /\ cached = [policy |-> Unreadable, mtime |-> -1]
      /\ reading = [of |-> NoOne, mtime |-> -1]
  BY DEF Init, StartupInit, NoPolicy, NotReading
<1>2. file \in [policy : Policies, mtime : Nat] /\ file.mtime = 0
  BY <1>1
<1>3. PolicyTypes
  <2>1. cached \in [policy : Policies \cup {Unreadable}, mtime : Int]
    BY <1>1
  <2>2. reading \in [of : Requests \cup {NoOne}, mtime : Int]
    BY <1>1
  <2>3. raced \in BOOLEAN /\ stage \in BeforeStat
    BY <1>1, Zenon DEF BeforeStat
  <2> QED
    BY <1>2, <2>1, <2>2, <2>3 DEF PolicyTypes
<1>4. cached.mtime = -1 /\ reading.mtime = -1
  BY <1>1
<1>5. MtimesGrow
  BY <1>2, <1>4 DEF MtimesGrow
<1>6. BelongTogether
  BY <1>1 DEF BelongTogether, AfterStat
<1> QED
  BY <1>3, <1>5, <1>6 DEF PolicyInv

(* What leaves the policy and its mtimes alone, and the stages in order. *)
LEMMA PolicyUndisturbed ==
  ASSUME PolicyInv, UNCHANGED <<file, cached, reading, raced>>,
         \/ stage' = stage
         \/ stage' \in BeforeStat
         \/ stage \in AfterStat /\ stage' \in AfterStat
  PROVE  PolicyInv'
  BY DEF PolicyInv, PolicyTypes, MtimesGrow, BelongTogether, BeforeStat, AfterStat

LEMMA PolicyStartup == ASSUME PolicyInv, Around PROVE PolicyInv'
<1> USE DEF servevars, startvars, BeforeStat, AfterStat, To, Up
<1>0. reading' = reading
  BY DEF Around
<1>1. CASE stage = "off" /\ KeystoreNext /\ UNCHANGED startvars
  BY <1>0, <1>1, PolicyUndisturbed
<1>2. ASSUME NEW e \in Environments, Configure(e) PROVE PolicyInv'
  BY <1>0, <1>2, PolicyUndisturbed DEF Configure
<1>3. CASE CheckSettings
  BY <1>0, <1>3, PolicyUndisturbed DEF CheckSettings
<1>4. ASSUME stage = "key", NEW typed \in Passphrases, LoadKey(typed) PROVE PolicyInv'
  BY <1>0, <1>4, PolicyUndisturbed DEF LoadKey
<1>5. CASE ReadPolicy
  <2> DEFINE refused == PolicyRefused(env, file.policy)
  <2>1. CASE refused
    BY <1>0, <1>5, <2>1, PolicyUndisturbed DEF ReadPolicy
  <2>2. CASE ~refused
    <3>1. /\ stage' = "stat" /\ file' = file /\ raced' = raced
          /\ cached' = [cached EXCEPT !.policy = file.policy]
      BY <1>5, <2>2 DEF ReadPolicy
    <3> QED
      BY <1>0, <3>1 DEF PolicyInv, PolicyTypes, MtimesGrow, BelongTogether
  <2> QED
    BY <2>1, <2>2
<1>6. CASE StatPolicy
  <2>1. /\ stage = "stat" /\ stage' \in {"refused", "replay"}
        /\ file' = file /\ raced' = raced
        /\ cached' = [cached EXCEPT !.mtime = file.mtime]
    BY <1>6 DEF StatPolicy
  <2> QED
    BY <1>0, <2>1 DEF PolicyInv, PolicyTypes, MtimesGrow, BelongTogether
<1>7. CASE Replay
  <2>1. /\ stage = "replay" /\ stage' \in {"refused", "ledger"}
        /\ UNCHANGED <<file, cached, raced>>
    BY <1>7 DEF Replay
  <2> QED
    BY <1>0, <2>1, PolicyUndisturbed
<1>8. CASE CheckLedger
  <2>1. /\ stage = "ledger" /\ stage' \in {"refused", "channels"}
        /\ UNCHANGED <<file, cached, raced>>
    BY <1>8 DEF CheckLedger
  <2> QED
    BY <1>0, <2>1, PolicyUndisturbed
<1>9. CASE OpenChannels
  <2>1. /\ stage = "channels" /\ stage' \in {"refused", "listening"}
        /\ UNCHANGED <<file, cached, raced>>
    BY <1>9 DEF OpenChannels
  <2> QED
    BY <1>0, <2>1, PolicyUndisturbed
<1>10. CASE RefreshBalance
  BY <1>0, <1>10, PolicyUndisturbed DEF RefreshBalance
<1>11. ASSUME NEW p \in Served, ReplacePolicy(p) PROVE PolicyInv'
  <2>1. /\ stage = "stat" \/ stage \in AfterStat
        /\ file' = [policy |-> p, mtime |-> file.mtime + 1]
        /\ raced' = (raced \/ stage = "stat")
        /\ UNCHANGED <<stage, cached>>
    BY <1>11 DEF ReplacePolicy
  <2>2. p \in Policies
    BY DaemonAssumption
  <2>3. file.mtime \in Nat /\ cached.mtime \in Int /\ reading.mtime \in Int
    BY DEF PolicyInv, PolicyTypes
  <2>4. PolicyTypes'
    BY <1>0, <2>1, <2>2, <2>3 DEF PolicyInv, PolicyTypes
  <2>5. MtimesGrow' /\ cached'.mtime # file'.mtime
    BY <1>0, <2>1, <2>3 DEF PolicyInv, MtimesGrow
  <2>6. BelongTogether'
    BY <2>1, <2>5 DEF BelongTogether
  <2> QED
    BY <2>4, <2>5, <2>6 DEF PolicyInv
<1> QED
  BY <1>1, <1>2, <1>3, <1>4, <1>5, <1>6, <1>7, <1>8, <1>9, <1>10, <1>11
  DEF Around, StartupNext

LEMMA PolicyServe ==
  ASSUME PolicyInv, NEW r \in Requests, Serve(r)
  PROVE  PolicyInv'
<1> USE DEF startvars, AfterStat, Up, Free
<1>1. CASE Stat(r)
  <2>1. UNCHANGED <<stage, file, cached, raced>>
    BY <1>1 DEF Stat
  <2>2. reading' = reading \/ reading' = [of |-> r, mtime |-> file.mtime]
    BY <1>1 DEF Stat
  <2> QED
    BY <2>1, <2>2 DEF PolicyInv, PolicyTypes, MtimesGrow, BelongTogether
<1>2. ASSUME Free, CloseFromCallback(r) PROVE PolicyInv'
  <2>1. UNCHANGED <<file, cached, raced, reading>> /\ (stage' = stage \/ stage' = "died")
    BY <1>2 DEF CloseFromCallback, Dies
  <2>2. stage \in AfterStat
    BY <1>2
  <2> QED
    BY <2>1, <2>2, PolicyUndisturbed
<1>3. CASE TimeOut(r)
  BY <1>2, <1>3 DEF TimeOut
<1>4. CASE CallerLeaves(r)
  <2>1. CASE r \in pending
    BY <1>2, <1>4, <2>1 DEF CallerLeaves
  <2>2. CASE r \notin pending
    <3>1. UNCHANGED <<stage, file, cached, raced, reading>>
      BY <1>4, <2>2 DEF CallerLeaves
    <3> QED
      BY <3>1, PolicyUndisturbed
  <2> QED
    BY <2>1, <2>2
<1>5. ASSUME UNCHANGED startvars, reading' = reading PROVE PolicyInv'
  BY <1>5, PolicyUndisturbed
<1>6. ASSUME NEW h, NEW p, Arrive(r, h, p) PROVE PolicyInv'
  BY <1>5, <1>6 DEF Arrive
<1>7. CASE BadRequest(r)
  BY <1>5, <1>7 DEF BadRequest
<1>8. ASSUME NEW claims, SignBody(r, claims) PROVE PolicyInv'
  BY <1>5, <1>8 DEF SignBody
<1>9. ASSUME NEW q, ApproveBody(r, q) PROVE PolicyInv'
  BY <1>5, <1>9 DEF ApproveBody
<1>10. ASSUME NEW q, DenyBody(r, q) PROVE PolicyInv'
  BY <1>5, <1>10 DEF DenyBody
<1>11. CASE BuildRetried(r)
  BY <1>5, <1>11 DEF BuildRetried
<1>12. CASE BuildFails(r)
  BY <1>5, <1>12 DEF BuildFails
<1>13. CASE Built(r)
  BY <1>5, <1>13 DEF Built
<1> QED
  BY <1>1, <1>3, <1>4, <1>6, <1>7, <1>8, <1>9, <1>10, <1>11, <1>12, <1>13 DEF Serve

LEMMA PolicyStep == PolicyInv /\ [Next]_vars => PolicyInv'
<1> SUFFICES ASSUME PolicyInv, [Next]_vars PROVE PolicyInv'
  OBVIOUS
<1> USE DEF startvars, AfterStat, Up, Free
<1>1. CASE Around
  BY <1>1, PolicyStartup
<1>2. ASSUME NEW r \in Requests, Serve(r) PROVE PolicyInv'
  BY <1>2, PolicyServe
<1>3. CASE Status
  <2>1. /\ UNCHANGED <<stage, file, cached, raced>>
        /\ reading' = [of |-> NoOne, mtime |-> file.mtime]
    BY <1>3 DEF Status
  <2> QED
    BY <2>1 DEF PolicyInv, PolicyTypes, MtimesGrow, BelongTogether
<1>4. CASE Read
  <2> DEFINE refused == PolicyRefused(env, file.policy)
  <2>1. /\ stage \in AfterStat /\ UNCHANGED <<stage, file>>
        /\ reading' = [of |-> NoOne, mtime |-> -1]
        /\ raced' = (raced /\ refused)
        /\ cached' = IF refused THEN cached
                     ELSE [policy |-> file.policy, mtime |-> reading.mtime]
    BY <1>4 DEF Read, Cache, NotReading
  <2>2. CASE refused
    <3>1. cached' = cached /\ raced' = raced
      BY <2>1, <2>2 DEF PolicyInv, PolicyTypes
    <3> QED
      BY <2>1, <3>1 DEF PolicyInv, PolicyTypes, MtimesGrow, BelongTogether
  <2>3. CASE ~refused
    <3>1. cached' = [policy |-> file.policy, mtime |-> reading.mtime] /\ raced' = FALSE
      BY <2>1, <2>3
    <3> QED
      BY <2>1, <3>1 DEF PolicyInv, PolicyTypes, MtimesGrow, BelongTogether
  <2> QED
    BY <2>2, <2>3
<1>5. ASSUME stage \in AfterStat, stage' \in AfterStat,
             UNCHANGED <<file, cached, raced, reading>>
      PROVE  PolicyInv'
  BY <1>5, PolicyUndisturbed
<1>6. CASE Shutdown
  <2>1. /\ stage = "listening" /\ stage' \in {"stopping", "died"}
        /\ UNCHANGED <<file, cached, raced, reading>>
    BY <1>6 DEF Shutdown, Dies
  <2> QED
    BY <1>5, <2>1
<1>7. CASE Closed
  BY <1>5, <1>7 DEF Closed, Stop, servevars
<1>8. CASE TenSeconds
  BY <1>5, <1>8 DEF TenSeconds, Stop, servevars
<1>9. CASE UNCHANGED vars
  BY <1>9, PolicyUndisturbed DEF vars, servevars
<1> QED
  BY <1>1, <1>2, <1>3, <1>4, <1>6, <1>7, <1>8, <1>9 DEF Next

(***************************************************************************)
(* Whatever replaces the policy file and whenever, a policy that           *)
(* refreshPolicy (signerd.ts) would keep is what the file says, but for a  *)
(* file replaced between the start's own read and its stat.                *)
(***************************************************************************)
THEOREM DecisionsAreByTheFile == Spec => []PolicyIsTheFile
<1>1. PolicyInv => PolicyIsTheFile
  BY DEF PolicyInv, BelongTogether, PolicyIsTheFile, Up, AfterStat
<1> QED
  BY PolicyInit, PolicyStep, <1>1, PTL DEF Spec

-----------------------------------------------------------------------------
(***************************************************************************)
(* Authority and the queue.  An agent is given to a request once, from its *)
(* token; everything that pays later does so for a request that has one.   *)
(* And budget is held from the queue to the end of an approval: who is     *)
(* being approved is off the queue but held, and by one operator only.     *)
(***************************************************************************)
Begun == {"listening", "stopping", "stopped", "died"}

Places == {"idle", "body", "deciding", "queued", "signing", "built", "done"}

Working == {"deciding", "signing", "built"}

ServeTypes ==
    /\ at \in [Requests -> Places]
    /\ header \in [Requests -> Agents \cup {OperatorToken, NoToken}]
    /\ path \in [Requests -> {"none", "/sign", "/approve", "/deny"}]
    /\ agent \in [Requests -> Agents \cup {NoOne}]
    /\ target \in [Requests -> Requests \cup {NoOne}]
    /\ pending \subseteq Requests
    /\ reserved \subseteq Requests

(* Requests come once the daemon listens, and the reader of the policy     *)
(* waits for it.                                                           *)
InOrder ==
    /\ stage \notin Begun => payers = {} /\ \A r \in Requests : at[r] = "idle"
    /\ reading.of = NoOne \/ (reading.of \in Requests /\ at[reading.of] \in {"deciding", "built"})

Entitled(r) ==
    IF env.tokens = "sound" THEN header[r] = agent[r] ELSE header[r] = OperatorToken

Authority ==
    /\ \A r \in Requests :
          /\ at[r] \in {"idle", "body"} => agent[r] = NoOne
          /\ at[r] = "body" => Identify(header[r]) # NoOne
          /\ agent[r] # NoOne => Entitled(r)
          /\ at[r] \in Working =>
                /\ path[r] \in {"/sign", "/approve"}
                /\ For(r) \in Requests /\ agent[For(r)] # NoOne
    /\ \A r \in pending : agent[r] # NoOne
    /\ AuthorityIsTheTokens

Approving(o) == path[o] = "/approve" /\ at[o] \in {"signing", "built"}

Held ==
    /\ \A r \in pending : at[r] = "queued" /\ r \in reserved
    /\ \A o \in Requests : Approving(o) =>
          /\ target[o] \in reserved \ pending
          /\ at[target[o]] = "queued"
    /\ \A o, q \in Requests :
          Approving(o) /\ Approving(q) /\ target[o] = target[q] => o = q
    /\ \A r \in reserved :
          r \in pending \/ r \in unplaced \/ \E o \in Requests : Approving(o) /\ target[o] = r

ServeInv == ServeTypes /\ InOrder /\ Authority /\ Held

LEMMA ServeInit == Init => ServeInv
<1> SUFFICES ASSUME Init PROVE ServeInv
  OBVIOUS
<1>1. ServeTypes
  BY DEF Init, ServeTypes, Places
<1>2. InOrder
  BY DEF Init, InOrder, NotReading
<1>3. Authority
  BY DEF Init, Authority, AuthorityIsTheTokens, Working
<1>4. Held
  BY DEF Init, Held, Approving
<1> QED
  BY <1>1, <1>2, <1>3, <1>4 DEF ServeInv

LEMMA ServeUndisturbed ==
  ASSUME ServeInv, UNCHANGED <<at, header, path, agent, target, pending, reserved,
                               unplaced, approvers, payers>>,
         env' = env \/ stage \notin Begun,
         stage \in Begun => stage' \in Begun,
         reading'.of = NoOne \/ reading' = reading
  PROVE  ServeInv'
<1>1. ServeTypes'
  BY DEF ServeInv, ServeTypes
<1>2. InOrder'
  BY DEF ServeInv, InOrder
<1>3. Authority'
  <2>1. CASE env' = env
    BY <2>1 DEF ServeInv, Authority, AuthorityIsTheTokens, Entitled, Identify, For
  <2>2. CASE stage \notin Begun
    BY <2>2 DEF ServeInv, InOrder, Authority, AuthorityIsTheTokens, For, Working
  <2> QED
    BY <2>1, <2>2
<1>4. Held'
  BY DEF ServeInv, Held, Approving
<1> QED
  BY <1>1, <1>2, <1>3, <1>4 DEF ServeInv

(***************************************************************************)
(* Requests R end, those of P leaving the queue with their budget.         *)
(***************************************************************************)
LEMMA Ended ==
  ASSUME ServeInv, NEW R \in SUBSET Requests, NEW P \in SUBSET pending,
         \A r \in R : r \in P \/ at[r] \in {"idle", "body", "deciding", "done"},
         at' = [r \in Requests |-> IF r \in R THEN "done" ELSE at[r]],
         pending' = pending \ P, reserved' = reserved \ P, unplaced' = unplaced,
         approvers' \in {approvers, approvers \cup {OperatorToken}},
         UNCHANGED <<payers, header, path, agent, target, env>>, stage' \in Begun,
         reading'.of = NoOne \/ (reading' = reading /\ reading.of \notin R)
  PROVE  ServeInv'
<1>1. ServeTypes'
  BY DEF ServeInv, ServeTypes, Places
<1>2. InOrder'
  BY DEF ServeInv, InOrder
<1>3. Authority'
  BY DEF ServeInv, Authority, AuthorityIsTheTokens, Entitled, Identify, For, Working
<1>4. \A o \in Requests : Approving(o)' <=> Approving(o)
  BY DEF ServeInv, ServeTypes, Held, Approving
<1>5. Held'
  BY <1>4 DEF ServeInv, ServeTypes, Held, Approving
<1> QED
  BY <1>1, <1>2, <1>3, <1>5 DEF ServeInv

(* The same when nothing happens to the log and the queue. *)
LEMMA TurnedAway ==
  ASSUME ServeInv, NEW r \in Requests, at[r] \in {"idle", "body", "deciding", "done"},
         at' = [q \in Requests |-> IF q \in {r} THEN "done" ELSE at[q]]
            \/ at' = [at EXCEPT ![r] = "done"],
         UNCHANGED <<pending, reserved, unplaced, approvers, payers, header, path, agent,
                     target, env, stage>>,
         stage \in Begun,
         reading'.of = NoOne \/ (reading' = reading /\ reading.of # r)
  PROVE  ServeInv'
<1> DEFINE R == {r}
           P == {}
<1>1. at' = [q \in Requests |-> IF q \in R THEN "done" ELSE at[q]]
  BY DEF ServeInv, ServeTypes
<1>2. /\ R \in SUBSET Requests /\ P \in SUBSET pending
      /\ pending' = pending \ P /\ reserved' = reserved \ P
      /\ \A q \in R : q \in P \/ at[q] \in {"idle", "body", "deciding", "done"}
      /\ reading'.of = NoOne \/ (reading' = reading /\ reading.of \notin R)
  OBVIOUS
<1> HIDE DEF R, P
<1> QED
  BY <1>1, <1>2, Ended

(***************************************************************************)
(* A signature or its failure: the payer and, for an approval, the hold.   *)
(***************************************************************************)
LEMMA Finished ==
  ASSUME ServeInv, NEW s \in Requests, at[s] \in {"signing", "built"},
         NEW signed, NEW out, NEW written, Finish(s, signed, out, written),
         payers' \in {payers, payers \cup {[header |-> header[For(s)], agent |-> agent[For(s)]]}},
         UNCHANGED <<approvers, header, path, agent, target, env, stage>>, stage \in Begun,
         reading'.of = NoOne
  PROVE  ServeInv'
<1> DEFINE r == For(s)
           told == out \/ written
           R == {s} \cup (IF told THEN {r} ELSE {})
<1>1. /\ at' = [q \in Requests |-> IF q \in R THEN "done" ELSE at[q]]
      /\ pending' = pending /\ reserved' = reserved \ {r} /\ unplaced' = unplaced
  BY DEF Finish, Done
<1>2. r \in Requests /\ agent[r] # NoOne
  BY DEF ServeInv, Authority, Working
<1>3. R \in SUBSET Requests /\ s \in R /\ \A q \in R : q = s \/ q = r
  BY <1>2
<1>4. Entitled(r)
  BY <1>2 DEF ServeInv, Authority
<1>5. (Approving(s) /\ r = target[s]) \/ (~Approving(s) /\ r = s)
  BY DEF For, Approving
<1>6. \A o \in Requests : Approving(o) /\ o # s => target[o] # r
  BY <1>5, <1>2 DEF ServeInv, Held, Approving
<1> HIDE DEF r, R
<1>7. r \notin pending
  BY <1>5 DEF ServeInv, Held
<1>8. ServeTypes'
  BY <1>1, <1>3 DEF ServeInv, ServeTypes, Places
<1>9. InOrder'
  BY DEF InOrder
<1>10. Authority'
  <2>1. AuthorityIsTheTokens'
    BY <1>2, <1>4 DEF ServeInv, Authority, AuthorityIsTheTokens, Entitled, r
  <2> QED
    BY <2>1, <1>1, <1>3 DEF ServeInv, ServeTypes, Authority, Entitled, Identify, For, Working
<1>11. \A o \in Requests : Approving(o)' <=> Approving(o) /\ o # s
  <2>1. \A o \in Requests : Approving(o) /\ o # s => o \notin R
    BY <1>3, <1>5 DEF ServeInv, Held, Approving
  <2> QED
    BY <1>1, <1>3, <2>1 DEF Approving
<1>12. Held'
  <2>1. \A q \in pending : q \notin R
    BY <1>3, <1>7 DEF ServeInv, Held
  <2>2. \A o \in Requests : Approving(o) /\ o # s => target[o] \notin R /\ target[o] \in Requests
    BY <1>3, <1>6 DEF ServeInv, ServeTypes, Held
  <2>3. \A q \in reserved : q # r =>
           q \in pending \/ q \in unplaced \/ \E o \in Requests : Approving(o) /\ o # s /\ target[o] = q
    BY <1>5 DEF ServeInv, Held, Approving
  <2>4. \A q \in pending' : at'[q] = "queued" /\ q \in reserved'
    BY <1>1, <1>7, <2>1 DEF ServeInv, ServeTypes, Held
  <2>5. \A o \in Requests : Approving(o)' =>
           target'[o] \in reserved' \ pending' /\ at'[target'[o]] = "queued"
    BY <1>1, <1>6, <1>11, <2>2 DEF ServeInv, Held
  <2>6. \A o, q \in Requests :
           Approving(o)' /\ Approving(q)' /\ target'[o] = target'[q] => o = q
    BY <1>11 DEF ServeInv, Held
  <2>7. \A q \in reserved' :
           q \in pending' \/ q \in unplaced' \/ \E o \in Requests : Approving(o)' /\ target'[o] = q
    BY <1>1, <1>11, <2>3 DEF ServeInv, ServeTypes
  <2> QED
    BY <2>4, <2>5, <2>6, <2>7 DEF Held
<1> QED
  BY <1>8, <1>9, <1>10, <1>12 DEF ServeInv

-----------------------------------------------------------------------------
(***************************************************************************)
(* What a decision does: queued, on to the wallet, or ended.               *)
(***************************************************************************)
LEMMA Queued ==
  ASSUME ServeInv, NEW r \in Requests, at[r] = "deciding", path[r] = "/sign", Enqueue(r),
         UNCHANGED <<approvers, payers, header, path, agent, target, env, stage>>,
         stage \in Begun, reading'.of = NoOne
  PROVE  ServeInv'
<1>1. PICK w \in Writes(2) :
         \/ /\ Done({r}) /\ pending' = pending
            /\ reserved' = reserved \cup {r} /\ unplaced' = unplaced \cup {r}
         \/ Done({r}) /\ UNCHANGED <<pending, reserved, unplaced>>
         \/ /\ Moves(r, "queued") /\ pending' = pending \cup {r}
            /\ reserved' = reserved \cup {r} /\ unplaced' = unplaced
  BY DEF Enqueue
<1>2. For(r) = r /\ agent[r] # NoOne
  BY DEF ServeInv, Authority, For, Working
<1>3. CASE Done({r}) /\ UNCHANGED <<pending, reserved, unplaced>>
  BY <1>3, TurnedAway DEF Done
<1>4. CASE /\ pending' = pending \/ pending' = pending \cup {r}
           /\ reserved' = reserved \cup {r}
           /\ unplaced' = unplaced \/ unplaced' = unplaced \cup {r}
           /\ r \in pending' \cup unplaced'
           /\ r \in pending' => at'[r] = "queued"
           /\ at'[r] \in {"queued", "done"}
           /\ at' \in [Requests -> Places]
           /\ \A q \in Requests : q # r => at'[q] = at[q]
  <2>1. ServeTypes'
    BY <1>4 DEF ServeInv, ServeTypes
  <2>2. InOrder'
    BY DEF InOrder
  <2>3. Authority'
    BY <1>2, <1>4 DEF ServeInv, ServeTypes, Authority, AuthorityIsTheTokens, Entitled,
                      Identify, For, Working
  <2>4. /\ r \notin pending
        /\ \A o \in Requests : Approving(o)' <=> Approving(o)
        /\ \A o \in Requests : Approving(o) => target[o] # r /\ target[o] \in Requests
    BY <1>4 DEF ServeInv, ServeTypes, Held, Approving
  <2>5. Held'
    BY <1>4, <2>4 DEF ServeInv, ServeTypes, Held
  <2> QED
    BY <2>1, <2>2, <2>3, <2>5 DEF ServeInv
<1>5. CASE /\ Done({r}) /\ pending' = pending
           /\ reserved' = reserved \cup {r} /\ unplaced' = unplaced \cup {r}
  <2>1. r \notin pending
    BY DEF ServeInv, Held
  <2>2. /\ at'[r] = "done" /\ at' \in [Requests -> Places]
        /\ \A q \in Requests : q # r => at'[q] = at[q]
    BY <1>5 DEF Done, ServeInv, ServeTypes, Places
  <2> QED
    BY <1>4, <1>5, <2>1, <2>2
<1>6. CASE /\ Moves(r, "queued") /\ pending' = pending \cup {r}
           /\ reserved' = reserved \cup {r} /\ unplaced' = unplaced
  <2>1. /\ at'[r] = "queued" /\ at' \in [Requests -> Places]
        /\ \A q \in Requests : q # r => at'[q] = at[q]
    BY <1>6 DEF Moves, ServeInv, ServeTypes, Places
  <2> QED
    BY <1>4, <1>6, <2>1
<1> QED
  BY <1>1, <1>3, <1>5, <1>6

(* A payment on its way to the wallet's lock: its own, or one approved.    *)
LEMMA OnToTheWallet ==
  ASSUME ServeInv, NEW s \in Requests, at[s] = "deciding", Moves(s, "signing"),
         pending' = pending \ {For(s)},
         path[s] = "/approve" => For(s) \in pending,
         UNCHANGED <<reserved, unplaced, approvers, payers, header, path, agent, target, env, stage>>,
         stage \in Begun, reading'.of = NoOne
  PROVE  ServeInv'
<1> DEFINE r == For(s)
<1>1. /\ at'[s] = "signing" /\ at' \in [Requests -> Places]
      /\ \A q \in Requests : q # s => at'[q] = at[q]
  BY DEF Moves, ServeInv, ServeTypes, Places
<1>2. r \in Requests /\ agent[r] # NoOne /\ path[s] \in {"/sign", "/approve"}
  BY DEF ServeInv, Authority, Working
<1>3. s \notin pending /\ (path[s] = "/sign" => r = s) /\ (path[s] = "/approve" => r = target[s])
  BY DEF ServeInv, Held, For
<1>4. ServeTypes'
  BY <1>1 DEF ServeInv, ServeTypes
<1>5. InOrder'
  BY DEF InOrder
<1>6. Authority'
  BY <1>1, <1>2 DEF ServeInv, ServeTypes, Authority, AuthorityIsTheTokens, Entitled,
                    Identify, For, Working
<1> HIDE DEF r
<1>7. \A o \in Requests : Approving(o)' <=> Approving(o) \/ (o = s /\ path[s] = "/approve")
  BY <1>1 DEF Approving
<1>8. pending' = pending \ {r}
  BY DEF r
<1>9. path[s] = "/approve" => r \in pending
  BY DEF r
<1>10. Held'
  <2>1. \A q \in pending' : at'[q] = "queued" /\ q \in reserved'
    BY <1>1, <1>8 DEF ServeInv, ServeTypes, Held
  <2>2. \A o \in Requests : Approving(o)' =>
           target'[o] \in reserved' \ pending' /\ at'[target'[o]] = "queued"
    BY <1>1, <1>3, <1>7, <1>8, <1>9 DEF ServeInv, ServeTypes, Held
  <2>3. \A o, q \in Requests :
           Approving(o)' /\ Approving(q)' /\ target'[o] = target'[q] => o = q
    BY <1>3, <1>7, <1>9 DEF ServeInv, Held
  <2>4. \A q \in reserved' :
           q \in pending' \/ q \in unplaced' \/ \E o \in Requests : Approving(o)' /\ target'[o] = q
    BY <1>2, <1>3, <1>7, <1>8 DEF ServeInv, Held
  <2> QED
    BY <2>1, <2>2, <2>3, <2>4 DEF Held
<1> QED
  BY <1>4, <1>5, <1>6, <1>10 DEF ServeInv

LEMMA Judged ==
  ASSUME ServeInv, NEW s \in Requests, NEW p, at[s] \in {"deciding", "built"}, Judge(s, p),
         UNCHANGED <<approvers, header, path, agent, target, env, stage>>,
         stage \in Begun, reading'.of = NoOne
  PROVE  ServeInv'
<1>1. CASE at[s] = "built"
  <2>1. CASE SignFails(s)
    BY <1>1, <2>1, Finished DEF SignFails
  <2>2. CASE Commit(s)
    BY <1>1, <2>2, Finished DEF Commit
  <2> QED
    BY <1>1, <2>1, <2>2 DEF Judge, JudgeBuilt
<1>2. CASE at[s] = "deciding" /\ path[s] = "/sign"
  <2>1. JudgeSign(s, p) /\ payers' = payers /\ For(s) = s /\ s \notin pending
    BY <1>2 DEF Judge, For, ServeInv, Held
  <2>2. CASE TurnedDown(s)
    BY <1>2, <2>1, <2>2, TurnedAway DEF TurnedDown, Done, queuevars
  <2>3. CASE Enqueue(s)
    BY <1>2, <2>1, <2>3, Queued
  <2>4. CASE ToTheWallet(s) /\ UNCHANGED queuevars
    BY <1>2, <2>1, <2>4, OnToTheWallet DEF ToTheWallet, queuevars
  <2> QED
    BY <2>1, <2>2, <2>3, <2>4 DEF JudgeSign
<1>3. CASE at[s] = "deciding" /\ path[s] # "/sign"
  <2> DEFINE r == target[s]
  <2>1. /\ JudgeApproval(s, p) /\ payers' = payers /\ path[s] = "/approve"
        /\ For(s) = r /\ r \in Requests
    BY <1>3 DEF Judge, For, ServeInv, Authority, Working
  <2>2. CASE TurnedDown(s)
    BY <1>3, <2>1, <2>2, TurnedAway DEF TurnedDown, Done, queuevars
  <2>3. CASE r \in pending /\ \E w \in Writes(1) :
               OffTheQueue(r, w[1]) /\ Done(IF w[1] THEN {s, r} ELSE {s})
    <3>1. PICK w \in Writes(1) : OffTheQueue(r, w[1]) /\ Done(IF w[1] THEN {s, r} ELSE {s})
      BY <2>3
    <3> DEFINE R == IF w[1] THEN {s, r} ELSE {s}
               P == {r}
    <3>2. /\ R \in SUBSET Requests /\ P \in SUBSET pending
          /\ \A q \in R : q \in P \/ at[q] \in {"idle", "body", "deciding", "done"}
      BY <1>3, <2>1, <2>3
    <3>3. /\ at' = [q \in Requests |-> IF q \in R THEN "done" ELSE at[q]]
          /\ pending' = pending \ P /\ reserved' = reserved \ P /\ unplaced' = unplaced
      BY <3>1 DEF OffTheQueue, Done
    <3> HIDE DEF R, P
    <3> QED
      BY <2>1, <3>2, <3>3, Ended
  <2>4. CASE /\ r \in pending /\ ToTheWallet(s) /\ pending' = pending \ {r}
             /\ UNCHANGED <<reserved, unplaced>>
    BY <1>3, <2>1, <2>4, OnToTheWallet DEF ToTheWallet
  <2> QED
    BY <2>1, <2>2, <2>3, <2>4 DEF JudgeApproval
<1> QED
  BY <1>1, <1>2, <1>3

-----------------------------------------------------------------------------
LEMMA Starting == ASSUME ServeInv, Around PROVE ServeInv'
<1>1. /\ UNCHANGED <<at, header, path, agent, target, pending, reserved,
                     unplaced, approvers, payers, reading>>
      /\ env' = env \/ stage = "off"
      /\ stage \in Begun => stage' = stage
  <2> USE DEF startvars, Begun, Up, servevars, queuevars, historyvars
  <2>1. UNCHANGED servevars
    BY DEF Around
  <2>2. CASE stage = "off"
    BY <2>1, <2>2
  <2>3. CASE CheckSettings
    BY <2>1, <2>3 DEF CheckSettings
  <2>4. ASSUME stage = "key", NEW typed, LoadKey(typed) PROVE env' = env /\ stage \notin Begun
    BY <2>4 DEF LoadKey
  <2>5. CASE ReadPolicy
    BY <2>1, <2>5 DEF ReadPolicy
  <2>6. CASE StatPolicy
    BY <2>1, <2>6 DEF StatPolicy
  <2>7. CASE Replay
    BY <2>1, <2>7 DEF Replay
  <2>8. CASE CheckLedger
    BY <2>1, <2>8 DEF CheckLedger
  <2>9. CASE OpenChannels
    BY <2>1, <2>9 DEF OpenChannels
  <2>10. CASE RefreshBalance
    BY <2>1, <2>10 DEF RefreshBalance
  <2>11. ASSUME NEW p, ReplacePolicy(p) PROVE env' = env /\ stage' = stage
    BY <2>11 DEF ReplacePolicy
  <2> QED
    BY <2>1, <2>2, <2>3, <2>4, <2>5, <2>6, <2>7, <2>8, <2>9, <2>10, <2>11
    DEF Around, StartupNext
<1> QED
  BY <1>1, ServeUndisturbed DEF Begun

LEMMA Arriving ==
  ASSUME ServeInv, NEW r \in Requests, NEW h \in Agents \cup {OperatorToken, NoToken},
         NEW p \in {"/sign", "/approve", "/deny"}, Arrive(r, h, p)
  PROVE  ServeInv'
<1>1. /\ stage \in Begun /\ at[r] = "idle"
      /\ UNCHANGED <<agent, target, reading, pending, reserved, unplaced, approvers,
                     payers, env, stage>>
      /\ reading.of # r
  BY DaemonAssumption
  DEF Arrive, Open, Begun, startvars, queuevars, historyvars, ServeInv, InOrder
<1>2. CASE Identify(h) = NoOne \/ stage = "stopping"
  BY <1>1, <1>2, TurnedAway DEF Arrive, Moves
<1>3. CASE ~(Identify(h) = NoOne \/ stage = "stopping")
  <2>1. /\ Moves(r, "body") /\ Identify(h) # NoOne
        /\ header' = [header EXCEPT ![r] = h]
        /\ path' = [path EXCEPT ![r] = p]
    BY <1>3 DEF Arrive
  <2>2. ServeTypes'
    BY <1>1, <2>1 DEF ServeInv, ServeTypes, Moves, Places
  <2>3. InOrder'
    BY <1>1, <2>1 DEF ServeInv, ServeTypes, InOrder, Moves
  <2>4. Authority'
    <3>1. r \notin pending /\ agent[r] = NoOne
      BY <1>1 DEF ServeInv, Authority, Held
    <3>2. \A q \in Requests : q # r =>
             at'[q] = at[q] /\ header'[q] = header[q] /\ path'[q] = path[q] /\ For(q)' = For(q)
      BY <1>1, <2>1 DEF ServeInv, ServeTypes, Moves, For
    <3>3. at'[r] = "body" /\ header'[r] = h
      BY <2>1 DEF ServeInv, ServeTypes, Moves
    <3>4. AuthorityIsTheTokens'
      BY <1>1 DEF ServeInv, Authority, AuthorityIsTheTokens
    <3> QED
      BY <1>1, <2>1, <3>1, <3>2, <3>3, <3>4
      DEF ServeInv, Authority, Entitled, Identify, Working
  <2>5. \A o \in Requests : Approving(o)' <=> Approving(o)
    BY <1>1, <2>1 DEF ServeInv, ServeTypes, Moves, Approving
  <2>6. Held'
    BY <1>1, <2>1, <2>5 DEF ServeInv, ServeTypes, Held, Moves
  <2> QED
    BY <2>2, <2>3, <2>4, <2>6 DEF ServeInv
<1> QED
  BY <1>2, <1>3

(* A body read: an agent for a /sign, a target for an /approve.            *)
LEMMA BodyRead ==
  ASSUME ServeInv, NEW r \in Requests, at[r] = "body", Moves(r, "deciding"),
         UNCHANGED <<reading, pending, reserved, unplaced, payers, header, path, env, stage>>,
         reading = NotReading, stage \in Begun,
         \/ /\ path[r] = "/sign" /\ UNCHANGED <<target, approvers>>
            /\ \E who \in Agents :
                  /\ agent' = [agent EXCEPT ![r] = who]
                  /\ IF env.tokens = "sound" THEN header[r] = who ELSE header[r] = OperatorToken
         \/ /\ path[r] = "/approve" /\ agent' = agent /\ header[r] = OperatorToken
            /\ approvers' = approvers \cup {header[r]}
            /\ \E q \in pending : target' = [target EXCEPT ![r] = q]
  PROVE  ServeInv'
<1>1. /\ at'[r] = "deciding" /\ at' \in [Requests -> Places]
      /\ \A q \in Requests : q # r => at'[q] = at[q]
  BY DEF Moves, ServeInv, ServeTypes, Places
<1>2. /\ \A q \in Requests : q # r => agent'[q] = agent[q] /\ target'[q] = target[q]
      /\ agent[r] = NoOne /\ r \notin pending
  BY <1>1 DEF ServeInv, ServeTypes, Authority, Held
<1>3. ServeTypes'
  BY <1>1 DEF ServeInv, ServeTypes
<1>4. InOrder'
  BY DEF InOrder, NotReading
<1>5. /\ agent'[r] # NoOne => Entitled(r)'
      /\ agent'[For(r)'] # NoOne /\ For(r)' \in Requests
  BY <1>2, DaemonAssumption DEF ServeInv, ServeTypes, Authority, Entitled, For
<1>6. Authority'
  <2>1. AuthorityIsTheTokens'
    BY DEF ServeInv, Authority, AuthorityIsTheTokens
  <2>2. \A q \in Requests : q # r => For(q)' = For(q) /\ (Entitled(q)' <=> Entitled(q))
    BY <1>2 DEF For, Entitled
  <2>3. \A q \in Requests : agent[q] # NoOne => agent'[q] = agent[q]
    BY <1>2
  <2> QED
    BY <1>1, <1>2, <1>5, <2>1, <2>2, <2>3
    DEF ServeInv, ServeTypes, Authority, Working, Identify
<1>7. \A o \in Requests : (Approving(o)' <=> Approving(o)) /\ (Approving(o) => o # r)
  BY <1>1 DEF ServeInv, ServeTypes, Approving
<1>8. \A o \in Requests : Approving(o) => target[o] # r /\ target[o] \in Requests
  BY DEF ServeInv, ServeTypes, Held
<1>9. Held'
  BY <1>1, <1>2, <1>7, <1>8 DEF ServeInv, ServeTypes, Held
<1> QED
  BY <1>3, <1>4, <1>6, <1>9 DEF ServeInv

LEMMA SignBodyRead ==
  ASSUME ServeInv, NEW r \in Requests, NEW claims \in Agents \cup {NoOne}, SignBody(r, claims)
  PROVE  ServeInv'
<1> DEFINE who == PayingAgent(header[r], claims)
<1>1. /\ at[r] = "body" /\ path[r] = "/sign" /\ stage \in Begun /\ reading = NotReading
      /\ UNCHANGED <<reading, pending, reserved, unplaced, payers, header, path, env, stage,
                     target, approvers>>
  BY DEF SignBody, Free, Up, Begun, startvars, queuevars, historyvars
<1>2. CASE Moves(r, "done") /\ UNCHANGED agent
  BY <1>1, <1>2, TurnedAway DEF Moves, NotReading
<1>3. CASE /\ Moves(r, "deciding") /\ who # NoOne
           /\ agent' = [agent EXCEPT ![r] = who]
  <2>1. /\ who \in Agents
        /\ IF env.tokens = "sound" THEN header[r] = who ELSE header[r] = OperatorToken
    BY <1>1, <1>3 DEF PayingAgent, ServeInv, Authority, Identify
  <2> HIDE DEF who
  <2> QED
    BY <1>1, <1>3, <2>1, BodyRead
<1> QED
  BY <1>2, <1>3 DEF SignBody

LEMMA ApproveBodyRead ==
  ASSUME ServeInv, NEW o \in Requests, NEW r \in Requests, ApproveBody(o, r)
  PROVE  ServeInv'
<1>1. /\ at[o] = "body" /\ path[o] = "/approve" /\ stage \in Begun /\ reading = NotReading
      /\ UNCHANGED <<reading, pending, reserved, unplaced, payers, header, path, env, stage, agent>>
  BY DEF ApproveBody, Free, Up, Begun, startvars, queuevars
<1>2. CASE Moves(o, "done") /\ UNCHANGED <<target, approvers>>
  BY <1>1, <1>2, TurnedAway DEF Moves, NotReading
<1>3. CASE /\ Moves(o, "deciding") /\ MayCall(header[o], "/approve") /\ r \in pending
           /\ target' = [target EXCEPT ![o] = r]
           /\ approvers' = approvers \cup {header[o]}
  <2>1. header[o] = OperatorToken
    BY <1>3 DEF MayCall, AgentPaths
  <2> QED
    BY <1>1, <1>3, <2>1, BodyRead
<1> QED
  BY <1>2, <1>3 DEF ApproveBody

LEMMA Denied ==
  ASSUME ServeInv, NEW o \in Requests, NEW r \in Requests, DenyBody(o, r)
  PROVE  ServeInv'
<1>1. /\ at[o] = "body" /\ stage \in Begun /\ reading = NotReading /\ reading' = reading
      /\ UNCHANGED <<payers, header, path, agent, target, env, stage>>
  BY DEF DenyBody, Free, Up, Begun, startvars
<1>2. CASE Moves(o, "done") /\ UNCHANGED <<pending, reserved, unplaced, unrecorded, approvers>>
  BY <1>1, <1>2, TurnedAway DEF Moves, NotReading
<1>3. CASE /\ MayCall(header[o], "/deny") /\ r \in pending
           /\ approvers' = approvers \cup {header[o]}
           /\ \E w \in Writes(1) : OffTheQueue(r, w[1]) /\ Done(IF w[1] THEN {o, r} ELSE {o})
  <2>1. PICK w \in Writes(1) : OffTheQueue(r, w[1]) /\ Done(IF w[1] THEN {o, r} ELSE {o})
    BY <1>3
  <2>2. approvers' = approvers \cup {OperatorToken}
    BY <1>3 DEF MayCall, AgentPaths
  <2> DEFINE R == IF w[1] THEN {o, r} ELSE {o}
             P == {r}
  <2>3. /\ R \in SUBSET Requests /\ P \in SUBSET pending
        /\ \A q \in R : q \in P \/ at[q] \in {"idle", "body", "deciding", "done"}
    BY <1>1, <1>3
  <2>4. /\ at' = [q \in Requests |-> IF q \in R THEN "done" ELSE at[q]]
        /\ pending' = pending \ P /\ reserved' = reserved \ P /\ unplaced' = unplaced
    BY <2>1 DEF OffTheQueue, Done
  <2> HIDE DEF R, P
  <2> QED
    BY <1>1, <2>2, <2>3, <2>4, Ended DEF NotReading
<1> QED
  BY <1>2, <1>3 DEF DenyBody

(* A timer or a close listener, which may end the process. *)
LEMMA ClosedFromCallback ==
  ASSUME ServeInv, Free, NEW r \in pending, CloseFromCallback(r)
  PROVE  ServeInv'
<1>1. PICK w \in Writes(1) :
        /\ OffTheQueue(r, w[1])
        /\ IF w[1] THEN Done({r}) /\ UNCHANGED startvars ELSE Dies /\ UNCHANGED at
  BY DEF CloseFromCallback
<1>2. /\ UNCHANGED <<payers, approvers, header, path, agent, target, env>>
      /\ reading' = reading /\ reading = NotReading /\ stage \in Begun /\ stage' \in Begun
  BY <1>1 DEF CloseFromCallback, Free, Up, Begun, startvars, historyvars, Dies
<1> DEFINE R == IF w[1] THEN {r} ELSE {}
           P == {r}
<1>3. r \in Requests
  BY DEF ServeInv, ServeTypes
<1>4. /\ R \in SUBSET Requests /\ P \in SUBSET pending
      /\ \A q \in R : q \in P \/ at[q] \in {"idle", "body", "deciding", "done"}
  BY <1>3
<1>5. at' = [q \in Requests |-> IF q \in R THEN "done" ELSE at[q]]
  BY <1>1 DEF Done, ServeInv, ServeTypes
<1>6. pending' = pending \ P /\ reserved' = reserved \ P /\ unplaced' = unplaced
  BY <1>1 DEF OffTheQueue
<1> HIDE DEF R, P
<1> QED
  BY <1>2, <1>4, <1>5, <1>6, Ended DEF NotReading

LEMMA Serving == ASSUME ServeInv, NEW r \in Requests, Serve(r) PROVE ServeInv'
<1> USE DEF Begun, Up, Free, startvars, queuevars, historyvars
<1>1. ASSUME NEW h \in Agents \cup {OperatorToken, NoToken},
             NEW p \in {"/sign", "/approve", "/deny"}, Arrive(r, h, p)
      PROVE  ServeInv'
  BY <1>1, Arriving
<1>2. CASE BadRequest(r)
  BY <1>2, TurnedAway DEF BadRequest, Moves, NotReading
<1>3. ASSUME NEW claims \in Agents \cup {NoOne}, SignBody(r, claims) PROVE ServeInv'
  BY <1>3, SignBodyRead
<1>4. ASSUME NEW q \in Requests, ApproveBody(r, q) PROVE ServeInv'
  BY <1>4, ApproveBodyRead
<1>5. ASSUME NEW q \in Requests, DenyBody(r, q) PROVE ServeInv'
  BY <1>5, Denied
<1>6. CASE TimeOut(r)
  BY <1>6, ClosedFromCallback DEF TimeOut
<1>7. CASE CallerLeaves(r)
  <2>1. CASE r \in pending
    BY <1>7, <2>1, ClosedFromCallback DEF CallerLeaves
  <2>2. CASE r \notin pending /\ at[r] = "body"
    BY <1>7, <2>2, TurnedAway DEF CallerLeaves, Done, NotReading
  <2>3. CASE r \notin pending /\ at[r] # "body"
    BY <1>7, <2>3, ServeUndisturbed DEF CallerLeaves
  <2> QED
    BY <2>1, <2>2, <2>3
<1>8. CASE Stat(r)
  <2>1. /\ stage \in Begun /\ at[r] \in {"deciding", "built"} /\ reading = NotReading
        /\ UNCHANGED <<approvers, header, path, agent, target, env, stage>>
    BY <1>8 DEF Stat
  <2>2. CASE file.mtime = cached.mtime
    BY <1>8, <2>1, <2>2, Judged DEF Stat, NotReading
  <2>3. CASE file.mtime # cached.mtime
    <3>1. /\ UNCHANGED <<at, header, path, agent, target, pending, reserved, unplaced,
                         approvers, payers, env, stage>>
          /\ reading' = [of |-> r, mtime |-> file.mtime]
      BY <1>8, <2>3 DEF Stat
    <3>2. ServeTypes' /\ Authority' /\ Held'
      BY <3>1 DEF ServeInv, ServeTypes, Authority, AuthorityIsTheTokens, Entitled,
                  Identify, For, Held, Approving
    <3>3. InOrder'
      BY <2>1, <3>1 DEF InOrder
    <3> QED
      BY <3>2, <3>3 DEF ServeInv
  <2> QED
    BY <2>2, <2>3
<1>9. CASE BuildRetried(r)
  BY <1>9, ServeUndisturbed DEF BuildRetried
<1>10. CASE BuildFails(r)
  <2>1. /\ at[r] = "signing" /\ SignFails(r)
        /\ UNCHANGED <<approvers, header, path, agent, target, env, stage>>
        /\ reading' = NotReading /\ stage \in Begun
    BY <1>10 DEF BuildFails, HasWallet
  <2> QED
    BY <2>1, Finished DEF SignFails, NotReading
<1>11. CASE Built(r)
  <2>1. /\ at[r] = "signing" /\ Moves(r, "built") /\ reading' = NotReading
        /\ UNCHANGED <<header, path, agent, target, pending, reserved, unplaced,
                       approvers, payers, env, stage>>
    BY <1>11 DEF Built, HasWallet
  <2>2. /\ at'[r] = "built" /\ at' \in [Requests -> Places]
        /\ \A q \in Requests : q # r => at'[q] = at[q]
    BY <2>1 DEF Moves, ServeInv, ServeTypes, Places
  <2>3. ServeTypes'
    BY <2>1, <2>2 DEF ServeInv, ServeTypes
  <2>4. InOrder'
    BY <1>11, <2>1 DEF Built, InOrder, NotReading
  <2>5. Authority'
    BY <2>1, <2>2 DEF ServeInv, ServeTypes, Authority, AuthorityIsTheTokens, Entitled,
                      Identify, For, Working
  <2>6. \A o \in Requests : Approving(o)' <=> Approving(o)
    BY <2>1, <2>2 DEF Approving
  <2>7. Held'
    BY <2>1, <2>2, <2>6 DEF ServeInv, ServeTypes, Held
  <2> QED
    BY <2>3, <2>4, <2>5, <2>7 DEF ServeInv
<1> QED
  BY <1>1, <1>2, <1>3, <1>4, <1>5, <1>6, <1>7, <1>8, <1>9, <1>10, <1>11 DEF Serve

LEMMA ServeStep == ServeInv /\ [Next]_vars => ServeInv'
<1> SUFFICES ASSUME ServeInv, [Next]_vars PROVE ServeInv'
  OBVIOUS
<1> USE DEF Begun, Up, Free, startvars, queuevars, historyvars
<1>1. CASE Around
  BY <1>1, Starting
<1>2. ASSUME NEW r \in Requests, Serve(r) PROVE ServeInv'
  BY <1>2, Serving
<1>3. CASE Status
  BY <1>3, ServeUndisturbed DEF Status
<1>4. CASE Read
  <2>1. /\ stage \in Begun /\ reading' = NotReading
        /\ UNCHANGED <<stage, env, header, path, agent, target, approvers>>
    BY <1>4 DEF Read
  <2>2. CASE reading.of = NoOne
    BY <1>4, <2>1, <2>2, ServeUndisturbed DEF Read, NotReading
  <2>3. CASE reading.of # NoOne
    <3> DEFINE s == reading.of
    <3>1. s \in Requests /\ at[s] \in {"deciding", "built"}
      BY <2>3 DEF ServeInv, InOrder
    <3>2. Judge(s, file.policy)
      BY <1>4, <2>3 DEF Read
    <3> HIDE DEF s
    <3> QED
      BY <2>1, <3>1, <3>2, Judged DEF NotReading
  <2> QED
    BY <2>2, <2>3
<1>5. CASE Shutdown
  <2>1. /\ UNCHANGED <<payers, approvers, header, path, agent, target, env, reading, unplaced>>
        /\ reading = NotReading
        /\ stage' \in Begun /\ stage \in Begun
    BY <1>5 DEF Shutdown, Dies
  <2>2. CASE UNCHANGED <<at, pending, reserved>>
    BY <2>1, <2>2, ServeUndisturbed
  <2>3. CASE /\ Done(pending) /\ pending' = pending \ pending /\ reserved' = reserved \ pending
    <3>1. pending \in SUBSET Requests
      BY DEF ServeInv, ServeTypes
    <3> QED
      BY <2>1, <2>3, <3>1, Ended DEF Done, NotReading
  <2> QED
    BY <1>5, <2>2, <2>3 DEF Shutdown, ToDrain
<1>6. CASE Closed
  BY <1>6, ServeUndisturbed DEF Closed, Stop, servevars
<1>7. CASE TenSeconds
  BY <1>7, ServeUndisturbed DEF TenSeconds, Stop, servevars
<1>8. CASE UNCHANGED vars
  BY <1>8, ServeUndisturbed DEF vars, servevars
<1> QED
  BY <1>1, <1>2, <1>3, <1>4, <1>5, <1>6, <1>7, <1>8 DEF Next

(***************************************************************************)
(* For any number of requests and agents: a payment is for the agent whose *)
(* token asked for it, and only the operator's token decides on the queue, *)
(* in whatever order headers, bodies and decisions come (the request       *)
(* handler, identify and payingAgent of signerd.ts).                       *)
(***************************************************************************)
THEOREM NobodyPaysForAnother == Spec => []AuthorityIsTheTokens
<1>1. ServeInv => AuthorityIsTheTokens
  BY DEF ServeInv, Authority
<1> QED
  BY ServeInit, ServeStep, <1>1, PTL DEF Spec

(***************************************************************************)
(* For any number of requests and operators: the budget held is that of    *)
(* the queue and of the approvals under way, through builds and writes     *)
(* that fail, callers that leave and a shutdown (enqueue, closePending and *)
(* /approve of signerd.ts), but for a place that could not be recorded.    *)
(***************************************************************************)
THEOREM BudgetIsHeldForTheQueue == Spec => []HeldForWhoWaits
<1>1. ServeInv => HeldForWhoWaits
  <2> SUFFICES ASSUME ServeInv PROVE HeldForWhoWaits
    OBVIOUS
  <2>1. \A r : r \in BeingApproved <=> \E o \in Requests : Approving(o) /\ target[o] = r
    BY DEF BeingApproved, Approving
  <2> QED
    BY <2>1 DEF ServeInv, Held, HeldForWhoWaits
<1> QED
  BY ServeInit, ServeStep, <1>1, PTL DEF Spec

-----------------------------------------------------------------------------
(***************************************************************************)
(* The answers.  Whoever waits is on the queue, or an operator has it, or  *)
(* its end could not be recorded; what the drain left came after it; and   *)
(* only a signed record that was written lets a transaction out.           *)
(***************************************************************************)
InGoodHands(r) ==
    \/ r \in pending \cup unrecorded
    \/ \E o \in Requests : Approving(o) /\ target[o] = r

Waiting == \A r \in Requests : at[r] = "queued" => InGoodHands(r)

Drained == stage \in {"stopping", "stopped"} => pending \subseteq late

AnswerInv == Waiting /\ Drained /\ HandedOutIsRecorded

LEMMA AnswerInit == Init => AnswerInv
BY DEF Init, AnswerInv, Waiting, Drained, HandedOutIsRecorded

(***************************************************************************)
(* A step that puts nobody in the queue's place but on the queue, and that *)
(* takes nobody off it, or from an operator, without an end on record.     *)
(***************************************************************************)
LEMMA StillWaiting ==
  ASSUME Waiting, pending \subseteq Requests,
         \A o \in Requests : Approving(o) => target[o] \in Requests,
         \A r \in Requests : at'[r] = "queued" => at[r] = "queued" \/ r \in pending',
         \A r \in pending : at'[r] = "queued" => InGoodHands(r)',
         \A o \in Requests : Approving(o) /\ at'[target[o]] = "queued" =>
            (Approving(o)' /\ target'[o] = target[o]) \/ target[o] \in unrecorded',
         unrecorded \subseteq unrecorded'
  PROVE  Waiting'
<1> SUFFICES ASSUME NEW r \in Requests, at'[r] = "queued" PROVE InGoodHands(r)'
  BY DEF Waiting
<1>1. CASE r \in pending' \/ r \in unrecorded'
  BY <1>1 DEF InGoodHands
<1>2. CASE r \notin pending' /\ r \notin unrecorded'
  <2>1. r \in pending \/ \E o \in Requests : Approving(o) /\ target[o] = r
    BY <1>2 DEF Waiting, InGoodHands
  <2>2. CASE r \in pending
    BY <2>2
  <2>3. CASE \E o \in Requests : Approving(o) /\ target[o] = r
    BY <1>2, <2>3 DEF InGoodHands
  <2> QED
    BY <2>1, <2>2, <2>3
<1> QED
  BY <1>1, <1>2

(* The same where requests R end, those of P leaving the queue.            *)
LEMMA EndedWaiting ==
  ASSUME ServeInv, Waiting, NEW R \in SUBSET Requests, NEW P \in SUBSET pending,
         \A r \in R : ~Approving(r),
         at' = [r \in Requests |-> IF r \in R THEN "done" ELSE at[r]],
         pending' = pending \ P, P \subseteq R \cup unrecorded',
         unrecorded \subseteq unrecorded', UNCHANGED <<path, target>>
  PROVE  Waiting'
<1>1. /\ \A r \in Requests : at'[r] = "queued" => at[r] = "queued" /\ r \notin R
      /\ \A o \in Requests : Approving(o) => Approving(o)'
  BY DEF ServeInv, ServeTypes, Approving
<1>2. pending \subseteq Requests /\ \A o \in Requests : Approving(o) => target[o] \in Requests
  BY DEF ServeInv, ServeTypes, Held
<1>3. \A r \in pending : at'[r] = "queued" => r \in pending' \/ r \in unrecorded'
  BY <1>1, <1>2
<1> QED
  BY <1>1, <1>2, <1>3, StillWaiting DEF InGoodHands

(* Nothing is signed, and whoever joins the queue while signerd stops is   *)
(* late: with the queue in good hands the answers are.                     *)
LEMMA AnswersKept ==
  ASSUME AnswerInv, Waiting', UNCHANGED <<logged, handed>>,
         stage' = stage \/ stage' \notin {"stopping", "stopped"} \/ pending' = {},
         late \subseteq late',
         stage' \in {"stopping", "stopped"} => pending' \ pending \subseteq late'
  PROVE  AnswerInv'
BY DEF AnswerInv, Drained, HandedOutIsRecorded

LEMMA AnswersUndisturbed ==
  ASSUME AnswerInv, UNCHANGED <<at, path, target, pending, unrecorded, late, logged, handed>>,
         stage' = stage \/ stage' \notin {"stopping", "stopped"} \/ pending = {}
                        \/ (stage = "stopping" /\ stage' = "stopped")
  PROVE  AnswerInv'
<1>1. Waiting'
  BY DEF AnswerInv, Waiting, InGoodHands, Approving
<1> QED
  BY <1>1 DEF AnswerInv, Drained, HandedOutIsRecorded

(* A signature or its failure; out goes what was recorded.                 *)
LEMMA FinishedAnswers ==
  ASSUME ServeInv, AnswerInv, NEW s \in Requests, at[s] \in {"signing", "built"},
         NEW signed, NEW out, NEW written, Finish(s, signed, out, written),
         out => signed, UNCHANGED <<path, target, stage>>
  PROVE  AnswerInv'
<1> DEFINE r == For(s)
           told == out \/ written
           R == {s} \cup (IF told THEN {r} ELSE {})
<1>1. /\ at' = [q \in Requests |-> IF q \in R THEN "done" ELSE at[q]]
      /\ pending' = pending /\ late' = late
      /\ unrecorded' = IF told \/ s = r THEN unrecorded ELSE unrecorded \cup {r}
      /\ logged' = IF signed THEN logged \cup {r} ELSE logged
      /\ handed' = handed \/ (out /\ handed' = handed \cup {r})
  BY DEF Finish, Done
<1>2. r \in Requests
  BY DEF ServeInv, Authority, Working
<1>3. (Approving(s) /\ r = target[s]) \/ (~Approving(s) /\ r = s)
  BY DEF For, Approving
<1>4. s \in R /\ (r \in R \/ r \in unrecorded') /\ \A q \in R : q = s \/ q = r
  BY <1>1
<1>5. HandedOutIsRecorded'
  BY <1>1 DEF AnswerInv, HandedOutIsRecorded
<1>6. unrecorded \subseteq unrecorded'
  BY <1>1
<1> HIDE DEF r, told, R
<1>7. Waiting'
  <2>1. /\ pending \subseteq Requests
        /\ \A o \in Requests : Approving(o) => target[o] \in Requests
    BY DEF ServeInv, ServeTypes, Held
  <2>2. \A q \in Requests : at'[q] = "queued" => at[q] = "queued" /\ q \notin R
    BY <1>1
  <2>3. \A q \in pending : InGoodHands(q)'
    BY <1>1 DEF InGoodHands
  <2>4. \A o \in Requests : Approving(o) /\ o # s => o \notin R
    BY <1>3, <1>4 DEF ServeInv, Held, Approving
  <2>5. ASSUME NEW o \in Requests, Approving(o), at'[target[o]] = "queued"
        PROVE  (Approving(o)' /\ target'[o] = target[o]) \/ target[o] \in unrecorded'
    <3>1. CASE o = s
      BY <1>3, <1>4, <2>1, <2>2, <2>5, <3>1
    <3>2. CASE o # s
      BY <1>1, <2>4, <2>5, <3>2 DEF Approving
    <3> QED
      BY <3>1, <3>2
  <2> QED
    BY <1>6, <2>1, <2>2, <2>3, <2>5, StillWaiting DEF AnswerInv
<1>8. Drained'
  BY <1>1 DEF AnswerInv, Drained
<1> QED
  BY <1>5, <1>7, <1>8 DEF AnswerInv

(* On the queue, on to the wallet, or turned down.                         *)
LEMMA QueuedAnswers ==
  ASSUME ServeInv, AnswerInv, NEW r \in Requests, at[r] = "deciding", Enqueue(r),
         UNCHANGED <<path, target, stage, logged, handed>>, stage # "stopped"
  PROVE  AnswerInv'
<1>1. PICK w \in Writes(2) :
        IF ~w[1]
        THEN Done({r}) /\ UNCHANGED <<pending, unrecorded, late>>
        ELSE IF r \in gone
        THEN /\ Done({r}) /\ UNCHANGED <<pending, late>>
             /\ unrecorded' = IF w[2] THEN unrecorded ELSE unrecorded \cup {r}
        ELSE /\ Moves(r, "queued") /\ pending' = pending \cup {r}
             /\ late' = IF stage = "stopping" THEN late \cup {r} ELSE late
             /\ UNCHANGED unrecorded
  BY DEF Enqueue
<1>2. ~Approving(r) /\ r \notin pending
  BY DEF ServeInv, Held, Approving
<1>3. CASE Done({r}) /\ UNCHANGED <<pending, late>> /\ unrecorded \subseteq unrecorded'
  <2> DEFINE R == {r}
             P == {}
  <2>1. /\ R \in SUBSET Requests /\ P \in SUBSET pending /\ \A q \in R : ~Approving(q)
        /\ at' = [q \in Requests |-> IF q \in R THEN "done" ELSE at[q]]
        /\ pending' = pending \ P /\ P \subseteq R \cup unrecorded'
    BY <1>2, <1>3 DEF Done
  <2> HIDE DEF R, P
  <2>2. Waiting'
    BY <1>3, <2>1, EndedWaiting DEF AnswerInv
  <2> QED
    BY <1>3, <2>2, AnswersKept
<1>4. CASE /\ Moves(r, "queued") /\ pending' = pending \cup {r}
           /\ late' = IF stage = "stopping" THEN late \cup {r} ELSE late
           /\ UNCHANGED unrecorded
  <2>1. at'[r] = "queued" /\ \A q \in Requests : q # r => at'[q] = at[q]
    BY <1>4 DEF Moves, ServeInv, ServeTypes
  <2>2. /\ pending \subseteq Requests
        /\ \A o \in Requests : Approving(o) => target[o] \in Requests /\ Approving(o)'
    BY <1>2, <2>1 DEF ServeInv, ServeTypes, Held, Approving
  <2>3. \A q \in pending : InGoodHands(q)'
    BY <1>4 DEF InGoodHands
  <2>4. Waiting'
    BY <1>4, <2>1, <2>2, <2>3, StillWaiting DEF AnswerInv
  <2> QED
    BY <1>4, <2>4, AnswersKept
<1> QED
  BY <1>1, <1>3, <1>4

LEMMA OnToTheWalletAnswers ==
  ASSUME ServeInv, AnswerInv, NEW s \in Requests, at[s] = "deciding", Moves(s, "signing"),
         NEW P \in SUBSET pending, pending' = pending \ P,
         P = {} \/ (path[s] = "/approve" /\ P = {target[s]}),
         UNCHANGED <<path, target, unrecorded, late, stage, logged, handed>>
  PROVE  AnswerInv'
<1>1. at'[s] = "signing" /\ \A q \in Requests : q # s => at'[q] = at[q]
  BY DEF Moves, ServeInv, ServeTypes
<1>2. /\ pending \subseteq Requests
      /\ \A o \in Requests : Approving(o) => target[o] \in Requests /\ Approving(o)'
  BY <1>1 DEF ServeInv, ServeTypes, Held, Approving
<1>3. \A q \in pending : InGoodHands(q)'
  BY <1>1 DEF InGoodHands, Approving
<1>4. Waiting'
  BY <1>1, <1>2, <1>3, StillWaiting DEF AnswerInv
<1> QED
  BY <1>4, AnswersKept

(* Turned down, or answered at once: nobody leaves the queue.              *)
LEMMA TurnedAwayAnswers ==
  ASSUME ServeInv, AnswerInv, NEW r \in Requests, ~Approving(r),
         at' = [q \in Requests |-> IF q \in {r} THEN "done" ELSE at[q]]
            \/ at' = [at EXCEPT ![r] = "done"],
         UNCHANGED <<path, target, pending, unrecorded, late, stage, logged, handed>>
  PROVE  AnswerInv'
<1> DEFINE R == {r}
           P == {}
<1>1. at' = [q \in Requests |-> IF q \in R THEN "done" ELSE at[q]]
  BY DEF ServeInv, ServeTypes
<1>2. /\ R \in SUBSET Requests /\ P \in SUBSET pending /\ pending' = pending \ P
      /\ \A q \in R : ~Approving(q)
      /\ P \subseteq R \cup unrecorded' /\ unrecorded \subseteq unrecorded'
  OBVIOUS
<1> HIDE DEF R, P
<1>3. Waiting'
  BY <1>1, <1>2, EndedWaiting DEF AnswerInv
<1> QED
  BY <1>3, AnswersKept

(* One request taken off the queue by whoever closes it.                   *)
LEMMA ClosedAnswers ==
  ASSUME ServeInv, AnswerInv, NEW r \in pending, NEW w \in Writes(1), OffTheQueue(r, w[1]),
         NEW o \in Requests, ~Approving(o),
         \/ Done(IF w[1] THEN {o, r} ELSE {o}) /\ stage' = stage
         \/ w[1] /\ Done({r}) /\ stage' = stage
         \/ ~w[1] /\ at' = at /\ stage' \notin {"stopping", "stopped"},
         UNCHANGED <<path, target, late, logged, handed>>
  PROVE  AnswerInv'
<1>1. r \in Requests /\ ~Approving(r)
  BY DEF ServeInv, ServeTypes, Held, Approving
<1>2. PICK R \in SUBSET {o, r} :
        /\ at' = [q \in Requests |-> IF q \in R THEN "done" ELSE at[q]]
        /\ w[1] => r \in R
  <2>1. CASE Done(IF w[1] THEN {o, r} ELSE {o})
    <3> WITNESS (IF w[1] THEN {o, r} ELSE {o}) \in SUBSET {o, r}
    <3> QED
      BY <2>1 DEF Done
  <2>2. CASE w[1] /\ Done({r})
    <3> WITNESS {r} \in SUBSET {o, r}
    <3> QED
      BY <2>2 DEF Done
  <2>3. CASE ~w[1] /\ at' = at
    <3> WITNESS {} \in SUBSET {o, r}
    <3> QED
      BY <2>3 DEF ServeInv, ServeTypes
  <2> QED
    BY <2>1, <2>2, <2>3
<1> DEFINE P == {r}
<1>3. /\ pending' = pending \ P /\ P \in SUBSET pending
      /\ unrecorded \subseteq unrecorded' /\ P \subseteq R \cup unrecorded'
  BY <1>2 DEF OffTheQueue
<1>4. R \in SUBSET Requests /\ \A q \in R : ~Approving(q)
  BY <1>1, <1>2
<1> HIDE DEF P
<1>5. Waiting'
  BY <1>2, <1>3, <1>4, EndedWaiting DEF AnswerInv
<1>6. pending' \subseteq pending
  BY <1>3
<1> QED
  BY <1>5, <1>6, AnswersKept

LEMMA JudgedAnswers ==
  ASSUME ServeInv, AnswerInv, NEW s \in Requests, NEW p, at[s] \in {"deciding", "built"},
         Judge(s, p), UNCHANGED <<path, target, stage>>, stage # "stopped"
  PROVE  AnswerInv'
<1>1. CASE at[s] = "built"
  <2>1. CASE SignFails(s)
    BY <1>1, <2>1, FinishedAnswers DEF SignFails
  <2>2. CASE Commit(s)
    BY <1>1, <2>2, FinishedAnswers DEF Commit, HandsOut
  <2> QED
    BY <1>1, <2>1, <2>2 DEF Judge, JudgeBuilt
<1>2. CASE at[s] = "deciding" /\ path[s] = "/sign"
  <2>1. JudgeSign(s, p) /\ UNCHANGED <<logged, handed>> /\ ~Approving(s)
    BY <1>2 DEF Judge, Approving
  <2>2. CASE TurnedDown(s)
    BY <2>1, <2>2, TurnedAwayAnswers DEF TurnedDown, Done, queuevars
  <2>3. CASE Enqueue(s)
    BY <1>2, <2>1, <2>3, QueuedAnswers
  <2>4. CASE ToTheWallet(s) /\ UNCHANGED queuevars
    BY <1>2, <2>1, <2>4, OnToTheWalletAnswers DEF ToTheWallet, queuevars
  <2> QED
    BY <2>1, <2>2, <2>3, <2>4 DEF JudgeSign
<1>3. CASE at[s] = "deciding" /\ path[s] # "/sign"
  <2> DEFINE r == target[s]
  <2>1. /\ JudgeApproval(s, p) /\ UNCHANGED <<logged, handed>> /\ ~Approving(s)
        /\ path[s] = "/approve"
    BY <1>3 DEF Judge, Approving, ServeInv, Authority, Working
  <2>2. CASE TurnedDown(s)
    BY <2>1, <2>2, TurnedAwayAnswers DEF TurnedDown, Done, queuevars
  <2>3. CASE /\ r \in pending /\ UNCHANGED late
             /\ \E w \in Writes(1) :
                   OffTheQueue(r, w[1]) /\ Done(IF w[1] THEN {s, r} ELSE {s})
    BY <2>1, <2>3, ClosedAnswers
  <2>4. CASE /\ r \in pending /\ ToTheWallet(s) /\ pending' = pending \ {r}
             /\ UNCHANGED <<unrecorded, late>>
    BY <1>3, <2>1, <2>4, OnToTheWalletAnswers DEF ToTheWallet
  <2> QED
    BY <2>1, <2>2, <2>3, <2>4 DEF JudgeApproval
<1> QED
  BY <1>1, <1>2, <1>3

LEMMA ServingAnswers ==
  ASSUME ServeInv, AnswerInv, NEW r \in Requests, Serve(r)
  PROVE  AnswerInv'
<1> USE DEF Begun, Up, Free, startvars, queuevars, historyvars
<1>1. \A q \in Requests : at[q] \in {"idle", "body", "deciding"} => ~Approving(q)
  BY DEF Approving
<1>2. \A q \in Requests : Approving(q) => q \notin pending
  BY DEF ServeInv, Held, Approving
<1>3. ASSUME NEW h, NEW p, Arrive(r, h, p) PROVE AnswerInv'
  <2>1. UNCHANGED <<target, pending, unrecorded, late, stage, logged, handed>> /\ at[r] = "idle"
    BY <1>3 DEF Arrive
  <2>2. CASE Moves(r, "done") /\ UNCHANGED path
    BY <1>1, <2>1, <2>2, TurnedAwayAnswers DEF Moves
  <2>3. CASE Moves(r, "body") /\ path' = [path EXCEPT ![r] = p]
    <3>1. /\ \A q \in Requests : q # r => at'[q] = at[q] /\ path'[q] = path[q]
          /\ at'[r] = "body"
      BY <2>3 DEF Moves, ServeInv, ServeTypes
    <3>2. /\ pending \subseteq Requests
          /\ \A o \in Requests : Approving(o) => target[o] \in Requests /\ Approving(o)'
      BY <1>1, <2>1, <3>1 DEF ServeInv, ServeTypes, Held, Approving
    <3>3. \A q \in pending : InGoodHands(q)'
      BY <2>1 DEF InGoodHands
    <3>4. Waiting'
      BY <2>1, <3>1, <3>2, <3>3, StillWaiting DEF AnswerInv
    <3> QED
      BY <2>1, <3>4, AnswersKept
  <2> QED
    BY <1>3, <2>2, <2>3 DEF Arrive
<1>4. CASE BadRequest(r)
  BY <1>1, <1>4, TurnedAwayAnswers DEF BadRequest, Moves
<1>5. ASSUME at[r] = "body", Moves(r, "deciding"), \/ target' = target
                                                    \/ \E q : target' = [target EXCEPT ![r] = q],
             UNCHANGED <<path, pending, unrecorded, late, stage, logged, handed>>
      PROVE  AnswerInv'
  <2>1. /\ \A q \in Requests : q # r => at'[q] = at[q] /\ target'[q] = target[q]
        /\ at'[r] = "deciding"
    BY <1>5 DEF Moves, ServeInv, ServeTypes
  <2>2. /\ pending \subseteq Requests
        /\ \A o \in Requests : Approving(o) =>
              target[o] \in Requests /\ Approving(o)' /\ target'[o] = target[o]
    BY <1>1, <1>5, <2>1 DEF ServeInv, ServeTypes, Held, Approving
  <2>3. \A q \in pending : InGoodHands(q)'
    BY <1>5 DEF InGoodHands
  <2>4. Waiting'
    BY <1>5, <2>1, <2>2, <2>3, StillWaiting DEF AnswerInv
  <2> QED
    BY <1>5, <2>4, AnswersKept
<1>6. ASSUME NEW claims, SignBody(r, claims) PROVE AnswerInv'
  <2>1. CASE Moves(r, "deciding")
    BY <1>5, <1>6, <2>1 DEF SignBody
  <2>2. CASE Moves(r, "done")
    BY <1>1, <1>6, <2>2, TurnedAwayAnswers DEF SignBody, Moves
  <2> QED
    BY <1>6, <2>1, <2>2 DEF SignBody
<1>7. ASSUME NEW q, ApproveBody(r, q) PROVE AnswerInv'
  <2>1. CASE Moves(r, "deciding") /\ target' = [target EXCEPT ![r] = q]
    BY <1>5, <1>7, <2>1 DEF ApproveBody
  <2>2. CASE Moves(r, "done") /\ UNCHANGED target
    BY <1>1, <1>7, <2>2, TurnedAwayAnswers DEF ApproveBody, Moves
  <2> QED
    BY <1>7, <2>1, <2>2 DEF ApproveBody
<1>8. ASSUME NEW q \in Requests, DenyBody(r, q) PROVE AnswerInv'
  <2>1. at[r] = "body" /\ UNCHANGED <<path, target, late, stage, logged, handed>>
    BY <1>8 DEF DenyBody
  <2>2. CASE Moves(r, "done") /\ UNCHANGED <<pending, unrecorded>>
    BY <1>1, <2>1, <2>2, TurnedAwayAnswers DEF Moves
  <2>3. CASE /\ q \in pending
             /\ \E w \in Writes(1) :
                   OffTheQueue(q, w[1]) /\ Done(IF w[1] THEN {r, q} ELSE {r})
    BY <1>1, <2>1, <2>3, ClosedAnswers
  <2> QED
    BY <1>8, <2>2, <2>3 DEF DenyBody
<1>9. ASSUME r \in pending, CloseFromCallback(r) PROVE AnswerInv'
  <2>1. /\ UNCHANGED <<path, target, late, logged, handed>> /\ ~Approving(r)
    BY <1>2, <1>9 DEF CloseFromCallback
  <2>2. \E w \in Writes(1) :
           /\ OffTheQueue(r, w[1])
           /\ \/ w[1] /\ Done({r}) /\ stage' = stage
              \/ ~w[1] /\ at' = at /\ stage' \notin {"stopping", "stopped"}
    BY <1>9 DEF CloseFromCallback, Dies
  <2> QED
    BY <1>9, <2>1, <2>2, ClosedAnswers
<1>10. CASE TimeOut(r)
  BY <1>9, <1>10 DEF TimeOut
<1>11. CASE CallerLeaves(r)
  <2>1. CASE r \in pending
    BY <1>9, <1>11, <2>1 DEF CallerLeaves
  <2>2. CASE r \notin pending /\ at[r] = "body"
    BY <1>1, <1>11, <2>2, TurnedAwayAnswers DEF CallerLeaves, Done
  <2>3. CASE r \notin pending /\ at[r] # "body"
    BY <1>11, <2>3, AnswersUndisturbed DEF CallerLeaves
  <2> QED
    BY <2>1, <2>2, <2>3
<1>12. CASE Stat(r)
  <2>1. /\ at[r] \in {"deciding", "built"} /\ stage # "stopped"
        /\ UNCHANGED <<path, target, stage>>
    BY <1>12 DEF Stat
  <2>2. CASE file.mtime = cached.mtime
    BY <1>12, <2>1, <2>2, JudgedAnswers DEF Stat
  <2>3. CASE file.mtime # cached.mtime
    BY <1>12, <2>1, <2>3, AnswersUndisturbed DEF Stat
  <2> QED
    BY <2>2, <2>3
<1>13. CASE BuildRetried(r)
  BY <1>13, AnswersUndisturbed DEF BuildRetried
<1>14. CASE BuildFails(r)
  <2>1. at[r] = "signing" /\ SignFails(r) /\ UNCHANGED <<path, target, stage>>
    BY <1>14 DEF BuildFails, HasWallet
  <2> QED
    BY <2>1, FinishedAnswers DEF SignFails
<1>15. CASE Built(r)
  <2>1. /\ at[r] = "signing" /\ Moves(r, "built")
        /\ UNCHANGED <<path, target, pending, unrecorded, late, stage, logged, handed>>
    BY <1>15 DEF Built, HasWallet
  <2>2. /\ \A q \in Requests : q # r => at'[q] = at[q]
        /\ at'[r] = "built"
    BY <2>1 DEF Moves, ServeInv, ServeTypes
  <2>3. /\ pending \subseteq Requests
        /\ \A o \in Requests : Approving(o) => target[o] \in Requests /\ Approving(o)'
    BY <2>1, <2>2 DEF ServeInv, ServeTypes, Held, Approving
  <2>4. \A q \in pending : InGoodHands(q)'
    BY <2>1 DEF InGoodHands
  <2>5. Waiting'
    BY <2>1, <2>2, <2>3, <2>4, StillWaiting DEF AnswerInv
  <2> QED
    BY <2>1, <2>5, AnswersKept
<1> QED
  BY <1>3, <1>4, <1>6, <1>7, <1>8, <1>10, <1>11, <1>12, <1>13, <1>14, <1>15 DEF Serve

LEMMA StartingAnswers ==
  ASSUME ServeInv, AnswerInv, Around
  PROVE  AnswerInv'
<1> USE DEF Begun, Up, startvars, servevars, queuevars, historyvars
<1>1. UNCHANGED <<at, path, target, pending, unrecorded, late, logged, handed>>
  BY DEF Around
<1>2. stage \notin Begun => pending = {}
  BY DEF ServeInv, ServeTypes, InOrder, Held
<1>3. stage \in Begun => stage' = stage
  <2>1. CASE ~StartupNext
    BY <2>1 DEF Around, RefreshBalance, ReplacePolicy
  <2>2. CASE StartupNext
    <3>1. ASSUME stage = "key", NEW typed, LoadKey(typed) PROVE stage \notin Begun
      BY <3>1
    <3>2. ASSUME NEW p, ReplacePolicy(p) PROVE stage' = stage
      BY <3>2 DEF ReplacePolicy
    <3> QED
      BY <2>2, <3>1, <3>2
      DEF StartupNext, CheckSettings, ReadPolicy, StatPolicy, Replay, CheckLedger,
          OpenChannels, RefreshBalance
  <2> QED
    BY <2>1, <2>2
<1> QED
  BY <1>1, <1>2, <1>3, AnswersUndisturbed

LEMMA AnswerStep == ServeInv /\ AnswerInv /\ [Next]_vars => AnswerInv'
<1> SUFFICES ASSUME ServeInv, AnswerInv, [Next]_vars PROVE AnswerInv'
  OBVIOUS
<1> USE DEF Up, Free, startvars, queuevars, historyvars
<1>1. CASE Around
  BY <1>1, StartingAnswers
<1>2. ASSUME NEW r \in Requests, Serve(r) PROVE AnswerInv'
  BY <1>2, ServingAnswers
<1>3. CASE Status
  BY <1>3, AnswersUndisturbed DEF Status
<1>4. CASE Read
  <2>1. stage # "stopped" /\ UNCHANGED <<stage, path, target>>
    BY <1>4 DEF Read
  <2>2. CASE reading.of = NoOne
    BY <1>4, <2>1, <2>2, AnswersUndisturbed DEF Read
  <2>3. CASE reading.of # NoOne
    <3> DEFINE s == reading.of
    <3>1. s \in Requests /\ at[s] \in {"deciding", "built"}
      BY <2>3 DEF ServeInv, InOrder
    <3>2. Judge(s, file.policy)
      BY <1>4, <2>3 DEF Read
    <3> HIDE DEF s
    <3> QED
      BY <2>1, <3>1, <3>2, JudgedAnswers
  <2> QED
    BY <2>2, <2>3
<1>5. CASE Shutdown
  <2>1. UNCHANGED <<path, target, unrecorded, late, logged, handed>>
    BY <1>5 DEF Shutdown
  <2>2. CASE UNCHANGED <<at, pending>> /\ stage' = "died"
    BY <2>1, <2>2, AnswersUndisturbed
  <2>3. CASE Done(pending) /\ pending' = {}
    <3>1. pending \in SUBSET Requests /\ \A r \in pending : ~Approving(r)
      BY DEF ServeInv, ServeTypes, Held, Approving
    <3>2. at' = [r \in Requests |-> IF r \in pending THEN "done" ELSE at[r]]
      BY <2>3 DEF Done
    <3>3. pending' = pending \ pending
      BY <2>3
    <3>4. Waiting'
      BY <2>1, <3>1, <3>2, <3>3, EndedWaiting DEF AnswerInv
    <3> QED
      BY <2>1, <2>3, <3>4, AnswersKept
  <2> QED
    BY <1>5, <2>2, <2>3 DEF Shutdown, ToDrain, Dies
<1>6. CASE Closed
  BY <1>6, AnswersUndisturbed DEF Closed, Stop, servevars
<1>7. CASE TenSeconds
  BY <1>7, AnswersUndisturbed DEF TenSeconds, Stop, servevars
<1>8. CASE UNCHANGED vars
  BY <1>8, AnswersUndisturbed DEF vars, servevars
<1> QED
  BY <1>1, <1>2, <1>3, <1>4, <1>5, <1>6, <1>7, <1>8 DEF Next

(***************************************************************************)
(* For any number of requests and operators: a caller that was queued is   *)
(* answered, on the queue or being approved, unless its record could not   *)
(* be written, and shutdown leaves nobody queued but late comers (enqueue, *)
(* closePending, /approve and shutdown of signerd.ts).                     *)
(***************************************************************************)
THEOREM QueuedIsAnswered == Spec => []NobodyIsForgotten
<1>1. ServeInv /\ AnswerInv => NobodyIsForgotten
  <2> SUFFICES ASSUME ServeInv, AnswerInv PROVE NobodyIsForgotten
    OBVIOUS
  <2>1. \A o \in Requests : Approving(o) => target[o] \in BeingApproved
    BY DEF BeingApproved, Approving
  <2> QED
    BY <2>1 DEF AnswerInv, Waiting, Drained, InGoodHands, NobodyIsForgotten
<1> QED
  BY ServeInit, ServeStep, AnswerInit, AnswerStep, <1>1, PTL DEF Spec

(***************************************************************************)
(* For any number of requests, wherever the disk fails and however often a *)
(* build is retried: no caller has a transaction whose signed record is    *)
(* not on disk (sign and its callers in signerd.ts).                       *)
(***************************************************************************)
THEOREM NothingUnrecordedGoesOut == Spec => []HandedOutIsRecorded
<1>1. AnswerInv => HandedOutIsRecorded
  BY DEF AnswerInv
<1> QED
  BY ServeInit, ServeStep, AnswerInit, AnswerStep, <1>1, PTL DEF Spec

-----------------------------------------------------------------------------
(***************************************************************************)
(* Serving requests touches neither the keystore nor what the start found. *)
(***************************************************************************)
OnlyServes ==
    /\ UNCHANGED <<kvars, env, modes, notes>>
    /\ \/ stage' = stage
       \/ stage = "listening" /\ stage' = "stopping"
       \/ stage' \in {"stopped", "died"}

LEMMA ServesOnly == ASSUME NEW r \in Requests, Serve(r) PROVE OnlyServes
<1> USE DEF startvars, OnlyServes
<1>1. ASSUME CloseFromCallback(r) PROVE OnlyServes
  <2>1. UNCHANGED kvars /\ (UNCHANGED startvars \/ Dies)
    BY <1>1 DEF CloseFromCallback
  <2> QED BY <2>1 DEF Dies
<1>2. CASE TimeOut(r) \/ CallerLeaves(r)
  BY <1>1, <1>2 DEF TimeOut, CallerLeaves
<1>3. ASSUME ~TimeOut(r), ~CallerLeaves(r) PROVE OnlyServes
  BY <1>3 DEF Serve, Arrive, BadRequest, SignBody, ApproveBody, DenyBody, Stat, BuildRetried, BuildFails, Built
<1> QED BY <1>2, <1>3

LEMMA RestsOrServes == ASSUME [Next]_vars, ~Around PROVE OnlyServes
<1>1. ASSUME Status \/ Read PROVE OnlyServes
  BY <1>1 DEF Status, Read, startvars, OnlyServes
<1>2. ASSUME Shutdown PROVE OnlyServes
  BY <1>2 DEF Shutdown, Dies, OnlyServes
<1>3. ASSUME Closed \/ TenSeconds PROVE OnlyServes
  BY <1>3 DEF Closed, TenSeconds, Stop, OnlyServes
<1>4. ASSUME UNCHANGED vars PROVE OnlyServes
  BY <1>4 DEF vars, startvars, OnlyServes
<1> QED BY <1>1, <1>2, <1>3, <1>4, ServesOnly DEF Next

(***************************************************************************)
(* The keystore.  One that opens opens with the passphrase the operator    *)
(* keeps, whole on disk or still being written, and then the file is torn; *)
(* one somebody relied on stays, for without --force nothing is written    *)
(* over a keystore.                                                        *)
(***************************************************************************)
KeysInv ==
    /\ writing # Nothing => IsKeystore(writing) /\ writing.pass = meant /\ ~IsKeystore(store)
    /\ IsKeystore(store) => store.pass = meant
    /\ trusted # Nothing /\ ~forced => IsKeystore(store) /\ store.words = trusted

LEMMA KeysInit == Init => KeysInv
BY DEF Init, StartupInit, KeystoreInit, KeysInv, IsKeystore

LEMMA KeysStep == KeysInv /\ [Next]_vars => KeysInv'
<1> SUFFICES ASSUME KeysInv, [Next]_vars PROVE KeysInv'
  OBVIOUS
<1>1. ASSUME UNCHANGED kvars PROVE KeysInv'
  BY <1>1 DEF kvars, KeysInv, IsKeystore
<1>2. ASSUME NEW words \in Wallets \cup NotWords, NEW keep \in Passphrases, NEW first \in Passphrases,
             NEW second \in Passphrases, NEW tty \in BOOLEAN, NEW force \in BOOLEAN,
             Create(words, keep, first, second, tty, force)
      PROVE  KeysInv'
  <2> DEFINE k == Sealed(words, first)
  <2>1. /\ writing = Nothing /\ (store = Nothing \/ force) /\ writing' = k /\ store' = Torn /\ meant' = keep
        /\ forced' = (forced \/ (force /\ store # Nothing)) /\ trusted' = trusted
        /\ Decrypted(k, first) = words
    BY <1>2 DEF Create, MayWrite
  <2>2. keep = first
    BY <1>2 DEF Create, TypedAlike
  <2>3. words # Nothing
    BY KeystoreAssumption
  <2>4. IsKeystore(k) /\ k.pass = first
    BY <2>1, <2>3 DEF Decrypted
  <2>5. ~IsKeystore(Torn)
    BY DEF IsKeystore, Torn
  <2>6. trusted # Nothing => forced'
    BY <2>1 DEF KeysInv, IsKeystore
  <2> HIDE DEF k
  <2> QED BY <2>1, <2>2, <2>4, <2>5, <2>6 DEF KeysInv, IsKeystore
<1>3. ASSUME Created PROVE KeysInv'
  BY <1>3 DEF Created, KeysInv, IsKeystore
<1>4. ASSUME CutShort PROVE KeysInv'
  BY <1>4 DEF CutShort, KeysInv, IsKeystore
<1>5. ASSUME DeletePlain PROVE KeysInv'
  BY <1>5 DEF DeletePlain, KeysInv, IsKeystore
<1>6. ASSUME KeystoreNext PROVE KeysInv'
  BY <1>2, <1>3, <1>4, <1>5, <1>6 DEF KeystoreNext
<1>7. ASSUME Around PROVE KeystoreNext \/ UNCHANGED kvars
  BY <1>7 DEF Around, StartupNext, Configure, CheckSettings, LoadKey, ReadPolicy, StatPolicy, Replay,
         CheckLedger, OpenChannels, RefreshBalance, ReplacePolicy
<1>8. ASSUME ~Around PROVE UNCHANGED kvars
  BY <1>8, RestsOrServes DEF OnlyServes
<1> QED BY <1>1, <1>6, <1>7, <1>8

(***************************************************************************)
(* WordsAreNeverLost: whoever deletes the plaintext on the word of         *)
(* `keystore create` can open the keystore with the passphrase they keep,  *)
(* through mistyped passphrases and writes cut short (keystoreCli.ts).     *)
(***************************************************************************)
THEOREM KeystoreKeepsTheWords == Spec => []WordsAreNeverLost
<1>1. KeysInv => WordsAreNeverLost
  BY DEF KeysInv, WordsAreNeverLost, Decrypted
<1> QED BY KeysInit, KeysStep, <1>1, PTL DEF Spec

-----------------------------------------------------------------------------
(***************************************************************************)
(* The start.  Each stage leaves behind what it did not refuse: the modes  *)
(* are those of the environment until the daemon writes the file, and each *)
(* file is looked at before.                                               *)
(***************************************************************************)
Seen(F) == \A f \in F : ModeProblem(f, env.modes[f]) => <<f, "warn">> \in notes

AtLedger == {"ledger", "channels", "listening", "stopping"}

AtReplay == AtLedger \cup {"replay"}

AtPolicy == AtReplay \cup {"policy", "stat"}

StartInv ==
    /\ stage = "settings" \/ stage = "key" \/ stage \in AtPolicy => env \in Environments
    /\ stage \in {"settings", "key", "policy", "stat", "replay"} => modes = env.modes
    /\ stage = "ledger" => \A f \in {"ledger", "channel index"} : modes[f] = env.modes[f]
    /\ stage = "channels" => modes["channel index"] = env.modes["channel index"]
    /\ stage = "ledger" => DOMAIN modes = Files
    /\ stage = "key" \/ stage \in AtPolicy => ~SettingsRefused(env) /\ Seen(SecretFiles(env))
    /\ stage \in AtPolicy => ~TokensRefused(env)
    /\ stage \in AtReplay => Seen({"policy", "audit"})
    /\ stage \in AtLedger => ~LogRefused(env)
    /\ stage \in AtLedger \ {"ledger"} => Seen({"ledger"})
    /\ Up /\ Names[env.network] = "preprod" => Seen({"channel index"})

LEMMA StartInit == Init => StartInv
BY DEF Init, StartupInit, StartInv, AtPolicy, AtReplay, AtLedger, Up

LEMMA NotesSee ==
    ASSUME NEW F, NEW m, NotesOn(env, F, m) \subseteq notes', ~Fatal(NotesOn(env, F, m)),
           \A f \in F : m[f] = env.modes[f], env' = env
    PROVE  Seen(F)'
<1> SUFFICES ASSUME NEW f \in F, ModeProblem(f, env.modes[f]) PROVE <<f, "warn">> \in notes'
  BY DEF Seen
<1>1. m[f] # "absent" /\ ModeProblem(f, m[f])
  BY DEF ModeProblem
<1>2. <<f, Level(env, f, m[f])>> \in NotesOn(env, F, m)
  BY <1>1 DEF NotesOn
<1>3. Level(env, f, m[f]) # "fatal"
  BY <1>2 DEF Fatal
<1>4. Level(env, f, m[f]) = "warn"
  BY <1>1, <1>3 DEF Level
<1> QED BY <1>2, <1>4

LEMMA StillSeen ==
    ASSUME NEW F, Seen(F), env' = env, notes \subseteq notes' PROVE Seen(F)'
BY DEF Seen

LEMMA StartRests == ASSUME StartInv, OnlyServes PROVE StartInv'
<1>1. UNCHANGED <<env, modes, notes>>
  BY DEF OnlyServes
<1>2. \A F : Seen(F)' <=> Seen(F)
  BY <1>1 DEF Seen
<1>3. \/ stage' = stage
      \/ stage = "listening" /\ stage' = "stopping"
      \/ stage' \in {"stopped", "died"}
  BY DEF OnlyServes
<1> QED BY <1>1, <1>2, <1>3 DEF StartInv, AtPolicy, AtReplay, AtLedger, Up

LEMMA StartStep == StartInv /\ [Next]_vars => StartInv'
<1> SUFFICES ASSUME StartInv, [Next]_vars PROVE StartInv'
  OBVIOUS
<1> USE DEF To
<1>1. ASSUME UNCHANGED startvars PROVE StartInv'
  <2>1. UNCHANGED <<stage, env, modes, notes>>
    BY <1>1 DEF startvars
  <2> QED BY <2>1 DEF StartInv, Seen, Up
<1>2. ASSUME stage' = "refused" PROVE StartInv'
  BY <1>2 DEF StartInv, AtPolicy, AtReplay, AtLedger, Up
<1>3. ASSUME NEW e \in Environments, Configure(e) PROVE StartInv'
  <2>1. stage' = "settings" /\ env' = e /\ modes' = e.modes
    BY <1>3 DEF Configure
  <2> QED BY <2>1 DEF StartInv, AtPolicy, AtReplay, AtLedger, Up
<1>4. ASSUME CheckSettings, stage' # "refused" PROVE StartInv'
  <2>1. /\ stage = "settings" /\ ~SettingsRefused(env) /\ stage' = "key" /\ UNCHANGED <<env, modes>>
        /\ notes' = NotesOn(env, SecretFiles(env), modes) /\ ~Fatal(NotesOn(env, SecretFiles(env), modes))
    BY <1>4 DEF CheckSettings
  <2>2. Seen(SecretFiles(env))'
    BY <2>1, NotesSee DEF StartInv, SecretFiles
  <2> QED BY <2>1, <2>2 DEF StartInv, AtPolicy, AtReplay, AtLedger, Up, SettingsRefused
<1>5. ASSUME stage = "key", NEW typed \in Passphrases, LoadKey(typed), stage' # "refused" PROVE StartInv'
  <2>1. stage' = "policy" /\ ~TokensRefused(env) /\ UNCHANGED <<env, modes, notes>>
    BY <1>5 DEF LoadKey
  <2>2. \A F : Seen(F)' <=> Seen(F)
    BY <2>1 DEF Seen
  <2> QED BY <1>5, <2>1, <2>2 DEF StartInv, AtPolicy, AtReplay, AtLedger, Up
<1>6. ASSUME ReadPolicy, stage' # "refused" PROVE StartInv'
  <2>1. stage = "policy" /\ stage' = "stat" /\ UNCHANGED <<env, modes, notes>>
    BY <1>6 DEF ReadPolicy
  <2>2. \A F : Seen(F)' <=> Seen(F)
    BY <2>1 DEF Seen
  <2> QED BY <2>1, <2>2 DEF StartInv, AtPolicy, AtReplay, AtLedger, Up
<1>7. ASSUME StatPolicy, stage' # "refused" PROVE StartInv'
  <2> DEFINE found == NotesOn(env, {"policy", "audit"}, modes)
  <2>1. /\ stage = "stat" /\ stage' = "replay" /\ UNCHANGED <<env, modes>>
        /\ ~Fatal(found) /\ notes' = notes \cup found
    BY <1>7 DEF StatPolicy
  <2>2. Seen({"policy", "audit"})'
    BY <2>1, NotesSee DEF StartInv
  <2>3. Seen(SecretFiles(env))'
    BY <2>1, StillSeen DEF StartInv, AtPolicy
  <2> QED BY <2>1, <2>2, <2>3 DEF StartInv, AtPolicy, AtReplay, AtLedger, Up
<1>8. ASSUME Replay, stage' # "refused" PROVE StartInv'
  <2>1. /\ stage = "replay" /\ stage' = "ledger" /\ ~LogRefused(env) /\ UNCHANGED <<env, notes>>
        /\ modes' = modes \/ modes' = [modes EXCEPT !["audit"] = "private"]
    BY <1>8 DEF Replay
  <2>2. modes = env.modes /\ env \in Environments
    BY <2>1 DEF StartInv, AtPolicy, AtReplay
  <2>3. DOMAIN modes = Files
    BY <2>2, StartupAssumption DEF Configurations
  <2>4. DOMAIN modes' = Files /\ \A f \in {"ledger", "channel index"} : modes'[f] = env.modes[f]
    BY <2>1, <2>2, <2>3 DEF Files
  <2>5. \A F : Seen(F)' <=> Seen(F)
    BY <2>1 DEF Seen
  <2> QED BY <2>1, <2>4, <2>5 DEF StartInv, AtPolicy, AtReplay, AtLedger, Up
<1>9. ASSUME CheckLedger, stage' # "refused" PROVE StartInv'
  <2> DEFINE found == NotesOn(env, {"ledger"}, modes)
  <2>1. /\ stage = "ledger" /\ stage' = "channels" /\ env' = env /\ notes' = notes \cup found
        /\ ~Fatal(found) /\ modes' = [modes EXCEPT !["ledger"] = "private"]
    BY <1>9 DEF CheckLedger, ModesBeforeCheckpoint, Checkpointed
  <2>2. /\ DOMAIN modes = Files /\ modes["ledger"] = env.modes["ledger"]
        /\ modes["channel index"] = env.modes["channel index"]
    BY <2>1 DEF StartInv
  <2>3. Seen({"ledger"})'
    BY <2>1, <2>2, NotesSee
  <2>4. modes'["channel index"] = env.modes["channel index"]
    BY <2>1, <2>2 DEF Files
  <2>5. Seen({"policy", "audit"})' /\ Seen(SecretFiles(env))'
    BY <2>1, StillSeen DEF StartInv, AtPolicy, AtReplay, AtLedger
  <2> QED BY <2>1, <2>3, <2>4, <2>5 DEF StartInv, AtPolicy, AtReplay, AtLedger, Up
<1>10. ASSUME OpenChannels, stage' # "refused" PROVE StartInv'
  <2> DEFINE found == NotesOn(env, {"channel index"}, modes)
  <2>1. /\ stage = "channels" /\ stage' = "listening" /\ UNCHANGED <<env, modes>> /\ notes \subseteq notes'
        /\ Names[env.network] = "preprod" => found \subseteq notes'
    BY <1>10 DEF OpenChannels
  <2>2. ASSUME Names[env.network] = "preprod" PROVE Seen({"channel index"})'
    <3>1. ~Fatal(found)
      <4>1. ~IsMainnet(env)
        BY <2>2 DEF IsMainnet
      <4>2. \A f, m : Level(env, f, m) # "fatal"
        BY <4>1 DEF Level
      <4>3. ASSUME NEW note \in found PROVE note[2] # "fatal"
        <5>1. PICK f \in {"channel index"} : note = <<f, Level(env, f, modes[f])>>
          BY DEF NotesOn
        <5> QED BY <4>2, <5>1
      <4> QED BY <4>3 DEF Fatal
    <3>2. modes["channel index"] = env.modes["channel index"]
      BY <2>1 DEF StartInv
    <3> QED BY <2>1, <2>2, <3>1, <3>2, NotesSee
  <2>3. Seen({"policy", "audit"})' /\ Seen(SecretFiles(env))' /\ Seen({"ledger"})'
    BY <2>1, StillSeen DEF StartInv, AtPolicy, AtReplay, AtLedger
  <2> QED BY <2>1, <2>2, <2>3 DEF StartInv, AtPolicy, AtReplay, AtLedger, Up
<1>11. ASSUME RefreshBalance \/ \E p : ReplacePolicy(p) PROVE StartInv'
  <2>1. UNCHANGED <<stage, env, modes, notes>>
    BY <1>11 DEF RefreshBalance, ReplacePolicy
  <2> QED BY <2>1 DEF StartInv, Seen, Up
<1>12. ASSUME Around PROVE StartInv'
  BY <1>1, <1>2, <1>3, <1>4, <1>5, <1>6, <1>7, <1>8, <1>9, <1>10, <1>11, <1>12 DEF Around, StartupNext
<1> QED BY <1>12, StartRests, RestsOrServes

LEMMA EachIsSeen == ASSUME StartInv PROVE LooseFilesAreSeen
<1> SUFFICES ASSUME Up, NEW f \in FilesLookedAt, ModeProblem(f, env.modes[f])
             PROVE  <<f, "warn">> \in notes
  BY DEF LooseFilesAreSeen
<1>1. stage \in AtPolicy /\ stage \in AtReplay /\ stage \in AtLedger \ {"ledger"}
  BY DEF Up, AtPolicy, AtReplay, AtLedger
<1>2. Seen(SecretFiles(env)) /\ Seen({"policy", "audit"}) /\ Seen({"ledger"})
  BY <1>1 DEF StartInv
<1>3. Names[env.network] = "preprod" => Seen({"channel index"})
  BY DEF StartInv
<1> QED BY <1>2, <1>3 DEF Seen, FilesLookedAt

(***************************************************************************)
(* LooseFilesAreSeen: whatever stage looks at a file's mode, it does so    *)
(* before the daemon makes the file private itself (the log opened for     *)
(* appending, the checkpoint renamed over the ledger).                     *)
(***************************************************************************)
THEOREM LooseFilesAreNoted == Spec => []LooseFilesAreSeen
BY StartInit, StartStep, EachIsSeen, PTL DEF Spec

-----------------------------------------------------------------------------
(***************************************************************************)
(* The same wallet on mainnet.                                             *)
(***************************************************************************)
LEMMA Moved ==
    ASSUME NEW e \in Configurations
    PROVE  /\ OnMainnet(e).network = "cardano:mainnet"
           /\ OnMainnet(e).token = e.token /\ OnMainnet(e).tokens = e.tokens
           /\ OnMainnet(e).settings = e.settings /\ OnMainnet(e).keys = e.keys
           /\ OnMainnet(e).passphrase = e.passphrase /\ OnMainnet(e).beside = e.beside
           /\ OnMainnet(e).modes = e.modes /\ OnMainnet(e).windows = e.windows
           /\ OnMainnet(e).log = e.log /\ OnMainnet(e).waived = e.waived
           /\ OnMainnet(e).blockfrost = e.blockfrost /\ OnMainnet(e).ceiling = e.ceiling
BY DEF OnMainnet, Configurations

LEMMA PolicyMoved ==
    ASSUME NEW q \in PolicyFiles(Agents), q.network # "none"
    PROVE  /\ PolicyOnMainnet(q) # Unreadable
           /\ PolicyOnMainnet(q).network = "cardano:mainnet" /\ PolicyOnMainnet(q).channels = "off"
           /\ PolicyOnMainnet(q).assets = q.assets /\ PolicyOnMainnet(q).lovelaceCaps = q.lovelaceCaps
<1>1. q # Unreadable
  BY DaemonAssumption
<1>2. PolicyOnMainnet(q) = [q EXCEPT !.network = "cardano:mainnet", !.channels = "off"]
  BY <1>1 DEF PolicyOnMainnet
<1>3. [q EXCEPT !.network = "cardano:mainnet", !.channels = "off"] \in PolicyFiles(Agents)
  BY DEF PolicyFiles, Networks, Names
<1> QED BY <1>2, <1>3, DaemonAssumption DEF PolicyFiles

(***************************************************************************)
(* What a preflight with nothing to say has checked.                       *)
(***************************************************************************)
LEMMA NothingToSay ==
    ASSUME NEW e, NEW q, NEW found, NEW balanceRead, ~IsMainnet(e),
           Clean(Preflight(e, q, found, balanceRead))
    PROVE  /\ Clean(found)
           /\ ~PolicyRefused(e, q) /\ q.network # "none"
           /\ KeySource(e) = "keystore" /\ e.tokens # "unset" /\ e.token # "short"
           /\ e.ceiling /\ balanceRead \notin {"unknown", "over"}
           /\ "lookalike" \notin q.assets
           /\ q.assets = {} \/ q.lovelaceCaps
<1> DEFINE checks == Preflight(e, q, found, balanceRead)
<1>1. \A c \in checks : c[2] = "ok"
  BY DEF Clean
<1>2. CeilingCheck(e, balanceRead) \in checks /\ DeploymentChecks(e, found) \subseteq checks
  BY DEF Preflight
<1>3. ~PolicyRefused(e, q)
  <2>1. PolicyRefused(e, q) => <<"policy readable", "fail">> \in checks
    BY DEF Preflight
  <2> HIDE DEF checks
  <2>2. <<"policy readable", "fail">>[2] = "fail"
    OBVIOUS
  <2> QED BY <1>1, <2>1, <2>2
<1>4. <<"policy declares its network", Graded(e, q.network = "none")>> \in checks /\ AgentChecks(e, q) \subseteq checks
  BY <1>3 DEF Preflight
<1> HIDE DEF checks
<1>5. Clean(found)
  BY <1>1, <1>2 DEF DeploymentChecks, Clean
<1>6. \A problem : Graded(e, problem) = "ok" => ~problem
  BY DEF Graded
<1>7. \A label, problem : <<label, Graded(e, problem)>> \in checks => ~problem
  BY <1>1, <1>6
<1>8. q.network # "none"
  BY <1>4, <1>7
<1>9. /\ <<"key at rest", Graded(e, KeySource(e) # "keystore")>> \in checks
      /\ <<"agent identity", Graded(e, AgentIdentityProblem(e))>> \in checks
      /\ <<"operator token", Graded(e, OperatorTokenProblem(e))>> \in checks
  BY <1>2 DEF DeploymentChecks
<1>10. KeySource(e) = "keystore" /\ e.tokens # "unset" /\ e.token # "short"
  BY <1>7, <1>9 DEF AgentIdentityProblem, OperatorTokenProblem
<1>11. e.ceiling /\ balanceRead \notin {"unknown", "over"}
  <2>1. (IF ~e.ceiling THEN Graded(e, TRUE)
         ELSE IF balanceRead = "unknown" THEN "warn" ELSE Graded(e, balanceRead = "over")) = "ok"
    BY <1>1, <1>2 DEF CeilingCheck
  <2> QED BY <2>1, <1>6
<1>12. "lookalike" \notin q.assets
  <2>1. "lookalike" \in q.assets => <<"asset", Graded(e, TRUE)>> \in checks
    BY <1>4 DEF AgentChecks, AssetCheck
  <2> QED BY <2>1, <1>7
<1>13. q.assets = {} \/ q.lovelaceCaps
  <2>1. <<"lovelace caps for token payments", Graded(e, q.assets # {} /\ ~q.lovelaceCaps)>> \in checks
    BY <1>4 DEF AgentChecks
  <2> QED BY <2>1, <1>7
<1> QED BY <1>3, <1>5, <1>8, <1>10, <1>11, <1>12, <1>13

(***************************************************************************)
(* Files nobody else can touch are silent on mainnet too.                  *)
(***************************************************************************)
LEMMA ModesAreFineThere ==
    ASSUME StartInv, Up, Clean(notes), NEW F, F \subseteq FilesLookedAt,
           OnMainnet(env).windows = env.windows, OnMainnet(env).modes = env.modes
    PROVE  ~Fatal(NotesOn(OnMainnet(env), F, OnMainnet(env).modes))
<1>1. ASSUME NEW f \in F PROVE ~ModeProblem(f, env.modes[f])
  <2>1. ModeProblem(f, env.modes[f]) => <<f, "warn">> \in notes
    BY EachIsSeen DEF LooseFilesAreSeen
  <2> QED BY <2>1 DEF Clean
<1>2. \A f \in F : Level(OnMainnet(env), f, env.modes[f]) # "fatal"
  BY <1>1 DEF Level
<1>3. ASSUME NEW note \in NotesOn(OnMainnet(env), F, env.modes) PROVE note[2] # "fatal"
  <2>1. PICK f \in F : note = <<f, Level(OnMainnet(env), f, env.modes[f])>>
    BY DEF NotesOn
  <2> QED BY <1>2, <2>1
<1> QED BY <1>3 DEF Fatal

(***************************************************************************)
(* What preflight would fail on mainnet, check by check.                   *)
(***************************************************************************)
LEMMA NothingFailsThere ==
    ASSUME NEW t, NEW p, NEW balanceRead, ~PolicyRefused(t, p), p.network # "none",
           KeySource(t) = "keystore", t.tokens # "unset", t.token # "short",
           t.ceiling, balanceRead # "over", "lookalike" \notin p.assets,
           p.assets = {} \/ p.lovelaceCaps,
           NEW check \in Preflight(t, p, {}, balanceRead)
    PROVE  check[2] # "fail"
<1>1. \A label, problem : check = <<label, Warned(problem)>> => check[2] # "fail"
  BY DEF Warned
<1>2. \A label, problem : ~problem /\ check = <<label, Graded(t, problem)>> => check[2] # "fail"
  BY DEF Graded
<1>3. ASSUME check = CeilingCheck(t, balanceRead) PROVE check[2] # "fail"
  <2>1. CASE balanceRead = "unknown"
    BY <1>3, <2>1 DEF CeilingCheck
  <2>2. CASE balanceRead # "unknown"
    <3>1. check = <<"hot wallet ceiling", Graded(t, balanceRead = "over")>>
      BY <1>3, <2>2 DEF CeilingCheck
    <3> QED BY <1>2, <3>1
  <2> QED BY <2>1, <2>2
<1>4. ASSUME check \in DeploymentChecks(t, {}) PROVE check[2] # "fail"
  <2>1. CASE check = <<"key at rest", Graded(t, KeySource(t) # "keystore")>>
    BY <1>2, <2>1
  <2>2. CASE check = <<"agent identity", Graded(t, AgentIdentityProblem(t))>>
    <3>1. Graded(t, AgentIdentityProblem(t)) = "ok"
      BY DEF Graded, AgentIdentityProblem
    <3> QED BY <2>2, <3>1
  <2>3. CASE check = <<"operator token", Graded(t, OperatorTokenProblem(t))>>
    <3>1. Graded(t, OperatorTokenProblem(t)) = "ok"
      BY DEF Graded, OperatorTokenProblem
    <3> QED BY <2>3, <3>1
  <2>4. CASE \E label, problem : check = <<label, Warned(problem)>>
    BY <1>1, <2>4
  <2> QED BY <1>4, <2>1, <2>2, <2>3, <2>4, Zenon DEF DeploymentChecks
<1>5. ASSUME check \in AgentChecks(t, p) PROVE check[2] # "fail"
  <2>1. ~(p.assets # {} /\ ~p.lovelaceCaps)
    OBVIOUS
  <2>2. ASSUME NEW kind \in p.assets, check = AssetCheck(t, kind) PROVE check[2] # "fail"
    BY <2>2 DEF AssetCheck
  <2>3. \/ check = <<"lovelace caps for token payments", Graded(t, p.assets # {} /\ ~p.lovelaceCaps)>>
        \/ \E label, problem : check = <<label, Warned(problem)>>
        \/ \E kind \in p.assets : check = AssetCheck(t, kind)
    BY <1>5, Zenon DEF AgentChecks
  <2> QED BY <1>1, <1>2, <2>1, <2>2, <2>3, Zenon
<1>6. check = <<"policy declares its network", Graded(t, p.network = "none")>> => check[2] # "fail"
  BY <1>2, Zenon
<1>7. \/ check = CeilingCheck(t, balanceRead) \/ check \in DeploymentChecks(t, {})
      \/ check = <<"policy declares its network", Graded(t, p.network = "none")>>
      \/ check \in AgentChecks(t, p)
  BY Zenon DEF Preflight
<1> QED BY <1>3, <1>4, <1>5, <1>6, <1>7, Zenon

LEMMA StartsThere ==
    ASSUME StartInv, file.policy \in Policies PROVE CleanHereStartsThere
<1> SUFFICES ASSUME Up, ~IsMainnet(env), Clean(Preflight(env, file.policy, notes, balance))
             PROVE  /\ StartsOn(OnMainnet(env), PolicyOnMainnet(file.policy))
                    /\ \A c \in Preflight(OnMainnet(env), PolicyOnMainnet(file.policy),
                                          NotesOn(OnMainnet(env), {}, modes), balance) : c[2] # "fail"
  BY DEF CleanHereStartsThere
<1> DEFINE q == file.policy
           t == OnMainnet(env)
           p == PolicyOnMainnet(q)
<1>1. stage \in AtPolicy /\ stage \in AtLedger
  BY DEF Up, AtPolicy, AtReplay, AtLedger
<1>2. /\ env \in Configurations
      /\ ~SettingsRefused(env) /\ ~TokensRefused(env) /\ ~LogRefused(env)
  BY <1>1, StartupAssumption DEF StartInv
<1>3. /\ Clean(notes)
      /\ ~PolicyRefused(env, q) /\ q.network # "none"
      /\ KeySource(env) = "keystore" /\ env.tokens # "unset" /\ env.token # "short"
      /\ env.ceiling /\ balance \notin {"unknown", "over"}
      /\ "lookalike" \notin q.assets
      /\ q.assets = {} \/ q.lovelaceCaps
  BY NothingToSay
<1>4. q \in PolicyFiles(Agents)
  <2>1. q # Unreadable
    BY <1>3 DEF PolicyRefused
  <2> QED BY <2>1, DaemonAssumption
<1>5. /\ p # Unreadable /\ p.network = "cardano:mainnet"
      /\ p.assets = q.assets /\ p.lovelaceCaps = q.lovelaceCaps
  BY <1>3, <1>4, PolicyMoved
<1>6. /\ t.network = "cardano:mainnet"
      /\ t.token = env.token /\ t.tokens = env.tokens
      /\ t.settings = env.settings /\ t.keys = env.keys
      /\ t.passphrase = env.passphrase /\ t.modes = env.modes /\ t.windows = env.windows
      /\ t.log = env.log /\ t.waived = env.waived /\ t.ceiling = env.ceiling
  BY <1>2, Moved
<1>7. ~Fatal(NotesOn(t, SecretFiles(t) \cup {"policy", "audit", "ledger"}, t.modes))
  <2>1. SecretFiles(t) \cup {"policy", "audit", "ledger"} \subseteq FilesLookedAt
    <3>1. SecretFiles(t) = SecretFiles(env)
      BY <1>6 DEF SecretFiles
    <3> QED BY <3>1 DEF FilesLookedAt
  <2> QED BY <1>3, <1>6, <2>1, ModesAreFineThere
<1>8. KeySource(t) = "keystore"
  BY <1>3, <1>6 DEF KeySource
<1> HIDE DEF q, t, p
<1>9. ~PolicyRefused(t, p)
  BY <1>5, <1>6 DEF PolicyRefused
<1>10. ~SettingsRefused(t)
  <2>1. "cardano:mainnet" \in DOMAIN Names
    BY DEF Names
  <2> QED BY <1>2, <1>3, <1>6, <2>1 DEF SettingsRefused, OperatorTokenProblem, AgentIdentityProblem
<1>11. ~LogRefused(t) /\ ~TokensRefused(t)
  BY <1>2, <1>6 DEF LogRefused, TokensRefused
<1>12. StartsOn(t, p)
  BY <1>7, <1>9, <1>10, <1>11 DEF StartsOn
<1>13. NotesOn(t, {}, modes) = {}
  BY DEF NotesOn
<1>14. \A c \in Preflight(t, p, {}, balance) : c[2] # "fail"
  <2>1. p.network # "none" /\ t.tokens # "unset" /\ t.token # "short" /\ t.ceiling /\ balance # "over"
        /\ "lookalike" \notin p.assets /\ (p.assets = {} \/ p.lovelaceCaps)
    BY <1>3, <1>5, <1>6
  <2> QED BY <1>8, <1>9, <2>1, NothingFailsThere
<1> QED BY <1>12, <1>13, <1>14 DEF q, t, p

(***************************************************************************)
(* CleanHereStartsThere: a testnet wallet that preflight has nothing to    *)
(* say against can be moved to mainnet, whatever its configuration, its    *)
(* policy and the time its policy was last replaced: every refusal of the  *)
(* start there, and every failing check, is a warning here.                *)
(***************************************************************************)
THEOREM CleanWalletsMoveToMainnet == Spec => []CleanHereStartsThere
<1>1. PolicyInv => file.policy \in Policies
  BY DEF PolicyInv, PolicyTypes
<1> QED BY PolicyInit, PolicyStep, StartInit, StartStep, StartsThere, <1>1, PTL DEF Spec

=============================================================================
