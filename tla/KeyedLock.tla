------------------------------ MODULE KeyedLock ------------------------------
(***************************************************************************)
(* createKeyedLock of src/src/serialize.ts: one promise chain per key.     *)
(*                                                                         *)
(* A call n of run(key, task) takes the last promise of the key's chain    *)
(* (after[n]), makes one of its own that settles once its task has, and    *)
(* leaves that as the last.  Promise reactions are microtasks, so that a   *)
(* task starts, its promise settles and the key is forgotten are separate  *)
(* steps, in whatever order the engine runs them.  A task that rejects     *)
(* ("failed") settles its promise like one that resolves.                  *)
(***************************************************************************)
EXTENDS Naturals, Sequences, FiniteSets

CONSTANTS
    Calls,  \* the calls of run ever made
    Keys,   \* agent ids; createLock has a single key
    None    \* Promise.resolve(): nothing to wait for

ASSUME KeyedLockAssumption == None \notin Calls

VARIABLES
    chains, \* the Map from key to the last promise of its chain
    after,  \* the promise each call's task waits for
    state,  \* how far each call is
    joined  \* history: the calls of each key, in the order they were made

vars == <<chains, after, state, joined>>

Steps == {"new", "queued", "running", "ended", "failed", "settled", "forgotten"}

HasSettled(p) == p \in Calls => state[p] \in {"settled", "forgotten"}

Made(n, k) == \E i \in 1 .. Len(joined[k]) : joined[k][i] = n

Init ==
    /\ chains = [k \in Keys |-> None]
    /\ after = [n \in Calls |-> None]
    /\ state = [n \in Calls |-> "new"]
    /\ joined = [k \in Keys |-> << >>]

Run(n, k) ==
    /\ state[n] = "new"
    /\ after' = [after EXCEPT ![n] = chains[k]]
    /\ chains' = [chains EXCEPT ![k] = n]
    /\ state' = [state EXCEPT ![n] = "queued"]
    /\ joined' = [joined EXCEPT ![k] = Append(@, n)]

Start(n) ==
    /\ state[n] = "queued"
    /\ HasSettled(after[n])
    /\ state' = [state EXCEPT ![n] = "running"]
    /\ UNCHANGED <<chains, after, joined>>

End(n) ==
    /\ state[n] = "running"
    /\ \E outcome \in {"ended", "failed"} : state' = [state EXCEPT ![n] = outcome]
    /\ UNCHANGED <<chains, after, joined>>

(* Mutant: without the catch, a task that rejects never lets the next in. *)
SettleResolved(n) ==
    /\ state[n] = "ended"
    /\ state' = [state EXCEPT ![n] = "settled"]
    /\ UNCHANGED <<chains, after, joined>>

Settle(n) ==
    /\ state[n] \in {"ended", "failed"}
    /\ state' = [state EXCEPT ![n] = "settled"]
    /\ UNCHANGED <<chains, after, joined>>

(* Mutant: the key goes with whatever call ends. *)
ForgottenAlways(n, k) == None

(***************************************************************************)
(* The key goes only if no later call has taken the end of its chain.      *)
(***************************************************************************)
Forgotten(n, k) == IF chains[k] = n THEN None ELSE chains[k]

Forget(n, k) ==
    /\ Made(n, k)
    /\ state[n] = "settled"
    /\ chains' = [chains EXCEPT ![k] = Forgotten(n, k)]
    /\ state' = [state EXCEPT ![n] = "forgotten"]
    /\ UNCHANGED <<after, joined>>

Next ==
    \E n \in Calls :
        \/ \E k \in Keys : Run(n, k) \/ Forget(n, k)
        \/ Start(n) \/ End(n) \/ Settle(n)

(***************************************************************************)
(* The engine runs every reaction, and every task here ends: a build has a *)
(* request timeout and at most two retries.                                *)
(***************************************************************************)
Fairness ==
    /\ \A n \in Calls : WF_vars(Start(n)) /\ WF_vars(End(n)) /\ WF_vars(Settle(n))
    /\ \A n \in Calls, k \in Keys : WF_vars(Forget(n, k))

Spec == Init /\ [][Next]_vars /\ Fairness

-----------------------------------------------------------------------------
TypeOK ==
    /\ chains \in [Keys -> Calls \cup {None}]
    /\ after \in [Calls -> Calls \cup {None}]
    /\ state \in [Calls -> Steps]
    /\ joined \in [Keys -> Seq(Calls)]

Waiting(n) == state[n] = "queued"

(***************************************************************************)
(* Within a key no two tasks run at once, although a key is forgotten      *)
(* while calls for it keep arriving.                                       *)
(***************************************************************************)
OneAtATime ==
    \A k \in Keys, m, n \in Calls :
        Made(m, k) /\ Made(n, k) /\ state[m] = "running" /\ state[n] = "running" => m = n

(***************************************************************************)
(* A task starts only after every earlier call's on its key is over.       *)
(***************************************************************************)
InOrder ==
    \A k \in Keys : \A i, j \in 1 .. Len(joined[k]) :
        i < j /\ ~Waiting(joined[k][j]) => HasSettled(joined[k][i])

(***************************************************************************)
(* The map keeps no entry for a key whose calls are all done with: it does *)
(* not grow with the agent ids ever seen.                                  *)
(***************************************************************************)
IdleKeysForgotten ==
    \A k \in Keys :
        chains[k] # None => \E n \in Calls : Made(n, k) /\ state[n] # "forgotten"

(***************************************************************************)
(* Every call gets its turn, also behind one whose task failed.            *)
(***************************************************************************)
EveryCallRuns == \A n \in Calls : state[n] = "queued" ~> state[n] \in {"ended", "failed"}

(***************************************************************************)
(* The chain implements the queue: the calls of a key after those that are *)
(* over, as many as they are, wait in it in the order they were made, and  *)
(* only the first may be running.                                          *)
(***************************************************************************)
Over(n) == state[n] \in {"ended", "failed", "settled", "forgotten"}

Served(k) == Cardinality({i \in 1 .. Len(joined[k]) : Over(joined[k][i])})

Unfinished(k) == SubSeq(joined[k], Served(k) + 1, Len(joined[k]))

Lock == INSTANCE FifoLock WITH
            queue <- [k \in Keys |-> Unfinished(k)],
            inside <- {n \in Calls : state[n] = "running"}

ImplementsFifoLock == Lock!Spec
=============================================================================
