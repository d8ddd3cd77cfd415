------------------------------ MODULE FifoLock ------------------------------
(***************************************************************************)
(* What signerd's locks promise: per key, calls run one at a time and in   *)
(* the order they were made; keys do not wait for each other.  Signerd is  *)
(* modelled over this abstraction, KeyedLock implements it.                *)
(***************************************************************************)
EXTENDS Naturals, Sequences

CONSTANTS Calls, Keys

VARIABLES
    queue,  \* per key, the calls made and not finished, oldest first
    inside  \* the calls whose task is running

Init ==
    /\ queue = [k \in Keys |-> << >>]
    /\ inside = {}

Join(n, k) ==
    /\ \A l \in Keys : \A i \in 1 .. Len(queue[l]) : queue[l][i] # n
    /\ queue' = [queue EXCEPT ![k] = Append(@, n)]
    /\ UNCHANGED inside

Enter(n, k) ==
    /\ queue[k] # << >>
    /\ Head(queue[k]) = n
    /\ n \notin inside
    /\ inside' = inside \cup {n}
    /\ UNCHANGED queue

Leave(n, k) ==
    /\ queue[k] # << >>
    /\ Head(queue[k]) = n
    /\ n \in inside
    /\ inside' = inside \ {n}
    /\ queue' = [queue EXCEPT ![k] = Tail(@)]

Next == \E n \in Calls, k \in Keys : Join(n, k) \/ Enter(n, k) \/ Leave(n, k)

Spec == Init /\ [][Next]_<<queue, inside>>
=============================================================================
