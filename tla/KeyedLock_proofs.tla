--------------------------- MODULE KeyedLock_proofs ---------------------------
(***************************************************************************)
(* Proofs about KeyedLock, for any set of calls and keys.                  *)
(*                                                                         *)
(* Mutual exclusion rests on order, and order on what a call finds when it *)
(* joins: either the call before it, or no chain, and then everything      *)
(* before it is over.                                                      *)
(***************************************************************************)
EXTENDS KeyedLock, FiniteSetTheorems, SequenceTheorems, TLAPS

(***************************************************************************)
(* A call is made once, for one key.                                       *)
(***************************************************************************)
MadeOnce ==
    /\ \A k, l \in Keys : \A i \in 1 .. Len(joined[k]), j \in 1 .. Len(joined[l]) :
          joined[k][i] = joined[l][j] => k = l /\ i = j
    /\ \A k \in Keys : \A i \in 1 .. Len(joined[k]) : state[joined[k][i]] # "new"

(***************************************************************************)
(* The map's entry is the key's last call, not yet forgotten; there is no  *)
(* entry only when all of the key's calls are over.                        *)
(***************************************************************************)
ChainsEnd ==
    \A k \in Keys :
        IF chains[k] = None
        THEN \A i \in 1 .. Len(joined[k]) : HasSettled(joined[k][i])
        ELSE /\ joined[k] # << >>
             /\ chains[k] = joined[k][Len(joined[k])]
             /\ state[chains[k]] # "forgotten"

(***************************************************************************)
(* A call waits for the one made just before it, unless everything made    *)
(* before it was over when it was made.                                    *)
(***************************************************************************)
WaitsForPrevious ==
    \A k \in Keys : \A i \in 1 .. Len(joined[k]) :
        \/ i > 1 /\ after[joined[k][i]] = joined[k][i - 1]
        \/ \A j \in 1 .. i - 1 : HasSettled(joined[k][j])

LockInv == TypeOK /\ MadeOnce /\ ChainsEnd /\ WaitsForPrevious /\ InOrder

LEMMA LockInit == Init => LockInv
<1> SUFFICES ASSUME Init PROVE LockInv
  OBVIOUS
<1>1. TypeOK
  BY DEF Init, TypeOK, Steps
<1>2. \A k \in Keys : Len(joined[k]) = 0
  BY DEF Init
<1>3. MadeOnce /\ ChainsEnd /\ WaitsForPrevious /\ InOrder
  BY <1>2 DEF Init, MadeOnce, ChainsEnd, WaitsForPrevious, InOrder
<1> QED BY <1>1, <1>3 DEF LockInv

LEMMA TypeStep == ASSUME TypeOK, [Next]_vars PROVE TypeOK'
<1>1. CASE UNCHANGED vars
  BY <1>1 DEF vars, TypeOK
<1>2. CASE Next
  <2>1. ASSUME NEW n \in Calls, NEW k \in Keys, Run(n, k) PROVE TypeOK'
    BY <2>1 DEF Run, TypeOK, Steps
  <2>2. ASSUME NEW n \in Calls, NEW k \in Keys, Forget(n, k) PROVE TypeOK'
    BY <2>2 DEF Forget, Forgotten, TypeOK, Steps
  <2>3. ASSUME NEW n \in Calls, Start(n) \/ End(n) \/ Settle(n) PROVE TypeOK'
    BY <2>3 DEF Start, End, Settle, TypeOK, Steps
  <2> QED BY <1>2, <2>1, <2>2, <2>3 DEF Next
<1> QED BY <1>1, <1>2

(***************************************************************************)
(* A new call takes the end of its key's sequence.                         *)
(***************************************************************************)
LEMMA RunStep ==
    ASSUME LockInv, NEW n \in Calls, NEW k \in Keys, Run(n, k)
    PROVE  LockInv'
<1> DEFINE len(l) == Len(joined[l])
<1> USE KeyedLockAssumption
<1>1. TypeOK' /\ TypeOK
  BY TypeStep DEF Next, LockInv
<1>2. /\ joined[k] \in Seq(Calls)
      /\ joined'[k] = Append(joined[k], n)
      /\ \A l \in Keys : l # k => joined'[l] = joined[l]
      /\ Len(joined'[k]) = len(k) + 1
      /\ joined'[k][len(k) + 1] = n
      /\ \A i \in 1 .. len(k) : joined'[k][i] = joined[k][i]
      /\ len(k) \in Nat
  BY <1>1 DEF Run, TypeOK
<1>3. /\ state[n] = "new"
      /\ state'[n] = "queued"
      /\ \A m \in Calls : m # n => state'[m] = state[m]
      /\ after'[n] = chains[k]
      /\ \A m \in Calls : m # n => after'[m] = after[m]
      /\ chains'[k] = n
      /\ \A l \in Keys : l # k => chains'[l] = chains[l]
  BY <1>1 DEF Run, TypeOK
<1>4. \A l \in Keys : \A i \in 1 .. len(l) : joined[l][i] \in Calls /\ joined[l][i] # n
  BY <1>1, <1>3 DEF LockInv, MadeOnce, TypeOK
<1>5. \A p \in Calls : state[p] \in {"settled", "forgotten"} => state'[p] \in {"settled", "forgotten"}
  BY <1>3
<1>5a. \A l \in Keys : \A i \in 1 .. Len(joined'[l]) :
          IF joined'[l][i] = n
          THEN l = k /\ i = len(k) + 1
          ELSE i \in 1 .. len(l) /\ \A j \in 1 .. i : joined'[l][j] = joined[l][j]
  <2> SUFFICES ASSUME NEW l \in Keys, NEW i \in 1 .. Len(joined'[l])
               PROVE  IF joined'[l][i] = n
                      THEN l = k /\ i = len(k) + 1
                      ELSE i \in 1 .. len(l) /\ \A j \in 1 .. i : joined'[l][j] = joined[l][j]
    OBVIOUS
  <2>1. len(l) \in Nat
    BY <1>1 DEF TypeOK
  <2>2. CASE l # k
    BY <2>1, <2>2, <1>2, <1>4
  <2>3. CASE l = k /\ i = len(k) + 1
    BY <2>3, <1>2
  <2>4. CASE l = k /\ i # len(k) + 1
    <3>1. i \in 1 .. len(k)
      BY <2>4, <1>2
    <3>2. joined'[k][i] = joined[k][i] /\ joined[k][i] # n
      BY <3>1, <1>2, <1>4
    <3>3. \A j \in 1 .. i : joined'[k][j] = joined[k][j]
      BY <3>1, <1>2
    <3> QED BY <2>4, <3>1, <3>2, <3>3
  <2> QED BY <2>2, <2>3, <2>4
<1>6. MadeOnce'
  <2>1. ASSUME NEW l \in Keys, NEW m \in Keys,
               NEW i \in 1 .. Len(joined'[l]), NEW j \in 1 .. Len(joined'[m]),
               joined'[l][i] = joined'[m][j]
        PROVE  l = m /\ i = j
    <3>1. CASE joined'[l][i] = n
      <4>1. l = k /\ i = len(k) + 1
        BY <1>5a, <3>1
      <4>2. m = k /\ j = len(k) + 1
        BY <1>5a, <3>1, <2>1
      <4> QED BY <4>1, <4>2
    <3>2. CASE joined'[l][i] # n
      <4>1. i \in 1 .. len(l) /\ joined'[l][i] = joined[l][i]
        BY <1>5a, <3>2
      <4>2. j \in 1 .. len(m) /\ joined'[m][j] = joined[m][j]
        BY <1>5a, <3>2, <2>1
      <4>3. joined[l][i] = joined[m][j]
        BY <2>1, <4>1, <4>2
      <4>4. MadeOnce
        BY DEF LockInv
      <4> QED BY <4>1, <4>2, <4>3, <4>4 DEF MadeOnce
    <3> QED BY <3>1, <3>2
  <2>2. ASSUME NEW l \in Keys, NEW i \in 1 .. Len(joined'[l])
        PROVE  state'[joined'[l][i]] # "new"
    <3>1. CASE joined'[l][i] = n
      BY <3>1, <1>3
    <3>2. CASE joined'[l][i] # n
      <4>1. i \in 1 .. len(l) /\ joined'[l][i] = joined[l][i]
        BY <1>5a, <3>2
      <4>2. state[joined[l][i]] # "new"
        BY <4>1 DEF LockInv, MadeOnce
      <4> QED BY <4>1, <4>2, <1>3, <1>4
    <3> QED BY <3>1, <3>2
  <2> QED BY <2>1, <2>2 DEF MadeOnce
<1>7. ChainsEnd'
  <2> SUFFICES ASSUME NEW l \in Keys
               PROVE  IF chains'[l] = None
                      THEN \A i \in 1 .. Len(joined'[l]) : HasSettled(joined[l][i])'
                      ELSE /\ joined'[l] # << >>
                           /\ chains'[l] = joined'[l][Len(joined'[l])]
                           /\ state'[chains'[l]] # "forgotten"
    BY DEF ChainsEnd
  <2>1. CASE l = k
    BY <2>1, <1>2, <1>3
  <2>2. CASE l # k
    <3>1. chains'[l] = chains[l] /\ joined'[l] = joined[l] /\ len(l) \in Nat
      BY <2>2, <1>1, <1>2, <1>3 DEF TypeOK
    <3>2. CASE chains[l] = None
      BY <3>1, <3>2, <1>5 DEF LockInv, ChainsEnd, HasSettled
    <3>3. CASE chains[l] # None
      BY <3>1, <3>3, <1>1, <1>3, <1>4 DEF LockInv, ChainsEnd, TypeOK
    <3> QED BY <3>2, <3>3
  <2> QED BY <2>1, <2>2
<1>8. WaitsForPrevious'
  <2> SUFFICES ASSUME NEW l \in Keys, NEW i \in 1 .. Len(joined'[l])
               PROVE  \/ i > 1 /\ after'[joined'[l][i]] = joined'[l][i - 1]
                      \/ \A j \in 1 .. i - 1 : HasSettled(joined[l][j])'
    BY DEF WaitsForPrevious
  <2>1. CASE l = k /\ i = len(k) + 1
    <3>1. CASE chains[k] = None
      <4>1. \A j \in 1 .. i - 1 : joined'[k][j] = joined[k][j] /\ HasSettled(joined[k][j])
        BY <2>1, <3>1, <1>2 DEF LockInv, ChainsEnd
      <4> QED BY <4>1, <2>1, <1>5 DEF HasSettled
    <3>2. CASE chains[k] # None
      <4>1. len(k) > 0 /\ chains[k] = joined[k][len(k)]
        BY <3>2, <1>1, <1>2 DEF LockInv, ChainsEnd
      <4> QED BY <4>1, <2>1, <1>2, <1>3
    <3> QED BY <3>1, <3>2
  <2>2. CASE ~(l = k /\ i = len(k) + 1)
    <3>1. i \in 1 .. len(l) /\ \A j \in 1 .. i : joined'[l][j] = joined[l][j]
      BY <2>2, <1>2, <1>5a
    <3>2. after'[joined'[l][i]] = after[joined[l][i]]
      BY <3>1, <1>3, <1>4
    <3>3. \/ i > 1 /\ after[joined[l][i]] = joined[l][i - 1]
          \/ \A j \in 1 .. i - 1 : HasSettled(joined[l][j])
      BY <3>1 DEF LockInv, WaitsForPrevious
    <3>4. CASE i > 1 /\ after[joined[l][i]] = joined[l][i - 1]
      BY <3>1, <3>2, <3>4
    <3>5. CASE \A j \in 1 .. i - 1 : HasSettled(joined[l][j])
      BY <3>1, <3>5, <1>4, <1>5 DEF HasSettled
    <3> QED BY <3>3, <3>4, <3>5
  <2> QED BY <2>1, <2>2
<1>9. InOrder'
  <2> SUFFICES ASSUME NEW l \in Keys,
                      NEW i \in 1 .. Len(joined'[l]), NEW j \in 1 .. Len(joined'[l]),
                      i < j, state'[joined'[l][j]] # "queued"
               PROVE  HasSettled(joined[l][i])'
    BY DEF InOrder, Waiting
  <2>1. joined'[l][j] # n
    BY <1>3
  <2>2. /\ i \in 1 .. len(l) /\ j \in 1 .. len(l)
        /\ joined'[l][i] = joined[l][i] /\ joined'[l][j] = joined[l][j]
    BY <2>1, <1>5a
  <2>3. state[joined[l][j]] # "queued"
    BY <2>1, <2>2, <1>3, <1>4
  <2> QED BY <2>2, <2>3, <1>5 DEF LockInv, InOrder, Waiting, HasSettled
<1> QED BY <1>1, <1>6, <1>7, <1>8, <1>9 DEF LockInv

(***************************************************************************)
(* Every other step moves one call on.                                     *)
(***************************************************************************)
LEMMA MoveStep ==
    ASSUME LockInv, NEW n \in Calls,
           Start(n) \/ End(n) \/ Settle(n) \/ \E k \in Keys : Forget(n, k)
    PROVE  LockInv'
<1> USE KeyedLockAssumption
<1>1. TypeOK' /\ TypeOK
  BY TypeStep DEF Next, LockInv
<1>2. /\ joined' = joined /\ after' = after
      /\ \A m \in Calls : m # n => state'[m] = state[m]
      /\ state[n] # "new" /\ state'[n] \notin {"new", "queued"}
  BY <1>1 DEF Start, End, Settle, Forget, TypeOK
<1>3. \A p \in Calls : state[p] \in {"settled", "forgotten"} => state'[p] \in {"settled", "forgotten"}
  BY <1>1 DEF Start, End, Settle, Forget, TypeOK
<1>4. \A l \in Keys : \A i \in 1 .. Len(joined[l]) : joined[l][i] \in Calls
  BY <1>1 DEF TypeOK
<1>5. MadeOnce'
  <2>1. \A l \in Keys : \A i \in 1 .. Len(joined[l]) : state'[joined[l][i]] # "new"
    BY <1>2, <1>4 DEF LockInv, MadeOnce
  <2> QED BY <2>1, <1>2 DEF LockInv, MadeOnce
<1>6. ChainsEnd'
  <2>1. CASE Start(n) \/ End(n) \/ Settle(n)
    <3>1. chains' = chains /\ state'[n] # "forgotten"
      BY <2>1, <1>1 DEF Start, End, Settle, TypeOK
    <3>2. \A l \in Keys : chains[l] # None => chains[l] \in Calls
      BY <1>1 DEF TypeOK
    <3> QED BY <3>1, <3>2, <1>2, <1>3 DEF LockInv, ChainsEnd, HasSettled
  <2>2. ASSUME NEW k \in Keys, Forget(n, k) PROVE ChainsEnd'
    <3>1. /\ state[n] = "settled" /\ state'[n] = "forgotten"
          /\ chains'[k] = IF chains[k] = n THEN None ELSE chains[k]
          /\ \A l \in Keys : l # k => chains'[l] = chains[l]
      BY <2>2, <1>1 DEF Forget, Forgotten, TypeOK
    <3>2. PICK i \in 1 .. Len(joined[k]) : joined[k][i] = n
      BY <2>2 DEF Forget, Made
    <3> SUFFICES ASSUME NEW l \in Keys
                 PROVE  IF chains'[l] = None
                        THEN \A j \in 1 .. Len(joined[l]) : HasSettled(joined[l][j])'
                        ELSE /\ joined[l] # << >>
                             /\ chains'[l] = joined[l][Len(joined[l])]
                             /\ state'[chains'[l]] # "forgotten"
      BY <1>2 DEF ChainsEnd
    <3>3. CASE chains[l] = None
      <4>1. chains'[l] = None
        BY <3>1, <3>3
      <4> QED BY <4>1, <3>3, <1>2, <1>3 DEF LockInv, ChainsEnd, HasSettled
    <3>4. CASE chains[l] # None /\ chains[l] # n
      <4>1. chains'[l] = chains[l] /\ chains[l] \in Calls
        BY <3>1, <3>4, <1>1 DEF TypeOK
      <4> QED BY <4>1, <3>4, <1>2 DEF LockInv, ChainsEnd
    <3>5. CASE chains[l] = n
      <4>1. /\ joined[l] \in Seq(Calls) /\ Len(joined[l]) \in 1 .. Len(joined[l])
            /\ n = joined[l][Len(joined[l])]
        BY <3>5, <1>1 DEF LockInv, ChainsEnd, TypeOK
      <4>2. l = k
        BY <4>1, <3>2 DEF LockInv, MadeOnce
      <4>3. chains'[l] = None
        BY <4>2, <3>1, <3>5
      <4>4. \A j \in 1 .. Len(joined[l]) : HasSettled(joined[l][j])
        <5>1. HasSettled(n)
          BY <3>1 DEF HasSettled
        <5>2. ~Waiting(n)
          BY <3>1 DEF Waiting
        <5> QED BY <5>1, <5>2, <4>1 DEF LockInv, InOrder
      <4> QED BY <4>3, <4>4, <1>2, <1>3 DEF HasSettled
    <3> QED BY <3>3, <3>4, <3>5
  <2> QED BY <2>1, <2>2
<1>7. WaitsForPrevious'
  BY <1>2, <1>3 DEF LockInv, WaitsForPrevious, HasSettled
<1>8. InOrder'
  <2> SUFFICES ASSUME NEW l \in Keys,
                      NEW i \in 1 .. Len(joined[l]), NEW j \in 1 .. Len(joined[l]),
                      i < j, state'[joined[l][j]] # "queued"
               PROVE  HasSettled(joined[l][i])'
    BY <1>2 DEF InOrder, Waiting
  <2>1. CASE state[joined[l][j]] # "queued"
    BY <2>1, <1>2, <1>3 DEF LockInv, InOrder, Waiting, HasSettled
  <2>2. CASE state[joined[l][j]] = "queued"
    <3>1. joined[l][j] = n /\ Start(n)
      BY <2>2, <1>2, <1>4 DEF Start, End, Settle, Forget
    <3>2. HasSettled(after[n])
      BY <3>1 DEF Start
    <3>3. \/ j > 1 /\ after[n] = joined[l][j - 1]
          \/ \A h \in 1 .. j - 1 : HasSettled(joined[l][h])
      BY <3>1 DEF LockInv, WaitsForPrevious
    <3>4. CASE \A h \in 1 .. j - 1 : HasSettled(joined[l][h])
      BY <3>4, <1>2, <1>3 DEF HasSettled
    <3>5. CASE j > 1 /\ after[n] = joined[l][j - 1]
      <4>1. j - 1 \in 1 .. Len(joined[l]) /\ HasSettled(joined[l][j - 1])
        BY <3>2, <3>5
      <4>2. ~Waiting(joined[l][j - 1])
        BY <4>1, <1>4 DEF HasSettled, Waiting
      <4>3. i = j - 1 \/ i < j - 1
        OBVIOUS
      <4>4. HasSettled(joined[l][i])
        BY <4>1, <4>2, <4>3 DEF LockInv, InOrder
      <4> QED BY <4>4, <1>2, <1>3 DEF HasSettled
    <3> QED BY <3>3, <3>4, <3>5
  <2> QED BY <2>1, <2>2
<1> QED BY <1>1, <1>5, <1>6, <1>7, <1>8 DEF LockInv

LEMMA LockStep == LockInv /\ [Next]_vars => LockInv'
<1> SUFFICES ASSUME LockInv, [Next]_vars PROVE LockInv'
  OBVIOUS
<1>1. CASE UNCHANGED vars
  BY <1>1 DEF vars, LockInv, TypeOK, MadeOnce, ChainsEnd, WaitsForPrevious, InOrder,
              HasSettled, Waiting
<1>2. CASE Next
  BY <1>2, RunStep, MoveStep DEF Next
<1> QED BY <1>1, <1>2

LEMMA LockInvariant == Spec => []LockInv
BY LockInit, LockStep, PTL DEF Spec

(***************************************************************************)
(* Every variable of the lock keeps its type.                              *)
(***************************************************************************)
THEOREM TypeCorrect == Spec => []TypeOK
<1>1. LockInv => TypeOK
  BY DEF LockInv
<1> QED BY <1>1, LockInvariant, PTL

(***************************************************************************)
(* However many calls of however many keys there are and in whatever order *)
(* their reactions run, a task starts only after every earlier one of its  *)
(* key is over (createKeyedLock's chain, result = last.then(task, task)).  *)
(***************************************************************************)
THEOREM ServedInOrder == Spec => []InOrder
<1>1. LockInv => InOrder
  BY DEF LockInv
<1> QED BY <1>1, LockInvariant, PTL

(***************************************************************************)
(* Of any two tasks of one key at most one is running, although the key is *)
(* deleted from the map while calls for it keep coming.                    *)
(***************************************************************************)
THEOREM MutualExclusion == Spec => []OneAtATime
<1>1. LockInv => OneAtATime
  <2> SUFFICES ASSUME LockInv, NEW k \in Keys, NEW m \in Calls, NEW n \in Calls,
                      Made(m, k), Made(n, k), state[m] = "running", state[n] = "running"
               PROVE  m = n
    BY DEF OneAtATime
  <2>1. PICK i \in 1 .. Len(joined[k]) : joined[k][i] = m
    BY DEF Made
  <2>2. PICK j \in 1 .. Len(joined[k]) : joined[k][j] = n
    BY DEF Made
  <2>3. ~Waiting(m) /\ ~Waiting(n) /\ ~HasSettled(m) /\ ~HasSettled(n)
    BY DEF Waiting, HasSettled
  <2>4. ~(i < j) /\ ~(j < i)
    BY <2>1, <2>2, <2>3 DEF LockInv, InOrder
  <2> QED BY <2>1, <2>2, <2>4
<1> QED BY <1>1, LockInvariant, PTL

(***************************************************************************)
(* The map holds no key whose calls are all over and done with.            *)
(***************************************************************************)
THEOREM NoIdleKeyKept == Spec => []IdleKeysForgotten
<1>1. LockInv => IdleKeysForgotten
  <2> SUFFICES ASSUME LockInv, NEW k \in Keys, chains[k] # None
               PROVE  \E n \in Calls : Made(n, k) /\ state[n] # "forgotten"
    BY DEF IdleKeysForgotten
  <2>1. /\ chains[k] \in Calls /\ joined[k] \in Seq(Calls)
        /\ joined[k] # << >> /\ chains[k] = joined[k][Len(joined[k])]
        /\ state[chains[k]] # "forgotten"
    BY DEF LockInv, TypeOK, ChainsEnd
  <2>2. Made(chains[k], k)
    BY <2>1 DEF Made
  <2> QED BY <2>1, <2>2
<1> QED BY <1>1, LockInvariant, PTL

-----------------------------------------------------------------------------
(***************************************************************************)
(* The refinement.  The calls of a key that are over are the first ones it *)
(* was given, and every call made was made for some key.                   *)
(***************************************************************************)
FirstOver(k, d) ==
    /\ d \in 0 .. Len(joined[k])
    /\ \A i \in 1 .. Len(joined[k]) : Over(joined[k][i]) <=> i <= d

FifoInv ==
    /\ \A k \in Keys : \E d \in Nat : FirstOver(k, d)
    /\ \A n \in Calls : state[n] # "new" => \E k \in Keys : Made(n, k)

LEMMA FifoInit == Init => FifoInv
<1> SUFFICES ASSUME Init PROVE FifoInv
  OBVIOUS
<1>1. \A k \in Keys : Len(joined[k]) = 0
  BY DEF Init
<1>2. \A k \in Keys : FirstOver(k, 0)
  BY <1>1 DEF FirstOver
<1> QED BY <1>2 DEF FifoInv, Init

LEMMA CountFirst ==
    ASSUME NEW len \in Nat, NEW d \in 0 .. len, NEW S, S \subseteq 1 .. len,
           \A i \in 1 .. len : i \in S <=> i <= d
    PROVE  Cardinality(S) = d
<1>1. \A i \in S : i \in 1 .. d
  OBVIOUS
<1>2. \A i \in 1 .. d : i \in S
  OBVIOUS
<1>3. S = 1 .. d
  BY <1>1, <1>2
<1> QED BY <1>3, FS_Interval

LEMMA UnfinishedIs ==
    ASSUME TypeOK, NEW k \in Keys, NEW d, FirstOver(k, d)
    PROVE  Unfinished(k) = SubSeq(joined[k], d + 1, Len(joined[k]))
<1>1. Len(joined[k]) \in Nat
  BY DEF TypeOK
<1>2. Served(k) = d
  BY <1>1, CountFirst DEF FirstOver, Served
<1> QED BY <1>2 DEF Unfinished

LEMMA UnfinishedIsNext ==
    ASSUME TypeOK', NEW k \in Keys, NEW d, FirstOver(k, d)'
    PROVE  Unfinished(k)' = SubSeq(joined'[k], d + 1, Len(joined'[k]))
<1>1. Len(joined'[k]) \in Nat
  BY DEF TypeOK
<1>2. Served(k)' = d
  BY <1>1, CountFirst DEF FirstOver, Served, Over
<1> QED BY <1>2 DEF Unfinished

(***************************************************************************)
(* Where a call is in its key's order.                                     *)
(***************************************************************************)
LEMMA RunFirst ==
    ASSUME LockInv, FifoInv, NEW n \in Calls, NEW k \in Keys, Run(n, k)
    PROVE  /\ \A l \in Keys : \A d : FirstOver(l, d) => FirstOver(l, d)'
           /\ FifoInv'
<1>1. TypeOK /\ MadeOnce
  BY DEF LockInv
<1>2. /\ joined[k] \in Seq(Calls) /\ joined'[k] = Append(joined[k], n)
      /\ \A l \in Keys : l # k => joined'[l] = joined[l]
      /\ state[n] = "new" /\ state'[n] = "queued" /\ \A m \in Calls : m # n => state'[m] = state[m]
  BY <1>1 DEF Run, TypeOK
<1>3. \A l \in Keys : \A i \in 1 .. Len(joined[l]) : joined[l][i] \in Calls /\ joined[l][i] # n
  BY <1>1, <1>2 DEF MadeOnce, TypeOK
<1>4. /\ Len(joined[k]) \in Nat /\ Len(joined'[k]) = Len(joined[k]) + 1
      /\ joined'[k][Len(joined[k]) + 1] = n
      /\ \A i \in 1 .. Len(joined[k]) : joined'[k][i] = joined[k][i]
  BY <1>2
<1>5. ASSUME NEW l \in Keys, NEW d, FirstOver(l, d) PROVE FirstOver(l, d)'
  <2>1. CASE l # k
    BY <1>2, <1>3, <1>5, <2>1 DEF FirstOver, Over
  <2>2. CASE l = k
    <3>1. d \in 0 .. Len(joined'[k])
      BY <1>4, <1>5, <2>2 DEF FirstOver
    <3>2. ASSUME NEW i \in 1 .. Len(joined'[k])
          PROVE  state'[joined'[k][i]] \in {"ended", "failed", "settled", "forgotten"} <=> i <= d
      <4>1. CASE i = Len(joined[k]) + 1
        BY <1>2, <1>4, <1>5, <2>2, <4>1 DEF FirstOver
      <4>2. CASE i # Len(joined[k]) + 1
        <5>1. i \in 1 .. Len(joined[k])
          BY <1>4, <4>2
        <5> QED BY <1>2, <1>3, <1>4, <1>5, <2>2, <5>1 DEF FirstOver, Over
      <4> QED BY <4>1, <4>2
    <3> QED BY <2>2, <3>1, <3>2 DEF FirstOver, Over
  <2> QED BY <2>1, <2>2
<1>6. ASSUME NEW m \in Calls, state'[m] # "new" PROVE \E l \in Keys : Made(m, l)'
  <2>1. CASE m = n
    <3>1. Made(n, k)'
      BY <1>4 DEF Made
    <3> QED BY <2>1, <3>1
  <2>2. CASE m # n
    <3>1. PICK l \in Keys : \E i \in 1 .. Len(joined[l]) : joined[l][i] = m
      BY <1>2, <1>6, <2>2 DEF FifoInv, Made
    <3>2. \E i \in 1 .. Len(joined'[l]) : joined'[l][i] = m
      BY <1>2, <1>4, <3>1
    <3> QED BY <3>2 DEF Made
  <2> QED BY <2>1, <2>2
<1> QED BY <1>5, <1>6 DEF FifoInv

(***************************************************************************)
(* A call that starts is the first that is not over; so is one that ends.  *)
(***************************************************************************)
LEMMA IsNext ==
    ASSUME LockInv, FifoInv, NEW n \in Calls, Start(n) \/ End(n)
    PROVE  \E k \in Keys, d \in Nat :
               /\ FirstOver(k, d) /\ d + 1 \in 1 .. Len(joined[k]) /\ joined[k][d + 1] = n
<1>1. TypeOK' /\ LockInv'
  BY TypeStep, LockStep DEF LockInv, Next
<1>2. /\ joined' = joined /\ state[n] \in {"queued", "running"} /\ state'[n] # "queued"
      /\ \A m \in Calls : m # n => state'[m] = state[m]
  BY DEF Start, End, LockInv, TypeOK
<1>3. PICK k \in Keys : Made(n, k)
  BY <1>2 DEF FifoInv
<1>4. PICK j \in 1 .. Len(joined[k]) : joined[k][j] = n
  BY <1>3 DEF Made
<1>5. PICK d \in Nat : FirstOver(k, d)
  BY DEF FifoInv
<1>6. Len(joined[k]) \in Nat /\ \A i \in 1 .. Len(joined[k]) : joined[k][i] \in Calls
  BY DEF LockInv, TypeOK
<1>7. ~(j <= d)
  BY <1>2, <1>4, <1>5 DEF FirstOver, Over
<1>8. \A i \in 1 .. Len(joined[k]) : i < j => state'[joined[k][i]] \in {"settled", "forgotten"}
  BY <1>1, <1>2, <1>4, <1>6 DEF LockInv, InOrder, Waiting, HasSettled
<1>9. \A i \in 1 .. Len(joined[k]) : i < j => Over(joined[k][i])
  <2> SUFFICES ASSUME NEW i \in 1 .. Len(joined[k]), i < j PROVE Over(joined[k][i])
    OBVIOUS
  <2>1. joined[k][i] # n
    BY <1>4 DEF LockInv, MadeOnce
  <2>2. state'[joined[k][i]] = state[joined[k][i]]
    BY <1>2, <1>6, <2>1
  <2> QED BY <1>8, <2>2 DEF Over
<1>10. d + 1 = j
  <2>1. j - 1 = 0 \/ j - 1 \in 1 .. Len(joined[k])
    BY <1>6
  <2>2. j - 1 <= d
    BY <1>5, <1>9, <2>1, <1>6 DEF FirstOver
  <2> QED BY <1>7, <2>2
<1> QED BY <1>4, <1>5, <1>10

(***************************************************************************)
(* Moving a call on, but for its end, leaves what is over; its end adds it.*)
(***************************************************************************)
LEMMA MoveFirst ==
    ASSUME LockInv, FifoInv, NEW n \in Calls,
           Start(n) \/ Settle(n) \/ \E k \in Keys : Forget(n, k)
    PROVE  /\ \A l \in Keys : \A d : FirstOver(l, d) => FirstOver(l, d)'
           /\ FifoInv'
<1>1. /\ joined' = joined
      /\ \A m \in Calls : state[m] # "new" <=> state'[m] # "new"
      /\ \A m \in Calls : Over(m)' <=> Over(m)
  BY DEF Start, Settle, Forget, Over, LockInv, TypeOK
<1>2. \A l \in Keys : \A i \in 1 .. Len(joined[l]) : joined[l][i] \in Calls
  BY DEF LockInv, TypeOK
<1>3. ASSUME NEW l \in Keys, NEW d, FirstOver(l, d) PROVE FirstOver(l, d)'
  BY <1>1, <1>2, <1>3 DEF FirstOver, Over
<1> QED BY <1>1, <1>3 DEF FifoInv, Made

LEMMA EndFirst ==
    ASSUME LockInv, FifoInv, NEW n \in Calls, End(n), NEW k \in Keys, NEW d \in Nat,
           FirstOver(k, d), d + 1 \in 1 .. Len(joined[k]), joined[k][d + 1] = n
    PROVE  /\ FirstOver(k, d + 1)'
           /\ \A l \in Keys : \A e : l # k /\ FirstOver(l, e) => FirstOver(l, e)'
           /\ FifoInv'
<1>1. /\ joined' = joined /\ state[n] = "running" /\ state'[n] \in {"ended", "failed"}
      /\ \A m \in Calls : m # n => state'[m] = state[m]
  BY DEF End, LockInv, TypeOK
<1>2. \A l \in Keys : \A i \in 1 .. Len(joined[l]) :
          joined[l][i] \in Calls /\ (joined[l][i] = n => l = k /\ i = d + 1)
  BY DEF LockInv, TypeOK, MadeOnce
<1>3. FirstOver(k, d + 1)'
  <2>1. d + 1 \in 0 .. Len(joined'[k])
    BY <1>1
  <2>2. ASSUME NEW i \in 1 .. Len(joined'[k])
        PROVE  state'[joined'[k][i]] \in {"ended", "failed", "settled", "forgotten"} <=> i <= d + 1
    <3>1. CASE i = d + 1
      BY <1>1, <3>1
    <3>2. CASE i # d + 1
      <4>1. state'[joined'[k][i]] = state[joined[k][i]]
        BY <1>1, <1>2, <3>2
      <4> QED BY <1>1, <3>2, <4>1 DEF FirstOver, Over
    <3> QED BY <3>1, <3>2
  <2> QED BY <2>1, <2>2 DEF FirstOver, Over
<1>4. ASSUME NEW l \in Keys, NEW e, l # k, FirstOver(l, e) PROVE FirstOver(l, e)'
  BY <1>1, <1>2, <1>4 DEF FirstOver, Over
<1>5. \A l \in Keys : \E e \in Nat : FirstOver(l, e)'
  BY <1>3, <1>4 DEF FifoInv
<1>6. \A m \in Calls : state'[m] # "new" => \E l \in Keys : Made(m, l)'
  BY <1>1 DEF FifoInv, Made
<1> QED BY <1>3, <1>4, <1>5, <1>6 DEF FifoInv

(***************************************************************************)
(* What is left of a sequence, and of one that got longer.                 *)
(***************************************************************************)
LEMMA Suffix ==
    ASSUME NEW S, NEW s \in Seq(S), NEW d \in 0 .. Len(s)
    PROVE  /\ SubSeq(s, d + 1, Len(s)) \in Seq(S)
           /\ Len(SubSeq(s, d + 1, Len(s))) = Len(s) - d
           /\ \A i \in 1 .. Len(s) - d : SubSeq(s, d + 1, Len(s))[i] = s[d + i]
<1>1. Len(s) \in Nat /\ \A i \in d + 1 .. Len(s) : s[i] \in S
  OBVIOUS
<1>2. d + 1 \in Int /\ Len(s) \in Int
  BY <1>1
<1>3. /\ SubSeq(s, d + 1, Len(s)) \in Seq(S)
      /\ Len(SubSeq(s, d + 1, Len(s))) = IF d + 1 <= Len(s) THEN Len(s) - (d + 1) + 1 ELSE 0
      /\ \A i \in 1 .. Len(s) - (d + 1) + 1 : SubSeq(s, d + 1, Len(s))[i] = s[(d + 1) + i - 1]
  BY <1>1, <1>2, SubSeqProperties
<1>4. Len(s) - (d + 1) + 1 = Len(s) - d /\ (~(d + 1 <= Len(s)) => Len(s) - d = 0)
  BY <1>1
<1>5. \A i \in 1 .. Len(s) - d : (d + 1) + i - 1 = d + i
  BY <1>1
<1> QED BY <1>3, <1>4, <1>5

LEMMA AppendedSuffix ==
    ASSUME NEW S, NEW s \in Seq(S), NEW e \in S, NEW d \in 0 .. Len(s)
    PROVE  SubSeq(Append(s, e), d + 1, Len(Append(s, e))) = Append(SubSeq(s, d + 1, Len(s)), e)
<1> DEFINE t == Append(s, e)
           u == SubSeq(s, d + 1, Len(s))
           v == SubSeq(t, d + 1, Len(t))
<1>1. /\ t \in Seq(S) /\ Len(t) = Len(s) + 1 /\ t[Len(s) + 1] = e /\ Len(s) \in Nat
      /\ \A i \in 1 .. Len(s) : t[i] = s[i]
  BY AppendProperties
<1>2. /\ u \in Seq(S) /\ Len(u) = Len(s) - d /\ \A i \in 1 .. Len(s) - d : u[i] = s[d + i]
  BY Suffix
<1> HIDE DEF t, u
<1>3. d \in 0 .. Len(t)
  BY <1>1
<1>4. /\ v \in Seq(S) /\ Len(v) = Len(t) - d /\ \A i \in 1 .. Len(t) - d : v[i] = t[d + i]
  BY <1>1, <1>3, Suffix
<1>5. /\ Append(u, e) \in Seq(S) /\ Len(Append(u, e)) = Len(u) + 1 /\ Append(u, e)[Len(u) + 1] = e
      /\ \A i \in 1 .. Len(u) : Append(u, e)[i] = u[i]
  BY <1>2, AppendProperties
<1> HIDE DEF v
<1>6. Len(v) = Len(Append(u, e))
  BY <1>1, <1>2, <1>4, <1>5
<1>7. ASSUME NEW i \in 1 .. Len(v) PROVE v[i] = Append(u, e)[i]
  <2>1. i \in 1 .. Len(s) - d + 1
    BY <1>1, <1>4
  <2>2. CASE i = Len(s) - d + 1
    BY <1>1, <1>2, <1>4, <1>5, <2>1, <2>2
  <2>3. CASE i # Len(s) - d + 1
    <3>1. i \in 1 .. Len(s) - d /\ d + i \in 1 .. Len(s)
      BY <1>1, <2>1, <2>3
    <3>2. v[i] = t[d + i] /\ t[d + i] = s[d + i]
      BY <1>1, <1>4, <2>1, <3>1
    <3>3. Append(u, e)[i] = s[d + i]
      BY <1>2, <1>5, <3>1
    <3> QED BY <3>2, <3>3
  <2> QED BY <2>2, <2>3
<1>8. v = Append(u, e)
  BY <1>4, <1>5, <1>6, <1>7, SeqEqual
<1> QED BY <1>8 DEF v, u, t

Queues == [k \in Keys |-> Unfinished(k)]

Running == {n \in Calls : state[n] = "running"}

LEMMA RunJoins ==
    ASSUME LockInv, FifoInv, NEW n \in Calls, NEW k \in Keys, Run(n, k)
    PROVE  Lock!Join(n, k)
<1>1. TypeOK /\ TypeOK' /\ MadeOnce
  BY TypeStep DEF LockInv, Next
<1>2. /\ joined[k] \in Seq(Calls) /\ joined'[k] = Append(joined[k], n)
      /\ \A l \in Keys : l # k => joined'[l] = joined[l]
      /\ state[n] = "new" /\ state'[n] = "queued" /\ \A m \in Calls : m # n => state'[m] = state[m]
  BY <1>1 DEF Run, TypeOK
<1>3. ASSUME NEW l \in Keys PROVE \A i \in 1 .. Len(Unfinished(l)) : Unfinished(l)[i] # n
  <2>1. PICK d \in Nat : FirstOver(l, d)
    BY DEF FifoInv
  <2>2. Unfinished(l) = SubSeq(joined[l], d + 1, Len(joined[l]))
    BY <1>1, <2>1, UnfinishedIs
  <2>3. Len(joined[l]) \in Nat /\ d \in 0 .. Len(joined[l]) /\ joined[l] \in Seq(Calls)
        /\ \A i \in 1 .. Len(joined[l]) : joined[l][i] \in Calls /\ joined[l][i] # n
    BY <1>1, <1>2, <2>1 DEF TypeOK, MadeOnce, FirstOver
  <2>4. /\ Len(Unfinished(l)) = Len(joined[l]) - d
        /\ \A i \in 1 .. Len(joined[l]) - d : Unfinished(l)[i] = joined[l][d + i]
    BY <2>2, <2>3, Suffix DEF TypeOK
  <2> QED BY <2>3, <2>4
<1>4. ASSUME NEW l \in Keys
      PROVE  Unfinished(l)' = IF l = k THEN Append(Unfinished(l), n) ELSE Unfinished(l)
  <2>1. PICK d \in Nat : FirstOver(l, d)
    BY DEF FifoInv
  <2>2. Unfinished(l) = SubSeq(joined[l], d + 1, Len(joined[l]))
    BY <1>1, <2>1, UnfinishedIs
  <2>3. Unfinished(l)' = SubSeq(joined'[l], d + 1, Len(joined'[l]))
    BY <1>1, <2>1, RunFirst, UnfinishedIsNext
  <2>4. CASE l # k
    BY <1>2, <2>2, <2>3, <2>4
  <2>5. CASE l = k
    <3>1. d \in 0 .. Len(joined[k])
      BY <2>1, <2>5 DEF FirstOver
    <3>2. joined[l] \in Seq(Calls) /\ joined'[l] = Append(joined[l], n) /\ d \in 0 .. Len(joined[l])
      BY <1>2, <2>5, <3>1
    <3>3. SubSeq(joined'[l], d + 1, Len(joined'[l])) = Append(SubSeq(joined[l], d + 1, Len(joined[l])), n)
      BY <3>2, AppendedSuffix
    <3>4. Unfinished(l)' = Append(Unfinished(l), n)
      BY <2>2, <2>3, <3>3
    <3> QED BY <2>5, <3>4
  <2> QED BY <2>4, <2>5
<1>5. Queues' = [Queues EXCEPT ![k] = Append(Queues[k], n)]
  BY <1>4 DEF Queues
<1>6. Running' = Running
  BY <1>2 DEF Running
<1> QED BY <1>3, <1>5, <1>6 DEF Lock!Join, Queues, Running

LEMMA HeadOfUnfinished ==
    ASSUME LockInv, NEW k \in Keys, NEW d \in Nat, FirstOver(k, d), d + 1 \in 1 .. Len(joined[k])
    PROVE  /\ Unfinished(k) # << >> /\ Head(Unfinished(k)) = joined[k][d + 1]
           /\ Tail(Unfinished(k)) = SubSeq(joined[k], d + 2, Len(joined[k]))
<1>1. /\ joined[k] \in Seq(Calls) /\ Len(joined[k]) \in Nat
      /\ Unfinished(k) = SubSeq(joined[k], d + 1, Len(joined[k]))
  <2>1. TypeOK
    BY DEF LockInv
  <2>2. joined[k] \in Seq(Calls) /\ Len(joined[k]) \in Nat
    BY <2>1 DEF TypeOK
  <2> QED BY <2>1, <2>2, UnfinishedIs
<1>2. \A i \in d + 1 .. Len(joined[k]) : joined[k][i] \in Calls
  BY <1>1
<1>3. Unfinished(k) # << >>
  <2>1. Len(Unfinished(k)) = Len(joined[k]) - (d + 1) + 1
    BY <1>1, <1>2, SubSeqProperties
  <2>2. Len(Unfinished(k)) # 0
    BY <1>1, <2>1
  <2> QED BY <2>2
<1>4. Len(joined[k]) \in d + 1 .. Len(joined[k])
  BY <1>1
<1> QED BY <1>1, <1>3, <1>4, HeadTailOfSubSeq

LEMMA StartEnters ==
    ASSUME LockInv, FifoInv, NEW n \in Calls, Start(n)
    PROVE  \E k \in Keys : Lock!Enter(n, k)
<1>1. PICK k \in Keys, d \in Nat :
          FirstOver(k, d) /\ d + 1 \in 1 .. Len(joined[k]) /\ joined[k][d + 1] = n
  BY IsNext
<1>2. Unfinished(k) # << >> /\ Head(Unfinished(k)) = n
  BY <1>1, HeadOfUnfinished
<1>3. TypeOK /\ TypeOK' /\ joined' = joined
  BY TypeStep DEF LockInv, Next, Start
<1>4. \A l \in Keys : Unfinished(l)' = Unfinished(l)
  <2> TAKE l \in Keys
  <2>1. PICK e \in Nat : FirstOver(l, e)
    BY DEF FifoInv
  <2>2. Unfinished(l)' = SubSeq(joined'[l], e + 1, Len(joined'[l]))
    BY <1>3, <2>1, MoveFirst, UnfinishedIsNext
  <2> QED BY <1>3, <2>1, <2>2, UnfinishedIs
<1>5. Queues' = Queues
  BY <1>4 DEF Queues
<1>6. n \notin Running /\ Running' = Running \cup {n}
  BY <1>3 DEF Start, Running, TypeOK
<1> QED BY <1>2, <1>5, <1>6 DEF Lock!Enter, Queues, Running

LEMMA EndLeaves ==
    ASSUME LockInv, FifoInv, NEW n \in Calls, End(n)
    PROVE  \E k \in Keys : Lock!Leave(n, k)
<1>1. PICK k \in Keys, d \in Nat :
          FirstOver(k, d) /\ d + 1 \in 1 .. Len(joined[k]) /\ joined[k][d + 1] = n
  BY IsNext
<1>2. /\ Unfinished(k) # << >> /\ Head(Unfinished(k)) = n
      /\ Tail(Unfinished(k)) = SubSeq(joined[k], d + 2, Len(joined[k]))
  BY <1>1, HeadOfUnfinished
<1>3. TypeOK /\ TypeOK' /\ joined' = joined
  BY TypeStep DEF LockInv, Next, End
<1>4. ASSUME NEW l \in Keys, l # k PROVE Unfinished(l)' = Unfinished(l)
  <2>1. PICK e \in Nat : FirstOver(l, e)
    BY DEF FifoInv
  <2>2. Unfinished(l)' = SubSeq(joined'[l], e + 1, Len(joined'[l]))
    BY <1>1, <1>3, <1>4, <2>1, EndFirst, UnfinishedIsNext
  <2> QED BY <1>3, <2>1, <2>2, UnfinishedIs
<1>5. Unfinished(k)' = Tail(Unfinished(k))
  <2>1. Unfinished(k)' = SubSeq(joined'[k], (d + 1) + 1, Len(joined'[k]))
    BY <1>1, <1>3, EndFirst, UnfinishedIsNext
  <2>2. (d + 1) + 1 = d + 2
    OBVIOUS
  <2> QED BY <1>2, <1>3, <2>1, <2>2
<1>6. Queues' = [Queues EXCEPT ![k] = Tail(Queues[k])]
  BY <1>4, <1>5 DEF Queues
<1>7. n \in Running /\ Running' = Running \ {n}
  BY <1>3 DEF End, Running, TypeOK
<1> QED BY <1>2, <1>6, <1>7 DEF Lock!Leave, Queues, Running

LEMMA OthersRest ==
    ASSUME LockInv, FifoInv, UNCHANGED vars \/ \E n \in Calls : Settle(n) \/ \E k \in Keys : Forget(n, k)
    PROVE  Queues' = Queues /\ Running' = Running /\ FifoInv'
<1>1. CASE UNCHANGED vars
  <2>1. \A k \in Keys : Unfinished(k)' = Unfinished(k)
    BY <1>1 DEF vars, Unfinished, Served, Over
  <2>2. FifoInv'
    BY <1>1 DEF vars, FifoInv, FirstOver, Over, Made
  <2> QED BY <1>1, <2>1, <2>2 DEF Queues, Running, vars
<1>2. ASSUME NEW n \in Calls, Settle(n) \/ \E k \in Keys : Forget(n, k)
      PROVE  Queues' = Queues /\ Running' = Running /\ FifoInv'
  <2>1. TypeOK /\ TypeOK' /\ joined' = joined
    BY <1>2, TypeStep DEF LockInv, Next, Settle, Forget
  <2>2. \A l \in Keys : Unfinished(l)' = Unfinished(l)
    <3> TAKE l \in Keys
    <3>1. PICK e \in Nat : FirstOver(l, e)
      BY DEF FifoInv
    <3>2. Unfinished(l)' = SubSeq(joined'[l], e + 1, Len(joined'[l]))
      BY <1>2, <2>1, <3>1, MoveFirst, UnfinishedIsNext
    <3> QED BY <2>1, <3>1, <3>2, UnfinishedIs
  <2>3. Running' = Running
    BY <1>2, <2>1 DEF Settle, Forget, Running, TypeOK
  <2> QED BY <1>2, <2>2, <2>3, MoveFirst DEF Queues
<1> QED BY <1>1, <1>2

LEMMA FifoStep ==
    ASSUME LockInv, FifoInv, [Next]_vars
    PROVE  FifoInv' /\ [Lock!Next]_<<Queues, Running>>
<1>1. ASSUME NEW n \in Calls, NEW k \in Keys, Run(n, k) PROVE FifoInv' /\ Lock!Next
  BY <1>1, RunFirst, RunJoins DEF Lock!Next
<1>2. ASSUME NEW n \in Calls, Start(n) PROVE FifoInv' /\ Lock!Next
  BY <1>2, MoveFirst, StartEnters DEF Lock!Next
<1>3. ASSUME NEW n \in Calls, End(n) PROVE FifoInv' /\ Lock!Next
  <2>1. FifoInv'
    BY <1>3, IsNext, EndFirst
  <2> QED BY <1>3, <2>1, EndLeaves DEF Lock!Next
<1> QED BY <1>1, <1>2, <1>3, OthersRest DEF Next

(***************************************************************************)
(* The promise chains implement a queue per key: for any calls and keys,   *)
(* whatever order the engine runs their reactions in and whichever tasks   *)
(* fail, each step of createKeyedLock is a call that joins, enters or      *)
(* leaves its key's queue, or nothing that the queue shows.                *)
(***************************************************************************)
THEOREM ChainsAreQueues == Spec => ImplementsFifoLock
<1>1. Init => Lock!Init
  <2> SUFFICES ASSUME Init PROVE Lock!Init
    OBVIOUS
  <2>1. \A k \in Keys : Unfinished(k) = << >>
    <3> TAKE k \in Keys
    <3>1. FirstOver(k, 0) /\ Len(joined[k]) = 0
      BY DEF Init, FirstOver
    <3>2. Unfinished(k) = SubSeq(joined[k], 1, 0)
      BY <3>1, LockInit, UnfinishedIs DEF LockInv
    <3> QED BY <3>2, SubSeqEmpty
  <2>2. {n \in Calls : state[n] = "running"} = {}
    BY DEF Init
  <2> QED BY <2>1, <2>2 DEF Lock!Init
<1>2. LockInv /\ FifoInv /\ [Next]_vars => FifoInv' /\ [Lock!Next]_<<Queues, Running>>
  BY FifoStep
<1> QED BY <1>1, <1>2, FifoInit, LockInvariant, PTL
        DEF Spec, ImplementsFifoLock, Lock!Spec, Queues, Running
=============================================================================
