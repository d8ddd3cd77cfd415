-------------------------- MODULE Vouchers_proofs --------------------------
(***************************************************************************)
(* Proofs about Vouchers, for any agents, requests, channels, policies and *)
(* losses.                                                                 *)
(*                                                                         *)
(* That every redeemable unit was counted is about what sellers hold; the  *)
(* invariant is about what they may come to hold: whatever a client or the *)
(* index says was signed has been counted up to there, or is just being.   *)
(*                                                                         *)
(* While every file is as the daemon left it, what a request or a seller's *)
(* answer read under its agent's lock still is what the index says, and    *)
(* the rest follows: no unit is counted twice, the index is ahead of the   *)
(* sellers, and an agent's channels hold no more than it was let.          *)
(***************************************************************************)
EXTENDS Vouchers, FiniteSetTheorems, TLAPS

IsAsk(k) ==
    \E locked, from : k \in [kind : {"none", "voucher", "open", "topUp"}, ch : Channels \cup {NoOne},
                             upTo : Nat, deposit : Nat, locked : {locked},
                             entry : Entries \cup {NoEntry}, policy : {from}]

(***************************************************************************)
(* Units counted or given up, and with those being recorded.               *)
(***************************************************************************)
Marked == Counted \cup cut

Covered(ch, n) == \A u \in 1 .. n : <<ch, u>> \in Marked

CoveredNow(ch, n) == \A u \in 1 .. n : <<ch, u>> \in Marked \cup CutShort

(***************************************************************************)
(* The index and its last version say no more than was counted.            *)
(***************************************************************************)
IndexCovered(file) ==
    /\ file \in [Channels -> Entries \cup {NoEntry}]
    /\ \A ch \in Channels : file[ch] # NoEntry => CoveredNow(ch, file[ch].signedMax)

(***************************************************************************)
(* What a client asks for starts where something was counted up to, and    *)
(* once authorized is counted whole.                                       *)
(***************************************************************************)
Asking == {"reading", "deciding", "indexed"}

AsksCovered ==
    \A r \in Requests :
        /\ IsAsk(ask[r])
        /\ pc[r] \in Asking =>
              /\ ask[r].ch \in Channels /\ ask[r].entry \in Entries
              /\ Covered(ask[r].ch, ask[r].entry.signedMax)
        /\ pc[r] = "indexed" => sync = r
        /\ sync = r => pc[r] = "indexed" /\ Increment(ask[r]) > 0
        /\ pc[r] = "authorized" => ask[r].ch \in Channels /\ Covered(ask[r].ch, ask[r].upTo)

AuxSound ==
    \A a \in Agents :
        /\ aux[a].doing \in {"following", "lifting"} => aux[a].ch \in Channels
        /\ aux[a].doing = "lifting" => aux[a].entry \in Entries

Shapes ==
    /\ pc = [r \in Requests |-> pc[r]]
    /\ ask = [r \in Requests |-> ask[r]]
    /\ aux = [a \in Agents |-> aux[a]]
    /\ sync \in Requests \cup {NoOne}
    /\ handed \in [Channels -> Nat]

CoverInv ==
    /\ Shapes
    /\ IndexCovered(index) /\ IndexCovered(oldIndex)
    /\ AsksCovered
    /\ AuxSound
    /\ \A ch \in Channels : Covered(ch, handed[ch])

LEMMA IdleCutsNothing == ASSUME Idle PROVE CutShort = {}
BY VouchersAssumption DEF Idle, CutShort

LEMMA SpendUnits ==
    ASSUME NEW r, NEW k, IsAsk(k), k.entry \in Entries, Increment(k) > 0
    PROVE  \A ch, u : <<ch, u>> \in UnitsOfVoucher(VoucherSpend(r, k))
                         <=> ch = k.ch /\ u \in k.entry.signedMax + 1 .. k.upTo
<1>1. k.upTo \in Nat /\ k.entry.signedMax \in Nat
  BY DEF IsAsk, Entries
<1>2. Increment(k) = k.upTo - k.entry.signedMax
  BY <1>1 DEF Increment
<1>3. UnitsOfVoucher(VoucherSpend(r, k)) = {k.ch} \X (k.entry.signedMax + 1 .. k.upTo)
  <2>1. /\ VoucherSpend(r, k).ch = k.ch /\ VoucherSpend(r, k).upTo = k.upTo
        /\ VoucherSpend(r, k).amount = Increment(k)
    BY DEF VoucherSpend
  <2> QED BY <2>1, <1>1, <1>2 DEF UnitsOfVoucher
<1> QED BY <1>3

LEMMA CountedBySpend ==
    ASSUME NEW s \in log PROVE UnitsOfVoucher(s) \subseteq Counted
BY DEF Counted

LEMMA CoverInit == Init => CoverInv
<1> SUFFICES ASSUME Init PROVE CoverInv
  OBVIOUS
<1>1. Shapes
  BY DEF Init, Shapes
<1>2. IndexCovered(index) /\ IndexCovered(oldIndex)
  BY DEF Init, IndexCovered
<1>3. IsAsk(NoAsk)
  BY DEF NoAsk, IsAsk
<1>4. AsksCovered
  BY <1>3, VouchersAssumption DEF Init, AsksCovered, Asking
<1>5. AuxSound
  BY DEF Init, AuxSound, Resting
<1>6. \A ch \in Channels : Covered(ch, handed[ch])
  BY DEF Init, Covered
<1> QED BY <1>1, <1>2, <1>4, <1>5, <1>6 DEF CoverInv

-----------------------------------------------------------------------------
(***************************************************************************)
(* Steps that record nothing and cut nothing short leave what is covered.  *)
(***************************************************************************)
LEMMA SameCover ==
    ASSUME UNCHANGED <<log, cut>>
    PROVE  \A ch, n : Covered(ch, n)' <=> Covered(ch, n)
BY DEF Covered, Marked, Counted

LEMMA IdleCovered ==
    ASSUME Idle
    PROVE  \A ch, n : CoveredNow(ch, n) <=> Covered(ch, n)
BY IdleCutsNothing DEF Covered, CoveredNow

LEMMA StaysCovered ==
    ASSUME Idle, sync' = sync, UNCHANGED <<log, cut>>
    PROVE  \A ch, n : CoveredNow(ch, n)' <=> Covered(ch, n)
<1>1. CutShort' = {}
  BY VouchersAssumption DEF Idle, CutShort
<1>2. Marked' = Marked
  BY DEF Marked, Counted
<1> QED BY <1>1, <1>2 DEF Covered, CoveredNow

LEMMA NewIndex ==
    ASSUME CoverInv, Idle, sync' = sync, UNCHANGED <<log, cut>>,
           index' \in [Channels -> Entries \cup {NoEntry}],
           \A ch \in Channels : index'[ch] # NoEntry => Covered(ch, index'[ch].signedMax)
    PROVE  IndexCovered(index)'
BY StaysCovered DEF IndexCovered

LEMMA SameOldIndex ==
    ASSUME CoverInv, Idle, sync' = sync, UNCHANGED <<log, cut>>, oldIndex' = oldIndex
    PROVE  IndexCovered(oldIndex)'
<1>1. \A ch \in Channels : oldIndex[ch] # NoEntry => Covered(ch, oldIndex[ch].signedMax)
  BY IdleCovered DEF CoverInv, IndexCovered
<1>2. oldIndex' \in [Channels -> Entries \cup {NoEntry}]
  BY DEF CoverInv, IndexCovered
<1>3. \A ch \in Channels : oldIndex'[ch] # NoEntry => Covered(ch, oldIndex'[ch].signedMax)
  BY <1>1
<1> QED BY <1>2, <1>3, StaysCovered DEF IndexCovered

LEMMA NewOldIndex ==
    ASSUME CoverInv, Idle, sync' = sync, UNCHANGED <<log, cut>>, oldIndex' = index
    PROVE  IndexCovered(oldIndex)'
<1>1. \A ch \in Channels : index[ch] # NoEntry => Covered(ch, index[ch].signedMax)
  BY IdleCovered DEF CoverInv, IndexCovered
<1>2. oldIndex' \in [Channels -> Entries \cup {NoEntry}]
  BY DEF CoverInv, IndexCovered
<1>3. \A ch \in Channels : oldIndex'[ch] # NoEntry => Covered(ch, oldIndex'[ch].signedMax)
  BY <1>1
<1> QED BY <1>2, <1>3, StaysCovered DEF IndexCovered

LEMMA SameIndex ==
    ASSUME CoverInv, Idle, sync' = sync, UNCHANGED <<log, cut, index>>
    PROVE  IndexCovered(index)'
<1>1. \A ch \in Channels : index[ch] # NoEntry => Covered(ch, index[ch].signedMax)
  BY IdleCovered DEF CoverInv, IndexCovered
<1>2. index' \in [Channels -> Entries \cup {NoEntry}]
  BY DEF CoverInv, IndexCovered
<1>3. \A ch \in Channels : index'[ch] # NoEntry => Covered(ch, index'[ch].signedMax)
  BY <1>1
<1> QED BY <1>2, <1>3, NewIndex

LEMMA SameHanded ==
    ASSUME CoverInv, UNCHANGED <<log, cut, handed>>
    PROVE  \A ch \in Channels : Covered(ch, handed[ch])'
BY DEF CoverInv, Covered, Marked, Counted

(***************************************************************************)
(* One request moves, and what it asks for is covered.                     *)
(***************************************************************************)
LEMMA AskMoves ==
    ASSUME CoverInv, Idle, sync' = sync, UNCHANGED <<log, cut>>, NEW r \in Requests,
           \A q \in Requests : q # r => ask'[q] = ask[q] /\ pc'[q] = pc[q],
           IsAsk(ask'[r]),
           pc'[r] \in Asking => /\ ask'[r].ch \in Channels /\ ask'[r].entry \in Entries
                               /\ Covered(ask'[r].ch, ask'[r].entry.signedMax),
           pc'[r] # "indexed",
           pc'[r] = "authorized" => ask'[r].ch \in Channels /\ Covered(ask'[r].ch, ask'[r].upTo)
    PROVE  AsksCovered'
<1>1. \A ch, n : Covered(ch, n)' <=> Covered(ch, n)
  BY SameCover
<1>2. sync' \notin Requests
  BY VouchersAssumption DEF Idle
<1> SUFFICES ASSUME NEW q \in Requests
             PROVE  /\ IsAsk(ask'[q])
                    /\ pc'[q] \in Asking =>
                          /\ ask'[q].ch \in Channels /\ ask'[q].entry \in Entries
                          /\ Covered(ask'[q].ch, ask'[q].entry.signedMax)
                    /\ pc'[q] = "indexed" => sync' = q
                    /\ sync' = q => pc'[q] = "indexed" /\ Increment(ask'[q]) > 0
                    /\ pc'[q] = "authorized" => ask'[q].ch \in Channels /\ Covered(ask'[q].ch, ask'[q].upTo)
  BY <1>1 DEF AsksCovered, IsAsk, Increment
<1>3. CASE q = r
  BY <1>2, <1>3
<1>4. CASE q # r
  BY <1>2, <1>4 DEF CoverInv, AsksCovered, Idle
<1> QED BY <1>3, <1>4

LEMMA AsksRest ==
    ASSUME CoverInv, UNCHANGED <<log, cut, sync, ask, pc>>
    PROVE  AsksCovered'
<1>1. \A ch, n : Covered(ch, n)' <=> Covered(ch, n)
  BY SameCover
<1> QED BY <1>1 DEF CoverInv, AsksCovered, IsAsk, Increment

-----------------------------------------------------------------------------
(***************************************************************************)
(* Steps that end a request, move it on, or ask the client for something.  *)
(***************************************************************************)
LEMMA FilesRest ==
    ASSUME CoverInv, Idle, sync' = sync, UNCHANGED <<log, cut, index, oldIndex, handed>>,
           Shapes', AsksCovered', AuxSound'
    PROVE  CoverInv'
<1>1. IndexCovered(index)' /\ IndexCovered(oldIndex)'
  BY SameIndex, SameOldIndex
<1> QED BY <1>1, SameHanded DEF CoverInv

LEMMA RestsWith ==
    ASSUME CoverInv, NEW r \in Requests, Idle, sync' = sync,
           pc' = [pc EXCEPT ![r] = pc'[r]], ask' = [ask EXCEPT ![r] = ask'[r]],
           UNCHANGED <<files, cut, aux, handed>>,
           IsAsk(ask'[r]), pc'[r] \notin Asking \cup {"authorized"}
    PROVE  CoverInv'
<1>1. Shapes'
  BY DEF CoverInv, Shapes
<1>2. AuxSound'
  BY DEF CoverInv, AuxSound
<1>3. \A q \in Requests : q # r => ask'[q] = ask[q] /\ pc'[q] = pc[q]
  BY DEF CoverInv, Shapes
<1>4. AsksCovered'
  BY <1>3, AskMoves DEF Asking, files
<1> QED BY <1>1, <1>2, <1>4, FilesRest DEF files

LEMMA FinishFacts ==
    ASSUME CoverInv, Idle, NEW r \in Requests, NEW place, Finish(r, place)
    PROVE  /\ sync' = sync /\ pc' = [pc EXCEPT ![r] = place] /\ ask' = [ask EXCEPT ![r] = NoAsk]
           /\ ask'[r] = NoAsk /\ pc'[r] = place /\ IsAsk(ask'[r]) /\ UNCHANGED <<aux, cut>>
<1>1. IsAsk(NoAsk)
  BY DEF NoAsk, IsAsk
<1>2. /\ sync' = sync /\ pc' = [pc EXCEPT ![r] = place] /\ ask' = [ask EXCEPT ![r] = NoAsk]
      /\ UNCHANGED <<aux, cut>>
  BY DEF Finish, ReleaseLocks, Idle, history
<1>3. ask'[r] = NoAsk /\ pc'[r] = place
  BY <1>2 DEF CoverInv, Shapes
<1> QED BY <1>1, <1>2, <1>3

LEMMA RefuseStep ==
    ASSUME CoverInv, Idle, NEW r \in Requests, Refuse(r)
    PROVE  CoverInv'
<1>1. Finish(r, "refused") /\ UNCHANGED <<files, handed>>
  BY DEF Refuse, world
<1>2. /\ sync' = sync /\ pc' = [pc EXCEPT ![r] = "refused"] /\ ask' = [ask EXCEPT ![r] = NoAsk]
      /\ ask'[r] = NoAsk /\ pc'[r] = "refused" /\ IsAsk(ask'[r]) /\ UNCHANGED <<aux, cut>>
  BY <1>1, FinishFacts
<1>3. pc'[r] \notin Asking \cup {"authorized"}
  BY <1>2 DEF Asking
<1> QED BY <1>1, <1>2, <1>3, RestsWith

(***************************************************************************)
(* A request goes on asking, or is authorized, with what is covered.       *)
(***************************************************************************)
LEMMA AsksOn ==
    ASSUME CoverInv, NEW r \in Requests, NEW k, IsAsk(k), k.ch \in Channels, k.entry \in Entries,
           Covered(k.ch, k.entry.signedMax), Idle, sync' = sync,
           NEW place \in {"reading", "deciding", "authorized"},
           place = "authorized" => Increment(k) = 0,
           pc' = [pc EXCEPT ![r] = place], ask' = [ask EXCEPT ![r] = k],
           UNCHANGED <<log, cut>>
    PROVE  AsksCovered'
<1>1. pc'[r] = place /\ ask'[r] = k
  BY DEF CoverInv, Shapes
<1>2. \A q \in Requests : q # r => ask'[q] = ask[q] /\ pc'[q] = pc[q]
  BY DEF CoverInv, Shapes
<1>3. place = "authorized" => Covered(k.ch, k.upTo)
  <2> SUFFICES ASSUME place = "authorized" PROVE Covered(k.ch, k.upTo)
    OBVIOUS
  <2>1. k.upTo \in Nat /\ k.entry.signedMax \in Nat
    BY DEF IsAsk, Entries
  <2>2. k.upTo <= k.entry.signedMax
    BY <2>1 DEF Increment
  <2> QED BY <2>1, <2>2 DEF Covered
<1>4. /\ IsAsk(ask'[r])
      /\ ask'[r].ch \in Channels /\ ask'[r].entry \in Entries
      /\ Covered(ask'[r].ch, ask'[r].entry.signedMax)
      /\ pc'[r] = "authorized" => Covered(ask'[r].ch, ask'[r].upTo)
  BY <1>1, <1>3
<1> QED BY <1>1, <1>2, <1>4, AskMoves

LEMMA ConsiderStep ==
    ASSUME CoverInv, Idle, NEW r \in Requests, NEW k, IsAsk(k), k.ch \in Channels, k.entry \in Entries,
           Covered(k.ch, k.entry.signedMax), Consider(r, k)
    PROVE  CoverInv'
<1>1. AsksCovered'
  BY AsksOn DEF Consider, files, locks, history
<1>2. Shapes' /\ AuxSound'
  BY DEF CoverInv, Shapes, AuxSound, Consider, locks, world
<1> QED BY <1>1, <1>2, FilesRest DEF Consider, files, locks, world, history

LEMMA StoreStep ==
    ASSUME CoverInv, Idle, NEW r \in Requests, NEW k, IsAsk(k), k.ch \in Channels, k.entry \in Entries,
           Covered(k.ch, k.entry.signedMax), Store(r, k)
    PROVE  CoverInv'
<1>1. /\ Increment(k) > 0 /\ sync' = r /\ ask'[r] = k /\ pc'[r] = "indexed"
      /\ oldIndex' = index /\ index' = [index EXCEPT ![k.ch] = Entered(k.entry, k)]
      /\ UNCHANGED <<log, cut, handed, aux>>
      /\ \A q \in Requests : q # r => ask'[q] = ask[q] /\ pc'[q] = pc[q]
  BY DEF Store, CoverInv, Shapes, world, history
<1>2. \A ch, n : Covered(ch, n)' <=> Covered(ch, n)
  BY <1>1, SameCover
<1>3. Shapes'
  BY <1>1 DEF Store, CoverInv, Shapes
<1>4. AuxSound'
  BY <1>1 DEF CoverInv, AuxSound
<1>5. AsksCovered'
  <2> SUFFICES ASSUME NEW q \in Requests
               PROVE  /\ IsAsk(ask'[q])
                      /\ pc'[q] \in Asking =>
                            /\ ask'[q].ch \in Channels /\ ask'[q].entry \in Entries
                            /\ Covered(ask'[q].ch, ask'[q].entry.signedMax)
                      /\ pc'[q] = "indexed" => sync' = q
                      /\ sync' = q => pc'[q] = "indexed" /\ Increment(ask'[q]) > 0
                      /\ pc'[q] = "authorized" => ask'[q].ch \in Channels /\ Covered(ask'[q].ch, ask'[q].upTo)
    BY <1>2 DEF AsksCovered, IsAsk, Increment
  <2>1. CASE q = r
    BY <1>1, <2>1
  <2>2. CASE q # r
    <3>1. pc[q] # "indexed"
      BY VouchersAssumption DEF CoverInv, AsksCovered, Idle
    <3> QED BY <1>1, <2>2, <3>1 DEF CoverInv, AsksCovered
  <2> QED BY <2>1, <2>2
<1>6. /\ k.upTo \in Nat /\ k.entry.signedMax \in Nat
      /\ Increment(k) = k.upTo - k.entry.signedMax /\ k.entry.signedMax < k.upTo
  BY <1>1 DEF IsAsk, Entries, Increment
<1>7. Entered(k.entry, k) \in Entries /\ Entered(k.entry, k).signedMax = k.upTo
  BY <1>6 DEF Entered, Entries
<1>8. Marked' = Marked
  BY <1>1 DEF Marked, Counted
<1>9. \A u \in k.entry.signedMax + 1 .. k.upTo : <<k.ch, u>> \in CutShort'
  <2>1. UnitsOfVoucher(VoucherSpend(r, ask[r]))' \subseteq CutShort'
    BY <1>1 DEF CutShort
  <2>2. UnitsOfVoucher(VoucherSpend(r, ask[r]))' = {k.ch} \X (k.entry.signedMax + 1 .. k.upTo)
    <3>1. /\ VoucherSpend(r, ask[r])'.ch = k.ch /\ VoucherSpend(r, ask[r])'.upTo = k.upTo
          /\ VoucherSpend(r, ask[r])'.amount = Increment(k)
      BY <1>1 DEF VoucherSpend, Increment
    <3>2. k.upTo - Increment(k) + 1 = k.entry.signedMax + 1
      BY <1>6
    <3> QED BY <3>1, <3>2 DEF UnitsOfVoucher
  <2> QED BY <2>1, <2>2
<1>10. IndexCovered(index)'
  <2>1. index' \in [Channels -> Entries \cup {NoEntry}]
    BY <1>1, <1>7 DEF CoverInv, IndexCovered
  <2> SUFFICES ASSUME NEW ch \in Channels, index'[ch] # NoEntry, NEW u \in 1 .. index'[ch].signedMax
               PROVE  <<ch, u>> \in Marked \cup CutShort'
    BY <2>1, <1>8 DEF IndexCovered, CoveredNow
  <2>2. CASE ch = k.ch
    <3>1. u \in 1 .. k.upTo
      BY <2>2, <1>1, <1>7 DEF CoverInv, IndexCovered
    <3>2. CASE u <= k.entry.signedMax
      BY <3>1, <3>2, <2>2, <1>6 DEF Covered
    <3>3. CASE u > k.entry.signedMax
      BY <3>1, <3>3, <2>2, <1>6, <1>9
    <3> QED BY <3>1, <3>2, <3>3, <1>6
  <2>3. CASE ch # k.ch
    <3>1. index'[ch] = index[ch]
      BY <2>3, <1>1 DEF CoverInv, IndexCovered
    <3>2. index[ch] # NoEntry /\ u \in 1 .. index[ch].signedMax
      BY <3>1
    <3>3. Covered(ch, index[ch].signedMax)
      BY <3>2, IdleCovered DEF CoverInv, IndexCovered
    <3> QED BY <3>2, <3>3 DEF Covered
  <2> QED BY <2>2, <2>3
<1>11. IndexCovered(oldIndex)'
  <2>1. oldIndex' \in [Channels -> Entries \cup {NoEntry}]
    BY <1>1 DEF CoverInv, IndexCovered
  <2> SUFFICES ASSUME NEW ch \in Channels, oldIndex'[ch] # NoEntry, NEW u \in 1 .. oldIndex'[ch].signedMax
               PROVE  <<ch, u>> \in Marked
    BY <2>1, <1>8 DEF IndexCovered, CoveredNow
  <2>2. index[ch] # NoEntry /\ u \in 1 .. index[ch].signedMax
    BY <1>1
  <2>3. Covered(ch, index[ch].signedMax)
    BY <2>2, IdleCovered DEF CoverInv, IndexCovered
  <2> QED BY <2>2, <2>3 DEF Covered
<1>12. \A ch \in Channels : Covered(ch, handed[ch])'
  BY <1>1, SameHanded
<1> QED BY <1>3, <1>4, <1>5, <1>10, <1>11, <1>12 DEF CoverInv

LEMMA CommitStep ==
    ASSUME CoverInv, Idle, NEW r \in Requests, NEW k, IsAsk(k), k.ch \in Channels, k.entry \in Entries,
           Covered(k.ch, k.entry.signedMax), CommitVoucher(r, k)
    PROVE  CoverInv'
<1>1. CASE Resign(r, k)
  <2>1. AsksCovered'
    BY <1>1, AsksOn DEF Resign, files, locks, history
  <2>2. Shapes' /\ AuxSound'
    BY <1>1 DEF CoverInv, Shapes, AuxSound, Resign, locks, world
  <2> QED BY <1>1, <2>1, <2>2, FilesRest DEF Resign, files, locks, world, history
<1>2. CASE Deny(r, k)
  BY <1>2, RefuseStep DEF Deny
<1>3. CASE Queue(r, k)
  <2>1. /\ sync' = sync /\ pc' = [pc EXCEPT ![r] = "queued"] /\ ask' = [ask EXCEPT ![r] = NoAsk]
        /\ UNCHANGED <<files, cut, aux, handed>>
    BY <1>3 DEF Queue, ReleaseLocks, Idle, world, history
  <2>2. ask'[r] = NoAsk /\ pc'[r] = "queued"
    BY <2>1 DEF CoverInv, Shapes
  <2>3. IsAsk(NoAsk)
    BY DEF NoAsk, IsAsk
  <2>4. IsAsk(ask'[r]) /\ pc'[r] \notin Asking \cup {"authorized"}
    BY <2>2, <2>3 DEF Asking
  <2> QED BY <2>1, <2>2, <2>4, RestsWith
<1>4. CASE Store(r, k)
  BY <1>4, StoreStep
<1> QED BY <1>1, <1>2, <1>3, <1>4 DEF CommitVoucher

(***************************************************************************)
(* The record is written: what was being recorded is counted.              *)
(***************************************************************************)
LEMMA AuditStep ==
    ASSUME CoverInv, NEW r \in Requests, Audit(r)
    PROVE  CoverInv'
<1>1. /\ sync = r /\ sync' = NoOne /\ log' = log \cup {VoucherSpend(r, ask[r])}
      /\ pc' = [pc EXCEPT ![r] = "authorized"] /\ UNCHANGED <<index, oldIndex, ask, aux, handed, cut>>
  BY DEF Audit, world, history
<1>2. /\ pc[r] = "indexed" /\ IsAsk(ask[r]) /\ Increment(ask[r]) > 0
      /\ ask[r].ch \in Channels /\ ask[r].entry \in Entries
      /\ Covered(ask[r].ch, ask[r].entry.signedMax)
  BY <1>1 DEF CoverInv, AsksCovered, Asking
<1>3. CutShort = UnitsOfVoucher(VoucherSpend(r, ask[r]))
  BY <1>1 DEF CutShort
<1>4. Marked \cup CutShort \subseteq Marked'
  <2>1. log \subseteq log' /\ VoucherSpend(r, ask[r]) \in log'
    BY <1>1
  <2>2. Counted \subseteq Counted' /\ UnitsOfVoucher(VoucherSpend(r, ask[r])) \subseteq Counted'
    BY <2>1 DEF Counted
  <2> QED BY <2>2, <1>1, <1>3 DEF Marked
<1>5. \A ch, n : /\ Covered(ch, n) => Covered(ch, n)'
                 /\ CoveredNow(ch, n) => CoveredNow(ch, n)'
  BY <1>4 DEF Covered, CoveredNow
<1>6. Covered(ask[r].ch, ask[r].upTo)'
  <2>1. ask[r].upTo \in Nat /\ ask[r].entry.signedMax \in Nat
    BY <1>2 DEF IsAsk, Entries
  <2> SUFFICES ASSUME NEW u \in 1 .. ask[r].upTo PROVE <<ask[r].ch, u>> \in Marked'
    BY <1>1 DEF Covered
  <2>2. CASE u <= ask[r].entry.signedMax
    BY <2>1, <2>2, <1>2, <1>4 DEF Covered
  <2>3. CASE u > ask[r].entry.signedMax
    <3>1. <<ask[r].ch, u>> \in CutShort
      BY <2>1, <2>3, <1>2, <1>3, SpendUnits
    <3> QED BY <3>1, <1>4
  <2> QED BY <2>1, <2>2, <2>3
<1>7. Shapes' /\ AuxSound'
  BY <1>1 DEF CoverInv, Shapes, AuxSound
<1>8. IndexCovered(index)' /\ IndexCovered(oldIndex)'
  BY <1>1, <1>5 DEF CoverInv, IndexCovered
<1>9. AsksCovered'
  <2>1. \A q \in Requests : q # r => pc'[q] = pc[q] /\ pc[q] # "indexed"
    BY <1>1 DEF CoverInv, Shapes, AsksCovered
  <2>2. pc'[r] = "authorized"
    BY <1>1 DEF CoverInv, Shapes
  <2>3. sync' \notin Requests
    BY <1>1, VouchersAssumption
  <2> SUFFICES ASSUME NEW q \in Requests
               PROVE  /\ IsAsk(ask[q])
                      /\ pc'[q] \in Asking =>
                            /\ ask[q].ch \in Channels /\ ask[q].entry \in Entries
                            /\ Covered(ask[q].ch, ask[q].entry.signedMax)'
                      /\ pc'[q] # "indexed"
                      /\ pc'[q] = "authorized" => ask[q].ch \in Channels /\ Covered(ask[q].ch, ask[q].upTo)'
    BY <1>1, <2>3 DEF AsksCovered, IsAsk
  <2>4. CASE q = r
    BY <1>2, <1>6, <2>2, <2>4 DEF Asking
  <2>5. CASE q # r
    BY <1>1, <1>5, <2>1, <2>5 DEF CoverInv, AsksCovered
  <2> QED BY <2>4, <2>5
<1>10. \A ch \in Channels : Covered(ch, handed[ch])'
  BY <1>1, <1>5 DEF CoverInv
<1> QED BY <1>7, <1>8, <1>9, <1>10 DEF CoverInv

(***************************************************************************)
(* Something is handed over, at most up to where it was counted.           *)
(***************************************************************************)
LEMMA HandedCovered ==
    ASSUME CoverInv, NEW c \in Channels, NEW n \in Nat, Covered(c, n),
           handed' = [handed EXCEPT ![c] = Larger(@, n)], UNCHANGED <<log, cut>>
    PROVE  handed' \in [Channels -> Nat] /\ \A ch \in Channels : Covered(ch, handed[ch])'
<1>1. handed' \in [Channels -> Nat]
  BY DEF CoverInv, Shapes, Larger
<1>2. Marked' = Marked
  BY DEF Marked, Counted
<1>3. ASSUME NEW ch \in Channels, NEW u \in 1 .. handed'[ch] PROVE <<ch, u>> \in Marked
  <2>1. Covered(ch, handed[ch])
    BY DEF CoverInv
  <2>2. CASE ch = c
    <3>1. u \in 1 .. n \/ u \in 1 .. handed[ch]
      BY <2>2 DEF CoverInv, Shapes, Larger
    <3> QED BY <3>1, <2>1, <2>2 DEF Covered
  <2>3. CASE ch # c
    <3>1. u \in 1 .. handed[ch]
      BY <2>3 DEF CoverInv, Shapes
    <3> QED BY <3>1, <2>1 DEF Covered
  <2> QED BY <2>2, <2>3
<1> QED BY <1>1, <1>2, <1>3 DEF Covered

LEMMA HandOverStep ==
    ASSUME CoverInv, NEW r \in Requests, HandOver(r)
    PROVE  CoverInv'
<1>1. Idle /\ pc[r] = "authorized" /\ Finish(r, "paid") /\ UNCHANGED files
      /\ handed' = [handed EXCEPT ![ask[r].ch] = Larger(@, ask[r].upTo)]
  BY DEF HandOver, At
<1>2. /\ sync' = sync /\ pc' = [pc EXCEPT ![r] = "paid"] /\ ask' = [ask EXCEPT ![r] = NoAsk]
      /\ ask'[r] = NoAsk /\ pc'[r] = "paid" /\ IsAsk(ask'[r]) /\ UNCHANGED <<aux, cut>>
  BY <1>1, FinishFacts
<1>3. IsAsk(ask[r]) /\ ask[r].ch \in Channels /\ Covered(ask[r].ch, ask[r].upTo)
  BY <1>1 DEF CoverInv, AsksCovered
<1>4. ask[r].upTo \in Nat
  BY <1>3 DEF IsAsk
<1>5. UNCHANGED <<log, cut, index, oldIndex>>
  BY <1>1, <1>2 DEF files
<1>6. handed' \in [Channels -> Nat] /\ \A ch \in Channels : Covered(ch, handed[ch])'
  BY <1>1, <1>3, <1>4, <1>5, HandedCovered
<1>7. Shapes' /\ AuxSound'
  BY <1>2, <1>6 DEF CoverInv, Shapes, AuxSound
<1>8. \A q \in Requests : q # r => ask'[q] = ask[q] /\ pc'[q] = pc[q]
  BY <1>2 DEF CoverInv, Shapes
<1>9. AsksCovered'
  BY <1>1, <1>2, <1>5, <1>8, AskMoves DEF Asking
<1> QED BY <1>1, <1>2, <1>5, <1>6, <1>7, <1>9, SameIndex, SameOldIndex DEF CoverInv

LEMMA RefundStep ==
    ASSUME CoverInv, NEW c \in Channels, NEW n \in Counts, Refund(c, n)
    PROVE  CoverInv'
<1>1. /\ Idle /\ index[c] # NoEntry /\ n <= index[c].signedMax
      /\ handed' = [handed EXCEPT ![c] = Larger(@, n)]
      /\ UNCHANGED <<index, oldIndex, log, cut, sync, pc, ask, aux>>
  BY DEF Refund, Refundable, files, locks, history
<1>2. n \in Nat /\ index[c] \in Entries
  BY <1>1, VouchersAssumption DEF CoverInv, IndexCovered, Counts
<1>3. Covered(c, n)
  <2>1. Covered(c, index[c].signedMax) /\ index[c].signedMax \in Nat
    BY <1>1, <1>2, IdleCovered DEF CoverInv, IndexCovered, Entries
  <2> QED BY <2>1, <1>1, <1>2 DEF Covered
<1>4. handed' \in [Channels -> Nat] /\ \A ch \in Channels : Covered(ch, handed[ch])'
  BY <1>1, <1>2, <1>3, HandedCovered
<1>5. Shapes' /\ AuxSound'
  BY <1>1, <1>4 DEF CoverInv, Shapes, AuxSound
<1> QED BY <1>1, <1>4, <1>5, AsksRest, SameIndex, SameOldIndex DEF CoverInv

-----------------------------------------------------------------------------
(***************************************************************************)
(* What else writes the index: channels found spent are marked, recovered  *)
(* ones stored and counts lifted, to no more than a seller holds.          *)
(***************************************************************************)
LEMMA ReadLockedStep ==
    ASSUME CoverInv, NEW r \in Requests, ReadLocked(r)
    PROVE  CoverInv'
<1>1. /\ Idle /\ pc[r] = "reading" /\ pc' = [pc EXCEPT ![r] = "deciding"]
      /\ \E x : ask' = [ask EXCEPT ![r].locked = x]
      /\ oldIndex' = index \/ oldIndex' = oldIndex
      /\ UNCHANGED <<log, cut, handed, sync, aux>>
  BY DEF ReadLocked, At, locks, world, history
<1>2. \A q \in Requests : q # r => ask'[q] = ask[q] /\ pc'[q] = pc[q]
  BY <1>1 DEF CoverInv, Shapes
<1>3. /\ IsAsk(ask'[r]) /\ ask'[r].ch = ask[r].ch /\ ask'[r].entry = ask[r].entry
  <2>1. PICK x : ask' = [ask EXCEPT ![r].locked = x]
    BY <1>1
  <2>2. IsAsk(ask[r])
    BY DEF CoverInv, AsksCovered
  <2>3. PICK locked, from :
           ask[r] \in [kind : {"none", "voucher", "open", "topUp"}, ch : Channels \cup {NoOne},
                       upTo : Nat, deposit : Nat, locked : {locked},
                       entry : Entries \cup {NoEntry}, policy : {from}]
    BY <2>2 DEF IsAsk
  <2>4. ask'[r] = [ask[r] EXCEPT !.locked = x]
    BY <2>1 DEF CoverInv, Shapes
  <2>5. ask'[r] \in [kind : {"none", "voucher", "open", "topUp"}, ch : Channels \cup {NoOne},
                     upTo : Nat, deposit : Nat, locked : {x},
                     entry : Entries \cup {NoEntry}, policy : {from}]
    BY <2>3, <2>4
  <2>6. IsAsk(ask'[r])
    BY <2>5 DEF IsAsk
  <2> QED BY <2>3, <2>4, <2>6
<1>4. pc'[r] = "deciding"
  BY <1>1 DEF CoverInv, Shapes
<1>5. /\ ask'[r].ch \in Channels /\ ask'[r].entry \in Entries
      /\ Covered(ask'[r].ch, ask'[r].entry.signedMax)
  BY <1>1, <1>3 DEF CoverInv, AsksCovered, Asking
<1>6. AsksCovered'
  BY <1>1, <1>2, <1>3, <1>4, <1>5, AskMoves
<1>7. Shapes' /\ AuxSound'
  BY <1>1 DEF CoverInv, Shapes, AuxSound
<1>8. IndexCovered(index)'
  <2>1. \A ch \in Channels : \/ index'[ch] = index[ch]
                             \/ index[ch] # NoEntry /\ index'[ch] = [index[ch] EXCEPT !.status = "closed"]
    BY DEF ReadLocked, OpenChannels
  <2>2. index' = [ch \in Channels |-> index'[ch]]
    BY DEF ReadLocked
  <2>3. ASSUME NEW ch \in Channels, index'[ch] # NoEntry
        PROVE  index'[ch] \in Entries /\ Covered(ch, index'[ch].signedMax)
    <3>1. CASE index'[ch] = index[ch]
      <4>1. index[ch] \in Entries /\ Covered(ch, index[ch].signedMax)
        BY <2>3, <3>1, <1>1, IdleCovered DEF CoverInv, IndexCovered
      <4> QED BY <3>1, <4>1
    <3>2. CASE index[ch] # NoEntry /\ index'[ch] = [index[ch] EXCEPT !.status = "closed"]
      <4>1. index[ch] \in Entries /\ Covered(ch, index[ch].signedMax)
        BY <3>2, <1>1, IdleCovered DEF CoverInv, IndexCovered
      <4>2. index'[ch] \in Entries /\ index'[ch].signedMax = index[ch].signedMax
        BY <3>2, <4>1 DEF Entries
      <4> QED BY <4>1, <4>2
    <3> QED BY <2>1, <3>1, <3>2
  <2>4. index' \in [Channels -> Entries \cup {NoEntry}]
    BY <2>2, <2>3
  <2> QED BY <2>3, <2>4, <1>1, NewIndex
<1>9. IndexCovered(oldIndex)'
  BY <1>1, SameOldIndex, NewOldIndex
<1> QED BY <1>1, <1>6, <1>7, <1>8, <1>9, SameHanded DEF CoverInv

LEMMA IndexedStep ==
    ASSUME CoverInv, Idle, NEW c \in Channels, NEW e \in Entries, e.signedMax <= handed[c],
           index' = [index EXCEPT ![c] = e], oldIndex' = index,
           UNCHANGED <<log, cut, handed, sync, ask, pc>>, Shapes', AuxSound'
    PROVE  CoverInv'
<1>1. Covered(c, e.signedMax)
  <2>1. Covered(c, handed[c]) /\ handed[c] \in Nat /\ e.signedMax \in Nat
    BY DEF CoverInv, Shapes, Entries
  <2> QED BY <2>1 DEF Covered
<1>2. index' \in [Channels -> Entries \cup {NoEntry}]
  BY DEF CoverInv, IndexCovered
<1>3. ASSUME NEW ch \in Channels, index'[ch] # NoEntry PROVE Covered(ch, index'[ch].signedMax)
  <2>1. CASE ch = c
    <3>1. index'[ch] = e
      BY <2>1 DEF CoverInv, IndexCovered
    <3> QED BY <2>1, <3>1, <1>1
  <2>2. CASE ch # c
    <3>1. index'[ch] = index[ch]
      BY <2>2 DEF CoverInv, IndexCovered
    <3>2. Covered(ch, index[ch].signedMax)
      BY <1>3, <3>1, IdleCovered DEF CoverInv, IndexCovered
    <3> QED BY <3>1, <3>2
  <2> QED BY <2>1, <2>2
<1>4. IndexCovered(index)'
  BY <1>2, <1>3, NewIndex
<1>5. IndexCovered(oldIndex)' /\ AsksCovered'
  BY NewOldIndex, AsksRest
<1> QED BY <1>4, <1>5, SameHanded DEF CoverInv

LEMMA StoreRecoveredStep ==
    ASSUME CoverInv, NEW a \in Agents, NEW n \in 0 .. MaxSigned, StoreRecovered(a, n)
    PROVE  CoverInv'
<1>1. /\ Idle /\ aux[a].doing = "following" /\ n <= handed[aux[a].ch]
      /\ index' = [index EXCEPT ![aux[a].ch] = Recovered(a, n)] /\ oldIndex' = index
      /\ aux' = [aux EXCEPT ![a] = [Resting EXCEPT !.doing = "recovering"]]
      /\ UNCHANGED <<log, cut, handed, sync, ask, pc>>
  BY DEF StoreRecovered, Turn, locks, world, history
<1>2. aux[a].ch \in Channels
  BY <1>1 DEF CoverInv, AuxSound
<1>3. Recovered(a, n) \in Entries /\ Recovered(a, n).signedMax = n
  BY VouchersAssumption DEF Recovered, Entries
<1>4. Shapes' /\ AuxSound'
  BY <1>1 DEF CoverInv, Shapes, AuxSound, Resting
<1> QED BY <1>1, <1>2, <1>3, <1>4, IndexedStep

LEMMA LiftStep ==
    ASSUME CoverInv, NEW a \in Agents, NEW n \in 0 .. MaxSigned, Lift(a, n)
    PROVE  CoverInv'
<1>1. /\ Idle /\ aux[a].doing = "lifting" /\ n <= handed[aux[a].ch]
      /\ index' = [index EXCEPT ![aux[a].ch] = [aux[a].entry EXCEPT !.signedMax = n]] /\ oldIndex' = index
      /\ aux' = [aux EXCEPT ![a] = Resting]
      /\ UNCHANGED <<log, cut, handed, sync, ask, pc>>
  BY DEF Lift, Turn, world, history
<1>2. aux[a].ch \in Channels /\ aux[a].entry \in Entries
  BY <1>1 DEF CoverInv, AuxSound
<1>3. [aux[a].entry EXCEPT !.signedMax = n] \in Entries /\ [aux[a].entry EXCEPT !.signedMax = n].signedMax = n
  BY <1>2, VouchersAssumption DEF Entries
<1>4. Shapes' /\ AuxSound'
  BY <1>1 DEF CoverInv, Shapes, AuxSound, Resting
<1> QED BY <1>1, <1>2, <1>3, <1>4, IndexedStep

(***************************************************************************)
(* A crash keeps one index or the other or none, and counts what it cut    *)
(* short as given up.                                                      *)
(***************************************************************************)
LEMMA CrashStep == ASSUME CoverInv, Crash PROVE CoverInv'
<1>1. /\ index' \in {index, oldIndex, [ch \in Channels |-> NoEntry]} /\ oldIndex' = index'
      /\ sync' = NoOne /\ log' = log /\ cut' = cut \cup CutShort /\ handed' = handed
      /\ pc' = [r \in Requests |-> IF pc[r] \in Ongoing THEN "lost" ELSE pc[r]]
      /\ ask' = [r \in Requests |-> NoAsk] /\ aux' = [a \in Agents |-> Resting]
  BY DEF Crash, SurvivingIndexes
<1>2. Marked' = Marked \cup CutShort
  BY <1>1 DEF Marked, Counted
<1>3. Shapes' /\ AuxSound'
  BY <1>1 DEF CoverInv, Shapes, AuxSound, Resting
<1>4. AsksCovered'
  <2>1. IsAsk(NoAsk)
    BY DEF NoAsk, IsAsk
  <2>2. \A r \in Requests : ask'[r] = NoAsk /\ pc'[r] \notin Asking \cup {"authorized"}
    BY <1>1 DEF Ongoing, Asking
  <2>3. sync' \notin Requests
    BY <1>1, VouchersAssumption
  <2> QED BY <2>1, <2>2, <2>3 DEF AsksCovered, IsAsk, Asking
<1>5. /\ index' \in [Channels -> Entries \cup {NoEntry}]
      /\ \A ch \in Channels : index'[ch] # NoEntry => CoveredNow(ch, index'[ch].signedMax)
  <2>1. CASE index' = index
    BY <2>1 DEF CoverInv, IndexCovered, CoveredNow
  <2>2. CASE index' = oldIndex
    BY <2>2 DEF CoverInv, IndexCovered, CoveredNow
  <2>3. CASE index' = [ch \in Channels |-> NoEntry]
    BY <2>3
  <2> QED BY <1>1, <2>1, <2>2, <2>3
<1>6. IndexCovered(index)' /\ IndexCovered(oldIndex)'
  BY <1>1, <1>2, <1>5 DEF IndexCovered, CoveredNow
<1>7. \A ch \in Channels : Covered(ch, handed[ch])'
  BY <1>1, <1>2 DEF CoverInv, Covered
<1> QED BY <1>3, <1>4, <1>6, <1>7 DEF CoverInv

LEMMA PayloadStep ==
    ASSUME CoverInv, NEW r \in Requests, PayloadSteps(r) \/ Approve(r) \/ Unqueue(r)
    PROVE  CoverInv'
<1>1. ASSUME Begin(r) \/ Enter(r) \/ Approve(r) \/ Unqueue(r) PROVE CoverInv'
  <2>1. /\ Idle /\ sync' = sync /\ ask' = ask /\ UNCHANGED <<files, cut, aux, handed>>
        /\ \E place \in {"walletLock", "client", "refused"} : pc' = [pc EXCEPT ![r] = place]
    BY <1>1 DEF Begin, Enter, Approve, Unqueue, At, locks, world, history
  <2>2. /\ ask' = [ask EXCEPT ![r] = ask'[r]] /\ pc' = [pc EXCEPT ![r] = pc'[r]]
        /\ pc'[r] \in {"walletLock", "client", "refused"}
    BY <2>1 DEF CoverInv, Shapes
  <2>3. IsAsk(ask'[r])
    BY <2>1 DEF CoverInv, AsksCovered
  <2>4. pc'[r] \notin Asking \cup {"authorized"}
    BY <2>2 DEF Asking
  <2> QED BY <2>1, <2>2, <2>3, <2>4, RestsWith
<1>2. ASSUME Unreadable(r) \/ ClientFails(r) PROVE CoverInv'
  BY <1>2, RefuseStep DEF Unreadable, ClientFails, At
<1>3. ASSUME Fund(r) PROVE CoverInv'
  <2>1. Idle /\ pc[r] = "deciding" /\ (Refuse(r) \/ CommitVoucher(r, ask[r]))
    BY <1>3 DEF Fund, At
  <2>2. /\ IsAsk(ask[r]) /\ ask[r].ch \in Channels /\ ask[r].entry \in Entries
        /\ Covered(ask[r].ch, ask[r].entry.signedMax)
    BY <2>1 DEF CoverInv, AsksCovered, Asking
  <2>3. CASE Refuse(r)
    BY <2>1, <2>3, RefuseStep
  <2>4. CASE CommitVoucher(r, ask[r])
    BY <2>1, <2>2, <2>4, CommitStep
  <2> QED BY <2>1, <2>3, <2>4
<1>4. ASSUME Undelivered(r) PROVE CoverInv'
  <2>1. Idle /\ Finish(r, "undelivered") /\ UNCHANGED <<files, handed>>
    BY <1>4 DEF Undelivered, At, world
  <2>2. /\ sync' = sync /\ pc' = [pc EXCEPT ![r] = "undelivered"] /\ ask' = [ask EXCEPT ![r] = NoAsk]
        /\ ask'[r] = NoAsk /\ pc'[r] = "undelivered" /\ IsAsk(ask'[r]) /\ UNCHANGED <<aux, cut>>
    BY <2>1, FinishFacts
  <2>3. pc'[r] \notin Asking \cup {"authorized"}
    BY <2>2 DEF Asking
  <2> QED BY <2>1, <2>2, <2>3, RestsWith
<1> QED BY <1>1, <1>2, <1>3, <1>4, ReadLockedStep, AuditStep, HandOverStep DEF PayloadSteps

LEMMA ClientStep ==
    ASSUME CoverInv, NEW r \in Requests, NEW c \in Channels, ClientAsks(r, c)
    PROVE  CoverInv'
<1>1. Counts \subseteq Nat /\ Deposits \subseteq Nat /\ Q[r].price \in Nat /\ AgentOf(r) \in Agents
  BY VouchersAssumption DEF Counts, AgentOf
<1>2. \A kind \in {"voucher", "open", "topUp"}, n \in Nat, d \in Nat, e \in Entries :
         /\ IsAsk(Wants(kind, c, n, d, e))
         /\ Wants(kind, c, n, d, e).ch = c /\ Wants(kind, c, n, d, e).entry = e
  <2> SUFFICES ASSUME NEW kind \in {"voucher", "open", "topUp"}, NEW n \in Nat, NEW d \in Nat, NEW e \in Entries
               PROVE  /\ IsAsk(Wants(kind, c, n, d, e))
                      /\ Wants(kind, c, n, d, e).ch = c /\ Wants(kind, c, n, d, e).entry = e
    OBVIOUS
  <2>1. Wants(kind, c, n, d, e) \in [kind : {"none", "voucher", "open", "topUp"}, ch : Channels \cup {NoOne},
                                     upTo : Nat, deposit : Nat, locked : {0},
                                     entry : Entries \cup {NoEntry}, policy : {policy}]
    BY DEF Wants
  <2> QED BY <2>1 DEF IsAsk, Wants
<1>3. ASSUME Idle, Authorizes(r, c) PROVE index[c] \in Entries /\ Covered(c, index[c].signedMax)
  BY <1>3, IdleCovered DEF Authorizes, CoverInv, IndexCovered
<1>4. ASSUME NEW n \in Counts, AskVoucher(r, c, n) PROVE CoverInv'
  <2>1. Idle /\ (\/ Authorizes(r, c) /\ CommitVoucher(r, Wants("voucher", c, n, 0, index[c]))
                 \/ Refuse(r))
    BY <1>4 DEF AskVoucher, At
  <2>2. CASE Authorizes(r, c) /\ CommitVoucher(r, Wants("voucher", c, n, 0, index[c]))
    BY <2>1, <2>2, <1>1, <1>2, <1>3, CommitStep
  <2> QED BY <2>1, <2>2, RefuseStep
<1>5. ASSUME NEW d \in Deposits, AskOpen(r, c, d) PROVE CoverInv'
  <2>1. Idle /\ Consider(r, Wants("open", c, Q[r].price, d, NewEntry(r, d)))
    BY <1>5 DEF AskOpen, At
  <2>2. NewEntry(r, d) \in Entries /\ NewEntry(r, d).signedMax = 0
    BY <1>1 DEF NewEntry, Entries
  <2>3. Covered(c, NewEntry(r, d).signedMax)
    BY <2>2 DEF Covered
  <2> QED BY <2>1, <2>2, <2>3, <1>1, <1>2, ConsiderStep
<1>6. ASSUME NEW n \in Counts, NEW d \in Deposits, AskTopUp(r, c, n, d) PROVE CoverInv'
  <2>1. Idle /\ (\/ Authorizes(r, c) /\ Consider(r, Wants("topUp", c, n, d, index[c]))
                 \/ Refuse(r))
    BY <1>6 DEF AskTopUp, At
  <2>2. CASE Authorizes(r, c) /\ Consider(r, Wants("topUp", c, n, d, index[c]))
    BY <2>1, <2>2, <1>1, <1>2, <1>3, ConsiderStep
  <2> QED BY <2>1, <2>2, RefuseStep
<1> QED BY <1>4, <1>5, <1>6 DEF ClientAsks

LEMMA AuxStep ==
    ASSUME CoverInv, NEW a \in Agents, IndexSteps(a)
    PROVE  CoverInv'
<1>1. ASSUME Idle, UNCHANGED <<files, cut, sync, ask, pc, handed>>, NEW to, aux' = [aux EXCEPT ![a] = to],
             to.doing \in {"following", "lifting"} => to.ch \in Channels,
             to.doing = "lifting" => to.entry \in Entries
      PROVE  CoverInv'
  <2>1. Shapes' /\ AuxSound'
    BY <1>1 DEF CoverInv, Shapes, AuxSound
  <2>2. AsksCovered'
    BY <1>1, AsksRest DEF files
  <2> QED BY <1>1, <2>1, <2>2, FilesRest DEF files
<1>2. ASSUME Recover(a) \/ FoundClosed(a) \/ EndAux(a) PROVE CoverInv'
  <2>1. /\ Idle /\ UNCHANGED <<files, cut, sync, ask, pc, handed>>
        /\ \E to \in {Resting, [Resting EXCEPT !.doing = "recovering"]} : aux' = [aux EXCEPT ![a] = to]
    BY <1>2 DEF Recover, FoundClosed, EndAux, Turn, locks, world, history
  <2>2. \A to \in {Resting, [Resting EXCEPT !.doing = "recovering"]} : to.doing \notin {"following", "lifting"}
    BY DEF Resting
  <2> QED BY <1>1, <2>1, <2>2
<1>3. ASSUME NEW c \in Channels, Follow(a, c) PROVE CoverInv'
  <2> DEFINE to == [Resting EXCEPT !.doing = "following", !.ch = c]
  <2>1. /\ Idle /\ UNCHANGED <<files, cut, sync, ask, pc, handed>> /\ aux' = [aux EXCEPT ![a] = to]
    BY <1>3 DEF Follow, Turn, locks, world, history
  <2>2. to.doing = "following" /\ to.ch = c
    BY DEF Resting
  <2> QED BY <1>1, <2>1, <2>2
<1>4. ASSUME NEW c \in Channels, ReadForLift(a, c) PROVE CoverInv'
  <2> DEFINE to == [doing |-> "lifting", ch |-> c, entry |-> index[c]]
  <2>1. /\ Idle /\ UNCHANGED <<files, cut, sync, ask, pc, handed>> /\ aux' = [aux EXCEPT ![a] = to]
        /\ index[c] # NoEntry
    BY <1>4 DEF ReadForLift, Turn, locks, world, history
  <2>2. to.doing = "lifting" /\ to.ch = c /\ to.entry = index[c]
    OBVIOUS
  <2>3. index[c] \in Entries
    BY <2>1 DEF CoverInv, IndexCovered
  <2> QED BY <1>1, <2>1, <2>2, <2>3
<1> QED BY <1>2, <1>3, <1>4, StoreRecoveredStep, LiftStep DEF IndexSteps

LEMMA ChainStep ==
    ASSUME CoverInv, NEW c \in Channels, ChainSteps(c)
    PROVE  CoverInv'
<1>1. Idle /\ UNCHANGED <<files, cut, sync, ask, pc, handed, aux>>
  BY DEF ChainSteps, Land, Drop, CloseOut, locks, history
<1>2. Shapes' /\ AuxSound' /\ AsksCovered'
  BY <1>1, AsksRest DEF CoverInv, Shapes, AuxSound, files
<1> QED BY <1>1, <1>2, FilesRest DEF files

LEMMA StutterCovers == ASSUME CoverInv, UNCHANGED vars PROVE CoverInv'
<1>1. UNCHANGED <<index, oldIndex, log, cut, sync, ask, pc, handed, aux>>
  BY DEF vars, files, locks, world, history
<1>2. Shapes' /\ AuxSound' /\ AsksCovered'
  BY <1>1, AsksRest DEF CoverInv, Shapes, AuxSound
<1>3. CutShort' = CutShort /\ Marked' = Marked
  BY DEF vars, files, budget, locks, history, CutShort, Marked, Counted, VoucherSpend, UnitsOfVoucher, Increment
<1>4. IndexCovered(index)' /\ IndexCovered(oldIndex)'
  BY <1>1, <1>3 DEF CoverInv, IndexCovered, CoveredNow
<1> QED BY <1>1, <1>2, <1>4, SameHanded DEF CoverInv

LEMMA CoverStep == CoverInv /\ [Next]_vars => CoverInv'
BY PayloadStep, ClientStep, AuxStep, RefundStep, ChainStep, CrashStep, StutterCovers DEF Next

(***************************************************************************)
(* Whatever the policies, the amounts and the crashes, and even when an    *)
(* index comes back older or empty: every unit a seller can redeem was     *)
(* counted as a spend, but for those whose recording a crash cut short.    *)
(***************************************************************************)
THEOREM EveryRedeemableUnitIsCounted == Spec => []RedeemableIsCounted
<1>1. CoverInv => RedeemableIsCounted
  <2> SUFFICES ASSUME CoverInv, NEW ch \in Channels, NEW u \in 1 .. handed[ch]
               PROVE  <<ch, u>> \in Counted \cup cut
    BY DEF RedeemableIsCounted, Redeemable
  <2> QED BY DEF CoverInv, Covered, Marked
<1> QED BY <1>1, CoverInit, CoverStep, PTL DEF Spec

-----------------------------------------------------------------------------
(***************************************************************************)
(* The queue and its holds: a queued request waits at its place in the     *)
(* queue, an approved one is in a run of the client, and each has a hold.  *)
(***************************************************************************)
Making == {"walletLock", "client", "reading", "deciding", "indexed", "authorized"}

HoldsAreTheirs ==
    /\ \A h \in reserved : h.tx \in pending \cup approved
    /\ \A r \in pending \cup approved : \E h \in reserved : h.tx = r

HoldInv ==
    /\ pc = [r \in Requests |-> pc[r]]
    /\ pending \cup approved \subseteq Requests
    /\ HoldsAreTheirs
    /\ \A r \in pending : pc[r] = "queued"
    /\ \A r \in approved : pc[r] \in Making

LEMMA HoldInit == Init => HoldInv
BY DEF Init, HoldInv, HoldsAreTheirs

(***************************************************************************)
(* A request that moves on without leaving the client's run keeps its      *)
(* hold, if it has one.                                                    *)
(***************************************************************************)
LEMMA HoldMoves ==
    ASSUME HoldInv, NEW r \in Requests, pc[r] \in {"new"} \cup Making,
           NEW place \in Making, pc' = [pc EXCEPT ![r] = place],
           UNCHANGED <<reserved, pending, approved>>
    PROVE  HoldInv'
<1>1. pc' = [q \in Requests |-> pc'[q]] /\ pc'[r] = place
      /\ \A q \in Requests : q # r => pc'[q] = pc[q]
  BY DEF HoldInv
<1>2. r \notin pending
  BY DEF HoldInv, Making
<1> QED BY <1>1, <1>2 DEF HoldInv, HoldsAreTheirs

LEMMA HoldRests ==
    ASSUME HoldInv, UNCHANGED <<reserved, pending, approved, pc>> PROVE HoldInv'
BY DEF HoldInv, HoldsAreTheirs

LEMMA HoldFinish ==
    ASSUME HoldInv, NEW r \in Requests, pc[r] \in Making, NEW place, Finish(r, place)
    PROVE  HoldInv'
<1>1. /\ reserved' = IF r \in approved THEN WithoutHold(r) ELSE reserved
      /\ pending' = pending /\ approved' = approved \ {r} /\ pc' = [pc EXCEPT ![r] = place]
  BY DEF Finish
<1>2. pc' = [q \in Requests |-> pc'[q]] /\ \A q \in Requests : q # r => pc'[q] = pc[q]
  BY <1>1 DEF HoldInv
<1>3. r \notin pending
  BY DEF HoldInv, Making
<1>4. HoldsAreTheirs'
  BY <1>1, <1>3 DEF HoldInv, HoldsAreTheirs, WithoutHold
<1> QED BY <1>1, <1>2, <1>3, <1>4 DEF HoldInv

LEMMA HoldRefuse ==
    ASSUME HoldInv, NEW r \in Requests, pc[r] \in Making, Refuse(r) PROVE HoldInv'
BY HoldFinish DEF Refuse

LEMMA HoldQueue ==
    ASSUME HoldInv, NEW r \in Requests, pc[r] \in Making, NEW k, Queue(r, k)
    PROVE  HoldInv'
<1>1. /\ reserved' = reserved \cup {Hold(r, k)} /\ pending' = pending \cup {r} /\ r \notin approved
      /\ approved' = approved /\ pc' = [pc EXCEPT ![r] = "queued"]
  BY DEF Queue
<1>2. pc' = [q \in Requests |-> pc'[q]] /\ pc'[r] = "queued" /\ \A q \in Requests : q # r => pc'[q] = pc[q]
  BY <1>1 DEF HoldInv
<1>3. Hold(r, k).tx = r
  BY DEF Hold
<1>4. HoldsAreTheirs'
  BY <1>1, <1>3 DEF HoldInv, HoldsAreTheirs
<1> QED BY <1>1, <1>2, <1>4 DEF HoldInv

LEMMA HoldCommit ==
    ASSUME HoldInv, NEW r \in Requests, pc[r] \in Making, NEW k, CommitVoucher(r, k)
    PROVE  HoldInv'
<1>1. CASE Resign(r, k)
  <2>1. pc' = [pc EXCEPT ![r] = "authorized"] /\ UNCHANGED <<reserved, pending, approved>>
    BY <1>1 DEF Resign, budget
  <2> QED BY <2>1, HoldMoves DEF Making
<1>2. CASE Deny(r, k)
  BY <1>2, HoldRefuse DEF Deny
<1>3. CASE Store(r, k)
  <2>1. pc' = [pc EXCEPT ![r] = "indexed"] /\ UNCHANGED <<reserved, pending, approved>>
    BY <1>3 DEF Store
  <2> QED BY <2>1, HoldMoves DEF Making
<1> QED BY <1>1, <1>2, <1>3, HoldQueue DEF CommitVoucher

LEMMA HoldConsider ==
    ASSUME HoldInv, NEW r \in Requests, pc[r] \in Making, NEW k, Consider(r, k)
    PROVE  HoldInv'
<1>1. pc' = [pc EXCEPT ![r] = "reading"] /\ UNCHANGED <<reserved, pending, approved>>
  BY DEF Consider, budget
<1> QED BY <1>1, HoldMoves DEF Making

LEMMA HoldPayload ==
    ASSUME CoverInv, HoldInv, NEW r \in Requests, PayloadSteps(r) PROVE HoldInv'
<1>1. ASSUME Begin(r) \/ Enter(r) \/ ReadLocked(r) PROVE HoldInv'
  <2>1. /\ pc[r] \in {"new"} \cup Making /\ UNCHANGED <<reserved, pending, approved>>
        /\ \E place \in {"walletLock", "client", "deciding"} : pc' = [pc EXCEPT ![r] = place]
    BY <1>1 DEF Begin, Enter, ReadLocked, At, budget, Making
  <2> QED BY <2>1, HoldMoves DEF Making
<1>2. ASSUME Unreadable(r) \/ ClientFails(r) PROVE HoldInv'
  BY <1>2, HoldRefuse DEF Unreadable, ClientFails, At, Making
<1>3. ASSUME Fund(r) PROVE HoldInv'
  <2>1. pc[r] \in Making /\ (Refuse(r) \/ CommitVoucher(r, ask[r]))
    BY <1>3 DEF Fund, At, Making
  <2> QED BY <2>1, HoldRefuse, HoldCommit
<1>4. ASSUME Audit(r) PROVE HoldInv'
  <2>1. sync = r /\ pc' = [pc EXCEPT ![r] = "authorized"] /\ UNCHANGED <<reserved, pending, approved>>
    BY <1>4 DEF Audit, budget
  <2>2. pc[r] = "indexed"
    BY <2>1 DEF CoverInv, AsksCovered
  <2> QED BY <2>1, <2>2, HoldMoves DEF Making
<1>5. ASSUME HandOver(r) \/ Undelivered(r) PROVE HoldInv'
  <2>1. pc[r] \in Making /\ \E place \in {"paid", "undelivered"} : Finish(r, place)
    BY <1>5 DEF HandOver, Undelivered, At, Making
  <2> QED BY <2>1, HoldFinish
<1> QED BY <1>1, <1>2, <1>3, <1>4, <1>5 DEF PayloadSteps

LEMMA HoldClient ==
    ASSUME HoldInv, NEW r \in Requests, NEW c \in Channels, ClientAsks(r, c)
    PROVE  HoldInv'
<1>1. ASSUME NEW n \in Counts, AskVoucher(r, c, n) PROVE HoldInv'
  <2>1. pc[r] \in Making
        /\ (Refuse(r) \/ CommitVoucher(r, Wants("voucher", c, n, 0, index[c])))
    BY <1>1 DEF AskVoucher, At, Making
  <2> QED BY <2>1, HoldRefuse, HoldCommit
<1>2. ASSUME NEW d \in Deposits, AskOpen(r, c, d) PROVE HoldInv'
  <2>1. pc[r] \in Making /\ Consider(r, Wants("open", c, Q[r].price, d, NewEntry(r, d)))
    BY <1>2 DEF AskOpen, At, Making
  <2> QED BY <2>1, HoldConsider
<1>3. ASSUME NEW n \in Counts, NEW d \in Deposits, AskTopUp(r, c, n, d) PROVE HoldInv'
  <2>1. pc[r] \in Making
        /\ (Refuse(r) \/ Consider(r, Wants("topUp", c, n, d, index[c])))
    BY <1>3 DEF AskTopUp, At, Making
  <2> QED BY <2>1, HoldRefuse, HoldConsider
<1> QED BY <1>1, <1>2, <1>3 DEF ClientAsks

LEMMA HoldApprove ==
    ASSUME HoldInv, NEW r \in Requests, Approve(r) PROVE HoldInv'
<1>1. /\ r \in pending /\ pending' = pending \ {r} /\ approved' = approved \cup {r}
      /\ reserved' = reserved /\ pc' = [pc EXCEPT ![r] = "walletLock"]
  BY DEF Approve
<1>2. pc' = [q \in Requests |-> pc'[q]] /\ pc'[r] = "walletLock" /\ \A q \in Requests : q # r => pc'[q] = pc[q]
  BY <1>1 DEF HoldInv
<1>3. pending' \cup approved' = pending \cup approved
  BY <1>1
<1>4. HoldsAreTheirs'
  BY <1>1, <1>3 DEF HoldInv, HoldsAreTheirs
<1> QED BY <1>1, <1>2, <1>3, <1>4 DEF HoldInv, Making

LEMMA HoldUnqueue ==
    ASSUME HoldInv, NEW r \in Requests, Unqueue(r) PROVE HoldInv'
<1>1. /\ r \in pending /\ pending' = pending \ {r} /\ approved' = approved
      /\ reserved' = WithoutHold(r) /\ pc' = [pc EXCEPT ![r] = "refused"]
  BY DEF Unqueue
<1>2. pc' = [q \in Requests |-> pc'[q]] /\ \A q \in Requests : q # r => pc'[q] = pc[q]
  BY <1>1 DEF HoldInv
<1>3. r \notin approved
  BY <1>1 DEF HoldInv, Making
<1>4. HoldsAreTheirs'
  BY <1>1, <1>3 DEF HoldInv, HoldsAreTheirs, WithoutHold
<1> QED BY <1>1, <1>2, <1>3, <1>4 DEF HoldInv

LEMMA HoldStep == CoverInv /\ HoldInv /\ [Next]_vars => HoldInv'
<1> SUFFICES ASSUME CoverInv, HoldInv, [Next]_vars PROVE HoldInv'
  OBVIOUS
<1>1. ASSUME NEW a \in Agents, IndexSteps(a) PROVE HoldInv'
  <2>1. UNCHANGED <<reserved, pending, approved, pc>>
    BY <1>1 DEF IndexSteps, Recover, FoundClosed, EndAux, Follow, ReadForLift, StoreRecovered, Lift, budget
  <2> QED BY <2>1, HoldRests
<1>2. ASSUME NEW c \in Channels, NEW n \in Counts, Refund(c, n) PROVE HoldInv'
  BY <1>2, HoldRests DEF Refund, budget
<1>3. ASSUME NEW c \in Channels, ChainSteps(c) PROVE HoldInv'
  BY <1>3, HoldRests DEF ChainSteps, Land, Drop, CloseOut, budget
<1>4. ASSUME Crash PROVE HoldInv'
  <2>1. reserved' = {} /\ pending' = {} /\ approved' = {}
        /\ pc' = [r \in Requests |-> IF pc[r] \in Ongoing THEN "lost" ELSE pc[r]]
    BY <1>4 DEF Crash
  <2> QED BY <2>1 DEF HoldInv, HoldsAreTheirs
<1>5. ASSUME UNCHANGED vars PROVE HoldInv'
  BY <1>5, HoldRests DEF vars, budget
<1> QED BY <1>1, <1>2, <1>3, <1>4, <1>5, HoldPayload, HoldApprove, HoldUnqueue, HoldClient DEF Next

(***************************************************************************)
(* However approvals, denials, expiries, failing clients and crashes       *)
(* interleave, budget is held for the vouchers in the queue and those made *)
(* for an approval, for no others, and no request is both.                 *)
(***************************************************************************)
THEOREM HoldsMatchTheQueue == Spec => []VoucherHoldsMatch
<1>1. HoldInv => VoucherHoldsMatch
  <2> SUFFICES ASSUME HoldInv PROVE VoucherHoldsMatch
    OBVIOUS
  <2>1. {h.tx : h \in reserved} = pending \cup approved
    BY DEF HoldInv, HoldsAreTheirs
  <2>2. pending \cap approved = {}
    BY DEF HoldInv, Making
  <2> QED BY <2>1, <2>2 DEF VoucherHoldsMatch
<1> QED BY <1>1, CoverInit, CoverStep, HoldInit, HoldStep, PTL DEF Spec

-----------------------------------------------------------------------------
(***************************************************************************)
(* The locks: a run of the client holds both of them from its first await  *)
(* on the wallet to its end, a recovery or a seller's answer its agent's.  *)
(***************************************************************************)
Inside == {"client", "reading", "deciding", "indexed", "authorized"}

Running == Inside \cup {"walletLock"}

LocksHeld ==
    /\ agentLock = [a \in Agents |-> agentLock[a]]
    /\ \A r \in Requests : pc[r] \in Inside => walletLock = r
    /\ \A r \in Requests : pc[r] \in Running => agentLock[AgentOf(r)] = r
    /\ \A a \in Agents : aux[a].doing # "nothing" => agentLock[a] = a

LEMMA Apart ==
    /\ \A r \in Requests : AgentOf(r) \in Agents /\ r \notin Agents /\ r # NoOne
    /\ \A a \in Agents : a # NoOne
BY VouchersAssumption DEF AgentOf

LEMMA LocksInit == Init => LocksHeld
BY DEF Init, LocksHeld, Inside, Running, Resting

LEMMA LocksRest ==
    ASSUME LocksHeld, UNCHANGED <<pc, agentLock, walletLock, aux>>
    PROVE  LocksHeld'
BY DEF LocksHeld

(***************************************************************************)
(* One request in the client, one holder of an agent's lock.               *)
(***************************************************************************)
LEMMA OneInside ==
    ASSUME LocksHeld, NEW r \in Requests, pc[r] \in Inside
    PROVE  \A q \in Requests : pc[q] \in Inside => q = r
BY DEF LocksHeld

LEMMA NoAuxBeside ==
    ASSUME LocksHeld, NEW r \in Requests, pc[r] \in Running
    PROVE  aux[AgentOf(r)].doing = "nothing"
BY Apart DEF LocksHeld

LEMMA LocksMove ==
    ASSUME CoverInv, LocksHeld, NEW r \in Requests, pc[r] \in Running,
           walletLock = r \/ walletLock = NoOne, walletLock' = r,
           NEW place \in Inside, pc' = [pc EXCEPT ![r] = place], UNCHANGED <<agentLock, aux>>
    PROVE  LocksHeld'
<1>1. pc'[r] = place /\ \A q \in Requests : q # r => pc'[q] = pc[q]
  BY DEF CoverInv, Shapes
<1>2. \A q \in Requests : q # r => pc[q] \notin Inside
  BY Apart DEF LocksHeld
<1> QED BY <1>1, <1>2 DEF LocksHeld, Running

LEMMA LocksRelease ==
    ASSUME CoverInv, LocksHeld, NEW r \in Requests, pc[r] \in Running, ReleaseLocks(r),
           NEW place, place \notin Running, pc' = [pc EXCEPT ![r] = place], aux' = aux
    PROVE  LocksHeld'
<1>1. pc'[r] = place /\ \A q \in Requests : q # r => pc'[q] = pc[q]
  BY DEF CoverInv, Shapes
<1>2. /\ agentLock' = [agentLock EXCEPT ![AgentOf(r)] = NoOne]
      /\ walletLock' = IF walletLock = r THEN NoOne ELSE walletLock
      /\ agentLock[AgentOf(r)] = r
  BY DEF ReleaseLocks, LocksHeld
<1>3. ASSUME NEW q \in Requests, pc'[q] \in Running
      PROVE  q # r /\ AgentOf(q) # AgentOf(r) /\ agentLock'[AgentOf(q)] = q
  <2>1. q # r /\ agentLock[AgentOf(q)] = q
    BY <1>1, <1>3 DEF LocksHeld
  <2> QED BY <2>1, <1>2, Apart DEF LocksHeld
<1>4. ASSUME NEW q \in Requests, pc'[q] \in Inside PROVE walletLock' = q
  <2>1. q # r /\ walletLock = q
    BY <1>1, <1>4 DEF LocksHeld, Running
  <2> QED BY <2>1, <1>2
<1>5. ASSUME NEW a \in Agents, aux[a].doing # "nothing" PROVE agentLock'[a] = a
  <2>1. agentLock[a] = a
    BY <1>5 DEF LocksHeld
  <2> QED BY <2>1, <1>2, Apart DEF LocksHeld
<1>6. agentLock' = [a \in Agents |-> agentLock'[a]]
  BY <1>2 DEF LocksHeld
<1> QED BY <1>3, <1>4, <1>5, <1>6 DEF LocksHeld

LEMMA LocksFinish ==
    ASSUME CoverInv, LocksHeld, NEW r \in Requests, pc[r] \in Running,
           NEW place \in {"refused", "paid", "undelivered"}, Finish(r, place)
    PROVE  LocksHeld'
<1>1. ReleaseLocks(r) /\ pc' = [pc EXCEPT ![r] = place] /\ aux' = aux
  BY DEF Finish
<1>2. place \notin Running
  BY DEF Running, Inside
<1> QED BY <1>1, <1>2, LocksRelease

LEMMA LocksCommit ==
    ASSUME CoverInv, LocksHeld, NEW r \in Requests, pc[r] \in Inside, NEW k, CommitVoucher(r, k)
    PROVE  LocksHeld'
<1>1. pc[r] \in Running /\ walletLock = r
  BY DEF LocksHeld, Running
<1>2. CASE Resign(r, k)
  <2>1. walletLock' = r /\ pc' = [pc EXCEPT ![r] = "authorized"] /\ UNCHANGED <<agentLock, aux>>
    BY <1>1, <1>2 DEF Resign, locks
  <2> QED BY <1>1, <2>1, LocksMove DEF Inside
<1>3. CASE Deny(r, k)
  BY <1>1, <1>3, LocksFinish DEF Deny, Refuse
<1>4. CASE Queue(r, k)
  <2>1. ReleaseLocks(r) /\ pc' = [pc EXCEPT ![r] = "queued"] /\ aux' = aux
    BY <1>4 DEF Queue
  <2>2. "queued" \notin Running
    BY DEF Running, Inside
  <2> QED BY <1>1, <2>1, <2>2, LocksRelease
<1>5. CASE Store(r, k)
  <2>1. walletLock' = r /\ pc' = [pc EXCEPT ![r] = "indexed"] /\ UNCHANGED <<agentLock, aux>>
    BY <1>1, <1>5 DEF Store
  <2> QED BY <1>1, <2>1, LocksMove DEF Inside
<1> QED BY <1>2, <1>3, <1>4, <1>5 DEF CommitVoucher

(***************************************************************************)
(* Somebody takes a lock that is free.                                     *)
(***************************************************************************)
LEMMA LocksTaken ==
    ASSUME CoverInv, LocksHeld, NEW r \in Requests, AgentFree(AgentOf(r)),
           agentLock' = [agentLock EXCEPT ![AgentOf(r)] = r],
           pc' = [pc EXCEPT ![r] = "walletLock"], UNCHANGED <<walletLock, aux>>
    PROVE  LocksHeld'
<1>1. pc'[r] = "walletLock" /\ \A q \in Requests : q # r => pc'[q] = pc[q]
  BY DEF CoverInv, Shapes
<1>2. agentLock'[AgentOf(r)] = r
  BY Apart DEF LocksHeld
<1>3. \A q \in Requests : pc[q] \in Running => AgentOf(q) # AgentOf(r)
  BY Apart DEF LocksHeld, AgentFree
<1>4. \A a \in Agents : aux[a].doing # "nothing" => a # AgentOf(r)
  BY Apart DEF LocksHeld, AgentFree
<1>5. \A a \in Agents : a # AgentOf(r) => agentLock'[a] = agentLock[a]
  BY Apart DEF LocksHeld
<1>6. agentLock' = [a \in Agents |-> agentLock'[a]]
  BY DEF LocksHeld
<1>7. pc'[r] \notin Inside
  BY <1>1 DEF Inside
<1> QED BY <1>1, <1>2, <1>3, <1>4, <1>5, <1>6, <1>7, Apart DEF LocksHeld

LEMMA LocksPayload ==
    ASSUME CoverInv, LocksHeld, NEW r \in Requests, PayloadSteps(r) \/ Approve(r) \/ Unqueue(r)
    PROVE  LocksHeld'
<1>1. CASE Begin(r) \/ Approve(r)
  BY <1>1, LocksTaken DEF Begin, Approve
<1>2. CASE Unreadable(r) \/ ClientFails(r)
  <2>1. pc[r] \in Running /\ Finish(r, "refused")
    BY <1>2 DEF Unreadable, ClientFails, Refuse, At, Running, Inside
  <2> QED BY <2>1, LocksFinish
<1>3. CASE Enter(r)
  <2>1. /\ pc[r] \in Running /\ walletLock = NoOne /\ walletLock' = r
        /\ pc' = [pc EXCEPT ![r] = "client"] /\ UNCHANGED <<agentLock, aux>>
    BY <1>3 DEF Enter, At, Running
  <2> QED BY <2>1, LocksMove DEF Inside
<1>4. CASE ReadLocked(r)
  <2>1. /\ pc[r] \in Inside /\ pc' = [pc EXCEPT ![r] = "deciding"]
        /\ UNCHANGED <<agentLock, walletLock, aux>>
    BY <1>4 DEF ReadLocked, At, Inside, locks
  <2>2. pc[r] \in Running /\ walletLock = r /\ walletLock' = r
    BY <2>1 DEF Running, LocksHeld
  <2> QED BY <2>1, <2>2, LocksMove DEF Inside
<1>5. CASE Fund(r)
  <2>1. pc[r] \in Inside /\ pc[r] \in Running /\ (CommitVoucher(r, ask[r]) \/ Finish(r, "refused"))
    BY <1>5 DEF Fund, At, Inside, Running, Refuse
  <2> QED BY <2>1, LocksCommit, LocksFinish
<1>6. CASE Audit(r)
  <2>1. /\ pc[r] \in Inside /\ pc' = [pc EXCEPT ![r] = "authorized"]
        /\ UNCHANGED <<agentLock, walletLock, aux>>
    BY <1>6 DEF Audit, CoverInv, AsksCovered, Inside
  <2>2. pc[r] \in Running /\ walletLock = r /\ walletLock' = r
    BY <2>1 DEF Running, LocksHeld
  <2> QED BY <2>1, <2>2, LocksMove DEF Inside
<1>7. CASE HandOver(r) \/ Undelivered(r)
  <2>1. pc[r] \in Running /\ \E place \in {"paid", "undelivered"} : Finish(r, place)
    BY <1>7 DEF HandOver, Undelivered, At, Running, Inside
  <2> QED BY <2>1, LocksFinish
<1>8. CASE Unqueue(r)
  <2>1. /\ pc' = [pc EXCEPT ![r] = "refused"] /\ UNCHANGED <<agentLock, walletLock, aux>>
    BY <1>8 DEF Unqueue, locks
  <2>2. pc'[r] \notin Running /\ \A q \in Requests : q # r => pc'[q] = pc[q]
    BY <2>1 DEF CoverInv, Shapes, Running, Inside
  <2> QED BY <2>1, <2>2 DEF LocksHeld, Running
<1> QED BY <1>1, <1>2, <1>3, <1>4, <1>5, <1>6, <1>7, <1>8 DEF PayloadSteps

LEMMA LocksClient ==
    ASSUME CoverInv, LocksHeld, NEW r \in Requests, NEW c \in Channels, ClientAsks(r, c)
    PROVE  LocksHeld'
<1>1. pc[r] \in Inside /\ pc[r] \in Running /\ walletLock = r
  BY DEF ClientAsks, AskVoucher, AskOpen, AskTopUp, At, Inside, Running, LocksHeld
<1>2. \/ Finish(r, "refused")
      \/ \E k : Consider(r, k) \/ CommitVoucher(r, k)
  BY DEF ClientAsks, AskVoucher, AskOpen, AskTopUp, Refuse
<1>3. ASSUME NEW k, Consider(r, k) PROVE LocksHeld'
  <2>1. walletLock' = r /\ pc' = [pc EXCEPT ![r] = "reading"] /\ UNCHANGED <<agentLock, aux>>
    BY <1>1, <1>3 DEF Consider, locks
  <2> QED BY <1>1, <2>1, LocksMove DEF Inside
<1> QED BY <1>1, <1>2, <1>3, LocksFinish, LocksCommit

LEMMA LocksAux ==
    ASSUME CoverInv, LocksHeld, NEW a \in Agents, IndexSteps(a) PROVE LocksHeld'
<1>1. /\ UNCHANGED <<pc, walletLock>> /\ \A b \in Agents : b # a => aux'[b] = aux[b]
  BY DEF IndexSteps, Recover, FoundClosed, EndAux, Follow, ReadForLift, StoreRecovered, Lift, Turn, locks,
         CoverInv, Shapes
<1>2. CASE agentLock[a] = NoOne /\ agentLock' = [agentLock EXCEPT ![a] = a]
  <2>1. agentLock'[a] = a /\ agentLock' = [b \in Agents |-> agentLock'[b]]
        /\ \A b \in Agents : b # a => agentLock'[b] = agentLock[b]
    BY <1>2 DEF LocksHeld
  <2> QED BY <1>1, <1>2, <2>1, Apart DEF LocksHeld
<1>3. CASE agentLock' = agentLock /\ aux[a].doing # "nothing"
  BY <1>1, <1>3 DEF LocksHeld
<1>4. CASE /\ agentLock' = [agentLock EXCEPT ![a] = NoOne] /\ aux[a].doing # "nothing"
           /\ aux' = [aux EXCEPT ![a] = Resting]
  <2>1. agentLock' = [b \in Agents |-> agentLock'[b]]
        /\ \A b \in Agents : b # a => agentLock'[b] = agentLock[b]
    BY <1>4 DEF LocksHeld
  <2>2. aux'[a].doing = "nothing" /\ agentLock[a] = a
    BY <1>4 DEF LocksHeld, CoverInv, Shapes, Resting
  <2> QED BY <1>1, <2>1, <2>2, Apart DEF LocksHeld
<1>5. ASSUME Recover(a) \/ \E c \in Channels : ReadForLift(a, c)
      PROVE  agentLock[a] = NoOne /\ agentLock' = [agentLock EXCEPT ![a] = a]
  BY <1>5 DEF Recover, ReadForLift, AgentFree
<1>6. ASSUME FoundClosed(a) \/ (\E c \in Channels : Follow(a, c)) \/ \E n : StoreRecovered(a, n)
      PROVE  agentLock' = agentLock /\ aux[a].doing # "nothing"
  BY <1>6 DEF FoundClosed, Follow, StoreRecovered, locks
<1>7. ASSUME EndAux(a) \/ \E n : Lift(a, n)
      PROVE  /\ agentLock' = [agentLock EXCEPT ![a] = NoOne] /\ aux[a].doing # "nothing"
             /\ aux' = [aux EXCEPT ![a] = Resting]
  BY <1>7 DEF EndAux, Lift, Turn
<1> QED BY <1>2, <1>3, <1>4, <1>5, <1>6, <1>7 DEF IndexSteps

LEMMA LocksStep == CoverInv /\ LocksHeld /\ [Next]_vars => LocksHeld'
<1> SUFFICES ASSUME CoverInv, LocksHeld, [Next]_vars PROVE LocksHeld'
  OBVIOUS
<1>1. ASSUME NEW c \in Channels, NEW n \in Counts, Refund(c, n) PROVE LocksHeld'
  BY <1>1, LocksRest DEF Refund, locks
<1>2. ASSUME NEW c \in Channels, ChainSteps(c) PROVE LocksHeld'
  BY <1>2, LocksRest DEF ChainSteps, Land, Drop, CloseOut, locks
<1>3. ASSUME Crash PROVE LocksHeld'
  <2>1. /\ agentLock' = [a \in Agents |-> NoOne] /\ aux' = [a \in Agents |-> Resting]
        /\ pc' = [r \in Requests |-> IF pc[r] \in Ongoing THEN "lost" ELSE pc[r]]
    BY <1>3 DEF Crash
  <2>2. \A r \in Requests : pc'[r] \notin Running
    BY <2>1 DEF Ongoing, Running, Inside
  <2> QED BY <2>1, <2>2 DEF LocksHeld, Running, Resting
<1>4. ASSUME UNCHANGED vars PROVE LocksHeld'
  BY <1>4, LocksRest DEF vars, locks
<1> QED BY <1>1, <1>2, <1>3, <1>4, LocksPayload, LocksClient, LocksAux DEF Next

-----------------------------------------------------------------------------
(***************************************************************************)
(* What the chain will show: only a channel that landed holds anything,    *)
(* and what landed late is part of it.                                     *)
(***************************************************************************)
Fields == {"state", "amount", "flying", "awaited", "late"}

IsShown(x) ==
    /\ DOMAIN x = Fields
    /\ x.amount \in Nat /\ x.flying \in Nat /\ x.late \in Nat
    /\ x.late <= x.amount
    /\ x.state # "landed" => x.amount = 0

ChainInv ==
    /\ chain = [ch \in Channels |-> chain[ch]]
    /\ \A ch \in Channels : IsShown(chain[ch])

LEMMA ChainInit == Init => ChainInv
BY DEF Init, ChainInv, IsShown, Fields, NotOnChain

LEMMA ChainMoves ==
    ASSUME ChainInv, NEW c \in Channels, NEW x, IsShown(x), chain' = [chain EXCEPT ![c] = x]
    PROVE  ChainInv'
<1>1. chain' = [ch \in Channels |-> chain'[ch]] /\ \A ch \in Channels : chain'[ch] = IF ch = c THEN x ELSE chain[ch]
  BY DEF ChainInv
<1>2. ASSUME NEW ch \in Channels PROVE IsShown(chain'[ch])
  BY <1>1 DEF ChainInv
<1> QED BY <1>1, <1>2 DEF ChainInv, IsShown

LEMMA HandsOver ==
    ASSUME CoverInv, ChainInv, NEW r \in Requests, HandOver(r), ask[r].kind # "voucher"
    PROVE  \E c \in Channels :
           /\ c = ask[r].ch /\ ask[r].deposit \in Nat
           /\ chain' = [chain EXCEPT ![c] = chain'[c]]
           /\ DOMAIN chain'[c] = Fields /\ chain'[c].state = chain[c].state
           /\ chain'[c].amount = chain[c].amount /\ chain'[c].late = chain[c].late
           /\ chain'[c].flying = chain[c].flying + ask[r].deposit /\ chain'[c].awaited
<1> DEFINE c == ask[r].ch
<1>1. ask[r].deposit \in Nat /\ c \in Channels
  BY DEF HandOver, At, CoverInv, AsksCovered, IsAsk
<1>2. chain' = [chain EXCEPT ![c].flying = @ + ask[r].deposit, ![c].awaited = TRUE]
  BY DEF HandOver
<1>3. chain = [ch \in Channels |-> chain[ch]] /\ DOMAIN chain[c] = Fields
  BY <1>1 DEF ChainInv, IsShown
<1> HIDE DEF c
<1> DEFINE h == [chain EXCEPT ![c].flying = @ + ask[r].deposit]
<1>4. chain' = [h EXCEPT ![c].awaited = TRUE]
  BY <1>2
<1>5. /\ h[c] = [chain[c] EXCEPT !.flying = @ + ask[r].deposit] /\ h = [x \in Channels |-> h[x]]
      /\ \A x \in Channels : x # c => h[x] = chain[x]
  BY <1>1, <1>3
<1> HIDE DEF h
<1>6. /\ chain'[c] = [h[c] EXCEPT !.awaited = TRUE] /\ chain' = [x \in Channels |-> chain'[x]]
      /\ \A x \in Channels : x # c => chain'[x] = h[x]
  BY <1>1, <1>4, <1>5
<1>7. /\ DOMAIN h[c] = Fields /\ h[c].state = chain[c].state /\ h[c].amount = chain[c].amount
      /\ h[c].late = chain[c].late /\ h[c].flying = chain[c].flying + ask[r].deposit
  BY <1>3, <1>5 DEF Fields
<1>8. /\ DOMAIN chain'[c] = Fields /\ chain'[c].state = h[c].state /\ chain'[c].amount = h[c].amount
      /\ chain'[c].late = h[c].late /\ chain'[c].flying = h[c].flying /\ chain'[c].awaited
  BY <1>6, <1>7 DEF Fields
<1>9. chain' = [chain EXCEPT ![c] = chain'[c]]
  BY <1>3, <1>5, <1>6
<1>10. c = ask[r].ch
  BY DEF c
<1> QED BY <1>1, <1>7, <1>8, <1>9, <1>10

LEMMA ChainStays ==
    ASSUME NEW r \in Requests, PayloadSteps(r) \/ Approve(r) \/ Unqueue(r), ~HandOver(r)
    PROVE  chain' = chain
BY DEF PayloadSteps, Begin, Unreadable, Refuse, Enter, ClientFails, ReadLocked, Fund, CommitVoucher, Resign,
       Deny, Queue, Store, Audit, Undelivered, Approve, Unqueue, world

LEMMA ChainStaysAsked ==
    ASSUME NEW r \in Requests, NEW c \in Channels, ClientAsks(r, c)
    PROVE  chain' = chain
BY DEF ClientAsks, AskVoucher, AskOpen, AskTopUp, Consider, CommitVoucher, Refuse, Resign, Deny, Queue,
       Store, world

LEMMA ChainStaysIndexed ==
    ASSUME NEW a \in Agents, IndexSteps(a) PROVE chain' = chain
BY DEF IndexSteps, Recover, FoundClosed, EndAux, Follow, ReadForLift, StoreRecovered, Lift, world

LEMMA ChainInvStep == CoverInv /\ ChainInv /\ [Next]_vars => ChainInv'
<1> SUFFICES ASSUME CoverInv, ChainInv, [Next]_vars PROVE ChainInv'
  OBVIOUS
<1>1. ASSUME chain' = chain PROVE ChainInv'
  BY <1>1 DEF ChainInv
<1>2. ASSUME NEW r \in Requests, HandOver(r) PROVE ChainInv'
  <2>1. CASE ask[r].kind = "voucher"
    BY <1>1, <1>2, <2>1 DEF HandOver
  <2>2. CASE ask[r].kind # "voucher"
    <3>1. PICK c \in Channels :
             /\ c = ask[r].ch /\ ask[r].deposit \in Nat
             /\ chain' = [chain EXCEPT ![c] = chain'[c]]
             /\ DOMAIN chain'[c] = Fields /\ chain'[c].state = chain[c].state
             /\ chain'[c].amount = chain[c].amount /\ chain'[c].late = chain[c].late
             /\ chain'[c].flying = chain[c].flying + ask[r].deposit
      BY <1>2, <2>2, HandsOver
    <3>3. IsShown(chain'[c])
      BY <3>1 DEF ChainInv, IsShown
    <3> QED BY <3>1, <3>3, ChainMoves
  <2> QED BY <2>1, <2>2
<1>3. ASSUME NEW c \in Channels, ChainSteps(c) PROVE ChainInv'
  <2>1. CASE Land(c)
    <3> DEFINE x == [state |-> "landed", amount |-> chain[c].amount + chain[c].flying, flying |-> 0,
                     awaited |-> FALSE,
                     late |-> IF chain[c].awaited THEN chain[c].late ELSE chain[c].late + chain[c].flying]
    <3>1. chain' = [chain EXCEPT ![c] = x]
      BY <2>1 DEF Land
    <3>2. IsShown(x)
      BY DEF ChainInv, IsShown, Fields
    <3> QED BY <3>1, <3>2, ChainMoves
  <2>2. CASE Drop(c)
    <3> DEFINE x == [state |-> IF chain[c].state = "none" THEN "gone" ELSE chain[c].state,
                     amount |-> chain[c].amount, flying |-> 0, awaited |-> FALSE, late |-> chain[c].late]
    <3>1. chain' = [chain EXCEPT ![c] = x]
      BY <2>2 DEF Drop
    <3>2. IsShown(x)
      BY DEF ChainInv, IsShown, Fields
    <3> QED BY <3>1, <3>2, ChainMoves
  <2>3. CASE CloseOut(c)
    <3> DEFINE x == [NotOnChain EXCEPT !.state = "gone"]
    <3>1. chain' = [chain EXCEPT ![c] = x]
      BY <2>3 DEF CloseOut
    <3>2. IsShown(x)
      BY DEF NotOnChain, IsShown, Fields
    <3> QED BY <3>1, <3>2, ChainMoves
  <2> QED BY <1>3, <2>1, <2>2, <2>3 DEF ChainSteps
<1>4. ASSUME Crash PROVE ChainInv'
  <2>1. chain' = [ch \in Channels |-> [chain[ch] EXCEPT !.awaited = FALSE]]
    BY <1>4 DEF Crash
  <2>2. ASSUME NEW ch \in Channels PROVE IsShown(chain'[ch])
    BY <2>1 DEF ChainInv, IsShown, Fields
  <2> QED BY <2>1, <2>2 DEF ChainInv, IsShown
<1>5. ASSUME NEW c \in Channels, NEW n \in Counts, Refund(c, n) PROVE ChainInv'
  BY <1>1, <1>5 DEF Refund
<1>6. ASSUME UNCHANGED vars PROVE ChainInv'
  BY <1>1, <1>6 DEF vars, world
<1> QED BY <1>1, <1>2, <1>3, <1>4, <1>5, <1>6, ChainStays, ChainStaysAsked, ChainStaysIndexed DEF Next

-----------------------------------------------------------------------------
(***************************************************************************)
(* While every file is as the daemon left it, the index is ahead of        *)
(* everyone: of what sellers hold, of the records, of what a request or a  *)
(* seller's answer read from it under its agent's lock.  A channel the     *)
(* index does not have was never handed over, so no recovery finds one.    *)
(***************************************************************************)
Owned(ch, a) == index[ch] # NoEntry /\ index[ch].agent = a

SellersKnown ==
    \A ch \in Channels :
        /\ chain[ch].state = "landed" \/ chain[ch].flying > 0 => index[ch] # NoEntry
        /\ handed[ch] > 0 => index[ch] # NoEntry
        /\ index[ch] # NoEntry => handed[ch] <= index[ch].signedMax

LogBelow ==
    \A s \in log : /\ s.ch \in Channels /\ s.upTo \in Nat /\ s.amount \in Nat
                   /\ index[s.ch] # NoEntry /\ s.upTo <= index[s.ch].signedMax

LogApart ==
    \A s1, s2 \in log : s1 # s2 => UnitsOfVoucher(s1) \cap UnitsOfVoucher(s2) = {}

Considered(r, k) ==
    /\ k.entry.agent = AgentOf(r)
    /\ k.kind = "open" => /\ index[k.ch] = NoEntry
                          /\ k.entry.signedMax = 0 /\ k.entry.status = "open" /\ k.upTo > 0
    /\ k.kind # "open" => Owned(k.ch, AgentOf(r)) /\ index[k.ch].signedMax = k.entry.signedMax

AskFresh(r) ==
    /\ pc[r] \in {"reading", "deciding"} => Considered(r, ask[r])
    /\ pc[r] = "reading" /\ ask[r].kind # "open" => index[ask[r].ch] = ask[r].entry
    /\ pc[r] \in {"indexed", "authorized"} =>
          Owned(ask[r].ch, AgentOf(r)) /\ ask[r].upTo <= index[ask[r].ch].signedMax
    /\ pc[r] = "indexed" => \A s \in log : s.ch = ask[r].ch => s.upTo <= ask[r].entry.signedMax

LiftFresh(a) ==
    /\ aux[a].doing # "following"
    /\ aux[a].doing = "lifting" /\ aux[a].entry.agent = a =>
          Owned(aux[a].ch, a) /\ index[aux[a].ch].signedMax = aux[a].entry.signedMax

Fresh ==
    /\ SellersKnown /\ LogBelow /\ LogApart
    /\ \A r \in Requests : AskFresh(r)
    /\ \A a \in Agents : LiftFresh(a)

FreshInv == intact => Fresh

LEMMA FreshInit == Init => FreshInv
BY DEF Init, FreshInv, Fresh, SellersKnown, LogBelow, LogApart, AskFresh, LiftFresh, Resting, NotOnChain

(***************************************************************************)
(* Nothing but one request moves.                                          *)
(***************************************************************************)
LEMMA FreshMoves ==
    ASSUME Fresh, UNCHANGED <<index, log, chain, handed, aux>>, NEW r \in Requests,
           \A q \in Requests : q # r => pc'[q] = pc[q] /\ ask'[q] = ask[q],
           AskFresh(r)'
    PROVE  Fresh'
<1>1. SellersKnown' /\ LogBelow' /\ LogApart'
  BY DEF Fresh, SellersKnown, LogBelow, LogApart, UnitsOfVoucher
<1>2. \A a \in Agents : LiftFresh(a)'
  BY DEF Fresh, LiftFresh, Owned
<1>3. ASSUME NEW q \in Requests, q # r PROVE AskFresh(q)'
  BY <1>3 DEF Fresh, AskFresh, Considered, Owned, AgentOf
<1> QED BY <1>1, <1>2, <1>3 DEF Fresh

LEMMA FreshEnds ==
    ASSUME CoverInv, Fresh, UNCHANGED <<files, world, aux>>, NEW r \in Requests,
           NEW place, place \notin Asking \cup {"authorized"},
           pc' = [pc EXCEPT ![r] = place], NEW k, ask' = [ask EXCEPT ![r] = k]
    PROVE  Fresh'
<1>1. \A q \in Requests : q # r => pc'[q] = pc[q] /\ ask'[q] = ask[q]
  BY DEF CoverInv, Shapes
<1>2. pc'[r] = place
  BY DEF CoverInv, Shapes
<1>3. AskFresh(r)'
  BY <1>2 DEF AskFresh, Asking
<1> QED BY <1>1, <1>3, FreshMoves DEF files, world

LEMMA FreshRefuse ==
    ASSUME CoverInv, Fresh, NEW r \in Requests, Refuse(r) PROVE Fresh'
<1>1. /\ UNCHANGED <<files, world, aux>> /\ pc' = [pc EXCEPT ![r] = "refused"]
      /\ ask' = [ask EXCEPT ![r] = NoAsk]
  BY DEF Refuse, Finish
<1>2. "refused" \notin Asking \cup {"authorized"}
  BY DEF Asking
<1> QED BY <1>1, <1>2, FreshEnds

(***************************************************************************)
(* commitVoucher, by a request that holds its agent's lock and has what    *)
(* the index says.                                                         *)
(***************************************************************************)
LEMMA FreshStore ==
    ASSUME CoverInv, LocksHeld, Fresh, NEW r \in Requests, pc[r] \in Inside, NEW k, IsAsk(k),
           k.ch \in Channels, k.entry \in Entries, Considered(r, k), Store(r, k)
    PROVE  Fresh'
<1>1. /\ Increment(k) > 0 /\ index' = [index EXCEPT ![k.ch] = Entered(k.entry, k)]
      /\ pc' = [pc EXCEPT ![r] = "indexed"] /\ ask' = [ask EXCEPT ![r] = k]
      /\ UNCHANGED <<log, aux, handed, chain>>
  BY DEF Store, world
<1>2. /\ k.upTo \in Nat /\ k.entry.signedMax \in Nat /\ k.entry.signedMax < k.upTo
      /\ Entered(k.entry, k) \in Entries /\ Entered(k.entry, k).signedMax = k.upTo
      /\ Entered(k.entry, k).agent = AgentOf(r)
  BY <1>1 DEF IsAsk, Entries, Increment, Entered, Considered
<1>3. /\ index'[k.ch] = Entered(k.entry, k) /\ index'[k.ch] # NoEntry
      /\ \A ch \in Channels : ch # k.ch => index'[ch] = index[ch]
  BY <1>1, <1>2, VouchersAssumption DEF CoverInv, IndexCovered
<1>4. /\ index[k.ch] # NoEntry => Owned(k.ch, AgentOf(r)) /\ index[k.ch].signedMax = k.entry.signedMax
      /\ \A s \in log : s.ch = k.ch => s.upTo <= k.entry.signedMax
  BY DEF Considered, Fresh, LogBelow
<1>5. SellersKnown'
  <2>1. handed[k.ch] \in Nat /\ handed[k.ch] <= k.upTo
    BY <1>2, <1>4 DEF Fresh, SellersKnown, CoverInv, Shapes
  <2>2. ASSUME NEW ch \in Channels
        PROVE  /\ chain[ch].state = "landed" \/ chain[ch].flying > 0 => index'[ch] # NoEntry
               /\ handed[ch] > 0 => index'[ch] # NoEntry
               /\ index'[ch] # NoEntry => handed[ch] <= index'[ch].signedMax
    BY <1>2, <1>3, <2>1 DEF Fresh, SellersKnown
  <2> QED BY <1>1, <2>2 DEF SellersKnown
<1>6. LogBelow'
  <2> SUFFICES ASSUME NEW s \in log
               PROVE  /\ s.ch \in Channels /\ s.upTo \in Nat /\ s.amount \in Nat
                      /\ index'[s.ch] # NoEntry /\ s.upTo <= index'[s.ch].signedMax
    BY <1>1 DEF LogBelow
  <2>1. /\ s.ch \in Channels /\ s.upTo \in Nat /\ s.amount \in Nat
        /\ index[s.ch] # NoEntry /\ s.upTo <= index[s.ch].signedMax
    BY DEF Fresh, LogBelow
  <2>2. CASE s.ch = k.ch
    <3>1. s.upTo <= k.entry.signedMax
      BY <1>4, <2>2
    <3> QED BY <1>2, <1>3, <2>1, <2>2, <3>1
  <2>3. CASE s.ch # k.ch
    BY <1>3, <2>1, <2>3
  <2> QED BY <2>2, <2>3
<1>7. LogApart'
  BY <1>1 DEF Fresh, LogApart, UnitsOfVoucher
<1>8. ASSUME NEW q \in Requests PROVE AskFresh(q)'
  <2>1. CASE q = r
    <3>1. pc'[q] = "indexed" /\ ask'[q] = k
      BY <1>1, <2>1 DEF CoverInv, Shapes
    <3>2. Owned(k.ch, AgentOf(q))' /\ k.upTo <= index'[k.ch].signedMax
      BY <1>2, <1>3, <2>1 DEF Owned, AgentOf
    <3> QED BY <1>1, <1>4, <3>1, <3>2 DEF AskFresh
  <2>2. CASE q # r
    <3>1. pc'[q] = pc[q] /\ pc[q] \notin Inside
      BY <1>1, <2>2, OneInside DEF CoverInv, Shapes
    <3> QED BY <3>1 DEF AskFresh, Inside
  <2> QED BY <2>1, <2>2
<1>9. ASSUME NEW a \in Agents PROVE LiftFresh(a)'
  <2>1. aux'[a] = aux[a] /\ aux[a].doing # "following"
    BY <1>1 DEF Fresh, LiftFresh
  <2>2. ASSUME aux[a].doing = "lifting", aux[a].entry.agent = a
        PROVE  Owned(aux[a].ch, a)' /\ index'[aux[a].ch].signedMax = aux[a].entry.signedMax
    <3>1. Owned(aux[a].ch, a) /\ index[aux[a].ch].signedMax = aux[a].entry.signedMax
      BY <2>2 DEF Fresh, LiftFresh
    <3>2. a # AgentOf(r)
      BY <2>2, NoAuxBeside DEF Running
    <3>3. aux[a].ch \in Channels /\ aux[a].ch # k.ch
      BY <2>2, <3>1, <3>2, <1>4 DEF CoverInv, AuxSound, Owned
    <3> QED BY <3>1, <3>3, <1>1, <1>3 DEF Owned
  <2> QED BY <2>1, <2>2 DEF LiftFresh
<1> QED BY <1>5, <1>6, <1>7, <1>8, <1>9 DEF Fresh

LEMMA FreshCommit ==
    ASSUME CoverInv, LocksHeld, Fresh, NEW r \in Requests, pc[r] \in Inside, NEW k, IsAsk(k),
           k.ch \in Channels, k.entry \in Entries, Considered(r, k), CommitVoucher(r, k)
    PROVE  Fresh'
<1>1. CASE Resign(r, k)
  <2>1. /\ pc' = [pc EXCEPT ![r] = "authorized"] /\ ask' = [ask EXCEPT ![r] = k]
        /\ Increment(k) = 0 /\ UNCHANGED <<index, log, chain, handed, aux>>
    BY <1>1 DEF Resign, files, world
  <2>2. /\ pc'[r] = "authorized" /\ ask'[r] = k
        /\ \A q \in Requests : q # r => pc'[q] = pc[q] /\ ask'[q] = ask[q]
    BY <2>1 DEF CoverInv, Shapes
  <2>3. k.upTo <= k.entry.signedMax
    BY <2>1 DEF Increment, IsAsk, Entries
  <2>4. k.kind # "open"
    <3> SUFFICES ASSUME k.kind = "open" PROVE FALSE
      OBVIOUS
    <3> QED BY <2>3 DEF Considered, IsAsk
  <2>5. AskFresh(r)'
    BY <2>1, <2>2, <2>3, <2>4 DEF AskFresh, Considered, Owned, IsAsk, Entries
  <2> QED BY <2>1, <2>2, <2>5, FreshMoves
<1>2. CASE Deny(r, k)
  BY <1>2, FreshRefuse DEF Deny
<1>3. CASE Queue(r, k)
  <2>1. /\ UNCHANGED <<files, world, aux>> /\ pc' = [pc EXCEPT ![r] = "queued"]
        /\ ask' = [ask EXCEPT ![r] = NoAsk]
    BY <1>3 DEF Queue
  <2>2. "queued" \notin Asking \cup {"authorized"}
    BY DEF Asking
  <2> QED BY <2>1, <2>2, FreshEnds
<1> QED BY <1>1, <1>2, <1>3, FreshStore DEF CommitVoucher

(***************************************************************************)
(* The record: it starts above every other of the channel.                 *)
(***************************************************************************)
LEMMA FreshAudit ==
    ASSUME CoverInv, LocksHeld, Fresh, NEW r \in Requests, Audit(r)
    PROVE  Fresh'
<1> DEFINE k == ask[r]
           v == VoucherSpend(r, k)
<1>1. /\ sync = r /\ log' = log \cup {v} /\ pc' = [pc EXCEPT ![r] = "authorized"]
      /\ UNCHANGED <<index, ask, chain, handed, aux>>
  BY DEF Audit, world
<1>2. /\ pc[r] = "indexed" /\ IsAsk(k) /\ Increment(k) > 0 /\ k.ch \in Channels /\ k.entry \in Entries
  BY <1>1 DEF CoverInv, AsksCovered, Asking
<1>3. /\ Owned(k.ch, AgentOf(r)) /\ k.upTo <= index[k.ch].signedMax
      /\ \A s \in log : s.ch = k.ch => s.upTo <= k.entry.signedMax
  BY <1>2 DEF Fresh, AskFresh
<1>4. v.ch = k.ch /\ v.upTo = k.upTo /\ v.amount = Increment(k)
  BY DEF VoucherSpend
<1>5. /\ k.upTo \in Nat /\ k.entry.signedMax \in Nat /\ Increment(k) \in Nat
  BY <1>2 DEF IsAsk, Entries, Increment
<1>6. \A ch, u : <<ch, u>> \in UnitsOfVoucher(v) <=> ch = k.ch /\ u \in k.entry.signedMax + 1 .. k.upTo
  BY <1>2, SpendUnits
<1> HIDE DEF k, v
<1>7. LogBelow'
  BY <1>1, <1>2, <1>3, <1>4, <1>5 DEF Fresh, LogBelow, Owned
<1>8. ASSUME NEW s \in log PROVE UnitsOfVoucher(s) \cap UnitsOfVoucher(v) = {}
  <2> SUFFICES ASSUME NEW x \in UnitsOfVoucher(s), x \in UnitsOfVoucher(v) PROVE FALSE
    OBVIOUS
  <2>1. PICK u \in s.upTo - s.amount + 1 .. s.upTo : x = <<s.ch, u>>
    BY DEF UnitsOfVoucher
  <2>2. s.upTo \in Nat /\ s.amount \in Nat
    BY DEF Fresh, LogBelow
  <2>3. s.ch = k.ch /\ u \in k.entry.signedMax + 1 .. k.upTo
    BY <2>1, <1>6
  <2>4. s.upTo <= k.entry.signedMax
    BY <2>3, <1>3
  <2> QED BY <2>2, <2>3, <2>4, <2>1, <1>5
<1>9. LogApart'
  <2> SUFFICES ASSUME NEW s1 \in log', NEW s2 \in log', s1 # s2
               PROVE  UnitsOfVoucher(s1) \cap UnitsOfVoucher(s2) = {}
    BY DEF LogApart, UnitsOfVoucher
  <2>1. CASE s1 \in log /\ s2 \in log
    BY <2>1 DEF Fresh, LogApart
  <2>2. CASE s1 = v \/ s2 = v
    BY <1>1, <1>8, <2>2
  <2> QED BY <1>1, <2>1, <2>2
<1>10. SellersKnown'
  BY <1>1 DEF Fresh, SellersKnown
<1>11. \A a \in Agents : LiftFresh(a)'
  BY <1>1 DEF Fresh, LiftFresh, Owned
<1>12. ASSUME NEW q \in Requests PROVE AskFresh(q)'
  <2>1. CASE q = r
    <3>1. pc'[q] = "authorized" /\ ask'[q] = k
      BY <1>1, <2>1 DEF CoverInv, Shapes, k
    <3> QED BY <1>1, <1>3, <2>1, <3>1 DEF AskFresh, Owned, AgentOf
  <2>2. CASE q # r
    <3>1. pc'[q] = pc[q] /\ pc[q] \notin Inside
      BY <1>1, <1>2, <2>2, OneInside DEF CoverInv, Shapes, Inside
    <3> QED BY <3>1 DEF AskFresh, Inside
  <2> QED BY <2>1, <2>2
<1> QED BY <1>7, <1>9, <1>10, <1>11, <1>12 DEF Fresh

(***************************************************************************)
(* Something is handed over, at most up to what the index says.            *)
(***************************************************************************)
LEMMA KnownHands ==
    ASSUME CoverInv, Fresh, NEW c \in Channels, NEW n \in Nat, index[c] # NoEntry, n <= index[c].signedMax,
           handed' = [handed EXCEPT ![c] = Larger(@, n)], index' = index,
           \A ch \in Channels : ch # c => chain'[ch] = chain[ch]
    PROVE  SellersKnown'
<1>1. handed[c] \in Nat /\ handed'[c] = Larger(handed[c], n)
      /\ \A ch \in Channels : ch # c => handed'[ch] = handed[ch]
  BY DEF CoverInv, Shapes
<1>2. handed'[c] <= index[c].signedMax
  BY <1>1 DEF Larger, Fresh, SellersKnown
<1> QED BY <1>1, <1>2 DEF Fresh, SellersKnown

LEMMA FreshHandOver ==
    ASSUME CoverInv, ChainInv, LocksHeld, Fresh, NEW r \in Requests, HandOver(r)
    PROVE  Fresh'
<1>1. /\ pc[r] = "authorized" /\ UNCHANGED <<index, log, aux>>
      /\ handed' = [handed EXCEPT ![ask[r].ch] = Larger(@, ask[r].upTo)]
      /\ pc' = [pc EXCEPT ![r] = "paid"]
      /\ \A ch \in Channels : ch # ask[r].ch => chain'[ch] = chain[ch]
  <2>1. \A ch \in Channels : ch # ask[r].ch => chain'[ch] = chain[ch]
    <3>1. CASE ask[r].kind = "voucher"
      BY <3>1 DEF HandOver
    <3>2. CASE ask[r].kind # "voucher"
      <4>1. PICK c \in Channels : c = ask[r].ch /\ chain' = [chain EXCEPT ![c] = chain'[c]]
        BY <3>2, HandsOver
      <4> QED BY <4>1 DEF ChainInv
    <3> QED BY <3>1, <3>2
  <2> QED BY <2>1 DEF HandOver, At, Finish, files
<1>2. /\ ask[r].ch \in Channels /\ ask[r].upTo \in Nat /\ index[ask[r].ch] # NoEntry
      /\ ask[r].upTo <= index[ask[r].ch].signedMax
  BY <1>1 DEF CoverInv, AsksCovered, IsAsk, Fresh, AskFresh, Owned
<1>3. SellersKnown'
  BY <1>1, <1>2, KnownHands
<1>4. LogBelow' /\ LogApart' /\ \A a \in Agents : LiftFresh(a)'
  BY <1>1 DEF Fresh, LogBelow, LogApart, UnitsOfVoucher, LiftFresh, Owned
<1>5. ASSUME NEW q \in Requests PROVE AskFresh(q)'
  <2>1. CASE q = r
    BY <1>1, <2>1 DEF CoverInv, Shapes, AskFresh
  <2>2. CASE q # r
    <3>1. pc'[q] = pc[q] /\ pc[q] \notin Inside
      BY <1>1, <2>2, OneInside DEF CoverInv, Shapes, Inside
    <3> QED BY <3>1 DEF AskFresh, Inside
  <2> QED BY <2>1, <2>2
<1> QED BY <1>3, <1>4, <1>5 DEF Fresh

(***************************************************************************)
(* What lockedBy answers is all that changes of what a request asks.       *)
(***************************************************************************)
LEMMA ReadsLocked ==
    ASSUME CoverInv, NEW r \in Requests, ReadLocked(r)
    PROVE  /\ pc[r] = "reading" /\ pc'[r] = "deciding" /\ Idle
           /\ \A q \in Requests : q # r => pc'[q] = pc[q] /\ ask'[q] = ask[q]
           /\ ask'[r].kind = ask[r].kind /\ ask'[r].ch = ask[r].ch /\ ask'[r].upTo = ask[r].upTo
           /\ ask'[r].deposit = ask[r].deposit /\ ask'[r].entry = ask[r].entry
           /\ ask'[r].policy = ask[r].policy /\ ask'[r].locked = LockedBy(AgentOf(r))
           /\ UNCHANGED <<log, handed, chain, aux>>
<1>1. /\ pc[r] = "reading" /\ Idle /\ pc' = [pc EXCEPT ![r] = "deciding"]
      /\ ask' = [ask EXCEPT ![r].locked = LockedBy(AgentOf(r))] /\ UNCHANGED <<log, handed, chain, aux>>
  BY DEF ReadLocked, At, world
<1>2. IsAsk(ask[r])
  BY DEF CoverInv, AsksCovered
<1>3. PICK locked, from :
         ask[r] \in [kind : {"none", "voucher", "open", "topUp"}, ch : Channels \cup {NoOne},
                     upTo : Nat, deposit : Nat, locked : {locked},
                     entry : Entries \cup {NoEntry}, policy : {from}]
  BY <1>2 DEF IsAsk
<1>4. /\ ask'[r] = [ask[r] EXCEPT !.locked = LockedBy(AgentOf(r))]
      /\ \A q \in Requests : q # r => pc'[q] = pc[q] /\ ask'[q] = ask[q]
      /\ pc'[r] = "deciding"
  BY <1>1 DEF CoverInv, Shapes
<1> QED BY <1>1, <1>3, <1>4

(***************************************************************************)
(* And of the index, that the agent's channels found spent are closed.     *)
(***************************************************************************)
LEMMA OnlyCloses ==
    ASSUME CoverInv, NEW r \in Requests, ReadLocked(r), NEW ch \in Channels
    PROVE  /\ index[ch] = NoEntry <=> index'[ch] = NoEntry
           /\ index[ch] # NoEntry => /\ index'[ch].agent = index[ch].agent
                                     /\ index'[ch].signedMax = index[ch].signedMax
                                     /\ index'[ch].status = index[ch].status
                                          \/ index'[ch].status = "closed"
           /\ (ch \notin OpenChannels(AgentOf(r)) \/ chain[ch].state # "gone") => index'[ch] = index[ch]
<1>1. index[ch] \in Entries \cup {NoEntry}
  BY DEF CoverInv, IndexCovered
<1>2. \/ index'[ch] = index[ch]
      \/ /\ index[ch] # NoEntry /\ index'[ch] = [index[ch] EXCEPT !.status = "closed"]
         /\ ch \in OpenChannels(AgentOf(r)) /\ chain[ch].state = "gone"
  BY DEF ReadLocked, OpenChannels
<1>3. CASE index'[ch] = index[ch]
  BY <1>3
<1>4. CASE /\ index[ch] # NoEntry /\ index'[ch] = [index[ch] EXCEPT !.status = "closed"]
           /\ ch \in OpenChannels(AgentOf(r)) /\ chain[ch].state = "gone"
  <2>1. /\ index'[ch] \in Entries /\ index'[ch].agent = index[ch].agent
        /\ index'[ch].signedMax = index[ch].signedMax /\ index'[ch].status = "closed"
    BY <1>1, <1>4 DEF Entries
  <2> QED BY <1>4, <2>1, VouchersAssumption
<1> QED BY <1>2, <1>3, <1>4

LEMMA FreshReadLocked ==
    ASSUME CoverInv, LocksHeld, Fresh, NEW r \in Requests, ReadLocked(r)
    PROVE  Fresh'
<1>1. /\ pc[r] = "reading" /\ pc'[r] = "deciding" /\ Idle
      /\ \A q \in Requests : q # r => pc'[q] = pc[q] /\ ask'[q] = ask[q]
      /\ ask'[r].kind = ask[r].kind /\ ask'[r].ch = ask[r].ch /\ ask'[r].upTo = ask[r].upTo
      /\ ask'[r].entry = ask[r].entry
      /\ UNCHANGED <<log, handed, chain, aux>>
  BY ReadsLocked
<1>2. \A ch \in Channels :
         /\ index[ch] = NoEntry <=> index'[ch] = NoEntry
         /\ index[ch] # NoEntry => /\ index'[ch].agent = index[ch].agent
                                   /\ index'[ch].signedMax = index[ch].signedMax
  BY OnlyCloses
<1>3. SellersKnown' /\ LogBelow' /\ LogApart'
  BY <1>1, <1>2 DEF Fresh, SellersKnown, LogBelow, LogApart, UnitsOfVoucher
<1>4. \A ch \in Channels, a \in Agents : Owned(ch, a)' <=> Owned(ch, a)
  BY <1>2 DEF Owned
<1>5. ASSUME NEW a \in Agents PROVE LiftFresh(a)'
  BY <1>1, <1>2, <1>4 DEF Fresh, LiftFresh, CoverInv, AuxSound, Owned
<1>6. ask[r].ch \in Channels /\ Considered(r, ask[r])
  BY <1>1 DEF CoverInv, AsksCovered, Asking, Fresh, AskFresh
<1>7. Considered(r, ask[r])'
  BY <1>1, <1>2, <1>4, <1>6, Apart DEF Considered, Owned, AgentOf
<1>8. ASSUME NEW q \in Requests PROVE AskFresh(q)'
  <2>1. CASE q = r
    BY <1>1, <1>7, <2>1 DEF AskFresh
  <2>2. CASE q # r
    <3>1. pc'[q] = pc[q] /\ pc[q] \notin Inside
      BY <1>1, <2>2, OneInside DEF Inside
    <3> QED BY <3>1 DEF AskFresh, Inside
  <2> QED BY <2>1, <2>2
<1> QED BY <1>3, <1>5, <1>8 DEF Fresh

LEMMA FreshPayload ==
    ASSUME CoverInv, ChainInv, LocksHeld, Fresh, NEW r \in Requests,
           PayloadSteps(r) \/ Approve(r) \/ Unqueue(r)
    PROVE  Fresh'
<1>1. CASE Begin(r) \/ Enter(r) \/ Approve(r) \/ Unqueue(r)
  <2>1. /\ ask' = ask /\ UNCHANGED <<files, world, aux>>
        /\ \E place \in {"walletLock", "client", "refused"} : pc' = [pc EXCEPT ![r] = place]
    BY <1>1 DEF Begin, Enter, Approve, Unqueue
  <2>2. ask' = [ask EXCEPT ![r] = ask[r]]
    BY <2>1 DEF CoverInv, Shapes
  <2>3. \A place \in {"walletLock", "client", "refused"} : place \notin Asking \cup {"authorized"}
    BY DEF Asking
  <2> QED BY <2>1, <2>2, <2>3, FreshEnds
<1>2. CASE Unreadable(r) \/ ClientFails(r)
  BY <1>2, FreshRefuse DEF Unreadable, ClientFails
<1>3. CASE Fund(r)
  <2>1. pc[r] = "deciding" /\ pc[r] \in Inside /\ (Refuse(r) \/ CommitVoucher(r, ask[r]))
    BY <1>3 DEF Fund, At, Inside
  <2>2. /\ IsAsk(ask[r]) /\ ask[r].ch \in Channels /\ ask[r].entry \in Entries
        /\ Considered(r, ask[r])
    BY <2>1 DEF CoverInv, AsksCovered, Asking, Fresh, AskFresh
  <2> QED BY <2>1, <2>2, FreshRefuse, FreshCommit
<1>4. CASE Undelivered(r)
  <2>1. /\ UNCHANGED <<files, world, aux>> /\ pc' = [pc EXCEPT ![r] = "undelivered"]
        /\ ask' = [ask EXCEPT ![r] = NoAsk]
    BY <1>4 DEF Undelivered, Finish
  <2>2. "undelivered" \notin Asking \cup {"authorized"}
    BY DEF Asking
  <2> QED BY <2>1, <2>2, FreshEnds
<1> QED BY <1>1, <1>2, <1>3, <1>4, FreshReadLocked, FreshAudit, FreshHandOver DEF PayloadSteps

LEMMA WantsFacts ==
    ASSUME NEW kind \in {"voucher", "open", "topUp"}, NEW c \in Channels, NEW n \in Nat, NEW d \in Nat,
           NEW e \in Entries
    PROVE  /\ IsAsk(Wants(kind, c, n, d, e))
           /\ Wants(kind, c, n, d, e).kind = kind /\ Wants(kind, c, n, d, e).ch = c
           /\ Wants(kind, c, n, d, e).upTo = n /\ Wants(kind, c, n, d, e).deposit = d
           /\ Wants(kind, c, n, d, e).entry = e /\ Wants(kind, c, n, d, e).policy = policy
<1>1. Wants(kind, c, n, d, e) \in [kind : {"none", "voucher", "open", "topUp"}, ch : Channels \cup {NoOne},
                                   upTo : Nat, deposit : Nat, locked : {0},
                                   entry : Entries \cup {NoEntry}, policy : {policy}]
  BY DEF Wants
<1> QED BY <1>1 DEF IsAsk, Wants

LEMMA FreshConsider ==
    ASSUME CoverInv, Fresh, NEW r \in Requests, NEW k, Considered(r, k),
           k.kind # "open" => index[k.ch] = k.entry, Consider(r, k)
    PROVE  Fresh'
<1>1. /\ UNCHANGED <<index, log, chain, handed, aux>>
      /\ pc'[r] = "reading" /\ ask'[r] = k
      /\ \A q \in Requests : q # r => pc'[q] = pc[q] /\ ask'[q] = ask[q]
  BY DEF Consider, files, world, CoverInv, Shapes
<1>2. AskFresh(r)'
  BY <1>1 DEF AskFresh, Considered, Owned, AgentOf
<1> QED BY <1>1, <1>2, FreshMoves

LEMMA FreshClient ==
    ASSUME CoverInv, LocksHeld, Fresh, NEW r \in Requests, NEW c \in Channels, ClientAsks(r, c)
    PROVE  Fresh'
<1>1. /\ Counts \subseteq Nat /\ Deposits \subseteq Nat /\ Q[r].price \in Nat /\ Q[r].price > 0
      /\ AgentOf(r) \in Agents
  BY VouchersAssumption DEF Counts, AgentOf
<1>2. pc[r] \in Inside /\ Idle
  BY DEF ClientAsks, AskVoucher, AskOpen, AskTopUp, At, Inside
<1>3. ASSUME Authorizes(r, c) PROVE index[c] \in Entries /\ Owned(c, AgentOf(r))
  BY <1>3 DEF Authorizes, CoverInv, IndexCovered, Owned
<1>4. ASSUME NEW n \in Counts, AskVoucher(r, c, n) PROVE Fresh'
  <2> DEFINE k == Wants("voucher", c, n, 0, index[c])
  <2>1. \/ Authorizes(r, c) /\ CommitVoucher(r, k)
        \/ Refuse(r)
    BY <1>4 DEF AskVoucher
  <2>2. CASE Authorizes(r, c) /\ CommitVoucher(r, k)
    <3>1. /\ index[c] \in Entries /\ Owned(c, AgentOf(r)) /\ IsAsk(k)
          /\ k.kind = "voucher" /\ k.ch = c /\ k.entry = index[c]
      BY <1>1, <1>3, <2>2, WantsFacts
    <3>2. CommitVoucher(r, k)
      BY <2>2
    <3> HIDE DEF k
    <3>3. Considered(r, k)
      BY <3>1 DEF Considered, Owned
    <3> QED BY <1>2, <3>1, <3>2, <3>3, FreshCommit
  <2> QED BY <2>1, <2>2, FreshRefuse
<1>5. ASSUME NEW d \in Deposits, AskOpen(r, c, d) PROVE Fresh'
  <2> DEFINE k == Wants("open", c, Q[r].price, d, NewEntry(r, d))
  <2>1. Consider(r, k) /\ index[c] = NoEntry
    BY <1>5 DEF AskOpen, Untouched
  <2>2. /\ NewEntry(r, d) \in Entries /\ NewEntry(r, d).signedMax = 0
        /\ NewEntry(r, d).agent = AgentOf(r) /\ NewEntry(r, d).status = "open"
    BY <1>1 DEF NewEntry, Entries
  <2>3. k.kind = "open" /\ k.ch = c /\ k.entry = NewEntry(r, d) /\ k.upTo = Q[r].price
    BY <1>1, <2>2, WantsFacts
  <2> HIDE DEF k
  <2>4. Considered(r, k)
    BY <1>1, <2>1, <2>2, <2>3 DEF Considered
  <2> QED BY <2>1, <2>3, <2>4, FreshConsider
<1>6. ASSUME NEW n \in Counts, NEW d \in Deposits, AskTopUp(r, c, n, d) PROVE Fresh'
  <2> DEFINE k == Wants("topUp", c, n, d, index[c])
  <2>1. \/ Authorizes(r, c) /\ Consider(r, k)
        \/ Refuse(r)
    BY <1>6 DEF AskTopUp
  <2>2. CASE Authorizes(r, c) /\ Consider(r, k)
    <3>1. /\ Owned(c, AgentOf(r))
          /\ k.kind = "topUp" /\ k.ch = c /\ k.entry = index[c]
      BY <1>1, <1>3, <2>2, WantsFacts
    <3>2. Consider(r, k)
      BY <2>2
    <3> HIDE DEF k
    <3>3. Considered(r, k)
      BY <3>1 DEF Considered, Owned
    <3> QED BY <3>1, <3>2, <3>3, FreshConsider
  <2> QED BY <2>1, <2>2, FreshRefuse
<1> QED BY <1>4, <1>5, <1>6 DEF ClientAsks

(***************************************************************************)
(* What recovers or lifts finds the index already ahead.                   *)
(***************************************************************************)
LEMMA NobodyFollows ==
    ASSUME Fresh, NEW a \in Agents
    PROVE  /\ \A c \in Channels : ~Follow(a, c)
           /\ ~FoundClosed(a)
           /\ \A n : ~StoreRecovered(a, n)
BY DEF Fresh, SellersKnown, LiftFresh, Follow, Unowned, FoundClosed, StoreRecovered

LEMMA NothingLifts ==
    ASSUME CoverInv, Fresh, NEW a \in Agents, NEW n \in 0 .. MaxSigned PROVE ~Lift(a, n)
<1> SUFFICES ASSUME Lift(a, n) PROVE FALSE
  OBVIOUS
<1>1. /\ aux[a].doing = "lifting" /\ aux[a].entry.agent = a /\ n > aux[a].entry.signedMax
      /\ n <= handed[aux[a].ch] /\ aux[a].ch \in Channels /\ aux[a].entry \in Entries
  BY DEF Lift, Lifts, CoverInv, AuxSound
<1>2. Owned(aux[a].ch, a) /\ index[aux[a].ch].signedMax = aux[a].entry.signedMax
  BY <1>1 DEF Fresh, LiftFresh
<1>3. handed[aux[a].ch] <= index[aux[a].ch].signedMax
  BY <1>1, <1>2 DEF Fresh, SellersKnown, Owned
<1>4. handed[aux[a].ch] \in Nat /\ aux[a].entry.signedMax \in Nat /\ n \in Nat
  BY <1>1, VouchersAssumption DEF CoverInv, Shapes, Entries
<1> QED BY <1>1, <1>2, <1>3, <1>4

LEMMA FreshAux ==
    ASSUME CoverInv, Fresh, NEW a \in Agents, IndexSteps(a) PROVE Fresh'
<1>1. Recover(a) \/ EndAux(a) \/ \E c \in Channels : ReadForLift(a, c)
  BY NobodyFollows, NothingLifts DEF IndexSteps
<1>2. /\ UNCHANGED <<index, log, chain, handed, pc, ask>> /\ \A b \in Agents : b # a => aux'[b] = aux[b]
  BY <1>1 DEF Recover, EndAux, ReadForLift, Turn, files, world, CoverInv, Shapes
<1>3. LiftFresh(a)'
  <2>1. CASE Recover(a) \/ EndAux(a)
    <3>1. aux'[a].doing \in {"nothing", "recovering"}
      BY <2>1 DEF Recover, EndAux, Turn, CoverInv, Shapes, Resting
    <3> QED BY <3>1 DEF LiftFresh
  <2>2. ASSUME NEW c \in Channels, ReadForLift(a, c) PROVE LiftFresh(a)'
    <3>1. aux'[a] = [doing |-> "lifting", ch |-> c, entry |-> index[c]] /\ index[c] # NoEntry
      BY <2>2 DEF ReadForLift, Turn, CoverInv, Shapes
    <3> QED BY <1>2, <3>1 DEF LiftFresh, Owned
  <2> QED BY <1>1, <2>1, <2>2
<1>4. SellersKnown' /\ LogBelow' /\ LogApart' /\ \A r \in Requests : AskFresh(r)'
  BY <1>2 DEF Fresh, SellersKnown, LogBelow, LogApart, UnitsOfVoucher, AskFresh, Considered, Owned, AgentOf
<1>5. \A b \in Agents : b # a => LiftFresh(b)'
  BY <1>2 DEF Fresh, LiftFresh, Owned
<1> QED BY <1>3, <1>4, <1>5 DEF Fresh

LEMMA FreshWorld ==
    ASSUME CoverInv, Fresh, UNCHANGED <<index, log, pc, ask, aux>>, SellersKnown' PROVE Fresh'
BY DEF Fresh, LogBelow, LogApart, UnitsOfVoucher, AskFresh, LiftFresh, Considered, Owned, AgentOf

LEMMA FreshRefund ==
    ASSUME CoverInv, Fresh, NEW c \in Channels, NEW n \in Counts, Refund(c, n) PROVE Fresh'
<1>1. /\ index[c] # NoEntry /\ n <= index[c].signedMax
      /\ handed' = [handed EXCEPT ![c] = Larger(@, n)]
      /\ UNCHANGED <<index, log, pc, ask, aux, chain>>
  BY DEF Refund, Refundable, files
<1>2. n \in Nat
  BY VouchersAssumption DEF Counts
<1>3. SellersKnown'
  BY <1>1, <1>2, KnownHands
<1> QED BY <1>1, <1>3, FreshWorld

LEMMA FreshChain ==
    ASSUME CoverInv, ChainInv, Fresh, NEW c \in Channels, ChainSteps(c) PROVE Fresh'
<1>1. /\ UNCHANGED <<index, log, pc, ask, aux, handed>> /\ \A ch \in Channels : ch # c => chain'[ch] = chain[ch]
  BY DEF ChainSteps, Land, Drop, CloseOut, files, ChainInv
<1>2. chain[c].state = "landed" \/ chain[c].flying > 0
  BY DEF ChainSteps, Land, Drop, CloseOut
<1>3. SellersKnown'
  BY <1>1, <1>2 DEF Fresh, SellersKnown
<1> QED BY <1>1, <1>3, FreshWorld

LEMMA FreshCrash ==
    ASSUME CoverInv, ChainInv, Fresh, Crash, index' = index PROVE Fresh'
<1>1. /\ UNCHANGED <<log, handed>> /\ aux' = [a \in Agents |-> Resting]
      /\ pc' = [r \in Requests |-> IF pc[r] \in Ongoing THEN "lost" ELSE pc[r]]
      /\ chain' = [ch \in Channels |-> [chain[ch] EXCEPT !.awaited = FALSE]]
  BY DEF Crash
<1>2. \A ch \in Channels : chain'[ch].state = chain[ch].state /\ chain'[ch].flying = chain[ch].flying
  BY <1>1 DEF ChainInv, IsShown, Fields
<1>3. SellersKnown' /\ LogBelow' /\ LogApart'
  BY <1>1, <1>2 DEF Fresh, SellersKnown, LogBelow, LogApart, UnitsOfVoucher
<1>4. \A r \in Requests : pc'[r] \notin Asking \cup {"authorized"}
  BY <1>1 DEF Ongoing, Asking
<1>5. \A r \in Requests : AskFresh(r)'
  BY <1>4 DEF AskFresh, Asking
<1>6. \A a \in Agents : LiftFresh(a)'
  BY <1>1 DEF LiftFresh, Resting
<1> QED BY <1>3, <1>5, <1>6 DEF Fresh

LEMMA IntactBefore == [Next]_vars /\ intact' => intact /\ (Crash => index' = index)
<1> SUFFICES ASSUME [Next]_vars, intact' PROVE intact /\ (Crash => index' = index)
  OBVIOUS
<1>1. CASE Crash
  <2>1. intact' = (intact /\ index' = index)
    BY <1>1 DEF Crash
  <2> QED BY <2>1
<1>2. ASSUME intact' = intact, ~Crash PROVE intact
  BY <1>2
<1>3. ASSUME NEW r \in Requests, PayloadSteps(r) \/ Approve(r) \/ Unqueue(r) PROVE intact' = intact
  BY <1>3 DEF PayloadSteps, Begin, Unreadable, Refuse, Enter, ClientFails, ReadLocked, Fund, CommitVoucher,
         Resign, Deny, Queue, Store, Audit, HandOver, Undelivered, Finish, Approve, Unqueue, history
<1>4. ASSUME NEW r \in Requests, NEW c \in Channels, ClientAsks(r, c) PROVE intact' = intact
  BY <1>4 DEF ClientAsks, AskVoucher, AskOpen, AskTopUp, Consider, CommitVoucher, Refuse, Resign, Deny,
         Queue, Store, Finish, history
<1>5. ASSUME NEW a \in Agents, IndexSteps(a) PROVE intact' = intact
  BY <1>5 DEF IndexSteps, Recover, FoundClosed, EndAux, Follow, ReadForLift, StoreRecovered, Lift, history
<1>6. ASSUME NEW c \in Channels, (\E n \in Counts : Refund(c, n)) \/ ChainSteps(c) PROVE intact' = intact
  BY <1>6 DEF Refund, ChainSteps, Land, Drop, CloseOut, history
<1>7. ASSUME UNCHANGED vars PROVE intact' = intact
  BY <1>7 DEF vars, history
<1>8. Crash \/ intact' = intact
  BY <1>3, <1>4, <1>5, <1>6, <1>7 DEF Next
<1> QED BY <1>1, <1>2, <1>8

LEMMA FreshStep == CoverInv /\ ChainInv /\ LocksHeld /\ FreshInv /\ [Next]_vars => FreshInv'
<1> SUFFICES ASSUME CoverInv, ChainInv, LocksHeld, Fresh, [Next]_vars, Crash => index' = index PROVE Fresh'
  BY IntactBefore DEF FreshInv
<1>1. ASSUME UNCHANGED vars PROVE Fresh'
  <2>1. UNCHANGED <<index, log, pc, ask, aux, handed, chain>>
    BY <1>1 DEF vars, files, world
  <2>2. SellersKnown'
    BY <2>1 DEF Fresh, SellersKnown
  <2> QED BY <2>1, <2>2, FreshWorld
<1> QED BY <1>1, FreshPayload, FreshClient, FreshAux, FreshRefund, FreshChain, FreshCrash DEF Next

FilesInv == CoverInv /\ ChainInv /\ LocksHeld /\ FreshInv

LEMMA FilesInvHolds == Spec => []FilesInv
<1>1. Init => FilesInv
  BY CoverInit, ChainInit, LocksInit, FreshInit DEF FilesInv
<1>2. FilesInv /\ [Next]_vars => FilesInv'
  BY CoverStep, ChainInvStep, LocksStep, FreshStep DEF FilesInv
<1> QED BY <1>1, <1>2, PTL DEF Spec

(***************************************************************************)
(* NoUnitIsCountedTwice: commitVoucher charges what a voucher adds to the  *)
(* signedMax it read, which starts above every unit recorded before, for   *)
(* nobody else signs on the channel while the agent's lock is held.        *)
(***************************************************************************)
THEOREM EveryUnitIsCountedOnce == Spec => []NoUnitIsCountedTwice
<1>1. FilesInv => NoUnitIsCountedTwice
  BY DEF FilesInv, FreshInv, Fresh, LogApart, NoUnitIsCountedTwice
<1> QED BY <1>1, FilesInvHolds, PTL

(***************************************************************************)
(* IndexKnowsTheMost: the index is written before a voucher leaves, so a   *)
(* refund, which may pay up to signedMax, is never below what the seller   *)
(* can show; a recovery or a correction finds nothing to raise.            *)
(***************************************************************************)
THEOREM TheIndexIsAhead == Spec => []IndexKnowsTheMost
<1>1. FilesInv => IndexKnowsTheMost
  BY DEF FilesInv, FreshInv, Fresh, SellersKnown, IndexKnowsTheMost
<1> QED BY <1>1, FilesInvHolds, PTL

-----------------------------------------------------------------------------
(***************************************************************************)
(* Sums of spends.  A sum is the number of units in a set, so what is      *)
(* known of finite sets is known of it.                                    *)
(***************************************************************************)
Summable(S) == IsFiniteSet(Units(S))

LEMMA UnitsJoin ==
  ASSUME NEW S, NEW T
  PROVE  Units(S \cup T) = Units(S) \cup Units(T)
BY DEF Units

LEMMA FewerUnits ==
  ASSUME NEW T, Summable(T), NEW S \in SUBSET T
  PROVE  /\ Summable(S)
         /\ Total(S) \in Nat /\ Total(T) \in Nat
         /\ Total(S) <= Total(T)
<1>1. Units(S) \in SUBSET Units(T)
  BY DEF Units
<1> QED
  BY <1>1, FS_Subset, FS_CardinalityType DEF Summable, Total

LEMMA OneSpend ==
  ASSUME NEW s, s.amount \in Nat
  PROVE  Summable({s}) /\ Total({s}) = s.amount
<1>1. Units({s}) = {s} \X (1 .. s.amount)
  BY DEF Units, UnitsOf
<1>2. IsFiniteSet(1 .. s.amount) /\ Cardinality(1 .. s.amount) = s.amount
  BY FS_Interval
<1>3. IsFiniteSet({s}) /\ Cardinality({s}) = 1
  BY FS_Singleton
<1>4. /\ IsFiniteSet({s} \X (1 .. s.amount))
      /\ Cardinality({s} \X (1 .. s.amount)) = Cardinality({s}) * Cardinality(1 .. s.amount)
  BY <1>2, <1>3, FS_Product
<1>5. Cardinality({s} \X (1 .. s.amount)) = s.amount
  BY <1>2, <1>3, <1>4
<1> QED
  BY <1>1, <1>4, <1>5 DEF Summable, Total

LEMMA JoinedUnits ==
  ASSUME NEW S, NEW T, Summable(S), Summable(T)
  PROVE  /\ Summable(S \cup T)
         /\ Total(S \cup T) <= Total(S) + Total(T)
<1>1. Units(S \cup T) = Units(S) \cup Units(T)
  BY UnitsJoin
<1>2. /\ IsFiniteSet(Units(S) \cup Units(T))
      /\ Cardinality(Units(S) \cup Units(T)) =
           Cardinality(Units(S)) + Cardinality(Units(T)) - Cardinality(Units(S) \cap Units(T))
  BY FS_Union DEF Summable
<1>3. /\ Cardinality(Units(S)) \in Nat /\ Cardinality(Units(T)) \in Nat
      /\ Cardinality(Units(S) \cap Units(T)) \in Nat
  BY FS_CardinalityType, FS_Intersection DEF Summable
<1>4. ASSUME NEW l \in Nat, NEW m \in Nat, NEW n \in Nat PROVE l + m - n <= l + m
  OBVIOUS
<1>5. Cardinality(Units(S \cup T)) <= Cardinality(Units(S)) + Cardinality(Units(T))
  BY <1>1, <1>2, <1>3, <1>4
<1> QED
  BY <1>1, <1>2, <1>5 DEF Summable, Total

LEMMA OneSpendMore ==
  ASSUME NEW S, Summable(S), NEW s, s.amount \in Nat
  PROVE  /\ Summable(S \cup {s})
         /\ Total(S \cup {s}) <= Total(S) + s.amount
         /\ s \notin S => Total(S \cup {s}) = Total(S) + s.amount
<1>1. Summable(S \cup {s}) /\ Total(S \cup {s}) <= Total(S) + s.amount
  BY OneSpend, JoinedUnits
<1>2. ASSUME s \notin S PROVE Total(S \cup {s}) = Total(S) + s.amount
  <2>1. Units(S) \cap Units({s}) = {}
    BY <1>2 DEF Units, UnitsOf
  <2>2. Cardinality(Units(S) \cup Units({s})) =
          Cardinality(Units(S)) + Cardinality(Units({s})) - Cardinality(Units(S) \cap Units({s}))
    BY OneSpend, FS_Union DEF Summable
  <2>3. Cardinality(Units(S)) \in Nat /\ Cardinality(Units({s})) = s.amount
    BY OneSpend, FS_CardinalityType DEF Summable, Total
  <2>4. Cardinality(Units(S) \cap Units({s})) = 0
    BY <2>1, FS_EmptySet
  <2>5. Units(S \cup {s}) = Units(S) \cup Units({s})
    BY UnitsJoin
  <2>6. ASSUME NEW l \in Nat, NEW m \in Nat PROVE l + m - 0 = l + m
    OBVIOUS
  <2>7. Cardinality(Units(S) \cup Units({s})) = Cardinality(Units(S)) + s.amount
    BY <2>2, <2>3, <2>4, <2>6
  <2> QED
    BY <2>5, <2>7 DEF Total
<1> QED
  BY <1>1, <1>2

-----------------------------------------------------------------------------
(***************************************************************************)
(* The cap.  A voucher is judged beside everything recorded and held, its  *)
(* own hold left out when it is made for an approval; and once recorded,   *)
(* its hold no longer counts.                                              *)
(***************************************************************************)
Counting == ledger \cup {h \in reserved : ~Recorded(h.tx)}

Spent(a) == SpentToday(Counting, a, Asset, 0)

Within(a, n) ==
    \/ n = 0
    \/ \E p \in Policies : /\ a \in DOMAIN p /\ DailyCap(p[a], Asset) \in Nat
                           /\ n <= DailyCap(p[a], Asset)

BudgetInv ==
    /\ policy \in Policies
    /\ log \subseteq ledger
    /\ \A r \in Requests : sync = r => VoucherSpend(r, ask[r]) \in ledger
    /\ Summable(ledger \cup reserved)
    /\ \A a \in Agents : Within(a, Spent(a))

LEMMA NoUnits == Summable({}) /\ Total({}) = 0
<1>1. Units({}) = {}
  BY DEF Units
<1> QED BY <1>1, FS_EmptySet DEF Summable, Total

LEMMA BudgetInit == Init => BudgetInv
<1> SUFFICES ASSUME Init PROVE BudgetInv
  OBVIOUS
<1>1. ledger = {} /\ reserved = {} /\ log = {} /\ policy \in Policies /\ sync \notin Requests
  BY VouchersAssumption DEF Init
<1>2. \A a \in Agents : InDay(Counting, a, Asset, 0) = {}
  BY <1>1 DEF Counting, InDay
<1>3. \A a \in Agents : Within(a, Spent(a))
  BY <1>2, NoUnits DEF Within, Spent, SpentToday
<1>4. ledger \cup reserved = {}
  BY <1>1
<1> QED BY <1>1, <1>3, <1>4, NoUnits DEF BudgetInv

(***************************************************************************)
(* Nothing more is counted: the sum is no more either.                     *)
(***************************************************************************)
LEMMA CountsNoMore ==
    ASSUME BudgetInv, NEW S \in SUBSET Counting, NEW a \in Agents
    PROVE  Within(a, SpentToday(S, a, Asset, 0))
<1>1. InDay(S, a, Asset, 0) \in SUBSET InDay(Counting, a, Asset, 0)
  BY DEF InDay
<1>2. Summable(InDay(Counting, a, Asset, 0))
  <2>1. InDay(Counting, a, Asset, 0) \in SUBSET (ledger \cup reserved)
    BY DEF InDay, Counting
  <2> QED BY <2>1, FewerUnits DEF BudgetInv
<1>3. /\ SpentToday(S, a, Asset, 0) \in Nat /\ Spent(a) \in Nat
      /\ SpentToday(S, a, Asset, 0) <= Spent(a)
  BY <1>1, <1>2, FewerUnits DEF SpentToday, Spent
<1>4. Within(a, Spent(a))
  BY DEF BudgetInv
<1> QED BY <1>3, <1>4 DEF Within

LEMMA BudgetRests ==
    ASSUME BudgetInv, policy' \in Policies, log' \subseteq ledger',
           \A r \in Requests : sync' = r => VoucherSpend(r, ask[r])' \in ledger',
           ledger' \cup reserved' \subseteq ledger \cup reserved, Counting' \subseteq Counting
    PROVE  BudgetInv'
<1>1. ASSUME NEW a \in Agents PROVE Within(a, Spent(a))'
  <2>1. Within(a, SpentToday(Counting', a, Asset, 0))
    BY CountsNoMore
  <2> QED BY <2>1 DEF Spent, Within, SpentToday, InDay
<1>2. Summable(ledger' \cup reserved')
  BY FewerUnits DEF BudgetInv
<1> QED BY <1>1, <1>2 DEF BudgetInv, Summable, Units, UnitsOf

(***************************************************************************)
(* What decide let through fits beside what it was judged with.            *)
(***************************************************************************)
LEMMA Admitted ==
    ASSUME policy \in Policies, NEW r \in Requests, NEW k, Decision(r, k) # "deny"
    PROVE  /\ AgentOf(r) \in DOMAIN policy
           /\ DailyCap(policy[AgentOf(r)], Asset) \in Nat
           /\ SpentToday(LedgerFor(r), AgentOf(r), Asset, 0) + Increment(k)
                <= DailyCap(policy[AgentOf(r)], Asset)
<1> DEFINE q == [agent |-> AgentOf(r), asset |-> Asset, amount |-> Increment(k),
                 terms |-> Q[r].terms, batch |-> TRUE]
<1>1. Admits(policy, LedgerFor(r), q, 0)
  BY DEF Decision, Decide
<1>2. q.agent = AgentOf(r) /\ q.asset = Asset /\ q.amount = Increment(k)
  OBVIOUS
<1> HIDE DEF q
<1>3. /\ AgentOf(r) \in DOMAIN policy /\ Asset \in DOMAIN policy[AgentOf(r)].perTxMax
      /\ SpentToday(LedgerFor(r), AgentOf(r), Asset, 0) + Increment(k)
           <= DailyCap(policy[AgentOf(r)], Asset)
  BY <1>1, <1>2 DEF Admits
<1>4. Parses(policy)
  BY VouchersAssumption
<1>5. DailyCap(policy[AgentOf(r)], Asset) \in Nat
  BY <1>3, <1>4 DEF Parses, Amounts, DailyCap
<1> QED BY <1>3, <1>5

(***************************************************************************)
(* One more spend or hold, of what was admitted.                           *)
(***************************************************************************)
LEMMA CountsOneMore ==
    ASSUME BudgetInv, NEW r \in Requests, NEW k, Increment(k) \in Nat, Decision(r, k) # "deny",
           NEW x, x.agent = AgentOf(r), x.amount = Increment(k),
           NEW S, S \subseteq Counting \cup {x}, S \subseteq LedgerFor(r) \cup {x}
    PROVE  \A a \in Agents : Within(a, SpentToday(S, a, Asset, 0))
<1> SUFFICES ASSUME NEW a \in Agents PROVE Within(a, SpentToday(S, a, Asset, 0))
  OBVIOUS
<1>1. CASE a # AgentOf(r)
  <2>1. InDay(S, a, Asset, 0) = InDay(S \ {x}, a, Asset, 0)
    BY <1>1 DEF InDay
  <2>2. S \ {x} \in SUBSET Counting
    OBVIOUS
  <2> QED BY <2>1, <2>2, CountsNoMore DEF SpentToday
<1>2. CASE a = AgentOf(r)
  <2> DEFINE L == InDay(LedgerFor(r), a, Asset, 0)
  <2>1. LedgerFor(r) \in SUBSET (ledger \cup reserved)
    BY DEF LedgerFor, WithoutHold
  <2>2. L \in SUBSET (ledger \cup reserved)
    BY <2>1 DEF InDay
  <2>3. Summable(L) /\ Total(L) \in Nat
    BY <2>2, FewerUnits DEF BudgetInv
  <2>4. Summable(L \cup {x}) /\ Total(L \cup {x}) <= Total(L) + Increment(k)
    BY <2>3, OneSpendMore
  <2>5. InDay(S, a, Asset, 0) \in SUBSET (L \cup {x})
    BY DEF InDay
  <2>6. /\ SpentToday(S, a, Asset, 0) \in Nat /\ Total(L \cup {x}) \in Nat
        /\ SpentToday(S, a, Asset, 0) <= Total(L \cup {x})
    BY <2>4, <2>5, FewerUnits DEF SpentToday
  <2>7. /\ a \in DOMAIN policy /\ DailyCap(policy[a], Asset) \in Nat
        /\ Total(L) + Increment(k) <= DailyCap(policy[a], Asset)
    BY <1>2, Admitted DEF BudgetInv, SpentToday
  <2> HIDE DEF L
  <2>8. SpentToday(S, a, Asset, 0) <= DailyCap(policy[a], Asset)
    BY <2>3, <2>4, <2>6, <2>7
  <2> QED BY <2>7, <2>8 DEF Within, BudgetInv
<1> QED BY <1>1, <1>2

LEMMA IncrementIsNat ==
    ASSUME NEW k, IsAsk(k), k.entry \in Entries PROVE Increment(k) \in Nat
BY DEF IsAsk, Entries, Increment

LEMMA BudgetStore ==
    ASSUME BudgetInv, NEW r \in Requests, NEW k, IsAsk(k), k.entry \in Entries, ask'[r] = k, Store(r, k)
    PROVE  BudgetInv'
<1> DEFINE v == VoucherSpend(r, k)
<1>1. /\ ledger' = ledger \cup {v} /\ sync' = r /\ UNCHANGED <<log, reserved, approved, policy>>
      /\ Decision(r, k) # "deny"
  BY DEF Store
<1>2. Increment(k) \in Nat
  BY IncrementIsNat
<1>3. v.agent = AgentOf(r) /\ v.amount = Increment(k) /\ (r \in approved => v.approval = r)
  BY DEF VoucherSpend
<1>4. VoucherSpend(r, ask[r])' = v
  BY <1>1 DEF VoucherSpend, Increment, AgentOf
<1> HIDE DEF v
<1>5. \A q : Recorded(q) => Recorded(q)'
  BY <1>1 DEF Recorded
<1>6. Counting' \subseteq Counting \cup {v}
  BY <1>1, <1>5 DEF Counting
<1>7. Counting' \subseteq LedgerFor(r) \cup {v}
  <2>1. CASE r \in approved
    <3>1. Recorded(r)'
      BY <1>1, <1>3, <2>1 DEF Recorded
    <3> QED BY <1>1, <2>1, <3>1 DEF Counting, LedgerFor, WithoutHold
  <2>2. CASE r \notin approved
    BY <1>1, <2>2 DEF Counting, LedgerFor
  <2> QED BY <2>1, <2>2
<1>8. \A a \in Agents : Within(a, SpentToday(Counting', a, Asset, 0))
  BY <1>1, <1>2, <1>3, <1>6, <1>7, CountsOneMore
<1>9. \A a \in Agents : Within(a, Spent(a))'
  BY <1>8 DEF Spent, Within, SpentToday, InDay
<1>10. Summable(ledger' \cup reserved')
  <2>1. ledger' \cup reserved' = (ledger \cup reserved) \cup {v}
    BY <1>1
  <2> QED BY <2>1, <1>2, <1>3, OneSpendMore DEF BudgetInv
<1> QED BY <1>1, <1>4, <1>9, <1>10 DEF BudgetInv, Summable, Units, UnitsOf

LEMMA BudgetCalm ==
    ASSUME BudgetInv, Idle, sync' = sync, policy' \in Policies, UNCHANGED <<log, ledger>>,
           reserved' \subseteq reserved
    PROVE  BudgetInv'
<1>1. \A r \in Requests : sync' # r
  BY VouchersAssumption DEF Idle
<1>2. Counting' \subseteq Counting
  BY DEF Counting, Recorded
<1> QED BY <1>1, <1>2, BudgetRests DEF BudgetInv

LEMMA BudgetFinish ==
    ASSUME BudgetInv, Idle, UNCHANGED log, NEW r \in Requests, NEW place, Finish(r, place)
    PROVE  BudgetInv'
<1>1. /\ sync' = sync /\ policy' = policy /\ ledger' = ledger /\ reserved' \subseteq reserved
  BY DEF Finish, ReleaseLocks, Idle, WithoutHold
<1> QED BY <1>1, BudgetCalm DEF BudgetInv

LEMMA BudgetQueue ==
    ASSUME BudgetInv, Idle, NEW r \in Requests, NEW k, IsAsk(k), k.entry \in Entries, Queue(r, k)
    PROVE  BudgetInv'
<1> DEFINE h == Hold(r, k)
<1>1. /\ reserved' = reserved \cup {h} /\ UNCHANGED <<log, ledger, policy>> /\ sync' = sync
      /\ Decision(r, k) # "deny" /\ r \notin approved
  BY DEF Queue, ReleaseLocks, Idle, files
<1>2. Increment(k) \in Nat
  BY IncrementIsNat
<1>3. h.agent = AgentOf(r) /\ h.amount = Increment(k)
  BY DEF Hold
<1> HIDE DEF h
<1>4. Counting' \subseteq Counting \cup {h} /\ Counting' \subseteq LedgerFor(r) \cup {h}
  BY <1>1 DEF Counting, Recorded, LedgerFor
<1>5. \A a \in Agents : Within(a, SpentToday(Counting', a, Asset, 0))
  BY <1>1, <1>2, <1>3, <1>4, CountsOneMore
<1>6. \A a \in Agents : Within(a, Spent(a))'
  BY <1>5 DEF Spent, Within, SpentToday, InDay
<1>7. Summable(ledger' \cup reserved')
  <2>1. ledger' \cup reserved' = (ledger \cup reserved) \cup {h}
    BY <1>1
  <2> QED BY <2>1, <1>2, <1>3, OneSpendMore DEF BudgetInv
<1>8. \A q \in Requests : sync' # q
  BY <1>1, VouchersAssumption DEF Idle
<1> QED BY <1>1, <1>6, <1>7, <1>8 DEF BudgetInv, Summable, Units, UnitsOf

LEMMA BudgetCommit ==
    ASSUME CoverInv, BudgetInv, Idle, NEW r \in Requests, NEW k, IsAsk(k), k.entry \in Entries,
           CommitVoucher(r, k)
    PROVE  BudgetInv'
<1>1. CASE Resign(r, k)
  BY <1>1, BudgetCalm DEF Resign, files, budget, locks, BudgetInv
<1>2. CASE Deny(r, k)
  BY <1>2, BudgetFinish DEF Deny, Refuse, files
<1>3. CASE Store(r, k)
  <2>1. ask'[r] = k
    BY <1>3 DEF Store, CoverInv, Shapes
  <2> QED BY <1>3, <2>1, BudgetStore
<1> QED BY <1>1, <1>2, <1>3, BudgetQueue DEF CommitVoucher

LEMMA BudgetPayload ==
    ASSUME CoverInv, BudgetInv, NEW r \in Requests, PayloadSteps(r) \/ Approve(r) \/ Unqueue(r)
    PROVE  BudgetInv'
<1>1. CASE Begin(r) \/ Enter(r) \/ ReadLocked(r) \/ Approve(r) \/ Unqueue(r)
  <2>1. Idle /\ sync' = sync /\ UNCHANGED <<log, ledger>> /\ policy' \in Policies /\ reserved' \subseteq reserved
    BY <1>1 DEF Begin, Enter, ReadLocked, Approve, Unqueue, At, files, budget, locks, WithoutHold, BudgetInv
  <2> QED BY <2>1, BudgetCalm
<1>2. CASE Unreadable(r) \/ ClientFails(r) \/ HandOver(r) \/ Undelivered(r)
  <2>1. Idle /\ UNCHANGED log /\ \E place : Finish(r, place)
    BY <1>2 DEF Unreadable, ClientFails, HandOver, Undelivered, Refuse, At, files
  <2> QED BY <2>1, BudgetFinish
<1>3. CASE Fund(r)
  <2>1. /\ Idle /\ (Refuse(r) \/ CommitVoucher(r, ask[r]))
        /\ IsAsk(ask[r]) /\ ask[r].entry \in Entries
    BY <1>3 DEF Fund, At, CoverInv, AsksCovered, Asking
  <2> QED BY <2>1, BudgetFinish, BudgetCommit DEF Refuse, files
<1>4. CASE Audit(r)
  <2>1. /\ log' = log \cup {VoucherSpend(r, ask[r])} /\ sync' = NoOne /\ sync = r
        /\ UNCHANGED <<ledger, reserved, policy>>
    BY <1>4 DEF Audit, budget
  <2>2. log' \subseteq ledger' /\ \A q \in Requests : sync' # q
    BY <2>1, VouchersAssumption DEF BudgetInv
  <2>3. Counting' \subseteq Counting
    BY <2>1 DEF Counting, Recorded
  <2> QED BY <2>1, <2>2, <2>3, BudgetRests DEF BudgetInv
<1> QED BY <1>1, <1>2, <1>3, <1>4 DEF PayloadSteps

LEMMA BudgetClient ==
    ASSUME CoverInv, BudgetInv, NEW r \in Requests, NEW c \in Channels, ClientAsks(r, c)
    PROVE  BudgetInv'
<1>1. Idle
  BY DEF ClientAsks, AskVoucher, AskOpen, AskTopUp, At
<1>2. \/ Refuse(r)
      \/ \E k : Consider(r, k)
      \/ \E n \in Counts : Authorizes(r, c) /\ CommitVoucher(r, Wants("voucher", c, n, 0, index[c]))
  BY DEF ClientAsks, AskVoucher, AskOpen, AskTopUp
<1>3. CASE Refuse(r)
  BY <1>1, <1>3, BudgetFinish DEF Refuse, files
<1>4. ASSUME NEW k, Consider(r, k) PROVE BudgetInv'
  BY <1>1, <1>4, BudgetCalm DEF Consider, files, budget, locks, BudgetInv
<1>5. ASSUME NEW n \in Counts, Authorizes(r, c), CommitVoucher(r, Wants("voucher", c, n, 0, index[c]))
      PROVE  BudgetInv'
  <2>1. index[c] \in Entries /\ n \in Nat
    BY <1>5, VouchersAssumption DEF Authorizes, CoverInv, IndexCovered, Counts
  <2>2. /\ IsAsk(Wants("voucher", c, n, 0, index[c]))
        /\ Wants("voucher", c, n, 0, index[c]).entry = index[c]
    BY <2>1, WantsFacts
  <2> QED BY <1>1, <1>5, <2>1, <2>2, BudgetCommit
<1> QED BY <1>2, <1>3, <1>4, <1>5

LEMMA BudgetStep == CoverInv /\ BudgetInv /\ [Next]_vars => BudgetInv'
<1> SUFFICES ASSUME CoverInv, BudgetInv, [Next]_vars PROVE BudgetInv'
  OBVIOUS
<1>1. ASSUME NEW a \in Agents, IndexSteps(a) PROVE BudgetInv'
  <2>1. Idle /\ sync' = sync /\ UNCHANGED <<log, ledger, policy, reserved>>
    BY <1>1 DEF IndexSteps, Recover, FoundClosed, EndAux, Follow, ReadForLift, StoreRecovered, Lift,
                files, budget, locks
  <2> QED BY <2>1, BudgetCalm DEF BudgetInv
<1>2. ASSUME NEW c \in Channels, (\E n \in Counts : Refund(c, n)) \/ ChainSteps(c) PROVE BudgetInv'
  <2>1. Idle /\ sync' = sync /\ UNCHANGED <<log, ledger, policy, reserved>>
    BY <1>2 DEF Refund, ChainSteps, Land, Drop, CloseOut, files, budget, locks
  <2> QED BY <2>1, BudgetCalm DEF BudgetInv
<1>3. CASE Crash
  <2>1. log' = log /\ ledger' = log /\ reserved' = {} /\ policy' = policy /\ sync' = NoOne
    BY <1>3 DEF Crash
  <2>2. \A r \in Requests : sync' # r
    BY <2>1, VouchersAssumption
  <2>3. Counting' \subseteq Counting
    BY <2>1 DEF Counting, BudgetInv
  <2> QED BY <2>1, <2>2, <2>3, BudgetRests DEF BudgetInv
<1>4. CASE UNCHANGED vars
  <2>1. UNCHANGED <<log, ledger, reserved, policy, sync, ask, approved>>
    BY <1>4 DEF vars, files, budget, locks
  <2>2. Counting' \subseteq Counting
    BY <2>1 DEF Counting, Recorded
  <2>3. \A r \in Requests : sync' = r => VoucherSpend(r, ask[r])' \in ledger'
    BY <2>1 DEF BudgetInv, VoucherSpend, Increment, AgentOf
  <2> QED BY <2>1, <2>2, <2>3, BudgetRests DEF BudgetInv
<1> QED BY <1>1, <1>2, <1>3, <1>4, BudgetPayload, BudgetClient DEF Next

(***************************************************************************)
(* VouchersWithinCap: whatever interleaves, what an agent's vouchers have  *)
(* spent and its queued ones hold is within the daily cap of a policy that *)
(* was read: the voucher that reached it was allowed beside all the rest,  *)
(* and an approved one takes the place of its own hold.                    *)
(***************************************************************************)
THEOREM VouchersKeepTheCap == Spec => []VouchersWithinCap
<1>1. BudgetInv => VouchersWithinCap
  BY DEF BudgetInv, Within, Spent, Counting, VouchersWithinCap
<1>2. Init => CoverInv /\ BudgetInv
  BY CoverInit, BudgetInit
<1>3. CoverInv /\ BudgetInv /\ [Next]_vars => CoverInv' /\ BudgetInv'
  BY CoverStep, BudgetStep
<1> QED BY <1>1, <1>2, <1>3, PTL DEF Spec

-----------------------------------------------------------------------------
(***************************************************************************)
(* What channels hold together: a stack of units on each.                  *)
(***************************************************************************)
Levels == [ch \in Channels |-> LockedInOneRun(ch)]

Stack(S, n) == UNION {{ch} \X (1 .. n[ch]) : ch \in S}

LEMMA StackFinite ==
    ASSUME NEW S \in SUBSET Channels, NEW n \in [Channels -> Int]
    PROVE  IsFiniteSet(Stack(S, n)) /\ Cardinality(Stack(S, n)) \in Nat
<1> DEFINE On(ch) == {ch} \X (1 .. n[ch])
           T == {On(ch) : ch \in S}
           f == [ch \in S |-> On(ch)]
<1>1. IsFiniteSet(S)
  BY VouchersAssumption, FS_Subset
<1>2. f \in Surjection(S, T)
  BY DEF Surjection
<1>3. IsFiniteSet(T)
  BY <1>1, <1>2, FS_Surjection
<1>4. ASSUME NEW ch \in S PROVE IsFiniteSet(On(ch))
  <2>1. IsFiniteSet({ch}) /\ IsFiniteSet(1 .. n[ch])
    <3>1. 1 \in Int /\ n[ch] \in Int
      OBVIOUS
    <3> QED BY <3>1, FS_Singleton, FS_Interval
  <2> QED BY <2>1, FS_Product
<1>5. IsFiniteSet(UNION T)
  <2>1. \A x \in T : IsFiniteSet(x)
    BY <1>4
  <2> HIDE DEF T
  <2> QED BY <1>3, <2>1, FS_UNION
<1> QED BY <1>5, FS_CardinalityType DEF Stack

LEMMA StackGrows ==
    ASSUME NEW S \in SUBSET Channels, NEW T \in SUBSET Channels,
           NEW m \in [Channels -> Int], NEW n \in [Channels -> Int],
           \A ch \in S : m[ch] <= 0 \/ (ch \in T /\ m[ch] <= n[ch])
    PROVE  Cardinality(Stack(S, m)) <= Cardinality(Stack(T, n))
<1>1. ASSUME NEW x \in Stack(S, m) PROVE x \in Stack(T, n)
  <2>1. PICK ch \in S : x \in {ch} \X (1 .. m[ch])
    BY DEF Stack
  <2>2. PICK i \in 1 .. m[ch] : x = <<ch, i>>
    BY <2>1
  <2>3. ch \in T /\ i \in 1 .. n[ch]
    BY <2>2
  <2> QED BY <2>2, <2>3 DEF Stack
<1>2. Stack(S, m) \in SUBSET Stack(T, n)
  BY <1>1
<1> QED BY <1>2, StackFinite, FS_Subset

LEMMA StackOneMore ==
    ASSUME NEW S \in SUBSET Channels, NEW m \in [Channels -> Int], NEW n \in [Channels -> Int],
           NEW c \in Channels, NEW d \in Nat, m[c] = n[c] + d,
           \A ch \in Channels : ch # c => m[ch] = n[ch]
    PROVE  Cardinality(Stack(S, m)) <= Cardinality(Stack(S, n)) + d
<1> DEFINE A == Stack(S, n)
           I == n[c] + 1 .. n[c] + d
           B == {c} \X I
<1>1. IsFiniteSet(A) /\ Cardinality(A) \in Nat
  BY StackFinite
<1>2. IsFiniteSet(I) /\ Cardinality(I) = d
  <2>1. \A l \in Int, e \in Int : /\ IsFiniteSet(l .. e)
                                  /\ Cardinality(l .. e) = IF l > e THEN 0 ELSE e - l + 1
    BY FS_Interval
  <2>2. n[c] + 1 \in Int /\ n[c] + d \in Int /\ n[c] \in Int
    OBVIOUS
  <2>3. /\ IsFiniteSet(I)
        /\ Cardinality(I) = IF n[c] + 1 > n[c] + d THEN 0 ELSE (n[c] + d) - (n[c] + 1) + 1
    BY <2>1, <2>2
  <2>4. (IF n[c] + 1 > n[c] + d THEN 0 ELSE (n[c] + d) - (n[c] + 1) + 1) = d
    BY <2>2
  <2> QED BY <2>3, <2>4
<1>3. IsFiniteSet(B) /\ Cardinality(B) = Cardinality({c}) * Cardinality(I) /\ Cardinality({c}) = 1
  BY <1>2, FS_Singleton, FS_Product
<1>4. Cardinality(B) = d
  BY <1>2, <1>3
<1>5. ASSUME NEW x \in Stack(S, m) PROVE x \in A \cup B
  <2>1. PICK ch \in S : x \in {ch} \X (1 .. m[ch])
    BY DEF Stack
  <2>2. PICK i \in 1 .. m[ch] : x = <<ch, i>>
    BY <2>1
  <2>3. CASE i \in 1 .. n[ch]
    BY <2>2, <2>3 DEF Stack
  <2>4. CASE i \notin 1 .. n[ch]
    <3>1. ch = c
      BY <2>4
    <3>2. i \in I
      BY <2>4, <3>1
    <3> QED BY <2>2, <3>1, <3>2
  <2> QED BY <2>3, <2>4
<1> HIDE DEF A, B
<1>6. /\ IsFiniteSet(A \cup B)
      /\ Cardinality(A \cup B) = Cardinality(A) + Cardinality(B) - Cardinality(A \cap B)
      /\ Cardinality(A \cap B) \in Nat
  BY <1>1, <1>3, FS_Union, FS_Intersection, FS_CardinalityType
<1>7. ASSUME NEW i \in Nat, NEW j \in Nat, NEW l \in Nat PROVE i + j - l <= i + j
  OBVIOUS
<1>8. Cardinality(A \cup B) <= Cardinality(A) + d
  BY <1>1, <1>4, <1>6, <1>7
<1>9. /\ Cardinality(Stack(S, m)) \in Nat /\ Cardinality(A \cup B) \in Nat
      /\ Cardinality(Stack(S, m)) <= Cardinality(A \cup B)
  BY <1>5, <1>6, StackFinite, FS_Subset, FS_CardinalityType
<1>10. \A i, j, l, e \in Nat : i <= j /\ j <= l + e => i <= l + e
  OBVIOUS
<1>11. Cardinality(Stack(S, m)) <= Cardinality(A) + d
  BY <1>1, <1>8, <1>9, <1>10
<1> QED BY <1>11 DEF A

-----------------------------------------------------------------------------
(***************************************************************************)
(* The locked limit.  What lockedBy answered a request is at least what    *)
(* its agent's channels hold, with the one it opens or tops up, until the  *)
(* step is handed over: the client builds only when nothing is awaited,    *)
(* and the agent's lock keeps its other steps out.                         *)
(***************************************************************************)
Opening(r) ==
    OpenChannels(AgentOf(r)) \cup (IF ask[r].entry.status = "open" THEN {ask[r].ch} ELSE {})

Funding(r) ==
    \/ pc[r] \in {"reading", "deciding"}
    \/ pc[r] \in {"indexed", "authorized"} /\ ask[r].kind # "voucher"

FundedWell(r) ==
    /\ ask[r].ch \in Channels /\ ask[r].policy \in Policies
    /\ NothingAwaited
    /\ chain[ask[r].ch].flying = 0
    /\ pc[r] = "reading" /\ ask[r].kind = "open" => chain[ask[r].ch].amount = 0
    /\ pc[r] = "deciding" => \/ chain[ask[r].ch].amount = 0
                             \/ /\ index[ask[r].ch] # NoEntry
                                /\ index[ask[r].ch].status = ask[r].entry.status
    /\ pc[r] # "reading" => /\ ask[r].locked \in Nat
                            /\ Cardinality(Stack(Opening(r), Levels)) <= ask[r].locked
    /\ pc[r] \in {"indexed", "authorized"} => AdmitsDeposit(ask[r].policy, AgentOf(r), ask[r])

Room(a, n) == n = 0 \/ \E p \in Policies : a \in DOMAIN p /\ n <= p[a].lockedMax

LockedWell ==
    /\ \A a \in Agents : Room(a, LockedNow(a))
    /\ \A r \in Requests : Funding(r) => FundedWell(r)

LockedInv == intact => LockedWell

LEMMA LevelsAre ==
    ASSUME ChainInv
    PROVE  /\ Levels \in [Channels -> Int]
           /\ \A ch \in Channels :
                 Levels[ch] = (chain[ch].amount - chain[ch].late)
                                 + IF chain[ch].awaited THEN chain[ch].flying ELSE 0
<1>1. ASSUME NEW ch \in Channels PROVE LockedInOneRun(ch) \in Int
  BY DEF ChainInv, IsShown, LockedInOneRun
<1> QED BY <1>1 DEF Levels, LockedInOneRun

LEMMA LockedIs ==
    /\ \A a : OpenChannels(a) \in SUBSET Channels
    /\ \A a : LockedNow(a) = Cardinality(Stack(OpenChannels(a), Levels))
<1>1. \A a : OpenChannels(a) \in SUBSET Channels
  BY DEF OpenChannels
<1>2. ASSUME NEW a PROVE LockedNow(a) = Cardinality(Stack(OpenChannels(a), Levels))
  <2>1. \A ch \in OpenChannels(a) : Levels[ch] = LockedInOneRun(ch)
    BY DEF OpenChannels, Levels
  <2> QED BY <2>1 DEF LockedNow, Stack
<1> QED BY <1>1, <1>2

LEMMA RoomFor ==
    ASSUME NEW a, NEW m \in Nat, NEW n \in Nat, m <= n, Room(a, n) PROVE Room(a, m)
<1>1. CASE n = 0
  BY <1>1 DEF Room
<1>2. ASSUME NEW p \in Policies, a \in DOMAIN p, n <= p[a].lockedMax PROVE Room(a, m)
  <2>1. p[a].lockedMax \in Nat
    BY <1>2, VouchersAssumption DEF DepositsParse
  <2> QED BY <1>2, <2>1 DEF Room
<1> QED BY <1>1, <1>2 DEF Room

(***************************************************************************)
(* An agent's channels hold no more than before.                           *)
(***************************************************************************)
LEMMA RoomStays ==
    ASSUME ChainInv, ChainInv', NEW a \in Agents, Room(a, LockedNow(a)),
           \A ch \in OpenChannels(a)' :
              Levels'[ch] <= 0 \/ (ch \in OpenChannels(a) /\ Levels'[ch] <= Levels[ch])
    PROVE  Room(a, LockedNow(a))'
<1> DEFINE S == OpenChannels(a)'
           T == OpenChannels(a)
           m == Levels'
           n == Levels
<1>1. S \in SUBSET Channels /\ T \in SUBSET Channels
  BY DEF OpenChannels
<1>2. m \in [Channels -> Int] /\ n \in [Channels -> Int]
  <2>1. \A ch \in Channels : LockedInOneRun(ch) \in Int /\ LockedInOneRun(ch)' \in Int
    BY DEF ChainInv, IsShown, LockedInOneRun
  <2> QED BY <2>1 DEF Levels
<1>3. LockedNow(a)' = Cardinality(Stack(S, m)) /\ LockedNow(a) = Cardinality(Stack(T, n))
  <2>1. \A ch \in S : m[ch] = LockedInOneRun(ch)'
    BY DEF OpenChannels, Levels
  <2> QED BY <2>1, LockedIs DEF LockedNow, Stack
<1> HIDE DEF S, T, m, n
<1>4. \A ch \in S : m[ch] <= 0 \/ (ch \in T /\ m[ch] <= n[ch])
  BY DEF S, T, m, n
<1>5. /\ Cardinality(Stack(S, m)) <= Cardinality(Stack(T, n))
      /\ Cardinality(Stack(S, m)) \in Nat /\ Cardinality(Stack(T, n)) \in Nat
  BY <1>1, <1>2, <1>4, StackGrows, StackFinite
<1>6. Room(a, Cardinality(Stack(S, m)))
  BY <1>3, <1>5, RoomFor
<1> QED BY <1>3, <1>6 DEF Room

(***************************************************************************)
(* What lockedBy answered stays enough for a request.                      *)
(***************************************************************************)
LEMMA EnoughStays ==
    ASSUME ChainInv, ChainInv', NEW r \in Requests, NEW n \in Nat, ask[r].ch \in Channels, ask'[r].ch \in Channels,
           Cardinality(Stack(Opening(r), Levels)) <= n,
           \A ch \in Opening(r)' : Levels'[ch] <= 0 \/ (ch \in Opening(r) /\ Levels'[ch] <= Levels[ch])
    PROVE  Cardinality(Stack(Opening(r), Levels))' <= n
<1> DEFINE S == Opening(r)'
           T == Opening(r)
           l == Levels'
           m == Levels
<1>1. S \in SUBSET Channels /\ T \in SUBSET Channels
  BY DEF Opening, OpenChannels
<1>2. l \in [Channels -> Int] /\ m \in [Channels -> Int]
  <2>1. \A ch \in Channels : LockedInOneRun(ch) \in Int /\ LockedInOneRun(ch)' \in Int
    BY DEF ChainInv, IsShown, LockedInOneRun
  <2> QED BY <2>1 DEF Levels
<1>3. Cardinality(Stack(Opening(r), Levels))' = Cardinality(Stack(S, l))
  BY DEF Stack
<1> HIDE DEF S, T, l, m
<1>4. \A ch \in S : l[ch] <= 0 \/ (ch \in T /\ l[ch] <= m[ch])
  BY DEF S, T, l, m
<1>5. /\ Cardinality(Stack(S, l)) <= Cardinality(Stack(T, m))
      /\ Cardinality(Stack(S, l)) \in Nat /\ Cardinality(Stack(T, m)) \in Nat
  BY <1>1, <1>2, <1>4, StackGrows, StackFinite
<1>6. Cardinality(Stack(T, m)) <= n
  BY DEF T, m
<1>7. \A i, j, e \in Nat : i <= j /\ j <= e => i <= e
  OBVIOUS
<1> QED BY <1>3, <1>5, <1>6, <1>7

LEMMA LockedInit == Init => LockedInv
<1> SUFFICES ASSUME Init PROVE LockedWell
  BY DEF LockedInv
<1>1. \A a : OpenChannels(a) = {}
  BY DEF Init, OpenChannels
<1>2. \A a : LockedNow(a) = 0
  BY <1>1, FS_EmptySet DEF LockedNow
<1>3. \A r \in Requests : ~Funding(r)
  BY DEF Init, Funding
<1> QED BY <1>2, <1>3 DEF LockedWell, Room

(***************************************************************************)
(* One request moves, and neither the index nor the chain does.            *)
(***************************************************************************)
LEMMA SameLevels ==
    ASSUME UNCHANGED chain PROVE Levels' = Levels /\ (NothingAwaited' <=> NothingAwaited)
BY DEF Levels, LockedInOneRun, NothingAwaited

LEMMA SameRoom ==
    ASSUME UNCHANGED <<index, chain>>
    PROVE  /\ \A a \in Agents : LockedNow(a)' = LockedNow(a)
           /\ \A a \in Agents : OpenChannels(a)' = OpenChannels(a)
BY DEF LockedNow, LockedInOneRun, OpenChannels

LEMMA SameEnough ==
    ASSUME UNCHANGED <<index, chain>>, NEW r \in Requests, ask'[r] = ask[r]
    PROVE  Stack(Opening(r), Levels)' = Stack(Opening(r), Levels)
<1>1. Levels' = Levels /\ Opening(r)' = Opening(r)
  BY SameLevels DEF Opening, OpenChannels, AgentOf
<1> QED BY <1>1 DEF Stack

LEMMA LockedMoves ==
    ASSUME LockedWell, UNCHANGED <<index, chain>>, NEW r \in Requests,
           \A q \in Requests : q # r => pc'[q] = pc[q] /\ ask'[q] = ask[q],
           Funding(r)' => FundedWell(r)'
    PROVE  LockedWell'
<1>1. \A a \in Agents : Room(a, LockedNow(a))'
  BY SameRoom DEF LockedWell, Room
<1>2. ASSUME NEW q \in Requests, q # r, Funding(q)' PROVE FundedWell(q)'
  <2>1. pc'[q] = pc[q] /\ ask'[q] = ask[q] /\ Stack(Opening(q), Levels)' = Stack(Opening(q), Levels)
    BY <1>2, SameEnough
  <2>2. FundedWell(q)
    BY <1>2, <2>1 DEF LockedWell, Funding
  <2>3. NothingAwaited'
    BY <2>2, SameLevels DEF FundedWell
  <2> QED BY <2>1, <2>2, <2>3 DEF FundedWell, AdmitsDeposit, AgentOf
<1> QED BY <1>1, <1>2 DEF LockedWell

LEMMA LockedEnds ==
    ASSUME CoverInv, LockedWell, UNCHANGED <<index, chain>>, NEW r \in Requests,
           NEW place, place \notin {"reading", "deciding", "indexed", "authorized"},
           pc' = [pc EXCEPT ![r] = place], NEW k, ask' = [ask EXCEPT ![r] = k]
    PROVE  LockedWell'
<1>1. /\ pc'[r] = place
      /\ \A q \in Requests : q # r => pc'[q] = pc[q] /\ ask'[q] = ask[q]
  BY DEF CoverInv, Shapes
<1>2. ~Funding(r)'
  BY <1>1 DEF Funding
<1> QED BY <1>1, <1>2, LockedMoves

LEMMA LockedRefuse ==
    ASSUME CoverInv, LockedWell, NEW r \in Requests, Refuse(r) PROVE LockedWell'
<1>1. /\ UNCHANGED <<index, chain>> /\ pc' = [pc EXCEPT ![r] = "refused"] /\ ask' = [ask EXCEPT ![r] = NoAsk]
  BY DEF Refuse, Finish, files, world
<1> QED BY <1>1, LockedEnds

LEMMA OthersIdle ==
    ASSUME LocksHeld, NEW r \in Requests, pc[r] \in Inside, NEW q \in Requests, q # r
    PROVE  ~Funding(q) /\ (pc'[q] = pc[q] => ~Funding(q)')
<1>1. pc[q] \notin Inside
  BY OneInside
<1> QED BY <1>1 DEF Funding, Inside

(***************************************************************************)
(* commitVoucher of a step that decideDeposit has let through.             *)
(***************************************************************************)
LEMMA LockedStore ==
    ASSUME CoverInv, ChainInv, ChainInv', LocksHeld, LockedWell, NEW r \in Requests, pc[r] \in Inside,
           NEW k, IsAsk(k), k.ch \in Channels, k.entry \in Entries, Considered(r, k),
           \/ chain[k.ch].amount = 0 /\ chain[k.ch].flying = 0
           \/ index[k.ch] # NoEntry /\ index[k.ch].status = k.entry.status,
           k.kind # "voucher" => k = ask[r] /\ pc[r] = "deciding" /\ AdmitsDeposit(k.policy, AgentOf(r), k),
           Store(r, k)
    PROVE  LockedWell'
<1>1. /\ index' = [index EXCEPT ![k.ch] = Entered(k.entry, k)] /\ chain' = chain
      /\ pc' = [pc EXCEPT ![r] = "indexed"] /\ ask' = [ask EXCEPT ![r] = k]
  BY DEF Store, world
<1>2. /\ pc'[r] = "indexed" /\ ask'[r] = k
      /\ \A q \in Requests : q # r => pc'[q] = pc[q] /\ ask'[q] = ask[q]
      /\ index'[k.ch] = Entered(k.entry, k)
      /\ \A ch \in Channels : ch # k.ch => index'[ch] = index[ch]
  BY <1>1 DEF CoverInv, Shapes, IndexCovered
<1>3. Entered(k.entry, k).agent = AgentOf(r) /\ Entered(k.entry, k).status = k.entry.status
  BY DEF Entered, Entries, Considered
<1>4. Levels' = Levels /\ (NothingAwaited' <=> NothingAwaited)
  BY <1>1, SameLevels
<1>5. chain[k.ch].amount = 0 /\ chain[k.ch].flying = 0 => Levels[k.ch] <= 0
  <2>1. Levels[k.ch] = (chain[k.ch].amount - chain[k.ch].late)
                          + IF chain[k.ch].awaited THEN chain[k.ch].flying ELSE 0
    BY LevelsAre
  <2>2. chain[k.ch].late \in Nat
    BY DEF ChainInv, IsShown
  <2> QED BY <2>1, <2>2
<1>6. ASSUME NEW a \in Agents, NEW ch \in OpenChannels(a)'
      PROVE  ch \in Channels /\ (Levels[ch] <= 0 \/ ch \in OpenChannels(a))
  <2>1. ch \in Channels /\ index'[ch] # NoEntry /\ index'[ch].agent = a /\ index'[ch].status = "open"
    BY DEF OpenChannels
  <2>2. CASE ch # k.ch
    BY <1>2, <2>1, <2>2 DEF OpenChannels
  <2>3. CASE ch = k.ch
    <3>1. a = AgentOf(r) /\ k.entry.status = "open"
      BY <1>2, <1>3, <2>1, <2>3
    <3>2. CASE index[k.ch] # NoEntry /\ index[k.ch].status = k.entry.status
      BY <2>1, <2>3, <3>1, <3>2 DEF Considered, Owned, OpenChannels
    <3> QED BY <1>5, <2>3, <3>2, <2>1
  <2> QED BY <2>2, <2>3
<1>7. ASSUME NEW a \in Agents PROVE Room(a, LockedNow(a))'
  <2>1. \A ch \in OpenChannels(a)' :
           Levels'[ch] <= 0 \/ (ch \in OpenChannels(a) /\ Levels'[ch] <= Levels[ch])
    <3>1. \A ch \in Channels : Levels[ch] <= Levels[ch]
      BY LevelsAre
    <3> QED BY <1>4, <1>6, <3>1
  <2>2. Room(a, LockedNow(a))
    BY DEF LockedWell
  <2> QED BY <2>1, <2>2, RoomStays
<1>8. ASSUME Funding(r)' PROVE FundedWell(r)'
  <2>1. k.kind # "voucher"
    BY <1>2, <1>8 DEF Funding
  <2>2. /\ k = ask[r] /\ pc[r] = "deciding" /\ AdmitsDeposit(k.policy, AgentOf(r), k) /\ FundedWell(r)
    BY <2>1 DEF LockedWell, Funding
  <2>3. k.locked \in Nat /\ Cardinality(Stack(Opening(r), Levels)) <= k.locked
    BY <2>2 DEF FundedWell
  <2>4. ASSUME NEW ch \in Opening(r)'
        PROVE  ch \in Opening(r) /\ Levels'[ch] <= Levels[ch]
    <3>1. ch \in Channels
      BY <1>2 DEF Opening, OpenChannels
    <3>2. CASE ch = k.ch
      <4>1. k.entry.status = "open"
        BY <1>2, <1>3, <3>2 DEF Opening, OpenChannels, AgentOf
      <4> QED BY <1>4, <2>2, <3>1, <3>2, <4>1, LevelsAre DEF Opening
    <3>3. CASE ch # k.ch
      <4>1. ch \in OpenChannels(AgentOf(r))
        BY <1>2, <3>3 DEF Opening, OpenChannels, AgentOf
      <4> QED BY <1>4, <3>1, <4>1, LevelsAre DEF Opening
    <3> QED BY <3>2, <3>3
  <2>5. Cardinality(Stack(Opening(r), Levels))' <= k.locked
    BY <1>2, <2>2, <2>3, <2>4, EnoughStays
  <2>6. NothingAwaited' /\ chain'[k.ch].flying = 0 /\ k.policy \in Policies
    BY <1>1, <1>4, <2>2 DEF FundedWell
  <2> QED BY <1>2, <2>2, <2>3, <2>5, <2>6 DEF FundedWell, AdmitsDeposit, AgentOf
<1>9. ASSUME NEW q \in Requests, Funding(q)' PROVE FundedWell(q)'
  BY <1>2, <1>8, <1>9, OthersIdle
<1> QED BY <1>7, <1>9 DEF LockedWell

LEMMA LockedCommit ==
    ASSUME CoverInv, ChainInv, ChainInv', LocksHeld, LockedWell, NEW r \in Requests, pc[r] \in Inside,
           NEW k, IsAsk(k), k.ch \in Channels, k.entry \in Entries, Considered(r, k),
           \/ chain[k.ch].amount = 0 /\ chain[k.ch].flying = 0
           \/ index[k.ch] # NoEntry /\ index[k.ch].status = k.entry.status,
           k.kind # "voucher" => k = ask[r] /\ pc[r] = "deciding" /\ AdmitsDeposit(k.policy, AgentOf(r), k),
           CommitVoucher(r, k)
    PROVE  LockedWell'
<1>1. CASE Resign(r, k)
  <2>1. /\ pc' = [pc EXCEPT ![r] = "authorized"] /\ ask' = [ask EXCEPT ![r] = k]
        /\ UNCHANGED <<index, chain>>
    BY <1>1 DEF Resign, files, world
  <2>2. /\ pc'[r] = "authorized" /\ ask'[r] = k
        /\ \A q \in Requests : q # r => pc'[q] = pc[q] /\ ask'[q] = ask[q]
    BY <2>1 DEF CoverInv, Shapes
  <2>3. ASSUME Funding(r)' PROVE FundedWell(r)'
    <3>1. k.kind # "voucher"
      BY <2>2, <2>3 DEF Funding
    <3>2. k = ask[r] /\ pc[r] = "deciding" /\ AdmitsDeposit(k.policy, AgentOf(r), k) /\ FundedWell(r)
      BY <3>1 DEF LockedWell, Funding
    <3>3. Stack(Opening(r), Levels)' = Stack(Opening(r), Levels)
      BY <2>1, <2>2, <3>2, SameEnough
    <3>4. NothingAwaited'
      BY <2>1, <3>2, SameLevels DEF FundedWell
    <3> QED BY <2>1, <2>2, <3>2, <3>3, <3>4 DEF FundedWell, AdmitsDeposit, AgentOf
  <2> QED BY <2>1, <2>2, <2>3, LockedMoves
<1>2. CASE Deny(r, k)
  BY <1>2, LockedRefuse DEF Deny
<1>3. CASE Queue(r, k)
  <2>1. /\ UNCHANGED <<index, chain>> /\ pc' = [pc EXCEPT ![r] = "queued"]
        /\ ask' = [ask EXCEPT ![r] = NoAsk]
    BY <1>3 DEF Queue, files, world
  <2> QED BY <2>1, LockedEnds
<1> QED BY <1>1, <1>2, <1>3, LockedStore DEF CommitVoucher

(***************************************************************************)
(* The client asks: nothing of its own is awaited, or in flight.           *)
(***************************************************************************)
LEMMA LockedConsider ==
    ASSUME CoverInv, LockedWell, NEW r \in Requests, NEW k, k.ch \in Channels, k.policy \in Policies,
           NothingAwaited, chain[k.ch].flying = 0, k.kind = "open" => chain[k.ch].amount = 0, Consider(r, k)
    PROVE  LockedWell'
<1>1. /\ UNCHANGED <<index, chain>> /\ pc'[r] = "reading" /\ ask'[r] = k
      /\ \A q \in Requests : q # r => pc'[q] = pc[q] /\ ask'[q] = ask[q]
  BY DEF Consider, files, world, CoverInv, Shapes
<1>2. FundedWell(r)'
  BY <1>1, SameLevels DEF FundedWell
<1> QED BY <1>1, <1>2, LockedMoves

LEMMA LockedClient ==
    ASSUME CoverInv, ChainInv, ChainInv', LocksHeld, LockedWell, policy \in Policies,
           NEW r \in Requests, NEW c \in Channels, ClientAsks(r, c)
    PROVE  LockedWell'
<1>1. /\ Counts \subseteq Nat /\ Deposits \subseteq Nat /\ Q[r].price \in Nat /\ Q[r].price > 0
      /\ AgentOf(r) \in Agents
  BY VouchersAssumption DEF Counts, AgentOf
<1>2. pc[r] \in Inside
  BY DEF ClientAsks, AskVoucher, AskOpen, AskTopUp, At, Inside
<1>3. ASSUME Authorizes(r, c) PROVE index[c] \in Entries /\ Owned(c, AgentOf(r))
  BY <1>3 DEF Authorizes, CoverInv, IndexCovered, Owned
<1>4. ASSUME NEW n \in Counts, AskVoucher(r, c, n) PROVE LockedWell'
  <2> DEFINE k == Wants("voucher", c, n, 0, index[c])
  <2>1. \/ Authorizes(r, c) /\ CommitVoucher(r, k)
        \/ Refuse(r)
    BY <1>4 DEF AskVoucher
  <2>2. CASE Authorizes(r, c) /\ CommitVoucher(r, k)
    <3>1. /\ index[c] \in Entries /\ Owned(c, AgentOf(r)) /\ IsAsk(k)
          /\ k.kind = "voucher" /\ k.ch = c /\ k.entry = index[c]
      BY <1>1, <1>3, <2>2, WantsFacts
    <3>2. CommitVoucher(r, k)
      BY <2>2
    <3> HIDE DEF k
    <3>3. Considered(r, k) /\ index[k.ch] # NoEntry /\ index[k.ch].status = k.entry.status
      BY <3>1 DEF Considered, Owned
    <3> QED BY <1>2, <3>1, <3>2, <3>3, LockedCommit
  <2> QED BY <2>1, <2>2, LockedRefuse
<1>5. ASSUME NEW d \in Deposits, AskOpen(r, c, d) PROVE LockedWell'
  <2> DEFINE k == Wants("open", c, Q[r].price, d, NewEntry(r, d))
  <2>1. Consider(r, k) /\ NothingAwaited /\ chain[c] = NotOnChain
    BY <1>5 DEF AskOpen, Untouched
  <2>2. NewEntry(r, d) \in Entries
    BY <1>1 DEF NewEntry, Entries
  <2>3. k.ch = c /\ k.policy = policy
    BY <1>1, <2>2, WantsFacts
  <2>4. chain[c].amount = 0 /\ chain[c].flying = 0
    BY <2>1 DEF NotOnChain
  <2> HIDE DEF k
  <2> QED BY <2>1, <2>3, <2>4, LockedConsider
<1>6. ASSUME NEW n \in Counts, NEW d \in Deposits, AskTopUp(r, c, n, d) PROVE LockedWell'
  <2> DEFINE k == Wants("topUp", c, n, d, index[c])
  <2>1. \/ Authorizes(r, c) /\ Consider(r, k)
        \/ Refuse(r)
    BY <1>6 DEF AskTopUp
  <2>2. CASE Authorizes(r, c) /\ Consider(r, k)
    <3>1. k.kind = "topUp" /\ k.ch = c /\ k.policy = policy
      BY <1>1, <1>3, <2>2, WantsFacts
    <3>2. NothingAwaited /\ chain[c].flying = 0
      BY <1>6 DEF AskTopUp
    <3>3. Consider(r, k)
      BY <2>2
    <3> HIDE DEF k
    <3> QED BY <3>1, <3>2, <3>3, LockedConsider
  <2> QED BY <2>1, <2>2, LockedRefuse
<1> QED BY <1>4, <1>5, <1>6 DEF ClientAsks

(***************************************************************************)
(* lockedBy: nothing is awaited, so what the agent's channels hold on the  *)
(* chain, and the openings not there yet, is all they will hold.           *)
(***************************************************************************)
LEMMA HoldsEnough ==
    ASSUME CoverInv, ChainInv, NothingAwaited, NEW a, NEW ch \in OpenChannels(a)
    PROVE  Holds(ch) \in Nat /\ Levels[ch] <= Holds(ch)
<1>1. ch \in Channels /\ index[ch] \in Entries /\ ~chain[ch].awaited
  BY DEF OpenChannels, CoverInv, IndexCovered, NothingAwaited
<1>2. /\ chain[ch].amount \in Nat /\ chain[ch].late \in Nat /\ index[ch].deposit \in Nat
      /\ chain[ch].state # "landed" => chain[ch].amount = 0
  BY <1>1 DEF ChainInv, IsShown, Entries
<1>3. Levels[ch] = (chain[ch].amount - chain[ch].late) + 0
  BY <1>1, LevelsAre
<1>4. \/ chain[ch].state = "landed" /\ Holds(ch) = chain[ch].amount
      \/ chain[ch].state # "landed" /\ Holds(ch) \in {index[ch].deposit, 0}
  BY DEF Holds
<1> QED BY <1>2, <1>3, <1>4

LEMMA LockedReads ==
    ASSUME CoverInv, ChainInv, ChainInv', LocksHeld, Fresh, LockedWell, NEW r \in Requests, ReadLocked(r)
    PROVE  LockedWell'
<1> DEFINE a == AgentOf(r)
           c == ask[r].ch
<1>1. /\ pc[r] = "reading" /\ pc'[r] = "deciding" /\ chain' = chain
      /\ \A q \in Requests : q # r => pc'[q] = pc[q] /\ ask'[q] = ask[q]
      /\ ask'[r].kind = ask[r].kind /\ ask'[r].ch = c /\ ask'[r].entry = ask[r].entry
      /\ ask'[r].policy = ask[r].policy /\ ask'[r].locked = LockedBy(a)
  BY ReadsLocked
<1>2. Levels' = Levels /\ (NothingAwaited' <=> NothingAwaited)
  BY <1>1, SameLevels
<1>3. ASSUME NEW b \in Agents, NEW ch \in OpenChannels(b)' PROVE ch \in Channels /\ ch \in OpenChannels(b)
  <2>1. ch \in Channels /\ index'[ch] # NoEntry /\ index'[ch].agent = b /\ index'[ch].status = "open"
    BY DEF OpenChannels
  <2> QED BY <2>1, OnlyCloses DEF OpenChannels
<1>4. ASSUME NEW b \in Agents PROVE Room(b, LockedNow(b))'
  <2>1. \A ch \in OpenChannels(b)' : ch \in OpenChannels(b) /\ Levels'[ch] <= Levels[ch]
    BY <1>2, <1>3, LevelsAre
  <2> QED BY <2>1, RoomStays DEF LockedWell
<1>5. ASSUME Funding(r)' PROVE FundedWell(r)'
  <2>1. FundedWell(r)
    BY <1>1, <1>5 DEF LockedWell, Funding
  <2>2. /\ c \in Channels /\ NothingAwaited /\ chain[c].flying = 0 /\ Considered(r, ask[r])
        /\ ask[r].kind = "open" => chain[c].amount = 0
        /\ ask[r].kind # "open" => index[c] = ask[r].entry /\ index[c] # NoEntry /\ index[c].agent = a
    BY <1>1, <2>1 DEF FundedWell, Fresh, AskFresh, Considered, Owned
  <2>3. ask[r].kind = "open" => Levels[c] <= 0
    <3>1. Levels[c] = (chain[c].amount - chain[c].late) + IF chain[c].awaited THEN chain[c].flying ELSE 0
      BY <2>2, LevelsAre
    <3>2. chain[c].late \in Nat
      BY <2>2 DEF ChainInv, IsShown
    <3> QED BY <2>2, <3>1, <3>2
  <2> DEFINE S == Opening(r)'
             T == OpenChannels(a)
             n == [ch \in Channels |-> IF ch \in T THEN Holds(ch) ELSE 0]
  <2>4. S \in SUBSET Channels /\ T \in SUBSET Channels
    BY <1>1, <2>2 DEF Opening, OpenChannels
  <2>5. n \in [Channels -> Int] /\ Levels \in [Channels -> Int]
    BY <2>2, HoldsEnough, LevelsAre
  <2>6. ASSUME NEW ch \in S PROVE Levels[ch] <= 0 \/ (ch \in T /\ Levels[ch] <= n[ch])
    <3>1. CASE ch \in T
      <4>1. n[ch] = Holds(ch)
        BY <2>4, <3>1
      <4> QED BY <2>2, <3>1, <4>1, HoldsEnough
    <3>2. CASE ch \notin T
      <4>1. ch = c /\ ask[r].entry.status = "open"
        BY <1>1, <1>3, <3>2, Apart DEF Opening, AgentOf
      <4>2. ask[r].kind = "open"
        BY <2>2, <3>2, <4>1 DEF OpenChannels
      <4> QED BY <2>3, <4>1, <4>2
    <3> QED BY <3>1, <3>2
  <2>7. LockedBy(a) = Cardinality(Stack(T, n))
    BY <2>4 DEF LockedBy, Stack
  <2>8. Cardinality(Stack(Opening(r), Levels))' = Cardinality(Stack(S, Levels))
    BY <1>2 DEF Stack
  <2> HIDE DEF S, T, n
  <2>9. Cardinality(Stack(S, Levels)) <= Cardinality(Stack(T, n)) /\ Cardinality(Stack(T, n)) \in Nat
    BY <2>4, <2>5, <2>6, StackGrows, StackFinite
  <2>10. ask'[r].locked \in Nat /\ Cardinality(Stack(Opening(r), Levels))' <= ask'[r].locked
    BY <1>1, <2>7, <2>8, <2>9
  <2>11. chain[c].amount = 0 \/ (index'[c] # NoEntry /\ index'[c].status = ask[r].entry.status)
    <3>1. CASE ask[r].kind = "open"
      BY <2>2, <3>1
    <3>2. CASE ask[r].kind # "open" /\ index'[c] = index[c]
      BY <2>2, <3>2
    <3>3. CASE chain[c].state = "gone"
      BY <2>2, <3>3 DEF ChainInv, IsShown
    <3> QED BY <2>2, <3>1, <3>2, <3>3, OnlyCloses
  <2> QED BY <1>1, <1>2, <2>1, <2>2, <2>10, <2>11 DEF FundedWell
<1>6. ASSUME NEW q \in Requests, Funding(q)' PROVE FundedWell(q)'
  <2>1. pc[r] \in Inside
    BY <1>1 DEF Inside
  <2> QED BY <1>1, <1>5, <1>6, <2>1, OthersIdle
<1> QED BY <1>4, <1>6 DEF LockedWell

(***************************************************************************)
(* The step leaves: its agent's channels hold the deposit more, which      *)
(* decideDeposit found room for.                                           *)
(***************************************************************************)
LEMMA LockedHandOver ==
    ASSUME CoverInv, ChainInv, ChainInv', LocksHeld, Fresh, LockedWell, NEW r \in Requests, HandOver(r)
    PROVE  LockedWell'
<1> DEFINE a == AgentOf(r)
           k == ask[r]
<1>1. /\ pc[r] = "authorized" /\ pc[r] \in Inside /\ index' = index /\ pc' = [pc EXCEPT ![r] = "paid"]
      /\ ask' = [ask EXCEPT ![r] = NoAsk]
  BY DEF HandOver, At, Finish, files, Inside
<1>2. CASE k.kind = "voucher"
  <2>1. chain' = chain
    BY <1>2 DEF HandOver
  <2> QED BY <1>1, <2>1, LockedEnds
<1>3. CASE k.kind # "voucher"
  <2>1. PICK c \in Channels :
           /\ c = k.ch /\ k.deposit \in Nat
           /\ chain' = [chain EXCEPT ![c] = chain'[c]]
           /\ chain'[c].amount = chain[c].amount /\ chain'[c].late = chain[c].late
           /\ chain'[c].flying = chain[c].flying + k.deposit /\ chain'[c].awaited
    BY <1>3, HandsOver
  <2>2. FundedWell(r)
    BY <1>1, <1>3 DEF LockedWell, Funding
  <2>3. /\ chain[c].flying = 0 /\ ~chain[c].awaited
        /\ k.locked \in Nat /\ Cardinality(Stack(Opening(r), Levels)) <= k.locked
        /\ k.policy \in Policies /\ a \in DOMAIN k.policy /\ k.locked + k.deposit <= k.policy[a].lockedMax
    BY <1>1, <2>1, <2>2 DEF FundedWell, NothingAwaited, AdmitsDeposit
  <2>4. \A ch \in Channels : ch # c => chain'[ch] = chain[ch]
    BY <2>1 DEF ChainInv
  <2>5. \A ch \in Channels : ch # c => Levels'[ch] = Levels[ch]
    BY <2>4 DEF Levels, LockedInOneRun
  <2>6. Levels'[c] = Levels[c] + k.deposit
    <3>1. /\ LockedInOneRun(c) = (chain[c].amount - chain[c].late) + 0
          /\ LockedInOneRun(c)' = (chain'[c].amount - chain'[c].late) + chain'[c].flying
      BY <2>1, <2>3 DEF LockedInOneRun
    <3>2. Levels[c] = LockedInOneRun(c) /\ Levels'[c] = LockedInOneRun(c)'
      BY DEF Levels
    <3>3. chain[c].amount \in Nat /\ chain[c].late \in Nat
      BY DEF ChainInv, IsShown
    <3> QED BY <2>1, <2>3, <3>1, <3>2, <3>3
  <2>7. OpenChannels(a)' = OpenChannels(a) /\ \A b : OpenChannels(b)' = OpenChannels(b)
    BY <1>1 DEF OpenChannels, AgentOf
  <2>8. Owned(c, a)
    BY <1>1, <2>1 DEF Fresh, AskFresh
  <2>9. ASSUME NEW b \in Agents, b # a PROVE Room(b, LockedNow(b))'
    <3>1. \A ch \in OpenChannels(b)' : ch \in OpenChannels(b) /\ Levels'[ch] <= Levels[ch]
      <4>1. ASSUME NEW ch \in OpenChannels(b)' PROVE ch \in OpenChannels(b) /\ ch \in Channels /\ ch # c
        BY <2>7, <2>8, <2>9 DEF OpenChannels, Owned
      <4> QED BY <2>5, <4>1, LevelsAre
    <3> QED BY <3>1, RoomStays DEF LockedWell
  <2>10. Room(a, LockedNow(a))'
    <3> DEFINE S == OpenChannels(a)
               T == Opening(r)
               m == Levels'
               n == Levels
    <3>1. S \in SUBSET Channels /\ T \in SUBSET Channels
      BY <2>1 DEF Opening, OpenChannels
    <3>2. m \in [Channels -> Int] /\ n \in [Channels -> Int]
      <4>1. \A ch \in Channels : LockedInOneRun(ch) \in Int /\ LockedInOneRun(ch)' \in Int
        BY DEF ChainInv, IsShown, LockedInOneRun
      <4> QED BY <4>1 DEF Levels
    <3>3. LockedNow(a)' = Cardinality(Stack(S, m))
      <4>1. \A ch \in S : m[ch] = LockedInOneRun(ch)'
        BY DEF OpenChannels, Levels
      <4> QED BY <2>7, <4>1 DEF LockedNow, Stack, AgentOf
    <3>4. \A ch \in S : ch \in T /\ n[ch] <= n[ch]
      BY <3>1, <3>2 DEF Opening
    <3>5. m[c] = n[c] + k.deposit /\ \A ch \in Channels : ch # c => m[ch] = n[ch]
      BY <2>5, <2>6
    <3>6. Cardinality(Stack(T, n)) <= k.locked
      BY <2>3
    <3> HIDE DEF S, T, m, n
    <3>7. Cardinality(Stack(S, n)) <= Cardinality(Stack(T, n))
      BY <3>1, <3>2, <3>4, StackGrows
    <3>8. PICK d \in Nat : d = k.deposit
      BY <2>1
    <3>9. Cardinality(Stack(S, m)) <= Cardinality(Stack(S, n)) + d
      BY <3>1, <3>2, <3>5, <3>8, StackOneMore
    <3>10. /\ Cardinality(Stack(S, m)) \in Nat /\ Cardinality(Stack(S, n)) \in Nat
           /\ Cardinality(Stack(T, n)) \in Nat
      BY <3>1, <3>2, StackFinite
    <3>11. k.policy[a].lockedMax \in Nat
      BY <2>3, VouchersAssumption DEF DepositsParse
    <3>12. \A i, j, l, x, e, y \in Nat : i <= j + e /\ j <= l /\ l <= x /\ x + e <= y => i <= y
      OBVIOUS
    <3>13. Cardinality(Stack(S, m)) <= k.policy[a].lockedMax
      BY <2>3, <3>6, <3>7, <3>8, <3>9, <3>10, <3>11, <3>12
    <3> QED BY <2>3, <3>3, <3>13 DEF Room, AgentOf
  <2>11. ASSUME NEW q \in Requests PROVE ~Funding(q)'
    <3>1. CASE q = r
      BY <1>1, <3>1 DEF CoverInv, Shapes, Funding
    <3>2. CASE q # r
      BY <1>1, <3>2, OthersIdle DEF CoverInv, Shapes
    <3> QED BY <3>1, <3>2
  <2> QED BY <2>9, <2>10, <2>11 DEF LockedWell
<1> QED BY <1>2, <1>3

LEMMA LockedAudit ==
    ASSUME CoverInv, LockedWell, NEW r \in Requests, Audit(r)
    PROVE  LockedWell'
<1>1. /\ pc[r] = "indexed" /\ pc'[r] = "authorized" /\ UNCHANGED <<index, ask, chain>>
      /\ \A q \in Requests : q # r => pc'[q] = pc[q] /\ ask'[q] = ask[q]
  BY DEF Audit, world, CoverInv, AsksCovered, Shapes
<1>2. ASSUME Funding(r)' PROVE FundedWell(r)'
  <2>1. FundedWell(r)
    BY <1>1, <1>2 DEF LockedWell, Funding
  <2>2. Stack(Opening(r), Levels)' = Stack(Opening(r), Levels) /\ (NothingAwaited' <=> NothingAwaited)
    BY <1>1, SameEnough, SameLevels
  <2> QED BY <1>1, <2>1, <2>2 DEF FundedWell, AdmitsDeposit, AgentOf
<1> QED BY <1>1, <1>2, LockedMoves

LEMMA LockedPayload ==
    ASSUME CoverInv, ChainInv, ChainInv', LocksHeld, Fresh, LockedWell, NEW r \in Requests,
           PayloadSteps(r) \/ Approve(r) \/ Unqueue(r)
    PROVE  LockedWell'
<1>1. CASE Begin(r) \/ Enter(r) \/ Approve(r) \/ Unqueue(r)
  <2>1. /\ ask' = ask /\ UNCHANGED <<index, chain>>
        /\ \E place \in {"walletLock", "client", "refused"} : pc' = [pc EXCEPT ![r] = place]
    BY <1>1 DEF Begin, Enter, Approve, Unqueue, files, world
  <2>2. ask' = [ask EXCEPT ![r] = ask[r]]
    BY <2>1 DEF CoverInv, Shapes
  <2> QED BY <2>1, <2>2, LockedEnds
<1>2. CASE Unreadable(r) \/ ClientFails(r)
  BY <1>2, LockedRefuse DEF Unreadable, ClientFails
<1>3. CASE Fund(r)
  <2>1. /\ pc[r] = "deciding" /\ pc[r] \in Inside
        /\ \/ Refuse(r)
           \/ AdmitsDeposit(ask[r].policy, AgentOf(r), ask[r]) /\ CommitVoucher(r, ask[r])
    BY <1>3 DEF Fund, At, Inside
  <2>2. CASE Refuse(r)
    BY <2>2, LockedRefuse
  <2>3. CASE AdmitsDeposit(ask[r].policy, AgentOf(r), ask[r]) /\ CommitVoucher(r, ask[r])
    <3>1. /\ IsAsk(ask[r]) /\ ask[r].ch \in Channels /\ ask[r].entry \in Entries
          /\ Considered(r, ask[r])
      BY <2>1 DEF CoverInv, AsksCovered, Asking, Fresh, AskFresh
    <3>2. \/ chain[ask[r].ch].amount = 0 /\ chain[ask[r].ch].flying = 0
          \/ index[ask[r].ch] # NoEntry /\ index[ask[r].ch].status = ask[r].entry.status
      BY <2>1 DEF LockedWell, Funding, FundedWell
    <3> QED BY <2>1, <2>3, <3>1, <3>2, LockedCommit
  <2> QED BY <2>1, <2>2, <2>3
<1>4. CASE Undelivered(r)
  <2>1. /\ UNCHANGED <<index, chain>> /\ pc' = [pc EXCEPT ![r] = "undelivered"]
        /\ ask' = [ask EXCEPT ![r] = NoAsk]
    BY <1>4 DEF Undelivered, Finish, files, world
  <2> QED BY <2>1, LockedEnds
<1> QED BY <1>1, <1>2, <1>3, <1>4, LockedReads, LockedAudit, LockedHandOver DEF PayloadSteps

(***************************************************************************)
(* The chain and the end of a run take nothing more.                       *)
(***************************************************************************)
LEMMA LockedRests ==
    ASSUME LockedWell, UNCHANGED <<index, chain, pc, ask>> PROVE LockedWell'
<1>1. \A a \in Agents : Room(a, LockedNow(a))'
  BY SameRoom DEF LockedWell, Room
<1>2. ASSUME NEW q \in Requests, Funding(q)' PROVE FundedWell(q)'
  <2>1. FundedWell(q)
    BY <1>2 DEF LockedWell, Funding
  <2>2. Stack(Opening(q), Levels)' = Stack(Opening(q), Levels) /\ (NothingAwaited' <=> NothingAwaited)
    BY SameEnough, SameLevels
  <2> QED BY <2>1, <2>2 DEF FundedWell, AdmitsDeposit, AgentOf
<1> QED BY <1>1, <1>2 DEF LockedWell

LEMMA LockedOnChain ==
    ASSUME CoverInv, ChainInv, ChainInv', LockedWell, UNCHANGED <<index, pc, ask>>, NEW c \in Channels,
           \A ch \in Channels : ch # c => chain'[ch] = chain[ch],
           Levels'[c] <= 0 \/ Levels'[c] <= Levels[c],
           ~chain'[c].awaited, chain'[c].flying = 0,
           chain[c].flying = 0 /\ chain[c].amount = 0 => chain'[c].amount = 0
    PROVE  LockedWell'
<1>1. \A ch \in Channels : ch # c => Levels'[ch] = Levels[ch]
  BY DEF Levels, LockedInOneRun
<1>2. \A ch \in Channels : Levels'[ch] <= 0 \/ Levels'[ch] <= Levels[ch]
  BY <1>1, LevelsAre
<1>3. NothingAwaited => NothingAwaited'
  BY DEF NothingAwaited
<1>4. \A a : OpenChannels(a)' = OpenChannels(a) /\ OpenChannels(a) \in SUBSET Channels
  BY DEF OpenChannels
<1>5. ASSUME NEW a \in Agents PROVE Room(a, LockedNow(a))'
  BY <1>2, <1>4, RoomStays DEF LockedWell
<1>6. ASSUME NEW q \in Requests, Funding(q)' PROVE FundedWell(q)'
  <2>1. FundedWell(q)
    BY <1>6 DEF LockedWell, Funding
  <2>2. ask'[q] = ask[q] /\ ask[q].ch \in Channels /\ Opening(q)' = Opening(q) /\ Opening(q) \in SUBSET Channels
    BY <1>4, <2>1 DEF FundedWell, Opening, AgentOf
  <2>3. ASSUME NEW n \in Nat, Cardinality(Stack(Opening(q), Levels)) <= n
        PROVE  Cardinality(Stack(Opening(q), Levels))' <= n
    BY <1>2, <2>2, <2>3, EnoughStays
  <2>4. chain'[ask[q].ch].flying = 0 /\ (chain[ask[q].ch].amount = 0 => chain'[ask[q].ch].amount = 0)
    BY <2>1 DEF FundedWell
  <2>5. pc'[q] # "reading" => /\ ask'[q].locked \in Nat
                              /\ Cardinality(Stack(Opening(q), Levels))' <= ask'[q].locked
    <3>1. SUFFICES ASSUME pc[q] # "reading"
                   PROVE  /\ ask[q].locked \in Nat
                          /\ Cardinality(Stack(Opening(q), Levels))' <= ask[q].locked
      BY <2>2
    <3>2. ask[q].locked \in Nat /\ Cardinality(Stack(Opening(q), Levels)) <= ask[q].locked
      BY <2>1, <3>1 DEF FundedWell
    <3>3. PICK n \in Nat : n = ask[q].locked
      BY <3>2
    <3> QED BY <2>3, <3>2, <3>3
  <2> QED BY <1>3, <2>1, <2>2, <2>4, <2>5 DEF FundedWell, AdmitsDeposit, AgentOf
<1> QED BY <1>5, <1>6 DEF LockedWell

LEMMA LockedChain ==
    ASSUME CoverInv, ChainInv, ChainInv', LockedWell, NEW c \in Channels, ChainSteps(c)
    PROVE  LockedWell'
<1>1. UNCHANGED <<index, pc, ask>> /\ \A ch \in Channels : ch # c => chain'[ch] = chain[ch]
  BY DEF ChainSteps, Land, Drop, CloseOut, files, ChainInv
<1>2. /\ chain[c].amount \in Nat /\ chain[c].flying \in Nat /\ chain[c].late \in Nat
      /\ Levels[c] = (chain[c].amount - chain[c].late) + IF chain[c].awaited THEN chain[c].flying ELSE 0
  BY LevelsAre DEF ChainInv, IsShown
<1>3. ~chain'[c].awaited => Levels'[c] = (chain'[c].amount - chain'[c].late) + 0
  BY DEF Levels, LockedInOneRun
<1>4. CASE Land(c)
  <2>1. chain'[c] = [state |-> "landed", amount |-> chain[c].amount + chain[c].flying,
                     flying |-> 0, awaited |-> FALSE,
                     late |-> IF chain[c].awaited THEN chain[c].late ELSE chain[c].late + chain[c].flying]
    BY <1>4 DEF Land, ChainInv
  <2>2. /\ chain'[c].amount = chain[c].amount + chain[c].flying /\ chain'[c].flying = 0
        /\ ~chain'[c].awaited /\ chain[c].flying > 0
        /\ chain'[c].late = IF chain[c].awaited THEN chain[c].late ELSE chain[c].late + chain[c].flying
    BY <1>4, <2>1 DEF Land
  <2>3. Levels'[c] <= Levels[c]
    BY <1>2, <1>3, <2>2
  <2> QED BY <1>1, <1>2, <2>2, <2>3, LockedOnChain
<1>5. CASE Drop(c)
  <2>1. chain'[c] = [state |-> IF chain[c].state = "none" THEN "gone" ELSE chain[c].state,
                     amount |-> chain[c].amount, flying |-> 0, awaited |-> FALSE, late |-> chain[c].late]
    BY <1>5 DEF Drop, ChainInv
  <2>2. /\ chain'[c].amount = chain[c].amount /\ chain'[c].flying = 0
        /\ ~chain'[c].awaited /\ chain'[c].late = chain[c].late
    BY <2>1
  <2>3. Levels'[c] <= Levels[c]
    BY <1>2, <1>3, <2>2
  <2> QED BY <1>1, <2>2, <2>3, LockedOnChain
<1>6. CASE CloseOut(c)
  <2>1. chain'[c] = [NotOnChain EXCEPT !.state = "gone"]
    BY <1>6 DEF CloseOut, ChainInv
  <2>2. /\ chain'[c].amount = 0 /\ chain'[c].flying = 0 /\ ~chain'[c].awaited /\ chain'[c].late = 0
    BY <2>1 DEF NotOnChain
  <2>3. Levels'[c] <= 0
    BY <1>3, <2>2
  <2> QED BY <1>1, <2>2, <2>3, LockedOnChain
<1> QED BY <1>4, <1>5, <1>6 DEF ChainSteps

LEMMA LockedCrash ==
    ASSUME ChainInv, ChainInv', LockedWell, Crash, index' = index
    PROVE  LockedWell'
<1>1. /\ pc' = [r \in Requests |-> IF pc[r] \in Ongoing THEN "lost" ELSE pc[r]]
      /\ chain' = [ch \in Channels |-> [chain[ch] EXCEPT !.awaited = FALSE]]
  BY DEF Crash
<1>2. ASSUME NEW ch \in Channels PROVE Levels'[ch] <= Levels[ch]
  <2>1. /\ chain'[ch].amount = chain[ch].amount /\ chain'[ch].late = chain[ch].late
        /\ ~chain'[ch].awaited
    BY <1>1 DEF ChainInv, IsShown, Fields
  <2>2. LockedInOneRun(ch)' = (chain[ch].amount - chain[ch].late) + 0
    BY <2>1 DEF LockedInOneRun
  <2>3. Levels'[ch] = LockedInOneRun(ch)'
    BY DEF Levels
  <2>4. /\ chain[ch].amount \in Nat /\ chain[ch].flying \in Nat /\ chain[ch].late \in Nat
        /\ Levels[ch] = (chain[ch].amount - chain[ch].late) + IF chain[ch].awaited THEN chain[ch].flying ELSE 0
    BY LevelsAre DEF ChainInv, IsShown
  <2> QED BY <2>2, <2>3, <2>4
<1>3. ASSUME NEW a \in Agents PROVE Room(a, LockedNow(a))'
  <2>1. \A ch \in OpenChannels(a)' : ch \in OpenChannels(a) /\ Levels'[ch] <= Levels[ch]
    BY <1>2 DEF OpenChannels
  <2> QED BY <2>1, RoomStays DEF LockedWell
<1>4. \A r \in Requests : ~Funding(r)'
  BY <1>1 DEF Funding, Ongoing
<1> QED BY <1>3, <1>4 DEF LockedWell

LEMMA LockedStep ==
    FilesInv /\ FilesInv' /\ policy \in Policies /\ LockedInv /\ [Next]_vars => LockedInv'
<1> SUFFICES ASSUME CoverInv, ChainInv, ChainInv', LocksHeld, Fresh, policy \in Policies, LockedWell,
                    [Next]_vars, Crash => index' = index
             PROVE  LockedWell'
  BY IntactBefore DEF FilesInv, FreshInv, LockedInv
<1>1. ASSUME NEW a \in Agents, IndexSteps(a) PROVE LockedWell'
  <2>1. Recover(a) \/ EndAux(a) \/ \E c \in Channels : ReadForLift(a, c)
    BY <1>1, NobodyFollows, NothingLifts DEF IndexSteps
  <2>2. UNCHANGED <<index, chain, pc, ask>>
    BY <2>1 DEF Recover, EndAux, ReadForLift, files, world
  <2> QED BY <2>2, LockedRests
<1>2. ASSUME NEW c \in Channels, NEW n \in Counts, Refund(c, n) PROVE LockedWell'
  BY <1>2, LockedRests DEF Refund, files
<1>3. ASSUME UNCHANGED vars PROVE LockedWell'
  BY <1>3, LockedRests DEF vars, files, world
<1> QED BY <1>1, <1>2, <1>3, LockedPayload, LockedClient, LockedChain, LockedCrash DEF Next

(***************************************************************************)
(* LockedWithinLimit: however requests, crashes and the chain interleave,  *)
(* what an agent's channels hold is within the channelLockedMax of a       *)
(* policy that was read, though the policy and lockedBy's answer are both  *)
(* from before the awaits that follow them.                                *)
(***************************************************************************)
THEOREM DepositsStayWithinTheLimit == Spec => []LockedWithinLimit
<1> DEFINE I == FilesInv /\ BudgetInv /\ LockedInv
<1>1. Init => I
  BY CoverInit, ChainInit, LocksInit, FreshInit, BudgetInit, LockedInit DEF FilesInv
<1>2. I /\ [Next]_vars => I'
  <2>1. FilesInv /\ [Next]_vars => FilesInv'
    BY CoverStep, ChainInvStep, LocksStep, FreshStep DEF FilesInv
  <2>2. FilesInv /\ BudgetInv /\ [Next]_vars => BudgetInv'
    BY BudgetStep DEF FilesInv
  <2>3. BudgetInv => policy \in Policies
    BY DEF BudgetInv
  <2> QED BY <2>1, <2>2, <2>3, LockedStep
<1>3. I => LockedWithinLimit
  BY DEF LockedInv, LockedWell, Room, LockedWithinLimit
<1> QED BY <1>1, <1>2, <1>3, PTL DEF Spec
=============================================================================
