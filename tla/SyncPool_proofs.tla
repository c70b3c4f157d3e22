-------------------------- MODULE SyncPool_proofs --------------------------
(***************************************************************************)
(* For every number of threads, every max_size and every number of calls:  *)
(* the slot accounting of the blocking pool is exact, the pool stays within*)
(* max_size, the create-mode handshake is serialized, no connection is in  *)
(* two places, no wakeup of the condition variable is lost, and the pool   *)
(* implements PoolContract.                                                *)
(***************************************************************************)
EXTENDS SyncPool, FiniteSetTheorems, SequenceTheorems, TLAPS

\* The inductive invariant.  HandsFull says that a thread at a point where it
\* owns a connection has one, which checkin() needs to keep idle well typed.
\* WithinMaxSize is not inductive by itself:
\* ReserveFirst does not look at max_size, and only the accounting and the
\* handshake invariant together show that size is 0 there.
HandsFull == \A t \in Threads : pc[t] \in OwnsConn => conn[t] \in Conns

IInv == TypeOK /\ HandsFull /\ Accounting /\ HandshakeSerialized /\ WithinMaxSize

LEMMA LenNat == TypeOK => Len(idle) \in Nat
  BY DEF TypeOK

LEMMA FrontLen ==
  ASSUME NEW S, NEW s \in Seq(S), s # <<>>
  PROVE  Len(SubSeq(s, 1, Len(s) - 1)) = Len(s) - 1
  <1>1. Len(s) \in Nat \ {0} BY EmptySeq
  <1>2. DEFINE n == Len(s) - 1
  <1>3. n \in Nat BY <1>1
  <1>4. \A i \in 1 .. n : s[i] \in S BY <1>1, <1>3
  <1> HIDE DEF n
  <1>5. Len(SubSeq(s, 1, n)) = IF 1 <= n THEN n - 1 + 1 ELSE 0
    BY <1>3, <1>4, SubSeqProperties
  <1>6. Len(SubSeq(s, 1, n)) = n BY <1>3, <1>5
  <1> QED BY <1>6 DEF n

LEMMA OwnersFinite == IsFiniteSet(Owners) /\ Cardinality(Owners) \in Nat
  BY ConstAssumption, FS_Subset, FS_CardinalityType DEF Owners

\* A thread that takes a slot adds one owner, one that gives it back removes one.
LEMMA OwnerJoins ==
  ASSUME NEW t \in Threads, t \notin Owners, Owners' = Owners \cup {t}
  PROVE  Cardinality(Owners') = Cardinality(Owners) + 1
  BY OwnersFinite, FS_AddElement

LEMMA OwnerLeaves ==
  ASSUME NEW t \in Threads, t \in Owners, Owners' = Owners \ {t}
  PROVE  /\ Cardinality(Owners') = Cardinality(Owners) - 1
         /\ Cardinality(Owners) > 0
  <1>1. Cardinality(Owners') = Cardinality(Owners) - 1
    BY OwnersFinite, FS_RemoveElement
  <1>2. Cardinality(Owners) # 0
    BY OwnersFinite, FS_EmptySet
  <1> QED BY <1>1, <1>2, OwnersFinite

LEMMA TypeStep == TypeOK /\ HandsFull /\ [Next]_vars => TypeOK'
  <1> SUFFICES ASSUME TypeOK, HandsFull, [Next]_vars PROVE TypeOK'
    OBVIOUS
  <1> USE ConstAssumption DEF TypeOK, PCs, OwnsSlot, OwnsConn, Creating, Notifying, Goto, pool
  <1>1. ASSUME NEW t \in Threads, Get(t) PROVE TypeOK'
    BY <1>1 DEF Get
  <1>2. ASSUME NEW t \in Threads, PopIdle(t) PROVE TypeOK'
    BY <1>2 DEF PopIdle
  <1>3. ASSUME NEW t \in Threads, ReserveFirst(t) PROVE TypeOK'
    BY <1>3 DEF ReserveFirst
  <1>4. ASSUME NEW t \in Threads, Reserve(t) PROVE TypeOK'
    BY <1>4 DEF Reserve
  <1>5. ASSUME NEW t \in Threads, ChooseWait(t) PROVE TypeOK'
    BY <1>5 DEF ChooseWait
  <1>6. ASSUME NEW t \in Threads, ReadLiveSize(t) PROVE TypeOK'
    BY <1>6 DEF ReadLiveSize
  <1>7. ASSUME NEW t \in Threads, CheckConn(t) PROVE TypeOK'
    BY <1>7 DEF CheckConn
  <1>8. ASSUME NEW t \in Threads, Retire(t) PROVE TypeOK'
    BY <1>8 DEF Retire, Minus1
  <1>9. ASSUME NEW t \in Threads, OpenOk(t) PROVE TypeOK'
    BY <1>9 DEF OpenOk
  <1>10. ASSUME NEW t \in Threads, OpenFail(t) PROVE TypeOK'
    BY <1>10 DEF OpenFail, Minus1
  <1>11. ASSUME NEW t \in Threads, Recheck(t) PROVE TypeOK'
    BY <1>11 DEF Recheck
  <1>12. ASSUME NEW t \in Threads, NotifyOne(t) PROVE TypeOK'
    BY <1>12 DEF NotifyOne, After, Parked
  <1>13. ASSUME NEW t \in Threads, NotifyAll(t) PROVE TypeOK'
    BY <1>13 DEF NotifyAll, After
  <1>14. ASSUME NEW t \in Threads, WaitTimedOut(t) \/ SpuriousWakeup(t) PROVE TypeOK'
    BY <1>14 DEF WaitTimedOut, SpuriousWakeup
  <1>15. ASSUME NEW t \in Threads, Checkin(t) PROVE TypeOK'
    BY <1>15 DEF Checkin, HandsFull
  <1>16. ASSUME NEW t \in Threads, Discard(t) PROVE TypeOK'
    BY <1>16 DEF Discard, Minus1
  <1>17. CASE UNCHANGED vars
    BY <1>17 DEF vars
  <1> QED
    BY <1>1, <1>2, <1>3, <1>4, <1>5, <1>6, <1>7, <1>8, <1>9, <1>10, <1>11, <1>12,
       <1>13, <1>14, <1>15, <1>16, <1>17 DEF Next, Proceed, Release, Finished

(***************************************************************************)
(* Per action: the four other conjuncts.  Each action either leaves the set*)
(* of owners alone, or moves one thread into it or out of it.              *)
(***************************************************************************)
LEMMA Quiet ==
  ASSUME IInv, Owners' = Owners, UNCHANGED <<idle, size>>
  PROVE  Accounting' /\ WithinMaxSize'
  BY DEF IInv, Accounting, WithinMaxSize

LEMMA HandshakeFrame ==
  ASSUME HandshakeSerialized, UNCHANGED <<idle, initialized, init_in_progress>>,
         \A u \in Threads : (pc'[u] = "create_first") <=> (pc[u] = "create_first"),
         \A u \in Threads : pc'[u] \in OwnsSlot => pc[u] \in OwnsSlot
  PROVE  HandshakeSerialized'
  BY DEF HandshakeSerialized

LEMMA GetStep ==
  ASSUME IInv, NEW t \in Threads, Get(t)
  PROVE  HandsFull' /\ HandshakeSerialized' /\ Accounting' /\ WithinMaxSize'
  <1> USE ConstAssumption DEF IInv, TypeOK, PCs, OwnsSlot, OwnsConn, Creating, Notifying, Goto, pool, Get
  <1>1. HandsFull' BY DEF HandsFull
  <1>2. HandshakeSerialized' BY DEF HandshakeSerialized
  <1>3. Owners' = Owners BY DEF Owners
  <1> QED BY <1>1, <1>2, <1>3, Quiet

LEMMA PopIdleStep ==
  ASSUME IInv, NEW t \in Threads, PopIdle(t)
  PROVE  HandsFull' /\ HandshakeSerialized' /\ Accounting' /\ WithinMaxSize'
  <1> USE ConstAssumption DEF IInv, TypeOK, PCs, OwnsSlot, OwnsConn, Creating, Notifying, Goto, pool
  <1>1. HandsFull' BY DEF HandsFull, PopIdle
  <1>2. HandshakeSerialized' BY DEF HandshakeSerialized, PopIdle
  <1>3. Cardinality(Owners') = Cardinality(Owners) + 1
    <2>1. t \notin Owners /\ Owners' = Owners \cup {t} BY DEF Owners, PopIdle
    <2> QED BY <2>1, OwnerJoins
  <1>4. Len(idle') = Len(idle) - 1
    <2>1. idle \in Seq(Conns) /\ idle # <<>> BY DEF PopIdle
    <2>3. idle' = SubSeq(idle, 1, Len(idle) - 1) BY DEF PopIdle
    <2> QED BY <2>1, <2>3, FrontLen
  <1>5. size' = size BY DEF PopIdle
  <1> QED BY <1>1, <1>2, <1>3, <1>4, <1>5, OwnersFinite, LenNat DEF Accounting, WithinMaxSize

LEMMA ReserveFirstStep ==
  ASSUME IInv, NEW t \in Threads, ReserveFirst(t)
  PROVE  HandsFull' /\ HandshakeSerialized' /\ Accounting' /\ WithinMaxSize'
  <1> USE ConstAssumption DEF IInv, TypeOK, PCs, OwnsSlot, OwnsConn, Creating, Notifying, Goto, pool
  <1>1. HandsFull' BY DEF HandsFull, ReserveFirst
  <1>2. HandshakeSerialized' BY DEF HandshakeSerialized, ReserveFirst
  <1>3. Cardinality(Owners') = Cardinality(Owners) + 1
    <2>1. t \notin Owners /\ Owners' = Owners \cup {t} BY DEF Owners, ReserveFirst
    <2> QED BY <2>1, OwnerJoins
  <1>4. size = 0
    <2>1. Owners = {} BY DEF HandshakeSerialized, Owners, ReserveFirst
    <2>2. idle = <<>> BY DEF ReserveFirst
    <2> QED BY <2>1, <2>2, FS_EmptySet DEF Accounting
  <1>5. size' = size + 1 /\ idle' = idle BY DEF ReserveFirst
  <1> QED BY <1>1, <1>2, <1>3, <1>4, <1>5, OwnersFinite, LenNat DEF Accounting, WithinMaxSize

LEMMA ReserveStep ==
  ASSUME IInv, NEW t \in Threads, Reserve(t)
  PROVE  HandsFull' /\ HandshakeSerialized' /\ Accounting' /\ WithinMaxSize'
  <1> USE ConstAssumption DEF IInv, TypeOK, PCs, OwnsSlot, OwnsConn, Creating, Notifying, Goto, pool
  <1>1. HandsFull' BY DEF HandsFull, Reserve
  <1>2. HandshakeSerialized' BY DEF HandshakeSerialized, Reserve
  <1>3. Cardinality(Owners') = Cardinality(Owners) + 1
    <2>1. t \notin Owners /\ Owners' = Owners \cup {t} BY DEF Owners, Reserve
    <2> QED BY <2>1, OwnerJoins
  <1>4. size' = size + 1 /\ idle' = idle /\ size < MaxSize BY DEF Reserve
  <1> QED BY <1>1, <1>2, <1>3, <1>4, OwnersFinite, LenNat DEF Accounting, WithinMaxSize

LEMMA ChooseWaitStep ==
  ASSUME IInv, NEW t \in Threads, ChooseWait(t)
  PROVE  HandsFull' /\ HandshakeSerialized' /\ Accounting' /\ WithinMaxSize'
  <1> USE ConstAssumption DEF IInv, TypeOK, PCs, OwnsSlot, OwnsConn, Creating, Notifying, Goto, pool
  <1>1. HandsFull' BY DEF HandsFull, ChooseWait
  <1>2. HandshakeSerialized' BY DEF HandshakeSerialized, ChooseWait
  <1>3. Owners' = Owners BY DEF Owners, ChooseWait
  <1>4. UNCHANGED <<idle, size>> BY DEF ChooseWait
  <1> QED BY <1>1, <1>2, <1>3, <1>4, Quiet

LEMMA ReadLiveSizeStep ==
  ASSUME IInv, NEW t \in Threads, ReadLiveSize(t)
  PROVE  HandsFull' /\ HandshakeSerialized' /\ Accounting' /\ WithinMaxSize'
  <1> USE ConstAssumption DEF IInv, TypeOK, PCs, OwnsSlot, OwnsConn, Creating, Notifying, Goto, pool
  <1>1. HandsFull' BY DEF HandsFull, ReadLiveSize
  <1>2. HandshakeSerialized' BY DEF HandshakeSerialized, ReadLiveSize
  <1>3. Owners' = Owners BY DEF Owners, ReadLiveSize
  <1>4. UNCHANGED <<idle, size>> BY DEF ReadLiveSize
  <1> QED BY <1>1, <1>2, <1>3, <1>4, Quiet

LEMMA CheckConnStep ==
  ASSUME IInv, NEW t \in Threads, CheckConn(t)
  PROVE  HandsFull' /\ HandshakeSerialized' /\ Accounting' /\ WithinMaxSize'
  <1> USE ConstAssumption DEF IInv, TypeOK, PCs, OwnsSlot, OwnsConn, Creating, Notifying, Goto, pool
  <1>1. HandsFull' BY DEF HandsFull, CheckConn
  <1>2. HandshakeSerialized' BY DEF HandshakeSerialized, CheckConn
  <1>3. Owners' = Owners BY DEF Owners, CheckConn
  <1>4. UNCHANGED <<idle, size>> BY DEF CheckConn
  <1> QED BY <1>1, <1>2, <1>3, <1>4, Quiet

LEMMA RecheckStep ==
  ASSUME IInv, NEW t \in Threads, Recheck(t)
  PROVE  HandsFull' /\ HandshakeSerialized' /\ Accounting' /\ WithinMaxSize'
  <1> USE ConstAssumption DEF IInv, TypeOK, PCs, OwnsSlot, OwnsConn, Creating, Notifying, Goto, pool
  <1>1. HandsFull' BY DEF HandsFull, Recheck
  <1>2. HandshakeSerialized'
    <2>1. \A u \in Threads : (pc'[u] = "create_first") <=> (pc[u] = "create_first")
      BY DEF Recheck
    <2>2. \A u \in Threads : pc'[u] \in OwnsSlot => pc[u] \in OwnsSlot
      BY DEF Recheck
    <2>3. UNCHANGED <<idle, initialized, init_in_progress>>
      BY DEF Recheck
    <2> QED BY <2>1, <2>2, <2>3, HandshakeFrame
  <1>3. Owners' = Owners BY DEF Owners, Recheck
  <1>4. UNCHANGED <<idle, size>> BY DEF Recheck
  <1> QED BY <1>1, <1>2, <1>3, <1>4, Quiet

LEMMA WaitTimedOutStep ==
  ASSUME IInv, NEW t \in Threads, WaitTimedOut(t)
  PROVE  HandsFull' /\ HandshakeSerialized' /\ Accounting' /\ WithinMaxSize'
  <1> USE ConstAssumption DEF IInv, TypeOK, PCs, OwnsSlot, OwnsConn, Creating, Notifying, Goto, pool
  <1>1. HandsFull' BY DEF HandsFull, WaitTimedOut
  <1>2. HandshakeSerialized' BY DEF HandshakeSerialized, WaitTimedOut
  <1>3. Owners' = Owners BY DEF Owners, WaitTimedOut
  <1>4. UNCHANGED <<idle, size>> BY DEF WaitTimedOut
  <1> QED BY <1>1, <1>2, <1>3, <1>4, Quiet

LEMMA SpuriousWakeupStep ==
  ASSUME IInv, NEW t \in Threads, SpuriousWakeup(t)
  PROVE  HandsFull' /\ HandshakeSerialized' /\ Accounting' /\ WithinMaxSize'
  <1> USE ConstAssumption DEF IInv, TypeOK, PCs, OwnsSlot, OwnsConn, Creating, Notifying, Goto, pool
  <1>1. HandsFull' BY DEF HandsFull, SpuriousWakeup
  <1>2. HandshakeSerialized' BY DEF HandshakeSerialized, SpuriousWakeup
  <1>3. Owners' = Owners BY DEF Owners, SpuriousWakeup
  <1>4. UNCHANGED <<idle, size>> BY DEF SpuriousWakeup
  <1> QED BY <1>1, <1>2, <1>3, <1>4, Quiet

LEMMA OpenOkStep ==
  ASSUME IInv, NEW t \in Threads, OpenOk(t)
  PROVE  HandsFull' /\ HandshakeSerialized' /\ Accounting' /\ WithinMaxSize'
  <1> USE ConstAssumption DEF IInv, TypeOK, PCs, OwnsSlot, OwnsConn, Creating, Notifying, Goto, pool
  <1>1. HandsFull' BY DEF HandsFull, OpenOk
  <1>2. HandshakeSerialized' BY ZenonT(30) DEF HandshakeSerialized, OpenOk
  <1>3. Owners' = Owners BY DEF Owners, OpenOk
  <1>4. UNCHANGED <<idle, size>> BY DEF OpenOk
  <1> QED BY <1>1, <1>2, <1>3, <1>4, Quiet

LEMMA NotifyOneStep ==
  ASSUME IInv, NEW t \in Threads, NotifyOne(t)
  PROVE  HandsFull' /\ HandshakeSerialized' /\ Accounting' /\ WithinMaxSize'
  <1> USE ConstAssumption DEF IInv, TypeOK, PCs, OwnsSlot, OwnsConn, Creating, Notifying, Goto, pool
  <1>1. HandsFull' BY DEF HandsFull, NotifyOne, After, Parked
  <1>2. HandshakeSerialized'
    <2>1. \A u \in Threads : (pc'[u] = "create_first") <=> (pc[u] = "create_first")
      BY DEF NotifyOne, After, Parked
    <2>2. \A u \in Threads : pc'[u] \in OwnsSlot => pc[u] \in OwnsSlot
      BY ZenonT(30) DEF NotifyOne, After, Parked
    <2>3. UNCHANGED <<idle, initialized, init_in_progress>>
      BY DEF NotifyOne
    <2> QED BY <2>1, <2>2, <2>3, HandshakeFrame
  <1>3. Owners' = Owners BY DEF Owners, NotifyOne, After, Parked
  <1>4. UNCHANGED <<idle, size>> BY DEF NotifyOne
  <1> QED BY <1>1, <1>2, <1>3, <1>4, Quiet

LEMMA NotifyAllStep ==
  ASSUME IInv, NEW t \in Threads, NotifyAll(t)
  PROVE  HandsFull' /\ HandshakeSerialized' /\ Accounting' /\ WithinMaxSize'
  <1> USE ConstAssumption DEF IInv, TypeOK, PCs, OwnsSlot, OwnsConn, Creating, Notifying, Goto, pool
  <1>1. HandsFull' BY DEF HandsFull, NotifyAll, After, Parked
  <1>2. HandshakeSerialized' BY DEF HandshakeSerialized, NotifyAll, After, Parked
  <1>3. Owners' = Owners BY DEF Owners, NotifyAll, After, Parked
  <1>4. UNCHANGED <<idle, size>> BY DEF NotifyAll
  <1> QED BY <1>1, <1>2, <1>3, <1>4, Quiet

LEMMA RetireStep ==
  ASSUME IInv, NEW t \in Threads, Retire(t)
  PROVE  HandsFull' /\ HandshakeSerialized' /\ Accounting' /\ WithinMaxSize'
  <1> USE ConstAssumption DEF IInv, TypeOK, PCs, OwnsSlot, OwnsConn, Creating, Notifying, Goto, pool
  <1>1. HandsFull' BY DEF HandsFull, Retire
  <1>2. HandshakeSerialized' BY DEF HandshakeSerialized, Retire
  <1>3. /\ Cardinality(Owners') = Cardinality(Owners) - 1
        /\ Cardinality(Owners) > 0
    <2>1. t \in Owners /\ Owners' = Owners \ {t} BY DEF Owners, Retire
    <2> QED BY <2>1, OwnerLeaves
  <1>4. size' = Minus1(size) /\ idle' = idle BY DEF Retire
  <1> QED BY <1>1, <1>2, <1>3, <1>4, OwnersFinite, LenNat DEF Accounting, WithinMaxSize, Minus1

LEMMA OpenFailStep ==
  ASSUME IInv, NEW t \in Threads, OpenFail(t)
  PROVE  HandsFull' /\ HandshakeSerialized' /\ Accounting' /\ WithinMaxSize'
  <1> USE ConstAssumption DEF IInv, TypeOK, PCs, OwnsSlot, OwnsConn, Creating, Notifying, Goto, pool
  <1>1. HandsFull' BY DEF HandsFull, OpenFail
  <1>2. HandshakeSerialized' BY DEF HandshakeSerialized, OpenFail
  <1>3. /\ Cardinality(Owners') = Cardinality(Owners) - 1
        /\ Cardinality(Owners) > 0
    <2>1. t \in Owners /\ Owners' = Owners \ {t} BY DEF Owners, OpenFail
    <2> QED BY <2>1, OwnerLeaves
  <1>4. size' = Minus1(size) /\ idle' = idle BY DEF OpenFail
  <1> QED BY <1>1, <1>2, <1>3, <1>4, OwnersFinite, LenNat DEF Accounting, WithinMaxSize, Minus1

LEMMA DiscardStep ==
  ASSUME IInv, NEW t \in Threads, Discard(t)
  PROVE  HandsFull' /\ HandshakeSerialized' /\ Accounting' /\ WithinMaxSize'
  <1> USE ConstAssumption DEF IInv, TypeOK, PCs, OwnsSlot, OwnsConn, Creating, Notifying, Goto, pool
  <1>1. HandsFull' BY DEF HandsFull, Discard
  <1>2. HandshakeSerialized' BY DEF HandshakeSerialized, Discard
  <1>3. /\ Cardinality(Owners') = Cardinality(Owners) - 1
        /\ Cardinality(Owners) > 0
    <2>1. t \in Owners /\ Owners' = Owners \ {t} BY DEF Owners, Discard
    <2> QED BY <2>1, OwnerLeaves
  <1>4. size' = Minus1(size) /\ idle' = idle BY DEF Discard
  <1> QED BY <1>1, <1>2, <1>3, <1>4, OwnersFinite, LenNat DEF Accounting, WithinMaxSize, Minus1

LEMMA CheckinStep ==
  ASSUME IInv, NEW t \in Threads, Checkin(t)
  PROVE  HandsFull' /\ HandshakeSerialized' /\ Accounting' /\ WithinMaxSize'
  <1> USE ConstAssumption DEF IInv, TypeOK, PCs, OwnsSlot, OwnsConn, Creating, Notifying, Goto, pool
  <1>1. HandsFull' BY DEF HandsFull, Checkin
  <1>2. HandshakeSerialized' BY DEF HandshakeSerialized, Checkin
  <1>3. /\ Cardinality(Owners') = Cardinality(Owners) - 1
        /\ Cardinality(Owners) > 0
    <2>1. t \in Owners /\ Owners' = Owners \ {t} BY DEF Owners, Checkin
    <2> QED BY <2>1, OwnerLeaves
  <1>4. size' = size /\ Len(idle') = Len(idle) + 1
    BY DEF Checkin, HandsFull
  <1> QED BY <1>1, <1>2, <1>3, <1>4, OwnersFinite, LenNat DEF Accounting, WithinMaxSize

LEMMA InitIInv == Init => IInv
  <1> SUFFICES ASSUME Init PROVE IInv
    OBVIOUS
  <1> USE ConstAssumption DEF Init, OwnsSlot, OwnsConn, Creating
  <1>1. TypeOK
    <2>1. idle \in Seq(Conns) BY EmptySeq
    <2>2. initialized \in BOOLEAN /\ init_in_progress \in BOOLEAN BY Zenon
    <2> QED BY <2>1, <2>2 DEF TypeOK, PCs
  <1>2. HandsFull BY DEF HandsFull
  <1>3. HandshakeSerialized BY DEF HandshakeSerialized
  <1>4. Accounting
    <2>1. Owners = {} BY DEF Owners
    <2> QED BY <2>1, FS_EmptySet DEF Accounting
  <1>5. WithinMaxSize BY DEF WithinMaxSize
  <1> QED BY <1>1, <1>2, <1>3, <1>4, <1>5 DEF IInv

LEMMA IInvStep == IInv /\ [Next]_vars => IInv'
  <1> SUFFICES ASSUME IInv, [Next]_vars PROVE IInv'
    OBVIOUS
  <1>1. TypeOK' BY TypeStep DEF IInv
  <1>2. HandsFull' /\ HandshakeSerialized' /\ Accounting' /\ WithinMaxSize'
    <2>1. ASSUME NEW t \in Threads, Get(t) \/ Proceed(t) \/ Release(t) \/ WaitTimedOut(t) \/ SpuriousWakeup(t)
          PROVE  HandsFull' /\ HandshakeSerialized' /\ Accounting' /\ WithinMaxSize'
      BY <2>1, GetStep, PopIdleStep, ReserveFirstStep, ReserveStep, ChooseWaitStep,
         ReadLiveSizeStep, CheckConnStep, RetireStep, OpenOkStep, OpenFailStep,
         RecheckStep, NotifyOneStep, NotifyAllStep, CheckinStep, DiscardStep,
         WaitTimedOutStep, SpuriousWakeupStep DEF Proceed, Release
    <2>2. CASE UNCHANGED vars
      <3>1. Owners' = Owners BY <2>2 DEF Owners, vars
      <3> QED BY <2>2, <3>1 DEF IInv, vars, HandsFull, HandshakeSerialized, Accounting, WithinMaxSize
    <2> QED BY <2>1, <2>2 DEF Next, Finished
  <1> QED BY <1>1, <1>2 DEF IInv

(***************************************************************************)
(* Type correctness of the pool state in every reachable state.            *)
(***************************************************************************)
THEOREM TypeCorrect == Spec => []TypeOK
  <1>1. IInv => TypeOK BY DEF IInv
  <1> QED BY InitIInv, IInvStep, <1>1, PTL DEF Spec

(***************************************************************************)
(* SyncPoolState::size is exact: no slot of the pool is leaked or freed    *)
(* twice, whatever get, Drop and take do concurrently.                     *)
(***************************************************************************)
THEOREM SlotsAccounted == Spec => []Accounting
  <1>1. IInv => Accounting BY DEF IInv
  <1> QED BY InitIInv, IInvStep, <1>1, PTL DEF Spec

(***************************************************************************)
(* The pool never holds more than max_size connections.                    *)
(***************************************************************************)
THEOREM MaxSizeRespected == Spec => []WithinMaxSize
  <1>1. IInv => WithinMaxSize BY DEF IInv
  <1> QED BY InitIInv, IInvStep, <1>1, PTL DEF Spec

(***************************************************************************)
(* The create-mode handshake is run by one thread at a time, and nothing is*)
(* opened or pooled before it succeeds.                                    *)
(***************************************************************************)
THEOREM HandshakeIsSerialized == Spec => []HandshakeSerialized
  <1>1. IInv => HandshakeSerialized BY DEF IInv
  <1> QED BY InitIInv, IInvStep, <1>1, PTL DEF Spec

-----------------------------------------------------------------------------
(***************************************************************************)
(* No lost wakeup.  NoLostWakeup is not inductive: two connections may come*)
(* back while two threads are parked, and what then matters is how many    *)
(* threads are on their way.  A thread is engaged when it owns a slot, or  *)
(* is about to decide, or is about to notify one thread.  While somebody is*)
(* parked and no notify_all() is due, at least max_size threads are        *)
(* engaged: each slot has its owner or somebody who will look at it.       *)
(***************************************************************************)
Engaged == {t \in Threads : pc[t] \in OwnsSlot \cup {"decide", "notify_retry", "notify_out"}}
Broadcast == \E t \in Threads : pc[t] \in {"notify_all_hold", "notify_all_err"}

EnoughEngaged ==
    Parked # {} /\ ~Broadcast =>
        IF initialized THEN Cardinality(Engaged) >= MaxSize ELSE init_in_progress \/ Engaged # {}

LEMMA EngagedFinite == IsFiniteSet(Engaged) /\ Cardinality(Engaged) \in Nat
  BY ConstAssumption, FS_Subset, FS_CardinalityType DEF Engaged

LEMMA EngagedGrows ==
  ASSUME EnoughEngaged, Engaged \subseteq Engaged', Parked' # {} => Parked # {},
         Broadcast => Broadcast', UNCHANGED <<initialized, init_in_progress>>
  PROVE  EnoughEngaged'
  <1>1. IsFiniteSet(Engaged') /\ Cardinality(Engaged') \in Nat
    BY ConstAssumption, FS_Subset, FS_CardinalityType DEF Engaged
  <1>2. Cardinality(Engaged) <= Cardinality(Engaged')
    BY <1>1, FS_Subset
  <1> QED BY <1>1, <1>2, EngagedFinite, ConstAssumption DEF EnoughEngaged

\* When a thread finds nothing available every slot has an owner, or the
\* handshake is running.
LEMMA NothingAvailable ==
  ASSUME IInv, ~Available
  PROVE  IF initialized THEN Cardinality(Engaged) >= MaxSize ELSE init_in_progress
  <1>1. CASE initialized
    <2>1. idle = <<>> /\ size >= MaxSize
      BY <1>1, ConstAssumption DEF Available, IInv, TypeOK
    <2>2. Cardinality(Owners) >= MaxSize
      BY <2>1, OwnersFinite, ConstAssumption DEF IInv, Accounting
    <2>3. Cardinality(Owners) <= Cardinality(Engaged)
      BY EngagedFinite, FS_Subset DEF Owners, Engaged
    <2> QED BY <1>1, <2>2, <2>3, OwnersFinite, EngagedFinite, ConstAssumption
  <1>2. CASE ~initialized
    BY <1>2 DEF Available
  <1> QED BY <1>1, <1>2

\* One engaged thread leaves and another one comes.
LEMMA EngagedSwap ==
  ASSUME NEW t \in Threads, NEW w \in Threads, t \in Engaged, w \notin Engaged,
         (Engaged \ {t}) \cup {w} \subseteq Engaged'
  PROVE  Cardinality(Engaged) <= Cardinality(Engaged')
  <1> DEFINE R == Engaged \ {t}
             S == R \cup {w}
  <1>1. IsFiniteSet(Engaged') /\ Cardinality(Engaged') \in Nat
    BY ConstAssumption, FS_Subset, FS_CardinalityType DEF Engaged
  <1>2. IsFiniteSet(R) /\ Cardinality(R) = Cardinality(Engaged) - 1
    BY EngagedFinite, FS_RemoveElement
  <1>3. w \notin R
    OBVIOUS
  <1> HIDE DEF R
  <1>4. Cardinality(S) = Cardinality(R) + 1
    BY <1>2, <1>3, FS_AddElement
  <1>5. Cardinality(S) <= Cardinality(Engaged')
    BY <1>1, FS_Subset DEF R
  <1> QED BY <1>1, <1>2, <1>4, <1>5, EngagedFinite

LEMMA EngagedStep ==
  ASSUME IInv, EnoughEngaged, NEW t \in Threads,
         Get(t) \/ Proceed(t) \/ Release(t) \/ WaitTimedOut(t) \/ SpuriousWakeup(t)
  PROVE  EnoughEngaged'
  <1> USE DEF OwnsSlot, OwnsConn, Creating, Goto, pool
  <1>0. pc \in [Threads -> PCs] BY DEF IInv, TypeOK
  <1>1. CASE Get(t)
    <2>1. Engaged \subseteq Engaged' BY <1>0, <1>1 DEF Get, Engaged
    <2>2. Parked' # {} => Parked # {} BY <1>0, <1>1 DEF Get, Parked
    <2>3. Broadcast => Broadcast' BY <1>0, <1>1 DEF Get, Broadcast
    <2> QED BY <1>1, <2>1, <2>2, <2>3, EngagedGrows DEF Get
  <1>2. CASE PopIdle(t)
    <2>1. Engaged \subseteq Engaged' BY <1>0, <1>2 DEF PopIdle, Engaged
    <2>2. Parked' # {} => Parked # {} BY <1>0, <1>2 DEF PopIdle, Parked
    <2>3. Broadcast => Broadcast' BY <1>0, <1>2 DEF PopIdle, Broadcast
    <2> QED BY <1>2, <2>1, <2>2, <2>3, EngagedGrows DEF PopIdle
  <1>3. CASE ReserveFirst(t)
    BY <1>3 DEF ReserveFirst, EnoughEngaged
  <1>4. CASE Reserve(t)
    <2>1. Engaged \subseteq Engaged' BY <1>0, <1>4 DEF Reserve, Engaged
    <2>2. Parked' # {} => Parked # {} BY <1>0, <1>4 DEF Reserve, Parked
    <2>3. Broadcast => Broadcast' BY <1>0, <1>4 DEF Reserve, Broadcast
    <2> QED BY <1>4, <2>1, <2>2, <2>3, EngagedGrows DEF Reserve
  <1>5. CASE ChooseWait(t)
    <2>1. ~Available BY <1>5, ConstAssumption DEF ChooseWait, Available, IInv, TypeOK
    <2>2. Owners' = Owners BY <1>0, <1>5 DEF ChooseWait, Owners
    <2>3. UNCHANGED <<size, idle, initialized, init_in_progress>> BY <1>5 DEF ChooseWait
    <2>4. CASE initialized
      <3>1. size >= MaxSize /\ idle = <<>> BY <1>5, <2>4 DEF ChooseWait
      <3>2. Cardinality(Owners') >= MaxSize
        BY <2>2, <3>1, OwnersFinite, ConstAssumption DEF IInv, Accounting
      <3>3. IsFiniteSet(Engaged') /\ Cardinality(Engaged') \in Nat
        BY ConstAssumption, FS_Subset, FS_CardinalityType DEF Engaged
      <3>4. Owners' \subseteq Engaged' BY DEF Owners, Engaged
      <3>5. Cardinality(Owners') <= Cardinality(Engaged')
        BY <3>3, <3>4, FS_Subset
      <3>6. Cardinality(Engaged') >= MaxSize
        BY <2>2, <3>2, <3>3, <3>5, OwnersFinite, ConstAssumption
      <3> QED BY <2>3, <2>4, <3>6 DEF EnoughEngaged
    <2>5. CASE ~initialized
      BY <2>1, <2>3, <2>5 DEF EnoughEngaged, Available
    <2> QED BY <2>4, <2>5
  <1>6. CASE ReadLiveSize(t)
    <2>1. Engaged \subseteq Engaged' BY <1>0, <1>6 DEF ReadLiveSize, Engaged
    <2>2. Parked' # {} => Parked # {} BY <1>0, <1>6 DEF ReadLiveSize, Parked
    <2>3. Broadcast => Broadcast' BY <1>0, <1>6 DEF ReadLiveSize, Broadcast
    <2> QED BY <1>6, <2>1, <2>2, <2>3, EngagedGrows DEF ReadLiveSize
  <1>7. CASE CheckConn(t)
    <2>1. Engaged \subseteq Engaged' BY <1>0, <1>7 DEF CheckConn, Engaged
    <2>2. Parked' # {} => Parked # {} BY <1>0, <1>7 DEF CheckConn, Parked
    <2>3. Broadcast => Broadcast' BY <1>0, <1>7 DEF CheckConn, Broadcast
    <2> QED BY <1>7, <2>1, <2>2, <2>3, EngagedGrows DEF CheckConn
  <1>8. CASE Retire(t)
    <2>1. Engaged \subseteq Engaged' BY <1>0, <1>8 DEF Retire, Engaged
    <2>2. Parked' # {} => Parked # {} BY <1>0, <1>8 DEF Retire, Parked
    <2>3. Broadcast => Broadcast' BY <1>0, <1>8 DEF Retire, Broadcast
    <2> QED BY <1>8, <2>1, <2>2, <2>3, EngagedGrows DEF Retire
  <1>9. CASE OpenOk(t)
    <2>1. CASE pc[t] = "create_first"
      <3>1. pc'[t] = "notify_all_hold" BY <1>0, <1>9, <2>1 DEF OpenOk
      <3> QED BY <3>1 DEF EnoughEngaged, Broadcast
    <2>2. CASE pc[t] # "create_first"
      <3>0. Goto(t, "holding") /\ UNCHANGED <<initialized, init_in_progress>> /\ pc[t] = "create"
        BY <1>9, <2>2 DEF OpenOk
      <3>1. Engaged \subseteq Engaged' BY <1>0, <3>0 DEF Engaged
      <3>2. Parked' # {} => Parked # {} BY <1>0, <3>0 DEF Parked
      <3>3. Broadcast => Broadcast' BY <1>0, <3>0 DEF Broadcast
      <3> QED BY <3>0, <3>1, <3>2, <3>3, EngagedGrows
    <2> QED BY <2>1, <2>2
  <1>10. CASE OpenFail(t)
    <2>1. pc'[t] = "notify_all_err" BY <1>0, <1>10 DEF OpenFail
    <2> QED BY <2>1 DEF EnoughEngaged, Broadcast
  <1>11. CASE Recheck(t)
    <2>1. UNCHANGED <<initialized, init_in_progress>> BY <1>11 DEF Recheck
    <2>2. Engaged \subseteq Engaged' BY <1>0, <1>11 DEF Recheck, Engaged
    <2>3. Broadcast => Broadcast' BY <1>0, <1>11 DEF Recheck, Broadcast
    <2>4. CASE Available
      <3>1. Parked' # {} => Parked # {} BY <1>0, <1>11, <2>4 DEF Recheck, Parked
      <3> QED BY <2>1, <2>2, <2>3, <3>1, EngagedGrows
    <2>5. CASE ~Available
      <3>1. IF initialized THEN Cardinality(Engaged) >= MaxSize ELSE init_in_progress
        BY <2>5, NothingAvailable
      <3>2. IsFiniteSet(Engaged') /\ Cardinality(Engaged') \in Nat
        BY ConstAssumption, FS_Subset, FS_CardinalityType DEF Engaged
      <3>3. Cardinality(Engaged) <= Cardinality(Engaged')
        BY <2>2, <3>2, FS_Subset
      <3> QED BY <2>1, <3>1, <3>2, <3>3, EngagedFinite, ConstAssumption DEF EnoughEngaged
    <2> QED BY <2>4, <2>5
  <1>12. CASE NotifyOne(t)
    <2>0. t \in Engaged /\ UNCHANGED <<initialized, init_in_progress>>
      BY <1>12 DEF NotifyOne, Engaged
    <2>1. ASSUME NEW w \in Parked, pc' = [pc EXCEPT ![t] = After(pc[t]), ![w] = "decide"]
          PROVE  EnoughEngaged'
      <3>1. w \in Threads /\ w \notin Engaged /\ Parked # {} /\ w # t
        BY <2>0, <2>1 DEF Parked, Engaged
      <3>2. (Engaged \ {t}) \cup {w} \subseteq Engaged'
        BY <1>0, <2>1, <3>1 DEF Engaged, Parked
      <3>3. Cardinality(Engaged) <= Cardinality(Engaged')
        BY <2>0, <3>1, <3>2, EngagedSwap
      <3>4. Broadcast => Broadcast'
        BY <1>0, <1>12, <2>1, <3>1 DEF Broadcast, Parked, NotifyOne
      <3>5. IsFiniteSet(Engaged') /\ Cardinality(Engaged') \in Nat
        BY ConstAssumption, FS_Subset, FS_CardinalityType DEF Engaged
      <3>6. Engaged' # {} BY <3>2
      <3> QED BY <2>0, <3>1, <3>3, <3>4, <3>5, <3>6, EngagedFinite, ConstAssumption DEF EnoughEngaged
    <2>2. CASE Parked = {} /\ Goto(t, After(pc[t]))
      <3>1. Parked' = {}
        BY <1>0, <1>12, <2>2 DEF Parked, NotifyOne, After
      <3> QED BY <3>1 DEF EnoughEngaged
    <2> QED BY <1>12, <2>1, <2>2 DEF NotifyOne
  <1>13. CASE NotifyAll(t)
    <2>1. Parked' = {}
      BY <1>0, <1>13 DEF NotifyAll, Parked, After
    <2> QED BY <2>1 DEF EnoughEngaged
  <1>14. CASE WaitTimedOut(t) \/ SpuriousWakeup(t)
    <2>1. Engaged \subseteq Engaged' BY <1>0, <1>14 DEF WaitTimedOut, SpuriousWakeup, Engaged
    <2>2. Parked' # {} => Parked # {} BY <1>0, <1>14 DEF WaitTimedOut, SpuriousWakeup, Parked
    <2>3. Broadcast => Broadcast' BY <1>0, <1>14 DEF WaitTimedOut, SpuriousWakeup, Broadcast
    <2> QED BY <1>14, <2>1, <2>2, <2>3, EngagedGrows DEF WaitTimedOut, SpuriousWakeup
  <1>15. CASE Checkin(t)
    <2>1. Engaged \subseteq Engaged' BY <1>0, <1>15 DEF Checkin, Engaged
    <2>2. Parked' # {} => Parked # {} BY <1>0, <1>15 DEF Checkin, Parked
    <2>3. Broadcast => Broadcast' BY <1>0, <1>15 DEF Checkin, Broadcast
    <2> QED BY <1>15, <2>1, <2>2, <2>3, EngagedGrows DEF Checkin
  <1>16. CASE Discard(t)
    <2>1. Engaged \subseteq Engaged' BY <1>0, <1>16 DEF Discard, Engaged
    <2>2. Parked' # {} => Parked # {} BY <1>0, <1>16 DEF Discard, Parked
    <2>3. Broadcast => Broadcast' BY <1>0, <1>16 DEF Discard, Broadcast
    <2> QED BY <1>16, <2>1, <2>2, <2>3, EngagedGrows DEF Discard
  <1> QED
    BY <1>1, <1>2, <1>3, <1>4, <1>5, <1>6, <1>7, <1>8, <1>9, <1>10, <1>11, <1>12,
       <1>13, <1>14, <1>15, <1>16 DEF Proceed, Release

(***************************************************************************)
(* A free slot or connection never meets only parked threads: the order    *)
(* "publish under the mutex, unlock, notify" of checkin, discard and open  *)
(* together with the re-check before Condvar::wait loses no wakeup.        *)
(***************************************************************************)
THEOREM NoWakeupIsLost == Spec => []NoLostWakeup
  <1>1. Init => EnoughEngaged
    BY DEF Init, EnoughEngaged, Parked
  <1>2. IInv /\ EnoughEngaged /\ [Next]_vars => EnoughEngaged'
    <2> SUFFICES ASSUME IInv, EnoughEngaged, [Next]_vars PROVE EnoughEngaged'
      OBVIOUS
    <2>1. CASE UNCHANGED vars
      BY <2>1 DEF vars, EnoughEngaged, Parked, Broadcast, Engaged
    <2> QED BY <2>1, EngagedStep DEF Next, Finished
  <1>3. IInv /\ EnoughEngaged => NoLostWakeup
    <2> SUFFICES ASSUME IInv, EnoughEngaged, Available, Parked # {},
                        ~ \E t \in Threads : pc[t] \in {"decide", "wait"} \cup Notifying
                 PROVE  FALSE
      BY DEF NoLostWakeup
    <2>1. ~Broadcast BY DEF Broadcast, Notifying
    <2>2. Engaged = Owners BY DEF Engaged, Owners, Notifying
    <2>3. CASE initialized
      <3>1. Cardinality(Owners) >= MaxSize BY <2>1, <2>2, <2>3 DEF EnoughEngaged
      <3>2. Len(idle) = 0 /\ size = MaxSize
        BY <3>1, OwnersFinite, LenNat, ConstAssumption DEF IInv, TypeOK, Accounting, WithinMaxSize
      <3>3. idle = <<>> BY <3>2, EmptySeq DEF IInv, TypeOK
      <3> QED BY <2>3, <3>2, <3>3, ConstAssumption DEF Available
    <2>4. CASE ~initialized
      <3>1. idle = <<>> /\ ~init_in_progress
        BY <2>4 DEF Available, IInv, HandshakeSerialized
      <3>2. Owners = {} BY <2>4, <3>1 DEF IInv, HandshakeSerialized, Owners
      <3> QED BY <2>1, <2>2, <2>4, <3>1, <3>2 DEF EnoughEngaged
    <2> QED BY <2>3, <2>4
  <1> QED BY InitIInv, IInvStep, <1>1, <1>2, <1>3, PTL DEF Spec

-----------------------------------------------------------------------------
(***************************************************************************)
(* The refinement.  Connections are distinct: no identity is twice in the  *)
(* idle queue, in two threads' hands, or in both places.  A thread that    *)
(* retires a connection keeps it in its hands until the notification, so   *)
(* this speaks of conn and not of the contract's lent.                     *)
(***************************************************************************)
Elems(s) == {s[i] : i \in DOMAIN s}
NoDuplicate(s) == \A i, j \in DOMAIN s : s[i] = s[j] => i = j
Pooled == Elems(idle)
Lent == [t \in Threads |-> IF pc[t] \in OwnsConn THEN conn[t] ELSE NoConn]

Distinct ==
    /\ NoDuplicate(idle)
    /\ \A t, u \in Threads : conn[t] = conn[u] /\ conn[t] # NoConn => t = u
    /\ \A t \in Threads : conn[t] \notin Pooled

\* The last element of a sequence without duplicates, and the rest of it.
LEMMA LastLeaves ==
  ASSUME NEW S, NEW s \in Seq(S), s # <<>>,
         NoDuplicate(s), NEW r, r = SubSeq(s, 1, Len(s) - 1)
  PROVE  /\ s[Len(s)] \in Elems(s)
         /\ Elems(r) = Elems(s) \ {s[Len(s)]}
         /\ NoDuplicate(r)
  <1> USE DEF NoDuplicate
  <1>1. Len(s) \in Nat \ {0} /\ DOMAIN s = 1 .. Len(s) BY EmptySeq
  <1>2. DEFINE n == Len(s) - 1
  <1>3. n \in Nat BY <1>1
  <1>4. \A i \in 1 .. n : s[i] \in S BY <1>1, <1>3
  <1>5. r = SubSeq(s, 1, n) OBVIOUS
  <1> HIDE DEF n
  <1>6. /\ SubSeq(s, 1, n) \in Seq(S)
        /\ Len(SubSeq(s, 1, n)) = IF 1 <= n THEN n - 1 + 1 ELSE 0
        /\ \A i \in 1 .. n - 1 + 1 : SubSeq(s, 1, n)[i] = s[1 + i - 1]
    BY <1>3, <1>4, SubSeqProperties
  <1>7. DOMAIN r = 1 .. n /\ \A i \in 1 .. n : r[i] = s[i]
    BY <1>3, <1>5, <1>6
  <1>8. Len(s) = n + 1 BY <1>1 DEF n
  <1>9. DOMAIN s = (DOMAIN r) \cup {n + 1} /\ n + 1 \notin DOMAIN r
    BY <1>1, <1>3, <1>7, <1>8
  <1>10. \A i \in DOMAIN r : i \in DOMAIN s /\ r[i] = s[i] BY <1>7, <1>9
  <1>11. \A i \in DOMAIN r : s[i] # s[n + 1] BY <1>9
  <1>12. s[Len(s)] = s[n + 1] BY <1>8
  <1>13. {r[i] : i \in DOMAIN r} = {s[i] : i \in DOMAIN s} \ {s[n + 1]}
    <2>1. ASSUME NEW i \in DOMAIN s, s[i] # s[n + 1] PROVE i \in DOMAIN r
      BY <1>9, <2>1
    <2>2. ASSUME NEW c PROVE c \in {r[i] : i \in DOMAIN r} <=> c \in {s[i] : i \in DOMAIN s} \ {s[n + 1]}
      <3>1. c \in {r[i] : i \in DOMAIN r} <=> \E i \in DOMAIN r : c = r[i] OBVIOUS
      <3>2. c \in {s[i] : i \in DOMAIN s} <=> \E i \in DOMAIN s : c = s[i] OBVIOUS
      <3> QED BY <3>1, <3>2, <2>1, <1>9, <1>10, <1>11
    <2> QED BY <2>2
  <1>14. s[n + 1] \in {s[i] : i \in DOMAIN s} BY <1>9
  <1>15. \A i, j \in DOMAIN r : r[i] = r[j] => i = j BY <1>10
  <1> QED BY <1>12, <1>13, <1>14, <1>15 DEF Elems

LEMMA AppendedJoins ==
  ASSUME NEW S, NEW s \in Seq(S), NEW c \in S, c \notin Elems(s), NoDuplicate(s)
  PROVE  /\ Elems(Append(s, c)) = Elems(s) \cup {c}
         /\ NoDuplicate(Append(s, c))
  <1> USE DEF Elems, NoDuplicate
  <1> DEFINE r == Append(s, c)
  <1>1. Len(s) \in Nat /\ DOMAIN s = 1 .. Len(s) OBVIOUS
  <1>2. DOMAIN r = 1 .. Len(s) + 1 /\ r[Len(s) + 1] = c /\ \A i \in 1 .. Len(s) : r[i] = s[i]
    BY AppendProperties
  <1> HIDE DEF r
  <1>3. DOMAIN r = (DOMAIN s) \cup {Len(s) + 1} /\ Len(s) + 1 \notin DOMAIN s
    BY <1>1, <1>2
  <1>4. Elems(r) = Elems(s) \cup {c} BY <1>1, <1>2, <1>3
  <1>5. NoDuplicate(r) BY <1>1, <1>2, <1>3
  <1> QED BY <1>4, <1>5 DEF r

LEMMA PooledNext == Pooled' = Elems(idle')
  BY DEF Pooled, Elems

\* The contract's Cardinality is the one the theorems on finite sets speak of.
LEMMA SameCardinality ==
  ASSUME NEW S
  PROVE  Contract!Cardinality(S) = Cardinality(S)
  BY DEF Contract!Cardinality, Cardinality

\* Connections are not more than the slots: in the queue and in hands.
Holders == {t \in Threads : pc[t] \in OwnsConn}

LEMMA LiveBound ==
  ASSUME TypeOK
  PROVE  /\ IsFiniteSet(Contract!Live) /\ Cardinality(Contract!Live) \in Nat
         /\ IsFiniteSet(Holders) /\ Cardinality(Holders) \in Nat
         /\ Cardinality(Contract!Live) <= Len(idle) + Cardinality(Holders)
  <1> DEFINE C == {conn[t] : t \in Holders}
             f == [t \in Holders |-> conn[t]]
             n == Len(idle)
             g == [i \in 1 .. n |-> idle[i]]
  <1>1. IsFiniteSet(Holders) /\ Cardinality(Holders) \in Nat
    BY ConstAssumption, FS_Subset, FS_CardinalityType DEF Holders
  <1>2. n \in Nat /\ DOMAIN idle = 1 .. n BY DEF TypeOK
  <1>3. IsFiniteSet(1 .. n) /\ Cardinality(1 .. n) = n
    <2>1. n \in Int /\ 1 \in Int BY <1>2
    <2> HIDE DEF n
    <2>2. IsFiniteSet(1 .. n) /\ Cardinality(1 .. n) = IF 1 > n THEN 0 ELSE n - 1 + 1
      BY <2>1, FS_Interval
    <2> QED BY <1>2, <2>2
  <1>4. g \in Surjection(1 .. n, Pooled)
    <2>1. \A i \in 1 .. n : g[i] \in Pooled BY <1>2 DEF Pooled, Elems
    <2>2. \A c \in Pooled : \E i \in 1 .. n : g[i] = c BY <1>2 DEF Pooled, Elems
    <2> QED BY <2>1, <2>2 DEF Surjection
  <1>5. IsFiniteSet(Pooled) /\ Cardinality(Pooled) <= n
    BY <1>3, <1>4, FS_Surjection
  <1>6. f \in Surjection(Holders, C) BY DEF Surjection
  <1>7. IsFiniteSet(C) /\ Cardinality(C) <= Cardinality(Holders)
    <2> HIDE DEF C, f
    <2> QED BY <1>1, <1>6, FS_Surjection
  <1>8. Contract!Live \subseteq Pooled \cup C
    BY DEF Contract!Live, Pooled, Elems, Holders
  <1> HIDE DEF C, f, n
  <1>9. /\ Cardinality(Pooled) \in Nat /\ Cardinality(C) \in Nat
        /\ Cardinality(Pooled \cap C) \in Nat
    BY <1>5, <1>7, FS_CardinalityType, FS_Intersection
  <1>10. IsFiniteSet(Pooled \cup C) /\ Cardinality(Pooled \cup C) <= Cardinality(Pooled) + Cardinality(C)
    BY <1>5, <1>7, <1>9, FS_Union
  <1>11. IsFiniteSet(Contract!Live) /\ Cardinality(Contract!Live) <= Cardinality(Pooled \cup C)
    BY <1>8, <1>10, FS_Subset
  <1>12. Cardinality(Contract!Live) \in Nat /\ Cardinality(Pooled \cup C) \in Nat
    BY <1>10, <1>11, FS_CardinalityType
  <1> QED BY <1>1, <1>2, <1>5, <1>7, <1>9, <1>10, <1>11, <1>12 DEF n

LEMMA HoldersOwn == Holders \subseteq Owners
  BY DEF Holders, Owners, OwnsSlot

\* Live connections stay within max_size, and below it while a thread opens one.
LEMMA LiveWithinMax ==
  ASSUME IInv
  PROVE  /\ Cardinality(Contract!Live) <= MaxSize
         /\ \A t \in Threads : pc[t] \in Creating => Cardinality(Contract!Live) < MaxSize
  <1>1. TypeOK /\ size = Len(idle) + Cardinality(Owners) /\ size <= MaxSize /\ Len(idle) \in Nat
    BY LenNat DEF IInv, Accounting, WithinMaxSize
  <1>2. Cardinality(Holders) <= Cardinality(Owners)
    BY HoldersOwn, OwnersFinite, FS_Subset
  <1>3. Cardinality(Contract!Live) <= MaxSize
    BY <1>1, <1>2, LiveBound, OwnersFinite, ConstAssumption
  <1>4. ASSUME NEW t \in Threads, pc[t] \in Creating
        PROVE  Cardinality(Contract!Live) < MaxSize
    <2>1. t \in Owners /\ t \notin Holders
      BY <1>4 DEF Owners, Holders, OwnsSlot, OwnsConn, Creating
    <2>2. Cardinality(Holders) # Cardinality(Owners)
      BY <2>1, HoldersOwn, OwnersFinite, FS_Subset
    <2> QED BY <1>1, <1>2, <2>2, LiveBound, OwnersFinite, ConstAssumption
  <1> QED BY <1>3, <1>4

LEMMA DistinctStep ==
  ASSUME IInv, Distinct, NEW t \in Threads,
         Get(t) \/ Proceed(t) \/ Release(t) \/ WaitTimedOut(t) \/ SpuriousWakeup(t)
  PROVE  Distinct'
  <1>0. /\ conn \in [Threads -> Conns \cup {NoConn}] /\ pc \in [Threads -> PCs]
        /\ idle \in Seq(Conns) /\ NoConn \notin Pooled
    <2>1. \A i \in DOMAIN idle : idle[i] \in Conns BY DEF IInv, TypeOK
    <2> QED BY <2>1, ConstAssumption DEF IInv, TypeOK, Pooled, Elems
  <1>1. CASE UNCHANGED <<idle, conn>>
    BY <1>1 DEF Distinct, Pooled
  <1>2. CASE PopIdle(t)
    <2>1. /\ idle[Len(idle)] \in Pooled
          /\ Pooled' = Pooled \ {idle[Len(idle)]}
          /\ NoDuplicate(idle')
      BY <1>0, <1>2, LastLeaves DEF PopIdle, Distinct, Pooled
    <2>2. conn' = [conn EXCEPT ![t] = idle[Len(idle)]] BY <1>2 DEF PopIdle
    <2> QED BY <1>0, <2>1, <2>2 DEF Distinct
  <1>3. CASE OpenOk(t)
    <2>1. PICK c \in Conns \ Open : conn' = [conn EXCEPT ![t] = c] BY <1>3 DEF OpenOk
    <2>2. idle' = idle /\ Pooled' = Pooled BY <1>3 DEF OpenOk, Pooled
    <2>3. c \notin Pooled /\ \A u \in Threads : conn[u] # c BY <2>1 DEF Open, Pooled, Elems
    <2> QED BY <1>0, <2>1, <2>2, <2>3 DEF Distinct
  <1>4. CASE Checkin(t)
    <2>1. conn[t] \in Conns BY <1>4 DEF Checkin, IInv, HandsFull, OwnsConn
    <2>2. /\ Pooled' = Pooled \cup {conn[t]}
          /\ NoDuplicate(idle')
      <3>1. conn[t] \notin Elems(idle) /\ NoDuplicate(idle) BY DEF Distinct, Pooled
      <3>2. /\ Elems(Append(idle, conn[t])) = Elems(idle) \cup {conn[t]}
            /\ NoDuplicate(Append(idle, conn[t]))
        BY <1>0, <2>1, <3>1, AppendedJoins
      <3>3. idle' = Append(idle, conn[t]) BY <1>4 DEF Checkin
      <3> QED BY <3>2, <3>3, PooledNext DEF Pooled
    <2>3. conn' = [conn EXCEPT ![t] = NoConn] BY <1>4 DEF Checkin
    <2>4. NoConn # conn[t] BY <2>1, ConstAssumption
    <2> QED BY <1>0, <2>2, <2>3, <2>4 DEF Distinct
  <1>5. CASE NotifyOne(t) \/ Discard(t)
    <2>1. conn' = [conn EXCEPT ![t] = NoConn] BY <1>5 DEF NotifyOne, Discard
    <2>2. idle' = idle /\ Pooled' = Pooled BY <1>5 DEF NotifyOne, Discard, pool, Pooled
    <2> QED BY <1>0, <2>1, <2>2 DEF Distinct
  <1>6. Get(t) \/ ReserveFirst(t) \/ Reserve(t) \/ ChooseWait(t) \/ ReadLiveSize(t) \/ CheckConn(t)
          \/ Retire(t) \/ OpenFail(t) \/ Recheck(t) \/ NotifyAll(t) \/ WaitTimedOut(t) \/ SpuriousWakeup(t)
        => UNCHANGED <<idle, conn>>
    BY DEF Get, ReserveFirst, Reserve, ChooseWait, ReadLiveSize, CheckConn, Retire, OpenFail, Recheck,
           NotifyAll, WaitTimedOut, SpuriousWakeup, pool
  <1> QED BY <1>1, <1>2, <1>3, <1>4, <1>5, <1>6 DEF Proceed, Release

\* What the state of the contract does in a step that moves no connection.
LEMMA LentFrame ==
  ASSUME UNCHANGED <<idle, conn>>,
         \A u \in Threads : pc'[u] \in OwnsConn <=> pc[u] \in OwnsConn
  PROVE  UNCHANGED <<Pooled, Lent>>
  BY DEF Pooled, Elems, Lent

\* Every step of a thread is a step of the contract, or leaves its state alone.
LEMMA ContractStep ==
  ASSUME IInv, Distinct, NEW t \in Threads,
         Get(t) \/ Proceed(t) \/ Release(t) \/ WaitTimedOut(t) \/ SpuriousWakeup(t)
  PROVE  Contract!Next \/ UNCHANGED <<Pooled, Lent>>
  <1> USE DEF OwnsConn, Goto
  <1>0. /\ conn \in [Threads -> Conns \cup {NoConn}] /\ pc \in [Threads -> PCs]
        /\ idle \in Seq(Conns)
        /\ \A i \in DOMAIN idle : idle[i] \in Conns
    BY DEF IInv, TypeOK
  <1>1. CASE Get(t) \/ ReserveFirst(t) \/ Reserve(t) \/ ChooseWait(t) \/ ReadLiveSize(t) \/ CheckConn(t)
             \/ Recheck(t) \/ WaitTimedOut(t) \/ SpuriousWakeup(t) \/ OpenFail(t)
    <2>1. UNCHANGED <<idle, conn>>
      BY <1>1 DEF Get, ReserveFirst, Reserve, ChooseWait, ReadLiveSize, CheckConn, OpenFail, Recheck,
                  WaitTimedOut, SpuriousWakeup, pool
    <2>2. \A u \in Threads : pc'[u] \in OwnsConn <=> pc[u] \in OwnsConn
      BY <1>0, <1>1 DEF Get, ReserveFirst, Reserve, ChooseWait, ReadLiveSize, CheckConn, OpenFail, Recheck,
                  WaitTimedOut, SpuriousWakeup, Creating
    <2> QED BY <2>1, <2>2, LentFrame
  <1>2. CASE NotifyOne(t)
    <2>1. idle' = idle /\ conn' = [conn EXCEPT ![t] = NoConn] BY <1>2 DEF NotifyOne, pool
    <2>2. pc[t] \notin OwnsConn BY <1>2 DEF NotifyOne
    <2>3. \A u \in Threads : pc'[u] \in OwnsConn <=> pc[u] \in OwnsConn
      BY <1>0, <1>2 DEF NotifyOne, After, Parked
    <2>4. \A u \in Threads : u # t => conn'[u] = conn[u] BY <1>0, <2>1
    <2> QED BY <2>1, <2>2, <2>3, <2>4 DEF Pooled, Elems, Lent
  <1>3. CASE NotifyAll(t)
    <2>1. UNCHANGED <<idle, conn>> BY <1>3 DEF NotifyAll, pool
    <2>2. \A u \in Threads : pc'[u] \in OwnsConn <=> pc[u] \in OwnsConn
      BY <1>0, <1>3 DEF NotifyAll, After, Parked
    <2> QED BY <2>1, <2>2, LentFrame
  <1>4. CASE PopIdle(t)
    <2>0. idle # <<>> /\ idle' = SubSeq(idle, 1, Len(idle) - 1) /\ pc[t] = "decide"
          /\ pc' = [pc EXCEPT ![t] = "reuse"] /\ conn' = [conn EXCEPT ![t] = idle[Len(idle)]]
      BY <1>4 DEF PopIdle
    <2>1. /\ idle[Len(idle)] \in Pooled
          /\ Pooled' = Pooled \ {idle[Len(idle)]}
      BY <1>0, <2>0, LastLeaves DEF Distinct, Pooled
    <2>2. idle[Len(idle)] \in Conns BY <1>0, <2>1 DEF Pooled, Elems
    <2>3. Lent[t] = NoConn BY <2>0 DEF Lent
    <2>4. Lent' = [Lent EXCEPT ![t] = idle[Len(idle)]] BY <1>0, <2>0 DEF Lent
    <2>5. PICK c \in Conns : c = idle[Len(idle)] BY <2>2
    <2>6. Contract!Borrow(t, c)
      BY <2>1, <2>3, <2>4, <2>5 DEF Contract!Borrow, Pooled, Elems, Lent
    <2>7. \E d \in Conns : Contract!OpenNew(t, d) \/ Contract!Borrow(t, d) BY <2>6
    <2> QED BY <2>7 DEF Contract!Next
  <1>5. CASE OpenOk(t)
    <2>0. PICK c \in Conns \ Open : conn' = [conn EXCEPT ![t] = c] BY <1>5 DEF OpenOk
    <2>1. idle' = idle /\ Pooled' = Pooled /\ pc[t] \in Creating
      BY <1>5 DEF OpenOk, Pooled
    <2>2. pc' = [pc EXCEPT ![t] = "notify_all_hold"] \/ pc' = [pc EXCEPT ![t] = "holding"]
      BY <1>5 DEF OpenOk
    <2>3. Lent[t] = NoConn BY <2>1 DEF Lent, Creating
    <2>4. Lent' = [Lent EXCEPT ![t] = c] BY <1>0, <2>0, <2>2 DEF Lent
    <2>5. c \notin Contract!Live
      BY <2>0, ConstAssumption DEF Open, Contract!Live
    <2>6. Cardinality(Contract!Live) < MaxSize BY <2>1, LiveWithinMax
    <2>7. Contract!OpenNew(t, c)
      BY <2>1, <2>3, <2>4, <2>5, <2>6, SameCardinality DEF Contract!OpenNew, Pooled, Elems, Lent
    <2>8. \E d \in Conns : Contract!OpenNew(t, d) \/ Contract!Borrow(t, d) BY <2>0, <2>7
    <2> QED BY <2>8 DEF Contract!Next
  <1>6. CASE Checkin(t)
    <2>0. /\ pc[t] = "holding" /\ pc' = [pc EXCEPT ![t] = "notify_out"]
          /\ idle' = Append(idle, conn[t]) /\ conn' = [conn EXCEPT ![t] = NoConn]
      BY <1>6 DEF Checkin
    <2>1. conn[t] \in Conns BY <2>0 DEF IInv, HandsFull
    <2>2. Pooled' = Pooled \cup {conn[t]}
      <3>1. conn[t] \notin Elems(idle) /\ NoDuplicate(idle) BY DEF Distinct, Pooled
      <3>2. Elems(Append(idle, conn[t])) = Elems(idle) \cup {conn[t]}
        BY <1>0, <2>1, <3>1, AppendedJoins
      <3> QED BY <2>0, <3>2, PooledNext DEF Pooled
    <2>3. Lent[t] = conn[t] /\ conn[t] # NoConn BY <2>0, <2>1, ConstAssumption DEF Lent
    <2>4. Lent' = [Lent EXCEPT ![t] = NoConn] BY <1>0, <2>0 DEF Lent
    <2>5. Contract!GiveBack(t)
      BY <2>2, <2>3, <2>4 DEF Contract!GiveBack, Pooled, Elems, Lent
    <2> QED BY <2>5 DEF Contract!Next
  <1>7. CASE Retire(t) \/ Discard(t)
    <2>0. /\ pc[t] \in {"retire", "retire_idle", "holding"}
          /\ pc' = [pc EXCEPT ![t] = "notify_retry"] \/ pc' = [pc EXCEPT ![t] = "notify_out"]
          /\ idle' = idle
          /\ conn' = conn \/ conn' = [conn EXCEPT ![t] = NoConn]
      BY <1>7 DEF Retire, Discard
    <2>1. conn[t] \in Conns BY <2>0 DEF IInv, HandsFull
    <2>2. Pooled' = Pooled BY <2>0 DEF Pooled, Elems
    <2>3. Lent[t] = conn[t] /\ conn[t] # NoConn BY <2>0, <2>1, ConstAssumption DEF Lent
    <2>4. Lent' = [Lent EXCEPT ![t] = NoConn] BY <1>0, <2>0 DEF Lent
    <2>5. Contract!Retire(t)
      BY <2>2, <2>3, <2>4 DEF Contract!Retire, Pooled, Elems, Lent
    <2> QED BY <2>5 DEF Contract!Next
  <1> QED BY <1>1, <1>2, <1>3, <1>4, <1>5, <1>6, <1>7 DEF Proceed, Release

LEMMA DistinctInit == Init => Distinct
  BY EmptySeq, ConstAssumption DEF Init, Distinct, Pooled, Elems, NoDuplicate

LEMMA DistinctInv == IInv /\ Distinct /\ [Next]_vars => Distinct'
  <1>1. ASSUME Distinct, UNCHANGED vars PROVE Distinct'
    BY <1>1 DEF vars, Distinct, Pooled
  <1> QED BY <1>1, DistinctStep DEF Next, Finished

(***************************************************************************)
(* The blocking pool implements its contract: every critical section of    *)
(* get, Drop and take opens, lends, takes back or retires at most one      *)
(* connection, and opens one only below max_size.                          *)
(***************************************************************************)
THEOREM PoolImplementsContract == Spec => ImplementsContract
  <1>1. Init => Contract!Init
    <2> SUFFICES ASSUME Init PROVE Contract!Init
      OBVIOUS
    <2>1. Pooled = {} BY EmptySeq DEF Init, Pooled, Elems
    <2>2. Lent = [t \in Threads |-> NoConn] BY DEF Init, Lent, OwnsConn
    <2> QED BY <2>1, <2>2 DEF Contract!Init, Pooled, Elems, Lent
  <1>2. IInv /\ Distinct /\ [Next]_vars => [Contract!Next]_<<Pooled, Lent>>
    <2>1. ASSUME UNCHANGED vars PROVE UNCHANGED <<Pooled, Lent>>
      BY <2>1 DEF vars, Pooled, Lent
    <2> QED BY <2>1, ContractStep DEF Next, Finished
  <1>3. [Contract!Next]_<<Pooled, Lent>>
        => [Contract!Next]_<<{idle[i] : i \in DOMAIN idle},
                             [t \in Threads |-> IF pc[t] \in OwnsConn THEN conn[t] ELSE NoConn]>>
    BY DEF Pooled, Elems, Lent
  <1> QED
    BY InitIInv, IInvStep, DistinctInit, DistinctInv, <1>1, <1>2, <1>3, PTL
    DEF Spec, ImplementsContract, Contract!Spec

(***************************************************************************)
(* No connection is in two hands, or both idle and in use, and not more    *)
(* than max_size are live.                                                 *)
(***************************************************************************)
THEOREM ConnectionsAreExclusive == Spec => []ExclusiveUse
  <1>1. IInv /\ Distinct => ExclusiveUse
    <2> SUFFICES ASSUME IInv, Distinct PROVE Contract!Exclusive
      BY DEF ExclusiveUse
    <2>0. NoConn \notin Pooled
      <3>1. \A i \in DOMAIN idle : idle[i] \in Conns BY DEF IInv, TypeOK
      <3> QED BY <3>1, ConstAssumption DEF Pooled, Elems
    <2>1. \A t, u \in Threads : Lent[t] = Lent[u] /\ Lent[t] # NoConn => t = u
      BY DEF Distinct, Lent
    <2>2. \A t \in Threads : Lent[t] \notin Pooled
      BY <2>0 DEF Distinct, Lent
    <2>3. Cardinality(Contract!Live) <= MaxSize BY LiveWithinMax
    <2> QED BY <2>1, <2>2, <2>3, SameCardinality DEF Contract!Exclusive, Pooled, Elems, Lent
  <1> QED BY InitIInv, IInvStep, DistinctInit, DistinctInv, <1>1, PTL DEF Spec
=============================================================================
