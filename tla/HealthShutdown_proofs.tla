------------------------ MODULE HealthShutdown_proofs ------------------------
(***************************************************************************)
(* Proofs about HealthShutdown: the store-then-load pairing loses no wake  *)
(* where wake connections get through, for any number of STOP handlers     *)
(* and clients.                                                            *)
(***************************************************************************)
EXTENDS HealthShutdown, TLAPS

\* TypeOK in two parts: the flags, and the rest
Flags ==
    /\ lossy \in BOOLEAN
    /\ shutdown \in BOOLEAN
    /\ listener_registered \in BOOLEAN
    /\ permit \in BOOLEAN

Shapes ==
    /\ backlog \in Seq(Handlers \cup {"other", "wake"})
    /\ wakes \in Nat
    /\ lpc \in {"spawned", "check", "accept", "leave", "cleared", "done"}
    /\ rpc \in [Requesters -> {"unborn", "queued", "select", "store", "notify", "wake",
                               "join", "done"}]
    /\ connected \in Nat

(***************************************************************************)
(* What makes the pairing work: a listener that may wait is registered, so *)
(* a requester that comes later finds it.                                  *)
(***************************************************************************)
Registered == lpc \in {"check", "accept", "leave"} => listener_registered

(***************************************************************************)
(* The state of a shutdown is well typed: no wake thread is counted twice  *)
(* and only connections stand in the backlog of the control socket.        *)
(***************************************************************************)
THEOREM TypeCorrect == Spec => []TypeOK
<1>0. TypeOK <=> Flags /\ Shapes
  BY DEF TypeOK, Flags, Shapes
<1>1. Init => TypeOK
  <2>1. Init => Flags
    BY DEF Init, Flags
  <2>2. Init => Shapes
    BY DEF Init, Shapes, Requesters
  <2> QED  BY <1>0, <2>1, <2>2
<1>2. Flags /\ [Next]_vars => Flags'
  <2> SUFFICES ASSUME Flags, [Next]_vars PROVE Flags'
    OBVIOUS
  <2> USE DEF Flags, LGoto
  <2>1. CASE \E h \in Handlers : ClientConnects(h)
    BY <2>1 DEF ClientConnects
  <2>2. CASE OtherClientConnects \/ WakeConnects
    BY <2>2 DEF OtherClientConnects, WakeConnects
  <2>3. CASE \E r \in Requesters : StoreShutdown(r) \/ NotifyMain(r) \/ WakeAcceptLoop(r)
    BY <2>3 DEF StoreShutdown, NotifyMain, WakeAcceptLoop
  <2>4. CASE MainSelects \/ MainJoins
    BY <2>4 DEF MainSelects, MainJoins
  <2>5. CASE ListenerStep \/ AcceptReturnsNothing
    <3>1. UNCHANGED <<lossy, shutdown, permit>>
      BY <2>5 DEF ListenerStep, Register, CheckShutdown, Accept, ClearListener, DropListener,
                  AcceptReturnsNothing
    <3>2. listener_registered' \in {TRUE, FALSE, listener_registered}
      BY <2>5 DEF ListenerStep, Register, CheckShutdown, Accept, ClearListener, DropListener,
                  AcceptReturnsNothing
    <3> QED  BY <3>1, <3>2
  <2>6. CASE Finished \/ UNCHANGED vars
    BY <2>6 DEF Finished, vars
  <2> QED
    BY <2>1, <2>2, <2>3, <2>4, <2>5, <2>6 DEF Next
<1>3. Shapes /\ [Next]_vars => Shapes'
  <2> SUFFICES ASSUME Shapes, [Next]_vars PROVE Shapes'
    OBVIOUS
  <2> USE DEF Shapes, Requesters, Goto, LGoto
  <2>1. ASSUME NEW h \in Handlers, ClientConnects(h) PROVE Shapes'
    BY <2>1 DEF ClientConnects
  <2>2. CASE OtherClientConnects
    BY <2>2 DEF OtherClientConnects
  <2>3. CASE WakeConnects
    BY <2>3 DEF WakeConnects
  <2>4. ASSUME NEW r \in Requesters, StoreShutdown(r) \/ NotifyMain(r) \/ WakeAcceptLoop(r)
        PROVE  Shapes'
    <3>1. CASE StoreShutdown(r)
      BY <3>1 DEF StoreShutdown
    <3>2. CASE NotifyMain(r)
      BY <3>2 DEF NotifyMain
    <3>3. CASE WakeAcceptLoop(r)
      BY <3>3 DEF WakeAcceptLoop
    <3> QED  BY <2>4, <3>1, <3>2, <3>3
  <2>5. CASE MainSelects \/ MainJoins
    BY <2>5 DEF MainSelects, MainJoins
  <2>6. CASE Register \/ CheckShutdown \/ ClearListener \/ DropListener \/ AcceptReturnsNothing
    <3>1. CASE Register \/ ClearListener \/ AcceptReturnsNothing
      BY <3>1, Zenon DEF Register, ClearListener, AcceptReturnsNothing
    <3>2. CASE CheckShutdown
      BY <3>2 DEF CheckShutdown
    <3>3. CASE DropListener
      BY <3>3 DEF DropListener
    <3> QED  BY <2>6, <3>1, <3>2, <3>3
  <2>7. CASE Accept
    BY <2>7 DEF Accept
  <2>8. CASE Finished \/ UNCHANGED vars
    BY <2>8 DEF Finished, vars
  <2> QED
    BY <2>1, <2>2, <2>3, <2>4, <2>5, <2>6, <2>7, <2>8 DEF Next, ListenerStep
<1>4. TypeOK /\ [Next]_vars => TypeOK'
  BY <1>0, <1>2, <1>3 DEF TypeOK, Flags, Shapes
<1> QED
  BY <1>1, <1>4, PTL DEF Spec

(***************************************************************************)
(* A listener that waits although a shutdown was requested has a wake      *)
(* connection coming where such connections get through, for any number of *)
(* requesters.                                                             *)
(***************************************************************************)
THEOREM WakeIsNotLost == Spec => []WaitingListenerIsWoken
<1> DEFINE Core == Registered /\ WaitingListenerIsWoken
<1>1. Init => Core
  BY DEF Init, Registered, WaitingListenerIsWoken
<1>2. TypeOK /\ TypeOK' /\ Core /\ [Next]_vars => Core'
  <2> SUFFICES ASSUME TypeOK, TypeOK', Core, [Next]_vars PROVE Core'
    OBVIOUS
  <2> USE DEF TypeOK, Registered, WaitingListenerIsWoken, Goto, LGoto, Requesters
  <2>1. ASSUME NEW h \in Handlers, ClientConnects(h) PROVE Core'
    <3>1. backlog' # <<>>
      BY <2>1 DEF ClientConnects
    <3> QED  BY <2>1, <3>1 DEF ClientConnects
  <2>2. CASE OtherClientConnects
    <3>1. backlog' # <<>>
      BY <2>2 DEF OtherClientConnects
    <3> QED  BY <2>2, <3>1 DEF OtherClientConnects
  <2>3. CASE WakeConnects
    <3>1. ~lossy /\ lpc = "accept" => backlog' # <<>>
      BY <2>3 DEF WakeConnects, SocketOpen
    <3> QED  BY <2>3, <3>1 DEF WakeConnects
  <2>4. ASSUME NEW r \in Requesters, StoreShutdown(r) \/ NotifyMain(r) PROVE Core'
    <3>1. rpc'[r] \in {"notify", "wake"}
      BY <2>4 DEF StoreShutdown, NotifyMain
    <3> QED  BY <2>4, <3>1 DEF StoreShutdown, NotifyMain
  <2>5. ASSUME NEW r \in Requesters, WakeAcceptLoop(r) PROVE Core'
    <3>1. lpc = "accept" => wakes' > 0
      BY <2>5 DEF WakeAcceptLoop
    <3> QED  BY <2>5, <3>1 DEF WakeAcceptLoop
  <2>6. CASE MainSelects
    <3>1. \A r \in Requesters : rpc[r] \in {"notify", "wake"} => rpc'[r] = rpc[r]
      BY <2>6 DEF MainSelects
    <3> QED  BY <2>6, <3>1 DEF MainSelects
  <2>7. CASE MainJoins
    BY <2>7 DEF MainJoins
  <2>8. CASE Register \/ CheckShutdown \/ ClearListener \/ DropListener
             \/ Accept \/ AcceptReturnsNothing
    BY <2>8 DEF Register, CheckShutdown, ClearListener, DropListener, Accept,
                AcceptReturnsNothing
  <2>9. CASE Finished \/ UNCHANGED vars
    BY <2>9 DEF Finished, vars
  <2> QED
    BY <2>1, <2>2, <2>3, <2>4, <2>5, <2>6, <2>7, <2>8, <2>9 DEF Next, ListenerStep
<1> QED
  BY <1>1, <1>2, TypeCorrect, PTL DEF Spec
=============================================================================
