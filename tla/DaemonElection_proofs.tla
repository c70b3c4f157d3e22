------------------------ MODULE DaemonElection_proofs ------------------------
(***************************************************************************)
(* For any number of daemons and clients, with every fault and timeout: a  *)
(* serving daemon stays discoverable, a free lock means its last daemon is *)
(* gone, and one hyperd at most is bound in the state directory.           *)
(***************************************************************************)
EXTENDS DaemonElection, TLAPS

\* The lock's holder is the process whose stage says so.
LockInv ==
    /\ \A d \in Daemons : dpc[d] \in LockedStages <=> lock = d
    /\ \A c \in Clients : cpc[c] \in ClientLocked <=> lock = c

\* Who can have left its name in daemon.json, and who certainly has.
RecordInv ==
    \A d \in Daemons :
        /\ record = d => dpc[d] \in {"published", "serving", "stopping", "killed"}
        /\ dpc[d] \in {"published", "serving", "stopping"} => record = d

\* Whose socket the control path is; a listener that is gone has unlinked it.
SocketInv ==
    \A d \in Daemons :
        /\ sock = d => dpc[d] \in {"bound", "engine", "published", "serving", "stopping",
                                   "unpublished", "failing", "killed"}
        /\ dpc[d] \in {"bound", "engine", "published"} => sock = d
        /\ listening[d] => sock = d /\ dpc[d] \in {"serving", "stopping", "unpublished"}
        /\ dpc[d] \in {"serving", "stopping", "unpublished"} /\ ~listening[d] =>
              sock # d /\ shutdown[d]

\* Where a hyperd runs under a daemon, and where one can be orphaned.
EngineInv ==
    \A d \in Daemons :
        /\ hyperd[d] = "up" <=> dpc[d] \in EngineStages
        /\ hyperd[d] = "orphan" => dpc[d] \in {"failing", "released", "exited", "killed"}

\* The inductive invariant.  None of the properties is inductive by itself: each
\* needs to know which process the lock excludes.
IInv == TypeOK /\ LockInv /\ RecordInv /\ SocketInv /\ EngineInv /\ OneEngine

LEMMA StartByHandStep ==
  ASSUME IInv, NEW d \in Daemons, StartByHand(d)
  PROVE  IInv'
  <1> USE ConstAssumption DEF IInv, TypeOK, Stages, ClientStages, LockedStages, EngineStages,
          ClientLocked, DGoto, CGoto, files, daemons, clients, StartByHand
  <1>1. TypeOK' OBVIOUS
  <1>2. LockInv' BY DEF LockInv
  <1>3. RecordInv' BY DEF RecordInv, LockInv
  <1>4. SocketInv' BY DEF SocketInv, LockInv
  <1>5. EngineInv' BY DEF EngineInv, LockInv
  <1>6. OneEngine' BY DEF OneEngine
  <1> QED BY <1>1, <1>2, <1>3, <1>4, <1>5, <1>6

LEMMA TakeLockStep ==
  ASSUME IInv, NEW d \in Daemons, TakeLock(d)
  PROVE  IInv'
  <1> USE ConstAssumption DEF IInv, TypeOK, Stages, ClientStages, LockedStages, EngineStages,
          ClientLocked, DGoto, CGoto, files, daemons, clients, TakeLock
  <1>1. TypeOK' OBVIOUS
  <1>2. LockInv' BY DEF LockInv
  <1>3. RecordInv' BY DEF RecordInv, LockInv
  <1>4. SocketInv' BY DEF SocketInv, LockInv
  <1>5. EngineInv' BY DEF EngineInv, LockInv
  <1>6. OneEngine' BY DEF OneEngine
  <1> QED BY <1>1, <1>2, <1>3, <1>4, <1>5, <1>6

LEMMA LockHeldStep ==
  ASSUME IInv, NEW d \in Daemons, LockHeld(d)
  PROVE  IInv'
  <1> USE ConstAssumption DEF IInv, TypeOK, Stages, ClientStages, LockedStages, EngineStages,
          ClientLocked, DGoto, CGoto, files, daemons, clients, LockHeld
  <1>1. TypeOK' OBVIOUS
  <1>2. LockInv' BY DEF LockInv
  <1>3. RecordInv' BY DEF RecordInv, LockInv
  <1>4. SocketInv' BY DEF SocketInv, LockInv
  <1>5. EngineInv' BY DEF EngineInv, LockInv
  <1>6. OneEngine' BY DEF OneEngine
  <1> QED BY <1>1, <1>2, <1>3, <1>4, <1>5, <1>6

LEMMA BindStep ==
  ASSUME IInv, NEW d \in Daemons, Bind(d)
  PROVE  IInv'
  <1> USE ConstAssumption DEF IInv, TypeOK, Stages, ClientStages, LockedStages, EngineStages,
          ClientLocked, DGoto, CGoto, files, daemons, clients, Bind, SocketOpen
  <1>1. TypeOK' OBVIOUS
  <1>2. LockInv' BY DEF LockInv
  <1>3. RecordInv' BY DEF RecordInv, LockInv
  <1>4. SocketInv' BY DEF SocketInv, LockInv
  <1>5. EngineInv' BY DEF EngineInv, LockInv
  <1>6. OneEngine' BY DEF OneEngine
  <1> QED BY <1>1, <1>2, <1>3, <1>4, <1>5, <1>6

LEMMA StartEngineStep ==
  ASSUME IInv, NEW d \in Daemons, StartEngine(d)
  PROVE  IInv'
  <1> USE ConstAssumption DEF IInv, TypeOK, Stages, ClientStages, LockedStages, EngineStages,
          ClientLocked, DGoto, CGoto, files, daemons, clients, StartEngine, EngineBound
  <1>1. TypeOK' OBVIOUS
  <1>2. LockInv' BY DEF LockInv
  <1>3. RecordInv' BY DEF RecordInv, LockInv
  <1>4. SocketInv' BY DEF SocketInv, LockInv
  <1>5. EngineInv' BY DEF EngineInv, LockInv
  <1>6. OneEngine' BY DEF OneEngine
  <1> QED BY <1>1, <1>2, <1>3, <1>4, <1>5, <1>6

LEMMA EngineSocketTimeoutStep ==
  ASSUME IInv, NEW d \in Daemons, EngineSocketTimeout(d)
  PROVE  IInv'
  <1> USE ConstAssumption DEF IInv, TypeOK, Stages, ClientStages, LockedStages, EngineStages,
          ClientLocked, DGoto, CGoto, files, daemons, clients, EngineSocketTimeout
  <1>1. TypeOK' OBVIOUS
  <1>2. LockInv' BY DEF LockInv
  <1>3. RecordInv' BY DEF RecordInv, LockInv
  <1>4. SocketInv' BY DEF SocketInv, LockInv
  <1>5. EngineInv' BY DEF EngineInv, LockInv
  <1>6. OneEngine' BY DEF OneEngine
  <1> QED BY <1>1, <1>2, <1>3, <1>4, <1>5, <1>6

LEMMA StartEngineFailsStep ==
  ASSUME IInv, NEW d \in Daemons, StartEngineFails(d)
  PROVE  IInv'
  <1> USE ConstAssumption DEF IInv, TypeOK, Stages, ClientStages, LockedStages, EngineStages,
          ClientLocked, DGoto, CGoto, files, daemons, clients, StartEngineFails, EngineBound
  <1>1. TypeOK' OBVIOUS
  <1>2. LockInv' BY DEF LockInv
  <1>3. RecordInv' BY DEF RecordInv, LockInv
  <1>4. SocketInv' BY DEF SocketInv, LockInv
  <1>5. EngineInv' BY DEF EngineInv, LockInv
  <1>6. OneEngine' BY DEF OneEngine
  <1> QED BY <1>1, <1>2, <1>3, <1>4, <1>5, <1>6

LEMMA WriteRecordStep ==
  ASSUME IInv, NEW d \in Daemons, WriteRecord(d)
  PROVE  IInv'
  <1> USE ConstAssumption DEF IInv, TypeOK, Stages, ClientStages, LockedStages, EngineStages,
          ClientLocked, DGoto, CGoto, files, daemons, clients, WriteRecord
  <1>1. TypeOK' OBVIOUS
  <1>2. LockInv' BY DEF LockInv
  <1>3. RecordInv' BY DEF RecordInv, LockInv
  <1>4. SocketInv' BY DEF SocketInv, LockInv
  <1>5. EngineInv' BY DEF EngineInv, LockInv
  <1>6. OneEngine' BY DEF OneEngine
  <1> QED BY <1>1, <1>2, <1>3, <1>4, <1>5, <1>6

LEMMA WriteRecordFailsStep ==
  ASSUME IInv, NEW d \in Daemons, WriteRecordFails(d)
  PROVE  IInv'
  <1> USE ConstAssumption DEF IInv, TypeOK, Stages, ClientStages, LockedStages, EngineStages,
          ClientLocked, DGoto, CGoto, files, daemons, clients, WriteRecordFails
  <1>1. TypeOK' OBVIOUS
  <1>2. LockInv' BY DEF LockInv
  <1>3. RecordInv' BY DEF RecordInv, LockInv
  <1>4. SocketInv' BY DEF SocketInv, LockInv
  <1>5. EngineInv' BY DEF EngineInv, LockInv
  <1>6. OneEngine' BY DEF OneEngine
  <1> QED BY <1>1, <1>2, <1>3, <1>4, <1>5, <1>6

LEMMA StartListenerStep ==
  ASSUME IInv, NEW d \in Daemons, StartListener(d)
  PROVE  IInv'
  <1> USE ConstAssumption DEF IInv, TypeOK, Stages, ClientStages, LockedStages, EngineStages,
          ClientLocked, DGoto, CGoto, files, daemons, clients, StartListener
  <1>1. TypeOK' OBVIOUS
  <1>2. LockInv' BY DEF LockInv
  <1>3. RecordInv' BY DEF RecordInv, LockInv
  <1>4. SocketInv' BY DEF SocketInv, LockInv
  <1>5. EngineInv' BY DEF EngineInv, LockInv
  <1>6. OneEngine' BY DEF OneEngine
  <1> QED BY <1>1, <1>2, <1>3, <1>4, <1>5, <1>6

LEMMA BeginShutdownStep ==
  ASSUME IInv, NEW d \in Daemons, BeginShutdown(d)
  PROVE  IInv'
  <1> USE ConstAssumption DEF IInv, TypeOK, Stages, ClientStages, LockedStages, EngineStages,
          ClientLocked, DGoto, CGoto, files, daemons, clients, BeginShutdown
  <1>1. TypeOK' OBVIOUS
  <1>2. LockInv' BY DEF LockInv
  <1>3. RecordInv' BY DEF RecordInv, LockInv
  <1>4. SocketInv' BY DEF SocketInv, LockInv
  <1>5. EngineInv' BY DEF EngineInv, LockInv
  <1>6. OneEngine' BY DEF OneEngine
  <1> QED BY <1>1, <1>2, <1>3, <1>4, <1>5, <1>6

LEMMA ListenerExitsStep ==
  ASSUME IInv, NEW d \in Daemons, ListenerExits(d)
  PROVE  IInv'
  <1> USE ConstAssumption DEF IInv, TypeOK, Stages, ClientStages, LockedStages, EngineStages,
          ClientLocked, DGoto, CGoto, files, daemons, clients, ListenerExits
  <1>1. TypeOK' OBVIOUS
  <1>2. LockInv' BY DEF LockInv
  <1>3. RecordInv' BY DEF RecordInv, LockInv
  <1>4. SocketInv' BY DEF SocketInv, LockInv
  <1>5. EngineInv' BY DEF EngineInv, LockInv
  <1>6. OneEngine' BY DEF OneEngine
  <1> QED BY <1>1, <1>2, <1>3, <1>4, <1>5, <1>6

LEMMA RemoveRecordStep ==
  ASSUME IInv, NEW d \in Daemons, RemoveRecord(d)
  PROVE  IInv'
  <1> USE ConstAssumption DEF IInv, TypeOK, Stages, ClientStages, LockedStages, EngineStages,
          ClientLocked, DGoto, CGoto, files, daemons, clients, RemoveRecord
  <1>1. TypeOK' OBVIOUS
  <1>2. LockInv' BY DEF LockInv
  <1>3. RecordInv' BY DEF RecordInv, LockInv
  <1>4. SocketInv' BY DEF SocketInv, LockInv
  <1>5. EngineInv' BY DEF EngineInv, LockInv
  <1>6. OneEngine' BY DEF OneEngine
  <1> QED BY <1>1, <1>2, <1>3, <1>4, <1>5, <1>6

LEMMA JoinListenerStep ==
  ASSUME IInv, NEW d \in Daemons, JoinListener(d)
  PROVE  IInv'
  <1> USE ConstAssumption DEF IInv, TypeOK, Stages, ClientStages, LockedStages, EngineStages,
          ClientLocked, DGoto, CGoto, files, daemons, clients, JoinListener
  <1>1. TypeOK' OBVIOUS
  <1>2. LockInv' BY DEF LockInv
  <1>3. RecordInv' BY DEF RecordInv, LockInv
  <1>4. SocketInv' BY DEF SocketInv, LockInv
  <1>5. EngineInv' BY DEF EngineInv, LockInv
  <1>6. OneEngine' BY DEF OneEngine
  <1> QED BY <1>1, <1>2, <1>3, <1>4, <1>5, <1>6

LEMMA DropEngineStep ==
  ASSUME IInv, NEW d \in Daemons, DropEngine(d)
  PROVE  IInv'
  <1> USE ConstAssumption DEF IInv, TypeOK, Stages, ClientStages, LockedStages, EngineStages,
          ClientLocked, DGoto, CGoto, files, daemons, clients, DropEngine
  <1>1. TypeOK' OBVIOUS
  <1>2. LockInv' BY DEF LockInv
  <1>3. RecordInv' BY DEF RecordInv, LockInv
  <1>4. SocketInv' BY DEF SocketInv, LockInv
  <1>5. EngineInv' BY DEF EngineInv, LockInv
  <1>6. OneEngine' BY DEF OneEngine
  <1> QED BY <1>1, <1>2, <1>3, <1>4, <1>5, <1>6

LEMMA DropListenerStep ==
  ASSUME IInv, NEW d \in Daemons, DropListener(d)
  PROVE  IInv'
  <1> USE ConstAssumption DEF IInv, TypeOK, Stages, ClientStages, LockedStages, EngineStages,
          ClientLocked, DGoto, CGoto, files, daemons, clients, DropListener
  <1>1. TypeOK' OBVIOUS
  <1>2. LockInv' BY DEF LockInv
  <1>3. RecordInv' BY DEF RecordInv, LockInv
  <1>4. SocketInv' BY DEF SocketInv, LockInv
  <1>5. EngineInv' BY DEF EngineInv, LockInv
  <1>6. OneEngine' BY DEF OneEngine
  <1> QED BY <1>1, <1>2, <1>3, <1>4, <1>5, <1>6

LEMMA ReleaseLockStep ==
  ASSUME IInv, NEW d \in Daemons, ReleaseLock(d)
  PROVE  IInv'
  <1> USE ConstAssumption DEF IInv, TypeOK, Stages, ClientStages, LockedStages, EngineStages,
          ClientLocked, DGoto, CGoto, files, daemons, clients, ReleaseLock
  <1>1. TypeOK' OBVIOUS
  <1>2. LockInv' BY DEF LockInv
  <1>3. RecordInv' BY DEF RecordInv, LockInv
  <1>4. SocketInv' BY DEF SocketInv, LockInv
  <1>5. EngineInv' BY DEF EngineInv, LockInv
  <1>6. OneEngine' BY DEF OneEngine
  <1> QED BY <1>1, <1>2, <1>3, <1>4, <1>5, <1>6

LEMMA KillStep ==
  ASSUME IInv, NEW d \in Daemons, Kill(d)
  PROVE  IInv'
  <1> USE ConstAssumption DEF IInv, TypeOK, Stages, ClientStages, LockedStages, EngineStages,
          ClientLocked, DGoto, CGoto, files, daemons, clients, Kill
  <1>1. TypeOK' OBVIOUS
  <1>2. LockInv' BY DEF LockInv
  <1>3. RecordInv' BY DEF RecordInv, LockInv
  <1>4. SocketInv' BY DEF SocketInv, LockInv
  <1>5. EngineInv' BY DEF EngineInv, LockInv
  <1>6. OneEngine' BY DEF OneEngine
  <1> QED BY <1>1, <1>2, <1>3, <1>4, <1>5, <1>6

LEMMA OrphanExitsStep ==
  ASSUME IInv, NEW d \in Daemons, OrphanExits(d)
  PROVE  IInv'
  <1> USE ConstAssumption DEF IInv, TypeOK, Stages, ClientStages, LockedStages, EngineStages,
          ClientLocked, DGoto, CGoto, files, daemons, clients, OrphanExits
  <1>1. TypeOK' OBVIOUS
  <1>2. LockInv' BY DEF LockInv
  <1>3. RecordInv' BY DEF RecordInv, LockInv
  <1>4. SocketInv' BY DEF SocketInv, LockInv
  <1>5. EngineInv' BY DEF EngineInv, LockInv
  <1>6. OneEngine' BY DEF OneEngine
  <1> QED BY <1>1, <1>2, <1>3, <1>4, <1>5, <1>6

LEMMA EnsureDaemonStep ==
  ASSUME IInv, NEW c \in Clients, EnsureDaemon(c)
  PROVE  IInv'
  <1> USE ConstAssumption DEF IInv, TypeOK, Stages, ClientStages, LockedStages, EngineStages,
          ClientLocked, DGoto, CGoto, files, daemons, clients, EnsureDaemon
  <1>1. TypeOK' OBVIOUS
  <1>2. LockInv' BY DEF LockInv
  <1>3. RecordInv' BY DEF RecordInv, LockInv
  <1>4. SocketInv' BY DEF SocketInv, LockInv
  <1>5. EngineInv' BY DEF EngineInv, LockInv
  <1>6. OneEngine' BY DEF OneEngine
  <1> QED BY <1>1, <1>2, <1>3, <1>4, <1>5, <1>6

LEMMA ReadRecordStep ==
  ASSUME IInv, NEW c \in Clients, ReadRecord(c)
  PROVE  IInv'
  <1> USE ConstAssumption DEF IInv, TypeOK, Stages, ClientStages, LockedStages, EngineStages,
          ClientLocked, DGoto, CGoto, files, daemons, clients, ReadRecord
  <1>1. TypeOK' OBVIOUS
  <1>2. LockInv'
    <2>1. cpc[c] \notin ClientLocked /\ cpc'[c] \notin ClientLocked OBVIOUS
    <2>2. \A e \in Clients \ {c} : cpc'[e] = cpc[e] OBVIOUS
    <2>3. lock' = lock /\ dpc' = dpc OBVIOUS
    <2> QED BY ONLY <2>1, <2>2, <2>3, LockInv, c \in Clients DEF LockInv
  <1>3. RecordInv' BY DEF RecordInv, LockInv
  <1>4. SocketInv' BY DEF SocketInv, LockInv
  <1>5. EngineInv' BY DEF EngineInv, LockInv
  <1>6. OneEngine' BY DEF OneEngine
  <1> QED BY <1>1, <1>2, <1>3, <1>4, <1>5, <1>6

LEMMA PingStep ==
  ASSUME IInv, NEW c \in Clients, Ping(c)
  PROVE  IInv'
  <1> USE ConstAssumption DEF IInv, TypeOK, Stages, ClientStages, LockedStages, EngineStages,
          ClientLocked, DGoto, CGoto, files, daemons, clients, Ping
  <1>1. TypeOK' OBVIOUS
  <1>2. LockInv' BY DEF LockInv
  <1>3. RecordInv' BY DEF RecordInv, LockInv
  <1>4. SocketInv' BY DEF SocketInv, LockInv
  <1>5. EngineInv' BY DEF EngineInv, LockInv
  <1>6. OneEngine' BY DEF OneEngine
  <1> QED BY <1>1, <1>2, <1>3, <1>4, <1>5, <1>6

LEMMA TryLockStep ==
  ASSUME IInv, NEW c \in Clients, TryLock(c)
  PROVE  IInv'
  <1> USE ConstAssumption DEF IInv, TypeOK, Stages, ClientStages, LockedStages, EngineStages,
          ClientLocked, DGoto, CGoto, files, daemons, clients, TryLock
  <1>1. TypeOK' OBVIOUS
  <1>2. LockInv' BY DEF LockInv
  <1>3. RecordInv' BY DEF RecordInv, LockInv
  <1>4. SocketInv' BY DEF SocketInv, LockInv
  <1>5. EngineInv' BY DEF EngineInv, LockInv
  <1>6. OneEngine' BY DEF OneEngine
  <1> QED BY <1>1, <1>2, <1>3, <1>4, <1>5, <1>6

LEMMA RemoveStaleRecordStep ==
  ASSUME IInv, NEW c \in Clients, RemoveStaleRecord(c)
  PROVE  IInv'
  <1> USE ConstAssumption DEF IInv, TypeOK, Stages, ClientStages, LockedStages, EngineStages,
          ClientLocked, DGoto, CGoto, files, daemons, clients, RemoveStaleRecord
  <1>1. TypeOK' OBVIOUS
  <1>2. LockInv' BY DEF LockInv
  <1>3. RecordInv' BY DEF RecordInv, LockInv
  <1>4. SocketInv' BY DEF SocketInv, LockInv
  <1>5. EngineInv' BY DEF EngineInv, LockInv
  <1>6. OneEngine' BY DEF OneEngine
  <1> QED BY <1>1, <1>2, <1>3, <1>4, <1>5, <1>6

LEMMA UnlockStep ==
  ASSUME IInv, NEW c \in Clients, Unlock(c)
  PROVE  IInv'
  <1> USE ConstAssumption DEF IInv, TypeOK, Stages, ClientStages, LockedStages, EngineStages,
          ClientLocked, DGoto, CGoto, files, daemons, clients, Unlock
  <1>1. TypeOK' OBVIOUS
  <1>2. LockInv' BY DEF LockInv
  <1>3. RecordInv' BY DEF RecordInv, LockInv
  <1>4. SocketInv' BY DEF SocketInv, LockInv
  <1>5. EngineInv' BY DEF EngineInv, LockInv
  <1>6. OneEngine' BY DEF OneEngine
  <1> QED BY <1>1, <1>2, <1>3, <1>4, <1>5, <1>6

LEMMA PollHeldStep ==
  ASSUME IInv, NEW c \in Clients, PollHeld(c)
  PROVE  IInv'
  <1> USE ConstAssumption DEF IInv, TypeOK, Stages, ClientStages, LockedStages, EngineStages,
          ClientLocked, DGoto, CGoto, files, daemons, clients, PollHeld
  <1>1. TypeOK' OBVIOUS
  <1>2. LockInv' BY DEF LockInv
  <1>3. RecordInv' BY DEF RecordInv, LockInv
  <1>4. SocketInv' BY DEF SocketInv, LockInv
  <1>5. EngineInv' BY DEF EngineInv, LockInv
  <1>6. OneEngine' BY DEF OneEngine
  <1> QED BY <1>1, <1>2, <1>3, <1>4, <1>5, <1>6

LEMMA PollTimeoutStep ==
  ASSUME IInv, NEW c \in Clients, PollTimeout(c)
  PROVE  IInv'
  <1> USE ConstAssumption DEF IInv, TypeOK, Stages, ClientStages, LockedStages, EngineStages,
          ClientLocked, DGoto, CGoto, files, daemons, clients, PollTimeout
  <1>1. TypeOK' OBVIOUS
  <1>2. LockInv' BY DEF LockInv
  <1>3. RecordInv' BY DEF RecordInv, LockInv
  <1>4. SocketInv' BY DEF SocketInv, LockInv
  <1>5. EngineInv' BY DEF EngineInv, LockInv
  <1>6. OneEngine' BY DEF OneEngine
  <1> QED BY <1>1, <1>2, <1>3, <1>4, <1>5, <1>6

LEMMA SpawnStep ==
  ASSUME IInv, NEW c \in Clients, Spawn(c)
  PROVE  IInv'
  <1> USE ConstAssumption DEF IInv, TypeOK, Stages, ClientStages, LockedStages, EngineStages,
          ClientLocked, DGoto, CGoto, files, daemons, clients, Spawn
  <1>1. TypeOK'
    <2>1. PICK d \in Daemons : DGoto(d, "locking") /\ ver' = [ver EXCEPT ![d] = Version[c]] OBVIOUS
    <2>2. Version[c] \in Nat OBVIOUS
    <2>3. ver' \in [Daemons -> Nat] BY <2>1, <2>2
    <2>4. dpc' \in [Daemons -> Stages] BY <2>1
    <2>5. cpc' = [cpc EXCEPT ![c] = "wait"] /\ cpc' \in [Clients -> ClientStages] OBVIOUS
    <2>6. \A x \in Clients : cpc'[x] \in {"ping", "wait_ping", "re_ping", "decide"} => info'[x] \in Daemons
      BY <2>5
    <2> QED BY <2>3, <2>4, <2>5, <2>6
  <1>2. LockInv' BY DEF LockInv
  <1>3. RecordInv' BY DEF RecordInv, LockInv
  <1>4. SocketInv' BY DEF SocketInv, LockInv
  <1>5. EngineInv' BY DEF EngineInv, LockInv
  <1>6. OneEngine' BY DEF OneEngine
  <1> QED BY <1>1, <1>2, <1>3, <1>4, <1>5, <1>6

LEMMA SpawnFailsStep ==
  ASSUME IInv, NEW c \in Clients, SpawnFails(c)
  PROVE  IInv'
  <1> USE ConstAssumption DEF IInv, TypeOK, Stages, ClientStages, LockedStages, EngineStages,
          ClientLocked, DGoto, CGoto, files, daemons, clients, SpawnFails
  <1>1. TypeOK' OBVIOUS
  <1>2. LockInv' BY DEF LockInv
  <1>3. RecordInv' BY DEF RecordInv, LockInv
  <1>4. SocketInv' BY DEF SocketInv, LockInv
  <1>5. EngineInv' BY DEF EngineInv, LockInv
  <1>6. OneEngine' BY DEF OneEngine
  <1> QED BY <1>1, <1>2, <1>3, <1>4, <1>5, <1>6

LEMMA DecideStep ==
  ASSUME IInv, NEW c \in Clients, Decide(c)
  PROVE  IInv'
  <1> USE ConstAssumption DEF IInv, TypeOK, Stages, ClientStages, LockedStages, EngineStages,
          ClientLocked, DGoto, CGoto, files, daemons, clients, Decide
  <1>1. TypeOK' OBVIOUS
  <1>2. LockInv' BY DEF LockInv
  <1>3. RecordInv' BY DEF RecordInv, LockInv
  <1>4. SocketInv' BY DEF SocketInv, LockInv
  <1>5. EngineInv' BY DEF EngineInv, LockInv
  <1>6. OneEngine' BY DEF OneEngine
  <1> QED BY <1>1, <1>2, <1>3, <1>4, <1>5, <1>6

LEMMA SendStopStep ==
  ASSUME IInv, NEW c \in Clients, SendStop(c)
  PROVE  IInv'
  <1> USE ConstAssumption DEF IInv, TypeOK, Stages, ClientStages, LockedStages, EngineStages,
          ClientLocked, DGoto, CGoto, files, daemons, clients, SendStop, SocketOpen
  <1>1. TypeOK' OBVIOUS
  <1>2. LockInv' BY DEF LockInv
  <1>3. RecordInv' BY DEF RecordInv, LockInv
  <1>4. SocketInv' BY DEF SocketInv, LockInv
  <1>5. EngineInv' BY DEF EngineInv, LockInv
  <1>6. OneEngine' BY DEF OneEngine
  <1> QED BY <1>1, <1>2, <1>3, <1>4, <1>5, <1>6

LEMMA ProbeLockStep ==
  ASSUME IInv, NEW c \in Clients, ProbeLock(c)
  PROVE  IInv'
  <1> USE ConstAssumption DEF IInv, TypeOK, Stages, ClientStages, LockedStages, EngineStages,
          ClientLocked, DGoto, CGoto, files, daemons, clients, ProbeLock
  <1>1. TypeOK' OBVIOUS
  <1>2. LockInv' BY DEF LockInv
  <1>3. RecordInv' BY DEF RecordInv, LockInv
  <1>4. SocketInv' BY DEF SocketInv, LockInv
  <1>5. EngineInv' BY DEF EngineInv, LockInv
  <1>6. OneEngine' BY DEF OneEngine
  <1> QED BY <1>1, <1>2, <1>3, <1>4, <1>5, <1>6

LEMMA ProbeDoneStep ==
  ASSUME IInv, NEW c \in Clients, ProbeDone(c)
  PROVE  IInv'
  <1> USE ConstAssumption DEF IInv, TypeOK, Stages, ClientStages, LockedStages, EngineStages,
          ClientLocked, DGoto, CGoto, files, daemons, clients, ProbeDone
  <1>1. TypeOK' OBVIOUS
  <1>2. LockInv' BY DEF LockInv
  <1>3. RecordInv' BY DEF RecordInv, LockInv
  <1>4. SocketInv' BY DEF SocketInv, LockInv
  <1>5. EngineInv' BY DEF EngineInv, LockInv
  <1>6. OneEngine' BY DEF OneEngine
  <1> QED BY <1>1, <1>2, <1>3, <1>4, <1>5, <1>6

LEMMA GiveUpTakeoverStep ==
  ASSUME IInv, NEW c \in Clients, GiveUpTakeover(c)
  PROVE  IInv'
  <1> USE ConstAssumption DEF IInv, TypeOK, Stages, ClientStages, LockedStages, EngineStages,
          ClientLocked, DGoto, CGoto, files, daemons, clients, GiveUpTakeover
  <1>1. TypeOK' OBVIOUS
  <1>2. LockInv' BY DEF LockInv
  <1>3. RecordInv' BY DEF RecordInv, LockInv
  <1>4. SocketInv' BY DEF SocketInv, LockInv
  <1>5. EngineInv' BY DEF EngineInv, LockInv
  <1>6. OneEngine' BY DEF OneEngine
  <1> QED BY <1>1, <1>2, <1>3, <1>4, <1>5, <1>6

LEMMA ClientDiesStep ==
  ASSUME IInv, NEW c \in Clients, ClientDies(c)
  PROVE  IInv'
  <1> USE ConstAssumption DEF IInv, TypeOK, Stages, ClientStages, LockedStages, EngineStages,
          ClientLocked, DGoto, CGoto, files, daemons, clients, ClientDies
  <1>1. TypeOK' OBVIOUS
  <1>2. LockInv' BY DEF LockInv
  <1>3. RecordInv' BY DEF RecordInv, LockInv
  <1>4. SocketInv' BY DEF SocketInv, LockInv
  <1>5. EngineInv' BY DEF EngineInv, LockInv
  <1>6. OneEngine' BY DEF OneEngine
  <1> QED BY <1>1, <1>2, <1>3, <1>4, <1>5, <1>6

LEMMA InitIInv == Init => IInv
  <1> SUFFICES ASSUME Init PROVE IInv
    OBVIOUS
  <1> USE ConstAssumption DEF Init, Stages, ClientStages, LockedStages, EngineStages, ClientLocked
  <1>1. TypeOK BY DEF TypeOK
  <1>2. LockInv BY DEF LockInv
  <1>3. RecordInv BY DEF RecordInv
  <1>4. SocketInv BY DEF SocketInv
  <1>5. EngineInv BY DEF EngineInv
  <1>6. OneEngine BY DEF OneEngine
  <1> QED BY <1>1, <1>2, <1>3, <1>4, <1>5, <1>6 DEF IInv

LEMMA IInvStep == IInv /\ [Next]_vars => IInv'
  <1> SUFFICES ASSUME IInv, [Next]_vars PROVE IInv'
    OBVIOUS
  <1>1. ASSUME NEW d \in Daemons, StartByHand(d) \/ DaemonStep(d) \/ ListenerExits(d) \/ Kill(d) \/ OrphanExits(d)
        PROVE  IInv'
    BY <1>1, StartByHandStep, TakeLockStep, LockHeldStep, BindStep, StartEngineStep,
       EngineSocketTimeoutStep, StartEngineFailsStep, WriteRecordStep,
       WriteRecordFailsStep, StartListenerStep, BeginShutdownStep,
       ListenerExitsStep, RemoveRecordStep, JoinListenerStep, DropEngineStep,
       DropListenerStep, ReleaseLockStep, KillStep, OrphanExitsStep DEF DaemonStep
  <1>2. ASSUME NEW c \in Clients, ClientStep(c) \/ PollTimeout(c) \/ GiveUpTakeover(c) \/ ClientDies(c)
        PROVE  IInv'
    BY <1>2, EnsureDaemonStep, ReadRecordStep, PingStep, TryLockStep, RemoveStaleRecordStep,
       UnlockStep, PollHeldStep, PollTimeoutStep, SpawnStep, SpawnFailsStep,
       DecideStep, SendStopStep, ProbeLockStep, ProbeDoneStep,
       GiveUpTakeoverStep, ClientDiesStep DEF ClientStep
  <1>3. CASE UNCHANGED vars
    BY <1>3 DEF vars, files, daemons, clients, IInv, TypeOK, LockInv, RecordInv, SocketInv, EngineInv, OneEngine
  <1> QED BY <1>1, <1>2, <1>3 DEF Next, Quiescent

(***************************************************************************)
(* Type correctness of the shared files and of every process.              *)
(***************************************************************************)
THEOREM TypeCorrect == Spec => []TypeOK
  <1>1. IInv => TypeOK BY DEF IInv
  <1> QED BY InitIInv, IInvStep, <1>1, PTL DEF Spec

(***************************************************************************)
(* A serving daemon stays discoverable until it is told to shut down.      *)
(***************************************************************************)
THEOREM ServingDaemonIsFound == Spec => []ServingIsDiscoverable
  <1>1. IInv => ServingIsDiscoverable
    BY DEF IInv, TypeOK, RecordInv, SocketInv, ServingIsDiscoverable
  <1> QED BY InitIInv, IInvStep, <1>1, PTL DEF Spec

(***************************************************************************)
(* The daemon lock is released last: a free lock means record, socket and  *)
(* hyperd of a daemon that ended by itself are gone.                       *)
(***************************************************************************)
THEOREM LockReleasedLast == Spec => []FreeLockMeansGone
  <1>1. IInv => FreeLockMeansGone
    BY DEF IInv, TypeOK, LockInv, RecordInv, SocketInv, EngineInv, FreeLockMeansGone, LockedStages, EngineStages
  <1> QED BY InitIInv, IInvStep, <1>1, PTL DEF Spec

(***************************************************************************)
(* At most one hyperd is bound in the state directory.                     *)
(***************************************************************************)
THEOREM SingleEngine == Spec => []OneEngine
  <1>1. IInv => OneEngine BY DEF IInv
  <1> QED BY InitIInv, IInvStep, <1>1, PTL DEF Spec
=============================================================================
