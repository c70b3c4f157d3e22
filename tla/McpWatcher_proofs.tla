------------------------- MODULE McpWatcher_proofs -------------------------
(***************************************************************************)
(* Every version of a watched file ends in one place (McpWatcher): it is   *)
(* never ingested twice without an excuse, never both committed and moved  *)
(* to failed/, and never deleted before its rows are committed, for any    *)
(* set of files, jobs and versions and across lost connections, restarts   *)
(* of the watch and crashes of the server.                                 *)
(*                                                                         *)
(* WatcherInv, the inductive invariant, has two halves.  JobsAreExclusive  *)
(* says that in_flight_paths keeps the jobs of one watch apart, so that    *)
(* two jobs meet on a file only when one belongs to an earlier watch.      *)
(* FileOK says what the job that works on a file relies on: versions are   *)
(* in order (InOrder), a version that has landed is not picked up again    *)
(* (NotTakenAgain), and the data stays on disk until it has                *)
(* (KeptUntilLanded).                                                      *)
(*                                                                         *)
(* The tools of the server keep the user's data (McpTools), for any tables *)
(* and aliases.  ToolsInv says of the state what the steps rely on; the    *)
(* prose of a catalog is followed through the statements that rewrite it   *)
(* (StubIs, ReconciledIs).                                                 *)
(***************************************************************************)
EXTENDS McpWatcher, McpTools, SequenceTheorems, TLAPS

-----------------------------------------------------------------------------
(* The invariant                                                           *)

\* 0 stands for no name and for the sweep's slot.
WatcherConstants == 0 \notin Files /\ 0 \notin Slots /\ MaxVersions \in Nat

JobSteps == {"none", "check", "ingest", "lost", "retry", "failed", "moved", "ok", "removed",
             "report"}
JobType == [file : Files \cup {0}, at : JobSteps, era : Nat]
DirType == [data : 0 .. MaxVersions, made : 0 .. MaxVersions, signed : 0 .. MaxVersions,
            ready : BOOLEAN, failed : SUBSET Versions, announced : BOOLEAN]
WatchType == [phase : {"off", "sweep", "armed"}, todo : SUBSET Files, events : Seq(Files),
              claims : SUBSET Files, era : Nat, target : {"local", "alias"},
              alias : {"writable", "none"}]

WatcherTypes ==
    /\ dir \in [Files -> DirType]
    /\ landed \in [Files -> [Versions -> Nat]]
    /\ job \in [JobSlots -> JobType]
    /\ watch \in WatchType
    /\ excuse \in [twice : SUBSET Files, reused : SUBSET Files, lost : Int]

Busy(j) == job[j].at # "none"
Current(j) == Busy(j) /\ job[j].era = watch.era

\* Two jobs meet on one file only when one of them is of an earlier watch.
JobsAreExclusive ==
    /\ \A j \in JobSlots :
          IF Busy(j) THEN job[j].file \in Files /\ job[j].era <= watch.era ELSE job[j] = NoJob
    /\ \A j \in JobSlots : Busy(j) /\ ~Current(j) => job[j].file \in excuse.twice
    /\ Busy(0) => watch.phase = "sweep"
    /\ watch.phase = "sweep" => \A j \in Slots : ~Current(j)
    /\ \A j \in Slots : Current(j) => job[j].file \in watch.claims
    /\ \A i, j \in Slots : Current(i) /\ Current(j) /\ i # j => job[i].file # job[j].file

\* The versions of a name come one after the other.
InOrder(f) ==
    /\ dir[f].data <= dir[f].made /\ dir[f].signed <= dir[f].made
    /\ dir[f].ready => dir[f].signed = dir[f].made
    /\ \A v \in dir[f].failed : v <= dir[f].made /\ v # dir[f].data
    /\ \A v \in Versions : landed[f][v] > 0 => v <= dir[f].made

Has(j, f, ats) == job[j].file = f /\ job[j].at \in ats

\* A version that landed is not taken again: its .ready file is gone or the job
\* that committed it is about to remove it.
NotTakenAgain(f) ==
    f \notin excuse.twice =>
        /\ (dir[f].data # 0 /\ landed[f][dir[f].data] > 0) =>
              /\ dir[f].signed = dir[f].made
              /\ dir[f].ready => \E j \in JobSlots : Has(j, f, {"ok"})
        /\ \A j \in JobSlots : Has(j, f, {"ingest", "lost", "retry", "failed", "ok"})
              => dir[f].ready /\ dir[f].data # 0
        /\ \A v \in Versions : landed[f][v] <= 1
        /\ \A v \in dir[f].failed : landed[f][v] = 0

\* What a job is about to remove has landed.
KeptUntilLanded(f) ==
    f \notin excuse.reused =>
        /\ \A j \in JobSlots : Has(j, f, {"ok", "removed"})
              => dir[f].data = 0 \/ landed[f][dir[f].data] > 0
        /\ \A v \in 1 .. dir[f].made : v = dir[f].data \/ v \in dir[f].failed \/ landed[f][v] > 0

FileOK(f) == InOrder(f) /\ NotTakenAgain(f) /\ KeptUntilLanded(f)

WatcherInv == WatcherTypes /\ JobsAreExclusive /\ \A f \in Files : FileOK(f)

LEMMA OneWorker ==
    ASSUME WatcherInv, WatcherConstants, NEW i \in JobSlots, NEW j \in JobSlots, i # j,
           Busy(i), Busy(j), job[i].file = job[j].file
    PROVE  job[i].file \in excuse.twice
<1>1. CASE Current(i) /\ Current(j)
  <2>1. CASE i \in Slots /\ j \in Slots
    BY <1>1, <2>1 DEF WatcherInv, JobsAreExclusive
  <2>2. CASE i = 0 \/ j = 0
    BY <1>1, <2>2 DEF WatcherInv, JobsAreExclusive, JobSlots
  <2> QED
    BY <2>1, <2>2 DEF JobSlots
<1>2. CASE ~Current(i) \/ ~Current(j)
  BY <1>2 DEF WatcherInv, JobsAreExclusive
<1> QED
  BY <1>1, <1>2

\* Steps of a job that has taken nothing, or is done with its files.
Aloof == {"none", "check", "moved", "report"}

\* A file the step does not touch.
LEMMA OtherFile ==
    ASSUME NEW f \in Files, FileOK(f),
           dir'[f].data = dir[f].data, dir'[f].made = dir[f].made,
           dir'[f].signed = dir[f].signed, dir'[f].ready = dir[f].ready,
           dir'[f].failed = dir[f].failed, landed'[f] = landed[f],
           \A j \in JobSlots : \/ job'[j] = job[j]
                               \/ job[j].file # f /\ job'[j].file # f
                               \/ job[j].at \in Aloof /\ job'[j].at \in Aloof,
           f \notin excuse'.twice => f \notin excuse.twice,
           f \notin excuse'.reused => f \notin excuse.reused
    PROVE  FileOK(f)'
<1>1. InOrder(f)'
  BY DEF FileOK, InOrder
<1>2. \A j \in JobSlots :
        /\ Has(j, f, {"ok"})' <=> Has(j, f, {"ok"})
        /\ Has(j, f, {"ok", "removed"})' <=> Has(j, f, {"ok", "removed"})
        /\ Has(j, f, {"ingest", "lost", "retry", "failed", "ok"})'
             <=> Has(j, f, {"ingest", "lost", "retry", "failed", "ok"})
  BY DEF Has, Aloof
<1>3. NotTakenAgain(f)'
  BY <1>2 DEF FileOK, NotTakenAgain
<1>4. KeptUntilLanded(f)'
  BY <1>2 DEF FileOK, KeptUntilLanded
<1> QED
  BY <1>1, <1>3, <1>4 DEF FileOK

\* A job goes on to another step.
LEMMA JobMoves ==
    ASSUME WatcherInv, WatcherConstants, NEW j \in JobSlots, NEW at \in JobSteps \ {"none"},
           Busy(j), JobAt(j, at), UNCHANGED watch, excuse.twice \subseteq excuse'.twice
    PROVE  /\ job' \in [JobSlots -> JobType]
           /\ job'[j].file = job[j].file /\ job'[j].at = at /\ job[j].file \in Files
           /\ \A i \in JobSlots \ {j} : job'[i] = job[i]
           /\ JobsAreExclusive'
<1>1. job[j] \in JobType /\ job[j].file \in Files
  BY DEF WatcherInv, WatcherTypes, JobsAreExclusive
<1> DEFINE p == [job[j] EXCEPT !.at = at]
<1>2. p \in JobType /\ p.file = job[j].file /\ p.era = job[j].era /\ p.at = at
  BY <1>1 DEF JobType
<1>3. job' = [job EXCEPT ![j] = p]
  BY DEF JobAt
<1> HIDE DEF p
<1>4. /\ job' \in [JobSlots -> JobType] /\ job'[j] = p
      /\ \A i \in JobSlots \ {j} : job'[i] = job[i]
  BY <1>2, <1>3 DEF WatcherInv, WatcherTypes
<1>5. \A i \in JobSlots : /\ Busy(i)' <=> Busy(i)
                          /\ Current(i)' <=> Current(i)
                          /\ job'[i].file = job[i].file /\ job'[i].era = job[i].era
  BY <1>2, <1>4 DEF Busy, Current
<1>6. \A i \in JobSlots : ~Busy(i) => job'[i] = job[i]
  BY <1>4
<1>7. JobsAreExclusive'
  <2>1. \A i \in JobSlots :
          IF Busy(i)' THEN job'[i].file \in Files /\ job'[i].era <= watch'.era
          ELSE job'[i] = NoJob
    BY <1>5, <1>6 DEF WatcherInv, JobsAreExclusive
  <2>2. /\ \A i \in JobSlots : Busy(i)' /\ ~Current(i)' => job'[i].file \in excuse'.twice
        /\ Busy(0)' => watch'.phase = "sweep"
    BY <1>5 DEF WatcherInv, JobsAreExclusive, JobSlots
  <2>3. /\ watch'.phase = "sweep" => \A i \in Slots : ~Current(i)'
        /\ \A i \in Slots : Current(i)' => job'[i].file \in watch'.claims
        /\ \A i, k \in Slots :
              Current(i)' /\ Current(k)' /\ i # k => job'[i].file # job'[k].file
    BY <1>5 DEF WatcherInv, JobsAreExclusive, JobSlots
  <2> QED
    BY <2>1, <2>2, <2>3 DEF JobsAreExclusive
<1> QED
  BY <1>1, <1>2, <1>4, <1>7

LEMMA JobFinishes ==
    ASSUME WatcherInv, WatcherConstants, NEW j \in JobSlots, Busy(j), Finish(j),
           job[j].at \in Aloof, UNCHANGED <<dir, landed, excuse>>
    PROVE  WatcherInv'
<1>1. /\ job' = [job EXCEPT ![j] = NoJob] /\ NoJob \in JobType
      /\ \A i \in JobSlots \ {j} : job'[i] = job[i]
      /\ job'[j] = NoJob /\ job' \in [JobSlots -> JobType]
  <2>1. NoJob \in JobType
    BY DEF NoJob, JobType, JobSteps
  <2> QED
    BY <2>1 DEF Finish, WatcherInv, WatcherTypes
<1>2. job[j].file \in Files
  BY DEF WatcherInv, JobsAreExclusive
<1>3. /\ watch' \in WatchType /\ watch'.era = watch.era /\ watch'.phase = watch.phase
      /\ \/ watch'.claims = watch.claims
         \/ j # 0 /\ Current(j) /\ watch'.claims = watch.claims \ {job[j].file}
  <2>1. watch \in WatchType
    BY DEF WatcherInv, WatcherTypes
  <2> QED
    BY <2>1 DEF Finish, WatchType, Current
<1>4. WatcherTypes'
  BY <1>1, <1>3 DEF WatcherInv, WatcherTypes
<1>5. \A i \in JobSlots : Busy(i)' => i # j /\ Busy(i) /\ job'[i] = job[i]
  BY <1>1 DEF Busy, NoJob
<1>6. \A i \in JobSlots : Current(i)' => i # j /\ Current(i) /\ job'[i] = job[i]
  BY <1>3, <1>5 DEF Current
<1>7. JobsAreExclusive'
  <2>1. \A i \in JobSlots :
          IF Busy(i)' THEN job'[i].file \in Files /\ job'[i].era <= watch'.era
          ELSE job'[i] = NoJob
    BY <1>1, <1>3, <1>5 DEF WatcherInv, JobsAreExclusive, Busy
  <2>2. \A i \in JobSlots : Busy(i)' /\ ~Current(i)' => job'[i].file \in excuse'.twice
    BY <1>3, <1>5 DEF WatcherInv, JobsAreExclusive, Current
  <2>3. Busy(0)' => watch'.phase = "sweep"
    BY <1>3, <1>5 DEF WatcherInv, JobsAreExclusive, JobSlots
  <2>4. watch'.phase = "sweep" => \A i \in Slots : ~Current(i)'
    BY <1>3, <1>6 DEF WatcherInv, JobsAreExclusive, JobSlots
  <2>5. \A i \in Slots : Current(i)' => job'[i].file \in watch'.claims
    <3>1. SUFFICES ASSUME NEW i \in Slots, Current(i)' PROVE job'[i].file \in watch'.claims
      OBVIOUS
    <3>2. i # j /\ Current(i) /\ job'[i] = job[i] /\ job[i].file \in watch.claims
      BY <1>6, <3>1 DEF WatcherInv, JobsAreExclusive, JobSlots
    <3>3. j # 0 /\ Current(j) => job[i].file # job[j].file
      BY <3>2 DEF WatcherInv, JobsAreExclusive, JobSlots
    <3> QED
      BY <1>3, <3>2, <3>3
  <2>6. \A i, k \in Slots : Current(i)' /\ Current(k)' /\ i # k => job'[i].file # job'[k].file
    BY <1>6 DEF WatcherInv, JobsAreExclusive, JobSlots
  <2> QED
    BY <2>1, <2>2, <2>3, <2>4, <2>5, <2>6 DEF JobsAreExclusive
<1>8. ASSUME NEW f \in Files PROVE FileOK(f)'
  <2>1. FileOK(f) /\ NoJob.at \in Aloof
    BY DEF WatcherInv, NoJob, Aloof
  <2> QED
    BY <1>1, <2>1, OtherFile
<1> QED
  BY <1>4, <1>7, <1>8 DEF WatcherInv

\* A name that is taken on by a job of the watch.
LEMMA JobStarts ==
    ASSUME WatcherInv, WatcherConstants, NEW j \in JobSlots, ~Busy(j), NEW f \in Files,
           job' = [job EXCEPT ![j] = [file |-> f, at |-> "check", era |-> watch.era]],
           watch' \in WatchType, watch'.era = watch.era, watch'.phase = watch.phase,
           \/ j = 0 /\ watch.phase = "sweep" /\ watch'.claims = watch.claims
           \/ /\ j \in Slots /\ watch.phase = "armed" /\ f \notin watch.claims
              /\ watch'.claims = watch.claims \cup {f},
           UNCHANGED <<dir, landed, excuse>>
    PROVE  WatcherInv'
<1> DEFINE p == [file |-> f, at |-> "check", era |-> watch.era]
<1>1. p \in JobType /\ p.file = f /\ p.at = "check" /\ p.era = watch.era /\ watch.era \in Nat
  BY DEF WatcherInv, WatcherTypes, WatchType, JobType, JobSteps
<1> HIDE DEF p
<1>2. /\ job' \in [JobSlots -> JobType] /\ job'[j] = p
      /\ \A i \in JobSlots \ {j} : job'[i] = job[i]
  BY <1>1 DEF WatcherInv, WatcherTypes, p
<1>3. WatcherTypes'
  BY <1>2 DEF WatcherInv, WatcherTypes
<1>4. \A i \in JobSlots \ {j} : (Busy(i)' <=> Busy(i)) /\ (Current(i)' <=> Current(i))
  BY <1>2 DEF Busy, Current
<1>5. Busy(j)' /\ Current(j)' /\ ~Current(j)
  BY <1>1, <1>2 DEF Busy, Current
<1>6. JobsAreExclusive'
  <2>1. \A i \in JobSlots :
          IF Busy(i)' THEN job'[i].file \in Files /\ job'[i].era <= watch'.era
          ELSE job'[i] = NoJob
    <3>1. ASSUME NEW i \in JobSlots, i # j
          PROVE  IF Busy(i)' THEN job'[i].file \in Files /\ job'[i].era <= watch'.era
                 ELSE job'[i] = NoJob
      BY <1>2, <1>4, <3>1 DEF WatcherInv, JobsAreExclusive
    <3>2. Busy(j)' /\ job'[j].file \in Files /\ job'[j].era <= watch'.era
      BY <1>1, <1>2, <1>5
    <3> QED
      BY <3>1, <3>2
  <2>2. \A i \in JobSlots : Busy(i)' /\ ~Current(i)' => job'[i].file \in excuse'.twice
    BY <1>2, <1>4, <1>5 DEF WatcherInv, JobsAreExclusive
  <2>3. Busy(0)' => watch'.phase = "sweep"
    BY <1>4 DEF WatcherInv, JobsAreExclusive, JobSlots, WatcherConstants
  <2>4. watch'.phase = "sweep" => \A i \in Slots : ~Current(i)'
    BY <1>4 DEF WatcherInv, JobsAreExclusive, JobSlots, WatcherConstants
  <2>5. \A i \in Slots : Current(i)' => job'[i].file \in watch'.claims
    BY <1>1, <1>2, <1>4 DEF WatcherInv, JobsAreExclusive, JobSlots, WatcherConstants
  <2>6. \A i, k \in Slots : Current(i)' /\ Current(k)' /\ i # k => job'[i].file # job'[k].file
    <3>1. SUFFICES ASSUME NEW i \in Slots, NEW k \in Slots, Current(i)', Current(k)', i # k
                   PROVE  job'[i].file # job'[k].file
      OBVIOUS
    <3>2. ASSUME NEW m \in Slots, m # j, Current(m)'
          PROVE  Current(m) /\ job'[m] = job[m] /\ job[m].file \in watch.claims
      BY <1>2, <1>4, <3>2 DEF WatcherInv, JobsAreExclusive, JobSlots
    <3>3. CASE i # j /\ k # j
      BY <3>1, <3>2, <3>3 DEF WatcherInv, JobsAreExclusive
    <3>4. CASE i = j \/ k = j
      <4>1. j \in Slots /\ f \notin watch.claims /\ job'[j].file = f
        BY <1>1, <1>2, <3>4 DEF WatcherConstants
      <4> QED
        BY <3>1, <3>2, <3>4, <4>1
    <3> QED
      BY <3>3, <3>4
  <2> QED
    BY <2>1, <2>2, <2>3, <2>4, <2>5, <2>6 DEF JobsAreExclusive
<1>7. ASSUME NEW g \in Files PROVE FileOK(g)'
  <2>1. FileOK(g) /\ job[j].at \in Aloof /\ job'[j].at \in Aloof
    BY <1>1, <1>2 DEF WatcherInv, Busy, Aloof
  <2> QED
    BY <1>2, <2>1, OtherFile
<1> QED
  BY <1>3, <1>6, <1>7 DEF WatcherInv

-----------------------------------------------------------------------------
(* The producer, and the watch                                             *)

LEMMA ProducerKeeps ==
    ASSUME WatcherInv, WatcherConstants, NEW f \in Files, WriteData(f) \/ WriteReady(f)
    PROVE  WatcherInv'
<1>1. /\ dir[f] \in DirType /\ watch \in WatchType /\ FileOK(f)
      /\ excuse \in [twice : SUBSET Files, reused : SUBSET Files, lost : Int]
  BY DEF WatcherInv, WatcherTypes
<1>2. CASE WriteData(f)
  <2> DEFINE d == [dir[f] EXCEPT !.data = dir[f].made + 1, !.made = @ + 1, !.announced = FALSE]
  <2>1. /\ dir' = [dir EXCEPT ![f] = d] /\ UNCHANGED <<landed, watch, job>>
        /\ ~dir[f].ready /\ dir[f].signed = dir[f].made /\ dir[f].made < MaxVersions
    BY <1>2 DEF WriteData
  <2>2. /\ d \in DirType /\ d.data = dir[f].made + 1 /\ d.made = dir[f].made + 1
        /\ d.signed = dir[f].signed /\ d.ready = dir[f].ready /\ d.failed = dir[f].failed
        /\ dir[f].made + 1 \in Versions
    <3>1. dir[f].made + 1 \in 0 .. MaxVersions /\ dir[f].made + 1 \in Versions
      BY <1>1, <2>1 DEF DirType, Versions, WatcherConstants
    <3> QED
      BY <1>1, <3>1 DEF DirType
  <2>3. /\ excuse'.twice = excuse.twice /\ excuse.reused \subseteq excuse'.reused
        /\ excuse'.reused \subseteq excuse.reused \cup {f}
        /\ (Working(f) \/ dir[f].data # 0) => f \in excuse'.reused
        /\ excuse' \in [twice : SUBSET Files, reused : SUBSET Files, lost : Int]
    BY <1>1, <1>2 DEF WriteData
  <2> HIDE DEF d
  <2>4. dir' \in [Files -> DirType] /\ dir'[f] = d /\ \A g \in Files \ {f} : dir'[g] = dir[g]
    BY <2>1, <2>2 DEF WatcherInv, WatcherTypes
  <2>5. WatcherTypes'
    BY <2>1, <2>3, <2>4 DEF WatcherInv, WatcherTypes
  <2>6. JobsAreExclusive'
    BY <2>1, <2>3 DEF WatcherInv, JobsAreExclusive, Busy, Current
  <2>7. \A g \in Files \ {f} : FileOK(g)'
    <3>1. SUFFICES ASSUME NEW g \in Files \ {f} PROVE FileOK(g)'
      OBVIOUS
    <3>2. FileOK(g)
      BY DEF WatcherInv
    <3> QED
      BY <2>1, <2>3, <2>4, <3>2, OtherFile
  <2>8. FileOK(f)'
    <3>0. /\ dir[f].made \in Nat /\ dir[f].data \in Nat /\ dir[f].failed \subseteq Versions
          /\ landed[f] \in [Versions -> Nat] /\ Versions \subseteq Nat /\ 0 \notin Versions
      BY <1>1 DEF DirType, WatcherInv, WatcherTypes, Versions, WatcherConstants
    <3>1. landed[f][dir[f].made + 1] = 0
      BY <1>1, <2>2, <3>0 DEF FileOK, InOrder
    <3>2. InOrder(f)'
      <4>1. /\ \A v \in dir[f].failed : v <= dir[f].made + 1 /\ v # dir[f].made + 1
            /\ \A v \in Versions : landed[f][v] > 0 => v <= dir[f].made + 1
            /\ dir[f].signed <= dir[f].made + 1
        <5>1. \A v \in Nat : v <= dir[f].made => v <= dir[f].made + 1 /\ v # dir[f].made + 1
          BY <3>0
        <5>2. /\ \A v \in dir[f].failed : v \in Nat /\ v <= dir[f].made
              /\ \A v \in Versions : v \in Nat /\ (landed[f][v] > 0 => v <= dir[f].made)
          BY <1>1, <3>0 DEF FileOK, InOrder
        <5>3. dir[f].signed <= dir[f].made + 1
          BY <2>1, <3>0
        <5> QED
          BY <5>1, <5>2, <5>3
      <4>2. /\ dir'[f].data = dir[f].made + 1 /\ dir'[f].made = dir[f].made + 1
            /\ dir'[f].signed = dir[f].signed /\ ~dir'[f].ready
            /\ dir'[f].failed = dir[f].failed /\ landed' = landed
        BY <2>1, <2>2, <2>4
      <4>3. dir[f].made + 1 <= dir[f].made + 1
        BY <3>0
      <4> QED
        BY <4>1, <4>2, <4>3 DEF InOrder
    <3>3. NotTakenAgain(f)'
      <4>1. SUFFICES ASSUME f \notin excuse'.twice PROVE NotTakenAgain(f)'
        BY DEF NotTakenAgain
      <4>2. \A j \in JobSlots : ~Has(j, f, {"ingest", "lost", "retry", "failed", "ok"})
        BY <1>1, <2>1, <2>3, <4>1 DEF FileOK, NotTakenAgain
      <4>3. \A j \in JobSlots : ~Has(j, f, {"ingest", "lost", "retry", "failed", "ok"})'
        BY <2>1, <4>2 DEF Has
      <4> QED
        BY <1>1, <2>1, <2>2, <2>3, <2>4, <3>1, <4>1, <4>3 DEF FileOK, NotTakenAgain
    <3>4. KeptUntilLanded(f)'
      <4>1. SUFFICES ASSUME f \notin excuse'.reused PROVE KeptUntilLanded(f)'
        BY DEF KeptUntilLanded
      <4>2. ~Working(f) /\ dir[f].data = 0 /\ f \notin excuse.reused
        BY <2>3, <4>1
      <4>3. \A j \in JobSlots : ~Has(j, f, {"ok", "removed"})'
        BY <2>1, <4>2 DEF Has, Working
      <4>4. \A v \in 1 .. dir[f].made : v \in dir[f].failed \/ landed[f][v] > 0
        BY <1>1, <4>2 DEF FileOK, KeptUntilLanded
      <4>5. \A v \in 1 .. (dir[f].made + 1) : v \in 1 .. dir[f].made \/ v = dir[f].made + 1
        BY <3>0
      <4> QED
        BY <2>1, <2>2, <2>4, <4>3, <4>4, <4>5 DEF KeptUntilLanded
    <3> QED
      BY <3>2, <3>3, <3>4 DEF FileOK
  <2> QED
    BY <2>5, <2>6, <2>7, <2>8 DEF WatcherInv
<1>3. CASE WriteReady(f)
  <2> DEFINE d == [dir[f] EXCEPT !.ready = TRUE, !.signed = dir[f].made,
                                 !.announced = watch.phase = "armed"]
  <2>1. /\ dir' = [dir EXCEPT ![f] = d] /\ UNCHANGED <<landed, job, excuse>>
        /\ dir[f].signed < dir[f].made
    BY <1>3 DEF WriteReady
  <2>2. /\ d \in DirType /\ d.data = dir[f].data /\ d.made = dir[f].made
        /\ d.signed = dir[f].made /\ d.ready /\ d.failed = dir[f].failed
    BY <1>1, <2>1 DEF DirType
  <2>3. /\ watch' \in WatchType /\ watch'.era = watch.era /\ watch'.phase = watch.phase
        /\ watch'.claims = watch.claims
    <3>1. PICK n \in {1, 2} :
            watch' = IF watch.phase = "armed"
                     THEN [watch EXCEPT !.events = @ \o [i \in 1 .. n |-> f]] ELSE watch
      BY <1>3 DEF WriteReady
    <3>2. watch.events \o [i \in 1 .. n |-> f] \in Seq(Files)
      <4>1. [i \in 1 .. n |-> f] \in Seq(Files) /\ watch.events \in Seq(Files)
        BY <1>1 DEF WatchType
      <4> QED
        BY <4>1, ConcatProperties
    <3> QED
      BY <1>1, <3>1, <3>2 DEF WatchType
  <2> HIDE DEF d
  <2>4. dir' \in [Files -> DirType] /\ dir'[f] = d /\ \A g \in Files \ {f} : dir'[g] = dir[g]
    BY <2>1, <2>2 DEF WatcherInv, WatcherTypes
  <2>5. WatcherTypes'
    BY <2>1, <2>3, <2>4 DEF WatcherInv, WatcherTypes
  <2>6. JobsAreExclusive'
    BY <2>1, <2>3 DEF WatcherInv, JobsAreExclusive, Busy, Current
  <2>7. \A g \in Files \ {f} : FileOK(g)'
    <3>1. SUFFICES ASSUME NEW g \in Files \ {f} PROVE FileOK(g)'
      OBVIOUS
    <3>2. FileOK(g)
      BY DEF WatcherInv
    <3> QED
      BY <2>1, <2>4, <3>2, OtherFile
  <2>8. FileOK(f)'
    <3>0. dir[f].made \in Nat /\ dir[f].signed \in Nat
      BY <1>1 DEF DirType, WatcherConstants
    <3>1. InOrder(f)'
      BY <1>1, <2>1, <2>2, <2>4, <3>0 DEF FileOK, InOrder
    <3>2. NotTakenAgain(f)'
      BY <1>1, <2>1, <2>2, <2>4, <3>0 DEF FileOK, NotTakenAgain, Has
    <3>3. KeptUntilLanded(f)'
      BY <1>1, <2>1, <2>2, <2>4 DEF FileOK, KeptUntilLanded, Has
    <3> QED
      BY <3>1, <3>2, <3>3 DEF FileOK
  <2> QED
    BY <2>5, <2>6, <2>7, <2>8 DEF WatcherInv
<1> QED
  BY <1>2, <1>3

\* The watch changes its state, and no job does.
LEMMA WatchStep ==
    ASSUME WatcherInv, WatcherConstants, UNCHANGED <<landed, job>>, WatcherTypes',
           \A f \in Files : /\ dir'[f].data = dir[f].data /\ dir'[f].made = dir[f].made
                            /\ dir'[f].signed = dir[f].signed /\ dir'[f].ready = dir[f].ready
                            /\ dir'[f].failed = dir[f].failed,
           excuse.twice \subseteq excuse'.twice, excuse'.reused = excuse.reused,
           JobsAreExclusive'
    PROVE  WatcherInv'
<1>1. ASSUME NEW f \in Files PROVE FileOK(f)'
  <2>1. FileOK(f)
    BY DEF WatcherInv
  <2> QED
    BY <2>1, OtherFile
<1> QED
  BY <1>1 DEF WatcherInv

LEMMA WatchKeeps ==
    ASSUME WatcherInv, WatcherConstants,
           \/ \E t \in {"local", "alias"} : StartWatching(t)
           \/ Arm \/ StartFails \/ StopWatching \/ DetachDatabase
    PROVE  WatcherInv'
<1>1. watch \in WatchType
  BY DEF WatcherInv, WatcherTypes
<1>2. CASE \E t \in {"local", "alias"} : StartWatching(t)
  <2>1. PICK t \in {"local", "alias"} : StartWatching(t)
    BY <1>2
  <2>2. /\ UNCHANGED <<landed, job>> /\ watch.phase = "off"
        /\ watch' \in WatchType /\ watch'.phase = "sweep" /\ watch'.era = watch.era + 1
        /\ watch.era \in Nat
    <3>1. ReadyFiles \subseteq Files /\ watch.era + 1 \in Nat /\ <<>> \in Seq(Files)
      BY <1>1 DEF ReadyFiles, WatchType
    <3> QED
      BY <1>1, <2>1, <3>1 DEF StartWatching, WatchType
  <2>3. /\ excuse' \in [twice : SUBSET Files, reused : SUBSET Files, lost : Int]
        /\ excuse.twice \subseteq excuse'.twice /\ excuse'.reused = excuse.reused
        /\ \A f \in Files : Working(f) => f \in excuse'.twice
    <3>1. excuse \in [twice : SUBSET Files, reused : SUBSET Files, lost : Int]
      BY DEF WatcherInv, WatcherTypes
    <3> QED
      BY <2>1, <3>1 DEF StartWatching
  <2>4. ASSUME NEW f \in Files
        PROVE  /\ dir'[f] \in DirType
               /\ dir'[f].data = dir[f].data /\ dir'[f].made = dir[f].made
               /\ dir'[f].signed = dir[f].signed /\ dir'[f].ready = dir[f].ready
               /\ dir'[f].failed = dir[f].failed
    <3>1. dir[f] \in DirType
      BY DEF WatcherInv, WatcherTypes
    <3>2. dir'[f] = [dir[f] EXCEPT !.announced = dir[f].ready /\ dir[f].data # 0]
      BY <2>1 DEF StartWatching
    <3> QED
      BY <3>1, <3>2 DEF DirType
  <2>5. dir' \in [Files -> DirType]
    <3>1. dir' = [f \in Files |-> dir'[f]]
      BY <2>1 DEF StartWatching
    <3> QED
      BY <2>4, <3>1
  <2>6. WatcherTypes'
    BY <2>2, <2>3, <2>5 DEF WatcherInv, WatcherTypes
  <2>7. JobsAreExclusive'
    <3>1. \A j \in JobSlots : (Busy(j)' <=> Busy(j)) /\ job'[j] = job[j]
      BY <2>2 DEF Busy
    <3>2. \A j \in JobSlots : Busy(j) => /\ job[j].file \in excuse'.twice
                                         /\ job[j].era \in Nat /\ job[j].era <= watch.era
      BY <2>3 DEF WatcherInv, WatcherTypes, JobType, JobsAreExclusive, Working
    <3>3. \A j \in JobSlots : ~Current(j)'
      BY <2>2, <3>1, <3>2 DEF Current
    <3>4. \A j \in JobSlots : Busy(j) => job[j].era <= watch.era + 1
      BY <2>2, <3>2
    <3>5. ~Busy(0)
      BY <2>2 DEF WatcherInv, JobsAreExclusive
    <3>6. \A j \in JobSlots :
            IF Busy(j)' THEN job'[j].file \in Files /\ job'[j].era <= watch'.era
            ELSE job'[j] = NoJob
      BY <2>2, <3>1, <3>4 DEF WatcherInv, JobsAreExclusive
    <3> QED
      BY <2>2, <3>1, <3>2, <3>3, <3>5, <3>6 DEF JobsAreExclusive, JobSlots
  <2> QED
    BY <2>2, <2>3, <2>4, <2>6, <2>7, WatchStep
<1>3. CASE Arm \/ StartFails \/ StopWatching \/ DetachDatabase
  <2>1. /\ UNCHANGED <<dir, landed, job, excuse>> /\ watch' \in WatchType
        /\ watch'.era = watch.era /\ watch'.claims = watch.claims
        /\ \/ watch'.phase = watch.phase
           \/ watch'.phase \in {"armed", "off"} /\ (watch.phase = "armed" \/ ~Busy(0))
    <3>1. <<>> \in Seq(Files)
      OBVIOUS
    <3> QED
      BY <1>1, <1>3, <3>1
      DEF Arm, StartFails, StopWatching, DetachDatabase, WatchType, InJob, Busy
  <2>2. WatcherTypes'
    BY <2>1 DEF WatcherInv, WatcherTypes
  <2>3. \A j \in JobSlots : (Busy(j)' <=> Busy(j)) /\ (Current(j)' <=> Current(j))
    BY <2>1 DEF Busy, Current
  <2>4. JobsAreExclusive'
    BY <2>1, <2>3 DEF WatcherInv, JobsAreExclusive, JobSlots
  <2> QED
    BY <2>1, <2>2, <2>4, WatchStep
<1> QED
  BY <1>2, <1>3

-----------------------------------------------------------------------------
(* The jobs                                                                *)

LEMMA TakenKeeps ==
    ASSUME WatcherInv, WatcherConstants, SweepNext \/ TakeEvent
    PROVE  WatcherInv'
<1>1. watch \in WatchType /\ 0 \in JobSlots /\ Slots \subseteq JobSlots
  BY DEF WatcherInv, WatcherTypes, JobSlots
<1>2. CASE SweepNext
  <2>1. PICK f \in watch.todo :
          /\ watch' = [watch EXCEPT !.todo = @ \ {f}]
          /\ job' = [job EXCEPT ![0] = [file |-> f, at |-> "check", era |-> watch.era]]
    BY <1>2 DEF SweepNext
  <2>2. /\ f \in Files /\ watch' \in WatchType /\ watch'.era = watch.era
        /\ watch'.phase = watch.phase /\ watch'.claims = watch.claims
    BY <1>1, <2>1 DEF WatchType
  <2>3. watch.phase = "sweep" /\ ~Busy(0) /\ UNCHANGED <<dir, landed, excuse>>
    BY <1>2 DEF SweepNext, InJob, Busy
  <2> QED
    BY <1>1, <2>1, <2>2, <2>3, JobStarts
<1>3. CASE TakeEvent
  <2> DEFINE f == Head(watch.events)
             rest == Tail(watch.events)
  <2>1. f \in Files /\ rest \in Seq(Files)
    BY <1>1, <1>3, HeadTailProperties DEF TakeEvent, WatchType
  <2> HIDE DEF f, rest
  <2>2. watch.phase = "armed" /\ UNCHANGED <<dir, landed, excuse>>
    BY <1>3 DEF TakeEvent
  <2>3. CASE f \in watch.claims
    <3>1. watch' = [watch EXCEPT !.events = rest] /\ UNCHANGED job
      BY <1>3, <2>3 DEF TakeEvent, f, rest
    <3>2. /\ watch' \in WatchType /\ watch'.era = watch.era
          /\ watch'.phase = watch.phase /\ watch'.claims = watch.claims
      BY <1>1, <2>1, <3>1 DEF WatchType
    <3>3. WatcherTypes' /\ JobsAreExclusive'
      BY <2>2, <3>1, <3>2
      DEF WatcherInv, WatcherTypes, JobsAreExclusive, Busy, Current
    <3> QED
      BY <2>2, <3>1, <3>3, WatchStep
  <2>4. CASE f \notin watch.claims
    <3>1. PICK j \in Slots :
            /\ InJob(j, "none")
            /\ job' = [job EXCEPT ![j] = [file |-> f, at |-> "check", era |-> watch.era]]
            /\ watch' = [watch EXCEPT !.events = rest, !.claims = @ \cup {f}]
      BY <1>3, <2>4 DEF TakeEvent, f, rest
    <3>2. /\ watch' \in WatchType /\ watch'.era = watch.era
          /\ watch'.phase = watch.phase /\ watch'.claims = watch.claims \cup {f}
      BY <1>1, <2>1, <3>1 DEF WatchType
    <3>3. j \in JobSlots /\ ~Busy(j)
      BY <1>1, <3>1 DEF InJob, Busy
    <3> QED
      BY <2>1, <2>2, <2>4, <3>1, <3>2, <3>3, JobStarts
  <2> QED
    BY <2>3, <2>4
<1> QED
  BY <1>2, <1>3

\* A step of a job concerns the file it has; the others are as before.
LEMMA JobOnItsFile ==
    ASSUME WatcherInv, WatcherConstants, NEW j \in JobSlots, Busy(j),
           NEW at \in JobSteps \ {"none"}, JobAt(j, at), UNCHANGED watch,
           NEW f \in Files, job[j].file = f,
           excuse' \in [twice : SUBSET Files, reused : SUBSET Files, lost : Int],
           excuse.twice \subseteq excuse'.twice, excuse'.reused = excuse.reused,
           dir' \in [Files -> DirType], landed' \in [Files -> [Versions -> Nat]],
           \A g \in Files \ {f} : dir'[g] = dir[g] /\ landed'[g] = landed[g],
           FileOK(f)'
    PROVE  WatcherInv'
<1>1. /\ job' \in [JobSlots -> JobType]
      /\ job'[j].file = job[j].file /\ job'[j].at = at /\ job[j].file \in Files
      /\ \A i \in JobSlots \ {j} : job'[i] = job[i]
      /\ JobsAreExclusive'
  BY JobMoves
<1>2. WatcherTypes'
  BY <1>1 DEF WatcherInv, WatcherTypes
<1>3. ASSUME NEW g \in Files, g # f PROVE FileOK(g)'
  <2>1. FileOK(g)
    BY DEF WatcherInv
  <2> QED
    BY <1>1, <1>3, <2>1, OtherFile
<1> QED
  BY <1>1, <1>2, <1>3 DEF WatcherInv

\* What holds of the file of a job, alone on it.
LEMMA AloneOnFile ==
    ASSUME WatcherInv, WatcherConstants, NEW j \in JobSlots, Busy(j),
           job[j].file \notin excuse.twice
    PROVE  \A i \in JobSlots \ {j} : job[i].file # job[j].file
<1>1. SUFFICES ASSUME NEW i \in JobSlots \ {j}, job[i].file = job[j].file PROVE FALSE
  OBVIOUS
<1>2. job[j].file \in Files
  BY DEF WatcherInv, JobsAreExclusive
<1>3. Busy(i)
  BY <1>1, <1>2 DEF WatcherInv, JobsAreExclusive, NoJob, WatcherConstants
<1> QED
  BY <1>1, <1>3, OneWorker

LEMMA JobFacts ==
    ASSUME WatcherInv, WatcherConstants, NEW j \in JobSlots, Busy(j)
    PROVE  LET f == job[j].file
           IN  /\ f \in Files /\ FileOK(f) /\ dir[f] \in DirType
               /\ landed[f] \in [Versions -> Nat] /\ Versions \subseteq Nat /\ 0 \notin Versions
               /\ dir[f].data \in Nat /\ dir[f].made \in Nat /\ dir[f].failed \subseteq Versions
               /\ dir[f].data # 0 => dir[f].data \in Versions
               /\ excuse \in [twice : SUBSET Files, reused : SUBSET Files, lost : Int]
<1>1. job[j].file \in Files
  BY DEF WatcherInv, JobsAreExclusive
<1> DEFINE f == job[j].file
<1>2. FileOK(f) /\ dir[f] \in DirType /\ landed[f] \in [Versions -> Nat]
      /\ excuse \in [twice : SUBSET Files, reused : SUBSET Files, lost : Int]
  BY <1>1 DEF WatcherInv, WatcherTypes
<1>3. Versions \subseteq Nat /\ 0 \notin Versions
  BY DEF Versions, WatcherConstants
<1> HIDE DEF f
<1>4. /\ dir[f].data \in Nat /\ dir[f].made \in Nat /\ dir[f].failed \subseteq Versions
      /\ dir[f].data # 0 => dir[f].data \in Versions
  BY <1>2 DEF DirType, Versions, WatcherConstants
<1> QED
  BY <1>1, <1>2, <1>3, <1>4 DEF f

\* A job that has not committed goes on, with its files in place.
LEMMA NothingCommitted ==
    ASSUME WatcherInv, WatcherConstants, NEW j \in JobSlots, Busy(j), job[j].at # "ok",
           NEW at \in {"ingest", "failed", "lost", "retry"}, JobAt(j, at),
           job[j].file \notin excuse.twice =>
              dir[job[j].file].ready /\ dir[job[j].file].data # 0,
           UNCHANGED <<dir, landed, watch>>,
           excuse' \in [twice : SUBSET Files, reused : SUBSET Files, lost : Int],
           excuse'.twice = excuse.twice, excuse'.reused = excuse.reused
    PROVE  WatcherInv'
<1>0. PICK f \in Files : job[j].file = f
  BY DEF WatcherInv, JobsAreExclusive
<1>1. at \in JobSteps \ {"none"}
  BY DEF JobSteps
<1>2. /\ job'[j].file = f /\ job'[j].at = at
      /\ \A i \in JobSlots \ {j} : job'[i] = job[i]
  BY <1>0, <1>1, JobMoves
<1>3. FileOK(f)
  BY DEF WatcherInv
<1>4. InOrder(f)'
  BY <1>3 DEF FileOK, InOrder
<1>5. NotTakenAgain(f)'
  <2>1. \A i \in JobSlots : Has(i, f, {"ok"}) => Has(i, f, {"ok"})'
    BY <1>0, <1>2 DEF Has
  <2>2. \A i \in JobSlots \ {j} :
          Has(i, f, {"ingest", "lost", "retry", "failed", "ok"})'
             => Has(i, f, {"ingest", "lost", "retry", "failed", "ok"})
    BY <1>2 DEF Has
  <2>3. f \notin excuse.twice => dir[f].ready /\ dir[f].data # 0
    BY <1>0
  <2> QED
    BY <1>3, <2>1, <2>2, <2>3 DEF FileOK, NotTakenAgain
<1>6. KeptUntilLanded(f)'
  <2>1. \A i \in JobSlots : Has(i, f, {"ok", "removed"})' => Has(i, f, {"ok", "removed"})
    BY <1>2 DEF Has
  <2> QED
    BY <1>3, <2>1 DEF FileOK, KeptUntilLanded
<1>7. FileOK(f)' /\ dir' \in [Files -> DirType] /\ landed' \in [Files -> [Versions -> Nat]]
  BY <1>4, <1>5, <1>6 DEF FileOK, WatcherInv, WatcherTypes
<1> QED
  BY <1>0, <1>1, <1>7, JobOnItsFile

\* The rows of a version are committed.
LEMMA RowsCommitted ==
    ASSUME WatcherInv, WatcherConstants, NEW j \in JobSlots, Ingesting(j),
           dir[job[j].file].data # 0, Commits(j), UNCHANGED <<dir, watch>>,
           NEW at \in {"ok", "lost", "failed"}, JobAt(j, at),
           excuse' \in [twice : SUBSET Files, reused : SUBSET Files, lost : Int],
           excuse.twice \subseteq excuse'.twice, excuse'.reused = excuse.reused,
           at = "ok" \/ job[j].file \in excuse'.twice
    PROVE  WatcherInv'
<1>1. Busy(j) /\ at \in JobSteps \ {"none"} /\ job[j].at \in {"ingest", "retry"}
  BY DEF Ingesting, InJob, Busy, JobSteps
<1>0. PICK f \in Files : job[j].file = f
  BY <1>1 DEF WatcherInv, JobsAreExclusive
<1>d. PICK d \in Versions : dir[f].data = d
  BY <1>0, <1>1, JobFacts
<1>2. /\ FileOK(f) /\ landed[f] \in [Versions -> Nat] /\ Versions \subseteq Nat
      /\ dir[f].failed \subseteq Versions
  BY <1>0, <1>1, JobFacts
<1>3. /\ job'[j].file = f /\ job'[j].at = at
      /\ \A i \in JobSlots \ {j} : job'[i] = job[i]
  BY <1>0, <1>1, JobMoves
<1>4. landed' = [landed EXCEPT ![f][d] = @ + 1]
  BY <1>0, <1>d DEF Commits
<1>5. f \notin excuse.twice => \A i \in JobSlots \ {j} : job[i].file # f
  BY <1>0, <1>1, AloneOnFile
<1>6. dir[f].data = d /\ dir'[f] = dir[f] /\ job[j].file = f
  BY <1>0, <1>d
<1>7. /\ landed' \in [Files -> [Versions -> Nat]] /\ landed'[f][d] = landed[f][d] + 1
      /\ \A v \in Versions \ {d} : landed'[f][v] = landed[f][v]
      /\ \A g \in Files \ {f} : landed'[g] = landed[g]
  <2>1. landed \in [Files -> [Versions -> Nat]]
    BY DEF WatcherInv, WatcherTypes
  <2> QED
    BY <1>2, <1>4, <2>1
<1>8. InOrder(f)'
  BY <1>2, <1>6, <1>7 DEF FileOK, InOrder
<1>9. NotTakenAgain(f)'
  <2>1. SUFFICES ASSUME f \notin excuse'.twice PROVE NotTakenAgain(f)'
    BY DEF NotTakenAgain
  <2>2. f \notin excuse.twice /\ at = "ok"
    BY <1>6, <2>1
  <2>3. Has(j, f, {"ingest", "lost", "retry", "failed", "ok"})
    BY <1>1, <1>6 DEF Has
  <2>4. dir[f].ready /\ d # 0 /\ dir[f].signed = dir[f].made
    BY <1>2, <1>6, <2>2, <2>3 DEF FileOK, NotTakenAgain, InOrder
  <2>5. \A i \in JobSlots : ~Has(i, f, {"ok"})
    BY <1>1, <1>5, <2>2 DEF Has
  <2>6. ~(landed[f][d] > 0)
    BY <1>2, <1>6, <2>2, <2>4, <2>5 DEF FileOK, NotTakenAgain
  <2>7. landed'[f][d] = 1
    BY <1>2, <1>7, <2>6
  <2>8. \A v \in Versions : landed'[f][v] <= 1
    BY <1>2, <1>7, <2>2, <2>7 DEF FileOK, NotTakenAgain
  <2>9. \A v \in dir[f].failed : landed'[f][v] = 0
    <3>1. \A v \in dir[f].failed : v \in Versions \ {d} /\ landed[f][v] = 0
      BY <1>2, <1>6, <2>2 DEF FileOK, NotTakenAgain, InOrder
    <3> QED
      BY <1>7, <3>1
  <2>10. Has(j, f, {"ok"})'
    BY <1>3, <2>2 DEF Has
  <2> QED
    BY <1>6, <2>4, <2>8, <2>9, <2>10 DEF NotTakenAgain
<1>10. KeptUntilLanded(f)'
  <2>1. landed'[f][d] > 0 /\ \A v \in Versions : landed[f][v] > 0 => landed'[f][v] > 0
    BY <1>2, <1>7
  <2>2. \A v \in 1 .. dir[f].made : v \in Versions
    <3>1. dir[f] \in DirType
      BY <1>2 DEF WatcherInv, WatcherTypes
    <3> QED
      BY <3>1 DEF DirType, Versions, WatcherConstants
  <2> QED
    BY <1>2, <1>6, <2>1, <2>2 DEF FileOK, KeptUntilLanded
<1>11. FileOK(f)' /\ dir' \in [Files -> DirType]
  BY <1>8, <1>9, <1>10 DEF FileOK, WatcherInv, WatcherTypes
<1> QED
  BY <1>1, <1>6, <1>7, <1>11, JobOnItsFile

\* A job removes or moves the files of its version.
LEMMA FilesRemoved ==
    ASSUME WatcherInv, WatcherConstants, NEW j \in JobSlots,
           RemoveReady(j) \/ RemoveData(j) \/ MoveData(j) \/ MoveReady(j)
    PROVE  WatcherInv'
<1>1. PICK at \in {"removed", "report", "moved"} : JobAt(j, at)
  BY DEF RemoveReady, RemoveData, MoveData, MoveReady
<1>2. /\ Busy(j) /\ at \in JobSteps \ {"none"} /\ UNCHANGED <<landed, watch, excuse>>
      /\ job[j].at \in {"ok", "removed", "failed", "moved"}
  BY <1>1 DEF RemoveReady, RemoveData, MoveData, MoveReady, InJob, Busy, JobSteps
<1>7. PICK f \in Files : job[j].file = f
  BY <1>2 DEF WatcherInv, JobsAreExclusive
<1>3. /\ FileOK(f) /\ dir[f] \in DirType
      /\ landed[f] \in [Versions -> Nat] /\ Versions \subseteq Nat /\ 0 \notin Versions
      /\ dir[f].data \in Nat /\ dir[f].made \in Nat /\ dir[f].failed \subseteq Versions
      /\ dir[f].data # 0 => dir[f].data \in Versions
      /\ excuse \in [twice : SUBSET Files, reused : SUBSET Files, lost : Int]
  BY <1>2, <1>7, JobFacts
<1>4. /\ job'[j].file = f /\ job'[j].at = at
      /\ \A i \in JobSlots \ {j} : job'[i] = job[i]
  BY <1>1, <1>2, <1>7, JobMoves
<1>5. f \notin excuse.twice => \A i \in JobSlots \ {j} : job[i].file # f
  BY <1>2, <1>7, AloneOnFile
<1>6. PICK d \in DirType :
        /\ dir' = [dir EXCEPT ![f] = d] /\ d.made = dir[f].made /\ d.signed = dir[f].signed
        /\ \/ /\ d.ready = FALSE /\ d.data = dir[f].data /\ d.failed = dir[f].failed
              /\ \/ job[j].at = "ok" /\ at = "removed"
                 \/ job[j].at = "moved" /\ at = "report"
           \/ /\ d.ready = dir[f].ready /\ d.data = 0 /\ d.failed = dir[f].failed
              /\ job[j].at = "removed" /\ at = "report"
           \/ /\ d.ready = dir[f].ready /\ d.data = 0
              /\ d.failed = dir[f].failed \cup ({dir[f].data} \ {0})
              /\ job[j].at = "failed" /\ at = "moved"
  <2>0. job' = [job EXCEPT ![j].at = at] /\ job[j] \in JobType
    BY <1>1 DEF JobAt, WatcherInv, WatcherTypes
  <2>1. CASE RemoveReady(j) \/ MoveReady(j)
    <3> DEFINE d == [dir[f] EXCEPT !.ready = FALSE]
    <3>1. /\ d \in DirType /\ d.made = dir[f].made /\ d.signed = dir[f].signed
          /\ d.ready = FALSE /\ d.data = dir[f].data /\ d.failed = dir[f].failed
      BY <1>3 DEF DirType
    <3>2. dir' = [dir EXCEPT ![f] = d]
      BY <1>7, <2>1 DEF RemoveReady, MoveReady
    <3>3. \/ job[j].at = "ok" /\ job'[j].at = "removed"
          \/ job[j].at = "moved" /\ job'[j].at = "report"
      BY <2>0, <2>1 DEF RemoveReady, MoveReady, InJob, JobAt, WatcherInv, WatcherTypes, JobType
    <3> QED
      BY <1>4, <3>1, <3>2, <3>3
  <2>2. CASE RemoveData(j)
    <3> DEFINE d == [dir[f] EXCEPT !.data = 0]
    <3>1. /\ d \in DirType /\ d.made = dir[f].made /\ d.signed = dir[f].signed
          /\ d.ready = dir[f].ready /\ d.data = 0 /\ d.failed = dir[f].failed
      <4>1. 0 \in 0 .. MaxVersions
        BY DEF WatcherConstants
      <4> QED
        BY <1>3, <4>1 DEF DirType
    <3>2. dir' = [dir EXCEPT ![f] = d] /\ job[j].at = "removed" /\ job'[j].at = "report"
      BY <1>7, <2>0, <2>2 DEF RemoveData, InJob, JobAt, WatcherInv, WatcherTypes, JobType
    <3> QED
      BY <1>4, <3>1, <3>2
  <2>3. CASE MoveData(j)
    <3> DEFINE d == [dir[f] EXCEPT !.failed = @ \cup ({dir[f].data} \ {0}), !.data = 0]
    <3>1. /\ d \in DirType /\ d.made = dir[f].made /\ d.signed = dir[f].signed
          /\ d.ready = dir[f].ready /\ d.data = 0
          /\ d.failed = dir[f].failed \cup ({dir[f].data} \ {0})
      <4>1. 0 \in 0 .. MaxVersions
        BY DEF WatcherConstants
      <4>2. dir[f].failed \cup ({dir[f].data} \ {0}) \in SUBSET Versions
        BY <1>3
      <4> QED
        BY <1>3, <4>1, <4>2 DEF DirType
    <3>2. dir' = [dir EXCEPT ![f] = d]
      BY <1>7, <2>3 DEF MoveData
    <3>3. job[j].at = "failed" /\ job'[j].at = "moved"
      BY <2>0, <2>3 DEF MoveData, InJob, JobAt, WatcherInv, WatcherTypes, JobType
    <3> QED
      BY <1>4, <3>1, <3>2, <3>3
  <2> QED
    BY <2>1, <2>2, <2>3
<1>8. /\ dir' \in [Files -> DirType] /\ dir'[f] = d
      /\ \A g \in Files \ {f} : dir'[g] = dir[g]
  BY <1>3, <1>6 DEF WatcherInv, WatcherTypes
<1>9. /\ d.data \in {0, dir[f].data} /\ dir[f].failed \subseteq d.failed
      /\ d.failed \subseteq dir[f].failed \cup {dir[f].data}
      /\ \A v \in d.failed : v = dir[f].data => d.data = 0 /\ v # 0 /\ at = "moved"
  BY <1>3, <1>6 DEF FileOK, InOrder
<1>10. InOrder(f)'
  <2>1. d.ready => d.signed = d.made
    BY <1>3, <1>6 DEF FileOK, InOrder
  <2>2. \A v \in d.failed : v <= d.made /\ v # d.data
    BY <1>3, <1>6, <1>9 DEF FileOK, InOrder
  <2>3. d.data <= d.made /\ d.signed <= d.made
    BY <1>3, <1>6, <1>9 DEF FileOK, InOrder
  <2> QED
    BY <1>2, <1>3, <1>6, <1>8, <2>1, <2>2, <2>3 DEF FileOK, InOrder
<1>11. NotTakenAgain(f)'
  <2>1. SUFFICES ASSUME f \notin excuse'.twice PROVE NotTakenAgain(f)'
    BY DEF NotTakenAgain
  <2>2. /\ f \notin excuse.twice
        /\ \A i \in JobSlots : ~Has(i, f, {"ingest", "lost", "retry", "failed", "ok"})'
    BY <1>2, <1>4, <1>5, <2>1 DEF Has
  <2>3. d.data # 0 /\ landed[f][d.data] > 0 => d.signed = d.made /\ ~d.ready
    BY <1>3, <1>6, <2>2 DEF FileOK, NotTakenAgain
  <2>4. \A v \in d.failed : landed[f][v] = 0
    <3>1. CASE at = "moved"
      <4>1. /\ Has(j, f, {"ingest", "lost", "retry", "failed", "ok"})
            /\ \A i \in JobSlots : ~Has(i, f, {"ok"})
        BY <1>5, <1>6, <1>7, <2>2, <3>1 DEF Has
      <4>2. dir[f].ready /\ dir[f].data # 0
        BY <1>3, <2>2, <4>1 DEF FileOK, NotTakenAgain
      <4>3. ~(landed[f][dir[f].data] > 0)
        BY <1>3, <2>2, <4>1, <4>2 DEF FileOK, NotTakenAgain
      <4>4. landed[f][dir[f].data] = 0
        BY <1>3, <4>2, <4>3
      <4> QED
        BY <1>3, <1>9, <2>2, <4>4 DEF FileOK, NotTakenAgain
    <3>2. CASE at # "moved"
      BY <1>3, <1>6, <2>2, <3>2 DEF FileOK, NotTakenAgain
    <3> QED
      BY <3>1, <3>2
  <2>5. \A v \in Versions : landed[f][v] <= 1
    BY <1>3, <2>2 DEF FileOK, NotTakenAgain
  <2> QED
    BY <1>2, <1>8, <2>2, <2>3, <2>4, <2>5 DEF NotTakenAgain
<1>12. KeptUntilLanded(f)'
  <2>1. SUFFICES ASSUME f \notin excuse'.reused PROVE KeptUntilLanded(f)'
    BY DEF KeptUntilLanded
  <2>2. f \notin excuse.reused
    BY <1>2, <2>1
  <2>3. ASSUME NEW i \in JobSlots, Has(i, f, {"ok", "removed"})'
        PROVE  Has(i, f, {"ok", "removed"})
    BY <1>4, <1>6, <1>7, <2>3 DEF Has
  <2>4. (\E i \in JobSlots : Has(i, f, {"ok", "removed"}))
           => dir[f].data = 0 \/ landed[f][dir[f].data] > 0
    BY <1>3, <2>2 DEF FileOK, KeptUntilLanded
  <2>5. \A v \in 1 .. d.made : v = d.data \/ v \in d.failed \/ landed[f][v] > 0
    <3>1. SUFFICES ASSUME NEW v \in 1 .. d.made, v \notin d.failed, ~(landed[f][v] > 0)
                   PROVE  v = d.data
      OBVIOUS
    <3>2. v = dir[f].data /\ v # 0
      BY <1>3, <1>6, <1>9, <2>2, <3>1 DEF FileOK, KeptUntilLanded
    <3>3. job[j].at = "removed" => FALSE
      BY <1>7, <2>4, <3>1, <3>2 DEF Has
    <3> QED
      BY <1>6, <3>1, <3>2, <3>3
  <2> QED
    BY <1>2, <1>8, <1>9, <2>3, <2>4, <2>5 DEF KeptUntilLanded
<1>13. /\ FileOK(f)' /\ landed' \in [Files -> [Versions -> Nat]]
       /\ \A g \in Files \ {f} : landed'[g] = landed[g]
  BY <1>2, <1>10, <1>11, <1>12 DEF FileOK, WatcherInv, WatcherTypes
<1> QED
  BY <1>1, <1>2, <1>3, <1>7, <1>8, <1>13, JobOnItsFile

\* A fault after which a version may land again is noted.
Noted(e, more) == [twice |-> e.twice \cup more, reused |-> e.reused, lost |-> e.lost + 1]

LEMMA ExcuseGrows ==
    ASSUME NEW e \in [twice : SUBSET Files, reused : SUBSET Files, lost : Int],
           NEW more \in SUBSET Files
    PROVE  /\ Noted(e, more) \in [twice : SUBSET Files, reused : SUBSET Files, lost : Int]
           /\ Noted(e, more).twice = e.twice \cup more /\ Noted(e, more).reused = e.reused
<1>1. e.twice \cup more \in SUBSET Files /\ e.reused \in SUBSET Files /\ e.lost + 1 \in Int
  OBVIOUS
<1> QED
  BY <1>1 DEF Noted

LEMMA JobStepKeeps ==
    ASSUME WatcherInv, WatcherConstants, NEW j \in JobSlots, JobStep(j)
    PROVE  WatcherInv'
<1>1. excuse \in [twice : SUBSET Files, reused : SUBSET Files, lost : Int]
  BY DEF WatcherInv, WatcherTypes
<1>2. CASE CheckFiles(j)
  <2>1. Busy(j) /\ job[j].at = "check" /\ UNCHANGED <<dir, landed, excuse>>
    BY <1>2 DEF CheckFiles, InJob, Busy
  <2>2. CASE dir[job[j].file].ready /\ dir[job[j].file].data # 0
    <3>1. JobAt(j, "ingest") /\ UNCHANGED watch
      BY <1>2, <2>2 DEF CheckFiles
    <3> QED
      BY <1>1, <2>1, <2>2, <3>1, NothingCommitted
  <2>3. CASE ~(dir[job[j].file].ready /\ dir[job[j].file].data # 0)
    <3>1. Finish(j) /\ job[j].at \in Aloof
      BY <1>2, <2>1, <2>3 DEF CheckFiles, Aloof
    <3> QED
      BY <2>1, <3>1, JobFinishes
  <2> QED
    BY <2>2, <2>3
<1>3. ASSUME Busy(j), job[j].at \in {"ingest", "retry", "lost"}
      PROVE  job[j].file \notin excuse.twice =>
                dir[job[j].file].ready /\ dir[job[j].file].data # 0
  <2>1. job[j].file \in Files
    BY <1>3 DEF WatcherInv, JobsAreExclusive
  <2>2. Has(j, job[j].file, {"ingest", "lost", "retry", "failed", "ok"})
    BY <1>3 DEF Has
  <2> QED
    BY <2>1, <2>2 DEF WatcherInv, FileOK, NotTakenAgain
<1>4. CASE IngestCommits(j)
  BY <1>1, <1>4, RowsCommitted DEF IngestCommits
<1>5. CASE IngestFails(j) \/ RebuildPool(j)
  <2>1. /\ Busy(j) /\ job[j].at \in {"ingest", "retry", "lost"}
        /\ UNCHANGED <<dir, landed, watch, excuse>>
        /\ JobAt(j, "failed") \/ JobAt(j, "retry")
    BY <1>5 DEF IngestFails, RebuildPool, Ingesting, InJob, Busy
  <2> QED
    BY <1>1, <1>3, <2>1, NothingCommitted
<1>6. CASE JobLosesConnection(j)
  <2>1. Ingesting(j) /\ UNCHANGED <<dir, watch>> /\ AfterLost(j) \in {"lost", "failed"}
        /\ JobAt(j, AfterLost(j)) /\ Busy(j) /\ job[j].at \in {"ingest", "retry"}
    BY <1>6 DEF JobLosesConnection, AfterLost, Ingesting, InJob, Busy
  <2>2. PICK at \in {"lost", "failed"} : JobAt(j, at)
    BY <2>1
  <2>3. CASE UNCHANGED landed /\ excuse' = [excuse EXCEPT !.lost = @ + 1]
    <3>1. /\ excuse' \in [twice : SUBSET Files, reused : SUBSET Files, lost : Int]
          /\ excuse'.twice = excuse.twice /\ excuse'.reused = excuse.reused
      BY <1>1, <2>3
    <3> QED
      BY <1>3, <2>1, <2>2, <2>3, <3>1, NothingCommitted
  <2>4. CASE /\ dir[job[j].file].data # 0 /\ Commits(j)
             /\ excuse' = [excuse EXCEPT !.lost = @ + 1, !.twice = @ \cup {job[j].file}]
    <3>1. job[j].file \in Files
      BY <2>1 DEF WatcherInv, JobsAreExclusive
    <3>2. /\ excuse' \in [twice : SUBSET Files, reused : SUBSET Files, lost : Int]
          /\ excuse.twice \subseteq excuse'.twice /\ excuse'.reused = excuse.reused
          /\ job[j].file \in excuse'.twice
      <4>1. {job[j].file} \in SUBSET Files
        BY <3>1
      <4>2. excuse' = Noted(excuse, {job[j].file})
        BY <1>1, <2>4 DEF Noted
      <4> QED
        BY <1>1, <4>1, <4>2, ExcuseGrows
    <3> QED
      BY <2>1, <2>2, <2>4, <3>2, RowsCommitted
  <2> QED
    BY <1>6, <2>3, <2>4 DEF JobLosesConnection
<1>7. CASE ReportOutcome(j)
  BY <1>7, JobFinishes DEF ReportOutcome, InJob, Busy, Aloof
<1> QED
  BY <1>2, <1>4, <1>5, <1>6, <1>7, FilesRemoved DEF JobStep

\* The process dies between any two steps.
LEMMA CrashKeeps == ASSUME WatcherInv, WatcherConstants, Crash PROVE WatcherInv'
<1>1. /\ \A j \in JobSlots : job'[j] = NoJob /\ ~Busy(j)'
      /\ job' \in [JobSlots -> JobType]
  BY DEF Crash, NoJob, JobType, JobSteps, Busy
<1>2. watch' \in WatchType /\ watch'.phase = "off" /\ watch'.era = watch.era
  <2>1. watch \in WatchType /\ <<>> \in Seq(Files)
    BY DEF WatcherInv, WatcherTypes
  <2> QED
    BY <2>1 DEF Crash, WatchType
<1>3. /\ excuse' \in [twice : SUBSET Files, reused : SUBSET Files, lost : Int]
      /\ excuse.twice \subseteq excuse'.twice /\ excuse'.reused = excuse.reused
      /\ \A j \in JobSlots : job[j].at = "ok" => job[j].file \in excuse'.twice
  <2>1. excuse \in [twice : SUBSET Files, reused : SUBSET Files, lost : Int]
    BY DEF WatcherInv, WatcherTypes
  <2> DEFINE committed == {job[j].file : j \in {j \in JobSlots : InJob(j, "ok")}}
  <2>2. /\ committed \subseteq Files
        /\ \A j \in JobSlots : job[j].at = "ok" => job[j].file \in committed
    BY DEF InJob, WatcherInv, JobsAreExclusive, Busy
  <2>3. excuse' = Noted(excuse, committed)
    BY <2>1 DEF Crash, Noted
  <2> HIDE DEF committed
  <2>4. committed \in SUBSET Files
    BY <2>2
  <2> QED
    BY <2>1, <2>2, <2>3, <2>4, ExcuseGrows
<1>4. UNCHANGED <<dir, landed>>
  BY DEF Crash
<1>5. WatcherTypes'
  BY <1>1, <1>2, <1>3, <1>4 DEF WatcherInv, WatcherTypes
<1>6. JobsAreExclusive'
  BY <1>1, <1>2 DEF JobsAreExclusive, JobSlots, Current
<1>7. ASSUME NEW f \in Files PROVE FileOK(f)'
  <2>1. FileOK(f)
    BY DEF WatcherInv
  <2>2. \A j \in JobSlots : /\ ~Has(j, f, {"ok"})' /\ ~Has(j, f, {"ok", "removed"})'
                            /\ ~Has(j, f, {"ingest", "lost", "retry", "failed", "ok"})'
    BY <1>1 DEF Has, NoJob
  <2>3. InOrder(f)'
    BY <1>4, <2>1 DEF FileOK, InOrder
  <2>4. NotTakenAgain(f)'
    <3>1. SUFFICES ASSUME f \notin excuse'.twice PROVE NotTakenAgain(f)'
      BY DEF NotTakenAgain
    <3>2. f \notin excuse.twice /\ \A j \in JobSlots : ~Has(j, f, {"ok"})
      BY <1>3, <3>1 DEF Has
    <3> QED
      BY <1>4, <2>1, <2>2, <3>2 DEF FileOK, NotTakenAgain
  <2>5. KeptUntilLanded(f)'
    BY <1>3, <1>4, <2>1, <2>2 DEF FileOK, KeptUntilLanded
  <2> QED
    BY <2>3, <2>4, <2>5 DEF FileOK
<1> QED
  BY <1>5, <1>6, <1>7 DEF WatcherInv

LEMMA WatcherStarts == ASSUME WatcherConstants, WatcherInit PROVE WatcherInv
<1>1. WatcherTypes
  <2>1. /\ 0 \in 0 .. MaxVersions /\ <<>> \in Seq(Files) /\ {} \in SUBSET Versions
    BY DEF WatcherConstants
  <2>2. dir \in [Files -> DirType]
    BY <2>1 DEF WatcherInit, DirType
  <2>3. job \in [JobSlots -> JobType] /\ watch \in WatchType
    BY <2>1 DEF WatcherInit, JobType, NoJob, JobSteps, WatchType
  <2>4. /\ landed \in [Files -> [Versions -> Nat]]
        /\ excuse \in [twice : SUBSET Files, reused : SUBSET Files, lost : Int]
    BY DEF WatcherInit
  <2> QED
    BY <2>2, <2>3, <2>4 DEF WatcherTypes
<1>2. JobsAreExclusive
  BY DEF WatcherInit, JobsAreExclusive, Busy, Current, NoJob, JobSlots
<1>3. ASSUME NEW f \in Files PROVE FileOK(f)
  BY DEF WatcherInit, FileOK, InOrder, NotTakenAgain, KeptUntilLanded, Has, NoJob
<1> QED
  BY <1>1, <1>2, <1>3 DEF WatcherInv

\* For any number of files, versions, job slots, restarts of the watch, lost
\* connections and crashes (watcher.rs): a version is appended to the table at
\* most once, what is in failed/ is not in the table, and no version leaves the
\* directory for neither, up to what the code cannot tell.
THEOREM VersionsStayInOnePlace ==
    ASSUME WatcherConstants
    PROVE  WatcherSpec => []VersionLandsInOnePlace
<1>1. WatcherInit => WatcherInv
  BY WatcherStarts
<1>2. WatcherInv /\ [WatcherNext]_watcherVars => WatcherInv'
  <2>1. SUFFICES ASSUME WatcherInv, [WatcherNext]_watcherVars PROVE WatcherInv'
    OBVIOUS
  <2>2. CASE UNCHANGED watcherVars
    BY <2>1, <2>2
    DEF watcherVars, WatcherInv, WatcherTypes, JobsAreExclusive, Busy, Current, FileOK,
        InOrder, NotTakenAgain, KeptUntilLanded, Has
  <2>3. CASE WatcherNext
    BY <2>1, <2>3, ProducerKeeps, WatchKeeps, TakenKeeps, CrashKeeps, JobStepKeeps
    DEF WatcherNext
  <2> QED
    BY <2>1, <2>2, <2>3
<1>3. WatcherInv => VersionLandsInOnePlace
  <2>1. SUFFICES ASSUME WatcherInv PROVE VersionLandsInOnePlace
    OBVIOUS
  <2>2. IngestedOnce /\ FailedHasNoRows
    BY <2>1 DEF WatcherInv, FileOK, NotTakenAgain, IngestedOnce, FailedHasNoRows
  <2>3. LandsOrIsKept
    BY <2>1 DEF WatcherInv, FileOK, KeptUntilLanded, LandsOrIsKept
  <2> QED
    BY <2>2, <2>3 DEF VersionLandsInOnePlace
<1> QED
  BY <1>1, <1>2, <1>3, PTL DEF WatcherSpec

-----------------------------------------------------------------------------
(* The tools                                                               *)

Stores == {"local", "persistent"} \cup Aliases
Catalogs == {"persistent"} \cup Aliases
CatalogRow == [rc : Int, prose : [table : UserTables \cup {"none"}, store : Stores \cup {"none"}]]

\* The tables of one database, and of all of them
TablesOK(f) == DOMAIN f \subseteq UserTables /\ \A t \in DOMAIN f : f[t] \in Rows
DbOK(d) ==
    /\ {"local", "persistent"} \subseteq DOMAIN d
    /\ DOMAIN d \subseteq Stores
    /\ \A s \in DOMAIN d : TablesOK(d[s])

\* The rows of one catalog, and of all of them
CatalogRowsOK(f) == DOMAIN f \subseteq UserTables /\ \A t \in DOMAIN f : f[t] \in CatalogRow
CatalogsOK(cat, d) ==
    /\ DOMAIN cat \subseteq Catalogs /\ DOMAIN cat \subseteq DOMAIN d
    /\ \A c \in DOMAIN cat : CatalogRowsOK(cat[c])

\* The prose of every table of d that cat describes is in new.
ProseCarried(cat, new, d) ==
    \A c \in DOMAIN cat :
      /\ c \in DOMAIN new
      /\ \A t \in DOMAIN cat[c] :
           cat[c][t].prose # NoProse /\ t \in DOMAIN d[c] =>
             t \in DOMAIN new[c] /\ new[c][t].prose # NoProse

SettingsOK ==
    /\ mode \in [readOnly : BOOLEAN, persistent : BOOLEAN]
    /\ engine \in {"none", "up", "dead"}
    /\ catalogReady \in BOOLEAN /\ querySaved \in BOOLEAN /\ stray \in BOOLEAN
    /\ calls \in 0 .. MaxCalls

DataOK == DbOK(db) /\ CatalogsOK(catalog, db)

\* What a call, a watcher or a load_files under way writes to is there, and a
\* read-only server has neither watchers nor loads.
TargetsOK ==
    /\ DOMAIN registry \subseteq Aliases /\ DOMAIN registry \subseteq DOMAIN db
    /\ watched \subseteq DOMAIN db
    /\ \/ batch = NoBatch
       \/ batch \in [store : DOMAIN db, todo : SUBSET UserTables, done : SUBSET UserTables, current : BOOLEAN]
    /\ mode.readOnly => watched = {} /\ batch = NoBatch

SessionOK == attached \subseteq Aliases /\ NamesResolveInPrimary /\ RegistryMatchesSession

ToolsInv == SettingsOK /\ DataOK /\ TargetsOK /\ SessionOK
ToolsStep == ToolsInv' /\ ProseKept /\ DurableDataKept

-----------------------------------------------------------------------------
LEMMA ToolsInvSays == ToolsInv => ToolsTypeOK /\ NamesResolveInPrimary /\ RegistryMatchesSession
  <1> SUFFICES ASSUME ToolsInv PROVE ToolsTypeOK /\ NamesResolveInPrimary /\ RegistryMatchesSession OBVIOUS
  <1>1. DOMAIN db \subseteq {"local", "persistent"} \cup Aliases BY DEF ToolsInv, DataOK, DbOK, Stores
  <1>2. \A s \in DOMAIN db : DOMAIN db[s] \subseteq UserTables /\ \A t \in DOMAIN db[s] : db[s][t] \in Rows
    BY DEF ToolsInv, DataOK, DbOK, TablesOK
  <1>3. \A c \in DOMAIN catalog : DOMAIN catalog[c] \subseteq UserTables
    BY DEF ToolsInv, DataOK, CatalogsOK, CatalogRowsOK
  <1> QED BY <1>1, <1>2, <1>3 DEF ToolsInv, SettingsOK, DataOK, DbOK, TargetsOK, SessionOK, ToolsTypeOK

LEMMA EmptyFcnIs == DOMAIN EmptyFcn = {}
  BY DEF EmptyFcn

LEMMA PutIs ==
  ASSUME NEW f, NEW k, NEW v
  PROVE  /\ DOMAIN Put(f, k, v) = DOMAIN f \cup {k}
         /\ Put(f, k, v)[k] = v
         /\ \A x \in DOMAIN f : x # k => Put(f, k, v)[x] = f[x]
  BY DEF Put

\* The tables of a database, changed
LEMMA TablesPut ==
  ASSUME NEW f, TablesOK(f), NEW t \in UserTables, NEW n \in Rows
  PROVE  TablesOK(Put(f, t, n))
  BY DEF TablesOK, Put

LEMMA TablesDropped ==
  ASSUME NEW f, TablesOK(f), NEW S \in SUBSET DOMAIN f
  PROVE  TablesOK(Restrict(f, S)) /\ DOMAIN Restrict(f, S) = S
  BY DEF TablesOK, Restrict

LEMMA TablesEmpty == TablesOK(EmptyFcn)
  BY EmptyFcnIs DEF TablesOK

LEMMA DbSet ==
  ASSUME NEW d, DbOK(d), NEW s \in DOMAIN d, NEW f, TablesOK(f)
  PROVE  /\ DbOK([d EXCEPT ![s] = f])
         /\ DOMAIN [d EXCEPT ![s] = f] = DOMAIN d
         /\ \A x \in DOMAIN d : x # s => [d EXCEPT ![s] = f][x] = d[x]
         /\ [d EXCEPT ![s] = f][s] = f
  BY DEF DbOK

LEMMA DbPut ==
  ASSUME NEW d, DbOK(d), NEW s \in Stores, NEW f, TablesOK(f)
  PROVE  DbOK(Put(d, s, f)) /\ DOMAIN Put(d, s, f) = DOMAIN d \cup {s}
  BY DEF DbOK, Put

\* The catalogs, changed
LEMMA CatalogsGrow ==
  ASSUME NEW cat, NEW d, NEW e, CatalogsOK(cat, d), DOMAIN d \subseteq DOMAIN e
  PROVE  CatalogsOK(cat, e)
  BY DEF CatalogsOK

LEMMA CatalogPut ==
  ASSUME NEW cat, NEW d, CatalogsOK(cat, d), NEW c \in Catalogs \cap DOMAIN d, NEW f, CatalogRowsOK(f)
  PROVE  CatalogsOK(Put(cat, c, f), d)
  BY DEF CatalogsOK, Put

LEMMA EnsuredIs ==
  ASSUME NEW cat, NEW d, CatalogsOK(cat, d), NEW c \in Catalogs \cap DOMAIN d
  PROVE  /\ CatalogsOK(EnsureExists(cat, c), d)
         /\ DOMAIN EnsureExists(cat, c) = DOMAIN cat \cup {c}
         /\ \A x \in DOMAIN cat : EnsureExists(cat, c)[x] = cat[x]
         /\ CatalogRowsOK(EnsureExists(cat, c)[c])
         /\ c \notin DOMAIN cat => EnsureExists(cat, c)[c] = EmptyFcn
  <1>1. CatalogRowsOK(EmptyFcn) BY EmptyFcnIs DEF CatalogRowsOK
  <1>2. CASE c \in DOMAIN cat BY <1>2 DEF EnsureExists, CatalogsOK
  <1>3. CASE c \notin DOMAIN cat
    <2>1. EnsureExists(cat, c) = Put(cat, c, EmptyFcn) BY <1>3 DEF EnsureExists
    <2>2. CatalogsOK(Put(cat, c, EmptyFcn), d) BY <1>1, CatalogPut
    <2>3. DOMAIN Put(cat, c, EmptyFcn) = DOMAIN cat \cup {c} /\ Put(cat, c, EmptyFcn)[c] = EmptyFcn BY DEF Put
    <2>4. \A x \in DOMAIN cat : Put(cat, c, EmptyFcn)[x] = cat[x] BY <1>3 DEF Put
    <2> QED BY <1>1, <1>3, <2>1, <2>2, <2>3, <2>4
  <1> QED BY <1>2, <1>3

LEMMA EnsureCarries ==
  ASSUME NEW cat, NEW c, NEW e
  PROVE  ProseCarried(cat, EnsureExists(cat, c), e)
  <1> DEFINE new == EnsureExists(cat, c)
  <1>1. \A x \in DOMAIN cat : x \in DOMAIN new /\ new[x] = cat[x] BY DEF EnsureExists, Put
  <1> HIDE DEF new
  <1>2. ProseCarried(cat, new, e) BY <1>1 DEF ProseCarried
  <1> QED BY <1>2 DEF new

LEMMA SameCarries == ASSUME NEW cat, NEW e PROVE ProseCarried(cat, cat, e)
  BY DEF ProseCarried

LEMMA CarriedOn ==
  ASSUME NEW cat, NEW mid, NEW new, NEW e, ProseCarried(cat, mid, e), ProseCarried(mid, new, e)
  PROVE  ProseCarried(cat, new, e)
  BY DEF ProseCarried

\* One catalog replaced by rows that keep the prose of what e has.
LEMMA PutCarries ==
  ASSUME NEW cat, NEW d, CatalogsOK(cat, d), NEW c \in Catalogs \cap DOMAIN d, NEW f, NEW e,
         \A t \in DOMAIN EnsureExists(cat, c)[c] :
           EnsureExists(cat, c)[c][t].prose # NoProse /\ t \in DOMAIN e[c] => t \in DOMAIN f /\ f[t].prose # NoProse
  PROVE  ProseCarried(cat, Put(cat, c, f), e)
  <1>1. c \in DOMAIN cat => EnsureExists(cat, c)[c] = cat[c] BY EnsuredIs
  <1>2. /\ DOMAIN Put(cat, c, f) = DOMAIN cat \cup {c} /\ Put(cat, c, f)[c] = f
        /\ \A x \in DOMAIN cat : x # c => Put(cat, c, f)[x] = cat[x]
    BY DEF Put
  <1> QED BY <1>1, <1>2 DEF ProseCarried

LEMMA NoProseIs == NoProse \in [table : UserTables \cup {"none"}, store : Stores \cup {"none"}]
  BY DEF NoProse

LEMMA StubIs ==
  ASSUME NEW cat, NEW d, CatalogsOK(cat, d), NEW c \in Catalogs \cap DOMAIN d, NEW t \in UserTables, NEW n \in Int
  PROVE  /\ CatalogsOK(UpsertStub(cat, c, t, n), d)
         /\ UpsertStub(cat, c, t, n)[c][t] \in CatalogRow
         /\ t \in DOMAIN EnsureExists(cat, c)[c] =>
              UpsertStub(cat, c, t, n)[c][t].prose = EnsureExists(cat, c)[c][t].prose
         /\ \A e : ProseCarried(cat, UpsertStub(cat, c, t, n), e)
  <1> DEFINE rows == EnsureExists(cat, c)[c]
             prose == IF t \in DOMAIN rows THEN rows[t].prose ELSE NoProse
             row == [rc |-> n, prose |-> prose]
             f == Put(rows, t, row)
  <1>1. UpsertStub(cat, c, t, n) = Put(cat, c, f) BY DEF UpsertStub
  <1>2. CatalogRowsOK(rows) BY EnsuredIs
  <1>3. row \in CatalogRow
    <2>1. prose \in [table : UserTables \cup {"none"}, store : Stores \cup {"none"}]
      BY <1>2, NoProseIs DEF CatalogRowsOK, CatalogRow
    <2> HIDE DEF prose
    <2> QED BY <2>1 DEF CatalogRow
  <1>4. row.prose = prose OBVIOUS
  <1>5. \A x \in DOMAIN rows : rows[x].prose # NoProse => x \in DOMAIN f /\ f[x].prose # NoProse
    <2> SUFFICES ASSUME NEW x \in DOMAIN rows, rows[x].prose # NoProse PROVE x \in DOMAIN f /\ f[x].prose # NoProse
      OBVIOUS
    <2>1. CASE x = t
      <3>1. f[x] = row /\ x \in DOMAIN f BY <2>1 DEF Put
      <3> QED BY <2>1, <3>1, <1>4
    <2>2. CASE x # t
      <3> HIDE DEF row, rows
      <3>1. f[x] = rows[x] /\ x \in DOMAIN f BY <2>2 DEF Put
      <3> QED BY <3>1
    <2> QED BY <2>1, <2>2
  <1>6. CatalogRowsOK(f)
    <2> HIDE DEF row, rows
    <2> QED BY <1>2, <1>3 DEF CatalogRowsOK, Put
  <1>7. CatalogsOK(Put(cat, c, f), d)
    <2> HIDE DEF f
    <2> QED BY <1>6, CatalogPut
  <1>8. Put(cat, c, f)[c][t] = row
    <2> HIDE DEF row, rows
    <2> QED BY DEF Put
  <1>9. ASSUME NEW e PROVE ProseCarried(cat, Put(cat, c, f), e)
    <2>1. \A x \in DOMAIN EnsureExists(cat, c)[c] :
            EnsureExists(cat, c)[c][x].prose # NoProse /\ x \in DOMAIN e[c] => x \in DOMAIN f /\ f[x].prose # NoProse
      BY <1>5
    <2> HIDE DEF f
    <2> QED BY <2>1, PutCarries
  <1>10. t \in DOMAIN rows => row.prose = rows[t].prose BY <1>4
  <1> HIDE DEF f, row
  <1> QED BY <1>1, <1>3, <1>7, <1>8, <1>9, <1>10

\* What a reconciliation up to any phase does to a catalog.
LEMMA ReconciledIs ==
  ASSUME NEW cat, NEW d, DbOK(d), CatalogsOK(cat, d), NEW c \in Catalogs \cap DOMAIN d, NEW phase \in Phases
  PROVE  /\ CatalogsOK(ReconcileIn(d, cat, c, phase), d)
         /\ ProseCarried(cat, ReconcileIn(d, cat, c, phase), d)
  <1> DEFINE rows == EnsureExists(cat, c)[c]
             live == ReconcileLiveTables(d, c)
             Count(t) == d[live[t]][t]
             disappeared == DOMAIN rows \ DOMAIN live
             newTables == DOMAIN live \ DOMAIN rows
             candidates == {t \in newTables : live[t] = c}
             Matches(e) == {t \in candidates : Count(t) = rows[e].rc}
             renamed == {e \in disappeared :
                           /\ \A o \in disappeared : rows[o].rc = rows[e].rc => o = e
                           /\ Cardinality(Matches(e)) = 1}
             targets == UNION {Matches(e) : e \in renamed}
             Row(t) == IF t \in targets
                       THEN rows[CHOOSE e \in renamed : t \in Matches(e)]
                       ELSE IF t \in DOMAIN rows THEN rows[t]
                       ELSE [rc |-> Count(t), prose |-> NoProse]
             kept == CASE phase = "created" -> DOMAIN rows
                       [] phase = "renamed" -> (DOMAIN rows \ renamed) \cup targets
                       [] phase = "deleted" -> (DOMAIN rows \cap DOMAIN live) \cup targets
                       [] OTHER -> DOMAIN live
             f == [t \in kept |->
                     IF phase = "created" THEN rows[t]
                     ELSE IF phase = "done" THEN [Row(t) EXCEPT !.rc = Count(t)]
                     ELSE Row(t)]
  <1>1. ReconcileIn(d, cat, c, phase) = Put(cat, c, f) BY DEF ReconcileIn
  <1>2. CatalogRowsOK(rows) BY EnsuredIs
  <1>3. /\ DOMAIN live \subseteq UserTables /\ DOMAIN d[c] \subseteq DOMAIN live
        /\ \A t \in DOMAIN live : Count(t) \in Int
    <2>1. CASE c = "persistent"
      <3>1. live = [t \in DOMAIN d["local"] \cup DOMAIN d["persistent"] |->
                      IF t \in DOMAIN d["persistent"] THEN "persistent" ELSE "local"]
        BY <2>1 DEF ReconcileLiveTables
      <3> HIDE DEF live
      <3>2. TablesOK(d["local"]) /\ TablesOK(d["persistent"]) BY DEF DbOK
      <3> QED BY <2>1, <3>1, <3>2, ToolsAssumption DEF TablesOK, Rows
    <2>2. CASE c # "persistent"
      <3>1. live = [t \in DOMAIN d[c] |-> c] BY <2>2 DEF ReconcileLiveTables
      <3> HIDE DEF live
      <3>2. TablesOK(d[c]) BY DEF DbOK
      <3> QED BY <2>2, <3>1, <3>2, ToolsAssumption DEF TablesOK, Rows
    <2> QED BY <2>1, <2>2
  <1> HIDE DEF rows, live
  <1>4. renamed \subseteq DOMAIN rows /\ renamed \cap DOMAIN live = {} OBVIOUS
  <1>5. /\ targets \subseteq DOMAIN live /\ targets \cap DOMAIN rows = {} OBVIOUS
  <1>6. \A t \in targets : Row(t) \in CatalogRow
    <2> SUFFICES ASSUME NEW t \in targets PROVE Row(t) \in CatalogRow OBVIOUS
    <2> DEFINE e == CHOOSE e \in renamed : t \in Matches(e)
    <2>1. \E x \in renamed : t \in Matches(x) OBVIOUS
    <2>2. e \in renamed
      <3> HIDE DEF renamed, Matches
      <3> QED BY <2>1
    <2>3. Row(t) = rows[e] OBVIOUS
    <2> HIDE DEF e, Row, renamed
    <2> QED BY <2>2, <2>3, <1>2, <1>4 DEF CatalogRowsOK
  <1> HIDE DEF renamed, targets
  <1>7. \A t \in DOMAIN rows : Row(t) = rows[t] /\ Row(t) \in CatalogRow BY <1>2, <1>5 DEF CatalogRowsOK
  <1>8. \A t \in DOMAIN live : Row(t) \in CatalogRow
    <2> SUFFICES ASSUME NEW t \in DOMAIN live, t \notin targets, t \notin DOMAIN rows PROVE Row(t) \in CatalogRow
      BY <1>6, <1>7
    <2>1. Row(t) = [rc |-> Count(t), prose |-> NoProse] OBVIOUS
    <2> HIDE DEF Row
    <2> QED BY <2>1, <1>3, NoProseIs DEF CatalogRow
  <1> HIDE DEF Row
  <1>9. kept \subseteq DOMAIN rows \cup DOMAIN live /\ (phase = "created" => kept = DOMAIN rows)
        /\ (phase = "done" => kept = DOMAIN live) /\ DOMAIN rows \cap DOMAIN live \subseteq kept
    BY <1>4, <1>5
  <1>10. \A t \in kept : f[t] \in CatalogRow
    <2> SUFFICES ASSUME NEW t \in kept PROVE f[t] \in CatalogRow OBVIOUS
    <2>1. Row(t) \in CatalogRow BY <1>7, <1>8, <1>9
    <2>2. CASE phase = "created"
      <3>1. f[t] = rows[t] /\ t \in DOMAIN rows BY <2>2, <1>9
      <3> HIDE DEF f
      <3> QED BY <3>1, <1>7
    <2>3. CASE phase = "done"
      <3>1. f[t] = [Row(t) EXCEPT !.rc = Count(t)] /\ Count(t) \in Int BY <2>3, <1>3, <1>9
      <3> HIDE DEF f, Count
      <3> QED BY <3>1, <2>1 DEF CatalogRow
    <2>4. CASE phase # "created" /\ phase # "done"
      <3>1. f[t] = Row(t) BY <2>4
      <3> HIDE DEF f
      <3> QED BY <3>1, <2>1
    <2> QED BY <2>2, <2>3, <2>4
  <1>11. \A t \in DOMAIN rows : rows[t].prose # NoProse /\ t \in DOMAIN d[c] => t \in DOMAIN f /\ f[t].prose # NoProse
    <2> SUFFICES ASSUME NEW t \in DOMAIN rows, rows[t].prose # NoProse, t \in DOMAIN d[c]
                 PROVE  t \in DOMAIN f /\ f[t].prose # NoProse
      OBVIOUS
    <2>1. t \in DOMAIN live /\ t \in kept BY <1>3, <1>9
    <2>2. Row(t) = rows[t] /\ Row(t) \in CatalogRow BY <1>7
    <2>3. CASE phase = "done"
      <3>1. f[t] = [Row(t) EXCEPT !.rc = Count(t)] /\ t \in DOMAIN f BY <2>1, <2>3
      <3> HIDE DEF f, Count
      <3>2. f[t].prose = Row(t).prose BY <3>1, <2>2 DEF CatalogRow
      <3> QED BY <3>1, <3>2, <2>2
    <2>4. CASE phase # "done"
      <3>1. f[t] = rows[t] /\ t \in DOMAIN f BY <2>1, <2>2, <2>4
      <3> HIDE DEF f
      <3> QED BY <3>1
    <2> QED BY <2>3, <2>4
  <1>12. CatalogRowsOK(f)
    <2>1. DOMAIN f = kept /\ kept \subseteq UserTables BY <1>9, <1>3, <1>2 DEF CatalogRowsOK
    <2> HIDE DEF f, kept
    <2> QED BY <2>1, <1>10 DEF CatalogRowsOK
  <1> HIDE DEF f
  <1>13. CatalogsOK(Put(cat, c, f), d) BY <1>12, CatalogPut
  <1>14. ProseCarried(cat, Put(cat, c, f), d) BY <1>11, PutCarries DEF rows
  <1> QED BY <1>1, <1>13, <1>14

-----------------------------------------------------------------------------
(* What a step leaves alone                                                *)

LEMMA TargetsStay ==
  ASSUME ToolsInv, UNCHANGED <<mode, registry, watched, batch>>, DOMAIN db \subseteq DOMAIN db'
  PROVE  TargetsOK'
  BY DEF ToolsInv, TargetsOK

LEMMA SessionStays ==
  ASSUME ToolsInv, UNCHANGED <<mode, registry, attached, path>>, engine' = "up" => engine = "up"
  PROVE  SessionOK'
  BY DEF ToolsInv, SessionOK, NamesResolveInPrimary, RegistryMatchesSession

LEMMA SessionGone ==
  ASSUME engine' # "up", attached' \subseteq Aliases
  PROVE  SessionOK'
  BY DEF SessionOK, NamesResolveInPrimary, RegistryMatchesSession

LEMMA DataStays ==
  ASSUME ToolsInv, UNCHANGED <<db, catalog>>
  PROVE  /\ DataOK' /\ ProseKept /\ DurableDataKept /\ DOMAIN db \subseteq DOMAIN db'
  <1>1. DataOK' BY DEF ToolsInv, DataOK, DbOK, CatalogsOK
  <1> QED BY <1>1 DEF ProseKept, DurableDataKept

LEMMA Counted == ASSUME ToolsInv, Count1 PROVE calls' \in 0 .. MaxCalls
  BY ToolsAssumption DEF ToolsInv, SettingsOK, Count1

\* A step of a server that may write.
LEMMA WriteHolds ==
  ASSUME ToolsInv, ~mode.readOnly, DbOK(db'), CatalogsOK(catalog', db'), ProseCarried(catalog, catalog', db'),
         SettingsOK', TargetsOK', SessionOK'
  PROVE  ToolsStep
  <1>1. DataOK' BY DEF DataOK
  <1>2. ProseKept BY DEF ProseKept, ProseCarried
  <1>3. DurableDataKept BY DEF DurableDataKept
  <1> QED BY <1>1, <1>2, <1>3 DEF ToolsStep, ToolsInv

LEMMA DiscardHolds ==
  ASSUME ToolsInv, DiscardEngine, calls' \in 0 .. MaxCalls, DOMAIN db \subseteq DOMAIN db'
  PROVE  SettingsOK' /\ TargetsOK' /\ SessionOK'
  <1>1. SettingsOK' BY DEF DiscardEngine, ToolsInv, SettingsOK
  <1>2. TargetsOK' BY TargetsStay DEF DiscardEngine
  <1>3. SessionOK' BY SessionGone DEF DiscardEngine
  <1> QED BY <1>1, <1>2, <1>3

\* What with_engine leaves to the closure that keeps the engine: the session,
\* and a connection that may be lost.
LEMMA CallHolds ==
  ASSUME ToolsInv, engine = "up", engine' \in {"up", "dead"}, UNCHANGED toolSlot, UNCHANGED toolSession,
         UNCHANGED <<watched, querySaved, batch>>, stray' \in BOOLEAN, calls' \in 0 .. MaxCalls,
         DOMAIN db \subseteq DOMAIN db'
  PROVE  SettingsOK' /\ TargetsOK' /\ SessionOK'
  <1>1. SettingsOK' BY DEF toolSlot, ToolsInv, SettingsOK
  <1>2. TargetsOK' BY TargetsStay DEF toolSlot, toolSession
  <1>3. SessionOK' BY SessionStays DEF toolSlot, toolSession
  <1> QED BY <1>1, <1>2, <1>3

LEMMA QuietStep ==
  ASSUME ToolsInv, UNCHANGED <<db, catalog>>, SettingsOK', TargetsOK', SessionOK'
  PROVE  ToolsStep
  BY DataStays DEF ToolsStep, ToolsInv

-----------------------------------------------------------------------------
(* The engine                                                              *)

LEMMA EnsureEngineHolds == ASSUME ToolsInv, EnsureEngine PROVE ToolsStep
  <1>1. PICK kept \in SUBSET DOMAIN registry :
          /\ engine' = IF kept = DOMAIN registry THEN "up" ELSE "dead"
          /\ registry' = Restrict(registry, kept)
          /\ attached' = kept
          /\ path' = PinnedPath(kept)
    BY DEF EnsureEngine
  <1>2. /\ db' = [db EXCEPT !["local"] = EmptyFcn] /\ catalogReady' = FALSE
        /\ batch' = IF batch.store = "local" THEN [batch EXCEPT !.current = FALSE] ELSE batch
        /\ UNCHANGED <<mode, catalog, watched, querySaved, stray, calls>>
    BY DEF EnsureEngine
  <1>3. DOMAIN registry' = kept BY <1>1 DEF Restrict
  <1>4. DbOK(db) /\ "local" \in DOMAIN db /\ CatalogsOK(catalog, db) BY DEF ToolsInv, DataOK, DbOK
  <1>5. /\ DbOK(db') /\ DOMAIN db' = DOMAIN db /\ \A s \in DOMAIN db : s # "local" => db'[s] = db[s]
    BY <1>2, <1>4, TablesEmpty, DbSet
  <1>6. SettingsOK' BY <1>1, <1>2 DEF ToolsInv, SettingsOK
  <1>7. batch' = NoBatch \/ batch' \in [store : DOMAIN db, todo : SUBSET UserTables, done : SUBSET UserTables, current : BOOLEAN]
    <2>1. CASE batch = NoBatch BY <2>1, <1>2 DEF NoBatch
    <2>2. CASE batch \in [store : DOMAIN db, todo : SUBSET UserTables, done : SUBSET UserTables, current : BOOLEAN]
      BY <2>2, <1>2
    <2> QED BY <2>1, <2>2 DEF ToolsInv, TargetsOK
  <1>8. mode.readOnly => watched = {} /\ batch' = NoBatch
    <2>1. NoBatch.store # "local" BY DEF NoBatch
    <2> QED BY <1>2, <2>1 DEF ToolsInv, TargetsOK
  <1>9. TargetsOK' BY <1>2, <1>3, <1>5, <1>7, <1>8 DEF ToolsInv, TargetsOK
  <1>10. SessionOK'
    <2>1. attached' \subseteq Aliases BY <1>1 DEF ToolsInv, TargetsOK
    <2>2. RegistryMatchesSession' BY <1>1, <1>3 DEF RegistryMatchesSession
    <2>3. NamesResolveInPrimary' BY <1>1, <1>2 DEF NamesResolveInPrimary, PinnedPath
    <2> QED BY <2>1, <2>2, <2>3 DEF SessionOK
  <1>11. DataOK' BY <1>2, <1>4, <1>5 DEF DataOK, CatalogsOK
  <1>12. ProseKept BY <1>2 DEF ProseKept
  <1>13. DurableDataKept BY <1>2, <1>5 DEF DurableDataKept
  <1> QED BY <1>6, <1>9, <1>10, <1>11, <1>12, <1>13 DEF ToolsStep, ToolsInv

LEMMA EnsureCatalogReadyHolds == ASSUME ToolsInv, EnsureCatalogReady PROVE ToolsStep
  <1>1. /\ engine = "up" /\ ~mode.readOnly /\ catalogReady' = TRUE
        /\ UNCHANGED <<mode, db, toolSession, watched, querySaved, batch, stray, calls>>
    BY DEF EnsureCatalogReady
  <1>2. DbOK(db) /\ DbOK(db') /\ DOMAIN db \subseteq DOMAIN db' /\ db' = db /\ CatalogsOK(catalog, db) /\ "persistent" \in Catalogs \cap DOMAIN db
    BY <1>1 DEF ToolsInv, DataOK, DbOK, Catalogs
  <1>3. /\ engine' \in {"up", "dead"} /\ CatalogsOK(catalog', db') /\ ProseCarried(catalog, catalog', db')
    <2>1. CASE mode.persistent
      <3>1. PICK phase \in Phases : /\ catalog' = ReconcileIn(db, catalog, "persistent", phase)
                                    /\ engine' = IF phase = "done" THEN "up" ELSE "dead"
        BY <2>1 DEF EnsureCatalogReady
      <3> QED BY <3>1, <1>2, ReconciledIs
    <2>2. CASE ~mode.persistent
      <3>1. UNCHANGED <<catalog, engine>> BY <2>2 DEF EnsureCatalogReady
      <3> QED BY <3>1, <1>1, <1>2, SameCarries
    <2> QED BY <2>1, <2>2
  <1>4. SettingsOK' BY <1>1, <1>3 DEF ToolsInv, SettingsOK
  <1>5. TargetsOK' BY <1>1, <1>2, TargetsStay DEF toolSession
  <1>6. SessionOK' BY <1>1, SessionStays DEF toolSession
  <1> QED BY <1>1, <1>2, <1>3, <1>4, <1>5, <1>6, WriteHolds

LEMMA ToolsHyperdDiesHolds == ASSUME ToolsInv, ToolsHyperdDies PROVE ToolsStep
  <1>1. /\ engine = "up" /\ engine' = "dead" /\ UNCHANGED toolSlot /\ UNCHANGED toolSession
        /\ UNCHANGED <<db, catalog>> /\ UNCHANGED <<watched, querySaved, batch>> /\ UNCHANGED <<stray, calls>>
    BY DEF ToolsHyperdDies
  <1>2. stray' \in BOOLEAN /\ calls' \in 0 .. MaxCalls /\ DOMAIN db \subseteq DOMAIN db'
    BY <1>1 DEF ToolsInv, SettingsOK
  <1> QED BY <1>1, <1>2, CallHolds, QuietStep

LEMMA DiscardsHold == ASSUME ToolsInv, CallOnDeadConnection \/ CallPanics PROVE ToolsStep
  <1>1. DiscardEngine /\ UNCHANGED <<db, catalog>> /\ calls' = calls BY DEF CallOnDeadConnection, CallPanics
  <1>2. calls' \in 0 .. MaxCalls /\ DOMAIN db \subseteq DOMAIN db' BY <1>1 DEF ToolsInv, SettingsOK
  <1> QED BY <1>1, <1>2, DiscardHolds, QuietStep

LEMMA ReadToolHolds == ASSUME ToolsInv, ReadTool PROVE ToolsStep
  <1>1. engine = "up" /\ Count1 /\ UNCHANGED <<db, catalog>> BY DEF ReadTool, WithEngine
  <1>2. calls' \in 0 .. MaxCalls /\ DOMAIN db \subseteq DOMAIN db' BY <1>1, Counted
  <1>3. CASE DiscardEngine BY <1>1, <1>2, <1>3, DiscardHolds, QuietStep
  <1>4. CASE engine' \in {"up", "dead"} /\ UNCHANGED <<toolSlot, toolSession, watched, querySaved, batch, stray>>
    <2>1. /\ UNCHANGED toolSlot /\ UNCHANGED toolSession /\ UNCHANGED <<watched, querySaved, batch>> /\ stray' \in BOOLEAN
      BY <1>4 DEF ToolsInv, SettingsOK
    <2> QED BY <1>1, <1>2, <1>4, <2>1, CallHolds, QuietStep
  <1> QED BY <1>3, <1>4 DEF ReadTool

LEMMA SavedQueriesHold == ASSUME ToolsInv, ToolSaveQuery \/ ToolDeleteQuery PROVE ToolsStep
  <1>1. /\ Count1 /\ querySaved' \in BOOLEAN
        /\ UNCHANGED <<engine, toolSlot, db, catalog, toolSession, watched, batch, stray>>
    BY DEF ToolSaveQuery, ToolDeleteQuery, WithEngine
  <1>2. calls' \in 0 .. MaxCalls BY <1>1, Counted
  <1>3. SettingsOK' BY <1>1, <1>2 DEF toolSlot, ToolsInv, SettingsOK
  <1>4. TargetsOK' BY <1>1, TargetsStay DEF toolSlot, toolSession
  <1>5. SessionOK' BY <1>1, SessionStays DEF toolSlot, toolSession
  <1> QED BY <1>1, <1>3, <1>4, <1>5, QuietStep

-----------------------------------------------------------------------------
(* Loads                                                                   *)

LEMMA DatabasesExist ==
  ASSUME ToolsInv, NEW s \in Databases
  PROVE  /\ s \in DOMAIN db /\ s \in Stores /\ ResolveCatalogAlias(s) \in Catalogs \cap DOMAIN db
         /\ DbOK(db) /\ CatalogsOK(catalog, db) /\ TablesOK(db[s])
  BY ToolsAssumption DEF ToolsInv, TargetsOK, DataOK, DbOK, Databases, Stores, Catalogs, ResolveCatalogAlias

\* The catalog after the data of a load is in a database.
LEMMA CatalogUpdated ==
  ASSUME ToolsInv, NEW s \in Databases, NEW t \in UserTables, NEW n \in Int, DbOK(db'), DOMAIN db \subseteq DOMAIN db',
         engine = "up", AfterIngestCatalogUpdate(s, t, n)
  PROVE  /\ engine' \in {"up", "dead"} /\ CatalogsOK(catalog', db') /\ ProseCarried(catalog, catalog', db')
  <1> DEFINE c == ResolveCatalogAlias(s)
  <1>1. CatalogsOK(catalog, db') /\ c \in Catalogs \cap DOMAIN db'
    BY DatabasesExist, CatalogsGrow
  <1> HIDE DEF c
  <1>2. CASE UNCHANGED <<engine, catalog>>
    <2>1. ProseCarried(catalog, catalog, db') BY SameCarries
    <2> QED BY <1>1, <1>2, <2>1
  <1>3. CASE Survives /\ catalog' = UpsertStub(catalog, c, t, n)
    BY <1>1, <1>3, StubIs DEF Survives
  <1>4. CASE LosesConnection /\ catalog' \in {catalog, EnsureExists(catalog, c)}
    <2>1. ProseCarried(catalog, catalog, db') BY SameCarries
    <2>2. ProseCarried(catalog, EnsureExists(catalog, c), db') BY EnsureCarries
    <2>3. CatalogsOK(EnsureExists(catalog, c), db') BY <1>1, EnsuredIs
    <2> QED BY <1>1, <1>4, <2>1, <2>2, <2>3 DEF LosesConnection
  <1> QED BY <1>2, <1>3, <1>4 DEF AfterIngestCatalogUpdate, c

LEMMA LoadedData ==
  ASSUME ToolsInv, NEW s \in DOMAIN db, NEW t \in UserTables, NEW m \in Rows, db' = [db EXCEPT ![s] = Put(@, t, m)]
  PROVE  /\ DbOK(db') /\ DOMAIN db' = DOMAIN db /\ t \in DOMAIN db'[s] /\ db'[s][t] = m
         /\ \A x \in DOMAIN db : x # s => db'[x] = db[x]
  <1>1. DbOK(db) /\ TablesOK(db[s]) BY DEF ToolsInv, DataOK, DbOK
  <1> DEFINE f == Put(db[s], t, m)
  <1>2. TablesOK(f) BY <1>1, TablesPut
  <1>3. db' = [db EXCEPT ![s] = f] OBVIOUS
  <1>4. t \in DOMAIN f /\ f[t] = m BY DEF Put
  <1> HIDE DEF f
  <1>5. DbOK(db') BY <1>1, <1>2, <1>3 DEF DbOK
  <1>6. DOMAIN db' = DOMAIN db /\ db'[s] = f /\ \A x \in DOMAIN db : x # s => db'[x] = db[x] BY <1>3
  <1> QED BY <1>4, <1>5, <1>6

\* A load that failed leaves the databases as they were, an empty table, or
\* one table less.
LEMMA FailedLoadsAre ==
  ASSUME ToolsInv, NEW s \in DOMAIN db, NEW t \in UserTables, NEW fmt, NEW how, db' \in FailedLoads(s, t, fmt, how)
  PROVE  /\ DbOK(db') /\ DOMAIN db' = DOMAIN db
  <1>1. DbOK(db) /\ TablesOK(db[s]) BY DEF ToolsInv, DataOK, DbOK
  <1>2. CASE db' = db BY <1>1, <1>2
  <1>3. CASE db' = [db EXCEPT ![s] = Put(@, t, 0)]
    <2>1. 0 \in Rows BY ToolsAssumption DEF Rows
    <2> QED BY <1>3, <2>1, LoadedData
  <1>4. CASE db' = [db EXCEPT ![s] = Restrict(@, DOMAIN @ \ {t})]
    <2> DEFINE f == Restrict(db[s], DOMAIN db[s] \ {t})
    <2>1. TablesOK(f) BY <1>1, TablesDropped
    <2>2. db' = [db EXCEPT ![s] = f] BY <1>4
    <2> HIDE DEF f
    <2> QED BY <1>1, <2>1, <2>2, DbSet
  <1> QED BY <1>2, <1>3, <1>4 DEF FailedLoads

LEMMA LoadTableHolds ==
  ASSUME ToolsInv, NEW s \in Databases, NEW t \in UserTables, NEW fmt, NEW how, LoadTable(s, t, 1, fmt, how)
  PROVE  ToolsStep
  <1>1. ~mode.readOnly /\ engine = "up" /\ Count1 BY DEF LoadTable, CheckWritable, WithEngine
  <1>2. calls' \in 0 .. MaxCalls BY <1>1, Counted
  <1>3. s \in DOMAIN db /\ CatalogsOK(catalog, db) BY DatabasesExist
  <1>4. CASE LoadSucceeds(s, t, 1, fmt, how)
    <2>1. PICK m \in Rows : db' = [db EXCEPT ![s] = Put(@, t, m)] BY <1>4 DEF LoadSucceeds
    <2>2. DbOK(db') /\ DOMAIN db' = DOMAIN db BY <1>3, <2>1, LoadedData
    <2>3. UNCHANGED toolSlot /\ UNCHANGED toolSession /\ UNCHANGED <<watched, querySaved, batch>>
      BY <1>4 DEF LoadSucceeds
    <2>4. /\ stray' \in BOOLEAN /\ engine' \in {"up", "dead"} /\ CatalogsOK(catalog', db')
          /\ ProseCarried(catalog, catalog', db')
      <3>0. ProseCarried(catalog, catalog, db') /\ CatalogsOK(catalog, db') /\ stray \in BOOLEAN /\ 1 \in Int
        BY <1>3, <2>2, SameCarries, CatalogsGrow DEF ToolsInv, SettingsOK
      <3>1. CASE IngestRows(s, t, 1) BY <1>1, <2>2, <3>0, <3>1, CatalogUpdated DEF IngestRows
      <3>2. CASE IngestParquet(s, t)
        <4>1. CASE CountRows(t) = -1 BY <1>1, <3>0, <3>2, <4>1 DEF IngestParquet
        <4>2. CASE CountRows(t) # -1
          <5>1. CountRows(t) \in Int
            <6>1. TablesOK(db'["local"]) BY <2>2 DEF DbOK
            <6> QED BY <4>2, <6>1, ToolsAssumption DEF CountRows, TablesOK, Rows
          <5>2. UNCHANGED stray /\ AfterIngestCatalogUpdate(s, t, CountRows(t)) BY <3>2, <4>2 DEF IngestParquet
          <5> QED BY <1>1, <2>2, <3>0, <5>1, <5>2, CatalogUpdated
        <4> QED BY <4>1, <4>2
      <3> QED BY <1>4, <3>1, <3>2 DEF LoadSucceeds
    <2>5. SettingsOK' /\ TargetsOK' /\ SessionOK' BY <1>1, <1>2, <2>2, <2>3, <2>4, CallHolds
    <2> QED BY <1>1, <2>2, <2>4, <2>5, WriteHolds
  <1>5. CASE LoadFails(s, t, fmt, how)
    <2>1. DbOK(db') /\ DOMAIN db' = DOMAIN db BY <1>3, <1>5, FailedLoadsAre DEF LoadFails
    <2>2. CatalogsOK(catalog', db') /\ ProseCarried(catalog, catalog', db')
      <3>1. catalog' = catalog BY <1>5 DEF LoadFails
      <3> QED BY <1>3, <2>1, <3>1, SameCarries, CatalogsGrow
    <2>3. CASE DiscardEngine
      <3>1. SettingsOK' /\ TargetsOK' /\ SessionOK' BY <1>2, <2>1, <2>3, DiscardHolds
      <3> QED BY <1>1, <2>1, <2>2, <3>1, WriteHolds
    <2>4. CASE UNCHANGED <<engine, toolSlot, toolSession, watched, querySaved, batch, stray>>
      <3>1. /\ engine' \in {"up", "dead"} /\ UNCHANGED toolSlot /\ UNCHANGED toolSession
            /\ UNCHANGED <<watched, querySaved, batch>> /\ stray' \in BOOLEAN
        BY <1>1, <2>4 DEF ToolsInv, SettingsOK
      <3>2. SettingsOK' /\ TargetsOK' /\ SessionOK' BY <1>1, <1>2, <2>1, <3>1, CallHolds
      <3> QED BY <1>1, <2>1, <2>2, <3>2, WriteHolds
    <2> QED BY <1>5, <2>3, <2>4 DEF LoadFails
  <1> QED BY <1>4, <1>5 DEF LoadTable

LEMMA LoadsHold == ASSUME ToolsInv, LoadData \/ LoadFile \/ LoadIceberg PROVE ToolsStep
  <1>1. "local" \in Databases BY DEF Databases
  <1> QED BY <1>1, LoadTableHolds DEF LoadData, LoadFile, LoadIceberg

LEMMA LoadFilesStartHolds == ASSUME ToolsInv, LoadFilesStart PROVE ToolsStep
  <1>1. /\ ~mode.readOnly /\ Count1
        /\ UNCHANGED <<engine, toolSlot, db, catalog, toolSession, watched, querySaved, stray>>
    BY DEF LoadFilesStart, CheckWritable, WithEngine
  <1>2. PICK s \in Databases, files \in SUBSET UserTables :
          batch' = [store |-> s, todo |-> files, done |-> {}, current |-> TRUE]
    BY DEF LoadFilesStart
  <1>3. s \in DOMAIN db BY DatabasesExist
  <1>4. calls' \in 0 .. MaxCalls BY <1>1, Counted
  <1>5. SettingsOK' BY <1>1, <1>4 DEF toolSlot, ToolsInv, SettingsOK
  <1>6. batch' \in [store : DOMAIN db, todo : SUBSET UserTables, done : SUBSET UserTables, current : BOOLEAN]
    BY <1>2, <1>3
  <1>7. TargetsOK' BY <1>1, <1>6 DEF toolSlot, toolSession, ToolsInv, TargetsOK
  <1>8. SessionOK' BY <1>1, SessionStays DEF toolSlot, toolSession
  <1> QED BY <1>1, <1>5, <1>7, <1>8, QuietStep

LEMMA LoadFilesEntryHolds == ASSUME ToolsInv, LoadFilesEntry PROVE ToolsStep
  <1>1. UNCHANGED <<engine, toolSlot, catalog, toolSession, watched, querySaved, stray, calls>> BY DEF LoadFilesEntry
  <1>2. PICK t \in batch.todo : IngestEntry(t) \/ IngestEntryFails(t) BY DEF LoadFilesEntry
  <1>3. batch # NoBatch BY <1>2 DEF NoBatch
  <1>4. /\ batch \in [store : DOMAIN db, todo : SUBSET UserTables, done : SUBSET UserTables, current : BOOLEAN]
        /\ ~mode.readOnly
    BY <1>3 DEF ToolsInv, TargetsOK
  <1>5. t \in UserTables /\ batch.store \in DOMAIN db BY <1>2, <1>4
  <1>6. DbOK(db) /\ CatalogsOK(catalog, db) BY DEF ToolsInv, DataOK
  <1>7. DbOK(db') /\ DOMAIN db' = DOMAIN db
    <2>1. CASE db' = db BY <1>6, <2>1
    <2>2. CASE db' = [db EXCEPT ![batch.store] = Put(@, t, 1)]
      <3>1. 1 \in Rows BY ToolsAssumption DEF Rows
      <3> QED BY <1>5, <2>2, <3>1, LoadedData
    <2>3. CASE db' \in FailedLoads(batch.store, t, "rows", "replace") BY <1>5, <2>3, FailedLoadsAre
    <2> QED BY <1>2, <2>1, <2>2, <2>3 DEF IngestEntry, IngestEntryFails
  <1>8. batch' \in [store : DOMAIN db, todo : SUBSET UserTables, done : SUBSET UserTables, current : BOOLEAN]
    <2>1. CASE batch' = [batch EXCEPT !.todo = @ \ {t}, !.done = @ \cup {t}] BY <1>4, <1>5, <2>1
    <2>2. CASE batch' = [batch EXCEPT !.todo = @ \ {t}] BY <1>4, <2>2
    <2> QED BY <1>2, <2>1, <2>2 DEF IngestEntry, IngestEntryFails
  <1>9. SettingsOK' BY <1>1 DEF toolSlot, ToolsInv, SettingsOK
  <1>10. TargetsOK' BY <1>1, <1>4, <1>7, <1>8 DEF toolSlot, toolSession, ToolsInv, TargetsOK
  <1>11. SessionOK' BY <1>1, SessionStays DEF toolSlot, toolSession
  <1>12. CatalogsOK(catalog', db') /\ ProseCarried(catalog, catalog', db') BY <1>1, <1>6, <1>7, SameCarries, CatalogsGrow
  <1> QED BY <1>4, <1>7, <1>9, <1>10, <1>11, <1>12, WriteHolds

LEMMA LoadFilesFinishHolds == ASSUME ToolsInv, LoadFilesFinish PROVE ToolsStep
  <1>1. /\ batch # NoBatch /\ engine = "up" /\ batch' = NoBatch
        /\ UNCHANGED <<toolSlot, db, toolSession, watched, querySaved, stray, calls>>
    BY DEF LoadFilesFinish
  <1>2. /\ batch \in [store : DOMAIN db, todo : SUBSET UserTables, done : SUBSET UserTables, current : BOOLEAN]
        /\ ~mode.readOnly
    BY <1>1 DEF ToolsInv, TargetsOK
  <1>3. DbOK(db) /\ DbOK(db') /\ db' = db /\ CatalogsOK(catalog, db) BY <1>1 DEF ToolsInv, DataOK, DbOK
  <1> DEFINE c == ResolveCatalogAlias(batch.store)
             rows == EnsureExists(catalog, c)[c]
             Told(told) == [t \in DOMAIN rows \cup told |->
                              IF t \in told THEN UpsertStub(catalog, c, t, 1)[c][t] ELSE rows[t]]
  <1>4. c \in Catalogs \cap DOMAIN db BY <1>2, <1>3 DEF ResolveCatalogAlias, Catalogs, DbOK
  <1>5. PICK told \in SUBSET batch.done :
          \/ UNCHANGED <<engine, catalog>>
          \/ engine' \in {"up", "dead"} /\ catalog' \in {catalog, Put(catalog, c, Told(told))}
    BY DEF LoadFilesFinish
  <1> HIDE DEF c
  <1>6. told \subseteq UserTables BY <1>2, <1>5
  <1>7. CatalogRowsOK(rows) BY <1>3, <1>4, EnsuredIs
  <1>8. \A t \in told : /\ UpsertStub(catalog, c, t, 1)[c][t] \in CatalogRow
                        /\ t \in DOMAIN rows => UpsertStub(catalog, c, t, 1)[c][t].prose = rows[t].prose
    <2> SUFFICES ASSUME NEW t \in told
                 PROVE  /\ UpsertStub(catalog, c, t, 1)[c][t] \in CatalogRow
                        /\ t \in DOMAIN rows => UpsertStub(catalog, c, t, 1)[c][t].prose = rows[t].prose
      OBVIOUS
    <2>1. t \in UserTables /\ 1 \in Int BY <1>6
    <2> QED BY <1>3, <1>4, <2>1, StubIs
  <1> HIDE DEF rows
  <1>9. CatalogRowsOK(Told(told)) BY <1>6, <1>7, <1>8 DEF CatalogRowsOK
  <1>10. \A t \in DOMAIN rows : rows[t].prose # NoProse => t \in DOMAIN Told(told) /\ Told(told)[t].prose # NoProse
    BY <1>8
  <1>11. CatalogsOK(Put(catalog, c, Told(told)), db) /\ ProseCarried(catalog, Put(catalog, c, Told(told)), db)
    <2> DEFINE f == Told(told)
    <2>1. CatalogRowsOK(f) BY <1>9
    <2>2. \A t \in DOMAIN EnsureExists(catalog, c)[c] :
            EnsureExists(catalog, c)[c][t].prose # NoProse /\ t \in DOMAIN db[c] => t \in DOMAIN f /\ f[t].prose # NoProse
      BY <1>10 DEF rows
    <2> HIDE DEF f
    <2>3. CatalogsOK(Put(catalog, c, f), db) BY <1>3, <1>4, <2>1, CatalogPut
    <2>4. ProseCarried(catalog, Put(catalog, c, f), db) BY <1>3, <1>4, <2>2, PutCarries
    <2> QED BY <2>3, <2>4 DEF f
  <1> HIDE DEF Told
  <1>12. /\ engine' \in {"up", "dead"} /\ CatalogsOK(catalog', db') /\ ProseCarried(catalog, catalog', db')
    BY <1>1, <1>3, <1>5, <1>11, SameCarries
  <1>13. SettingsOK' BY <1>1, <1>12 DEF toolSlot, ToolsInv, SettingsOK
  <1>14. TargetsOK' BY <1>1 DEF toolSlot, toolSession, ToolsInv, TargetsOK
  <1>15. SessionOK' BY <1>1, SessionStays DEF toolSlot, toolSession
  <1> QED BY <1>2, <1>3, <1>12, <1>13, <1>14, <1>15, WriteHolds

\* An ingest of a watcher
LEMMA WatcherIngestHolds == ASSUME ToolsInv, WatcherIngest PROVE ToolsStep
  <1>1. Count1 /\ UNCHANGED <<engine, toolSlot, catalog, toolSession, watched, querySaved, batch, stray>>
    BY DEF WatcherIngest
  <1>2. PICK s \in watched, t \in UserTables, m \in Rows : db' = [db EXCEPT ![s] = Put(@, t, m)]
    BY DEF WatcherIngest
  <1>3. s \in DOMAIN db /\ ~mode.readOnly BY DEF ToolsInv, TargetsOK
  <1>4. DbOK(db') /\ DOMAIN db' = DOMAIN db BY <1>2, <1>3, LoadedData
  <1>5. CatalogsOK(catalog, db) BY DEF ToolsInv, DataOK
  <1>6. CatalogsOK(catalog', db') /\ ProseCarried(catalog, catalog', db') BY <1>1, <1>4, <1>5, SameCarries, CatalogsGrow
  <1>7. calls' \in 0 .. MaxCalls BY <1>1, Counted
  <1>8. SettingsOK' BY <1>1, <1>7 DEF toolSlot, ToolsInv, SettingsOK
  <1>9. TargetsOK' BY <1>1, <1>4, TargetsStay DEF toolSlot, toolSession
  <1>10. SessionOK' BY <1>1, SessionStays DEF toolSlot, toolSession
  <1> QED BY <1>3, <1>4, <1>6, <1>8, <1>9, <1>10, WriteHolds

-----------------------------------------------------------------------------
(* Statements                                                              *)

LEMMA DdlHolds ==
  ASSUME ToolsInv, ~mode.readOnly, engine = "up", calls' \in 0 .. MaxCalls, NEW s \in Databases,
         NEW f, TablesOK(f), Ddl(s, f)
  PROVE  ToolsStep
  <1>1. /\ db' = [db EXCEPT ![s] = f] /\ AfterExecuteCatalogUpdate(db', s)
        /\ UNCHANGED toolSlot /\ UNCHANGED toolSession /\ UNCHANGED <<watched, querySaved, batch>> /\ stray' = stray
    BY DEF Ddl
  <1>2. s \in DOMAIN db /\ s \in Stores /\ DbOK(db) /\ CatalogsOK(catalog, db) BY DatabasesExist
  <1>3. DbOK(db') /\ DOMAIN db' = DOMAIN db BY <1>1, <1>2 DEF DbOK
  <1>4. CatalogsOK(catalog, db') /\ "persistent" \in Catalogs \cap DOMAIN db' /\ (s \in Aliases => s \in Catalogs \cap DOMAIN db')
    BY <1>2, <1>3, CatalogsGrow DEF DbOK, Catalogs
  <1>5. PICK p \in Phases, q \in Phases :
          LET shared == IF mode.persistent
                        THEN ReconcileIn(db', catalog, "persistent", p) ELSE catalog
          IN  /\ catalog' = IF p = "done" /\ s \in Aliases
                            THEN ReconcileIn(db', shared, s, q) ELSE shared
              /\ engine' = IF p = "done" /\ q = "done" THEN "up" ELSE "dead"
    BY <1>1 DEF AfterExecuteCatalogUpdate
  <1> DEFINE shared == IF mode.persistent THEN ReconcileIn(db', catalog, "persistent", p) ELSE catalog
  <1>6. CatalogsOK(shared, db') /\ ProseCarried(catalog, shared, db')
    <2>1. CASE mode.persistent
      <3>1. CatalogsOK(ReconcileIn(db', catalog, "persistent", p), db')
            /\ ProseCarried(catalog, ReconcileIn(db', catalog, "persistent", p), db')
        BY <1>3, <1>4, ReconciledIs
      <3> QED BY <2>1, <3>1
    <2>2. CASE ~mode.persistent BY <1>4, <2>2, SameCarries
    <2> QED BY <2>1, <2>2
  <1>7. /\ catalog' = IF p = "done" /\ s \in Aliases THEN ReconcileIn(db', shared, s, q) ELSE shared
        /\ engine' \in {"up", "dead"}
    BY <1>5
  <1> HIDE DEF shared
  <1>8. CatalogsOK(catalog', db') /\ ProseCarried(catalog, catalog', db')
    <2>1. CASE p = "done" /\ s \in Aliases
      <3>1. CatalogsOK(ReconcileIn(db', shared, s, q), db') /\ ProseCarried(shared, ReconcileIn(db', shared, s, q), db')
        BY <1>3, <1>4, <1>6, <2>1, ReconciledIs
      <3>2. catalog' = ReconcileIn(db', shared, s, q) BY <1>7, <2>1
      <3> QED BY <1>6, <3>1, <3>2, CarriedOn
    <2>2. CASE ~(p = "done" /\ s \in Aliases) BY <1>6, <1>7, <2>2
    <2> QED BY <2>1, <2>2
  <1>9. stray' \in BOOLEAN BY <1>1 DEF ToolsInv, SettingsOK
  <1>10. SettingsOK' /\ TargetsOK' /\ SessionOK' BY <1>1, <1>3, <1>7, <1>9, CallHolds
  <1> QED BY <1>3, <1>8, <1>10, WriteHolds

LEMMA DmlHolds ==
  ASSUME ToolsInv, ~mode.readOnly, engine = "up", calls' \in 0 .. MaxCalls, NEW s \in Databases, Dml(s)
  PROVE  ToolsStep
  <1>1. PICK t \in DOMAIN db[s], n \in Rows : db' = [db EXCEPT ![s][t] = n] BY DEF Dml
  <1>2. /\ engine' \in {"up", "dead"} /\ catalog' = catalog
        /\ UNCHANGED toolSlot /\ UNCHANGED toolSession /\ UNCHANGED <<watched, querySaved, batch>> /\ stray' = stray
    BY DEF Dml
  <1>3. s \in DOMAIN db /\ DbOK(db) /\ CatalogsOK(catalog, db) /\ TablesOK(db[s]) BY DatabasesExist
  <1> DEFINE f == [db[s] EXCEPT ![t] = n]
  <1>4. TablesOK(f) BY <1>3 DEF TablesOK
  <1>5. db' = [db EXCEPT ![s] = f] BY <1>1
  <1> HIDE DEF f
  <1>6. DbOK(db') /\ DOMAIN db' = DOMAIN db BY <1>3, <1>4, <1>5 DEF DbOK
  <1>7. CatalogsOK(catalog', db') /\ ProseCarried(catalog, catalog', db') BY <1>2, <1>3, <1>6, SameCarries, CatalogsGrow
  <1>8. stray' \in BOOLEAN BY <1>2 DEF ToolsInv, SettingsOK
  <1>9. SettingsOK' /\ TargetsOK' /\ SessionOK' BY <1>2, <1>6, <1>8, CallHolds
  <1> QED BY <1>6, <1>7, <1>9, WriteHolds

LEMMA ToolExecuteHolds == ASSUME ToolsInv, ToolExecute PROVE ToolsStep
  <1>1. ~mode.readOnly /\ engine = "up" /\ Count1 BY DEF ToolExecute, CheckWritable, WithEngine
  <1>2. calls' \in 0 .. MaxCalls BY <1>1, Counted
  <1>3. PICK s \in Databases : CreateTable(s) \/ DropTable(s) \/ RenameTable(s) \/ Dml(s) \/ StatementLost
    BY DEF ToolExecute
  <1>4. TablesOK(db[s]) BY DatabasesExist
  <1>5. CASE CreateTable(s)
    <2>1. PICK t \in UserTables, n \in Rows : Ddl(s, Put(db[s], t, n)) BY <1>5 DEF CreateTable
    <2>2. TablesOK(Put(db[s], t, n)) BY <1>4, TablesPut
    <2> QED BY <1>1, <1>2, <2>1, <2>2, DdlHolds
  <1>6. CASE DropTable(s)
    <2>1. PICK t \in DOMAIN db[s] : Ddl(s, Restrict(db[s], DOMAIN db[s] \ {t})) BY <1>6 DEF DropTable
    <2>2. TablesOK(Restrict(db[s], DOMAIN db[s] \ {t})) BY <1>4, TablesDropped
    <2> QED BY <1>1, <1>2, <2>1, <2>2, DdlHolds
  <1>7. CASE RenameTable(s)
    <2>1. PICK t \in DOMAIN db[s], u \in UserTables : Ddl(s, Put(Restrict(db[s], DOMAIN db[s] \ {t}), u, db[s][t]))
      BY <1>7 DEF RenameTable
    <2>2. TablesOK(Restrict(db[s], DOMAIN db[s] \ {t})) /\ db[s][t] \in Rows BY <1>4, TablesDropped DEF TablesOK
    <2>3. TablesOK(Put(Restrict(db[s], DOMAIN db[s] \ {t}), u, db[s][t])) BY <2>2, TablesPut
    <2> QED BY <1>1, <1>2, <2>1, <2>3, DdlHolds
  <1>8. CASE Dml(s) BY <1>1, <1>2, <1>8, DmlHolds
  <1>9. CASE StatementLost
    <2>1. DOMAIN db \subseteq DOMAIN db' /\ UNCHANGED <<db, catalog>> /\ DiscardEngine BY <1>9 DEF StatementLost
    <2> QED BY <1>2, <2>1, DiscardHolds, QuietStep
  <1> QED BY <1>3, <1>5, <1>6, <1>7, <1>8, <1>9

LEMMA SetTableMetadataHolds == ASSUME ToolsInv, SetTableMetadata PROVE ToolsStep
  <1>1. /\ ~mode.readOnly /\ engine = "up" /\ Count1 /\ engine' \in {"up", "dead"} /\ db' = db
        /\ UNCHANGED toolSlot /\ UNCHANGED toolSession /\ UNCHANGED <<watched, querySaved, batch>> /\ stray' = stray
    BY DEF SetTableMetadata, CheckWritable, WithEngine, Survives, LosesConnection
  <1>2. calls' \in 0 .. MaxCalls BY <1>1, Counted
  <1>3. stray' \in BOOLEAN /\ DOMAIN db \subseteq DOMAIN db' BY <1>1 DEF ToolsInv, SettingsOK
  <1>4. SettingsOK' /\ TargetsOK' /\ SessionOK' BY <1>1, <1>2, <1>3, CallHolds
  <1>5. PICK s \in Databases : LET c == ResolveCatalogAlias(s) IN
          /\ c \in DOMAIN catalog
          /\ \E t \in DOMAIN catalog[c] : LET live == ReconcileLiveTables(db, c) IN
               catalog' = [catalog EXCEPT ![c][t].prose =
                 [table |-> t, store |-> IF t \in DOMAIN live THEN live[t] ELSE "none"]]
    BY DEF SetTableMetadata
  <1> DEFINE c == ResolveCatalogAlias(s)
             live == ReconcileLiveTables(db, c)
  <1>6. PICK t \in DOMAIN catalog[c] : catalog' = [catalog EXCEPT ![c][t].prose =
                 [table |-> t, store |-> IF t \in DOMAIN live THEN live[t] ELSE "none"]]
    BY <1>5
  <1>7. c \in DOMAIN catalog BY <1>5
  <1>8. DbOK(db) /\ DbOK(db') /\ CatalogsOK(catalog, db) BY <1>1 DEF ToolsInv, DataOK, DbOK
  <1>9. t \in UserTables /\ catalog[c][t] \in CatalogRow /\ c \in Catalogs
    BY <1>6, <1>7, <1>8 DEF CatalogsOK, CatalogRowsOK
  <1>10. \A u \in DOMAIN live : live[u] \in Stores BY <1>9 DEF ReconcileLiveTables, Stores, Catalogs
  <1> HIDE DEF c, live
  <1> DEFINE prose == [table |-> t, store |-> IF t \in DOMAIN live THEN live[t] ELSE "none"]
             row == [catalog[c][t] EXCEPT !.prose = prose]
             f == [catalog[c] EXCEPT ![t] = row]
  <1>11. catalog' = [catalog EXCEPT ![c] = f] BY <1>6
  <1>12. prose \in [table : UserTables \cup {"none"}, store : Stores \cup {"none"}] /\ prose # NoProse
    <2>1. prose \in [table : UserTables \cup {"none"}, store : Stores \cup {"none"}] BY <1>9, <1>10
    <2>2. prose.table # NoProse.table BY <1>9, ToolsAssumption DEF NoProse
    <2> QED BY <2>1, <2>2
  <1> HIDE DEF prose
  <1>13. row \in CatalogRow /\ row.prose = prose BY <1>9, <1>12 DEF CatalogRow
  <1> HIDE DEF row
  <1>14. CatalogRowsOK(f) /\ DOMAIN f = DOMAIN catalog[c] BY <1>7, <1>8, <1>13 DEF CatalogsOK, CatalogRowsOK
  <1>15. \A x \in DOMAIN catalog[c] : catalog[c][x].prose # NoProse => f[x].prose # NoProse BY <1>12, <1>13
  <1> HIDE DEF f
  <1>16. CatalogsOK(catalog', db') BY <1>1, <1>7, <1>8, <1>11, <1>14 DEF CatalogsOK
  <1>17. ProseCarried(catalog, catalog', db') BY <1>7, <1>11, <1>14, <1>15 DEF ProseCarried
  <1> QED BY <1>1, <1>4, <1>8, <1>16, <1>17, WriteHolds

-----------------------------------------------------------------------------
(* Attachments                                                             *)

\* A file is created when it is attached and missing.
LEMMA FileCreated ==
  ASSUME ToolsInv, NEW a \in Aliases, a \notin DOMAIN db, db' = Put(db, a, EmptyFcn)
  PROVE  /\ DbOK(db') /\ DOMAIN db' = DOMAIN db \cup {a}
         /\ CatalogsOK(catalog, db') /\ \A s \in DOMAIN db : db'[s] = db[s]
  <1>1. DbOK(db) /\ CatalogsOK(catalog, db) BY DEF ToolsInv, DataOK
  <1>2. a \in Stores BY DEF Stores
  <1>3. DOMAIN db' = DOMAIN db \cup {a} /\ db'[a] = EmptyFcn /\ \A s \in DOMAIN db : db'[s] = db[s] BY DEF Put
  <1>4. DbOK(db') BY <1>1, <1>2, <1>3, TablesEmpty DEF DbOK
  <1>5. CatalogsOK(catalog, db') BY <1>1, <1>3 DEF CatalogsOK
  <1> QED BY <1>3, <1>4, <1>5

LEMMA AttachHolds ==
  ASSUME ToolsInv, WithEngine, NEW a \in Aliases, NEW writable \in BOOLEAN, writable => CheckWritable,
         Attach(a, writable), engine' \in {"up", "dead"}, UNCHANGED <<toolSlot, watched, querySaved, batch, stray>>
  PROVE  ToolsStep
  <1>1. /\ engine = "up" /\ calls' \in 0 .. MaxCalls /\ UNCHANGED <<mode, catalogReady>>
    BY Counted DEF WithEngine, toolSlot
  <1>2. DbOK(db) /\ CatalogsOK(catalog, db) BY DEF ToolsInv, DataOK
  <1>3. /\ DbOK(db') /\ CatalogsOK(catalog', db') /\ ProseKept /\ DurableDataKept
        /\ DOMAIN db' = DOMAIN db \cup {a}
    <2>1. CASE a \in DOMAIN db
      <3>1. db' = db /\ catalog' = catalog BY <2>1 DEF Attach
      <3> QED BY <1>2, <2>1, <3>1, DataStays
    <2>2. CASE a \notin DOMAIN db
      <3>1. /\ db' = Put(db, a, EmptyFcn) /\ catalog' = EnsureExists(catalog, a) /\ ~mode.readOnly
        BY <2>2 DEF Attach, CheckWritable
      <3>2. /\ DbOK(db') /\ DOMAIN db' = DOMAIN db \cup {a} /\ CatalogsOK(catalog, db')
        BY <2>2, <3>1, FileCreated
      <3>3. a \in Catalogs \cap DOMAIN db' BY <3>2 DEF Catalogs
      <3>4. CatalogsOK(catalog', db') BY <3>1, <3>2, <3>3, EnsuredIs
      <3>5. ProseCarried(catalog, catalog', db') BY <3>1, EnsureCarries
      <3>6. ProseKept BY <3>5 DEF ProseCarried, ProseKept
      <3> QED BY <3>1, <3>2, <3>4, <3>6 DEF DurableDataKept
    <2> QED BY <2>1, <2>2
  <1>4. SettingsOK' BY <1>1 DEF ToolsInv, SettingsOK
  <1>5. /\ DOMAIN registry' = DOMAIN registry \cup {a} /\ attached' = attached \cup {a} /\ path' = "local"
    BY DEF Attach, Put
  <1>6. TargetsOK'
    <2>1. batch = NoBatch \/ batch \in [store : DOMAIN db', todo : SUBSET UserTables, done : SUBSET UserTables, current : BOOLEAN]
      BY <1>3 DEF ToolsInv, TargetsOK
    <2> QED BY <1>1, <1>3, <1>5, <2>1 DEF ToolsInv, TargetsOK
  <1>7. SessionOK' BY <1>1, <1>5 DEF ToolsInv, SessionOK, NamesResolveInPrimary, RegistryMatchesSession
  <1> QED BY <1>3, <1>4, <1>6, <1>7 DEF ToolsStep, ToolsInv, DataOK

\* After the last attachment is gone
LEMMA PathReset ==
  ASSUME ToolsInv, engine = "up", mode' = mode, attached' = DOMAIN registry', attached' \subseteq attached,
         path' = IF DOMAIN registry' = {} THEN ResetSearchPath ELSE path
  PROVE  SessionOK'
  <1>1. path = "local" \/ (path = "default" /\ attached = {} /\ ~mode.persistent)
    BY DEF ToolsInv, SessionOK, NamesResolveInPrimary
  <1>2. NamesResolveInPrimary' BY <1>1 DEF ResetSearchPath, NamesResolveInPrimary
  <1> QED BY <1>2 DEF ToolsInv, SessionOK, RegistryMatchesSession

LEMMA AttachDatabaseHolds == ASSUME ToolsInv, AttachDatabase PROVE ToolsStep
  <1>1. WithEngine /\ UNCHANGED <<toolSlot, watched, querySaved, batch, stray>> BY DEF AttachDatabase
  <1>2. PICK a \in Aliases, writable \in BOOLEAN :
          /\ writable => CheckWritable
          /\ \/ Attach(a, writable) /\ engine' \in {"up", "dead"}
             \/ writable /\ AttachRollback(a) /\ Survives
    BY DEF AttachDatabase
  <1>3. CASE Attach(a, writable) /\ engine' \in {"up", "dead"} BY <1>1, <1>2, <1>3, AttachHolds
  <1>4. CASE writable /\ AttachRollback(a) /\ Survives
    <2>1. /\ engine = "up" /\ engine' = "up" /\ calls' \in 0 .. MaxCalls /\ UNCHANGED <<mode, catalogReady>> /\ ~mode.readOnly
      BY <1>1, <1>2, <1>4, Counted DEF WithEngine, toolSlot, Survives, CheckWritable
    <2>2. /\ a \notin DOMAIN db /\ db' = Put(db, a, EmptyFcn) /\ UNCHANGED <<catalog, registry, attached>>
          /\ path' = IF DOMAIN registry = {} THEN ResetSearchPath ELSE path
      BY <1>4 DEF AttachRollback
    <2>3. /\ DbOK(db') /\ DOMAIN db' = DOMAIN db \cup {a} /\ CatalogsOK(catalog, db') BY <2>2, FileCreated
    <2>4. SettingsOK' BY <1>1, <2>1 DEF ToolsInv, SettingsOK
    <2>5. TargetsOK'
      <3>1. DOMAIN db \subseteq DOMAIN db' BY <2>3
      <3> QED BY <1>1, <2>1, <2>2, <3>1, TargetsStay
    <2>6. SessionOK'
      <3>1. attached = DOMAIN registry BY <2>1 DEF ToolsInv, SessionOK, RegistryMatchesSession
      <3> QED BY <2>1, <2>2, <3>1, PathReset
    <2>7. ProseCarried(catalog, catalog', db') /\ CatalogsOK(catalog', db') BY <2>2, <2>3, SameCarries
    <2> QED BY <2>1, <2>3, <2>4, <2>5, <2>6, <2>7, WriteHolds
  <1> QED BY <1>2, <1>3, <1>4

LEMMA ToolDetachDatabaseHolds == ASSUME ToolsInv, ToolDetachDatabase PROVE ToolsStep
  <1>1. /\ engine = "up" /\ engine' \in {"up", "dead"} /\ calls' \in 0 .. MaxCalls
        /\ UNCHANGED <<mode, catalogReady>> /\ UNCHANGED <<db, catalog>> /\ UNCHANGED <<watched, querySaved, batch, stray>>
    BY Counted DEF ToolDetachDatabase, WithEngine, toolSlot
  <1>2. PICK a \in DOMAIN registry : Detach(a) BY DEF ToolDetachDatabase
  <1>3. /\ DOMAIN registry' = DOMAIN registry \ {a} /\ attached' = attached \ {a}
        /\ path' = IF DOMAIN registry' = {} THEN ResetSearchPath ELSE path
    BY <1>2 DEF Detach, Restrict
  <1>4. attached = DOMAIN registry BY <1>1 DEF ToolsInv, SessionOK, RegistryMatchesSession
  <1>5. SettingsOK' BY <1>1 DEF ToolsInv, SettingsOK
  <1>6. TargetsOK' BY <1>1, <1>3 DEF ToolsInv, TargetsOK
  <1>7. SessionOK' BY <1>1, <1>3, <1>4, PathReset
  <1> QED BY <1>1, <1>5, <1>6, <1>7, QuietStep

LEMMA WatchesHold == ASSUME ToolsInv, WatchDirectory \/ UnwatchDirectory PROVE ToolsStep
  <1>1. Count1 /\ UNCHANGED <<engine, toolSlot, db, catalog, toolSession, querySaved, batch, stray>>
    BY DEF WatchDirectory, UnwatchDirectory, WithEngine
  <1>2. watched' \subseteq DOMAIN db /\ (mode.readOnly => watched' = {})
    <2>1. CASE WatchDirectory
      <3>1. PICK s \in Databases : watched' = watched \cup {s} BY <2>1 DEF WatchDirectory
      <3>2. s \in DOMAIN db BY DatabasesExist
      <3> QED BY <2>1, <3>1, <3>2 DEF WatchDirectory, CheckWritable, ToolsInv, TargetsOK
    <2>2. CASE UnwatchDirectory BY <2>2 DEF UnwatchDirectory, ToolsInv, TargetsOK
    <2> QED BY <2>1, <2>2
  <1>3. calls' \in 0 .. MaxCalls BY <1>1, Counted
  <1>4. SettingsOK' BY <1>1, <1>3 DEF toolSlot, ToolsInv, SettingsOK
  <1>5. TargetsOK' BY <1>1, <1>2 DEF toolSlot, toolSession, ToolsInv, TargetsOK
  <1>6. SessionOK' BY <1>1, SessionStays DEF toolSlot, toolSession
  <1> QED BY <1>1, <1>4, <1>5, <1>6, QuietStep

LEMMA CopiedData ==
  ASSUME ToolsInv, NEW s \in DOMAIN db, NEW t \in UserTables, CopyData(s, t)
  PROVE  DbOK(db') /\ DOMAIN db' = DOMAIN db /\ db'[s][t] \in Int
  <1>1. PICK m \in Rows : db' = [db EXCEPT ![s] = Put(@, t, m)] BY DEF CopyData
  <1>2. m \in Int BY ToolsAssumption DEF Rows
  <1>3. DbOK(db') BY <1>1, LoadedData
  <1>4. DOMAIN db' = DOMAIN db /\ db'[s][t] = m BY <1>1 DEF Put
  <1> QED BY <1>2, <1>3, <1>4

LEMMA CopyQueryHolds == ASSUME ToolsInv, CopyQuery PROVE ToolsStep
  <1>1. /\ ~mode.readOnly /\ engine = "up" /\ calls' \in 0 .. MaxCalls
        /\ UNCHANGED toolSlot /\ UNCHANGED toolSession /\ UNCHANGED <<watched, querySaved, batch>> /\ stray' = stray
    BY Counted DEF CopyQuery, WithEngine, CheckWritable
  <1>2. PICK s \in {"local"} \cup DOMAIN registry, t \in UserTables :
          /\ CopyData(s, t)
          /\ IF s = "local" THEN AfterIngestCatalogUpdate(s, t, db'[s][t]) ELSE UNCHANGED <<engine, catalog>>
    BY DEF CopyQuery
  <1>3. s \in Databases BY DEF Databases
  <1>4. s \in DOMAIN db /\ CatalogsOK(catalog, db) BY <1>3, DatabasesExist
  <1>5. DbOK(db') /\ DOMAIN db' = DOMAIN db /\ db'[s][t] \in Int BY <1>2, <1>4, CopiedData
  <1>6. /\ engine' \in {"up", "dead"} /\ CatalogsOK(catalog', db') /\ ProseCarried(catalog, catalog', db')
    <2>1. CASE s = "local" BY <1>1, <1>2, <1>3, <1>5, <2>1, CatalogUpdated
    <2>2. CASE s # "local"
      <3>1. UNCHANGED <<engine, catalog>> BY <1>2, <2>2
      <3> QED BY <1>1, <1>4, <1>5, <3>1, SameCarries, CatalogsGrow
    <2> QED BY <2>1, <2>2
  <1>7. stray' \in BOOLEAN BY <1>1 DEF ToolsInv, SettingsOK
  <1>8. SettingsOK' /\ TargetsOK' /\ SessionOK' BY <1>1, <1>5, <1>6, <1>7, CallHolds
  <1> QED BY <1>1, <1>5, <1>6, <1>8, WriteHolds

LEMMA CopyQueryWithTempAttachHolds == ASSUME ToolsInv, CopyQueryWithTempAttach PROVE ToolsStep
  <1>1. /\ ~mode.readOnly /\ engine = "up" /\ calls' \in 0 .. MaxCalls
        /\ UNCHANGED <<mode, watched, querySaved, batch, stray>>
    BY Counted DEF CopyQueryWithTempAttach, WithEngine, CheckWritable
  <1>2. PICK a \in DOMAIN db \cap Aliases, t \in UserTables :
         \/ /\ CopyData("local", t)
            /\ AfterIngestCatalogUpdate("local", t, db'["local"][t])
            /\ path' = IF DOMAIN registry = {} THEN ResetSearchPath ELSE path
            /\ UNCHANGED <<registry, attached, catalogReady>>
         \/ /\ CopyData("local", t) \/ UNCHANGED db
            /\ registry' = Put(registry, a, [writable |-> FALSE])
            /\ engine' = "none"
            /\ catalogReady' = FALSE
            /\ attached' = {}
            /\ path' = "default"
            /\ UNCHANGED catalog
    BY DEF CopyQueryWithTempAttach
  <1>3. "local" \in Databases BY DEF Databases
  <1>4. "local" \in DOMAIN db /\ DbOK(db) /\ CatalogsOK(catalog, db) BY <1>3, DatabasesExist
  <1>5. CopyData("local", t) => DbOK(db') /\ DOMAIN db' = DOMAIN db /\ db'["local"][t] \in Int BY <1>4, CopiedData
  <1>6. CASE /\ CopyData("local", t)
             /\ AfterIngestCatalogUpdate("local", t, db'["local"][t])
             /\ path' = IF DOMAIN registry = {} THEN ResetSearchPath ELSE path
             /\ UNCHANGED <<registry, attached, catalogReady>>
    <2>1. /\ engine' \in {"up", "dead"} /\ CatalogsOK(catalog', db') /\ ProseCarried(catalog, catalog', db')
      BY <1>1, <1>3, <1>5, <1>6, CatalogUpdated
    <2>2. SettingsOK' BY <1>1, <1>6, <2>1 DEF ToolsInv, SettingsOK
    <2>3. TargetsOK' BY <1>1, <1>5, <1>6, TargetsStay
    <2>4. attached = DOMAIN registry BY <1>1 DEF ToolsInv, SessionOK, RegistryMatchesSession
    <2>5. SessionOK' BY <1>1, <1>6, <2>4, PathReset
    <2> QED BY <1>1, <1>5, <1>6, <2>1, <2>2, <2>3, <2>5, WriteHolds
  <1>7. CASE /\ CopyData("local", t) \/ UNCHANGED db
             /\ registry' = Put(registry, a, [writable |-> FALSE])
             /\ engine' = "none" /\ catalogReady' = FALSE /\ attached' = {} /\ path' = "default"
             /\ UNCHANGED catalog
    <2>1. DbOK(db') /\ DOMAIN db' = DOMAIN db BY <1>4, <1>5, <1>7
    <2>2. CatalogsOK(catalog', db') /\ ProseCarried(catalog, catalog', db') BY <1>4, <1>7, <2>1, SameCarries, CatalogsGrow
    <2>3. SettingsOK' BY <1>1, <1>7 DEF ToolsInv, SettingsOK
    <2>4. DOMAIN registry' = DOMAIN registry \cup {a} BY <1>7 DEF Put
    <2>5. TargetsOK' BY <1>1, <2>1, <2>4 DEF ToolsInv, TargetsOK
    <2>6. SessionOK' BY <1>7, SessionGone
    <2> QED BY <1>1, <2>1, <2>2, <2>3, <2>5, <2>6, WriteHolds
  <1> QED BY <1>2, <1>6, <1>7

-----------------------------------------------------------------------------
LEMMA ToolsInitHolds == ToolsInit => ToolsInv
  <1> SUFFICES ASSUME ToolsInit PROVE ToolsInv OBVIOUS
  <1>1. SettingsOK
    <2>1. calls \in 0 .. MaxCalls BY ToolsAssumption DEF ToolsInit
    <2> QED BY <2>1 DEF ToolsInit, SettingsOK
  <1>2. catalog = EmptyFcn /\ registry = EmptyFcn /\ DOMAIN EmptyFcn = {} BY EmptyFcnIs DEF ToolsInit
  <1>3. DbOK(db)
    <2>1. PICK files \in SUBSET Aliases, old \in SUBSET UserTables :
            db = [s \in {"local", "persistent"} \cup files |->
                    IF s = "persistent" /\ mode.persistent THEN [t \in old |-> 1] ELSE EmptyFcn]
      BY DEF ToolsInit
    <2>2. TablesOK([t \in old |-> 1])
      <3>1. 1 \in Rows BY ToolsAssumption DEF Rows
      <3> QED BY <3>1 DEF TablesOK
    <2>3. DOMAIN db = {"local", "persistent"} \cup files BY <2>1
    <2>4. \A s \in DOMAIN db : db[s] \in {[t \in old |-> 1], EmptyFcn} BY <2>1
    <2> QED BY <2>2, <2>3, <2>4, TablesEmpty DEF DbOK, Stores
  <1>4. DataOK BY <1>2, <1>3 DEF DataOK, CatalogsOK
  <1>5. TargetsOK BY <1>2 DEF ToolsInit, TargetsOK
  <1>6. SessionOK BY DEF ToolsInit, SessionOK, NamesResolveInPrimary, RegistryMatchesSession
  <1> QED BY <1>1, <1>4, <1>5, <1>6 DEF ToolsInv

LEMMA ToolsNextHolds == ASSUME ToolsInv, ToolsNext PROVE ToolsStep
  <1>1. CASE EnsureEngine BY <1>1, EnsureEngineHolds
  <1>2. CASE EnsureCatalogReady BY <1>2, EnsureCatalogReadyHolds
  <1>3. CASE ToolsHyperdDies BY <1>3, ToolsHyperdDiesHolds
  <1>4. CASE CallOnDeadConnection \/ CallPanics BY <1>4, DiscardsHold
  <1>5. CASE LoadData \/ LoadFile \/ LoadIceberg BY <1>5, LoadsHold
  <1>6. CASE WatcherIngest BY <1>6, WatcherIngestHolds
  <1>7. CASE LoadFilesStart BY <1>7, LoadFilesStartHolds
  <1>8. CASE LoadFilesEntry BY <1>8, LoadFilesEntryHolds
  <1>9. CASE LoadFilesFinish BY <1>9, LoadFilesFinishHolds
  <1>10. CASE ToolExecute BY <1>10, ToolExecuteHolds
  <1>11. CASE ReadTool BY <1>11, ReadToolHolds
  <1>12. CASE SetTableMetadata BY <1>12, SetTableMetadataHolds
  <1>13. CASE ToolSaveQuery \/ ToolDeleteQuery BY <1>13, SavedQueriesHold
  <1>14. CASE AttachDatabase BY <1>14, AttachDatabaseHolds
  <1>15. CASE ToolDetachDatabase BY <1>15, ToolDetachDatabaseHolds
  <1>16. CASE WatchDirectory \/ UnwatchDirectory BY <1>16, WatchesHold
  <1>17. CASE CopyQuery BY <1>17, CopyQueryHolds
  <1>18. CASE CopyQueryWithTempAttach BY <1>18, CopyQueryWithTempAttachHolds
  <1> QED BY <1>1, <1>2, <1>3, <1>4, <1>5, <1>6, <1>7, <1>8, <1>9, <1>10, <1>11, <1>12, <1>13, <1>14, <1>15, <1>16,
             <1>17, <1>18
          DEF ToolsNext, Query, Sample, Chart, Describe, Export, ListAttachedDatabases, ToolReadResource, QueryData, QueryFile

LEMMA ToolsStepHolds == ToolsInv /\ [ToolsNext]_toolVars => ToolsInv' /\ [ProseKept]_toolVars /\ [DurableDataKept]_toolVars
  <1> SUFFICES ASSUME ToolsInv, [ToolsNext]_toolVars
               PROVE  ToolsInv' /\ [ProseKept]_toolVars /\ [DurableDataKept]_toolVars
    OBVIOUS
  <1>1. CASE ToolsNext BY <1>1, ToolsNextHolds DEF ToolsStep
  <1>2. CASE UNCHANGED toolVars
    <2>1. SettingsOK' BY <1>2 DEF toolVars, ToolsInv, SettingsOK
    <2>2. UNCHANGED <<db, catalog>> /\ DOMAIN db \subseteq DOMAIN db' BY <1>2 DEF toolVars
    <2>3. TargetsOK' BY <1>2, <2>2, TargetsStay DEF toolVars
    <2>4. SessionOK' BY <1>2, SessionStays DEF toolVars
    <2> QED BY <1>2, <2>1, <2>2, <2>3, <2>4, QuietStep DEF ToolsStep
  <1> QED BY <1>1, <1>2

\* Across calls, lost connections and new engines the tools keep the user's
\* data: the session is the one the registry and the names mean, prose written
\* about a table outlives every reload and every reconciliation, also one cut
\* short, and a read-only server changes nothing durable.
THEOREM ToolsKeepTheData == ToolsSpec => ToolsKeepUserData
  <1>1. ToolsInit => ToolsInv BY ToolsInitHolds
  <1>2. ToolsInv /\ [ToolsNext]_toolVars => ToolsInv' /\ [ProseKept]_toolVars /\ [DurableDataKept]_toolVars
    BY ToolsStepHolds
  <1>3. ToolsInv => ToolsTypeOK /\ NamesResolveInPrimary /\ RegistryMatchesSession BY ToolsInvSays
  <1> QED BY <1>1, <1>2, <1>3, PTL DEF ToolsSpec, ToolsKeepUserData, ProseSurvives, ReadOnlyKeepsDurableData
=============================================================================
