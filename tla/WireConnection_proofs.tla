----------------------- MODULE WireConnection_proofs -----------------------
(***************************************************************************)
(* Proofs about the wire connections of WireConnection.tla and             *)
(* AsyncWire.tla, for every bound on requests, rows, frames and messages   *)
(* in flight, and every chunk size and drain budget.                       *)
(*                                                                         *)
(* CleanWhenFree speaks of a free connection and of nothing else, so it is *)
(* not inductive.  The invariant behind it, Conversation, says where a     *)
(* request and its reply are while the connection is in use: the request   *)
(* is still on its way (Asked), or the server is answering it (Answering), *)
(* or the reply lies on the wire with its ReadyForQuery last (Answered).   *)
(* It holds while the connection is InStep; a connection that is not can   *)
(* never be again, which is what makes the desynchronized flag sound.      *)
(*                                                                         *)
(* The argument for the asynchronous connection, in the second part, is    *)
(* the same with one case more: a COPY stays open between calls, so the    *)
(* request that the wire belongs to is that of the call (ReadsAt) or that  *)
(* of the COPY (CopyAt), and a writer may outlive the health of its        *)
(* connection (Apart).                                                     *)
(***************************************************************************)
EXTENDS WireConnection, AsyncWire, SequenceTheorems, TLAPS

-----------------------------------------------------------------------------
(* What may lie on the wire                                                *)

\* No request is among the frames s.
NoKinds(s) == \A i \in 1 .. Len(s) : s[i].k \notin Kinds

\* The frames s hold one request, of a kind in ks and with identity id.
Asks(s, id, ks) ==
    \E i \in 1 .. Len(s) :
        /\ s[i].k \in ks
        /\ s[i].id = id
        /\ \A j \in 1 .. Len(s) : j # i => s[j].k \notin Kinds

\* Every message of s answers the request id.
Own(s, id) == \A i \in 1 .. Len(s) : s[i].id = id

\* No message of s belongs to a request after the n-th.
UpTo(s, n) == \A i \in 1 .. Len(s) : s[i].id <= n

NoReady(s) == \A i \in 1 .. Len(s) : s[i].k # "ready"

ReadyOnlyLast(s) == \A i \in 1 .. Len(s) - 1 : s[i].k # "ready"

EndsReady(s) == s # <<>> /\ s[Len(s)].k = "ready"

\* The message start_copy_in waits for is in s.
Decided(s) == \E i \in 1 .. Len(s) : s[i].k \in {"copyInResponse", "error"}

-----------------------------------------------------------------------------
(* The inductive invariant                                                 *)

\* Identities: the holder of the lock is the last request issued, the server
\* never runs a request that was not issued, and a Drop that waits for its
\* cancel is the only one with a cancel under way.
IdsOK ==
    /\ op.phase # "free" => op.id = issued /\ issued \in Ids
    /\ srv.mode # "idle" => srv.id \in Ids
    /\ srv.id <= issued
    /\ UpTo(toServer, issued)
    /\ UpTo(writeBuf, issued)
    /\ \A c \in cancels :
          c.by = "drop" => op.phase = "cancelWait" /\ c.target = op.id
    /\ strayCancels = {}

Awaited == IF op.phase = "copyIn" THEN {"copyIn"} ELSE Kinds

\* The request of the holder has not reached the server.
Asked ==
    /\ srv.mode = "idle"
    /\ toClient = <<>>
    /\ Asks(toServer, op.id, Awaited)

\* The server is busy with it.
Answering ==
    /\ srv.mode # "idle"
    /\ srv.id = op.id
    /\ NoKinds(toServer)
    /\ NoReady(toClient)
    /\ op.phase = "copyIn" =>
          IF srv.mode = "run" THEN srv.kind = "copyIn" ELSE Decided(toClient)

\* The server is done with it, and the client not yet.
Answered ==
    /\ srv.mode = "idle"
    /\ NoKinds(toServer)
    /\ EndsReady(toClient)
    /\ op.phase = "copyIn" => Decided(toClient)

\* The connection is free of the flag, or its holder passed ensure_healthy
\* before the flag was set; and no COPY OUT was left in the middle.
InStep ==
    /\ ~abandoned
    /\ ~desynchronized \/ (op.phase # "free" /\ op.checked)

\* What holds on the client's side whether the link is up or not.
ClientSide ==
    /\ op.phase = "free" => toClient = <<>>
    /\ op.phase # "free" => Own(toClient, op.id)
    /\ ReadyOnlyLast(toClient)

\* What holds on the server's side while the link is up.
ServerSide ==
    /\ NoKinds(writeBuf)
    /\ writeBuf # <<>> => op.phase = "writer"
    /\ op.phase = "free" => srv.mode = "idle" /\ NoKinds(toServer)
    /\ op.phase # "free" => Asked \/ Answering \/ Answered

Conversation == InStep => ClientSide /\ (link => ServerSide)

WireInv ==
    /\ TypeOK
    /\ IdsOK
    /\ Conversation
    /\ RepliesAreOwn

-----------------------------------------------------------------------------
(* Sequences of frames                                                     *)

LEMMA FramesAppend ==
    ASSUME NEW K, NEW s \in Seq(MessageOf(K)), NEW e \in MessageOf(K)
    PROVE  /\ Append(s, e) \in Seq(MessageOf(K))
           /\ NoKinds(s) /\ e.k \notin Kinds => NoKinds(Append(s, e))
           /\ \A n : UpTo(s, n) /\ e.id <= n => UpTo(Append(s, e), n)
  BY DEF NoKinds, UpTo

LEMMA FramesConcat ==
    ASSUME NEW K, NEW s \in Seq(MessageOf(K)), NEW t \in Seq(MessageOf(K))
    PROVE  /\ s \o t \in Seq(MessageOf(K))
           /\ NoKinds(s) /\ NoKinds(t) => NoKinds(s \o t)
           /\ \A n : UpTo(s, n) /\ UpTo(t, n) => UpTo(s \o t, n)
           /\ \A id, ks : Asks(s, id, ks) /\ NoKinds(t) => Asks(s \o t, id, ks)
<1>1. s \o t \in Seq(MessageOf(K))
  OBVIOUS
<1>2. /\ Len(s) \in Nat /\ Len(t) \in Nat /\ Len(s \o t) = Len(s) + Len(t)
      /\ \A i \in 1 .. Len(s \o t) :
            (s \o t)[i] = IF i <= Len(s) THEN s[i] ELSE t[i - Len(s)]
  OBVIOUS
<1> QED
  BY <1>1, <1>2 DEF NoKinds, UpTo, Asks

\* A request written after frames that hold none is the one request.
LEMMA FramesAsk ==
    ASSUME NEW K, NEW s \in Seq(MessageOf(K)), NEW e \in MessageOf(K),
           NoKinds(s), NEW ks, e.k \in ks
    PROVE  Asks(s \o Append(<<>>, e), e.id, ks)
<1> DEFINE t == s \o Append(<<>>, e)
<1>1. Len(t) = Len(s) + 1 /\ t[Len(s) + 1] = e
  OBVIOUS
<1>2. \A j \in 1 .. Len(t) : j # Len(s) + 1 => t[j] = s[j] /\ j \in 1 .. Len(s)
  OBVIOUS
<1> QED
  BY <1>1, <1>2 DEF Asks, NoKinds

LEMMA FramesTail ==
    ASSUME NEW K, NEW s \in Seq(MessageOf(K)), s # <<>>
    PROVE  /\ Tail(s) \in Seq(MessageOf(K)) /\ Head(s) \in MessageOf(K)
           /\ NoKinds(s) => NoKinds(Tail(s)) /\ Head(s).k \notin Kinds
           /\ \A n : UpTo(s, n) => UpTo(Tail(s), n) /\ Head(s).id <= n
           /\ \A id, ks : Asks(s, id, ks) /\ Head(s).k \notin ks =>
                             Asks(Tail(s), id, ks)
           /\ \A id, ks : Asks(s, id, ks) /\ Head(s).k \in Kinds =>
                 /\ Head(s).id = id /\ Head(s).k \in ks
                 /\ NoKinds(Tail(s))
<1>1. /\ Tail(s) \in Seq(MessageOf(K)) /\ Head(s) \in MessageOf(K)
      /\ Head(s) = s[1] /\ Len(s) \in Nat /\ Len(s) >= 1
      /\ Len(Tail(s)) = Len(s) - 1
      /\ \A i \in 1 .. Len(s) - 1 : Tail(s)[i] = s[i + 1]
  OBVIOUS
<1>2. NoKinds(s) => NoKinds(Tail(s)) /\ Head(s).k \notin Kinds
  BY <1>1 DEF NoKinds
<1>3. \A n : UpTo(s, n) => UpTo(Tail(s), n) /\ Head(s).id <= n
  BY <1>1 DEF UpTo
<1>4. ASSUME NEW id, NEW ks, Asks(s, id, ks)
      PROVE  /\ Head(s).k \notin ks => Asks(Tail(s), id, ks)
             /\ Head(s).k \in Kinds => /\ Head(s).id = id /\ Head(s).k \in ks
                                       /\ NoKinds(Tail(s))
  <2>1. PICK i \in 1 .. Len(s) :
               /\ s[i].k \in ks /\ s[i].id = id
               /\ \A j \in 1 .. Len(s) : j # i => s[j].k \notin Kinds
    BY <1>4 DEF Asks
  <2>2. CASE i = 1
    BY <1>1, <2>1, <2>2 DEF NoKinds
  <2>3. CASE i # 1
    <3>1. i - 1 \in 1 .. Len(Tail(s)) /\ Tail(s)[i - 1] = s[i]
      BY <1>1, <2>3
    <3>2. \A j \in 1 .. Len(Tail(s)) : j # i - 1 => Tail(s)[j].k \notin Kinds
      BY <1>1, <2>1
    <3> QED
      BY <1>1, <2>1, <2>3, <3>1, <3>2 DEF Asks
  <2> QED
    BY <2>2, <2>3
<1> QED
  BY <1>1, <1>2, <1>3, <1>4

LEMMA LaterRequest ==
    ASSUME NEW K, NEW s \in Seq(MessageOf(K)), NEW n \in Nat, UpTo(s, n)
    PROVE  UpTo(s, n + 1)
<1>1. \A i \in 1 .. Len(s) : s[i] \in MessageOf(K)
  OBVIOUS
<1>2. \A i \in 1 .. Len(s) : s[i].id \in Int
  BY <1>1 DEF MessageOf, Ids
<1> QED
  BY <1>2 DEF UpTo

LEMMA NothingInFlight ==
    /\ NoKinds(<<>>) /\ NoReady(<<>>) /\ ReadyOnlyLast(<<>>)
    /\ \A n : UpTo(<<>>, n) /\ Own(<<>>, n)
    /\ ~ EndsReady(<<>>) /\ ~ Decided(<<>>)
  BY DEF NoKinds, NoReady, ReadyOnlyLast, UpTo, Own, EndsReady, Decided

-----------------------------------------------------------------------------
(* Sequences of replies                                                    *)

LEMMA RepliesAppend ==
    ASSUME NEW s \in Seq(MessageOf(Replies)), NEW e \in MessageOf(Replies)
    PROVE  /\ Append(s, e) \in Seq(MessageOf(Replies))
           /\ Len(Append(s, e)) = Len(s) + 1
           /\ Own(s, e.id) => Own(Append(s, e), e.id)
           /\ NoReady(s) => ReadyOnlyLast(Append(s, e))
           /\ NoReady(s) /\ e.k # "ready" => NoReady(Append(s, e))
           /\ e.k = "ready" => EndsReady(Append(s, e))
           /\ Decided(s) \/ e.k \in {"copyInResponse", "error"} =>
                 Decided(Append(s, e))
<1> DEFINE t == Append(s, e)
<1>1. /\ t \in Seq(MessageOf(Replies)) /\ Len(s) \in Nat
      /\ Len(t) = Len(s) + 1 /\ t[Len(s) + 1] = e
      /\ \A i \in 1 .. Len(s) : t[i] = s[i]
  OBVIOUS
<1>2. t # <<>>
  BY <1>1
<1> HIDE DEF t
<1>3. Own(s, e.id) => Own(t, e.id)
  BY <1>1 DEF Own
<1>4. /\ NoReady(s) => ReadyOnlyLast(t)
      /\ NoReady(s) /\ e.k # "ready" => NoReady(t)
      /\ e.k = "ready" => EndsReady(t)
  BY <1>1, <1>2 DEF NoReady, ReadyOnlyLast, EndsReady
<1>5. Decided(s) \/ e.k \in {"copyInResponse", "error"} => Decided(t)
  BY <1>1 DEF Decided
<1> QED
  BY <1>1, <1>3, <1>4, <1>5 DEF t

LEMMA RepliesTail ==
    ASSUME NEW s \in Seq(MessageOf(Replies)), s # <<>>
    PROVE  /\ Tail(s) \in Seq(MessageOf(Replies))
           /\ Head(s) \in MessageOf(Replies)
           /\ Len(Tail(s)) = Len(s) - 1
           /\ \A id : Own(s, id) => Own(Tail(s), id) /\ Head(s).id = id
           /\ ReadyOnlyLast(s) => ReadyOnlyLast(Tail(s))
           /\ ReadyOnlyLast(s) /\ Head(s).k = "ready" => Tail(s) = <<>>
           /\ NoReady(s) => NoReady(Tail(s)) /\ Head(s).k # "ready"
           /\ EndsReady(s) /\ Head(s).k # "ready" => EndsReady(Tail(s))
           /\ Decided(s) /\ Head(s).k \notin {"copyInResponse", "error"} =>
                 Decided(Tail(s))
<1>1. /\ Tail(s) \in Seq(MessageOf(Replies)) /\ Head(s) \in MessageOf(Replies)
      /\ Head(s) = s[1] /\ Len(s) \in Nat /\ Len(s) >= 1
      /\ Len(Tail(s)) = Len(s) - 1
      /\ \A i \in 1 .. Len(s) - 1 : Tail(s)[i] = s[i + 1]
  OBVIOUS
<1>0. (Tail(s) = <<>>) <=> (Len(s) = 1)
  <2> DEFINE t == Tail(s)
  <2>1. t \in Seq(MessageOf(Replies)) /\ Len(t) = Len(s) - 1 /\ Len(s) \in Nat
    BY <1>1
  <2> HIDE DEF t
  <2>2. (t = <<>>) <=> (Len(t) = 0)
    BY <2>1, EmptySeq
  <2> QED
    BY <2>1, <2>2 DEF t
<1>2. \A id : Own(s, id) => Own(Tail(s), id) /\ Head(s).id = id
  BY <1>1 DEF Own
<1>3. /\ ReadyOnlyLast(s) => ReadyOnlyLast(Tail(s))
      /\ NoReady(s) => NoReady(Tail(s)) /\ Head(s).k # "ready"
  BY <1>1 DEF ReadyOnlyLast, NoReady
<1>4. ReadyOnlyLast(s) /\ Head(s).k = "ready" => Tail(s) = <<>>
  BY <1>0, <1>1 DEF ReadyOnlyLast
<1>5. EndsReady(s) /\ Head(s).k # "ready" => EndsReady(Tail(s))
  BY <1>0, <1>1 DEF EndsReady
<1>6. Decided(s) /\ Head(s).k \notin {"copyInResponse", "error"} =>
         Decided(Tail(s))
  <2>1. SUFFICES ASSUME NEW i \in 1 .. Len(s),
                        s[i].k \in {"copyInResponse", "error"},
                        Head(s).k \notin {"copyInResponse", "error"}
                 PROVE  Decided(Tail(s))
    BY DEF Decided
  <2>2. i - 1 \in 1 .. Len(Tail(s)) /\ Tail(s)[i - 1] = s[i]
    BY <1>1, <2>1
  <2> QED
    BY <2>1, <2>2 DEF Decided
<1> QED
  BY <1>1, <1>2, <1>3, <1>4, <1>5, <1>6

\* What is left of the replies when the link dies.
LEMMA RepliesPrefix ==
    ASSUME NEW s \in Seq(MessageOf(Replies)), NEW n \in 0 .. Len(s)
    PROVE  /\ SubSeq(s, 1, n) \in Seq(MessageOf(Replies))
           /\ Len(SubSeq(s, 1, n)) = n
           /\ s = <<>> => SubSeq(s, 1, n) = <<>>
           /\ \A id : Own(s, id) => Own(SubSeq(s, 1, n), id)
           /\ ReadyOnlyLast(s) => ReadyOnlyLast(SubSeq(s, 1, n))
<1> DEFINE t == SubSeq(s, 1, n)
<1>1. /\ t \in Seq(MessageOf(Replies)) /\ Len(s) \in Nat /\ Len(t) = n
      /\ \A i \in 1 .. n : t[i] = s[i]
  OBVIOUS
<1>2. s = <<>> => t = <<>>
  BY <1>1
<1> HIDE DEF t
<1> QED
  BY <1>1, <1>2 DEF Own, ReadyOnlyLast, t

-----------------------------------------------------------------------------
(* Types                                                                   *)

OpType == [phase : Phases, id : 0 .. MaxRequests, checked : BOOLEAN, n : Nat,
           rows : 0 .. MaxDataRows]

\* The counter of the phase of o is within that phase's budget.
WithinBudget(o) ==
    o.n <= IF o.phase = "chunk" THEN ChunkSize - 1
           ELSE IF o.phase \in {"errDrain", "abandon", "finishing", "cancelling"}
                THEN DrainCap ELSE 0

LEMMA OpFacts ==
    ASSUME TypeOK
    PROVE  /\ op \in OpType /\ WithinBudget(op)
           /\ desynchronized \in BOOLEAN /\ poisoned \in BOOLEAN
           /\ link \in BOOLEAN /\ abandoned \in BOOLEAN
  BY DEF TypeOK, OpType, WithinBudget

LEMMA NoRowsYet == 0 \in 0 .. MaxDataRows
  BY BoundsAssumption

LEMMA FreeTyped ==
    Free \in OpType /\ WithinBudget(Free) /\ Free.phase = "free"
  BY BoundsAssumption DEF Free, Phases, OpType, WithinBudget

\* Entering a phase keeps the identity and the check, and clears the counters.
LEMMA EnterTyped ==
    ASSUME op \in OpType, NEW p \in Phases
    PROVE  /\ Enter(p) \in OpType /\ WithinBudget(Enter(p))
           /\ Enter(p).phase = p /\ Enter(p).id = op.id
           /\ Enter(p).checked = op.checked
<1>1. Enter(p) \in OpType
  BY NoRowsYet DEF Enter, OpType
<1>2. /\ Enter(p).phase = p /\ Enter(p).id = op.id /\ Enter(p).n = 0
      /\ Enter(p).checked = op.checked
  BY DEF Enter, OpType
<1> QED
  BY <1>1, <1>2, BoundsAssumption DEF WithinBudget

\* A message is charged against the budget of the loop.
LEMMA ChargeTyped ==
    ASSUME op \in OpType, WithinBudget(op),
           op.n < DrainCap,
           op.phase \in {"errDrain", "abandon", "finishing", "cancelling"}
    PROVE  /\ [op EXCEPT !.n = @ + 1] \in OpType
           /\ WithinBudget([op EXCEPT !.n = @ + 1])
  BY BoundsAssumption DEF OpType, WithinBudget

LEMMA TakesReply ==
    ASSUME TypeOK, NEW ks, Read(ks)
    PROVE  /\ toClient' \in Seq(MessageOf(Replies))
           /\ Len(toClient') <= Capacity
           /\ Head(toClient) \in MessageOf(Replies)
           /\ Head(toClient).k \in ks
           /\ link' = link /\ toServer' = toServer
<1>1. toClient \in Seq(MessageOf(Replies)) /\ toClient # <<>>
  BY DEF TypeOK, Read
<1> QED
  BY <1>1, RepliesTail, BoundsAssumption DEF TypeOK, Read

LEMMA Flushes ==
    ASSUME TypeOK, NEW w \in Seq(MessageOf(Frames)),
           FlushSucceeds(w) \/ FlushFails(w)
    PROVE  writeBuf' \in Seq(MessageOf(Frames)) /\ toServer' \in Seq(MessageOf(Frames))
<1>1. writeBuf \in Seq(MessageOf(Frames)) /\ toServer \in Seq(MessageOf(Frames))
  BY DEF TypeOK
<1>2. toServer \o w \in Seq(MessageOf(Frames)) /\ <<>> \in Seq(MessageOf(Frames))
  BY <1>1, FramesConcat, EmptySeq
<1>3. CASE FlushSucceeds(w)
  BY <1>1, <1>2, <1>3 DEF FlushSucceeds
<1>4. CASE FlushFails(w)
  BY <1>1, <1>4 DEF FlushFails
<1> QED
  BY <1>3, <1>4

LEMMA RequestTypes ==
    ASSUME TypeOK, NEW kind \in Kinds, Request(kind)
    PROVE  TypeOK'
<1> DEFINE f == [k |-> kind, id |-> issued + 1]
<1>1. issued + 1 \in Ids
  BY BoundsAssumption, SMTT(20) DEF TypeOK, Request, Ids
<1>2. f \in MessageOf(Frames)
  BY <1>1 DEF MessageOf, Frames
<1>3. Append(writeBuf, f) \in Seq(MessageOf(Frames))
  BY <1>2, FramesAppend DEF TypeOK
<1>4. writeBuf' \in Seq(MessageOf(Frames)) /\ toServer' \in Seq(MessageOf(Frames))
  BY <1>3, Flushes DEF Request
<1>5. op' \in OpType /\ WithinBudget(op')
  <2>1. CASE op' = op
    BY <2>1, OpFacts
  <2>2. CASE op' = [Free EXCEPT !.phase = kind, !.id = issued + 1,
                                !.checked = Healthy]
    <3>1. Healthy \in BOOLEAN /\ kind \in Phases /\ issued + 1 \in 0 .. MaxRequests
      BY <1>1, OpFacts DEF Healthy, Phases, Ids
    <3>2. op' = [phase |-> kind, id |-> issued + 1, checked |-> Healthy,
                 n |-> 0, rows |-> 0]
      BY <2>2 DEF Free
    <3>3. op' \in OpType /\ op'.n = 0
      BY <3>1, <3>2, NoRowsYet DEF OpType
    <3> QED
      BY <3>3, BoundsAssumption DEF WithinBudget
  <2> QED
    BY <2>1, <2>2 DEF Request
<1>6. issued' \in 0 .. MaxRequests
  BY <1>1 DEF Request, Ids
<1> QED
  BY <1>4, <1>5, <1>6 DEF TypeOK, Request, OpType, WithinBudget, history

\* A step that reads a reply or gives up reading, and leaves the rest alone.
LEMMA ReadTypes ==
    ASSUME TypeOK, IdsOK,
           op.phase # "free",
           op' \in OpType, WithinBudget(op'),
           (\E ks : Read(ks)) \/ UNCHANGED wireVars,
           Answer \/ UNCHANGED misanswered,
           desynchronized' \in BOOLEAN, abandoned' \in BOOLEAN,
           UNCHANGED <<issued, writeBuf, poisoned, srv, cancels, strayCancels>>
    PROVE  TypeOK'
<1>1. /\ toClient' \in Seq(MessageOf(Replies)) /\ Len(toClient') <= Capacity
      /\ link' = link /\ toServer' = toServer
  BY TakesReply DEF TypeOK, wireVars
<1>2. misanswered' \subseteq Ids
  BY DEF TypeOK, IdsOK, Answer
<1> QED
  BY <1>1, <1>2 DEF TypeOK, OpType, WithinBudget

LEMMA ClientReadsTypes ==
    ASSUME TypeOK, IdsOK, ClientReads \/ WriterRefusesChunk
    PROVE  TypeOK'
<1>f. Free \in OpType /\ WithinBudget(Free)
  BY FreeTyped
<1>e. \A p \in Phases : Enter(p) \in OpType /\ WithinBudget(Enter(p))
  BY EnterTyped, OpFacts
<1>p. {"errDrain", "writer", "stream", "abandon"} \subseteq Phases
  BY DEF Phases, Kinds
<1>o. /\ op \in OpType /\ WithinBudget(op)
      /\ desynchronized \in BOOLEAN /\ abandoned \in BOOLEAN
  BY OpFacts
<1>1. ASSUME NEW p \in {"simple", "prepared", "copyOut"}, ReadUntilReady(p)
      PROVE  TypeOK'
  <2>1. op' \in OpType /\ WithinBudget(op')
    BY <1>1, <1>f, <1>e, <1>p, <1>o DEF ReadUntilReady, ReadyEnds, ErrorStartsDrain
  <2> QED
    BY <1>1, <2>1, <1>o, ReadTypes DEF ReadUntilReady, ReadyEnds, ErrorStartsDrain, ReadFails
<1>2. CASE WriterRefusesChunk
  BY <1>2, <1>f, <1>o, ReadTypes DEF WriterRefusesChunk
<1>3. CASE ReadCopyInResponse
  <2>1. op' \in OpType /\ WithinBudget(op')
    BY <1>3, <1>f, <1>e, <1>p, <1>o DEF ReadCopyInResponse, ErrorStartsDrain
  <2> QED
    BY <1>3, <2>1, <1>o, ReadTypes DEF ReadCopyInResponse, ErrorStartsDrain, ReadFails
<1>4. CASE DrainUntilReadyBounded
  <2>1. op' \in OpType /\ WithinBudget(op')
    BY <1>4, <1>f, <1>o, ChargeTyped DEF DrainUntilReadyBounded
  <2> QED
    BY <1>4, <2>1, <1>o, ReadTypes DEF DrainUntilReadyBounded, ReadFails, history
<1>5. ASSUME NEW p \in {"chunk", "drainReady"}, NEW ks, ReadStream(p, ks)
      PROVE  /\ op' \in OpType /\ WithinBudget(op') /\ op.phase # "free"
             /\ (\E qs : Read(qs)) \/ UNCHANGED wireVars
             /\ Answer \/ UNCHANGED misanswered
  BY <1>5, <1>f, <1>e, <1>p, <1>o DEF ReadStream, ReadyEnds, ErrorStartsDrain, ReadFails
<1>6. CASE ReadToReady
  BY <1>6, <1>5, <1>o, ReadTypes DEF ReadToReady
<1>7. CASE ReadChunk
  <2>1. CASE ReadStream("chunk", NotTerminal \ {"row"})
    BY <1>7, <2>1, <1>5, <1>o, ReadTypes DEF ReadChunk
  <2>2. CASE /\ op.phase = "chunk" /\ Read({"row"})
             /\ op' = IF op.n + 1 >= ChunkSize THEN Enter("stream")
                      ELSE [op EXCEPT !.n = @ + 1]
             /\ UNCHANGED misanswered
    <3>1. op' \in OpType /\ WithinBudget(op')
      <4>1. op.n + 1 < ChunkSize => /\ [op EXCEPT !.n = @ + 1] \in OpType
                                    /\ WithinBudget([op EXCEPT !.n = @ + 1])
        BY <2>2, <1>o, BoundsAssumption DEF OpType, WithinBudget
      <4>2. op.n \in Nat
        BY <1>o DEF OpType
      <4> QED
        BY <2>2, <1>e, <1>p, <4>1, <4>2, BoundsAssumption
    <3> QED
      BY <1>7, <2>2, <3>1, <1>o, ReadTypes DEF ReadChunk
  <2> QED
    BY <1>7, <2>1, <2>2 DEF ReadChunk
<1>8. CASE CancelWaitEnds
  <2>1. op' \in OpType /\ WithinBudget(op')
    BY <1>8, <1>e, <1>p DEF CancelWaitEnds
  <2>2. cancels' \subseteq [by : {"drop", "late", "user"}, target : 0 .. MaxRequests]
    BY <1>8, BoundsAssumption DEF CancelWaitEnds, TypeOK
  <2> QED
    BY <1>8, <2>1, <2>2 DEF CancelWaitEnds, TypeOK, OpType, WithinBudget, wireVars, history
<1>9. CASE DrainAbandonedStream
  <2>1. op' \in OpType /\ WithinBudget(op')
    <3>1. op.n \in Nat /\ op.rows \in Nat
      BY <1>o DEF OpType
    <3>2. op.phase = "abandon"
      BY <1>9 DEF DrainAbandonedStream
    <3>3. op.rows + 1 <= MaxDataRows =>
             /\ [op EXCEPT !.rows = @ + 1] \in OpType
             /\ WithinBudget([op EXCEPT !.rows = @ + 1])
      BY <1>o, <3>2, BoundsAssumption DEF OpType, WithinBudget
    <3>4. op.n + 1 <= DrainCap => /\ [op EXCEPT !.n = @ + 1] \in OpType
                                  /\ WithinBudget([op EXCEPT !.n = @ + 1])
      BY <1>o, <3>1, <3>2, ChargeTyped, BoundsAssumption
    <3> QED
      BY <1>9, <1>f, <3>1, <3>3, <3>4, BoundsAssumption DEF DrainAbandonedStream
  <2> QED
    BY <1>9, <2>1, <1>o, ReadTypes DEF DrainAbandonedStream, ReadFails, history
<1>10. CASE ReadCopyEnd
  <2>1. op' \in OpType /\ WithinBudget(op')
    BY <1>10, <1>f, <1>e, <1>p, <1>o, ChargeTyped DEF ReadCopyEnd, ReadyEnds, ErrorStartsDrain
  <2> QED
    BY <1>10, <2>1, <1>o, ReadTypes DEF ReadCopyEnd, ReadyEnds, ErrorStartsDrain, ReadFails
<1> QED
  BY <1>1, <1>2, <1>3, <1>4, <1>6, <1>7, <1>8, <1>9, <1>10
  DEF ClientReads, ReadReply, ReadPreparedReply, ReadCopyOut

LEMMA GuardTypes ==
    ASSUME TypeOK, NextChunk \/ DrainToReady \/ DropStream \/ UserCancel
                   \/ DropWriterPanicking
    PROVE  TypeOK'
<1>1. op' \in OpType /\ WithinBudget(op')
  <2>1. {"chunk", "drainReady", "cancelWait", "abandon"} \subseteq Phases
    BY DEF Phases
  <2> QED
    BY <2>1, EnterTyped, FreeTyped, OpFacts
    DEF NextChunk, DrainToReady, DropStream, UserCancel, DropWriterPanicking,
        clientVars
<1>2. cancels' \subseteq [by : {"drop", "late", "user"}, target : 0 .. MaxRequests]
  <2>1. /\ op.id \in 0 .. MaxRequests /\ 0 \in 0 .. MaxRequests
        /\ cancels \subseteq [by : {"drop", "late", "user"}, target : 0 .. MaxRequests]
    BY BoundsAssumption DEF TypeOK
  <2>2. CASE DropStream
    BY <2>1, <2>2 DEF DropStream
  <2>3. CASE UserCancel
    BY <2>1, <2>3 DEF UserCancel
  <2> QED
    BY <2>1, <2>2, <2>3 DEF NextChunk, DrainToReady, DropWriterPanicking
<1>3. poisoned' \in BOOLEAN /\ desynchronized' \in BOOLEAN
  BY OpFacts DEF NextChunk, DrainToReady, DropStream, UserCancel,
                 DropWriterPanicking, clientVars
<1> QED
  BY <1>1, <1>2, <1>3
  DEF TypeOK, OpType, WithinBudget, NextChunk, DrainToReady, DropStream,
      UserCancel, DropWriterPanicking, clientVars, wireVars, history

LEMMA WriterFrames ==
    ASSUME TypeOK, IdsOK, op.phase # "free",
           NEW k \in {"copyDatum", "copyDone", "copyFail"}
    PROVE  /\ Frame(k) \in MessageOf(Frames)
           /\ Append(writeBuf, Frame(k)) \in Seq(MessageOf(Frames))
           /\ Append(<<>>, Frame(k)) \in Seq(MessageOf(Frames))
           /\ <<Frame(k)>> \in Seq(MessageOf(Frames))
           /\ Frame(k).k = k /\ Frame(k).id = op.id
<1>1. Frame(k) \in MessageOf(Frames) /\ Frame(k).k = k /\ Frame(k).id = op.id
  BY DEF Frame, MessageOf, Frames, IdsOK
<1> QED
  BY <1>1, FramesAppend, EmptySeq DEF TypeOK

LEMMA WriterTypes ==
    ASSUME TypeOK, IdsOK,
           Send \/ Flush \/ SendDirect \/ Finish \/ CancelCopy
    PROVE  TypeOK'
<1>1. op.phase = "writer"
  BY DEF Send, Flush, SendDirect, Finish, CancelCopy, EndCopy
<1>2. /\ writeBuf \in Seq(MessageOf(Frames)) /\ toServer \in Seq(MessageOf(Frames))
      /\ <<>> \in Seq(MessageOf(Frames))
  BY EmptySeq DEF TypeOK
<1>3. CASE Send
  <2>1. writeBuf' \in Seq(MessageOf(Frames))
    BY <1>1, <1>3, WriterFrames DEF Send
  <2> QED
    BY <1>3, <2>1 DEF Send, TypeOK, wireVars, history
<1>4. CASE Flush
  <2>1. writeBuf' \in Seq(MessageOf(Frames)) /\ toServer' \in Seq(MessageOf(Frames))
    BY <1>2, <1>4, Flushes DEF Flush
  <2> QED
    BY <1>4, <2>1 DEF Flush, TypeOK, history
<1>5. CASE SendDirect
  <2>1. writeBuf' \in Seq(MessageOf(Frames)) /\ toServer' \in Seq(MessageOf(Frames))
    BY <1>1, <1>2, <1>5, Flushes, WriterFrames DEF SendDirect
  <2>2. desynchronized' \in BOOLEAN
    BY <1>5, OpFacts DEF SendDirect
  <2> QED
    BY <1>5, <2>1, <2>2 DEF SendDirect, TypeOK, history
<1>6. ASSUME NEW f \in {"copyDone", "copyFail"},
             NEW ph \in {"finishing", "cancelling"}, EndCopy(f, ph)
      PROVE  TypeOK'
  <2>1. writeBuf' \in Seq(MessageOf(Frames)) /\ toServer' \in Seq(MessageOf(Frames))
    BY <1>1, <1>2, <1>6, Flushes, WriterFrames DEF EndCopy
  <2>2. desynchronized' \in BOOLEAN
    BY <1>6, OpFacts DEF EndCopy
  <2>3. op' \in OpType /\ WithinBudget(op')
    <3>1. ph \in Phases
      BY DEF Phases
    <3> QED
      BY <1>6, <3>1, EnterTyped, FreeTyped, OpFacts DEF EndCopy
  <2> QED
    BY <1>6, <2>1, <2>2, <2>3 DEF EndCopy, TypeOK, OpType, WithinBudget, history
<1> QED
  BY <1>3, <1>4, <1>5, <1>6 DEF Finish, CancelCopy

LEMMA EmitTypes ==
    ASSUME TypeOK, IdsOK, srv.mode # "idle", NEW k \in Replies, Emit(k)
    PROVE  /\ toClient' \in Seq(MessageOf(Replies)) /\ Len(toClient') <= Capacity
           /\ [k |-> k, id |-> srv.id] \in MessageOf(Replies)
<1>1. [k |-> k, id |-> srv.id] \in MessageOf(Replies)
  BY DEF IdsOK, MessageOf
<1>2. toClient \in Seq(MessageOf(Replies)) /\ Len(toClient) \in Nat
  BY DEF TypeOK
<1> QED
  BY <1>1, <1>2, RepliesAppend, BoundsAssumption DEF Emit

LEMMA TakesFrame ==
    ASSUME TypeOK, NEW ks, NextFrame(ks)
    PROVE  /\ toServer \in Seq(MessageOf(Frames)) /\ toServer # <<>>
           /\ toServer' = Tail(toServer) /\ toServer' \in Seq(MessageOf(Frames))
           /\ Head(toServer) \in MessageOf(Frames) /\ Head(toServer).k \in ks
  BY FramesTail DEF TypeOK, NextFrame

SrvType == [mode : {"idle", "run", "copyIn", "tail"}, kind : Kinds,
            id : 0 .. MaxRequests, left : 0 .. MaxRows]

\* A step of the server leaves the client alone.
LEMMA ServerTypes ==
    ASSUME TypeOK, IdsOK, Server
    PROVE  TypeOK'
<1>s. srv \in SrvType
  BY DEF TypeOK, SrvType
<1>m. \A m \in {"idle", "run", "copyIn", "tail"} : [srv EXCEPT !.mode = m] \in SrvType
  BY <1>s DEF SrvType
<1>k. {"row", "copyData", "notice", "complete", "copyInResponse", "error", "ready"}
        = Replies
  BY DEF Replies
<1>1. CASE ServerTakesRequest
  <2>1. toServer' \in Seq(MessageOf(Frames)) /\ Head(toServer) \in MessageOf(Frames)
        /\ Head(toServer).k \in Kinds
    BY <1>1, TakesFrame DEF ServerTakesRequest
  <2>2. Head(toServer).id \in 0 .. MaxRequests
    BY <2>1, BoundsAssumption DEF MessageOf, Ids
  <2>3. srv' \in SrvType
    BY <1>1, <2>1, <2>2 DEF ServerTakesRequest, SrvType
  <2> QED
    BY <1>1, <2>1, <2>3 DEF Server, ServerTakesRequest, TypeOK, SrvType, clientVars, history
<1>2. CASE ServerSendsRow
  <2>1. toClient' \in Seq(MessageOf(Replies)) /\ Len(toClient') <= Capacity
    BY <1>2, <1>k, EmitTypes DEF ServerSendsRow
  <2>2. srv' \in SrvType
    BY <1>2, <1>s, BoundsAssumption DEF ServerSendsRow, SrvType
  <2> QED
    BY <1>2, <2>1, <2>2 DEF Server, ServerSendsRow, TypeOK, SrvType, clientVars, history
<1>3. CASE ServerSendsNotice \/ ServerCompletes \/ ServerOpensCopyIn \/ ServerFails
           \/ ServerSendsReady
  <2>1. toClient' \in Seq(MessageOf(Replies)) /\ Len(toClient') <= Capacity
    BY <1>3, <1>k, EmitTypes
    DEF ServerSendsNotice, ServerCompletes, ServerOpensCopyIn, ServerFails,
        ServerSendsReady
  <2>2. srv' \in SrvType
    BY <1>3, <1>s, <1>m
    DEF ServerSendsNotice, ServerCompletes, ServerOpensCopyIn, ServerFails,
        ServerSendsReady
  <2> QED
    BY <1>3, <2>1, <2>2
    DEF Server, ServerSendsNotice, ServerCompletes, ServerOpensCopyIn,
        ServerFails, ServerSendsReady, TypeOK, SrvType, clientVars, history
<1>4. CASE ServerTakesCopyFrame
  <2>1. toServer' \in Seq(MessageOf(Frames))
    BY <1>4, TakesFrame DEF ServerTakesCopyFrame
  <2>2. toClient' \in Seq(MessageOf(Replies)) /\ Len(toClient') <= Capacity
    BY <1>4, <1>k, EmitTypes DEF ServerTakesCopyFrame, TypeOK
  <2>3. srv' \in SrvType
    BY <1>4, <1>s, <1>m DEF ServerTakesCopyFrame
  <2> QED
    BY <1>4, <2>1, <2>2, <2>3
    DEF Server, ServerTakesCopyFrame, TypeOK, SrvType, clientVars, history
<1>5. CASE ServerIgnoresCopyFrame
  <2>1. toServer' \in Seq(MessageOf(Frames))
    BY <1>5, TakesFrame DEF ServerIgnoresCopyFrame
  <2> QED
    BY <1>5, <2>1 DEF Server, ServerIgnoresCopyFrame, TypeOK, clientVars, history
<1> QED
  BY <1>1, <1>2, <1>3, <1>4, <1>5 DEF Server

LEMMA OutsideTypes ==
    ASSUME TypeOK, IdsOK, ServerCancels \/ LinkLost
    PROVE  TypeOK'
<1>1. CASE ServerCancels
  <2>1. toClient' \in Seq(MessageOf(Replies)) /\ Len(toClient') <= Capacity
    BY <1>1, EmitTypes DEF ServerCancels, TypeOK, Replies
  <2>2. srv' \in SrvType
    BY <1>1 DEF ServerCancels, TypeOK, SrvType
  <2>3. strayCancels' \subseteq Ids
    BY <1>1 DEF ServerCancels, TypeOK, IdsOK
  <2>4. cancels' \subseteq cancels
    BY <1>1 DEF ServerCancels
  <2> QED
    BY <1>1, <2>1, <2>2, <2>3, <2>4 DEF ServerCancels, TypeOK, SrvType, clientVars
<1>2. CASE LinkLost
  <2>1. toClient' \in Seq(MessageOf(Replies)) /\ Len(toClient') <= Capacity
    <3>1. PICK n \in 0 .. Len(toClient) : toClient' = SubSeq(toClient, 1, n)
      BY <1>2 DEF LinkLost
    <3>2. toClient \in Seq(MessageOf(Replies)) /\ Len(toClient) \in Nat
          /\ Len(toClient) <= Capacity
      BY DEF TypeOK
    <3> QED
      BY <3>1, <3>2, RepliesPrefix, BoundsAssumption
  <2> QED
    BY <1>2, <2>1, EmptySeq DEF LinkLost, TypeOK, clientVars, history
<1> QED
  BY <1>1, <1>2

\* Every step keeps the state well formed.
LEMMA TypeStep ==
    ASSUME TypeOK, IdsOK, [Next]_vars
    PROVE  TypeOK'
<1>1. CASE UNCHANGED vars
  BY <1>1 DEF TypeOK, vars, clientVars, wireVars, history
<1>2. CASE SimpleQuery \/ QueryStreaming \/ StartCopyIn \/ CopyOut \/ PreparedRequest
  BY <1>2, RequestTypes
  DEF SimpleQuery, QueryStreaming, StartCopyIn, CopyOut, PreparedRequest, Kinds
<1> QED
  BY <1>1, <1>2, ClientReadsTypes, GuardTypes, WriterTypes, ServerTypes,
     OutsideTypes
  DEF Next, Resting

-----------------------------------------------------------------------------
(* Who holds the connection                                                *)

\* Between two requests the holder keeps its identity and its check, or
\* leaves; a holder that waits for its cancel does nothing else.
Keeps ==
    /\ op'.phase # "free" =>
          /\ op.phase # "free"
          /\ op'.id = op.id
          /\ op'.checked = op.checked
    /\ op.phase = "cancelWait" => op' = op \/ CancelWaitEnds

\* A flag that is set stays set.
Flags ==
    /\ desynchronized => desynchronized'
    /\ abandoned => abandoned'

Holds == issued' = issued /\ Keeps /\ Flags

LEMMA ClientReadsHold ==
    ASSUME TypeOK, ClientReads \/ WriterRefusesChunk
    PROVE  Holds
<1>f. Free.phase = "free"
  BY FreeTyped
<1>e. \A p \in {"errDrain", "writer", "stream", "abandon"} :
         Enter(p).id = op.id /\ Enter(p).checked = op.checked
  BY EnterTyped, OpFacts DEF Phases, Kinds
<1>n. /\ [op EXCEPT !.n = @ + 1].id = op.id
      /\ [op EXCEPT !.n = @ + 1].checked = op.checked
      /\ [op EXCEPT !.rows = @ + 1].id = op.id
      /\ [op EXCEPT !.rows = @ + 1].checked = op.checked
  BY OpFacts DEF OpType
<1>1. ASSUME NEW p \in {"simple", "prepared", "copyOut"}, ReadUntilReady(p)
      PROVE  Holds
  BY <1>1, <1>f, <1>e DEF Holds, Keeps, Flags, ReadUntilReady, ReadyEnds, ErrorStartsDrain
<1>2. CASE WriterRefusesChunk
  BY <1>2, <1>f DEF Holds, Keeps, Flags, WriterRefusesChunk
<1>3. CASE ReadCopyInResponse
  BY <1>3, <1>f, <1>e DEF Holds, Keeps, Flags, ReadCopyInResponse, ErrorStartsDrain
<1>4. CASE DrainUntilReadyBounded
  <2>1. Keeps
    BY <1>4, <1>f, <1>n DEF Keeps, DrainUntilReadyBounded, history
  <2>2. Flags
    BY <1>4 DEF Flags, DrainUntilReadyBounded, history
  <2> QED
    BY <1>4, <2>1, <2>2 DEF Holds, DrainUntilReadyBounded
<1>5. CASE ReadToReady
  BY <1>5, <1>f, <1>e DEF Holds, Keeps, Flags, ReadToReady, ReadStream, ReadyEnds, ErrorStartsDrain
<1>6. CASE ReadChunk
  BY <1>6, <1>f, <1>e, <1>n DEF Holds, Keeps, Flags, ReadChunk, ReadStream, ReadyEnds, ErrorStartsDrain
<1>7. CASE CancelWaitEnds
  BY <1>7, <1>e DEF Holds, Keeps, Flags, CancelWaitEnds, history
<1>8. CASE DrainAbandonedStream
  <2>1. Keeps
    BY <1>8, <1>f, <1>n DEF Keeps, DrainAbandonedStream, history
  <2>2. Flags
    BY <1>8 DEF Flags, DrainAbandonedStream, history
  <2> QED
    BY <1>8, <2>1, <2>2 DEF Holds, DrainAbandonedStream
<1>9. CASE ReadCopyEnd
  <2>1. Keeps
    BY <1>9, <1>f, <1>e, <1>n DEF Keeps, ReadCopyEnd, ReadyEnds, ErrorStartsDrain
  <2>2. Flags
    BY <1>9 DEF Flags, ReadCopyEnd, ReadyEnds, ErrorStartsDrain
  <2> QED
    BY <1>9, <2>1, <2>2 DEF Holds, ReadCopyEnd
<1> QED
  BY <1>1, <1>2, <1>3, <1>4, <1>5, <1>6, <1>7, <1>8, <1>9
  DEF ClientReads, ReadReply, ReadPreparedReply, ReadCopyOut

LEMMA OthersHold ==
    ASSUME TypeOK,
           \/ NextChunk \/ DrainToReady \/ DropStream \/ UserCancel
           \/ Send \/ Flush \/ SendDirect \/ Finish \/ CancelCopy
           \/ DropWriterPanicking \/ Server \/ ServerCancels \/ LinkLost
    PROVE  Holds
<1>f. Free.phase = "free"
  BY FreeTyped
<1>e. \A p \in {"chunk", "drainReady", "cancelWait", "abandon", "finishing",
                "cancelling"} :
         Enter(p).id = op.id /\ Enter(p).checked = op.checked
  BY EnterTyped, OpFacts DEF Phases
<1>1. CASE NextChunk \/ DrainToReady \/ DropStream
  <2>1. Keeps
    BY <1>1, <1>e DEF Keeps, NextChunk, DrainToReady, DropStream, history
  <2>2. desynchronized' = desynchronized /\ abandoned' = abandoned
    BY <1>1, Zenon DEF NextChunk, DrainToReady, DropStream, history
  <2> QED
    BY <1>1, <2>1, <2>2 DEF Holds, Flags, NextChunk, DrainToReady, DropStream
<1>2. CASE Send \/ Flush \/ SendDirect
  BY <1>2 DEF Holds, Keeps, Flags, Send, Flush, SendDirect, history
<1>3. CASE Finish \/ CancelCopy
  BY <1>3, <1>e, <1>f DEF Holds, Keeps, Flags, Finish, CancelCopy, EndCopy, history
<1>4. CASE DropWriterPanicking
  BY <1>4, <1>f DEF Holds, Keeps, Flags, DropWriterPanicking, history
<1>5. CASE UserCancel \/ Server \/ ServerCancels \/ LinkLost
  BY <1>5 DEF Holds, Keeps, Flags, UserCancel, Server, ServerCancels, LinkLost, clientVars, history
<1> QED
  BY <1>1, <1>2, <1>3, <1>4, <1>5

-----------------------------------------------------------------------------
(* Identities                                                              *)

LEMMA RequestIds ==
    ASSUME TypeOK, IdsOK, NEW kind \in Kinds, Request(kind)
    PROVE  IdsOK'
<1> DEFINE f == [k |-> kind, id |-> issued + 1]
           w == Append(writeBuf, f)
<1>0. toServer \in Seq(MessageOf(Frames)) /\ writeBuf \in Seq(MessageOf(Frames))
  BY DEF TypeOK
<1>1. /\ issued \in Nat /\ issued' = issued + 1 /\ issued' \in Ids
      /\ f \in MessageOf(Frames) /\ f.id = issued'
      /\ srv.id \in Nat
  BY BoundsAssumption, SMTT(20) DEF TypeOK, Request, Ids, MessageOf, Frames
<1>2. UpTo(toServer, issued') /\ UpTo(writeBuf, issued')
  <2>1. UpTo(toServer, issued) /\ UpTo(writeBuf, issued)
    BY DEF IdsOK
  <2> QED
    BY <1>0, <1>1, <2>1, LaterRequest
<1>3. w \in Seq(MessageOf(Frames)) /\ UpTo(w, issued')
  <2>1. f.id <= issued'
    BY <1>1
  <2> QED
    BY <1>0, <1>1, <1>2, <2>1, FramesAppend
<1>4. UpTo(toServer', issued') /\ UpTo(writeBuf', issued')
  <2>1. UpTo(toServer \o w, issued')
    <3> HIDE DEF w
    <3> QED
      BY <1>0, <1>2, <1>3, FramesConcat
  <2>0. UpTo(<<>>, issued')
    BY NothingInFlight
  <2>2. CASE FlushSucceeds(w)
    BY <1>2, <2>0, <2>1, <2>2 DEF FlushSucceeds
  <2>3. CASE FlushFails(w)
    BY <1>2, <1>3, <2>3 DEF FlushFails
  <2> QED
    BY <2>2, <2>3 DEF Request
<1>5. op'.phase # "free" => op'.id = issued'
  BY <1>1 DEF Request, Free
<1>6. \A c \in cancels : c.by # "drop"
  BY DEF IdsOK, Request
<1> QED
  BY <1>1, <1>4, <1>5, <1>6 DEF IdsOK, Request, history

\* A step that leaves the holder, writes frames of the holder only and lets
\* the server take its requests from the wire.
LEMMA HoldsIds ==
    ASSUME TypeOK, IdsOK, Holds,
           srv'.mode # "idle" => srv'.id \in Ids,
           srv'.id <= issued,
           UpTo(toServer', issued), UpTo(writeBuf', issued),
           \A c \in cancels' :
              c.by = "drop" => op'.phase = "cancelWait" /\ c.target = op'.id,
           strayCancels' = {}
    PROVE  IdsOK'
  BY DEF IdsOK, Holds, Keeps

\* Nobody but the holder that waits for it has a cancel of a Drop under way.
LEMMA CancelsStay ==
    ASSUME IdsOK, Holds, ~ CancelWaitEnds, cancels' \subseteq cancels
    PROVE  \A c \in cancels' :
              c.by = "drop" => op'.phase = "cancelWait" /\ c.target = op'.id
  BY DEF IdsOK, Holds, Keeps

LEMMA ClientReadsIds ==
    ASSUME TypeOK, IdsOK, ClientReads \/ WriterRefusesChunk
    PROVE  IdsOK'
<1>1. Holds
  BY ClientReadsHold
<1>2. CASE CancelWaitEnds
  <2>1. \A c \in cancels' : c.by # "drop"
    <3>1. \A c \in cancels : c \in [by : {"drop", "late", "user"},
                                    target : 0 .. MaxRequests]
      BY DEF TypeOK
    <3>2. \A c \in cancels :
             c.by = "drop" => c = [by |-> "drop", target |-> op.id]
      BY <3>1 DEF IdsOK
    <3> QED
      BY <1>2, <3>2 DEF CancelWaitEnds
  <2>2. /\ UNCHANGED <<srv, strayCancels, issued, toServer, writeBuf>>
    BY <1>2 DEF CancelWaitEnds, history, wireVars
  <2> QED
    BY <1>1, <2>1, <2>2, HoldsIds DEF IdsOK
<1>3. CASE ~ CancelWaitEnds
  <2>1. UNCHANGED <<srv, strayCancels, issued, toServer, writeBuf, cancels>>
    BY <1>3
    DEF ClientReads, ReadReply, ReadPreparedReply, ReadCopyOut, ReadUntilReady,
        WriterRefusesChunk, ReadCopyInResponse, DrainUntilReadyBounded,
        ReadToReady, ReadChunk, ReadStream, DrainAbandonedStream, ReadCopyEnd,
        ReadyEnds, ErrorStartsDrain, Read, ReadFails, history, wireVars
  <2>2. \A c \in cancels' :
           c.by = "drop" => op'.phase = "cancelWait" /\ c.target = op'.id
    BY <1>1, <1>3, <2>1, CancelsStay
  <2> QED
    BY <1>1, <2>1, <2>2, HoldsIds DEF IdsOK
<1> QED
  BY <1>2, <1>3

LEMMA GuardIds ==
    ASSUME TypeOK, IdsOK, NextChunk \/ DrainToReady \/ DropStream \/ UserCancel
                          \/ DropWriterPanicking
    PROVE  IdsOK'
<1>1. Holds
  BY OthersHold
<1>2. UNCHANGED <<srv, strayCancels, issued, toServer, writeBuf>>
  BY DEF NextChunk, DrainToReady, DropStream, UserCancel, DropWriterPanicking,
         clientVars, wireVars, history
<1>3. CASE DropStream
  <2>1. \A c \in cancels : c.by # "drop"
    BY <1>3 DEF IdsOK, DropStream
  <2>2. Enter("cancelWait").phase = "cancelWait" /\ Enter("cancelWait").id = op.id
    BY EnterTyped, OpFacts DEF Phases
  <2>3. \A c \in cancels' :
           c.by = "drop" => op'.phase = "cancelWait" /\ c.target = op'.id
    BY <1>3, <2>1, <2>2 DEF DropStream
  <2> QED
    BY <1>1, <1>2, <2>3, HoldsIds DEF IdsOK
<1>4. CASE UserCancel
  <2>1. \A c \in cancels' :
           c.by = "drop" => op'.phase = "cancelWait" /\ c.target = op'.id
    BY <1>4 DEF UserCancel, IdsOK, clientVars
  <2> QED
    BY <1>1, <1>2, <2>1, HoldsIds DEF IdsOK
<1>5. CASE NextChunk \/ DrainToReady \/ DropWriterPanicking
  <2>1. cancels' = cancels /\ ~ CancelWaitEnds
    BY <1>5 DEF NextChunk, DrainToReady, DropWriterPanicking, CancelWaitEnds
  <2>2. \A c \in cancels' :
           c.by = "drop" => op'.phase = "cancelWait" /\ c.target = op'.id
    BY <1>1, <2>1, CancelsStay
  <2> QED
    BY <1>1, <1>2, <2>2, HoldsIds DEF IdsOK
<1> QED
  BY <1>3, <1>4, <1>5

\* What a writer flushes belongs to it.
LEMMA FlushIds ==
    ASSUME TypeOK, IdsOK, NEW w \in Seq(MessageOf(Frames)), UpTo(w, issued),
           FlushSucceeds(w) \/ FlushFails(w)
    PROVE  UpTo(toServer', issued) /\ UpTo(writeBuf', issued)
<1>1. UpTo(toServer, issued) /\ UpTo(<<>>, issued)
  BY NothingInFlight DEF IdsOK
<1>2. UpTo(toServer \o w, issued)
  BY <1>1, FramesConcat DEF TypeOK
<1>3. CASE FlushSucceeds(w)
  BY <1>1, <1>2, <1>3 DEF FlushSucceeds
<1>4. CASE FlushFails(w)
  BY <1>1, <1>4 DEF FlushFails
<1> QED
  BY <1>3, <1>4

LEMMA WriterIds ==
    ASSUME TypeOK, IdsOK,
           Send \/ Flush \/ SendDirect \/ Finish \/ CancelCopy
    PROVE  IdsOK'
<1>1. Holds
  BY OthersHold
<1>2. op.phase = "writer"
  BY DEF Send, Flush, SendDirect, Finish, CancelCopy, EndCopy
<1>3. UNCHANGED <<srv, strayCancels, issued, cancels>>
  BY DEF Send, Flush, SendDirect, Finish, CancelCopy, EndCopy, history
<1>4. \A c \in cancels' :
         c.by = "drop" => op'.phase = "cancelWait" /\ c.target = op'.id
  BY <1>2, <1>3 DEF IdsOK
<1>5. \A k \in {"copyDatum", "copyDone", "copyFail"} :
         /\ Append(writeBuf, Frame(k)) \in Seq(MessageOf(Frames))
         /\ UpTo(Append(writeBuf, Frame(k)), issued)
         /\ <<Frame(k)>> \in Seq(MessageOf(Frames))
         /\ UpTo(<<Frame(k)>>, issued)
  <2>1. TAKE k \in {"copyDatum", "copyDone", "copyFail"}
  <2>2. /\ Frame(k) \in MessageOf(Frames)
        /\ Append(writeBuf, Frame(k)) \in Seq(MessageOf(Frames))
        /\ <<Frame(k)>> \in Seq(MessageOf(Frames))
        /\ Frame(k).id <= issued
    BY <1>2, WriterFrames DEF IdsOK, Ids
  <2>3. writeBuf \in Seq(MessageOf(Frames)) /\ UpTo(writeBuf, issued)
    BY DEF TypeOK, IdsOK
  <2>4. UpTo(Append(writeBuf, Frame(k)), issued)
    BY <2>2, <2>3, FramesAppend
  <2>5. UpTo(<<Frame(k)>>, issued)
    BY <2>2 DEF UpTo
  <2> QED
    BY <2>2, <2>4, <2>5
<1>6. /\ writeBuf \in Seq(MessageOf(Frames)) /\ UpTo(writeBuf, issued)
      /\ <<>> \in Seq(MessageOf(Frames)) /\ UpTo(<<>>, issued)
      /\ UpTo(toServer, issued)
  BY EmptySeq, NothingInFlight DEF TypeOK, IdsOK
<1>7. UpTo(toServer', issued) /\ UpTo(writeBuf', issued)
  <2>1. CASE Send
    BY <2>1, <1>5, <1>6 DEF Send, wireVars
  <2>2. CASE Flush
    BY <2>2, <1>6, FlushIds DEF Flush
  <2>3. CASE SendDirect
    BY <2>3, <1>5, <1>6, FlushIds DEF SendDirect
  <2>4. ASSUME NEW f \in {"copyDone", "copyFail"}, NEW ph, EndCopy(f, ph)
        PROVE  UpTo(toServer', issued) /\ UpTo(writeBuf', issued)
    BY <2>4, <1>5, <1>6, FlushIds DEF EndCopy
  <2> QED
    BY <2>1, <2>2, <2>3, <2>4 DEF Finish, CancelCopy
<1> QED
  BY <1>1, <1>3, <1>4, <1>7, HoldsIds DEF IdsOK

LEMMA ServerIds ==
    ASSUME TypeOK, IdsOK, Server \/ ServerCancels \/ LinkLost
    PROVE  IdsOK'
<1>1. Holds
  BY OthersHold
<1>2. cancels' \subseteq cancels /\ op' = op
  BY DEF Server, ServerCancels, LinkLost, clientVars
<1>3. \A c \in cancels' :
         c.by = "drop" => op'.phase = "cancelWait" /\ c.target = op'.id
  BY <1>2 DEF IdsOK
<1>4. strayCancels' = {}
  <2>1. CASE ServerCancels
    <3>1. PICK c \in cancels :
             strayCancels' = IF /\ srv.mode \in {"run", "copyIn"}
                                /\ c.by = "drop" /\ c.target < srv.id
                             THEN strayCancels \cup {srv.id} ELSE strayCancels
      BY <2>1 DEF ServerCancels
    <3>2. ~ (c.by = "drop" /\ c.target < srv.id)
      <4>1. c.by = "drop" => c.target = issued /\ issued \in Nat
        BY DEF IdsOK, TypeOK
      <4>2. srv.id <= issued /\ srv.id \in Nat
        BY DEF IdsOK, TypeOK
      <4> QED
        BY <4>1, <4>2
    <3> QED
      BY <3>1, <3>2 DEF IdsOK
  <2>2. CASE Server \/ LinkLost
    BY <2>2 DEF Server, LinkLost, history, IdsOK
  <2> QED
    BY <2>1, <2>2
<1>5. writeBuf' = writeBuf
  BY DEF Server, ServerCancels, LinkLost, clientVars
<1>6. UpTo(toServer', issued)
  <2>1. \/ toServer' = toServer \/ toServer' = <<>>
        \/ toServer # <<>> /\ toServer' = Tail(toServer)
    BY DEF Server, ServerTakesRequest, ServerSendsRow, ServerSendsNotice,
           ServerCompletes, ServerOpensCopyIn, ServerFails,
           ServerTakesCopyFrame, ServerIgnoresCopyFrame, ServerSendsReady,
           NextFrame, ServerCancels, LinkLost
  <2>2. toServer \in Seq(MessageOf(Frames)) /\ UpTo(toServer, issued)
    BY DEF TypeOK, IdsOK
  <2>3. toServer # <<>> => UpTo(Tail(toServer), issued)
    BY <2>2, FramesTail
  <2> QED
    BY <2>1, <2>2, <2>3, NothingInFlight
<1>7. (srv'.mode # "idle" => srv'.id \in Ids) /\ srv'.id <= issued
  <2>1. CASE ServerTakesRequest
    <3>1. Head(toServer) \in MessageOf(Frames) /\ Head(toServer).id <= issued
      BY <2>1, TakesFrame, FramesTail DEF ServerTakesRequest, IdsOK
    <3>2. srv'.id = Head(toServer).id
      BY <2>1 DEF ServerTakesRequest
    <3> QED
      BY <3>1, <3>2 DEF MessageOf
  <2>2. CASE ~ ServerTakesRequest
    <3>1. /\ srv'.id = srv.id
          /\ srv'.mode # "idle" => srv.mode # "idle"
      BY <2>2
      DEF Server, ServerSendsRow, ServerSendsNotice,
          ServerCompletes, ServerOpensCopyIn, ServerFails,
          ServerTakesCopyFrame, ServerIgnoresCopyFrame, ServerSendsReady,
          ServerCancels, LinkLost, TypeOK
    <3> QED
      BY <3>1 DEF IdsOK
  <2> QED
    BY <2>1, <2>2
<1> QED
  BY <1>1, <1>3, <1>4, <1>5, <1>6, <1>7, HoldsIds DEF IdsOK

LEMMA IdsStep ==
    ASSUME TypeOK, IdsOK, [Next]_vars
    PROVE  IdsOK'
<1>1. CASE UNCHANGED vars
  BY <1>1 DEF IdsOK, vars, clientVars, wireVars, history
<1>2. CASE SimpleQuery \/ QueryStreaming \/ StartCopyIn \/ CopyOut \/ PreparedRequest
  BY <1>2, RequestIds
  DEF SimpleQuery, QueryStreaming, StartCopyIn, CopyOut, PreparedRequest, Kinds
<1> QED
  BY <1>1, <1>2, ClientReadsIds, GuardIds, WriterIds, ServerIds DEF Next, Resting

-----------------------------------------------------------------------------
(* The conversation                                                        *)

\* A connection that is out of step stays so: the flag and the history of an
\* abandoned COPY OUT are never reset, and the holder's check is made once.
LEMMA StepIsNeverRegained ==
    ASSUME Holds, InStep'
    PROVE  InStep
  BY DEF Holds, Keeps, Flags, InStep

\* A request finds the wire empty and puts one frame on it.
LEMMA RequestTalks ==
    ASSUME TypeOK, Conversation, NEW kind \in Kinds, Request(kind)
    PROVE  Conversation'
<1>1. SUFFICES ASSUME InStep' PROVE ClientSide' /\ (link' => ServerSide')
  BY DEF Conversation
<1> DEFINE f == [k |-> kind, id |-> issued + 1]
           w == Append(writeBuf, f)
<1>2. op.phase = "free" /\ UNCHANGED <<desynchronized, abandoned, link, toClient, srv>>
  BY DEF Request, history
<1>3. CASE FlushFails(w) /\ UNCHANGED op
  <2>1. InStep /\ ~link
    BY <1>1, <1>2, <1>3 DEF InStep, FlushFails
  <2>2. ClientSide
    BY <2>1 DEF Conversation
  <2> QED
    BY <1>2, <1>3, <2>1, <2>2 DEF ClientSide
<1>4. CASE FlushSucceeds(w) /\ op' = [Free EXCEPT !.phase = kind, !.id = issued + 1,
                                                 !.checked = Healthy]
  <2>1. op'.phase = kind /\ op'.id = issued + 1 /\ op'.checked = Healthy
    BY <1>4 DEF Free
  <2>2. InStep
    BY <1>1, <1>2, <2>1 DEF InStep, Healthy
  <2>3. toClient = <<>> /\ (link => ServerSide)
    BY <1>2, <2>2 DEF Conversation, ClientSide
  <2>4. ClientSide'
    BY <1>2, <2>1, <2>3, NothingInFlight DEF ClientSide, Kinds
  <2>5. ASSUME link PROVE ServerSide'
    <3>1. writeBuf = <<>> /\ NoKinds(toServer) /\ srv.mode = "idle"
      BY <1>2, <2>3, <2>5 DEF ServerSide
    <3>2. f \in MessageOf(Frames) /\ f.k = kind /\ f.id = issued + 1
      BY BoundsAssumption, SMTT(20) DEF TypeOK, Request, Ids, MessageOf, Frames
    <3>3. toServer \in Seq(MessageOf(Frames))
      BY DEF TypeOK
    <3>4. toServer' = toServer \o Append(<<>>, f) /\ writeBuf' = <<>>
      BY <1>4, <2>5, <3>1 DEF FlushSucceeds
    <3>5. f.k \in Awaited'
      BY <2>1, <3>2 DEF Awaited
    <3>6. Asks(toServer \o Append(<<>>, f), f.id, Awaited')
      <4> HIDE DEF f
      <4> QED
        BY <3>1, <3>2, <3>3, <3>5, FramesAsk
    <3>7. Asked'
      BY <1>2, <2>1, <2>3, <3>1, <3>2, <3>4, <3>6 DEF Asked
    <3> QED
      BY <2>1, <3>4, <3>7, NothingInFlight DEF ServerSide, Kinds
  <2> QED
    BY <1>2, <2>4, <2>5
<1> QED
  BY <1>3, <1>4 DEF Request

\* ReadyForQuery is the last message of the reply: the wire is empty after it.
LEMMA ReadyTalks ==
    ASSUME TypeOK, Conversation, Read({"ready"}), op' = Free, Holds,
           op.phase \notin {"free", "writer"}, UNCHANGED <<srv, writeBuf>>
    PROVE  Conversation'
<1>1. SUFFICES ASSUME InStep' PROVE ClientSide' /\ (link' => ServerSide')
  BY DEF Conversation
<1>2. ClientSide /\ (link => ServerSide)
  BY <1>1, StepIsNeverRegained DEF Conversation
<1>3. /\ toClient \in Seq(MessageOf(Replies)) /\ toClient # <<>>
      /\ Head(toClient).k = "ready" /\ toClient' = Tail(toClient)
      /\ link' = link /\ toServer' = toServer
  BY DEF TypeOK, Read
<1>4. toClient' = <<>>
  BY <1>2, <1>3, RepliesTail DEF ClientSide
<1>5. op'.phase = "free"
  BY FreeTyped
<1>6. ASSUME link PROVE ServerSide'
  <2>1. writeBuf = <<>> /\ NoKinds(writeBuf)
    BY <1>2, <1>6 DEF ServerSide
  <2>2. ~Asked /\ ~Answering
    BY <1>3, RepliesTail DEF Asked, Answering
  <2>3. Answered
    BY <1>2, <1>6, <2>2 DEF ServerSide
  <2> QED
    BY <1>3, <1>5, <2>1, <2>3 DEF ServerSide, Answered
<1> QED
  BY <1>3, <1>4, <1>5, <1>6, NothingInFlight DEF ClientSide

\* Any other message of the reply leaves the rest of it.
LEMMA ReplyTalks ==
    ASSUME TypeOK, Conversation, NEW ks, Read(ks), Holds,
           op.phase \notin {"free", "writer"}, op'.phase # "free",
           "ready" \notin ks \/ op.phase = "copyIn",
           op'.phase = "copyIn" =>
              op.phase = "copyIn" /\ ks \cap {"copyInResponse", "error"} = {},
           op'.phase # "copyIn" => "ready" \notin ks,
           UNCHANGED <<srv, writeBuf>>
    PROVE  Conversation'
<1>1. SUFFICES ASSUME InStep' PROVE ClientSide' /\ (link' => ServerSide')
  BY DEF Conversation
<1>2. ClientSide /\ (link => ServerSide)
  BY <1>1, StepIsNeverRegained DEF Conversation
<1>3. /\ toClient \in Seq(MessageOf(Replies)) /\ toClient # <<>>
      /\ Head(toClient).k \in ks /\ toClient' = Tail(toClient)
      /\ link' = link /\ toServer' = toServer /\ op'.id = op.id
  BY DEF TypeOK, Read, Holds, Keeps
<1>4. ClientSide'
  BY <1>2, <1>3, RepliesTail DEF ClientSide
<1>5. ASSUME link PROVE ServerSide'
  <2>1. writeBuf = <<>> /\ NoKinds(writeBuf)
    BY <1>2, <1>5 DEF ServerSide
  <2>2. ~Asked
    BY <1>3 DEF Asked
  <2>3. CASE Answering
    <3>1. NoReady(toClient') /\ NoKinds(toServer') /\ srv'.mode # "idle" /\ srv'.id = op'.id
      BY <1>3, <2>3, RepliesTail DEF Answering
    <3>2. op'.phase = "copyIn" =>
             IF srv'.mode = "run" THEN srv'.kind = "copyIn" ELSE Decided(toClient')
      BY <1>3, <2>3, RepliesTail DEF Answering
    <3> QED
      BY <2>1, <3>1, <3>2 DEF ServerSide, Answering
  <2>4. CASE Answered
    <3>1. Head(toClient).k # "ready"
      <4>1. SUFFICES ASSUME Head(toClient).k = "ready" PROVE FALSE
        OBVIOUS
      <4>2. Decided(toClient) /\ Tail(toClient) = <<>>
        BY <1>2, <1>3, <2>4, <4>1, RepliesTail DEF Answered, ClientSide
      <4> QED
        BY <1>3, <4>1, <4>2, RepliesTail, NothingInFlight
    <3>2. EndsReady(toClient') /\ NoKinds(toServer') /\ srv'.mode = "idle"
      BY <1>3, <2>4, <3>1, RepliesTail DEF Answered
    <3>3. op'.phase = "copyIn" => Decided(toClient')
      BY <1>3, <2>4, RepliesTail DEF Answered
    <3> QED
      BY <2>1, <3>2, <3>3 DEF ServerSide, Answered
  <2> QED
    BY <1>2, <1>5, <2>2, <2>3, <2>4 DEF ServerSide
<1> QED
  BY <1>3, <1>4, <1>5

\* A read that fails on the empty wire of a dead link.
LEMMA FailureTalks ==
    ASSUME ReadFails
    PROVE  Conversation'
<1>1. ~link' /\ toClient' = <<>>
  BY DEF ReadFails, wireVars
<1> QED
  BY <1>1, NothingInFlight DEF Conversation, ClientSide

\* A holder that leaves with the flag set, or a COPY OUT left in the middle.
LEMMA FlagTalks ==
    ASSUME \/ op'.phase = "free" /\ desynchronized'
           \/ abandoned'
    PROVE  Conversation'
  BY DEF Conversation, InStep

\* The holder goes on to another phase and nothing moves on the wire.
LEMMA RephaseTalks ==
    ASSUME Conversation, Holds, op.phase \notin {"free", "writer"},
           op'.phase \notin {"free", "copyIn"},
           UNCHANGED <<srv, writeBuf, toServer, toClient, link>>
    PROVE  Conversation'
<1>1. SUFFICES ASSUME InStep' PROVE ClientSide' /\ (link' => ServerSide')
  BY DEF Conversation
<1>2. ClientSide /\ (link => ServerSide)
  BY <1>1, StepIsNeverRegained DEF Conversation
<1>3. op'.id = op.id
  BY DEF Holds, Keeps
<1>4. ClientSide'
  BY <1>2, <1>3 DEF ClientSide
<1>5. ASSUME link PROVE ServerSide'
  <2>1. Asked => Asked'
    <3>1. Asks(toServer, op.id, Awaited) => Asks(toServer, op.id, Kinds)
      BY DEF Asks, Awaited, Kinds
    <3> QED
      BY <1>3, <3>1 DEF Asked, Awaited
  <2>2. (Answering => Answering') /\ (Answered => Answered')
    BY <1>3 DEF Answering, Answered
  <2> QED
    BY <1>2, <1>5, <2>1, <2>2 DEF ServerSide
<1> QED
  BY <1>4, <1>5

LEMMA ClientReadsTalk ==
    ASSUME TypeOK, Conversation, ClientReads \/ WriterRefusesChunk
    PROVE  Conversation'
<1>h. Holds
  BY ClientReadsHold
<1>f. Free.phase = "free"
  BY FreeTyped
<1>e. \A p \in {"errDrain", "writer", "stream", "abandon"} : Enter(p).phase = p
  BY EnterTyped, OpFacts DEF Phases, Kinds
<1>n. /\ [op EXCEPT !.n = @ + 1].phase = op.phase
      /\ [op EXCEPT !.rows = @ + 1].phase = op.phase
  BY OpFacts DEF OpType
<1>t. "ready" \notin NotTerminal /\ "error" \notin NotTerminal
  BY DEF NotTerminal
\* The two ends every read loop has.
<1>r. ASSUME ReadyEnds, UNCHANGED <<srv, writeBuf>>, op.phase \notin {"free", "writer"}
      PROVE  Conversation'
  BY <1>r, <1>h, ReadyTalks DEF ReadyEnds
<1>x. ASSUME ErrorStartsDrain, UNCHANGED <<srv, writeBuf>>,
             op.phase \notin {"free", "writer"}
      PROVE  Conversation'
  BY <1>x, <1>h, <1>e, ReplyTalks DEF ErrorStartsDrain
<1>1. ASSUME NEW p \in {"simple", "prepared", "copyOut"}, ReadUntilReady(p)
      PROVE  Conversation'
  <2>1. CASE Read(NotTerminal) /\ UNCHANGED op
    BY <1>1, <2>1, <1>h, <1>t, ReplyTalks DEF ReadUntilReady
  <2> QED
    BY <1>1, <2>1, <1>r, <1>x, FailureTalks DEF ReadUntilReady
<1>2. CASE WriterRefusesChunk
  BY <1>2, FlagTalks DEF WriterRefusesChunk
<1>3. CASE ReadCopyInResponse
  <2>1. CASE Read({"copyInResponse"}) /\ op' = Enter("writer")
    BY <1>3, <2>1, <1>h, <1>e, ReplyTalks DEF ReadCopyInResponse
  <2>2. CASE Read(Replies \ {"copyInResponse", "error"}) /\ UNCHANGED op
    BY <1>3, <2>2, <1>h, ReplyTalks DEF ReadCopyInResponse
  <2> QED
    BY <1>3, <2>1, <2>2, <1>x, FailureTalks DEF ReadCopyInResponse
<1>4. CASE DrainUntilReadyBounded
  <2>1. CASE Read({"ready"}) /\ op' = Free
    BY <1>4, <2>1, <1>h, ReadyTalks DEF DrainUntilReadyBounded
  <2>2. CASE Read(Replies \ {"ready"}) /\ op' = [op EXCEPT !.n = @ + 1]
    BY <1>4, <2>2, <1>h, <1>n, ReplyTalks DEF DrainUntilReadyBounded
  <2>3. CASE op' = Free /\ desynchronized' = TRUE
    BY <2>3, <1>f, FlagTalks
  <2> QED
    BY <1>4, <2>1, <2>2, <2>3 DEF DrainUntilReadyBounded
<1>5. ASSUME NEW p \in {"chunk", "drainReady"}, NEW ks \in SUBSET NotTerminal,
             ReadStream(p, ks), UNCHANGED <<srv, writeBuf>>
      PROVE  Conversation'
  <2>1. CASE Read(ks) /\ UNCHANGED op
    BY <1>5, <2>1, <1>h, <1>t, ReplyTalks DEF ReadStream
  <2> QED
    BY <1>5, <2>1, <1>r, <1>x, FailureTalks DEF ReadStream
<1>6. CASE ReadToReady
  BY <1>6, <1>5 DEF ReadToReady
<1>7. CASE ReadChunk
  <2>1. CASE ReadStream("chunk", NotTerminal \ {"row"})
    BY <1>7, <2>1, <1>5 DEF ReadChunk
  <2>2. CASE /\ op.phase = "chunk" /\ Read({"row"})
             /\ op' = IF op.n + 1 >= ChunkSize THEN Enter("stream")
                      ELSE [op EXCEPT !.n = @ + 1]
    <3>1. op'.phase \in {"stream", "chunk"}
      BY <2>2, <1>e, <1>n
    <3> QED
      BY <1>7, <2>2, <3>1, <1>h, ReplyTalks DEF ReadChunk
  <2> QED
    BY <1>7, <2>1, <2>2 DEF ReadChunk
<1>8. CASE CancelWaitEnds
  <2>1. op.phase = "cancelWait" /\ op'.phase = "abandon"
    BY <1>8, <1>e DEF CancelWaitEnds
  <2>2. UNCHANGED <<srv, writeBuf, toServer, toClient, link>>
    BY <1>8 DEF CancelWaitEnds, wireVars
  <2> QED
    BY <1>h, <2>1, <2>2, RephaseTalks
<1>9. CASE DrainAbandonedStream
  <2>1. CASE Read({"ready"}) /\ op' = Free
    BY <1>9, <2>1, <1>h, ReadyTalks DEF DrainAbandonedStream
  <2>2. CASE Read({"row"}) /\ op' = [op EXCEPT !.rows = @ + 1]
    BY <1>9, <2>2, <1>h, <1>n, ReplyTalks DEF DrainAbandonedStream
  <2>3. CASE Read(Replies \ {"ready", "row"}) /\ op' = [op EXCEPT !.n = @ + 1]
    BY <1>9, <2>3, <1>h, <1>n, ReplyTalks DEF DrainAbandonedStream
  <2>4. CASE op' = Free /\ desynchronized' = TRUE
    BY <2>4, <1>f, FlagTalks
  <2> QED
    BY <1>9, <2>1, <2>2, <2>3, <2>4 DEF DrainAbandonedStream
<1>10. CASE ReadCopyEnd
  <2>1. op.phase \notin {"free", "writer", "copyIn"} /\ UNCHANGED <<srv, writeBuf>>
    BY <1>10 DEF ReadCopyEnd
  <2>2. ASSUME NEW ks, Read(ks), "ready" \notin ks, op' = [op EXCEPT !.n = @ + 1]
        PROVE  Conversation'
    BY <2>1, <2>2, <1>h, <1>n, ReplyTalks
  <2>3. CASE op' = Free /\ desynchronized' = TRUE
    BY <2>3, <1>f, FlagTalks
  <2>4. \A ph : "ready" \notin NotTerminal \cup
                               (IF ph = "cancelling" THEN {"error"} ELSE {})
    BY <1>t
  <2> QED
    BY <1>10, <2>1, <2>2, <2>3, <2>4, <1>r, <1>x DEF ReadCopyEnd
<1> QED
  BY <1>1, <1>2, <1>3, <1>4, <1>6, <1>7, <1>8, <1>9, <1>10
  DEF ClientReads, ReadReply, ReadPreparedReply, ReadCopyOut

LEMMA GuardTalks ==
    ASSUME TypeOK, Conversation, NextChunk \/ DrainToReady \/ DropStream
                                 \/ UserCancel \/ DropWriterPanicking
    PROVE  Conversation'
<1>1. Holds
  BY OthersHold
<1>e. \A p \in {"chunk", "drainReady", "cancelWait", "abandon"} : Enter(p).phase = p
  BY EnterTyped, OpFacts DEF Phases
<1>2. CASE NextChunk \/ DrainToReady \/ DropStream
  <2>1. /\ op.phase = "stream"
        /\ op'.phase \in {"chunk", "drainReady", "cancelWait", "abandon"}
    BY <1>2, <1>e DEF NextChunk, DrainToReady, DropStream
  <2>2. UNCHANGED <<srv, writeBuf, toServer, toClient, link>>
    BY <1>2, Zenon DEF NextChunk, DrainToReady, DropStream, wireVars
  <2> QED
    BY <1>1, <2>1, <2>2, RephaseTalks
<1>3. CASE UserCancel
  BY <1>3
  DEF UserCancel, Conversation, InStep, ClientSide, ServerSide, Asked, Awaited,
      Answering, Answered, clientVars, wireVars, history
<1>4. CASE DropWriterPanicking
  BY <1>4, FreeTyped, FlagTalks DEF DropWriterPanicking
<1> QED
  BY <1>2, <1>3, <1>4

\* The writer appends COPY frames, which are no requests.
LEMMA FrameTalks ==
    ASSUME TypeOK, Conversation, Holds, op.phase = "writer",
           op'.phase \notin {"free", "copyIn"},
           UNCHANGED <<srv, toClient, link>>,
           link => /\ \/ toServer' = toServer
                      \/ \E w \in Seq(MessageOf(Frames)) :
                            NoKinds(w) /\ toServer' = toServer \o w
                   /\ writeBuf' \in Seq(MessageOf(Frames))
                   /\ NoKinds(writeBuf) => NoKinds(writeBuf')
                   /\ op'.phase = "writer" \/ writeBuf' = <<>>
    PROVE  Conversation'
<1>1. SUFFICES ASSUME InStep' PROVE ClientSide' /\ (link' => ServerSide')
  BY DEF Conversation
<1>2. ClientSide /\ (link => ServerSide)
  BY <1>1, StepIsNeverRegained DEF Conversation
<1>3. op'.id = op.id
  BY DEF Holds, Keeps
<1>4. ClientSide'
  BY <1>2, <1>3 DEF ClientSide
<1>5. ASSUME link PROVE ServerSide'
  <2>0. toServer \in Seq(MessageOf(Frames))
    BY DEF TypeOK
  <2>1. NoKinds(toServer) => NoKinds(toServer')
    BY <1>5, <2>0, FramesConcat
  <2>2. Asks(toServer, op.id, Kinds) => Asks(toServer', op.id, Kinds)
    BY <1>5, <2>0, FramesConcat
  <2>3. Asked => Asked'
    BY <1>3, <2>2 DEF Asked, Awaited
  <2>4. (Answering => Answering') /\ (Answered => Answered')
    BY <1>3, <2>1 DEF Answering, Answered
  <2> QED
    BY <1>2, <1>5, <2>3, <2>4 DEF ServerSide
<1> QED
  BY <1>4, <1>5

LEMMA WriterTalks ==
    ASSUME TypeOK, IdsOK, Conversation,
           Send \/ Flush \/ SendDirect \/ Finish \/ CancelCopy
    PROVE  Conversation'
<1>1. Holds
  BY OthersHold
<1>2. op.phase = "writer" /\ UNCHANGED <<srv, toClient, link>>
  BY DEF Send, Flush, SendDirect, Finish, CancelCopy, EndCopy, wireVars
<1>w. writeBuf \in Seq(MessageOf(Frames)) /\ <<>> \in Seq(MessageOf(Frames))
  BY EmptySeq DEF TypeOK
<1>k. \A k \in {"copyDatum", "copyDone", "copyFail"} :
         /\ Append(writeBuf, Frame(k)) \in Seq(MessageOf(Frames))
         /\ NoKinds(writeBuf) => NoKinds(Append(writeBuf, Frame(k)))
  <2>1. TAKE k \in {"copyDatum", "copyDone", "copyFail"}
  <2>2. Frame(k) \in MessageOf(Frames) /\ Frame(k).k \notin Kinds
    BY <1>2, WriterFrames DEF Kinds
  <2> QED
    BY <1>w, <2>2, FramesAppend
\* While the link is up and the connection in step, what is flushed holds no
\* request; when it is down, or out of step, nothing is said of it.
<1>n. (InStep' /\ link) => NoKinds(writeBuf)
  BY <1>1, StepIsNeverRegained DEF Conversation, ServerSide
<1>o. ~InStep' => Conversation'
  BY DEF Conversation
<1>3. CASE Send
  <2>1. writeBuf' = Append(writeBuf, Frame("copyDatum")) /\ toServer' = toServer /\ op' = op
    BY <1>3 DEF Send, wireVars
  <2> QED
    BY <1>1, <1>2, <1>k, <2>1, FrameTalks
<1>4. ASSUME NEW w \in Seq(MessageOf(Frames)), NoKinds(writeBuf) => NoKinds(w),
             FlushSucceeds(w), op'.phase \notin {"free", "copyIn"}
      PROVE  Conversation'
  <2>1. CASE link /\ InStep'
    <3>1. NoKinds(w) /\ toServer' = toServer \o w /\ writeBuf' = <<>>
      BY <1>4, <1>n, <2>1 DEF FlushSucceeds
    <3> QED
      BY <1>1, <1>2, <1>4, <1>w, <3>1, FrameTalks, NothingInFlight
  <2>2. CASE ~link
    BY <1>1, <1>2, <1>4, <2>2, FrameTalks
  <2> QED
    BY <2>1, <2>2, <1>o
<1>5. ASSUME NEW w, FlushFails(w), op' = op
      PROVE  Conversation'
  BY <1>1, <1>2, <1>5, FrameTalks DEF FlushFails
<1>6. CASE Flush
  <2>1. op' = op /\ (FlushSucceeds(writeBuf) \/ FlushFails(writeBuf))
    BY <1>6 DEF Flush
  <2> QED
    BY <1>2, <1>4, <1>5, <1>w, <2>1
<1>7. CASE SendDirect
  <2>1. /\ op' = op
        /\ \/ FlushSucceeds(Append(writeBuf, Frame("copyDatum")))
           \/ FlushFails(writeBuf) \/ FlushFails(<<>>)
    BY <1>7 DEF SendDirect
  <2> QED
    BY <1>2, <1>4, <1>5, <1>k, <2>1
<1>8. ASSUME NEW f \in {"copyDone", "copyFail"},
             NEW ph \in {"finishing", "cancelling"}, EndCopy(f, ph)
      PROVE  Conversation'
  <2>1. CASE op' = Free /\ desynchronized'
    BY <2>1, FreeTyped, FlagTalks
  <2>2. CASE FlushSucceeds(Append(writeBuf, Frame(f))) /\ op' = Enter(ph)
    <3>1. op'.phase = ph
      BY <2>2, EnterTyped, OpFacts DEF Phases
    <3> QED
      BY <1>4, <1>k, <2>2, <3>1
  <2> QED
    BY <1>8, <2>1, <2>2 DEF EndCopy
<1> QED
  BY <1>3, <1>6, <1>7, <1>8 DEF Finish, CancelCopy

-----------------------------------------------------------------------------
(* The server's side of the conversation                                   *)

\* A server that is busy while the connection is in step answers the holder.
LEMMA BusyAnswers ==
    ASSUME InStep, link, Conversation, srv.mode # "idle"
    PROVE  op.phase # "free" /\ Answering /\ ClientSide /\ ServerSide
  BY DEF Conversation, ServerSide, Asked, Answered

\* The server puts a message on the wire and stays, or becomes, busy or idle.
LEMMA EmitTalks ==
    ASSUME TypeOK, IdsOK, Conversation, link, srv.mode # "idle",
           NEW k \in Replies, Emit(k),
           UNCHANGED <<op, writeBuf, desynchronized, abandoned, link>>,
           toServer' = toServer \/ (toServer # <<>> /\ toServer' = Tail(toServer)),
           srv'.id = srv.id, srv'.kind = srv.kind,
           (k = "ready") <=> (srv'.mode = "idle"),
           k = "ready" => srv.mode # "run",
           \/ srv'.mode = srv.mode
           \/ srv'.mode # "run" /\ (srv.mode # "run" \/ srv.kind # "copyIn"
                                        \/ k \in {"copyInResponse", "error"})
    PROVE  Conversation'
<1>1. SUFFICES ASSUME InStep' PROVE ClientSide' /\ ServerSide'
  BY DEF Conversation
<1>2. op.phase # "free" /\ Answering /\ ClientSide /\ ServerSide
  BY <1>1, BusyAnswers DEF InStep
<1> DEFINE e == [k |-> k, id |-> srv.id]
<1>3. /\ toClient \in Seq(MessageOf(Replies)) /\ e \in MessageOf(Replies)
      /\ e.k = k /\ e.id = op.id /\ toClient' = Append(toClient, e)
  BY <1>2, EmitTypes DEF TypeOK, Emit, Answering
<1> HIDE DEF e
<1>4. ClientSide'
  BY <1>2, <1>3, RepliesAppend DEF ClientSide, Answering
<1>5. NoKinds(toServer')
  <2>1. toServer \in Seq(MessageOf(Frames)) /\ NoKinds(toServer)
    BY <1>2 DEF Answering, TypeOK
  <2> QED
    BY <2>1, FramesTail
<1>6. op.phase = "copyIn" /\ srv'.mode # "run" => Decided(toClient')
  BY <1>2, <1>3, RepliesAppend DEF Answering
<1>7. op.phase = "copyIn" /\ srv'.mode = "run" => srv'.kind = "copyIn"
  BY <1>2 DEF Answering
<1>8. CASE k = "ready"
  <2>1. Answered'
    BY <1>3, <1>5, <1>6, <1>8, RepliesAppend DEF Answered
  <2> QED
    BY <1>2, <1>4, <2>1 DEF ServerSide
<1>9. CASE k # "ready"
  <2>1. Answering'
    BY <1>2, <1>3, <1>5, <1>6, <1>7, <1>9, RepliesAppend DEF Answering
  <2> QED
    BY <1>2, <1>4, <2>1 DEF ServerSide
<1> QED
  BY <1>8, <1>9

LEMMA SilentTalks ==
    ASSUME TypeOK, Conversation, UNCHANGED <<op, writeBuf, desynchronized, abandoned>>,
           UNCHANGED <<link, toClient, srv>>,
           \/ toServer' = toServer
           \/ /\ toServer # <<>> /\ toServer' = Tail(toServer)
              /\ Head(toServer).k \notin Kinds
    PROVE  Conversation'
<1>1. toServer \in Seq(MessageOf(Frames))
  BY DEF TypeOK
<1>2. NoKinds(toServer) => NoKinds(toServer')
  BY <1>1, FramesTail
<1>3. Asks(toServer, op.id, Awaited) => Asks(toServer', op.id, Awaited)
  BY <1>1, FramesTail DEF Awaited, Kinds
<1>4. (Asked => Asked') /\ (Answering => Answering') /\ (Answered => Answered')
  BY <1>2, <1>3 DEF Asked, Awaited, Answering, Answered
<1>5. (ServerSide => ServerSide') /\ (ClientSide => ClientSide') /\ (InStep' => InStep)
  BY <1>2, <1>4 DEF ServerSide, ClientSide, InStep
<1> QED
  BY <1>5 DEF Conversation

LEMMA ServerTalks ==
    ASSUME TypeOK, IdsOK, Conversation, Server
    PROVE  Conversation'
<1>s. srv \in SrvType
  BY DEF TypeOK, SrvType
<1>m. \A m : /\ [srv EXCEPT !.mode = m].mode = m /\ [srv EXCEPT !.mode = m].id = srv.id
            /\ [srv EXCEPT !.mode = m].kind = srv.kind
  BY <1>s DEF SrvType
<1>u. UNCHANGED <<op, writeBuf, desynchronized, abandoned>> /\ link' = link
  BY DEF Server, clientVars, history, ServerTakesRequest, ServerSendsRow,
         ServerSendsNotice, ServerCompletes, ServerOpensCopyIn, ServerFails,
         ServerTakesCopyFrame, ServerIgnoresCopyFrame, ServerSendsReady
<1>k. {"row", "copyData", "notice", "complete", "copyInResponse", "error", "ready"}
        = Replies
  BY DEF Replies
<1>1. CASE ServerTakesRequest
  <2>0. SUFFICES ASSUME InStep' PROVE ClientSide' /\ (link' => ServerSide')
    BY DEF Conversation
  <2>1. /\ srv.mode = "idle" /\ toServer' = Tail(toServer) /\ toServer # <<>>
        /\ link /\ Head(toServer).k \in Kinds /\ toClient' = toClient
        /\ toServer \in Seq(MessageOf(Frames))
    BY <1>1 DEF ServerTakesRequest, NextFrame, TypeOK
  <2>2. /\ srv'.mode = "run" /\ srv'.kind = Head(toServer).k
        /\ srv'.id = Head(toServer).id
    BY <1>1 DEF ServerTakesRequest
  <2>3. ClientSide /\ ServerSide
    BY <2>0, <2>1, <1>u DEF Conversation, InStep
  <2>4. op.phase # "free" /\ Asked
    BY <2>1, <2>3, FramesTail DEF ServerSide, Answering, Answered
  <2>5. Head(toServer).id = op.id /\ Head(toServer).k \in Awaited /\ NoKinds(toServer')
    BY <2>1, <2>4, FramesTail DEF Asked
  <2>6. Answering'
    BY <1>u, <2>1, <2>2, <2>4, <2>5, NothingInFlight DEF Answering, Asked, Awaited
  <2> QED
    BY <1>u, <2>1, <2>3, <2>4, <2>6 DEF ClientSide, ServerSide
<1>2. CASE ServerSendsRow
  <2>1. /\ link /\ srv.mode = "run"
        /\ \E k \in {"row", "copyData"} : Emit(k)
        /\ toServer' = toServer
        /\ srv' = [srv EXCEPT !.left = @ - 1]
    BY <1>2 DEF ServerSendsRow
  <2>2. srv'.id = srv.id /\ srv'.kind = srv.kind /\ srv'.mode = srv.mode
    BY <1>s, <2>1 DEF SrvType
  <2> QED
    BY <1>u, <1>k, <2>1, <2>2, EmitTalks
<1>3. CASE ServerSendsNotice
  BY <1>3, <1>u, <1>k, EmitTalks DEF ServerSendsNotice
<1>4. CASE ServerCompletes
  BY <1>4, <1>u, <1>k, <1>m, EmitTalks DEF ServerCompletes
<1>5. CASE ServerOpensCopyIn
  BY <1>5, <1>u, <1>k, <1>m, EmitTalks DEF ServerOpensCopyIn
<1>6. CASE ServerFails
  BY <1>6, <1>u, <1>k, <1>m, EmitTalks DEF ServerFails
<1>7. CASE ServerTakesCopyFrame
  <2>1. /\ srv.mode = "copyIn" /\ link /\ toServer # <<>> /\ toServer' = Tail(toServer)
    BY <1>7 DEF ServerTakesCopyFrame, NextFrame
  <2>2. CASE NextFrame({"copyDatum"}) /\ UNCHANGED <<srv, toClient>>
    BY <1>u, <2>1, <2>2, SilentTalks DEF NextFrame, Kinds
  <2>3. CASE \E k \in {"complete", "error"} : Emit(k) /\ srv' = [srv EXCEPT !.mode = "tail"]
    BY <1>u, <1>k, <1>m, <2>1, <2>3, EmitTalks
  <2> QED
    BY <1>7, <2>2, <2>3 DEF ServerTakesCopyFrame
<1>8. CASE ServerIgnoresCopyFrame
  BY <1>8, <1>u, SilentTalks DEF ServerIgnoresCopyFrame, NextFrame, Kinds
<1>9. CASE ServerSendsReady
  BY <1>9, <1>u, <1>k, <1>m, EmitTalks DEF ServerSendsReady
<1> QED
  BY <1>1, <1>2, <1>3, <1>4, <1>5, <1>6, <1>7, <1>8, <1>9 DEF Server

LEMMA OutsideTalks ==
    ASSUME TypeOK, IdsOK, Conversation, ServerCancels \/ LinkLost
    PROVE  Conversation'
<1>1. CASE ServerCancels
  <2>1. UNCHANGED <<op, writeBuf, desynchronized, abandoned, link, toServer>> /\ link
    BY <1>1 DEF ServerCancels, clientVars
  <2>2. CASE srv.mode \in {"run", "copyIn"} /\ Emit("error")
             /\ srv' = [srv EXCEPT !.mode = "tail"]
    <3>1. srv'.mode = "tail" /\ srv'.id = srv.id /\ srv'.kind = srv.kind
      BY <2>2 DEF TypeOK
    <3> QED
      BY <2>1, <2>2, <3>1, EmitTalks DEF Replies
  <2>3. CASE UNCHANGED <<toClient, srv>>
    BY <2>1, <2>3, SilentTalks
  <2> QED
    BY <1>1, <2>2, <2>3 DEF ServerCancels
<1>2. CASE LinkLost
  <2>1. PICK n \in 0 .. Len(toClient) : toClient' = SubSeq(toClient, 1, n)
    BY <1>2 DEF LinkLost
  <2>2. UNCHANGED <<op, desynchronized, abandoned>> /\ ~link'
    BY <1>2 DEF LinkLost, clientVars, history
  <2>3. ClientSide => ClientSide'
    BY <2>1, <2>2, RepliesPrefix DEF ClientSide, TypeOK
  <2>4. InStep' => InStep
    BY <2>2 DEF InStep
  <2> QED
    BY <2>2, <2>3, <2>4 DEF Conversation
<1> QED
  BY <1>1, <1>2

-----------------------------------------------------------------------------
(* Replies and the theorems                                                *)

\* The message that decides a checked request is the request's own.
LEMMA AnswerIsOwn ==
    ASSUME TypeOK, Conversation, RepliesAreOwn, op.phase # "free",
           NEW ks, Read(ks), Answer, abandoned' = abandoned
    PROVE  RepliesAreOwn'
<1>1. CASE op.checked /\ ~abandoned
  <2>1. Own(toClient, op.id)
    BY <1>1 DEF Conversation, InStep, ClientSide
  <2>2. toClient \in Seq(MessageOf(Replies)) /\ toClient # <<>>
    BY DEF TypeOK, Read
  <2>3. Head(toClient).id = op.id
    BY <2>1, <2>2, RepliesTail
  <2> QED
    BY <2>3 DEF Answer, RepliesAreOwn
<1>2. CASE ~op.checked \/ abandoned
  BY <1>2 DEF Answer, RepliesAreOwn
<1> QED
  BY <1>1, <1>2

LEMMA RepliesStep ==
    ASSUME TypeOK, Conversation, RepliesAreOwn, [Next]_vars
    PROVE  RepliesAreOwn'
<1>1. \/ /\ op.phase # "free" /\ Answer /\ abandoned' = abandoned
         /\ \E ks : Read(ks)
      \/ misanswered' = misanswered /\ (abandoned => abandoned')
  <2>1. CASE UNCHANGED vars
    BY <2>1 DEF vars, history
  <2>2. ASSUME NEW kind \in Kinds, Request(kind)
        PROVE  misanswered' = misanswered /\ (abandoned => abandoned')
    BY <2>2 DEF Request, history
  <2>3. CASE ReadReply \/ ReadPreparedReply \/ ReadCopyOut \/ ReadCopyInResponse
             \/ ReadToReady \/ ReadChunk \/ ReadCopyEnd
    BY <2>3
    DEF ReadReply, ReadPreparedReply, ReadCopyOut, ReadUntilReady,
        ReadCopyInResponse, ReadToReady, ReadChunk, ReadStream, ReadCopyEnd,
        ReadyEnds, ErrorStartsDrain
  <2>4. CASE DrainUntilReadyBounded \/ CancelWaitEnds \/ DrainAbandonedStream
             \/ WriterRefusesChunk
    BY <2>4
    DEF DrainUntilReadyBounded, CancelWaitEnds, DrainAbandonedStream,
        WriterRefusesChunk, history
  <2>5. CASE NextChunk \/ DrainToReady \/ DropStream \/ UserCancel
             \/ Send \/ Flush \/ SendDirect \/ Finish \/ CancelCopy
             \/ DropWriterPanicking
    BY <2>5, Zenon
    DEF NextChunk, DrainToReady, DropStream, UserCancel, Send, Flush, SendDirect,
        Finish, CancelCopy, EndCopy, DropWriterPanicking, history
  <2>6. CASE Server \/ ServerCancels \/ LinkLost
    BY <2>6 DEF Server, ServerCancels, LinkLost, history
  <2> QED
    BY <2>1, <2>2, <2>3, <2>4, <2>5, <2>6
    DEF Next, ClientReads, Resting, SimpleQuery, QueryStreaming, StartCopyIn,
        CopyOut, PreparedRequest, Kinds
<1> QED
  BY <1>1, AnswerIsOwn DEF RepliesAreOwn

LEMMA ConversationStep ==
    ASSUME TypeOK, IdsOK, Conversation, [Next]_vars
    PROVE  Conversation'
<1>1. CASE UNCHANGED vars
  BY <1>1, SilentTalks DEF vars, clientVars, wireVars, history
<1>2. CASE SimpleQuery \/ QueryStreaming \/ StartCopyIn \/ CopyOut \/ PreparedRequest
  BY <1>2, RequestTalks
  DEF SimpleQuery, QueryStreaming, StartCopyIn, CopyOut, PreparedRequest, Kinds
<1> QED
  BY <1>1, <1>2, ClientReadsTalk, GuardTalks, WriterTalks, ServerTalks, OutsideTalks
  DEF Next, Resting

LEMMA InitInvariant ==
    ASSUME Init
    PROVE  WireInv
<1>1. TypeOK
  <2>1. op \in OpType /\ WithinBudget(op)
    BY FreeTyped DEF Init
  <2>2. 0 \in 0 .. MaxRequests /\ 0 \in 0 .. MaxRows /\ 0 <= Capacity
    BY BoundsAssumption
  <2> QED
    BY <2>1, <2>2, EmptySeq DEF Init, TypeOK, OpType, WithinBudget, Kinds
<1>2. op.phase = "free"
  BY FreeTyped DEF Init
<1>3. IdsOK
  BY <1>2, NothingInFlight DEF Init, IdsOK
<1>4. Conversation
  BY <1>2, NothingInFlight DEF Init, Conversation, ClientSide, ServerSide
<1> QED
  BY <1>1, <1>3, <1>4 DEF WireInv, RepliesAreOwn, Init

\* The invariant holds of every reachable state.
THEOREM InvariantHolds == Spec => []WireInv
<1>1. Init => WireInv
  BY InitInvariant
<1>2. WireInv /\ [Next]_vars => WireInv'
  BY TypeStep, IdsStep, ConversationStep, RepliesStep DEF WireInv
<1> QED
  BY <1>1, <1>2, PTL DEF Spec

\* Types, and the budgets of the read loops: drain_until_ready_bounded,
\* drain_abandoned_stream, finish_copy and cancel_copy never read past their
\* caps, and next_chunk never collects more than chunk_size rows, whatever the
\* server sends.
THEOREM TypesHold == Spec => []TypeOK
<1>1. WireInv => TypeOK
  BY DEF WireInv
<1> QED
  BY <1>1, InvariantHolds, PTL

\* A connection released without the desynchronized flag has an empty wire and
\* an idle server, however its last request ended (connection.rs and client.rs:
\* results, errors, dropped streams and writers, lost links).
THEOREM FreeConnectionIsClean == Spec => []CleanWhenFree
<1>1. WireInv => CleanWhenFree
  <2>1. SUFFICES ASSUME Conversation, op.phase = "free", ~desynchronized, ~abandoned
                 PROVE  /\ toClient = <<>>
                        /\ link => srv.mode = "idle" /\ NoKinds(toServer)
    BY DEF WireInv, CleanWhenFree, NoKinds
  <2> QED
    BY <2>1 DEF Conversation, InStep, ClientSide, ServerSide
<1> QED
  BY <1>1, InvariantHolds, PTL

\* A request that passed ensure_healthy is answered by its own reply, and a
\* cancel that a stream's Drop waited for never hits a later query.
THEOREM RequestsStayIsolated == Spec => []RequestsAreIsolated
<1>1. WireInv => RequestsAreIsolated
  BY DEF WireInv, IdsOK, RequestsAreIsolated, WaitedCancelIsContained
<1> QED
  BY <1>1, InvariantHolds, PTL

-----------------------------------------------------------------------------
(* The asynchronous connection: its invariant                              *)

\* What lies on the wires, and where a call may be.
AsyncFrame == [k : AsyncFrames, id : Nat]
AsyncMessage == [k : AsyncReplies \cup {"zeros"}, id : Nat]
AsyncPhases == Writing \cup Reading \cup {"free", "stream"}
DrainPhases == {"drainPending", "errDrain", "streamErrDrain"}

\* A call that holds the mutex has a request, and counts only in a drain or a chunk.
CallOK(o) ==
    /\ o \in [phase : AsyncPhases, kind : AsyncKinds, id : 0 .. MaxAsyncRequests, n : Nat]
    /\ o.phase # "free" => o.id \in AsyncIds
    /\ o.n # 0 => \/ o.phase \in DrainPhases /\ o.n <= AsyncDrainCap
                  \/ o.phase = "chunk" /\ o.n < AsyncChunkSize

\* The other variables, and the wires.
AsyncFlags ==
    /\ aissued \in 0 .. MaxAsyncRequests /\ awriters \subseteq AsyncIds
    /\ awriteInFlight \in BOOLEAN /\ apendingCancel \in BOOLEAN /\ adesynchronized \in BOOLEAN
    /\ alink \in BOOLEAN /\ acancelSent \in BOOLEAN
    /\ amisanswered \subseteq AsyncIds /\ atainted \subseteq {"torn", "read", "rewrite", "overlap", "lost"}

WiresOK ==
    /\ awriteBuf \in Seq(AsyncFrame) /\ atoServer \in Seq(AsyncFrame) /\ atoClient \in Seq(AsyncMessage)
    /\ asrv \in [mode : {"idle", "run", "tail", "copyIn"}, kind : AsyncKinds, id : Nat, left : Int]

AsyncTypes == CallOK(aop) /\ AsyncFlags /\ WiresOK

\* No request is on its way to the server.
NoneAsked == alink => \A i \in 1 .. Len(atoServer) : atoServer[i].k \notin AsyncKinds

\* Nothing is under way in either direction.
Quiet == atoClient = <<>> /\ (alink => asrv.mode = "idle") /\ NoneAsked

\* Whatever is under way belongs to request c: its frame is on its way, or the
\* server is at it, or its ReadyForQuery is the last message.
TalksOf(c) ==
    /\ \A i \in 1 .. Len(atoClient) : atoClient[i].id = c /\ atoClient[i].k \in AsyncReplies
    /\ \A i \in 1 .. Len(atoClient) : atoClient[i].k = "ready" => i = Len(atoClient)
    /\ alink =>
          /\ asrv.mode # "idle" => asrv.id = c /\ \A i \in 1 .. Len(atoClient) : atoClient[i].k # "ready"
          /\ \A i \in 1 .. Len(atoServer) : atoServer[i].k \in AsyncKinds =>
                /\ atoServer[i].id = c /\ asrv.mode = "idle" /\ atoClient = <<>>
                /\ \A j \in 1 .. Len(atoServer) : atoServer[j].k \in AsyncKinds => j = i

\* The client's side.  The mutex is free and nothing is left to do; a request is being written; the
\* reply to request c is being read; the COPY of request c is open, or was.
IdleAt == aop.phase = "free" /\ awriters = {} /\ ~apendingCancel /\ ~awriteInFlight /\ awriteBuf = <<>>

AskingAt ==
    /\ aop.phase = "flush" /\ awriters = {} /\ ~apendingCancel /\ awriteInFlight
    /\ awriteBuf = <<[k |-> aop.kind, id |-> aop.id]>>

ReadPhases == {"stream", "await", "chunk", "drainReady", "errDrain", "streamErrDrain", "ending"}

ReadsAt(c) ==
    /\ aop.phase \in ReadPhases /\ aop.id = c /\ awriters = {} /\ ~apendingCancel
    /\ ~awriteInFlight /\ awriteBuf = <<>>

BufferHasCopy == \A i \in 1 .. Len(awriteBuf) : awriteBuf[i].k \in {"copyDatum", "copyDone", "copyFail"}

CopyAt(c) ==
    /\ BufferHasCopy
    /\ \/ aop.phase = "free" /\ ~apendingCancel /\ awriters = {c}
       \/ aop.phase \in {"writerFlush", "direct"} /\ ~apendingCancel /\ awriters = {c} /\ aop.id = c /\ awriteInFlight
       \/ aop.phase = "endFlush" /\ ~apendingCancel /\ awriters = {} /\ aop.id = c /\ awriteInFlight
       \/ aop.phase = "free" /\ apendingCancel /\ awriters = {} /\ ~awriteInFlight /\ awriteBuf # <<>>
       \/ aop.phase = "flushPending" /\ apendingCancel /\ awriters = {} /\ awriteInFlight
       \/ aop.phase = "drainPending" /\ apendingCancel /\ awriters = {} /\ ~awriteInFlight /\ awriteBuf = <<>>

\* Client and server agree on what the connection is being used for.
Together ==
    \/ (IdleAt \/ AskingAt) /\ Quiet
    \/ \E c \in Nat : TalksOf(c) /\ (ReadsAt(c) \/ (NoneAsked /\ CopyAt(c)))

\* The connection counts as broken, and no request is made on it again.
Apart ==
    /\ aop.phase \in {"free", "writerFlush", "direct"}
    /\ \/ adesynchronized
       \/ "torn" \in atainted /\ awriteInFlight
       \/ aop.phase = "free" /\ awriteInFlight /\ awriters = {}

\* A connection is on track or broken, until something was done to it that its
\* flags do not record.
OnTrack == atainted = {} /\ ~adesynchronized /\ Together

AsyncConversation == Untainted => amisanswered = {} /\ (Apart \/ OnTrack)

AsyncInv == AsyncTypes /\ AsyncConversation

\* The invariant gives the property.
LEMMA InvGivesInStep == AsyncInv => AsyncInStep
  <1> SUFFICES ASSUME AsyncInv PROVE AsyncInStep OBVIOUS
  <1>1. CallOK(aop) /\ AsyncFlags /\ WiresOK /\ AsyncConversation BY DEF AsyncInv, AsyncTypes
  <1>2. AsyncTypeOK
    <2> DEFINE most == IF AsyncChunkSize > AsyncDrainCap THEN AsyncChunkSize ELSE AsyncDrainCap
    <2>1. most \in Nat /\ AsyncDrainCap <= most /\ AsyncChunkSize <= most BY AsyncAssumption
    <2>2. aop \in [phase : AsyncPhases, kind : AsyncKinds, id : 0 .. MaxAsyncRequests, n : Nat]
      BY <1>1 DEF CallOK
    <2>3. aop.n \in 0 .. most BY <1>1, <2>1, <2>2, AsyncAssumption DEF CallOK
    <2> HIDE DEF most
    <2>4. aop \in [phase : AsyncPhases, kind : AsyncKinds, id : 0 .. MaxAsyncRequests, n : 0 .. most]
      BY <2>2, <2>3
    <2>5. \A i \in 1 .. Len(awriteBuf) : awriteBuf[i].k \in AsyncFrames 
      <3>1. awriteBuf \in Seq(AsyncFrame) BY <1>1 DEF WiresOK
      <3>2. \A i \in 1 .. Len(awriteBuf) : awriteBuf[i] \in AsyncFrame BY <3>1
      <3> QED BY <3>2 DEF AsyncFrame
    <2>6. \A i \in 1 .. Len(atoClient) : atoClient[i].k \in AsyncReplies \cup {"zeros"} 
      <3>1. atoClient \in Seq(AsyncMessage) BY <1>1 DEF WiresOK
      <3>2. \A i \in 1 .. Len(atoClient) : atoClient[i] \in AsyncMessage BY <3>1
      <3> QED BY <3>2 DEF AsyncMessage
    <2>7. {awriteInFlight, apendingCancel, adesynchronized, alink, acancelSent} \subseteq BOOLEAN
      BY <1>1 DEF AsyncFlags
    <2> QED BY <1>1, <2>4, <2>5, <2>6, <2>7 DEF AsyncTypeOK, AsyncFlags, AsyncPhases, most
  <1>3. AsyncRepliesAreOwn BY <1>1 DEF AsyncConversation, AsyncRepliesAreOwn
  <1>4. AsyncCleanWhenFree
    <2> SUFFICES ASSUME aop.phase = "free", IsHealthy, Untainted
                 PROVE  /\ apendingCancel \/ awriters # {} \/ atoClient = <<>>
                        /\ alink => /\ asrv.mode \in {"run", "tail"} => apendingCancel \/ awriters # {}
                                    /\ asrv.mode = "copyIn" => CopyIsAccountedFor
                                    /\ \A i \in 1 .. Len(atoServer) : atoServer[i].k \notin AsyncKinds
      BY DEF AsyncCleanWhenFree
    <2>1. ~Apart BY DEF Apart, IsHealthy
    <2>2. Together BY <1>1, <2>1 DEF AsyncConversation, OnTrack
    <2>3. CASE (IdleAt \/ AskingAt) /\ Quiet BY <2>3 DEF Quiet, NoneAsked
    <2>4. CASE \E c \in Nat : TalksOf(c) /\ (ReadsAt(c) \/ (NoneAsked /\ CopyAt(c)))
      <3>1. PICK c \in Nat : TalksOf(c) /\ (ReadsAt(c) \/ (NoneAsked /\ CopyAt(c))) BY <2>4
      <3>2. NoneAsked /\ CopyAt(c) BY <3>1 DEF ReadsAt, ReadPhases
      <3>3. apendingCancel \/ awriters = {c} BY <3>2 DEF CopyAt
      <3>4. alink /\ asrv.mode = "copyIn" => asrv.id = c BY <3>1 DEF TalksOf
      <3> QED BY <3>2, <3>3, <3>4 DEF NoneAsked, CopyIsAccountedFor
    <2> QED BY <2>2, <2>3, <2>4 DEF Together
  <1> QED BY <1>2, <1>3, <1>4 DEF AsyncInStep

\* The invariant holds when the connection has been opened.
LEMMA AsyncStarts == AsyncInit => AsyncInv
  <1> SUFFICES ASSUME AsyncInit PROVE AsyncInv OBVIOUS
  <1>1. CallOK(aop) BY AsyncAssumption DEF AsyncInit, AsyncFree, CallOK, AsyncPhases, AsyncKinds
  <1>2. AsyncFlags
    <2>1. aissued \in 0 .. MaxAsyncRequests BY AsyncAssumption DEF AsyncInit
    <2> QED BY <2>1 DEF AsyncInit, AsyncFlags
  <1>3. WiresOK BY DEF AsyncInit, WiresOK, AsyncKinds
  <1>4. IdleAt /\ Quiet BY DEF AsyncInit, AsyncFree, IdleAt, Quiet, NoneAsked
  <1>5. AsyncConversation BY <1>4 DEF AsyncInit, AsyncConversation, OnTrack, Together
  <1> QED BY <1>1, <1>2, <1>3, <1>5 DEF AsyncInv, AsyncTypes

-----------------------------------------------------------------------------
\* What a message that was read leaves of the conversation.
LEMMA ReadLeaves ==
  ASSUME WiresOK, NEW c \in Nat, TalksOf(c), atoClient # <<>>, atoClient' = Tail(atoClient),
         UNCHANGED <<alink, atoServer, asrv>>
  PROVE  /\ TalksOf(c)' /\ NoneAsked' /\ Head(atoClient).id = c /\ Head(atoClient) # Zeros
         /\ Head(atoClient).k = "ready" => Quiet'
         /\ Tail(atoClient) \in Seq(AsyncMessage)
  <1> DEFINE n == Len(atoClient)
  <1>1. atoClient \in Seq(AsyncMessage) /\ n \in Nat /\ n > 0 BY DEF WiresOK
  <1>2. /\ Head(atoClient) = atoClient[1] /\ Tail(atoClient) \in Seq(AsyncMessage) /\ Len(Tail(atoClient)) = n - 1
        /\ \A i \in 1 .. n - 1 : Tail(atoClient)[i] = atoClient[i + 1]
    BY <1>1
  <1>3. \A i \in 1 .. n : atoClient[i].id = c /\ atoClient[i].k \in AsyncReplies BY DEF TalksOf
  <1>4. \A i \in 1 .. n : atoClient[i].k = "ready" => i = n BY DEF TalksOf
  <1>5. alink => /\ asrv.mode # "idle" => asrv.id = c /\ \A i \in 1 .. n : atoClient[i].k # "ready"
                 /\ \A i \in 1 .. Len(atoServer) : atoServer[i].k \notin AsyncKinds
    BY DEF TalksOf
  <1> HIDE DEF n
  <1>6. \A i \in 1 .. Len(atoClient') : atoClient'[i].id = c /\ atoClient'[i].k \in AsyncReplies
    BY <1>1, <1>2, <1>3
  <1>7. \A i \in 1 .. Len(atoClient') : atoClient'[i].k = "ready" => i = Len(atoClient')
    BY <1>1, <1>2, <1>4
  <1>8. alink' /\ asrv'.mode # "idle" => asrv'.id = c /\ \A i \in 1 .. Len(atoClient') : atoClient'[i].k # "ready"
    <2> SUFFICES ASSUME alink, asrv.mode # "idle"
                 PROVE  asrv'.id = c /\ \A i \in 1 .. Len(Tail(atoClient)) : Tail(atoClient)[i].k # "ready"
      OBVIOUS
    <2>1. asrv.id = c /\ \A i \in 1 .. n : atoClient[i].k # "ready" BY <1>5
    <2> QED BY <1>1, <1>2, <2>1
  <1>9. NoneAsked' BY <1>5 DEF NoneAsked, AsyncKinds
  <1>10. TalksOf(c)' BY <1>6, <1>7, <1>8, <1>9 DEF TalksOf, NoneAsked
  <1>11. Head(atoClient).id = c /\ Head(atoClient) # Zeros BY <1>1, <1>2, <1>3 DEF Zeros, AsyncReplies
  <1>12. ASSUME Head(atoClient).k = "ready" PROVE Quiet'
    <2>1. n = 1 BY <1>1, <1>2, <1>4, <1>12
    <2>2. atoClient' = <<>> BY <1>2, <2>1
    <2>3. alink => asrv.mode = "idle" BY <1>1, <1>2, <1>5, <1>12
    <2> QED BY <1>9, <2>2, <2>3 DEF Quiet
  <1> QED BY <1>2, <1>9, <1>10, <1>11, <1>12

\* A write of COPY frames leaves the conversation as it is.
LEMMA CopyDelivered ==
  ASSUME WiresOK, NEW c \in Nat, TalksOf(c), NoneAsked, BufferHasCopy, Deliver(awriteBuf),
         UNCHANGED <<alink, atoClient, asrv>>
  PROVE  TalksOf(c)' /\ NoneAsked' /\ atoServer' \in Seq(AsyncFrame)
  <1>1. awriteBuf \in Seq(AsyncFrame) /\ atoServer \in Seq(AsyncFrame) BY DEF WiresOK
  <1>2. atoServer' = atoServer \/ atoServer' = atoServer \o awriteBuf BY DEF Deliver
  <1>3. \A i \in 1 .. Len(awriteBuf) : awriteBuf[i].k \notin AsyncKinds BY DEF BufferHasCopy, AsyncKinds
  <1>4. NoneAsked'
    <2>1. CASE atoServer' = atoServer BY <2>1 DEF NoneAsked, AsyncKinds
    <2>2. CASE atoServer' = atoServer \o awriteBuf
      <3>1. ASSUME alink, NEW i \in 1 .. Len(atoServer \o awriteBuf) PROVE (atoServer \o awriteBuf)[i].k \notin AsyncKinds
        <4>1. CASE i <= Len(atoServer)
          <5>1. (atoServer \o awriteBuf)[i] = atoServer[i] BY <1>1, <4>1
          <5> QED BY <5>1, <4>1, <3>1, <1>1 DEF NoneAsked
        <4>2. CASE i > Len(atoServer)
          <5>1. (atoServer \o awriteBuf)[i] = awriteBuf[i - Len(atoServer)] /\ i - Len(atoServer) \in 1 .. Len(awriteBuf)
            BY <1>1, <4>2
          <5> QED BY <5>1, <1>3
        <4> QED BY <4>1, <4>2, <1>1
      <3> QED BY <2>2, <3>1 DEF NoneAsked, AsyncKinds
    <2> QED BY <1>2, <2>1, <2>2
  <1>5. TalksOf(c)' BY <1>4 DEF TalksOf, NoneAsked
  <1>6. atoServer \o awriteBuf \in Seq(AsyncFrame) BY <1>1
  <1> QED BY <1>1, <1>2, <1>4, <1>5, <1>6

\* A request that is written on a quiet wire starts its conversation.
LEMMA RequestDelivered ==
  ASSUME WiresOK, NEW c \in Nat, NEW k \in AsyncKinds, Quiet, awriteBuf = <<[k |-> k, id |-> c]>>, Deliver(awriteBuf),
         UNCHANGED <<alink, atoClient, asrv>>
  PROVE  TalksOf(c)' /\ atoServer' \in Seq(AsyncFrame)
  <1> DEFINE f == [k |-> k, id |-> c]
             s == atoServer
             n == Len(atoServer)
  <1>1. awriteBuf \in Seq(AsyncFrame) /\ s \in Seq(AsyncFrame) /\ n \in Nat BY DEF WiresOK
  <1>2. atoServer' = s \/ atoServer' = s \o <<f>> BY DEF Deliver
  <1>3. f.k = k /\ f.id = c /\ f \in AsyncFrame BY DEF AsyncFrame, AsyncFrames
  <1>4. atoClient' = <<>> /\ (alink' => asrv'.mode = "idle") BY DEF Quiet
  <1> HIDE DEF f
  <1>5. CASE atoServer' = s
    <2>1. NoneAsked' BY <1>5 DEF Quiet, NoneAsked, AsyncKinds
    <2> QED BY <1>1, <1>4, <1>5, <2>1 DEF TalksOf, NoneAsked
  <1>6. CASE atoServer' = s \o <<f>>
    <2>1. Len(s \o <<f>>) = n + 1 /\ s \o <<f>> \in Seq(AsyncFrame) BY <1>1, <1>3
    <2>2. \A i \in 1 .. n : (s \o <<f>>)[i] = s[i] BY <1>1, <1>3
    <2>3. (s \o <<f>>)[n + 1] = f BY <1>1, <1>3
    <2>4. alink => \A i \in 1 .. n : s[i].k \notin AsyncKinds BY DEF Quiet, NoneAsked
    <2>5. ASSUME alink, NEW i \in 1 .. Len(s \o <<f>>), (s \o <<f>>)[i].k \in AsyncKinds PROVE i = n + 1 /\ (s \o <<f>>)[i].id = c
      <3>1. i = n + 1 BY <1>1, <2>1, <2>2, <2>4, <2>5
      <3> QED BY <1>3, <2>3, <3>1
    <2> QED BY <1>4, <1>6, <2>1, <2>5 DEF TalksOf, AsyncKinds
  <1> QED BY <1>2, <1>5, <1>6

-----------------------------------------------------------------------------
(* The server's side                                                       *)

\* The server takes the first frame.
LEMMA FrameTaken ==
  ASSUME WiresOK, atoServer # <<>>, atoServer' = Tail(atoServer)
  PROVE  /\ atoServer' \in Seq(AsyncFrame) /\ Head(atoServer) = atoServer[1] /\ 1 \in 1 .. Len(atoServer)
         /\ Head(atoServer) \in AsyncFrame
         /\ \A i \in 1 .. Len(atoServer') : i + 1 \in 2 .. Len(atoServer) /\ atoServer'[i] = atoServer[i + 1]
  <1>1. atoServer \in Seq(AsyncFrame) BY DEF WiresOK
  <1>2. Len(atoServer) \in Nat /\ Len(atoServer) > 0 /\ Len(Tail(atoServer)) = Len(atoServer) - 1
    BY <1>1
  <1>3. Head(atoServer) = atoServer[1] /\ Tail(atoServer) \in Seq(AsyncFrame) BY <1>1
  <1>4. atoServer[1] \in AsyncFrame BY <1>1, <1>2
  <1>5. \A i \in 1 .. Len(Tail(atoServer)) : Tail(atoServer)[i] = atoServer[i + 1] BY <1>1, <1>2
  <1> QED BY <1>2, <1>3, <1>4, <1>5

\* The server sends one message about the request it is at.
LEMMA MessageSent ==
  ASSUME WiresOK, NEW k \in AsyncReplies, AsyncEmit(k)
  PROVE  /\ atoClient' \in Seq(AsyncMessage) /\ Len(atoClient) \in Nat /\ Len(atoClient') = Len(atoClient) + 1
         /\ \A i \in 1 .. Len(atoClient) : atoClient'[i] = atoClient[i]
         /\ atoClient'[Len(atoClient) + 1] = [k |-> k, id |-> asrv.id]
  <1> DEFINE m == [k |-> k, id |-> asrv.id]
  <1>1. atoClient \in Seq(AsyncMessage) /\ asrv.id \in Nat BY DEF WiresOK
  <1>2. m \in AsyncMessage BY <1>1 DEF AsyncMessage
  <1>3. atoClient' = Append(atoClient, m) BY DEF AsyncEmit
  <1> HIDE DEF m
  <1>4. /\ Append(atoClient, m) \in Seq(AsyncMessage) /\ Len(atoClient) \in Nat /\ Len(Append(atoClient, m)) = Len(atoClient) + 1
        /\ \A i \in 1 .. Len(atoClient) : Append(atoClient, m)[i] = atoClient[i]
        /\ Append(atoClient, m)[Len(atoClient) + 1] = m
    BY <1>1, <1>2
  <1> QED BY <1>3, <1>4 DEF m

\* What the server sends belongs to the conversation, its ReadyForQuery last.
LEMMA EmittedTalks ==
  ASSUME WiresOK, NEW c \in Nat, TalksOf(c), alink, alink' = alink, asrv.mode # "idle", NEW k \in AsyncReplies, AsyncEmit(k),
         asrv'.id = asrv.id, asrv'.mode # "idle" => k # "ready",
         atoServer' = atoServer \/ (atoServer # <<>> /\ atoServer' = Tail(atoServer))
  PROVE  TalksOf(c)' /\ NoneAsked'
  <1> DEFINE n == Len(atoClient)
  <1>1. /\ n \in Nat /\ Len(atoClient') = n + 1 /\ \A i \in 1 .. n : atoClient'[i] = atoClient[i]
        /\ atoClient'[n + 1] = [k |-> k, id |-> asrv.id]
    BY MessageSent
  <1>2. /\ \A i \in 1 .. n : atoClient[i].id = c /\ atoClient[i].k \in AsyncReplies /\ atoClient[i].k # "ready"
        /\ asrv.id = c /\ \A i \in 1 .. Len(atoServer) : atoServer[i].k \notin AsyncKinds
    BY DEF TalksOf
  <1> HIDE DEF n
  <1>3. ASSUME NEW i \in 1 .. Len(atoClient')
        PROVE  atoClient'[i].id = c /\ atoClient'[i].k \in AsyncReplies /\ (atoClient'[i].k = "ready" => i = n + 1 /\ k = "ready")
    <2>1. CASE i = n + 1 BY <1>1, <1>2, <2>1
    <2>2. CASE i # n + 1
      <3>1. i \in 1 .. n /\ atoClient'[i] = atoClient[i] BY <1>1, <2>2
      <3> QED BY <1>2, <3>1
    <2> QED BY <2>1, <2>2
  <1>4. NoneAsked'
    <2>1. CASE atoServer' = atoServer BY <2>1, <1>2 DEF NoneAsked, AsyncKinds
    <2>2. CASE atoServer # <<>> /\ atoServer' = Tail(atoServer)
      <3>1. \A i \in 1 .. Len(atoServer') : i + 1 \in 2 .. Len(atoServer) /\ atoServer'[i] = atoServer[i + 1]
        BY <2>2, FrameTaken
      <3>2. \A i \in 1 .. Len(atoServer') : atoServer'[i].k \notin AsyncKinds
        <4> TAKE i \in 1 .. Len(atoServer')
        <4>1. i + 1 \in 2 .. Len(atoServer) /\ atoServer'[i] = atoServer[i + 1] BY <3>1
        <4>2. i + 1 \in 1 .. Len(atoServer) BY <4>1
        <4> QED BY <4>1, <4>2, <1>2
      <3> QED BY <3>2 DEF NoneAsked, AsyncKinds
    <2> QED BY <2>1, <2>2
  <1>5. asrv'.mode # "idle" => asrv'.id = c /\ \A i \in 1 .. Len(atoClient') : atoClient'[i].k # "ready"
    BY <1>2, <1>3
  <1>6. \A i \in 1 .. Len(atoClient') : atoClient'[i].k = "ready" => i = Len(atoClient') BY <1>1, <1>3
  <1>7. \A i \in 1 .. Len(atoClient') : atoClient'[i].id = c /\ atoClient'[i].k \in AsyncReplies BY <1>3
  <1> QED BY <1>4, <1>5, <1>6, <1>7 DEF TalksOf, NoneAsked

\* A frame that starts nothing is taken from the wire.
LEMMA FrameDropped ==
  ASSUME WiresOK, alink, alink' = alink, atoServer # <<>>, atoServer' = Tail(atoServer), UNCHANGED <<atoClient, asrv>>
  PROVE  /\ NoneAsked => NoneAsked'
         /\ Quiet => Quiet'
         /\ \A c \in Nat : TalksOf(c) => TalksOf(c)'
  <1>1. \A i \in 1 .. Len(atoServer') : i + 1 \in 2 .. Len(atoServer) /\ atoServer'[i] = atoServer[i + 1]
    BY FrameTaken
  <1>2. Len(atoServer) \in Nat BY DEF WiresOK
  <1>3. \A i \in 1 .. Len(atoServer') : i + 1 \in 1 .. Len(atoServer) BY <1>1, <1>2
  <1>4. ASSUME NoneAsked PROVE NoneAsked'
    <2>1. \A i \in 1 .. Len(atoServer) : atoServer[i].k \notin AsyncKinds BY <1>4 DEF NoneAsked
    <2>2. \A i \in 1 .. Len(atoServer') : atoServer'[i].k \notin AsyncKinds BY <1>1, <1>3, <2>1
    <2> QED BY <2>2 DEF NoneAsked, AsyncKinds
  <1>5. Quiet => Quiet' BY <1>4 DEF Quiet
  <1>6. ASSUME NEW c \in Nat, TalksOf(c) PROVE TalksOf(c)'
    <2>1. ASSUME NEW i \in 1 .. Len(atoServer'), atoServer'[i].k \in AsyncKinds
          PROVE  /\ atoServer'[i].id = c /\ asrv.mode = "idle" /\ atoClient = <<>>
                 /\ \A j \in 1 .. Len(atoServer') : atoServer'[j].k \in AsyncKinds => j = i
      <3>1. i + 1 \in 1 .. Len(atoServer) /\ atoServer'[i] = atoServer[i + 1] BY <1>1, <1>3
      <3>2. /\ atoServer[i + 1].id = c /\ asrv.mode = "idle" /\ atoClient = <<>>
            /\ \A j \in 1 .. Len(atoServer) : atoServer[j].k \in AsyncKinds => j = i + 1
        BY <1>6, <2>1, <3>1 DEF TalksOf
      <3>3. ASSUME NEW j \in 1 .. Len(atoServer'), atoServer'[j].k \in AsyncKinds PROVE j = i
        <4>1. j + 1 \in 1 .. Len(atoServer) /\ atoServer'[j] = atoServer[j + 1] BY <1>1, <1>3
        <4>2. j + 1 = i + 1 BY <3>2, <3>3, <4>1
        <4> QED BY <4>2
      <3> QED BY <3>1, <3>2, <3>3
    <2> QED BY <1>6, <2>1 DEF TalksOf, AsyncKinds
  <1> QED BY <1>4, <1>5, <1>6

\* What the conversation is about stays as it is.
Steady ==
    /\ NoneAsked => NoneAsked'
    /\ Quiet => Quiet'
    /\ \A c \in Nat : TalksOf(c) => TalksOf(c)'

AsyncSession == [mode : {"idle", "run", "tail", "copyIn"}, kind : AsyncKinds, id : Nat, left : Int]

\* A message, with or without a frame that ends a COPY, changes no conversation.
LEMMA EmissionIsSteady ==
  ASSUME WiresOK, alink, alink' = alink, asrv.mode # "idle", NEW k \in AsyncReplies, AsyncEmit(k),
         asrv'.id = asrv.id, asrv'.mode # "idle" => k # "ready", asrv' \in AsyncSession, awriteBuf' = awriteBuf,
         \/ atoServer' = atoServer
         \/ atoServer # <<>> /\ atoServer' = Tail(atoServer) /\ Head(atoServer).k \notin AsyncKinds
  PROVE  WiresOK' /\ Steady
  <1>1. atoClient' \in Seq(AsyncMessage) BY MessageSent
  <1>2. CASE atoServer' = atoServer
    <2>1. WiresOK'
      BY <1>1, <1>2 DEF WiresOK, AsyncSession, AsyncFrame, AsyncMessage, AsyncKinds, AsyncFrames,
             AsyncReplies
    <2>2. NoneAsked => NoneAsked' BY <1>2 DEF NoneAsked, AsyncKinds
    <2> QED BY <2>1, <2>2, <1>2, EmittedTalks DEF Steady, Quiet
  <1>3. CASE atoServer # <<>> /\ atoServer' = Tail(atoServer) /\ Head(atoServer).k \notin AsyncKinds
    <2>1. /\ atoServer' \in Seq(AsyncFrame)
          /\ \A i \in 1 .. Len(atoServer') : i + 1 \in 2 .. Len(atoServer) /\ atoServer'[i] = atoServer[i + 1]
      BY <1>3, FrameTaken
    <2>2. WiresOK'
      BY <1>1, <2>1 DEF WiresOK, AsyncSession, AsyncFrame, AsyncMessage, AsyncKinds, AsyncFrames,
             AsyncReplies
    <2>3. ASSUME NoneAsked PROVE NoneAsked'
      <3>1. \A i \in 1 .. Len(atoServer) : atoServer[i].k \notin AsyncKinds BY <2>3 DEF NoneAsked
      <3>2. \A i \in 1 .. Len(atoServer') : i + 1 \in 1 .. Len(atoServer) BY <2>1
      <3>3. \A i \in 1 .. Len(atoServer') : atoServer'[i].k \notin AsyncKinds BY <2>1, <3>1, <3>2
      <3> QED BY <3>3 DEF NoneAsked, AsyncKinds
    <2> QED BY <2>2, <2>3, <1>3, EmittedTalks DEF Steady, Quiet
  <1> QED BY <1>2, <1>3

\* The same for a message with the server's next mode.
LEMMA ServerSendsSteady ==
  ASSUME WiresOK, NEW k \in AsyncReplies, NEW mode \in {"idle", "run", "tail", "copyIn"}, ServerSends(k, mode), asrv.mode # "idle",
         mode # "idle" => k # "ready", UNCHANGED <<awriteBuf, alink>>
  PROVE  WiresOK' /\ Steady
  <1>1. asrv \in AsyncSession BY DEF WiresOK, AsyncSession
  <1>2. asrv' = [asrv EXCEPT !.mode = mode, !.left = IF k = "row" THEN @ - 1 ELSE @] BY DEF ServerSends
  <1>3. asrv' \in AsyncSession /\ asrv'.id = asrv.id /\ asrv'.mode = mode
    <2> DEFINE left == IF k = "row" THEN asrv.left - 1 ELSE asrv.left
    <2>1. left \in Int BY <1>1 DEF AsyncSession
    <2>2. asrv' = [asrv EXCEPT !.mode = mode, !.left = left] BY <1>2
    <2> HIDE DEF left
    <2> QED BY <1>1, <2>1, <2>2 DEF AsyncSession
  <1> QED BY <1>3, EmissionIsSteady DEF ServerSends

\* Every step of the server.
LEMMA ServerIsSteady ==
  ASSUME WiresOK, AsyncServer
  PROVE  WiresOK' /\ Steady
  <1>0. UNCHANGED <<awriteBuf, alink>> BY DEF AsyncServer, asyncClient
  <1>1. CASE AsyncServerTakesRequest
    <2>1. /\ alink /\ asrv.mode = "idle" /\ atoServer # <<>> /\ Head(atoServer).k \in AsyncKinds /\ atoServer' = Tail(atoServer)
          /\ atoClient' = atoClient
      BY <1>1 DEF AsyncServerTakesRequest, AsyncNextFrame
    <2> DEFINE h == Head(atoServer)
    <2>2. PICK rows \in 0 .. MaxAsyncRows : asrv' = [mode |-> "run", kind |-> h.k, id |-> h.id, left |-> rows]
      BY <1>1 DEF AsyncServerTakesRequest
    <2>3. /\ atoServer' \in Seq(AsyncFrame) /\ h = atoServer[1] /\ 1 \in 1 .. Len(atoServer) /\ h \in AsyncFrame
          /\ \A i \in 1 .. Len(atoServer') : i + 1 \in 2 .. Len(atoServer) /\ atoServer'[i] = atoServer[i + 1]
      BY <2>1, FrameTaken
    <2>4. h.k \in AsyncKinds /\ h.id \in Nat BY <2>1, <2>3 DEF AsyncFrame
    <2> HIDE DEF h
    <2>5. rows \in Int BY AsyncAssumption
    <2>6. asrv' \in AsyncSession /\ asrv'.mode = "run" /\ asrv'.id = h.id
      BY <2>2, <2>4, <2>5 DEF AsyncSession
    <2>7. WiresOK'
      BY <1>0, <2>1, <2>3, <2>6 DEF WiresOK, AsyncSession, AsyncFrame, AsyncMessage, AsyncKinds,
             AsyncFrames, AsyncReplies
    <2>8. ~NoneAsked BY <2>1, <2>3, <2>4 DEF NoneAsked
    <2>9. ASSUME NEW c \in Nat, TalksOf(c) PROVE TalksOf(c)'
      <3>1. /\ atoServer[1].id = c /\ atoClient = <<>>
            /\ \A j \in 1 .. Len(atoServer) : atoServer[j].k \in AsyncKinds => j = 1
        BY <2>1, <2>3, <2>4, <2>9 DEF TalksOf
      <3>2. ASSUME NEW i \in 1 .. Len(atoServer') PROVE atoServer'[i].k \notin AsyncKinds
        <4>1. i + 1 \in 2 .. Len(atoServer) /\ atoServer'[i] = atoServer[i + 1] BY <2>3
        <4>2. i + 1 \in 1 .. Len(atoServer) /\ i + 1 # 1 BY <4>1
        <4> QED BY <4>1, <4>2, <3>1
      <3>3. atoClient' = <<>> /\ asrv'.id = c BY <2>1, <2>3, <2>6, <3>1
      <3> QED BY <3>2, <3>3 DEF TalksOf, AsyncKinds
    <2> QED BY <2>7, <2>8, <2>9 DEF Steady, Quiet
  <1>2. CASE ServerRuns
    <2>1. \/ ServerSends("error", "tail") \/ ServerSends("notice", "run") \/ ServerSends("copyInResponse", "copyIn")
          \/ ServerSends("row", "run") \/ ServerSends("complete", "tail")
      BY <1>2 DEF ServerRuns
    <2>2. asrv.mode # "idle" BY <1>2 DEF ServerRuns
    <2> QED BY <1>0, <2>1, <2>2, ServerSendsSteady DEF AsyncReplies
  <1>3. CASE ServerEnds
    <2>1. ServerSends("ready", "idle") \/ ServerSends("notice", "tail") BY <1>3 DEF ServerEnds
    <2>2. asrv.mode # "idle" BY <1>3 DEF ServerEnds
    <2> QED BY <1>0, <2>1, <2>2, ServerSendsSteady DEF AsyncReplies
  <1>4. CASE AsyncServerTakesCopyFrame
    <2>0. asrv.mode = "copyIn" BY <1>4 DEF AsyncServerTakesCopyFrame
    <2>1. CASE AsyncNextFrame({"copyDatum"}) /\ UNCHANGED <<asrv, atoClient>>
      <3>1. alink /\ atoServer # <<>> /\ atoServer' = Tail(atoServer) BY <2>1 DEF AsyncNextFrame
      <3>2. atoServer' \in Seq(AsyncFrame) BY <3>1, FrameTaken
      <3>3. WiresOK'
        BY <1>0, <2>1, <3>2 DEF WiresOK, AsyncFrame, AsyncMessage, AsyncKinds, AsyncFrames, AsyncReplies
      <3> QED BY <1>0, <2>1, <3>1, <3>3, FrameDropped DEF Steady
    <2>2. CASE /\ AsyncNextFrame({"copyDone"} \cup {"copyFail"} \cup AsyncKinds)
               /\ \E reply \in {"error"} \cup (IF Head(atoServer).k = "copyDone" THEN {"complete"} ELSE {}) : AsyncEmit(reply)
               /\ asrv' = [asrv EXCEPT !.mode = "tail"]
      <3>1. alink /\ atoServer # <<>> /\ atoServer' = Tail(atoServer) BY <2>2 DEF AsyncNextFrame
      <3>2. PICK k \in {"error", "complete"} : AsyncEmit(k) BY <2>2
      <3>3. k \in AsyncReplies /\ k # "ready" BY <3>2 DEF AsyncReplies
      <3>4. asrv \in AsyncSession BY DEF WiresOK, AsyncSession
      <3>5. asrv' \in AsyncSession /\ asrv'.id = asrv.id BY <2>2, <3>4 DEF AsyncSession
      <3>6. CASE Head(atoServer).k \notin AsyncKinds
        BY <1>0, <2>0, <3>1, <3>2, <3>3, <3>5, <3>6, EmissionIsSteady
      <3>7. CASE Head(atoServer).k \in AsyncKinds
        <4>1. Head(atoServer) = atoServer[1] /\ 1 \in 1 .. Len(atoServer) /\ atoServer' \in Seq(AsyncFrame)
          BY <3>1, FrameTaken
        <4>2. ~NoneAsked /\ ~Quiet BY <3>1, <3>7, <4>1 DEF NoneAsked, Quiet
        <4>3. \A c \in Nat : ~TalksOf(c) BY <2>0, <3>1, <3>7, <4>1 DEF TalksOf
        <4>4. atoClient' \in Seq(AsyncMessage) BY <3>2, <3>3, MessageSent
        <4>5. WiresOK'
          BY <1>0, <4>1, <4>4, <3>5 DEF WiresOK, AsyncSession, AsyncFrame, AsyncMessage, AsyncKinds,
                 AsyncFrames, AsyncReplies
        <4> QED BY <4>2, <4>3, <4>5 DEF Steady
      <3> QED BY <3>6, <3>7
    <2> QED BY <1>4, <2>1, <2>2 DEF AsyncServerTakesCopyFrame
  <1>5. CASE AsyncServerIgnoresCopyFrame
    <2>1. alink /\ atoServer # <<>> /\ atoServer' = Tail(atoServer) /\ UNCHANGED <<asrv, atoClient>>
      BY <1>5 DEF AsyncServerIgnoresCopyFrame, AsyncNextFrame
    <2>2. atoServer' \in Seq(AsyncFrame) BY <2>1, FrameTaken
    <2>3. WiresOK'
      BY <1>0, <2>1, <2>2 DEF WiresOK, AsyncFrame, AsyncMessage, AsyncKinds, AsyncFrames, AsyncReplies
    <2> QED BY <1>0, <2>1, <2>3, FrameDropped DEF Steady
  <1> QED BY <1>1, <1>2, <1>3, <1>4, <1>5 DEF AsyncServer

\* A cancel that arrives, whichever query it meets.
LEMMA CancelIsSteady ==
  ASSUME WiresOK, AsyncServerCancels
  PROVE  WiresOK' /\ Steady
  <1>0. alink /\ UNCHANGED <<awriteBuf, alink, atoServer>> BY DEF AsyncServerCancels, asyncClient
  <1>1. CASE asrv.mode \in {"run", "copyIn"}
    <2>1. AsyncEmit("error") /\ asrv' = [asrv EXCEPT !.mode = "tail"] BY <1>1 DEF AsyncServerCancels
    <2>2. asrv \in AsyncSession BY DEF WiresOK, AsyncSession
    <2>3. asrv' \in AsyncSession /\ asrv'.id = asrv.id BY <2>1, <2>2 DEF AsyncSession
    <2>4. "error" \in AsyncReplies BY DEF AsyncReplies
    <2> QED BY <1>0, <1>1, <2>1, <2>3, <2>4, EmissionIsSteady
  <1>2. CASE asrv.mode \notin {"run", "copyIn"}
    <2>1. UNCHANGED <<atoClient, asrv>> BY <1>2 DEF AsyncServerCancels
    <2>2. WiresOK'
      BY <1>0, <2>1 DEF WiresOK, AsyncFrame, AsyncMessage, AsyncKinds, AsyncFrames, AsyncReplies
    <2> QED BY <1>0, <2>1, <2>2 DEF Steady, NoneAsked, Quiet, TalksOf, AsyncKinds, AsyncReplies
  <1> QED BY <1>1, <1>2

\* A lost link: what was received can still be read, and nothing follows it.
LEMMA LossIsSteady ==
  ASSUME WiresOK, AsyncLinkLost
  PROVE  WiresOK' /\ Steady
  <1> DEFINE n == Len(atoClient)
  <1>1. ~alink' /\ atoServer' = <<>> /\ UNCHANGED <<awriteBuf, asrv>> BY DEF AsyncLinkLost, asyncClient
  <1>2. PICK m \in 0 .. n : atoClient' = SubSeq(atoClient, 1, m) BY DEF AsyncLinkLost
  <1>3. atoClient \in Seq(AsyncMessage) /\ n \in Nat /\ m \in Nat /\ m <= n BY DEF WiresOK
  <1>4. Len(atoClient') = m /\ atoClient' \in Seq(AsyncMessage) /\ \A i \in 1 .. m : atoClient'[i] = atoClient[i]
    BY <1>2, <1>3
  <1>5. WiresOK'
    BY <1>1, <1>4 DEF WiresOK, AsyncFrame, AsyncMessage, AsyncKinds, AsyncFrames, AsyncReplies
  <1>6. NoneAsked' BY <1>1 DEF NoneAsked
  <1>7. ASSUME Quiet PROVE Quiet'
    <2>1. m = 0 BY <1>3, <1>7 DEF Quiet
    <2>2. atoClient' = <<>> BY <1>4, <2>1
    <2> QED BY <1>1, <1>6, <2>2 DEF Quiet
  <1>8. ASSUME NEW c \in Nat, TalksOf(c) PROVE TalksOf(c)'
    <2>1. \A i \in 1 .. n : atoClient[i].id = c /\ atoClient[i].k \in AsyncReplies BY <1>8 DEF TalksOf
    <2>2. \A i \in 1 .. n : atoClient[i].k = "ready" => i = n BY <1>8 DEF TalksOf
    <2> HIDE DEF n
    <2>3. ASSUME NEW i \in 1 .. Len(atoClient')
          PROVE  atoClient'[i].id = c /\ atoClient'[i].k \in AsyncReplies /\ (atoClient'[i].k = "ready" => i = Len(atoClient'))
      <3>1. i \in 1 .. n /\ atoClient'[i] = atoClient[i] BY <1>3, <1>4
      <3> QED BY <1>3, <1>4, <2>1, <2>2, <3>1
    <2> QED BY <1>1, <2>3 DEF TalksOf, AsyncReplies
  <1> QED BY <1>5, <1>6, <1>7, <1>8 DEF Steady

-----------------------------------------------------------------------------
(* A connection that counts as broken stays so                             *)

\* Every request of the client is an AsyncRequest.
LEMMA RequestsAreRequests == AsyncRequests => \E kind \in AsyncKinds : AsyncRequest(kind)
  BY DEF AsyncRequests, AsyncSimpleQuery, AsyncQueryBinary, AsyncCopyOut, AsyncPrepare, ExecutePrepared,
         ExecutePreparedNoResult, CloseStatement, StartQueryBinary, StartSimpleQuery, BindExecuteSync,
         AsyncStartCopyIn,
         AsyncKinds

\* No step makes a connection healthy again that counts as broken: no request starts, and the writers that
\* are left set the flag, keep write_in_flight, or repeat a torn write, which taints.
LEMMA ApartStays ==
  ASSUME AsyncTypes, Apart, AsyncStep, Untainted'
  PROVE  Apart' /\ amisanswered' = amisanswered
  <1>0. aop.phase \in {"free", "writerFlush", "direct"} BY DEF Apart
  <1>1. ~IsHealthy \/ (aop.phase # "free" /\ (adesynchronized \/ ("torn" \in atainted /\ awriteInFlight)))
    BY DEF Apart, IsHealthy
  <1>2. CASE AsyncRequests
    <2>1. PICK kind \in AsyncKinds : AsyncRequest(kind) BY <1>2, RequestsAreRequests
    <2>2. aop.phase = "free" /\ IsHealthy BY <2>1 DEF AsyncRequest
    <2> QED BY <1>1, <2>2
  <1>3. CASE WriteCompletes
    <2>1. aop.phase \in {"writerFlush", "direct"} BY <1>0, <1>3 DEF WriteCompletes, Writing
    <2>2. aop' = AsyncFree BY <1>3, <2>1 DEF WriteCompletes
    <2>3. "torn" \notin atainted BY <1>3 DEF WriteCompletes, Untainted
    <2>4. adesynchronized' /\ amisanswered' = amisanswered BY <1>3, <2>1, <2>3 DEF WriteCompletes, Apart
    <2> QED BY <2>2, <2>4 DEF Apart, AsyncFree
  <1>4. CASE WriteFails
    <2>1. aop.phase # "free" BY <1>4 DEF WriteFails, Writing
    <2>2. aop'.phase = "free" BY <1>4 DEF WriteFails, AsyncFree
    <2> QED BY <1>4, <2>1, <2>2 DEF WriteFails, Apart, asyncHistory
  <1>5. CASE \/ DrainPending \/ ConsumeError \/ AsyncReadReply \/ AsyncReadCopyInResponse \/ AsyncReadCopyEnd \/ AsyncReadStream
             \/ DropRead \/ CallStream \/ DropStreamFuture \/ AsyncDropStream
    BY <1>0, <1>5 DEF DrainPending, ConsumeError, AsyncReadReply, AsyncReadCopyInResponse,
           AsyncReadCopyEnd, AsyncReadStream,
                      DropRead, CallStream, DropStreamFuture, AsyncDropStream
  <1>6. CASE DropWrite
    <2>1. aop.phase # "free" BY <1>6 DEF DropWrite, Writing
    <2>2. aop'.phase = "free" BY <1>6 DEF DropWrite, AsyncFree
    <2> QED BY <1>6, <2>1, <2>2 DEF DropWrite, Apart
  <1>7. CASE AsyncCancel \/ AsyncServer \/ AsyncServerCancels \/ AsyncLinkLost
    <2>1. UNCHANGED <<asyncClient, asyncHistory>>
      BY <1>7 DEF AsyncCancel, AsyncServer, AsyncServerCancels, AsyncLinkLost
    <2> QED BY <2>1 DEF asyncClient, asyncHistory, Apart
  <1>8. CASE DropStatementNoRuntime BY <1>0, <1>8 DEF DropStatementNoRuntime, Apart, asyncHistory
  <1>9. ASSUME NEW w \in awriters,
               AsyncSend(w) \/ WriterFlush(w) \/ AsyncEndCopy(w) \/ DropWriter(w) \/ LoseWriter(w)
        PROVE  Apart' /\ amisanswered' = amisanswered
    <2>1. CASE AsyncSend(w) BY <2>1 DEF AsyncSend, Apart, asyncHistory
    <2>2. CASE WriterFlush(w)
      <3>1. awriteInFlight => awriteInFlight' BY <2>2 DEF WriterFlush, StartWrite
      <3>2. aop'.phase \in {"writerFlush", "direct"} BY <2>2 DEF WriterFlush, WriterHolds
      <3>3. UNCHANGED <<adesynchronized, atainted, amisanswered>> BY <2>2 DEF WriterFlush, asyncHistory
      <3> QED BY <1>9, <3>1, <3>2, <3>3 DEF Apart
    <2>3. CASE AsyncEndCopy(w)
      <3>1. ~IsHealthy BY <1>1, <2>3 DEF AsyncEndCopy, WriterCall
      <3>2. UNCHANGED <<aop, awriteInFlight, adesynchronized, atainted, amisanswered>>
        BY <2>3, <3>1 DEF AsyncEndCopy, asyncHistory
      <3> QED BY <1>9, <3>2 DEF Apart
    <2>4. CASE DropWriter(w)
      <3>1. adesynchronized' \/ (~awriteInFlight /\ adesynchronized' = adesynchronized)
        BY <2>4 DEF DropWriter, QueueCopyFail
      <3>2. adesynchronized' BY <1>9, <3>1 DEF Apart
      <3> QED BY <2>4, <3>2 DEF DropWriter, Apart, asyncHistory
    <2>5. CASE LoseWriter(w) BY <2>5 DEF LoseWriter, Untainted
    <2> QED BY <1>9, <2>1, <2>2, <2>3, <2>4, <2>5
  <1> QED BY <1>2, <1>3, <1>4, <1>5, <1>6, <1>7, <1>8, <1>9 DEF AsyncStep, ClientSteps

-----------------------------------------------------------------------------
(* Calls and frames are well formed                                        *)

\* The calls that the steps leave behind: none,
LEMMA FreeIsCall == CallOK(AsyncFree) /\ AsyncFree.phase = "free" /\ AsyncFree.n = 0
  BY AsyncAssumption DEF CallOK, AsyncFree, AsyncPhases, AsyncKinds

\* the same call in another phase,
LEMMA EnterIsCall ==
  ASSUME CallOK(aop), aop.phase # "free", NEW p \in AsyncPhases
  PROVE  /\ CallOK(AsyncEnter(p)) /\ AsyncEnter(p).phase = p /\ AsyncEnter(p).kind = aop.kind
         /\ AsyncEnter(p).id = aop.id /\ AsyncEnter(p).n = 0
  <1>1. aop \in [phase : AsyncPhases, kind : AsyncKinds, id : 0 .. MaxAsyncRequests, n : Nat] /\ aop.id \in AsyncIds
    BY DEF CallOK
  <1>2. /\ AsyncEnter(p) \in [phase : AsyncPhases, kind : AsyncKinds, id : 0 .. MaxAsyncRequests, n : Nat]
        /\ AsyncEnter(p).phase = p /\ AsyncEnter(p).kind = aop.kind /\ AsyncEnter(p).id = aop.id /\ AsyncEnter(p).n = 0
    BY <1>1 DEF AsyncEnter
  <1> QED BY <1>1, <1>2 DEF CallOK

\* a writer's call,
LEMMA HoldIsCall ==
  ASSUME NEW p \in AsyncPhases, NEW kind \in AsyncKinds, NEW w \in AsyncIds
  PROVE  /\ CallOK(WriterHolds(p, kind, w)) /\ WriterHolds(p, kind, w).phase = p /\ WriterHolds(p, kind, w).id = w
         /\ WriterHolds(p, kind, w).kind = kind
  <1>1. w \in 0 .. MaxAsyncRequests BY AsyncAssumption DEF AsyncIds
  <1> QED BY <1>1 DEF CallOK, WriterHolds

\* a call that has counted one message more,
LEMMA CountIsCall ==
  ASSUME CallOK(aop), \/ aop.phase \in DrainPhases /\ aop.n < AsyncDrainCap
                      \/ aop.phase = "chunk" /\ aop.n + 1 < AsyncChunkSize
  PROVE  LET o == [aop EXCEPT !.n = @ + 1] IN CallOK(o) /\ o.phase = aop.phase /\ o.kind = aop.kind /\ o.id = aop.id
  <1> DEFINE o == [aop EXCEPT !.n = aop.n + 1]
  <1>1. aop \in [phase : AsyncPhases, kind : AsyncKinds, id : 0 .. MaxAsyncRequests, n : Nat]
    BY DEF CallOK
  <1>2. aop.n \in Nat /\ aop.n + 1 \in Nat BY <1>1
  <1>3. /\ o \in [phase : AsyncPhases, kind : AsyncKinds, id : 0 .. MaxAsyncRequests, n : Nat]
        /\ o.phase = aop.phase /\ o.kind = aop.kind /\ o.id = aop.id /\ o.n = aop.n + 1
    BY <1>1, <1>2
  <1> HIDE DEF o
  <1>4. CallOK(o) BY <1>2, <1>3, AsyncAssumption DEF CallOK, DrainPhases
  <1> QED BY <1>3, <1>4 DEF o

\* and a new request.
LEMMA RequestIsCall ==
  ASSUME NEW o \in [phase : {"free"}, kind : AsyncKinds, id : AsyncIds, n : {0}], NEW p \in AsyncPhases
  PROVE  /\ CallOK([o EXCEPT !.phase = p, !.n = 0]) /\ [o EXCEPT !.phase = p, !.n = 0].phase = p
         /\ [o EXCEPT !.phase = p, !.n = 0].id = o.id /\ [o EXCEPT !.phase = p, !.n = 0].kind = o.kind
         /\ CallOK([o EXCEPT !.phase = p]) /\ [o EXCEPT !.phase = p].phase = p
  <1> DEFINE R == [phase : AsyncPhases, kind : AsyncKinds, id : 0 .. MaxAsyncRequests, n : Nat]
  <1>1. o.id \in AsyncIds /\ o.id \in 0 .. MaxAsyncRequests BY AsyncAssumption DEF AsyncIds
  <1>2. /\ [o EXCEPT !.phase = p, !.n = 0] \in R /\ [o EXCEPT !.phase = p, !.n = 0].phase = p
        /\ [o EXCEPT !.phase = p, !.n = 0].id = o.id /\ [o EXCEPT !.phase = p, !.n = 0].kind = o.kind
        /\ [o EXCEPT !.phase = p, !.n = 0].n = 0
    BY <1>1
  <1>3. /\ [o EXCEPT !.phase = p] \in R /\ [o EXCEPT !.phase = p].phase = p
        /\ [o EXCEPT !.phase = p].id = o.id /\ [o EXCEPT !.phase = p].n = 0
    BY <1>1
  <1> QED BY <1>1, <1>2, <1>3 DEF CallOK

\* The types of a state, part by part.
LEMMA TypesAgain ==
  ASSUME CallOK(aop'), AsyncFlags', WiresOK'
  PROVE  AsyncTypes'
  BY DEF AsyncTypes, CallOK, AsyncPhases, Writing, Reading, AsyncKinds, AsyncIds, DrainPhases

\* The wires are typed after a step that leaves them alone,
LEMMA WiresStay ==
  ASSUME WiresOK, UNCHANGED <<awriteBuf, atoServer, atoClient, asrv>>
  PROVE  WiresOK'
  BY DEF WiresOK, AsyncFrame, AsyncMessage, AsyncKinds, AsyncFrames, AsyncReplies

\* that buffers a frame,
LEMMA BufferGrows ==
  ASSUME WiresOK, NEW f \in AsyncFrame, awriteBuf' = Append(awriteBuf, f), UNCHANGED <<atoServer, atoClient, asrv>>
  PROVE  WiresOK' /\ awriteBuf' # <<>>
  <1>1. awriteBuf \in Seq(AsyncFrame) BY DEF WiresOK
  <1>2. awriteBuf' \in Seq(AsyncFrame) /\ awriteBuf' # <<>> BY <1>1
  <1> QED BY <1>2 DEF WiresOK, AsyncFrame, AsyncMessage, AsyncKinds, AsyncFrames, AsyncReplies

\* that reads a message, or part of one,
LEMMA ReadsAreTyped ==
  ASSUME WiresOK, \/ atoClient' = atoClient
                  \/ atoClient # <<>> /\ atoClient' = Tail(atoClient)
                  \/ atoClient' \in PartlyRead,
         UNCHANGED <<awriteBuf, atoServer, asrv>>
  PROVE  WiresOK'
  <1>1. atoClient \in Seq(AsyncMessage) /\ asrv.id \in Nat BY DEF WiresOK
  <1>2. Zeros \in AsyncMessage BY DEF Zeros, AsyncMessage
  <1>3. \A k \in {"row", "ready"} : [k |-> k, id |-> asrv.id] \in AsyncMessage
    BY <1>1 DEF AsyncMessage, AsyncReplies
  <1>4. PartlyRead \subseteq Seq(AsyncMessage) 
    <2> SUFFICES ASSUME NEW s \in PartlyRead PROVE s \in Seq(AsyncMessage) OBVIOUS
    <2>1. \/ s = <<Zeros>>
          \/ \E k \in {"row", "ready"} : s = <<[k |-> k, id |-> asrv.id], Zeros>>
      BY DEF PartlyRead
    <2>2. CASE s = <<Zeros>> BY <1>2, <2>2
    <2>3. ASSUME NEW k \in {"row", "ready"}, s = <<[k |-> k, id |-> asrv.id], Zeros>> PROVE s \in Seq(AsyncMessage)
      <3> DEFINE m == [k |-> k, id |-> asrv.id]
      <3>1. m \in AsyncMessage /\ s = <<m, Zeros>> BY <1>3, <2>3
      <3> HIDE DEF m
      <3> QED BY <1>2, <3>1
    <2> QED BY <2>1, <2>2, <2>3
  <1>5. atoClient # <<>> => Tail(atoClient) \in Seq(AsyncMessage) BY <1>1
  <1>6. atoClient' \in Seq(AsyncMessage) BY <1>1, <1>4, <1>5
  <1> QED BY <1>6 DEF WiresOK, AsyncFrame, AsyncMessage, AsyncKinds, AsyncFrames, AsyncReplies

\* or that writes.
LEMMA DeliveryIsTyped ==
  ASSUME WiresOK, NEW fs \in Seq(AsyncFrame), Deliver(fs), awriteBuf' \in {awriteBuf, <<>>}, UNCHANGED <<atoClient, asrv>>
  PROVE  WiresOK'
  <1>1. atoServer \in Seq(AsyncFrame) /\ awriteBuf \in Seq(AsyncFrame) BY DEF WiresOK
  <1>2. atoServer \o fs \in Seq(AsyncFrame) BY <1>1
  <1>3. atoServer' \in Seq(AsyncFrame) BY <1>1, <1>2 DEF Deliver
  <1>4. awriteBuf' \in Seq(AsyncFrame)
    <2>1. CASE awriteBuf' = awriteBuf BY <1>1, <2>1
    <2>2. CASE awriteBuf' = <<>> BY <2>2
    <2> QED BY <2>1, <2>2
  <1> QED BY <1>3, <1>4 DEF WiresOK, AsyncFrame, AsyncMessage, AsyncKinds, AsyncFrames, AsyncReplies

\* One lemma per kind of step on types: requests,
LEMMA TypedRequest ==
  ASSUME AsyncTypes, NEW kind \in AsyncKinds, AsyncRequest(kind)
  PROVE  AsyncTypes'
  <1> DEFINE o == [AsyncFree EXCEPT !.kind = kind, !.id = aissued + 1]
  <1>1. CallOK(aop) /\ AsyncFlags /\ WiresOK BY DEF AsyncTypes
  <1>2. aissued + 1 \in AsyncIds /\ aissued + 1 \in 0 .. MaxAsyncRequests /\ aissued + 1 \in Nat
    BY <1>1, AsyncAssumption DEF AsyncRequest, AsyncFlags, AsyncIds
  <1>3. {"flush", "flushPending"} \subseteq AsyncPhases BY DEF AsyncPhases, Writing
  <1>4. /\ o.kind = kind /\ o.id = aissued + 1 /\ CallOK([o EXCEPT !.phase = "flush", !.n = 0])
        /\ CallOK([o EXCEPT !.phase = "flushPending"])
    <2>1. o \in [phase : {"free"}, kind : AsyncKinds, id : AsyncIds, n : {0}] /\ o.kind = kind /\ o.id = aissued + 1
      BY <1>2 DEF AsyncFree
    <2> HIDE DEF o
    <2> QED BY <1>3, <2>1, RequestIsCall
  <1>5. \/ StartWrite(awriteBuf) /\ aop' = [o EXCEPT !.phase = "flushPending"]
        \/ WriteRequest(o)
    BY DEF AsyncRequest
  <1> HIDE DEF o
  <1>6. CallOK(aop') BY <1>4, <1>5 DEF WriteRequest
  <1>7. WiresOK' /\ awriteInFlight' \in BOOLEAN
    <2>0. UNCHANGED <<atoServer, atoClient, asrv>> BY DEF AsyncRequest, asyncWire
    <2>1. CASE StartWrite(awriteBuf) /\ aop' = [o EXCEPT !.phase = "flushPending"]
      BY <1>1, <2>0, <2>1, WiresStay DEF StartWrite, AsyncFlags
    <2>2. CASE WriteRequest(o)
      <3>1. [k |-> o.kind, id |-> o.id] \in AsyncFrame BY <1>2, <1>4 DEF AsyncFrame, AsyncFrames
      <3>2. awriteBuf' = Append(awriteBuf, [k |-> o.kind, id |-> o.id]) /\ awriteInFlight' \in BOOLEAN
        BY <2>2 DEF WriteRequest, StartWrite
      <3> QED BY <1>1, <2>0, <3>1, <3>2, BufferGrows
    <2> QED BY <1>5, <2>1, <2>2
  <1>8. AsyncFlags'
    <2>1. aissued' \in 0 .. MaxAsyncRequests BY <1>2 DEF AsyncRequest
    <2>2. atainted' \subseteq {"torn", "read", "rewrite", "overlap", "lost"}
      BY <1>1 DEF AsyncRequest, AsyncFlags
    <2>3. UNCHANGED <<awriters, apendingCancel, adesynchronized, alink, acancelSent, amisanswered>>
      BY DEF AsyncRequest, asyncWire
    <2> QED BY <1>1, <1>7, <2>1, <2>2, <2>3 DEF AsyncFlags, AsyncIds
  <1> QED BY <1>6, <1>7, <1>8, TypesAgain

\* writes that complete, fail or are dropped,
LEMMA TypedWrites ==
  ASSUME AsyncTypes, WriteCompletes \/ WriteFails \/ DropWrite
  PROVE  AsyncTypes'
  <1>1. CallOK(aop) /\ AsyncFlags /\ WiresOK BY DEF AsyncTypes
  <1>2. CallOK(AsyncFree) BY FreeIsCall
  <1>3. aop.phase # "free" BY DEF WriteCompletes, WriteFails, DropWrite, Writing
  <1>4. awriteBuf \in Seq(AsyncFrame) BY <1>1 DEF WiresOK
  <1>5. CASE WriteCompletes
    <2>1. {"drainPending", "stream", "await", "ending"} \subseteq AsyncPhases
      BY DEF AsyncPhases, Reading
    <2>2. aop' = AsyncFree \/ \E p \in {"drainPending", "stream", "await", "ending"} : aop' = AsyncEnter(p)
      BY <1>5 DEF WriteCompletes
    <2>3. CallOK(aop') BY <1>1, <1>2, <1>3, <2>1, <2>2, EnterIsCall
    <2>4. WiresOK' BY <1>1, <1>4, <1>5, DeliveryIsTyped DEF WriteCompletes
    <2>5. AsyncFlags' BY <1>1, <1>5 DEF WriteCompletes, AsyncFlags, AsyncIds
    <2> QED BY <2>3, <2>4, <2>5, TypesAgain
  <1>6. CASE WriteFails
    <2>1. CallOK(aop') BY <1>2, <1>6 DEF WriteFails
    <2>2. WiresOK' BY <1>1, <1>6, WiresStay DEF WriteFails, asyncWire
    <2>3. AsyncFlags' BY <1>1, <1>6 DEF WriteFails, AsyncFlags, AsyncIds, asyncWire, asyncHistory
    <2> QED BY <2>1, <2>2, <2>3, TypesAgain
  <1>7. CASE DropWrite
    <2>1. CallOK(aop') BY <1>2, <1>7 DEF DropWrite
    <2>2. WiresOK'
      <3>1. PICK n \in 0 .. Len(awriteBuf), torn \in BOOLEAN :
               Deliver(IF torn /\ n < Len(awriteBuf)
                       THEN Append(SubSeq(awriteBuf, 1, n), [awriteBuf[n + 1] EXCEPT !.k = "torn"])
                       ELSE SubSeq(awriteBuf, 1, n))
        BY <1>7 DEF DropWrite
      <3> DEFINE sent == SubSeq(awriteBuf, 1, n)
                 broken == [awriteBuf[n + 1] EXCEPT !.k = "torn"]
                 fs == IF torn /\ n < Len(awriteBuf) THEN Append(sent, broken) ELSE sent
      <3>2. Len(awriteBuf) \in Nat /\ n \in Nat /\ n <= Len(awriteBuf) BY <1>4
      <3>3. sent \in Seq(AsyncFrame)
        <4>1. \A i \in 1 .. n : awriteBuf[i] \in AsyncFrame BY <1>4, <3>2
        <4> QED BY <1>4, <3>2, <4>1, SubSeqProperties
      <3>4. n < Len(awriteBuf) => broken \in AsyncFrame
        <4> SUFFICES ASSUME n < Len(awriteBuf) PROVE broken \in AsyncFrame OBVIOUS
        <4>1. awriteBuf[n + 1] \in AsyncFrame BY <1>4, <3>2
        <4> QED BY <4>1 DEF AsyncFrame, AsyncFrames
      <3> HIDE DEF sent, broken
      <3>5. fs \in Seq(AsyncFrame) BY <3>3, <3>4
      <3>6. Deliver(fs) BY <3>1 DEF sent, broken
      <3> HIDE DEF fs
      <3> QED BY <1>1, <1>7, <3>5, <3>6, DeliveryIsTyped DEF DropWrite
    <2>3. AsyncFlags' BY <1>1, <1>7 DEF DropWrite, AsyncFlags, AsyncIds
    <2> QED BY <2>1, <2>2, <2>3, TypesAgain
  <1> QED BY <1>5, <1>6, <1>7

\* What a read does to the wire.
LEMMA ReadingMoves ==
  ASSUME NEW ks, AsyncRead(ks) \/ AsyncReadFails \/ UNCHANGED asyncWire
  PROVE  /\ atoClient' = atoClient \/ (atoClient # <<>> /\ atoClient' = Tail(atoClient))
         /\ UNCHANGED <<alink, atoServer>>
  BY DEF AsyncRead, AsyncReadFails, asyncWire

\* the bounded drains,
LEMMA TypedDrains ==
  ASSUME AsyncTypes, DrainPending \/ ConsumeError
  PROVE  AsyncTypes'
  <1>1. CallOK(aop) /\ AsyncFlags /\ WiresOK BY DEF AsyncTypes
  <1>2. CallOK(AsyncFree) BY FreeIsCall
  <1>3. aop.phase \in DrainPhases /\ aop.phase # "free" BY DEF DrainPending, ConsumeError, DrainPhases
  <1>4. UNCHANGED <<aissued, awriters, asrv, acancelSent, amisanswered, atainted>>
    BY DEF DrainPending, ConsumeError, asyncHistory
  <1> DEFINE more == /\ aop.n < AsyncDrainCap /\ AsyncRead(AsyncReplies \ {"ready"}) /\ aop' = [aop EXCEPT !.n = @ + 1]
                     /\ UNCHANGED <<adesynchronized, apendingCancel, awriteBuf, awriteInFlight>>
             done == AsyncRead({"ready"}) /\ aop' = AsyncFree /\ UNCHANGED <<adesynchronized, apendingCancel, awriteBuf, awriteInFlight>>
             goOn == AsyncRead({"ready"}) /\ apendingCancel' = FALSE /\ UNCHANGED adesynchronized /\ WriteRequest(aop)
             giveUp == AsyncGiveUp /\ (AsyncReadFails \/ UNCHANGED asyncWire)
  <1>5. more \/ done \/ goOn \/ giveUp BY DEF DrainPending, ConsumeError, BoundedDrain
  <1>6. /\ atoClient' = atoClient \/ (atoClient # <<>> /\ atoClient' = Tail(atoClient))
        /\ UNCHANGED <<alink, atoServer>>
    BY <1>5, ReadingMoves
  <1>7. CASE more
    <2>1. CallOK(aop') BY <1>1, <1>3, <1>7, CountIsCall
    <2>2. WiresOK' BY <1>1, <1>4, <1>6, <1>7, ReadsAreTyped
    <2>3. AsyncFlags' BY <1>1, <1>4, <1>6, <1>7 DEF AsyncFlags, AsyncIds
    <2> QED BY <2>1, <2>2, <2>3, TypesAgain
  <1>8. CASE done
    <2>1. CallOK(aop') BY <1>2, <1>8
    <2>2. WiresOK' BY <1>1, <1>4, <1>6, <1>8, ReadsAreTyped
    <2>3. AsyncFlags' BY <1>1, <1>4, <1>6, <1>8 DEF AsyncFlags, AsyncIds
    <2> QED BY <2>1, <2>2, <2>3, TypesAgain
  <1>9. CASE giveUp
    <2>1. CallOK(aop') BY <1>2, <1>9 DEF AsyncGiveUp
    <2>2. WiresOK' BY <1>1, <1>4, <1>6, <1>9, ReadsAreTyped DEF AsyncGiveUp
    <2>3. AsyncFlags' BY <1>1, <1>4, <1>6, <1>9 DEF AsyncFlags, AsyncIds, AsyncGiveUp
    <2> QED BY <2>1, <2>2, <2>3, TypesAgain
  <1>10. CASE goOn
    <2>1. aop' = AsyncEnter("flush") /\ "flush" \in AsyncPhases
      BY <1>10 DEF WriteRequest, AsyncEnter, AsyncPhases, Writing
    <2>2. CallOK(aop') BY <1>1, <1>3, <2>1, EnterIsCall
    <2>3. aop.kind \in AsyncKinds /\ aop.id \in Nat
      <3>1. aop \in [phase : AsyncPhases, kind : AsyncKinds, id : 0 .. MaxAsyncRequests, n : Nat]
        BY <1>1 DEF CallOK
      <3> QED BY <3>1
    <2> DEFINE f == [k |-> aop.kind, id |-> aop.id]
    <2>4. f \in AsyncFrame BY <2>3 DEF AsyncFrame, AsyncFrames
    <2>5. awriteBuf' = Append(awriteBuf, f) /\ awriteInFlight' \in BOOLEAN
      BY <1>10 DEF WriteRequest, StartWrite
    <2> HIDE DEF f
    <2>6. awriteBuf \in Seq(AsyncFrame) /\ atoClient \in Seq(AsyncMessage) BY <1>1 DEF WiresOK
    <2>7. awriteBuf' \in Seq(AsyncFrame) BY <2>4, <2>5, <2>6
    <2>8. atoClient' \in Seq(AsyncMessage)
      <3>1. atoClient # <<>> => Tail(atoClient) \in Seq(AsyncMessage) BY <2>6
      <3> QED BY <1>6, <2>6, <3>1
    <2>9. WiresOK'
      BY <1>1, <1>4, <1>6, <2>7, <2>8 DEF WiresOK, AsyncFrame, AsyncMessage, AsyncKinds, AsyncFrames,
             AsyncReplies
    <2>10. AsyncFlags' BY <1>1, <1>4, <1>6, <1>10, <2>5 DEF AsyncFlags, AsyncIds
    <2> QED BY <2>2, <2>9, <2>10, TypesAgain
  <1> QED BY <1>5, <1>7, <1>8, <1>9, <1>10

\* A read loop answers only for the call that reads.
LEMMA AnswerIsTyped ==
  ASSUME AsyncTypes, aop.phase # "free", AsyncAnswer
  PROVE  amisanswered' \subseteq AsyncIds
  BY DEF AsyncAnswer, AsyncTypes, CallOK, AsyncFlags

\* the read loops of the requests and of COPY,
LEMMA TypedReplies ==
  ASSUME AsyncTypes, AsyncReadReply \/ AsyncReadCopyInResponse \/ AsyncReadCopyEnd
  PROVE  AsyncTypes'
  <1>1. CallOK(aop) /\ AsyncFlags /\ WiresOK BY DEF AsyncTypes
  <1>2. CallOK(AsyncFree) BY FreeIsCall
  <1>3. aop.phase # "free" BY DEF AsyncReadReply, AsyncReadCopyInResponse, AsyncReadCopyEnd
  <1>4. UNCHANGED <<aissued, awriteBuf, awriteInFlight, apendingCancel, adesynchronized, asrv, acancelSent, atainted>>
    BY DEF AsyncReadReply, AsyncReadCopyInResponse, AsyncReadCopyEnd
  <1>5. awriters' \subseteq AsyncIds
    BY <1>1, <1>3 DEF AsyncReadReply, AsyncReadCopyInResponse, AsyncReadCopyEnd, AsyncFlags, CallOK
  <1>6. \E last, skipped : ReadUntil(last, skipped, "errDrain")
    BY DEF AsyncReadReply, AsyncReadCopyInResponse, AsyncReadCopyEnd
  <1>7. PICK last, skipped : ReadUntil(last, skipped, "errDrain") BY <1>6
  <1>8. /\ aop' \in {AsyncFree, aop, AsyncEnter("errDrain")}
        /\ AsyncAnswer \/ amisanswered' = amisanswered
        /\ \E ks : AsyncRead(ks) \/ AsyncReadFails
    BY <1>7 DEF ReadUntil
  <1>9. /\ atoClient' = atoClient \/ (atoClient # <<>> /\ atoClient' = Tail(atoClient))
        /\ UNCHANGED <<alink, atoServer>>
    BY <1>8, ReadingMoves
  <1>10. "errDrain" \in AsyncPhases BY DEF AsyncPhases, Reading
  <1>11. CallOK(aop')
    <2>1. CallOK(AsyncEnter("errDrain")) BY <1>1, <1>3, <1>10, EnterIsCall
    <2> QED BY <1>1, <1>2, <1>8, <2>1
  <1>12. WiresOK' BY <1>1, <1>4, <1>9, ReadsAreTyped
  <1>13. amisanswered' \subseteq AsyncIds BY <1>1, <1>3, <1>8, AnswerIsTyped DEF AsyncFlags
  <1>14. AsyncFlags' BY <1>1, <1>4, <1>5, <1>9, <1>13 DEF AsyncFlags, AsyncIds
  <1> QED BY <1>11, <1>12, <1>14, TypesAgain

\* the read loops of the streams,
LEMMA TypedStream ==
  ASSUME AsyncTypes, AsyncReadStream
  PROVE  AsyncTypes'
  <1>1. CallOK(aop) /\ AsyncFlags /\ WiresOK BY DEF AsyncTypes
  <1>2. CallOK(AsyncFree) BY FreeIsCall
  <1>3. aop.phase # "free" BY DEF AsyncReadStream
  <1>4. UNCHANGED <<aissued, awriters, awriteBuf, awriteInFlight, apendingCancel, adesynchronized, asrv, acancelSent, atainted>>
    BY DEF AsyncReadStream
  <1>5. /\ \E ks : AsyncRead(ks) \/ AsyncReadFails
        /\ AsyncAnswer \/ amisanswered' = amisanswered
        /\ \/ aop' \in {AsyncFree, aop, AsyncEnter("streamErrDrain"), AsyncEnter("stream")}
           \/ aop.phase = "chunk" /\ ~(aop.n + 1 >= AsyncChunkSize) /\ aop' = [aop EXCEPT !.n = @ + 1]
    BY DEF AsyncReadStream
  <1>6. /\ atoClient' = atoClient \/ (atoClient # <<>> /\ atoClient' = Tail(atoClient))
        /\ UNCHANGED <<alink, atoServer>>
    BY <1>5, ReadingMoves
  <1>7. {"streamErrDrain", "stream"} \subseteq AsyncPhases BY DEF AsyncPhases, Reading
  <1>8. CallOK(aop')
    <2>1. CASE aop' \in {AsyncFree, aop, AsyncEnter("streamErrDrain"), AsyncEnter("stream")}
      BY <1>1, <1>2, <1>3, <1>7, <2>1, EnterIsCall
    <2>2. CASE aop.phase = "chunk" /\ ~(aop.n + 1 >= AsyncChunkSize) /\ aop' = [aop EXCEPT !.n = @ + 1]
      <3>1. aop \in [phase : AsyncPhases, kind : AsyncKinds, id : 0 .. MaxAsyncRequests, n : Nat]
        BY <1>1 DEF CallOK
      <3>2. aop.n + 1 < AsyncChunkSize BY <2>2, <3>1, AsyncAssumption
      <3> QED BY <1>1, <2>2, <3>2, CountIsCall
    <2> QED BY <1>5, <2>1, <2>2
  <1>9. WiresOK' BY <1>1, <1>4, <1>6, ReadsAreTyped
  <1>10. amisanswered' \subseteq AsyncIds BY <1>1, <1>3, <1>5, AnswerIsTyped DEF AsyncFlags
  <1>11. AsyncFlags' BY <1>1, <1>4, <1>6, <1>10 DEF AsyncFlags, AsyncIds
  <1> QED BY <1>8, <1>9, <1>11, TypesAgain

\* dropped reads, streams and statements, and cancel,
LEMMA TypedDrops ==
  ASSUME AsyncTypes, DropRead \/ CallStream \/ DropStreamFuture \/ AsyncDropStream \/ DropStatementNoRuntime \/ AsyncCancel
  PROVE  AsyncTypes'
  <1>1. CallOK(aop) /\ AsyncFlags /\ WiresOK BY DEF AsyncTypes
  <1>2. CallOK(AsyncFree) BY FreeIsCall
  <1>3. {"chunk", "drainReady", "stream"} \subseteq AsyncPhases BY DEF AsyncPhases, Reading
  <1>4. CASE DropRead
    <2>1. CallOK(aop') BY <1>2, <1>4 DEF DropRead
    <2>2. WiresOK' BY <1>1, <1>4, ReadsAreTyped DEF DropRead
    <2>3. AsyncFlags' BY <1>1, <1>4 DEF DropRead, AsyncFlags, AsyncIds
    <2> QED BY <2>1, <2>2, <2>3, TypesAgain
  <1>5. CASE CallStream
    <2>1. CallOK(aop') BY <1>1, <1>3, <1>5, EnterIsCall DEF CallStream
    <2>2. WiresOK' BY <1>1, <1>5, WiresStay DEF CallStream, asyncWire
    <2>3. AsyncFlags' BY <1>1, <1>5 DEF CallStream, AsyncFlags, AsyncIds, asyncWire, asyncHistory
    <2> QED BY <2>1, <2>2, <2>3, TypesAgain
  <1>6. CASE DropStreamFuture
    <2>1. CallOK(aop') BY <1>1, <1>2, <1>3, <1>6, EnterIsCall DEF DropStreamFuture
    <2>2. WiresOK' BY <1>1, <1>6, ReadsAreTyped DEF DropStreamFuture
    <2>3. AsyncFlags' BY <1>1, <1>6 DEF DropStreamFuture, AsyncFlags, AsyncIds
    <2> QED BY <2>1, <2>2, <2>3, TypesAgain
  <1>7. CASE AsyncDropStream
    <2>1. CallOK(aop') BY <1>2, <1>7 DEF AsyncDropStream
    <2>2. WiresOK' BY <1>1, <1>7, WiresStay DEF AsyncDropStream, asyncWire
    <2>3. AsyncFlags' BY <1>1, <1>7 DEF AsyncDropStream, AsyncFlags, AsyncIds, asyncWire, asyncHistory
    <2> QED BY <2>1, <2>2, <2>3, TypesAgain
  <1>8. CASE DropStatementNoRuntime
    <2>1. CallOK(aop') BY <1>1, <1>8 DEF DropStatementNoRuntime
    <2>2. WiresOK' BY <1>1, <1>8, WiresStay DEF DropStatementNoRuntime, asyncWire
    <2>3. AsyncFlags'
      BY <1>1, <1>8 DEF DropStatementNoRuntime, AsyncFlags, AsyncIds, asyncWire, asyncHistory
    <2> QED BY <2>1, <2>2, <2>3, TypesAgain
  <1>9. CASE AsyncCancel
    <2>1. CallOK(aop') BY <1>1, <1>9 DEF AsyncCancel, asyncClient
    <2>2. WiresOK' BY <1>1, <1>9, WiresStay DEF AsyncCancel, asyncWire, asyncClient
    <2>3. AsyncFlags'
      BY <1>1, <1>9 DEF AsyncCancel, AsyncFlags, AsyncIds, asyncWire, asyncHistory, asyncClient
    <2> QED BY <2>1, <2>2, <2>3, TypesAgain
  <1> QED BY <1>4, <1>5, <1>6, <1>7, <1>8, <1>9

\* the COPY writers,
LEMMA TypedWriter ==
  ASSUME AsyncTypes, NEW w \in awriters, AsyncSend(w) \/ WriterFlush(w) \/ AsyncEndCopy(w) \/ DropWriter(w) \/ LoseWriter(w)
  PROVE  AsyncTypes'
  <1>1. CallOK(aop) /\ AsyncFlags /\ WiresOK BY DEF AsyncTypes
  <1>2. w \in AsyncIds /\ w \in Nat BY <1>1, AsyncAssumption DEF AsyncFlags, AsyncIds
  <1>3. \A k \in {"copyDatum", "copyDone", "copyFail"} : [k |-> k, id |-> w] \in AsyncFrame
    BY <1>2 DEF AsyncFrame, AsyncFrames
  <1>4. {"writerFlush", "direct", "endFlush"} \subseteq AsyncPhases /\ {"copyIn", "simple"} \subseteq AsyncKinds
    BY DEF AsyncPhases, Writing, AsyncKinds
  <1>5. CASE AsyncSend(w)
    <2>1. CallOK(aop') BY <1>1, <1>5 DEF AsyncSend
    <2>2. WiresOK' BY <1>1, <1>3, <1>5, BufferGrows DEF AsyncSend, asyncWire
    <2>3. AsyncFlags' BY <1>1, <1>5 DEF AsyncSend, AsyncFlags, AsyncIds, asyncWire, asyncHistory
    <2> QED BY <2>1, <2>2, <2>3, TypesAgain
  <1>6. CASE WriterFlush(w)
    <2>1. CallOK(aop') BY <1>2, <1>4, <1>6, HoldIsCall DEF WriterFlush
    <2>2. WiresOK'
      <3>1. awriteBuf' = awriteBuf \/ awriteBuf' = Append(awriteBuf, [k |-> "copyDatum", id |-> w])
        BY <1>6 DEF WriterFlush, StartWrite
      <3>2. UNCHANGED <<atoServer, atoClient, asrv>> BY <1>6 DEF WriterFlush, asyncWire
      <3> QED BY <1>1, <1>3, <3>1, <3>2, WiresStay, BufferGrows
    <2>3. awriteInFlight' \in BOOLEAN BY <1>1, <1>6 DEF WriterFlush, StartWrite, AsyncFlags
    <2>4. AsyncFlags' BY <1>1, <1>6, <2>3 DEF WriterFlush, AsyncFlags, AsyncIds, asyncWire, asyncHistory
    <2> QED BY <2>1, <2>2, <2>4, TypesAgain
  <1>7. CASE AsyncEndCopy(w)
    <2>1. PICK frame \in {"copyDone", "copyFail"} :
            IF IsHealthy
            THEN /\ StartWrite(Append(awriteBuf, [k |-> frame, id |-> w]))
                 /\ aop' = WriterHolds("endFlush", IF frame = "copyDone" THEN "copyIn" ELSE "simple", w)
            ELSE UNCHANGED <<aop, awriteBuf, awriteInFlight>>
      BY <1>7 DEF AsyncEndCopy
    <2>2. UNCHANGED <<atoServer, atoClient, asrv>> BY <1>7 DEF AsyncEndCopy, asyncWire
    <2>3. CallOK(aop') BY <1>1, <1>2, <1>4, <2>1, HoldIsCall
    <2>4. WiresOK' BY <1>1, <1>3, <2>1, <2>2, WiresStay, BufferGrows DEF StartWrite
    <2>5. awriteInFlight' \in BOOLEAN BY <1>1, <2>1 DEF StartWrite, AsyncFlags
    <2>6. AsyncFlags'
      BY <1>1, <1>7, <2>5 DEF AsyncEndCopy, AsyncFlags, AsyncIds, asyncWire, asyncHistory
    <2> QED BY <2>3, <2>4, <2>6, TypesAgain
  <1>8. CASE DropWriter(w)
    <2>1. CallOK(aop') BY <1>1, <1>8 DEF DropWriter
    <2>2. UNCHANGED <<atoServer, atoClient, asrv>> BY <1>8 DEF DropWriter, asyncWire
    <2>3. WiresOK' BY <1>1, <1>3, <1>8, <2>2, WiresStay, BufferGrows DEF DropWriter, QueueCopyFail
    <2>4. adesynchronized' \in BOOLEAN /\ apendingCancel' \in BOOLEAN
      BY <1>1, <1>8 DEF DropWriter, QueueCopyFail, AsyncFlags
    <2>5. AsyncFlags' BY <1>1, <1>8, <2>4 DEF DropWriter, AsyncFlags, AsyncIds, asyncWire, asyncHistory
    <2> QED BY <2>1, <2>3, <2>5, TypesAgain
  <1>9. CASE LoseWriter(w)
    <2>1. CallOK(aop') BY <1>1, <1>9 DEF LoseWriter
    <2>2. WiresOK' BY <1>1, <1>9, WiresStay DEF LoseWriter, asyncWire
    <2>3. AsyncFlags' BY <1>1, <1>9 DEF LoseWriter, AsyncFlags, AsyncIds, asyncWire
    <2> QED BY <2>1, <2>2, <2>3, TypesAgain
  <1> QED BY <1>5, <1>6, <1>7, <1>8, <1>9

\* and the server and the link.
LEMMA TypedWire ==
  ASSUME AsyncTypes, AsyncServer \/ AsyncServerCancels \/ AsyncLinkLost
  PROVE  AsyncTypes'
  <1>1. CallOK(aop) /\ AsyncFlags /\ WiresOK BY DEF AsyncTypes
  <1>2. WiresOK' BY <1>1, ServerIsSteady, CancelIsSteady, LossIsSteady
  <1>3. UNCHANGED <<asyncClient, asyncHistory>> BY DEF AsyncServer, AsyncServerCancels, AsyncLinkLost
  <1>4. CallOK(aop') BY <1>1, <1>3 DEF asyncClient
  <1>5. alink' \in BOOLEAN /\ acancelSent' \in BOOLEAN
    BY <1>1 DEF AsyncServer, AsyncServerCancels, AsyncLinkLost, AsyncFlags
  <1>6. AsyncFlags' BY <1>1, <1>3, <1>5 DEF AsyncFlags, AsyncIds, asyncClient, asyncHistory
  <1> QED BY <1>2, <1>4, <1>6, TypesAgain

\* Every step keeps the types.
LEMMA TypesKept ==
  ASSUME AsyncTypes, AsyncStep
  PROVE  AsyncTypes'
  BY RequestsAreRequests, TypedRequest, TypedWrites, TypedDrains, TypedReplies, TypedStream, TypedDrops, TypedWriter, TypedWire
     DEF AsyncStep, ClientSteps

-----------------------------------------------------------------------------
(* The client's steps while it agrees with the server                      *)

\* Which part of Together a phase belongs to.
LEMMA WhoHolds ==
  ASSUME Together
  PROVE  /\ aop.phase = "flush" => AskingAt /\ Quiet
         /\ aop.phase = "free" => (IdleAt /\ Quiet) \/ \E c \in Nat : TalksOf(c) /\ NoneAsked /\ CopyAt(c)
         /\ aop.phase \in ReadPhases => \E c \in Nat : TalksOf(c) /\ ReadsAt(c)
         /\ aop.phase \in {"writerFlush", "direct", "endFlush", "flushPending", "drainPending"} =>
              \E c \in Nat : TalksOf(c) /\ NoneAsked /\ CopyAt(c)
  BY DEF Together, IdleAt, AskingAt, ReadsAt, CopyAt, ReadPhases

\* A step that leaves both wires and the server alone changes no conversation.
LEMMA WireStill ==
  ASSUME UNCHANGED <<alink, atoServer, atoClient, asrv>>
  PROVE  Steady
  BY DEF Steady, NoneAsked, Quiet, TalksOf, AsyncKinds, AsyncReplies

\* The two ways to show Together: a COPY,
LEMMA CopyTogether == ASSUME NEW c \in Nat, TalksOf(c)', NoneAsked', CopyAt(c)' PROVE Together'
  BY DEF Together

\* and a reply that is read.
LEMMA ReadTogether == ASSUME NEW c \in Nat, TalksOf(c)', ReadsAt(c)' PROVE Together'
  BY DEF Together

\* A request waits for the CopyFail of an abandoned COPY, or is the only one; inside a COPY it taints.
LEMMA RequestOnTrack ==
  ASSUME AsyncTypes, OnTrack, NEW kind \in AsyncKinds, AsyncRequest(kind), Untainted'
  PROVE  OnTrack'
  <1> DEFINE o == [AsyncFree EXCEPT !.kind = kind, !.id = aissued + 1]
  <1>1. CallOK(aop) /\ AsyncFlags /\ WiresOK BY DEF AsyncTypes
  <1>2. aissued + 1 \in AsyncIds BY <1>1, AsyncAssumption DEF AsyncRequest, AsyncFlags, AsyncIds
  <1>3. {"flush", "flushPending"} \subseteq AsyncPhases BY DEF AsyncPhases, Writing
  <1>4. /\ o.kind = kind /\ o.id = aissued + 1
        /\ [o EXCEPT !.phase = "flush", !.n = 0].phase = "flush" /\ [o EXCEPT !.phase = "flush", !.n = 0].kind = kind
        /\ [o EXCEPT !.phase = "flush", !.n = 0].id = aissued + 1
        /\ [o EXCEPT !.phase = "flushPending"].phase = "flushPending"
    <2>1. o \in [phase : {"free"}, kind : AsyncKinds, id : AsyncIds, n : {0}] /\ o.kind = kind /\ o.id = aissued + 1
      BY <1>2 DEF AsyncFree
    <2> HIDE DEF o
    <2> QED BY <1>3, <2>1, RequestIsCall
  <1>5. /\ aop.phase = "free" /\ IsHealthy /\ UNCHANGED <<awriters, apendingCancel, adesynchronized>>
        /\ IF apendingCancel THEN StartWrite(awriteBuf) /\ aop' = [o EXCEPT !.phase = "flushPending"] ELSE WriteRequest(o)
        /\ UNCHANGED <<alink, atoServer, atoClient, asrv>>
    BY DEF AsyncRequest, asyncWire
  <1> HIDE DEF o
  <1>6. awriters = {} /\ atainted' = {} BY DEF AsyncRequest, Untainted, OnTrack
  <1>7. Steady BY <1>5, WireStill
  <1>8. CASE IdleAt /\ Quiet
    <2> DEFINE f == [k |-> o.kind, id |-> o.id]
    <2>1. ~apendingCancel /\ awriteBuf = <<>> BY <1>8 DEF IdleAt
    <2>2. WriteRequest(o) BY <1>5, <2>1
    <2>3. awriteBuf' = Append(<<>>, f) /\ awriteInFlight' = (awriteInFlight \/ Append(<<>>, f) # <<>>)
          /\ aop' = [o EXCEPT !.phase = "flush", !.n = 0]
      BY <2>1, <2>2 DEF WriteRequest, StartWrite
    <2>4. f = [k |-> aop'.kind, id |-> aop'.id] /\ aop'.phase = "flush" BY <1>4, <2>3
    <2> HIDE DEF f
    <2>5. Append(<<>>, f) = <<f>> /\ <<f>> # <<>> OBVIOUS
    <2>6. AskingAt' BY <1>5, <1>6, <2>1, <2>3, <2>4, <2>5 DEF AskingAt
    <2>7. Quiet' BY <1>7, <1>8 DEF Steady
    <2> QED BY <1>5, <1>6, <2>6, <2>7 DEF OnTrack, Together
  <1>9. ASSUME NEW c \in Nat, TalksOf(c), NoneAsked, CopyAt(c) PROVE OnTrack'
    <2>1. BufferHasCopy /\ apendingCancel /\ awriteBuf # <<>> BY <1>5, <1>6, <1>9 DEF CopyAt
    <2>2. aop'.phase = "flushPending" /\ awriteBuf' = awriteBuf /\ awriteInFlight'
      BY <1>4, <1>5, <2>1 DEF StartWrite
    <2>3. BufferHasCopy' BY <2>1, <2>2 DEF BufferHasCopy
    <2>4. CopyAt(c)' BY <1>5, <1>6, <2>1, <2>2, <2>3 DEF CopyAt
    <2>5. Together' BY <1>7, <1>9, <2>4, CopyTogether DEF Steady
    <2> QED BY <1>5, <1>6, <2>5 DEF OnTrack
  <1> QED BY <1>5, <1>8, <1>9, WhoHolds DEF OnTrack

\* A write completes: the request is on its way, or the COPY goes on or ends.
LEMMA WriteOnTrack ==
  ASSUME AsyncTypes, OnTrack, WriteCompletes
  PROVE  OnTrack'
  <1>1. CallOK(aop) /\ AsyncFlags /\ WiresOK BY DEF AsyncTypes
  <1>2. /\ Deliver(awriteBuf) /\ awriteBuf' = <<>> /\ ~awriteInFlight' /\ atainted' = {} /\ ~adesynchronized'
        /\ UNCHANGED <<awriters, apendingCancel, alink, atoClient, asrv>>
    BY DEF WriteCompletes, OnTrack
  <1>3. aop.phase \in Writing /\ aop.phase # "free" BY DEF WriteCompletes, Writing
  <1>4. {"drainPending", "stream", "await", "ending"} \subseteq AsyncPhases BY DEF AsyncPhases, Reading
  <1>5. \A p \in AsyncPhases : AsyncEnter(p).phase = p /\ AsyncEnter(p).id = aop.id
    BY <1>1, <1>3, EnterIsCall
  <1>6. BufferHasCopy' BY <1>2 DEF BufferHasCopy
  <1>7. CASE aop.phase = "flush"
    <2>1. AskingAt /\ Quiet BY <1>7, WhoHolds DEF OnTrack
    <2>2. aop.id \in Nat /\ aop.kind \in AsyncKinds
      <3>1. aop \in [phase : AsyncPhases, kind : AsyncKinds, id : 0 .. MaxAsyncRequests, n : Nat]
        BY <1>1 DEF CallOK
      <3> QED BY <3>1
    <2>3. PICK c \in Nat : c = aop.id BY <2>2
    <2>4. PICK k \in AsyncKinds : k = aop.kind BY <2>2
    <2>5. TalksOf(c)' BY <1>1, <1>2, <2>1, <2>3, <2>4, RequestDelivered DEF AskingAt
    <2>6. \E p \in {"stream", "await"} : aop' = AsyncEnter(p) BY <1>7 DEF WriteCompletes
    <2>7. aop'.phase \in {"stream", "await"} /\ aop'.id = c BY <1>4, <1>5, <2>3, <2>6
    <2>8. ReadsAt(c)' BY <1>2, <2>1, <2>7 DEF ReadsAt, AskingAt, ReadPhases
    <2>9. Together' BY <2>5, <2>8, ReadTogether
    <2> QED BY <1>2, <2>9 DEF OnTrack
  <1>8. CASE aop.phase # "flush"
    <2>1. aop.phase \in {"writerFlush", "direct", "endFlush", "flushPending"} BY <1>3, <1>8 DEF Writing
    <2>2. PICK c \in Nat : TalksOf(c) /\ NoneAsked /\ CopyAt(c) BY <2>1, WhoHolds DEF OnTrack
    <2>3. BufferHasCopy BY <2>2 DEF CopyAt
    <2>4. TalksOf(c)' /\ NoneAsked' BY <1>1, <1>2, <2>2, <2>3, CopyDelivered
    <2>5. CASE aop.phase \in {"writerFlush", "direct"}
      <3>1. aop' = AsyncFree BY <2>5 DEF WriteCompletes
      <3>2. CopyAt(c)' BY <1>2, <1>6, <2>2, <2>5, <3>1, FreeIsCall DEF CopyAt
      <3>3. Together' BY <2>4, <3>2, CopyTogether
      <3> QED BY <1>2, <3>3 DEF OnTrack
    <2>6. CASE aop.phase = "endFlush"
      <3>1. aop' = AsyncEnter("ending") BY <2>6 DEF WriteCompletes
      <3>2. aop'.phase = "ending" /\ aop'.id = aop.id BY <1>4, <1>5, <3>1
      <3>3. ReadsAt(c)' BY <1>2, <2>2, <2>6, <3>2 DEF CopyAt, ReadsAt, ReadPhases
      <3>4. Together' BY <2>4, <3>3, ReadTogether
      <3> QED BY <1>2, <3>4 DEF OnTrack
    <2>7. CASE aop.phase = "flushPending"
      <3>1. aop' = AsyncEnter("drainPending") BY <2>7 DEF WriteCompletes
      <3>2. aop'.phase = "drainPending" BY <1>4, <1>5, <3>1
      <3>3. CopyAt(c)' BY <1>2, <1>6, <2>2, <2>7, <3>2 DEF CopyAt
      <3>4. Together' BY <2>4, <3>3, CopyTogether
      <3> QED BY <1>2, <3>4 DEF OnTrack
    <2> QED BY <2>1, <2>5, <2>6, <2>7
  <1> QED BY <1>7, <1>8

\* A write that fails or is dropped leaves write_in_flight set: the connection is broken, or a writer is left
\* that will find it so.
LEMMA WriteStops ==
  ASSUME AsyncTypes, OnTrack, WriteFails \/ DropWrite
  PROVE  Apart' \/ OnTrack'
  <1>1. aop.phase \in Writing /\ aop'.phase = "free" /\ UNCHANGED <<awriters, awriteBuf, awriteInFlight, apendingCancel, adesynchronized>>
    BY FreeIsCall DEF WriteFails, DropWrite
  <1>2. aop.phase = "flush" \/ aop.phase \in {"writerFlush", "direct", "endFlush", "flushPending"}
    BY <1>1 DEF Writing
  <1>3. awriteInFlight BY <1>2, WhoHolds DEF OnTrack, AskingAt, CopyAt
  <1>4. CASE DropWrite
    <2>1. "torn" \in atainted' BY <1>4 DEF DropWrite
    <2> QED BY <1>1, <1>3, <2>1 DEF Apart
  <1>5. CASE WriteFails
    <2>1. UNCHANGED <<alink, atoServer, atoClient, asrv, atainted>>
      BY <1>5 DEF WriteFails, asyncWire, asyncHistory
    <2>2. CASE awriters = {} BY <1>1, <1>3, <2>2 DEF Apart
    <2>3. CASE awriters # {}
      <3>1. aop.phase # "flush" BY <2>3, WhoHolds DEF OnTrack, AskingAt
      <3>2. PICK c \in Nat : TalksOf(c) /\ NoneAsked /\ CopyAt(c) BY <1>2, <3>1, WhoHolds DEF OnTrack
      <3>3. awriters = {c} /\ ~apendingCancel /\ BufferHasCopy BY <2>3, <3>2 DEF CopyAt
      <3>4. BufferHasCopy' BY <1>1, <3>3 DEF BufferHasCopy
      <3>5. CopyAt(c)' BY <1>1, <3>3, <3>4 DEF CopyAt
      <3>6. Together' BY <2>1, <3>2, <3>5, CopyTogether, WireStill DEF Steady
      <3> QED BY <1>1, <2>1, <3>6 DEF OnTrack
    <2> QED BY <2>2, <2>3
  <1> QED BY <1>4, <1>5

\* A message that was read belonged to the conversation; behind the ReadyForQuery
\* the wire is quiet.
LEMMA DrainReads ==
  ASSUME AsyncTypes, NEW c \in Nat, TalksOf(c), UNCHANGED asrv,
         NEW ks, AsyncRead(ks)
  PROVE  /\ TalksOf(c)' /\ NoneAsked' /\ (ks = {"ready"} => Quiet') /\ Head(atoClient).id = c
         /\ UNCHANGED <<alink, atoServer>>
  BY ReadLeaves DEF AsyncRead, AsyncTypes

\* A bounded drain reads on, ends at the ReadyForQuery of its own request, or sets desynchronized.
LEMMA DrainOnTrack ==
  ASSUME AsyncTypes, OnTrack, DrainPending \/ ConsumeError
  PROVE  Apart' \/ OnTrack'
  <1>1. CallOK(aop) /\ AsyncFlags /\ WiresOK BY DEF AsyncTypes
  <1>2. aop.phase \in DrainPhases /\ aop.phase # "free" BY DEF DrainPending, ConsumeError, DrainPhases
  <1>3. UNCHANGED <<aissued, awriters, asrv, acancelSent, amisanswered, atainted>>
    BY DEF DrainPending, ConsumeError, asyncHistory
  <1> DEFINE more == /\ aop.n < AsyncDrainCap /\ AsyncRead(AsyncReplies \ {"ready"}) /\ aop' = [aop EXCEPT !.n = @ + 1]
                     /\ UNCHANGED <<adesynchronized, apendingCancel, awriteBuf, awriteInFlight>>
             done == AsyncRead({"ready"}) /\ aop' = AsyncFree /\ UNCHANGED <<adesynchronized, apendingCancel, awriteBuf, awriteInFlight>>
             goOn == AsyncRead({"ready"}) /\ apendingCancel' = FALSE /\ UNCHANGED adesynchronized /\ WriteRequest(aop)
  <1>4. CASE AsyncGiveUp BY <1>4, FreeIsCall DEF AsyncGiveUp, Apart
  <1>5. CASE DrainPending /\ ~AsyncGiveUp
    <2>1. more \/ goOn BY <1>5 DEF DrainPending, BoundedDrain
    <2>2. PICK c \in Nat : TalksOf(c) /\ NoneAsked /\ CopyAt(c)
      BY <1>5, WhoHolds DEF OnTrack, DrainPending
    <2>3. /\ aop.phase = "drainPending" /\ awriters = {} /\ awriteBuf = <<>> /\ ~awriteInFlight /\ apendingCancel
      BY <1>5, <2>2 DEF DrainPending, CopyAt
    <2>4. CASE more
      <3>1. aop'.phase = "drainPending" BY <1>1, <1>2, <2>3, <2>4, CountIsCall
      <3>2. CopyAt(c)' BY <1>3, <2>3, <2>4, <3>1 DEF CopyAt, BufferHasCopy
      <3>3. TalksOf(c)' /\ NoneAsked' BY <1>3, <2>2, <2>4, DrainReads
      <3>4. Together' BY <3>2, <3>3, CopyTogether
      <3> QED BY <1>3, <2>4, <3>4 DEF OnTrack
    <2>5. CASE goOn
      <3>1. Quiet' BY <1>3, <2>2, <2>5, DrainReads
      <3> DEFINE f == [k |-> aop.kind, id |-> aop.id]
      <3>2. awriteBuf' = Append(<<>>, f) /\ awriteInFlight' = (awriteInFlight \/ Append(<<>>, f) # <<>>) /\ aop' = AsyncEnter("flush")
        BY <2>3, <2>5 DEF WriteRequest, StartWrite, AsyncEnter
      <3>3. "flush" \in AsyncPhases BY DEF AsyncPhases, Writing
      <3>4. aop'.phase = "flush" /\ f = [k |-> aop'.kind, id |-> aop'.id]
        BY <1>1, <1>2, <3>2, <3>3, EnterIsCall
      <3> HIDE DEF f
      <3>5. Append(<<>>, f) = <<f>> /\ <<f>> # <<>> OBVIOUS
      <3>6. AskingAt' BY <1>3, <2>3, <2>5, <3>2, <3>4, <3>5 DEF AskingAt
      <3> QED BY <1>3, <2>5, <3>1, <3>6 DEF OnTrack, Together
    <2> QED BY <2>1, <2>4, <2>5
  <1>6. CASE ConsumeError /\ ~AsyncGiveUp
    <2>1. more \/ done BY <1>6 DEF ConsumeError, BoundedDrain
    <2>2. aop.phase \in {"errDrain", "streamErrDrain"} BY <1>6 DEF ConsumeError
    <2>3. PICK c \in Nat : TalksOf(c) /\ ReadsAt(c) BY <2>2, WhoHolds DEF OnTrack, ReadPhases
    <2>4. CASE more
      <3>1. aop'.phase = aop.phase /\ aop'.id = aop.id BY <1>1, <1>2, <2>4, CountIsCall
      <3>2. ReadsAt(c)' BY <1>3, <2>3, <2>4, <3>1 DEF ReadsAt, ReadPhases
      <3>3. TalksOf(c)' BY <1>3, <2>3, <2>4, DrainReads
      <3>4. Together' BY <3>2, <3>3, ReadTogether
      <3> QED BY <1>3, <2>4, <3>4 DEF OnTrack
    <2>5. CASE done
      <3>1. Quiet' BY <1>3, <2>3, <2>5, DrainReads
      <3>2. IdleAt' BY <1>3, <2>3, <2>5, FreeIsCall DEF IdleAt, ReadsAt
      <3> QED BY <1>3, <2>5, <3>1, <3>2 DEF OnTrack, Together
    <2> QED BY <2>1, <2>4, <2>5
  <1> QED BY <1>4, <1>5, <1>6

\* A read fails only once the link is gone and everything has been read.
LEMMA NothingToRead ==
  ASSUME AsyncTypes, NEW c \in Nat, TalksOf(c), AsyncReadFails, UNCHANGED asrv
  PROVE  atoClient = <<>> /\ Quiet' /\ TalksOf(c)'
  <1>1. atoClient \in Seq(AsyncMessage) BY DEF AsyncTypes, WiresOK
  <1>2. atoClient # <<>> => Head(atoClient) # Zeros
    <2> SUFFICES ASSUME atoClient # <<>> PROVE Head(atoClient) # Zeros OBVIOUS
    <2>1. Head(atoClient) = atoClient[1] /\ 1 \in 1 .. Len(atoClient) BY <1>1
    <2> QED BY <2>1 DEF TalksOf, AsyncReplies, Zeros
  <1>3. atoClient = <<>> /\ ~alink /\ UNCHANGED <<alink, atoServer, atoClient>>
    BY <1>2 DEF AsyncReadFails, asyncWire
  <1>4. Quiet' BY <1>3 DEF Quiet, NoneAsked
  <1>5. TalksOf(c)' BY <1>3 DEF TalksOf
  <1> QED BY <1>3, <1>4, <1>5

\* The answer read is the one to the call that reads.
LEMMA OwnAnswer ==
  ASSUME AsyncTypes, NEW c \in Nat, TalksOf(c), UNCHANGED asrv, aop.id = c, NEW ks, AsyncRead(ks), AsyncAnswer
  PROVE  amisanswered' = amisanswered
  BY DrainReads DEF AsyncAnswer

\* The read loops: the reply they end at is their own, and the wire is quiet behind a ReadyForQuery.
LEMMA ReplyOnTrack ==
  ASSUME AsyncTypes, OnTrack, AsyncReadReply \/ AsyncReadCopyInResponse \/ AsyncReadCopyEnd
  PROVE  OnTrack' /\ amisanswered' = amisanswered
  <1>1. CallOK(aop) /\ AsyncFlags /\ WiresOK BY DEF AsyncTypes
  <1>2. aop.phase \in {"await", "ending"}
    BY DEF AsyncReadReply, AsyncReadCopyInResponse, AsyncReadCopyEnd
  <1>3. PICK c \in Nat : TalksOf(c) /\ ReadsAt(c) BY <1>2, WhoHolds DEF OnTrack, ReadPhases
  <1>4. UNCHANGED <<aissued, awriteBuf, awriteInFlight, apendingCancel, adesynchronized, asrv, acancelSent, atainted>>
    BY DEF AsyncReadReply, AsyncReadCopyInResponse, AsyncReadCopyEnd
  <1>5. aop.id = c /\ awriters = {} /\ ~apendingCancel /\ ~awriteInFlight /\ awriteBuf = <<>>
    BY <1>3 DEF ReadsAt
  <1> DEFINE onOne(last, skipped) ==
               \/ AsyncRead(last) /\ AsyncAnswer /\ aop' = AsyncFree
               \/ AsyncRead({"error"} \ skipped) /\ AsyncAnswer /\ aop' = AsyncEnter("errDrain")
               \/ AsyncRead(skipped) /\ UNCHANGED <<aop, amisanswered>>
               \/ AsyncReadFails /\ aop' = AsyncFree /\ UNCHANGED amisanswered
             copying == AsyncRead({"copyInResponse"}) /\ AsyncAnswer /\ aop' = AsyncFree /\ awriters' = awriters \cup {aop.id}
             ended == AsyncRead({"ready"}) /\ AsyncAnswer /\ aop' = AsyncFree /\ awriters' = awriters
             failed == \E ks : AsyncRead(ks) /\ AsyncAnswer /\ aop' = AsyncEnter("errDrain") /\ awriters' = awriters
             skip == \E ks : AsyncRead(ks) /\ UNCHANGED <<aop, amisanswered, awriters>>
             closed == AsyncReadFails /\ aop' = AsyncFree /\ UNCHANGED <<amisanswered, awriters>>
  <1>6. copying \/ ended \/ failed \/ skip \/ closed
    <2>1. CASE AsyncReadReply
      <3>1. onOne({"ready"}, AsyncReplies \ {"ready", "error"}) /\ awriters' = awriters
        BY <2>1 DEF AsyncReadReply, ReadUntil
      <3> QED BY <3>1
    <2>2. CASE AsyncReadCopyEnd
      <3>1. PICK skipped : onOne({"ready"}, skipped) /\ awriters' = awriters
        BY <2>2 DEF AsyncReadCopyEnd, ReadUntil
      <3> QED BY <3>1
    <2>3. CASE AsyncReadCopyInResponse
      <3> DEFINE skipped == AsyncReplies \ {"copyInResponse", "error"}
      <3>1. onOne({"copyInResponse"}, skipped) BY <2>3 DEF AsyncReadCopyInResponse, ReadUntil
      <3>2. awriters' = IF atoClient # <<>> /\ Head(atoClient).k = "copyInResponse" THEN awriters \cup {aop.id} ELSE awriters
        BY <2>3 DEF AsyncReadCopyInResponse
      <3>3. CASE AsyncRead({"copyInResponse"}) /\ AsyncAnswer /\ aop' = AsyncFree
        BY <3>2, <3>3 DEF AsyncRead
      <3>4. CASE AsyncRead({"error"} \ skipped) /\ AsyncAnswer /\ aop' = AsyncEnter("errDrain")
        <4>1. awriters' = awriters BY <3>2, <3>4 DEF AsyncRead
        <4> QED BY <3>4, <4>1
      <3>5. CASE AsyncRead(skipped) /\ UNCHANGED <<aop, amisanswered>>
        <4>1. awriters' = awriters BY <3>2, <3>5 DEF AsyncRead
        <4> QED BY <3>5, <4>1
      <3>6. CASE AsyncReadFails /\ aop' = AsyncFree /\ UNCHANGED amisanswered
        <4>1. atoClient = <<>> BY <1>3, <1>4, <3>6, NothingToRead
        <4> QED BY <3>2, <3>6, <4>1
      <3> QED BY <3>1, <3>3, <3>4, <3>5, <3>6
    <2> QED BY <2>1, <2>2, <2>3
  <1>7. CASE copying
    <2>1. TalksOf(c)' /\ NoneAsked' /\ amisanswered' = amisanswered
      BY <1>3, <1>4, <1>5, <1>7, DrainReads, OwnAnswer
    <2>2. awriters' = {c} BY <1>5, <1>7
    <2>3. CopyAt(c)' BY <1>4, <1>5, <1>7, <2>2, FreeIsCall DEF CopyAt, BufferHasCopy
    <2>4. Together' BY <2>1, <2>3, CopyTogether
    <2> QED BY <1>4, <2>1, <2>4 DEF OnTrack
  <1>8. CASE ended
    <2>1. Quiet' /\ amisanswered' = amisanswered BY <1>3, <1>4, <1>5, <1>8, DrainReads, OwnAnswer
    <2>2. IdleAt' BY <1>4, <1>5, <1>8, FreeIsCall DEF IdleAt
    <2> QED BY <1>4, <2>1, <2>2 DEF OnTrack, Together
  <1>9. CASE failed
    <2>1. PICK ks : AsyncRead(ks) /\ AsyncAnswer /\ aop' = AsyncEnter("errDrain") /\ awriters' = awriters
      BY <1>9
    <2>2. TalksOf(c)' /\ amisanswered' = amisanswered BY <1>3, <1>4, <1>5, <2>1, DrainReads, OwnAnswer
    <2>3. "errDrain" \in AsyncPhases BY DEF AsyncPhases, Reading
    <2>4. aop'.phase = "errDrain" /\ aop'.id = c BY <1>1, <1>2, <1>5, <2>1, <2>3, EnterIsCall
    <2>5. ReadsAt(c)' BY <1>4, <1>5, <2>1, <2>4 DEF ReadsAt, ReadPhases
    <2>6. Together' BY <2>2, <2>5, ReadTogether
    <2> QED BY <1>4, <2>2, <2>6 DEF OnTrack
  <1>10. CASE skip
    <2>1. PICK ks : AsyncRead(ks) /\ UNCHANGED <<aop, amisanswered, awriters>> BY <1>10
    <2>2. TalksOf(c)' BY <1>3, <1>4, <2>1, DrainReads
    <2>3. ReadsAt(c)' BY <1>3, <1>4, <2>1 DEF ReadsAt, ReadPhases
    <2>4. Together' BY <2>2, <2>3, ReadTogether
    <2> QED BY <1>4, <2>1, <2>4 DEF OnTrack
  <1>11. CASE closed
    <2>1. Quiet' BY <1>3, <1>4, <1>11, NothingToRead
    <2>2. IdleAt' BY <1>4, <1>5, <1>11, FreeIsCall DEF IdleAt
    <2> QED BY <1>4, <1>11, <2>1, <2>2 DEF OnTrack, Together
  <1> QED BY <1>6, <1>7, <1>8, <1>9, <1>10, <1>11

\* next_chunk and drain_to_ready read the stream's own reply and no further.
LEMMA StreamOnTrack ==
  ASSUME AsyncTypes, OnTrack, AsyncReadStream \/ CallStream
  PROVE  OnTrack' /\ amisanswered' = amisanswered
  <1>1. CallOK(aop) /\ AsyncFlags /\ WiresOK BY DEF AsyncTypes
  <1>2. aop.phase \in {"chunk", "drainReady", "stream"} BY DEF AsyncReadStream, CallStream
  <1>3. PICK c \in Nat : TalksOf(c) /\ ReadsAt(c) BY <1>2, WhoHolds DEF OnTrack, ReadPhases
  <1>4. UNCHANGED <<awriters, awriteBuf, awriteInFlight, apendingCancel, adesynchronized, asrv, atainted>>
    BY DEF AsyncReadStream, CallStream, asyncHistory
  <1>5. aop.id = c /\ awriters = {} /\ ~apendingCancel /\ ~awriteInFlight /\ awriteBuf = <<>>
    BY <1>3 DEF ReadsAt
  <1>6. {"chunk", "drainReady", "stream", "streamErrDrain"} \subseteq AsyncPhases
    BY DEF AsyncPhases, Reading
  <1>7. ASSUME aop'.phase \in ReadPhases, aop'.id = c, TalksOf(c)' PROVE OnTrack'
    <2>1. ReadsAt(c)' BY <1>4, <1>5, <1>7 DEF ReadsAt, ReadPhases
    <2>2. Together' BY <1>7, <2>1, ReadTogether
    <2> QED BY <1>4, <2>2 DEF OnTrack
  <1>8. ASSUME NEW p \in {"chunk", "drainReady", "stream", "streamErrDrain"}, aop' = AsyncEnter(p)
        PROVE  aop'.phase \in ReadPhases /\ aop'.id = c
    BY <1>1, <1>2, <1>5, <1>6, <1>8, EnterIsCall DEF ReadPhases
  <1>9. CASE CallStream
    <2>1. TalksOf(c)' /\ amisanswered' = amisanswered
      BY <1>3, <1>9, WireStill DEF CallStream, asyncWire, asyncHistory, Steady
    <2>2. \E p \in {"chunk", "drainReady"} : aop' = AsyncEnter(p) BY <1>9 DEF CallStream
    <2> QED BY <1>7, <1>8, <2>1, <2>2
  <1>10. CASE AsyncReadStream
    <2>1. CASE AsyncRead({"ready"}) /\ AsyncAnswer /\ aop' = AsyncFree
      <3>1. Quiet' /\ amisanswered' = amisanswered BY <1>3, <1>4, <1>5, <2>1, DrainReads, OwnAnswer
      <3>2. IdleAt' BY <1>4, <1>5, <2>1, FreeIsCall DEF IdleAt
      <3> QED BY <1>4, <3>1, <3>2 DEF OnTrack, Together
    <2>2. CASE AsyncRead({"error"}) /\ AsyncAnswer /\ aop' = AsyncEnter("streamErrDrain")
      <3>1. TalksOf(c)' /\ amisanswered' = amisanswered BY <1>3, <1>4, <1>5, <2>2, DrainReads, OwnAnswer
      <3> QED BY <1>7, <1>8, <2>2, <3>1
    <2>3. CASE /\ AsyncRead({"row"})
               /\ aop' = IF aop.phase = "drainReady" THEN aop
                         ELSE IF aop.n + 1 >= AsyncChunkSize THEN AsyncEnter("stream")
                         ELSE [aop EXCEPT !.n = @ + 1]
               /\ UNCHANGED amisanswered
      <3>1. TalksOf(c)' BY <1>3, <1>4, <2>3, DrainReads
      <3>2. CASE aop' = aop BY <1>3, <1>7, <2>3, <3>1, <3>2 DEF ReadsAt
      <3>3. CASE aop' = AsyncEnter("stream") BY <1>7, <1>8, <2>3, <3>1, <3>3
      <3>4. CASE aop' = [aop EXCEPT !.n = @ + 1]
        <4>1. aop \in [phase : AsyncPhases, kind : AsyncKinds, id : 0 .. MaxAsyncRequests, n : Nat]
          BY <1>1 DEF CallOK
        <4>2. aop'.phase = aop.phase /\ aop'.id = aop.id BY <3>4, <4>1
        <4> QED BY <1>3, <1>7, <2>3, <3>1, <4>2 DEF ReadsAt
      <3> QED BY <2>3, <3>2, <3>3, <3>4
    <2>4. CASE AsyncRead(AsyncReplies \ {"ready", "error", "row"}) /\ UNCHANGED <<aop, amisanswered>>
      <3>1. TalksOf(c)' BY <1>3, <1>4, <2>4, DrainReads
      <3> QED BY <1>3, <1>7, <2>4, <3>1 DEF ReadsAt
    <2>5. CASE AsyncReadFails /\ aop' = AsyncEnter("stream") /\ UNCHANGED amisanswered
      <3>1. TalksOf(c)' BY <1>3, <1>4, <2>5, NothingToRead
      <3> QED BY <1>7, <1>8, <2>5, <3>1
    <2> QED BY <1>10, <2>1, <2>2, <2>3, <2>4, <2>5 DEF AsyncReadStream
  <1> QED BY <1>9, <1>10

\* The steps of a COPY writer: send, flush, finish, cancel and drop.
LEMMA WriterOnTrack ==
  ASSUME AsyncTypes, OnTrack, NEW w \in awriters, Untainted',
         AsyncSend(w) \/ WriterFlush(w) \/ AsyncEndCopy(w) \/ DropWriter(w) \/ LoseWriter(w)
  PROVE  (Apart' \/ OnTrack') /\ amisanswered' = amisanswered
  <1>1. CallOK(aop) /\ AsyncFlags /\ WiresOK BY DEF AsyncTypes
  <1>2. CASE LoseWriter(w) BY <1>2 DEF LoseWriter, Untainted
  <1>3. CASE AsyncSend(w) \/ WriterFlush(w) \/ AsyncEndCopy(w) \/ DropWriter(w)
    <2>1. aop.phase = "free" /\ UNCHANGED <<alink, atoServer, atoClient, asrv, atainted, amisanswered>>
      BY <1>3 DEF AsyncSend, WriterFlush, AsyncEndCopy, DropWriter, WriterCall, asyncWire, asyncHistory
    <2>2. PICK c \in Nat : TalksOf(c) /\ NoneAsked /\ CopyAt(c) BY <2>1, WhoHolds DEF OnTrack, IdleAt
    <2>3. w = c /\ awriters = {c} /\ ~apendingCancel /\ BufferHasCopy BY <2>1, <2>2 DEF CopyAt
    <2>4. TalksOf(c)' /\ NoneAsked' BY <2>1, <2>2, WireStill DEF Steady
    <2>5. ASSUME CopyAt(c)', ~adesynchronized' PROVE OnTrack'
      <3>1. Together' BY <2>4, <2>5, CopyTogether
      <3> QED BY <2>1, <2>5, <3>1 DEF OnTrack
    <2>6. w \in AsyncIds BY <1>1 DEF AsyncFlags
    <2>7. \A k \in {"copyDatum", "copyDone", "copyFail"} : awriteBuf' = Append(awriteBuf, [k |-> k, id |-> w]) => BufferHasCopy' /\ awriteBuf' # <<>>
      <3> SUFFICES ASSUME NEW k \in {"copyDatum", "copyDone", "copyFail"}, awriteBuf' = Append(awriteBuf, [k |-> k, id |-> w])
                   PROVE  BufferHasCopy' /\ awriteBuf' # <<>>
        OBVIOUS
      <3> DEFINE f == [k |-> k, id |-> w]
      <3>1. f.k = k /\ awriteBuf' = Append(awriteBuf, f) OBVIOUS
      <3> HIDE DEF f
      <3>2. awriteBuf \in Seq(AsyncFrame) BY <1>1 DEF WiresOK
      <3>3. /\ Len(awriteBuf) \in Nat /\ Len(awriteBuf') = Len(awriteBuf) + 1 /\ awriteBuf'[Len(awriteBuf) + 1] = f
            /\ \A i \in 1 .. Len(awriteBuf) : awriteBuf'[i] = awriteBuf[i]
        BY <3>1, <3>2
      <3>4. ASSUME NEW i \in 1 .. Len(awriteBuf') PROVE awriteBuf'[i].k \in {"copyDatum", "copyDone", "copyFail"}
        <4>1. CASE i = Len(awriteBuf) + 1 BY <3>1, <3>3, <4>1
        <4>2. CASE i # Len(awriteBuf) + 1
          <5>1. i \in 1 .. Len(awriteBuf) BY <3>3, <4>2
          <5> QED BY <2>3, <3>3, <5>1 DEF BufferHasCopy
        <4> QED BY <4>1, <4>2
      <3> QED BY <3>3, <3>4 DEF BufferHasCopy
    <2>8. CASE AsyncSend(w)
      <3>1. BufferHasCopy' BY <2>7, <2>8 DEF AsyncSend
      <3>2. CopyAt(c)' BY <2>1, <2>3, <2>8, <3>1 DEF AsyncSend, CopyAt
      <3> QED BY <2>1, <2>5, <2>8, <3>2 DEF AsyncSend, OnTrack
    <2>9. CASE WriterFlush(w)
      <3>1. aop'.phase \in {"writerFlush", "direct"} /\ aop'.id = c
        BY <2>3, <2>9 DEF WriterFlush, WriterHolds
      <3>2. awriteBuf' # <<>> /\ BufferHasCopy'
        <4>1. (awriteBuf # <<>> /\ awriteBuf' = awriteBuf) \/ awriteBuf' = Append(awriteBuf, [k |-> "copyDatum", id |-> w])
          BY <2>9 DEF WriterFlush, StartWrite
        <4>2. awriteBuf' = awriteBuf => BufferHasCopy' BY <2>3 DEF BufferHasCopy
        <4> QED BY <2>7, <4>1, <4>2
      <3>3. awriteInFlight' BY <2>9, <3>2 DEF WriterFlush, StartWrite
      <3>4. CopyAt(c)' BY <2>3, <2>9, <3>1, <3>2, <3>3 DEF WriterFlush, CopyAt
      <3> QED BY <2>1, <2>5, <2>9, <3>4 DEF WriterFlush, OnTrack
    <2>10. CASE AsyncEndCopy(w)
      <3>1. PICK frame \in {"copyDone", "copyFail"} :
              IF IsHealthy
              THEN /\ StartWrite(Append(awriteBuf, [k |-> frame, id |-> w]))
                   /\ aop' = WriterHolds("endFlush", IF frame = "copyDone" THEN "copyIn" ELSE "simple", w)
              ELSE UNCHANGED <<aop, awriteBuf, awriteInFlight>>
        BY <2>10 DEF AsyncEndCopy
      <3>2. awriters' = {} /\ UNCHANGED <<apendingCancel, adesynchronized>>
        BY <2>3, <2>10 DEF AsyncEndCopy
      <3>3. CASE IsHealthy
        <4>1. awriteBuf' = Append(awriteBuf, [k |-> frame, id |-> w]) BY <3>1, <3>3 DEF StartWrite
        <4>2. BufferHasCopy' /\ awriteBuf' # <<>> BY <2>7, <4>1
        <4>3. awriteInFlight' BY <3>1, <3>3, <4>1, <4>2 DEF StartWrite
        <4>4. aop'.phase = "endFlush" /\ aop'.id = c BY <2>3, <3>1, <3>3 DEF WriterHolds
        <4>5. CopyAt(c)' BY <2>3, <3>2, <4>2, <4>3, <4>4 DEF CopyAt
        <4> QED BY <2>1, <2>5, <3>2, <4>5 DEF OnTrack
      <3>4. CASE ~IsHealthy
        <4>1. UNCHANGED <<aop, awriteInFlight>> /\ awriteInFlight BY <3>1, <3>4 DEF IsHealthy, OnTrack
        <4> QED BY <2>1, <3>2, <4>1 DEF Apart
      <3> QED BY <3>3, <3>4
    <2>11. CASE DropWriter(w)
      <3>1. awriters' = {} /\ UNCHANGED <<aop, awriteInFlight>> BY <2>3, <2>11 DEF DropWriter
      <3>2. CASE awriteInFlight BY <2>1, <2>11, <3>1, <3>2 DEF DropWriter, QueueCopyFail, Apart
      <3>3. CASE ~awriteInFlight
        <4>1. awriteBuf' = Append(awriteBuf, [k |-> "copyFail", id |-> w]) /\ apendingCancel' /\ adesynchronized' = adesynchronized
          BY <2>11, <3>3 DEF DropWriter, QueueCopyFail
        <4>2. BufferHasCopy' /\ awriteBuf' # <<>> BY <2>7, <4>1
        <4>3. CopyAt(c)' BY <2>1, <3>1, <3>3, <4>1, <4>2 DEF CopyAt
        <4> QED BY <2>1, <2>5, <4>1, <4>3 DEF OnTrack
      <3> QED BY <3>2, <3>3
    <2> QED BY <1>3, <2>8, <2>9, <2>10, <2>11
  <1> QED BY <1>2, <1>3

\* The server, the link and cancel.
LEMMA WireOnTrack ==
  ASSUME AsyncTypes, OnTrack, AsyncServer \/ AsyncServerCancels \/ AsyncLinkLost \/ AsyncCancel \/ UNCHANGED asyncVars
  PROVE  OnTrack' /\ amisanswered' = amisanswered
  <1>1. Steady
    <2>1. WiresOK BY DEF AsyncTypes
    <2>2. CASE AsyncCancel \/ UNCHANGED asyncVars
      BY <2>2, WireStill DEF AsyncCancel, asyncVars, asyncWire
    <2> QED BY <2>1, <2>2, ServerIsSteady, CancelIsSteady, LossIsSteady
  <1>2. UNCHANGED <<aop, awriters, awriteBuf, awriteInFlight, apendingCancel, adesynchronized, amisanswered, atainted>>
    BY DEF AsyncServer, AsyncServerCancels, AsyncLinkLost, AsyncCancel, asyncVars, asyncClient,
           asyncHistory
  <1>3. CASE (IdleAt \/ AskingAt) /\ Quiet
    <2>1. IdleAt' \/ AskingAt' BY <1>2, <1>3 DEF IdleAt, AskingAt
    <2> QED BY <1>1, <1>2, <1>3, <2>1 DEF Steady, OnTrack, Together
  <1>4. ASSUME NEW c \in Nat, TalksOf(c), ReadsAt(c) PROVE OnTrack'
    <2>1. ReadsAt(c)' BY <1>2, <1>4 DEF ReadsAt, ReadPhases
    <2>2. Together' BY <1>1, <1>4, <2>1, ReadTogether DEF Steady
    <2> QED BY <1>2, <2>2 DEF OnTrack
  <1>5. ASSUME NEW c \in Nat, TalksOf(c), NoneAsked, CopyAt(c) PROVE OnTrack'
    <2>1. CopyAt(c)' BY <1>2, <1>5 DEF CopyAt, BufferHasCopy
    <2>2. Together' BY <1>1, <1>5, <2>1, CopyTogether DEF Steady
    <2> QED BY <1>2, <2>2 DEF OnTrack
  <1>6. OnTrack' BY <1>3, <1>4, <1>5 DEF OnTrack, Together
  <1> QED BY <1>2, <1>6

\* A stream or a statement that is dropped sets desynchronized; a read that is dropped taints.
LEMMA DropOnTrack ==
  ASSUME OnTrack, Untainted', DropRead \/ DropStreamFuture \/ AsyncDropStream \/ DropStatementNoRuntime
  PROVE  Apart' /\ amisanswered' = amisanswered
  <1>1. CASE DropRead \/ DropStreamFuture BY <1>1 DEF DropRead, DropStreamFuture, Untainted
  <1>2. CASE AsyncDropStream BY <1>2, FreeIsCall DEF AsyncDropStream, Apart, asyncHistory
  <1>3. CASE DropStatementNoRuntime BY <1>3 DEF DropStatementNoRuntime, Apart, asyncHistory
  <1> QED BY <1>1, <1>2, <1>3

\* The invariant is inductive.
LEMMA AsyncInvKept == AsyncInv /\ [AsyncNext]_asyncVars => AsyncInv'
  <1> SUFFICES ASSUME AsyncInv, [AsyncNext]_asyncVars PROVE AsyncInv' OBVIOUS
  <1>1. AsyncTypes /\ AsyncConversation BY DEF AsyncInv
  <1>2. CASE Untainted /\ AsyncStep
    <2>1. AsyncTypes' BY <1>1, <1>2, TypesKept
    <2>2. amisanswered = {} /\ (Apart \/ OnTrack) BY <1>1, <1>2 DEF AsyncConversation
    <2>3. ASSUME Untainted' PROVE amisanswered' = {} /\ (Apart' \/ OnTrack')
      <3>1. CASE Apart BY <1>1, <1>2, <2>2, <2>3, <3>1, ApartStays
      <3>2. CASE OnTrack
        <4>1. CASE AsyncRequests
          <5>1. PICK kind \in AsyncKinds : AsyncRequest(kind) BY <4>1, RequestsAreRequests
          <5>2. OnTrack' BY <1>1, <2>3, <3>2, <5>1, RequestOnTrack
          <5> QED BY <2>2, <5>1, <5>2 DEF AsyncRequest
        <4>2. CASE WriteCompletes BY <1>1, <2>2, <3>2, <4>2, WriteOnTrack DEF WriteCompletes
        <4>3. CASE WriteFails \/ DropWrite
          <5>1. amisanswered' = amisanswered BY <4>3 DEF WriteFails, DropWrite, asyncHistory
          <5> QED BY <1>1, <2>2, <3>2, <4>3, <5>1, WriteStops
        <4>4. CASE DrainPending \/ ConsumeError
          <5>1. amisanswered' = amisanswered BY <4>4 DEF DrainPending, ConsumeError, asyncHistory
          <5> QED BY <1>1, <2>2, <3>2, <4>4, <5>1, DrainOnTrack
        <4>5. CASE AsyncReadReply \/ AsyncReadCopyInResponse \/ AsyncReadCopyEnd
          BY <1>1, <2>2, <3>2, <4>5, ReplyOnTrack
        <4>6. CASE AsyncReadStream \/ CallStream BY <1>1, <2>2, <3>2, <4>6, StreamOnTrack
        <4>7. CASE DropRead \/ DropStreamFuture \/ AsyncDropStream \/ DropStatementNoRuntime
          BY <2>2, <2>3, <3>2, <4>7, DropOnTrack
        <4>8. CASE AsyncServer \/ AsyncServerCancels \/ AsyncLinkLost \/ AsyncCancel
          BY <1>1, <2>2, <3>2, <4>8, WireOnTrack
        <4>9. CASE \E w \in awriters : AsyncSend(w) \/ WriterFlush(w) \/ AsyncEndCopy(w) \/ DropWriter(w) \/ LoseWriter(w)
          BY <1>1, <2>2, <2>3, <3>2, <4>9, WriterOnTrack
        <4> QED BY <1>2, <4>1, <4>2, <4>3, <4>4, <4>5, <4>6, <4>7, <4>8, <4>9 DEF AsyncStep, ClientSteps
      <3> QED BY <2>2, <3>1, <3>2
    <2>4. AsyncConversation' BY <2>3 DEF AsyncConversation
    <2> QED BY <2>1, <2>4 DEF AsyncInv
  <1>3. CASE UNCHANGED asyncVars
    <2>1. CallOK(aop) /\ AsyncFlags /\ WiresOK BY <1>1 DEF AsyncTypes
    <2>2. CallOK(aop') BY <1>3, <2>1 DEF asyncVars, asyncClient
    <2>3. WiresOK' BY <1>3, <2>1, WiresStay DEF asyncVars, asyncClient, asyncWire
    <2>4. AsyncFlags'
      BY <1>3, <2>1 DEF asyncVars, asyncClient, asyncWire, asyncHistory, AsyncFlags, AsyncIds
    <2>5. AsyncTypes' BY <2>2, <2>3, <2>4, TypesAgain
    <2>6. UNCHANGED <<amisanswered, atainted>> /\ (Apart => Apart')
      BY <1>3 DEF asyncVars, asyncClient, asyncHistory, Apart
    <2>7. OnTrack => OnTrack' BY <1>1, <1>3, WireOnTrack
    <2>8. AsyncConversation' BY <1>1, <2>6, <2>7 DEF AsyncConversation, Untainted
    <2> QED BY <2>5, <2>8 DEF AsyncInv
  <1> QED BY <1>2, <1>3 DEF AsyncNext

\* AsyncRawConnection behind its mutex, for every bound, budget and chunk size:
\* whatever order the calls, streams, writers, cancels and the server take, and
\* whichever write is dropped or fails, a connection that is free and healthy has
\* nothing left on the wire, and no request is answered by another one's reply
\* (async_connection.rs, async_client.rs and the two stream modules).
THEOREM AsyncStaysInStep == AsyncSpec => []AsyncInStep
  BY AsyncStarts, AsyncInvKept, InvGivesInStep, PTL DEF AsyncSpec

=============================================================================
