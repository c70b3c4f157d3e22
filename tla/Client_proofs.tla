--------------------------- MODULE Client_proofs ---------------------------
(***************************************************************************)
(* Proofs about how a client connects (Handshake), how it queries over     *)
(* gRPC (GrpcQuery), its transactions (Transactions) and its bulk loads    *)
(* (BulkLoads).                                                            *)
(*                                                                         *)
(* Connecting: the properties speak of the clock and of the limit on the   *)
(* socket apart; what is inductive is their sum, which stays within the    *)
(* budget while a read is under way.                                       *)
(*                                                                         *)
(* Querying: that the answer is whole at the end says nothing of the way   *)
(* there.  The invariant says, in each state of the executor, which parts  *)
(* are collected and which are still on a stream; tokens are numbered in   *)
(* the order they are issued.                                              *)
(*                                                                         *)
(* Loading: a COPY stream has no row marks.  The invariant says at which   *)
(* position of the stream each value of each row is, or that the stream    *)
(* has lost its header and will be refused.                                *)
(***************************************************************************)
EXTENDS Handshake, GrpcQuery, Transactions, BulkLoads, SequenceTheorems, TLAPS

-----------------------------------------------------------------------------
(* Connecting                                                              *)

Negotiating == {"new", "sslRequest", "sslReply", "handshake", "handshakeRead"}
Connected == {"startup", "auth", "established"}

HandshakeTypes ==
    /\ conf \in Confs
    /\ phase \in Negotiating \cup Connected \cup {"failed"}
    /\ clock \in Nat
    /\ armed \in Nat

\* A read under way may take what is left of the budget and no more, and only
\* the reads of the negotiation have a limit.
WithinBudget ==
    /\ conf.timeout = 0 => armed = 0
    /\ conf.timeout > 0 =>
          /\ clock <= conf.timeout
          /\ phase \in {"sslReply", "handshakeRead"} => clock + armed <= conf.timeout
    /\ phase \in {"new", "sslRequest"} \cup Connected => armed = 0

\* No cancel is sent before the client is established.
Protected ==
    /\ CarriesWhatWasAsked
    /\ phase # "established" => cancelStream = "none"

HandshakeInv == HandshakeTypes /\ WithinBudget /\ Protected

-----------------------------------------------------------------------------
LEMMA HandshakeStarts == HandshakeInit => HandshakeInv
  <1> SUFFICES ASSUME HandshakeInit PROVE HandshakeInv
    OBVIOUS
  <1>1. HandshakeTypes
    BY DEF HandshakeInit, HandshakeTypes, Negotiating, Connected
  <1>2. WithinBudget
    BY BudgetAssumption DEF HandshakeInit, WithinBudget, Confs
  <1>3. Protected
    BY DEF HandshakeInit, Protected, CarriesWhatWasAsked
  <1> QED BY <1>1, <1>2, <1>3 DEF HandshakeInv

\* What the caller asked for and the certificate decide what fits.
LEMMA CertificateFitsStill ==
  ASSUME UNCHANGED <<conf, cert>>
  PROVE  CertificateFits' <=> CertificateFits
  BY DEF CertificateFits

\* The steps that touch neither the clock, nor the limit, nor the stream.
LEMMA StartupKeeps ==
  ASSUME HandshakeInv, UNCHANGED <<conf, cert, stream, clock, armed, cancelStream>>,
         \/ phase' = phase
         \/ phase \in Connected /\ phase' \in Connected \cup {"failed"} /\ phase # "established"
  PROVE  HandshakeInv'
  <1>1. HandshakeTypes'
    BY DEF HandshakeInv, HandshakeTypes, Negotiating, Connected
  <1>2. WithinBudget'
    BY DEF HandshakeInv, HandshakeTypes, WithinBudget, Negotiating, Connected
  <1>3. CarriesWhatWasAsked'
    BY CertificateFitsStill DEF HandshakeInv, Protected, CarriesWhatWasAsked
  <1>4. Protected'
    BY <1>3 DEF HandshakeInv, Protected
  <1> QED BY <1>1, <1>2, <1>4 DEF HandshakeInv

LEMMA OpenKeeps ==
  ASSUME HandshakeInv, ConnectEndpoint \/ AsyncConnectEndpoint
  PROVE  HandshakeInv'
  <1>1. /\ phase = "new"
        /\ UNCHANGED <<conf, cert, clock, armed, cancelStream>>
        /\ \/ phase' = "failed" /\ stream' = stream
           \/ phase' = "startup" /\ stream' = "plain" /\ conf.mode \in {"disable", "prefer"}
           \/ phase' = "sslRequest" /\ stream' = "none"
    BY DEF ConnectEndpoint, AsyncConnectEndpoint, Connect, AsyncConnect, ConnectUnix,
           AsyncConnectUnix, ConnectNamedPipe, AsyncConnectNamedPipe, Open, OpenIpc,
           Proceed, RejectOnIpc
  <1>2. HandshakeTypes'
    BY <1>1 DEF HandshakeInv, HandshakeTypes, Negotiating, Connected
  <1>3. WithinBudget'
    BY <1>1 DEF HandshakeInv, HandshakeTypes, WithinBudget, Connected
  <1>4. CarriesWhatWasAsked'
    BY <1>1, CertificateFitsStill DEF HandshakeInv, Protected, CarriesWhatWasAsked
  <1>5. Protected'
    BY <1>1, <1>4 DEF HandshakeInv, Protected
  <1> QED BY <1>2, <1>3, <1>5 DEF HandshakeInv

\* A read is armed with what is left.
LEMMA ArmKeeps ==
  ASSUME HandshakeInv, SendSslRequest \/ HandshakeRound
  PROVE  HandshakeInv'
  <1>1. /\ phase \in {"sslRequest", "handshake"}
        /\ phase' \in {"sslReply", "handshakeRead"}
        /\ conf.timeout = 0 \/ clock < conf.timeout
        /\ armed' = IF conf.timeout = 0 THEN 0 ELSE conf.timeout - clock
        /\ UNCHANGED <<conf, cert, stream, clock, cancelStream>>
    BY DEF SendSslRequest, HandshakeRound, Arm, Proceed
  <1>2. conf.timeout \in Nat
    BY BudgetAssumption DEF HandshakeInv, HandshakeTypes, Confs
  <1>3. HandshakeTypes'
    BY <1>1, <1>2 DEF HandshakeInv, HandshakeTypes, Negotiating, Connected
  <1>4. WithinBudget'
    BY <1>1, <1>2 DEF HandshakeInv, HandshakeTypes, WithinBudget, Connected
  <1>5. CarriesWhatWasAsked'
    BY <1>1, CertificateFitsStill DEF HandshakeInv, Protected, CarriesWhatWasAsked
  <1>6. Protected'
    BY <1>1, <1>5 DEF HandshakeInv, Protected
  <1> QED BY <1>3, <1>4, <1>6 DEF HandshakeInv

\* A read ends in time, or at its limit; either way the clock moves by no more
\* than the limit.
LEMMA ReadKeeps ==
  ASSUME HandshakeInv, ReadSslReply \/ HandshakeRead \/ NegotiationTimesOut \/ BudgetSpent
  PROVE  HandshakeInv'
  <1>1. conf.timeout \in Nat
    BY BudgetAssumption DEF HandshakeInv, HandshakeTypes, Confs
  <1>2. /\ UNCHANGED <<conf, cert, cancelStream>>
        /\ phase \in Negotiating \ {"new"}
    BY DEF ReadSslReply, HandshakeRead, NegotiationTimesOut, BudgetSpent, TimesOut, Negotiating
  <1>3. \/ phase' = "handshake" /\ UNCHANGED <<armed, stream>>
        \/ phase' = "startup" /\ armed' = 0 /\ stream' = "plain" /\ conf.mode = "prefer"
        \/ phase' = "startup" /\ armed' = 0 /\ stream' = "tls" /\ CertificateFits
        \/ phase' = "failed" /\ armed' = 0 /\ stream' = stream
    BY DEF ReadSslReply, HandshakeRead, NegotiationTimesOut, BudgetSpent, TimesOut,
           FailConnect, Proceed, Fallback
  <1>4. /\ clock' \in Nat
        /\ conf.timeout > 0 => clock' <= conf.timeout
    <2>1. CASE BudgetSpent
      BY <2>1 DEF BudgetSpent, HandshakeInv, HandshakeTypes, WithinBudget
    <2>2. CASE ReadSslReply \/ HandshakeRead \/ NegotiationTimesOut
      <3>1. PICK n \in Nat : n <= armed /\ Waits(n)
        <4>1. CASE ReadSslReply \/ HandshakeRead
          <5>1. PICK n \in 0 .. Budget : InTime(n) /\ Waits(n)
            BY <4>1 DEF ReadSslReply, HandshakeRead
          <5>2. n \in Nat /\ n <= armed
            BY <5>1, BudgetAssumption DEF InTime, HandshakeInv, HandshakeTypes
          <5> QED BY <5>1, <5>2
        <4>2. CASE NegotiationTimesOut
          BY <4>2 DEF NegotiationTimesOut, TimesOut, HandshakeInv, HandshakeTypes
        <4> QED BY <2>2, <4>1, <4>2
      <3>2. phase \in {"sslReply", "handshakeRead"}
        BY <2>2 DEF ReadSslReply, HandshakeRead, NegotiationTimesOut
      <3> QED BY <1>1, <3>1, <3>2 DEF Waits, HandshakeInv, HandshakeTypes, WithinBudget
    <2> QED BY <2>1, <2>2
  <1>5. HandshakeTypes'
    BY <1>2, <1>3, <1>4 DEF HandshakeInv, HandshakeTypes, Negotiating, Connected
  <1>6. WithinBudget'
    BY <1>1, <1>2, <1>3, <1>4 DEF HandshakeInv, HandshakeTypes, WithinBudget, Connected
  <1>7. cancelStream = "none"
    BY <1>2 DEF HandshakeInv, Protected, Negotiating
  <1>8. CarriesWhatWasAsked'
    BY <1>2, <1>3, <1>7, CertificateFitsStill DEF HandshakeInv, Protected, CarriesWhatWasAsked
  <1>9. Protected'
    BY <1>2, <1>7, <1>8 DEF Protected
  <1> QED BY <1>5, <1>6, <1>9 DEF HandshakeInv

\* A cancel is sent over what carries the client.
LEMMA CancelKeeps ==
  ASSUME HandshakeInv, SendCancelSync \/ SendCancelAsync
  PROVE  HandshakeInv'
  <1>1. /\ phase = "established"
        /\ UNCHANGED <<conf, phase, cert, stream, clock, armed>>
        /\ cancelStream' \in {"failed", stream}
    BY DEF SendCancelSync, SendCancelAsync, CancelOver
  <1>2. HandshakeTypes' /\ WithinBudget'
    BY <1>1 DEF HandshakeInv, HandshakeTypes, WithinBudget
  <1>3. CarriesWhatWasAsked'
    BY <1>1, CertificateFitsStill DEF HandshakeInv, Protected, CarriesWhatWasAsked
  <1>4. Protected'
    BY <1>1, <1>3 DEF Protected
  <1> QED BY <1>2, <1>4 DEF HandshakeInv

LEMMA HandshakeKeeps == HandshakeInv /\ [HandshakeNext]_hsVars => HandshakeInv'
  <1> SUFFICES ASSUME HandshakeInv, [HandshakeNext]_hsVars PROVE HandshakeInv'
    OBVIOUS
  <1>1. CASE ConnectEndpoint \/ AsyncConnectEndpoint
    BY <1>1, OpenKeeps
  <1>2. CASE SendSslRequest \/ HandshakeRound
    BY <1>2, ArmKeeps
  <1>3. CASE ReadSslReply \/ HandshakeRead \/ NegotiationTimesOut \/ BudgetSpent
    BY <1>3, ReadKeeps
  <1>4. CASE Startup
    <2>1. /\ UNCHANGED <<conf, cert, stream, clock, armed, cancelStream>>
          /\ phase \in {"startup", "auth"}
          /\ phase' = phase \/ phase' \in {"auth", "established", "failed"}
      BY <1>4 DEF Startup, StartupMessage, AuthenticationOk, AuthenticationPassword,
           AuthenticationSasl, AuthenticationSaslContinue, AuthenticationSaslFinal,
           BackendKeyData, ParameterStatus, ReadyForQuery, StartupFails, Message, Accepted,
           Refused, Proceed
    <2> QED BY <2>1, StartupKeeps DEF Connected
  <1>5. CASE SendCancelSync \/ SendCancelAsync
    BY <1>5, CancelKeeps
  <1>6. CASE UNCHANGED hsVars
    BY <1>6, StartupKeeps DEF hsVars
  <1> QED BY <1>1, <1>2, <1>3, <1>4, <1>5, <1>6 DEF HandshakeNext, Done

\* For every connect_timeout, SSL mode and server: the negotiation ends within its
\* budget and leaves no timeout on the socket, and the client and its cancel run
\* over what the mode promises.
THEOREM ConnectingIsSound == HandshakeSpec => []ConnectIsSound
  <1>1. HandshakeInv => ConnectIsSound
    BY DEF HandshakeInv, WithinBudget, Protected, ConnectIsSound, NegotiationWithinBudget,
           TimeoutIsCleared, Connected
  <1> QED BY <1>1, HandshakeStarts, HandshakeKeeps, PTL DEF HandshakeSpec

-----------------------------------------------------------------------------
(* Queries over gRPC                                                       *)

PartType == Int \X Int
PartMsg(p) == [t |-> "part", p |-> p]
StatusMsg == [t |-> "status"]
Messages == [t : {"command", "status"}] \cup [t : {"part"}, p : PartType]

ExecStates == {"ReadInitialResults", "RequestStatus", "ReadStatus", "RequestResults", "ReadResults", "Finished"}
StatusType == [known : BOOLEAN, running : BOOLEAN, count : Nat]
ResultType == [chunks : Seq(PartType), rows : {"none", "affected"}]
ExecType == [state : ExecStates, mode : Modes, next : Nat, status : StatusType, result : ResultType, polls : Nat]
ServerType == [command : BOOLEAN, count : 1 .. MaxChunks, running : BOOLEAN, stream : Seq(Messages),
               open : {"none", "execute", "info"}, executions : Nat]
ClientType == [kind : {"plain", "stream", "auth"}, phase : {"idle", "run", "failed", "done"}, attempt : Nat,
               chunks : Seq(PartType), rows : {"none", "affected"}, token : Nat, channel : Nat, rejected : Nat]
ProviderType == [jwt : Nat, life : {"none", "fresh", "aged", "ending"}, oauth : BOOLEAN, issued : Nat]

GrpcTypes ==
    /\ gexec \in ExecType
    /\ gserver \in ServerType
    /\ gclient \in ClientType
    /\ gprovider \in ProviderType

-----------------------------------------------------------------------------
\* The first k chunks, after the schema.
Fetched(k) == <<SchemaPart>> \o AllParts(k)

\* SYNC: what was collected and what is still on the stream make up the result.
SyncInline(c, s, w) ==
    /\ Len(c) + Len(s) = Len(w)
    /\ \A i \in 1 .. Len(c) : c[i] = w[i]
    /\ \A i \in 1 .. Len(s) : s[i] = PartMsg(w[Len(c) + i])

\* ASYNC: the schema follows the status.
AsyncInline(c, s) ==
    \/ c = <<>> /\ s = <<StatusMsg, PartMsg(SchemaPart)>>
    \/ c = <<>> /\ s = <<PartMsg(SchemaPart)>>
    \/ c = <<SchemaPart>> /\ s = <<>>

\* ADAPTIVE: the schema, then chunk 0, and the status after or inside it.
AdaptiveInline(c, s) ==
    LET m == PartMsg(SchemaPart)
        a == PartMsg(<<0, 1>>)
        b == PartMsg(<<0, 2>>)
    IN \/ c = <<>> /\ s \in {<<m, a, b, StatusMsg>>, <<m, a, StatusMsg, b>>}
       \/ c = <<SchemaPart>> /\ s \in {<<a, b, StatusMsg>>, <<a, StatusMsg, b>>}
       \/ c = <<SchemaPart, <<0, 1>>>> /\ s \in {<<b, StatusMsg>>, <<StatusMsg, b>>, <<b>>}
       \/ c = <<SchemaPart, <<0, 1>>, <<0, 2>>>> /\ s \in {<<StatusMsg>>, <<>>}

Inline(x, c, s, n) ==
    /\ x.next = FirstChunk(x.mode)
    /\ x.mode = "SYNC" => SyncInline(c, s, WholeResult(n))
    /\ x.mode = "ASYNC" => AsyncInline(c, s)
    /\ x.mode = "ADAPTIVE" => AdaptiveInline(c, s)

\* Where the parts of the result are, in each state of the executor: n chunks,
\* c collected, s on the stream.
Progress(x, c, s, n) ==
    /\ x.state = "ReadInitialResults" => Inline(x, c, s, n)
    /\ x.state \in {"RequestStatus", "ReadStatus"} => c = Fetched(x.next) /\ x.next <= 1
    /\ x.state = "RequestResults" => c = Fetched(x.next) /\ x.next <= n /\ x.status.count = n
    /\ x.state = "ReadResults" => c = Fetched(x.next) /\ x.next < n /\ x.status.count = n
    /\ x.state = "Finished" => c = WholeResult(n)

\* A GetQueryResult stream carries the chunk that was asked for.
ChunkAsked(x, s) ==
    x.state = "ReadResults" => s = <<PartMsg(<<x.next, 1>>), PartMsg(<<x.next, 2>>)>>

Collecting ==
    /\ gexec.result.chunks = <<>>
    /\ Running => ChunkAsked(gexec, gserver.stream)
    /\ Running /\ ~gserver.command => Progress(gexec, gclient.chunks, gserver.stream, gserver.count)

\* Tokens are numbered as they are issued, and every attempt is one execution.
TokensInOrder ==
    /\ gprovider.jwt <= gprovider.issued
    /\ gclient.token <= gprovider.issued
    /\ gclient.token = gclient.channel
    /\ gclient.attempt \in {0, 1}
    /\ gclient.attempt = 1 => gclient.token > gclient.rejected
    /\ gclient.phase = "idle" => gclient.attempt = 0 /\ gserver.executions = 0
    /\ gserver.executions <= gclient.attempt + 1

GrpcInv == GrpcTypes /\ Collecting /\ GrpcResultIsWhole /\ TokensInOrder

-----------------------------------------------------------------------------
(* The parts of a result                                                   *)

LEMMA FetchedParts ==
  ASSUME NEW k \in Nat
  PROVE  /\ Fetched(k) \in Seq(PartType)
         /\ Len(Fetched(k)) = 2 * k + 1
         /\ Fetched(k)[1] = SchemaPart
         /\ \A i \in 2 .. 2 * k + 1 : Fetched(k)[i] = Parts((i - 2) \div 2)[1 + ((i - 2) % 2)]
  <1>1. \A i \in 1 .. 2 * k : (i - 1) \div 2 \in Int /\ 1 + ((i - 1) % 2) \in {1, 2}
    OBVIOUS
  <1>2. \A j \in Int, e \in {1, 2} : Parts(j)[e] \in PartType
    BY DEF Parts, PartType
  <1>3. AllParts(k) \in Seq(PartType) /\ Len(AllParts(k)) = 2 * k
    <2>1. 2 * k \in Nat OBVIOUS
    <2>2. AllParts(k) \in [1 .. 2 * k -> PartType]
      BY <1>1, <1>2 DEF AllParts
    <2> QED BY <2>1, <2>2 DEF AllParts
  <1>4. /\ <<SchemaPart>> \in Seq(PartType) /\ Len(<<SchemaPart>>) = 1 /\ <<SchemaPart>>[1] = SchemaPart
    BY DEF SchemaPart, PartType
  <1>5. /\ Fetched(k) \in Seq(PartType) /\ Len(Fetched(k)) = 1 + 2 * k
        /\ \A i \in 1 .. 1 + 2 * k : Fetched(k)[i] = IF i <= 1 THEN <<SchemaPart>>[i] ELSE AllParts(k)[i - 1]
    BY <1>3, <1>4, ConcatProperties DEF Fetched
  <1>6. ASSUME NEW i \in 2 .. 2 * k + 1
        PROVE  Fetched(k)[i] = Parts((i - 2) \div 2)[1 + ((i - 2) % 2)]
    <2>1. Fetched(k)[i] = AllParts(k)[i - 1] BY <1>5
    <2>2. i - 1 \in 1 .. 2 * k /\ (i - 1) - 1 = i - 2 OBVIOUS
    <2> QED BY <2>1, <2>2 DEF AllParts
  <1>7. Fetched(k)[1] = SchemaPart BY <1>4, <1>5
  <1> QED BY <1>5, <1>6, <1>7

LEMMA NextParts ==
  ASSUME NEW k \in Nat
  PROVE  Fetched(k + 1) = Fetched(k) \o Parts(k)
  <1> DEFINE f == Fetched(k + 1)
             g == Fetched(k) \o Parts(k)
  <1>1. k + 1 \in Nat /\ 2 * (k + 1) + 1 = 2 * k + 3
    OBVIOUS
  <1>2. /\ Fetched(k) \in Seq(PartType) /\ Len(Fetched(k)) = 2 * k + 1
        /\ Fetched(k)[1] = SchemaPart
        /\ \A i \in 2 .. 2 * k + 1 : Fetched(k)[i] = Parts((i - 2) \div 2)[1 + ((i - 2) % 2)]
    BY FetchedParts
  <1>3. /\ f \in Seq(PartType) /\ Len(f) = 2 * k + 3
        /\ f[1] = SchemaPart
        /\ \A i \in 2 .. 2 * k + 3 : f[i] = Parts((i - 2) \div 2)[1 + ((i - 2) % 2)]
    <2>1. /\ f \in Seq(PartType) /\ Len(f) = 2 * (k + 1) + 1
          /\ f[1] = SchemaPart
          /\ \A i \in 2 .. 2 * (k + 1) + 1 : f[i] = Parts((i - 2) \div 2)[1 + ((i - 2) % 2)]
      BY <1>1, FetchedParts
    <2> HIDE DEF f
    <2> QED BY <2>1, <1>1
  <1>4. Parts(k) \in Seq(PartType) /\ Len(Parts(k)) = 2
    BY DEF Parts, PartType
  <1>5. /\ g \in Seq(PartType) /\ Len(g) = 2 * k + 3
        /\ \A i \in 1 .. 2 * k + 3 : g[i] = IF i <= 2 * k + 1 THEN Fetched(k)[i] ELSE Parts(k)[i - (2 * k + 1)]
    <2>1. /\ g \in Seq(PartType) /\ Len(g) = Len(Fetched(k)) + Len(Parts(k))
          /\ \A i \in 1 .. Len(Fetched(k)) + Len(Parts(k)) :
                g[i] = IF i <= Len(Fetched(k)) THEN Fetched(k)[i] ELSE Parts(k)[i - Len(Fetched(k))]
      BY <1>2, <1>4, ConcatProperties
    <2> HIDE DEF g
    <2> QED BY <1>2, <1>4, <2>1
  <1> HIDE DEF f, g
  <1>6. ASSUME NEW i \in 1 .. 2 * k + 3
        PROVE  f[i] = g[i]
    <2>1. CASE i = 1
      BY <2>1, <1>2, <1>3, <1>5
    <2>2. CASE i \in 2 .. 2 * k + 1
      BY <2>2, <1>2, <1>3, <1>5
    <2>3. CASE i \in {2 * k + 2, 2 * k + 3}
      <3>1. i \in 2 .. 2 * k + 3
        BY <2>3
      <3>2. (i - 2) \div 2 = k /\ 1 + ((i - 2) % 2) = i - (2 * k + 1)
        BY <2>3
      <3>3. g[i] = Parts(k)[i - (2 * k + 1)]
        BY <2>3, <1>5
      <3>4. f[i] = Parts((i - 2) \div 2)[1 + ((i - 2) % 2)]
        BY <3>1, <1>3
      <3> QED BY <3>2, <3>3, <3>4
    <2> QED BY <2>1, <2>2, <2>3
  <1>7. f = g BY <1>3, <1>5, <1>6, SeqEqual
  <1> QED BY <1>7 DEF f, g

LEMMA ShortSequences ==
  ASSUME NEW S, NEW x \in Seq(S)
  PROVE  /\ Len(x) = 2 => x = <<x[1], x[2]>>
         /\ Len(x) = 3 => x = <<x[1], x[2], x[3]>>
         /\ Len(x) = 4 => x = <<x[1], x[2], x[3], x[4]>>
  OBVIOUS

LEMMA FirstParts ==
  /\ Fetched(0) = <<SchemaPart>>
  /\ Fetched(1) = <<SchemaPart, <<0, 1>>, <<0, 2>>>>
  /\ <<SchemaPart>> \o Parts(0) = <<SchemaPart, <<0, 1>>, <<0, 2>>>>
  <1>1. Fetched(0) = <<SchemaPart>>
    <2>1. /\ Fetched(0) \in Seq(PartType) /\ Len(Fetched(0)) = 1 /\ Fetched(0)[1] = SchemaPart
      <3> DEFINE z == 0
      <3>1. z \in Nat OBVIOUS
      <3> HIDE DEF z
      <3>2. /\ Fetched(z) \in Seq(PartType) /\ Len(Fetched(z)) = 2 * z + 1 /\ Fetched(z)[1] = SchemaPart
        BY <3>1, FetchedParts
      <3> QED BY <3>2 DEF z
    <2> QED BY <2>1
  <1>2. Fetched(0 + 1) = <<SchemaPart>> \o Parts(0)
    BY <1>1, NextParts
  <1>3. <<SchemaPart>> \o Parts(0) = <<SchemaPart, <<0, 1>>, <<0, 2>>>>
    <2> DEFINE x == <<SchemaPart>> \o Parts(0)
    <2>1. Parts(0) = <<<<0, 1>>, <<0, 2>>>> BY DEF Parts
    <2>2. SchemaPart \in PartType /\ <<0, 1>> \in PartType /\ <<0, 2>> \in PartType
      BY DEF SchemaPart, PartType
    <2>3. x \in Seq(PartType) /\ Len(x) = 3 /\ x[1] = SchemaPart /\ x[2] = <<0, 1>> /\ x[3] = <<0, 2>>
      <3> DEFINE a == <<0, 1>>
                 b == <<0, 2>>
      <3>1. x = <<SchemaPart>> \o <<a, b>> /\ a \in PartType /\ b \in PartType
        BY <2>1, <2>2
      <3> HIDE DEF x, a, b
      <3>2. x \in Seq(PartType) /\ Len(x) = 3 /\ x[1] = SchemaPart /\ x[2] = a /\ x[3] = b
        BY <2>2, <3>1
      <3> QED BY <3>2 DEF a, b
    <2> HIDE DEF x
    <2>4. x = <<SchemaPart, <<0, 1>>, <<0, 2>>>>
      BY <2>3, ShortSequences
    <2> QED BY <2>4 DEF x
  <1>4. 0 + 1 = 1 OBVIOUS
  <1> QED BY <1>1, <1>2, <1>3, <1>4

-----------------------------------------------------------------------------
(* One call of next_result                                                 *)

LEMMA Yields ==
  ASSUME gclient \in ClientType, NEW x \in ExecType, Yield(x)
  PROVE  /\ gexec' \in ExecType /\ gclient' \in ClientType
         /\ gexec'.state = x.state /\ gexec'.mode = x.mode /\ gexec'.next = x.next
         /\ gexec'.status = x.status /\ gexec'.result.chunks = <<>>
         /\ gclient'.chunks = gclient.chunks \o x.result.chunks
         /\ gclient'.phase = IF x.state = "Finished" /\ x.result.chunks = <<>> THEN "done" ELSE gclient.phase
         /\ gclient'.attempt = gclient.attempt /\ gclient'.token = gclient.token
         /\ gclient'.channel = gclient.channel /\ gclient'.rejected = gclient.rejected
         /\ UNCHANGED gprovider
  <1>1. x.result \in ResultType /\ x.result.chunks \in Seq(PartType) /\ x.result.rows \in {"none", "affected"}
    BY DEF ExecType, ResultType
  <1>2. NoResult \in ResultType /\ NoResult.chunks = <<>>
    BY DEF NoResult, ResultType
  <1>3. /\ gexec' \in ExecType
        /\ gexec'.state = x.state /\ gexec'.mode = x.mode /\ gexec'.next = x.next
        /\ gexec'.status = x.status /\ gexec'.result.chunks = <<>>
    BY <1>1, <1>2 DEF Yield, ExecType
  <1>4. gclient.chunks \in Seq(PartType) /\ gclient.rows \in {"none", "affected"}
    BY DEF ClientType
  <1>5. gclient.chunks \o <<>> = gclient.chunks /\ gclient.chunks \o x.result.chunks \in Seq(PartType)
    BY <1>1, <1>4, ConcatEmptySeq, ConcatProperties
  <1>6. CASE x.state = "Finished" /\ x.result.chunks = <<>>
    BY <1>3, <1>4, <1>5, <1>6 DEF Yield, ClientType
  <1>7. CASE ~(x.state = "Finished" /\ x.result.chunks = <<>>)
    <2> DEFINE c == gclient.chunks \o x.result.chunks
               r == IF x.result.chunks # <<>> /\ x.result.rows # "none" THEN x.result.rows ELSE gclient.rows
    <2>1. c \in Seq(PartType) /\ r \in {"none", "affected"}
      BY <1>1, <1>4, <1>5
    <2>2. gclient' = [gclient EXCEPT !.chunks = c, !.rows = r]
      BY <1>7 DEF Yield, ClientType
    <2>3. UNCHANGED gprovider BY DEF Yield
    <2> HIDE DEF c, r
    <2>4. /\ gclient' \in ClientType /\ gclient'.chunks = c /\ gclient'.phase = gclient.phase
          /\ gclient'.attempt = gclient.attempt /\ gclient'.token = gclient.token
          /\ gclient'.channel = gclient.channel /\ gclient'.rejected = gclient.rejected
      BY <2>1, <2>2 DEF ClientType
    <2> QED BY <1>3, <1>7, <2>3, <2>4 DEF c
  <1> QED BY <1>6, <1>7

\* A call of next_result in which the tokens stay as they are.
LEMMA TokensStay ==
  ASSUME GrpcTypes, TokensInOrder, UNCHANGED gprovider, gserver'.executions = gserver.executions,
         gclient'.attempt = gclient.attempt, gclient'.token = gclient.token,
         gclient'.channel = gclient.channel, gclient'.rejected = gclient.rejected,
         gclient'.phase # "idle" \/ gclient'.phase = gclient.phase
  PROVE  TokensInOrder'
  BY DEF TokensInOrder

\* What a call leaves behind is an invariant when the executor is where it says.
LEMMA CallKeeps ==
  ASSUME GrpcInv, Running, NEW x \in ExecType, Yield(x),
         gserver' \in ServerType, gserver'.executions = gserver.executions,
         gserver'.command = gserver.command, gserver'.count = gserver.count,
         ChunkAsked(x, gserver'.stream),
         ~gserver.command => Progress(x, gclient.chunks \o x.result.chunks, gserver'.stream, gserver.count)
  PROVE  GrpcInv'
  <1> DEFINE c == gclient.chunks \o x.result.chunks
  <1>1. gclient \in ClientType /\ GrpcTypes /\ TokensInOrder BY DEF GrpcInv, GrpcTypes
  <1>2. /\ gexec' \in ExecType /\ gclient' \in ClientType
        /\ gexec'.state = x.state /\ gexec'.mode = x.mode /\ gexec'.next = x.next
        /\ gexec'.status = x.status /\ gexec'.result.chunks = <<>>
        /\ gclient'.chunks = c
        /\ gclient'.phase = IF x.state = "Finished" /\ x.result.chunks = <<>> THEN "done" ELSE gclient.phase
        /\ gclient'.attempt = gclient.attempt /\ gclient'.token = gclient.token
        /\ gclient'.channel = gclient.channel /\ gclient'.rejected = gclient.rejected
        /\ UNCHANGED gprovider
    BY <1>1, Yields
  <1>3. ~gserver.command => Progress(x, c, gserver'.stream, gserver.count)
    OBVIOUS
  <1> HIDE DEF c
  <1>4. GrpcTypes' BY <1>1, <1>2 DEF GrpcTypes
  <1>5. ~gserver.command => Progress(gexec', gclient'.chunks, gserver'.stream, gserver'.count)
    BY <1>2, <1>3 DEF Progress, Inline
  <1>6. Collecting'
    BY <1>2, <1>5 DEF Collecting, ChunkAsked, Running
  <1>7. GrpcResultIsWhole'
    <2>1. gclient'.phase = "done" => x.state = "Finished"
      BY <1>2 DEF Running
    <2> QED BY <1>2, <1>3, <2>1 DEF GrpcResultIsWhole, Progress
  <1>8. TokensInOrder'
    <2>1. gclient'.phase # "idle" BY <1>2 DEF Running
    <2> QED BY <1>1, <1>2, <2>1, TokensStay
  <1> QED BY <1>4, <1>6, <1>7, <1>8 DEF GrpcInv

-----------------------------------------------------------------------------
(* The ExecuteQuery stream                                                 *)

LEMMA MessageTags == StatusMsg.t = "status" /\ \A p : PartMsg(p).t = "part" /\ PartMsg(p).p = p
  BY DEF StatusMsg, PartMsg

LEMMA OneMore ==
  ASSUME NEW S, NEW a \in S, NEW b \in S, NEW c \in S
  PROVE  /\ <<>> \o <<a>> = <<a>>
         /\ <<a>> \o <<b>> = <<a, b>>
         /\ <<a, b>> \o <<c>> = <<a, b, c>>
         /\ \A d \in S : <<a, b, c>> \o <<d>> = <<a, b, c, d>>
  <1>1. <<a>> \o <<b>> = <<a, b>>
    <2>1. /\ <<a>> \o <<b>> \in Seq(S) /\ Len(<<a>> \o <<b>>) = 2
          /\ (<<a>> \o <<b>>)[1] = a /\ (<<a>> \o <<b>>)[2] = b
      OBVIOUS
    <2> QED BY <2>1, ShortSequences
  <1>2. <<a, b>> \o <<c>> = <<a, b, c>>
    <2>1. <<a, b>> \o <<c>> \in Seq(S) /\ Len(<<a, b>> \o <<c>>) = 3
      OBVIOUS
    <2>2. (<<a, b>> \o <<c>>)[1] = a /\ (<<a, b>> \o <<c>>)[2] = b /\ (<<a, b>> \o <<c>>)[3] = c
      OBVIOUS
    <2> QED BY <2>1, <2>2, ShortSequences
  <1>3. ASSUME NEW d \in S PROVE <<a, b, c>> \o <<d>> = <<a, b, c, d>>
    <2> DEFINE x == <<a, b, c>> \o <<d>>
    <2>1. x \in Seq(S) /\ Len(x) = 4
      OBVIOUS
    <2>2. x[1] = a /\ x[2] = b /\ x[3] = c /\ x[4] = d
      OBVIOUS
    <2> HIDE DEF x
    <2>3. x = <<a, b, c, d>>
      BY <2>1, <2>2, ShortSequences
    <2> QED BY <2>3 DEF x
  <1> QED BY <1>1, <1>2, <1>3

LEMMA AsyncStep ==
  ASSUME NEW c, NEW s, AsyncInline(c, s), s # <<>>
  PROVE  \/ Head(s) = StatusMsg /\ AsyncInline(c, Tail(s))
         \/ \E p \in PartType : Head(s) = PartMsg(p) /\ AsyncInline(c \o <<p>>, Tail(s))
  <1>1. SchemaPart \in PartType BY DEF SchemaPart, PartType
  <1>2. CASE c = <<>> /\ s = <<StatusMsg, PartMsg(SchemaPart)>>
    BY <1>2 DEF AsyncInline
  <1>3. CASE c = <<>> /\ s = <<PartMsg(SchemaPart)>>
    <2>1. Head(s) = PartMsg(SchemaPart) /\ Tail(s) = <<>>
      BY <1>3
    <2>2. c \o <<SchemaPart>> = <<SchemaPart>>
      BY <1>1, <1>3, OneMore
    <2> QED BY <1>1, <2>1, <2>2 DEF AsyncInline
  <1> QED BY <1>2, <1>3 DEF AsyncInline

LEMMA AdaptiveStep ==
  ASSUME NEW c, NEW s, AdaptiveInline(c, s), s # <<>>
  PROVE  \/ Head(s) = StatusMsg /\ AdaptiveInline(c, Tail(s))
         \/ \E p \in PartType : Head(s) = PartMsg(p) /\ AdaptiveInline(c \o <<p>>, Tail(s))
  <1> DEFINE m == PartMsg(SchemaPart)
             a == PartMsg(<<0, 1>>)
             b == PartMsg(<<0, 2>>)
  <1>1. SchemaPart \in PartType /\ <<0, 1>> \in PartType /\ <<0, 2>> \in PartType
    BY DEF SchemaPart, PartType
  <1>2. CASE c = <<>> /\ s \in {<<m, a, b, StatusMsg>>, <<m, a, StatusMsg, b>>}
    <2>1. Head(s) = m /\ Tail(s) \in {<<a, b, StatusMsg>>, <<a, StatusMsg, b>>}
      <3>1. CASE s = <<m, a, b, StatusMsg>>
        BY <3>1
      <3>2. CASE s = <<m, a, StatusMsg, b>>
        BY <3>2
      <3> QED BY <1>2, <3>1, <3>2
    <2>2. c \o <<SchemaPart>> = <<SchemaPart>>
      BY <1>1, <1>2, OneMore
    <2> QED BY <1>1, <2>1, <2>2 DEF AdaptiveInline
  <1>3. CASE c = <<SchemaPart>> /\ s \in {<<a, b, StatusMsg>>, <<a, StatusMsg, b>>}
    <2>1. Head(s) = a /\ Tail(s) \in {<<b, StatusMsg>>, <<StatusMsg, b>>}
      <3>1. CASE s = <<a, b, StatusMsg>>
        BY <3>1
      <3>2. CASE s = <<a, StatusMsg, b>>
        BY <3>2
      <3> QED BY <1>3, <3>1, <3>2
    <2>2. c \o <<<<0, 1>>>> = <<SchemaPart, <<0, 1>>>>
      BY <1>1, <1>3, OneMore
    <2> QED BY <1>1, <2>1, <2>2 DEF AdaptiveInline
  <1>4. CASE c = <<SchemaPart, <<0, 1>>>> /\ s \in {<<b, StatusMsg>>, <<b>>}
    <2>1. Head(s) = b /\ Tail(s) \in {<<StatusMsg>>, <<>>}
      <3>1. CASE s = <<b, StatusMsg>>
        BY <3>1
      <3>2. CASE s = <<b>>
        BY <3>2
      <3> QED BY <1>4, <3>1, <3>2
    <2>2. c \o <<<<0, 2>>>> = <<SchemaPart, <<0, 1>>, <<0, 2>>>>
      BY <1>1, <1>4, OneMore, ZenonT(30)
    <2> QED BY <1>1, <2>1, <2>2 DEF AdaptiveInline
  <1>5. CASE c = <<SchemaPart, <<0, 1>>>> /\ s = <<StatusMsg, b>>
    <2>1. Head(s) = StatusMsg /\ Tail(s) = <<b>>
      BY <1>5
    <2> QED BY <1>5, <2>1 DEF AdaptiveInline
  <1>6. CASE c = <<SchemaPart, <<0, 1>>, <<0, 2>>>> /\ s = <<StatusMsg>>
    <2>1. Head(s) = StatusMsg /\ Tail(s) = <<>>
      BY <1>6
    <2> QED BY <1>6, <2>1 DEF AdaptiveInline
  <1> QED BY <1>2, <1>3, <1>4, <1>5, <1>6 DEF AdaptiveInline

LEMMA SyncStep ==
  ASSUME NEW w \in Seq(PartType), NEW c \in Seq(PartType), NEW s \in Seq(Messages),
         SyncInline(c, s, w), s # <<>>
  PROVE  \E p \in PartType : Head(s) = PartMsg(p) /\ SyncInline(c \o <<p>>, Tail(s), w)
  <1> DEFINE p == w[Len(c) + 1]
             d == c \o <<p>>
             r == Tail(s)
  <1>1. /\ Len(s) \in Nat /\ Len(s) > 0 /\ Len(c) \in Nat /\ Len(c) + Len(s) = Len(w)
        /\ Head(s) = s[1] /\ r \in Seq(Messages) /\ Len(r) = Len(s) - 1
        /\ \A i \in 1 .. Len(r) : r[i] = s[i + 1]
    BY HeadTailProperties, EmptySeq DEF SyncInline
  <1>2. p \in PartType /\ Head(s) = PartMsg(p)
    BY <1>1, ElementOfSeq DEF SyncInline
  <1> HIDE DEF p
  <1>3. /\ Len(d) = Len(c) + 1
        /\ \A i \in 1 .. Len(c) : d[i] = c[i]
        /\ d[Len(c) + 1] = p
    BY <1>1, <1>2
  <1> HIDE DEF d, r
  <1>4. ASSUME NEW i \in 1 .. Len(d) PROVE d[i] = w[i]
    <2>1. CASE i \in 1 .. Len(c)
      BY <2>1, <1>3 DEF SyncInline
    <2>2. CASE i = Len(c) + 1
      BY <2>2, <1>3 DEF p
    <2> QED BY <2>1, <2>2, <1>1, <1>3
  <1>5. ASSUME NEW i \in 1 .. Len(r) PROVE r[i] = PartMsg(w[Len(d) + i])
    <2>1. r[i] = s[i + 1] /\ i + 1 \in 1 .. Len(s) /\ Len(d) + i = Len(c) + (i + 1)
      BY <1>1, <1>3
    <2> QED BY <2>1 DEF SyncInline
  <1>6. Len(d) + Len(r) = Len(w)
    <2>1. Len(c) \in Int /\ Len(s) \in Int /\ Len(d) = Len(c) + 1 /\ Len(r) = Len(s) - 1
      BY <1>1, <1>3
    <2>2. Len(c) + Len(s) = Len(w)
      BY <1>1
    <2> QED BY <2>1, <2>2
  <1>7. SyncInline(d, r, w)
    BY <1>4, <1>5, <1>6 DEF SyncInline
  <1> QED BY <1>2, <1>7 DEF d, r

\* A message is taken from the stream and its part, if it is one, is collected.
LEMMA InlineStep ==
  ASSUME NEW x \in ExecType, NEW n \in Nat, NEW c \in Seq(PartType), NEW s \in Seq(Messages),
         Inline(x, c, s, n), s # <<>>
  PROVE  \/ Head(s) = StatusMsg /\ Inline(x, c, Tail(s), n)
         \/ \E p \in PartType : Head(s) = PartMsg(p) /\ Inline(x, c \o <<p>>, Tail(s), n)
  <1>1. WholeResult(n) \in Seq(PartType)
    BY FetchedParts DEF Fetched, WholeResult
  <1>2. CASE x.mode = "SYNC"
    <2>1. PICK p \in PartType : Head(s) = PartMsg(p) /\ SyncInline(c \o <<p>>, Tail(s), WholeResult(n))
      BY <1>1, <1>2, SyncStep DEF Inline
    <2> QED BY <1>2, <2>1 DEF Inline
  <1>3. CASE x.mode = "ASYNC"
    <2>1. \/ Head(s) = StatusMsg /\ AsyncInline(c, Tail(s))
          \/ \E p \in PartType : Head(s) = PartMsg(p) /\ AsyncInline(c \o <<p>>, Tail(s))
      BY <1>3, AsyncStep DEF Inline
    <2> QED BY <1>3, <2>1 DEF Inline
  <1>4. CASE x.mode = "ADAPTIVE"
    <2>1. \/ Head(s) = StatusMsg /\ AdaptiveInline(c, Tail(s))
          \/ \E p \in PartType : Head(s) = PartMsg(p) /\ AdaptiveInline(c \o <<p>>, Tail(s))
      BY <1>4, AdaptiveStep DEF Inline
    <2> QED BY <1>4, <2>1 DEF Inline
  <1> QED BY <1>2, <1>3, <1>4 DEF ExecType, Modes

\* The stream is empty: what came with it is all of its parts.
LEMMA InlineEnds ==
  ASSUME NEW x \in ExecType, NEW n \in Nat, NEW c \in Seq(PartType), Inline(x, c, <<>>, n)
  PROVE  /\ x.mode = "SYNC" => c = WholeResult(n)
         /\ x.mode # "SYNC" => c = Fetched(x.next) /\ x.next <= 1
  <1>1. WholeResult(n) \in Seq(PartType)
    BY FetchedParts DEF Fetched, WholeResult
  <1>2. CASE x.mode = "SYNC"
    <2>1. SyncInline(c, <<>>, WholeResult(n)) BY <1>2 DEF Inline
    <2>2. Len(c) = Len(WholeResult(n)) /\ \A i \in 1 .. Len(c) : c[i] = WholeResult(n)[i]
      BY <2>1, <1>1 DEF SyncInline
    <2> QED BY <1>1, <1>2, <2>2, SeqEqual
  <1>3. CASE x.mode = "ASYNC"
    BY <1>3, FirstParts DEF Inline, AsyncInline, FirstChunk
  <1>4. CASE x.mode = "ADAPTIVE"
    BY <1>4, FirstParts DEF Inline, AdaptiveInline, FirstChunk
  <1> QED BY <1>2, <1>3, <1>4 DEF ExecType, Modes

-----------------------------------------------------------------------------
(* The states of the executor                                              *)

LEMMA ReadInitialKeeps ==
  ASSUME GrpcInv, ReadInitialResults
  PROVE  GrpcInv'
  <1> DEFINE s == gserver.stream
             c == gclient.chunks
             n == gserver.count
  <1>1. /\ Running /\ gexec.state = "ReadInitialResults"
        /\ gexec \in ExecType /\ gserver \in ServerType /\ gclient \in ClientType
        /\ gexec.result.chunks = <<>>
        /\ s \in Seq(Messages) /\ c \in Seq(PartType) /\ n \in Nat
        /\ ~gserver.command => Inline(gexec, c, s, n)
    BY GrpcBoundsAssumption
    DEF ReadInitialResults, In, GrpcInv, GrpcTypes, Collecting, Progress, ServerType, ClientType
  <1>2. CASE s # <<>>
    <2> DEFINE m == Head(s)
               x == ProcessExecuteResponse(gexec, m)
    <2>1. Yield(x) /\ gserver' = [gserver EXCEPT !.stream = Tail(s)]
      BY <1>2 DEF ReadInitialResults
    <2>2. m \in Messages /\ Tail(s) \in Seq(Messages)
      BY <1>1, <1>2, HeadTailProperties
    <2>3. /\ gserver' \in ServerType /\ gserver'.executions = gserver.executions
          /\ gserver'.command = gserver.command /\ gserver'.count = n /\ gserver'.stream = Tail(s)
      <3> HIDE DEF s
      <3> QED BY <1>1, <2>1, <2>2 DEF ServerType
    <2>4. CASE m.t = "command"
      <3>1. x = [gexec EXCEPT !.result.rows = "affected", !.state = "Finished"]
        BY <2>4 DEF ProcessExecuteResponse
      <3>2. x \in ExecType /\ x.state = "Finished"
        BY <1>1, <3>1, ZenonT(30) DEF ExecType, ResultType, ExecStates
      <3>3. gserver.command
        <4>1. SUFFICES ASSUME ~gserver.command PROVE FALSE OBVIOUS
        <4>2. m = StatusMsg \/ \E p \in PartType : m = PartMsg(p)
          <5> HIDE DEF s, c, n
          <5> QED BY <1>1, <1>2, <4>1, InlineStep
        <4> QED BY <2>4, <4>2, MessageTags
      <3> HIDE DEF x
      <3> QED BY <1>1, <2>1, <2>3, <3>2, <3>3, CallKeeps DEF ChunkAsked
    <2>5. CASE m.t = "status"
      <3>1. x = [gexec EXCEPT !.status = ServerStatus]
        BY <2>5 DEF ProcessExecuteResponse
      <3>2. ServerStatus \in StatusType
        BY <1>1 DEF ServerStatus, StatusType, ServerType
      <3>3. /\ x \in ExecType /\ x.state = "ReadInitialResults" /\ x.result.chunks = <<>>
            /\ x.mode = gexec.mode /\ x.next = gexec.next
        BY <1>1, <3>1, <3>2 DEF ExecType
      <3>4. ~gserver.command => Inline(gexec, c, Tail(s), n)
        <4>1. SUFFICES ASSUME ~gserver.command PROVE Inline(gexec, c, Tail(s), n)
          OBVIOUS
        <4>2. \/ m = StatusMsg /\ Inline(gexec, c, Tail(s), n)
              \/ \E p \in PartType : m = PartMsg(p) /\ Inline(gexec, c \o <<p>>, Tail(s), n)
          <5> HIDE DEF s, c, n
          <5> QED BY <1>1, <1>2, <4>1, InlineStep
        <4> HIDE DEF m, s, c, n
        <4> QED BY <2>5, <4>2, MessageTags
      <3>5. c \o x.result.chunks = c
        BY <1>1, <3>3, ConcatEmptySeq
      <3>6. ~gserver.command => Progress(x, c \o x.result.chunks, gserver'.stream, n)
        <4> HIDE DEF x, s, c, n
        <4> QED BY <2>3, <3>3, <3>4, <3>5 DEF Progress, Inline
      <3> HIDE DEF x
      <3> QED BY <1>1, <2>1, <2>3, <3>3, <3>6, CallKeeps DEF ChunkAsked
    <2>6. CASE m.t = "part"
      <3>1. x = [gexec EXCEPT !.result.chunks = Append(gexec.result.chunks, m.p)]
        BY <2>6 DEF ProcessExecuteResponse, AddChunk
      <3>2. m.p \in PartType
        BY <2>2, <2>6 DEF Messages
      <3>3. Append(gexec.result.chunks, m.p) = <<m.p>> /\ <<m.p>> \in Seq(PartType)
        BY <1>1, <3>2
      <3>4. /\ x \in ExecType /\ x.state = "ReadInitialResults" /\ x.result.chunks = <<m.p>>
            /\ x.mode = gexec.mode /\ x.next = gexec.next
        <4> HIDE DEF m
        <4> QED BY <1>1, <3>1, <3>3, ZenonT(30) DEF ExecType, ResultType
      <3>5. ~gserver.command => Inline(gexec, c \o <<m.p>>, Tail(s), n)
        <4>1. SUFFICES ASSUME ~gserver.command PROVE Inline(gexec, c \o <<m.p>>, Tail(s), n)
          OBVIOUS
        <4>2. \/ m = StatusMsg /\ Inline(gexec, c, Tail(s), n)
              \/ \E p \in PartType : m = PartMsg(p) /\ Inline(gexec, c \o <<p>>, Tail(s), n)
          <5> HIDE DEF s, c, n
          <5> QED BY <1>1, <1>2, <4>1, InlineStep
        <4> HIDE DEF m, s, c, n
        <4>3. m # StatusMsg BY <2>6 DEF StatusMsg
        <4>4. PICK p \in PartType : m = PartMsg(p) /\ Inline(gexec, c \o <<p>>, Tail(s), n)
          BY <4>2, <4>3
        <4>5. m.p = p BY <4>4 DEF PartMsg
        <4> QED BY <4>4, <4>5
      <3>6. ~gserver.command => Progress(x, c \o x.result.chunks, gserver'.stream, n)
        <4> HIDE DEF x, s, c, n, m
        <4> QED BY <2>3, <3>4, <3>5 DEF Progress, Inline
      <3> HIDE DEF x
      <3> QED BY <1>1, <2>1, <2>3, <3>4, <3>6, CallKeeps DEF ChunkAsked
    <2>7. m.t \in {"command", "status", "part"}
      <3> HIDE DEF m
      <3> QED BY <2>2 DEF Messages
    <2> QED BY <2>4, <2>5, <2>6, <2>7
  <1>3. CASE s = <<>>
    <2> DEFINE x == [gexec EXCEPT !.state = IF gexec.mode = "SYNC" THEN "Finished" ELSE "RequestStatus"]
    <2>1. Yield(x) /\ UNCHANGED gserver
      BY <1>3 DEF ReadInitialResults
    <2>2. /\ x \in ExecType /\ x.result.chunks = <<>> /\ x.mode = gexec.mode /\ x.next = gexec.next
          /\ x.state = IF gexec.mode = "SYNC" THEN "Finished" ELSE "RequestStatus"
      BY <1>1 DEF ExecType, ExecStates
    <2>3. c \o x.result.chunks = c
      BY <1>1, <2>2, ConcatEmptySeq
    <2>4. ~gserver.command => Progress(x, c \o x.result.chunks, gserver'.stream, n)
      <3>1. SUFFICES ASSUME ~gserver.command PROVE Progress(x, c, gserver'.stream, n)
        BY <2>3
      <3>2. Inline(gexec, c, <<>>, n)
        <4> HIDE DEF s, c, n
        <4> QED BY <1>1, <1>3, <3>1
      <3> HIDE DEF x, s, c, n
      <3>3. /\ gexec.mode = "SYNC" => c = WholeResult(n)
            /\ gexec.mode # "SYNC" => c = Fetched(gexec.next) /\ gexec.next <= 1
        BY <1>1, <3>2, InlineEnds
      <3> QED BY <2>2, <3>3 DEF Progress
    <2> HIDE DEF x
    <2> QED BY <1>1, <2>1, <2>2, <2>4, CallKeeps DEF ChunkAsked
  <1> QED BY <1>2, <1>3

LEMMA StatusKeeps ==
  ASSUME GrpcInv, RequestStatus \/ ReadStatus
  PROVE  GrpcInv'
  <1> DEFINE c == gclient.chunks
             n == gserver.count
  <1>1. /\ Running /\ gexec.state \in {"RequestStatus", "ReadStatus"}
        /\ gexec \in ExecType /\ gserver \in ServerType /\ gclient \in ClientType
        /\ gexec.result.chunks = <<>>
        /\ c \in Seq(PartType) /\ n \in Nat /\ n >= 1 /\ gexec.next \in Nat
        /\ ~gserver.command => c = Fetched(gexec.next) /\ gexec.next <= 1
    BY GrpcBoundsAssumption
    DEF RequestStatus, ReadStatus, In, GrpcInv, GrpcTypes, Collecting, Progress, ServerType, ClientType, ExecType
  <1>2. c \o <<>> = c
    BY <1>1, ConcatEmptySeq
  <1>3. ServerStatus \in StatusType /\ (~gserver.running => ServerStatus.count = n)
    BY <1>1 DEF ServerStatus, StatusType, ServerType
  <1>4. /\ gserver' \in ServerType /\ gserver'.executions = gserver.executions
        /\ gserver'.command = gserver.command /\ gserver'.count = n
    BY <1>1 DEF RequestStatus, ReadStatus, ServerType
  <1>5. PICK x \in ExecType :
          /\ Yield(x) /\ x.result.chunks = <<>> /\ x.next = gexec.next
          /\ \/ x.state \in {"RequestStatus", "ReadStatus"}
             \/ x.state = "RequestResults" /\ x.status.count = n
    <2>1. CASE RequestStatus
      <3> DEFINE x == [gexec EXCEPT !.state = "ReadStatus"]
      <3>1. Yield(x) BY <2>1 DEF RequestStatus
      <3>2. x \in ExecType /\ x.result.chunks = <<>> /\ x.next = gexec.next /\ x.state = "ReadStatus"
        BY <1>1 DEF ExecType, ExecStates
      <3> HIDE DEF x
      <3> QED BY <3>1, <3>2
    <2>2. CASE ReadStatus /\ gserver.open = "info"
      <3> DEFINE k == IF gserver.running /\ gexec.polls < MaxPolls THEN gexec.polls + 1 ELSE gexec.polls
                 q == IF gserver.running THEN AfterRunning ELSE "RequestResults"
                 x == [gexec EXCEPT !.status = ServerStatus, !.polls = k, !.state = q]
      <3>1. Yield(x) BY <2>2 DEF ReadStatus
      <3>2. k \in Nat BY <1>1, GrpcBoundsAssumption DEF ExecType
      <3>3. q \in {"RequestStatus", "RequestResults"} /\ (q = "RequestResults" => ~gserver.running)
        BY DEF AfterRunning
      <3> HIDE DEF k, q
      <3>4. /\ x \in ExecType /\ x.result.chunks = <<>> /\ x.next = gexec.next
            /\ x.state = q /\ x.status = ServerStatus
        BY <1>1, <1>3, <3>2, <3>3 DEF ExecType, ExecStates
      <3> HIDE DEF x
      <3> QED BY <1>3, <3>1, <3>3, <3>4
    <2>3. CASE ReadStatus /\ gserver.open # "info"
      BY <1>1, <2>3 DEF ReadStatus
    <2> QED BY <2>1, <2>2, <2>3
  <1>6. ~gserver.command => Progress(x, c \o x.result.chunks, gserver'.stream, n)
    <2> HIDE DEF c, n
    <2> QED BY <1>1, <1>2, <1>5 DEF Progress
  <1> QED BY <1>1, <1>4, <1>5, <1>6, CallKeeps DEF ChunkAsked

LEMMA RequestResultsKeeps ==
  ASSUME GrpcInv, RequestResults
  PROVE  GrpcInv'
  <1> DEFINE c == gclient.chunks
             n == gserver.count
             k == gexec.next
             done == AllFetched(gexec)
             x == [gexec EXCEPT !.state = IF done THEN "Finished" ELSE "ReadResults"]
             s == IF done THEN <<>> ELSE [i \in 1..2 |-> [t |-> "part", p |-> Parts(k)[i]]]
  <1>1. /\ Running /\ gexec.state = "RequestResults"
        /\ gexec \in ExecType /\ gserver \in ServerType /\ gclient \in ClientType
        /\ gexec.result.chunks = <<>>
        /\ c \in Seq(PartType) /\ n \in Nat /\ n >= 1 /\ k \in Nat
        /\ ~gserver.command => c = Fetched(k) /\ k <= n /\ gexec.status.count = n
    BY GrpcBoundsAssumption
    DEF RequestResults, In, GrpcInv, GrpcTypes, Collecting, Progress, ServerType, ClientType, ExecType
  <1>2. c \o <<>> = c
    BY <1>1, ConcatEmptySeq
  <1>3. Yield(x) /\ gserver' = [gserver EXCEPT !.stream = s]
    BY DEF RequestResults
  <1>4. /\ x \in ExecType /\ x.result.chunks = <<>> /\ x.next = k /\ x.status = gexec.status
        /\ x.state = IF done THEN "Finished" ELSE "ReadResults"
    BY <1>1 DEF ExecType, ExecStates
  <1>5. ~done => s = <<PartMsg(<<k, 1>>), PartMsg(<<k, 2>>)>>
    BY DEF Parts, PartMsg
  <1>6. s \in Seq(Messages)
    <2>1. PartMsg(<<k, 1>>) \in Messages /\ PartMsg(<<k, 2>>) \in Messages
      BY <1>1 DEF PartMsg, Messages, PartType
    <2> HIDE DEF done
    <2>2. CASE done BY <2>2
    <2>3. CASE ~done
      BY <1>5, <2>1, <2>3
    <2> QED BY <2>2, <2>3
  <1>7. /\ gserver' \in ServerType /\ gserver'.executions = gserver.executions /\ gserver'.stream = s
        /\ gserver'.command = gserver.command /\ gserver'.count = n
    <2> HIDE DEF s
    <2> QED BY <1>1, <1>3, <1>6 DEF ServerType
  <1>8. ~gserver.command => (done <=> k >= n)
    BY <1>1 DEF AllFetched
  <1> HIDE DEF x, s, done
  <1>9. ~gserver.command => Progress(x, c \o x.result.chunks, gserver'.stream, n)
    <2>1. ~gserver.command => (done => c = WholeResult(n))
      BY <1>1, <1>8 DEF Fetched, WholeResult
    <2> HIDE DEF c, n, k
    <2> QED BY <1>1, <1>2, <1>4, <1>8, <2>1 DEF Progress
  <1> QED BY <1>1, <1>3, <1>4, <1>5, <1>7, <1>9, CallKeeps DEF ChunkAsked

LEMMA ReadResultsKeeps ==
  ASSUME GrpcInv, ReadResults
  PROVE  GrpcInv'
  <1> DEFINE c == gclient.chunks
             n == gserver.count
             k == gexec.next
             r == [i \in DOMAIN gserver.stream |-> gserver.stream[i].p]
             q == IF k + 1 >= gexec.status.count THEN "Finished" ELSE "RequestResults"
             x == [gexec EXCEPT !.result.chunks = r, !.next = k + 1, !.state = q]
  <1>1. /\ Running /\ gexec.state = "ReadResults"
        /\ gexec \in ExecType /\ gserver \in ServerType /\ gclient \in ClientType
        /\ c \in Seq(PartType) /\ n \in Nat /\ k \in Nat
        /\ gserver.stream = <<PartMsg(<<k, 1>>), PartMsg(<<k, 2>>)>>
        /\ ~gserver.command => c = Fetched(k) /\ k < n /\ gexec.status.count = n
    BY GrpcBoundsAssumption
    DEF ReadResults, In, GrpcInv, GrpcTypes, Collecting, ChunkAsked, Progress, ServerType, ClientType, ExecType
  <1>2. Yield(x) /\ gserver' = [gserver EXCEPT !.stream = <<>>]
    BY DEF ReadResults
  <1>3. /\ gserver' \in ServerType /\ gserver'.executions = gserver.executions
        /\ gserver'.command = gserver.command /\ gserver'.count = n
    <2>1. <<>> \in Seq(Messages) OBVIOUS
    <2> QED BY <1>1, <1>2, <2>1 DEF ServerType
  <1>4. r = Parts(k)
    BY <1>1, MessageTags DEF Parts
  <1>5. r \in Seq(PartType) /\ r # <<>>
    BY <1>1, <1>4 DEF Parts, PartType
  <1>6. q \in {"Finished", "RequestResults"} /\ k + 1 \in Nat
    BY <1>1
  <1>7. /\ x \in ExecType /\ x.result.chunks = r /\ x.next = k + 1 /\ x.state = q
        /\ x.status = gexec.status
    <2> HIDE DEF r, q, k
    <2> QED BY <1>1, <1>5, <1>6 DEF ExecType, ResultType, ExecStates
  <1>8. ~gserver.command => Progress(x, c \o x.result.chunks, gserver'.stream, n)
    <2>1. SUFFICES ASSUME ~gserver.command
                   PROVE  Progress(x, c \o x.result.chunks, gserver'.stream, n)
      OBVIOUS
    <2>2. c \o x.result.chunks = Fetched(k + 1)
      BY <1>1, <1>4, <1>7, <2>1, NextParts
    <2>3. (q = "Finished" => k + 1 = n) /\ k + 1 <= n
      BY <1>1, <2>1
    <2>4. Fetched(n) = WholeResult(n)
      BY DEF Fetched, WholeResult
    <2> HIDE DEF x, r, q, c, n, k
    <2> QED BY <1>1, <1>6, <1>7, <2>1, <2>2, <2>3, <2>4 DEF Progress
  <1>9. ChunkAsked(x, gserver'.stream)
    <2> HIDE DEF x, q
    <2> QED BY <1>6, <1>7 DEF ChunkAsked
  <1> HIDE DEF x
  <1> QED BY <1>1, <1>2, <1>3, <1>7, <1>8, <1>9, CallKeeps

LEMMA FinishKeeps ==
  ASSUME GrpcInv, NextResultFinished
  PROVE  GrpcInv'
  <1>1. /\ Running /\ gexec.state = "Finished" /\ UNCHANGED <<gserver, gprovider>>
        /\ gexec \in ExecType /\ gserver \in ServerType /\ gclient \in ClientType /\ gprovider \in ProviderType
        /\ TokensInOrder
        /\ ~gserver.command => gclient.chunks = WholeResult(gserver.count)
    BY DEF NextResultFinished, In, GrpcInv, GrpcTypes, Collecting, Progress
  <1>2. NoResult \in ResultType /\ NoResult.chunks = <<>>
    BY DEF NoResult, ResultType
  <1>3. gexec' \in ExecType /\ gexec'.result.chunks = <<>>
    BY <1>1, <1>2 DEF NextResultFinished, ExecType
  <1>4. gexec.result.rows \in {"none", "affected"} /\ gclient.rows \in {"none", "affected"}
    BY <1>1 DEF ExecType, ResultType, ClientType
  <1>5. /\ gclient' \in ClientType /\ gclient'.phase = "done" /\ gclient'.chunks = gclient.chunks
        /\ gclient'.attempt = gclient.attempt /\ gclient'.token = gclient.token
        /\ gclient'.channel = gclient.channel /\ gclient'.rejected = gclient.rejected
    BY <1>1, <1>4 DEF NextResultFinished, ClientType
  <1>6. GrpcTypes' BY <1>1, <1>3, <1>5 DEF GrpcTypes
  <1>7. Collecting' BY <1>3, <1>5 DEF Collecting, Running
  <1>8. GrpcResultIsWhole' BY <1>1, <1>5 DEF GrpcResultIsWhole
  <1>9. TokensInOrder' BY <1>1, <1>5, TokensStay DEF GrpcTypes
  <1> QED BY <1>6, <1>7, <1>8, <1>9 DEF GrpcInv

-----------------------------------------------------------------------------
(* Attempts and tokens                                                     *)

LEMMA InitialStream ==
  ASSUME NEW mode \in Modes, gserver \in ServerType, NEW s \in Initial(mode, gserver)
  PROVE  /\ s \in Seq(Messages)
         /\ ~gserver.command => Inline(NewExecutor(mode), <<>>, s, gserver.count)
  <1> DEFINE x == NewExecutor(mode)
             n == gserver.count
             data(u) == [i \in DOMAIN u |-> [t |-> "part", p |-> u[i]]]
  <1>1. n \in Nat /\ x.mode = mode /\ x.next = FirstChunk(mode)
    BY GrpcBoundsAssumption DEF ServerType, NewExecutor
  <1>2. CASE gserver.command
    <2>1. [t |-> "command"] \in Messages /\ s = <<[t |-> "command"]>>
      BY <1>2 DEF Initial, Messages
    <2> QED BY <1>2, <2>1
  <1>3. CASE ~gserver.command /\ mode = "SYNC"
    <2> DEFINE w == WholeResult(n)
    <2>1. w \in Seq(PartType) BY <1>1, FetchedParts DEF Fetched, WholeResult
    <2>2. s = data(w) BY <1>3 DEF Initial
    <2> HIDE DEF w
    <2>3. Len(w) \in Nat /\ DOMAIN w = 1 .. Len(w) /\ \A i \in 1 .. Len(w) : w[i] \in PartType
      BY <2>1
    <2>4. \A i \in 1 .. Len(w) : s[i] = PartMsg(w[i]) /\ s[i] \in Messages
      BY <2>2, <2>3 DEF PartMsg, Messages
    <2>5. s \in [1 .. Len(w) -> Messages]
      BY <2>2, <2>3, <2>4
    <2>6. s \in Seq(Messages) /\ Len(s) = Len(w)
      BY <2>3, <2>5
    <2>7. SyncInline(<<>>, s, w)
      BY <2>3, <2>4, <2>6 DEF SyncInline
    <2> QED BY <1>1, <1>3, <2>6, <2>7 DEF Inline, w
  <1>4. CASE ~gserver.command /\ mode = "ASYNC"
    <2>1. s = <<StatusMsg>> \o data(<<SchemaPart>>) BY <1>4 DEF Initial, StatusMsg
    <2>2. data(<<SchemaPart>>) = <<PartMsg(SchemaPart)>>
      BY DEF PartMsg
    <2>3. StatusMsg \in Messages /\ PartMsg(SchemaPart) \in Messages
      BY DEF StatusMsg, PartMsg, Messages, SchemaPart, PartType
    <2> HIDE DEF data
    <2>4. s = <<StatusMsg, PartMsg(SchemaPart)>>
      BY <2>1, <2>2, <2>3, OneMore
    <2>5. s \in Seq(Messages) BY <2>3, <2>4
    <2> QED BY <1>1, <1>4, <2>4, <2>5 DEF Inline, AsyncInline
  <1>5. CASE ~gserver.command /\ mode = "ADAPTIVE"
    <2> DEFINE m == PartMsg(SchemaPart)
               a == PartMsg(<<0, 1>>)
               b == PartMsg(<<0, 2>>)
    <2>1. s \in {data(<<SchemaPart>> \o Parts(0)) \o <<StatusMsg>>,
                 data(<<SchemaPart, <<0, 1>>>>) \o <<StatusMsg>> \o data(<<<<0, 2>>>>)}
      BY <1>5 DEF Initial, StatusMsg
    <2>2. StatusMsg \in Messages /\ m \in Messages /\ a \in Messages /\ b \in Messages
      BY DEF StatusMsg, PartMsg, Messages, SchemaPart, PartType
    <2>3. <<SchemaPart>> \o Parts(0) = <<SchemaPart, <<0, 1>>, <<0, 2>>>>
      BY FirstParts
    <2>4. /\ data(<<SchemaPart, <<0, 1>>, <<0, 2>>>>) = <<m, a, b>>
          /\ data(<<SchemaPart, <<0, 1>>>>) = <<m, a>>
          /\ data(<<<<0, 2>>>>) = <<b>>
      BY DEF PartMsg
    <2> HIDE DEF data, m, a, b
    <2>5. s \in {<<m, a, b>> \o <<StatusMsg>>, (<<m, a>> \o <<StatusMsg>>) \o <<b>>}
      BY <2>1, <2>3, <2>4
    <2>6. s \in {<<m, a, b, StatusMsg>>, <<m, a, StatusMsg, b>>}
      BY <2>2, <2>5, OneMore
    <2>7. s \in Seq(Messages)
      <3>1. CASE s = <<m, a, b, StatusMsg>> BY <2>2, <3>1
      <3>2. CASE s = <<m, a, StatusMsg, b>> BY <2>2, <3>2
      <3> QED BY <2>6, <3>1, <3>2
    <2>8. AdaptiveInline(<<>>, s)
      BY <2>6 DEF AdaptiveInline, m, a, b
    <2> QED BY <1>1, <1>5, <2>7, <2>8 DEF Inline
  <1> QED BY <1>2, <1>3, <1>4, <1>5 DEF Modes

LEMMA NewExecutorTypes ==
  ASSUME NEW mode \in Modes
  PROVE  /\ NewExecutor(mode) \in ExecType /\ NewExecutor(mode).state = "ReadInitialResults"
         /\ NewExecutor(mode).result.chunks = <<>>
  <1>1. NoStatus \in StatusType /\ NoResult \in ResultType /\ NoResult.chunks = <<>>
    BY DEF NoStatus, NoResult, StatusType, ResultType
  <1>2. FirstChunk(mode) \in Nat
    BY DEF FirstChunk
  <1> QED BY <1>1, <1>2 DEF NewExecutor, ExecType, ExecStates

\* An attempt begins: client d holds a token that was issued.
LEMMA BeginKeeps ==
  ASSUME GrpcInv, NEW d \in ClientType, Begin(d), gprovider' \in ProviderType,
         gprovider'.jwt <= gprovider'.issued,
         d.token = d.channel, d.token <= gprovider'.issued, d.attempt \in {0, 1},
         d.attempt = 1 => d.token > d.rejected,
         gserver.executions <= d.attempt
  PROVE  GrpcInv'
  <1> DEFINE x == NewExecutor(gexec.mode)
  <1>1. gexec \in ExecType /\ gserver \in ServerType /\ gexec.mode \in Modes
    BY DEF GrpcInv, GrpcTypes, ExecType
  <1>2. gexec' = x /\ x \in ExecType /\ x.state = "ReadInitialResults" /\ x.result.chunks = <<>>
    BY <1>1, NewExecutorTypes DEF Begin
  <1>3. PICK s \in Initial(gexec.mode, gserver) :
          gserver' = [gserver EXCEPT !.stream = s, !.open = "execute", !.executions = @ + 1]
    BY DEF Begin
  <1>4. s \in Seq(Messages) /\ (~gserver.command => Inline(x, <<>>, s, gserver.count))
    BY <1>1, InitialStream
  <1>5. /\ gserver' \in ServerType /\ gserver'.command = gserver.command /\ gserver'.count = gserver.count
        /\ gserver'.stream = s /\ gserver'.executions = gserver.executions + 1
    <2> DEFINE e == gserver.executions + 1
    <2>1. e \in Nat BY <1>1 DEF ServerType
    <2>2. gserver' = [gserver EXCEPT !.stream = s, !.open = "execute", !.executions = e]
      BY <1>1, <1>3 DEF ServerType
    <2>3. gserver'.executions = e
      BY <1>1, <2>2 DEF ServerType
    <2> HIDE DEF e
    <2>4. /\ gserver' \in ServerType /\ gserver'.command = gserver.command
          /\ gserver'.count = gserver.count /\ gserver'.stream = s
      BY <1>1, <1>4, <2>1, <2>2 DEF ServerType
    <2> QED BY <2>3, <2>4 DEF e
  <1>6. /\ gclient' \in ClientType /\ gclient'.phase = "run" /\ gclient'.chunks = <<>>
        /\ gclient'.attempt = d.attempt /\ gclient'.token = d.token
        /\ gclient'.channel = d.channel /\ gclient'.rejected = d.rejected
    <2>1. <<>> \in Seq(PartType) OBVIOUS
    <2> QED BY <2>1 DEF Begin, ClientType
  <1> HIDE DEF x
  <1>7. GrpcTypes' BY <1>2, <1>5, <1>6 DEF GrpcTypes
  <1>8. Collecting'
    BY <1>2, <1>4, <1>5, <1>6 DEF Collecting, ChunkAsked, Running, Progress
  <1>9. GrpcResultIsWhole' BY <1>6 DEF GrpcResultIsWhole
  <1>10. TokensInOrder'
    <2>1. gserver.executions \in Nat /\ d.attempt \in Nat BY <1>1 DEF ServerType, ClientType
    <2> QED BY <1>5, <1>6, <2>1 DEF TokensInOrder
  <1> QED BY <1>7, <1>8, <1>9, <1>10 DEF GrpcInv

\* The query ends without an answer.
LEMMA FailKeeps ==
  ASSUME GrpcInv, Fail(gclient), gprovider' \in ProviderType, gprovider'.jwt <= gprovider'.issued,
         gprovider'.issued = gprovider.issued
  PROVE  GrpcInv'
  <1>1. /\ UNCHANGED <<gexec, gserver>>
        /\ gexec \in ExecType /\ gserver \in ServerType /\ gclient \in ClientType
        /\ TokensInOrder /\ gexec.result.chunks = <<>>
    BY DEF Fail, GrpcInv, GrpcTypes, Collecting
  <1>2. /\ gclient' \in ClientType /\ gclient'.phase = "failed"
        /\ gclient'.attempt = gclient.attempt /\ gclient'.token = gclient.token
        /\ gclient'.channel = gclient.channel /\ gclient'.rejected = gclient.rejected
    BY <1>1 DEF Fail, ClientType
  <1>3. GrpcTypes' BY <1>1, <1>2 DEF GrpcTypes
  <1>4. Collecting' BY <1>1, <1>2 DEF Collecting, Running
  <1>5. GrpcResultIsWhole' BY <1>2 DEF GrpcResultIsWhole
  <1>6. TokensInOrder' BY <1>1, <1>2 DEF TokensInOrder
  <1> QED BY <1>3, <1>4, <1>5, <1>6 DEF GrpcInv

\* A refresh hands out a token no one has had.
LEMMA RefreshIsNew ==
  ASSUME gprovider \in ProviderType
  PROVE  /\ RefreshToken \in ProviderType
         /\ RefreshToken.jwt = gprovider.issued + 1 /\ RefreshToken.issued = gprovider.issued + 1
         /\ \A o \in BOOLEAN : /\ TokenFetchFails(o) \in ProviderType /\ TokenFetchFails(o).jwt = 0
                               /\ TokenFetchFails(o).issued = gprovider.issued
  <1> DEFINE q == GetValidOauth(gprovider)
  <1>1. q \in ProviderType /\ q.issued = gprovider.issued
    BY DEF GetValidOauth, ProviderType
  <1>2. RefreshToken = Exchange(q)
    BY DEF RefreshToken, FetchDcJwt
  <1> HIDE DEF q
  <1>3. /\ Exchange(q) \in ProviderType
        /\ Exchange(q).jwt = q.issued + 1 /\ Exchange(q).issued = q.issued + 1
    <2> DEFINE v == q.issued + 1
    <2>1. v \in Nat BY <1>1 DEF ProviderType
    <2>2. Exchange(q) = [q EXCEPT !.jwt = v, !.issued = v, !.life = "fresh"]
      BY <1>1 DEF Exchange, ProviderType
    <2> HIDE DEF v
    <2>3. Exchange(q) \in ProviderType /\ Exchange(q).jwt = v /\ Exchange(q).issued = v
      BY <1>1, <2>1, <2>2 DEF ProviderType
    <2> QED BY <2>3 DEF v
  <1>4. \A o \in BOOLEAN : /\ TokenFetchFails(o) \in ProviderType /\ TokenFetchFails(o).jwt = 0
                           /\ TokenFetchFails(o).issued = gprovider.issued
    BY DEF TokenFetchFails, ProviderType
  <1> QED BY <1>1, <1>2, <1>3, <1>4

LEMMA ExecuteKeeps ==
  ASSUME GrpcInv, ExecuteQuery
  PROVE  GrpcInv'
  <1>1. gclient \in ClientType /\ Begin(gclient) /\ UNCHANGED gprovider
    BY DEF ExecuteQuery, GrpcInv, GrpcTypes
  <1>2. /\ gprovider \in ProviderType /\ gprovider.jwt <= gprovider.issued
        /\ gclient.token = gclient.channel /\ gclient.token <= gprovider.issued
        /\ gclient.attempt = 0 /\ gserver.executions = 0
    BY DEF ExecuteQuery, GrpcInv, GrpcTypes, TokensInOrder
  <1> QED BY <1>1, <1>2, BeginKeeps

LEMMA EnsureKeeps ==
  ASSUME GrpcInv, EnsureTokenValid
  PROVE  GrpcInv'
  <1> DEFINE fresh == gclient.token # 0 /\ ~NeedsRefresh(gprovider)
             p == IF gclient.token = 0 THEN GetToken ELSE IF fresh THEN gprovider ELSE RefreshToken
  <1>1. /\ gclient \in ClientType /\ gprovider \in ProviderType /\ gprovider.jwt <= gprovider.issued
        /\ gclient.phase = "idle" /\ gclient.attempt = 0 /\ gserver.executions = 0
        /\ gprovider.issued \in Nat
    BY DEF EnsureTokenValid, GrpcInv, GrpcTypes, TokensInOrder, ProviderType
  <1>2. p \in ProviderType /\ p.jwt <= p.issued
    BY <1>1, RefreshIsNew DEF GetToken, RefreshToken
  <1>3. \/ gprovider' = p /\ Begin(Reconnected(p))
        \/ \E oauth \in BOOLEAN : gprovider' = TokenFetchFails(oauth) /\ Fail(gclient)
    BY DEF EnsureTokenValid, Fail
  <1> HIDE DEF p
  <1>4. CASE gprovider' = p /\ Begin(Reconnected(p))
    <2> DEFINE d == Reconnected(p)
    <2>1. /\ d \in ClientType /\ d.token = p.jwt /\ d.channel = p.jwt /\ d.attempt = 0
      BY <1>1, <1>2 DEF Reconnected, ClientType, ProviderType
    <2>2. Begin(d) BY <1>4
    <2> HIDE DEF d
    <2> QED BY <1>1, <1>2, <1>4, <2>1, <2>2, BeginKeeps
  <1>5. CASE \E oauth \in BOOLEAN : gprovider' = TokenFetchFails(oauth) /\ Fail(gclient)
    BY <1>1, <1>5, RefreshIsNew, FailKeeps
  <1> QED BY <1>3, <1>4, <1>5

LEMMA QueryFailsKeeps ==
  ASSUME GrpcInv, QueryFails \/ CancelQuery
  PROVE  GrpcInv'
  <1> DEFINE p == RefreshToken
             d == [Reconnected(p) EXCEPT !.attempt = @ + 1, !.rejected = gclient.token]
  <1>1. /\ gclient \in ClientType /\ gprovider \in ProviderType /\ gprovider.jwt <= gprovider.issued
        /\ gclient.token <= gprovider.issued /\ gserver.executions <= gclient.attempt + 1
        /\ gprovider.issued \in Nat /\ gclient.token \in Nat /\ gclient.attempt \in Nat
    BY DEF GrpcInv, GrpcTypes, TokensInOrder, ProviderType, ClientType
  <1>2. \/ UNCHANGED gprovider /\ Fail(gclient)
        \/ gprovider' = TokenFetchFails(FALSE) /\ Fail(gclient)
        \/ gclient.attempt = 0 /\ gprovider' = p /\ Begin(d)
    BY DEF QueryFails, CancelQuery, Retry
  <1>3. CASE UNCHANGED gprovider /\ Fail(gclient)
    BY <1>1, <1>3, FailKeeps
  <1>4. CASE gprovider' = TokenFetchFails(FALSE) /\ Fail(gclient)
    <2> DEFINE f == TokenFetchFails(FALSE)
    <2>1. f \in ProviderType /\ f.jwt = 0 /\ f.issued = gprovider.issued
      BY <1>1, RefreshIsNew
    <2> HIDE DEF f
    <2>2. /\ gprovider' \in ProviderType /\ gprovider'.jwt <= gprovider'.issued
          /\ gprovider'.issued = gprovider.issued
      <3>1. gprovider' = f BY <1>4 DEF f
      <3> QED BY <1>1, <2>1, <3>1
    <2> QED BY <1>4, <2>2, FailKeeps
  <1>5. CASE gclient.attempt = 0 /\ gprovider' = p /\ Begin(d)
    <2>1. p \in ProviderType /\ p.jwt = gprovider.issued + 1 /\ p.issued = gprovider.issued + 1
      BY <1>1, RefreshIsNew
    <2> HIDE DEF p
    <2>2. /\ d \in ClientType /\ d.token = p.jwt /\ d.channel = p.jwt /\ d.attempt = 1
          /\ d.rejected = gclient.token
      <3> DEFINE e == Reconnected(p)
      <3>1. /\ e \in ClientType /\ e.token = p.jwt /\ e.channel = p.jwt /\ e.attempt = 0
        <4> DEFINE v == p.jwt
        <4>1. v \in Nat BY <1>1, <2>1
        <4>2. e = [gclient EXCEPT !.token = v, !.channel = v] BY DEF Reconnected
        <4> HIDE DEF v, e
        <4>3. e \in ClientType /\ e.token = v /\ e.channel = v /\ e.attempt = gclient.attempt
          BY <1>1, <4>1, <4>2 DEF ClientType
        <4> QED BY <1>5, <4>3 DEF v
      <3>2. d = [e EXCEPT !.attempt = @ + 1, !.rejected = gclient.token]
        OBVIOUS
      <3> HIDE DEF e, d
      <3>3. d = [e EXCEPT !.attempt = 1, !.rejected = gclient.token]
        BY <3>1, <3>2 DEF ClientType
      <3> QED BY <1>1, <3>1, <3>3 DEF ClientType
    <2>3. Begin(d) /\ gprovider' = p /\ gserver.executions <= 1 BY <1>1, <1>5
    <2> HIDE DEF d
    <2> QED BY <1>1, <2>1, <2>2, <2>3, BeginKeeps
  <1> QED BY <1>2, <1>3, <1>4, <1>5

LEMMA TokenAgesKeeps ==
  ASSUME GrpcInv, TokenAges
  PROVE  GrpcInv'
  <1>1. UNCHANGED <<gexec, gserver, gclient>> /\ gprovider \in ProviderType
    BY DEF TokenAges, GrpcInv, GrpcTypes
  <1>2. gprovider' \in ProviderType /\ gprovider'.jwt = gprovider.jwt /\ gprovider'.issued = gprovider.issued
    BY <1>1 DEF TokenAges, ProviderType
  <1>3. GrpcTypes' BY <1>1, <1>2 DEF GrpcInv, GrpcTypes
  <1>4. Collecting' BY <1>1 DEF GrpcInv, Collecting, Running
  <1>5. GrpcResultIsWhole' BY <1>1 DEF GrpcInv, GrpcResultIsWhole
  <1>6. TokensInOrder' BY <1>1, <1>2 DEF GrpcInv, TokensInOrder
  <1> QED BY <1>3, <1>4, <1>5, <1>6 DEF GrpcInv

LEMMA CompletesKeeps ==
  ASSUME GrpcInv, QueryCompletes
  PROVE  GrpcInv'
  <1>1. UNCHANGED <<gexec, gclient, gprovider>> /\ gserver \in ServerType
    BY DEF QueryCompletes, GrpcInv, GrpcTypes
  <1>2. /\ gserver' \in ServerType /\ gserver'.command = gserver.command /\ gserver'.count = gserver.count
        /\ gserver'.stream = gserver.stream /\ gserver'.executions = gserver.executions
    BY <1>1 DEF QueryCompletes, ServerType
  <1>3. GrpcTypes' BY <1>1, <1>2 DEF GrpcInv, GrpcTypes
  <1>4. Collecting' BY <1>1, <1>2 DEF GrpcInv, Collecting, Running
  <1>5. GrpcResultIsWhole' BY <1>1, <1>2 DEF GrpcInv, GrpcResultIsWhole
  <1>6. TokensInOrder' BY <1>1, <1>2 DEF GrpcInv, TokensInOrder
  <1> QED BY <1>3, <1>4, <1>5, <1>6 DEF GrpcInv

LEMMA GrpcStarts == GrpcInit => GrpcInv
  <1> SUFFICES ASSUME GrpcInit PROVE GrpcInv
    OBVIOUS
  <1>1. PICK mode \in Modes : gexec = NewExecutor(mode)
    BY DEF GrpcInit
  <1>2. PICK kind \in {"plain", "stream", "auth"} : gclient = NewClient(kind)
    BY DEF GrpcInit
  <1>3. gexec \in ExecType /\ gexec.result.chunks = <<>>
    BY <1>1, NewExecutorTypes
  <1>4. /\ gclient \in ClientType /\ gclient.phase = "idle" /\ gclient.attempt = 0
        /\ gclient.token = 0 /\ gclient.channel = 0
    BY <1>2 DEF NewClient, ClientType
  <1>5. gserver \in ServerType /\ gserver.executions = 0
    <2>1. <<>> \in Seq(Messages) /\ {<<>>} \subseteq Seq(Messages) OBVIOUS
    <2>2. gserver \in [command : BOOLEAN, count : 1..MaxChunks, running : BOOLEAN, stream : {<<>>},
                       open : {"none"}, executions : {0}]
      BY DEF GrpcInit
    <2>3. gserver.stream \in Seq(Messages) /\ gserver.executions = 0 /\ gserver.open = "none"
      BY <2>1, <2>2
    <2> QED BY <2>2, <2>3 DEF ServerType
  <1>6. gprovider \in ProviderType /\ gprovider.jwt = 0 /\ gprovider.issued = 0
    BY DEF GrpcInit, ProviderType
  <1>7. GrpcTypes BY <1>3, <1>4, <1>5, <1>6 DEF GrpcTypes
  <1>8. Collecting BY <1>3, <1>4 DEF Collecting, Running
  <1>9. GrpcResultIsWhole BY <1>4 DEF GrpcResultIsWhole
  <1>10. TokensInOrder BY <1>4, <1>5, <1>6 DEF TokensInOrder
  <1> QED BY <1>7, <1>8, <1>9, <1>10 DEF GrpcInv

LEMMA GrpcKeeps == GrpcInv /\ [GrpcNext]_grpcVars => GrpcInv'
  <1> SUFFICES ASSUME GrpcInv, [GrpcNext]_grpcVars PROVE GrpcInv'
    OBVIOUS
  <1>1. CASE ExecuteQuery BY <1>1, ExecuteKeeps
  <1>2. CASE EnsureTokenValid BY <1>2, EnsureKeeps
  <1>3. CASE TokenAges BY <1>3, TokenAgesKeeps
  <1>4. CASE QueryFails \/ CancelQuery BY <1>4, QueryFailsKeeps
  <1>5. CASE Executor
    BY <1>5, ReadInitialKeeps, StatusKeeps, RequestResultsKeeps, ReadResultsKeeps, FinishKeeps DEF Executor
  <1>6. CASE QueryCompletes BY <1>6, CompletesKeeps
  <1>7. CASE UNCHANGED grpcVars
    <2>1. UNCHANGED <<gexec, gserver, gclient, gprovider>> BY <1>7 DEF grpcVars
    <2> QED BY <2>1 DEF GrpcInv, GrpcTypes, Collecting, Running, GrpcResultIsWhole, TokensInOrder
  <1> QED BY <1>1, <1>2, <1>3, <1>4, <1>5, <1>6, <1>7 DEF GrpcNext

\* In every transfer mode, and for any number of chunks, polls and tokens, a gRPC
\* query that succeeds gives its caller the schema and every part of every chunk
\* once and in order, and a second attempt is made with a token issued after the
\* one that was rejected.
THEOREM GrpcAnswersAreWhole == GrpcSpec => []GrpcAnswerIsWhole
  <1>1. GrpcInv => GrpcAnswerIsWhole
    <2> SUFFICES ASSUME GrpcInv PROVE GrpcAnswerIsWhole
      OBVIOUS
    <2>1. gserver.executions \in Nat /\ gclient.attempt \in {0, 1} /\ gserver.executions <= gclient.attempt + 1
      BY DEF GrpcInv, GrpcTypes, ServerType, TokensInOrder
    <2>2. gserver.executions <= 2 BY <2>1
    <2> QED BY <2>2 DEF GrpcInv, TokensInOrder, GrpcAnswerIsWhole, RetryUsesNewToken
  <1> QED BY <1>1, GrpcStarts, GrpcKeeps, PTL DEF GrpcSpec

-----------------------------------------------------------------------------
(* Transactions on a connection                                            *)

Stages == {"none", "timeout", "create", "attach", "open", "closed"}
BeforeOpen == {"none", "timeout", "create", "attach"}
ApiTypes ==
    /\ api \in [kind : {"sync", "async"}, transport : {"tcp", "grpc"}, stage : Stages, mode : CreateModes,
                wantTimeout : BOOLEAN, guard : Nat, opened : Nat]
    /\ session \in [alive : BOOLEAN, tx : {"none", "open", "failed"}, work : {session.work},
                    attached : BOOLEAN, path : BOOLEAN, timeout : BOOLEAN]
    /\ disk \in [exists : BOOLEAN, gen : {"old", "new"}, rows : {disk.rows}]
    /\ story \in [written : {story.written}, commits : {story.commits}, left : {story.left}]

\* Until the connection is open nothing was written, and the settings asked for
\* are in place step by step; once it is closed the session is gone.
Building ==
    /\ api.stage \in BeforeOpen =>
          /\ api.guard = 0 /\ api.opened = 0
          /\ story.written = {} /\ story.commits = {} /\ story.left = {} /\ disk.rows = {}
          /\ session.tx = "none" /\ session.work = {}
    /\ api.stage \in {"create", "attach"} /\ session.alive => session.timeout = api.wantTimeout
    /\ api.stage = "attach" /\ api.mode \in {"Create", "CreateAndReplace"} => disk.gen = "new"
    /\ api.stage = "closed" => ~session.alive

\* Guards are numbered in the order they are opened, and so are their rows.
GuardsNumbered ==
    /\ api.guard <= api.opened
    /\ story.commits \subseteq 1 .. api.opened /\ story.left \subseteq 1 .. api.opened
    /\ api.guard \notin story.commits \cup story.left
    /\ disk.rows \subseteq story.written /\ session.work \subseteq story.written
    /\ \A w \in story.written : w.by \in 0 .. api.opened

\* The rows of a guard are in the session's transaction while the guard lives;
\* then all of them are durable or none, unless it left the transaction open.
RowsAreTogether ==
    /\ session.tx = "none" => session.work = {}
    /\ ~session.alive => session.tx = "none"
    /\ api.guard # 0 /\ session.alive => session.tx # "none"
    /\ api.guard # 0 /\ session.tx = "open" => \A w \in story.written : w.by = api.guard => w \in session.work
    /\ \A w \in session.work : w.by = 0 \/ w.by = api.guard \/ w.by \in story.left
    /\ \A w \in disk.rows : w.by = 0 \/ w.by \in story.commits \cup story.left
    /\ \A w \in disk.rows : \A x \in story.written :
          w.by = x.by /\ w.by # 0 /\ w.by \notin story.left => x \in disk.rows
    /\ api.stage = "open" /\ api.kind = "sync" /\ api.guard = 0 /\ story.left = {} => session.tx = "none"

ApiInv == ApiTypes /\ Building /\ GuardsNumbered /\ RowsAreTogether

LEMMA NoSessionIs ==
  /\ NoSession.tx = "none" /\ NoSession.work = {} /\ NoSession.alive = FALSE /\ NoSession.timeout = FALSE
  /\ NoSession \in [alive : BOOLEAN, tx : {"none", "open", "failed"}, work : {NoSession.work},
                    attached : BOOLEAN, path : BOOLEAN, timeout : BOOLEAN]
  BY DEF NoSession

\* What a statement does to the session when it fails.
LEMMA StatementFails ==
  ASSUME ApiInv, StatementRefused \/ Lost
  PROVE  /\ session' \in [alive : BOOLEAN, tx : {"none", "open", "failed"}, work : {session'.work},
                    attached : BOOLEAN, path : BOOLEAN, timeout : BOOLEAN]
         /\ \/ /\ session'.alive /\ session.alive /\ session'.work = session.work /\ session'.timeout = session.timeout
               /\ session'.tx = IF session.tx = "none" THEN "none" ELSE "failed"
            \/ session' = NoSession
  <1>1. CASE StatementRefused
    <2>1. session' = [session EXCEPT !.tx = IF session.tx = "none" THEN "none" ELSE "failed"] /\ session.alive
      BY <1>1 DEF StatementRefused
    <2> QED BY <2>1 DEF ApiInv, ApiTypes
  <1>2. CASE Lost BY <1>2, NoSessionIs DEF Lost
  <1> QED BY <1>1, <1>2

\* A step that changes the session alone.
LEMMA SessionAlone ==
  ASSUME ApiInv, UNCHANGED <<api, disk, story>>,
         session' \in [alive : BOOLEAN, tx : {"none", "open", "failed"}, work : {session'.work},
                       attached : BOOLEAN, path : BOOLEAN, timeout : BOOLEAN],
         \/ /\ session'.alive = session.alive /\ session'.work = session.work /\ session'.timeout = session.timeout
            /\ session'.tx = session.tx \/ (session.alive /\ session'.tx = IF session.tx = "none" THEN "none" ELSE "failed")
         \/ session' = NoSession
         \/ api.stage = "open" /\ api.guard = 0 /\ session'.tx = "none" /\ session'.work = {} /\ session'.alive = session.alive
  PROVE  ApiInv'
  <1>1. ApiTypes' BY DEF ApiInv, ApiTypes
  <1>2. Building' BY NoSessionIs DEF ApiInv, Building, ApiTypes, BeforeOpen
  <1>3. GuardsNumbered' BY NoSessionIs DEF ApiInv, GuardsNumbered
  <1>4. RowsAreTogether' BY NoSessionIs DEF ApiInv, RowsAreTogether, ApiTypes
  <1> QED BY <1>1, <1>2, <1>3, <1>4 DEF ApiInv

LEMMA FailsKeeps == ASSUME ApiInv, Fails, UNCHANGED <<api, disk, story>> PROVE ApiInv'
  BY StatementFails, SessionAlone DEF Fails

LEMMA NothingChanges == ASSUME ApiInv, UNCHANGED apiVars PROVE ApiInv'
  BY DEF ApiInv, ApiTypes, Building, GuardsNumbered, RowsAreTogether, apiVars

LEMMA ReadQueryKeeps == ASSUME ApiInv, ReadQuery PROVE ApiInv'
  BY FailsKeeps, NothingChanges DEF ReadQuery, Statement

LEMMA OtherCommandKeeps == ASSUME ApiInv, OtherCommand PROVE ApiInv'
  BY FailsKeeps, NothingChanges DEF OtherCommand, Statement

LEMMA AttachKeeps == ASSUME ApiInv, AttachDatabase \/ DetachDatabase PROVE ApiInv'
  <1>1. CASE Fails /\ UNCHANGED <<api, disk, story>> BY <1>1, FailsKeeps
  <1>2. CASE (\E a \in BOOLEAN : session' = [session EXCEPT !.attached = a]) /\ UNCHANGED <<api, disk, story>>
    <2>1. PICK a \in BOOLEAN : session' = [session EXCEPT !.attached = a] BY <1>2
    <2>2. /\ session' \in [alive : BOOLEAN, tx : {"none", "open", "failed"}, work : {session'.work},
                           attached : BOOLEAN, path : BOOLEAN, timeout : BOOLEAN]
          /\ session'.alive = session.alive /\ session'.work = session.work /\ session'.timeout = session.timeout
          /\ session'.tx = session.tx
      BY <2>1 DEF ApiInv, ApiTypes
    <2> QED BY <1>2, <2>2, SessionAlone
  <1> QED BY <1>1, <1>2 DEF AttachDatabase, DetachDatabase, Statement

LEMMA RollbackUnguardedKeeps == ASSUME ApiInv, RollbackUnguarded PROVE ApiInv'
  <1>1. CASE Fails BY <1>1, FailsKeeps DEF RollbackUnguarded
  <1>2. CASE session' = Ended
    <2>1. /\ session' \in [alive : BOOLEAN, tx : {"none", "open", "failed"}, work : {session'.work},
                           attached : BOOLEAN, path : BOOLEAN, timeout : BOOLEAN]
          /\ session'.alive = session.alive /\ session'.work = {} /\ session'.tx = "none"
      BY <1>2 DEF ApiInv, ApiTypes, Ended
    <2> QED BY <2>1, SessionAlone DEF RollbackUnguarded, Writable, IsOpen, At
  <1> QED BY <1>1, <1>2 DEF RollbackUnguarded

LEMMA ConnectionDiesKeeps == ASSUME ApiInv, ConnectionDies PROVE ApiInv'
  BY NoSessionIs, SessionAlone DEF ConnectionDies

-----------------------------------------------------------------------------
\* A step of the builder: nothing was written yet.
LEMMA BuilderHolds ==
  ASSUME ApiInv, api.stage \in BeforeOpen,
         api' \in [kind : {"sync", "async"}, transport : {"tcp", "grpc"}, stage : Stages, mode : CreateModes,
                   wantTimeout : BOOLEAN, guard : Nat, opened : Nat],
         api'.stage # "closed", api'.guard = api.guard, api'.opened = api.opened, api'.kind = api.kind, UNCHANGED story,
         session' \in [alive : BOOLEAN, tx : {"none"}, work : {{}}, attached : BOOLEAN, path : BOOLEAN, timeout : BOOLEAN],
         disk' \in [exists : BOOLEAN, gen : {"old", "new"}, rows : {{}}],
         api'.stage \in {"create", "attach"} /\ session'.alive => session'.timeout = api'.wantTimeout,
         api'.stage = "attach" /\ api'.mode \in {"Create", "CreateAndReplace"} => disk'.gen = "new"
  PROVE  ApiInv'
  <1>2. session'.tx = "none" /\ session'.work = {} /\ disk'.rows = {} OBVIOUS
  <1>3. /\ api.guard = 0 /\ api.opened = 0 /\ story.written = {} /\ story.commits = {} /\ story.left = {}
    BY DEF ApiInv, Building
  <1>4. ApiTypes' BY <1>2 DEF ApiInv, ApiTypes
  <1>5. Building' BY <1>2, <1>3, <1>4 DEF Building
  <1>6. GuardsNumbered' BY <1>2, <1>3 DEF GuardsNumbered
  <1>7. RowsAreTogether' BY <1>2, <1>3 DEF RowsAreTogether
  <1> QED BY <1>4, <1>5, <1>6, <1>7 DEF ApiInv

LEMMA BuilderKeeps ==
  ASSUME ApiInv, api.stage \in BeforeOpen, NEW stage \in Stages \ {"closed"}, NEW mode \in CreateModes, NEW want \in BOOLEAN,
         api' = [api EXCEPT !.mode = mode, !.wantTimeout = want, !.stage = stage], UNCHANGED story,
         session' \in [alive : BOOLEAN, tx : {"none"}, work : {{}}, attached : BOOLEAN, path : BOOLEAN, timeout : BOOLEAN],
         disk' \in [exists : BOOLEAN, gen : {"old", "new"}, rows : {{}}],
         stage \in {"create", "attach"} /\ session'.alive => session'.timeout = want,
         stage = "attach" /\ mode \in {"Create", "CreateAndReplace"} => disk'.gen = "new"
  PROVE  ApiInv'
  <1>1. /\ api' \in [kind : {"sync", "async"}, transport : {"tcp", "grpc"}, stage : Stages, mode : CreateModes,
                     wantTimeout : BOOLEAN, guard : Nat, opened : Nat]
        /\ api'.stage = stage /\ api'.mode = mode /\ api'.wantTimeout = want /\ api'.guard = api.guard
        /\ api'.opened = api.opened /\ api'.kind = api.kind
    BY DEF ApiInv, ApiTypes
  <1>2. /\ api'.stage \in {"create", "attach"} /\ session'.alive => session'.timeout = api'.wantTimeout
        /\ api'.stage = "attach" /\ api'.mode \in {"Create", "CreateAndReplace"} => disk'.gen = "new"
        /\ api'.stage # "closed"
    BY <1>1
  <1> QED BY <1>1, <1>2, BuilderHolds

LEMMA BuilderState ==
  ASSUME ApiInv, api.stage \in BeforeOpen
  PROVE  /\ session \in [alive : BOOLEAN, tx : {"none"}, work : {{}}, attached : BOOLEAN, path : BOOLEAN, timeout : BOOLEAN]
         /\ disk \in [exists : BOOLEAN, gen : {"old", "new"}, rows : {{}}]
         /\ api.mode \in CreateModes /\ api.wantTimeout \in BOOLEAN
         /\ \A stage \in Stages : [api EXCEPT !.stage = stage]
               = [api EXCEPT !.mode = api.mode, !.wantTimeout = api.wantTimeout, !.stage = stage]
         /\ NoSession \in [alive : {FALSE}, tx : {"none"}, work : {{}}, attached : BOOLEAN, path : BOOLEAN, timeout : {FALSE}]
  <1>1. session.tx = "none" /\ session.work = {} /\ disk.rows = {} BY DEF ApiInv, Building
  <1>2. session \in [alive : BOOLEAN, tx : {"none"}, work : {{}}, attached : BOOLEAN, path : BOOLEAN, timeout : BOOLEAN]
    BY <1>1 DEF ApiInv, ApiTypes
  <1>3. disk \in [exists : BOOLEAN, gen : {"old", "new"}, rows : {{}}] BY <1>1 DEF ApiInv, ApiTypes
  <1>4. api.mode \in CreateModes /\ api.wantTimeout \in BOOLEAN BY DEF ApiInv, ApiTypes
  <1>5. ASSUME NEW stage \in Stages PROVE [api EXCEPT !.stage = stage]
               = [api EXCEPT !.mode = api.mode, !.wantTimeout = api.wantTimeout, !.stage = stage]
    BY DEF ApiInv, ApiTypes
  <1>6. NoSession \in [alive : {FALSE}, tx : {"none"}, work : {{}}, attached : BOOLEAN, path : BOOLEAN, timeout : {FALSE}]
    BY DEF NoSession
  <1> QED BY <1>2, <1>3, <1>4, <1>5, <1>6

LEMMA BuildKeeps ==
  ASSUME ApiInv, NEW mode \in CreateModes, NEW want \in BOOLEAN, Build(mode, want)
  PROVE  ApiInv'
  <1>1. api.stage = "none" /\ api.stage \in BeforeOpen BY DEF Build, At, BeforeOpen
  <1> DEFINE stage == IF api.transport = "grpc" THEN "open" ELSE "timeout"
  <1>2. api' = [api EXCEPT !.mode = mode, !.wantTimeout = want, !.stage = stage] /\ UNCHANGED story BY DEF Build
  <1>3. session' \in [alive : BOOLEAN, tx : {"none"}, work : {{}}, attached : BOOLEAN, path : BOOLEAN, timeout : BOOLEAN]
    BY DEF Build, NoSession
  <1>4. disk' \in [exists : BOOLEAN, gen : {"old", "new"}, rows : {{}}] BY <1>1, BuilderState DEF Build
  <1>5. stage \in Stages \ {"closed"} /\ stage \notin {"create", "attach"} BY DEF Stages
  <1> HIDE DEF stage
  <1> QED BY <1>1, <1>2, <1>3, <1>4, <1>5, BuilderKeeps

\* A step of the builder that goes on to `stage` with what it was asked for.
LEMMA BuilderGoes ==
  ASSUME ApiInv, api.stage \in BeforeOpen, NEW stage \in Stages \ {"closed"},
         api' = [api EXCEPT !.stage = stage], UNCHANGED story,
         session' \in [alive : BOOLEAN, tx : {"none"}, work : {{}}, attached : BOOLEAN, path : BOOLEAN, timeout : BOOLEAN],
         disk' \in [exists : BOOLEAN, gen : {"old", "new"}, rows : {{}}],
         stage \in {"create", "attach"} /\ session'.alive => session'.timeout = api.wantTimeout,
         stage = "attach" /\ api.mode \in {"Create", "CreateAndReplace"} => disk'.gen = "new"
  PROVE  ApiInv'
  <1>1. /\ api' \in [kind : {"sync", "async"}, transport : {"tcp", "grpc"}, stage : Stages, mode : CreateModes,
                     wantTimeout : BOOLEAN, guard : Nat, opened : Nat]
        /\ api'.stage = stage /\ api'.mode = api.mode /\ api'.wantTimeout = api.wantTimeout /\ api'.guard = api.guard
        /\ api'.opened = api.opened /\ api'.kind = api.kind
    BY DEF ApiInv, ApiTypes
  <1>2. /\ api'.stage \in {"create", "attach"} /\ session'.alive => session'.timeout = api'.wantTimeout
        /\ api'.stage = "attach" /\ api'.mode \in {"Create", "CreateAndReplace"} => disk'.gen = "new"
        /\ api'.stage # "closed"
    BY <1>1
  <1> QED BY <1>1, <1>2, BuilderHolds

LEMMA BuildFailsKeeps ==
  ASSUME ApiInv, NEW stage \in BeforeOpen, BuildFails(stage),
         disk' = disk \/ disk' = [exists |-> FALSE, gen |-> "old", rows |-> {}]
  PROVE  ApiInv'
  <1>1. /\ api.stage \in BeforeOpen /\ api' = [api EXCEPT !.stage = "none"] /\ session' = NoSession /\ UNCHANGED story
        /\ "none" \in Stages \ {"closed"} /\ "none" \notin {"create", "attach"} /\ "none" # "attach"
    BY DEF BuildFails, At, Go, Stages
  <1>2. session' \in [alive : BOOLEAN, tx : {"none"}, work : {{}}, attached : BOOLEAN, path : BOOLEAN, timeout : BOOLEAN]
    BY <1>1 DEF NoSession
  <1>3. disk' \in [exists : BOOLEAN, gen : {"old", "new"}, rows : {{}}]
    <2>1. CASE disk' = disk BY <2>1, <1>1, BuilderState
    <2>2. CASE disk' = [exists |-> FALSE, gen |-> "old", rows |-> {}] BY <2>2
    <2> QED BY <2>1, <2>2
  <1> QED BY <1>1, <1>2, <1>3, BuilderGoes

LEMMA SetQueryTimeoutKeeps ==
  ASSUME ApiInv, SetQueryTimeout
  PROVE  ApiInv'
  <1>1. /\ api.stage \in BeforeOpen /\ api' = [api EXCEPT !.stage = "create"] /\ UNCHANGED <<disk, story>>
        /\ session' = [session EXCEPT !.timeout = api.wantTimeout] /\ "create" \in Stages \ {"closed"}
        /\ "create" # "attach" /\ UNCHANGED story
    BY DEF SetQueryTimeout, At, Go, Stages, BeforeOpen
  <1>2. /\ session' \in [alive : BOOLEAN, tx : {"none"}, work : {{}}, attached : BOOLEAN, path : BOOLEAN, timeout : BOOLEAN]
        /\ session'.timeout = api.wantTimeout
    BY <1>1, BuilderState
  <1>3. disk' \in [exists : BOOLEAN, gen : {"old", "new"}, rows : {{}}] BY <1>1, BuilderState
  <1> QED BY <1>1, <1>2, <1>3, BuilderGoes

LEMMA HandleCreationModeKeeps ==
  ASSUME ApiInv, HandleCreationMode
  PROVE  ApiInv'
  <1>1. /\ api.stage \in BeforeOpen /\ api.stage = "create" /\ api' = [api EXCEPT !.stage = "attach"] /\ UNCHANGED <<session, story>>
        /\ "attach" \in Stages \ {"closed"}
    BY DEF HandleCreationMode, At, Go, Stages, BeforeOpen
  <1>2. /\ disk \in [exists : BOOLEAN, gen : {"old", "new"}, rows : {{}}]
        /\ session' \in [alive : BOOLEAN, tx : {"none"}, work : {{}}, attached : BOOLEAN, path : BOOLEAN, timeout : BOOLEAN]
    BY <1>1, BuilderState
  <1>3. /\ disk' = disk \/ disk' = [exists |-> TRUE, gen |-> "new", rows |-> {}]
        /\ api.mode \in {"Create", "CreateAndReplace"} => disk' = [exists |-> TRUE, gen |-> "new", rows |-> {}]
    BY DEF HandleCreationMode
  <1>4. /\ disk' \in [exists : BOOLEAN, gen : {"old", "new"}, rows : {{}}]
        /\ api.mode \in {"Create", "CreateAndReplace"} => disk'.gen = "new"
    <2>1. CASE disk' = disk /\ api.mode \notin {"Create", "CreateAndReplace"} BY <2>1, <1>2
    <2>2. CASE disk' = [exists |-> TRUE, gen |-> "new", rows |-> {}] BY <2>2
    <2> QED BY <2>1, <2>2, <1>3
  <1>5. session'.alive => session'.timeout = api.wantTimeout BY <1>1 DEF ApiInv, Building
  <1> QED BY <1>1, <1>2, <1>4, <1>5, BuilderGoes

LEMMA AttachAndSetPathKeeps ==
  ASSUME ApiInv, AttachAndSetPath
  PROVE  /\ ApiInv'
         /\ session'.attached /\ session'.path /\ session'.timeout = api.wantTimeout
         /\ api.mode \in {"Create", "CreateAndReplace"} => disk'.gen = "new"
  <1>1. /\ api.stage \in BeforeOpen /\ api.stage = "attach" /\ api' = [api EXCEPT !.stage = "open"] /\ UNCHANGED <<disk, story>>
        /\ "open" \in Stages \ {"closed"} /\ session.alive /\ "open" \notin {"create", "attach"} /\ "open" # "attach"
        /\ session' = [session EXCEPT !.attached = TRUE, !.path = TRUE]
    BY DEF AttachAndSetPath, At, Go, Stages, BeforeOpen
  <1>2. disk' \in [exists : BOOLEAN, gen : {"old", "new"}, rows : {{}}] BY <1>1, BuilderState
  <1>3. /\ session' \in [alive : BOOLEAN, tx : {"none"}, work : {{}}, attached : BOOLEAN, path : BOOLEAN, timeout : BOOLEAN]
        /\ session'.attached /\ session'.path /\ session'.timeout = session.timeout
    BY <1>1, BuilderState
  <1>4. ApiInv' BY <1>1, <1>2, <1>3, BuilderGoes
  <1> QED BY <1>1, <1>3, <1>4 DEF ApiInv, Building

LEMMA BuilderFailsKeeps ==
  ASSUME ApiInv, \/ SetQueryTimeoutFails \/ HandleCreationModeFails
                 \/ HandleCreationModeAsyncFails \/ AttachAndSetPathFails
  PROVE  ApiInv' /\ api'.stage = "none"
  <1>1. \E stage \in BeforeOpen : BuildFails(stage)
    BY DEF SetQueryTimeoutFails, HandleCreationModeFails, HandleCreationModeAsyncFails, AttachAndSetPathFails, BeforeOpen
  <1>2. disk' = disk \/ disk' = [exists |-> FALSE, gen |-> "old", rows |-> {}]
    BY DEF SetQueryTimeoutFails, HandleCreationModeFails, HandleCreationModeAsyncFails, AttachAndSetPathFails
  <1>3. ApiInv' BY <1>1, <1>2, BuildFailsKeeps
  <1>4. api'.stage = "none" BY <1>1 DEF BuildFails, Go, ApiInv, ApiTypes
  <1> QED BY <1>3, <1>4

-----------------------------------------------------------------------------
\* Rows written under the guard, if there is one: into the session's transaction
\* when it is in one, else durable at once.
LEMMA WritesKeep ==
  ASSUME ApiInv, api.stage = "open", UNCHANGED api, Accepts,
         NEW done, \A w \in done : w.by = api.guard,
         story' = [story EXCEPT !.written = story.written \cup done],
         \/ /\ session.tx = "none" /\ disk' = [disk EXCEPT !.rows = disk.rows \cup done]
            /\ session' = session \/ session' = NoSession
         \/ /\ session.tx # "none" /\ disk' = disk
            /\ \E tx \in {"open", "failed"} :
                  session' = [session EXCEPT !.work = session.work \cup done, !.tx = tx]
  PROVE  ApiInv'
  <1>1. /\ session.alive /\ session.tx \in {"none", "open"}
        /\ session.tx = "none" => api.guard = 0 /\ session.work = {}
    BY DEF ApiInv, ApiTypes, RowsAreTogether, Accepts
  <1>2. /\ story' \in [written : {story'.written}, commits : {story'.commits}, left : {story'.left}]
        /\ story'.written = story.written \cup done /\ story'.commits = story.commits /\ story'.left = story.left
    BY DEF ApiInv, ApiTypes
  <1>3. api.guard \in 0 .. api.opened /\ api.guard \notin story.commits \cup story.left
    BY DEF ApiInv, ApiTypes, GuardsNumbered
  <1>4. CASE session.tx = "none"
    <2>1. /\ disk' \in [exists : BOOLEAN, gen : {"old", "new"}, rows : {disk'.rows}]
          /\ disk'.rows = disk.rows \cup done
      BY <1>4 DEF ApiInv, ApiTypes
    <2>2. session'.tx = "none" /\ session'.work = {}
        /\ session' \in [alive : BOOLEAN, tx : {"none", "open", "failed"}, work : {session'.work},
                         attached : BOOLEAN, path : BOOLEAN, timeout : BOOLEAN]
      BY <1>1, <1>4, NoSessionIs DEF ApiInv, ApiTypes
    <2>3. ApiTypes' BY <1>2, <2>1, <2>2 DEF ApiInv, ApiTypes
    <2>4. Building' BY DEF Building, BeforeOpen
    <2>5. GuardsNumbered' BY <1>2, <1>3, <2>1, <2>2 DEF ApiInv, GuardsNumbered
    <2>6. RowsAreTogether'
      <3>1. \A w \in done : w.by = 0 BY <1>1, <1>4
      <3> QED BY <1>1, <1>2, <1>4, <2>1, <2>2, <3>1 DEF ApiInv, RowsAreTogether
    <2> QED BY <2>3, <2>4, <2>5, <2>6 DEF ApiInv
  <1>5. CASE session.tx # "none"
    <2>1. /\ session' \in [alive : BOOLEAN, tx : {"none", "open", "failed"}, work : {session'.work},
                           attached : BOOLEAN, path : BOOLEAN, timeout : BOOLEAN]
          /\ session'.tx \in {"open", "failed"} /\ session'.work = session.work \cup done /\ session'.alive
      BY <1>1, <1>5 DEF ApiInv, ApiTypes
    <2>2. disk' = disk BY <1>5
    <2>3. ApiTypes' BY <1>2, <2>1, <2>2 DEF ApiInv, ApiTypes
    <2>4. Building' BY DEF Building, BeforeOpen
    <2>5. GuardsNumbered' BY <1>2, <1>3, <2>1, <2>2 DEF ApiInv, GuardsNumbered
    <2>6. RowsAreTogether'
      <3>1. session.tx = "open" BY <1>1, <1>5
      <3>2. \A w \in disk.rows : w.by # 0 /\ w.by \notin story.left => w.by # api.guard
        BY <1>3 DEF ApiInv, RowsAreTogether
      <3>3. \A w \in disk'.rows : \A x \in story'.written :
               w.by = x.by /\ w.by # 0 /\ w.by \notin story'.left => x \in disk'.rows
        BY <1>2, <2>2, <3>2 DEF ApiInv, RowsAreTogether
      <3> QED BY <1>1, <1>2, <1>5, <2>1, <2>2, <3>1, <3>3 DEF ApiInv, RowsAreTogether
    <2> QED BY <2>3, <2>4, <2>5, <2>6 DEF ApiInv
  <1> QED BY <1>4, <1>5

LEMMA ExecuteCommandKeeps == ASSUME ApiInv, ExecuteCommand PROVE ApiInv'
  <1> DEFINE w == NewWrite
             done == {w}
  <1>1. api.stage = "open" /\ UNCHANGED api BY DEF ExecuteCommand, Writable, IsOpen, At
  <1>2. \A x \in done : x.by = api.guard BY DEF NewWrite
  <1>3. CASE Fails /\ UNCHANGED <<disk, story>> BY <1>1, <1>3, FailsKeeps
  <1>4. CASE Accepts /\ Applied(NewWrite)
    <2>1. /\ story' = [story EXCEPT !.written = story.written \cup done]
          /\ session.tx = "none" => disk' = [disk EXCEPT !.rows = disk.rows \cup done] /\ session' = session
          /\ session.tx # "none" => disk' = disk /\ session' = [session EXCEPT !.work = session.work \cup done]
      BY <1>4 DEF Applied
    <2>2. session.tx # "none" => session.tx = "open" BY <1>4 DEF Accepts, ApiInv, ApiTypes
    <2> HIDE DEF done
    <2>3. session.tx # "none" => session' = [session EXCEPT !.work = session.work \cup done, !.tx = "open"]
      <3>1. session \in [alive : BOOLEAN, tx : {"none", "open", "failed"}, work : {session.work},
                         attached : BOOLEAN, path : BOOLEAN, timeout : BOOLEAN]
        BY DEF ApiInv, ApiTypes
      <3> QED BY <2>1, <2>2, <3>1
    <2> QED BY <1>1, <1>2, <1>4, <2>1, <2>3, WritesKeep
  <1>5. CASE /\ Accepts /\ session.tx = "none" /\ Lost
             /\ disk' = [disk EXCEPT !.rows = @ \cup {NewWrite}]
             /\ story' = [story EXCEPT !.written = @ \cup {NewWrite}]
    <2>1. /\ story' = [story EXCEPT !.written = story.written \cup done]
          /\ session.tx = "none" /\ disk' = [disk EXCEPT !.rows = disk.rows \cup done] /\ session' = NoSession
      BY <1>5 DEF Lost
    <2> HIDE DEF done
    <2> QED BY <1>1, <1>2, <1>5, <2>1, WritesKeep
  <1> QED BY <1>3, <1>4, <1>5 DEF ExecuteCommand

LEMMA ExecuteBatchKeeps == ASSUME ApiInv, ExecuteBatch PROVE ApiInv'
  <1> DEFINE second == [NewWrite EXCEPT !.n = @ + 1]
             both == {NewWrite, second}
  <1>1. api.stage = "open" /\ UNCHANGED api /\ Accepts BY DEF ExecuteBatch, Writable, IsOpen, At
  <1>2. PICK done \in {{NewWrite}, both} :
            /\ story' = [story EXCEPT !.written = @ \cup done]
            /\ IF session.tx = "none"
               THEN disk' = [disk EXCEPT !.rows = @ \cup done] /\ UNCHANGED session
               ELSE /\ session' = [session EXCEPT !.work = @ \cup done,
                                                  !.tx = IF done = both THEN @ ELSE "failed"]
                    /\ UNCHANGED disk
    BY DEF ExecuteBatch
  <1>3. \A x \in done : x.by = api.guard BY DEF NewWrite
  <1>4. session.tx # "none" => session.tx = "open" BY <1>1 DEF Accepts, ApiInv, ApiTypes
  <1> HIDE DEF both
  <1>5. session.tx # "none" =>
          \E tx \in {"open", "failed"} : session' = [session EXCEPT !.work = session.work \cup done, !.tx = tx]
    <2>1. CASE done = both BY <1>2, <1>4, <2>1 DEF ApiInv, ApiTypes
    <2>2. CASE done # both BY <1>2, <1>4, <2>2 DEF ApiInv, ApiTypes
    <2> QED BY <2>1, <2>2
  <1> QED BY <1>1, <1>2, <1>3, <1>5, WritesKeep

-----------------------------------------------------------------------------
LEMMA BeginTransactionKeeps == ASSUME ApiInv, BeginTransaction PROVE ApiInv'
  <1>1. CASE Fails /\ UNCHANGED <<api, disk, story>> BY <1>1, FailsKeeps
  <1>2. CASE /\ Accepts /\ api' = [api EXCEPT !.opened = @ + 1, !.guard = api.opened + 1]
             /\ session' = [session EXCEPT !.tx = "open"]
             /\ UNCHANGED <<disk, story>>
    <2> DEFINE n == api.opened + 1
    <2>1. n \in Nat /\ n > api.opened /\ api.opened \in Nat BY DEF ApiInv, ApiTypes
    <2>2. api' = [api EXCEPT !.opened = n, !.guard = n] BY <1>2
    <2> HIDE DEF n
    <2>3. /\ api' \in [kind : {"sync", "async"}, transport : {"tcp", "grpc"}, stage : Stages, mode : CreateModes,
                       wantTimeout : BOOLEAN, guard : Nat, opened : Nat]
          /\ api'.opened = n /\ api'.guard = n /\ api'.stage = api.stage
      BY <2>1, <2>2 DEF ApiInv, ApiTypes
    <2>4. /\ session' \in [alive : BOOLEAN, tx : {"none", "open", "failed"}, work : {session'.work},
                           attached : BOOLEAN, path : BOOLEAN, timeout : BOOLEAN]
          /\ session'.tx = "open" /\ session'.work = session.work /\ session'.alive
      BY <1>2 DEF ApiInv, ApiTypes, Accepts
    <2>5. api.stage = "open" /\ api.guard = 0 BY DEF BeginTransaction, Writable, IsOpen, At
    <2>6. /\ \A w \in story.written : w.by \in 0 .. api.opened
          /\ story.commits \subseteq 1 .. api.opened /\ story.left \subseteq 1 .. api.opened
          /\ disk.rows \subseteq story.written /\ session.work \subseteq story.written
      BY DEF ApiInv, GuardsNumbered
    <2>7. ApiTypes' BY <1>2, <2>3, <2>4 DEF ApiInv, ApiTypes
    <2>8. Building' BY <2>3, <2>5 DEF Building, BeforeOpen
    <2>9. GuardsNumbered' BY <1>2, <2>1, <2>3, <2>4, <2>6 DEF GuardsNumbered
    <2>10. RowsAreTogether'
      <3>1. \A w \in story.written : w.by # n BY <2>1, <2>6
      <3>2. n # 0 BY <2>1
      <3> QED BY <1>2, <2>3, <2>4, <2>5, <3>1, <3>2 DEF ApiInv, RowsAreTogether
    <2> QED BY <2>7, <2>8, <2>9, <2>10 DEF ApiInv
  <1> QED BY <1>1, <1>2 DEF BeginTransaction, Statement

\* The guard is gone, and with it the session's transaction or the guard is listed
\* as having left it open; the work that becomes durable is the transaction's.
LEMMA GuardEnds ==
  ASSUME ApiInv, api.stage = "open", api.guard # 0, GuardGone,
         NEW commits \in {story.commits, story.commits \cup {api.guard}},
         NEW left \in {story.left, story.left \cup {api.guard}},
         story' = [story EXCEPT !.commits = commits, !.left = left],
         session' \in [alive : BOOLEAN, tx : {"none", "open", "failed"}, work : {session'.work},
                       attached : BOOLEAN, path : BOOLEAN, timeout : BOOLEAN],
         \/ session'.tx = "none" /\ session'.work = {}
         \/ /\ session'.alive /\ session'.work = session.work /\ session'.tx # "none"
            /\ left = story.left \cup {api.guard},
         \/ disk' = disk
         \/ /\ session.tx = "open" /\ disk' = [disk EXCEPT !.rows = disk.rows \cup session.work]
            /\ commits = story.commits \cup {api.guard}
  PROVE  ApiInv'
  <1>1. /\ api' \in [kind : {"sync", "async"}, transport : {"tcp", "grpc"}, stage : Stages, mode : CreateModes,
                     wantTimeout : BOOLEAN, guard : Nat, opened : Nat]
        /\ api'.guard = 0 /\ api'.opened = api.opened /\ api'.stage = "open" /\ api'.kind = api.kind
    BY DEF GuardGone, ApiInv, ApiTypes
  <1>2. /\ story' \in [written : {story'.written}, commits : {story'.commits}, left : {story'.left}]
        /\ story'.written = story.written /\ story'.commits = commits /\ story'.left = left
    BY DEF ApiInv, ApiTypes
  <1>3. /\ disk' \in [exists : BOOLEAN, gen : {"old", "new"}, rows : {disk'.rows}]
        /\ disk'.rows = disk.rows \/ /\ session.tx = "open" /\ disk'.rows = disk.rows \cup session.work
                                     /\ commits = story.commits \cup {api.guard}
    <2>1. CASE disk' = disk BY <2>1 DEF ApiInv, ApiTypes
    <2>2. CASE /\ session.tx = "open" /\ disk' = [disk EXCEPT !.rows = disk.rows \cup session.work]
               /\ commits = story.commits \cup {api.guard}
      BY <2>2 DEF ApiInv, ApiTypes
    <2> QED BY <2>1, <2>2
  <1>4. /\ api.guard \in 1 .. api.opened /\ api.guard \notin story.commits \cup story.left
        /\ 0 \notin 1 .. api.opened /\ 0 <= api.opened
    BY DEF ApiInv, ApiTypes, GuardsNumbered
  <1>5. ApiTypes' BY <1>1, <1>2, <1>3 DEF ApiTypes
  <1>6. Building' BY <1>1 DEF Building, BeforeOpen
  <1>7. GuardsNumbered'
    <2>1. /\ story.commits \subseteq 1 .. api.opened /\ story.left \subseteq 1 .. api.opened
          /\ disk.rows \subseteq story.written /\ session.work \subseteq story.written
          /\ \A w \in story.written : w.by \in 0 .. api.opened
      BY DEF ApiInv, GuardsNumbered
    <2>2. commits \subseteq 1 .. api.opened /\ left \subseteq 1 .. api.opened BY <1>4, <2>1
    <2>3. disk'.rows \subseteq story.written /\ session'.work \subseteq story.written BY <1>3, <2>1
    <2> QED BY <1>1, <1>2, <1>4, <2>1, <2>2, <2>3 DEF GuardsNumbered
  <1>8. RowsAreTogether'
    <2>1. /\ session'.tx = "none" => session'.work = {}
          /\ ~session'.alive => session'.tx = "none"
          /\ session'.work = {} \/ (session'.work = session.work /\ left = story.left \cup {api.guard})
      OBVIOUS
    <2>2. \A w \in session'.work : w.by = 0 \/ w.by \in left
      BY <2>1 DEF ApiInv, RowsAreTogether
    <2>3. \A w \in disk'.rows : w.by = 0 \/ w.by \in commits \cup left
      BY <1>3 DEF ApiInv, RowsAreTogether
    <2>4. ASSUME NEW w \in disk'.rows, NEW x \in story.written, w.by = x.by, w.by # 0, w.by \notin left
          PROVE  x \in disk'.rows
      <3>0. w.by \notin story.left BY <2>4
      <3>1. CASE w \in disk.rows BY <3>0, <3>1, <2>4, <1>3 DEF ApiInv, RowsAreTogether
      <3>2. CASE w \notin disk.rows
        <4>1. session.tx = "open" /\ w \in session.work /\ disk'.rows = disk.rows \cup session.work BY <3>2, <1>3
        <4>2. w.by = api.guard BY <3>0, <4>1, <2>4 DEF ApiInv, RowsAreTogether
        <4>3. x \in session.work BY <4>1, <4>2, <2>4 DEF ApiInv, RowsAreTogether
        <4> QED BY <4>1, <4>3
      <3> QED BY <3>1, <3>2
    <2>5. left = {} => session'.tx = "none" OBVIOUS
    <2> QED BY <1>1, <1>2, <2>1, <2>2, <2>3, <2>4, <2>5 DEF RowsAreTogether
  <1> QED BY <1>5, <1>6, <1>7, <1>8 DEF ApiInv

LEMMA CommitKeeps == ASSUME ApiInv, Commit PROVE ApiInv'
  <1> DEFINE g == story.commits \cup {api.guard}
             l == story.left \cup {api.guard}
  <1>1. api.stage = "open" /\ api.guard # 0 /\ GuardGone BY DEF Commit, IsOpen, At
  <1>2. session.alive => session.tx # "none" BY <1>1 DEF ApiInv, RowsAreTogether
  <1>3. Accepts => session.tx = "open" BY <1>2 DEF Accepts, ApiInv, ApiTypes
  <1>4. CASE /\ Accepts /\ session' = Ended /\ disk' = [disk EXCEPT !.rows = @ \cup session.work]
             /\ story' = [story EXCEPT !.commits = @ \cup {api.guard}]
    <2>1. /\ session' \in [alive : BOOLEAN, tx : {"none", "open", "failed"}, work : {session'.work},
                           attached : BOOLEAN, path : BOOLEAN, timeout : BOOLEAN]
          /\ session'.tx = "none" /\ session'.work = {}
      BY <1>4 DEF ApiInv, ApiTypes, Ended
    <2>2. story' = [story EXCEPT !.commits = g, !.left = story.left] BY <1>4 DEF ApiInv, ApiTypes
    <2> HIDE DEF g
    <2>3. g \in {story.commits, story.commits \cup {api.guard}} BY DEF g
    <2>4. g = story.commits \cup {api.guard} BY DEF g
    <2>5. disk' = [disk EXCEPT !.rows = disk.rows \cup session.work] BY <1>4
    <2> QED BY <1>1, <1>3, <1>4, <2>1, <2>2, <2>3, <2>4, <2>5, GuardEnds
  <1>5. CASE StatementRefused /\ UNCHANGED disk
             /\ story' = [story EXCEPT !.commits = @ \cup {api.guard}, !.left = @ \cup {api.guard}]
    <2>1. /\ session' \in [alive : BOOLEAN, tx : {"none", "open", "failed"}, work : {session'.work},
                           attached : BOOLEAN, path : BOOLEAN, timeout : BOOLEAN]
          /\ session'.tx # "none" /\ session'.work = session.work /\ session'.alive
      <3>1. session' = [session EXCEPT !.tx = "failed"] /\ session.alive BY <1>2, <1>5 DEF StatementRefused
      <3> QED BY <3>1 DEF ApiInv, ApiTypes
    <2>2. story' = [story EXCEPT !.commits = g, !.left = l] BY <1>5
    <2>3. g \in {story.commits, story.commits \cup {api.guard}} OBVIOUS
    <2>4. l \in {story.left, story.left \cup {api.guard}} /\ l = story.left \cup {api.guard} OBVIOUS
    <2> HIDE DEF g, l
    <2> QED BY <1>1, <1>5, <2>1, <2>2, <2>3, <2>4, GuardEnds
  <1>6. CASE /\ Lost
             /\ \/ Accepts /\ disk' = [disk EXCEPT !.rows = @ \cup session.work]
                \/ UNCHANGED disk
             /\ story' = [story EXCEPT !.commits = @ \cup {api.guard}]
    <2>1. /\ session' \in [alive : BOOLEAN, tx : {"none", "open", "failed"}, work : {session'.work},
                           attached : BOOLEAN, path : BOOLEAN, timeout : BOOLEAN]
          /\ session'.tx = "none" /\ session'.work = {}
      BY <1>6, NoSessionIs DEF Lost
    <2>2. story' = [story EXCEPT !.commits = g, !.left = story.left] BY <1>6 DEF ApiInv, ApiTypes
    <2>3. g \in {story.commits, story.commits \cup {api.guard}} /\ g = story.commits \cup {api.guard} OBVIOUS
    <2> HIDE DEF g
    <2>4. disk' = disk \/ (session.tx = "open" /\ disk' = [disk EXCEPT !.rows = disk.rows \cup session.work])
      BY <1>3, <1>6
    <2> QED BY <1>1, <2>1, <2>2, <2>3, <2>4, GuardEnds
  <1> QED BY <1>4, <1>5, <1>6 DEF Commit

LEMMA RollbackKeeps == ASSUME ApiInv, Rollback \/ DropAsyncGuard PROVE ApiInv'
  <1> DEFINE l == story.left \cup {api.guard}
  <1>1. api.stage = "open" /\ api.guard # 0 /\ GuardGone /\ disk' = disk
    BY DEF Rollback, DropAsyncGuard, IsOpen, At
  <1>2. session.alive => session.tx # "none" BY <1>1 DEF ApiInv, RowsAreTogether
  <1>3. CASE (session' = Ended \/ Lost) /\ UNCHANGED story
    <2>1. /\ session' \in [alive : BOOLEAN, tx : {"none", "open", "failed"}, work : {session'.work},
                           attached : BOOLEAN, path : BOOLEAN, timeout : BOOLEAN]
          /\ session'.tx = "none" /\ session'.work = {}
      <3>1. CASE session' = Ended BY <3>1 DEF ApiInv, ApiTypes, Ended
      <3>2. CASE Lost BY <3>2, NoSessionIs DEF Lost
      <3> QED BY <1>3, <3>1, <3>2
    <2>2. story' = [story EXCEPT !.commits = story.commits, !.left = story.left] BY <1>3 DEF ApiInv, ApiTypes
    <2> QED BY <1>1, <2>1, <2>2, GuardEnds
  <1>4. CASE (StatementRefused \/ session' = session) /\ LeftOpen
    <2>1. story' = [story EXCEPT !.commits = story.commits, !.left = l] BY <1>4 DEF ApiInv, ApiTypes, LeftOpen
    <2>2. l \in {story.left, story.left \cup {api.guard}} /\ l = story.left \cup {api.guard} OBVIOUS
    <2> HIDE DEF l
    <2>3. session' \in [alive : BOOLEAN, tx : {"none", "open", "failed"}, work : {session'.work},
                        attached : BOOLEAN, path : BOOLEAN, timeout : BOOLEAN]
      <3>1. CASE session' = session BY <3>1 DEF ApiInv, ApiTypes
      <3>2. CASE StatementRefused BY <3>2, StatementFails
      <3> QED BY <1>4, <3>1, <3>2
    <2>4. CASE session.alive
      <3>1. session'.alive /\ session'.work = session.work /\ session'.tx # "none"
        <4>1. CASE session' = session BY <4>1, <1>2, <2>4
        <4>2. CASE StatementRefused
          <5>1. session' = [session EXCEPT !.tx = "failed"] BY <4>2, <1>2 DEF StatementRefused
          <5> QED BY <5>1, <2>4 DEF ApiInv, ApiTypes
        <4> QED BY <1>4, <4>1, <4>2
      <3> QED BY <1>1, <2>1, <2>2, <2>3, <3>1, GuardEnds
    <2>5. CASE ~session.alive
      <3>1. session'.tx = "none" /\ session'.work = {}
        BY <1>4, <2>5 DEF StatementRefused, ApiInv, RowsAreTogether
      <3> QED BY <1>1, <2>1, <2>2, <2>3, <3>1, GuardEnds
    <2> QED BY <2>4, <2>5
  <1> QED BY <1>3, <1>4 DEF Rollback, DropAsyncGuard

LEMMA CloseKeeps == ASSUME ApiInv, Close PROVE ApiInv'
  <1>1. /\ api.stage = "open" /\ api.guard = 0 /\ api' = [api EXCEPT !.stage = "closed"] /\ session' = NoSession
        /\ UNCHANGED <<disk, story>>
    BY DEF Close, IsOpen, At, Go
  <1>2. /\ api' \in [kind : {"sync", "async"}, transport : {"tcp", "grpc"}, stage : Stages, mode : CreateModes,
                     wantTimeout : BOOLEAN, guard : Nat, opened : Nat]
        /\ api'.guard = api.guard /\ api'.opened = api.opened /\ api'.stage = "closed"
    BY <1>1 DEF ApiInv, ApiTypes, Stages
  <1>3. ApiTypes' BY <1>1, <1>2, NoSessionIs DEF ApiInv, ApiTypes
  <1>4. Building' BY <1>1, <1>2, NoSessionIs DEF Building, BeforeOpen
  <1>5. GuardsNumbered' BY <1>1, <1>2, NoSessionIs DEF ApiInv, GuardsNumbered
  <1>6. RowsAreTogether' BY <1>1, <1>2, NoSessionIs DEF ApiInv, RowsAreTogether
  <1> QED BY <1>3, <1>4, <1>5, <1>6 DEF ApiInv

LEMMA ApiInvStarts == ApiInit => ApiInv
  <1> SUFFICES ASSUME ApiInit PROVE ApiInv OBVIOUS
  <1>1. /\ api.stage = "none" /\ api.guard = 0 /\ api.opened = 0
        /\ api \in [kind : {"sync", "async"}, transport : {"tcp", "grpc"}, stage : Stages, mode : CreateModes,
                    wantTimeout : BOOLEAN, guard : Nat, opened : Nat]
    <2>1. {"none"} \subseteq Stages /\ {"DoNotCreate"} \subseteq CreateModes /\ {0} \subseteq Nat BY DEF Stages, CreateModes
    <2>2. api \in [kind : {"sync", "async"}, transport : {"tcp", "grpc"}, stage : {"none"},
                   mode : {"DoNotCreate"}, wantTimeout : {FALSE}, guard : {0}, opened : {0}]
      BY DEF ApiInit
    <2> QED BY <2>1, <2>2
  <1>2. session = NoSession BY DEF ApiInit
  <1>3. disk \in [exists : BOOLEAN, gen : {"old", "new"}, rows : {disk.rows}] /\ disk.rows = {} BY DEF ApiInit
  <1>4. /\ story \in [written : {story.written}, commits : {story.commits}, left : {story.left}]
        /\ story.written = {} /\ story.commits = {} /\ story.left = {}
    BY DEF ApiInit
  <1>5. ApiTypes BY <1>1, <1>2, <1>3, <1>4, NoSessionIs DEF ApiTypes
  <1>6. Building BY <1>1, <1>2, <1>3, <1>4, NoSessionIs DEF Building
  <1>7. GuardsNumbered BY <1>1, <1>2, <1>3, <1>4, NoSessionIs DEF GuardsNumbered
  <1>8. RowsAreTogether BY <1>1, <1>2, <1>3, <1>4, NoSessionIs DEF RowsAreTogether
  <1> QED BY <1>5, <1>6, <1>7, <1>8 DEF ApiInv

\* The calls on an open connection, by what they do to it.
LEMMA CallsKeep ==
  ASSUME ApiInv, \/ Reads \/ Commands \/ CommandParams \/ PreparedExecute \/ DropGuard
                 \/ ExecuteCommand \/ ExecuteBatch \/ AttachDatabase \/ DetachDatabase \/ BeginTransaction
                 \/ Commit \/ Rollback \/ DropAsyncGuard \/ RollbackUnguarded \/ Close
  PROVE  ApiInv' /\ api.stage = "open"
  <1>1. CASE Reads
    <2>1. ReadQuery
      BY <1>1 DEF Reads, FetchOne, FetchOptional, FetchAll, StreamAs, FetchScalar, ExecuteQueryToArrow, Explain,
                  HasTable, QueryParams, PreparedQuery, GuardedQuery, AsyncFetch, AsyncQueryParams, AsyncStreamAs,
                  AsyncGuardedQuery
    <2> QED BY <2>1, ReadQueryKeeps DEF ReadQuery, IsOpen, At
  <1>2. CASE Commands
    <2>1. OtherCommand
      BY <1>2 DEF Commands, Ping, UnloadDatabase, CreateSchema, CreateDatabase, CopyDatabase, AsyncOtherCommand
    <2> QED BY <2>1, OtherCommandKeeps DEF OtherCommand, Writable, IsOpen, At
  <1>3. CASE CommandParams \/ PreparedExecute \/ ExecuteCommand
    <2>1. ExecuteCommand BY <1>3 DEF CommandParams, PreparedExecute
    <2> QED BY <2>1, ExecuteCommandKeeps DEF ExecuteCommand, Writable, IsOpen, At
  <1>4. CASE ExecuteBatch BY <1>4, ExecuteBatchKeeps DEF ExecuteBatch, Writable, IsOpen, At
  <1>5. CASE AttachDatabase \/ DetachDatabase
    BY <1>5, AttachKeeps DEF AttachDatabase, DetachDatabase, Writable, IsOpen, At
  <1>6. CASE BeginTransaction BY <1>6, BeginTransactionKeeps DEF BeginTransaction, Writable, IsOpen, At
  <1>7. CASE Commit BY <1>7, CommitKeeps DEF Commit, IsOpen, At
  <1>8. CASE Rollback \/ DropGuard \/ DropAsyncGuard
    BY <1>8, RollbackKeeps DEF DropGuard, Rollback, DropAsyncGuard, IsOpen, At
  <1>9. CASE RollbackUnguarded BY <1>9, RollbackUnguardedKeeps DEF RollbackUnguarded, Writable, IsOpen, At
  <1>10. CASE Close BY <1>10, CloseKeeps DEF Close, IsOpen, At
  <1> QED BY <1>1, <1>2, <1>3, <1>4, <1>5, <1>6, <1>7, <1>8, <1>9, <1>10

\* What a step of the connection keeps, and that only attach_and_set_path opens it.
LEMMA ApiStepKeeps ==
  ASSUME ApiInv, [ApiNext]_apiVars
  PROVE  /\ ApiInv'
         /\ At("attach") /\ api'.stage = "open" =>
               /\ session'.attached /\ session'.path
               /\ session'.timeout = api.wantTimeout
               /\ api.mode \in {"Create", "CreateAndReplace"} => disk'.gen = "new"
  <1>1. CASE UNCHANGED apiVars BY <1>1, NothingChanges DEF apiVars, At
  <1>2. CASE \E mode \in CreateModes, wantTimeout \in BOOLEAN : Build(mode, wantTimeout)
    BY <1>2, BuildKeeps DEF Build, At
  <1>3. CASE SetQueryTimeout BY <1>3, SetQueryTimeoutKeeps DEF SetQueryTimeout, At
  <1>4. CASE HandleCreationMode BY <1>4, HandleCreationModeKeeps DEF HandleCreationMode, At
  <1>5. CASE AttachAndSetPath BY <1>5, AttachAndSetPathKeeps
  <1>6. CASE \/ SetQueryTimeoutFails \/ HandleCreationModeFails
             \/ HandleCreationModeAsyncFails \/ AttachAndSetPathFails
    BY <1>6, BuilderFailsKeeps
  <1>7. CASE \/ Reads \/ Commands \/ CommandParams \/ PreparedExecute \/ DropGuard
             \/ ExecuteCommand \/ ExecuteBatch \/ AttachDatabase \/ DetachDatabase \/ BeginTransaction
             \/ Commit \/ Rollback \/ DropAsyncGuard \/ RollbackUnguarded \/ Close
    BY <1>7, CallsKeep DEF At
  <1>8. CASE ConnectionDies BY <1>8, ConnectionDiesKeeps DEF ConnectionDies, At
  <1> QED BY <1>1, <1>2, <1>3, <1>4, <1>5, <1>6, <1>7, <1>8 DEF ApiNext

LEMMA ApiInvSays == ApiInv => GuardedWorkIsAtomic /\ NoTransactionLeft /\ CloseEndsSession
  <1> SUFFICES ASSUME ApiInv PROVE GuardedWorkIsAtomic /\ NoTransactionLeft /\ CloseEndsSession OBVIOUS
  <1>1. ASSUME NEW g \in Guards \ story.left
        PROVE  /\ g \notin story.commits => DurableOf(g) = {}
               /\ g # api.guard => DurableOf(g) \in {{}, WrittenOf(g)}
    <2>1. g # 0 BY DEF Guards
    <2>2. g \notin story.commits => DurableOf(g) = {} BY <2>1 DEF ApiInv, RowsAreTogether, DurableOf
    <2>3. ASSUME NEW w \in DurableOf(g) PROVE DurableOf(g) = WrittenOf(g)
      <3>1. w \in disk.rows /\ w.by = g BY DEF DurableOf
      <3>2. \A x \in story.written : x.by = g => x \in disk.rows BY <2>1, <3>1 DEF ApiInv, RowsAreTogether
      <3>3. disk.rows \subseteq story.written BY DEF ApiInv, GuardsNumbered
      <3> QED BY <3>2, <3>3 DEF DurableOf, WrittenOf
    <2> QED BY <2>2, <2>3
  <1>2. NoTransactionLeft BY DEF NoTransactionLeft, IsOpen, At, ApiInv, RowsAreTogether
  <1>3. CloseEndsSession BY DEF CloseEndsSession, At, ApiInv, Building
  <1> QED BY <1>1, <1>2, <1>3 DEF GuardedWorkIsAtomic

LEMMA TransactionsStayWhole == ApiSpec => TransactionsAreWhole
  <1>1. ApiInv /\ [ApiNext]_apiVars => ApiInv' BY ApiStepKeeps
  <1>2. ApiSpec => []ApiInv BY <1>1, ApiInvStarts, PTL DEF ApiSpec
  <1>3. ApiInv /\ [ApiNext]_apiVars =>
          [At("attach") /\ api'.stage = "open" =>
              /\ session'.attached /\ session'.path
              /\ session'.timeout = api.wantTimeout
              /\ api.mode \in {"Create", "CreateAndReplace"} => disk'.gen = "new"]_apiVars
    BY ApiStepKeeps
  <1>4. ApiSpec => OpenIsConfigured BY <1>2, <1>3, PTL DEF ApiSpec, OpenIsConfigured
  <1>5. ApiSpec => [](GuardedWorkIsAtomic /\ NoTransactionLeft /\ CloseEndsSession) BY <1>2, ApiInvSays, PTL
  <1> QED BY <1>4, <1>5 DEF TransactionsAreWhole

-----------------------------------------------------------------------------
(* The async pool                                                          *)

PooledConns == [inTx : {"no", "own", "inherited"}, alive : BOOLEAN]
\* Where a task can be before the database was created, and where after
BeforeFirst == {"out", "create", "slow", "first"}
TaskPlaces == BeforeFirst \cup {"open", "hook", "using", "recycle"}
ApoolTypes ==
    apool \in [mode : {"Create", "CreateIfNotExists", "CreateAndReplace"}, strategy : {"SelectOne", "Ping", "None"},
               initialized : BOOLEAN, lock : Tasks \cup {0}, idle : Seq(PooledConns), opens : {apool.opens},
               closed : BOOLEAN]
AsyncPoolTypes ==
    /\ ApoolTypes
    /\ task \in [Tasks -> [pc : TaskPlaces, conn : PooledConns]]
    /\ adb \in [exists : BOOLEAN, rows : {adb.rows}, committed : {adb.committed}, told : {adb.told}]

\* One task at a time is in the first open, which holds init_lock; until one has
\* succeeded no task has a connection and nothing is committed.
FirstOpenIsAlone ==
    /\ \A t \in Tasks : task[t].pc = "first" => apool.lock = t /\ ~apool.initialized
    /\ ~apool.initialized => /\ adb.rows = 0 /\ apool.idle = <<>>
                             /\ \A t \in Tasks : task[t].pc \in BeforeFirst

\* With the default probe a connection in use is in no transaction but its user's.
ProbedIsClean ==
    apool.strategy = "SelectOne" =>
        \A t \in Tasks : task[t].pc \in {"hook", "using"} => task[t].conn.inTx \in {"no", "own"}

AsyncPoolInv == AsyncPoolTypes /\ FirstOpenIsAlone /\ ProbedIsClean /\ PooledWorkIsKept

\* What a step of one task keeps.
LEMMA TaskGoes ==
  ASSUME AsyncPoolInv, NEW t \in Tasks, NEW p \in TaskPlaces, NEW c \in PooledConns,
         task' = [task EXCEPT ![t] = [pc |-> p, conn |-> c]],
         ApoolTypes', apool'.strategy = apool.strategy,
         adb' \in [exists : BOOLEAN, rows : {adb'.rows}, committed : {adb'.committed}, told : {adb'.told}],
         adb'.committed = adb'.rows, adb'.told = adb.told, adb'.rows = adb.rows,
         apool.initialized => apool'.initialized,
         apool'.initialized => apool.initialized \/ apool.lock = t,
         apool'.lock = apool.lock \/ apool.lock \in {0, t},
         p = "first" => apool'.lock = t /\ ~apool'.initialized,
         p \notin BeforeFirst => apool'.initialized,
         ~apool'.initialized => apool'.idle = <<>>,
         p \in {"hook", "using"} /\ apool.strategy = "SelectOne" => c.inTx \in {"no", "own"}
  PROVE  AsyncPoolInv'
  <1>1. task \in [Tasks -> [pc : TaskPlaces, conn : PooledConns]] BY DEF AsyncPoolInv, AsyncPoolTypes
  <1>2. /\ task' \in [Tasks -> [pc : TaskPlaces, conn : PooledConns]]
        /\ task'[t].pc = p /\ task'[t].conn = c
        /\ \A s \in Tasks \ {t} : task'[s] = task[s]
    BY <1>1
  <1>3. AsyncPoolTypes' BY <1>2 DEF AsyncPoolTypes
  <1>4. FirstOpenIsAlone'
    <2>1. ASSUME NEW s \in Tasks, task'[s].pc = "first" PROVE apool'.lock = s /\ ~apool'.initialized
      <3>1. CASE s = t BY <3>1, <2>1, <1>2
      <3>2. CASE s # t
        <4>1. task[s].pc = "first" BY <3>2, <2>1, <1>2
        <4>2. apool.lock = s /\ ~apool.initialized BY <4>1 DEF AsyncPoolInv, FirstOpenIsAlone
        <4>3. apool.lock \notin {0, t} BY <4>2, <3>2, TasksAssumption
        <4> QED BY <4>2, <4>3
      <3> QED BY <3>1, <3>2
    <2>2. ASSUME ~apool'.initialized
          PROVE  adb'.rows = 0 /\ apool'.idle = <<>> /\ \A s \in Tasks : task'[s].pc \in BeforeFirst
      <3>1. ~apool.initialized BY <2>2
      <3> QED BY <2>2, <3>1, <1>2 DEF AsyncPoolInv, FirstOpenIsAlone
    <2> QED BY <2>1, <2>2 DEF FirstOpenIsAlone
  <1>5. ProbedIsClean'
    <2>1. ASSUME apool.strategy = "SelectOne", NEW s \in Tasks, task'[s].pc \in {"hook", "using"}
          PROVE  task'[s].conn.inTx \in {"no", "own"}
      <3>1. CASE s = t BY <3>1, <2>1, <1>2
      <3>2. CASE s # t BY <3>2, <2>1, <1>2 DEF AsyncPoolInv, ProbedIsClean
      <3> QED BY <3>1, <3>2
    <2> QED BY <2>1 DEF ProbedIsClean
  <1>6. PooledWorkIsKept'
    BY DEF PooledWorkIsKept, PoolKeepsCommitted, PooledInsertIsDurable, AsyncPoolInv
  <1> QED BY <1>3, <1>4, <1>5, <1>6 DEF AsyncPoolInv

LEMMA AsyncPoolFacts ==
  ASSUME AsyncPoolInv, NEW t \in Tasks
  PROVE  /\ ApoolTypes
         /\ apool.initialized \in BOOLEAN /\ apool.strategy \in {"SelectOne", "Ping", "None"}
         /\ task[t].pc \in TaskPlaces /\ task[t].conn \in PooledConns
         /\ \A p \in TaskPlaces : [task EXCEPT ![t].pc = p] = [task EXCEPT ![t] = [pc |-> p, conn |-> task[t].conn]]
         /\ NoConn \in PooledConns /\ NewConn \in PooledConns /\ NewConn.inTx = "no"
         /\ adb \in [exists : BOOLEAN, rows : {adb.rows}, committed : {adb.committed}, told : {adb.told}]
         /\ adb.committed = adb.rows
         /\ task[t].pc = "first" => apool.lock = t /\ ~apool.initialized
         /\ task[t].pc \notin BeforeFirst => apool.initialized
         /\ ~apool.initialized => apool.idle = <<>> /\ adb.rows = 0
         /\ apool.idle # <<>> => Head(apool.idle) \in PooledConns /\ Tail(apool.idle) \in Seq(PooledConns)
  <1>1. ApoolTypes /\ apool.initialized \in BOOLEAN /\ apool.strategy \in {"SelectOne", "Ping", "None"}
        /\ apool.idle \in Seq(PooledConns)
    BY DEF AsyncPoolInv, AsyncPoolTypes, ApoolTypes
  <1>2. task \in [Tasks -> [pc : TaskPlaces, conn : PooledConns]] BY DEF AsyncPoolInv, AsyncPoolTypes
  <1>3. ASSUME NEW p \in TaskPlaces
        PROVE  [task EXCEPT ![t].pc = p] = [task EXCEPT ![t] = [pc |-> p, conn |-> task[t].conn]]
    <2>1. task[t] \in [pc : TaskPlaces, conn : PooledConns] BY <1>2
    <2>2. [task[t] EXCEPT !.pc = p] = [pc |-> p, conn |-> task[t].conn] BY <2>1
    <2>3. [task EXCEPT ![t].pc = p] = [task EXCEPT ![t] = [task[t] EXCEPT !.pc = p]] BY <1>2
    <2> QED BY <2>2, <2>3
  <1>4. NoConn \in PooledConns /\ NewConn \in PooledConns /\ NewConn.inTx = "no"
    BY DEF NoConn, NewConn, PooledConns
  <1>5. adb \in [exists : BOOLEAN, rows : {adb.rows}, committed : {adb.committed}, told : {adb.told}]
    BY DEF AsyncPoolInv, AsyncPoolTypes
  <1>6. adb.committed = adb.rows BY DEF AsyncPoolInv, PooledWorkIsKept, PoolKeepsCommitted
  <1>7. /\ task[t].pc = "first" => apool.lock = t /\ ~apool.initialized
        /\ task[t].pc \notin BeforeFirst => apool.initialized
        /\ ~apool.initialized => apool.idle = <<>> /\ adb.rows = 0
    BY DEF AsyncPoolInv, FirstOpenIsAlone
  <1>8. apool.idle # <<>> => Head(apool.idle) \in PooledConns /\ Tail(apool.idle) \in Seq(PooledConns)
    BY <1>1, HeadTailProperties
  <1> QED BY <1>1, <1>2, <1>3, <1>4, <1>5, <1>6, <1>7, <1>8

\* A step of one task that leaves the pool's settings and the database alone.
LEMMA TaskMoves ==
  ASSUME AsyncPoolInv, NEW t \in Tasks, NEW p \in TaskPlaces, NEW c \in PooledConns,
         task' = [task EXCEPT ![t] = [pc |-> p, conn |-> c]], UNCHANGED <<apool, adb>>,
         p # "first", p \notin BeforeFirst => apool.initialized,
         p \in {"hook", "using"} /\ apool.strategy = "SelectOne" => c.inTx \in {"no", "own"}
  PROVE  AsyncPoolInv'
  <1>1. ApoolTypes' BY AsyncPoolFacts DEF ApoolTypes
  <1>2. /\ adb' \in [exists : BOOLEAN, rows : {adb'.rows}, committed : {adb'.committed}, told : {adb'.told}]
        /\ adb'.committed = adb'.rows
    BY AsyncPoolFacts
  <1>3. ~apool.initialized => apool.idle = <<>> BY AsyncPoolFacts
  <1> QED BY <1>1, <1>2, <1>3, TaskGoes

\* get takes the first idle connection to recycle it.
LEMMA TakesIdle ==
  ASSUME AsyncPoolInv, NEW t \in Tasks, apool.idle # <<>>,
         StepWith(t, "recycle", Head(apool.idle)), apool' = [apool EXCEPT !.idle = Tail(@)], UNCHANGED adb
  PROVE  AsyncPoolInv'
  <1> DEFINE c == Head(apool.idle)
             q == Tail(apool.idle)
  <1>1. c \in PooledConns /\ q \in Seq(PooledConns) BY AsyncPoolFacts
  <1>2. apool' = [apool EXCEPT !.idle = q] /\ task' = [task EXCEPT ![t] = [pc |-> "recycle", conn |-> c]]
    BY DEF StepWith
  <1> HIDE DEF c, q
  <1>3. /\ ApoolTypes' /\ apool'.strategy = apool.strategy /\ apool'.initialized = apool.initialized
        /\ apool'.lock = apool.lock
    BY <1>1, <1>2, AsyncPoolFacts DEF ApoolTypes
  <1>4. /\ adb' \in [exists : BOOLEAN, rows : {adb'.rows}, committed : {adb'.committed}, told : {adb'.told}]
        /\ adb'.committed = adb'.rows
    BY AsyncPoolFacts
  <1>5. apool.initialized BY AsyncPoolFacts
  <1>6. "recycle" \in TaskPlaces /\ "recycle" # "first" /\ "recycle" \notin {"hook", "using"} BY DEF TaskPlaces
  <1> QED BY <1>1, <1>2, <1>3, <1>4, <1>5, <1>6, TaskGoes

LEMMA PoolGetKeeps == ASSUME AsyncPoolInv, NEW t \in Tasks, PoolGet(t) PROVE AsyncPoolInv'
  <1>1. CASE apool.idle = <<>>
    <2>1. task' = [task EXCEPT ![t] = [pc |-> "create", conn |-> task[t].conn]] /\ UNCHANGED <<apool, adb>>
      BY <1>1, AsyncPoolFacts DEF PoolGet, TakeIdleOrCreate, Step, TaskPlaces, BeforeFirst
    <2>2. task[t].conn \in PooledConns BY AsyncPoolFacts
    <2>3. "create" \in TaskPlaces /\ "create" \in BeforeFirst /\ "create" # "first" /\ "create" \notin {"hook", "using"}
      BY DEF TaskPlaces, BeforeFirst
    <2> QED BY <2>1, <2>2, <2>3, TaskMoves
  <1>2. CASE apool.idle # <<>> BY <1>2, TakesIdle DEF PoolGet, TakeIdleOrCreate
  <1> QED BY <1>1, <1>2

LEMMA ReadInitializedKeeps == ASSUME AsyncPoolInv, NEW t \in Tasks, ReadInitialized(t) PROVE AsyncPoolInv'
  <1> DEFINE p == IF apool.initialized THEN "open" ELSE "slow"
  <1>1. p \in TaskPlaces /\ p # "first" /\ (p \notin BeforeFirst => apool.initialized) /\ p \notin {"hook", "using"}
    BY DEF TaskPlaces, BeforeFirst
  <1>2. task' = [task EXCEPT ![t].pc = p] /\ UNCHANGED <<apool, adb>> BY DEF ReadInitialized, Step
  <1> HIDE DEF p
  <1> DEFINE c == task[t].conn
  <1>3. task' = [task EXCEPT ![t] = [pc |-> p, conn |-> c]] /\ c \in PooledConns /\ UNCHANGED <<apool, adb>>
    BY <1>1, <1>2, AsyncPoolFacts
  <1> HIDE DEF c
  <1> QED BY <1>1, <1>3, TaskMoves

LEMMA LockAndRecheckKeeps == ASSUME AsyncPoolInv, NEW t \in Tasks, LockAndRecheck(t) PROVE AsyncPoolInv'
  <1>0. task[t].conn \in PooledConns /\ "open" \in TaskPlaces /\ "first" \in TaskPlaces
    BY AsyncPoolFacts DEF TaskPlaces, BeforeFirst
  <1>1. CASE apool.initialized
    <2>1. task' = [task EXCEPT ![t] = [pc |-> "open", conn |-> task[t].conn]] /\ UNCHANGED <<apool, adb>>
      BY <1>0, <1>1, AsyncPoolFacts DEF LockAndRecheck, Step
    <2>2. "open" # "first" /\ "open" \notin {"hook", "using"} OBVIOUS
    <2> QED BY <1>0, <1>1, <2>1, <2>2, TaskMoves
  <1>2. CASE ~apool.initialized
    <2>1. /\ task' = [task EXCEPT ![t] = [pc |-> "first", conn |-> task[t].conn]] /\ UNCHANGED adb
          /\ apool' = [apool EXCEPT !.lock = t] /\ apool.lock = 0
      BY <1>0, <1>2, AsyncPoolFacts DEF LockAndRecheck, Step
    <2>2. /\ ApoolTypes' /\ apool'.strategy = apool.strategy /\ apool'.initialized = apool.initialized
          /\ apool'.lock = t /\ apool'.idle = <<>>
      BY <1>2, <2>1, AsyncPoolFacts DEF ApoolTypes
    <2>3. /\ adb' \in [exists : BOOLEAN, rows : {adb'.rows}, committed : {adb'.committed}, told : {adb'.told}]
          /\ adb'.committed = adb'.rows
      BY <2>1, AsyncPoolFacts
    <2>4. "first" \in BeforeFirst /\ "first" \notin {"hook", "using"} BY DEF BeforeFirst
    <2> QED BY <1>0, <1>2, <2>1, <2>2, <2>3, <2>4, TaskGoes
  <1> QED BY <1>1, <1>2 DEF ApoolTypes, AsyncPoolInv, AsyncPoolTypes

\* The database is created, or not, while nothing is committed to it.
LEMMA CreatedKeeps ==
  ASSUME AsyncPoolInv, NEW t \in Tasks, task[t].pc = "first", adb' = adb \/ adb' = Created
  PROVE  /\ adb' \in [exists : BOOLEAN, rows : {adb'.rows}, committed : {adb'.committed}, told : {adb'.told}]
         /\ adb'.committed = adb'.rows /\ adb'.told = adb.told /\ adb'.rows = adb.rows
  <1>1. /\ adb \in [exists : BOOLEAN, rows : {adb.rows}, committed : {adb.committed}, told : {adb.told}]
        /\ adb.committed = adb.rows /\ adb.rows = 0
    BY AsyncPoolFacts
  <1>2. CASE adb' = adb BY <1>1, <1>2
  <1>3. CASE adb' = Created
    <2>1. CASE apool.mode = "CreateAndReplace"
      <3>1. adb' = [adb EXCEPT !.exists = TRUE, !.rows = 0] BY <1>3, <2>1 DEF Created
      <3> QED BY <1>1, <3>1
    <2>2. CASE apool.mode # "CreateAndReplace"
      <3>1. adb' = [adb EXCEPT !.exists = TRUE] BY <1>3, <2>2 DEF Created
      <3> QED BY <1>1, <3>1
    <2> QED BY <2>1, <2>2
  <1> QED BY <1>2, <1>3

LEMMA OpenFirstConnKeeps == ASSUME AsyncPoolInv, NEW t \in Tasks, OpenFirstConn(t) PROVE AsyncPoolInv'
  <1> DEFINE n == apool.opens + 1
             c == NewConn
  <1>1. /\ task[t].pc = "first" /\ adb' = Created /\ task' = [task EXCEPT ![t] = [pc |-> "hook", conn |-> c]]
        /\ apool' = [apool EXCEPT !.lock = 0, !.initialized = TRUE, !.opens = n]
    BY DEF OpenFirstConn, IsIn, StepWith
  <1>2. c \in PooledConns /\ c.inTx = "no" /\ apool.lock = t BY <1>1, AsyncPoolFacts
  <1> HIDE DEF n, c
  <1>3. ApoolTypes' /\ apool'.strategy = apool.strategy /\ apool'.initialized = TRUE /\ apool'.lock = 0
    BY <1>1, AsyncPoolFacts DEF ApoolTypes
  <1>4. /\ adb' \in [exists : BOOLEAN, rows : {adb'.rows}, committed : {adb'.committed}, told : {adb'.told}]
        /\ adb'.committed = adb'.rows /\ adb'.told = adb.told /\ adb'.rows = adb.rows
    BY <1>1, CreatedKeeps
  <1>5. "hook" \in TaskPlaces /\ "hook" # "first" BY DEF TaskPlaces
  <1> QED BY <1>1, <1>2, <1>3, <1>4, <1>5, TaskGoes

LEMMA OpenFirstFailsKeeps == ASSUME AsyncPoolInv, NEW t \in Tasks, OpenFirstFails(t) PROVE AsyncPoolInv'
  <1> DEFINE n == apool.opens + 1
             c == NoConn
  <1>1. apool' = [apool EXCEPT !.lock = 0, !.opens = n] BY DEF OpenFirstFails
  <1>2. task[t].pc = "first" /\ (adb' = adb \/ adb' = Created) /\ task' = [task EXCEPT ![t] = [pc |-> "out", conn |-> c]]
    BY DEF OpenFirstFails, IsIn, StepWith
  <1>3. c \in PooledConns /\ apool.lock = t BY <1>2, AsyncPoolFacts
  <1> HIDE DEF n, c
  <1>4. /\ ApoolTypes' /\ apool'.strategy = apool.strategy /\ apool'.initialized = apool.initialized /\ apool'.lock = 0
        /\ apool'.idle = apool.idle
    BY <1>1, AsyncPoolFacts DEF ApoolTypes
  <1>5. /\ adb' \in [exists : BOOLEAN, rows : {adb'.rows}, committed : {adb'.committed}, told : {adb'.told}]
        /\ adb'.committed = adb'.rows /\ adb'.told = adb.told /\ adb'.rows = adb.rows
    BY <1>2, CreatedKeeps
  <1>6. "out" \in TaskPlaces /\ "out" \in BeforeFirst /\ "out" # "first" /\ "out" \notin {"hook", "using"}
    BY DEF TaskPlaces, BeforeFirst
  <1>7. ~apool.initialized => apool.idle = <<>> BY AsyncPoolFacts
  <1> QED BY <1>2, <1>3, <1>4, <1>5, <1>6, <1>7, TaskGoes

LEMMA OpenNextKeeps == ASSUME AsyncPoolInv, NEW t \in Tasks, OpenNext(t) PROVE AsyncPoolInv'
  <1> DEFINE n == apool.opens + 1
             c == NewConn
  <1>1. /\ task[t].pc = "open" /\ adb' = adb /\ task' = [task EXCEPT ![t] = [pc |-> "hook", conn |-> c]]
        /\ apool' = [apool EXCEPT !.opens = n]
    BY DEF OpenNext, IsIn, StepWith
  <1>2. c \in PooledConns /\ c.inTx = "no" /\ apool.initialized BY <1>1, AsyncPoolFacts DEF BeforeFirst
  <1> HIDE DEF n, c
  <1>3. /\ ApoolTypes' /\ apool'.strategy = apool.strategy /\ apool'.initialized = apool.initialized
        /\ apool'.lock = apool.lock
    BY <1>1, AsyncPoolFacts DEF ApoolTypes
  <1>4. /\ adb' \in [exists : BOOLEAN, rows : {adb'.rows}, committed : {adb'.committed}, told : {adb'.told}]
        /\ adb'.committed = adb'.rows
    BY <1>1, AsyncPoolFacts
  <1>5. "hook" \in TaskPlaces /\ "hook" # "first" BY DEF TaskPlaces
  <1> QED BY <1>1, <1>2, <1>3, <1>4, <1>5, TaskGoes

LEMMA AfterConnectKeeps == ASSUME AsyncPoolInv, NEW t \in Tasks, AfterConnect(t) PROVE AsyncPoolInv'
  <1>1. "using" \in TaskPlaces /\ "using" # "first" /\ "hook" \notin BeforeFirst BY DEF TaskPlaces, BeforeFirst
  <1>2. task[t].pc = "hook" /\ task' = [task EXCEPT ![t].pc = "using"] /\ UNCHANGED <<apool, adb>>
    BY DEF AfterConnect, Step, IsIn
  <1> DEFINE c == task[t].conn
  <1>3. /\ task' = [task EXCEPT ![t] = [pc |-> "using", conn |-> c]] /\ c \in PooledConns
        /\ apool.initialized /\ UNCHANGED <<apool, adb>>
    BY <1>1, <1>2, AsyncPoolFacts
  <1>4. apool.strategy = "SelectOne" => c.inTx \in {"no", "own"} BY <1>2 DEF AsyncPoolInv, ProbedIsClean
  <1> HIDE DEF c
  <1> QED BY <1>1, <1>3, <1>4, TaskMoves

LEMMA GetEndsKeeps == ASSUME AsyncPoolInv, NEW t \in Tasks, GetEnds(t) PROVE AsyncPoolInv'
  <1> DEFINE l == IF apool.lock = t THEN 0 ELSE apool.lock
             c == NoConn
  <1>1. /\ task' = [task EXCEPT ![t] = [pc |-> "out", conn |-> c]] /\ adb' = adb /\ apool' = [apool EXCEPT !.lock = l]
    BY DEF GetEnds, GiveUp, StepWith
  <1>2. c \in PooledConns /\ l \in Tasks \cup {0} /\ (l = apool.lock \/ apool.lock = t) BY AsyncPoolFacts DEF ApoolTypes
  <1> HIDE DEF l, c
  <1>3. /\ ApoolTypes' /\ apool'.strategy = apool.strategy /\ apool'.initialized = apool.initialized /\ apool'.lock = l
        /\ apool'.idle = apool.idle
    BY <1>1, <1>2, AsyncPoolFacts DEF ApoolTypes
  <1>4. /\ adb' \in [exists : BOOLEAN, rows : {adb'.rows}, committed : {adb'.committed}, told : {adb'.told}]
        /\ adb'.committed = adb'.rows
    BY <1>1, AsyncPoolFacts
  <1>5. "out" \in TaskPlaces /\ "out" \in BeforeFirst /\ "out" # "first" /\ "out" \notin {"hook", "using"}
    BY DEF TaskPlaces, BeforeFirst
  <1>6. ~apool.initialized => apool.idle = <<>> BY AsyncPoolFacts
  <1> QED BY <1>1, <1>2, <1>3, <1>4, <1>5, <1>6, TaskGoes

LEMMA RecycleKeeps == ASSUME AsyncPoolInv, NEW t \in Tasks, Recycle(t) \/ RecycleFails(t) PROVE AsyncPoolInv'
  <1>1. CASE Recycle(t)
    <2> DEFINE c == Probe(task[t].conn)
    <2>1. task[t].pc = "recycle" /\ task' = [task EXCEPT ![t] = [pc |-> "using", conn |-> c]] /\ UNCHANGED <<apool, adb>>
      BY <1>1 DEF Recycle, IsIn, StepWith
    <2>2. task[t].conn \in PooledConns /\ apool.initialized BY <2>1, AsyncPoolFacts DEF BeforeFirst
    <2>3. c \in PooledConns /\ (apool.strategy = "SelectOne" => c.inTx \in {"no", "own"})
      BY <2>2 DEF Probe, PooledConns
    <2>4. "using" \in TaskPlaces /\ "using" # "first" BY DEF TaskPlaces
    <2> HIDE DEF c
    <2> QED BY <2>1, <2>2, <2>3, <2>4, TaskMoves
  <1>2. CASE RecycleFails(t) /\ apool.idle = <<>>
    <2> DEFINE c == NoConn
    <2>1. c \in PooledConns /\ task' = [task EXCEPT ![t] = [pc |-> "create", conn |-> c]] /\ UNCHANGED <<apool, adb>>
      BY <1>2, AsyncPoolFacts DEF RecycleFails, StepWith
    <2>2. "create" \in TaskPlaces /\ "create" \in BeforeFirst /\ "create" # "first" /\ "create" \notin {"hook", "using"}
      BY DEF TaskPlaces, BeforeFirst
    <2> HIDE DEF c
    <2> QED BY <2>1, <2>2, TaskMoves
  <1>3. CASE RecycleFails(t) /\ apool.idle # <<>> BY <1>3, TakesIdle DEF RecycleFails
  <1> QED BY <1>1, <1>2, <1>3

LEMMA InsertKeeps == ASSUME AsyncPoolInv, NEW t \in Tasks, Insert(t) PROVE AsyncPoolInv'
  <1> DEFINE n == IF task[t].conn.inTx = "no" THEN 1 ELSE 0
             r == adb.rows + n
             k == adb.committed + n
             s == adb.told + 1
  <1>1. /\ task[t].pc = "using" /\ task[t].conn.inTx # "own" /\ UNCHANGED <<apool, task>>
        /\ adb' = [adb EXCEPT !.rows = r, !.committed = k, !.told = s]
    BY DEF Insert, IsIn
  <1>2. apool.initialized BY <1>1, AsyncPoolFacts DEF BeforeFirst
  <1>3. k = r BY AsyncPoolFacts
  <1>4. apool.strategy = "SelectOne" => s = k
    <2>1. apool.strategy = "SelectOne" => n = 1 BY <1>1 DEF AsyncPoolInv, ProbedIsClean
    <2>2. apool.strategy = "SelectOne" => adb.told = adb.committed
      BY DEF AsyncPoolInv, PooledWorkIsKept, PooledInsertIsDurable
    <2> QED BY <2>1, <2>2
  <1> HIDE DEF r, k, s
  <1>5. /\ adb' \in [exists : BOOLEAN, rows : {adb'.rows}, committed : {adb'.committed}, told : {adb'.told}]
        /\ adb'.rows = r /\ adb'.committed = k /\ adb'.told = s
    BY <1>1, AsyncPoolFacts
  <1>6. AsyncPoolTypes' BY <1>1, <1>5 DEF AsyncPoolInv, AsyncPoolTypes, ApoolTypes
  <1>7. FirstOpenIsAlone' BY <1>1, <1>2 DEF AsyncPoolInv, FirstOpenIsAlone
  <1>8. ProbedIsClean' BY <1>1 DEF AsyncPoolInv, ProbedIsClean
  <1>9. PooledWorkIsKept' BY <1>1, <1>3, <1>4, <1>5 DEF PooledWorkIsKept, PoolKeepsCommitted, PooledInsertIsDurable
  <1> QED BY <1>6, <1>7, <1>8, <1>9 DEF AsyncPoolInv

LEMMA UserKeeps == ASSUME AsyncPoolInv, NEW t \in Tasks, AbandonTransaction(t) \/ ConnDies(t) PROVE AsyncPoolInv'
  <1>1. /\ task[t].pc = "using" /\ UNCHANGED <<apool, adb>> BY DEF AbandonTransaction, ConnDies, IsIn
  <1>2. apool.initialized /\ task[t].conn \in PooledConns BY <1>1, AsyncPoolFacts DEF BeforeFirst
  <1>3. task \in [Tasks -> [pc : TaskPlaces, conn : PooledConns]] BY DEF AsyncPoolInv, AsyncPoolTypes
  <1>4. apool.strategy = "SelectOne" => task[t].conn.inTx \in {"no", "own"} BY <1>1 DEF AsyncPoolInv, ProbedIsClean
  <1>5. PICK c \in PooledConns :
          /\ task' = [task EXCEPT ![t] = [pc |-> "using", conn |-> c]]
          /\ apool.strategy = "SelectOne" => c.inTx \in {"no", "own"}
    <2> DEFINE a == [task[t].conn EXCEPT !.inTx = "own"]
               d == [task[t].conn EXCEPT !.alive = FALSE]
    <2>1. a \in PooledConns /\ a.inTx = "own" /\ d \in PooledConns /\ d.inTx = task[t].conn.inTx
      BY <1>2 DEF PooledConns
    <2>2. task[t] \in [pc : TaskPlaces, conn : PooledConns] BY <1>3
    <2>3. /\ AbandonTransaction(t) => task' = [task EXCEPT ![t] = [task[t] EXCEPT !.conn = a]]
          /\ ConnDies(t) => task' = [task EXCEPT ![t] = [task[t] EXCEPT !.conn = d]]
      BY <1>3 DEF AbandonTransaction, ConnDies
    <2> HIDE DEF a, d
    <2>4. CASE AbandonTransaction(t)
      <3>1. task' = [task EXCEPT ![t] = [task[t] EXCEPT !.conn = a]] BY <2>4, <2>3
      <3>2. [task[t] EXCEPT !.conn = a] = [pc |-> "using", conn |-> a] BY <1>1, <2>2
      <3> QED BY <3>1, <3>2, <2>1
    <2>5. CASE ConnDies(t)
      <3>1. task' = [task EXCEPT ![t] = [task[t] EXCEPT !.conn = d]] BY <2>5, <2>3
      <3>2. [task[t] EXCEPT !.conn = d] = [pc |-> "using", conn |-> d] BY <1>1, <2>2
      <3> QED BY <3>1, <3>2, <2>1, <1>4
    <2> QED BY <2>4, <2>5
  <1>6. "using" \in TaskPlaces /\ "using" # "first" BY DEF TaskPlaces
  <1> QED BY <1>1, <1>2, <1>5, <1>6, TaskMoves

LEMMA ReturnKeeps == ASSUME AsyncPoolInv, NEW t \in Tasks, Return(t) PROVE AsyncPoolInv'
  <1> DEFINE c == NoConn
             q == IF apool.closed THEN apool.idle ELSE Append(apool.idle, Returned(task[t].conn))
  <1>1. /\ task[t].pc = "using" /\ task' = [task EXCEPT ![t] = [pc |-> "out", conn |-> c]] /\ adb' = adb
        /\ apool' = [apool EXCEPT !.idle = q]
    BY DEF Return, IsIn, StepWith
  <1>2. c \in PooledConns /\ apool.initialized /\ task[t].conn \in PooledConns BY <1>1, AsyncPoolFacts DEF BeforeFirst
  <1>3. Returned(task[t].conn) \in PooledConns BY <1>2 DEF Returned, PooledConns
  <1>4. apool.idle \in Seq(PooledConns) BY AsyncPoolFacts DEF ApoolTypes
  <1>5. q \in Seq(PooledConns) BY <1>3, <1>4, AppendProperties
  <1> HIDE DEF q, c
  <1>6. /\ ApoolTypes' /\ apool'.strategy = apool.strategy /\ apool'.initialized = apool.initialized
        /\ apool'.lock = apool.lock
    BY <1>1, <1>5, AsyncPoolFacts DEF ApoolTypes
  <1>7. /\ adb' \in [exists : BOOLEAN, rows : {adb'.rows}, committed : {adb'.committed}, told : {adb'.told}]
        /\ adb'.committed = adb'.rows
    BY <1>1, AsyncPoolFacts
  <1>8. "out" \in TaskPlaces /\ "out" \in BeforeFirst /\ "out" # "first" /\ "out" \notin {"hook", "using"}
    BY DEF TaskPlaces, BeforeFirst
  <1> QED BY <1>1, <1>2, <1>6, <1>7, <1>8, TaskGoes

LEMMA TakeOutKeeps == ASSUME AsyncPoolInv, NEW t \in Tasks, TakeOut(t) PROVE AsyncPoolInv'
  <1> DEFINE c == NoConn
  <1>1. c \in PooledConns /\ task' = [task EXCEPT ![t] = [pc |-> "out", conn |-> c]] /\ UNCHANGED <<apool, adb>>
    BY AsyncPoolFacts DEF TakeOut, StepWith
  <1>2. "out" \in TaskPlaces /\ "out" \in BeforeFirst /\ "out" # "first" /\ "out" \notin {"hook", "using"}
    BY DEF TaskPlaces, BeforeFirst
  <1> HIDE DEF c
  <1> QED BY <1>1, <1>2, TaskMoves

LEMMA ClosePoolKeeps == ASSUME AsyncPoolInv, ClosePool PROVE AsyncPoolInv'
  <1>1. apool' = [apool EXCEPT !.closed = TRUE, !.idle = <<>>] /\ UNCHANGED <<task, adb>> BY DEF ClosePool
  <1>2. <<>> \in Seq(PooledConns) BY EmptySeq
  <1>3. /\ ApoolTypes' /\ apool'.strategy = apool.strategy /\ apool'.initialized = apool.initialized
        /\ apool'.lock = apool.lock /\ apool'.idle = <<>>
    BY <1>1, <1>2 DEF AsyncPoolInv, AsyncPoolTypes, ApoolTypes
  <1>4. AsyncPoolTypes' BY <1>1, <1>3 DEF AsyncPoolInv, AsyncPoolTypes
  <1>5. FirstOpenIsAlone' BY <1>1, <1>3 DEF AsyncPoolInv, FirstOpenIsAlone
  <1>6. ProbedIsClean' BY <1>1, <1>3 DEF AsyncPoolInv, ProbedIsClean
  <1>7. PooledWorkIsKept'
    BY <1>1, <1>3 DEF AsyncPoolInv, PooledWorkIsKept, PoolKeepsCommitted, PooledInsertIsDurable
  <1> QED BY <1>4, <1>5, <1>6, <1>7 DEF AsyncPoolInv

LEMMA AsyncPoolStarts == AsyncPoolInit => AsyncPoolInv
  <1> SUFFICES ASSUME AsyncPoolInit PROVE AsyncPoolInv OBVIOUS
  <1>1. <<>> \in Seq(PooledConns) BY EmptySeq
  <1>2. ApoolTypes /\ apool.idle = <<>> BY <1>1 DEF AsyncPoolInit, ApoolTypes
  <1>3. NoConn \in PooledConns /\ "out" \in TaskPlaces /\ "out" \in BeforeFirst
    BY DEF NoConn, PooledConns, TaskPlaces, BeforeFirst
  <1>4. /\ task \in [Tasks -> [pc : TaskPlaces, conn : PooledConns]]
        /\ \A t \in Tasks : task[t].pc = "out"
    BY <1>3 DEF AsyncPoolInit
  <1>5. /\ adb \in [exists : BOOLEAN, rows : {adb.rows}, committed : {adb.committed}, told : {adb.told}]
        /\ adb.rows = 0 /\ adb.committed = 0 /\ adb.told = 0
    BY DEF AsyncPoolInit
  <1>6. AsyncPoolTypes BY <1>2, <1>4, <1>5 DEF AsyncPoolTypes
  <1>7. FirstOpenIsAlone BY <1>2, <1>3, <1>4, <1>5 DEF FirstOpenIsAlone
  <1>8. ProbedIsClean BY <1>4 DEF ProbedIsClean
  <1>9. PooledWorkIsKept BY <1>5 DEF PooledWorkIsKept, PoolKeepsCommitted, PooledInsertIsDurable
  <1> QED BY <1>6, <1>7, <1>8, <1>9 DEF AsyncPoolInv

LEMMA AsyncPoolStepKeeps == AsyncPoolInv /\ [AsyncPoolNext]_asyncPoolVars => AsyncPoolInv'
  <1> SUFFICES ASSUME AsyncPoolInv, [AsyncPoolNext]_asyncPoolVars PROVE AsyncPoolInv' OBVIOUS
  <1>1. CASE UNCHANGED asyncPoolVars
    BY <1>1 DEF asyncPoolVars, AsyncPoolInv, AsyncPoolTypes, ApoolTypes, FirstOpenIsAlone, ProbedIsClean,
                PooledWorkIsKept, PoolKeepsCommitted, PooledInsertIsDurable
  <1>2. ASSUME NEW t \in Tasks,
               \/ PoolGet(t) \/ ReadInitialized(t) \/ LockAndRecheck(t) \/ OpenFirstConn(t)
               \/ OpenFirstFails(t) \/ OpenNext(t) \/ AfterConnect(t) \/ GetEnds(t)
               \/ Recycle(t) \/ RecycleFails(t) \/ Insert(t) \/ AbandonTransaction(t)
               \/ ConnDies(t) \/ Return(t) \/ TakeOut(t)
        PROVE  AsyncPoolInv'
    BY <1>2, PoolGetKeeps, ReadInitializedKeeps, LockAndRecheckKeeps, OpenFirstConnKeeps, OpenFirstFailsKeeps,
       OpenNextKeeps, AfterConnectKeeps, GetEndsKeeps, RecycleKeeps, InsertKeeps, UserKeeps, ReturnKeeps, TakeOutKeeps
  <1>3. CASE ClosePool BY <1>3, ClosePoolKeeps
  <1> QED BY <1>1, <1>2, <1>3 DEF AsyncPoolNext

LEMMA PooledWorkStays == AsyncPoolSpec => []PooledWorkIsKept
  <1>1. AsyncPoolInv => PooledWorkIsKept BY DEF AsyncPoolInv
  <1> QED BY <1>1, AsyncPoolStarts, AsyncPoolStepKeeps, PTL DEF AsyncPoolSpec

\* For any tasks, pool size, guards and rows: a connection is handed out with what
\* was asked for, of the rows written under a guard all become durable or none,
\* a blocking guard leaves no transaction behind, close ends the session, and no
\* first open of the pool replaces a database that others have written to
\* (transaction.rs:48, connection.rs:303, pool.rs:527).
THEOREM CommittedWorkStays == ApiSpec /\ AsyncPoolSpec => CommittedWorkIsKept
  BY TransactionsStayWhole, PooledWorkStays, PTL DEF CommittedWorkIsKept

-----------------------------------------------------------------------------
(* Loading Arrow streams and text                                        *)

ArrowTypes ==
    /\ arrow \in [kind : ArrowKinds, mode : {"none", "RawIpc", "BatchIpc"}, schemaSent : BOOLEAN, buffered : Nat,
                  open : BOOLEAN, ipcMade : BOOLEAN, stage : {"open", "failed", "done", "cancelled"},
                  calls : Nat, given : {arrow.given}, raw : BOOLEAN, dropped : BOOLEAN]
    /\ arrow.given \in Seq(Nat) /\ copied \in Seq(Nat)

\* What an inserter has sent is what it was given, after one schema.
SentIsGiven ==
    arrow.stage = "open" =>
        /\ copied = <<>> => arrow.given = <<>>
        /\ ~arrow.open => copied = <<>>
        /\ AcceptedStream(copied) => Tail(copied) = arrow.given
        /\ arrow.kind = "import" => copied = arrow.given

\* The fields of the inserter say whether the stream has its schema.
SchemaIsNoted ==
    /\ arrow.mode = "BatchIpc" => arrow.ipcMade /\ arrow.schemaSent
    /\ arrow.ipcMade => arrow.mode = "BatchIpc" /\ arrow.kind = "sync"
    /\ arrow.mode = "RawIpc" => arrow.schemaSent
    /\ arrow.kind = "import" => ~arrow.raw /\ arrow.mode = "none"
    /\ arrow.kind = "sync" => /\ ~arrow.dropped
                              /\ arrow.mode = "none" => ~arrow.schemaSent
    /\ ~arrow.raw /\ (arrow.dropped => arrow.kind = "owned") /\ arrow.kind # "import" /\ arrow.stage = "open" =>
          /\ arrow.schemaSent => arrow.open
          /\ ~arrow.schemaSent => copied = <<>> /\ ~arrow.open
    /\ arrow.stage # "open" => ~arrow.open

ArrowInv == ArrowTypes /\ SentIsGiven /\ SchemaIsNoted /\ ArrowLoadIsWhole

\* Batches after an accepted stream are part of it, and no schema can follow.
LEMMA StreamGrows ==
  ASSUME ArrowInv, arrow.stage = "open", NEW schema \in {<<>>, <<Schema>>}, NEW b \in {<<>>, <<ThisCall>>},
         copied' = copied \o schema \o b
  PROVE  /\ copied' \in Seq(Nat) /\ arrow.given \o b \in Seq(Nat) /\ Len(schema \o b) \in Nat
         /\ copied' = <<>> => arrow.given \o b = <<>>
         /\ AcceptedStream(copied') => Tail(copied') = arrow.given \o b
         /\ AcceptedStream(copied) /\ schema = <<>> => AcceptedStream(copied')
         /\ copied = <<>> /\ schema = <<Schema>> => AcceptedStream(copied')
  <1>0. /\ ThisCall \in Nat \ {0} /\ copied \in Seq(Nat) /\ arrow.given \in Seq(Nat)
        /\ copied = <<>> => arrow.given = <<>>
        /\ AcceptedStream(copied) => Tail(copied) = arrow.given
    BY DEF ArrowInv, ArrowTypes, SentIsGiven, ThisCall
  <1>1. schema \in Seq(Nat) /\ b \in Seq(Nat) /\ Len(schema) \in 0 .. 1 /\ Len(b) \in 0 .. 1
    <2>1. <<ThisCall>> \in Seq(Nat) /\ Len(<<ThisCall>>) = 1 /\ <<Schema>> \in Seq(Nat) /\ Len(<<Schema>>) = 1 BY <1>0 DEF Schema
    <2>2. <<>> \in Seq(Nat) /\ Len(<<>>) = 0 BY <1>0
    <2>3. schema \in Seq(Nat) /\ Len(schema) \in 0 .. 1
      <3>1. CASE schema = <<>> BY <1>0, <3>1
      <3>2. CASE schema = <<Schema>> BY <1>0, <3>2, <2>1
      <3> QED BY <1>0, <3>1, <3>2
    <2>4. b \in Seq(Nat) /\ Len(b) \in 0 .. 1
      <3>1. CASE b = <<>> BY <1>0, <3>1
      <3>2. CASE b = <<ThisCall>> BY <1>0, <3>2, <2>1
      <3> QED BY <1>0, <3>1, <3>2
    <2> QED BY <1>0, <2>3, <2>4
  <1>2. copied' \in Seq(Nat) /\ arrow.given \o b \in Seq(Nat) /\ Len(schema \o b) \in Nat BY <1>0, <1>1
  <1>3. Len(copied') = Len(copied) + Len(schema) + Len(b) BY <1>0, <1>1
  <1>4. \A i \in 1 .. Len(copied) : copied'[i] = copied[i] BY <1>0, <1>1
  <1>5. \A i \in 1 .. Len(b) : copied'[Len(copied) + Len(schema) + i] = b[i] BY <1>0, <1>1
  <1>6. ASSUME NEW i \in 1 .. Len(schema) PROVE copied'[Len(copied) + i] = schema[i]
    <2> DEFINE u == copied \o schema
    <2>1. u \in Seq(Nat) /\ Len(u) = Len(copied) + Len(schema) BY <1>0, <1>1
    <2>2. u[Len(copied) + i] = schema[i] BY <1>0, <1>1
    <2>3. Len(copied) + i \in 1 .. Len(u) BY <1>0, <1>1, <2>1
    <2>4. copied' = u \o b BY <1>0
    <2> HIDE DEF u
    <2>5. (u \o b)[Len(copied) + i] = u[Len(copied) + i] BY <1>1, <2>1, <2>3
    <2> QED BY <2>2, <2>4, <2>5
  <1>7. \A i \in 1 .. Len(b) : b[i] = ThisCall /\ b[i] # Schema BY <1>0 DEF Schema
  <1>8. CASE schema = <<>>
    <2>1. copied' = copied \o b BY <1>0, <1>1, <1>8
    <2>2. CASE copied = <<>>
      <3>1. copied' = b BY <1>0, <2>1, <2>2, <1>1
      <3>2. ~AcceptedStream(copied')
        <4>1. Len(copied') > 0 => copied'[1] = ThisCall BY <1>0, <3>1, <1>7
        <4> QED BY <1>0, <4>1 DEF AcceptedStream, Schema
      <3>3. ~AcceptedStream(copied) BY <1>0, <2>2 DEF AcceptedStream
      <3>4. arrow.given \o b = b
        <4>1. arrow.given = <<>> BY <1>0, <2>2
        <4>2. <<>> \o b = b BY <1>1
        <4> QED BY <4>1, <4>2
      <3> QED BY <1>0, <3>1, <3>2, <3>3, <3>4, <1>2, <1>8, <2>2
    <2>3. CASE copied # <<>>
      <3>1. Len(copied) \in Nat \ {0} BY <1>0, <2>3
      <3>2. AcceptedStream(copied') <=> AcceptedStream(copied) BY <1>0, <3>1, <1>3, <1>4, <1>5, <1>7, <1>8 DEF AcceptedStream
      <3>3. Tail(copied') = Tail(copied) \o b BY SMTT(30), <1>0, <2>1, <3>1, <1>1
      <3>4. copied' # <<>> BY <1>0, <3>1, <1>1, <1>3, <1>8
      <3>5. AcceptedStream(copied') => Tail(copied') = arrow.given \o b BY <1>0, <3>2, <3>3
      <3>6. schema # <<Schema>> \/ copied # <<>> BY <1>0, <2>3
      <3> QED BY <1>0, <3>2, <3>4, <3>5, <3>6, <1>2, Zenon
    <2> QED BY <1>0, <2>2, <2>3
  <1>9. CASE schema = <<Schema>>
    <2>1. CASE copied = <<>>
      <3>1. copied' = <<Schema>> \o b /\ arrow.given \o b = b
        <4>1. arrow.given = <<>> BY <1>0, <2>1
        <4>2. <<>> \o b = b /\ <<>> \o schema = schema BY <1>1
        <4> QED BY <4>1, <4>2, <1>9, <2>1
      <3>2. Len(copied') = 1 + Len(b) /\ copied'[1] = Schema BY <1>0, <3>1, <1>1
      <3>3. Tail(copied') = b
        <4>1. copied' # <<>> BY <1>0, <3>2, <1>1
        <4>2. /\ Tail(copied') \in Seq(Nat) /\ Len(Tail(copied')) = Len(copied') - 1
              /\ \A k \in 1 .. Len(Tail(copied')) : Tail(copied')[k] = copied'[k + 1]
          BY <1>0, <4>1, <1>2, HeadTailProperties
        <4>3. Len(Tail(copied')) = Len(b) BY <1>0, <4>2, <3>2, <1>1
        <4>4. \A k \in 1 .. Len(b) : copied'[k + 1] = b[k] BY <1>0, <3>1, <1>1
        <4>5. \A k \in 1 .. Len(Tail(copied')) : Tail(copied')[k] = b[k] BY <1>0, <4>2, <4>3, <4>4
        <4> QED BY <1>0, <4>2, <4>3, <4>5, <1>1, SeqEqual
      <3>4. \A i \in 2 .. Len(copied') : copied'[i] # Schema BY <1>0, <3>2, <1>5, <1>7, <2>1, <1>9, <1>1
      <3> QED BY SMTT(30), <1>0, <3>1, <3>2, <3>3, <3>4, <1>2, <2>1, <1>9 DEF AcceptedStream
    <2>2. CASE copied # <<>>
      <3>1. Len(copied) \in Nat \ {0} BY <1>0, <2>2
      <3>2. copied'[Len(copied) + 1] = Schema /\ Len(copied) + 1 \in 2 .. Len(copied') BY <1>0, <3>1, <1>1, <1>3, <1>6, <1>9
      <3>3. ~AcceptedStream(copied') BY <1>0, <3>2 DEF AcceptedStream
      <3>4. copied' # <<>> BY <1>0, <3>2
      <3> QED BY <1>0, <3>3, <3>4, <1>2, <1>9, <2>2
    <2> QED BY <1>0, <2>1, <2>2
  <1> QED BY <1>0, <1>8, <1>9

LEMMA ArrowStarts == ArrowInit => ArrowInv
  <1> SUFFICES ASSUME ArrowInit PROVE ArrowInv OBVIOUS
  <1>1. /\ arrow.mode = "none" /\ ~arrow.schemaSent /\ ~arrow.open /\ ~arrow.ipcMade /\ arrow.stage = "open"
        /\ arrow.given = <<>> /\ ~arrow.raw /\ ~arrow.dropped /\ copied = <<>> /\ landed = <<>>
    BY DEF ArrowInit
  <1>2. ArrowTypes
    <2>1. <<>> \in Seq(Nat) OBVIOUS
    <2>2. arrow \in [kind : ArrowKinds, mode : {"none"}, schemaSent : {FALSE}, buffered : {0}, open : {FALSE},
                     ipcMade : {FALSE}, stage : {"open"}, calls : {0}, given : {<<>>}, raw : {FALSE}, dropped : {FALSE}]
      BY DEF ArrowInit
    <2>3. arrow \in [kind : ArrowKinds, mode : {"none", "RawIpc", "BatchIpc"}, schemaSent : BOOLEAN, buffered : Nat,
                  open : BOOLEAN, ipcMade : BOOLEAN, stage : {"open", "failed", "done", "cancelled"},
                  calls : Nat, given : {arrow.given}, raw : BOOLEAN, dropped : BOOLEAN]
      <3>1. arrow = [kind |-> arrow.kind, mode |-> arrow.mode, schemaSent |-> arrow.schemaSent,
                     buffered |-> arrow.buffered, open |-> arrow.open, ipcMade |-> arrow.ipcMade, stage |-> arrow.stage,
                     calls |-> arrow.calls, given |-> arrow.given, raw |-> arrow.raw, dropped |-> arrow.dropped]
        BY <2>2
      <3>2. /\ arrow.kind \in ArrowKinds /\ arrow.mode \in {"none", "RawIpc", "BatchIpc"}
            /\ arrow.stage \in {"open", "failed", "done", "cancelled"} /\ arrow.buffered \in Nat /\ arrow.calls \in Nat
        BY <2>2
      <3>3. /\ arrow.schemaSent \in BOOLEAN /\ arrow.open \in BOOLEAN /\ arrow.ipcMade \in BOOLEAN
            /\ arrow.raw \in BOOLEAN /\ arrow.dropped \in BOOLEAN
        BY <2>2
      <3> QED BY <3>1, <3>2, <3>3
    <2> QED BY <1>1, <2>1, <2>3 DEF ArrowTypes
  <1>3. ~AcceptedStream(copied) BY <1>1 DEF AcceptedStream
  <1> QED BY <1>1, <1>2, <1>3 DEF ArrowInv, SentIsGiven, SchemaIsNoted, ArrowLoadIsWhole, OneSchemaPerStream,
                                  ArrowAllOrNothing

\* A call that sends: the fields it sets agree with what goes out.
LEMMA SendKeeps ==
  ASSUME ArrowInv, Ready, NEW a, NEW schema \in {<<>>, <<Schema>>}, NEW b \in {<<>>, <<ThisCall>>},
         SendPieces(schema, b, a),
         NEW m \in {"none", "RawIpc", "BatchIpc"}, NEW n \in BOOLEAN, NEW ipc \in BOOLEAN, NEW raw \in BOOLEAN,
         a = [arrow EXCEPT !.mode = m, !.schemaSent = n, !.ipcMade = ipc, !.raw = raw],
         arrow.raw => raw, arrow.kind = "import" => ~raw /\ m = "none" /\ schema = <<>>,
         ~raw /\ arrow.kind # "import" => n /\ (schema = <<>> <=> arrow.schemaSent),
         arrow.kind = "sync" /\ m = "none" => ~n,
         m = "BatchIpc" => ipc /\ n, ipc => m = "BatchIpc" /\ arrow.kind = "sync", m = "RawIpc" => n
  PROVE  ArrowInv'
  <1>1. /\ arrow.stage = "open" /\ arrow.calls \in Nat /\ arrow.buffered \in Nat /\ ThisCall \in Nat \ {0}
        /\ copied \in Seq(Nat) /\ arrow.given \in Seq(Nat)
    BY DEF ArrowInv, ArrowTypes, Ready, ThisCall
  <1>2. /\ copied' = copied \o schema \o b /\ landed' = landed
        /\ arrow' = [Buffered(a, Len(schema \o b)) EXCEPT !.calls = ThisCall, !.given = @ \o b]
    BY DEF SendPieces
  <1>3. /\ copied = <<>> => arrow.given = <<>>
        /\ AcceptedStream(copied) => Tail(copied) = arrow.given
        /\ arrow.kind = "import" => copied = arrow.given
    BY <1>1 DEF ArrowInv, SentIsGiven
  <1>4. /\ copied' \in Seq(Nat) /\ arrow.given \o b \in Seq(Nat) /\ Len(schema \o b) \in Nat
        /\ copied' = <<>> => arrow.given \o b = <<>>
        /\ AcceptedStream(copied') => Tail(copied') = arrow.given \o b
        /\ AcceptedStream(copied) /\ schema = <<>> => AcceptedStream(copied')
        /\ copied = <<>> /\ schema = <<Schema>> => AcceptedStream(copied')
    BY <1>1, <1>2, StreamGrows
  <1>5. \E k \in Nat : arrow' = [arrow EXCEPT !.mode = m, !.schemaSent = n, !.ipcMade = ipc, !.raw = raw,
                                   !.buffered = k, !.open = TRUE, !.calls = ThisCall, !.given = @ \o b]
    <2> DEFINE w == arrow.buffered + Len(schema \o b)
               k == IF w >= FlushEvery THEN 0 ELSE w
    <2>1. k \in Nat BY <1>1, <1>4
    <2>2. Buffered(a, Len(schema \o b)) = [arrow EXCEPT !.mode = m, !.schemaSent = n, !.ipcMade = ipc, !.raw = raw,
                                                        !.buffered = k, !.open = TRUE]
      BY DEF Buffered, MaybeFlush, ArrowInv, ArrowTypes
    <2> HIDE DEF k
    <2>3. arrow' = [arrow EXCEPT !.mode = m, !.schemaSent = n, !.ipcMade = ipc, !.raw = raw,
                                 !.buffered = k, !.open = TRUE, !.calls = ThisCall, !.given = @ \o b]
      BY <2>2, <1>2 DEF ArrowInv, ArrowTypes
    <2> QED BY <2>1, <2>3
  <1>6. /\ arrow'.kind = arrow.kind /\ arrow'.mode = m /\ arrow'.schemaSent = n /\ arrow'.ipcMade = ipc
        /\ arrow'.raw = raw /\ arrow'.open /\ arrow'.stage = "open" /\ arrow'.given = arrow.given \o b
        /\ arrow'.dropped = arrow.dropped
    BY <1>1, <1>5 DEF ArrowInv, ArrowTypes
  <1>7. ArrowTypes'
    <2>1. /\ arrow \in [kind : ArrowKinds, mode : {"none", "RawIpc", "BatchIpc"}, schemaSent : BOOLEAN, buffered : Nat,
                        open : BOOLEAN, ipcMade : BOOLEAN, stage : {"open", "failed", "done", "cancelled"},
                        calls : Nat, given : {arrow.given}, raw : BOOLEAN, dropped : BOOLEAN]
      BY DEF ArrowInv, ArrowTypes
    <2>2. PICK k \in Nat : arrow' = [arrow EXCEPT !.mode = m, !.schemaSent = n, !.ipcMade = ipc, !.raw = raw,
                                       !.buffered = k, !.open = TRUE, !.calls = ThisCall, !.given = @ \o b]
      BY <1>5
    <2>3. arrow' \in [kind : ArrowKinds, mode : {"none", "RawIpc", "BatchIpc"}, schemaSent : BOOLEAN, buffered : Nat,
                      open : BOOLEAN, ipcMade : BOOLEAN, stage : {"open", "failed", "done", "cancelled"},
                      calls : Nat, given : {arrow'.given}, raw : BOOLEAN, dropped : BOOLEAN]
      BY <1>1, <1>6, <2>1, <2>2
    <2> QED BY <1>4, <1>6, <2>3 DEF ArrowTypes
  <1>8. arrow.kind = "import" => copied' = arrow'.given
    <2>1. ASSUME arrow.kind = "import" PROVE copied \o schema \o b = arrow.given \o b
      <3>1. schema = <<>> /\ copied = arrow.given BY <2>1, <1>3
      <3>2. copied \o <<>> = copied BY <1>1
      <3> QED BY <3>1, <3>2
    <2> QED BY <2>1, <1>2, <1>6
  <1>9. SentIsGiven' BY <1>4, <1>6, <1>8 DEF SentIsGiven
  <1>10. ASSUME arrow.kind # "import", ~raw, arrow.dropped => arrow.kind = "owned" PROVE AcceptedStream(copied')
    <2>1. CASE schema = <<>>
      <3>1. arrow.open BY <1>1, <1>10, <2>1 DEF ArrowInv, SchemaIsNoted
      <3>2. AcceptedStream(copied) BY <1>10, <3>1 DEF ArrowInv, ArrowLoadIsWhole, OneSchemaPerStream
      <3> QED BY <3>2, <2>1, <1>4
    <2>2. CASE schema = <<Schema>>
      <3>1. schema # <<>> BY <2>2
      <3>2. copied = <<>> BY <1>1, <1>10, <3>1 DEF ArrowInv, SchemaIsNoted
      <3> QED BY <3>2, <2>2, <1>4
    <2> QED BY <2>1, <2>2
  <1>11. SchemaIsNoted' BY <1>1, <1>6 DEF ArrowInv, SchemaIsNoted
  <1>12. OneSchemaPerStream' BY <1>6, <1>10 DEF OneSchemaPerStream
  <1>13. ArrowAllOrNothing' BY <1>1, <1>2, <1>6 DEF ArrowInv, ArrowLoadIsWhole, ArrowAllOrNothing
  <1> QED BY <1>7, <1>9, <1>11, <1>12, <1>13 DEF ArrowInv, ArrowLoadIsWhole

LEMMA RefusalKeeps == ASSUME ArrowInv, Ready, RefusedCall PROVE ArrowInv'
  <1>1. /\ arrow' = [arrow EXCEPT !.calls = ThisCall] /\ UNCHANGED <<copied, landed>> /\ ThisCall \in Nat
    BY DEF RefusedCall, ThisCall, ArrowInv, ArrowTypes
  <1>2. /\ arrow'.kind = arrow.kind /\ arrow'.mode = arrow.mode /\ arrow'.schemaSent = arrow.schemaSent
        /\ arrow'.ipcMade = arrow.ipcMade /\ arrow'.raw = arrow.raw /\ arrow'.open = arrow.open
        /\ arrow'.stage = arrow.stage /\ arrow'.given = arrow.given /\ arrow'.dropped = arrow.dropped
    BY <1>1 DEF ArrowInv, ArrowTypes
  <1>3. ArrowTypes' BY <1>1 DEF ArrowInv, ArrowTypes
  <1>4. AcceptedStream(copied') = AcceptedStream(copied) BY <1>1
  <1> QED BY <1>1, <1>2, <1>3, <1>4 DEF ArrowInv, SentIsGiven, SchemaIsNoted, ArrowLoadIsWhole, OneSchemaPerStream,
                                       ArrowAllOrNothing

\* The end of a COPY: what was given is in the table, or nothing is.
LEMMA ClosingKeeps ==
  ASSUME ArrowInv, arrow.stage = "open", NEW stage \in {"failed", "done", "cancelled"}, NEW calls \in Nat,
         arrow' = [arrow EXCEPT !.stage = stage, !.open = FALSE, !.calls = calls], copied' = <<>>,
         landed' = IF stage = "done" THEN arrow.given ELSE landed
  PROVE  ArrowInv'
  <1>1. landed = <<>> BY DEF ArrowInv, ArrowLoadIsWhole, ArrowAllOrNothing
  <1>2. /\ arrow'.kind = arrow.kind /\ arrow'.mode = arrow.mode /\ arrow'.schemaSent = arrow.schemaSent
        /\ arrow'.ipcMade = arrow.ipcMade /\ arrow'.raw = arrow.raw /\ ~arrow'.open
        /\ arrow'.stage = stage /\ arrow'.given = arrow.given /\ arrow'.dropped = arrow.dropped
    BY DEF ArrowInv, ArrowTypes
  <1>3. ArrowTypes'
    <2>1. copied' \in Seq(Nat) OBVIOUS
    <2> QED BY <2>1 DEF ArrowInv, ArrowTypes
  <1> QED BY <1>1, <1>2, <1>3 DEF ArrowInv, SentIsGiven, SchemaIsNoted, ArrowLoadIsWhole, OneSchemaPerStream,
                                  ArrowAllOrNothing

LEMMA ArrowStep == ArrowInv /\ [ArrowNext]_arrowVars => ArrowInv'
  <1> SUFFICES ASSUME ArrowInv, [ArrowNext]_arrowVars PROVE ArrowInv' OBVIOUS
  <1>0. /\ arrow.mode \in {"none", "RawIpc", "BatchIpc"} /\ arrow.schemaSent \in BOOLEAN /\ arrow.ipcMade \in BOOLEAN
        /\ arrow.raw \in BOOLEAN /\ arrow.calls \in Nat /\ ThisCall \in Nat /\ arrow.kind \in ArrowKinds
    BY DEF ArrowInv, ArrowTypes, ThisCall
  <1>1. CASE EnsureWriterFails \/ ImportInterrupted
    BY <1>1, RefusalKeeps DEF EnsureWriterFails, ImportInterrupted
  <1>2. CASE SendFails
    <2>1. arrow' = [arrow EXCEPT !.stage = "failed", !.open = FALSE, !.calls = ThisCall] /\ copied' = <<>>
          /\ arrow.stage = "open" /\ landed' = landed
      BY <1>2 DEF SendFails, Ready
    <2> QED BY <2>1, <1>0, ClosingKeeps
  <1>3. CASE InsertData
    <2>1. CASE DataAccepted
      <3> DEFINE m == IF arrow.kind = "sync" THEN "RawIpc" ELSE arrow.mode
                 a == [arrow EXCEPT !.schemaSent = TRUE, !.mode = IF arrow.kind = "sync" THEN "RawIpc" ELSE @]
      <3>1. Ready /\ arrow.kind # "import" /\ SendPieces(<<Schema>>, <<ThisCall>>, a)
        BY <1>3, <2>1 DEF InsertData
      <3>2. arrow.mode # "BatchIpc" /\ ~arrow.schemaSent BY <2>1 DEF DataAccepted
      <3>3. a = [arrow EXCEPT !.mode = m, !.schemaSent = TRUE, !.ipcMade = arrow.ipcMade, !.raw = arrow.raw]
        BY DEF ArrowInv, ArrowTypes
      <3>4. m \in {"none", "RawIpc", "BatchIpc"} BY <1>0
      <3>5. /\ m = "BatchIpc" => arrow.ipcMade /\ TRUE
            /\ arrow.ipcMade => m = "BatchIpc" /\ arrow.kind = "sync"
            /\ arrow.kind = "sync" => m # "none"
        BY <3>2 DEF ArrowInv, SchemaIsNoted
      <3>6. <<Schema>> # <<>> OBVIOUS
      <3> HIDE DEF a, m
      <3> QED BY <3>1, <3>2, <3>3, <3>4, <3>5, <3>6, <1>0, SendKeeps
    <2>2. CASE ~DataAccepted BY <1>3, <2>2, RefusalKeeps DEF InsertData
    <2> QED BY <2>1, <2>2
  <1>4. CASE InsertRecordBatches
    <2>1. CASE arrow.mode # "BatchIpc" /\ arrow.schemaSent
      <3>1. Ready /\ arrow.kind # "import" /\ SendPieces(<<>>, <<ThisCall>>, arrow)
        BY <1>4, <2>1 DEF InsertRecordBatches
      <3>2. /\ arrow.mode = "BatchIpc" => arrow.ipcMade /\ arrow.schemaSent
            /\ arrow.ipcMade => arrow.mode = "BatchIpc" /\ arrow.kind = "sync"
            /\ arrow.mode = "RawIpc" => arrow.schemaSent
            /\ arrow.kind = "sync" /\ arrow.mode = "none" => ~arrow.schemaSent
        BY DEF ArrowInv, SchemaIsNoted
      <3>3. arrow = [arrow EXCEPT !.mode = arrow.mode, !.schemaSent = arrow.schemaSent, !.ipcMade = arrow.ipcMade,
                                !.raw = arrow.raw]
        BY DEF ArrowInv, ArrowTypes
      <3> QED BY <3>1, <3>2, <3>3, <2>1, <1>0, SendKeeps
    <2>2. CASE ~(arrow.mode # "BatchIpc" /\ arrow.schemaSent)
      BY <1>4, <2>2, RefusalKeeps DEF InsertRecordBatches
    <2> QED BY <2>1, <2>2
  <1>5. CASE InsertRaw
    <2>1. CASE arrow.mode # "BatchIpc"
      <3> DEFINE n == arrow.schemaSent \/ arrow.kind = "owned"
                 a == [arrow EXCEPT !.raw = TRUE, !.schemaSent = @ \/ arrow.kind = "owned"]
      <3>1. Ready /\ arrow.kind # "import" /\ \E schema \in {<<Schema>>, <<>>} : SendPieces(schema, <<ThisCall>>, a)
        BY <1>5, <2>1 DEF InsertRaw
      <3>2. PICK schema \in {<<Schema>>, <<>>} : SendPieces(schema, <<ThisCall>>, a) BY <3>1
      <3>3. a = [arrow EXCEPT !.mode = arrow.mode, !.schemaSent = n, !.ipcMade = arrow.ipcMade, !.raw = TRUE]
        BY DEF ArrowInv, ArrowTypes
      <3>4. /\ n \in BOOLEAN /\ schema \in {<<>>, <<Schema>>}
            /\ arrow.ipcMade => arrow.mode = "BatchIpc" /\ arrow.kind = "sync"
            /\ arrow.mode = "RawIpc" => n
            /\ arrow.kind = "sync" /\ arrow.mode = "none" => ~n
        BY DEF ArrowInv, SchemaIsNoted
      <3> HIDE DEF a, n
      <3> QED BY <3>1, <3>2, <3>3, <3>4, <2>1, <1>0, SendKeeps
    <2>2. CASE arrow.mode = "BatchIpc" BY <1>5, <2>2, RefusalKeeps DEF InsertRaw
    <2> QED BY <2>1, <2>2
  <1>6. CASE InsertBatch \/ EncodeFails
    <2>1. CASE InsertBatch /\ arrow.mode = "RawIpc" BY <2>1, RefusalKeeps DEF InsertBatch
    <2>2. CASE (InsertBatch /\ arrow.mode # "RawIpc") \/ EncodeFails
      <3> DEFINE a == [arrow EXCEPT !.mode = "BatchIpc", !.ipcMade = TRUE, !.schemaSent = TRUE]
      <3>1. Ready /\ arrow.kind = "sync" /\ arrow.mode # "RawIpc"
            /\ \E b \in {<<>>, <<ThisCall>>} : SendPieces(EncodedSchema, b, a)
        <4>1. CASE EncodeFails BY <4>1 DEF EncodeFails
        <4>2. CASE InsertBatch /\ arrow.mode # "RawIpc" BY <4>2 DEF InsertBatch
        <4> QED BY <2>2, <4>1, <4>2
      <3>2. PICK b \in {<<>>, <<ThisCall>>} : SendPieces(EncodedSchema, b, a) BY <3>1
      <3>3. a = [arrow EXCEPT !.mode = "BatchIpc", !.schemaSent = TRUE, !.ipcMade = TRUE, !.raw = arrow.raw]
        BY DEF ArrowInv, ArrowTypes
      <3>4. EncodedSchema \in {<<>>, <<Schema>>} /\ (EncodedSchema = <<>> <=> arrow.ipcMade) BY DEF EncodedSchema
      <3>5. arrow.ipcMade <=> arrow.schemaSent
        BY <3>1, <1>0 DEF ArrowInv, SchemaIsNoted
      <3> HIDE DEF a
      <3> QED BY <3>1, <3>2, <3>3, <3>4, <3>5, <1>0, SendKeeps
    <2> QED BY <1>6, <2>1, <2>2
  <1>7. CASE ImportRead
    <2>1. Ready /\ arrow.kind = "import" /\ SendPieces(<<>>, <<ThisCall>>, arrow) BY <1>7 DEF ImportRead
    <2>2. /\ ~arrow.raw /\ arrow.mode = "none" /\ ~arrow.ipcMade BY <2>1 DEF ArrowInv, SchemaIsNoted
    <2>3. arrow = [arrow EXCEPT !.mode = "none", !.schemaSent = arrow.schemaSent, !.ipcMade = FALSE, !.raw = FALSE]
      BY <2>2, <1>0 DEF ArrowInv, ArrowTypes
    <2> QED BY <2>1, <2>2, <2>3, <1>0, SendKeeps
  <1>8. CASE DropInsertData
    <2> DEFINE n == arrow.schemaSent \/ arrow.kind = "owned"
    <2>1. /\ Ready /\ arrow.kind \in {"async", "owned"} /\ ~arrow.schemaSent /\ copied' = copied \o <<Schema, ThisCall>>
          /\ arrow' = [DroppedInFlush(arrow) EXCEPT !.open = TRUE, !.calls = ThisCall, !.dropped = TRUE,
                                                    !.buffered = @ + 2, !.given = @ \o <<ThisCall>>]
          /\ landed' = landed
      BY <1>8 DEF DropInsertData, DataAccepted
    <2>2. arrow.stage = "open" /\ arrow.given \in Seq(Nat) /\ copied \in Seq(Nat) BY <2>1 DEF Ready, ArrowInv, ArrowTypes
    <2>3. copied' = copied \o <<Schema>> \o <<ThisCall>>
      BY <2>1, <2>2, <1>0 DEF Schema
    <2>5. /\ copied' \in Seq(Nat) /\ arrow.given \o <<ThisCall>> \in Seq(Nat)
          /\ copied' = <<>> => arrow.given \o <<ThisCall>> = <<>>
          /\ AcceptedStream(copied') => Tail(copied') = arrow.given \o <<ThisCall>>
          /\ copied = <<>> => AcceptedStream(copied')
      BY <2>2, <2>3, StreamGrows
    <2>6. arrow' = [arrow EXCEPT !.schemaSent = n, !.open = TRUE, !.calls = ThisCall, !.dropped = TRUE,
                                 !.buffered = @ + 2, !.given = arrow.given \o <<ThisCall>>]
      BY <2>1, <1>0 DEF DroppedInFlush, ArrowInv, ArrowTypes
    <2>7. n \in BOOLEAN /\ (arrow.kind = "owned" => n) BY <1>0
    <2> HIDE DEF n
    <2>8. /\ arrow'.kind = arrow.kind /\ arrow'.mode = arrow.mode /\ arrow'.schemaSent = n /\ arrow'.ipcMade = arrow.ipcMade
          /\ arrow'.raw = arrow.raw /\ arrow'.open /\ arrow'.stage = "open" /\ arrow'.dropped
          /\ arrow'.given = arrow.given \o <<ThisCall>>
      BY <2>2, <2>6 DEF ArrowInv, ArrowTypes
    <2>9. ArrowTypes'
      <3>1. arrow.buffered + 2 \in Nat BY DEF ArrowInv, ArrowTypes
      <3>2. arrow' \in [kind : ArrowKinds, mode : {"none", "RawIpc", "BatchIpc"}, schemaSent : BOOLEAN, buffered : Nat,
                        open : BOOLEAN, ipcMade : BOOLEAN, stage : {"open", "failed", "done", "cancelled"},
                        calls : Nat, given : {arrow.given \o <<ThisCall>>}, raw : BOOLEAN, dropped : BOOLEAN]
        BY <3>1, <2>6, <2>7, <1>0 DEF ArrowInv, ArrowTypes
      <3> QED BY <3>2, <2>5, <2>8 DEF ArrowTypes
    <2>10. SentIsGiven' BY <2>1, <2>5, <2>8 DEF SentIsGiven
    <2>11. ~arrow.raw /\ arrow.kind = "owned" => copied = <<>>
      BY <2>1, <2>2 DEF ArrowInv, SchemaIsNoted
    <2>12. SchemaIsNoted' BY <2>1, <2>2, <2>7, <2>8 DEF ArrowInv, SchemaIsNoted
    <2>13. OneSchemaPerStream' BY <2>1, <2>5, <2>8, <2>11 DEF OneSchemaPerStream
    <2>14. ArrowAllOrNothing' BY <2>1, <2>2, <2>8 DEF ArrowInv, ArrowLoadIsWhole, ArrowAllOrNothing
    <2> QED BY <2>9, <2>10, <2>12, <2>13, <2>14 DEF ArrowInv, ArrowLoadIsWhole
  <1>9. CASE ArrowExecute \/ ArrowCancel \/ ImportReadFails \/ ImportEnd
    <2>1. arrow.stage = "open" BY <1>9 DEF ArrowExecute, ArrowCancel, ImportReadFails, ImportEnd
    <2>2. \E stage \in {"failed", "done", "cancelled"} :
            Closed(stage) /\ landed' = IF stage = "done" THEN arrow.given ELSE landed
      <3>1. /\ copied = <<>> => arrow.given = <<>>
            /\ ~arrow.open => copied = <<>>
            /\ AcceptedStream(copied) => Tail(copied) = arrow.given
            /\ arrow.kind = "import" => copied = arrow.given
        BY <2>1 DEF ArrowInv, SentIsGiven
      <3>2. landed = <<>> BY <2>1 DEF ArrowInv, ArrowLoadIsWhole, ArrowAllOrNothing
      <3>3. CASE ArrowExecute
        <4>1. CASE ~arrow.open /\ landed' = landed /\ Closed(IF arrow.kind = "owned" THEN "failed" ELSE "done")
          BY <4>1, <3>1, <3>2
        <4>2. CASE AcceptedStream(copied) /\ landed' = Tail(copied) /\ Closed("done") BY <4>2, <3>1
        <4>3. CASE landed' = landed /\ Closed("failed") BY <4>3
        <4> QED BY <3>3, <4>1, <4>2, <4>3 DEF ArrowExecute
      <3>4. CASE ArrowCancel BY <3>4 DEF ArrowCancel
      <3>5. CASE ImportReadFails BY <3>5 DEF ImportReadFails, AfterReadError
      <3>6. CASE ImportEnd BY <3>6, <3>1 DEF ImportEnd
      <3> QED BY <1>9, <3>3, <3>4, <3>5, <3>6
    <2>3. PICK stage \in {"failed", "done", "cancelled"} :
            Closed(stage) /\ landed' = IF stage = "done" THEN arrow.given ELSE landed
      BY <2>2
    <2>4. arrow' = [arrow EXCEPT !.stage = stage, !.open = FALSE, !.calls = arrow.calls] /\ copied' = <<>>
      BY <2>3 DEF Closed, ArrowInv, ArrowTypes
    <2> QED BY <2>1, <2>3, <2>4, <1>0, ClosingKeeps
  <1>10. CASE UNCHANGED arrowVars
    BY <1>10 DEF arrowVars, ArrowInv, ArrowTypes, SentIsGiven, SchemaIsNoted, ArrowLoadIsWhole, OneSchemaPerStream,
                 ArrowAllOrNothing, AcceptedStream
  <1> QED BY <1>1, <1>2, <1>3, <1>4, <1>5, <1>6, <1>7, <1>8, <1>9, <1>10 DEF ArrowNext

\* An Arrow stream that the server takes is one schema and every batch that was
\* given, an import is all of its text, and a load that fails leaves nothing
\* (arrow_inserter.rs, async_arrow_inserter.rs, copy.rs), for any number of calls
\* and any flush limit.
THEOREM ArrowLoadsAreWhole == ArrowSpec => []ArrowLoadIsWhole
  <1>1. ArrowInv => ArrowLoadIsWhole BY DEF ArrowInv
  <1> QED BY <1>1, ArrowStarts, ArrowStep, PTL DEF ArrowSpec

-----------------------------------------------------------------------------
(* Inserting rows                                                        *)

LEMMA Products ==
  ASSUME NEW k \in Nat \ {0}, NEW a \in Int, NEW b \in Int
  PROVE  /\ a * k \in Int
         /\ (a + b) * k = a * k + b * k
         /\ (a - b) * k = a * k - b * k
         /\ a <= b => a * k <= b * k
         /\ 1 * k = k
  <1>1. a * k \in Int /\ (a + b) * k = a * k + b * k /\ 1 * k = k OBVIOUS
  <1>2. (a - b) * k = a * k - b * k OBVIOUS
  <1>3. a <= b => a * k <= b * k
    <2>1. ASSUME a <= b PROVE a * k <= b * k
      <3>1. (b - a) * k >= 0 BY <2>1
      <3>2. (b - a) * k = b * k - a * k OBVIOUS
      <3> QED BY <3>1, <3>2
    <2> QED BY <2>1
  <1> QED BY <1>1, <1>2, <1>3

LEMMA Division ==
  ASSUME NEW k \in Nat \ {0}, NEW i \in Nat, NEW c \in 0 .. k - 1
  PROVE  (i * k + c) \div k = i /\ (i * k + c) % k = c
  <1> DEFINE x == i * k + c
             q == x \div k
             r == x % k
  <1>1. x \in Nat OBVIOUS
  <1>2. x = k * q + r /\ r \in 0 .. k - 1 /\ q \in Int BY <1>1
  <1>3. ~(q < i)
    <2>1. ASSUME q < i PROVE FALSE
      <3>1. (q + 1) * k <= i * k BY <2>1, <1>2, Products
      <3>2. (q + 1) * k = q * k + k BY <1>2
      <3>3. k * q = q * k BY <1>2
      <3> QED BY <3>1, <3>2, <3>3, <1>2
    <2> QED BY <2>1
  <1>4. ~(q > i)
    <2>1. ASSUME q > i PROVE FALSE
      <3>1. (i + 1) * k <= q * k BY <2>1, <1>2, Products
      <3>2. (i + 1) * k = i * k + k OBVIOUS
      <3>3. k * q = q * k BY <1>2
      <3> QED BY <3>1, <3>2, <3>3, <1>2
    <2> QED BY <2>1
  <1>5. q = i BY <1>2, <1>3, <1>4
  <1>6. k * q = i * k BY <1>5
  <1>7. r = c BY <1>2, <1>6
  <1> QED BY <1>5, <1>7

LEMMA MoreRows ==
  ASSUME NEW a \in Int, NEW b \in Int, a <= b
  PROVE  a * Cols <= b * Cols
  BY Products, InserterAssumption

Cells == [row : Nat, col : Int]

\* The stream is the header and the values of the rows g, row by row.
Stacked(s, g) ==
    /\ Len(s) = 1 + Len(g) * Cols /\ s[1] = Header
    /\ \A i \in 1 .. Len(g), c \in 1 .. Cols : s[1 + (i - 1) * Cols + c] = Value(g[i], c)

\* The values of the rows h, row by row, without the header.
Block(v, h) ==
    /\ Len(v) = Len(h) * Cols
    /\ \A i \in 1 .. Len(h), c \in 1 .. Cols : v[(i - 1) * Cols + c] = Value(h[i], c)

LEMMA StackGrows ==
  ASSUME NEW s \in Seq(Cells), NEW g \in Seq(Nat), NEW v \in Seq(Cells), NEW h \in Seq(Nat),
         Stacked(s, g), Block(v, h)
  PROVE  Stacked(s \o v, g \o h)
  <1>0. Cols \in Nat \ {0} BY InserterAssumption
  <1>1. Len(s) = 1 + Len(g) * Cols /\ s[1] = Header /\ Len(v) = Len(h) * Cols BY DEF Stacked, Block
  <1>2. Len(s \o v) = Len(s) + Len(v) /\ Len(g \o h) = Len(g) + Len(h) /\ Len(s) \in Nat /\ Len(v) \in Nat
        /\ Len(g) \in Nat /\ Len(h) \in Nat
    OBVIOUS
  <1>3. Len(s \o v) = 1 + Len(g \o h) * Cols
    <2>1. (Len(g) + Len(h)) * Cols = Len(g) * Cols + Len(h) * Cols BY <1>0, <1>2, Products
    <2>2. Len(g) * Cols \in Int /\ Len(h) * Cols \in Int BY <1>0, <1>2, Products
    <2> QED BY <1>1, <1>2, <2>1, <2>2
  <1>4. \A p \in 1 .. Len(s) : (s \o v)[p] = s[p] BY <1>2
  <1>5. \A p \in 1 .. Len(v) : (s \o v)[Len(s) + p] = v[p] BY <1>2
  <1>6. (s \o v)[1] = Header
    <2>1. 0 * Cols <= Len(g) * Cols BY <1>0, <1>2, Products
    <2>2. 0 * Cols = 0 BY <1>0
    <2>3. Len(g) * Cols \in Int BY <1>0, <1>2, Products
    <2>4. 1 \in 1 .. Len(s) BY <1>1, <2>1, <2>2, <2>3
    <2> QED BY <1>1, <1>4, <2>4
  <1>7. ASSUME NEW i \in 1 .. Len(g \o h), NEW c \in 1 .. Cols
        PROVE  (s \o v)[1 + (i - 1) * Cols + c] = Value((g \o h)[i], c)
    <2> DEFINE G == Len(g)
               H == Len(h)
               a == (i - 1) * Cols
               m == G * Cols
    <2>1. i \in Int /\ i >= 1 /\ i <= G + H /\ c \in Int /\ c >= 1 /\ c <= Cols /\ G \in Nat /\ H \in Nat BY <1>0, <1>2
    <2>2. a \in Int /\ m \in Int BY <1>0, <2>1, Products
    <2>3. CASE i <= G
      <3>1. a + Cols <= m
        <4>1. ((i - 1) + 1) * Cols = a + 1 * Cols /\ 1 * Cols = Cols BY <2>1, <1>0, Products
        <4>2. (i - 1) + 1 = i BY <2>1
        <4>3. i * Cols <= G * Cols
          <5> HIDE DEF G
          <5> QED BY <2>1, <2>3, MoreRows
        <4> QED BY <4>1, <4>2, <4>3
      <3>2. 0 <= a
        <4>1. 0 * Cols <= (i - 1) * Cols BY <2>1, <1>0, Products
        <4>2. 0 * Cols = 0 BY <1>0
        <4> QED BY <4>1, <4>2
      <3> HIDE DEF a, m
      <3>3. 1 + a + c \in 1 .. 1 + m BY <3>1, <3>2, <2>1, <2>2, <1>0
      <3>4. 1 + a + c \in 1 .. Len(s) BY <3>3, <1>1 DEF m
      <3>5. i \in 1 .. Len(g) BY <2>1, <2>3
      <3>6. s[1 + a + c] = Value(g[i], c) BY <3>5 DEF Stacked, a
      <3>7. (g \o h)[i] = g[i] BY <3>5
      <3>8. (s \o v)[1 + a + c] = Value((g \o h)[i], c) BY <1>4, <3>4, <3>6, <3>7
      <3> QED BY <3>8 DEF a
    <2>4. CASE i > G
      <3> DEFINE j == i - G
                 b == (j - 1) * Cols
                 n == H * Cols
      <3>1. j \in 1 .. H BY <2>1, <2>4
      <3>2. b = a - m /\ b \in Int /\ n \in Int
        <4>1. j - 1 = (i - 1) - G BY <2>1
        <4>2. ((i - 1) - G) * Cols = (i - 1) * Cols - G * Cols BY <2>1, <1>0, Products
        <4>3. (j - 1) * Cols \in Int /\ H * Cols \in Int BY <2>1, <3>1, <1>0, Products
        <4> QED BY <4>1, <4>2, <4>3
      <3>3. b + Cols <= n
        <4>1. ((j - 1) + 1) * Cols = b + 1 * Cols /\ 1 * Cols = Cols BY <3>1, <1>0, Products
        <4>2. (j - 1) + 1 = j BY <3>1
        <4>3. j * Cols <= H * Cols
          <5>1. j \in Int /\ H \in Int /\ j <= H BY <2>1, <3>1
          <5> HIDE DEF H, j
          <5> QED BY <5>1, MoreRows
        <4> QED BY <4>1, <4>2, <4>3
      <3>4. 0 <= b
        <4>1. 0 * Cols <= (j - 1) * Cols
          <5>1. j - 1 \in Int /\ 0 <= j - 1 BY <3>1
          <5> HIDE DEF j
          <5> QED BY <5>1, MoreRows
        <4>2. 0 * Cols = 0 BY <1>0
        <4> QED BY <4>1, <4>2
      <3> HIDE DEF a, b, m, n
      <3>5. b + c \in 1 .. n BY <3>2, <3>3, <3>4, <2>1, <1>0
      <3>6. b + c \in 1 .. Len(v) BY <3>5, <1>1 DEF n
      <3>7. 1 + a + c = (1 + m) + (b + c) BY <3>2, <2>1, <2>2
      <3>8. Len(s) = 1 + m BY <1>1 DEF m
      <3>9. (s \o v)[1 + a + c] = v[b + c] BY <1>5, <3>6, <3>7, <3>8
      <3>10. v[b + c] = Value(h[j], c) BY <3>1 DEF Block, b
      <3>11. (g \o h)[i] = h[j] BY <3>1, <2>1, <2>4, <1>2
      <3>12. (s \o v)[1 + a + c] = Value((g \o h)[i], c) BY <3>9, <3>10, <3>11
      <3> QED BY <3>12 DEF a
    <2>5. i <= G \/ i > G BY <2>1
    <2> QED BY <2>3, <2>4, <2>5
  <1> QED BY <1>3, <1>6, <1>7 DEF Stacked

LEMMA CellsAre ==
  /\ \A r \in Nat, c \in Int : Value(r, c) \in Cells /\ Value(r, c).row = r
  /\ Header \in Cells /\ Trailer \in Cells /\ Header # Trailer /\ Header.row = 0 /\ Trailer.row = 0
  BY DEF Value, Cells, Header, Trailer

LEMMA Associates ==
  ASSUME NEW a \in Seq(Cells), NEW b \in Seq(Cells), NEW c \in Seq(Cells)
  PROVE  (a \o b) \o c = a \o (b \o c) /\ a \o b \in Seq(Cells) /\ b \o c \in Seq(Cells)
         /\ a \o (b \o c) \in Seq(Cells) /\ <<>> \o a = a /\ a \o <<>> = a
  <1>1. (a \o b) \o c = a \o (b \o c) BY ConcatAssociative
  <1> QED BY <1>1

LEMMA HeaderAlone == <<Header>> \in Seq(Cells) /\ Stacked(<<Header>>, <<>>)
  <1>1. 0 * Cols = 0 BY InserterAssumption
  <1>2. Len(<<>>) = 0 /\ Len(<<Header>>) = 1 /\ <<Header>>[1] = Header OBVIOUS
  <1>3. Len(<<Header>>) = 1 + Len(<<>>) * Cols BY <1>1, <1>2
  <1> QED BY <1>2, <1>3, CellsAre DEF Stacked

RowValues(r) == [c \in 1 .. Cols |-> Value(r, c)]

LEMMA OneRow ==
  ASSUME NEW r \in Nat \ {0}
  PROVE  /\ RowValues(r) \in Seq(Cells) /\ Block(RowValues(r), <<r>>) /\ Len(RowValues(r)) = Cols
         /\ \A p \in 1 .. Len(RowValues(r)) : RowValues(r)[p].row # 0
  <1> DEFINE v == RowValues(r)
  <1>0. Cols \in Nat \ {0} BY InserterAssumption
  <1>1. v \in Seq(Cells)
    <2>1. \A c \in 1 .. Cols : Value(r, c) \in Cells BY <1>0, CellsAre
    <2>2. v \in [1 .. Cols -> Cells] BY <2>1 DEF RowValues
    <2> QED BY <1>0, <2>2, SeqDef
  <1>2. Len(v) = Cols BY <1>0, <1>1 DEF RowValues
  <1>3. \A c \in 1 .. Cols : v[c] = Value(r, c) BY DEF RowValues
  <1>4. Len(<<r>>) = 1 /\ <<r>>[1] = r OBVIOUS
  <1>5. Len(v) = Len(<<r>>) * Cols BY <1>0, <1>2, <1>4
  <1>6. ASSUME NEW i \in 1 .. Len(<<r>>), NEW c \in 1 .. Cols PROVE v[(i - 1) * Cols + c] = Value(<<r>>[i], c)
    <2>1. i = 1 BY <1>4
    <2>2. (1 - 1) * Cols + c = c BY <1>0
    <2>3. v[c] = Value(<<r>>[1], c) BY <1>3, <1>4
    <2> QED BY <2>1, <2>2, <2>3
  <1>7. \A p \in 1 .. Len(v) : v[p].row # 0 BY <1>0, <1>2, <1>3, CellsAre
  <1> HIDE DEF v
  <1>8. Block(v, <<r>>) BY <1>5, <1>6 DEF Block
  <1> QED BY <1>1, <1>2, <1>7, <1>8 DEF v

LEMMA ManyRows ==
  ASSUME NEW t \in Nat, NEW n \in Nat \ {0}
  PROVE  \E v \in Seq(Cells), h \in Seq(Nat) :
            /\ h = [i \in 1 .. n |-> t + i] /\ Len(h) = n
            /\ Block(v, h) /\ ChunkOf(t + 1, n) = <<Header>> \o v /\ Tail(ChunkOf(t + 1, n)) = v
            /\ \A p \in 1 .. Len(v) : v[p].row # 0
  <1> DEFINE h == [i \in 1 .. n |-> t + i]
             m == n * Cols
             w(p) == Value((t + 1) + ((p - 1) \div Cols), 1 + ((p - 1) % Cols))
             v == [p \in 1 .. m |-> w(p)]
  <1>0. Cols \in Nat \ {0} BY InserterAssumption
  <1>1. m \in Nat /\ m >= 1
    <2>1. 1 * Cols <= n * Cols BY MoreRows
    <2>2. 1 * Cols = Cols /\ n * Cols \in Int BY <1>0
    <2> QED BY <2>1, <2>2, <1>0
  <1>2. ASSUME NEW p \in 1 .. m PROVE w(p) \in Cells /\ w(p).row # 0
    <2> HIDE DEF m
    <2>1. p - 1 \in Nat BY <1>1
    <2>2. (p - 1) \div Cols \in Nat /\ (p - 1) % Cols \in Nat BY <2>1, <1>0
    <2>3. (t + 1) + ((p - 1) \div Cols) \in Nat \ {0} /\ 1 + ((p - 1) % Cols) \in Int BY <2>2
    <2> QED BY <2>3, CellsAre
  <1> HIDE DEF w
  <1>3. v \in Seq(Cells) /\ Len(v) = m
    <2> HIDE DEF m
    <2>1. v \in [1 .. m -> Cells] BY <1>2
    <2>2. v \in Seq(Cells) BY <1>1, <2>1, SeqDef
    <2> QED BY <1>1, <2>1, <2>2
  <1>4. \A p \in 1 .. m : v[p] = w(p) OBVIOUS
  <1>5. h \in Seq(Nat) /\ Len(h) = n
    <2>1. h \in [1 .. n -> Nat] OBVIOUS
    <2>2. h \in Seq(Nat) BY <2>1, SeqDef
    <2> QED BY <2>1, <2>2
  <1>6. ASSUME NEW i \in 1 .. n, NEW c \in 1 .. Cols PROVE v[(i - 1) * Cols + c] = Value(h[i], c)
    <2> DEFINE a == (i - 1) * Cols
    <2>1. a \in Int /\ 0 <= a /\ a + Cols <= m
      <3>1. ((i - 1) + 1) * Cols = (i - 1) * Cols + 1 * Cols /\ 1 * Cols = Cols /\ a \in Int BY <1>0, Products
      <3>2. (i - 1) + 1 = i OBVIOUS
      <3>3. i * Cols <= n * Cols
        <4>1. i \in Int /\ n \in Int /\ i <= n OBVIOUS
        <4> QED BY <4>1, MoreRows
      <3>4. 0 * Cols <= (i - 1) * Cols
        <4>1. i - 1 \in Int /\ 0 <= i - 1 OBVIOUS
        <4> QED BY <4>1, MoreRows
      <3>5. 0 * Cols = 0 BY <1>0
      <3> QED BY <3>1, <3>2, <3>3, <3>4, <3>5
    <2>2. (a + (c - 1)) \div Cols = i - 1 /\ (a + (c - 1)) % Cols = c - 1
      <3>1. i - 1 \in Nat /\ c - 1 \in 0 .. Cols - 1 BY <1>0
      <3> DEFINE j == i - 1
                 d == c - 1
      <3> HIDE DEF j, d
      <3>2. (j * Cols + d) \div Cols = j /\ (j * Cols + d) % Cols = d BY <3>1, <1>0, Division DEF j, d
      <3> QED BY <3>2 DEF j, d
    <2> HIDE DEF a, m, v
    <2>3. a + c \in 1 .. m /\ (a + c) - 1 = a + (c - 1) BY <2>1, <1>0, <1>1
    <2>4. w(a + c) = Value((t + 1) + (i - 1), 1 + (c - 1)) BY <2>2, <2>3 DEF w
    <2>5. (t + 1) + (i - 1) = t + i /\ 1 + (c - 1) = c BY <1>0
    <2>6. h[i] = t + i OBVIOUS
    <2>7. v[a + c] = Value(h[i], c) BY <1>4, <2>3, <2>4, <2>5, <2>6
    <2> QED BY <2>7 DEF a
  <1>7. Block(v, h)
    <2> HIDE DEF v, h
    <2>1. Len(v) = Len(h) * Cols BY <1>3, <1>5
    <2> QED BY <2>1, <1>5, <1>6 DEF Block
  <1>8. ChunkOf(t + 1, n) = <<Header>> \o v BY DEF ChunkOf, w
  <1>9. Tail(<<Header>> \o v) = v
    <2> HIDE DEF v, m
    <2> DEFINE u == <<Header>> \o v
    <2>1. <<Header>> \in Seq(Cells) /\ Len(<<Header>>) = 1 BY HeaderAlone
    <2>2. u \in Seq(Cells) /\ Len(u) = 1 + Len(v) BY <1>3, <2>1
    <2>3. \A k \in 1 .. Len(v) : u[k + 1] = v[k] BY <1>3, <2>1
    <2>4. u # <<>> BY <2>2, <1>3, <1>1
    <2> HIDE DEF u
    <2>5. Tail(u) \in Seq(Cells) /\ Len(Tail(u)) = Len(u) - 1 /\ \A k \in 1 .. Len(Tail(u)) : Tail(u)[k] = u[k + 1]
      BY <2>2, <2>4, HeadTailProperties
    <2>6. Len(Tail(u)) = Len(v) BY <2>2, <2>5, <1>1, <1>3
    <2>7. \A k \in 1 .. Len(Tail(u)) : Tail(u)[k] = v[k] BY <2>3, <2>5, <2>6
    <2>8. Tail(u) = v BY <2>5, <2>6, <2>7, <1>3, SeqEqual
    <2> QED BY <2>8 DEF u
  <1>10. \A p \in 1 .. Len(v) : v[p].row # 0 BY <1>2, <1>3, <1>4
  <1> HIDE DEF v
  <1> QED BY <1>3, <1>5, <1>7, <1>8, <1>9, <1>10

\* The server cuts a stacked stream into the rows it was stacked from.
LEMMA CutIsStacked ==
  ASSUME NEW s \in Seq(Cells), NEW g \in Seq(Nat), Stacked(s, g)
  PROVE  /\ RowsOf(s) = [i \in 1 .. Len(g) |-> RowsOf(s)[i]]
         /\ Len(RowsOf(s)) = Len(g)
         /\ \A i \in 1 .. Len(g) : RowsOf(s)[i] = RowValues(g[i])
  <1>0. Cols \in Nat \ {0} BY InserterAssumption
  <1> DEFINE n == Len(g)
             m == n * Cols
  <1>1. n \in Nat /\ Len(s) = 1 + m BY DEF Stacked
  <1>2. m \in Nat /\ m \div Cols = n
    <2> HIDE DEF n
    <2>1. 0 \in 0 .. Cols - 1 BY <1>0
    <2>2. (n * Cols + 0) \div Cols = n BY <1>0, <1>1, <2>1, Division
    <2>3. n * Cols + 0 = n * Cols /\ n * Cols \in Nat BY <1>0, <1>1
    <2> QED BY <2>2, <2>3
  <1>3. (Len(s) - 1) \div Cols = n
    <2> HIDE DEF n, m
    <2>1. Len(s) - 1 = m BY <1>1, <1>2
    <2> QED BY <2>1, <1>2
  <1>4. RowsOf(s) = [i \in 1 .. n |-> SubSeq(s, 2 + (i - 1) * Cols, 1 + i * Cols)] BY <1>3 DEF RowsOf
  <1>5. ASSUME NEW i \in 1 .. n PROVE SubSeq(s, 2 + (i - 1) * Cols, 1 + i * Cols) = RowValues(g[i])
    <2> DEFINE a == (i - 1) * Cols
               b == i * Cols
    <2>1. a \in Int /\ b \in Int /\ 0 <= a /\ b = a + Cols /\ b <= m
      <3>1. ((i - 1) + 1) * Cols = (i - 1) * Cols + 1 * Cols /\ 1 * Cols = Cols /\ a \in Int BY <1>0, <1>1, Products
      <3>2. (i - 1) + 1 = i BY <1>1
      <3>3. i * Cols <= n * Cols
        <4>1. i \in Int /\ n \in Int /\ i <= n BY <1>1
        <4> HIDE DEF n
        <4> QED BY <4>1, MoreRows
      <3>4. 0 * Cols <= (i - 1) * Cols
        <4>1. i - 1 \in Int /\ 0 <= i - 1 BY <1>1
        <4> QED BY <4>1, MoreRows
      <3>5. 0 * Cols = 0 BY <1>0
      <3>6. b = a + Cols BY <3>1, <3>2
      <3> QED BY <3>1, <3>3, <3>4, <3>5, <3>6, <1>0
    <2>2. \A c \in 1 .. Cols : s[1 + a + c] = Value(g[i], c) BY DEF Stacked
    <2> HIDE DEF a, b, m, n
    <2>3. \A k \in 2 + a .. 1 + b : k \in 1 .. Len(s) BY <2>1, <1>0, <1>1, <1>2
    <2>4. \A k \in 2 + a .. 1 + b : s[k] \in Cells BY <2>3, ElementOfSeq
    <2> DEFINE u == SubSeq(s, 2 + a, 1 + b)
    <2>5. 2 + a \in Int /\ 1 + b \in Int BY <2>1
    <2>6. /\ u \in Seq(Cells)
          /\ Len(u) = IF 2 + a <= 1 + b THEN (1 + b) - (2 + a) + 1 ELSE 0
          /\ \A k \in 1 .. (1 + b) - (2 + a) + 1 : u[k] = s[(2 + a) + k - 1]
      BY <2>4, <2>5, SubSeqProperties
    <2> HIDE DEF u
    <2>7. 2 + a <= 1 + b /\ (1 + b) - (2 + a) + 1 = Cols BY <2>1, <1>0
    <2>8. Len(u) = Cols BY <2>6, <2>7
    <2>9. \A c \in 1 .. Cols : u[c] = Value(g[i], c)
      <3>1. \A c \in 1 .. Cols : (2 + a) + c - 1 = 1 + a + c BY <2>1, <1>0
      <3>2. \A c \in 1 .. Cols : u[c] = s[(2 + a) + c - 1] BY <2>6, <2>7
      <3> QED BY <2>2, <3>1, <3>2
    <2>10. u = [c \in 1 .. Cols |-> Value(g[i], c)]
      <3>1. DOMAIN u = 1 .. Cols BY <2>6, <2>8
      <3>2. u = [c \in DOMAIN u |-> u[c]] BY <2>6
      <3> QED BY <3>1, <3>2, <2>9
    <2> QED BY <2>10 DEF u, a, b, RowValues
  <1> HIDE DEF n, m
  <1>6. \A i \in 1 .. n : RowsOf(s)[i] = RowValues(g[i]) BY <1>4, <1>5
  <1>7. Len(RowsOf(s)) = n BY <1>1, <1>4
  <1>8. RowsOf(s) = [i \in 1 .. n |-> RowsOf(s)[i]] BY <1>4
  <1> QED BY <1>6, <1>7, <1>8 DEF n

InsStages == {"filling", "flush", "failed", "map", "unstage", "done", "errored", "cancelled"}
StillOpen == {"filling", "flush"}

\* What the COPY has and what the chunk will add to it.
Streamed == Sent(ins.chunk.buf)

\* A stream whose header was lost with an earlier chunk.
Torn(s) == s = <<>> \/ s[1].row # 0

InsTypes ==
    /\ ins \in [kind : InserterKinds, chunk : {ins.chunk}, stage : InsStages, tried : Nat, given : {ins.given},
                headerSent : BOOLEAN, lost : BOOLEAN]
    /\ ins.chunk \in [buf : {ins.chunk.buf}, rows : Nat, col : 0 .. Cols, header : BOOLEAN]
    /\ ins.chunk.buf \in Seq(Cells) /\ copyStream \in Seq(Cells) /\ ins.given \in Seq(Nat)
    /\ \A i \in 1 .. Len(ins.given) : ins.given[i] \in 1 .. ins.tried

\* While an inserter fills, sent and chunk are the rows that were taken, or the
\* header is lost and the server will refuse the rest.
FillKept ==
    /\ ins.stage = "flush" => ins.kind # "sender" /\ ins.chunk.col = 0 /\ ins.chunk.header
    /\ ins.stage \in StillOpen /\ ins.kind # "sender" /\ ~ins.lost =>
          /\ ~ins.chunk.header => /\ ins.chunk.buf = <<>> /\ ins.chunk.col = 0 /\ ins.chunk.rows = 0
                                  /\ ins.given = <<>> /\ ~CopyOpen
          /\ ins.chunk.header /\ ins.chunk.col = 0 => Stacked(Streamed, ins.given) \/ Torn(Streamed)
          /\ ins.chunk.col = 0 /\ ins.chunk.rows = 0 => ins.chunk.buf = <<>>

\* Threads that share a COPY: the header went out with the first chunk.
SenderKept ==
    ins.kind = "sender" =>
        /\ CopyOpen => ins.headerSent /\ ~ins.lost /\ Stacked(copyStream, ins.given)
        /\ ~CopyOpen /\ ~ins.lost /\ ins.stage = "filling" => ~ins.headerSent /\ ins.given = <<>>

\* An inserter that has ended left no COPY open.
EndKept ==
    /\ ins.stage \notin StillOpen => ~CopyOpen
    /\ mapped.staging = "dropped" => ins.stage \notin StillOpen

InsInv == InsTypes /\ FillKept /\ SenderKept /\ EndKept /\ InsertIsWhole

LEMMA InsStarts == InsInit => InsInv
  <1> SUFFICES ASSUME InsInit PROVE InsInv OBVIOUS
  <1>0. Cols \in Nat \ {0} BY InserterAssumption
  <1>1. /\ ins \in [kind : InserterKinds, chunk : {EmptyChunk}, stage : {"filling"}, tried : {0},
                    given : {<<>>}, headerSent : {FALSE}, lost : {FALSE}]
        /\ copyStream = NoCopy /\ table = <<>> /\ mapped.staging # "dropped"
    BY DEF InsInit
  <1>2. /\ ins.kind \in InserterKinds /\ ins.chunk = EmptyChunk /\ ins.stage = "filling" /\ ins.tried = 0
        /\ ins.given = <<>> /\ ~ins.headerSent /\ ~ins.lost
    BY <1>1
  <1>3. /\ ins.chunk \in [buf : {ins.chunk.buf}, rows : Nat, col : 0 .. Cols, header : BOOLEAN]
        /\ ins.chunk.buf = <<>> /\ ins.chunk.rows = 0 /\ ins.chunk.col = 0 /\ ~ins.chunk.header
    BY <1>0, <1>2 DEF EmptyChunk
  <1>4. <<>> \in Seq(Cells) /\ <<>> \in Seq(Nat) /\ NoCopy \in Seq(Cells) /\ Len(<<>>) = 0
    BY CellsAre DEF NoCopy
  <1>5. ins \in [kind : InserterKinds, chunk : {ins.chunk}, stage : InsStages, tried : Nat, given : {ins.given},
                headerSent : BOOLEAN, lost : BOOLEAN]
    <2>1. ins = [kind |-> ins.kind, chunk |-> ins.chunk, stage |-> ins.stage, tried |-> ins.tried, given |-> ins.given,
                 headerSent |-> ins.headerSent, lost |-> ins.lost]
      BY <1>1
    <2>2. ins.stage \in InsStages /\ ins.tried \in Nat BY <1>2 DEF InsStages
    <2>3. ins.headerSent \in BOOLEAN /\ ins.lost \in BOOLEAN BY <1>1
    <2> QED BY <2>1, <2>2, <2>3, <1>2
  <1>6. InsTypes BY <1>1, <1>2, <1>3, <1>4, <1>5 DEF InsTypes
  <1>7. ~CopyOpen BY <1>1 DEF CopyOpen
  <1>8. FillKept /\ SenderKept /\ EndKept BY <1>1, <1>2, <1>3, <1>7 DEF FillKept, SenderKept, EndKept
  <1>9. InsertIsWhole
    BY <1>1, <1>2, <1>4, <1>7 DEF InsertIsWhole, RowsAreWhole, EveryRowOrNone, SharedStreamIsFramed, NoStatementInsideCopy
  <1> QED BY <1>6, <1>8, <1>9 DEF InsInv

\* A step after which the inserter is still filling.
LEMMA StillFills ==
  ASSUME InsInv, ins.stage \in StillOpen, ins'.stage \in StillOpen, ins'.kind = ins.kind,
         UNCHANGED <<table, mapped>>, InsTypes', FillKept', SenderKept', SharedStreamIsFramed'
  PROVE  InsInv'
  <1>1. table = <<>> BY DEF InsInv, InsertIsWhole, EveryRowOrNone, StillOpen
  <1>2. table' = <<>> /\ DOMAIN table' = {} BY <1>1
  <1>3. EveryRowOrNone' /\ RowsAreWhole' BY <1>2 DEF EveryRowOrNone, RowsAreWhole, StillOpen
  <1>4. mapped'.staging # "dropped" BY DEF InsInv, EndKept
  <1>5. EndKept' /\ NoStatementInsideCopy' BY <1>4 DEF EndKept, NoStatementInsideCopy
  <1> QED BY <1>3, <1>5 DEF InsInv, InsertIsWhole

\* A step that ends the inserter or finds it ended.
LEMMA InserterEnded ==
  ASSUME InsInv, NEW how \in InsStages \ StillOpen, ins' = [ins EXCEPT !.stage = how],
         copyStream' = NoCopy, RowsAreWhole', EveryRowOrNone'
  PROVE  InsInv'
  <1>1. /\ ins'.kind = ins.kind /\ ins'.chunk = ins.chunk /\ ins'.stage = how /\ ins'.tried = ins.tried
        /\ ins'.given = ins.given /\ ins'.headerSent = ins.headerSent /\ ins'.lost = ins.lost
        /\ ins' \in [kind : InserterKinds, chunk : {ins.chunk}, stage : InsStages, tried : Nat, given : {ins.given},
                     headerSent : BOOLEAN, lost : BOOLEAN]
    BY DEF InsInv, InsTypes
  <1>2. copyStream' \in Seq(Cells) /\ ~CopyOpen' BY CellsAre DEF NoCopy, CopyOpen
  <1>3. InsTypes' BY <1>1, <1>2 DEF InsInv, InsTypes
  <1>4. FillKept' /\ SenderKept' /\ EndKept' BY <1>1, <1>2 DEF FillKept, SenderKept, EndKept, StillOpen
  <1>5. SharedStreamIsFramed' /\ NoStatementInsideCopy' BY <1>2 DEF SharedStreamIsFramed, NoStatementInsideCopy
  <1> QED BY <1>3, <1>4, <1>5 DEF InsInv, InsertIsWhole

\* add_row on the chunk, whatever was in it.
LEMMA AddedValues ==
  ASSUME InsInv, NEW r \in Nat \ {0}, NEW n \in 0 .. Cols
  PROVE  \E fits \in 0 .. Cols, bytes \in Seq(Cells) :
           /\ fits = IF n < Cols - ins.chunk.col THEN n ELSE Cols - ins.chunk.col
           /\ ins.chunk.col + fits \in 0 .. Cols
           /\ fits = 0 => bytes = <<>>
           /\ fits = Cols => bytes = (IF ins.chunk.header THEN <<>> ELSE <<Header>>) \o RowValues(r)
           /\ AddValues(ins.chunk, r, n) = [buf |-> ins.chunk.buf \o bytes, rows |-> ins.chunk.rows,
                                            col |-> ins.chunk.col + fits, header |-> ins.chunk.header \/ fits > 0]
           /\ ins.chunk.buf \o bytes \in Seq(Cells)
  <1> DEFINE chunk == ins.chunk
             fits == IF n < Cols - chunk.col THEN n ELSE Cols - chunk.col
             first == IF chunk.header \/ fits = 0 THEN <<>> ELSE <<Header>>
             values == [i \in 1 .. fits |-> Value(r, i)]
  <1>0. Cols \in Nat \ {0} BY InserterAssumption
  <1>1. /\ chunk \in [buf : {chunk.buf}, rows : Nat, col : 0 .. Cols, header : BOOLEAN] /\ chunk.buf \in Seq(Cells)
    BY DEF InsInv, InsTypes
  <1>2. fits \in 0 .. Cols /\ chunk.col + fits \in 0 .. Cols BY <1>0, <1>1
  <1>3. values \in Seq(Cells) /\ Len(values) = fits
    <2> HIDE DEF fits
    <2>1. \A i \in 1 .. fits : Value(r, i) \in Cells BY <1>0, <1>2, CellsAre
    <2>2. values \in [1 .. fits -> Cells] BY <2>1
    <2>3. fits \in Nat BY <1>0, <1>2
    <2> QED BY <2>2, <2>3, SeqDef
  <1>4. first \in Seq(Cells)
    <2>1. <<>> \in Seq(Cells) /\ <<Header>> \in Seq(Cells) BY HeaderAlone
    <2> HIDE DEF fits
    <2> QED BY <2>1
  <1>5. AddValues(chunk, r, n) = [chunk EXCEPT !.buf = @ \o first \o values, !.header = @ \/ fits > 0, !.col = @ + fits]
    BY DEF AddValues
  <1>6. fits = 0 => first = <<>> /\ values = <<>>
    <2> HIDE DEF fits
    <2> QED BY <1>3
  <1>7. fits = Cols => first = (IF chunk.header THEN <<>> ELSE <<Header>>) /\ values = RowValues(r)
    <2> HIDE DEF fits
    <2> QED BY <1>0 DEF RowValues
  <1> HIDE DEF fits, first, values, chunk
  <1>8. (chunk.buf \o first) \o values = chunk.buf \o (first \o values)
    <2> DEFINE b0 == chunk.buf
    <2>1. b0 \in Seq(Cells) BY <1>1
    <2> HIDE DEF b0
    <2>2. (b0 \o first) \o values = b0 \o (first \o values) BY <2>1, <1>3, <1>4, Associates
    <2> QED BY <2>2 DEF b0
  <1>9. first \o values \in Seq(Cells) /\ chunk.buf \o (first \o values) \in Seq(Cells) BY <1>1, <1>3, <1>4
  <1>10. AddValues(chunk, r, n) = [buf |-> chunk.buf \o (first \o values), rows |-> chunk.rows,
                                  col |-> chunk.col + fits, header |-> chunk.header \/ fits > 0]
    BY <1>1, <1>5, <1>8
  <1>11. fits = 0 => first \o values = <<>>
    <2>1. <<>> \o <<>> = <<>> OBVIOUS
    <2> QED BY <1>6, <2>1
  <1>12. fits = Cols => first \o values = (IF chunk.header THEN <<>> ELSE <<Header>>) \o RowValues(r) BY <1>7
  <1>13. fits = IF n < Cols - chunk.col THEN n ELSE Cols - chunk.col BY DEF fits
  <1> QED BY <1>2, <1>9, <1>10, <1>11, <1>12, <1>13 DEF chunk

\* A row that follows a stream: the stream stays stacked, or torn.
LEMMA RowFollows ==
  ASSUME NEW s \in Seq(Cells), NEW g \in Seq(Nat), NEW r \in Nat \ {0}, Stacked(s, g) \/ Torn(s)
  PROVE  /\ s \o RowValues(r) \in Seq(Cells)
         /\ Stacked(s \o RowValues(r), g \o <<r>>) \/ Torn(s \o RowValues(r))
  <1> DEFINE v == RowValues(r)
  <1>0. Cols \in Nat \ {0} BY InserterAssumption
  <1>1. /\ v \in Seq(Cells) /\ Block(v, <<r>>) /\ Len(v) = Cols /\ \A p \in 1 .. Len(v) : v[p].row # 0
    BY OneRow
  <1> HIDE DEF v
  <1>2. s \o v \in Seq(Cells) BY <1>1
  <1>3. CASE Stacked(s, g)
    <2>1. <<r>> \in Seq(Nat) OBVIOUS
    <2>2. Stacked(s \o v, g \o <<r>>) BY <1>1, <1>3, <2>1, StackGrows
    <2> QED BY <1>2, <2>2 DEF v
  <1>4. CASE Torn(s)
    <2>2. CASE s = <<>>
      <3>1. (s \o v)[1] = v[1] /\ v[1].row # 0 BY <1>0, <1>1, <2>2
      <3> QED BY <1>2, <3>1 DEF Torn, v
    <2>3. CASE s # <<>> /\ s[1].row # 0
      <3>1. (s \o v)[1] = s[1] BY <1>1, <2>3
      <3> QED BY <1>2, <2>3, <3>1 DEF Torn, v
    <2> QED BY <1>4, <2>2, <2>3 DEF Torn
  <1> QED BY <1>3, <1>4

LEMMA AddRowKeeps == ASSUME InsInv, AddRow PROVE InsInv'
  <1> DEFINE r == ins.tried + 1
             chunk == EndRow(AddValues(ins.chunk, r, Cols))
             bytes == (IF ins.chunk.header THEN <<>> ELSE <<Header>>) \o RowValues(r)
             buf == ins.chunk.buf \o bytes
             stage == IF ShouldFlush(chunk) THEN "flush" ELSE "filling"
  <1>0. Cols \in Nat \ {0} BY InserterAssumption
  <1>1. /\ ins.stage = "filling" /\ ins.kind # "sender" /\ ins.chunk.col = 0 /\ UNCHANGED <<copyStream, table, mapped>>
        /\ ins' = [ins EXCEPT !.chunk = chunk, !.tried = r, !.given = ins.given \o <<r>>, !.stage = stage]
    BY DEF AddRow, Filling, Keep, InsInv, InsTypes
  <1>2. r \in Nat \ {0} /\ ins.given \in Seq(Nat) /\ ins.chunk.rows \in Nat BY DEF InsInv, InsTypes
  <1>3. /\ AddValues(ins.chunk, r, Cols) = [buf |-> buf, rows |-> ins.chunk.rows, col |-> ins.chunk.col + Cols,
                                            header |-> ins.chunk.header \/ Cols > 0]
        /\ buf \in Seq(Cells)
    <2>1. Cols \in 0 .. Cols BY <1>0
    <2>2. PICK fits \in 0 .. Cols, b \in Seq(Cells) :
           /\ fits = IF Cols < Cols - ins.chunk.col THEN Cols ELSE Cols - ins.chunk.col
           /\ fits = Cols => b = bytes
           /\ AddValues(ins.chunk, r, Cols) = [buf |-> ins.chunk.buf \o b, rows |-> ins.chunk.rows,
                                               col |-> ins.chunk.col + fits, header |-> ins.chunk.header \/ fits > 0]
           /\ ins.chunk.buf \o b \in Seq(Cells)
      <3> HIDE DEF r
      <3> QED BY <1>2, <2>1, AddedValues
    <2>3. fits = Cols BY <1>0, <1>1, <2>2
    <2> HIDE DEF r
    <2> QED BY <2>2, <2>3
  <1>4. chunk \in [buf : {buf}, rows : {ins.chunk.rows + 1}, col : {0}, header : {TRUE}]
    <2> HIDE DEF buf, r
    <2>1. (ins.chunk.header \/ Cols > 0) = TRUE BY <1>0
    <2>2. AddValues(ins.chunk, r, Cols) = [buf |-> buf, rows |-> ins.chunk.rows, col |-> ins.chunk.col + Cols, header |-> TRUE]
      BY <1>3, <2>1
    <2> DEFINE x == AddValues(ins.chunk, r, Cols)
    <2>3. x \in [buf : {buf}, rows : {ins.chunk.rows}, col : {ins.chunk.col + Cols}, header : {TRUE}] BY <2>2
    <2> HIDE DEF x
    <2>4. [x EXCEPT !.col = 0, !.rows = @ + 1] \in [buf : {buf}, rows : {ins.chunk.rows + 1}, col : {0}, header : {TRUE}]
      BY <2>3
    <2> QED BY <2>4 DEF EndRow, x
  <1> HIDE DEF chunk, buf, r
  <1>5. stage \in StillOpen BY DEF StillOpen
  <1> HIDE DEF stage
  <1>6. /\ ins'.kind = ins.kind /\ ins'.chunk = chunk /\ ins'.stage = stage /\ ins'.tried = r
        /\ ins'.given = ins.given \o <<r>> /\ ins'.headerSent = ins.headerSent /\ ins'.lost = ins.lost
        /\ ins' \in [kind : InserterKinds, chunk : {chunk}, stage : InsStages, tried : Nat, given : {ins.given \o <<r>>},
                     headerSent : BOOLEAN, lost : BOOLEAN]
    BY <1>1, <1>2, <1>5 DEF InsInv, InsTypes, StillOpen, InsStages
  <1>7. /\ chunk \in [buf : {buf}, rows : Nat, col : 0 .. Cols, header : BOOLEAN]
        /\ chunk.buf = buf /\ chunk.rows = ins.chunk.rows + 1 /\ chunk.col = 0 /\ chunk.header
    <2>1. chunk.buf = buf /\ chunk.rows = ins.chunk.rows + 1 /\ chunk.col = 0 /\ chunk.header BY <1>4
    <2>2. chunk = [buf |-> chunk.buf, rows |-> chunk.rows, col |-> chunk.col, header |-> chunk.header] BY <1>4
    <2>3. chunk.rows \in Nat /\ chunk.col \in 0 .. Cols /\ chunk.header \in BOOLEAN BY <2>1, <1>0, <1>2, <1>4
    <2>4. chunk \in [buf : {chunk.buf}, rows : Nat, col : 0 .. Cols, header : BOOLEAN] BY <2>2, <2>3
    <2> QED BY <2>1, <2>4
  <1>8. ins.given \o <<r>> \in Seq(Nat) /\ \A i \in 1 .. Len(ins.given \o <<r>>) : (ins.given \o <<r>>)[i] \in 1 .. r
    <2>1. \A i \in 1 .. Len(ins.given) : ins.given[i] \in 1 .. ins.tried BY DEF InsInv, InsTypes
    <2>2. <<r>> \in Seq(Nat) /\ Len(<<r>>) = 1 /\ <<r>>[1] = r BY <1>2
    <2>3. ins.tried \in Nat /\ r = ins.tried + 1 BY DEF r, InsInv, InsTypes
    <2> QED BY <1>2, <2>1, <2>2, <2>3
  <1>9. InsTypes' BY <1>1, <1>3, <1>6, <1>7, <1>8 DEF InsInv, InsTypes
  <1>10. ASSUME ~ins.lost PROVE Stacked(Streamed', ins'.given) \/ Torn(Streamed')
    <2> DEFINE pre == IF CopyOpen THEN copyStream ELSE <<>>
    <2>1. pre \in Seq(Cells) /\ ins.chunk.buf \in Seq(Cells) BY DEF InsInv, InsTypes
    <2>2. Streamed = pre \o ins.chunk.buf BY DEF Streamed, Sent
    <2>3. Streamed' = pre \o buf
      <3>1. CopyOpen' = CopyOpen BY <1>1 DEF CopyOpen, NoCopy
      <3> QED BY <3>1, <1>1, <1>6, <1>7 DEF Streamed, Sent
    <2> DEFINE v == RowValues(r)
    <2>4. v \in Seq(Cells) BY <1>2, OneRow
    <2> HIDE DEF pre, v
    <2>5. CASE ins.chunk.header
      <3>1. Stacked(Streamed, ins.given) \/ Torn(Streamed) BY <2>5, <1>1, <1>10 DEF InsInv, FillKept, StillOpen
      <3>2. buf = ins.chunk.buf \o v
        <4>1. <<>> \o v = v BY <2>4
        <4> QED BY <4>1, <2>5 DEF buf, bytes, v
      <3>3. Streamed' = Streamed \o v
        <4> DEFINE b0 == ins.chunk.buf
        <4>1. b0 \in Seq(Cells) BY <2>1
        <4> HIDE DEF b0
        <4>2. (pre \o b0) \o v = pre \o (b0 \o v) BY <4>1, <2>1, <2>4, Associates
        <4> QED BY <4>2, <2>2, <2>3, <3>2 DEF b0
      <3>4. Streamed \in Seq(Cells) BY <2>1, <2>2
      <3> QED BY <3>1, <3>3, <3>4, <1>2, <1>6, RowFollows DEF v
    <2>6. CASE ~ins.chunk.header
      <3>1. ins.chunk.buf = <<>> /\ ins.given = <<>> /\ ~CopyOpen BY <2>6, <1>1, <1>10 DEF InsInv, FillKept, StillOpen
      <3>2. <<Header>> \o v \in Seq(Cells) /\ <<Header>> \in Seq(Cells) BY <2>4, HeaderAlone
      <3>3. buf = <<Header>> \o v
        <4>1. <<>> \o (<<Header>> \o v) = <<Header>> \o v BY <3>2
        <4> QED BY <4>1, <3>1, <2>6 DEF buf, bytes, v
      <3>4. pre = <<>> BY <3>1 DEF pre
      <3>5. Streamed' = <<Header>> \o v
        <4>1. <<>> \o (<<Header>> \o v) = <<Header>> \o v BY <3>2
        <4> QED BY <4>1, <2>3, <3>3, <3>4
      <3>6. Stacked(<<Header>>, <<>>) /\ <<>> \in Seq(Nat) BY HeaderAlone
      <3>7. Stacked(<<Header>> \o v, <<>> \o <<r>>) \/ Torn(<<Header>> \o v)
        BY <3>2, <3>6, <1>2, RowFollows DEF v
      <3> QED BY <3>1, <3>5, <3>7, <1>6
    <2> QED BY <2>5, <2>6
  <1>11. FillKept' BY <1>1, <1>2, <1>6, <1>7, <1>10 DEF FillKept
  <1>12. SenderKept' /\ SharedStreamIsFramed' BY <1>1, <1>6 DEF SenderKept, SharedStreamIsFramed
  <1>13. ins.stage \in StillOpen /\ ins'.stage \in StillOpen BY <1>1, <1>5, <1>6 DEF StillOpen
  <1> QED BY <1>1, <1>6, <1>9, <1>11, <1>12, <1>13, StillFills

LEMMA AddRowFailsKeeps == ASSUME InsInv, AddRowFails PROVE InsInv'
  <1> DEFINE r == ins.tried + 1
  <1>0. Cols \in Nat \ {0} BY InserterAssumption
  <1>1. PICK n \in 0 .. Cols : /\ n < Cols \/ ins.chunk.col > 0
                              /\ ins' = [ins EXCEPT !.chunk = AddValues(ins.chunk, r, n), !.tried = r]
    BY DEF AddRowFails, InsInv, InsTypes
  <1>2. ins.stage = "filling" /\ ins.kind # "sender" /\ UNCHANGED <<copyStream, table, mapped>>
    BY DEF AddRowFails, Filling, Keep
  <1>3. /\ r \in Nat \ {0} /\ ins.chunk \in [buf : {ins.chunk.buf}, rows : Nat, col : 0 .. Cols, header : BOOLEAN]
        /\ ins.chunk.buf \in Seq(Cells)
    BY DEF InsInv, InsTypes
  <1> HIDE DEF r
  <1>4. PICK fits \in 0 .. Cols, bytes \in Seq(Cells) :
           /\ ins.chunk.col + fits \in 0 .. Cols
           /\ fits = 0 => bytes = <<>>
           /\ AddValues(ins.chunk, r, n) = [buf |-> ins.chunk.buf \o bytes, rows |-> ins.chunk.rows,
                                            col |-> ins.chunk.col + fits, header |-> ins.chunk.header \/ fits > 0]
           /\ ins.chunk.buf \o bytes \in Seq(Cells)
    BY <1>1, <1>3, AddedValues
  <1> DEFINE chunk == AddValues(ins.chunk, r, n)
  <1>5. /\ chunk.buf = ins.chunk.buf \o bytes /\ chunk.rows = ins.chunk.rows /\ chunk.col = ins.chunk.col + fits
        /\ chunk.header = (ins.chunk.header \/ fits > 0)
        /\ chunk \in [buf : {chunk.buf}, rows : Nat, col : 0 .. Cols, header : BOOLEAN]
    <2>1. (ins.chunk.header \/ fits > 0) \in BOOLEAN OBVIOUS
    <2> DEFINE b1 == ins.chunk.buf \o bytes
               h1 == ins.chunk.header \/ fits > 0
               c1 == ins.chunk.col + fits
               k1 == ins.chunk.rows
    <2>2. k1 \in Nat /\ c1 \in 0 .. Cols /\ h1 \in BOOLEAN BY <1>3, <1>4
    <2>3. chunk = [buf |-> b1, rows |-> k1, col |-> c1, header |-> h1] BY <1>4
    <2> HIDE DEF b1, h1, c1, k1, chunk
    <2>4. /\ chunk.buf = b1 /\ chunk.rows = k1 /\ chunk.col = c1 /\ chunk.header = h1
          /\ chunk \in [buf : {chunk.buf}, rows : Nat, col : 0 .. Cols, header : BOOLEAN]
      BY <2>2, <2>3
    <2> QED BY <2>4 DEF b1, h1, c1, k1
  <1> HIDE DEF chunk
  <1>6. /\ ins'.kind = ins.kind /\ ins'.chunk = chunk /\ ins'.stage = "filling" /\ ins'.tried = r
        /\ ins'.given = ins.given /\ ins'.headerSent = ins.headerSent /\ ins'.lost = ins.lost
        /\ ins' \in [kind : InserterKinds, chunk : {chunk}, stage : InsStages, tried : Nat, given : {ins.given},
                     headerSent : BOOLEAN, lost : BOOLEAN]
    BY <1>1, <1>2, <1>3 DEF InsInv, InsTypes, chunk
  <1>7. \A i \in 1 .. Len(ins.given) : ins.given[i] \in 1 .. r BY DEF InsInv, InsTypes, r
  <1>8. chunk.buf \in Seq(Cells) BY <1>4, <1>5
  <1>9. InsTypes' BY <1>2, <1>5, <1>6, <1>7, <1>8 DEF InsInv, InsTypes
  <1>10. FillKept'
    <2>1. CASE fits = 0
      <3>1. chunk.buf = ins.chunk.buf
        <4> DEFINE b0 == ins.chunk.buf
        <4>1. b0 \in Seq(Cells) BY <1>3
        <4> HIDE DEF b0
        <4>2. b0 \o <<>> = b0 BY <4>1
        <4> QED BY <4>2, <2>1, <1>4, <1>5 DEF b0
      <3>2. chunk.rows = ins.chunk.rows /\ chunk.col = ins.chunk.col /\ chunk.header = ins.chunk.header
        BY <2>1, <1>3, <1>5
      <3>3. CopyOpen' = CopyOpen /\ Streamed' = Streamed BY <1>2, <1>6, <3>1 DEF Streamed, Sent, CopyOpen, NoCopy
      <3> QED BY <1>2, <1>6, <3>1, <3>2, <3>3 DEF InsInv, FillKept
    <2>2. CASE fits # 0
      <3>1. chunk.col # 0 /\ chunk.header BY <2>2, <1>0, <1>3, <1>5
      <3> QED BY <1>6, <3>1 DEF FillKept
    <2> QED BY <2>1, <2>2
  <1>11. SenderKept' /\ SharedStreamIsFramed' BY <1>2, <1>6 DEF SenderKept, SharedStreamIsFramed
  <1>12. ins.stage \in StillOpen /\ ins'.stage \in StillOpen BY <1>2, <1>6 DEF StillOpen
  <1> QED BY <1>2, <1>6, <1>9, <1>10, <1>11, <1>12, StillFills

\* What take leaves of the chunk.
LEMMA Taken ==
  ASSUME InsInv
  PROVE  /\ Take(ins.chunk) \in [buf : {Take(ins.chunk).buf}, rows : Nat, col : 0 .. Cols, header : BOOLEAN]
         /\ Take(ins.chunk).buf = <<>> /\ Take(ins.chunk).rows = 0 /\ Take(ins.chunk).col = ins.chunk.col
         /\ Take(ins.chunk).header = ins.chunk.header
         /\ Take(ins.chunk).buf \in Seq(Cells)
  <1>1. ins.chunk \in [buf : {ins.chunk.buf}, rows : Nat, col : 0 .. Cols, header : BOOLEAN] BY DEF InsInv, InsTypes
  <1> DEFINE c == ins.chunk
             t == [c EXCEPT !.buf = <<>>, !.rows = 0]
  <1>2. c \in [buf : {c.buf}, rows : Nat, col : 0 .. Cols, header : BOOLEAN] BY <1>1
  <1> HIDE DEF c
  <1>3. t \in [buf : {<<>>}, rows : {0}, col : {c.col}, header : {c.header}] BY <1>2
  <1>4. c.col \in 0 .. Cols /\ c.header \in BOOLEAN BY <1>2
  <1>5. Take(c) = t BY DEF Take
  <1> HIDE DEF t
  <1>6. /\ t \in [buf : {t.buf}, rows : Nat, col : 0 .. Cols, header : BOOLEAN]
        /\ t.buf = <<>> /\ t.rows = 0 /\ t.col = c.col /\ t.header = c.header /\ t.buf \in Seq(Cells)
    <2>1. t.buf = <<>> /\ t.rows = 0 /\ t.col = c.col /\ t.header = c.header BY <1>3
    <2>2. t = [buf |-> t.buf, rows |-> t.rows, col |-> t.col, header |-> t.header] BY <1>3
    <2>3. t.rows \in Nat /\ t.col \in 0 .. Cols /\ t.header \in BOOLEAN BY <2>1, <1>4
    <2>4. t \in [buf : {t.buf}, rows : Nat, col : 0 .. Cols, header : BOOLEAN] BY <2>2, <2>3
    <2> QED BY <2>1, <2>4
  <1> QED BY <1>5, <1>6 DEF c

\* A chunk leaves, one way or another, and the inserter goes on filling.
LEMMA FlushTypes ==
  ASSUME InsInv, ins.stage = "flush", NEW c, c = Take(ins.chunk) \/ c = ins.chunk, NEW l \in BOOLEAN,
         ins' = [ins EXCEPT !.chunk = c, !.stage = "filling", !.lost = l], copyStream' \in Seq(Cells),
         UNCHANGED <<table, mapped>>, FillKept'
  PROVE  InsInv'
  <1>1. /\ ins'.kind = ins.kind /\ ins'.chunk = c /\ ins'.stage = "filling" /\ ins'.tried = ins.tried
        /\ ins'.given = ins.given /\ ins'.headerSent = ins.headerSent /\ ins'.lost = l
        /\ ins' \in [kind : InserterKinds, chunk : {c}, stage : InsStages, tried : Nat, given : {ins.given},
                     headerSent : BOOLEAN, lost : BOOLEAN]
    BY DEF InsInv, InsTypes, InsStages
  <1>2. c \in [buf : {c.buf}, rows : Nat, col : 0 .. Cols, header : BOOLEAN] /\ c.buf \in Seq(Cells)
    BY Taken DEF InsInv, InsTypes
  <1>3. InsTypes' BY <1>1, <1>2 DEF InsInv, InsTypes
  <1>4. ins'.kind # "sender" BY <1>1 DEF InsInv, FillKept
  <1>5. SenderKept' /\ SharedStreamIsFramed' BY <1>4 DEF SenderKept, SharedStreamIsFramed
  <1>6. ins.stage \in StillOpen /\ ins'.stage \in StillOpen BY <1>1 DEF StillOpen
  <1> QED BY <1>1, <1>3, <1>5, <1>6, StillFills

LEMMA FlushChunkKeeps == ASSUME InsInv, FlushChunk PROVE InsInv'
  <1> DEFINE c == Take(ins.chunk)
  <1>1. /\ ins.stage = "flush" /\ ~ins.lost /\ copyStream' = Streamed /\ UNCHANGED <<table, mapped>>
        /\ ins' = [ins EXCEPT !.chunk = c, !.stage = "filling"]
    BY DEF FlushChunk, Streamed, Keep
  <1>2. ins' = [ins EXCEPT !.chunk = c, !.stage = "filling", !.lost = FALSE] BY <1>1 DEF InsInv, InsTypes
  <1>3. /\ ins'.chunk = c /\ ins'.stage = "filling" /\ ins'.given = ins.given
    BY <1>1 DEF InsInv, InsTypes
  <1>4. c.buf = <<>> /\ c.rows = 0 /\ c.header /\ c.col = 0 BY <1>1, Taken DEF InsInv, FillKept
  <1>5. Stacked(Streamed, ins.given) \/ Torn(Streamed) BY <1>1 DEF InsInv, FillKept, StillOpen
  <1>6. Streamed \in Seq(Cells)
    <2> DEFINE pre == IF CopyOpen THEN copyStream ELSE <<>>
    <2>1. pre \in Seq(Cells) /\ ins.chunk.buf \in Seq(Cells) BY DEF InsInv, InsTypes
    <2> HIDE DEF pre
    <2>2. Streamed = pre \o ins.chunk.buf BY DEF pre, Streamed, Sent
    <2> QED BY <2>1, <2>2
  <1> HIDE DEF c
  <1>7. Streamed # NoCopy
    <2>1. NoCopy # <<>> /\ NoCopy[1] = Trailer BY DEF NoCopy
    <2> QED BY <1>5, <2>1, CellsAre DEF Stacked, Torn
  <1>8. CopyOpen' BY <1>1, <1>7 DEF CopyOpen, NoCopy, Trailer
  <1>9. Streamed' = Streamed
    <2>1. Streamed' = copyStream' \o <<>> BY <1>3, <1>4, <1>8 DEF Streamed, Sent
    <2>2. Streamed \o <<>> = Streamed BY <1>6
    <2> QED BY <1>1, <2>1, <2>2
  <1>10. FillKept' BY <1>3, <1>4, <1>5, <1>9 DEF FillKept
  <1>11. copyStream' \in Seq(Cells) BY <1>1, <1>6
  <1> QED BY <1>1, <1>2, <1>10, <1>11, FlushTypes DEF c

LEMMA FlushRefusedKeeps == ASSUME InsInv, FlushRefused PROVE InsInv'
  <1> DEFINE c == IF Blocking THEN Take(ins.chunk) ELSE ins.chunk
  <1>1. /\ ins.stage = "flush" /\ ~CopyOpen /\ UNCHANGED <<copyStream, table, mapped>>
        /\ ins' = [ins EXCEPT !.chunk = c, !.stage = "filling"]
    BY DEF FlushRefused, Keep
  <1>2. ins' = [ins EXCEPT !.chunk = c, !.stage = "filling", !.lost = ins.lost] /\ ins.lost \in BOOLEAN
    BY <1>1 DEF InsInv, InsTypes
  <1>3. /\ ins'.chunk = c /\ ins'.stage = "filling" /\ ins'.given = ins.given /\ ins'.lost = ins.lost /\ ins'.kind = ins.kind
    BY <1>1 DEF InsInv, InsTypes
  <1>4. ~CopyOpen' BY <1>1 DEF CopyOpen, NoCopy, Trailer
  <1>5. c = Take(ins.chunk) \/ c = ins.chunk OBVIOUS
  <1> HIDE DEF c
  <1>6. FillKept'
    <2>1. CASE c = Take(ins.chunk)
      <3>1. c.buf = <<>> /\ c.rows = 0 /\ c.header /\ c.col = 0 BY <1>1, <2>1, Taken DEF InsInv, FillKept
      <3>2. Streamed' = <<>>
        <4>1. Streamed' = <<>> \o <<>> BY <1>3, <1>4, <3>1 DEF Streamed, Sent
        <4> QED BY <4>1
      <3> QED BY <1>3, <3>1, <3>2 DEF FillKept, Torn
    <2>2. CASE c = ins.chunk
      <3>1. Streamed' = Streamed BY <1>1, <1>3, <1>4, <2>2 DEF Streamed, Sent
      <3> QED BY <1>1, <1>3, <1>4, <2>2, <3>1 DEF InsInv, FillKept, StillOpen
    <2> QED BY <1>5, <2>1, <2>2
  <1>7. copyStream' \in Seq(Cells) BY <1>1 DEF InsInv, InsTypes
  <1> QED BY <1>1, <1>2, <1>5, <1>6, <1>7, FlushTypes

LEMMA FlushLostKeeps == ASSUME InsInv, FlushLost PROVE InsInv'
  <1> DEFINE c == Take(ins.chunk)
  <1>1. /\ ins.stage = "flush" /\ copyStream' = NoCopy /\ UNCHANGED <<table, mapped>>
        /\ ins' = [ins EXCEPT !.chunk = c, !.stage = "filling", !.lost = TRUE]
    BY DEF FlushLost, Keep
  <1>2. ins'.stage = "filling" /\ ins'.lost BY <1>1 DEF InsInv, InsTypes
  <1>3. FillKept' BY <1>2 DEF FillKept
  <1>4. copyStream' \in Seq(Cells) BY <1>1, CellsAre DEF NoCopy
  <1> HIDE DEF c
  <1> QED BY <1>1, <1>3, <1>4, FlushTypes DEF c

\* The rows the server cuts from a stacked stream are the caller's.
LEMMA Landed ==
  ASSUME InsInv, ins.stage \in StillOpen, NEW s \in Seq(Cells), Stacked(s, ins.given), NEW how \in {"done", "map"},
         table' = table \o RowsOf(s), ins' = [ins EXCEPT !.stage = how], copyStream' = NoCopy
  PROVE  InsInv'
  <1> DEFINE rs == RowsOf(s)
             n == Len(ins.given)
             R == {RowValues(x) : x \in Nat}
  <1>1. table = <<>> BY DEF InsInv, InsertIsWhole, EveryRowOrNone, StillOpen
  <1>2. /\ ins'.stage = how /\ ins'.tried = ins.tried /\ ins'.given = ins.given
    BY DEF InsInv, InsTypes
  <1>3. ins.given \in Seq(Nat) /\ \A i \in 1 .. n : ins.given[i] \in 1 .. ins.tried BY DEF InsInv, InsTypes
  <1>4. rs = [i \in 1 .. n |-> rs[i]] /\ \A i \in 1 .. n : rs[i] = RowValues(ins.given[i]) BY <1>3, CutIsStacked
  <1>5. n \in Nat /\ \A i \in 1 .. n : ins.given[i] \in Nat BY <1>3
  <1> HIDE DEF rs, n
  <1>6. rs \in [1 .. n -> R]
    <2>1. \A i \in 1 .. n : rs[i] \in R BY <1>4, <1>5
    <2> HIDE DEF R
    <2> QED BY <1>4, <2>1
  <1> HIDE DEF R
  <1>7. rs \in Seq(R) /\ Len(rs) = n
    <2>1. rs \in Seq(R) BY <1>5, <1>6, SeqDef
    <2> QED BY <2>1, <1>5, <1>6
  <1>8. table' = rs
    <2>1. <<>> \o rs = rs BY <1>7
    <2> QED BY <1>1, <2>1 DEF rs
  <1>9. RowsAreWhole'
    <2>1. DOMAIN rs = 1 .. n BY <1>6
    <2>2. ASSUME NEW i \in DOMAIN table' PROVE \E r \in 1 .. ins'.tried : table'[i] = RowValues(r)
      <3>1. i \in 1 .. n BY <2>1, <1>8
      <3>2. ins.given[i] \in 1 .. ins'.tried /\ table'[i] = RowValues(ins.given[i]) BY <3>1, <1>2, <1>3, <1>4, <1>8
      <3> QED BY <3>2
    <2> QED BY <2>2 DEF RowsAreWhole, RowValues
  <1>10. EveryRowOrNone' BY <1>2, <1>7, <1>8 DEF EveryRowOrNone, n
  <1>11. how \in InsStages \ StillOpen BY DEF InsStages, StillOpen
  <1> QED BY <1>9, <1>10, <1>11, InserterEnded

\* The inserter ends without a row in the table.
LEMMA EndsEmpty ==
  ASSUME InsInv, ins.stage \in StillOpen, NEW how \in {"done", "map", "failed", "cancelled"}, UNCHANGED table,
         how \in {"done", "map"} => ins.given = <<>>,
         ins' = [ins EXCEPT !.stage = how], copyStream' = NoCopy
  PROVE  InsInv'
  <1>1. table' = <<>> BY DEF InsInv, InsertIsWhole, EveryRowOrNone, StillOpen
  <1>2. /\ ins'.stage = how /\ ins'.tried = ins.tried /\ ins'.given = ins.given
    BY DEF InsInv, InsTypes
  <1>3. DOMAIN table' = {} /\ Len(table') = 0 BY <1>1
  <1>4. RowsAreWhole' /\ EveryRowOrNone' BY <1>1, <1>2, <1>3 DEF RowsAreWhole, EveryRowOrNone
  <1>5. how \in InsStages \ StillOpen BY DEF InsStages, StillOpen
  <1> QED BY <1>4, <1>5, InserterEnded

LEMMA InsertExecuted == ASSUME InsInv, Execute PROVE InsInv'
  <1> DEFINE s == Sent(IF ins.chunk.rows = 0 THEN <<>> ELSE ins.chunk.buf)
             how == IF ins.kind = "mapped" THEN "map" ELSE "done"
  <1>1. /\ ins.stage = "filling" /\ ins.kind # "sender" /\ ins.chunk.col = 0 /\ ~ins.lost /\ ins.given # <<>>
        /\ Framed(s) /\ table' = table \o RowsOf(s) /\ ins' = [ins EXCEPT !.stage = how] /\ copyStream' = NoCopy
    BY DEF Execute, Filling, Abort, Ends
  <1>2. how \in {"done", "map"} OBVIOUS
  <1>3. ins.stage \in StillOpen BY <1>1 DEF StillOpen
  <1>4. ins.chunk.header /\ (Stacked(Streamed, ins.given) \/ Torn(Streamed)) /\ (ins.chunk.rows = 0 => ins.chunk.buf = <<>>)
    BY <1>1, <1>3 DEF InsInv, FillKept
  <1>5. s = Streamed BY <1>4 DEF Streamed
  <1>6. Streamed \in Seq(Cells)
    <2> DEFINE pre == IF CopyOpen THEN copyStream ELSE <<>>
    <2>1. pre \in Seq(Cells) /\ ins.chunk.buf \in Seq(Cells) BY DEF InsInv, InsTypes
    <2> HIDE DEF pre
    <2>2. Streamed = pre \o ins.chunk.buf BY DEF pre, Streamed, Sent
    <2> QED BY <2>1, <2>2
  <1> HIDE DEF s, how
  <1>7. ~Torn(s)
    <2>1. s # <<>> /\ s[1] = Header BY <1>1 DEF Framed
    <2> QED BY <2>1, CellsAre DEF Torn
  <1>8. s \in Seq(Cells) /\ Stacked(s, ins.given) BY <1>4, <1>5, <1>6, <1>7
  <1> QED BY <1>1, <1>2, <1>3, <1>8, Landed

LEMMA InserterEnds ==
  ASSUME InsInv, ExecuteIncomplete \/ ExecuteNothing \/ ExecuteFails \/ Cancel
  PROVE  InsInv'
  <1> DEFINE end == IF ins.kind = "mapped" THEN "map" ELSE "done"
             stop == IF ins.kind = "mapped" THEN "failed" ELSE "cancelled"
  <1>1. ins.stage \in StillOpen /\ UNCHANGED table /\ copyStream' = NoCopy
    BY DEF ExecuteIncomplete, ExecuteNothing, ExecuteFails, Cancel, Filling, StillOpen, Abort, Keep
  <1>2. end \in {"done", "map"} /\ stop \in {"failed", "cancelled"} OBVIOUS
  <1>3. \/ ins' = [ins EXCEPT !.stage = "failed"]
        \/ ins' = [ins EXCEPT !.stage = end] /\ ins.given = <<>>
        \/ ins' = [ins EXCEPT !.stage = stop]
    BY DEF ExecuteIncomplete, ExecuteNothing, ExecuteFails, Cancel, Abort, Ends
  <1> HIDE DEF end, stop
  <1>4. CASE ins' = [ins EXCEPT !.stage = "failed"] BY <1>1, <1>4, EndsEmpty
  <1>5. CASE ins' = [ins EXCEPT !.stage = end] /\ ins.given = <<>> BY <1>1, <1>2, <1>5, EndsEmpty
  <1>6. CASE ins' = [ins EXCEPT !.stage = stop]
    <2>1. stop \in {"done", "map", "failed", "cancelled"} /\ stop \notin {"done", "map"} BY <1>2
    <2> QED BY <1>1, <2>1, <1>6, EndsEmpty
  <1> QED BY <1>3, <1>4, <1>5, <1>6

\* The staging table's steps find the COPY closed.
LEMMA MappedKeeps ==
  ASSUME InsInv, InsertSelect \/ DropNow \/ DropStaging
  PROVE  InsInv'
  <1>1. ins.stage \in {"map", "unstage", "failed"} /\ UNCHANGED <<copyStream, table>>
    BY DEF InsertSelect, DropNow, DropStaging
  <1>2. ~CopyOpen /\ copyStream' = NoCopy BY <1>1 DEF InsInv, EndKept, StillOpen, CopyOpen
  <1>3. \E how \in InsStages \ StillOpen :
           /\ ins' = [ins EXCEPT !.stage = how]
           /\ how \in {"done", "map", "unstage", "errored"} => ins.stage \in {"map", "unstage"}
           /\ how # "cancelled"
    <2>1. CASE InsertSelect
      <3>1. ins' = [ins EXCEPT !.stage = "unstage"] \/ ins' = [ins EXCEPT !.stage = "failed"] BY <2>1 DEF InsertSelect, Ends
      <3>2. ins.stage = "map" BY <2>1 DEF InsertSelect
      <3> QED BY <3>1, <3>2 DEF InsStages, StillOpen
    <2>2. CASE DropNow
      <3>1. ins' = [ins EXCEPT !.stage = "done"] \/ ins' = [ins EXCEPT !.stage = "errored"] BY <2>2 DEF DropNow, Ends
      <3>2. ins.stage = "unstage" BY <2>2 DEF DropNow
      <3> QED BY <3>1, <3>2 DEF InsStages, StillOpen
    <2>3. CASE DropStaging
      <3>1. ins' = ins /\ ins.stage = "failed" BY <2>3 DEF DropStaging
      <3>2. ins' = [ins EXCEPT !.stage = "failed"] BY <3>1 DEF InsInv, InsTypes
      <3> QED BY <3>2 DEF InsStages, StillOpen
    <2> QED BY <2>1, <2>2, <2>3
  <1>4. PICK how \in InsStages \ StillOpen :
           /\ ins' = [ins EXCEPT !.stage = how]
           /\ how \in {"done", "map", "unstage", "errored"} => ins.stage \in {"map", "unstage"}
           /\ how # "cancelled"
    BY <1>3
  <1>5. ins'.stage = how /\ ins'.tried = ins.tried /\ ins'.given = ins.given BY <1>4 DEF InsInv, InsTypes
  <1>6. RowsAreWhole' BY <1>1, <1>5 DEF InsInv, InsertIsWhole, RowsAreWhole, Value
  <1>7. EveryRowOrNone' BY <1>1, <1>4, <1>5 DEF InsInv, InsertIsWhole, EveryRowOrNone, StillOpen
  <1> QED BY <1>2, <1>4, <1>6, <1>7, InserterEnded

LEMMA SendChunkKeeps == ASSUME InsInv, SendChunk PROVE InsInv'
  <1> DEFINE t == ins.tried
             g == ins.given
  <1>1. PICK n \in 1 .. ChunkRows :
          /\ copyStream' = Sent(IF ins.headerSent THEN Tail(ChunkOf(t + 1, n)) ELSE ChunkOf(t + 1, n))
          /\ ins' = [ins EXCEPT !.tried = t + n, !.given = g \o [i \in 1 .. n |-> t + i], !.headerSent = TRUE]
    BY DEF SendChunk, InsInv, InsTypes
  <1>2. /\ ins.stage = "filling" /\ ins.kind = "sender" /\ ~ins.lost /\ UNCHANGED <<table, mapped>>
    BY DEF SendChunk, Filling, Keep
  <1>3. t \in Nat /\ n \in Nat \ {0} /\ g \in Seq(Nat) /\ \A i \in 1 .. Len(g) : g[i] \in 1 .. t
    BY InserterAssumption DEF InsInv, InsTypes
  <1> HIDE DEF t, g
  <1>4. PICK v \in Seq(Cells), h \in Seq(Nat) :
            /\ h = [i \in 1 .. n |-> t + i] /\ Len(h) = n
            /\ Block(v, h) /\ ChunkOf(t + 1, n) = <<Header>> \o v /\ Tail(ChunkOf(t + 1, n)) = v
            /\ \A p \in 1 .. Len(v) : v[p].row # 0
    BY <1>3, ManyRows
  <1>5. ins' = [ins EXCEPT !.tried = t + n, !.given = g \o h, !.headerSent = TRUE] BY <1>1, <1>4
  <1>6. \A i \in 1 .. n : h[i] = t + i BY <1>4
  <1>7. g \o h \in Seq(Nat) /\ \A i \in 1 .. Len(g \o h) : (g \o h)[i] \in 1 .. t + n
    <2>1. Len(g \o h) = Len(g) + n /\ Len(g) \in Nat BY <1>3, <1>4
    <2>2. ASSUME NEW i \in 1 .. Len(g \o h) PROVE (g \o h)[i] \in 1 .. t + n
      <3>1. CASE i <= Len(g)
        <4>1. (g \o h)[i] = g[i] BY <3>1, <1>3, <1>4
        <4> QED BY <3>1, <4>1, <1>3, <2>1
      <3>2. CASE i > Len(g)
        <4>1. (g \o h)[i] = h[i - Len(g)] BY <3>2, <1>3, <1>4
        <4>2. i - Len(g) \in 1 .. n BY <3>2, <2>1
        <4>3. (g \o h)[i] = t + (i - Len(g)) BY <4>1, <4>2, <1>6
        <4> QED BY <4>2, <4>3, <1>3
      <3> QED BY <3>1, <3>2, <2>1
    <2> QED BY <2>2, <1>3, <1>4
  <1>8. /\ ins'.kind = ins.kind /\ ins'.chunk = ins.chunk /\ ins'.stage = "filling" /\ ins'.tried = t + n
        /\ ins'.given = g \o h /\ ins'.headerSent /\ ins'.lost = ins.lost
        /\ ins' \in [kind : InserterKinds, chunk : {ins.chunk}, stage : InsStages, tried : Nat, given : {g \o h},
                     headerSent : BOOLEAN, lost : BOOLEAN]
    <2>1. t + n \in Nat BY <1>3
    <2> HIDE DEF InserterKinds
    <2> QED BY <1>2, <1>5, <2>1 DEF InsInv, InsTypes, InsStages
  <1>9. PICK s \in Seq(Cells), k \in Seq(Nat) :
           /\ copyStream' = s \o v /\ k = g /\ Stacked(s, k)
           /\ s # <<>> /\ s[1] = Header /\ \A p \in 2 .. Len(s) : s[p] # Header
    <2>1. CASE CopyOpen
      <3>1. ins.headerSent /\ Stacked(copyStream, g) BY <1>2, <2>1 DEF InsInv, SenderKept, g
      <3>2. copyStream[1] = Header /\ \A p \in 2 .. Len(copyStream) : copyStream[p] # Header
        BY <1>2, <2>1 DEF InsInv, InsertIsWhole, SharedStreamIsFramed
      <3>3. copyStream' = copyStream \o v BY <1>1, <1>4, <2>1, <3>1 DEF Sent
      <3>4. copyStream \in Seq(Cells) BY DEF InsInv, InsTypes
      <3>5. copyStream # <<>>
        <4>1. Len(copyStream) = 1 + Len(g) * Cols BY <3>1 DEF Stacked
        <4>2. 0 * Cols <= Len(g) * Cols BY <1>3, MoreRows
        <4>3. 0 * Cols = 0 /\ Len(g) * Cols \in Int BY <1>3, InserterAssumption
        <4>4. Len(copyStream) >= 1 BY <4>1, <4>2, <4>3
        <4> QED BY <4>4
      <3> QED BY <1>3, <3>1, <3>2, <3>3, <3>4, <3>5
    <2>2. CASE ~CopyOpen
      <3>1. ~ins.headerSent /\ g = <<>> BY <1>2, <2>2 DEF InsInv, SenderKept, g
      <3>2. copyStream' = <<>> \o (<<Header>> \o v) BY <1>1, <1>4, <2>2, <3>1 DEF Sent
      <3>3. <<Header>> \in Seq(Cells) /\ Stacked(<<Header>>, <<>>) BY HeaderAlone
      <3>4. <<>> \o (<<Header>> \o v) = <<Header>> \o v
        <4>1. <<Header>> \o v \in Seq(Cells) BY <3>3
        <4> QED BY <4>1
      <3>5. <<Header>> # <<>> /\ <<Header>>[1] = Header /\ Len(<<Header>>) = 1 OBVIOUS
      <3> DEFINE s == <<Header>>
      <3>6. /\ s \in Seq(Cells) /\ copyStream' = s \o v /\ Stacked(s, g) /\ s # <<>> /\ s[1] = Header
            /\ \A p \in 2 .. Len(s) : s[p] # Header
        BY <3>1, <3>2, <3>3, <3>4, <3>5
      <3> HIDE DEF s
      <3> QED BY <3>6, <1>3
    <2> QED BY <2>1, <2>2
  <1>10. Stacked(copyStream', ins'.given) BY <1>4, <1>8, <1>9, StackGrows
  <1>11. /\ copyStream' \in Seq(Cells) /\ copyStream'[1] = Header
         /\ \A i \in 2 .. Len(copyStream') : copyStream'[i] # Header
    <2>1. s \o v \in Seq(Cells) /\ Len(s \o v) = Len(s) + Len(v) /\ Len(s) \in Nat /\ Len(s) >= 1 /\ Len(v) \in Nat BY <1>9
    <2>2. (s \o v)[1] = s[1] BY <2>1, <1>9
    <2>3. ASSUME NEW i \in 2 .. Len(s \o v) PROVE (s \o v)[i] # Header
      <3>1. CASE i <= Len(s)
        <4>1. (s \o v)[i] = s[i] BY <3>1, <2>1
        <4> QED BY <3>1, <4>1, <1>9, <2>1
      <3>2. CASE i > Len(s)
        <4>1. (s \o v)[i] = v[i - Len(s)] BY <3>2, <2>1
        <4>2. i - Len(s) \in 1 .. Len(v) BY <3>2, <2>1
        <4> QED BY <4>1, <4>2, <1>4, CellsAre
      <3> QED BY <3>1, <3>2, <2>1
    <2> QED BY <2>1, <2>2, <2>3, <1>9
  <1>12. InsTypes' BY <1>7, <1>8, <1>11 DEF InsInv, InsTypes
  <1>13. CopyOpen'
    <2>1. NoCopy[1] = Trailer BY DEF NoCopy
    <2>2. copyStream' # NoCopy BY <2>1, <1>11, CellsAre
    <2> QED BY <2>2 DEF CopyOpen, NoCopy, Trailer
  <1>14. FillKept' BY <1>2, <1>8 DEF FillKept
  <1>15. SenderKept' BY <1>2, <1>8, <1>10, <1>13 DEF SenderKept, Stacked, Header, Value
  <1>16. SharedStreamIsFramed' BY <1>11 DEF SharedStreamIsFramed, Header
  <1>17. ins.stage \in StillOpen /\ ins'.stage \in StillOpen BY <1>2, <1>8 DEF StillOpen
  <1> QED BY <1>2, <1>8, <1>12, <1>14, <1>15, <1>16, <1>17, StillFills

\* send_chunk that was refused, or that found the connection gone.
LEMMA SendChunkFails ==
  ASSUME InsInv, SendChunkRefused \/ SendChunkLost
  PROVE  InsInv'
  <1> DEFINE t == ins.tried + 1
  <1>1. /\ ins.stage = "filling" /\ ins.kind = "sender" /\ UNCHANGED <<table, mapped>>
        /\ copyStream' = NoCopy
        /\ \/ ins' = [ins EXCEPT !.tried = t, !.headerSent = ins.headerSent]
           \/ ins' = [ins EXCEPT !.tried = t, !.headerSent = TRUE, !.lost = TRUE]
    BY DEF SendChunkRefused, SendChunkLost, Filling, Keep, HeaderAfterRefusal, CopyOpen, InsInv, InsTypes
  <1>2. t \in Nat /\ \A i \in 1 .. Len(ins.given) : ins.given[i] \in 1 .. t BY DEF InsInv, InsTypes
  <1> HIDE DEF t
  <1>3. /\ ins'.kind = ins.kind /\ ins'.chunk = ins.chunk /\ ins'.stage = "filling" /\ ins'.tried = t
        /\ ins'.given = ins.given
        /\ ins'.lost \/ (ins'.lost = ins.lost /\ ins'.headerSent = ins.headerSent)
        /\ ins' \in [kind : InserterKinds, chunk : {ins.chunk}, stage : InsStages, tried : Nat, given : {ins.given},
                     headerSent : BOOLEAN, lost : BOOLEAN]
    <2>1. CASE ins' = [ins EXCEPT !.tried = t, !.headerSent = ins.headerSent] BY <1>1, <1>2, <2>1 DEF InsInv, InsTypes
    <2>2. CASE ins' = [ins EXCEPT !.tried = t, !.headerSent = TRUE, !.lost = TRUE] BY <1>1, <1>2, <2>2 DEF InsInv, InsTypes
    <2> QED BY <1>1, <2>1, <2>2
  <1>4. copyStream' \in Seq(Cells) /\ ~CopyOpen' BY <1>1, CellsAre DEF NoCopy, CopyOpen
  <1>5. InsTypes' BY <1>2, <1>3, <1>4 DEF InsInv, InsTypes
  <1>6. FillKept' BY <1>1, <1>3 DEF FillKept
  <1>7. SenderKept'
    <2>1. ~ins'.lost => ~ins.lost /\ ins'.headerSent = ins.headerSent BY <1>3
    <2>2. ~ins'.lost /\ ~CopyOpen => ~ins'.headerSent /\ ins'.given = <<>> BY <1>1, <1>3, <2>1 DEF InsInv, SenderKept
    <2>3. ASSUME ~ins'.lost PROVE ~CopyOpen
      <3>1. CASE SendChunkRefused BY <3>1 DEF SendChunkRefused
      <3>2. CASE SendChunkLost
        <4>1. ins'.lost BY <3>2 DEF SendChunkLost, InsInv, InsTypes
        <4> QED BY <4>1, <2>3
      <3> QED BY <3>1, <3>2
    <2> QED BY <1>4, <2>2, <2>3 DEF SenderKept
  <1>8. SharedStreamIsFramed' BY <1>4 DEF SharedStreamIsFramed
  <1>9. ins.stage \in StillOpen /\ ins'.stage \in StillOpen BY <1>1, <1>3 DEF StillOpen
  <1> QED BY <1>1, <1>3, <1>5, <1>6, <1>7, <1>8, <1>9, StillFills

LEMMA FinishCopyKeeps == ASSUME InsInv, FinishCopy PROVE InsInv'
  <1>1. ins.stage = "filling" /\ ins.kind = "sender" /\ ins.stage \in StillOpen BY DEF FinishCopy, Filling, StillOpen
  <1>2. CASE ~CopyOpen /\ ~ins.lost /\ Ends("done") /\ UNCHANGED <<copyStream, table>>
    <2>1. ins.given = <<>> BY <1>1, <1>2 DEF InsInv, SenderKept
    <2>2. copyStream' = NoCopy /\ UNCHANGED table /\ ins' = [ins EXCEPT !.stage = "done"] BY <1>2 DEF CopyOpen, Ends
    <2> QED BY <1>1, <2>1, <2>2, EndsEmpty
  <1>3. CASE CopyOpen /\ Framed(copyStream) /\ table' = table \o RowsOf(copyStream) /\ Abort("done")
    <2>1. copyStream \in Seq(Cells) /\ Stacked(copyStream, ins.given) BY <1>1, <1>3 DEF InsInv, InsTypes, SenderKept
    <2>2. copyStream' = NoCopy /\ ins' = [ins EXCEPT !.stage = "done"] BY <1>3 DEF Abort, Ends
    <2> QED BY <1>1, <1>3, <2>1, <2>2, Landed
  <1>4. CASE CopyOpen /\ Abort("failed") /\ UNCHANGED table
    <2>1. copyStream' = NoCopy /\ UNCHANGED table /\ ins' = [ins EXCEPT !.stage = "failed"] BY <1>4 DEF Abort, Ends
    <2> QED BY <1>1, <2>1, EndsEmpty
  <1> QED BY <1>2, <1>3, <1>4 DEF FinishCopy

LEMMA InsStep == InsInv /\ [InsNext]_insVars => InsInv'
  <1> SUFFICES ASSUME InsInv, [InsNext]_insVars PROVE InsInv' OBVIOUS
  <1>1. CASE AddRow \/ AddRowFails BY <1>1, AddRowKeeps, AddRowFailsKeeps
  <1>2. CASE FlushChunk \/ FlushRefused \/ FlushLost BY <1>2, FlushChunkKeeps, FlushRefusedKeeps, FlushLostKeeps
  <1>3. CASE Execute BY <1>3, InsertExecuted
  <1>4. CASE ExecuteIncomplete \/ ExecuteNothing \/ ExecuteFails \/ Cancel BY <1>4, InserterEnds
  <1>5. CASE InsertSelect \/ DropNow \/ DropStaging BY <1>5, MappedKeeps
  <1>6. CASE SendChunk BY <1>6, SendChunkKeeps
  <1>7. CASE SendChunkRefused \/ SendChunkLost BY <1>7, SendChunkFails
  <1>8. CASE FinishCopy BY <1>8, FinishCopyKeeps
  <1>9. CASE UNCHANGED insVars
    <2>1. ins' = ins /\ copyStream' = copyStream /\ table' = table /\ mapped' = mapped BY <1>9 DEF insVars
    <2>2. InsTypes' /\ FillKept' /\ SenderKept' /\ EndKept'
      <3>1. CopyOpen' = CopyOpen /\ Streamed' = Streamed BY <2>1 DEF Streamed, Sent, CopyOpen, NoCopy, Trailer
      <3>2. InsTypes' BY <2>1 DEF InsInv, InsTypes
      <3>3. FillKept' BY <2>1, <3>1 DEF InsInv, FillKept
      <3>4. SenderKept' /\ EndKept' BY <2>1, <3>1 DEF InsInv, SenderKept, EndKept
      <3> QED BY <3>2, <3>3, <3>4
    <2>3. InsertIsWhole'
      BY <2>1 DEF InsInv, InsertIsWhole, RowsAreWhole, EveryRowOrNone, SharedStreamIsFramed, NoStatementInsideCopy,
                  CopyOpen, NoCopy, Trailer
    <2> QED BY <2>2, <2>3 DEF InsInv
  <1> QED BY <1>1, <1>2, <1>3, <1>4, <1>5, <1>6, <1>7, <1>8, <1>9 DEF InsNext

\* A bulk insert stores the caller's rows, whole, in order and all of them, or none
\* (Inserter, AsyncInserter, MappedInserter and ChunkSender), for any number of
\* columns, chunk limit and rows.
THEOREM InsertsAreWhole == InsSpec => []InsertIsWhole
  <1>1. InsInv => InsertIsWhole BY DEF InsInv
  <1> QED BY <1>1, InsStarts, InsStep, PTL DEF InsSpec

\* A bulk load, by rows, by Arrow batches or from text, stores what the caller
\* gave, whole and all of it, or nothing (inserter.rs, async_inserter.rs,
\* arrow_inserter.rs, async_arrow_inserter.rs, copy.rs).
THEOREM BulkLoadsStayWhole == InsSpec /\ ArrowSpec => []BulkLoadsAreWhole
  <1>1. InsertIsWhole /\ ArrowLoadIsWhole => BulkLoadsAreWhole BY DEF BulkLoadsAreWhole
  <1> QED BY <1>1, InsertsAreWhole, ArrowLoadsAreWhole, PTL
=============================================================================
