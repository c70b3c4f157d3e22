----------------------------- MODULE GrpcQuery -----------------------------
(***************************************************************************)
(* A query over gRPC: the executor's state machine for the three transfer  *)
(* modes (executor.rs), the loops that collect its partial results         *)
(* (client.rs, GrpcChunkStream), and the authenticated client, which       *)
(* refreshes its token at the Salesforce token provider and runs the query *)
(* once more when the server rejects the token (authenticated_client.rs,   *)
(* hyperdb-api-salesforce provider.rs and token.rs).                       *)
(*                                                                         *)
(* The server is external.  A result has one schema and Chunks server-side *)
(* chunks, each sent in one or two parts; a part is <<chunk, place>>.  The *)
(* mutex of the token provider is held through each of its calls, so that  *)
(* a call is one step.                                                     *)
(***************************************************************************)
EXTENDS Integers, Sequences, FiniteSets

CONSTANTS
    MaxChunks,       \* bound: chunks of a result
    MaxPolls,        \* bound: times a query is seen running
    MaxTokens        \* bound: tokens the provider hands out

ASSUME GrpcBoundsAssumption == MaxChunks \in Nat /\ MaxPolls \in Nat /\ MaxTokens \in Nat

VARIABLES
    gexec,           \* GrpcQueryExecutor
    gserver,         \* what the server has to send, and its query
    gclient,         \* the client: the result it collects, its attempt, its token
    gprovider        \* DataCloudTokenProvider: the cached JWT, whether it is valid

grpcVars == <<gexec, gserver, gclient, gprovider>>

Modes == {"SYNC", "ASYNC", "ADAPTIVE"}
SchemaPart == <<-1, 1>>
Parts(k) == <<<<k, 1>>, <<k, 2>>>>
AllParts(n) == [i \in 1 .. 2 * n |-> Parts((i - 1) \div 2)[1 + ((i - 1) % 2)]]
WholeResult(n) == <<SchemaPart>> \o AllParts(n)

NoStatus == [known |-> FALSE, running |-> FALSE, count |-> 0]
NoResult == [chunks |-> <<>>, rows |-> "none"]

\* Mutant: every mode asks for its chunks from the first one on.
FirstChunkAlwaysZero(mode) == 0

\* In ADAPTIVE mode chunk 0 comes with the ExecuteQuery stream
FirstChunk(mode) == IF mode = "ADAPTIVE" THEN 1 ELSE 0

NewExecutor(mode) ==
    [state |-> "ReadInitialResults", mode |-> mode, next |-> FirstChunk(mode), status |-> NoStatus,
     result |-> NoResult, polls |-> 0]

\* External: the messages of the ExecuteQuery stream
Initial(mode, query) ==
    IF query.command THEN {<<[t |-> "command"]>>}
    ELSE LET status == [t |-> "status"]
             data(s) == [i \in DOMAIN s |-> [t |-> "part", p |-> s[i]]]
         IN CASE mode = "SYNC"  -> {data(WholeResult(query.count))}
              [] mode = "ASYNC" -> {<<status>> \o data(<<SchemaPart>>)}
              [] mode = "ADAPTIVE" ->
                    {data(<<SchemaPart>> \o Parts(0)) \o <<status>>,
                     data(<<SchemaPart, <<0, 1>>>>) \o <<status>> \o data(<<<<0, 2>>>>)}

NewClient(kind) ==
    [kind |-> kind, phase |-> "idle", attempt |-> 0, chunks |-> <<>>, rows |-> "none",
     token |-> 0, channel |-> 0, rejected |-> 0]

GrpcInit ==
    /\ gexec \in {NewExecutor(mode) : mode \in Modes}
    /\ gserver \in [command : BOOLEAN, count : 1..MaxChunks, running : BOOLEAN, stream : {<<>>},
                    open : {"none"}, executions : {0}]
    /\ gclient \in {NewClient(kind) : kind \in {"plain", "stream", "auth"}}
    /\ gprovider = [jwt |-> 0, life |-> "none", oauth |-> FALSE, issued |-> 0]

-----------------------------------------------------------------------------
(* The token provider                                                      *)

\* is_valid: not within DC_JWT_VALIDITY_BUFFER_SECS of its end.  needs_refresh: near
\* its end, or older than dc_jwt_max_age_secs
IsValid(p) == p.life \in {"fresh", "aged"}
NeedsRefresh(p) == p.life # "fresh"

\* fetch_dc_jwt: an OAuth token, cached or fresh, exchanged for a JWT
GetValidOauth(p) == [p EXCEPT !.oauth = TRUE]
Exchange(p) == [p EXCEPT !.jwt = p.issued + 1, !.issued = @ + 1, !.life = "fresh"]
FetchDcJwt(p) == Exchange(GetValidOauth(p))

\* get_token: the cached JWT while it is valid, or a new one
GetToken == IF IsValid(gprovider) THEN gprovider ELSE FetchDcJwt(gprovider)

\* Mutant: a refresh is answered from the cache.
RefreshFromCache == GetToken

\* refresh_token: the cached JWT is dropped first
RefreshToken == FetchDcJwt(gprovider)

\* The OAuth token or the exchange fails, also with a fresh OAuth token (step 2a)
TokenFetchFails(oauth) == [gprovider EXCEPT !.jwt = 0, !.life = "none", !.oauth = oauth]

TokenAges ==
    /\ \/ gprovider.life = "fresh" /\ gprovider' = [gprovider EXCEPT !.life = "aged"]
       \/ gprovider.life = "aged" /\ gprovider' = [gprovider EXCEPT !.life = "ending"]
    /\ UNCHANGED <<gexec, gserver, gclient>>

\* connect_to_tenant and the new token: both, or neither when the connect fails
Reconnected(p) == [gclient EXCEPT !.token = p.jwt, !.channel = p.jwt]

-----------------------------------------------------------------------------
(* The clients                                                             *)

Running == gclient.phase = "run"

\* An attempt of its own: a new executor, an empty final_result
Begin(c) ==
    /\ gclient' = [c EXCEPT !.phase = "run", !.chunks = <<>>, !.rows = "none"]
    /\ gexec' = NewExecutor(gexec.mode)
    /\ \E s \in Initial(gexec.mode, gserver) :
          gserver' = [gserver EXCEPT !.stream = s, !.open = "execute", !.executions = @ + 1]

\* execute_query and its variants, with or without parameters, and streaming
ExecuteQuery ==
    /\ gclient.phase = "idle" /\ gclient.kind # "auth"
    /\ Begin(gclient)
    /\ UNCHANGED gprovider

\* connect, or ensure_token_valid: refresh when the token is missing or near its end
EnsureTokenValid ==
    /\ gclient.phase = "idle" /\ gclient.kind = "auth"
    /\ LET fresh == gclient.token # 0 /\ ~NeedsRefresh(gprovider)
           p == IF gclient.token = 0 THEN GetToken ELSE IF fresh THEN gprovider ELSE RefreshToken
       IN /\ p.issued <= MaxTokens
          /\ \/ gprovider' = p /\ Begin(Reconnected(p))
             \/ \E oauth \in BOOLEAN :
                   /\ ~fresh
                   /\ gprovider' = TokenFetchFails(oauth)
                   /\ gclient' = [gclient EXCEPT !.phase = "failed"]
                   /\ UNCHANGED <<gexec, gserver>>

Fail(c) == gclient' = [c EXCEPT !.phase = "failed"] /\ UNCHANGED <<gexec, gserver>>

\* External: how a request can fail, by gRPC status or SQLSTATE of an XML message,
\* and whether its text has 401, unauthorized or unauthenticated in it
Failures == [code : {"Unauthenticated", "PermissionDenied", "28", "Cancelled", "57014", "08",
                     "Unavailable", "DeadlineExceeded", "Internal"}, says401 : BOOLEAN]

\* grpc_code_to_variant and sqlstate_to_variant
Variant(code) ==
    CASE code \in {"Unauthenticated", "PermissionDenied", "28"} -> "Authentication"
      [] code \in {"Cancelled", "57014"}                        -> "Cancelled"
      [] code \in {"Unavailable", "08"}                         -> "Connection"
      [] code = "DeadlineExceeded"                              -> "Timeout"
      [] OTHER                                                  -> "Query"

IsAuthError(e) == Variant(e.code) = "Authentication" \/ e.says401

Retry(c) == Begin(c)

\* A request of the query fails.  The authenticated client tries once more after
\* force_refresh_and_reconnect when it takes the error for one about the token
QueryFails ==
    /\ Running /\ gexec.state # "Finished"
    /\ \E e \in Failures :
       LET again == gclient.kind = "auth" /\ IsAuthError(e) /\ gclient.attempt = 0
           p == RefreshToken
           c == [Reconnected(p) EXCEPT !.attempt = @ + 1, !.rejected = gclient.token]
       IN \/ ~again /\ UNCHANGED gprovider /\ Fail(gclient)
          \/ again /\ p.issued <= MaxTokens /\ gprovider' = p /\ Retry(c)
          \/ again /\ gprovider' = TokenFetchFails(FALSE) /\ Fail(gclient)

\* cancel_query runs on a clone of the channel: the server ends the query with an error
CancelQuery ==
    /\ Running /\ gexec.state # "Finished"
    /\ Fail(gclient) /\ UNCHANGED gprovider

-----------------------------------------------------------------------------
(* next_result                                                             *)

\* One call of a state's function, then: chunks go to the caller at once, and a
\* finished executor without chunks answers None, whatever else its result holds
Yield(x) ==
    LET done == x.state = "Finished" /\ x.result.chunks = <<>>
    IN /\ gexec' = IF x.result.chunks = <<>> THEN x ELSE [x EXCEPT !.result = NoResult]
       /\ gclient' = IF done THEN [gclient EXCEPT !.phase = "done"]
                     ELSE [gclient EXCEPT !.chunks = @ \o x.result.chunks,
                                          !.rows = IF x.result.chunks # <<>> /\ x.result.rows # "none"
                                                   THEN x.result.rows ELSE @]
       /\ UNCHANGED gprovider

In(state) == Running /\ gexec.state = state

AddChunk(x, p) == [x EXCEPT !.result.chunks = Append(@, p)]

\* process_query_status
ServerStatus == [known |-> TRUE, running |-> gserver.running, count |-> IF gserver.running THEN 0 ELSE gserver.count]

ProcessExecuteResponse(x, msg) ==
    CASE msg.t = "command" -> [x EXCEPT !.result.rows = "affected", !.state = "Finished"]
      [] msg.t = "part"    -> AddChunk(x, msg.p)
      [] msg.t = "status"  -> [x EXCEPT !.status = ServerStatus]

\* One message.  A status does not end the loop: only the close of the stream does
ReadInitialResults ==
    /\ In("ReadInitialResults")
    /\ IF gserver.stream # <<>>
       THEN /\ Yield(ProcessExecuteResponse(gexec, Head(gserver.stream)))
            /\ gserver' = [gserver EXCEPT !.stream = Tail(@)]
       ELSE /\ Yield([gexec EXCEPT !.state = IF gexec.mode = "SYNC" THEN "Finished" ELSE "RequestStatus"])
            /\ UNCHANGED gserver

\* GetQueryInfo needs the query id that a status brought
RequestStatus ==
    /\ In("RequestStatus") /\ gexec.status.known
    /\ Yield([gexec EXCEPT !.state = "ReadStatus"])
    /\ gserver' = [gserver EXCEPT !.open = "info"]

\* Mutant: while the query runs the same stream is read on.
RunningReadsOn == "ReadStatus"

\* The state after a status that says the query runs, a schema or an empty message
AfterRunning == "RequestStatus"

\* The server sends one status on each GetQueryInfo stream.  A stream that is
\* already at its end leaves the state as it is
ReadStatus ==
    /\ In("ReadStatus") /\ gexec.polls <= MaxPolls
    /\ IF gserver.open = "info"
       THEN Yield([gexec EXCEPT !.status = ServerStatus,
                                !.polls = IF gserver.running /\ gexec.polls < MaxPolls THEN @ + 1 ELSE @,
                                !.state = IF gserver.running THEN AfterRunning ELSE "RequestResults"])
       ELSE Yield(gexec)
    /\ gserver' = [gserver EXCEPT !.open = "none"]

\* Short-circuit: every chunk the server reported is here
AllFetched(x) == x.status.count > 0 /\ x.next >= x.status.count

RequestResults ==
    /\ In("RequestResults")
    /\ Yield([gexec EXCEPT !.state = IF AllFetched(gexec) THEN "Finished" ELSE "ReadResults"])
    /\ gserver' = [gserver EXCEPT !.stream = IF AllFetched(gexec) THEN <<>>
                                             ELSE [i \in 1..2 |-> [t |-> "part", p |-> Parts(gexec.next)[i]]]]

\* The whole GetQueryResult stream; one stream is one chunk of the server
ReadResults ==
    /\ In("ReadResults")
    /\ Yield([gexec EXCEPT !.result.chunks = [i \in DOMAIN gserver.stream |-> gserver.stream[i].p],
                           !.next = @ + 1,
                           !.state = IF gexec.next + 1 >= gexec.status.count THEN "Finished"
                                     ELSE "RequestResults"])
    /\ gserver' = [gserver EXCEPT !.stream = <<>>]

\* The call after the last chunk: is_complete
NextResultFinished ==
    /\ In("Finished")
    /\ gclient' = [gclient EXCEPT !.phase = "done",
                                  !.rows = IF gexec.result.rows # "none" THEN gexec.result.rows ELSE @]
    /\ gexec' = [gexec EXCEPT !.result = NoResult]
    /\ UNCHANGED <<gserver, gprovider>>

Executor == ReadInitialResults \/ RequestStatus \/ ReadStatus \/ RequestResults \/ ReadResults \/ NextResultFinished

QueryCompletes ==
    /\ gserver.running
    /\ gserver' = [gserver EXCEPT !.running = FALSE]
    /\ UNCHANGED <<gexec, gclient, gprovider>>

GrpcNext ==
    \/ ExecuteQuery \/ EnsureTokenValid \/ TokenAges \/ QueryFails \/ CancelQuery
    \/ Executor \/ QueryCompletes

GrpcSpec == GrpcInit /\ [][GrpcNext]_grpcVars
GrpcFairness == WF_grpcVars(Executor) /\ WF_grpcVars(QueryCompletes)
GrpcFairSpec == GrpcSpec /\ GrpcFairness

-----------------------------------------------------------------------------
(* Properties                                                              *)

\* A query that succeeds gives its caller the schema and every part of every
\* chunk once and in order, in every transfer mode, however the inline chunk and
\* the status interleave, and also when it is the second attempt.
GrpcResultIsWhole ==
    gclient.phase = "done" /\ ~gserver.command => gclient.chunks = WholeResult(gserver.count)

\* A second attempt uses a token the provider handed out after the rejected one,
\* on a channel made for it, and there is no third one.
RetryUsesNewToken ==
    /\ gclient.attempt = 1 => gclient.token > gclient.rejected
    /\ gclient.token = gclient.channel
    /\ gserver.executions <= 2

\* A query that runs ends: polling stops when the server says it has finished.
GrpcQueryEnds == Running ~> ~Running

\* The answer of a gRPC query is the whole result of one attempt, made with a
\* token that was not rejected before.
GrpcAnswerIsWhole == GrpcResultIsWhole /\ RetryUsesNewToken
=============================================================================
