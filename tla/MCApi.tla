------------------------------- MODULE MCApi -------------------------------
(***************************************************************************)
(* The client library for TLC, from the wire to the connection API, its    *)
(* components side by side: a behaviour picks one of them and runs it; the *)
(* others rest in an initial state.  One search so answers for all of them. *)
(* The modules with theorems are extended, so that the run and the theorem *)
(* speak of one definition; the others are instances.                      *)
(***************************************************************************)
EXTENDS WireConnection, AsyncWire, HyperProcess, QueryStats, Handshake, GrpcQuery, Transactions, BulkLoads, TLC

VARIABLES
    which,    \* the component that runs
    kvDisk, kvTx, kvCall, kvReply, kvReadOnly,
    trip, feed, set, use, codec

kvVars     == <<kvDisk, kvTx, kvCall, kvReply, kvReadOnly>>
resultVars == <<feed, set, use>>

-----------------------------------------------------------------------------
(* Instances                                                               *)

ValuesM  == INSTANCE SqlValues

\* Statements that agree in their first words, and one without a word to match
MCTexts == {<<"select", "t">>, <<"select", "t", "u">>, <<"select">>}

\* Batches: none, one entry, two keys, a key twice, and a name that is refused (0)
KvM == INSTANCE KvStore WITH
    Stores <- {"s", "t"}, Keys <- {1, 2}, Values <- {1, 2},
    Batches <- {<<>>, <<<<1, 1>>>>, <<<<2, 2>>, <<1, 2>>>>, <<<<1, 2>>, <<1, 1>>>>, <<<<0, 1>>>>}

\* Results of no batch, an empty one, one row, and several batches
ResultM == INSTANCE ResultStream WITH
    Results <- {<<>>, <<<<>>>>, <<<<1>>>>, <<<<1, 2>>, <<3>>>>, <<<<1>>, <<2>>, <<3>>>>}

-----------------------------------------------------------------------------
(* Messages of the wire codec: every tag it reads, bodies with NULL, empty  *)
(* and negative parts; and lengths and types that are wrong                 *)

NullValue == <<>>
MCMeanings ==
    {<<49, <<>>>>, <<67, <<<<83, 49>>>>>>, <<100, <<<<0, 5>>>>>>, <<68, <<NullValue, <<<<>>>>, <<<<7, 0>>>>>>>>,
     <<84, <<<<<<97>>, 1, 2, 23, 4, -1, 2>>>>>>, <<116, <<23, 25>>>>, <<69, <<<<67, <<52>>>>, <<77, <<>>>>>>>>,
     <<78, <<<<87>>>>>>, <<75, <<5, -2>>>>, <<82, <<0, <<>>>>>>, <<82, <<5, <<1, 2, 3, 4>>>>>>,
     <<83, <<<<97>>, <<>>>>>>, <<90, <<73>>>>, <<71, <<1, 1, <<0, 0>>>>>>, <<65, <<9, <<99>>, <<>>>>>>}
MCMalformed ==
    {<<68, 0, 0, 0, 3>>, <<67, 0, 0, 0, 5, 83>>, <<120, 0, 0, 0, 4>>, <<90, 0, 0, 0, 6, 73, 73>>,
     <<82, 0, 0, 0, 8, 0, 0, 0, 7>>}
MCRequests ==
    {<<"startup", <<<<117>>, <<120>>>>>>, <<"password", <<<<1, 2>>>>>>, <<"sasl", <<<<83>>, <<>>>>>>,
     <<"sasl_response", <<<<4>>>>>>, <<"query", <<<<>>>>>>, <<"parse", <<<<>>, <<81>>, <<23, 25>>>>>>,
     <<"describe", <<83, <<115>>>>>>, <<"execute", <<<<>>, -1>>>>, <<"close", <<80, <<>>>>>>, <<"sync", <<>>>>,
     <<"copy", <<<<0, 1>>>>>>, <<"copy_fail", <<<<120>>>>>>, <<"cancel", <<7, -2>>>>, <<"ssl", <<>>>>}
    \cup {<<"bind", <<<<112>>, <<>>, formats, params, <<1>>>>>> :
            formats \in {<<>>, <<1, 1>>, <<0, 1>>, <<0, 0>>},
            params \in {<<NullValue, <<<<>>>>>>, <<<<<<7>>>>, <<<<0>>>>>>}}
    \cup {<<"bind", <<<<>>, <<115>>, <<>>, <<>>, <<>>>>>>}
MCRows == {<<>>, <<NullValue>>, <<<<<<>>>>, <<<<7>>>>>>, <<<<<<7, 8>>>>, NullValue, <<<<9>>>>>>,
           <<NullValue, NullValue, <<<<5>>>>>>}

CodecM == INSTANCE WireCodec WITH
    Meanings <- MCMeanings, Malformed <- MCMalformed, Requests <- MCRequests, Rows <- MCRows, Cuts <- {1, 3, 40}

-----------------------------------------------------------------------------
Components == {"wire", "asyncWire", "asyncPool", "api", "stats", "process", "inserter", "arrow", "grpc",
               "kv", "handshake", "values", "results", "codec"}

\* The components start in any of their initial states; those that rest, in one
ApiSumInit ==
    /\ which \in Components
    /\ Init
    /\ AsyncInit
    /\ AsyncPoolInit
    /\ which # "asyncPool" => apool.mode = "Create" /\ apool.strategy = "None" /\ adb.exists
    /\ ApiInit
    /\ which # "api" => api.kind = "sync" /\ api.transport = "tcp" /\ disk.exists
    /\ QInit
    /\ ProcessInit
    /\ InsInit /\ (which # "inserter" => ins.kind = "sync")
    /\ ArrowInit /\ (which # "arrow" => arrow.kind = "sync")
    /\ GrpcInit
    /\ which # "grpc" => /\ gexec.mode = "SYNC" /\ ~gserver.command /\ gserver.count = 1 /\ ~gserver.running
                         /\ gclient = NewClient("plain")
    /\ KvM!KvInit /\ (which # "kv" => ~kvReadOnly)
    /\ HandshakeInit
    /\ which # "handshake" => /\ cert.chain /\ cert.name
                              /\ conf = [api |-> "sync", endpoint |-> "tcp", mode |-> "disable", roots |-> FALSE,
                                         password |-> FALSE, timeout |-> 0]
    /\ ValuesM!ValuesInit
    /\ ResultM!ResultInit
    /\ CodecM!CodecInit

sumVars == <<which, vars, asyncVars, asyncPoolVars, apiVars, qVars, processVars, insVars,
            arrowVars, grpcVars, kvVars, hsVars, trip, resultVars, codec>>

\* The components whose environment may leave them alone for ever, or that are
\* done; in the others a state without a successor is an error.
Rests ==
    /\ which \in {"asyncPool", "api", "stats", "process", "inserter", "arrow", "grpc", "values", "results", "codec"}
    /\ UNCHANGED sumVars

ApiSumNext ==
    \/ /\ which = "wire" /\ Next
       /\ UNCHANGED <<which, asyncVars, asyncPoolVars, apiVars, qVars, processVars, insVars,
                       arrowVars, grpcVars, kvVars, hsVars, trip, resultVars, codec>>
    \/ /\ which = "asyncWire" /\ AsyncNext
       /\ UNCHANGED <<which, vars, asyncPoolVars, apiVars, qVars, processVars, insVars,
                       arrowVars, grpcVars, kvVars, hsVars, trip, resultVars, codec>>
    \/ /\ which = "asyncPool" /\ AsyncPoolNext
       /\ UNCHANGED <<which, vars, asyncVars, apiVars, qVars, processVars, insVars,
                       arrowVars, grpcVars, kvVars, hsVars, trip, resultVars, codec>>
    \/ /\ which = "api" /\ ApiNext
       /\ UNCHANGED <<which, vars, asyncVars, asyncPoolVars, qVars, processVars, insVars,
                       arrowVars, grpcVars, kvVars, hsVars, trip, resultVars, codec>>
    \/ /\ which = "stats" /\ QNext
       /\ UNCHANGED <<which, vars, asyncVars, asyncPoolVars, apiVars, processVars, insVars,
                       arrowVars, grpcVars, kvVars, hsVars, trip, resultVars, codec>>
    \/ /\ which = "process" /\ ProcessNext
       /\ UNCHANGED <<which, vars, asyncVars, asyncPoolVars, apiVars, qVars, insVars,
                       arrowVars, grpcVars, kvVars, hsVars, trip, resultVars, codec>>
    \/ /\ which = "inserter" /\ InsNext
       /\ UNCHANGED <<which, vars, asyncVars, asyncPoolVars, apiVars, qVars, processVars,
                       arrowVars, grpcVars, kvVars, hsVars, trip, resultVars, codec>>
    \/ /\ which = "arrow" /\ ArrowNext
       /\ UNCHANGED <<which, vars, asyncVars, asyncPoolVars, apiVars, qVars, processVars,
                       insVars, grpcVars, kvVars, hsVars, trip, resultVars, codec>>
    \/ /\ which = "grpc" /\ GrpcNext
       /\ UNCHANGED <<which, vars, asyncVars, asyncPoolVars, apiVars, qVars, processVars,
                       insVars, arrowVars, kvVars, hsVars, trip, resultVars, codec>>
    \/ /\ which = "kv" /\ KvM!KvNext
       /\ UNCHANGED <<which, vars, asyncVars, asyncPoolVars, apiVars, qVars, processVars,
                       insVars, arrowVars, grpcVars, hsVars, trip, resultVars, codec>>
    \/ /\ which = "handshake" /\ HandshakeNext
       /\ UNCHANGED <<which, vars, asyncVars, asyncPoolVars, apiVars, qVars, processVars,
                       insVars, arrowVars, grpcVars, kvVars, trip, resultVars, codec>>
    \/ /\ which = "values" /\ ValuesM!ValuesNext
       /\ UNCHANGED <<which, vars, asyncVars, asyncPoolVars, apiVars, qVars, processVars,
                       insVars, arrowVars, grpcVars, kvVars, hsVars, resultVars, codec>>
    \/ /\ which = "results" /\ ResultM!ResultNext
       /\ UNCHANGED <<which, vars, asyncVars, asyncPoolVars, apiVars, qVars, processVars,
                       insVars, arrowVars, grpcVars, kvVars, hsVars, trip, codec>>
    \/ /\ which = "codec" /\ CodecM!CodecNext
       /\ UNCHANGED <<which, vars, asyncVars, asyncPoolVars, apiVars, qVars, processVars,
                       insVars, arrowVars, grpcVars, kvVars, hsVars, trip, resultVars>>
    \/ Rests

ApiSumSpec == ApiSumInit /\ [][ApiSumNext]_sumVars

-----------------------------------------------------------------------------
(* The properties of the components, by the names their modules give them  *)

\* Every call on a key-value store is one step of an atomic map.
KvIsAtomic == KvM!KvIsAtomic

\* What was stored is read: every value exact, every row once.
StoredIsRead == ValuesM!ValuesAreExact /\ ResultM!ResultIsComplete

\* Client and server mean the same by every byte of a message.
CodecIsExact == CodecM!CodecIsExact

=============================================================================
