------------------------------- MODULE KvMap -------------------------------
(***************************************************************************)
(* What a key-value store of hyperdb-api promises its caller: a map from   *)
(* keys to values per store, on which every call is one atomic step that   *)
(* answers from the map it found.  A call that answers with an error has   *)
(* changed nothing, except that a transaction whose COMMIT got no answer   *)
(* may have been committed; a session is not used after that.              *)
(***************************************************************************)
EXTENDS Integers, Sequences, FiniteSets, FiniteSetsExt, SequencesExt

CONSTANTS
    Stores,        \* names of stores
    Keys,          \* valid keys, numbered in their order
    Values,        \* values; the value n has n bytes
    Batches        \* the sequences of <<key, value>> a batch is called with

VARIABLES map, reply

NoValue == 0

Here(st) == {k \in Keys : map[st][k] # NoValue}
Asks == reply' = <<"none">> /\ UNCHANGED map
Refused == reply' = <<"error">> /\ UNCHANGED map
Answer(a) == reply' = a
Reads(a) == Answer(a) /\ UNCHANGED map

Put(st, k, v) == map' = [map EXCEPT ![st][k] = v] /\ Answer(<<"set", map[st][k] = NoValue>>)
PutAbsent(st, k, v) ==
    /\ map' = [map EXCEPT ![st][k] = IF @ = NoValue THEN v ELSE @]
    /\ Answer(<<"set_if_absent", map[st][k] = NoValue>>)
RemoveKey(st, k) == map' = [map EXCEPT ![st][k] = NoValue] /\ Answer(<<"delete", map[st][k] # NoValue>>)
RemoveAll(st) ==
    map' = [map EXCEPT ![st] = [k \in Keys |-> NoValue]] /\ Answer(<<"clear", Cardinality(Here(st))>>)

Popped(st) == IF Here(st) = {} THEN map ELSE [map EXCEPT ![st][Min(Here(st))] = NoValue]
PopLowest(st) ==
    /\ map' = Popped(st)
    /\ Answer(IF Here(st) = {} THEN <<"pop">> ELSE <<"pop", Min(Here(st)), map[st][Min(Here(st))]>>)

BatchKeys(b) == {b[i][1] : i \in 1..Len(b)}
LastOf(b, k) == b[Max({i \in 1..Len(b) : b[i][1] = k})][2]
FirstOf(b, k) == b[Min({i \in 1..Len(b) : b[i][1] = k})][2]
New(st, b) == BatchKeys(b) \ Here(st)
AllPut(st, b) == [map EXCEPT ![st] = [k \in Keys |-> IF k \in BatchKeys(b) THEN LastOf(b, k) ELSE @[k]]]
AbsentPut(st, b) == [map EXCEPT ![st] = [k \in Keys |-> IF k \in New(st, b) THEN FirstOf(b, k) ELSE @[k]]]
PutBatch(st, b) ==
    /\ map' = AllPut(st, b)
    /\ Answer(<<"batch", Cardinality(New(st, b)), Len(b) - Cardinality(New(st, b))>>)
PutBatchAbsent(st, b) ==
    /\ map' = AbsentPut(st, b)
    /\ Answer(<<"batch", Cardinality(New(st, b)), Len(b) - Cardinality(New(st, b))>>)

\* COMMIT got no answer
CommitUnknown(st) ==
    /\ Answer(<<"lost">>)
    /\ map' \in {map, Popped(st)} \cup {AllPut(st, b) : b \in Batches} \cup {AbsentPut(st, b) : b \in Batches}

MapInit == map = [st \in Stores |-> [k \in Keys |-> NoValue]] /\ reply = <<"none">>

MapNext ==
    \/ Asks \/ Refused
    \/ Reads(<<"lost">>)
    \/ \E st \in Stores :
          \/ \E k \in Keys, v \in Values : Put(st, k, v) \/ PutAbsent(st, k, v)
          \/ \E k \in Keys : \/ RemoveKey(st, k)
                             \/ Reads(<<"get", map[st][k]>>)
                             \/ Reads(<<"exists", map[st][k] # NoValue>>)
          \/ Reads(<<"size", Cardinality(Here(st))>>)
          \/ Reads(<<"keys", SetToSortSeq(Here(st), <)>>)
          \/ Reads(<<"entries", {<<k, map[st][k]>> : k \in Here(st)}>>)
          \/ Reads(<<"byte_size", MapThenSumSet(LAMBDA k : map[st][k], Here(st))>>)
          \/ RemoveAll(st) \/ PopLowest(st)
          \/ \E b \in Batches : PutBatch(st, b) \/ PutBatchAbsent(st, b)
          \/ CommitUnknown(st)
    \/ Reads(<<"stores", {st \in Stores : Here(st) # {}}>>)

MapSpec == MapInit /\ [][MapNext]_<<map, reply>>
=============================================================================
