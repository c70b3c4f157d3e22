---------------------------- MODULE QueryStats ----------------------------
(***************************************************************************)
(* Query statistics (query_stats.rs and the statistics half of             *)
(* connection.rs): the connection notes the size of hyperd.log before a    *)
(* statement, keeps that offset with the text, and only last_query_stats   *)
(* reads the log from there, looking for the statement's query-end entry.  *)
(*                                                                         *)
(* The log is shared with every other client of the server, its texts are  *)
(* truncated, and a streamed query has its execution entry only once the   *)
(* result was read.  A text is a sequence of words.                        *)
(***************************************************************************)
EXTENDS Integers, Sequences, SequencesExt

CONSTANTS
    Texts,           \* statements, as sequences of words
    Keywords,        \* the words extract_match_tokens skips
    TruncLen,        \* words of a statement the log keeps
    MaxLog           \* bound: entries of the log

VARIABLES
    qlog,            \* hyperd.log: the query-end entries
    qstats,          \* the connection: provider on, pending token, open result
    qreport          \* what last_query_stats returned last, and for what

qVars == <<qlog, qstats, qreport>>

NoToken == [id |-> 0, text |-> <<>>, offset |-> 0]
NoStats == [id |-> 0, prep |-> FALSE]

QInit ==
    /\ qlog = <<>>
    /\ qstats = [on |-> FALSE, pending |-> NoToken, sent |-> 0, unread |-> NoToken, others |-> FALSE]
    /\ qreport = [stats |-> NoStats, asked |-> NoToken, complete |-> FALSE]

-----------------------------------------------------------------------------
(* The log                                                                 *)

Truncated(text) == IF Len(text) > TruncLen THEN SubSeq(text, 1, TruncLen) ELSE text
Entry(id, text, prep) == [id |-> id, text |-> Truncated(text), prep |-> prep]

\* extract_match_tokens
MatchTokens(text) == ToSet(text) \ Keywords

\* normalize_for_matching makes both texts comparable; the log's may be cut off
MatchesText(sql, logged) ==
    \/ IsPrefix(logged, sql)
    \/ IsPrefix(sql, logged)
    \/ MatchTokens(sql) # {} /\ MatchTokens(sql) \subseteq ToSet(logged)

LastWith(entries, Test(_)) ==
    LET hits == {i \in DOMAIN entries : Test(entries[i])}
    IN IF hits = {} THEN NoStats
       ELSE LET i == CHOOSE i \in hits : \A j \in hits : j <= i
            IN [id |-> entries[i].id, prep |-> entries[i].prep]

\* Mutant: the match of the PREPARE entry is preferred.
PrefersPrepare(offset, sql) ==
    LET seen == SubSeq(qlog, offset + 1, Len(qlog))
        Prepared(e) == MatchesText(sql, e.text) /\ e.prep
        Executed(e) == MatchesText(sql, e.text) /\ ~e.prep
    IN IF LastWith(seen, Prepared) # NoStats THEN LastWith(seen, Prepared)
       ELSE LastWith(seen, Executed)

\* find_query_end: the last execution that matches, else the last PREPARE, else
\* the last entry of all
FindQueryEnd(offset, sql) ==
    LET seen == SubSeq(qlog, offset + 1, Len(qlog))
        Executed(e) == MatchesText(sql, e.text) /\ ~e.prep
        Prepared(e) == MatchesText(sql, e.text) /\ e.prep
        Whatever(e) == TRUE
        ranked == <<LastWith(seen, Executed), LastWith(seen, Prepared), LastWith(seen, Whatever)>>
        found == {i \in 1..3 : ranked[i] # NoStats}
    IN IF found = {} THEN NoStats
       ELSE ranked[CHOOSE i \in found : \A j \in found : i <= j]

-----------------------------------------------------------------------------
(* The connection                                                          *)

EnableQueryStats ==
    /\ ~qstats.on
    /\ qstats' = [qstats EXCEPT !.on = TRUE]
    /\ UNCHANGED <<qlog, qreport>>

DisableQueryStats ==
    /\ qstats.on
    /\ qstats' = [qstats EXCEPT !.on = FALSE, !.pending = NoToken]
    /\ UNCHANGED <<qlog, qreport>>

\* Mutant: the offset is the start of the log.
OffsetFromStart(text) == [id |-> qstats.sent + 1, text |-> text, offset |-> 0]

\* stats_before_query and LogFileStatsProvider::before_query
StatsBeforeQuery(text) == [id |-> qstats.sent + 1, text |-> text, offset |-> Len(qlog)]

\* stats_store_pending
StatsStorePending(token) == IF qstats.on THEN token ELSE qstats.pending

\* The blocking connection has one result open at a time
NoResultOpen == qstats.unread = NoToken

\* execute_command, which records the statement also when it failed
RunCommand(text) ==
    /\ NoResultOpen /\ Len(qlog) < MaxLog
    /\ qlog' = Append(qlog, Entry(qstats.sent + 1, text, FALSE))
    /\ qstats' = [qstats EXCEPT !.sent = @ + 1,
                                !.pending = StatsStorePending(StatsBeforeQuery(text))]
    /\ UNCHANGED qreport

\* execute_query: the rows are read later, and only then the execution is logged
RunQuery(text) ==
    /\ NoResultOpen /\ Len(qlog) + 2 <= MaxLog
    /\ LET token == StatsBeforeQuery(text)
       IN qstats' = [qstats EXCEPT !.sent = @ + 1, !.pending = StatsStorePending(token),
                                   !.unread = token]
    /\ qlog' = Append(qlog, Entry(qstats.sent + 1, text, TRUE))
    /\ UNCHANGED qreport

\* execute_query that fails returns before it records the statement
RunQueryFails(text) ==
    /\ NoResultOpen /\ Len(qlog) < MaxLog
    /\ qlog' = Append(qlog, Entry(qstats.sent + 1, text, FALSE))
    /\ qstats' = [qstats EXCEPT !.sent = @ + 1]
    /\ UNCHANGED qreport

ConsumeResult ==
    /\ ~NoResultOpen
    /\ qlog' = Append(qlog, Entry(qstats.unread.id, qstats.unread.text, FALSE))
    /\ qstats' = [qstats EXCEPT !.unread = NoToken]
    /\ UNCHANGED qreport

\* Another client of the same server
OtherClient(text) ==
    /\ Len(qlog) + (IF NoResultOpen THEN 0 ELSE 1) < MaxLog
    /\ qlog' = Append(qlog, Entry(-1, text, FALSE))
    /\ qstats' = [qstats EXCEPT !.others = TRUE]
    /\ UNCHANGED qreport

\* last_query_stats takes the token and after_query reads the log
LastQueryStats ==
    /\ qstats.on /\ qstats.pending # NoToken
    /\ qreport' = [stats |-> FindQueryEnd(qstats.pending.offset, qstats.pending.text),
                   asked |-> qstats.pending,
                   complete |-> NoResultOpen /\ ~qstats.others /\ qstats.pending.id = qstats.sent]
    /\ qstats' = [qstats EXCEPT !.pending = NoToken]
    /\ UNCHANGED qlog

QNext ==
    \/ EnableQueryStats \/ DisableQueryStats \/ LastQueryStats \/ ConsumeResult
    \/ \E text \in Texts : \/ RunCommand(text) \/ RunQuery(text) \/ RunQueryFails(text)
                           \/ OtherClient(text)

QSpec == QInit /\ [][QNext]_qVars

-----------------------------------------------------------------------------
(* Properties                                                              *)

\* The statistics are never those of a statement this connection sent earlier,
\* however often it ran the same text before and whether the result was read.
StatsAreNotOlder == qreport.stats.id > 0 => qreport.stats.id >= qreport.asked.id

\* Asked for after the result was read, with no other client and no statement
\* since, they are the execution of that very statement, not its PREPARE, also
\* when the log cut the text off.
StatsAreOfTheExecution ==
    qreport.complete => qreport.stats = [id |-> qreport.asked.id, prep |-> FALSE]

\* The statistics a caller gets are those of its last statement's execution, or none.
StatsBelong == StatsAreNotOlder /\ StatsAreOfTheExecution
=============================================================================
