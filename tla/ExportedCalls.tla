---------------------------- MODULE ExportedCalls ----------------------------
(***************************************************************************)
(* A call of one of the exports, from the resource that makes it to the    *)
(* answer it gets: api/compatibility.ts (the oxmysql interface), api/      *)
(* postgres.ts, api/schema.ts, api/postgres-schema.ts and the Lua shims,   *)
(* over the methods of core/database.ts that bind the parameters.          *)
(*                                                                         *)
(* A call's `via' is how the caller wants its answer: by a callback, by a  *)
(* promise (an _async or Sync export, or .await in Lua) or not at all.     *)
(* Methods stand for their families: "query" for query, single, scalar,    *)
(* insert, update, execute and fetch, "prepare" for rawExecute too,        *)
(* "postgresQuery" for the four of them, "ensureSchema" for the four of    *)
(* the schema interface.  A call waits for the connection, is executed and *)
(* answered; how it waits is ConnectionLifecycle's matter.                 *)
(***************************************************************************)
EXTENDS SqlPlaceholders

CONSTANTS Calls,
          Workloads,   \* what may be asked, and of which lanes: [requests, lanes]
          CacheLimit   \* scanCacheLimit

ASSUME LimitAssumption == CacheLimit \in Nat \ {0}

VARIABLES job,         \* the requests of the calls that are made
          available,   \* the lanes that were configured and could be created
          stage,       \* how far each call has come
          sent,        \* the statements, with their values, given to the driver
          applied,     \* whether the database did what the call asks
          answers,     \* what the caller has heard
          reported,    \* whether an oxmysql:error or transaction-error was emitted
          caches       \* the scans of recent queries, oldest first

vars == <<job, available, stage, sent, applied, answers, reported, caches>>

MySqlMethods ==
    {"query", "prepare", "transaction", "startTransaction", "awaitConnection", "store", "ensureSchema"}
PostgresMethods ==
    {"postgresQuery", "postgresTransaction", "postgresStartTransaction",
     "postgresAwaitConnection", "postgresEnsureSchema"}
SchemaMethods == {"ensureSchema", "postgresEnsureSchema"}
AwaitMethods == {"awaitConnection", "postgresAwaitConnection"}

\* Parameters, of which a bare value is one and nil none.
IsParameters(p) ==
    /\ p.kind \in {"none", "list", "scalar", "record"}
    /\ Len(p.entries) \in Nat /\ DOMAIN p.entries = 1 .. Len(p.entries)
    /\ p.kind = "none" => p.entries = <<>>
\* prepare() takes one query, and sets of parameters for it.
AreStatements(method, statements) ==
    /\ Len(statements) \in Nat /\ DOMAIN statements = 1 .. Len(statements)
    /\ \A i \in DOMAIN statements :
          statements[i].query \in Seq(STRING) /\ IsParameters(statements[i].parameters)
    /\ method = "prepare" =>
          \A i, j \in DOMAIN statements : statements[i].query = statements[j].query
\* A call asks for one of the exports, with as many statements as it likes.
ASSUME WorkloadsAssumption ==
    \A w \in Workloads :
       /\ DOMAIN w.requests \subseteq Calls
       /\ w.lanes \subseteq {"mysql", "postgres"}
       /\ \A c \in DOMAIN w.requests :
            /\ w.requests[c].method \in MySqlMethods \cup PostgresMethods
            /\ IsParameters(w.requests[c].shared)
            /\ AreStatements(w.requests[c].method, w.requests[c].statements)

Method(c) == job[c].method
Lane(c) == IF Method(c) \in PostgresMethods THEN "postgres" ELSE "mysql"
Available(c) == Lane(c) \in available
Stages == {"new", "waiting", "running", "done", "failed", "ended"}
Answers == {"result", "false", "error", "thrown"}
-----------------------------------------------------------------------------
(* Normalisation, and the scans it remembers.                                *)
Scanner(lane, p) ==
    IF lane = "postgres" THEN "numbered" ELSE IF p.kind = "record" THEN "named" ELSE "positional"
\* Faulty: one cache for the scans with and without named placeholders.
OneCache(scanner) == IF scanner = "numbered" THEN scanner ELSE "positional"
CacheOf(scanner) == scanner
Scan(scanner, q) ==
    IF scanner = "numbered" THEN CountPostgres(q) ELSE ScanSql(q, scanner)
\* Faulty: nothing makes room.
NeverEvicts(cache, q, scan) == Append(cache, [query |-> q, scan |-> scan])
\* cacheScan(): the oldest makes room.  Too high a number is thrown, not kept.
CacheScan(cache, q, scan) ==
    Append(IF Len(cache) >= CacheLimit THEN Tail(cache) ELSE cache, [query |-> q, scan |-> scan])
Remembered(cache, q) == {i \in DOMAIN cache : cache[i].query = q}
Remember(kept, k, q, scan) ==
    IF Remembered(kept[k], q) = {} THEN [kept EXCEPT ![k] = CacheScan(@, q, scan)] ELSE kept
ScanOf(cache, scanner, q) ==
    IF Remembered(cache, q) = {} THEN Scan(scanner, q) ELSE cache[Min(Remembered(cache, q))].scan
Sent(before, bound) ==
    IF bound.ok THEN Append(before, [sql |-> bound.sql, values |-> bound.values]) ELSE before
Normalized(so, k, q, scan, keeps, bound) ==
    [caches |-> IF keeps THEN Remember(so.caches, k, q, scan) ELSE so.caches,
     ok |-> bound.ok, sent |-> Sent(so.sent, bound)]
NormalizeWith(so, k, lane, q, p, scan) ==
    IF lane = "postgres"
    THEN Normalized(so, k, q, scan, scan <= MaxParameter, NormalizePostgresParameters(q, p, scan))
    ELSE Normalized(so, k, q, scan, TRUE, NormalizeParameters(q, p, scan))
Normalize(so, k, scanner, lane, q, p) ==
    IF so.ok THEN NormalizeWith(so, k, lane, q, p, ScanOf(so.caches[k], scanner, q)) ELSE so
\* One statement after the other, up to the first that is rejected.
NormalizeAll(lane, statements) ==
    LET scanner[n \in DOMAIN statements] == Scanner(lane, statements[n].parameters)
        upto[n \in 0 .. Len(statements)] ==
          IF n = 0 THEN [caches |-> caches, sent |-> <<>>, ok |-> TRUE]
          ELSE Normalize(upto[n - 1], CacheOf(scanner[n]), scanner[n], lane,
                         statements[n].query, statements[n].parameters)
    IN  upto[Len(statements)]

\* normalizeTransactionStatements(): a query alone takes the parameters all of
\* them share, and so does an object without its own; a pair must have its own.
Malformed(c) ==
    \E i \in DOMAIN job[c].statements :
       LET st == job[c].statements[i]
       IN  st.form = "pair" /\ st.parameters.kind \notin {"list", "record"}
ParametersOf(c, st) ==
    IF st.form \in {"call", "pair"} \/ (st.form = "object" /\ st.parameters.kind # "none")
    THEN st.parameters ELSE job[c].shared
Statements(c) ==
    [i \in DOMAIN job[c].statements |->
       LET st == job[c].statements[i]
       IN  [query |-> st.query, parameters |-> ParametersOf(c, st)]]
\* normalizePrepared(): the sets are executed with the query made of the last.
Prepared(statements) ==
    [i \in DOMAIN statements |-> [statements[i] EXCEPT !.sql = statements[Len(statements)].sql]]
\* What the driver was given already, as a transaction's statements.
Again(statements) ==
    [i \in DOMAIN statements |->
       [query |-> statements[i].sql,
        parameters |-> [kind |-> "list",
                        entries |-> [n \in DOMAIN statements[i].values |->
                                       [key |-> <<>>, value |-> statements[i].values[n]]]]]]
-----------------------------------------------------------------------------
Init ==
    /\ \E w \in Workloads : job = w.requests /\ available = w.lanes
    /\ stage = [c \in Calls |-> "new"]
    /\ sent = [c \in Calls |-> <<>>]
    /\ applied = [c \in Calls |-> FALSE]
    /\ answers = [c \in Calls |-> <<>>]
    /\ reported = [c \in Calls |-> FALSE]
    /\ caches = [k \in {"positional", "named", "numbered"} |-> <<>>]

Goto(c, s) == stage' = [stage EXCEPT ![c] = s]
\* invokeCallback(): what a callback throws is caught and printed.
Invoke(c, answer) ==
    answers' = [answers EXCEPT ![c] = IF job[c].via = "none" THEN @ ELSE Append(@, answer)]
Report(c) == reported' = [reported EXCEPT ![c] = TRUE]
\* _async, Sync and .await ask for errors; callbacks where the resource opted in.
Promised(c) == job[c].via = "promise"
Strict(c) == Promised(c) \/ job[c].strict
\* Faulty: the error is emitted and never answered.
OnlyReports(c) == Report(c) /\ UNCHANGED answers
OperationError(c) ==
    /\ Report(c)
    /\ IF Strict(c) THEN Invoke(c, "error") ELSE UNCHANGED answers

\* The exports of a lane that is not there.  They call the callback bare, so what
\* it throws comes back to its caller; startTransaction takes the caller's work
\* for the callback.
Bare(c, answer) == IF job[c].throws THEN <<answer, "thrown">> ELSE <<answer>>
SchemaUnavailable(c) ==
    CASE job[c].via = "callback" -> Bare(c, "error")
      [] job[c].via = "promise" -> <<"error">>
      [] OTHER -> <<"thrown">>
MySqlUnavailable(c) ==
    CASE Method(c) \in {"query", "prepare"} -> SchemaUnavailable(c)
      [] Method(c) = "awaitConnection" -> <<"error">>
      [] Method(c) = "store" -> IF job[c].via = "callback" THEN Bare(c, "result") ELSE <<"result">>
      [] Method(c) = "transaction" -> IF job[c].via = "callback" THEN Bare(c, "false") ELSE <<"false">>
      [] OTHER -> IF job[c].via # "promise" /\ job[c].throws THEN <<"thrown">> ELSE <<"false">>
PostgresUnavailable(c) == <<"thrown">>
Unavailable(c) ==
    IF Method(c) \in SchemaMethods THEN SchemaUnavailable(c)
    ELSE IF Lane(c) = "mysql" THEN MySqlUnavailable(c) ELSE PostgresUnavailable(c)
CallUnavailable(c) ==
    /\ stage[c] = "new" /\ ~Available(c)
    /\ answers' = [answers EXCEPT ![c] = Unavailable(c)]
    /\ Goto(c, "ended")
    /\ UNCHANGED <<job, available, sent, applied, reported, caches>>

Asks(c, method) == stage[c] = "new" /\ Available(c) /\ Method(c) = method
Store(c) ==
    /\ Asks(c, "store")
    /\ Invoke(c, "result")
    /\ Goto(c, "ended")
    /\ UNCHANGED <<job, available, sent, applied, reported, caches>>

\* schemaResource(): a resource manages its own schema only; the name it gives
\* counts where the runtime does not say who calls.
Foreign(c) ==
    /\ job[c].claimed # Null
    /\ job[c].invoking \notin {"unknown", "qbxsql", job[c].claimed}
Waits(c) ==
    /\ Goto(c, "waiting")
    /\ UNCHANGED <<job, available, sent, applied, answers, reported, caches>>
IsRefused(c) ==
    /\ Invoke(c, "error")
    /\ Goto(c, "ended")
    /\ UNCHANGED <<job, available, sent, applied, reported, caches>>
CallSchema(c) == Asks(c, "ensureSchema") /\ IF Foreign(c) THEN IsRefused(c) ELSE Waits(c)
CallPostgresSchema(c) == Asks(c, "postgresEnsureSchema") /\ IF Foreign(c) THEN IsRefused(c) ELSE Waits(c)

\* The MySQL exports normalise at once, in the call, and wait with what that made.
GivesUp(c) ==
    /\ OperationError(c)
    /\ Goto(c, "ended")
    /\ UNCHANGED <<job, available, sent, applied>>
WaitsWith(c, statements) ==
    /\ sent' = [sent EXCEPT ![c] = statements]
    /\ Goto(c, "waiting")
    /\ UNCHANGED <<job, available, applied, answers, reported>>
Proceeds(c, so, statements) ==
    /\ caches' = so.caches
    /\ IF so.ok THEN WaitsWith(c, statements) ELSE GivesUp(c)
CallQuery(c) ==
    /\ Asks(c, "query")
    /\ \E so \in {NormalizeAll("mysql", Statements(c))} : Proceeds(c, so, so.sent)
CallPrepare(c) ==
    /\ Asks(c, "prepare")
    /\ \E so \in {NormalizeAll("mysql", Statements(c))} : Proceeds(c, so, Prepared(so.sent))
CallTransaction(c) ==
    /\ Asks(c, "transaction")
    /\ \/ Malformed(c) /\ GivesUp(c) /\ UNCHANGED caches
       \/ /\ ~Malformed(c)
          /\ \E so \in {NormalizeAll("mysql", Statements(c))} : Proceeds(c, so, so.sent)

\* The PostgreSQL exports look at the shape of a transaction only.
CallPostgresQuery(c) == Asks(c, "postgresQuery") /\ Waits(c)
CallPostgresTransaction(c) == Asks(c, "postgresTransaction") /\ IF Malformed(c) THEN IsRefused(c) ELSE Waits(c)

CallAndWait(c) ==
    /\ \E method \in AwaitMethods \cup {"startTransaction", "postgresStartTransaction"} : Asks(c, method)
    /\ Waits(c)

\* awaitConnection() returns.  The PostgreSQL lane normalises now, and a MySQL
\* transaction does so again; one rejected statement ends it.
NormalizesNow(c) == Method(c) \in {"postgresQuery", "postgresTransaction", "transaction"}
Admit(c) ==
    /\ stage[c] = "waiting"
    /\ IF NormalizesNow(c)
       THEN \E so \in {NormalizeAll(Lane(c), IF Lane(c) = "mysql" THEN Again(sent[c]) ELSE Statements(c))} :
               /\ caches' = so.caches
               /\ sent' = [sent EXCEPT ![c] = so.sent]
               /\ Goto(c, IF so.ok THEN "running" ELSE "failed")
       ELSE /\ Goto(c, IF Method(c) \in AwaitMethods THEN "done" ELSE "running")
            /\ UNCHANGED <<sent, caches>>
    /\ UNCHANGED <<job, available, applied, answers, reported>>

\* awaitConnection() rejects: it waited too long, or the connector is closing.
Refuse(c) ==
    /\ stage[c] = "waiting"
    /\ Goto(c, "failed")
    /\ UNCHANGED <<job, available, sent, applied, answers, reported, caches>>

\* The database does it and says so; or does not, or its answer is lost.
Execute(c) ==
    /\ stage[c] = "running"
    /\ \E outcome \in {"done", "failed"}, does \in BOOLEAN :
          /\ outcome = "done" => does
          /\ applied' = [applied EXCEPT ![c] = does]
          /\ Goto(c, outcome)
    /\ UNCHANGED <<job, available, sent, answers, reported, caches>>

\* Faulty: catch() chained to then(), so that a callback that throws is called again.
ChainedCatch(c) ==
    /\ stage[c] = "done"
    /\ answers' = [answers EXCEPT ![c] =
                     IF job[c].via = "none" THEN @
                     ELSE IF job[c].throws THEN @ \o <<"result", "error">> ELSE Append(@, "result")]
    /\ UNCHANGED reported
\* The two branches of then(): the second never runs for what the first throws.
Resolved(c) ==
    /\ stage[c] = "done"
    /\ Invoke(c, "result")
    /\ UNCHANGED reported
Failed(c) ==
    /\ stage[c] = "failed"
    /\ CASE Method(c) \in {"query", "prepare"} -> OperationError(c)
         [] Method(c) \in {"transaction", "startTransaction"} -> Report(c) /\ Invoke(c, "false")
         [] OTHER -> Invoke(c, "error") /\ UNCHANGED reported
Continue(c) ==
    /\ Resolved(c) \/ Failed(c)
    /\ Goto(c, "ended")
    /\ UNCHANGED <<job, available, sent, applied, caches>>

Call(c) ==
    \/ CallUnavailable(c) \/ Store(c) \/ CallSchema(c) \/ CallPostgresSchema(c)
    \/ CallQuery(c) \/ CallPrepare(c) \/ CallTransaction(c)
    \/ CallPostgresQuery(c) \/ CallPostgresTransaction(c) \/ CallAndWait(c)
Next == \E c \in DOMAIN job : Call(c) \/ Admit(c) \/ Refuse(c) \/ Execute(c) \/ Continue(c)
Spec == Init /\ [][Next]_vars

\* A waiting call is admitted or refused (ConnectionLifecycle's CallsEnd), the
\* driver's promises settle, and Node runs what was chained to them.
FairSpec ==
    /\ Spec
    /\ \A c \in Calls : WF_vars(Refuse(c) \/ Admit(c)) /\ WF_vars(Execute(c)) /\ WF_vars(Continue(c))
-----------------------------------------------------------------------------
(* What the callers may rely on.                                             *)

\* Every variable keeps its type, and no cache outgrows its limit, however many
\* queries there are (cacheScan(), cachePlaceholderCount()).
TypeOK ==
    /\ DOMAIN job \subseteq Calls /\ \A c \in DOMAIN job : Method(c) \in MySqlMethods \cup PostgresMethods
    /\ available \in SUBSET {"mysql", "postgres"}
    /\ stage \in [Calls -> Stages]
    /\ applied \in [Calls -> BOOLEAN]
    /\ answers \in [Calls -> Seq(Answers)]
    /\ reported \in [Calls -> BOOLEAN]
    /\ DOMAIN sent = Calls
    /\ DOMAIN caches = {"positional", "named", "numbered"}
    /\ \A k \in DOMAIN caches : Len(caches[k]) <= CacheLimit

\* A caller hears one answer, and a result only of work the database did: a
\* callback that throws is not called a second time with an error for what
\* succeeded (the comment on invokeCallback(), schema.ts), and a call that was
\* refused before it waited, or threw, did nothing.
AsksDatabase(c) == Method(c) \notin AwaitMethods \cup {"store"}
OneTrueAnswer ==
    \A c \in DOMAIN job :
       /\ Available(c) => Len(answers[c]) <= 1
       /\ (answers[c] = <<"result">> /\ AsksDatabase(c)) => applied[c]
       /\ applied[c] => Available(c) /\ stage[c] \in {"done", "failed", "ended"}
       /\ stage[c] = "done" => applied[c] \/ ~AsksDatabase(c)

\* Who puts the values of a MySQL statement where they belong: prepared ones are
\* sent to the server with their placeholders, the others are text to mysql2.
Reader(c) == IF Method(c) = "prepare" THEN "server" ELSE "mysql2"
Receives(reader, made) ==
    IF reader = "server" THEN Markers(made.sql) ELSE Filled(made.sql, made.values)

\* The named placeholders and question marks of a query where normalizing is
\* meant to be exact.  It is not, knowingly or not, where a sigil is doubled and
\* the second one taken for a name's, where placeholders touch, in backquotes
\* with a backslash, in comments that are code, where a record meets a query
\* with both kinds, and with ?? in a prepared statement; nor does mysql2 know
\* double quotes and #, so that in these it must not meet anything it knows.
Touching(q) ==
    \E i \in Markers(q) \cup Names(q) :
       LET end == IF q[i] = "?" THEN (IF Char(q, i + 1) = "?" THEN i + 1 ELSE i) ELSE RunOf(q, i + 1, Part)
       IN  Char(q, end + 1) \in Sigils \cup {"?"}
Exact(reader, q, p) ==
    LET at == MySqlReads(q)
    IN  /\ ~Touching(q)
        /\ \A i \in DOMAIN q :
             /\ q[i] = "\\" => at[i].in # "tick"
             /\ InCode(at, i) /\ Next2(q, i) = <<"/", "*">> => Comments(q, i, {"!", "+"})
             /\ reader = "mysql2" /\ at[i].in \in {"double", "#"} => ~Known(q, i)
        /\ reader = "server" => \A i \in QuestionMarks(q) : Char(q, i + 1) # "?"
        /\ p.kind = "record" =>
             /\ Names(q) = {} \/ QuestionMarks(q) = {}
             /\ \A i \in 2 .. Len(q) : q[i] \in Sigils => q[i - 1] # q[i]
\* The value that belongs to the n-th of a query's placeholders.
Meant(p, q, n, place) ==
    CASE q[place] \in Sigils ->
            ValueAt(Stripped(p.entries), SubSeq(q, place + 1, RunOf(q, place + 1, Part)))
      [] q[place] = "?" /\ p.kind = "record" ->
            ValueOf(Stripped(p.entries), n - 1 + Base(Stripped(p.entries)))
      [] q[place] = "?" /\ p.kind \in {"list", "scalar"} ->
            IF n <= Len(p.entries) THEN p.entries[n].value ELSE Null
      [] OTHER -> Null
MySqlBinds(reader, q, p, made) ==
    LET places == QuestionMarks(q) \cup (IF p.kind = "record" THEN Names(q) ELSE {})
        nth(i) == Cardinality({j \in places : j <= i})
        whole == p.kind = "record" /\ Cardinality(places) = 1 /\ Names(q) = {}
                   /\ ~\E i \in DOMAIN p.entries : Numeric(Stripped(p.entries)[i].key)
    IN  /\ Receives(reader, made) = QuestionMarks(made.sql)
        /\ Cardinality(QuestionMarks(made.sql)) = Cardinality(places)
        /\ Names(made.sql) = IF p.kind = "record" THEN {} ELSE Names(q)
        /\ places # {} => Len(made.values) = Cardinality(places)
        /\ ~whole => \A i \in places : made.values[nth(i)] = Meant(p, q, nth(i), i)
\* Nor does the PostgreSQL lane see an e'...' that touches a dollar sign, or that
\* one goes on on a later line.
ExactPostgres(q) ==
    \A i \in DOMAIN q : q[i] = "'" =>
       /\ PostgresReads(q)[i].in = "e" => Char(q, i - 2) # "$"
       /\ PostgresReads(q)[i].in # "next"
PostgresBinds(q, p, made) ==
    LET numbers == ParameterNumbers(q)
        given == IF p.kind = "record" THEN Positional(p.entries, Max(numbers)) ELSE Padded(p.entries, Max(numbers))
    IN  /\ made.sql = q
        /\ Len(made.values) = IF numbers = {} THEN 0 ELSE Max(numbers)
        /\ Len(made.values) <= MaxParameter
        /\ (numbers # {} /\ made.values # <<"record">>) => made.values = given
\* What the driver is given binds every placeholder of the statement, each to the
\* value the caller meant for it, and nothing else: whoever puts the values in
\* finds the places the server does, whichever queries were scanned before and
\* however often a statement is normalised.
BindsEveryPlaceholder ==
    \A c \in DOMAIN job : \A i \in DOMAIN sent[c] :
       LET st == Statements(c)[i]
           alike == \A other \in {Statements(c)[j] : j \in DOMAIN Statements(c)} :
                       other.parameters.kind = st.parameters.kind
       IN  IF Lane(c) = "postgres"
           THEN ExactPostgres(st.query) => PostgresBinds(st.query, st.parameters, sent[c][i])
           ELSE Exact(Reader(c), st.query, st.parameters) /\ (Method(c) = "prepare" => alike)
                  => MySqlBinds(Reader(c), st.query, st.parameters, sent[c][i])

\* Whoever waits for an answer gets one: a promise settles, and a callback that
\* does not ask for errors is at least followed by an event.
Answered(c) ==
    /\ stage[c] = "ended"
    /\ Promised(c) => answers[c] # <<>>
    /\ job[c].via = "callback" => answers[c] # <<>> \/ (reported[c] /\ ~job[c].strict)
EveryCallEnds == \A c \in Calls : stage[c] # "new" ~> Answered(c)
=============================================================================
