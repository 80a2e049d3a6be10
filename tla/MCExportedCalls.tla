--------------------------- MODULE MCExportedCalls ---------------------------
(* Instances of ExportedCalls for TLC.                                       *)
EXTENDS ExportedCalls, TLC

CONSTANTS c1, c2, r1, r2

Entry(key, value) == [key |-> key, value |-> value]
None == [kind |-> "none", entries |-> <<>>]
List(values) ==
    [kind |-> "list", entries |-> [i \in DOMAIN values |-> Entry(<<>>, values[i])]]
Scalar == [kind |-> "scalar", entries |-> <<Entry(<<>>, "v1")>>]
Record(entries) == [kind |-> "record", entries |-> entries]
Lists == {List(<<"v1">>), List(<<"v1", "v2">>)}
TooLong == List(<<"v1", "v2", "v3">>)
NamedOnes ==
    {Record(<<Entry(<<"a">>, "va")>>),
     Record(<<Entry(<<"@", "a">>, "va"), Entry(<<":", "e">>, "ve")>>)}
NumberedOnes ==
    {Record(<<>>), Record(<<Entry(<<"1">>, "v1"), Entry(<<"2">>, "v2")>>),
     Record(<<Entry(<<"0">>, "v0"), Entry(<<"2">>, "v2")>>)}

Statement(q, p) == [query |-> q, form |-> "call", parameters |-> p]
Request(method, via, statements) ==
    [method |-> method, via |-> via, strict |-> FALSE, throws |-> FALSE, shared |-> None,
     invoking |-> r1, claimed |-> r1, statements |-> statements]
Single(request, lane) == [requests |-> c1 :> request, lanes |-> {lane}]

\* Every query of three fragments, for each of the two languages.
MySqlFragments ==
    {<<"?">>, <<":", "a">>, <<"@", "e">>, <<"'">>, <<"\\", "'">>, <<"tick">>, <<"double">>,
     <<"/", "*">>, <<"*", "/">>, <<"!">>, <<"-", "-", " ">>, <<"#">>, <<"\n">>, <<" ">>}
PostgresFragments ==
    {<<"$", "1">>, <<"$", "2">>, <<"$", "1", "2">>, <<"'">>, <<"\\", "'">>, <<"e", "'">>, <<"double">>,
     <<"/", "*">>, <<"*", "/">>, <<"-", "-">>, <<"\n">>, <<"a">>, <<"$", "$">>, <<"$", "a", "$">>, <<" ">>}
Queries(fragments) == {x \o y \o z : x \in fragments, y \in fragments, z \in fragments}
MySqlQueries ==
    {Single(Request(method, "promise", <<Statement(q, p)>>), "mysql") :
       method \in {"query", "transaction"}, q \in Queries(MySqlFragments),
       p \in {List(<<"v1", "v2">>), Record(<<Entry(<<"@", "a">>, "va"), Entry(<<":", "e">>, "ve")>>)}}
PostgresQueries ==
    {Single(Request("postgresQuery", "promise", <<Statement(q, p)>>), "postgres") :
       q \in Queries(PostgresFragments), p \in {None, Record(<<Entry(<<"0">>, "v0"), Entry(<<"1">>, "v1")>>)}}
LongMySqlQueries ==
    {<<"/", "*", "/", "?", ":", "a", "*", "/", "?">>, <<"'", "\\", "'", "?", "'", "?">>,
     <<":", "a", "0", " ", "@", "e">>, <<"'", "'", "'", ":", "a", "'", " ", ":", "e">>,
     <<"-", "-", "?", "#", ":", "e", "\n", "?">>, <<"?", "?", " ", "?">>, <<"?", "?", "?", " ", "?">>,
     <<"double", "-", "#", "double", "?", "#", "/", "\n", "?">>, <<"/", "*", "!", "?", "*", "/", "?">>,
     <<"double", "?", "double", "?">>, <<"#", "'", "\n", "?">>, <<"?", "-", "-">>}
LongQueries ==
    {<<"/", "*", "/", "*", "*", "/", "$", "2", "*", "/", "$", "1">>,
     <<"$", "a", "$", "$", "2", "$", "a", "$", "$", "1">>,
     <<"$", "a", "$", "$", "$", "$", "2", "$", "a", "$">>,
     <<"e", "'", "\\", "'", "$", "2", "'", "$", "1">>, <<"e", "'", "a", "'", "$", "1", "\n", "'", "\\", "'", "$", "2">>,
     <<"e", "'", "'", "-", "-", "$", "2", "\n", " ", "'", "\\", "'", "$", "2">>,
     <<"e", "'", "'", " ", "\n", "$", "1", "'", "\\", "'", "$", "2">>,
     <<"'", "'", "'", "$", "2", "'", "$", "1">>, <<"double", "double", "double", "$", "2", "double", "$", "1">>,
     <<"-", "-", "$", "2", "\n", "$", "1">>, <<"a", "$", "2", " ", "$", "1">>}
EveryQuery ==
    MySqlQueries \cup PostgresQueries
      \cup {Single(Request(method, "promise", <<Statement(q, p)>>), "mysql") :
               method \in {"query", "transaction"}, q \in LongMySqlQueries,
               p \in {List(<<"v1">>), List(<<"v1", "v2">>)} \cup NamedOnes}
      \cup {Single(Request("postgresQuery", "promise", <<Statement(q, None)>>), "postgres") : q \in LongQueries}

\* Every method, asked in every way, where its lane is there and where it is not.
Where(q, form, p) == [query |-> q, form |-> form, parameters |-> p]
Two == <<"?", " ", "?">>
Named == <<":", "a", " ", "@", "e">>
Numbers == <<"$", "1", " ", "$", "2">>
StatementsOf(method) ==
    CASE method = "query" -> {<<Statement(Two, p)>> : p \in Lists \cup NumberedOnes \cup {None, Scalar, TooLong}}
      [] method = "prepare" ->
            {<<Statement(Named, p), Statement(Named, o)>> : p \in NamedOnes, o \in NamedOnes}
              \cup {<<Statement(Two, List(<<"v1", "v2">>)), Statement(Two, TooLong)>>}
              \cup {<<Statement(q, List(<<"v1">>))>> :
                      q \in {<<"double", "?", "double", "?">>, <<"#", "?", "\n", "?">>, <<"?", "?">>, <<"/", "*", "?", "*", "/", "?">>}}
      [] method = "transaction" ->
            {<<Where(Two, "string", None), Where(Named, form, p)>> :
               form \in {"pair", "object"}, p \in NamedOnes \cup {None}}
      [] method = "postgresQuery" ->
            {<<Statement(Numbers, p)>> : p \in Lists \cup NamedOnes \cup NumberedOnes \cup {None, Scalar}}
      [] method = "postgresTransaction" ->
            {<<Where(Numbers, "string", None), Where(Numbers, form, p)>> :
               form \in {"pair", "object"}, p \in {None, List(<<"v1", "v2">>), TooLong}}
      [] OTHER -> {<<>>}
Methods == MySqlMethods \cup PostgresMethods
RequestsOf(method) ==
    {[method |-> method, via |-> via, strict |-> strict, throws |-> throws, shared |-> shared,
      invoking |-> invoking, claimed |-> claimed, statements |-> statements] :
       via \in {"callback", "promise", "none"}, strict \in BOOLEAN, throws \in BOOLEAN,
       shared \in IF method = "transaction" THEN {None, List(<<"v1", "v2">>), TooLong} ELSE {None},
       invoking \in IF method \in SchemaMethods THEN {r1, "unknown"} ELSE {r1},
       claimed \in IF method \in SchemaMethods THEN {r1, r2, Null} ELSE {r1},
       statements \in StatementsOf(method)}
EveryMethod ==
    {[requests |-> c1 :> request, lanes |-> lanes] :
       request \in UNION {RequestsOf(method) : method \in Methods}, lanes \in {{}, {"mysql", "postgres"}}}

\* Two calls of one query, or of two, whose scans share a cache of one.
Pairs ==
    {[requests |-> c1 :> Request("query", "promise", <<Statement(q, p)>>)
                   @@ c2 :> Request("transaction", "callback", <<Where(o, "object", e)>>),
      lanes |-> {"mysql"}] :
       q \in {Two, Named}, o \in {Two, Named},
       p \in {List(<<"v1">>)} \cup NamedOnes, e \in {List(<<"v1">>)} \cup NamedOnes}
    \cup {[requests |-> c1 :> Request("postgresQuery", "promise", <<Statement(q, None)>>)
                        @@ c2 :> Request("postgresTransaction", "callback", <<Where(Numbers, "string", None)>>),
           lanes |-> {"postgres"}] :
            q \in {Numbers, <<"$", "1">>, <<"$", "1", "2">>}}
EveryWorkload == EveryQuery \cup EveryMethod \cup Pairs
=============================================================================
