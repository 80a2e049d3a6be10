--------------------------- MODULE SqlPlaceholders ---------------------------
(***************************************************************************)
(* What normalize() makes of a query and its parameters before the driver  *)
(* gets them: core/parameters.ts for MySQL, core/postgres-parameters.ts    *)
(* for PostgreSQL.  A query is a sequence of characters; the scanners jump *)
(* from the start of a literal, comment, identifier or placeholder to its  *)
(* end.  Parameters are [kind, entries]: a list, a bare value or a record  *)
(* is a sequence of entries, of which only a record's have keys.           *)
(*                                                                         *)
(* The second half says, character by character, who takes what for a      *)
(* placeholder: the MySQL server, to which a prepared statement is sent    *)
(* with its placeholders; mysql2, which puts the values into the text of   *)
(* every other MySQL statement itself (format() of its sql-escaper, in     *)
(* dist/index.js); and the PostgreSQL server.  The scanners are checked    *)
(* against them.                                                           *)
(***************************************************************************)
EXTENDS Integers, Sequences, FiniteSetsExt

CONSTANTS MaxParameter,  \* of a numbered parameter: maximumPostgresParameters
          Null

ASSUME MaxParameterAssumption == MaxParameter \in Nat

Digits == {"0", "1", "2"}
Letters == {"a", "e"}
Part == Letters \cup Digits
White == {" ", "\n"}
Sigils == {":", "@"}

Char(q, i) == IF i \in DOMAIN q THEN q[i] ELSE ""
Next2(q, i) == <<Char(q, i), Char(q, i + 1)>>

Spells(q, i, word) == \A k \in DOMAIN word : Char(q, i + k - 1) = word[k]

\* indexOf(), or the end of the query where there is none.
FirstFrom(q, i, P(_)) == Min({j \in i .. Len(q) : P(j)} \cup {Len(q)})
\* The last of the characters of `set' that start at i.
RunOf(q, i, set) ==
    Max({j \in i .. Len(q) : \A k \in i .. j : q[k] \in set} \cup {i - 1})

\* The closing quote, with doubled ones passed over and those behind a character
\* of `escapes'.
QuotedEnd(q, i, escapes) ==
    LET close[j \in i + 1 .. Len(q) + 2] ==
          IF j > Len(q) THEN Len(q)
          ELSE IF q[j] \in escapes THEN close[j + 2]
          ELSE IF q[j] # q[i] THEN close[j + 1]
          ELSE IF Char(q, j + 1) = q[i] THEN close[j + 2]
          ELSE j
    IN  close[i + 1]
LineEnd(q, i) == FirstFrom(q, i + 1, LAMBDA j : q[j] = "\n")

DigitOf == [d \in Digits |-> IF d = "0" THEN 0 ELSE IF d = "1" THEN 1 ELSE 2]
Number(word) ==
    LET upto[k \in 0 .. Len(word)] == IF k = 0 THEN 0 ELSE 10 * upto[k - 1] + DigitOf[word[k]]
    IN  upto[Len(word)]
-----------------------------------------------------------------------------
(* scanSqlUncached().                                                        *)
IsName(q, i) ==
    q[i] \in Sigils /\ Char(q, i + 1) # q[i] /\ Char(q, i + 1) \in Part
\* Named placeholders are looked for where the parameters are a record.
Replaces(scanner, q, i) == scanner = "named" /\ IsName(q, i)
MySqlSpan(q, i, scanner) ==
    CASE q[i] \in {"'", "double", "tick"} -> QuotedEnd(q, i, {"\\"})
      [] Next2(q, i) = <<"/", "*">> ->
            FirstFrom(q, i + 3, LAMBDA j : q[j] = "/" /\ q[j - 1] = "*")
      [] q[i] = "#" \/ (Next2(q, i) = <<"-", "-">> /\ Char(q, i + 2) \in White) -> LineEnd(q, i)
      [] Next2(q, i) = <<"?", "?">> -> i + 1
      [] Replaces(scanner, q, i) -> RunOf(q, i + 1, Part)
      [] OTHER -> i

\* What the characters from i to last add to the scan of the rest.
Scanned(q, i, last, scanner, rest) ==
    IF Replaces(scanner, q, i)
    THEN [sql |-> <<"?">> \o rest.sql, names |-> <<SubSeq(q, i + 1, last)>> \o rest.names,
          count |-> rest.count + 1]
    ELSE [sql |-> SubSeq(q, i, last) \o rest.sql, names |-> rest.names,
          count |-> rest.count + (IF q[i] = "?" THEN 1 ELSE 0)]
ScanSql(q, scanner) ==
    LET last[i \in DOMAIN q] == MySqlSpan(q, i, scanner)
        from[i \in 1 .. Len(q) + 1] ==
          IF i > Len(q) THEN [sql |-> <<>>, names |-> <<>>, count |-> 0]
          ELSE Scanned(q, i, last[i], scanner, from[last[i] + 1])
    IN  from[1]

\* countPostgresPlaceholders(): the highest number, 0 for none.
CommentEnd(q, i) ==
    LET after[j \in i .. Len(q) + 2] ==
          [depth \in Nat |->
             IF j > Len(q) \/ depth = 0 THEN Min({j - 1, Len(q)})
             ELSE IF Next2(q, j) = <<"/", "*">> THEN after[j + 2][depth + 1]
             ELSE IF Next2(q, j) = <<"*", "/">> THEN after[j + 2][depth - 1]
             ELSE after[j + 1][depth]]
    IN  after[i + 2][1]
\* dollarQuoteTag(), empty where there is none: letters first, digits later.
DollarTag(q, i) ==
    LET close == RunOf(q, i + 1, Part) + 1
    IN  IF Char(q, close) = "$" /\ Char(q, i + 1) \notin Digits THEN SubSeq(q, i, close) ELSE <<>>
\* Where the tag is repeated.
BodyEnd(q, i, tag) ==
    FirstFrom(q, i + 2 * Len(tag) - 1, LAMBDA j : Spells(q, j - Len(tag) + 1, tag))
Escapes(q, i) ==
    IF Char(q, i - 1) = "e" /\ Char(q, i - 2) \notin Part \cup {"$"} THEN {"\\"} ELSE {}
Numbered(q, i) == q[i] = "$" /\ Char(q, i + 1) \in Digits \ {"0"}
PostgresSpan(q, i, tag) ==
    CASE q[i] = "'" -> QuotedEnd(q, i, Escapes(q, i))
      [] q[i] = "double" -> QuotedEnd(q, i, {})
      [] q[i] \in Letters -> RunOf(q, i, Part \cup {"$"})
      [] Next2(q, i) = <<"-", "-">> -> LineEnd(q, i + 1)
      [] Next2(q, i) = <<"/", "*">> -> CommentEnd(q, i)
      [] Numbered(q, i) -> RunOf(q, i + 1, Digits)
      [] q[i] = "$" /\ ~Numbered(q, i) /\ tag # <<>> -> BodyEnd(q, i, tag)
      [] OTHER -> i
Counted(q, i, last, rest) ==
    IF Numbered(q, i) THEN Max({Number(SubSeq(q, i + 1, last)), rest}) ELSE rest
CountPostgres(q) ==
    LET last[i \in DOMAIN q] == PostgresSpan(q, i, DollarTag(q, i))
        from[i \in 1 .. Len(q) + 1] ==
          IF i > Len(q) THEN 0
          ELSE Counted(q, i, last[i], from[last[i] + 1])
    IN  from[1]
-----------------------------------------------------------------------------
(* normalizeParameters() and normalizePostgresParameters().                  *)
Numeric(key) == key # <<>> /\ \A i \in DOMAIN key : key[i] \in Digits
\* String(n), as a record's key spells it: without a leading zero.
Spelled(key, n) == Numeric(key) /\ Number(key) = n /\ (Len(key) > 1 => key[1] # "0")
\* The value a record has at a key: the last, where two keys come to be one.
ValueAt(entries, key) ==
    LET found == {i \in DOMAIN entries : entries[i].key = key}
    IN  IF found = {} THEN Null ELSE entries[Max(found)].value
ValueOf(entries, n) ==
    LET found == {i \in DOMAIN entries : Spelled(entries[i].key, n)}
    IN  IF found = {} THEN Null ELSE entries[Max(found)].value
Base(entries) == IF \E i \in DOMAIN entries : entries[i].key = <<"0">> THEN 0 ELSE 1
Positional(entries, count) == [n \in 1 .. count |-> ValueOf(entries, n - 1 + Base(entries))]
Padded(entries, count) ==
    [n \in 1 .. Max({count, Len(entries)}) |-> IF n \in DOMAIN entries THEN entries[n].value ELSE Null]
Nulls(count) == [n \in 1 .. count |-> Null]

\* parameterRecord(): a key may carry the sigil of its placeholder.
Stripped(entries) ==
    [i \in DOMAIN entries |->
       IF Char(entries[i].key, 1) \in Sigils THEN [entries[i] EXCEPT !.key = Tail(@)] ELSE entries[i]]

Bound(q, values) == [ok |-> TRUE, sql |-> q, values |-> values]
Rejected == [ok |-> FALSE, sql |-> <<>>, values |-> <<>>]

\* scan is what scanSql() gives for the query.
NormalizeParameters(q, p, scan) ==
    LET record == Stripped(p.entries)
    IN  CASE p.kind = "none" -> Bound(q, Nulls(scan.count))
          [] p.kind = "record" /\ scan.names # <<>> ->
                Bound(scan.sql, [n \in DOMAIN scan.names |-> ValueAt(record, scan.names[n])])
          [] p.kind = "record" /\ scan.names = <<>> ->
                IF scan.count = 1 /\ \A i \in DOMAIN record : ~Numeric(record[i].key)
                THEN Bound(q, <<p.kind>>)
                ELSE Bound(q, Positional(record, scan.count))
          [] OTHER ->
                IF scan.count > 0 /\ Len(p.entries) > scan.count THEN Rejected
                ELSE Bound(q, Padded(p.entries, scan.count))

NormalizePostgresParameters(q, p, count) ==
    LET numbers == {Number(p.entries[i].key) : i \in DOMAIN p.entries}
        numeric == \A i \in DOMAIN p.entries : Numeric(p.entries[i].key)
    IN  CASE count > MaxParameter -> Rejected
          [] count <= MaxParameter /\ (p.kind = "none" \/ p.entries = <<>>) -> Bound(q, Nulls(count))
          [] count <= MaxParameter /\ p.kind = "record" /\ p.entries # <<>> ->
                IF numeric
                THEN IF Max(numbers) - Base(p.entries) + 1 > count THEN Rejected
                     ELSE Bound(q, Positional(p.entries, count))
                ELSE IF count = 1 THEN Bound(q, <<p.kind>>) ELSE Rejected
          [] OTHER ->
                IF Len(p.entries) > count THEN Rejected ELSE Bound(q, Padded(p.entries, count))
-----------------------------------------------------------------------------
(* The readers: how each takes a query, one character after the other.       *)
State(what, skip, depth, tag) == [in |-> what, skip |-> skip, depth |-> depth, tag |-> tag]
Reading(what) == State(what, 0, 0, <<>>)
\* The next n characters belong to what was seen already.
Passing(s, n) == State(s.in, n, s.depth, s.tag)

Quotes == {"'", "double", "tick"}
\* A comment, but for one with a mark that makes it code: /*! ... */.
Comments(q, i, marks) == Next2(q, i) = <<"/", "*">> /\ Char(q, i + 2) \notin marks
MySqlInCode(q, s, i) ==
    IF q[i] \in Quotes THEN Reading(q[i])
    ELSE IF Comments(q, i, {"!"}) THEN Passing(Reading("block"), 1)
    ELSE IF q[i] = "#" THEN Reading("#")
    ELSE IF Next2(q, i) = <<"-", "-">> /\ Char(q, i + 2) \in White THEN Reading("line")
    ELSE s
InLine(q, s, i) == IF q[i] = "\n" THEN Reading("code") ELSE s
MySqlInBlock(q, s, i) ==
    IF Next2(q, i) = <<"*", "/">> THEN Passing(Reading("code"), 1) ELSE s
MySqlInQuotes(q, s, i) ==
    IF q[i] = s.in THEN Reading("code")
    ELSE IF q[i] = "\\" /\ s.in # "tick" THEN Passing(s, 1)
    ELSE s
\* What it reads after the i-th character, which it reads in s.
MySqlStep(q, s, i) ==
    CASE s.skip > 0 -> Passing(s, s.skip - 1)
      [] s.skip = 0 /\ s.in = "code" -> MySqlInCode(q, s, i)
      [] s.skip = 0 /\ s.in \in {"line", "#"} -> InLine(q, s, i)
      [] s.skip = 0 /\ s.in = "block" -> MySqlInBlock(q, s, i)
      [] s.skip = 0 /\ s.in \in Quotes -> MySqlInQuotes(q, s, i)
\* How it reads each character, and what follows the last.
MySqlReads(q) ==
    LET at[i \in 1 .. Len(q) + 1] ==
          IF i = 1 THEN Reading("code") ELSE MySqlStep(q, at[i - 1], i - 1)
    IN  at
InCode(at, i) == at[i].in = "code" /\ at[i].skip = 0

\* What the server takes for a placeholder; and what the caller wrote, where ??
\* asks for an identifier.
Markers(q) == {i \in DOMAIN q : q[i] = "?" /\ InCode(MySqlReads(q), i)}
QuestionMarks(q) == {i \in Markers(q) : Char(q, i - 1) # "?"}
\* A doubled sigil (@@variable) names no placeholder.
Names(q) == {i \in DOMAIN q : IsName(q, i) /\ Char(q, i - 1) # q[i] /\ InCode(MySqlReads(q), i)}

\* skipSqlContext(): to mysql2, double quotes and # are characters like others,
\* and a comment with a hint is none.
FormatInCode(q, s, i) ==
    IF q[i] \in {"'", "tick"} THEN Reading(q[i])
    ELSE IF Comments(q, i, {"!", "+"}) THEN Passing(Reading("block"), 1)
    ELSE IF Next2(q, i) = <<"-", "-">> /\ (Char(q, i + 2) \in White \/ i + 2 \notin DOMAIN q)
         THEN Reading("line")
    ELSE s
\* Elsewhere it reads like the server.
FormatStep(q, s, i) ==
    IF s.in = "code" /\ s.skip = 0 THEN FormatInCode(q, s, i) ELSE MySqlStep(q, s, i)
FormatReads(q) ==
    LET at[i \in 1 .. Len(q) + 1] ==
          IF i = 1 THEN Reading("code") ELSE FormatStep(q, at[i - 1], i - 1)
    IN  at
\* What it would take for more than a character.
Known(q, i) == q[i] \in {"'", "tick", "?"} \/ Next2(q, i) \in {<<"-", "-">>, <<"/", "*">>}
\* format(): ? and ?? take a value each, in order, as long as there are any; more
\* of them in a row are let alone.
Fillable(q) ==
    {i \in DOMAIN q : /\ q[i] = "?" /\ InCode(FormatReads(q), i)
                      /\ Char(q, i - 1) # "?" /\ ~Spells(q, i, <<"?", "?", "?">>)}
Filled(q, values) ==
    {i \in Fillable(q) : Cardinality({j \in Fillable(q) : j <= i}) <= Len(values)}

\* In a word (the single letter e of e'...' is one) or a number, until a
\* character that ends it; or behind an e'...', which goes on with a quote that
\* follows on a later line.
Words == {"code", "e", "word", "number"}
PostgresInCode(q, s, i) ==
    LET c == q[i]
        tag == DollarTag(q, i)
    IN  IF s.in \in {"e", "word"} /\ c \in Part \cup {"$"} THEN Reading("word")
        ELSE IF s.in = "number" /\ c \in Digits THEN Reading("number")
        ELSE IF c = "'" THEN Reading(IF s.in = "e" THEN "e'" ELSE "'")
        ELSE IF c = "double" THEN Reading("double")
        ELSE IF c \in Letters THEN Reading(IF c = "e" /\ s.in # "number" THEN "e" ELSE "word")
        ELSE IF c \in Digits THEN Reading("number")
        ELSE IF Next2(q, i) = <<"-", "-">> THEN Reading("line")
        ELSE IF Next2(q, i) = <<"/", "*">> THEN State("block", 1, 1, <<>>)
        ELSE IF c = "$" /\ tag # <<>> THEN State("$", Len(tag) - 1, 0, tag)
        ELSE Reading("code")
PostgresBehind(q, s, i) ==
    IF q[i] = "\n" THEN Reading("next")
    ELSE IF q[i] \in White THEN s
    ELSE IF q[i] = "'" /\ s.in = "next" THEN Reading("e'")
    ELSE IF Next2(q, i) = <<"-", "-">> THEN State("line", 0, 1, <<>>)
    ELSE PostgresInCode(q, Reading("code"), i)
PostgresInLine(q, s, i) ==
    IF q[i] # "\n" THEN s ELSE Reading(IF s.depth = 1 THEN "next" ELSE "code")
PostgresInBlock(q, s, i) ==
    IF Next2(q, i) = <<"/", "*">> THEN State("block", 1, s.depth + 1, <<>>)
    ELSE IF Next2(q, i) # <<"*", "/">> THEN s
    ELSE IF s.depth = 1 THEN Passing(Reading("code"), 1)
    ELSE State("block", 1, s.depth - 1, <<>>)
InDollars(q, s, i) ==
    IF Spells(q, i, s.tag) THEN Passing(Reading("code"), Len(s.tag) - 1) ELSE s
PostgresInQuotes(q, s, i) ==
    LET quote == IF s.in = "double" THEN "double" ELSE "'"
    IN  IF Next2(q, i) = <<quote, quote>> THEN Passing(s, 1)
        ELSE IF q[i] = quote THEN Reading(IF s.in = "e'" THEN "ended" ELSE "code")
        ELSE IF q[i] = "\\" /\ s.in = "e'" THEN Passing(s, 1)
        ELSE s
PostgresStep(q, s, i) ==
    CASE s.skip > 0 -> Passing(s, s.skip - 1)
      [] s.skip = 0 /\ s.in \in Words -> PostgresInCode(q, s, i)
      [] s.skip = 0 /\ s.in \in {"ended", "next"} -> PostgresBehind(q, s, i)
      [] s.skip = 0 /\ s.in = "line" -> PostgresInLine(q, s, i)
      [] s.skip = 0 /\ s.in = "block" -> PostgresInBlock(q, s, i)
      [] s.skip = 0 /\ s.in = "$" -> InDollars(q, s, i)
      [] s.skip = 0 /\ s.in \in {"'", "e'", "double"} -> PostgresInQuotes(q, s, i)
PostgresReads(q) ==
    LET at[i \in 1 .. Len(q) + 1] ==
          IF i = 1 THEN Reading("code") ELSE PostgresStep(q, at[i - 1], i - 1)
    IN  at
\* The numbers of the parameters a statement has: $1, $2 ...
ParameterNumbers(q) ==
    LET places == {i \in DOMAIN q : /\ Numbered(q, i)
                                    /\ PostgresReads(q)[i].in \in {"code", "number", "ended", "next"}
                                    /\ PostgresReads(q)[i].skip = 0}
    IN  {Number(SubSeq(q, i + 1, RunOf(q, i + 1, Digits))) : i \in places}
=============================================================================
