------------------------- MODULE ExportedCallsProofs -------------------------
(***************************************************************************)
(* Proofs about ExportedCalls: whatever is called, in whichever way and    *)
(* order, a caller hears one answer and a result only of what was done, no *)
(* cache of scans outgrows its limit or tells a query's scan for           *)
(* another's, and what the driver is given binds every placeholder.        *)
(*                                                                         *)
(* The answers and the limit depend on nothing that normalising makes of a *)
(* query; what is bound rests on SqlPlaceholdersProofs.                    *)
(***************************************************************************)
EXTENDS ExportedCalls, SqlPlaceholdersProofs

Typed ==
    /\ DOMAIN job \subseteq Calls
    /\ stage \in [Calls -> Stages]
    /\ applied \in [Calls -> BOOLEAN]
    /\ answers \in [Calls -> Seq(Answers)]

\* How far a call has come bounds what it has done and said.
Sound(c) ==
    /\ stage[c] # "ended" => answers[c] = <<>>
    /\ stage[c] \in {"new", "waiting", "running"} => ~applied[c]
    /\ stage[c] \in {"waiting", "running", "done", "failed"} => Available(c)
    /\ stage[c] = "done" => applied[c] \/ ~AsksDatabase(c)
    /\ applied[c] => Available(c)
    /\ Available(c) => Len(answers[c]) <= 1
    /\ (answers[c] = <<"result">> /\ AsksDatabase(c)) => applied[c]
Inv == Typed /\ \A c \in DOMAIN job : Sound(c)
-----------------------------------------------------------------------------
\* Sound() reads nothing of other calls: what a call does leaves them sound.
LEMMA Elsewhere ==
    ASSUME NEW d, Sound(d), UNCHANGED <<job, available>>,
           stage'[d] = stage[d], applied'[d] = applied[d], answers'[d] = answers[d]
    PROVE  Sound(d)'
BY DEF Sound, Available, Lane, Method, AsksDatabase

\* Answers of one and of two words.
LEMMA ShortAnswers ==
    ASSUME NEW a, NEW b
    PROVE  /\ Len(<<a>>) <= 1 /\ <<a>> # <<>> /\ Len(<<>>) <= 1
           /\ <<a>> = <<b>> => a = b
           /\ a \in Answers => <<a>> \in Seq(Answers)
           /\ a \in Answers /\ b \in Answers => <<a, b>> \in Seq(Answers)
<1>1. <<a>> = <<b>> => a = b
  <2>1. <<a>>[1] = a /\ <<b>>[1] = b
    OBVIOUS
  <2> QED BY <2>1
<1> QED BY <1>1

\* A call that has said nothing says at most one thing (invokeCallback()).
LEMMA OneMore ==
    ASSUME Typed, NEW c \in Calls, NEW a \in Answers, answers[c] = <<>>, Invoke(c, a)
    PROVE  /\ answers' \in [Calls -> Seq(Answers)]
           /\ answers'[c] \in {<<>>, <<a>>}
           /\ \A d \in Calls \ {c} : answers'[d] = answers[d]
BY DEF Typed, Invoke

\* operationError() says an error or nothing.
LEMMA OneError ==
    ASSUME Typed, NEW c \in Calls, answers[c] = <<>>, OperationError(c)
    PROVE  /\ answers' \in [Calls -> Seq(Answers)]
           /\ answers'[c] \in {<<>>, <<"error">>}
           /\ \A d \in Calls \ {c} : answers'[d] = answers[d]
<1>1. CASE Invoke(c, "error")
  BY <1>1, OneMore DEF Answers
<1>2. CASE UNCHANGED answers
  BY <1>2 DEF Typed
<1> QED BY <1>1, <1>2 DEF OperationError

\* An answered call is sound when a result is of what was done.
LEMMA EndedSound ==
    ASSUME NEW c, Available(c)', stage'[c] = "ended",
           answers'[c] \in {<<>>, <<"result">>, <<"error">>, <<"false">>},
           answers'[c] = <<"result">> => applied'[c] \/ ~AsksDatabase(c)'
    PROVE  Sound(c)'
<1>1. Len(answers'[c]) <= 1
  BY ShortAnswers
<1> QED BY <1>1, Zenon DEF Sound

\* The exports of a missing lane give a result to store() only.
LEMMA UnavailableAnswers ==
    ASSUME NEW c
    PROVE  /\ Unavailable(c) \in Seq(Answers)
           /\ Unavailable(c) = <<"result">> => ~AsksDatabase(c)
<1>1. /\ Unavailable(c) \in {<<"thrown">>, <<"error">>, <<"false">>, <<"result">>, <<"result", "thrown">>,
                             <<"error", "thrown">>, <<"false", "thrown">>}
      /\ Unavailable(c) = <<"result">> => Method(c) = "store"
  <2>1. SchemaUnavailable(c) \in {<<"thrown">>, <<"error">>, <<"error", "thrown">>}
    BY DEF SchemaUnavailable, Bare
  <2>2. CASE job[c].throws
    BY <2>1, <2>2 DEF Unavailable, MySqlUnavailable, PostgresUnavailable, Bare, SchemaMethods
  <2>3. CASE ~job[c].throws
    BY <2>1, <2>3 DEF Unavailable, MySqlUnavailable, PostgresUnavailable, Bare, SchemaMethods
  <2> QED BY <2>2, <2>3
<1>2. {"thrown", "error", "false", "result"} = Answers
  BY DEF Answers
<1>3. {<<"thrown">>, <<"error">>, <<"false">>, <<"result">>} \subseteq Seq(Answers)
  BY <1>2, ShortAnswers
<1>4. {<<"result", "thrown">>, <<"error", "thrown">>, <<"false", "thrown">>} \subseteq Seq(Answers)
  BY <1>2, ShortAnswers
<1>5. Unavailable(c) \in Seq(Answers)
  BY <1>1, <1>3, <1>4
<1>6. Unavailable(c) = <<"result">> => ~AsksDatabase(c)
  BY <1>1 DEF AsksDatabase
<1> QED BY <1>5, <1>6

\* An action of one call: it keeps the invariant when it keeps that call sound.
LEMMA OneCall ==
    ASSUME Inv, NEW c \in DOMAIN job, Typed', UNCHANGED <<job, available>>,
           \A d \in Calls \ {c} : /\ stage'[d] = stage[d] /\ applied'[d] = applied[d]
                                  /\ answers'[d] = answers[d],
           Sound(c)'
    PROVE  Inv'
<1> SUFFICES ASSUME NEW d \in DOMAIN job PROVE Sound(d)'
  BY DEF Inv
<1> CASE d = c
  OBVIOUS
<1> CASE d # c
  BY Elsewhere DEF Inv, Typed
<1> QED OBVIOUS
-----------------------------------------------------------------------------
\* No call has been made.
LEMMA InitSound == Init => Inv
<1> SUFFICES ASSUME Init PROVE Inv
  OBVIOUS
<1>1. Typed
  BY WorkloadsAssumption DEF Init, Typed, Stages
<1>2. ASSUME NEW c \in DOMAIN job PROVE Sound(c)
  BY <1>1 DEF Init, Sound, Typed
<1> QED BY <1>1, <1>2 DEF Inv

\* A call of a lane that is not there only answers.
LEMMA CallUnavailableSound ==
    ASSUME Inv, NEW c \in DOMAIN job, CallUnavailable(c)
    PROVE  Inv'
<1>1. Typed'
  BY UnavailableAnswers DEF Inv, Typed, CallUnavailable, Goto, Stages
<1>2. Sound(c)'
  BY UnavailableAnswers DEF Inv, Typed, Sound, CallUnavailable, Goto, Available, Lane, Method, AsksDatabase
<1> QED BY <1>1, <1>2, OneCall DEF CallUnavailable, Goto, Inv, Typed

\* store() keeps a query for the caller and asks nothing of the database.
LEMMA StoreSound ==
    ASSUME Inv, NEW c \in DOMAIN job, Store(c)
    PROVE  Inv'
<1>0. c \in Calls /\ answers[c] = <<>> /\ Sound(c)
  BY DEF Inv, Typed, Sound, Store, Asks
<1>1. /\ answers' \in [Calls -> Seq(Answers)]
      /\ answers'[c] \in {<<>>, <<"result">>}
      /\ \A d \in Calls \ {c} : answers'[d] = answers[d]
  BY <1>0, OneMore DEF Store, Answers, Inv
<1>2. Typed'
  BY <1>1 DEF Inv, Typed, Store, Goto, Stages
<1>3. Sound(c)'
  <2>1. Available(c)' /\ ~AsksDatabase(c)' /\ stage'[c] = "ended"
    BY <1>0 DEF Inv, Typed, Store, Asks, Goto, Available, Lane, Method, AsksDatabase
  <2> QED BY <1>1, <2>1, EndedSound
<1> QED BY <1>0, <1>1, <1>2, <1>3, OneCall DEF Store, Goto, Inv, Typed

\* An export that is refused at once answers with an error.
LEMMA IsRefusedSound ==
    ASSUME Inv, NEW c \in DOMAIN job, stage[c] = "new", Available(c), IsRefused(c)
    PROVE  Inv'
<1>0. c \in Calls /\ answers[c] = <<>> /\ Sound(c)
  BY DEF Inv, Typed, Sound
<1>1. /\ answers' \in [Calls -> Seq(Answers)]
      /\ answers'[c] \in {<<>>, <<"error">>}
      /\ \A d \in Calls \ {c} : answers'[d] = answers[d]
  BY <1>0, OneMore DEF IsRefused, Answers, Inv
<1>2. Typed'
  BY <1>1 DEF Inv, Typed, IsRefused, Goto, Stages
<1>3. Sound(c)'
  <2>1. Available(c)' /\ stage'[c] = "ended"
    BY <1>0 DEF Inv, Typed, IsRefused, Goto, Available, Lane, Method
  <2>2. answers'[c] # <<"result">>
    BY <1>1, ShortAnswers
  <2> QED BY <1>1, <2>1, <2>2, EndedSound
<1> QED BY <1>0, <1>1, <1>2, <1>3, OneCall DEF IsRefused, Goto, Inv, Typed

\* A call that goes on to wait has done and said nothing.
LEMMA WaitingSound ==
    ASSUME Inv, NEW c \in DOMAIN job, stage[c] = "new", Available(c),
           Goto(c, "waiting"), UNCHANGED <<job, available, applied, answers>>
    PROVE  Inv'
<1>1. Typed'
  BY DEF Inv, Typed, Goto, Stages
<1>2. Sound(c)'
  BY DEF Inv, Typed, Sound, Goto, Available, Lane, Method, AsksDatabase
<1> QED BY <1>1, <1>2, OneCall DEF Goto, Inv, Typed

\* A MySQL call whose parameters are rejected emits an error, and may answer it.
LEMMA GivesUpSound ==
    ASSUME Inv, NEW c \in DOMAIN job, stage[c] = "new", Available(c), GivesUp(c)
    PROVE  Inv'
<1>0. c \in Calls /\ answers[c] = <<>> /\ Sound(c)
  BY DEF Inv, Typed, Sound
<1>1. /\ answers' \in [Calls -> Seq(Answers)]
      /\ answers'[c] \in {<<>>, <<"error">>}
      /\ \A d \in Calls \ {c} : answers'[d] = answers[d]
  BY <1>0, OneError DEF GivesUp, Inv
<1>2. Typed'
  BY <1>1 DEF Inv, Typed, GivesUp, Goto, Stages
<1>3. Sound(c)'
  <2>1. Available(c)' /\ stage'[c] = "ended"
    BY <1>0 DEF Inv, Typed, GivesUp, Goto, Available, Lane, Method
  <2>2. answers'[c] # <<"result">>
    BY <1>1, ShortAnswers
  <2> QED BY <1>1, <2>1, <2>2, EndedSound
<1> QED BY <1>0, <1>1, <1>2, <1>3, OneCall DEF GivesUp, Goto, Inv, Typed

\* The exports of a lane that is there: each waits, gives up or is refused.
LEMMA AskedSound ==
    ASSUME Inv, NEW c \in DOMAIN job,
           \/ CallSchema(c) \/ CallPostgresSchema(c) \/ CallQuery(c) \/ CallPrepare(c)
           \/ CallTransaction(c) \/ CallPostgresQuery(c) \/ CallPostgresTransaction(c) \/ CallAndWait(c)
    PROVE  Inv'
<1>1. /\ stage[c] = "new" /\ Available(c)
      /\ \/ IsRefused(c) \/ GivesUp(c)
         \/ Goto(c, "waiting") /\ UNCHANGED <<job, available, applied, answers>>
  BY DEF CallSchema, CallPostgresSchema, CallQuery, CallPrepare, CallTransaction, CallPostgresQuery,
         CallPostgresTransaction, CallAndWait, Asks, Waits, Proceeds, WaitsWith
<1> QED BY <1>1, IsRefusedSound, GivesUpSound, WaitingSound

\* awaitConnection() returns: nothing was done yet, and nothing is said.
LEMMA AdmitSound ==
    ASSUME Inv, NEW c \in DOMAIN job, Admit(c)
    PROVE  Inv'
<1>1. /\ stage[c] = "waiting"
      /\ UNCHANGED <<job, available, applied, answers>>
      /\ \/ Goto(c, "running") \/ Goto(c, "failed")
         \/ Goto(c, "done") /\ Method(c) \in AwaitMethods
  BY DEF Admit
<1>2. Typed'
  BY <1>1 DEF Inv, Typed, Goto, Stages
<1>3. Sound(c)'
  BY <1>1 DEF Inv, Typed, Sound, Goto, Available, Lane, Method, AsksDatabase
<1> QED BY <1>1, <1>2, <1>3, OneCall DEF Goto, Inv, Typed

\* awaitConnection() rejects: a call that did nothing has failed.
LEMMA RefuseSound ==
    ASSUME Inv, NEW c \in DOMAIN job, Refuse(c)
    PROVE  Inv'
<1>1. Typed'
  BY DEF Inv, Typed, Refuse, Goto, Stages
<1>2. Sound(c)'
  BY DEF Inv, Typed, Sound, Refuse, Goto, Available, Lane, Method, AsksDatabase
<1> QED BY <1>1, <1>2, OneCall DEF Refuse, Goto, Inv, Typed

\* The database answers: it did what it says it did.
LEMMA ExecuteSound ==
    ASSUME Inv, NEW c \in DOMAIN job, Execute(c)
    PROVE  Inv'
<1>1. PICK outcome \in {"done", "failed"}, does \in BOOLEAN :
         /\ outcome = "done" => does
         /\ applied' = [applied EXCEPT ![c] = does]
         /\ Goto(c, outcome)
  BY DEF Execute
<1>2. Typed'
  BY <1>1 DEF Inv, Typed, Execute, Goto, Stages
<1>3. Sound(c)'
  BY <1>1 DEF Inv, Typed, Sound, Execute, Goto, Available, Lane, Method, AsksDatabase
<1> QED BY <1>1, <1>2, <1>3, OneCall DEF Execute, Goto, Inv, Typed

\* then(): the result of what was done, or an error or false of what was not.
LEMMA ContinueSound ==
    ASSUME Inv, NEW c \in DOMAIN job, Continue(c)
    PROVE  Inv'
<1>0. c \in Calls /\ answers[c] = <<>> /\ Sound(c)
  BY DEF Inv, Typed, Sound, Continue, Resolved, Failed
<1>1. CASE Resolved(c)
  <2>1. /\ answers' \in [Calls -> Seq(Answers)]
        /\ answers'[c] \in {<<>>, <<"result">>}
        /\ \A d \in Calls \ {c} : answers'[d] = answers[d]
    BY <1>0, <1>1, OneMore DEF Resolved, Answers, Inv
  <2>2. Typed'
    BY <2>1 DEF Inv, Typed, Continue, Goto, Stages
  <2>3. Sound(c)'
    <3>1. Available(c)' /\ stage'[c] = "ended" /\ (applied'[c] \/ ~AsksDatabase(c)')
      BY <1>0, <1>1
      DEF Inv, Typed, Sound, Resolved, Continue, Goto, Available, Lane, Method, AsksDatabase
    <3> QED BY <2>1, <3>1, EndedSound
  <2> QED BY <1>0, <2>1, <2>2, <2>3, OneCall DEF Continue, Goto, Inv, Typed
<1>2. CASE Failed(c)
  <2>1. /\ answers' \in [Calls -> Seq(Answers)]
        /\ answers'[c] \in {<<>>, <<"error">>, <<"false">>}
        /\ \A d \in Calls \ {c} : answers'[d] = answers[d]
    <3>1. OperationError(c) \/ Invoke(c, "false") \/ Invoke(c, "error")
      BY <1>2 DEF Failed
    <3> QED BY <1>0, <3>1, OneMore, OneError DEF Inv, Answers
  <2>2. Typed'
    BY <2>1 DEF Inv, Typed, Continue, Goto, Stages
  <2>3. Sound(c)'
    <3>1. Available(c)' /\ stage'[c] = "ended"
      BY <1>0, <1>2, <2>1 DEF Inv, Typed, Sound, Failed, Continue, Goto, Available, Lane, Method
    <3>2. answers'[c] # <<"result">>
      BY <2>1, ShortAnswers
    <3> QED BY <2>1, <3>1, <3>2, EndedSound
  <2> QED BY <1>0, <2>1, <2>2, <2>3, OneCall DEF Continue, Goto, Inv, Typed
<1> QED BY <1>1, <1>2 DEF Continue

\* Inv is inductive.
LEMMA NextSound == Inv /\ [Next]_vars => Inv'
<1> SUFFICES ASSUME Inv, [Next]_vars PROVE Inv'
  OBVIOUS
<1>1. CASE UNCHANGED vars
  BY <1>1 DEF vars, Inv, Typed, Sound, Available, Lane, Method, AsksDatabase
<1>2. CASE Next
  <2> PICK c \in DOMAIN job :
         Call(c) \/ Admit(c) \/ Refuse(c) \/ Execute(c) \/ Continue(c)
    BY <1>2 DEF Next
  <2>1. CASE Call(c)
    BY <2>1, CallUnavailableSound, StoreSound, AskedSound DEF Call
  <2>2. CASE Admit(c)
    BY <2>2, AdmitSound
  <2>3. CASE Refuse(c)
    BY <2>3, RefuseSound
  <2>4. CASE Execute(c)
    BY <2>4, ExecuteSound
  <2>5. CASE Continue(c)
    BY <2>5, ContinueSound
  <2> QED BY <2>1, <2>2, <2>3, <2>4, <2>5
<1> QED BY <1>1, <1>2

\* Spec implies that a caller hears at most one answer of a lane that is there,
\* and a result only of what the database did.
THEOREM AnswersAreTrue == Spec => []OneTrueAnswer
<1>1. Inv => OneTrueAnswer
  BY DEF Inv, Typed, Sound, OneTrueAnswer, Stages
<1> QED BY <1>1, InitSound, NextSound, PTL DEF Spec
-----------------------------------------------------------------------------
(* The caches.                                                               *)
\* The caches, by the scanner whose scans they remember.
Scanners == {"positional", "named", "numbered"}
\* A sequence of anything.
IsSequence(s) == \E S : s \in Seq(S)

\* What Append() and Tail() make of a sequence.
LEMMA Sequences ==
    ASSUME NEW s, IsSequence(s)
    PROVE  /\ Len(s) \in Nat /\ DOMAIN s = 1 .. Len(s)
           /\ \A e : IsSequence(Append(s, e)) /\ Len(Append(s, e)) = Len(s) + 1
           /\ Len(s) > 0 => IsSequence(Tail(s)) /\ Len(Tail(s)) = Len(s) - 1
<1> PICK S : s \in Seq(S)
  BY DEF IsSequence
<1>1. ASSUME NEW e PROVE IsSequence(Append(s, e)) /\ Len(Append(s, e)) = Len(s) + 1
  <2> DEFINE T == S \cup {e}
  <2>1. s \in Seq(T) /\ e \in T
    BY SeqMonotonic
  <2> HIDE DEF T
  <2>2. Append(s, e) \in Seq(T) /\ Len(Append(s, e)) = Len(s) + 1
    BY <2>1
  <2> QED BY <2>2 DEF IsSequence
<1>2. ASSUME Len(s) > 0 PROVE IsSequence(Tail(s)) /\ Len(Tail(s)) = Len(s) - 1
  <2>1. Tail(s) \in Seq(S) /\ Len(Tail(s)) = Len(s) - 1
    BY <1>2
  <2> QED BY <2>1 DEF IsSequence
<1> QED BY <1>1, <1>2

\* What is where, in what Append() and Tail() make of a sequence.
LEMMA Elements ==
    ASSUME NEW s, IsSequence(s)
    PROVE  /\ \A e : /\ Append(s, e)[Len(s) + 1] = e
                     /\ \A i \in 1 .. Len(s) : Append(s, e)[i] = s[i]
           /\ Len(s) > 0 => \A i \in 1 .. Len(s) - 1 : Tail(s)[i] = s[i + 1]
<1> PICK S : s \in Seq(S)
  BY DEF IsSequence
<1>1. ASSUME NEW e
      PROVE  Append(s, e)[Len(s) + 1] = e /\ \A i \in 1 .. Len(s) : Append(s, e)[i] = s[i]
  <2> DEFINE T == S \cup {e}
  <2>1. s \in Seq(T) /\ e \in T
    BY SeqMonotonic
  <2> HIDE DEF T
  <2> QED BY <2>1, AppendProperties
<1>2. Len(s) > 0 => \A i \in 1 .. Len(s) - 1 : Tail(s)[i] = s[i + 1]
  OBVIOUS
<1> QED BY <1>1, <1>2

\* A function on 1 .. n is a sequence of length n.
LEMMA IsSequenceOf ==
    ASSUME NEW n \in Nat, NEW f, f = [i \in 1 .. n |-> f[i]]
    PROVE  IsSequence(f) /\ Len(f) = n /\ DOMAIN f = 1 .. n
<1> DEFINE S == {f[i] : i \in 1 .. n}
<1>1. f \in [1 .. n -> S]
  OBVIOUS
<1> HIDE DEF S
<1>2. f \in Seq(S)
  BY <1>1, SeqDef
<1>3. Len(f) \in Nat /\ DOMAIN f = 1 .. Len(f)
  BY <1>2, LenProperties
<1>4. DOMAIN f = 1 .. n
  BY <1>1
<1>5. Len(f) = n
  BY <1>3, <1>4
<1> QED BY <1>2, <1>4, <1>5 DEF IsSequence

\* What normalising a list of statements preserves: it has a cache for each
\* scanner, within the limit, and a list of what the driver is to be sent.
Bounded(cache) == IsSequence(cache) /\ Len(cache) <= CacheLimit
Well(so) ==
    /\ DOMAIN so.caches = Scanners
    /\ \A k \in Scanners : Bounded(so.caches[k])
    /\ IsSequence(so.sent)

\* cacheScan() makes room before it adds a scan.
LEMMA CacheScanBounded ==
    ASSUME NEW cache, Bounded(cache), NEW q, NEW scan
    PROVE  Bounded(CacheScan(cache, q, scan))
<1> DEFINE e == [query |-> q, scan |-> scan]
<1> HIDE DEF e
<1>0. Len(cache) \in Nat /\ Len(cache) <= CacheLimit /\ CacheLimit \in Nat \ {0} /\ IsSequence(cache)
  BY Sequences, LimitAssumption DEF Bounded
<1>1. CASE Len(cache) >= CacheLimit
  <2>1. IsSequence(Tail(cache)) /\ Len(Tail(cache)) = Len(cache) - 1
    BY <1>0, <1>1, Sequences
  <2>2. IsSequence(Append(Tail(cache), e)) /\ Len(Append(Tail(cache), e)) = Len(cache)
    BY <1>0, <2>1, Sequences
  <2> QED BY <1>0, <1>1, <2>2 DEF Bounded, CacheScan, e
<1>2. CASE ~(Len(cache) >= CacheLimit)
  <2>2. IsSequence(Append(cache, e)) /\ Len(Append(cache, e)) = Len(cache) + 1
    BY <1>0, Sequences
  <2>3. Len(Append(cache, e)) <= CacheLimit
    BY <1>0, <1>2, <2>2
  <2> QED BY <1>0, <1>2, <2>2, <2>3 DEF Bounded, CacheScan, e
<1> QED BY <1>1, <1>2

\* What is rejected leaves the statements as they were, and may leave its scan.
LEMMA NormalizedWell ==
    ASSUME NEW so, Well(so), NEW k \in Scanners, NEW q, NEW scan, NEW keeps, NEW bound
    PROVE  Well(Normalized(so, k, q, scan, keeps, bound))
<1> DEFINE n == Normalized(so, k, q, scan, keeps, bound)
<1>1. /\ n.caches = IF keeps THEN Remember(so.caches, k, q, scan) ELSE so.caches
      /\ n.sent = Sent(so.sent, bound)
  BY DEF Normalized
<1>2. IsSequence(n.sent)
  BY <1>1, Sequences DEF Well, Sent
<1>3. n.caches = so.caches \/ n.caches = [so.caches EXCEPT ![k] = CacheScan(so.caches[k], q, scan)]
  BY <1>1 DEF Remember
<1>4. Bounded(CacheScan(so.caches[k], q, scan))
  BY CacheScanBounded DEF Well
<1> HIDE DEF n
<1>5. DOMAIN n.caches = Scanners /\ \A l \in Scanners : Bounded(n.caches[l])
  BY <1>3, <1>4 DEF Well
<1> QED BY <1>2, <1>5 DEF n, Well

\* A statement is scanned by one scanner, which has its own cache.
LEMMA NormalizeWell ==
    ASSUME NEW so, Well(so), NEW lane, NEW q, NEW p, NEW s \in Scanners
    PROVE  Well(Normalize(so, s, s, lane, q, p))
BY NormalizedWell DEF Normalize, NormalizeWith
\* NormalizeAll() takes one statement after the other: upto[n] is what it made
\* of the first n of them.
Step(lane, statements, so, n) ==
    Normalize(so, Scanner(lane, statements[n].parameters), Scanner(lane, statements[n].parameters),
              lane, statements[n].query, statements[n].parameters)
Steps(lane, statements, upto) ==
    /\ upto[0] = [caches |-> caches, sent |-> <<>>, ok |-> TRUE]
    /\ \A n \in 1 .. Len(statements) : upto[n] = Step(lane, statements, upto[n - 1], n)

\* The function exists, since each of its beginnings can be continued (<1>3).
LEMMA NormalizeAllSteps ==
    ASSUME NEW lane, NEW statements, Len(statements) \in Nat, DOMAIN statements = 1 .. Len(statements)
    PROVE  \E upto : Steps(lane, statements, upto) /\ NormalizeAll(lane, statements) = upto[Len(statements)]
<1> DEFINE N == Len(statements)
           First == [caches |-> caches, sent |-> <<>>, ok |-> TRUE]
           scanner == [n \in DOMAIN statements |-> Scanner(lane, statements[n].parameters)]
           Following(so, n) == Normalize(so, CacheOf(scanner[n]), scanner[n], lane,
                                     statements[n].query, statements[n].parameters)
           Starts(m, f) == f = [n \in 0 .. m |-> IF n = 0 THEN First ELSE Following(f[n - 1], n)]
           upto == CHOOSE f : Starts(N, f)
<1>1. NormalizeAll(lane, statements) = upto[N]
  BY DEF NormalizeAll
<1>2. \A n \in 1 .. N : \A so : Following(so, n) = Step(lane, statements, so, n)
  BY DEF CacheOf, Step
<1> HIDE DEF Following, First
<1>3. \E f : Starts(N, f)
  <2> DEFINE Good == {m \in 0 .. N : \E f : Starts(m, f)}
  <2>1. 0 \in Good
    <3>1. [n \in 0 .. 0 |-> First] =
            [n \in 0 .. 0 |-> IF n = 0 THEN First ELSE Following([l \in 0 .. 0 |-> First][n - 1], n)]
      OBVIOUS
    <3>2. 0 \in 0 .. N
      OBVIOUS
    <3> QED BY <3>1, <3>2, Zenon
  <2>2. ASSUME NEW m \in 1 .. N, m - 1 \in Good PROVE m \in Good
    <3> PICK f : Starts(m - 1, f)
      BY <2>2
    <3> DEFINE g == [n \in 0 .. m |-> IF n = m THEN Following(f[m - 1], m) ELSE f[n]]
    <3>1. \A n \in 0 .. m : g[n] = IF n = 0 THEN First ELSE Following(g[n - 1], n)
      <4> TAKE n \in 0 .. m
      <4>1. CASE n = m
        BY <4>1
      <4>2. CASE n # m
        <5>1. n \in 0 .. m - 1 /\ (n # 0 => n - 1 \in 0 .. m /\ n - 1 # m)
          BY <4>2
        <5>2. f[n] = IF n = 0 THEN First ELSE Following(f[n - 1], n)
          BY <5>1
        <5> QED BY <4>2, <5>1, <5>2
      <4> QED BY <4>1, <4>2
    <3>2. Starts(m, g)
      BY <3>1
    <3>3. m \in 0 .. N
      OBVIOUS
    <3> HIDE DEF g, Starts
    <3> QED BY <3>2, <3>3
  <2> HIDE DEF Good
  <2>3. 0 .. N \subseteq Good
    BY <2>1, <2>2, Upwards
  <2>4. N \in Good
    BY <2>3
  <2> QED BY <2>4 DEF Good
<1>4. Starts(N, upto)
  BY <1>3
<1> HIDE DEF upto
<1>5. upto[0] = First /\ \A n \in 1 .. N : upto[n] = Following(upto[n - 1], n)
  <2>1. \A n \in 0 .. N : upto[n] = IF n = 0 THEN First ELSE Following(upto[n - 1], n)
    BY <1>4
  <2>2. 0 \in 0 .. N /\ \A n \in 1 .. N : n \in 0 .. N /\ n # 0
    OBVIOUS
  <2> QED BY <2>1, <2>2
<1>6. Steps(lane, statements, upto)
  BY <1>2, <1>5 DEF First, Steps
<1> QED BY <1>1, <1>6

\* Every list of statements is normalised to its end, and the caches stay within
\* their limit.
LEMMA NormalizeAllWell ==
    ASSUME NEW lane, NEW statements, Len(statements) \in Nat, DOMAIN statements = 1 .. Len(statements),
           Well([caches |-> caches, sent |-> <<>>, ok |-> TRUE])
    PROVE  Well(NormalizeAll(lane, statements))
<1> DEFINE N == Len(statements)
<1>1. PICK upto : Steps(lane, statements, upto) /\ NormalizeAll(lane, statements) = upto[N]
  BY NormalizeAllSteps
<1> DEFINE Good == {n \in 0 .. N : Well(upto[n])}
<1>2. 0 \in Good
  <2>1. Well(upto[0])
    BY <1>1 DEF Steps
  <2> QED BY <2>1
<1>3. ASSUME NEW n \in 1 .. N, n - 1 \in Good PROVE n \in Good
  <2>1. upto[n] = Step(lane, statements, upto[n - 1], n)
    BY <1>1 DEF Steps
  <2>2. Scanner(lane, statements[n].parameters) \in Scanners
    BY DEF Scanner, Scanners
  <2>3. Well(Step(lane, statements, upto[n - 1], n))
    BY <1>3, <2>2, NormalizeWell DEF Step
  <2> QED BY <2>1, <2>3
<1> HIDE DEF Good
<1>4. 0 .. N \subseteq Good
  BY <1>2, <1>3, Upwards
<1>5. N \in Good
  BY <1>4
<1> QED BY <1>1, <1>5 DEF Good

\* What the steps of all calls keep, besides Typed.
Kept ==
    /\ available \in SUBSET {"mysql", "postgres"}
    /\ reported \in [Calls -> BOOLEAN]
    /\ DOMAIN sent = Calls /\ \A c \in Calls : IsSequence(sent[c])
    /\ DOMAIN caches = Scanners /\ \A k \in Scanners : Bounded(caches[k])
    /\ \A c \in DOMAIN job :
         /\ Method(c) \in MySqlMethods \cup PostgresMethods
         /\ Len(job[c].statements) \in Nat /\ DOMAIN job[c].statements = 1 .. Len(job[c].statements)

\* The caches are at all times what normalising may begin with.
LEMMA NormalizedKept ==
    ASSUME Kept, NEW lane, NEW statements, Len(statements) \in Nat, DOMAIN statements = 1 .. Len(statements)
    PROVE  Well(NormalizeAll(lane, statements))
<1>1. Well([caches |-> caches, sent |-> <<>>, ok |-> TRUE])
  <2>1. IsSequence(<<>>)
    BY DEF IsSequence
  <2> QED BY <2>1 DEF Well, Kept
<1> QED BY <1>1, NormalizeAllWell

\* What a call asks for can be normalised, and so can what was made of it when a
\* transaction normalises a second time.
LEMMA StatementsKept ==
    ASSUME Kept, NEW c \in DOMAIN job, NEW lane
    PROVE  Well(NormalizeAll(lane, Statements(c)))
<1>1. Statements(c) = [i \in 1 .. Len(job[c].statements) |-> Statements(c)[i]]
  BY DEF Statements, Kept
<1>2. Len(Statements(c)) = Len(job[c].statements) /\ DOMAIN Statements(c) = 1 .. Len(job[c].statements)
  BY <1>1, IsSequenceOf DEF Kept
<1> QED BY <1>2, NormalizedKept DEF Kept

\* So can what the driver was to be given already.
LEMMA AgainKept ==
    ASSUME Kept, NEW s, IsSequence(s), NEW lane
    PROVE  Well(NormalizeAll(lane, Again(s)))
<1>0. Len(s) \in Nat /\ DOMAIN s = 1 .. Len(s)
  BY Sequences
<1>1. Again(s) = [i \in 1 .. Len(s) |-> Again(s)[i]]
  BY <1>0 DEF Again
<1>2. Len(Again(s)) = Len(s) /\ DOMAIN Again(s) = 1 .. Len(s)
  BY <1>0, <1>1, IsSequenceOf
<1> QED BY <1>0, <1>2, NormalizedKept

\* normalizePrepared() changes no number of parameter sets.
LEMMA PreparedKept ==
    ASSUME NEW s, IsSequence(s)
    PROVE  IsSequence(Prepared(s))
<1>0. Len(s) \in Nat /\ DOMAIN s = 1 .. Len(s)
  BY Sequences
<1>1. Prepared(s) = [i \in 1 .. Len(s) |-> Prepared(s)[i]]
  BY <1>0 DEF Prepared
<1> QED BY <1>0, <1>1, IsSequenceOf

\* A MySQL export has normalised, and waits or gives up.
LEMMA ProceedsKept ==
    ASSUME Kept, NEW c \in Calls, NEW so, Well(so), NEW statements, IsSequence(statements),
           Proceeds(c, so, statements)
    PROVE  Kept'
<1>1. UNCHANGED <<job, available>> /\ caches' = so.caches
  BY DEF Proceeds, WaitsWith, GivesUp
<1>2. reported' \in [Calls -> BOOLEAN]
  BY DEF Proceeds, WaitsWith, GivesUp, OperationError, Report, Kept
<1>3. DOMAIN sent' = Calls /\ \A d \in Calls : IsSequence(sent'[d])
  BY DEF Proceeds, WaitsWith, GivesUp, Kept
<1> QED BY <1>1, <1>2, <1>3 DEF Kept, Well, Method

\* A step that normalises nothing.
LEMMA QuietKept ==
    ASSUME Kept, UNCHANGED <<job, available, sent, caches>>, reported' \in [Calls -> BOOLEAN]
    PROVE  Kept'
BY DEF Kept, Method

\* The exports, of which three normalise at once.
LEMMA CallKept ==
    ASSUME Kept, NEW c \in DOMAIN job, c \in Calls, Call(c)
    PROVE  Kept'
<1>1. CASE CallQuery(c)
  BY <1>1, StatementsKept, ProceedsKept DEF CallQuery, Well
<1>2. CASE CallPrepare(c)
  BY <1>2, StatementsKept, PreparedKept, ProceedsKept DEF CallPrepare, Well
<1>3. CASE CallTransaction(c)
  <2>1. CASE GivesUp(c) /\ UNCHANGED caches
    BY <2>1, QuietKept DEF GivesUp, OperationError, Report, Kept
  <2>2. CASE \E so \in {NormalizeAll("mysql", Statements(c))} : Proceeds(c, so, so.sent)
    BY <2>2, StatementsKept, ProceedsKept DEF Well
  <2> QED BY <1>3, <2>1, <2>2 DEF CallTransaction
<1>4. CASE \/ CallUnavailable(c) \/ Store(c) \/ CallSchema(c) \/ CallPostgresSchema(c)
           \/ CallPostgresQuery(c) \/ CallPostgresTransaction(c) \/ CallAndWait(c)
  BY <1>4, QuietKept DEF CallUnavailable, Store, CallSchema, CallPostgresSchema, CallPostgresQuery,
     CallPostgresTransaction, CallAndWait, Waits, IsRefused, Kept
<1> QED BY <1>1, <1>2, <1>3, <1>4 DEF Call

\* awaitConnection() returns: the PostgreSQL lane normalises now.
LEMMA AdmitKept ==
    ASSUME Kept, NEW c \in DOMAIN job, c \in Calls, Admit(c)
    PROVE  Kept'
<1>1. CASE NormalizesNow(c)
  <2> DEFINE made == NormalizeAll(Lane(c), IF Lane(c) = "mysql" THEN Again(sent[c]) ELSE Statements(c))
  <2>1. Well(made)
    BY StatementsKept, AgainKept DEF Kept
  <2>2. /\ caches' = made.caches /\ sent' = [sent EXCEPT ![c] = made.sent]
        /\ UNCHANGED <<job, available, reported>>
    BY <1>1 DEF Admit
  <2> HIDE DEF made
  <2> QED BY <2>1, <2>2 DEF Kept, Well, Method
<1>2. CASE ~NormalizesNow(c)
  BY <1>2, QuietKept DEF Admit, Kept
<1> QED BY <1>1, <1>2

\* What comes after.
LEMMA OthersKept ==
    ASSUME Kept, NEW c, Refuse(c) \/ Execute(c) \/ Continue(c)
    PROVE  Kept'
<1>1. reported' \in [Calls -> BOOLEAN]
  BY DEF Kept, Refuse, Execute, Continue, Resolved, Failed, OperationError, Report
<1> QED BY <1>1, QuietKept DEF Refuse, Execute, Continue

\* The caches start empty.
LEMMA InitKept == Init => Kept
<1> SUFFICES ASSUME Init PROVE Kept
  OBVIOUS
<1>1. IsSequence(<<>>) /\ Len(<<>>) <= CacheLimit
  BY LimitAssumption DEF IsSequence
<1>2. \A c \in DOMAIN job :
         /\ Method(c) \in MySqlMethods \cup PostgresMethods
         /\ Len(job[c].statements) \in Nat /\ DOMAIN job[c].statements = 1 .. Len(job[c].statements)
  BY WorkloadsAssumption DEF Init, Method, AreStatements
<1>3. available \subseteq {"mysql", "postgres"}
  BY WorkloadsAssumption DEF Init
<1> QED BY <1>1, <1>2, <1>3 DEF Init, Kept, Bounded, Scanners

\* What the steps keep.
LEMMA NextKept == Inv /\ Kept /\ [Next]_vars => Kept'
<1> SUFFICES ASSUME Inv, Kept, [Next]_vars PROVE Kept'
  OBVIOUS
<1>1. CASE UNCHANGED vars
  BY <1>1 DEF vars, Kept, Method
<1>2. CASE Next
  <2> PICK c \in DOMAIN job : Call(c) \/ Admit(c) \/ Refuse(c) \/ Execute(c) \/ Continue(c)
    BY <1>2 DEF Next
  <2> c \in Calls
    BY DEF Inv, Typed
  <2> QED BY CallKept, AdmitKept, OthersKept
<1> QED BY <1>1, <1>2

\* Spec implies that every variable keeps its type, and that no cache of scans
\* outgrows its limit, however many queries there are.
THEOREM TypeCorrect == Spec => []TypeOK
<1>1. Typed /\ Kept => TypeOK
  BY DEF Typed, Kept, TypeOK, Scanners, Bounded
<1> QED BY <1>1, InitKept, InitSound, NextSound, NextKept, PTL DEF Spec, Inv
-----------------------------------------------------------------------------
(* What normalising binds, for every query and all parameters.             *)

\* The values of a statement, as normalizing lists them.
LEMMA ListsOfValues ==
    ASSUME NEW entries, Len(entries) \in Nat, NEW count \in Nat
    PROVE  /\ Len(Nulls(count)) = count
           /\ Len(Positional(entries, count)) = count
           /\ Len(Padded(entries, count)) = Max({count, Len(entries)})
           /\ Len(entries) <= count => Len(Padded(entries, count)) = count
<1>1. ASSUME NEW f, f = [n \in 1 .. count |-> f[n]] PROVE Len(f) = count
  BY <1>1, IsSequenceOf
<1>2. Len(Nulls(count)) = count
  <2> DEFINE f == Nulls(count)
  <2>1. f = [n \in 1 .. count |-> f[n]]
    BY DEF Nulls
  <2> HIDE DEF f
  <2> QED BY <1>1, <2>1 DEF f
<1>3. Len(Positional(entries, count)) = count
  <2> DEFINE f == Positional(entries, count)
  <2>1. f = [n \in 1 .. count |-> f[n]]
    BY DEF Positional
  <2> HIDE DEF f
  <2>2. Len(f) = count
    BY <1>1, <2>1
  <2> QED BY <2>2 DEF f
<1>4. Max({count, Len(entries)}) = IF count <= Len(entries) THEN Len(entries) ELSE count
  <2>1. count \in Int /\ Len(entries) \in Int
    OBVIOUS
  <2> QED BY <2>1, OfTwo, Zenon
<1>5. Len(Padded(entries, count)) = Max({count, Len(entries)})
  <2> DEFINE f == Padded(entries, count)
             m == Max({count, Len(entries)})
  <2>1. f = [n \in 1 .. m |-> f[n]]
    BY DEF Padded
  <2>2. m \in Nat
    BY <1>4
  <2> HIDE DEF f, m
  <2>3. Len(f) = m
    BY <2>1, <2>2, IsSequenceOf
  <2> QED BY <2>3 DEF f, m
<1> QED BY <1>2, <1>3, <1>4, <1>5

\* No entry, no value.
LEMMA NoValues ==
    ASSUME NEW entries, Len(entries) = 0, DOMAIN entries = {}, NEW count \in Nat
    PROVE  Positional(entries, count) = Nulls(count) /\ Padded(entries, count) = Nulls(count)
<1>1. Max({count, Len(entries)}) = count
  <2>1. count \in Int /\ Len(entries) \in Int
    OBVIOUS
  <2>2. Max({count, Len(entries)}) = IF count <= Len(entries) THEN Len(entries) ELSE count
    BY <2>1, OfTwo, Zenon
  <2> QED BY <2>2
<1>2. \A n : ValueOf(entries, n) = Null
  BY DEF ValueOf
<1> QED BY <1>1, <1>2 DEF Positional, Padded, Nulls

\* Whatever normalizePostgresParameters() does not reject has a value for each
\* number that the server finds in the statement, and no other, each the
\* caller's: for every statement in which no e'...' follows a dollar sign or goes
\* on on a later line, and all parameters.
THEOREM PostgresIsBound ==
    ASSUME NEW q \in Seq(Characters), ExactPostgres(q), NEW p, IsParameters(p),
           NormalizePostgresParameters(q, p, CountPostgres(q)).ok
    PROVE  PostgresBinds(q, p, NormalizePostgresParameters(q, p, CountPostgres(q)))
<1> DEFINE count == CountPostgres(q)
           made == NormalizePostgresParameters(q, p, count)
           S == ParameterNumbers(q)
           given == IF p.kind = "record" THEN Positional(p.entries, count) ELSE Padded(p.entries, count)
<1>1. ReadsAlone(q)
  BY DEF ReadsAlone, ExactPostgres
<1>2. count \in Nat /\ count = IF S = {} THEN 0 ELSE Max(S)
  BY <1>1, PostgresCount
<1> HIDE DEF count
<1>3. /\ Len(p.entries) \in Nat /\ DOMAIN p.entries = 1 .. Len(p.entries)
      /\ p.kind \in {"none", "list", "scalar", "record"} /\ (p.kind = "none" => p.entries = <<>>)
  BY DEF IsParameters
<1>4. made.ok /\ MaxParameter \in Nat
  BY MaxParameterAssumption DEF count
<1>5. ~Rejected.ok
  BY DEF Rejected
<1>6. count <= MaxParameter
  <2> SUFFICES ASSUME count > MaxParameter PROVE FALSE
    BY <1>2, <1>4
  <2>1. made = Rejected
    BY <1>2, <1>4 DEF NormalizePostgresParameters
  <2> QED BY <1>4, <1>5, <2>1
<1>7. \/ made = Bound(q, <<"record">>) /\ count = 1
      \/ \E values : made = Bound(q, values) /\ Len(values) = count /\ values = given
  <2>1. CASE p.kind = "none" \/ p.entries = <<>>
    <3>1. p.entries = <<>>
      BY <1>3, <2>1
    <3>2. Len(p.entries) = 0 /\ DOMAIN p.entries = {}
      BY <3>1
    <3>3. made = Bound(q, Nulls(count))
      BY <1>2, <1>4, <1>6, <2>1 DEF NormalizePostgresParameters
    <3>4. given = Nulls(count)
      BY <1>2, <3>2, NoValues
    <3> QED BY <1>2, <1>3, <3>3, <3>4, ListsOfValues
  <2>2. CASE p.kind = "record" /\ p.entries # <<>>
    <3>1. \/ made = Rejected
          \/ made = Bound(q, Positional(p.entries, count))
          \/ made = Bound(q, <<p.kind>>) /\ count = 1
      BY <1>2, <1>4, <1>6, <2>2 DEF NormalizePostgresParameters
    <3>2. made # Rejected
      BY <1>4, <1>5
    <3>3. given = Positional(p.entries, count) /\ Len(Positional(p.entries, count)) = count
      BY <1>2, <1>3, <2>2, ListsOfValues
    <3> HIDE DEF made, given
    <3>4. CASE made = Bound(q, Positional(p.entries, count))
      BY <3>3, <3>4
    <3>5. CASE made = Bound(q, <<p.kind>>) /\ count = 1
      BY <2>2, <3>5
    <3> QED BY <3>1, <3>2, <3>4, <3>5
  <2>3. CASE p.kind \in {"list", "scalar"} /\ p.entries # <<>>
    <3>1. made = IF Len(p.entries) > count THEN Rejected ELSE Bound(q, Padded(p.entries, count))
      BY <1>2, <1>4, <1>6, <2>3 DEF NormalizePostgresParameters
    <3>2. made # Rejected
      BY <1>4, <1>5
    <3>3. /\ given = Padded(p.entries, count)
          /\ Len(p.entries) <= count => Len(Padded(p.entries, count)) = count
      BY <1>2, <1>3, <2>3, ListsOfValues
    <3> HIDE DEF made, given
    <3>4. made = Bound(q, Padded(p.entries, count)) /\ Len(p.entries) <= count
      BY <1>2, <1>3, <3>1, <3>2
    <3> QED BY <3>3, <3>4
  <2> QED BY <1>3, <2>1, <2>2, <2>3
<1> HIDE DEF made
<1>8. CASE made = Bound(q, <<"record">>) /\ count = 1
  <2>1. made.sql = q /\ made.values = <<"record">> /\ Len(made.values) = 1
    BY <1>8 DEF Bound
  <2> QED BY <1>2, <1>6, <1>8, <2>1 DEF PostgresBinds, made, count
<1>9. ASSUME NEW values, made = Bound(q, values), Len(values) = count, values = given
      PROVE  PostgresBinds(q, p, made)
  <2>1. made.sql = q /\ made.values = given /\ Len(made.values) = count
    BY <1>9 DEF Bound
  <2>2. S # {} => given = IF p.kind = "record" THEN Positional(p.entries, Max(S)) ELSE Padded(p.entries, Max(S))
    BY <1>2
  <2> HIDE DEF given
  <2> QED BY <1>2, <1>6, <2>1, <2>2 DEF PostgresBinds
<1> QED BY <1>7, <1>8, <1>9 DEF made, count

Listing(values) == Len(values) \in Nat /\ values = [n \in 1 .. Len(values) |-> values[n]]

\* A function on 1 .. m is such a list.
LEMMA ListingOf ==
    ASSUME NEW m \in Nat, NEW f, f = [n \in 1 .. m |-> f[n]]
    PROVE  Listing(f) /\ Len(f) = m
BY IsSequenceOf DEF Listing

\* What normalising makes lists of.
LEMMA ValuesListed ==
    ASSUME NEW entries, Len(entries) \in Nat, NEW count \in Nat
    PROVE  Listing(Nulls(count)) /\ Listing(Positional(entries, count)) /\ Listing(Padded(entries, count))
<1>1. Listing(Nulls(count))
  <2> DEFINE f == Nulls(count)
  <2>1. f = [n \in 1 .. count |-> f[n]]
    BY DEF Nulls
  <2> HIDE DEF f
  <2>2. Listing(f)
    BY <2>1, ListingOf
  <2> QED BY <2>2 DEF f
<1>2. Listing(Positional(entries, count))
  <2> DEFINE f == Positional(entries, count)
  <2>1. f = [n \in 1 .. count |-> f[n]]
    BY DEF Positional
  <2> HIDE DEF f
  <2>2. Listing(f)
    BY <2>1, ListingOf
  <2> QED BY <2>2 DEF f
<1>3. Listing(Padded(entries, count))
  <2> DEFINE f == Padded(entries, count)
             m == Max({count, Len(entries)})
  <2>1. f = [n \in 1 .. m |-> f[n]]
    BY DEF Padded
  <2>2. m \in Nat
    <3>1. count \in Int /\ Len(entries) \in Int
      OBVIOUS
    <3>2. m = IF count <= Len(entries) THEN Len(entries) ELSE count
      BY <3>1, OfTwo, Zenon
    <3> HIDE DEF m
    <3> QED BY <3>2
  <2> HIDE DEF f, m
  <2>3. Listing(f)
    BY <2>1, <2>2, ListingOf
  <2> QED BY <2>3 DEF f
<1> QED BY <1>1, <1>2, <1>3

\* Normalising what was bound binds the same.
AsList(values) ==
    [kind |-> "list", entries |-> [n \in DOMAIN values |-> [key |-> <<>>, value |-> values[n]]]]
Settled(made) ==
    /\ made = Bound(made.sql, made.values)
    /\ made.sql \in Seq(Characters) /\ Listing(made.values)
    /\ NormalizeParameters(made.sql, AsList(made.values), ScanSql(made.sql, "positional")) = made

\* A list with a value for each question mark is bound as it is.
LEMMA BoundAgain ==
    ASSUME NEW sql, NEW values, Listing(values), NEW scan, scan.count \in Nat,
           scan.count # 0 => Len(values) = scan.count
    PROVE  NormalizeParameters(sql, AsList(values), scan) = Bound(sql, values)
<1> DEFINE p == AsList(values)
           e == [n \in DOMAIN values |-> [key |-> <<>>, value |-> values[n]]]
           v == Len(values)
           count == scan.count
<1>1. p.kind = "list" /\ p.entries = e
  BY DEF AsList
<1>2. v \in Nat /\ DOMAIN values = 1 .. v /\ values = [n \in 1 .. v |-> values[n]]
  BY DEF Listing
<1>3. Len(e) = v /\ DOMAIN e = 1 .. v /\ \A n \in 1 .. v : e[n].value = values[n]
  <2>1. e = [n \in 1 .. v |-> e[n]]
    BY <1>2
  <2>2. \A n \in 1 .. v : e[n].value = values[n]
    BY <1>2
  <2> HIDE DEF e, v
  <2> QED BY <1>2, <2>1, <2>2, IsSequenceOf
<1> HIDE DEF e
<1>4. NormalizeParameters(sql, p, scan) =
         IF count > 0 /\ Len(e) > count THEN Rejected ELSE Bound(sql, Padded(e, count))
  <2> HIDE DEF p
  <2> QED BY <1>1 DEF NormalizeParameters
<1>5. ~(count > 0 /\ Len(e) > count)
  BY <1>2, <1>3
<1>6. Max({count, Len(e)}) = v
  <2>1. count \in Int /\ Len(e) \in Int
    BY <1>2, <1>3
  <2>2. Max({count, Len(e)}) = IF count <= Len(e) THEN Len(e) ELSE count
    BY <2>1, OfTwo, Zenon
  <2> QED BY <1>2, <1>3, <2>2
<1>7. Padded(e, count) = values
  <2>1. Padded(e, count) = [n \in 1 .. v |-> IF n \in DOMAIN e THEN e[n].value ELSE Null]
    BY <1>6 DEF Padded
  <2>2. Padded(e, count) = [n \in 1 .. v |-> values[n]]
    BY <1>3, <2>1
  <2> QED BY <1>2, <2>2
<1> QED BY <1>4, <1>5, <1>7

\* Taking the sigils off a record's keys drops no entry.
LEMMA StrippedDomain ==
    ASSUME NEW entries
    PROVE  DOMAIN Stripped(entries) = DOMAIN entries
BY DEF Stripped

\* What Exact() asks for is what the lemmas about the scanners need.
LEMMA ReadExactly ==
    ASSUME NEW reader, NEW q \in Seq(Characters), NEW p, Exact(reader, q, p)
    PROVE  /\ Text(q, MySqlReads(q)) /\ (p.kind = "record" => Single(q))
           /\ \A k \in DOMAIN q : Agreed(reader, q, MySqlReads(q)[k], k)
           /\ reader = "server" => \A k \in QuestionMarks(q) : Char(q, k + 1) # "?"
<1>1. Len(q) \in Nat
  OBVIOUS
<1>2. MySqlFrom(q, MySqlReads(q))
  BY <1>1, MySqlReadsDef
<1>3. Paired(q)
  <2> SUFFICES ASSUME NEW i \in Markers(q), Char(q, i + 1) = "?" PROVE Char(q, i + 2) # "?"
    BY DEF Paired
  <2>1. q[i] = "?" /\ i + 1 + 1 = i + 2
    BY DEF Markers
  <2>2. ~Touching(q)
    BY DEF Exact
  <2>3. Char(q, i + 1 + 1) \notin Sigils \cup {"?"}
    BY <2>1, <2>2 DEF Touching
  <2> QED BY <2>1, <2>3
<1>4. \A k \in DOMAIN q : Agreed(reader, q, MySqlReads(q)[k], k)
  BY DEF Exact, Agreed, InCode
<1> QED BY <1>2, <1>3, <1>4 DEF Exact, Text, Single

\* Whoever puts the values in finds the places the server does.
LEMMA Received ==
    ASSUME NEW reader \in {"server", "mysql2"}, NEW made, Text(made.sql, MySqlReads(made.sql)),
           \A k \in DOMAIN made.sql : Agreed(reader, made.sql, MySqlReads(made.sql)[k], k),
           reader = "server" => \A k \in QuestionMarks(made.sql) : Char(made.sql, k + 1) # "?",
           Len(made.values) \in Nat, Cardinality(QuestionMarks(made.sql)) <= Len(made.values)
    PROVE  Receives(reader, made) = QuestionMarks(made.sql)
<1> DEFINE q == made.sql
<1>1. CASE reader = "server"
  BY <1>1, ServerSeesAll DEF Receives
<1>2. CASE reader = "mysql2"
  <2>1. Len(q) \in Nat /\ DOMAIN q = 1 .. Len(q)
    BY TextSteps
  <2>2. Fillable(q) = QuestionMarks(q)
    BY <1>2, FillsAll
  <2>3. Filled(q, made.values) = QuestionMarks(q)
    BY <2>1, <2>2, FilledAll
  <2> QED BY <1>2, <2>3 DEF Receives
<1> QED BY <1>1, <1>2

\* All of a text's places, and the n-th of them.
LEMMA AllPlaces ==
    ASSUME NEW N \in Nat, NEW S \in SUBSET (1 .. N)
    PROVE  /\ Left(S, 1) = S /\ IsFiniteSet(S) /\ Cardinality(S) \in Nat
           /\ \A i \in S : Within(S, 1, i) = {j \in S : j <= i}
           /\ \A i \in S : Cardinality({j \in S : j <= i}) \in 1 .. Cardinality(S)
<1>1. \A j \in S : j >= 1
  OBVIOUS
<1>2. Left(S, 1) = S
  BY <1>1 DEF Left
<1>3. \A i \in S : Within(S, 1, i) = {j \in S : j <= i}
  BY <1>1 DEF Within
<1>4. IsFiniteSet(S) /\ Cardinality(S) \in Nat
  <2>1. IsFiniteSet(1 .. N)
    BY FS_Interval
  <2>2. IsFiniteSet(S)
    BY <2>1, FS_Subset
  <2> QED BY <2>2, FS_CardinalityType
<1>5. ASSUME NEW i \in S PROVE Cardinality({j \in S : j <= i}) \in 1 .. Cardinality(S)
  <2>1. i \in Left(S, 1) /\ 1 \in Nat
    BY <1>2
  <2>2. Cardinality(Within(S, 1, i)) \in 1 .. Cardinality(Left(S, 1))
    BY <2>1, WithinBounds
  <2> QED BY <1>2, <1>3, <2>2
<1> QED BY <1>2, <1>3, <1>4, <1>5

\* The value for the n-th question mark of a text that is kept.
Intended(p, n) ==
    CASE p.kind = "record" -> ValueOf(Stripped(p.entries), n - 1 + Base(Stripped(p.entries)))
      [] p.kind \in {"list", "scalar"} -> IF n <= Len(p.entries) THEN p.entries[n].value ELSE Null
      [] OTHER -> Null
AsWhole(p, count) ==
    p.kind = "record" /\ count = 1 /\ \A i \in DOMAIN p.entries : ~Numeric(Stripped(p.entries)[i].key)
KeepsText(q, p, count, made) ==
    /\ made = Bound(q, made.values) /\ Listing(made.values)
    /\ count # 0 => Len(made.values) = count
    /\ ~AsWhole(p, count) => \A n \in 1 .. count : made.values[n] = Intended(p, n)

\* normalizeParameters(), where no name is replaced.
LEMMA KeptValues ==
    ASSUME NEW q, NEW p, IsParameters(p), NEW scan, scan.count \in Nat, p.kind = "record" => scan.names = <<>>,
           NormalizeParameters(q, p, scan).ok
    PROVE  KeepsText(q, p, scan.count, NormalizeParameters(q, p, scan))
<1> DEFINE made == NormalizeParameters(q, p, scan)
           count == scan.count
           record == Stripped(p.entries)
<1>0. /\ Len(p.entries) \in Nat /\ DOMAIN p.entries = 1 .. Len(p.entries)
      /\ p.kind \in {"none", "list", "scalar", "record"} /\ count \in Nat /\ made.ok
      /\ DOMAIN record = DOMAIN p.entries
  BY StrippedDomain DEF IsParameters
<1>1. ASSUME NEW values, made = Bound(q, values), Listing(values), count # 0 => Len(values) = count,
             ~AsWhole(p, count) => \A n \in 1 .. count : values[n] = Intended(p, n)
      PROVE  KeepsText(q, p, count, made)
  <2>1. made.values = values
    BY <1>1 DEF Bound
  <2> HIDE DEF made
  <2> QED BY <1>1, <2>1 DEF KeepsText
<1>2. ASSUME p.kind = "none" PROVE KeepsText(q, p, count, made)
  <2> DEFINE values == Nulls(count)
  <2>1. made = Bound(q, values)
    BY <1>2 DEF NormalizeParameters
  <2>2. Listing(values) /\ Len(values) = count
    BY <1>0, ValuesListed, ListsOfValues
  <2>3. \A n \in 1 .. count : values[n] = Intended(p, n)
    BY <1>2 DEF Nulls, Intended
  <2> HIDE DEF values, made, count
  <2> QED BY <1>1, <2>1, <2>2, <2>3
<1>3. ASSUME p.kind \in {"list", "scalar"} PROVE KeepsText(q, p, count, made)
  <2> DEFINE values == Padded(p.entries, count)
  <2>1. made = IF count > 0 /\ Len(p.entries) > count THEN Rejected ELSE Bound(q, values)
    BY <1>3 DEF NormalizeParameters
  <2>2. made # Rejected
    BY <1>0 DEF Rejected
  <2>3. made = Bound(q, values) /\ (count # 0 => Len(p.entries) <= count)
    <3> HIDE DEF made, values
    <3> QED BY <1>0, <2>1, <2>2
  <2>4. Listing(values) /\ (count # 0 => Len(values) = count)
    BY <1>0, <2>3, ValuesListed, ListsOfValues
  <2>5. \A n \in 1 .. count : values[n] = Intended(p, n)
    <3> TAKE n \in 1 .. count
    <3>1. Max({count, Len(p.entries)}) = count
      <4>1. count \in Int /\ Len(p.entries) \in Int
        BY <1>0
      <4>2. Max({count, Len(p.entries)}) = IF count <= Len(p.entries) THEN Len(p.entries) ELSE count
        BY <4>1, OfTwo, Zenon
      <4>3. Len(p.entries) <= count
        BY <1>0, <2>3
      <4> QED BY <1>0, <4>2, <4>3
    <3>2. values[n] = IF n \in DOMAIN p.entries THEN p.entries[n].value ELSE Null
      BY <3>1 DEF Padded
    <3>3. n \in DOMAIN p.entries <=> n <= Len(p.entries)
      BY <1>0
    <3> QED BY <1>3, <3>2, <3>3 DEF Intended
  <2> HIDE DEF values, made, count
  <2> QED BY <1>1, <2>3, <2>4, <2>5
<1>4. ASSUME p.kind = "record" PROVE KeepsText(q, p, count, made)
  <2>1. made = IF AsWhole(p, count) THEN Bound(q, <<p.kind>>) ELSE Bound(q, Positional(record, count))
    BY <1>0, <1>4 DEF NormalizeParameters, AsWhole
  <2>2. CASE AsWhole(p, count)
    <3> DEFINE values == <<"record">>
    <3>1. values = [n \in 1 .. 1 |-> values[n]] /\ Len(values) = 1
      OBVIOUS
    <3>2. made = Bound(q, values)
      BY <1>4, <2>1, <2>2
    <3> HIDE DEF values, made
    <3>3. Listing(values)
      BY <3>1, ListingOf
    <3>4. count # 0 => Len(values) = count
      BY <2>2, <3>1 DEF AsWhole
    <3> HIDE DEF count
    <3> QED BY <1>1, <2>2, <3>2, <3>3, <3>4
  <2>3. CASE ~AsWhole(p, count)
    <3> DEFINE values == Positional(record, count)
    <3>1. made = Bound(q, values)
      BY <2>1, <2>3
    <3>2. Len(record) \in Nat
      <4>1. record = [n \in 1 .. Len(p.entries) |-> record[n]]
        BY <1>0 DEF Stripped
      <4> HIDE DEF record
      <4> QED BY <1>0, <4>1, IsSequenceOf
    <3>3. Listing(values) /\ Len(values) = count
      BY <1>0, <3>2, ValuesListed, ListsOfValues
    <3>4. \A n \in 1 .. count : values[n] = Intended(p, n)
      BY <1>4 DEF Positional, Intended
    <3> HIDE DEF values, made
    <3> HIDE DEF count
    <3> QED BY <1>1, <3>1, <3>3, <3>4
  <2> QED BY <2>2, <2>3
<1> QED BY <1>0, <1>2, <1>3, <1>4

\* Where no name is replaced, every question mark is bound to its value.
LEMMA KeptBinds ==
    ASSUME NEW reader \in {"server", "mysql2"}, NEW q \in Seq(Characters), NEW p, IsParameters(p),
           Exact(reader, q, p),
           p.kind = "record" => Names(q) = {}, NEW scanner, scanner = Scanner("mysql", p),
           NormalizeParameters(q, p, ScanSql(q, scanner)).ok
    PROVE  /\ MySqlBinds(reader, q, p, NormalizeParameters(q, p, ScanSql(q, scanner)))
           /\ Settled(NormalizeParameters(q, p, ScanSql(q, scanner)))
<1> DEFINE scan == ScanSql(q, scanner)
           made == NormalizeParameters(q, p, scan)
           S == QuestionMarks(q)
           count == scan.count
<1>0. Len(q) \in Nat /\ DOMAIN q = 1 .. Len(q)
  OBVIOUS
<1>1. Text(q, MySqlReads(q)) /\ (p.kind = "record" => Single(q))
  BY ReadExactly
<1>2. (scanner = "named" <=> p.kind = "record") /\ (scanner = "named" => Single(q))
  BY <1>1 DEF Scanner
<1>3. scan \in Scans /\ Found(q, scanner, 1, scan)
  BY <1>1, <1>2, ScanFinds
<1>4. Placeholders(q, scanner) = S
  BY <1>2 DEF Placeholders
<1>5. S \in SUBSET (1 .. Len(q))
  BY <1>0, PlacesInCode
<1>6. /\ Left(S, 1) = S /\ Cardinality(S) \in Nat /\ IsFiniteSet(S)
      /\ \A i \in S : Cardinality({j \in S : j <= i}) \in 1 .. Cardinality(S)
  BY <1>0, <1>5, AllPlaces
<1>7. count = Cardinality(S) /\ count \in Nat
  BY <1>3, <1>4, <1>6 DEF Found
<1>8. p.kind = "record" => scan.names = <<>>
  <2> SUFFICES ASSUME p.kind = "record" PROVE scan.names = <<>>
    OBVIOUS
  <2>1. Listed(q, 1, scan.names) /\ Names(q) = {}
    BY <1>2, <1>3 DEF Found
  <2>2. Left(Names(q), 1) = {}
    BY <2>1 DEF Left
  <2>3. Len(scan.names) = 0
    BY <2>1, <2>2, FS_EmptySet DEF Listed
  <2>4. scan.names \in Seq(Seq(Characters))
    BY <1>3 DEF Scans
  <2> HIDE DEF scan
  <2> QED BY <2>3, <2>4, EmptySeq
<1> HIDE DEF scan
<1>9. KeepsText(q, p, count, made)
  BY <1>7, <1>8, KeptValues DEF scan
<1> HIDE DEF made, count
<1>10. made.sql = q /\ made = Bound(q, made.values) /\ Listing(made.values)
       /\ (count # 0 => Len(made.values) = count)
  BY <1>9 DEF KeepsText, Bound
<1>11. MySqlBinds(reader, q, p, made)
  <2> DEFINE places == QuestionMarks(q) \cup (IF p.kind = "record" THEN Names(q) ELSE {})
             nth(i) == Cardinality({j \in places : j <= i})
             whole == p.kind = "record" /\ Cardinality(places) = 1 /\ Names(q) = {}
                        /\ ~\E i \in DOMAIN p.entries : Numeric(Stripped(p.entries)[i].key)
  <2>1. places = S
    BY <1>0
  <2>2. Cardinality(QuestionMarks(made.sql)) = Cardinality(places)
    BY <1>10, <2>1
  <2>3. Names(made.sql) = IF p.kind = "record" THEN {} ELSE Names(q)
    BY <1>10
  <2>4. places # {} => Len(made.values) = Cardinality(places)
    <3>1. S # {} => count # 0
      BY <1>6, <1>7, FS_EmptySet
    <3> HIDE DEF S
    <3> QED BY <1>7, <1>10, <2>1, <3>1
  <2>5. whole <=> AsWhole(p, count)
    BY <1>7, <2>1 DEF AsWhole
  <2>6. ASSUME ~whole, NEW i \in places PROVE made.values[nth(i)] = Meant(p, q, nth(i), i)
    <3> DEFINE n == nth(i)
    <3>1. n \in 1 .. count
      BY <1>6, <1>7, <2>1
    <3>2. q[i] = "?"
      BY <1>0, <2>1, PlacesInCode
    <3>3. made.values[n] = Intended(p, n)
      BY <1>9, <2>5, <2>6, <3>1 DEF KeepsText
    <3> HIDE DEF n
    <3>4. Intended(p, n) = Meant(p, q, n, i)
      <4>1. "?" \notin Sigils
        BY DEF Sigils
      <4>2. p.kind \in {"none", "list", "scalar", "record"}
        BY DEF IsParameters
      <4>3. CASE p.kind = "record"
        BY <3>2, <4>1, <4>3 DEF Intended, Meant
      <4>4. CASE p.kind \in {"list", "scalar"}
        BY <3>2, <4>1, <4>4 DEF Intended, Meant
      <4>5. CASE p.kind = "none"
        BY <3>2, <4>1, <4>5 DEF Intended, Meant
      <4> QED BY <4>2, <4>3, <4>4, <4>5
    <3> QED BY <3>3, <3>4 DEF n
  <2>7. Receives(reader, made) = QuestionMarks(made.sql)
    <3>1. Len(made.values) \in Nat /\ Cardinality(S) <= Len(made.values)
      BY <1>6, <1>7, <1>10 DEF Listing
    <3>2. /\ \A k \in DOMAIN q : Agreed(reader, q, MySqlReads(q)[k], k)
          /\ reader = "server" => \A k \in QuestionMarks(q) : Char(q, k + 1) # "?"
      BY ReadExactly
    <3> QED BY <1>1, <1>10, <3>1, <3>2, Received
  <2> HIDE DEF S
  <2> QED BY <2>2, <2>3, <2>4, <2>6, <2>7 DEF MySqlBinds
<1>12. Settled(made)
  <2> DEFINE again == ScanSql(q, "positional")
  <2>1. again \in Scans /\ Found(q, "positional", 1, again)
    BY <1>1, ScanFinds
  <2>2. again.count = Cardinality(S)
    <3>1. Placeholders(q, "positional") = S
      BY DEF Placeholders
    <3> HIDE DEF again, S
    <3> QED BY <1>6, <2>1, <3>1 DEF Found
  <2> HIDE DEF again
  <2>3. again.count \in Nat /\ (again.count # 0 => Len(made.values) = again.count)
    BY <1>7, <1>10, <2>2
  <2>4. NormalizeParameters(q, AsList(made.values), again) = Bound(q, made.values)
    BY <1>10, <2>3, BoundAgain
  <2> QED BY <1>10, <2>4 DEF Settled, again
<1> QED BY <1>11, <1>12 DEF made, scan

\* Names that touch nothing can be replaced by question marks.
LEMMA CanReplace ==
    ASSUME NEW reader, NEW q \in Seq(Characters), NEW p, p.kind = "record", Exact(reader, q, p), Names(q) # {}
    PROVE  Replaceable(reader, q)
<1>1. Text(q, MySqlReads(q)) /\ Single(q) /\ \A k \in DOMAIN q : Agreed(reader, q, MySqlReads(q)[k], k)
  BY ReadExactly
<1>2. QuestionMarks(q) = {} /\ ~Touching(q)
  BY DEF Exact
<1>3. ASSUME NEW i \in Names(q)
      PROVE  Char(q, RunOf(q, i + 1, Part) + 1) \notin Sigils \cup {"?"}
  <2>1. q[i] # "?"
    BY DEF Names, IsName, Sigils
  <2> QED BY <1>2, <2>1 DEF Touching
<1> QED BY <1>1, <1>2, <1>3 DEF Replaceable

\* Where names are replaced, every name is bound to its value.
LEMMA ReplacedBinds ==
    ASSUME NEW reader \in {"server", "mysql2"}, NEW q \in Seq(Characters), NEW p, IsParameters(p),
           p.kind = "record", Exact(reader, q, p), Names(q) # {}
    PROVE  /\ MySqlBinds(reader, q, p, NormalizeParameters(q, p, ScanSql(q, "named")))
           /\ Settled(NormalizeParameters(q, p, ScanSql(q, "named")))
<1> DEFINE scan == ScanSql(q, "named")
           made == NormalizeParameters(q, p, scan)
           record == Stripped(p.entries)
           S == Names(q)
           names == scan.names
           sql == scan.sql
           N == Cardinality(S)
           values == [n \in DOMAIN names |-> ValueAt(record, names[n])]
<1>0. Len(q) \in Nat /\ DOMAIN q = 1 .. Len(q)
  OBVIOUS
<1>1. Replaceable(reader, q)
  BY CanReplace
<1>2. scan \in Scans /\ Listed(q, 1, names)
  BY <1>1, ScanFinds DEF Replaceable, Found
<1>3. S \in SUBSET (1 .. Len(q))
  BY <1>0, PlacesInCode
<1>4. /\ Left(S, 1) = S /\ IsFiniteSet(S) /\ N \in Nat
      /\ \A i \in S : Within(S, 1, i) = {j \in S : j <= i}
      /\ \A i \in S : Cardinality({j \in S : j <= i}) \in 1 .. N
  BY <1>0, <1>3, AllPlaces
<1>5. /\ Len(names) = N
      /\ \A k \in S : names[Cardinality({j \in S : j <= k})] = Word(q, k)
  BY <1>2, <1>4 DEF Listed
<1>6. DOMAIN names = 1 .. N
  <2>1. names \in Seq(Seq(Characters))
    BY <1>2 DEF Scans
  <2> HIDE DEF names
  <2> QED BY <1>5, <2>1
<1>7. N # 0
  BY <1>4, FS_EmptySet
<1>8. names # <<>>
  BY <1>5, <1>7
<1>9. made = Bound(sql, values)
  BY <1>8 DEF NormalizeParameters
<1>10. Listing(values) /\ Len(values) = N
  <2>1. values = [n \in 1 .. N |-> values[n]]
    BY <1>6
  <2> HIDE DEF values
  <2> QED BY <1>4, <2>1, ListingOf
<1>11. PICK r : Clean(reader, sql, r, N)
  BY <1>1, <1>5, ScanReplaces
<1>12. /\ sql \in Seq(Characters) /\ Text(sql, MySqlReads(sql)) /\ Names(sql) = {}
       /\ Cardinality(QuestionMarks(sql)) = N
       /\ \A k \in QuestionMarks(sql) : Char(sql, k + 1) # "?"
       /\ \A k \in DOMAIN sql : Agreed(reader, sql, MySqlReads(sql)[k], k)
  <2>1. sql \in Seq(Characters)
    BY <1>11 DEF Clean
  <2> HIDE DEF sql
  <2> QED BY <1>11, <2>1, CleanText
<1> HIDE DEF scan
<1>13. \A i \in S : values[Cardinality({j \in S : j <= i})] = ValueAt(record, Word(q, i))
  BY <1>4, <1>5, <1>6
<1> HIDE DEF values, made
<1>14. made.sql = sql /\ made.values = values
  BY <1>9 DEF Bound
<1>15. MySqlBinds(reader, q, p, made)
  <2> DEFINE places == QuestionMarks(q) \cup (IF p.kind = "record" THEN Names(q) ELSE {})
             nth(i) == Cardinality({j \in places : j <= i})
  <2>1. places = S
    BY <1>1 DEF Replaceable
  <2>2. Cardinality(QuestionMarks(made.sql)) = Cardinality(places) /\ Names(made.sql) = {}
    BY <1>12, <1>14, <2>1
  <2>3. Len(made.values) = Cardinality(places)
    BY <1>10, <1>14, <2>1
  <2>4. ASSUME NEW i \in places PROVE made.values[nth(i)] = Meant(p, q, nth(i), i)
    <3>1. q[i] \in Sigils
      BY <2>1 DEF Names, IsName
    <3>2. Meant(p, q, nth(i), i) = ValueAt(record, Word(q, i))
      <4> DEFINE n == nth(i)
      <4> HIDE DEF n
      <4>1. Meant(p, q, n, i) = ValueAt(record, Word(q, i))
        <5>1. q[i] # "?"
          BY <3>1 DEF Sigils
        <5> QED BY <3>1, <5>1 DEF Meant, Word
      <4> QED BY <4>1 DEF n
    <3> QED BY <1>13, <1>14, <2>1, <3>2
  <2>5. Receives(reader, made) = QuestionMarks(made.sql)
    <3>1. Len(made.values) \in Nat /\ Cardinality(QuestionMarks(made.sql)) <= Len(made.values)
      BY <1>4, <1>10, <1>12, <1>14
    <3> HIDE DEF sql
    <3> QED BY <1>12, <1>14, <3>1, Received
  <2> QED BY <2>2, <2>3, <2>4, <2>5 DEF MySqlBinds
<1>16. Settled(made)
  <2> DEFINE again == ScanSql(sql, "positional")
  <2>1. again \in Scans /\ Found(sql, "positional", 1, again)
    BY <1>12, ScanFinds
  <2>2. again.count = N
    <3> DEFINE M == QuestionMarks(sql)
    <3>1. Placeholders(sql, "positional") = M
      BY DEF Placeholders
    <3>2. Len(sql) \in Nat /\ DOMAIN sql = 1 .. Len(sql)
      BY <1>12
    <3>3. Left(M, 1) = M
      <4>1. M \in SUBSET (1 .. Len(sql))
        BY <3>2, PlacesInCode
      <4> HIDE DEF M, sql
      <4> QED BY <3>2, <4>1, AllPlaces
    <3> HIDE DEF again
    <3> QED BY <1>12, <2>1, <3>1, <3>3 DEF Found
  <2> HIDE DEF again
  <2>3. NormalizeParameters(sql, AsList(values), again) = Bound(sql, values)
    BY <1>4, <1>10, <2>2, BoundAgain
  <2> QED BY <1>9, <1>10, <1>12, <1>14, <2>3 DEF Settled, again
<1> QED BY <1>15, <1>16 DEF made, scan

\* Whatever normalizeParameters() does not reject has a value for each question
\* mark that the server finds in it, and no name left of a record, each the
\* value the caller meant; whoever puts the values in, mysql2's format() or the
\* server of a prepared statement, finds the same places; and it comes through
\* another normalising unchanged.  That is for every query for which normalising
\* is meant to be exact, and all parameters.
THEOREM MySqlIsBound ==
    ASSUME NEW reader \in {"server", "mysql2"}, NEW q \in Seq(Characters), NEW p, IsParameters(p),
           Exact(reader, q, p),
           NormalizeParameters(q, p, ScanSql(q, Scanner("mysql", p))).ok
    PROVE  /\ MySqlBinds(reader, q, p, NormalizeParameters(q, p, ScanSql(q, Scanner("mysql", p))))
           /\ Settled(NormalizeParameters(q, p, ScanSql(q, Scanner("mysql", p))))
<1>1. CASE p.kind = "record" /\ Names(q) # {}
  <2>1. Scanner("mysql", p) = "named"
    BY <1>1 DEF Scanner
  <2> QED BY <1>1, <2>1, ReplacedBinds
<1>2. CASE p.kind = "record" => Names(q) = {}
  BY <1>2, KeptBinds
<1> QED BY <1>1, <1>2

-----------------------------------------------------------------------------
(* What the caches remember, and what is sent.                             *)

\* What is remembered of a query is what scanning it would find.
Truthful(kept) == \A k \in Scanners : \A i \in DOMAIN kept[k] : kept[k][i].scan = Scan(k, kept[k][i].query)

\* So it makes no difference whether a query was scanned before.
LEMMA Recalled ==
    ASSUME NEW kept, Truthful(kept), NEW k \in Scanners, Bounded(kept[k]), NEW q
    PROVE  ScanOf(kept[k], k, q) = Scan(k, q)
<1> DEFINE cache == kept[k]
           found == Remembered(cache, q)
<1>1. Len(cache) \in Nat /\ DOMAIN cache = 1 .. Len(cache)
  BY Sequences DEF Bounded
<1>2. CASE found = {}
  BY <1>2 DEF ScanOf
<1>3. CASE found # {}
  <2>1. found \in SUBSET (0 .. Len(cache))
    BY <1>1 DEF Remembered
  <2>2. Min(found) \in found
    <3> HIDE DEF found, cache
    <3> QED BY <1>1, <1>3, <2>1, MinIs
  <2>3. Min(found) \in DOMAIN cache /\ cache[Min(found)].query = q
    BY <2>2 DEF Remembered
  <2>4. ScanOf(cache, k, q) = cache[Min(found)].scan
    BY <1>3 DEF ScanOf
  <2> QED BY <2>3, <2>4 DEF Truthful
<1> QED BY <1>2, <1>3

\* cacheScan() adds the scan it is given, and drops one.
LEMMA CacheScanTruthful ==
    ASSUME NEW kept, DOMAIN kept = Scanners, Truthful(kept), NEW k \in Scanners, Bounded(kept[k]), NEW q
    PROVE  Truthful(Remember(kept, k, q, Scan(k, q)))
<1> DEFINE cache == kept[k]
           e == [query |-> q, scan |-> Scan(k, q)]
           rest == IF Len(cache) >= CacheLimit THEN Tail(cache) ELSE cache
           made == Append(rest, e)
           Says(x) == x.scan = Scan(k, x.query)
<1>1. IsSequence(cache) /\ Len(cache) \in Nat /\ DOMAIN cache = 1 .. Len(cache) /\ CacheLimit \in Nat \ {0}
  BY Sequences, LimitAssumption DEF Bounded
<1>2. \A i \in 1 .. Len(cache) : Says(cache[i])
  BY <1>1 DEF Truthful
<1>3. Says(e)
  OBVIOUS
<1> HIDE DEF Says, e
<1>4. IsSequence(rest) /\ Len(rest) \in Nat /\ DOMAIN rest = 1 .. Len(rest) /\ \A i \in 1 .. Len(rest) : Says(rest[i])
  <2>1. CASE Len(cache) >= CacheLimit
    <3>1. IsSequence(Tail(cache)) /\ Len(Tail(cache)) = Len(cache) - 1
          /\ \A i \in 1 .. Len(cache) - 1 : Tail(cache)[i] = cache[i + 1]
      BY <1>1, <2>1, Sequences, Elements
    <3>2. \A i \in 1 .. Len(cache) - 1 : Says(Tail(cache)[i])
      <4> TAKE i \in 1 .. Len(cache) - 1
      <4>1. i + 1 \in 1 .. Len(cache)
        BY <1>1
      <4> QED BY <1>2, <3>1, <4>1
    <3>3. Len(Tail(cache)) \in Nat /\ DOMAIN Tail(cache) = 1 .. Len(Tail(cache))
      BY <3>1, Sequences
    <3> QED BY <2>1, <3>1, <3>2, <3>3
  <2>2. CASE ~(Len(cache) >= CacheLimit)
    BY <1>1, <1>2, <2>2
  <2> QED BY <2>1, <2>2
<1> HIDE DEF rest
<1>5. DOMAIN made = 1 .. Len(rest) + 1 /\ \A i \in 1 .. Len(rest) + 1 : Says(made[i])
  <2>1. IsSequence(made) /\ Len(made) = Len(rest) + 1 /\ DOMAIN made = 1 .. Len(made)
    BY <1>4, Sequences
  <2>2. /\ made[Len(rest) + 1] = e
        /\ \A i \in 1 .. Len(rest) : made[i] = rest[i]
    BY <1>4, Elements
  <2>3. \A i \in 1 .. Len(rest) + 1 : i = Len(rest) + 1 \/ i \in 1 .. Len(rest)
    BY <1>4
  <2> HIDE DEF made
  <2> QED BY <1>3, <1>4, <2>1, <2>2, <2>3
<1>6. CacheScan(cache, q, Scan(k, q)) = made
  BY DEF CacheScan, rest, e
<1>7. Remember(kept, k, q, Scan(k, q)) = kept \/ Remember(kept, k, q, Scan(k, q)) = [kept EXCEPT ![k] = made]
  BY <1>6 DEF Remember
<1> HIDE DEF made
<1>8. Truthful([kept EXCEPT ![k] = made])
  BY <1>5 DEF Truthful, Says
<1> QED BY <1>7, <1>8

\* What normalising makes of a statement, and what of it the driver is given.
Binding(lane, st) ==
    IF lane = "postgres"
    THEN NormalizePostgresParameters(st.query, st.parameters, CountPostgres(st.query))
    ELSE NormalizeParameters(st.query, st.parameters, ScanSql(st.query, Scanner("mysql", st.parameters)))
Given(bound) == [sql |-> bound.sql, values |-> bound.values]
\* So it is for each statement, whatever was remembered, up to the first that is
\* rejected.
Bindings(lane, statements, given) ==
    \A i \in DOMAIN given : Binding(lane, statements[i]).ok /\ given[i] = Given(Binding(lane, statements[i]))
Right(lane, statements, n, so) ==
    /\ Well(so) /\ Truthful(so.caches)
    /\ Len(so.sent) <= n /\ (so.ok => Len(so.sent) = n)
    /\ Bindings(lane, statements, so.sent)

\* One statement more.
LEMMA SentRight ==
    ASSUME NEW lane, NEW statements, NEW sofar, IsSequence(sofar), NEW n \in Nat \ {0}, Len(sofar) = n - 1,
           Bindings(lane, statements, sofar), NEW bound, bound = Binding(lane, statements[n])
    PROVE  /\ Bindings(lane, statements, Sent(sofar, bound))
           /\ Len(Sent(sofar, bound)) <= n /\ (bound.ok => Len(Sent(sofar, bound)) = n)
<1> DEFINE e == Given(bound)
           more == Append(sofar, e)
<1>1. Len(sofar) \in Nat /\ DOMAIN sofar = 1 .. n - 1
  BY Sequences
<1>2. CASE bound.ok
  <2>1. Sent(sofar, bound) = more
    BY <1>2 DEF Sent, Given
  <2> HIDE DEF e
  <2>2. IsSequence(more) /\ Len(more) = n /\ DOMAIN more = 1 .. Len(more)
    BY Sequences
  <2>3. more[n] = e /\ \A i \in 1 .. n - 1 : more[i] = sofar[i]
    BY Elements
  <2>4. \A i \in 1 .. n : i = n \/ i \in 1 .. n - 1
    OBVIOUS
  <2> HIDE DEF more
  <2>5. Bindings(lane, statements, more)
    BY <1>1, <1>2, <2>2, <2>3, <2>4 DEF Bindings, e
  <2> QED BY <2>1, <2>2, <2>5
<1>3. CASE ~bound.ok
  BY <1>1, <1>3 DEF Sent
<1> QED BY <1>2, <1>3

\* normalize() of one statement, which may be scanned already.
LEMMA NormalizeRight ==
    ASSUME NEW lane \in {"mysql", "postgres"}, NEW statements, NEW n \in Nat \ {0}, NEW so,
           Right(lane, statements, n - 1, so)
    PROVE  Right(lane, statements, n, Step(lane, statements, so, n))
<1> DEFINE q == statements[n].query
           p == statements[n].parameters
           s == Scanner(lane, p)
           scan == Scan(s, q)
           bound == Binding(lane, statements[n])
           made == Step(lane, statements, so, n)
<1>0. Well(so) /\ Truthful(so.caches) /\ IsSequence(so.sent) /\ Len(so.sent) \in Nat
      /\ DOMAIN so.caches = Scanners
  BY Sequences DEF Right, Well
<1>1. CASE ~so.ok
  <2>1. made = so
    BY <1>1 DEF Step, Normalize
  <2>2. Len(so.sent) <= n
    BY <1>0 DEF Right
  <2> QED BY <1>1, <2>1, <2>2 DEF Right
<1>2. CASE so.ok
  <2>1. s \in Scanners /\ (lane = "postgres" => s = "numbered")
        /\ (lane # "postgres" => s # "numbered" /\ s = Scanner("mysql", p))
    BY DEF Scanner, Scanners
  <2>2. ScanOf(so.caches[s], s, q) = scan
    BY <1>0, <2>1, Recalled DEF Well
  <2>3. made = NormalizeWith(so, s, lane, q, p, scan)
    BY <1>2, <2>2 DEF Step, Normalize
  <2>4. \E keeps : made = Normalized(so, s, q, scan, keeps, bound)
    <3>1. CASE lane = "postgres"
      <4>1. scan = CountPostgres(q)
        BY <2>1, <3>1 DEF Scan
      <4>2. bound = NormalizePostgresParameters(q, p, scan)
        BY <3>1, <4>1 DEF Binding
      <4> HIDE DEF scan, bound
      <4> QED BY <2>3, <3>1, <4>2 DEF NormalizeWith
    <3>2. CASE lane # "postgres"
      <4>1. scan = ScanSql(q, s)
        BY <2>1, <3>2 DEF Scan
      <4>2. bound = NormalizeParameters(q, p, scan)
        BY <2>1, <3>2, <4>1 DEF Binding
      <4> HIDE DEF scan, bound
      <4> QED BY <2>3, <3>2, <4>2 DEF NormalizeWith
    <3> QED BY <3>1, <3>2
  <2>5. PICK keeps : made = Normalized(so, s, q, scan, keeps, bound)
    BY <2>4
  <2> HIDE DEF made
  <2>6. Well(made)
    BY <1>0, <2>1, <2>5, NormalizedWell
  <2>7. /\ made.caches = IF keeps THEN Remember(so.caches, s, q, scan) ELSE so.caches
        /\ made.ok = bound.ok
        /\ made.sent = Sent(so.sent, bound)
    BY <2>5 DEF Normalized
  <2>8. Truthful(made.caches)
    <3>1. Truthful(Remember(so.caches, s, q, scan))
      BY <1>0, <2>1, CacheScanTruthful DEF Well
    <3> QED BY <1>0, <2>7, <3>1
  <2>9. Len(so.sent) = n - 1 /\ Bindings(lane, statements, so.sent)
    BY <1>2 DEF Right
  <2>10. /\ Bindings(lane, statements, made.sent)
         /\ Len(made.sent) <= n /\ (bound.ok => Len(made.sent) = n)
    <3> HIDE DEF bound
    <3> QED BY <1>0, <2>7, <2>9, SentRight DEF bound
  <2>11. Right(lane, statements, n, made)
    <3> HIDE DEF bound
    <3> QED BY <2>6, <2>7, <2>8, <2>10 DEF Right
  <2> QED BY <2>11 DEF made
<1> QED BY <1>1, <1>2

\* And of all of them.
LEMMA NormalizeAllRight ==
    ASSUME NEW lane \in {"mysql", "postgres"}, NEW statements,
           Len(statements) \in Nat, DOMAIN statements = 1 .. Len(statements),
           Well([caches |-> caches, sent |-> <<>>, ok |-> TRUE]), Truthful(caches)
    PROVE  Right(lane, statements, Len(statements), NormalizeAll(lane, statements))
<1> DEFINE N == Len(statements)
<1>1. PICK upto : Steps(lane, statements, upto) /\ NormalizeAll(lane, statements) = upto[N]
  BY NormalizeAllSteps
<1> DEFINE Good == {n \in 0 .. N : Right(lane, statements, n, upto[n])}
<1>2. 0 \in Good
  <2>1. upto[0] = [caches |-> caches, sent |-> <<>>, ok |-> TRUE]
    BY <1>1 DEF Steps
  <2>2. Right(lane, statements, 0, upto[0])
    BY <2>1 DEF Right, Bindings
  <2> QED BY <2>2
<1>3. ASSUME NEW n \in 1 .. N, n - 1 \in Good PROVE n \in Good
  <2>1. upto[n] = Step(lane, statements, upto[n - 1], n)
    BY <1>1 DEF Steps
  <2> QED BY <1>3, <2>1, NormalizeRight
<1> HIDE DEF Good
<1>4. 0 .. N \subseteq Good
  BY <1>2, <1>3, Upwards
<1>5. N \in Good
  BY <1>4
<1> QED BY <1>1, <1>5 DEF Good

\* BindsEveryPlaceholder, of one call and what may be sent for it.
TakenBy(method) == IF method = "prepare" THEN "server" ELSE "mysql2"
Binds(lane, method, statements, given) ==
    \A i \in DOMAIN given :
       LET st == statements[i]
           alike == \A other \in {statements[j] : j \in DOMAIN statements} :
                       other.parameters.kind = st.parameters.kind
       IN  IF lane = "postgres"
           THEN ExactPostgres(st.query) => PostgresBinds(st.query, st.parameters, given[i])
           ELSE Exact(TakenBy(method), st.query, st.parameters) /\ (method = "prepare" => alike)
                  => MySqlBinds(TakenBy(method), st.query, st.parameters, given[i])
\* Statements whose parameters are chosen.
Chosen(method, statements) ==
    /\ Len(statements) \in Nat /\ DOMAIN statements = 1 .. Len(statements)
    /\ \A i \in DOMAIN statements :
          statements[i].query \in Seq(Characters) /\ IsParameters(statements[i].parameters)
    /\ method = "prepare" => \A i, j \in DOMAIN statements : statements[i].query = statements[j].query

\* The servers find what they are given bound, and it comes through a second
\* normalising as it is.
LEMMA GivenBinds ==
    ASSUME NEW lane \in {"mysql", "postgres"}, NEW st, st.query \in Seq(Characters), IsParameters(st.parameters),
           Binding(lane, st).ok, NEW g, g = Given(Binding(lane, st)), NEW reader \in {"server", "mysql2"}
    PROVE  /\ lane = "postgres" => (ExactPostgres(st.query) => PostgresBinds(st.query, st.parameters, g))
           /\ lane = "mysql" => (Exact(reader, st.query, st.parameters) =>
                  MySqlBinds(reader, st.query, st.parameters, g) /\ Settled(Binding(lane, st)))
<1> DEFINE bound == Binding(lane, st)
           q == st.query
           p == st.parameters
<1>1. g.sql = bound.sql /\ g.values = bound.values
  BY DEF Given
<1>2. ASSUME lane = "postgres", ExactPostgres(q) PROVE PostgresBinds(q, p, g)
  <2>1. bound = NormalizePostgresParameters(q, p, CountPostgres(q))
    BY <1>2 DEF Binding
  <2>2. PostgresBinds(q, p, bound)
    BY <1>2, <2>1, PostgresIsBound
  <2> HIDE DEF bound, p, q
  <2> QED BY <1>1, <2>2 DEF PostgresBinds
<1>3. ASSUME lane = "mysql", Exact(reader, q, p) PROVE MySqlBinds(reader, q, p, g) /\ Settled(bound)
  <2>1. bound = NormalizeParameters(q, p, ScanSql(q, Scanner("mysql", p)))
    BY <1>3 DEF Binding
  <2>2. MySqlBinds(reader, q, p, bound) /\ Settled(bound)
    BY <1>3, <2>1, MySqlIsBound
  <2> HIDE DEF bound, p, q
  <2>3. Receives(reader, g) = Receives(reader, bound)
    BY <1>1 DEF Receives
  <2> QED BY <1>1, <2>2, <2>3 DEF MySqlBinds
<1> QED BY <1>2, <1>3

\* So it is for all statements of a call.
LEMMA SentBinds ==
    ASSUME NEW lane \in {"mysql", "postgres"}, NEW method, NEW statements, Chosen(method, statements),
           NEW given, IsSequence(given), Len(given) <= Len(statements), Bindings(lane, statements, given)
    PROVE  Binds(lane, method, statements, given)
<1>1. Len(given) \in Nat /\ DOMAIN given = 1 .. Len(given)
  BY Sequences
<1>2. ASSUME NEW i \in DOMAIN given
      PROVE  LET st == statements[i]
             IN  /\ lane = "postgres" => (ExactPostgres(st.query) => PostgresBinds(st.query, st.parameters, given[i]))
                 /\ lane = "mysql" => (Exact(TakenBy(method), st.query, st.parameters) =>
                        MySqlBinds(TakenBy(method), st.query, st.parameters, given[i]))
  <2> DEFINE st == statements[i]
  <2>1. i \in DOMAIN statements
    BY <1>1 DEF Chosen
  <2>2. st.query \in Seq(Characters) /\ IsParameters(st.parameters)
    BY <2>1 DEF Chosen
  <2>3. Binding(lane, st).ok /\ given[i] = Given(Binding(lane, st))
    BY DEF Bindings
  <2> HIDE DEF st
  <2>4. /\ lane = "postgres" => (ExactPostgres(st.query) => PostgresBinds(st.query, st.parameters, given[i]))
        /\ lane = "mysql" => (Exact(TakenBy(method), st.query, st.parameters) =>
               MySqlBinds(TakenBy(method), st.query, st.parameters, given[i]))
    <3>1. TakenBy(method) \in {"server", "mysql2"}
      BY DEF TakenBy
    <3> QED BY <2>2, <2>3, <3>1, GivenBinds
  <2> QED BY <2>4 DEF st
<1> QED BY <1>2 DEF Binds

\* The query that is made does not depend on the values.
LEMMA SameQuery ==
    ASSUME NEW s, NEW t, s.query = t.query, s.parameters.kind = t.parameters.kind,
           Binding("mysql", s).ok, Binding("mysql", t).ok
    PROVE  Binding("mysql", s).sql = Binding("mysql", t).sql
<1> DEFINE scan == ScanSql(s.query, Scanner("mysql", s.parameters))
           kind == s.parameters.kind
           a == NormalizeParameters(s.query, s.parameters, scan)
           b == NormalizeParameters(s.query, t.parameters, scan)
           sql == IF kind = "record" /\ scan.names # <<>> THEN scan.sql ELSE s.query
<1>1. Scanner("mysql", s.parameters) = Scanner("mysql", t.parameters)
  BY DEF Scanner
<1>2. Binding("mysql", s) = a /\ Binding("mysql", t) = b
  BY <1>1 DEF Binding
<1>3. ASSUME NEW p, p.kind = kind, NormalizeParameters(s.query, p, scan).ok
      PROVE  NormalizeParameters(s.query, p, scan).sql = sql
  <2> DEFINE made == NormalizeParameters(s.query, p, scan)
             q == s.query
  <2> HIDE DEF scan
  <2>1. CASE kind = "none"
    BY <1>3, <2>1 DEF NormalizeParameters, Bound
  <2>2. CASE kind = "record" /\ scan.names # <<>>
    BY <1>3, <2>2 DEF NormalizeParameters, Bound
  <2>3. CASE kind = "record" /\ scan.names = <<>>
    <3>1. (\E v : made = Bound(q, v))
      BY <1>3, <2>3 DEF NormalizeParameters
    <3> QED BY <2>3, <3>1 DEF Bound
  <2>4. CASE kind \notin {"none", "record"}
    <3>1. made = Rejected \/ \E v : made = Bound(q, v)
      BY <1>3, <2>4 DEF NormalizeParameters
    <3>2. made # Rejected
      BY <1>3 DEF Rejected
    <3> HIDE DEF made
    <3>3. made.sql = q
      BY <3>1, <3>2 DEF Bound
    <3> QED BY <2>4, <3>3 DEF made
  <2> QED BY <2>1, <2>2, <2>3, <2>4
<1> HIDE DEF sql, scan
<1> QED BY <1>2, <1>3

\* normalizePrepared() sends every set of parameters with the query that the
\* last set made: the same for all of them, where they are alike.
LEMMA PreparedBinds ==
    ASSUME NEW statements, Chosen("prepare", statements), NEW given, IsSequence(given),
           Len(given) = Len(statements), Bindings("mysql", statements, given)
    PROVE  Binds("mysql", "prepare", statements, Prepared(given))
<1> DEFINE N == Len(given)
           made == Prepared(given)
<1>1. N \in Nat /\ DOMAIN given = 1 .. N /\ DOMAIN statements = 1 .. N
  BY Sequences DEF Chosen
<1>2. DOMAIN made = 1 .. N
  BY <1>1 DEF Prepared
<1>3. SUFFICES ASSUME NEW i \in 1 .. N, Exact("server", statements[i].query, statements[i].parameters),
                      \A other \in {statements[j] : j \in DOMAIN statements} :
                         other.parameters.kind = statements[i].parameters.kind
               PROVE  MySqlBinds("server", statements[i].query, statements[i].parameters, made[i])
  BY <1>2 DEF Binds, TakenBy
<1> DEFINE st == statements[i]
           last == statements[N]
           g == given[i]
<1>4. N \in 1 .. N
  BY <1>1
<1>5. st.query \in Seq(Characters) /\ IsParameters(st.parameters) /\ st.query = last.query
      /\ last.parameters.kind = st.parameters.kind
  BY <1>1, <1>3, <1>4 DEF Chosen
<1>6. /\ Binding("mysql", st).ok /\ g = Given(Binding("mysql", st))
      /\ Binding("mysql", last).ok /\ given[N] = Given(Binding("mysql", last))
  BY <1>1, <1>4 DEF Bindings
<1>7. MySqlBinds("server", st.query, st.parameters, g)
  <2> HIDE DEF st, g
  <2> QED BY <1>3, <1>5, <1>6, GivenBinds DEF st, g
<1>8. given[N].sql = g.sql
  <2>1. Binding("mysql", st).sql = Binding("mysql", last).sql
    <3> HIDE DEF st, last
    <3> QED BY <1>5, <1>6, SameQuery
  <2> QED BY <1>6, <2>1 DEF Given
<1>9. made[i] = [g EXCEPT !.sql = given[N].sql]
  BY <1>1 DEF Prepared
<1>10. made[i].sql = g.sql /\ made[i].values = g.values
  <2>1. g = [sql |-> g.sql, values |-> g.values]
    BY <1>6 DEF Given
  <2> HIDE DEF g
  <2>2. [g EXCEPT !.sql = given[N].sql] = g
    BY <1>8, <2>1
  <2> QED BY <1>9, <2>2
<1> HIDE DEF st, g, made
<1>11. MySqlBinds("server", st.query, st.parameters, made[i])
  <2>1. Receives("server", made[i]) = Receives("server", g)
    BY <1>10 DEF Receives
  <2> QED BY <1>7, <1>10, <2>1 DEF MySqlBinds
<1> QED BY <1>11 DEF st, made

\* A second normalising of what the first made binds the same.
LEMMA AgainBinds ==
    ASSUME NEW method, NEW statements, Chosen(method, statements), NEW given, IsSequence(given),
           Len(given) <= Len(statements), Bindings("mysql", statements, given),
           NEW again, IsSequence(again), Len(again) <= Len(given), Bindings("mysql", Again(given), again)
    PROVE  Binds("mysql", method, statements, again)
<1>1. /\ Len(given) \in Nat /\ DOMAIN given = 1 .. Len(given)
      /\ Len(again) \in Nat /\ DOMAIN again = 1 .. Len(again)
  BY Sequences
<1>2. DOMAIN again \subseteq DOMAIN given /\ DOMAIN given \subseteq DOMAIN statements
  BY <1>1 DEF Chosen
<1>3. SUFFICES ASSUME NEW i \in DOMAIN again,
                      Exact(TakenBy(method), statements[i].query, statements[i].parameters)
               PROVE  MySqlBinds(TakenBy(method), statements[i].query, statements[i].parameters, again[i])
  BY DEF Binds
<1> DEFINE st == statements[i]
           made == Binding("mysql", st)
           a == Again(given)[i]
<1>4. st.query \in Seq(Characters) /\ IsParameters(st.parameters)
  BY <1>2 DEF Chosen
<1>5. made.ok /\ given[i] = Given(made)
  BY <1>2 DEF Bindings
<1>6. MySqlBinds(TakenBy(method), st.query, st.parameters, Given(made)) /\ Settled(made)
  <2>1. TakenBy(method) \in {"server", "mysql2"}
    BY DEF TakenBy
  <2> HIDE DEF st
  <2> QED BY <1>3, <1>4, <1>5, <2>1, GivenBinds DEF st
<1>7. a = [query |-> made.sql, parameters |-> AsList(made.values)]
  <2>1. given[i].sql = made.sql /\ given[i].values = made.values
    BY <1>5 DEF Given
  <2> HIDE DEF made
  <2> QED BY <1>2, <2>1 DEF Again, AsList
<1> HIDE DEF made
<1>8. Binding("mysql", a) = made
  <2>1. a.query = made.sql /\ a.parameters = AsList(made.values)
    BY <1>7
  <2>2. Scanner("mysql", a.parameters) = "positional"
    BY <2>1 DEF Scanner, AsList
  <2> HIDE DEF a
  <2>3. Binding("mysql", a) = NormalizeParameters(made.sql, AsList(made.values), ScanSql(made.sql, "positional"))
    BY <2>1, <2>2 DEF Binding
  <2> QED BY <1>6, <2>3 DEF Settled
<1>9. again[i] = Given(made)
  BY <1>8 DEF Bindings
<1> QED BY <1>6, <1>9

\* What the steps of all calls keep of the caches, and of what is sent: a MySQL
\* transaction that waits has what normalising its statements gives.
WellAsked(c) == IsParameters(job[c].shared) /\ AreStatements(Method(c), job[c].statements)
BoundFor(c) ==
    /\ Binds(Lane(c), Method(c), Statements(c), sent[c])
    /\ Method(c) = "transaction" /\ stage[c] = "waiting" =>
          Bindings("mysql", Statements(c), sent[c]) /\ Len(sent[c]) <= Len(Statements(c))
Faithful == Truthful(caches) /\ \A c \in DOMAIN job : WellAsked(c) /\ BoundFor(c)

\* normalizeTransactionStatements() gives every statement parameters.
LEMMA StatementsChosen ==
    ASSUME NEW c, WellAsked(c)
    PROVE  Chosen(Method(c), Statements(c))
<1> DEFINE asked == job[c].statements
           N == Len(asked)
           made == Statements(c)
<1>1. /\ N \in Nat /\ DOMAIN asked = 1 .. N
      /\ \A i \in 1 .. N : asked[i].query \in Seq(STRING) /\ IsParameters(asked[i].parameters)
      /\ Method(c) = "prepare" => \A i, j \in 1 .. N : asked[i].query = asked[j].query
  BY DEF WellAsked, AreStatements
<1>2. made = [i \in 1 .. N |-> [query |-> asked[i].query, parameters |-> ParametersOf(c, asked[i])]]
  BY <1>1 DEF Statements
<1>3. Len(made) = N /\ DOMAIN made = 1 .. N
  <2>1. made = [i \in 1 .. N |-> made[i]]
    BY <1>2
  <2> HIDE DEF made
  <2> QED BY <1>1, <2>1, IsSequenceOf
<1>4. ASSUME NEW i \in 1 .. N
      PROVE  made[i].query \in Seq(Characters) /\ IsParameters(made[i].parameters)
             /\ made[i].query = asked[i].query
  <2>1. made[i] = [query |-> asked[i].query, parameters |-> ParametersOf(c, asked[i])]
    BY <1>2
  <2>2. ParametersOf(c, asked[i]) = asked[i].parameters \/ ParametersOf(c, asked[i]) = job[c].shared
    BY DEF ParametersOf
  <2> HIDE DEF made, asked
  <2> QED BY <1>1, <2>1, <2>2, TextsOfCharacters DEF WellAsked
<1> HIDE DEF made, asked
<1> QED BY <1>1, <1>3, <1>4 DEF Chosen, made

\* The caches are at all times what NormalizeAllRight asks for.
LEMMA AllNormalized ==
    ASSUME Kept, Truthful(caches), NEW lane \in {"mysql", "postgres"}, NEW statements,
           Len(statements) \in Nat, DOMAIN statements = 1 .. Len(statements)
    PROVE  Right(lane, statements, Len(statements), NormalizeAll(lane, statements))
<1>1. Well([caches |-> caches, sent |-> <<>>, ok |-> TRUE])
  <2>1. IsSequence(<<>>)
    BY DEF IsSequence
  <2> QED BY <2>1 DEF Well, Kept
<1> QED BY <1>1, NormalizeAllRight

\* A step that sends nothing for a call leaves it bound.
LEMMA BoundStill ==
    ASSUME NEW c, BoundFor(c), UNCHANGED job, sent'[c] = sent[c],
           Method(c) = "transaction" /\ stage'[c] = "waiting" => stage[c] = "waiting"
    PROVE  BoundFor(c)'
<1>1. Method(c)' = Method(c) /\ Lane(c)' = Lane(c) /\ Statements(c)' = Statements(c)
  BY DEF Method, Lane, Statements, ParametersOf
<1>2. /\ Binds(Lane(c), Method(c), Statements(c), sent[c])
      /\ Method(c) = "transaction" /\ stage[c] = "waiting" =>
            Bindings("mysql", Statements(c), sent[c]) /\ Len(sent[c]) <= Len(Statements(c))
  BY DEF BoundFor
<1>3. /\ Binds(Lane(c)', Method(c)', Statements(c)', sent'[c])
      /\ Method(c)' = "transaction" /\ stage'[c] = "waiting" =>
            Bindings("mysql", Statements(c)', sent'[c]) /\ Len(sent'[c]) <= Len(Statements(c)')
  BY <1>1, <1>2
<1> QED BY <1>3 DEF BoundFor

\* A step that sends something for a call.
LEMMA BoundAnew ==
    ASSUME NEW c, UNCHANGED job, Binds(Lane(c), Method(c), Statements(c), sent'[c]),
           Method(c) = "transaction" /\ stage'[c] = "waiting" =>
              Bindings("mysql", Statements(c), sent'[c]) /\ Len(sent'[c]) <= Len(Statements(c))
    PROVE  BoundFor(c)'
<1>1. Method(c)' = Method(c) /\ Lane(c)' = Lane(c) /\ Statements(c)' = Statements(c)
  BY DEF Method, Lane, Statements, ParametersOf
<1>3. /\ Binds(Lane(c)', Method(c)', Statements(c)', sent'[c])
      /\ Method(c)' = "transaction" /\ stage'[c] = "waiting" =>
            Bindings("mysql", Statements(c)', sent'[c]) /\ Len(sent'[c]) <= Len(Statements(c)')
  BY <1>1
<1> QED BY <1>3 DEF BoundFor

\* A step of one call, as far as the others are concerned.
LEMMA FaithfulElsewhere ==
    ASSUME Faithful, NEW c \in DOMAIN job, UNCHANGED job, Truthful(caches'), BoundFor(c)',
           \A d \in DOMAIN job \ {c} : sent'[d] = sent[d] /\ stage'[d] = stage[d]
    PROVE  Faithful'
<1>1. \A d \in DOMAIN job : WellAsked(d)'
  BY DEF Faithful, WellAsked, Method
<1>2. ASSUME NEW d \in DOMAIN job PROVE BoundFor(d)'
  <2>1. CASE d = c
    BY <2>1
  <2>2. CASE d # c
    <3>1. BoundFor(d) /\ sent'[d] = sent[d] /\ stage'[d] = stage[d]
      BY <2>2 DEF Faithful
    <3> QED BY <3>1, BoundStill
  <2> QED BY <2>1, <2>2
<1> QED BY <1>1, <1>2 DEF Faithful

\* A step that sends nothing, and after which no MySQL transaction waits that
\* did not before.
LEMMA QuietFaithful ==
    ASSUME Typed, Faithful, NEW c \in DOMAIN job, UNCHANGED <<job, sent, caches>>,
           NEW s, stage' = [stage EXCEPT ![c] = s], s = "waiting" => Method(c) # "transaction"
    PROVE  Faithful'
<1>1. c \in Calls /\ stage'[c] = s /\ \A d \in DOMAIN job \ {c} : stage'[d] = stage[d]
  BY DEF Typed
<1>2. BoundFor(c)'
  <2>1. BoundFor(c) /\ sent'[c] = sent[c]
    BY DEF Faithful
  <2> QED BY <1>1, <2>1, BoundStill
<1>3. Truthful(caches')
  BY DEF Faithful
<1> QED BY <1>1, <1>2, <1>3, FaithfulElsewhere

\* A MySQL export has normalised, and waits or gives up.
LEMMA ProceedsFaithful ==
    ASSUME Typed, Kept, Faithful, NEW c \in DOMAIN job, NEW so, Truthful(so.caches), NEW statements,
           Proceeds(c, so, statements),
           so.ok => /\ Binds(Lane(c), Method(c), Statements(c), statements)
                    /\ Method(c) = "transaction" => /\ Bindings("mysql", Statements(c), statements)
                                                    /\ Len(statements) <= Len(Statements(c))
    PROVE  Faithful'
<1>0. c \in Calls /\ UNCHANGED job /\ caches' = so.caches
  BY DEF Typed, Proceeds, WaitsWith, GivesUp
<1>1. CASE so.ok
  <2>1. sent' = [sent EXCEPT ![c] = statements] /\ stage' = [stage EXCEPT ![c] = "waiting"]
    BY <1>1 DEF Proceeds, WaitsWith, Goto
  <2>2. sent'[c] = statements /\ \A d \in DOMAIN job \ {c} : sent'[d] = sent[d] /\ stage'[d] = stage[d]
    BY <1>0, <2>1 DEF Typed, Kept
  <2>3. BoundFor(c)'
    BY <1>0, <1>1, <2>2, BoundAnew
  <2> QED BY <1>0, <2>2, <2>3, FaithfulElsewhere
<1>2. CASE ~so.ok
  <2>1. sent' = sent /\ stage' = [stage EXCEPT ![c] = "ended"]
    BY <1>2 DEF Proceeds, GivesUp, Goto
  <2>2. stage'[c] = "ended" /\ \A d \in DOMAIN job \ {c} : sent'[d] = sent[d] /\ stage'[d] = stage[d]
    BY <1>0, <2>1 DEF Typed
  <2>3. BoundFor(c)'
    <3>1. BoundFor(c) /\ sent'[c] = sent[c]
      BY <2>1 DEF Faithful
    <3> QED BY <1>0, <2>2, <3>1, BoundStill
  <2> QED BY <1>0, <2>2, <2>3, FaithfulElsewhere
<1> QED BY <1>1, <1>2

\* What a call's statements are made into, where its export normalises them.
LEMMA NormalizedNow ==
    ASSUME Kept, Faithful, NEW c \in DOMAIN job, NEW so, so = NormalizeAll(Lane(c), Statements(c))
    PROVE  /\ Truthful(so.caches) /\ IsSequence(so.sent) /\ Len(so.sent) <= Len(Statements(c))
           /\ Bindings(Lane(c), Statements(c), so.sent)
           /\ Binds(Lane(c), Method(c), Statements(c), so.sent)
           /\ so.ok => Len(so.sent) = Len(Statements(c))
           /\ Chosen(Method(c), Statements(c))
<1> DEFINE statements == Statements(c)
           lane == Lane(c)
<1>1. Chosen(Method(c), statements)
  BY StatementsChosen DEF Faithful
<1>2. lane \in {"mysql", "postgres"}
  BY DEF Lane
<1>3. Right(lane, statements, Len(statements), so)
  <2>1. Len(statements) \in Nat /\ DOMAIN statements = 1 .. Len(statements) /\ Truthful(caches)
    BY <1>1 DEF Chosen, Faithful
  <2> HIDE DEF statements, lane
  <2> QED BY <1>2, <2>1, AllNormalized DEF statements, lane
<1>4. /\ Truthful(so.caches) /\ IsSequence(so.sent) /\ Len(so.sent) <= Len(statements)
      /\ Bindings(lane, statements, so.sent) /\ (so.ok => Len(so.sent) = Len(statements))
  BY <1>3 DEF Right, Well
<1>5. Binds(lane, Method(c), statements, so.sent)
  BY <1>1, <1>2, <1>4, SentBinds
<1> QED BY <1>1, <1>4, <1>5

\* The exports.
LEMMA CallFaithful ==
    ASSUME Typed, Kept, Faithful, NEW c \in DOMAIN job, Call(c)
    PROVE  Faithful'
<1>1. ASSUME CallQuery(c) PROVE Faithful'
  <2>1. Lane(c) = "mysql" /\ Method(c) = "query"
    BY <1>1 DEF CallQuery, Asks, Lane, PostgresMethods
  <2>2. PICK so : so = NormalizeAll("mysql", Statements(c)) /\ Proceeds(c, so, so.sent)
    BY <1>1 DEF CallQuery
  <2> QED BY <2>1, <2>2, NormalizedNow, ProceedsFaithful
<1>2. ASSUME CallPrepare(c) PROVE Faithful'
  <2>1. Lane(c) = "mysql" /\ Method(c) = "prepare"
    BY <1>2 DEF CallPrepare, Asks, Lane, PostgresMethods
  <2>2. PICK so : so = NormalizeAll("mysql", Statements(c)) /\ Proceeds(c, so, Prepared(so.sent))
    BY <1>2 DEF CallPrepare
  <2>3. so.ok => Binds(Lane(c), Method(c), Statements(c), Prepared(so.sent))
    <3> SUFFICES ASSUME so.ok PROVE Binds(Lane(c), Method(c), Statements(c), Prepared(so.sent))
      OBVIOUS
    <3>1. /\ IsSequence(so.sent) /\ Len(so.sent) = Len(Statements(c))
          /\ Bindings("mysql", Statements(c), so.sent) /\ Chosen("prepare", Statements(c))
      BY <2>1, <2>2, NormalizedNow
    <3> QED BY <2>1, <3>1, PreparedBinds
  <2> QED BY <2>1, <2>2, <2>3, NormalizedNow, ProceedsFaithful
<1>3. ASSUME CallTransaction(c) PROVE Faithful'
  <2>1. Lane(c) = "mysql"
    BY <1>3 DEF CallTransaction, Asks, Lane, PostgresMethods
  <2>2. CASE GivesUp(c) /\ UNCHANGED caches
    <3>1. UNCHANGED <<job, sent, caches>> /\ stage' = [stage EXCEPT ![c] = "ended"]
      BY <2>2 DEF GivesUp, Goto
    <3> QED BY <3>1, QuietFaithful
  <2>3. CASE \E so \in {NormalizeAll("mysql", Statements(c))} : Proceeds(c, so, so.sent)
    <3>1. PICK so : so = NormalizeAll("mysql", Statements(c)) /\ Proceeds(c, so, so.sent)
      BY <2>3
    <3> QED BY <2>1, <3>1, NormalizedNow, ProceedsFaithful
  <2> QED BY <1>3, <2>2, <2>3 DEF CallTransaction
<1>4. ASSUME CallUnavailable(c) \/ Store(c) PROVE Faithful'
  <2>1. UNCHANGED <<job, sent, caches>> /\ stage' = [stage EXCEPT ![c] = "ended"]
    BY <1>4 DEF CallUnavailable, Store, Goto
  <2> QED BY <2>1, QuietFaithful
<1>5. ASSUME CallSchema(c) \/ CallPostgresSchema(c) \/ CallPostgresQuery(c)
             \/ CallPostgresTransaction(c) \/ CallAndWait(c)
      PROVE  Faithful'
  <2>1. UNCHANGED <<job, sent, caches>> /\ \E s : stage' = [stage EXCEPT ![c] = s]
    BY <1>5 DEF CallSchema, CallPostgresSchema, CallPostgresQuery, CallPostgresTransaction, CallAndWait,
       IsRefused, Waits, Goto
  <2>2. Method(c) # "transaction"
    BY <1>5 DEF CallSchema, CallPostgresSchema, CallPostgresQuery, CallPostgresTransaction, CallAndWait,
       Asks, AwaitMethods
  <2> QED BY <2>1, <2>2, QuietFaithful
<1> QED BY <1>1, <1>2, <1>3, <1>4, <1>5 DEF Call

\* awaitConnection() returns: the PostgreSQL lane normalises now, and a MySQL
\* transaction does so again.
LEMMA AdmitFaithful ==
    ASSUME Typed, Kept, Faithful, NEW c \in DOMAIN job, Admit(c)
    PROVE  Faithful'
<1>0. c \in Calls /\ UNCHANGED job /\ stage[c] = "waiting" /\ WellAsked(c) /\ BoundFor(c)
      /\ Lane(c) \in {"mysql", "postgres"}
  BY DEF Typed, Admit, Faithful, Lane
<1>1. CASE NormalizesNow(c)
  <2>1. PICK so : /\ so = NormalizeAll(Lane(c), IF Lane(c) = "mysql" THEN Again(sent[c]) ELSE Statements(c))
                  /\ caches' = so.caches
                  /\ sent' = [sent EXCEPT ![c] = so.sent]
                  /\ stage' = [stage EXCEPT ![c] = IF so.ok THEN "running" ELSE "failed"]
    BY <1>1 DEF Admit, Goto
  <2>2. /\ sent'[c] = so.sent /\ stage'[c] # "waiting"
        /\ \A d \in DOMAIN job \ {c} : sent'[d] = sent[d] /\ stage'[d] = stage[d]
    BY <1>0, <2>1 DEF Typed, Kept
  <2>3. Truthful(so.caches) /\ Binds(Lane(c), Method(c), Statements(c), so.sent)
    <3>1. CASE Lane(c) = "postgres"
      BY <2>1, <3>1, NormalizedNow
    <3>2. CASE Lane(c) = "mysql"
      <4> DEFINE given == sent[c]
                 again == Again(given)
      <4>1. Method(c) = "transaction"
        BY <1>1, <3>2 DEF NormalizesNow, Lane, PostgresMethods
      <4>2. Bindings("mysql", Statements(c), given) /\ Len(given) <= Len(Statements(c)) /\ IsSequence(given)
        BY <1>0, <4>1 DEF BoundFor, Kept
      <4>3. Len(again) = Len(given) /\ Len(again) \in Nat /\ DOMAIN again = 1 .. Len(again)
        <5>1. Len(given) \in Nat /\ DOMAIN given = 1 .. Len(given)
          BY <4>2, Sequences
        <5>2. again = [i \in 1 .. Len(given) |-> again[i]]
          BY <5>1 DEF Again
        <5> HIDE DEF again
        <5> QED BY <5>1, <5>2, IsSequenceOf
      <4>4. Right("mysql", again, Len(again), so)
        BY <2>1, <3>2, <4>3, AllNormalized DEF Faithful
      <4>5. Truthful(so.caches) /\ IsSequence(so.sent) /\ Len(so.sent) <= Len(given)
            /\ Bindings("mysql", again, so.sent)
        BY <4>3, <4>4 DEF Right, Well
      <4>6. Chosen(Method(c), Statements(c))
        BY <1>0, StatementsChosen
      <4> QED BY <3>2, <4>2, <4>5, <4>6, AgainBinds
    <3> QED BY <1>0, <3>1, <3>2
  <2>4. BoundFor(c)'
    BY <1>0, <2>2, <2>3, BoundAnew
  <2> QED BY <1>0, <2>1, <2>2, <2>3, <2>4, FaithfulElsewhere
<1>2. CASE ~NormalizesNow(c)
  <2>1. /\ UNCHANGED <<job, sent, caches>>
        /\ stage' = [stage EXCEPT ![c] = IF Method(c) \in AwaitMethods THEN "done" ELSE "running"]
    BY <1>2 DEF Admit, Goto
  <2> QED BY <2>1, QuietFaithful
<1> QED BY <1>1, <1>2

\* What comes after.
LEMMA OthersFaithful ==
    ASSUME Typed, Faithful, NEW c \in DOMAIN job, Refuse(c) \/ Execute(c) \/ Continue(c)
    PROVE  Faithful'
<1>1. /\ UNCHANGED <<job, sent, caches>>
      /\ \E s \in {"failed", "done", "ended"} : stage' = [stage EXCEPT ![c] = s]
  BY DEF Refuse, Execute, Continue, Goto
<1> QED BY <1>1, QuietFaithful

\* Nothing is sent or remembered at the start.
LEMMA InitFaithful == Init => Faithful
<1> SUFFICES ASSUME Init PROVE Faithful
  OBVIOUS
<1>1. Truthful(caches)
  BY DEF Init, Truthful, Scanners
<1>2. ASSUME NEW c \in DOMAIN job PROVE WellAsked(c) /\ BoundFor(c)
  <2>1. WellAsked(c) /\ c \in Calls
    BY WorkloadsAssumption DEF Init, WellAsked, Method
  <2>2. sent[c] = <<>> /\ stage[c] = "new"
    BY <2>1 DEF Init
  <2>3. Binds(Lane(c), Method(c), Statements(c), <<>>)
    BY DEF Binds
  <2> QED BY <2>1, <2>2, <2>3 DEF BoundFor
<1> QED BY <1>1, <1>2 DEF Faithful

\* What the steps keep.
LEMMA NextFaithful == Inv /\ Kept /\ Faithful /\ [Next]_vars => Faithful'
<1> SUFFICES ASSUME Inv, Kept, Faithful, [Next]_vars PROVE Faithful'
  OBVIOUS
<1>1. CASE UNCHANGED vars
  <2>1. UNCHANGED <<job, sent, stage, caches>>
    BY <1>1 DEF vars
  <2>2. \A c \in DOMAIN job : WellAsked(c)' /\ BoundFor(c)'
    BY <2>1, BoundStill DEF Faithful, WellAsked, Method
  <2> QED BY <2>1, <2>2 DEF Faithful
<1>2. CASE Next
  <2> PICK c \in DOMAIN job : Call(c) \/ Admit(c) \/ Refuse(c) \/ Execute(c) \/ Continue(c)
    BY <1>2 DEF Next
  <2> QED BY CallFaithful, AdmitFaithful, OthersFaithful DEF Inv
<1> QED BY <1>1, <1>2

\* Spec implies that every scan that is remembered is the one scanSql() or
\* countPostgresPlaceholders() would make of the query it is remembered for:
\* none is found in the cache of another scanner, or for another query.
THEOREM CachesAreTruthful == Spec => []Truthful(caches)
<1>1. Faithful => Truthful(caches)
  BY DEF Faithful
<1> QED BY <1>1, InitFaithful, NextFaithful, InitKept, InitSound, NextSound, NextKept, PTL DEF Spec

\* Spec implies that what the driver is given binds every placeholder the server
\* will see, and nothing else, each to its value, and that mysql2 puts the values
\* of a statement's text where the server would look for them: whatever the
\* queries are, the parameters and the calls, whichever queries were scanned
\* before, and however often a statement is normalised.
THEOREM EveryPlaceholderIsBound == Spec => []BindsEveryPlaceholder
<1>1. Faithful => BindsEveryPlaceholder
  <2> SUFFICES ASSUME Faithful PROVE BindsEveryPlaceholder
    OBVIOUS
  <2>1. \A c \in DOMAIN job : Binds(Lane(c), Method(c), Statements(c), sent[c])
    BY DEF Faithful, BoundFor
  <2>2. \A c \in DOMAIN job : TakenBy(Method(c)) = Reader(c)
    BY DEF TakenBy, Reader
  <2> QED BY <2>1, <2>2 DEF Binds, BindsEveryPlaceholder
<1> QED BY <1>1, InitFaithful, NextFaithful, InitKept, InitSound, NextSound, NextKept, PTL DEF Spec
=============================================================================
