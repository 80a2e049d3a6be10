------------------------ MODULE SqlPlaceholdersProofs ------------------------
(***************************************************************************)
(* Lemmas about the operators of SqlPlaceholders, for every text: that the *)
(* scanners of core/parameters.ts and core/postgres-parameters.ts come to  *)
(* an end, that what they jump over is one thing for the server, and that  *)
(* they find the placeholders the server finds.                            *)
(*                                                                         *)
(* An operator that is defined by recursion is first shown to exist        *)
(* (Recursion), by which its defining equation may be used; what it        *)
(* computes is then shown one place after the other, from the start of the *)
(* text (Upwards, Ascending) or from its end (Descending).                 *)
(***************************************************************************)
EXTENDS SqlPlaceholders, TLAPS, FiniteSetTheorems, FunctionTheorems, WellFoundedInduction, SequenceTheorems

-----------------------------------------------------------------------------
(* Numbers, and functions that are defined by recursion: a function exists where *)
(* the value at x needs values of lower rank only.                         *)

\* What the texts are made of that are given to the server.
Characters == STRING \cup {"?"}

\* Every query is such a text.
LEMMA TextsOfCharacters == Seq(STRING) \subseteq Seq(Characters) /\ "?" \in Characters
<1>1. STRING \subseteq Characters /\ "?" \in Characters
  BY DEF Characters
<1> QED BY <1>1, SeqMonotonic

\* What holds of 0 and is handed on holds of every number up to N.
LEMMA Upwards ==
    ASSUME NEW N \in Nat, NEW Good, 0 \in Good,
           \A n \in 1 .. N : n - 1 \in Good => n \in Good
    PROVE  0 .. N \subseteq Good
<1> SUFFICES ASSUME ~(0 .. N \subseteq Good) PROVE FALSE
  OBVIOUS
<1> DEFINE Below == {0 .. n : n \in (0 .. N) \ Good}
<1>1. PICK x \in Below : \A y \in Below : ~(<<y, x>> \in StrictSubsetOrdering(Nat))
  <2>1. \A n \in (0 .. N) \ Good : IsFiniteSet(0 .. n)
    BY FS_Interval
  <2>2. Below \subseteq FiniteSubsetsOf(Nat)
    BY <2>1 DEF FiniteSubsetsOf
  <2>3. Below # {}
    OBVIOUS
  <2> HIDE DEF Below
  <2> QED BY <2>2, <2>3, WFMin, FS_StrictSubsetOrderingWellFounded
<1>2. PICK n \in (0 .. N) \ Good : x = 0 .. n
  BY <1>1
<1>3. n # 0 /\ n - 1 \in (0 .. N) \ Good
  BY <1>2
<1>4. 0 .. n - 1 \in Below
  BY <1>3
<1>5. 0 .. n - 1 \subseteq 0 .. n /\ n \in 0 .. n /\ n \notin 0 .. n - 1
  BY <1>2
<1>6. <<0 .. n - 1, 0 .. n>> \in StrictSubsetOrdering(Nat)
  BY <1>2, <1>5 DEF StrictSubsetOrdering
<1> QED BY <1>1, <1>2, <1>4, <1>6

\* A set of numbers from 1 to N that has n whenever it has all below n, or all
\* above n, has them all.
LEMMA Ascending ==
    ASSUME NEW N \in Nat, NEW Good,
           \A n \in 1 .. N : (\A m \in 1 .. n - 1 : m \in Good) => n \in Good
    PROVE  1 .. N \subseteq Good
<1> DEFINE Done == {n \in 0 .. N : 1 .. n \subseteq Good}
<1>1. 0 \in Done
  OBVIOUS
<1>2. ASSUME NEW n \in 1 .. N, n - 1 \in Done PROVE n \in Done
  <2>1. n \in Good
    BY <1>2
  <2>2. \A m \in 1 .. n : m = n \/ m \in 1 .. n - 1
    OBVIOUS
  <2> QED BY <1>2, <2>1, <2>2
<1> HIDE DEF Done
<1>3. N \in Done
  BY <1>1, <1>2, Upwards
<1> QED BY <1>3 DEF Done

\* And one that has n whenever it has all above n.
LEMMA Descending ==
    ASSUME NEW N \in Nat, NEW Good,
           \A n \in 1 .. N : (\A m \in n + 1 .. N : m \in Good) => n \in Good
    PROVE  1 .. N \subseteq Good
<1> DEFINE Mirror == {n \in 1 .. N : N + 1 - n \in Good}
<1>1. ASSUME NEW n \in 1 .. N, \A m \in 1 .. n - 1 : m \in Mirror PROVE n \in Mirror
  <2>1. N + 1 - n \in 1 .. N
    OBVIOUS
  <2>2. \A m \in (N + 1 - n) + 1 .. N : m \in Good
    <3> TAKE m \in (N + 1 - n) + 1 .. N
    <3>1. N + 1 - m \in 1 .. n - 1 /\ N + 1 - (N + 1 - m) = m
      OBVIOUS
    <3> QED BY <1>1, <3>1
  <2> QED BY <2>1, <2>2
<1>2. 1 .. N \subseteq Mirror
  <2> HIDE DEF Mirror
  <2> QED BY <1>1, Ascending
<1> SUFFICES ASSUME NEW n \in 1 .. N PROVE n \in Good
  OBVIOUS
<1>3. N + 1 - n \in 1 .. N /\ N + 1 - (N + 1 - n) = n
  OBVIOUS
<1> QED BY <1>2, <1>3

\* F[x] makes the value of a function at x from its values of lower rank.
Grounded(D, S, N, rank, F) ==
    /\ S # {} /\ N \in Nat /\ rank \in [D -> 0 .. N]
    /\ F \in [D -> [[D -> S] -> S]]
    /\ \A x \in D : \A g, h \in [D -> S] :
          (\A y \in D : rank[y] < rank[x] => g[y] = h[y]) => F[x][g] = F[x][h]
\* There is such a function.
LEMMA Recursion ==
    ASSUME NEW D, NEW S, NEW N, NEW rank, NEW F, Grounded(D, S, N, rank, F)
    PROVE  \E f \in [D -> S] : \A x \in D : f[x] = F[x][f]
<1> USE DEF Grounded
<1> DEFINE Upto(n, f) == f \in [D -> S] /\ \A x \in D : rank[x] < n => f[x] = F[x][f]
           Good == {n \in 0 .. N + 1 : \E f : Upto(n, f)}
<1>1. 0 \in Good
  <2> PICK s \in S : TRUE
    OBVIOUS
  <2>1. Upto(0, [x \in D |-> s])
    OBVIOUS
  <2> QED BY <2>1
<1>2. ASSUME NEW n \in 1 .. N + 1, n - 1 \in Good PROVE n \in Good
  <2> PICK f : Upto(n - 1, f)
    BY <1>2
  <2> DEFINE g == [x \in D |-> F[x][f]]
  <2>1. g \in [D -> S]
    OBVIOUS
  <2>2. \A x \in D : rank[x] < n - 1 => g[x] = f[x]
    OBVIOUS
  <2>3. ASSUME NEW x \in D, rank[x] < n PROVE g[x] = F[x][g]
    <3>1. \A y \in D : rank[y] < rank[x] => f[y] = g[y]
      BY <2>2, <2>3
    <3>2. F[x][f] = F[x][g]
      <4> HIDE DEF g
      <4> QED BY <2>1, <3>1
    <3> QED BY <3>2
  <2> HIDE DEF g
  <2>4. Upto(n, g)
    BY <2>1, <2>3
  <2> QED BY <2>4
<1> HIDE DEF Good
<1>3. N + 1 \in Good
  <2>1. N + 1 \in Nat
    OBVIOUS
  <2>2. 0 .. N + 1 \subseteq Good
    BY <1>1, <1>2, <2>1, Upwards
  <2> QED BY <2>1, <2>2
<1>4. PICK f : Upto(N + 1, f)
  BY <1>3 DEF Good
<1> QED BY <1>4

\* A reader with the states S: step[i] is what the i-th of N characters makes of
\* each, and f what all of them make of the first.
Machine(N, S, first, step) == N \in Nat /\ first \in S /\ step \in [1 .. N -> [S -> S]]
Runs(N, S, first, step, f) ==
    /\ f \in [1 .. N + 1 -> S]
    /\ \A i \in 1 .. N + 1 : f[i] = IF i = 1 THEN first ELSE step[i - 1][f[i - 1]]

\* It comes to the end of its text.
LEMMA Automaton ==
    ASSUME NEW N, NEW S, NEW first, NEW step, Machine(N, S, first, step)
    PROVE  \E f : Runs(N, S, first, step, f)
<1> DEFINE D == 1 .. N + 1
           Body(i, f) == IF i = 1 THEN first ELSE step[i - 1][f[i - 1]]
           F == [i \in D |-> [f \in [D -> S] |-> Body(i, f)]]
           rank == [i \in D |-> i]
<1>0. N \in Nat /\ first \in S /\ step \in [1 .. N -> [S -> S]]
  BY DEF Machine
<1>1. rank \in [D -> 0 .. N + 1] /\ N + 1 \in Nat
  BY <1>0
<1>2. \A i \in D : i # 1 => i - 1 \in D /\ i - 1 \in 1 .. N /\ rank[i - 1] < rank[i]
  BY <1>0
<1>3. F \in [D -> [[D -> S] -> S]]
  <2> SUFFICES ASSUME NEW i \in D, NEW f \in [D -> S] PROVE Body(i, f) \in S
    BY Zenon
  <2>1. CASE i # 1
    <3>1. step[i - 1] \in [S -> S] /\ f[i - 1] \in S
      BY <1>0, <1>2, <2>1
    <3>2. step[i - 1][f[i - 1]] \in S
      BY <3>1
    <3> QED BY <2>1, <3>2
  <2> QED BY <1>0, <2>1
<1>4. \A i \in D : \A f, g \in [D -> S] :
         (\A k \in D : rank[k] < rank[i] => f[k] = g[k]) => F[i][f] = F[i][g]
  <2> SUFFICES ASSUME NEW i \in D, NEW f \in [D -> S], NEW g \in [D -> S],
                      \A k \in D : rank[k] < rank[i] => f[k] = g[k]
               PROVE  Body(i, f) = Body(i, g)
    BY Zenon
  <2> HIDE DEF rank, D
  <2>1. i # 1 => f[i - 1] = g[i - 1]
    BY <1>2
  <2> QED BY <2>1
<1> HIDE DEF F, rank, D
<1>5. Grounded(D, S, N + 1, rank, F)
  BY <1>0, <1>1, <1>3, <1>4 DEF Grounded
<1>6. PICK f \in [D -> S] : \A i \in D : f[i] = F[i][f]
  BY <1>5, Recursion
<1>7. \A i \in D : f[i] = Body(i, f)
  <2> HIDE DEF Body
  <2> QED BY <1>6 DEF F
<1> QED BY <1>7 DEF D, Runs

\* A reader that every character leaves in a state it can be in is always in one.
LEMMA Stays ==
    ASSUME NEW N \in Nat, NEW S, NEW at, at[1] \in S,
           \A i \in 1 .. N : at[i] \in S => at[i + 1] \in S
    PROVE  \A i \in 1 .. N + 1 : at[i] \in S
<1> DEFINE Good == {n \in 0 .. N : at[n + 1] \in S}
<1>1. 0 \in Good
  OBVIOUS
<1>2. \A n \in 1 .. N : n - 1 \in Good => n \in Good
  <2> SUFFICES ASSUME NEW n \in 1 .. N, at[n - 1 + 1] \in S PROVE at[n + 1] \in S
    OBVIOUS
  <2>1. n - 1 + 1 = n
    OBVIOUS
  <2> QED BY <2>1
<1> HIDE DEF Good
<1>3. 0 .. N \subseteq Good
  BY <1>1, <1>2, Upwards
<1> SUFFICES ASSUME NEW i \in 1 .. N + 1 PROVE at[i] \in S
  OBVIOUS
<1>4. i - 1 \in Good /\ i - 1 + 1 = i
  BY <1>3
<1> QED BY <1>4 DEF Good

-----------------------------------------------------------------------------
(* Where things end: quoted texts, comments, tags, numbers.                *)

\* close is where a text quoted from i ends, for each place to go on from.
Closing(q, i, escapes, close) ==
    /\ QuotedEnd(q, i, escapes) = close[i + 1]
    /\ \A j \in i + 1 .. Len(q) + 2 :
          close[j] = IF j > Len(q) THEN Len(q)
                     ELSE IF q[j] \in escapes THEN close[j + 2]
                     ELSE IF q[j] # q[i] THEN close[j + 1]
                     ELSE IF Char(q, j + 1) = q[i] THEN close[j + 2]
                     ELSE j

\* skipQuoted() comes to an end: the value of close at j, from those after j.
LEMMA QuotedEndDef ==
    ASSUME NEW q \in Seq(Characters), NEW i \in DOMAIN q, NEW escapes
    PROVE  \E close : Closing(q, i, escapes, close)
<1> DEFINE D == i + 1 .. Len(q) + 2
           Body(j, f) == IF j > Len(q) THEN Len(q)
                         ELSE IF q[j] \in escapes THEN f[j + 2]
                         ELSE IF q[j] # q[i] THEN f[j + 1]
                         ELSE IF Char(q, j + 1) = q[i] THEN f[j + 2]
                         ELSE j
           Is(f) == f = [j \in D |-> Body(j, f)]
           close == CHOOSE f : Is(f)
           F == [j \in D |-> [f \in [D -> Nat] |-> Body(j, f)]]
           rank == [j \in D |-> Len(q) + 2 - j]
<1>0. Len(q) \in Nat /\ DOMAIN q = 1 .. Len(q) /\ i \in 1 .. Len(q)
  OBVIOUS
<1>1. QuotedEnd(q, i, escapes) = close[i + 1]
  BY DEF QuotedEnd
<1>2. \E f : Is(f)
  <2> DEFINE N == Len(q) + 2
  <2>1. rank \in [D -> 0 .. N] /\ N \in Nat
    BY <1>0
  <2>2. ASSUME NEW j \in D, NEW f \in [D -> Nat] PROVE Body(j, f) \in Nat
    <3>1. j <= Len(q) => j \in Nat /\ j + 1 \in D /\ j + 2 \in D
      BY <1>0
    <3> QED BY <1>0, <3>1
  <2>3. F \in [D -> [[D -> Nat] -> Nat]]
    <3> HIDE DEF Body, D
    <3> QED BY <2>2
  <2>4. \A j \in D : \A f, g \in [D -> Nat] :
           (\A k \in D : rank[k] < rank[j] => f[k] = g[k]) => F[j][f] = F[j][g]
    <3> SUFFICES ASSUME NEW j \in D, NEW f \in [D -> Nat], NEW g \in [D -> Nat],
                        \A k \in D : rank[k] < rank[j] => f[k] = g[k]
                 PROVE  Body(j, f) = Body(j, g)
      <4> HIDE DEF Body, D, rank
      <4> QED OBVIOUS
    <3>1. j <= Len(q) => /\ j + 1 \in D /\ rank[j + 1] < rank[j]
                         /\ j + 2 \in D /\ rank[j + 2] < rank[j]
      BY <1>0
    <3>2. j <= Len(q) => f[j + 1] = g[j + 1] /\ f[j + 2] = g[j + 2]
      <4> HIDE DEF D, rank
      <4> QED BY <3>1
    <3> QED BY <1>0, <3>2
  <2> HIDE DEF F, rank, D, N
  <2>5. PICK f \in [D -> Nat] : \A j \in D : f[j] = F[j][f]
    <3>1. Grounded(D, Nat, N, rank, F)
      BY <2>1, <2>3, <2>4 DEF Grounded
    <3> QED BY <3>1, Recursion
  <2>6. \A j \in D : f[j] = Body(j, f)
    <3> HIDE DEF Body
    <3> QED BY <2>5 DEF F
  <2> HIDE DEF Body
  <2> QED BY <2>6
<1>3. Is(close)
  BY <1>2
<1>4. \A j \in D : close[j] = Body(j, close)
  <2> HIDE DEF close, Body, D
  <2> QED BY <1>3
<1> HIDE DEF close
<1>5. Closing(q, i, escapes, close)
  BY <1>1, <1>4 DEF Closing
<1> QED BY <1>5

\* The least and the greatest of some numbers.
LEMMA MinIs ==
    ASSUME NEW N \in Nat, NEW S \in SUBSET (0 .. N), S # {}
    PROVE  Min(S) \in S /\ \A y \in S : Min(S) <= y
<1>1. \E x \in S : \A y \in S : x <= y
  <2> SUFFICES ASSUME \A x \in S : \E y \in S : y < x PROVE FALSE
    OBVIOUS
  <2> DEFINE Good == {n \in 0 .. N : \A m \in 0 .. n : m \notin S}
  <2>1. 0 \in Good
    OBVIOUS
  <2>2. ASSUME NEW n \in 1 .. N, n - 1 \in Good PROVE n \in Good
    <3>1. \A m \in 0 .. n : m \in 0 .. n - 1 \/ m = n
      OBVIOUS
    <3>2. n \notin S
      BY <2>2
    <3> QED BY <2>2, <3>1, <3>2
  <2>3. 0 .. N \subseteq Good
    <3> HIDE DEF Good
    <3> QED BY <2>1, <2>2, Upwards
  <2>4. N \in Good
    BY <2>3
  <2> QED BY <2>4
<1> QED BY <1>1 DEF Min

\* The greatest of some numbers.
LEMMA MaxIs ==
    ASSUME NEW N \in Nat, NEW S \in SUBSET (0 .. N), S # {}
    PROVE  Max(S) \in S /\ \A y \in S : y <= Max(S)
<1> DEFINE T == {n \in 0 .. N : N - n \in S}
<1>1. Min(T) \in T /\ \A y \in T : Min(T) <= y
  <2>1. T \in SUBSET (0 .. N) /\ T # {}
    <3> PICK s \in S : TRUE
      OBVIOUS
    <3>1. N - s \in T
      OBVIOUS
    <3> QED BY <3>1
  <2> HIDE DEF T
  <2> QED BY <2>1, MinIs
<1> DEFINE x == N - Min(T)
<1>2. x \in S
  BY <1>1
<1>3. \A y \in S : y <= x
  <2> TAKE y \in S
  <2>1. N - y \in T
    OBVIOUS
  <2> QED BY <1>1, <2>1
<1> QED BY <1>2, <1>3 DEF Max

\* Of two numbers.
LEMMA OfTwo ==
    ASSUME NEW a \in Int, NEW b \in Int
    PROVE  /\ Min({a, b}) = IF a <= b THEN a ELSE b
           /\ Max({a, b}) = IF a <= b THEN b ELSE a
<1>1. ASSUME NEW x \in {a, b}, NEW z \in {a, b}, \A y \in {a, b} : x <= y, \A y \in {a, b} : z <= y
      PROVE  x = z
  BY <1>1
<1>2. ASSUME NEW x \in {a, b}, NEW z \in {a, b}, \A y \in {a, b} : x >= y, \A y \in {a, b} : z >= y
      PROVE  x = z
  BY <1>2
<1>3. \E x \in {a, b} : x = (IF a <= b THEN a ELSE b) /\ \A y \in {a, b} : x <= y
  OBVIOUS
<1>4. \E x \in {a, b} : x = (IF a <= b THEN b ELSE a) /\ \A y \in {a, b} : x >= y
  OBVIOUS
<1>5. Min({a, b}) \in {a, b} /\ \A y \in {a, b} : Min({a, b}) <= y
  BY <1>3 DEF Min
<1>6. Max({a, b}) \in {a, b} /\ \A y \in {a, b} : Max({a, b}) >= y
  BY <1>4 DEF Max
<1> QED BY <1>1, <1>2, <1>3, <1>4, <1>5, <1>6

\* The end of a run of characters.
LEMMA RunOfIs ==
    ASSUME NEW q \in Seq(Characters), NEW i \in 1 .. Len(q) + 1, NEW set
    PROVE  /\ RunOf(q, i, set) \in i - 1 .. Len(q)
           /\ \A k \in i .. RunOf(q, i, set) : q[k] \in set
           /\ RunOf(q, i, set) < Len(q) => q[RunOf(q, i, set) + 1] \notin set
<1> DEFINE S == {j \in i .. Len(q) : \A k \in i .. j : q[k] \in set} \cup {i - 1}
           e == RunOf(q, i, set)
<1>0. Len(q) \in Nat
  OBVIOUS
<1>1. S \in SUBSET (0 .. Len(q)) /\ S # {}
  BY <1>0
<1>2. e = Max(S)
  BY DEF RunOf
<1>3. e \in S /\ \A y \in S : y <= e
  <2> HIDE DEF S, e
  <2> QED BY <1>0, <1>1, <1>2, MaxIs
<1>4. e \in i - 1 .. Len(q) /\ \A k \in i .. e : q[k] \in set
  <2> HIDE DEF e
  <2> QED BY <1>0, <1>3
<1>5. ASSUME e < Len(q), q[e + 1] \in set PROVE FALSE
  <2>1. \A k \in i .. e + 1 : k \in i .. e \/ k = e + 1
    <3> HIDE DEF e
    <3> QED BY <1>0, <1>4
  <2>2. e + 1 \in S
    <3> HIDE DEF e
    <3> QED BY <1>0, <1>4, <1>5, <2>1
  <2> HIDE DEF S
  <2> QED BY <1>0, <1>3, <1>4, <2>2
<1> QED BY <1>4, <1>5

\* A quoted text ends at its first character's place or later.
LEMMA QuotedEndBounds ==
    ASSUME NEW q \in Seq(Characters), NEW i \in DOMAIN q, NEW escapes
    PROVE  QuotedEnd(q, i, escapes) \in i .. Len(q)
<1>0. Len(q) \in Nat /\ DOMAIN q = 1 .. Len(q) /\ i \in 1 .. Len(q)
  OBVIOUS
<1>c. PICK close : Closing(q, i, escapes, close)
  BY QuotedEndDef
<1> DEFINE Good == {j \in 1 .. Len(q) + 2 : j > i => close[j] \in i .. Len(q)}
<1>1. ASSUME NEW j \in 1 .. Len(q) + 2, \A m \in j + 1 .. Len(q) + 2 : m \in Good PROVE j \in Good
  <2> SUFFICES ASSUME j > i PROVE close[j] \in i .. Len(q)
    OBVIOUS
  <2>1. j \in i + 1 .. Len(q) + 2
    BY <1>0
  <2>2. j <= Len(q) => j + 1 \in Good /\ j + 2 \in Good
    BY <1>0, <1>1
  <2>3. j <= Len(q) => close[j + 1] \in i .. Len(q) /\ close[j + 2] \in i .. Len(q)
    BY <1>0, <2>2
  <2>4. close[j] \in {Len(q), close[j + 1], close[j + 2], j} /\ (j > Len(q) => close[j] = Len(q))
    BY <1>c, <2>1 DEF Closing
  <2>5. CASE j > Len(q)
    BY <1>0, <2>4, <2>5
  <2>6. CASE j <= Len(q)
    <3>1. j \in i .. Len(q) /\ Len(q) \in i .. Len(q)
      BY <1>0, <2>1, <2>6
    <3> QED BY <2>3, <2>4, <2>6, <3>1
  <2> QED BY <1>0, <2>1, <2>5, <2>6
<1> HIDE DEF Good
<1>2. 1 .. Len(q) + 2 \subseteq Good
  <2>1. Len(q) + 2 \in Nat
    BY <1>0
  <2> QED BY <1>1, <2>1, Descending
<1>3. i + 1 \in Good
  BY <1>0, <1>2
<1> QED BY <1>0, <1>3, <1>c DEF Good, Closing

\* after is where a comment that begins at i ends, for each place to go on from
\* and each number of comments that are open there.
Ending(q, i, after) ==
    /\ CommentEnd(q, i) = after[i + 2][1]
    /\ \A j \in i .. Len(q) + 2 : \A depth \in Nat :
          after[j][depth] = IF j > Len(q) \/ depth = 0 THEN Min({j - 1, Len(q)})
                            ELSE IF Next2(q, j) = <<"/", "*">> THEN after[j + 2][depth + 1]
                            ELSE IF Next2(q, j) = <<"*", "/">> THEN after[j + 2][depth - 1]
                            ELSE after[j + 1][depth]

\* A block comment comes to an end: the value of after at j, from those after j.
LEMMA CommentEndDef ==
    ASSUME NEW q \in Seq(Characters), NEW i \in DOMAIN q
    PROVE  \E after : Ending(q, i, after)
<1> DEFINE D == i .. Len(q) + 2
           S == [Nat -> Int]
           At(j, f, depth) == IF j > Len(q) \/ depth = 0 THEN Min({j - 1, Len(q)})
                              ELSE IF Next2(q, j) = <<"/", "*">> THEN f[j + 2][depth + 1]
                              ELSE IF Next2(q, j) = <<"*", "/">> THEN f[j + 2][depth - 1]
                              ELSE f[j + 1][depth]
           Body(j, f) == [depth \in Nat |-> At(j, f, depth)]
           Is(f) == f = [j \in D |-> Body(j, f)]
           after == CHOOSE f : Is(f)
           F == [j \in D |-> [f \in [D -> S] |-> Body(j, f)]]
           rank == [j \in D |-> Len(q) + 2 - j]
           N == Len(q) + 2
<1>0. Len(q) \in Nat /\ DOMAIN q = 1 .. Len(q) /\ i \in 1 .. Len(q)
  OBVIOUS
<1>1. CommentEnd(q, i) = after[i + 2][1]
  BY DEF CommentEnd
<1>2. \E f : Is(f)
  <2>1. rank \in [D -> 0 .. N] /\ N \in Nat
    BY <1>0
  <2>2. ASSUME NEW j \in D, NEW f \in [D -> S] PROVE Body(j, f) \in S
    <3>1. Min({j - 1, Len(q)}) \in Int
      <4>1. j - 1 \in Int /\ Len(q) \in Int
        BY <1>0
      <4>2. Min({j - 1, Len(q)}) = IF j - 1 <= Len(q) THEN j - 1 ELSE Len(q)
        BY <4>1, OfTwo
      <4> QED BY <4>1, <4>2
    <3>2. j <= Len(q) => f[j + 1] \in S /\ f[j + 2] \in S
      <4>1. j <= Len(q) => j + 1 \in D /\ j + 2 \in D
        BY <1>0
      <4> HIDE DEF D, S
      <4> QED BY <4>1
    <3>3. ASSUME NEW depth \in Nat PROVE At(j, f, depth) \in Int
      <4>1. depth + 1 \in Nat /\ (depth # 0 => depth - 1 \in Nat)
        OBVIOUS
      <4>2. j > Len(q) <=> ~(j <= Len(q))
        BY <1>0
      <4> HIDE DEF D
      <4> QED BY <3>1, <3>2, <4>1, <4>2
    <3> HIDE DEF At
    <3> QED BY <3>3
  <2>3. F \in [D -> [[D -> S] -> S]]
    <3> HIDE DEF Body, D, S
    <3> QED BY <2>2
  <2>4. \A j \in D : \A f, g \in [D -> S] :
           (\A k \in D : rank[k] < rank[j] => f[k] = g[k]) => F[j][f] = F[j][g]
    <3> SUFFICES ASSUME NEW j \in D, NEW f \in [D -> S], NEW g \in [D -> S],
                        \A k \in D : rank[k] < rank[j] => f[k] = g[k]
                 PROVE  Body(j, f) = Body(j, g)
      <4> HIDE DEF Body, D, S, rank
      <4> QED OBVIOUS
    <3>1. j <= Len(q) => /\ j + 1 \in D /\ rank[j + 1] < rank[j]
                         /\ j + 2 \in D /\ rank[j + 2] < rank[j]
      BY <1>0
    <3>2. j <= Len(q) => f[j + 1] = g[j + 1] /\ f[j + 2] = g[j + 2]
      <4> HIDE DEF D, rank, S
      <4> QED BY <3>1
    <3>3. j > Len(q) <=> ~(j <= Len(q))
      BY <1>0
    <3>4. \A depth \in Nat : At(j, f, depth) = At(j, g, depth)
      <4> HIDE DEF D, S
      <4> QED BY <3>2, <3>3
    <3> HIDE DEF At
    <3> QED BY <3>4
  <2> HIDE DEF F, rank, D, N
  <2>5. PICK f \in [D -> S] : \A j \in D : f[j] = F[j][f]
    <3>1. S # {}
      <4>1. [n \in Nat |-> 0] \in S
        OBVIOUS
      <4> QED BY <4>1
    <3> HIDE DEF S
    <3>2. Grounded(D, S, N, rank, F)
      BY <2>1, <2>3, <2>4, <3>1 DEF Grounded
    <3> QED BY <3>2, Recursion
  <2>6. \A j \in D : f[j] = Body(j, f)
    <3> HIDE DEF Body, S
    <3> QED BY <2>5 DEF F
  <2> HIDE DEF Body, S
  <2> QED BY <2>6
<1>3. Is(after)
  BY <1>2
<1>4. \A j \in D : after[j] = Body(j, after)
  <2> HIDE DEF after, Body, D
  <2> QED BY <1>3
<1>5. \A j \in D : \A depth \in Nat : after[j][depth] = At(j, after, depth)
  <2> HIDE DEF after, At, D
  <2> QED BY <1>4
<1> HIDE DEF after
<1>6. Ending(q, i, after)
  BY <1>1, <1>5 DEF Ending
<1> QED BY <1>6

\* It ends behind its first two characters, or with the query.
LEMMA CommentEndBounds ==
    ASSUME NEW q \in Seq(Characters), NEW i \in DOMAIN q
    PROVE  CommentEnd(q, i) \in i .. Len(q)
<1>0. Len(q) \in Nat /\ DOMAIN q = 1 .. Len(q) /\ i \in 1 .. Len(q)
  OBVIOUS
<1>c. PICK after : Ending(q, i, after)
  BY CommentEndDef
<1> DEFINE Good == {j \in 1 .. Len(q) + 2 : j > i => \A depth \in Nat : after[j][depth] \in i .. Len(q)}
<1>1. ASSUME NEW j \in 1 .. Len(q) + 2, \A m \in j + 1 .. Len(q) + 2 : m \in Good PROVE j \in Good
  <2> SUFFICES ASSUME j > i, NEW depth \in Nat PROVE after[j][depth] \in i .. Len(q)
    OBVIOUS
  <2>1. j \in i .. Len(q) + 2
    BY <1>0
  <2>2. j <= Len(q) => j + 1 \in Good /\ j + 2 \in Good
    <3> HIDE DEF Good
    <3> QED BY <1>0, <1>1
  <2>3. j <= Len(q) =>
           \A d \in Nat : after[j + 1][d] \in i .. Len(q) /\ after[j + 2][d] \in i .. Len(q)
    BY <1>0, <2>2
  <2>4. Min({j - 1, Len(q)}) \in i .. Len(q)
    <3>1. j - 1 \in Int /\ Len(q) \in Int
      BY <1>0
    <3>2. Min({j - 1, Len(q)}) = IF j - 1 <= Len(q) THEN j - 1 ELSE Len(q)
      BY <3>1, OfTwo
    <3> QED BY <1>0, <3>2
  <2>5. depth + 1 \in Nat /\ (depth # 0 => depth - 1 \in Nat) /\ (j > Len(q) <=> ~(j <= Len(q)))
    BY <1>0
  <2> QED BY <1>c, <2>1, <2>3, <2>4, <2>5 DEF Ending
<1> HIDE DEF Good
<1>2. 1 .. Len(q) + 2 \subseteq Good
  <2>1. Len(q) + 2 \in Nat
    BY <1>0
  <2> QED BY <1>1, <2>1, Descending
<1>3. i + 2 \in Good /\ i + 2 > i
  BY <1>0, <1>2
<1> QED BY <1>3, <1>c DEF Good, Ending

\* The tag of a dollar quotation: two dollar signs around a name, or nothing.
LEMMA DollarTagIs ==
    ASSUME NEW q \in Seq(Characters), NEW i \in DOMAIN q, DollarTag(q, i) # <<>>
    PROVE  \E close \in i + 1 .. Len(q) :
              /\ DollarTag(q, i) = SubSeq(q, i, close)
              /\ Len(DollarTag(q, i)) = close - i + 1
              /\ \A k \in 1 .. close - i + 1 : DollarTag(q, i)[k] = q[i + k - 1]
              /\ q[close] = "$" /\ Char(q, i + 1) \notin Digits
              /\ \A k \in i + 1 .. close - 1 : q[k] \in Part
<1> DEFINE close == RunOf(q, i + 1, Part) + 1
<1>0. Len(q) \in Nat /\ DOMAIN q = 1 .. Len(q) /\ i \in 1 .. Len(q)
  OBVIOUS
<1>1. /\ RunOf(q, i + 1, Part) \in i .. Len(q)
      /\ \A k \in i + 1 .. RunOf(q, i + 1, Part) : q[k] \in Part
  <2>1. i + 1 \in 1 .. Len(q) + 1 /\ i + 1 - 1 = i
    BY <1>0
  <2> QED BY <2>1, RunOfIs
<1>2. /\ DollarTag(q, i) = SubSeq(q, i, close)
      /\ Char(q, close) = "$" /\ Char(q, i + 1) \notin Digits
  BY DEF DollarTag
<1> HIDE DEF close
<1>3. close \in i + 1 .. Len(q) + 1 /\ \A k \in i + 1 .. close - 1 : q[k] \in Part
  BY <1>0, <1>1 DEF close
<1>4. close \in i + 1 .. Len(q) /\ q[close] = "$"
  <2>1. close \in DOMAIN q /\ q[close] = "$"
    BY <1>2 DEF Char
  <2> QED BY <1>0, <1>3, <2>1
<1>5. /\ Len(SubSeq(q, i, close)) = close - i + 1
      /\ \A k \in 1 .. close - i + 1 : SubSeq(q, i, close)[k] = q[i + k - 1]
  BY <1>0, <1>4
<1> QED BY <1>2, <1>3, <1>4, <1>5

-----------------------------------------------------------------------------
(* How the PostgreSQL server reads a statement.                            *)

\* The number that digits spell.
LEMMA NumberIsNat ==
    ASSUME NEW word, Len(word) \in Nat, \A k \in 1 .. Len(word) : word[k] \in Digits
    PROVE  Number(word) \in Nat
<1> DEFINE D == 0 .. Len(word)
           Body(k, f) == IF k = 0 THEN 0 ELSE 10 * f[k - 1] + DigitOf[word[k]]
           Is(f) == f = [k \in D |-> Body(k, f)]
           upto == CHOOSE f : Is(f)
           F == [k \in D |-> [f \in [D -> Nat] |-> Body(k, f)]]
           rank == [k \in D |-> k]
           N == Len(word)
<1>1. Number(word) = upto[Len(word)]
  BY DEF Number
<1>2. \A k \in 1 .. N : DigitOf[word[k]] \in Nat
  BY DEF DigitOf
<1>3. \E f : Is(f)
  <2>1. rank \in [D -> 0 .. N] /\ N \in Nat
    OBVIOUS
  <2>2. ASSUME NEW k \in D, NEW f \in [D -> Nat] PROVE Body(k, f) \in Nat
    <3>1. CASE k = 0
      BY <3>1
    <3>2. CASE k # 0
      <4>1. k \in 1 .. N /\ k - 1 \in D
        BY <3>2
      <4>2. f[k - 1] \in Nat /\ DigitOf[word[k]] \in Nat
        BY <1>2, <4>1
      <4> QED BY <3>2, <4>2
    <3> QED BY <3>1, <3>2
  <2>3. F \in [D -> [[D -> Nat] -> Nat]]
    <3> HIDE DEF Body, D
    <3> QED BY <2>2
  <2>4. \A k \in D : \A f, g \in [D -> Nat] :
           (\A l \in D : rank[l] < rank[k] => f[l] = g[l]) => F[k][f] = F[k][g]
    <3> SUFFICES ASSUME NEW k \in D, NEW f \in [D -> Nat], NEW g \in [D -> Nat],
                        \A l \in D : rank[l] < rank[k] => f[l] = g[l]
                 PROVE  Body(k, f) = Body(k, g)
      <4> HIDE DEF Body, D, rank
      <4> QED OBVIOUS
    <3>1. k # 0 => k - 1 \in D /\ rank[k - 1] < rank[k]
      OBVIOUS
    <3>2. k # 0 => f[k - 1] = g[k - 1]
      <4> HIDE DEF D, rank
      <4> QED BY <3>1
    <3> QED BY <3>2
  <2> HIDE DEF F, rank, D, N
  <2>5. PICK f \in [D -> Nat] : \A k \in D : f[k] = F[k][f]
    <3>1. Grounded(D, Nat, N, rank, F)
      BY <2>1, <2>3, <2>4 DEF Grounded
    <3> QED BY <3>1, Recursion
  <2>6. \A k \in D : f[k] = Body(k, f)
    <3> HIDE DEF Body
    <3> QED BY <2>5 DEF F
  <2> HIDE DEF Body
  <2> QED BY <2>6
<1>4. Is(upto)
  BY <1>3
<1>5. \A k \in D : upto[k] = Body(k, upto)
  <2> HIDE DEF upto, Body, D
  <2> QED BY <1>4
<1> DEFINE Good == {k \in 0 .. N : upto[k] \in Nat}
<1>6. 0 \in Good
  <2> HIDE DEF upto
  <2> QED BY <1>5
<1>7. \A k \in 1 .. N : k - 1 \in Good => k \in Good
  <2> HIDE DEF upto
  <2> SUFFICES ASSUME NEW k \in 1 .. N, upto[k - 1] \in Nat PROVE upto[k] \in Nat
    OBVIOUS
  <2>1. upto[k] = 10 * upto[k - 1] + DigitOf[word[k]]
    BY <1>5
  <2> QED BY <1>2, <2>1
<1> HIDE DEF Good, upto
<1>8. 0 .. N \subseteq Good
  BY <1>6, <1>7, Upwards
<1> QED BY <1>1, <1>8 DEF Good

\* What the PostgreSQL server can be reading.
Tags(q) == {DollarTag(q, k) : k \in {j \in DOMAIN q : q[j] = "$"}} \ {<<>>}
PostgresStates(q) ==
    {s \in [in : Words \cup {"line", "block", "$", "'", "e'", "double"},
            skip : Nat, depth : Int, tag : {<<>>} \cup Tags(q)] : s.in = "$" => s.tag \in Tags(q)}

\* How it would read if nothing were behind an e'...': as the scanner does.
AloneInQuotes(q, s, i) ==
    LET quote == IF s.in = "double" THEN "double" ELSE "'"
    IN  IF Next2(q, i) = <<quote, quote>> THEN Passing(s, 1)
        ELSE IF q[i] = quote THEN Reading("code")
        ELSE IF q[i] = "\\" /\ s.in = "e'" THEN Passing(s, 1)
        ELSE s
AloneStep(q, s, i) ==
    CASE s.skip > 0 -> Passing(s, s.skip - 1)
      [] s.skip = 0 /\ s.in \in Words -> PostgresInCode(q, s, i)
      [] s.skip = 0 /\ s.in = "line" -> InLine(q, s, i)
      [] s.skip = 0 /\ s.in = "block" -> PostgresInBlock(q, s, i)
      [] s.skip = 0 /\ s.in = "$" -> InDollars(q, s, i)
      [] s.skip = 0 /\ s.in \in {"'", "e'", "double"} -> AloneInQuotes(q, s, i)

\* Every step of it leads to a state it can be in.
LEMMA AloneStepTyped ==
    ASSUME NEW q \in Seq(Characters), NEW s \in PostgresStates(q), NEW i \in DOMAIN q
    PROVE  AloneStep(q, s, i) \in PostgresStates(q)
<1>1. \A x \in Words \cup {"line", "block", "'", "e'", "double"} :
         \A n \in Nat, d \in Int : State(x, n, d, <<>>) \in PostgresStates(q)
  BY DEF PostgresStates, Words, State
<1>2. \A x \in Words \cup {"line", "block", "'", "e'", "double"} : Reading(x) \in PostgresStates(q)
  BY <1>1 DEF Reading
<1>3. \A tag \in Tags(q) : Len(tag) \in Nat \ {0, 1}
  <2>1. ASSUME NEW k \in DOMAIN q, DollarTag(q, k) # <<>> PROVE Len(DollarTag(q, k)) \in Nat \ {0, 1}
    <3>1. PICK close \in k + 1 .. Len(q) : Len(DollarTag(q, k)) = close - k + 1
      BY <2>1, DollarTagIs
    <3> QED BY <3>1
  <2> QED BY <2>1 DEF Tags
<1>4. /\ s.in \in Words \cup {"line", "block", "$", "'", "e'", "double"}
      /\ s.skip \in Nat /\ s.depth \in Int /\ s.tag \in {<<>>} \cup Tags(q)
      /\ s.in = "$" => s.tag \in Tags(q)
  BY DEF PostgresStates
<1>6. \A n \in Nat : Passing(s, n) \in PostgresStates(q)
  BY <1>4 DEF PostgresStates, Passing, State
<1>7. CASE s.skip > 0
  BY <1>4, <1>6, <1>7 DEF AloneStep
<1>8. CASE s.skip = 0 /\ s.in \in Words
  <2>1. AloneStep(q, s, i) = PostgresInCode(q, s, i)
    BY <1>8 DEF AloneStep, Words
  <2>2. State("block", 1, 1, <<>>) \in PostgresStates(q)
    BY DEF PostgresStates, State
  <2>3. ASSUME q[i] = "$", DollarTag(q, i) # <<>>
        PROVE  State("$", Len(DollarTag(q, i)) - 1, 0, DollarTag(q, i)) \in PostgresStates(q)
    <3>1. DollarTag(q, i) \in Tags(q)
      BY <2>3 DEF Tags
    <3>2. Len(DollarTag(q, i)) - 1 \in Nat
      BY <1>3, <3>1
    <3> QED BY <3>1, <3>2 DEF PostgresStates, State
  <2> QED BY <1>2, <2>1, <2>2, <2>3 DEF PostgresInCode, Words
<1>9. CASE s.skip = 0 /\ s.in = "line"
  <2>1. AloneStep(q, s, i) = InLine(q, s, i)
    BY <1>9 DEF AloneStep, Words
  <2> QED BY <1>2, <2>1 DEF InLine, Words
<1>10. CASE s.skip = 0 /\ s.in = "block"
  <2>1. AloneStep(q, s, i) = PostgresInBlock(q, s, i)
    BY <1>10 DEF AloneStep, Words
  <2>2. Passing(Reading("code"), 1) \in PostgresStates(q)
    BY <1>1 DEF Passing, Reading, State, Words
  <2>3. \A d \in Int : State("block", 1, d, <<>>) \in PostgresStates(q)
    BY <1>1
  <2> QED BY <1>4, <2>1, <2>2, <2>3 DEF PostgresInBlock
<1>11. CASE s.skip = 0 /\ s.in = "$"
  <2>1. AloneStep(q, s, i) = InDollars(q, s, i)
    BY <1>11 DEF AloneStep, Words
  <2>2. Len(s.tag) - 1 \in Nat
    BY <1>3, <1>4, <1>11
  <2>3. Passing(Reading("code"), Len(s.tag) - 1) \in PostgresStates(q)
    BY <1>1, <2>2 DEF Passing, Reading, State, Words
  <2> QED BY <2>1, <2>3 DEF InDollars
<1>12. CASE s.skip = 0 /\ s.in \in {"'", "e'", "double"}
  <2>1. AloneStep(q, s, i) = AloneInQuotes(q, s, i)
    BY <1>12 DEF AloneStep, Words
  <2> QED BY <1>2, <1>6, <2>1 DEF AloneInQuotes, Words
<1> QED BY <1>4, <1>7, <1>8, <1>9, <1>10, <1>11, <1>12

\* An operator for the steps, to cite without the definition of the whole.
ReadsFrom(q, at) ==
    /\ at[1] = Reading("code")
    /\ \A i \in 1 .. Len(q) : at[i + 1] = AloneStep(q, at[i], i)
    /\ \A i \in 1 .. Len(q) + 1 : at[i] \in PostgresStates(q)

\* What the state of the server says of the characters before.
Behind(q, s, k) ==
    /\ s.in \in {"e", "word"} => s.skip = 0 /\ k > 1 /\ q[k - 1] \in Part \cup {"$"}
    /\ s.in = "e" => q[k - 1] = "e" /\ Char(q, k - 2) \notin Part
    /\ s.in = "number" => s.skip = 0 /\ k > 1 /\ q[k - 1] \in Digits
    /\ s.in = "code" /\ s.skip = 0 => Char(q, k - 1) \notin Part
    /\ s.in = "code" /\ s.skip > 0 => Char(q, k + s.skip - 1) \in {"/", "$"}

\* A tag begins and ends with a dollar sign.
LEMMA TagIs ==
    ASSUME NEW q \in Seq(Characters), NEW tag \in Tags(q)
    PROVE  /\ Len(tag) \in Nat \ {0, 1} /\ DOMAIN tag = 1 .. Len(tag)
           /\ tag[1] = "$" /\ tag[Len(tag)] = "$"
<1>a. PICK i \in DOMAIN q : q[i] = "$" /\ tag = DollarTag(q, i) /\ DollarTag(q, i) # <<>>
  BY DEF Tags
<1>b. PICK close \in i + 1 .. Len(q) :
              /\ DollarTag(q, i) = SubSeq(q, i, close)
              /\ Len(DollarTag(q, i)) = close - i + 1
              /\ \A k \in 1 .. close - i + 1 : DollarTag(q, i)[k] = q[i + k - 1]
              /\ q[close] = "$" /\ Char(q, i + 1) \notin Digits
              /\ \A k \in i + 1 .. close - 1 : q[k] \in Part
  BY <1>a, DollarTagIs
<1>0. Len(q) \in Nat /\ i \in 1 .. Len(q) /\ close \in i + 1 .. Len(q)
  OBVIOUS
<1> DEFINE n == close - i + 1
<1>1. n \in Nat \ {0, 1} /\ 1 \in 1 .. n /\ n \in 1 .. n /\ i + 1 - 1 = i /\ i + n - 1 = close
  BY <1>0
<1>2. tag = SubSeq(q, i, close) /\ Len(tag) = n /\ \A k \in 1 .. n : tag[k] = q[i + k - 1]
  BY <1>a, <1>b
<1> HIDE DEF n
<1>3. tag[1] = "$" /\ tag[n] = "$"
  BY <1>a, <1>b, <1>1, <1>2
<1>4. DOMAIN tag = 1 .. Len(tag)
  <2>1. tag \in Seq(Characters)
    <3>1. \A k \in i .. close : q[k] \in Characters
      BY <1>0
    <3> QED BY <1>0, <1>2
  <2> QED BY <2>1
<1> QED BY <1>1, <1>2, <1>3, <1>4

\* Two characters are a pair when each is its own.
LEMMA Pairs ==
    ASSUME NEW q, NEW i
    PROVE  /\ Next2(q, i) = <<"/", "*">> <=> Char(q, i) = "/" /\ Char(q, i + 1) = "*"
           /\ Next2(q, i) = <<"*", "/">> <=> Char(q, i) = "*" /\ Char(q, i + 1) = "/"
           /\ Next2(q, i) = <<"-", "-">> <=> Char(q, i) = "-" /\ Char(q, i + 1) = "-"
           /\ Next2(q, i) = <<"?", "?">> <=> Char(q, i) = "?" /\ Char(q, i + 1) = "?"
           /\ Next2(q, i) = <<"'", "'">> <=> Char(q, i) = "'" /\ Char(q, i + 1) = "'"
           /\ Next2(q, i) = <<"double", "double">> <=> Char(q, i) = "double" /\ Char(q, i + 1) = "double"
<1> \A x, y, a, b : <<x, y>> = <<a, b>> <=> x = a /\ y = b
  OBVIOUS
<1> QED BY DEF Next2

\* Behind() holds after one character more.
LEMMA BehindStep ==
    ASSUME NEW q \in Seq(Characters), NEW s \in PostgresStates(q), NEW i \in 1 .. Len(q), Behind(q, s, i)
    PROVE  Behind(q, AloneStep(q, s, i), i + 1)
<1> DEFINE t == AloneStep(q, s, i)
<1> SUFFICES Behind(q, t, i + 1)
  OBVIOUS
<1>0. /\ Len(q) \in Nat /\ DOMAIN q = 1 .. Len(q) /\ i \in DOMAIN q
      /\ i + 1 > 1 /\ i + 1 - 1 = i /\ i + 1 - 2 = i - 1 /\ Char(q, i) = q[i]
  <2>1. Len(q) \in Nat /\ DOMAIN q = 1 .. Len(q)
    OBVIOUS
  <2> QED BY <2>1 DEF Char
<1>1. /\ s.in \in Words \cup {"line", "block", "$", "'", "e'", "double"}
      /\ s.skip \in Nat /\ s.depth \in Int
      /\ s.in = "$" => s.tag \in Tags(q)
  BY DEF PostgresStates
<1>2. ASSUME NEW x \in {"line", "block", "$", "'", "e'", "double"}, NEW n, NEW d, NEW g
      PROVE  Behind(q, State(x, n, d, g), i + 1)
  BY DEF Behind, State
<1>3. \A x \in {"line", "'", "e'", "double"} : Behind(q, Reading(x), i + 1)
  BY <1>2 DEF Reading
<1>4. q[i] \notin Part => Behind(q, Reading("code"), i + 1)
  BY <1>0 DEF Behind, Reading, State
<1>5. q[i] \in Digits => Behind(q, Reading("number"), i + 1)
  BY <1>0 DEF Behind, Reading, State
<1>6. q[i] \in Part \cup {"$"} => Behind(q, Reading("word"), i + 1)
  BY <1>0 DEF Behind, Reading, State
<1>7. CASE s.skip > 0
  <2>1. t = Passing(s, s.skip - 1) /\ s.in \notin {"e", "word", "number"}
    BY <1>1, <1>7 DEF AloneStep, Behind
  <2>2. CASE s.in = "code"
    <3>1. Char(q, i + s.skip - 1) \in {"/", "$"}
      BY <1>7, <2>2 DEF Behind
    <3>2. t.in = "code" /\ t.skip = s.skip - 1
      BY <2>1, <2>2 DEF Passing, State
    <3> HIDE DEF t
    <3> i \in Int /\ s.skip \in Int
      BY <1>0, <1>1
    <3>3. i + 1 + t.skip - 1 = i + s.skip - 1
      BY <3>2
    <3>4. t.skip = 0 => i + 1 - 1 = i + s.skip - 1
      BY <3>2
    <3>5. \A x \in {"/", "$"} : x \notin Part
      BY DEF Part, Letters, Digits
    <3>6. Char(q, i + 1 + t.skip - 1) \in {"/", "$"}
      BY <3>1, <3>3
    <3>7. t.skip = 0 => Char(q, i + 1 - 1) \notin Part
      BY <3>1, <3>4, <3>5
    <3> QED BY <3>2, <3>6, <3>7 DEF Behind
  <2>3. CASE s.in # "code"
    <3>1. s.in \in {"line", "block", "$", "'", "e'", "double"}
      BY <1>1, <2>1, <2>3 DEF Words
    <3> QED BY <1>2, <2>1, <3>1 DEF Passing
  <2> QED BY <2>2, <2>3
<1>8. CASE s.skip = 0 /\ s.in \in Words
  <2>1. t = PostgresInCode(q, s, i)
    BY <1>8 DEF AloneStep, Words
  <2>2. s.in = "code" => Char(q, i - 1) \notin Part
    BY <1>8 DEF Behind
  <2>3. s.in = "code" /\ q[i] = "e" => Behind(q, Reading("e"), i + 1)
    BY <1>0, <2>2 DEF Behind, Reading, State, Part, Letters
  <2>4. CASE s.in \in {"e", "word"} /\ q[i] \in Part \cup {"$"}
    BY <1>6, <2>1, <2>4 DEF PostgresInCode
  <2>5. CASE ~(s.in \in {"e", "word"} /\ q[i] \in Part \cup {"$"}) /\ q[i] \in Letters
    <3>1. t = Reading(IF q[i] = "e" /\ s.in # "number" THEN "e" ELSE "word")
      BY <2>1, <2>5 DEF PostgresInCode, Letters, Digits
    <3>2. s.in \notin {"e", "word"}
      BY <2>5 DEF Part
    <3>3. s.in # "number" => s.in = "code"
      BY <1>8, <3>2 DEF Words
    <3>4. q[i] \in Part
      BY <2>5 DEF Part
    <3> QED BY <1>6, <2>3, <3>1, <3>3, <3>4
  <2>6. CASE ~(s.in \in {"e", "word"} /\ q[i] \in Part \cup {"$"}) /\ q[i] \in Digits
    <3>1. t = Reading("number")
      BY <2>1, <2>6 DEF PostgresInCode, Letters, Digits
    <3> QED BY <1>5, <2>6, <3>1
  <2>7. CASE ~(s.in \in {"e", "word"} /\ q[i] \in Part \cup {"$"}) /\ q[i] \notin Part
    <3>1. \/ t = Reading("'") \/ t = Reading("e'") \/ t = Reading("double") \/ t = Reading("line")
          \/ t = State("block", 1, 1, <<>>) \/ t = Reading("code")
          \/ t = State("$", Len(DollarTag(q, i)) - 1, 0, DollarTag(q, i))
      BY <2>1, <2>7 DEF PostgresInCode, Part
    <3> HIDE DEF t
    <3> QED BY <1>2, <1>3, <1>4, <2>7, <3>1
  <2> QED BY <2>4, <2>5, <2>6, <2>7 DEF Part
<1>9. CASE s.skip = 0 /\ s.in = "line"
  <2>1. t = InLine(q, s, i)
    BY <1>9 DEF AloneStep, Words
  <2>2. CASE q[i] = "\n"
    BY <1>4, <2>1, <2>2 DEF InLine, Part, Letters, Digits
  <2>3. CASE q[i] # "\n"
    BY <1>9, <2>1, <2>3 DEF InLine, Behind
  <2> QED BY <2>2, <2>3
<1>10. CASE s.skip = 0 /\ s.in = "block"
  <2>1. t = PostgresInBlock(q, s, i)
    BY <1>10 DEF AloneStep, Words
  <2>2. CASE Next2(q, i) = <<"*", "/">> /\ t = Passing(Reading("code"), 1)
    <3>1. Char(q, i + 1) = "/"
      <4> HIDE DEF t
      <4> QED BY <2>2, Pairs
    <3>2. t.in = "code" /\ t.skip = 1
      BY <2>2 DEF Passing, State, Reading
    <3>3. i + 1 + 1 - 1 = i + 1
      OBVIOUS
    <3> HIDE DEF t
    <3> QED BY <3>1, <3>2, <3>3 DEF Behind
  <2>3. CASE ~(Next2(q, i) = <<"*", "/">> /\ t = Passing(Reading("code"), 1))
    <3>1. t = State("block", 1, s.depth + 1, <<>>) \/ t = s \/ t = State("block", 1, s.depth - 1, <<>>)
      BY <2>1, <2>3 DEF PostgresInBlock
    <3> QED BY <1>2, <1>10, <3>1 DEF Behind
  <2> QED BY <2>2, <2>3
<1>11. CASE s.skip = 0 /\ s.in = "$"
  <2>1. t = InDollars(q, s, i)
    BY <1>11 DEF AloneStep, Words
  <2>2. CASE Spells(q, i, s.tag)
    <3>1. /\ Len(s.tag) \in Nat \ {0, 1} /\ DOMAIN s.tag = 1 .. Len(s.tag)
          /\ s.tag[Len(s.tag)] = "$"
      BY <1>1, <1>11, TagIs
    <3>2. Char(q, i + Len(s.tag) - 1) = "$"
      <4>1. Len(s.tag) \in DOMAIN s.tag
        BY <3>1
      <4> QED BY <2>2, <3>1, <4>1 DEF Spells
    <3>3. t.in = "code" /\ t.skip = Len(s.tag) - 1
      BY <2>1, <2>2 DEF InDollars, Passing, State, Reading
    <3>4. t.skip > 0 /\ i + 1 + t.skip - 1 = i + Len(s.tag) - 1
      <4> DEFINE l == Len(s.tag)
      <4>1. l \in Nat \ {0, 1} /\ t.skip = l - 1
        BY <3>1, <3>3
      <4> HIDE DEF t, l
      <4>2. t.skip > 0 /\ i + 1 + t.skip - 1 = i + l - 1
        BY <4>1
      <4> QED BY <4>2 DEF l
    <3> HIDE DEF t
    <3>5. t.in # "e" /\ t.in # "word" /\ t.in # "number" /\ t.skip # 0
      <4>1. t.skip \in Nat \ {0}
        <5> HIDE DEF t
        <5> QED BY <3>1, <3>3
      <4> HIDE DEF t
      <4> QED BY <3>3, <4>1
    <3>6. Char(q, i + 1 + t.skip - 1) = "$"
      BY <3>2, <3>4
    <3> QED BY <3>5, <3>6 DEF Behind
  <2>3. CASE ~Spells(q, i, s.tag)
    BY <1>11, <2>1, <2>3 DEF InDollars, Behind
  <2> QED BY <2>2, <2>3
<1>12. CASE s.skip = 0 /\ s.in \in {"'", "e'", "double"}
  <2>1. t = AloneInQuotes(q, s, i)
    BY <1>12 DEF AloneStep, Words
  <2>2. CASE t = Passing(s, 1) \/ t = s
    BY <1>2, <1>12, <2>2 DEF Passing, Behind
  <2>3. CASE ~(t = Passing(s, 1) \/ t = s)
    <3>1. t = Reading("code") /\ q[i] \in {"'", "double"}
      BY <2>1, <2>3 DEF AloneInQuotes
    <3> QED BY <1>4, <3>1 DEF Part, Letters, Digits
  <2> QED BY <2>2, <2>3
<1> QED BY <1>1, <1>7, <1>8, <1>9, <1>10, <1>11, <1>12

\* It says so of every character of a statement.
LEMMA BehindAll ==
    ASSUME NEW q \in Seq(Characters), NEW at, ReadsFrom(q, at)
    PROVE  \A i \in 1 .. Len(q) + 1 : Behind(q, at[i], i)
<1> DEFINE Good == {n \in 0 .. Len(q) : Behind(q, at[n + 1], n + 1)}
<1>0. Len(q) \in Nat /\ DOMAIN q = 1 .. Len(q)
  OBVIOUS
<1>1. 0 \in Good
  <2>1. Behind(q, Reading("code"), 1)
    BY <1>0 DEF Behind, Reading, State, Char, Part, Letters, Digits
  <2> QED BY <2>1 DEF ReadsFrom
<1>2. ASSUME NEW n \in 1 .. Len(q), n - 1 \in Good PROVE n \in Good
  <2>1. Behind(q, at[n], n)
    BY <1>2
  <2>2. Behind(q, AloneStep(q, at[n], n), n + 1)
    BY <1>0, <2>1, BehindStep DEF ReadsFrom
  <2> QED BY <2>2 DEF ReadsFrom
<1> HIDE DEF Good
<1>3. 0 .. Len(q) \subseteq Good
  BY <1>0, <1>1, <1>2, Upwards
<1> SUFFICES ASSUME NEW i \in 1 .. Len(q) + 1 PROVE Behind(q, at[i], i)
  OBVIOUS
<1>4. i - 1 \in Good
  BY <1>0, <1>3
<1> QED BY <1>0, <1>4 DEF Good

-----------------------------------------------------------------------------
(* What countPostgresPlaceholders() jumps over is one thing for the server. *)

\* A query the server reads as at, with an e'...' only where no dollar sign is
\* before it.
Reads(q, at) ==
    /\ q \in Seq(Characters) /\ ReadsFrom(q, at)
    /\ \A i \in DOMAIN q : q[i] = "'" /\ at[i].in = "e" => Char(q, i - 2) # "$"
\* Where the scanner of the PostgreSQL lane looks for the next thing, the server
\* is between two things.
Fresh(q, s, i) ==
    i <= Len(q) => /\ s.skip = 0 /\ s.in \in Words
                   /\ s.in \in {"e", "word"} => q[i] \notin Part \cup {"$"}
\* From i to l there is one thing, with no parameter behind its first character.
Passed(q, at, i, l) ==
    /\ l \in i .. Len(q) /\ Fresh(q, at[l + 1], l + 1)
    /\ \A k \in i + 1 .. l :
          ~(Numbered(q, k) /\ at[k].in \in {"code", "number"} /\ at[k].skip = 0)

\* Both see an e'...' in the same places.
LEMMA EscapesIff ==
    ASSUME NEW q, NEW at, Reads(q, at), NEW i \in DOMAIN q, Fresh(q, at[i], i), q[i] = "'"
    PROVE  Escapes(q, i) = IF at[i].in = "e" THEN {"\\"} ELSE {}
<1>0. q \in Seq(Characters) /\ Len(q) \in Nat /\ DOMAIN q = 1 .. Len(q) /\ i \in 1 .. Len(q)
  BY DEF Reads
<1>1. \A k \in 1 .. Len(q) + 1 : Behind(q, at[k], k)
  BY BehindAll DEF Reads
<1>2. ASSUME at[i].in = "e" PROVE Char(q, i - 1) = "e" /\ Char(q, i - 2) \notin Part \cup {"$"}
  <2>1. Behind(q, at[i], i)
    BY <1>0, <1>1
  <2>2. i - 1 \in DOMAIN q /\ q[i - 1] = "e" /\ Char(q, i - 2) \notin Part
    BY <1>0, <1>2, <2>1 DEF Behind
  <2>3. Char(q, i - 2) # "$"
    BY <1>2 DEF Reads
  <2> QED BY <2>2, <2>3 DEF Char
<1>3. ASSUME Char(q, i - 1) = "e", Char(q, i - 2) \notin Part \cup {"$"} PROVE at[i].in = "e"
  <2> DEFINE k == i - 1
             s == at[k]
  <2>1. k \in DOMAIN q /\ k \in 1 .. Len(q) /\ q[k] = "e" /\ k + 1 = i /\ k - 1 = i - 2
    <3>1. i - 1 \in DOMAIN q /\ q[i - 1] = "e"
      BY <1>3 DEF Char
    <3> QED BY <1>0, <3>1
  <2>2. at[i] = AloneStep(q, s, k) /\ s \in PostgresStates(q)
    BY <1>0, <2>1 DEF Reads, ReadsFrom
  <2>3. at[i].in \in Words /\ at[i].skip = 0
    BY <1>0 DEF Fresh
  <2>4. Behind(q, s, k) /\ Char(q, k - 1) \notin Part \cup {"$"}
    BY <1>0, <1>1, <1>3, <2>1
  <2> HIDE DEF s, k
  <2>5. /\ s.in \in Words \cup {"line", "block", "$", "'", "e'", "double"}
        /\ s.skip \in Nat
        /\ s.in = "$" => s.tag \in Tags(q)
    BY <2>2 DEF PostgresStates
  <2>6. CASE s.skip > 0
    <3>1. at[i] = Passing(s, s.skip - 1)
      BY <2>2, <2>6 DEF AloneStep
    <3>2. s.in \in Words /\ s.skip = 1
      BY <2>3, <2>5, <2>6, <3>1 DEF Passing, State
    <3>3. s.in = "code"
      BY <2>4, <3>2 DEF Behind, Words
    <3>4. Char(q, k + 1 - 1) \in {"/", "$"}
      BY <2>4, <2>6, <3>2, <3>3 DEF Behind
    <3>5. k + 1 - 1 = k /\ Char(q, k) = "e"
      BY <2>1 DEF Char
    <3> QED BY <3>4, <3>5
  <2>7. CASE s.skip = 0 /\ s.in \in Words
    <3>1. s.in # "number" /\ s.in # "e" /\ s.in # "word"
      <4>1. s.in \in {"e", "word", "number"} => Char(q, k - 1) \in Part \cup {"$"}
        <5> SUFFICES ASSUME s.in \in {"e", "word", "number"} PROVE Char(q, k - 1) \in Part \cup {"$"}
          OBVIOUS
        <5>1. k > 1 /\ q[k - 1] \in Part \cup {"$"}
          BY <2>4 DEF Behind, Part
        <5>2. k - 1 \in DOMAIN q
          BY <1>0, <2>1, <5>1
        <5> QED BY <5>1, <5>2 DEF Char
      <4> QED BY <2>4, <4>1
    <3>2. at[i] = PostgresInCode(q, s, k)
      BY <2>2, <2>7 DEF AloneStep, Words
    <3>3. at[i] = Reading("e")
      BY <2>1, <3>1, <3>2 DEF PostgresInCode, Letters, Digits
    <3> QED BY <3>3 DEF Reading, State
  <2>8. CASE s.skip = 0 /\ s.in \in {"line", "block", "$", "'", "e'", "double"}
    <3>1. at[i] = s \/ at[i].in = "block" \/ at[i] = Passing(s, 1)
      <4>1. CASE s.in = "line"
        <5>1. at[i] = InLine(q, s, k)
          BY <2>2, <2>8, <4>1 DEF AloneStep, Words
        <5> QED BY <2>1, <5>1 DEF InLine
      <4>2. CASE s.in = "block"
        <5>1. at[i] = PostgresInBlock(q, s, k)
          BY <2>2, <2>8, <4>2 DEF AloneStep, Words
        <5>2. Next2(q, k) # <<"*", "/">>
          <6>1. Char(q, k) # "*"
            BY <2>1 DEF Char
          <6> QED BY <6>1, Pairs
        <5> QED BY <5>1, <5>2 DEF PostgresInBlock, State
      <4>3. CASE s.in = "$"
        <5>1. at[i] = InDollars(q, s, k)
          BY <2>2, <2>8, <4>3 DEF AloneStep, Words
        <5>2. /\ Len(s.tag) \in Nat \ {0, 1} /\ DOMAIN s.tag = 1 .. Len(s.tag)
              /\ s.tag[1] = "$"
          BY <2>5, <4>3, <1>0, TagIs
        <5>3. 1 \in DOMAIN s.tag /\ k + 1 - 1 = k
          BY <2>1, <5>2
        <5>4. Char(q, k) = "e"
          BY <2>1 DEF Char
        <5>5. ~Spells(q, k, s.tag)
          BY <5>2, <5>3, <5>4 DEF Spells
        <5> QED BY <5>1, <5>5 DEF InDollars
      <4>4. CASE s.in \in {"'", "e'", "double"}
        <5>1. at[i] = AloneInQuotes(q, s, k)
          BY <2>2, <2>8, <4>4 DEF AloneStep, Words
        <5> QED BY <2>1, <5>1 DEF AloneInQuotes
      <4> QED BY <2>8, <4>1, <4>2, <4>3, <4>4
    <3>2. at[i].in \notin Words
      BY <2>8, <3>1 DEF Passing, State, Words
    <3> QED BY <2>3, <3>2
  <2> QED BY <2>5, <2>6, <2>7, <2>8
<1> QED BY <1>2, <1>3 DEF Escapes

\* The first character of a thing says what it is, the second sometimes.
LEMMA PostgresSpanIs ==
    ASSUME NEW q, NEW i \in DOMAIN q, NEW tag
    PROVE  /\ q[i] = "'" => PostgresSpan(q, i, tag) = QuotedEnd(q, i, Escapes(q, i))
           /\ q[i] = "double" => PostgresSpan(q, i, tag) = QuotedEnd(q, i, {})
           /\ q[i] \in Letters => PostgresSpan(q, i, tag) = RunOf(q, i, Part \cup {"$"})
           /\ Next2(q, i) = <<"-", "-">> => PostgresSpan(q, i, tag) = LineEnd(q, i + 1)
           /\ Next2(q, i) = <<"/", "*">> => PostgresSpan(q, i, tag) = CommentEnd(q, i)
           /\ Numbered(q, i) => PostgresSpan(q, i, tag) = RunOf(q, i + 1, Digits)
           /\ q[i] = "$" /\ ~Numbered(q, i) /\ tag # <<>> => PostgresSpan(q, i, tag) = BodyEnd(q, i, tag)
           /\ \/ q[i] \notin Letters \cup {"'", "double", "-", "/", "$"}
              \/ q[i] = "-" /\ Next2(q, i) # <<"-", "-">>
              \/ q[i] = "/" /\ Next2(q, i) # <<"/", "*">>
              \/ q[i] = "$" /\ ~Numbered(q, i) /\ tag = <<>>
              => PostgresSpan(q, i, tag) = i
<1>1. Char(q, i) = q[i]
  BY DEF Char
<1>2. /\ Next2(q, i) = <<"-", "-">> => q[i] = "-"
      /\ Next2(q, i) = <<"/", "*">> => q[i] = "/"
      /\ Numbered(q, i) => q[i] = "$"
  BY <1>1, Pairs DEF Numbered
<1>3. Letters = {"a", "e"}
  BY DEF Letters
<1> QED BY <1>2, <1>3 DEF PostgresSpan

\* A quoted text or identifier.
LEMMA QuoteSpan ==
    ASSUME NEW q, NEW at, Reads(q, at), NEW i \in DOMAIN q, Fresh(q, at[i], i), q[i] \in {"'", "double"}
    PROVE  Passed(q, at, i, PostgresSpan(q, i, DollarTag(q, i)))
<1> DEFINE l == PostgresSpan(q, i, DollarTag(q, i))
           what == IF q[i] = "double" THEN "double" ELSE IF at[i].in = "e" THEN "e'" ELSE "'"
           escapes == IF what = "e'" THEN {"\\"} ELSE {}
<1>0. q \in Seq(Characters) /\ Len(q) \in Nat /\ DOMAIN q = 1 .. Len(q) /\ i \in 1 .. Len(q)
  BY DEF Reads
<1>1. l = QuotedEnd(q, i, escapes)
  <2>1. CASE q[i] = "'"
    <3>1. Escapes(q, i) = escapes
      BY <2>1, EscapesIff
    <3>2. l = QuotedEnd(q, i, Escapes(q, i))
      BY <2>1, PostgresSpanIs
    <3> QED BY <3>1, <3>2
  <2>2. CASE q[i] = "double"
    <3>1. l = QuotedEnd(q, i, {})
      BY <2>2, PostgresSpanIs
    <3>2. escapes = {}
      BY <2>2
    <3> QED BY <3>1, <3>2
  <2> QED BY <2>1, <2>2
<1>2. at[i + 1] = Reading(what)
  <2>1. at[i].in \in Words /\ at[i].skip = 0 /\ (at[i].in \in {"e", "word"} => q[i] \notin Part \cup {"$"})
    BY <1>0 DEF Fresh
  <2>2. at[i + 1] = PostgresInCode(q, at[i], i)
    BY <1>0, <2>1 DEF Reads, ReadsFrom, AloneStep, Words
  <2> QED BY <2>1, <2>2 DEF PostgresInCode, Part, Letters, Digits
<1>c. PICK close : Closing(q, i, escapes, close)
  <2> HIDE DEF escapes
  <2> QED BY <1>0, QuotedEndDef
<1>3. /\ what \in {"'", "e'", "double"}
      /\ what = "double" => q[i] = "double"
      /\ what # "double" => q[i] = "'"
  OBVIOUS
<1> HIDE DEF what, l
<1> DEFINE Closes(j) == /\ \A k \in j .. close[j] : at[k].in = what
                        /\ close[j] = Len(q) \/ at[close[j] + 1] = Reading("code")
           Good == {j \in 1 .. Len(q) + 2 : j > i /\ j <= Len(q) + 1 /\ at[j] = Reading(what) => Closes(j)}
<1>4. ASSUME NEW j \in 1 .. Len(q) + 2, \A m \in j + 1 .. Len(q) + 2 : m \in Good PROVE j \in Good
  <2> SUFFICES ASSUME j > i, j <= Len(q) + 1, at[j] = Reading(what) PROVE Closes(j)
    OBVIOUS
  <2>0. at[j].in = what /\ at[j].skip = 0
    BY DEF Reading, State
  <2>1. CASE j = Len(q) + 1
    <3>1. close[j] = Len(q)
      BY <1>0, <1>c, <2>1 DEF Closing
    <3> QED BY <1>0, <2>1, <3>1
  <2>2. CASE j # Len(q) + 1
    <3>0. j \in 1 .. Len(q) /\ j \in DOMAIN q /\ ~(j > Len(q))
      <4>1. j \in 1 .. Len(q)
        BY <1>0, <2>2
      <4> QED BY <1>0, <4>1
    <3>1. at[j + 1] = AloneInQuotes(q, at[j], j)
      BY <1>3, <2>0, <3>0 DEF Reads, ReadsFrom, AloneStep, Words
    <3>2. Char(q, j) = q[j] /\ (Char(q, j + 1) # "" => j + 1 \in DOMAIN q)
      BY <3>0 DEF Char
    <3>3. close[j] = IF q[j] \in escapes THEN close[j + 2]
                     ELSE IF q[j] # q[i] THEN close[j + 1]
                     ELSE IF Char(q, j + 1) = q[i] THEN close[j + 2]
                     ELSE j
      <4> HIDE DEF escapes
      <4> QED BY <1>0, <1>c, <3>0 DEF Closing
    <3>4. ASSUME at[j + 1] = Passing(at[j], 1), close[j] = close[j + 2] PROVE Closes(j)
      <4>0. at[j + 1].in = what /\ at[j + 1].skip = 1
        BY <2>0, <3>4 DEF Passing, State
      <4>1. CASE j = Len(q)
        <5>1. close[j] = Len(q)
          <6>1. j + 2 \in i + 1 .. Len(q) + 2 /\ j + 2 > Len(q)
            BY <1>0, <4>1
          <6>2. close[j + 2] = Len(q)
            <7> HIDE DEF escapes
            <7> QED BY <1>c, <6>1 DEF Closing
          <6> QED BY <3>4, <6>2
        <5> QED BY <1>0, <2>0, <4>1, <5>1
      <4>2. CASE j # Len(q)
        <5>0. j + 1 \in 1 .. Len(q) /\ j + 2 \in j + 1 .. Len(q) + 2 /\ j + 2 > i /\ j + 2 <= Len(q) + 1
              /\ j + 1 + 1 = j + 2
          BY <1>0, <3>0, <4>2
        <5>1. at[j + 2] = AloneStep(q, at[j + 1], j + 1)
          BY <5>0 DEF Reads, ReadsFrom
        <5>2. at[j + 2] = Passing(at[j + 1], 0)
          BY <4>0, <5>1 DEF AloneStep
        <5>3. at[j + 2] = Reading(what)
          BY <3>4, <5>2 DEF Passing, State, Reading
        <5>4. Closes(j + 2)
          BY <1>4, <5>0, <5>3
        <5>5. \A k \in j .. close[j] : k = j \/ k = j + 1 \/ k \in j + 2 .. close[j]
          BY <3>0
        <5> QED BY <2>0, <3>4, <4>0, <5>4, <5>5
      <4> QED BY <4>1, <4>2
    <3>5. CASE q[j] \in escapes
      <4>1. at[j + 1] = Passing(at[j], 1)
        <5>1. q[j] # "'" /\ q[j] # "double"
          BY <3>5
        <5>2. Next2(q, j) # <<"'", "'">>
          BY <3>2, <5>1, Pairs
        <5> QED BY <2>0, <3>1, <3>5, <5>1, <5>2 DEF AloneInQuotes
      <4> QED BY <3>3, <3>4, <3>5, <4>1
    <3>6. CASE ~(q[j] \in escapes) /\ q[j] # q[i]
      <4>1. at[j + 1] = at[j]
        <5>1. what = "double" => Next2(q, j) # <<"double", "double">>
          BY <1>3, <3>2, <3>6, Pairs
        <5>2. what # "double" => Next2(q, j) # <<"'", "'">>
          BY <1>3, <3>2, <3>6, Pairs
        <5> QED BY <1>3, <2>0, <3>1, <3>6, <5>1, <5>2 DEF AloneInQuotes
      <4>2. close[j] = close[j + 1]
        BY <3>3, <3>6
      <4>3. j + 1 \in j + 1 .. Len(q) + 2 /\ j + 1 > i /\ j + 1 <= Len(q) + 1
        BY <1>0, <3>0
      <4>4. Closes(j + 1)
        BY <1>4, <4>1, <4>3
      <4>5. \A k \in j .. close[j] : k = j \/ k \in j + 1 .. close[j]
        BY <3>0
      <4> QED BY <2>0, <4>2, <4>4, <4>5
    <3>7. CASE ~(q[j] \in escapes) /\ q[j] = q[i] /\ Char(q, j + 1) = q[i]
      <4>1. at[j + 1] = Passing(at[j], 1)
        <5>0. Char(q, j) = q[i] /\ Char(q, j + 1) = q[i]
          BY <3>2, <3>7
        <5>1. what = "double" => Next2(q, j) = <<"double", "double">>
          BY <1>3, <5>0 DEF Next2
        <5>2. what # "double" => Next2(q, j) = <<"'", "'">>
          BY <1>3, <5>0 DEF Next2
        <5> QED BY <1>3, <2>0, <3>1, <5>1, <5>2 DEF AloneInQuotes
      <4> QED BY <3>3, <3>4, <3>7, <4>1
    <3>8. CASE ~(q[j] \in escapes) /\ q[j] = q[i] /\ Char(q, j + 1) # q[i]
      <4>1. at[j + 1] = Reading("code")
        <5>1. what = "double" => Next2(q, j) # <<"double", "double">>
          BY <1>3, <3>2, <3>8, Pairs
        <5>2. what # "double" => Next2(q, j) # <<"'", "'">>
          BY <1>3, <3>2, <3>8, Pairs
        <5> QED BY <1>3, <2>0, <3>1, <3>8, <5>1, <5>2 DEF AloneInQuotes
      <4>2. close[j] = j
        BY <3>3, <3>8
      <4>3. \A k \in j .. close[j] : k = j
        BY <3>0, <4>2
      <4> QED BY <2>0, <4>1, <4>2, <4>3
    <3> QED BY <3>5, <3>6, <3>7, <3>8
  <2> QED BY <2>1, <2>2
<1> HIDE DEF Good
<1>5. 1 .. Len(q) + 2 \subseteq Good
  <2>1. Len(q) + 2 \in Nat
    BY <1>0
  <2> QED BY <1>4, <2>1, Descending
<1>6. i + 1 \in Good /\ i + 1 > i /\ i + 1 <= Len(q) + 1
  BY <1>0, <1>5
<1>7. Closes(i + 1) /\ close[i + 1] = l
  BY <1>1, <1>2, <1>6, <1>c DEF Good, Closing
<1>8. l \in i .. Len(q)
  <2> QED BY <1>0, <1>1, QuotedEndBounds
<1>9. Fresh(q, at[l + 1], l + 1)
  <2>1. CASE l = Len(q)
    BY <1>0, <2>1 DEF Fresh
  <2>2. CASE at[l + 1] = Reading("code")
    BY <2>2 DEF Fresh, Reading, State, Words
  <2> QED BY <1>7, <2>1, <2>2
<1>10. \A k \in i + 1 .. l : at[k].in \notin {"code", "number"}
  BY <1>3, <1>7
<1> QED BY <1>8, <1>9, <1>10 DEF Passed, l

\* Where indexOf() finds something, or the end of the query.
LEMMA FirstFromIs ==
    ASSUME NEW q \in Seq(Characters), NEW i \in Nat \ {0}, NEW found \in SUBSET (i .. Len(q)), Len(q) > 0
    PROVE  /\ Min(found \cup {Len(q)}) \in 1 .. Len(q)
           /\ Min(found \cup {Len(q)}) < Len(q) => Min(found \cup {Len(q)}) >= i
           /\ Min(found \cup {Len(q)}) < Len(q) => Min(found \cup {Len(q)}) \in found
           /\ \A k \in found : Min(found \cup {Len(q)}) <= k
<1> DEFINE S == found \cup {Len(q)}
<1>0. Len(q) \in Nat
  OBVIOUS
<1>1. S \in SUBSET (0 .. Len(q)) /\ S # {}
  <2>1. \A k \in i .. Len(q) : k \in 0 .. Len(q)
    BY <1>0
  <2>2. Len(q) \in 0 .. Len(q)
    BY <1>0
  <2> QED BY <2>1, <2>2
<1>2. Min(S) \in S /\ \A y \in S : Min(S) <= y
  <2> HIDE DEF S
  <2> QED BY <1>0, <1>1, MinIs
<1>3. \A k \in found : k \in i .. Len(q)
  OBVIOUS
<1> DEFINE m == Min(S)
<1>4. m \in S /\ \A y \in S : m <= y
  BY <1>2
<1> HIDE DEF m
<1>5. m \in 1 .. Len(q)
  BY <1>0, <1>3, <1>4
<1>6. m < Len(q) => m >= i
  BY <1>0, <1>3, <1>4
<1>7. m < Len(q) => m \in found
  BY <1>0, <1>4
<1>8. \A k \in found : m <= k
  BY <1>4
<1> QED BY <1>5, <1>6, <1>7, <1>8 DEF m

\* What is passed one character after the other.
LEMMA Stretch ==
    ASSUME NEW a \in Nat, NEW b \in Nat, NEW Good, a \in Good,
           \A k \in a .. b - 1 : k \in Good => k + 1 \in Good
    PROVE  a .. b \subseteq Good
<1> SUFFICES ASSUME a <= b PROVE a .. b \subseteq Good
  OBVIOUS
<1> DEFINE Shifted == {n \in 0 .. b - a : a + n \in Good}
<1>1. 0 \in Shifted
  OBVIOUS
<1>2. ASSUME NEW n \in 1 .. b - a, n - 1 \in Shifted PROVE n \in Shifted
  <2>1. a + (n - 1) \in a .. b - 1 /\ a + (n - 1) + 1 = a + n /\ a + (n - 1) \in Good
    BY <1>2
  <2> QED BY <2>1
<1>3. b - a \in Nat
  OBVIOUS
<1> HIDE DEF Shifted
<1>4. 0 .. b - a \subseteq Shifted
  BY <1>1, <1>2, <1>3, Upwards
<1> SUFFICES ASSUME NEW k \in a .. b PROVE k \in Good
  OBVIOUS
<1>5. k - a \in 0 .. b - a /\ a + (k - a) = k
  OBVIOUS
<1> QED BY <1>4, <1>5 DEF Shifted

\* The server's first step from where it is between two things.
LEMMA FreshStep ==
    ASSUME NEW q, NEW at, Reads(q, at), NEW i \in DOMAIN q, Fresh(q, at[i], i)
    PROVE  /\ q \in Seq(Characters) /\ Len(q) \in Nat /\ DOMAIN q = 1 .. Len(q) /\ i \in 1 .. Len(q)
           /\ at[i].skip = 0 /\ at[i].in \in Words
           /\ at[i].in \in {"e", "word"} => q[i] \notin Part \cup {"$"}
           /\ at[i + 1] = PostgresInCode(q, at[i], i)
           /\ \A k \in 1 .. Len(q) : at[k + 1] = AloneStep(q, at[k], k)
<1>0. q \in Seq(Characters) /\ Len(q) \in Nat /\ DOMAIN q = 1 .. Len(q) /\ i \in 1 .. Len(q)
  BY DEF Reads
<1>1. at[i].skip = 0 /\ at[i].in \in Words /\ (at[i].in \in {"e", "word"} => q[i] \notin Part \cup {"$"})
  BY <1>0 DEF Fresh
<1>2. \A k \in 1 .. Len(q) : at[k + 1] = AloneStep(q, at[k], k)
  BY DEF Reads, ReadsFrom
<1>3. at[i + 1] = PostgresInCode(q, at[i], i)
  BY <1>0, <1>1, <1>2 DEF AloneStep, Words
<1> QED BY <1>0, <1>1, <1>2, <1>3

\* A word.
LEMMA WordSpan ==
    ASSUME NEW q, NEW at, Reads(q, at), NEW i \in DOMAIN q, Fresh(q, at[i], i), q[i] \in Letters
    PROVE  Passed(q, at, i, PostgresSpan(q, i, DollarTag(q, i)))
<1> DEFINE l == RunOf(q, i, Part \cup {"$"})
<1>0. /\ q \in Seq(Characters) /\ Len(q) \in Nat /\ DOMAIN q = 1 .. Len(q) /\ i \in 1 .. Len(q)
      /\ at[i].in \in {"e", "word"} => q[i] \notin Part \cup {"$"}
      /\ at[i + 1] = PostgresInCode(q, at[i], i)
      /\ \A k \in 1 .. Len(q) : at[k + 1] = AloneStep(q, at[k], k)
  BY FreshStep
<1>1. PostgresSpan(q, i, DollarTag(q, i)) = l
  BY PostgresSpanIs
<1>2. /\ l \in i - 1 .. Len(q)
      /\ \A k \in i .. l : q[k] \in Part \cup {"$"}
      /\ l < Len(q) => q[l + 1] \notin Part \cup {"$"}
  <2>1. i \in 1 .. Len(q) + 1
    BY <1>0
  <2> QED BY <1>0, <2>1, RunOfIs
<1> HIDE DEF l
<1>3. l \in i .. Len(q)
  <2>1. q[i] \in Part \cup {"$"}
    BY DEF Part
  <2>2. l # i - 1
    <3> SUFFICES ASSUME l = i - 1 PROVE FALSE
      OBVIOUS
    <3>1. l < Len(q) /\ l + 1 = i
      BY <1>0
    <3> QED BY <1>2, <2>1, <3>1
  <2> QED BY <1>0, <1>2, <2>2
<1> DEFINE Good == {k \in i + 1 .. l + 1 : at[k] \in {Reading("e"), Reading("word")}}
<1>4. i + 1 \in Good
  <2>1. at[i].in \notin {"e", "word"}
    BY <1>0 DEF Part
  <2>2. q[i] \notin Digits /\ q[i] # "'" /\ q[i] # "double"
    BY DEF Letters, Digits
  <2>3. at[i + 1] = Reading(IF q[i] = "e" /\ at[i].in # "number" THEN "e" ELSE "word")
    BY <1>0, <2>1, <2>2 DEF PostgresInCode
  <2> QED BY <1>0, <1>3, <2>3
<1>5. ASSUME NEW k \in i + 1 .. l + 1 - 1, k \in Good PROVE k + 1 \in Good
  <2>1. k \in 1 .. Len(q) /\ k \in i .. l /\ k + 1 \in i + 1 .. l + 1
    BY <1>0, <1>3
  <2>2. at[k].in \in {"e", "word"} /\ at[k].skip = 0
    BY <1>5 DEF Reading, State
  <2>3. at[k + 1] = PostgresInCode(q, at[k], k)
    BY <1>0, <2>1, <2>2 DEF AloneStep, Words
  <2>4. at[k + 1] = Reading("word")
    BY <1>2, <2>1, <2>2, <2>3 DEF PostgresInCode
  <2> QED BY <2>1, <2>4
<1> HIDE DEF Good
<1>6. i + 1 .. l + 1 \subseteq Good
  <2> DEFINE a == i + 1
             b == l + 1
  <2>1. a \in Nat /\ b \in Nat /\ a \in Good /\ \A k \in a .. b - 1 : k \in Good => k + 1 \in Good
    BY <1>0, <1>3, <1>4, <1>5
  <2> HIDE DEF a, b
  <2>2. a .. b \subseteq Good
    BY <2>1, Stretch
  <2> QED BY <2>2 DEF a, b
<1>7. \A k \in i + 1 .. l + 1 : at[k].in \in {"e", "word"} /\ at[k].skip = 0
  BY <1>6 DEF Good, Reading, State
<1>8. Fresh(q, at[l + 1], l + 1)
  <2>1. l + 1 \in i + 1 .. l + 1 /\ (l + 1 <= Len(q) => l < Len(q))
    BY <1>0, <1>3
  <2> QED BY <1>2, <1>7, <2>1 DEF Fresh, Words
<1>9. \A k \in i + 1 .. l : at[k].in \notin {"code", "number"}
  <2>1. \A k \in i + 1 .. l : k \in i + 1 .. l + 1
    BY <1>3
  <2> QED BY <1>7, <2>1
<1> QED BY <1>1, <1>3, <1>8, <1>9 DEF Passed

\* A numbered parameter.
LEMMA NumberSpan ==
    ASSUME NEW q, NEW at, Reads(q, at), NEW i \in DOMAIN q, Fresh(q, at[i], i), Numbered(q, i)
    PROVE  Passed(q, at, i, PostgresSpan(q, i, DollarTag(q, i)))
<1> DEFINE l == RunOf(q, i + 1, Digits)
<1>0. /\ q \in Seq(Characters) /\ Len(q) \in Nat /\ DOMAIN q = 1 .. Len(q) /\ i \in 1 .. Len(q)
      /\ at[i].in \in Words
      /\ at[i].in \in {"e", "word"} => q[i] \notin Part \cup {"$"}
      /\ at[i + 1] = PostgresInCode(q, at[i], i)
      /\ \A k \in 1 .. Len(q) : at[k + 1] = AloneStep(q, at[k], k)
  BY FreshStep
<1>1. PostgresSpan(q, i, DollarTag(q, i)) = l
  BY PostgresSpanIs
<1>2. /\ l \in i .. Len(q)
      /\ \A k \in i + 1 .. l : q[k] \in Digits
  <2>1. i + 1 \in 1 .. Len(q) + 1 /\ i + 1 - 1 = i
    BY <1>0
  <2> QED BY <1>0, <2>1, RunOfIs
<1> HIDE DEF l
<1> DEFINE Good == {k \in i + 1 .. l + 1 : at[k] \in {Reading("code"), Reading("number")}}
<1>4. i + 1 \in Good
  <2>1. q[i] = "$" /\ Char(q, i + 1) \in Digits
    BY DEF Numbered
  <2>2. DollarTag(q, i) = <<>>
    BY <2>1 DEF DollarTag
  <2>3. Next2(q, i) # <<"-", "-">> /\ Next2(q, i) # <<"/", "*">>
    <3>1. Char(q, i) = "$"
      BY <2>1 DEF Char
    <3> QED BY <3>1, Pairs
  <2>4. at[i].in \notin {"e", "word"} /\ q[i] \notin Digits /\ q[i] \notin Letters
    BY <1>0, <2>1 DEF Digits, Letters
  <2>5. at[i + 1] = Reading("code")
    BY <1>0, <2>1, <2>2, <2>3, <2>4 DEF PostgresInCode
  <2> QED BY <1>0, <1>2, <2>5
<1>5. ASSUME NEW k \in i + 1 .. l + 1 - 1, k \in Good PROVE k + 1 \in Good
  <2>1. k \in 1 .. Len(q) /\ k \in i + 1 .. l /\ k + 1 \in i + 1 .. l + 1
    BY <1>0, <1>2
  <2>2. at[k].in \in {"code", "number"} /\ at[k].skip = 0
    BY <1>5 DEF Reading, State
  <2>3. at[k + 1] = PostgresInCode(q, at[k], k)
    BY <1>0, <2>1, <2>2 DEF AloneStep, Words
  <2>4. q[k] \in Digits /\ q[k] \notin Letters /\ q[k] # "'" /\ q[k] # "double"
    BY <1>2, <2>1 DEF Digits, Letters
  <2>5. at[k + 1] = Reading("number")
    BY <2>2, <2>3, <2>4 DEF PostgresInCode
  <2> QED BY <2>1, <2>5
<1> HIDE DEF Good
<1>6. i + 1 .. l + 1 \subseteq Good
  <2> DEFINE a == i + 1
             b == l + 1
  <2>1. a \in Nat /\ b \in Nat /\ a \in Good /\ \A k \in a .. b - 1 : k \in Good => k + 1 \in Good
    BY <1>0, <1>2, <1>4, <1>5
  <2> HIDE DEF a, b
  <2>2. a .. b \subseteq Good
    BY <2>1, Stretch
  <2> QED BY <2>2 DEF a, b
<1>8. Fresh(q, at[l + 1], l + 1)
  <2>1. l + 1 \in Good
    BY <1>0, <1>2, <1>6
  <2> QED BY <2>1 DEF Good, Fresh, Words, Reading, State
<1>9. \A k \in i + 1 .. l : ~Numbered(q, k)
  BY <1>2 DEF Numbered, Digits
<1> QED BY <1>1, <1>2, <1>8, <1>9 DEF Passed

\* A comment up to the end of its line.
LEMMA LineSpan ==
    ASSUME NEW q, NEW at, Reads(q, at), NEW i \in DOMAIN q, Fresh(q, at[i], i),
           Char(q, i) = "-", Char(q, i + 1) = "-"
    PROVE  Passed(q, at, i, PostgresSpan(q, i, DollarTag(q, i)))
<1> DEFINE found == {j \in i + 2 .. Len(q) : q[j] = "\n"}
           l == Min(found \cup {Len(q)})
<1>0. /\ q \in Seq(Characters) /\ Len(q) \in Nat /\ DOMAIN q = 1 .. Len(q) /\ i \in 1 .. Len(q)
      /\ at[i + 1] = PostgresInCode(q, at[i], i)
      /\ \A k \in 1 .. Len(q) : at[k + 1] = AloneStep(q, at[k], k)
  BY FreshStep
<1>1. PostgresSpan(q, i, DollarTag(q, i)) = l
  <2>1. PostgresSpan(q, i, DollarTag(q, i)) = LineEnd(q, i + 1)
    <3>1. Next2(q, i) = <<"-", "-">>
      BY DEF Next2
    <3> QED BY <3>1, PostgresSpanIs
  <2>2. i + 1 + 1 = i + 2
    BY <1>0
  <2> QED BY <2>1, <2>2 DEF LineEnd, FirstFrom
<1>2. q[i] = "-" /\ i + 1 \in 1 .. Len(q) /\ q[i + 1] = "-"
  <2>2. q[i] = "-" /\ i + 1 \in DOMAIN q /\ q[i + 1] = "-"
    BY DEF Char
  <2> QED BY <1>0, <2>2
<1>3. /\ l \in i + 1 .. Len(q)
      /\ l < Len(q) => q[l] = "\n"
      /\ \A k \in i + 2 .. Len(q) : q[k] = "\n" => l <= k
  <2>1. i + 2 \in Nat \ {0} /\ found \in SUBSET (i + 2 .. Len(q)) /\ Len(q) > 0
    BY <1>0, <1>2
  <2>2. l \in 1 .. Len(q) /\ (l < Len(q) => l >= i + 2)
    <3> HIDE DEF found
    <3> QED BY <1>0, <2>1, FirstFromIs
  <2>3. l < Len(q) => l \in found
    <3> HIDE DEF found
    <3> QED BY <1>0, <2>1, FirstFromIs
  <2>4. \A k \in found : l <= k
    <3> HIDE DEF found
    <3> QED BY <1>0, <2>1, FirstFromIs
  <2> HIDE DEF l
  <2>5. l \in i + 1 .. Len(q)
    BY <1>0, <1>2, <2>2
  <2>6. l < Len(q) => q[l] = "\n"
    BY <2>3
  <2> QED BY <2>4, <2>5, <2>6
<1> HIDE DEF l, found
<1> DEFINE Good == {k \in i + 1 .. l : at[k] = Reading("line")}
<1>4. i + 1 \in Good
  <2>1. at[i + 1] = Reading("line")
    <3>1. Next2(q, i) = <<"-", "-">>
      BY DEF Next2
    <3> QED BY <1>0, <1>2, <3>1 DEF PostgresInCode, Part, Digits, Letters
  <2> QED BY <1>0, <1>3, <2>1
<1>5. ASSUME NEW k \in 1 .. Len(q), at[k] = Reading("line") PROVE at[k + 1] = InLine(q, at[k], k)
  <2>1. at[k].in = "line" /\ at[k].skip = 0
    BY <1>5 DEF Reading, State
  <2> QED BY <1>0, <2>1 DEF AloneStep, Words
<1>6. ASSUME NEW k \in i + 1 .. l - 1, k \in Good PROVE k + 1 \in Good
  <2>1. k \in 1 .. Len(q) /\ k + 1 \in i + 1 .. l
    BY <1>0, <1>3
  <2>2. q[k] # "\n"
    <3>1. CASE k = i + 1
      BY <1>2, <3>1
    <3>2. CASE k # i + 1
      <4>1. k \in i + 2 .. Len(q) /\ ~(l <= k)
        BY <1>0, <1>3, <3>2
      <4> QED BY <1>3, <4>1
    <3> QED BY <3>1, <3>2
  <2>3. at[k + 1] = Reading("line")
    BY <1>5, <1>6, <2>1, <2>2 DEF InLine
  <2> QED BY <2>1, <2>3
<1>7. i + 1 .. l \subseteq Good
  <2> HIDE DEF Good
  <2>1. i + 1 \in Nat /\ l \in Nat
    BY <1>0, <1>3
  <2> QED BY <1>4, <1>6, <2>1, Stretch
<1>8. Fresh(q, at[l + 1], l + 1)
  <2>1. CASE l < Len(q)
    <3>1. l \in 1 .. Len(q) /\ q[l] = "\n" /\ at[l] = Reading("line")
      BY <1>0, <1>3, <1>7, <2>1
    <3>2. at[l + 1] = Reading("code")
      BY <1>5, <3>1 DEF InLine
    <3> QED BY <3>2 DEF Fresh, Reading, State, Words
  <2>2. CASE ~(l < Len(q))
    BY <1>0, <1>3, <2>2 DEF Fresh
  <2> QED BY <2>1, <2>2
<1>9. \A k \in i + 1 .. l : at[k].in \notin {"code", "number"}
  BY <1>7 DEF Reading, State
<1>10. l \in i .. Len(q)
  BY <1>0, <1>3
<1> QED BY <1>1, <1>8, <1>9, <1>10 DEF Passed

\* Where no comment is open, the last has ended.
LEMMA EndingNone ==
    ASSUME NEW q, NEW i, NEW after, Ending(q, i, after), NEW j \in i .. Len(q) + 2
    PROVE  after[j][0] = Min({j - 1, Len(q)})
<1>1. \A depth \in Nat : depth = 0 => after[j][depth] = Min({j - 1, Len(q)})
  BY DEF Ending
<1> QED BY <1>1

\* A comment, with the comments in it.
LEMMA BlockSpan ==
    ASSUME NEW q, NEW at, Reads(q, at), NEW i \in DOMAIN q, Fresh(q, at[i], i),
           Char(q, i) = "/", Char(q, i + 1) = "*"
    PROVE  Passed(q, at, i, PostgresSpan(q, i, DollarTag(q, i)))
<1> DEFINE l == CommentEnd(q, i)
<1>0. /\ q \in Seq(Characters) /\ Len(q) \in Nat /\ DOMAIN q = 1 .. Len(q) /\ i \in 1 .. Len(q)
      /\ at[i + 1] = PostgresInCode(q, at[i], i)
      /\ \A k \in 1 .. Len(q) : at[k + 1] = AloneStep(q, at[k], k)
  BY FreshStep
<1>p. Next2(q, i) = <<"/", "*">>
  BY DEF Next2
<1>1. PostgresSpan(q, i, DollarTag(q, i)) = l
  BY <1>p, PostgresSpanIs
<1>2. q[i] = "/" /\ i + 1 \in 1 .. Len(q) /\ q[i + 1] = "*"
  <2>2. q[i] = "/" /\ i + 1 \in DOMAIN q /\ q[i + 1] = "*"
    BY DEF Char
  <2> QED BY <1>0, <2>2
<1>3. l \in i .. Len(q)
  BY <1>0, CommentEndBounds
<1>c. PICK after : Ending(q, i, after)
  BY <1>0, CommentEndDef
<1> DEFINE Inside(d) == State("block", 0, d, <<>>)
           Ends(j, d) == /\ \A k \in j .. after[j][d] : at[k].in = "block" \/ at[k].skip = 1
                         /\ after[j][d] < Len(q) => at[after[j][d] + 1] = Reading("code")
           Good == {j \in 1 .. Len(q) + 2 :
                      j > i /\ j <= Len(q) + 1 => \A d \in Nat \ {0} : at[j] = Inside(d) => Ends(j, d)}
<1>4. ASSUME NEW j \in 1 .. Len(q) + 2, \A m \in j + 1 .. Len(q) + 2 : m \in Good PROVE j \in Good
  <2> SUFFICES ASSUME j > i, j <= Len(q) + 1, NEW d \in Nat \ {0}, at[j] = Inside(d) PROVE Ends(j, d)
    OBVIOUS
  <2>0. at[j].in = "block" /\ at[j].skip = 0 /\ at[j].depth = d
    BY DEF State
  <2>1. CASE ~(j <= Len(q))
    <3>1. after[j][d] = Min({j - 1, Len(q)})
      <4>1. j \in i .. Len(q) + 2 /\ j > Len(q) /\ d \in Nat
        BY <1>0, <2>1
      <4> QED BY <1>c, <4>1 DEF Ending
    <3>2. Min({j - 1, Len(q)}) = Len(q)
      <4>1. j - 1 = Len(q) /\ Len(q) \in Int /\ Len(q) <= Len(q)
        BY <1>0, <2>1
      <4> QED BY <4>1, OfTwo
    <3>3. after[j][d] = Len(q)
      BY <3>1, <3>2
    <3> QED BY <1>0, <2>1, <3>3
  <2>2. CASE j <= Len(q)
    <3>0. j \in 1 .. Len(q) /\ ~(j > Len(q)) /\ d # 0 /\ j \in i .. Len(q) + 2
      <4>1. j \in 1 .. Len(q) /\ j \in i .. Len(q) + 2
        BY <1>0, <2>2
      <4>2. d # 0
        OBVIOUS
      <4> QED BY <1>0, <4>1, <4>2
    <3>1. at[j + 1] = PostgresInBlock(q, at[j], j)
      BY <1>0, <2>0, <3>0 DEF AloneStep, Words
    <3>2. after[j][d] = IF Next2(q, j) = <<"/", "*">> THEN after[j + 2][d + 1]
                        ELSE IF Next2(q, j) = <<"*", "/">> THEN after[j + 2][d - 1]
                        ELSE after[j + 1][d]
      BY <1>0, <1>c, <3>0 DEF Ending
    <3>3. ASSUME NEW e \in Nat \ {0}, at[j + 1] = State("block", 1, e, <<>>), after[j][d] = after[j + 2][e],
                 j + 1 \in 1 .. Len(q)
          PROVE  Ends(j, d)
      <4>1. /\ j + 2 \in j + 1 .. Len(q) + 2 /\ j + 2 > i /\ j + 2 <= Len(q) + 1
            /\ j + 1 + 1 = j + 2
        BY <1>0, <3>0, <3>3
      <4>2. at[j + 1].in = "block" /\ at[j + 1].skip = 1 /\ at[j + 1].depth = e /\ at[j + 1].tag = <<>>
        BY <3>3 DEF State
      <4>3. at[j + 2] = AloneStep(q, at[j + 1], j + 1)
        BY <1>0, <3>3, <4>1
      <4>4. at[j + 2] = Passing(at[j + 1], 0)
        BY <4>2, <4>3 DEF AloneStep
      <4>5. at[j + 2] = Inside(e)
        BY <4>2, <4>4 DEF Passing
      <4>6. Ends(j + 2, e)
        BY <1>4, <4>1, <4>5
      <4>7. \A k \in j .. after[j][d] : k = j \/ k = j + 1 \/ k \in j + 2 .. after[j][d]
        BY <3>0
      <4> QED BY <2>0, <3>3, <4>2, <4>6, <4>7
    <3>4. CASE Char(q, j) = "/" /\ Char(q, j + 1) = "*"
      <4>1. Next2(q, j) = <<"/", "*">>
        BY <3>4 DEF Next2
      <4>2. after[j][d] = after[j + 2][d + 1] /\ d + 1 \in Nat \ {0}
        BY <3>2, <4>1
      <4>3. at[j + 1] = State("block", 1, d + 1, <<>>)
        BY <2>0, <3>1, <4>1 DEF PostgresInBlock
      <4>4. j + 1 \in 1 .. Len(q)
        <5>1. j + 1 \in DOMAIN q
          BY <3>4 DEF Char
        <5> QED BY <1>0, <5>1
      <4> QED BY <3>3, <4>2, <4>3, <4>4
    <3>5. CASE Char(q, j) = "*" /\ Char(q, j + 1) = "/"
      <4>1. Next2(q, j) = <<"*", "/">> /\ Next2(q, j) # <<"/", "*">>
        <5>1. Next2(q, j) = <<"*", "/">>
          BY <3>5 DEF Next2
        <5>2. Next2(q, j) # <<"/", "*">>
          BY <3>5, Pairs
        <5> QED BY <5>1, <5>2
      <4>2. after[j][d] = after[j + 2][d - 1]
        BY <3>2, <4>1
      <4>4. j + 1 \in 1 .. Len(q)
        <5>1. j + 1 \in DOMAIN q
          BY <3>5 DEF Char
        <5> QED BY <1>0, <5>1
      <4>5. CASE d = 1
        <5>1. at[j + 1] = Passing(Reading("code"), 1)
          BY <2>0, <3>1, <4>1, <4>5 DEF PostgresInBlock
        <5>2. at[j + 1].in = "code" /\ at[j + 1].skip = 1 /\ at[j + 1].depth = 0 /\ at[j + 1].tag = <<>>
          BY <5>1 DEF Passing, Reading, State
        <5>3. at[j + 2] = AloneStep(q, at[j + 1], j + 1)
          <6>1. j + 1 + 1 = j + 2
            BY <3>0
          <6> QED BY <1>0, <4>4, <6>1
        <5>4. at[j + 2] = Passing(at[j + 1], 0)
          BY <5>2, <5>3 DEF AloneStep
        <5>5. at[j + 2] = Reading("code")
          BY <5>2, <5>4 DEF Passing, Reading
        <5>6. after[j][d] = j + 1
          <6>1. after[j + 2][0] = Min({(j + 2) - 1, Len(q)})
            <7>1. j + 2 \in i .. Len(q) + 2
              BY <1>0, <3>0, <4>4
            <7>2. \A m \in i .. Len(q) + 2 : after[m][0] = Min({m - 1, Len(q)})
              BY <1>c, EndingNone
            <7> QED BY <7>1, <7>2
          <6>2. Min({(j + 2) - 1, Len(q)}) = j + 1
            <7>1. (j + 2) - 1 = j + 1 /\ j + 1 \in Int /\ Len(q) \in Int /\ j + 1 <= Len(q)
              BY <1>0, <4>4
            <7> QED BY <7>1, OfTwo
          <6>3. d - 1 = 0
            BY <4>5
          <6> QED BY <4>2, <6>1, <6>2, <6>3
        <5>7. \A k \in j .. after[j][d] : k = j \/ k = j + 1
          BY <3>0, <5>6
        <5>8. after[j][d] + 1 = j + 2
          BY <3>0, <5>6
        <5> QED BY <2>0, <5>2, <5>5, <5>7, <5>8
      <4>6. CASE d # 1
        <5>1. at[j + 1] = State("block", 1, d - 1, <<>>)
          BY <2>0, <3>1, <4>1, <4>6 DEF PostgresInBlock
        <5>2. d - 1 \in Nat \ {0}
          BY <4>6
        <5> QED BY <3>3, <4>2, <4>4, <5>1, <5>2
      <4> QED BY <4>5, <4>6
    <3>6. CASE Next2(q, j) # <<"/", "*">> /\ Next2(q, j) # <<"*", "/">>
      <4>1. at[j + 1] = Inside(d) /\ after[j][d] = after[j + 1][d]
        BY <3>1, <3>2, <3>6 DEF PostgresInBlock
      <4>3. j + 1 \in j + 1 .. Len(q) + 2 /\ j + 1 > i /\ j + 1 <= Len(q) + 1
        BY <1>0, <3>0
      <4>4. Ends(j + 1, d)
        BY <1>4, <4>1, <4>3
      <4>5. \A k \in j .. after[j][d] : k = j \/ k \in j + 1 .. after[j][d]
        BY <3>0
      <4> QED BY <2>0, <4>1, <4>4, <4>5
    <3> QED BY <3>4, <3>5, <3>6, Pairs
  <2> QED BY <2>1, <2>2
<1> HIDE DEF Good
<1>5. 1 .. Len(q) + 2 \subseteq Good
  <2>1. Len(q) + 2 \in Nat
    BY <1>0
  <2> QED BY <1>4, <2>1, Descending
<1>6. at[i + 1] = State("block", 1, 1, <<>>)
  <2>1. Next2(q, i) # <<"-", "-">>
    BY Pairs
  <2> QED BY <1>0, <1>2, <1>p, <2>1 DEF PostgresInCode, Part, Digits, Letters
<1>7. at[i + 1].in = "block" /\ at[i + 1].skip = 1 /\ at[i + 1].depth = 1 /\ at[i + 1].tag = <<>>
  BY <1>6 DEF State
<1>8. at[i + 2] = Inside(1)
  <2>1. i + 1 + 1 = i + 2
    BY <1>0
  <2>2. at[i + 2] = AloneStep(q, at[i + 1], i + 1)
    BY <1>0, <1>2, <2>1
  <2>3. at[i + 2] = Passing(at[i + 1], 0)
    BY <1>7, <2>2 DEF AloneStep
  <2> QED BY <1>7, <2>3 DEF Passing
<1>9. Ends(i + 2, 1)
  <2>1. i + 2 \in 1 .. Len(q) + 2 /\ i + 2 > i /\ i + 2 <= Len(q) + 1 /\ 1 \in Nat \ {0}
    BY <1>0, <1>2
  <2> QED BY <1>5, <1>8, <2>1 DEF Good
<1>10. after[i + 2][1] = l
  BY <1>c DEF Ending
<1> HIDE DEF l
<1>11. Fresh(q, at[l + 1], l + 1)
  <2>1. CASE l < Len(q)
    <3>1. at[l + 1] = Reading("code")
      BY <1>9, <1>10, <2>1
    <3> QED BY <3>1 DEF Fresh, Reading, State, Words
  <2>2. CASE ~(l < Len(q))
    BY <1>0, <1>3, <2>2 DEF Fresh
  <2> QED BY <2>1, <2>2
<1>12. \A k \in i + 1 .. l : ~(at[k].in \in {"code", "number"} /\ at[k].skip = 0)
  <2>1. \A k \in i + 1 .. l : k = i + 1 \/ k \in i + 2 .. l
    BY <1>0, <1>3
  <2> QED BY <1>7, <1>9, <1>10, <2>1
<1> QED BY <1>1, <1>3, <1>11, <1>12 DEF Passed

\* The server passes characters it has seen already.
LEMMA Skips ==
    ASSUME NEW q, NEW at, \A k \in 1 .. Len(q) : at[k + 1] = AloneStep(q, at[k], k),
           Len(q) \in Nat, NEW a \in Nat \ {0}, NEW b \in Nat, a <= b, b <= Len(q) + 1,
           NEW what, NEW depth, NEW tag, at[a] = State(what, b - a, depth, tag)
    PROVE  \A k \in a .. b : at[k] = State(what, b - k, depth, tag)
<1> DEFINE Good == {k \in a .. b : at[k] = State(what, b - k, depth, tag)}
<1>1. a \in Good
  OBVIOUS
<1>2. ASSUME NEW k \in a .. b - 1, k \in Good PROVE k + 1 \in Good
  <2>1. k \in 1 .. Len(q) /\ k + 1 \in a .. b /\ b - k > 0 /\ b - k - 1 = b - (k + 1)
    OBVIOUS
  <2>2. at[k].skip = b - k /\ at[k].in = what /\ at[k].depth = depth /\ at[k].tag = tag
    BY <1>2 DEF State
  <2>3. at[k + 1] = Passing(at[k], b - k - 1)
    <3>1. at[k + 1] = AloneStep(q, at[k], k)
      BY <2>1
    <3> QED BY <2>1, <2>2, <3>1 DEF AloneStep
  <2>4. at[k + 1] = State(what, b - (k + 1), depth, tag)
    BY <2>1, <2>2, <2>3 DEF Passing
  <2> QED BY <2>1, <2>4
<1> HIDE DEF Good
<1>4. a .. b \subseteq Good
  BY <1>1, <1>2, Stretch
<1> QED BY <1>4 DEF Good

\* A dollar quotation.
LEMMA DollarSpan ==
    ASSUME NEW q, NEW at, Reads(q, at), NEW i \in DOMAIN q, Fresh(q, at[i], i),
           q[i] = "$", ~Numbered(q, i), DollarTag(q, i) # <<>>
    PROVE  Passed(q, at, i, PostgresSpan(q, i, DollarTag(q, i)))
<1> DEFINE tag == DollarTag(q, i)
           n == Len(tag)
           found == {j \in i + 2 * n - 1 .. Len(q) : Spells(q, j - n + 1, tag)}
           l == Min(found \cup {Len(q)})
<1>0. /\ q \in Seq(Characters) /\ Len(q) \in Nat /\ DOMAIN q = 1 .. Len(q) /\ i \in 1 .. Len(q)
      /\ at[i].in \in Words
      /\ at[i].in \in {"e", "word"} => q[i] \notin Part \cup {"$"}
      /\ at[i + 1] = PostgresInCode(q, at[i], i)
  BY FreshStep
<1>s. \A k \in 1 .. Len(q) : at[k + 1] = AloneStep(q, at[k], k)
  BY FreshStep
<1>1. PostgresSpan(q, i, DollarTag(q, i)) = l
  BY PostgresSpanIs DEF BodyEnd, FirstFrom
<1>2. /\ n \in Nat \ {0, 1} /\ DOMAIN tag = 1 .. n /\ tag[n] = "$"
      /\ i + n <= Len(q) + 1
  <2>1. PICK close \in i + 1 .. Len(q) : n = close - i + 1
    BY <1>0, DollarTagIs
  <2>2. tag \in Tags(q)
    BY DEF Tags
  <2> HIDE DEF tag
  <2> QED BY <1>0, <2>1, <2>2, TagIs
<1>3. at[i + 1] = State("$", n - 1, 0, tag)
  <2>1. at[i].in \notin {"e", "word"} /\ q[i] \notin Digits /\ q[i] \notin Letters
    BY <1>0 DEF Digits, Letters
  <2>2. Next2(q, i) # <<"-", "-">> /\ Next2(q, i) # <<"/", "*">>
    <3>1. Char(q, i) = "$"
      BY DEF Char
    <3> QED BY <3>1, Pairs
  <2> QED BY <1>0, <2>1, <2>2 DEF PostgresInCode
<1>4. /\ \A k \in found : k \in i + 2 * n - 1 .. Len(q) /\ Spells(q, k - n + 1, tag)
      /\ \A k \in i + 2 * n - 1 .. Len(q) : Spells(q, k - n + 1, tag) => k \in found
  OBVIOUS
<1> HIDE DEF tag, n
<1>5. found \in SUBSET (i + 2 * n - 1 .. Len(q)) /\ i + 2 * n - 1 \in Nat \ {0} /\ Len(q) > 0
  BY <1>0, <1>2
<1> HIDE DEF found
<1>6. l \in 1 .. Len(q) /\ (l < Len(q) => l \in found) /\ \A k \in found : l <= k
  <2> DEFINE a == i + 2 * n - 1
  <2>1. found \in SUBSET (a .. Len(q)) /\ a \in Nat \ {0}
    BY <1>5
  <2> HIDE DEF a
  <2>2. /\ l \in 1 .. Len(q)
        /\ l < Len(q) => l \in found
        /\ \A k \in found : l <= k
    BY <1>0, <1>5, <2>1, FirstFromIs
  <2> QED BY <2>2
<1>7. \A k \in found : l <= k
  BY <1>6
<1> HIDE DEF l
<1>8. \A k \in i + 1 .. i + n : at[k].in = "$" /\ (k = i + n => at[k] = State("$", 0, 0, tag))
  <2>1. \A k \in i + 1 .. i + n : at[k] = State("$", (i + n) - k, 0, tag)
    <3> DEFINE a == i + 1
               b == i + n
    <3>1. a \in Nat \ {0} /\ b \in Nat /\ a <= b /\ b <= Len(q) + 1 /\ b - a = n - 1
      BY <1>0, <1>2
    <3>2. at[a] = State("$", b - a, 0, tag)
      BY <1>3, <3>1
    <3> HIDE DEF a, b
    <3>3. \A k \in a .. b : at[k] = State("$", b - k, 0, tag)
      BY <1>0, <1>s, <3>1, <3>2, Skips
    <3> QED BY <3>3, Zenon DEF a, b
  <2> SUFFICES ASSUME NEW k \in i + 1 .. i + n
               PROVE  at[k].in = "$" /\ (k = i + n => at[k] = State("$", 0, 0, tag))
    OBVIOUS
  <2>4. at[k] = State("$", (i + n) - k, 0, tag)
    BY <2>1
  <2>5. k = i + n => i + n - k = 0
    BY <1>0, <1>2
  <2> QED BY <2>4, <2>5 DEF State
<1>9. ASSUME NEW k \in 1 .. Len(q), Spells(q, k, tag) PROVE k + n - 1 <= Len(q)
  <2>1. Char(q, k + n - 1) = "$"
    <3>1. n \in DOMAIN tag
      BY <1>2
    <3>2. Char(q, k + n - 1) = tag[n]
      BY <1>9, <3>1 DEF Spells
    <3> QED BY <1>2, <3>2
  <2>2. k + n - 1 \in DOMAIN q
    BY <2>1 DEF Char
  <2> QED BY <1>0, <2>2
\* The place where the tag is repeated, or the end.
<1> DEFINE last == IF l \in found THEN l - n + 1 ELSE Len(q)
           Inside(k) == at[k] = State("$", 0, 0, tag)
           Good == {k \in i + n .. last : Inside(k)}
<1>10. last \in i .. Len(q) /\ (l \in found => last \in i + n .. Len(q)) /\ (l \notin found => l >= Len(q))
  <2>1. CASE l \in found
    <3>1. l \in i + 2 * n - 1 .. Len(q)
      BY <1>4, <2>1
    <3>2. last = l - n + 1
      BY <2>1
    <3> HIDE DEF last
    <3>3. last \in i + n .. Len(q) /\ last \in i .. Len(q)
      BY <1>0, <1>2, <3>1, <3>2
    <3> QED BY <2>1, <3>3
  <2>2. CASE l \notin found
    <3>1. last = Len(q)
      BY <2>2
    <3>2. l >= Len(q)
      BY <1>0, <1>6, <2>2
    <3> HIDE DEF last
    <3>3. last \in i .. Len(q)
      BY <1>0, <3>1
    <3> QED BY <2>2, <3>2, <3>3
  <2> QED BY <2>1, <2>2
<1>11. ASSUME NEW k \in i + n .. last - 1 PROVE ~Spells(q, k, tag)
  <2> SUFFICES ASSUME Spells(q, k, tag) PROVE FALSE
    OBVIOUS
  <2>1. k \in 1 .. Len(q)
    <3> HIDE DEF last
    <3> QED BY <1>0, <1>2, <1>10
  <2>2. k + n - 1 \in i + 2 * n - 1 .. Len(q) /\ (k + n - 1) - n + 1 = k
    <3>1. k + n - 1 <= Len(q)
      BY <1>9, <2>1
    <3> HIDE DEF last
    <3> QED BY <1>0, <1>2, <1>10, <2>1, <3>1
  <2>3. k + n - 1 \in found /\ l <= k + n - 1
    BY <1>4, <1>7, <2>2
  <2>4. l \in found
    <3> SUFFICES ASSUME l \notin found PROVE FALSE
      OBVIOUS
    <3>1. l = k + n - 1
      BY <1>0, <1>2, <1>6, <1>10, <2>2, <2>3
    <3> QED BY <2>3, <3>1
  <2>5. k <= last - 1 /\ last = l - n + 1
    BY <2>4
  <2> QED BY <1>2, <1>6, <2>1, <2>3, <2>5
<1>12. ASSUME NEW k \in 1 .. Len(q), Inside(k) PROVE at[k + 1] = InDollars(q, at[k], k) /\ at[k].tag = tag
  <2>1. at[k].in = "$" /\ at[k].skip = 0 /\ at[k].tag = tag
    BY <1>12 DEF State
  <2> QED BY <1>s, <2>1 DEF AloneStep, Words
<1>13. ASSUME i + n <= last PROVE i + n .. last \subseteq Good
  <2>1. i + n \in Good
    <3>1. i + n \in i + 1 .. i + n
      BY <1>0, <1>2
    <3>2. i + n \in i + n .. last
      <4> HIDE DEF last
      <4> QED BY <1>0, <1>2, <1>10, <1>13
    <3> QED BY <1>8, <3>1, <3>2
  <2>2. ASSUME NEW k \in i + n .. last - 1, k \in Good PROVE k + 1 \in Good
    <3>1. k \in 1 .. Len(q) /\ k + 1 \in i + n .. last
      <4> HIDE DEF last
      <4> QED BY <1>0, <1>2, <1>10
    <3>2. at[k + 1] = at[k]
      BY <1>11, <1>12, <2>2, <3>1 DEF InDollars
    <3> QED BY <2>2, <3>1, <3>2
  <2> HIDE DEF Good, last
  <2> DEFINE a == i + n
             b == last
  <2>3. a \in Nat /\ b \in Nat /\ a \in Good /\ \A k \in a .. b - 1 : k \in Good => k + 1 \in Good
    BY <1>0, <1>2, <1>10, <2>1, <2>2
  <2> HIDE DEF a, b
  <2>4. a .. b \subseteq Good
    BY <2>3, Stretch
  <2> QED BY <2>4 DEF a, b
<1>14. \A k \in i + n .. last : at[k].in = "$"
  <2> SUFFICES ASSUME NEW k \in i + n .. last PROVE at[k].in = "$"
    OBVIOUS
  <2>1. i + n <= last
    <3> HIDE DEF last
    <3> QED BY <1>0, <1>2, <1>10
  <2>2. Inside(k)
    BY <1>13, <2>1
  <2> QED BY <2>2 DEF State
<1>15. CASE l \notin found
  <2>1. last = Len(q) /\ l >= Len(q)
    BY <1>10, <1>15
  <2> HIDE DEF last
  <2>2. \A k \in i + 1 .. l : at[k].in = "$"
    <3> SUFFICES ASSUME NEW k \in i + 1 .. l PROVE at[k].in = "$"
      OBVIOUS
    <3>1. k \in i + 1 .. i + n \/ k \in i + n .. last
      BY <1>0, <1>2, <1>6, <2>1
    <3> QED BY <1>8, <1>14, <3>1
  <2>3. Fresh(q, at[l + 1], l + 1)
    BY <1>0, <1>6, <2>1 DEF Fresh
  <2>4. l \in i .. Len(q)
    BY <1>0, <1>6, <2>1
  <2> QED BY <1>1, <2>2, <2>3, <2>4 DEF Passed
<1>16. CASE l \in found
  <2>1. last = l - n + 1 /\ last \in i + n .. Len(q)
    BY <1>10, <1>16
  <2>2. Spells(q, last, tag) /\ Inside(last)
    <3>1. last \in i + n .. last /\ i + n <= last
      <4> HIDE DEF last
      <4> QED BY <1>0, <1>2, <2>1
    <3> QED BY <1>4, <1>13, <1>16, <2>1, <3>1
  <2> HIDE DEF last
  <2>3. at[last + 1] = State("code", n - 1, 0, <<>>)
    <3>1. at[last + 1] = Passing(Reading("code"), n - 1)
      <4>1. last \in 1 .. Len(q)
        BY <1>0, <1>2, <2>1
      <4> QED BY <1>12, <2>2, <4>1 DEF InDollars, n
    <3> QED BY <3>1 DEF Passing, Reading, State
  <2>4. \A k \in last + 1 .. l + 1 : at[k] = State("code", (l + 1) - k, 0, <<>>)
    <3> DEFINE a == last + 1
               b == l + 1
    <3>1. a \in Nat \ {0} /\ b \in Nat /\ a <= b /\ b <= Len(q) + 1 /\ b - a = n - 1
      BY <1>0, <1>2, <1>6, <2>1
    <3>2. at[a] = State("code", b - a, 0, <<>>)
      BY <2>3, <3>1
    <3> HIDE DEF a, b
    <3>3. \A k \in a .. b : at[k] = State("code", b - k, 0, <<>>)
      BY <1>0, <1>s, <3>1, <3>2, Skips
    <3> QED BY <3>3, Zenon DEF a, b
  <2>5. Fresh(q, at[l + 1], l + 1)
    <3>1. l + 1 \in last + 1 .. l + 1 /\ l + 1 - (l + 1) = 0
      BY <1>0, <1>2, <1>6, <2>1
    <3>2. at[l + 1] = State("code", 0, 0, <<>>)
      BY <2>4, <3>1
    <3> QED BY <3>2 DEF Fresh, State, Words
  <2>6. \A k \in i + 1 .. l : ~(at[k].in \in {"code", "number"} /\ at[k].skip = 0)
    <3> SUFFICES ASSUME NEW k \in i + 1 .. l PROVE ~(at[k].in \in {"code", "number"} /\ at[k].skip = 0)
      OBVIOUS
    <3>1. k \in i + 1 .. i + n \/ k \in i + n .. last \/ (k \in last + 1 .. l + 1 /\ (l + 1) - k # 0)
      BY <1>0, <1>2, <1>6, <2>1
    <3>2. CASE k \in last + 1 .. l + 1 /\ (l + 1) - k # 0
      <4>1. at[k].skip = (l + 1) - k
        <5>1. at[k] = State("code", (l + 1) - k, 0, <<>>)
          BY <2>4, <3>2
        <5> QED BY <5>1 DEF State
      <4> QED BY <3>2, <4>1
    <3> QED BY <1>8, <1>14, <3>1, <3>2
  <2>7. l \in i .. Len(q)
    BY <1>0, <1>2, <1>6, <2>1
  <2> QED BY <1>1, <2>5, <2>6, <2>7 DEF Passed
<1> QED BY <1>15, <1>16

\* A single character.
LEMMA OtherSpan ==
    ASSUME NEW q, NEW at, Reads(q, at), NEW i \in DOMAIN q, Fresh(q, at[i], i),
           q[i] \notin Letters, q[i] # "'", q[i] # "double",
           Next2(q, i) # <<"-", "-">>, Next2(q, i) # <<"/", "*">>,
           q[i] = "$" => ~Numbered(q, i) /\ DollarTag(q, i) = <<>>
    PROVE  Passed(q, at, i, PostgresSpan(q, i, DollarTag(q, i)))
<1>0. /\ q \in Seq(Characters) /\ Len(q) \in Nat /\ DOMAIN q = 1 .. Len(q) /\ i \in 1 .. Len(q)
      /\ at[i].in \in Words
      /\ at[i].in \in {"e", "word"} => q[i] \notin Part \cup {"$"}
      /\ at[i + 1] = PostgresInCode(q, at[i], i)
  BY FreshStep
<1>1. PostgresSpan(q, i, DollarTag(q, i)) = i
  BY PostgresSpanIs
<1>2. at[i + 1] = Reading("code") \/ at[i + 1] = Reading("number")
  BY <1>0 DEF PostgresInCode
<1>3. Fresh(q, at[i + 1], i + 1)
  BY <1>2 DEF Fresh, Reading, State, Words
<1>4. \A k \in i + 1 .. i : FALSE
  BY <1>0
<1>5. i \in i .. Len(q)
  BY <1>0
<1> QED BY <1>1, <1>3, <1>4, <1>5 DEF Passed

\* Whatever it is, the scanner and the server agree where it ends.
LEMMA SpanPassed ==
    ASSUME NEW q, NEW at, Reads(q, at), NEW i \in DOMAIN q, Fresh(q, at[i], i)
    PROVE  Passed(q, at, i, PostgresSpan(q, i, DollarTag(q, i)))
<1>1. CASE q[i] \in {"'", "double"}
  BY <1>1, QuoteSpan
<1>2. CASE q[i] \in Letters
  BY <1>2, WordSpan
<1>3. CASE Next2(q, i) = <<"-", "-">>
  <2>1. Char(q, i) = "-" /\ Char(q, i + 1) = "-"
    BY <1>3, Pairs
  <2> QED BY <2>1, LineSpan
<1>4. CASE Next2(q, i) = <<"/", "*">>
  <2>1. Char(q, i) = "/" /\ Char(q, i + 1) = "*"
    BY <1>4, Pairs
  <2> QED BY <2>1, BlockSpan
<1>5. CASE Numbered(q, i)
  BY <1>5, NumberSpan
<1>6. CASE q[i] = "$" /\ ~Numbered(q, i) /\ DollarTag(q, i) # <<>>
  BY <1>6, DollarSpan
<1> QED BY <1>1, <1>2, <1>3, <1>4, <1>5, <1>6, OtherSpan

-----------------------------------------------------------------------------
(* What countPostgresPlaceholders() counts.                                *)

\* The scanner goes forward, whatever it meets.
LEMMA SpanBounds ==
    ASSUME NEW q \in Seq(Characters), NEW i \in DOMAIN q
    PROVE  PostgresSpan(q, i, DollarTag(q, i)) \in i .. Len(q)
<1> DEFINE l == PostgresSpan(q, i, DollarTag(q, i))
<1>0. Len(q) \in Nat /\ DOMAIN q = 1 .. Len(q) /\ i \in 1 .. Len(q) /\ Len(q) > 0 /\ i \in i .. Len(q)
  OBVIOUS
<1>a. ASSUME NEW a \in Nat \ {0}, a >= i, NEW found \in SUBSET (a .. Len(q))
      PROVE  Min(found \cup {Len(q)}) \in i .. Len(q)
  <2> DEFINE m == Min(found \cup {Len(q)})
  <2>1. m \in 1 .. Len(q) /\ (m < Len(q) => m >= a)
    BY <1>0, FirstFromIs
  <2> HIDE DEF m
  <2>2. m \in i .. Len(q)
    BY <1>0, <1>a, <2>1
  <2> QED BY <2>2 DEF m
<1>1. CASE q[i] = "'"
  BY <1>1, PostgresSpanIs, QuotedEndBounds
<1>2. CASE q[i] = "double"
  BY <1>2, PostgresSpanIs, QuotedEndBounds
<1>3. CASE q[i] \in Letters
  <2> DEFINE set == Part \cup {"$"}
             e == RunOf(q, i, set)
  <2>1. l = e /\ q[i] \in set
    BY <1>3, PostgresSpanIs DEF Part
  <2>2. i \in 1 .. Len(q) + 1
    BY <1>0
  <2> HIDE DEF set
  <2>3. e \in i - 1 .. Len(q) /\ (e < Len(q) => q[e + 1] \notin set)
    BY <2>2, RunOfIs
  <2> HIDE DEF e
  <2>4. e # i - 1
    <3> SUFFICES ASSUME e = i - 1 PROVE FALSE
      OBVIOUS
    <3>1. e < Len(q) /\ e + 1 = i
      BY <1>0
    <3> QED BY <2>1, <2>3, <3>1
  <2>5. e \in i .. Len(q)
    BY <1>0, <2>3, <2>4
  <2> QED BY <2>1, <2>5
<1>4. CASE Next2(q, i) = <<"-", "-">>
  <2> DEFINE found == {j \in (i + 1) + 1 .. Len(q) : q[j] = "\n"}
             a == (i + 1) + 1
  <2>1. l = Min(found \cup {Len(q)})
    BY <1>4, PostgresSpanIs DEF LineEnd, FirstFrom
  <2>2. found \in SUBSET (a .. Len(q)) /\ a \in Nat \ {0} /\ a >= i
    BY <1>0
  <2> HIDE DEF found, a, l
  <2> QED BY <1>a, <2>1, <2>2 DEF l
<1>5. CASE Next2(q, i) = <<"/", "*">>
  BY <1>5, PostgresSpanIs, CommentEndBounds
<1>6. CASE Numbered(q, i)
  <2>1. l = RunOf(q, i + 1, Digits)
    BY <1>6, PostgresSpanIs
  <2>2. i + 1 \in 1 .. Len(q) + 1 /\ i + 1 - 1 = i
    BY <1>0
  <2> QED BY <2>1, <2>2, RunOfIs
<1>7. CASE q[i] = "$" /\ ~Numbered(q, i) /\ DollarTag(q, i) # <<>>
  <2> DEFINE tag == DollarTag(q, i)
             n == Len(tag)
             found == {j \in i + 2 * n - 1 .. Len(q) : Spells(q, j - n + 1, tag)}
             a == i + 2 * n - 1
  <2>1. l = Min(found \cup {Len(q)})
    BY <1>7, PostgresSpanIs DEF BodyEnd, FirstFrom
  <2>2. PICK close \in i + 1 .. Len(q) : n = close - i + 1
    BY <1>7, DollarTagIs
  <2> HIDE DEF tag, n
  <2>3. found \in SUBSET (a .. Len(q)) /\ a \in Nat \ {0} /\ a >= i
    BY <1>0, <2>2
  <2> HIDE DEF found, a, l
  <2> QED BY <1>a, <2>1, <2>3 DEF l
<1> QED BY <1>0, <1>1, <1>2, <1>3, <1>4, <1>5, <1>6, <1>7, PostgresSpanIs

\* The number behind a dollar sign.
LEMMA NumberAt ==
    ASSUME NEW q \in Seq(Characters), NEW i \in DOMAIN q
    PROVE  Number(SubSeq(q, i + 1, RunOf(q, i + 1, Digits))) \in Nat
<1> DEFINE l == RunOf(q, i + 1, Digits)
           word == SubSeq(q, i + 1, l)
<1>0. Len(q) \in Nat /\ DOMAIN q = 1 .. Len(q) /\ i \in 1 .. Len(q) /\ i + 1 \in 1 .. Len(q) + 1 /\ i + 1 - 1 = i
  OBVIOUS
<1>1. l \in i .. Len(q) /\ \A k \in i + 1 .. l : q[k] \in Digits
  BY <1>0, RunOfIs
<1> HIDE DEF l
<1>2. /\ Len(word) = l - i
      /\ \A k \in 1 .. l - i : word[k] = q[i + 1 + k - 1]
  <2>1. l - (i + 1) + 1 = l - i /\ (i + 1 <= l => l \in 1 .. Len(q))
    BY <1>0, <1>1
  <2>2. CASE i + 1 <= l
    BY <1>0, <1>1, <2>2
  <2>3. CASE i + 1 > l
    BY <1>0, <1>1, <2>3
  <2> QED BY <1>0, <1>1, <2>2, <2>3
<1> HIDE DEF word
<1>3. \A k \in 1 .. Len(word) : word[k] \in Digits
  <2> TAKE k \in 1 .. Len(word)
  <2>1. i + 1 + k - 1 \in i + 1 .. l
    BY <1>0, <1>1, <1>2
  <2> QED BY <1>1, <1>2, <2>1
<1>4. Len(word) \in Nat
  BY <1>0, <1>1, <1>2
<1>5. Number(word) \in Nat
  BY <1>3, <1>4, NumberIsNat
<1> QED BY <1>5 DEF word, l

\* from is the count of the rest, for each place to go on from.
Counting(q, from) ==
    /\ CountPostgres(q) = from[1] /\ from[Len(q) + 1] = 0
    /\ \A i \in 1 .. Len(q) + 1 : from[i] \in Nat
    /\ \A i \in 1 .. Len(q) :
          from[i] = Counted(q, i, PostgresSpan(q, i, DollarTag(q, i)),
                            from[PostgresSpan(q, i, DollarTag(q, i)) + 1])
\* countPostgresPlaceholders() comes to an end.
LEMMA CountPostgresDef ==
    ASSUME NEW q \in Seq(Characters)
    PROVE  \E from : Counting(q, from)
<1> DEFINE D == 1 .. Len(q) + 1
           last == [i \in DOMAIN q |-> PostgresSpan(q, i, DollarTag(q, i))]
           Body(i, f) == IF i > Len(q) THEN 0 ELSE Counted(q, i, last[i], f[last[i] + 1])
           Is(f) == f = [i \in D |-> Body(i, f)]
           from == CHOOSE f : Is(f)
           F == [i \in D |-> [f \in [D -> Nat] |-> Body(i, f)]]
           rank == [i \in D |-> Len(q) + 1 - i]
           N == Len(q) + 1
<1>0. Len(q) \in Nat /\ DOMAIN q = 1 .. Len(q)
  OBVIOUS
<1>1. CountPostgres(q) = from[1]
  BY DEF CountPostgres
<1>l. /\ \A i \in 1 .. Len(q) : last[i] = PostgresSpan(q, i, DollarTag(q, i))
      /\ \A i \in 1 .. Len(q) : last[i] \in i .. Len(q)
  BY <1>0, SpanBounds
<1> HIDE DEF last
<1>2. ASSUME NEW i \in 1 .. Len(q), NEW rest \in Nat PROVE Counted(q, i, last[i], rest) \in Nat
  <2>1. CASE Numbered(q, i)
    <3>1. last[i] = RunOf(q, i + 1, Digits)
      BY <1>0, <1>l, <2>1, PostgresSpanIs
    <3>2. Number(SubSeq(q, i + 1, last[i])) \in Nat
      BY <1>0, <3>1, NumberAt
    <3> DEFINE n == Number(SubSeq(q, i + 1, last[i]))
    <3>3. Counted(q, i, last[i], rest) = Max({n, rest})
      BY <2>1 DEF Counted
    <3>4. n \in Nat
      BY <3>2
    <3> HIDE DEF n
    <3>5. Max({n, rest}) = IF n <= rest THEN rest ELSE n
      <4>1. n \in Int /\ rest \in Int
        BY <3>4
      <4> QED BY <4>1, OfTwo, Zenon
    <3>6. Max({n, rest}) \in Nat
      BY <3>4, <3>5
    <3> QED BY <3>3, <3>6
  <2>2. CASE ~Numbered(q, i)
    BY <2>2 DEF Counted
  <2> QED BY <2>1, <2>2
<1>3. ASSUME NEW i \in D, NEW f \in [D -> Nat] PROVE Body(i, f) \in Nat
  <2>1. CASE i > Len(q)
    BY <2>1
  <2>2. CASE ~(i > Len(q))
    <3>1. i \in 1 .. Len(q)
      BY <1>0, <2>2
    <3>2. last[i] + 1 \in D
      BY <1>0, <1>l, <3>1
    <3>3. f[last[i] + 1] \in Nat
      BY <3>2
    <3> QED BY <1>2, <2>2, <3>1, <3>3
  <2> QED BY <2>1, <2>2
<1>4. \E f \in [D -> Nat] : Is(f)
  <2>1. rank \in [D -> 0 .. N] /\ N \in Nat
    BY <1>0
  <2>2. F \in [D -> [[D -> Nat] -> Nat]]
    <3> HIDE DEF Body, D
    <3> QED BY <1>3
  <2>3. \A i \in D : \A f, g \in [D -> Nat] :
           (\A k \in D : rank[k] < rank[i] => f[k] = g[k]) => F[i][f] = F[i][g]
    <3> SUFFICES ASSUME NEW i \in D, NEW f \in [D -> Nat], NEW g \in [D -> Nat],
                        \A k \in D : rank[k] < rank[i] => f[k] = g[k]
                 PROVE  Body(i, f) = Body(i, g)
      BY Zenon
    <3>1. i <= Len(q) => last[i] + 1 \in D /\ rank[last[i] + 1] < rank[i]
      BY <1>0, <1>l
    <3>2. i <= Len(q) => f[last[i] + 1] = g[last[i] + 1]
      BY <3>1
    <3>3. CASE i > Len(q)
      BY <3>3
    <3>4. CASE ~(i > Len(q))
      BY <1>0, <3>2, <3>4
    <3> QED BY <3>3, <3>4
  <2> HIDE DEF F, rank, D, N
  <2>4. PICK f \in [D -> Nat] : \A i \in D : f[i] = F[i][f]
    <3>1. Nat # {}
      OBVIOUS
    <3>2. Grounded(D, Nat, N, rank, F)
      BY <2>1, <2>2, <2>3, <3>1 DEF Grounded
    <3> QED BY <3>2, Recursion
  <2>5. \A i \in D : f[i] = Body(i, f)
    BY <2>4 DEF F
  <2> HIDE DEF Body
  <2> QED BY <2>4, <2>5
<1>5. Is(from)
  BY <1>4
<1>6. \A i \in D : from[i] = Body(i, from)
  <2> HIDE DEF from, Body, D
  <2> QED BY <1>5
<1> HIDE DEF from
<1>7. from[Len(q) + 1] = 0
  <2>1. Len(q) + 1 \in D /\ Len(q) + 1 > Len(q)
    BY <1>0
  <2> QED BY <1>6, <2>1
<1>8. \A i \in 1 .. Len(q) :
         from[i] = Counted(q, i, PostgresSpan(q, i, DollarTag(q, i)), from[PostgresSpan(q, i, DollarTag(q, i)) + 1])
  <2> TAKE i \in 1 .. Len(q)
  <2>1. i \in D /\ ~(i > Len(q))
    BY <1>0
  <2>2. from[i] = Counted(q, i, last[i], from[last[i] + 1])
    BY <1>6, <2>1
  <2> QED BY <1>l, <2>2
<1> DEFINE Good == {i \in 1 .. N : from[i] \in Nat}
<1>9. ASSUME NEW i \in 1 .. N, \A k \in i + 1 .. N : k \in Good PROVE i \in Good
  <2>1. CASE i > Len(q)
    <3>1. i = Len(q) + 1
      BY <1>0, <2>1
    <3> QED BY <1>7, <3>1
  <2>2. CASE ~(i > Len(q))
    <3>1. i \in 1 .. Len(q) /\ last[i] + 1 \in i + 1 .. N
      BY <1>0, <1>l, <2>2
    <3>2. from[last[i] + 1] \in Nat
      BY <1>9, <3>1
    <3>3. from[i] = Counted(q, i, last[i], from[last[i] + 1])
      BY <1>8, <1>l, <3>1
    <3> QED BY <1>2, <3>1, <3>2, <3>3
  <2> QED BY <2>1, <2>2
<1> HIDE DEF Good
<1>10. 1 .. N \subseteq Good
  <2> HIDE DEF N
  <2>1. N \in Nat
    BY <1>0 DEF N
  <2> QED BY <1>9, <2>1, Descending
<1>11. Counting(q, from)
  BY <1>1, <1>7, <1>8, <1>10 DEF Counting, Good
<1> QED BY <1>11

\* A parameter's place and number.
Place(q, at, k) == Numbered(q, k) /\ at[k].in \in {"code", "number"} /\ at[k].skip = 0
NumberOf(q, k) == Number(SubSeq(q, k + 1, RunOf(q, k + 1, Digits)))
\* n is the greatest number from i on.
Greatest(q, at, i, n) ==
    /\ \A k \in i .. Len(q) : Place(q, at, k) => NumberOf(q, k) <= n
    /\ n # 0 => \E k \in i .. Len(q) : Place(q, at, k) /\ NumberOf(q, k) = n

\* Where a parameter begins, and where something else does.
LEMMA GreatestFrom ==
    ASSUME NEW q, NEW at, Reads(q, at), NEW from, Counting(q, from),
           NEW i \in DOMAIN q, Fresh(q, at[i], i),
           \A m \in i + 1 .. Len(q) + 1 : Fresh(q, at[m], m) => Greatest(q, at, m, from[m])
    PROVE  Greatest(q, at, i, from[i])
<1> DEFINE l == PostgresSpan(q, i, DollarTag(q, i))
           rest == from[l + 1]
           num == NumberOf(q, i)
<1>0. /\ q \in Seq(Characters) /\ Len(q) \in Nat /\ DOMAIN q = 1 .. Len(q) /\ i \in 1 .. Len(q)
      /\ at[i].skip = 0 /\ at[i].in \in Words
      /\ at[i].in \in {"e", "word"} => q[i] \notin Part \cup {"$"}
  BY FreshStep
<1>1. Passed(q, at, i, l)
  BY SpanPassed
<1>2. from[i] = Counted(q, i, l, rest) /\ (Numbered(q, i) => l = RunOf(q, i + 1, Digits))
  BY <1>0, PostgresSpanIs DEF Counting
<1> HIDE DEF l
<1>3. l \in i .. Len(q) /\ \A k \in i + 1 .. l : ~Place(q, at, k)
  BY <1>1 DEF Passed, Place
<1>4. Greatest(q, at, l + 1, rest)
  <2>1. l + 1 \in i + 1 .. Len(q) + 1
    BY <1>0, <1>3
  <2> QED BY <1>1, <2>1 DEF Passed
<1>5. rest \in Nat
  <2>1. l + 1 \in 1 .. Len(q) + 1
    BY <1>0, <1>3
  <2> QED BY <2>1 DEF Counting
<1>6. num \in Nat
  BY <1>0, NumberAt DEF NumberOf
<1>7. \A k \in i .. Len(q) : Place(q, at, k) => k = i \/ k \in l + 1 .. Len(q)
  <2> SUFFICES ASSUME NEW k \in i .. Len(q), k # i, ~(k \in l + 1 .. Len(q)) PROVE ~Place(q, at, k)
    OBVIOUS
  <2>1. k \in i + 1 .. l
    BY <1>0, <1>3
  <2> QED BY <1>3, <2>1
<1>8. \A k \in l + 1 .. Len(q) : k \in i .. Len(q)
  BY <1>0, <1>3
<1>9. CASE Numbered(q, i)
  <2>1. Place(q, at, i)
    <3>1. q[i] = "$"
      BY <1>9 DEF Numbered
    <3> QED BY <1>0, <1>9, <3>1 DEF Place, Words
  <2>2. from[i] = Max({num, rest})
    BY <1>2, <1>9 DEF Counted, NumberOf
  <2> HIDE DEF rest, num
  <2>3. Max({num, rest}) = IF num <= rest THEN rest ELSE num
    <3>1. num \in Int /\ rest \in Int
      BY <1>5, <1>6
    <3> QED BY <3>1, OfTwo, Zenon
  <2>4. num <= from[i] /\ rest <= from[i] /\ (from[i] = num \/ from[i] = rest) /\ from[i] \in Nat
    BY <1>5, <1>6, <2>2, <2>3
  <2>5. \A k \in i .. Len(q) : Place(q, at, k) => NumberOf(q, k) <= from[i]
    <3> SUFFICES ASSUME NEW k \in i .. Len(q), Place(q, at, k) PROVE NumberOf(q, k) <= from[i]
      OBVIOUS
    <3>1. CASE k = i
      BY <2>4, <3>1 DEF num
    <3>2. CASE k \in l + 1 .. Len(q)
      <4>1. NumberOf(q, k) <= rest
        BY <1>4, <3>2 DEF Greatest
      <4>2. NumberOf(q, k) \in Nat
        <5>1. k \in DOMAIN q
          BY <1>0
        <5> QED BY <1>0, <5>1, NumberAt DEF NumberOf
      <4> QED BY <1>5, <2>4, <4>1, <4>2
    <3> QED BY <1>7, <3>1, <3>2
  <2>6. from[i] # 0 => \E k \in i .. Len(q) : Place(q, at, k) /\ NumberOf(q, k) = from[i]
    <3>1. CASE from[i] = num
      <4>1. i \in i .. Len(q)
        BY <1>0
      <4> QED BY <2>1, <3>1, <4>1 DEF num
    <3>2. CASE from[i] = rest
      BY <1>4, <1>8, <3>2 DEF Greatest
    <3> QED BY <2>4, <3>1, <3>2
  <2> QED BY <2>5, <2>6 DEF Greatest
<1>10. CASE ~Numbered(q, i)
  <2>1. from[i] = rest
    BY <1>2, <1>10 DEF Counted
  <2>2. ~Place(q, at, i)
    BY <1>10 DEF Place
  <2> HIDE DEF rest
  <2> QED BY <1>4, <1>7, <1>8, <2>1, <2>2 DEF Greatest
<1> QED BY <1>9, <1>10

-----------------------------------------------------------------------------
(* The PostgreSQL server, which goes on with an e'...' on a later line.     *)

PostgresReaderStates(q) == PostgresStates(q) \cup {Reading("ended"), Reading("next")}

\* The server reads like AloneStep, unless a quoted text ends or it is behind one.
LEMMA StepsAlike ==
    ASSUME NEW q \in Seq(Characters), NEW s \in PostgresStates(q), NEW i \in DOMAIN q
    PROVE  /\ s.in = "e'" /\ s.skip = 0 =>
                 PostgresStep(q, s, i) \in {AloneStep(q, s, i), Reading("ended")}
           /\ s.in = "line" /\ s.skip = 0 =>
                 PostgresStep(q, s, i) = IF q[i] = "\n" /\ s.depth = 1 THEN Reading("next") ELSE AloneStep(q, s, i)
           /\ s.in \notin {"e'", "line"} \/ s.skip > 0 => PostgresStep(q, s, i) = AloneStep(q, s, i)
<1>1. s.in \in Words \cup {"line", "block", "$", "'", "e'", "double"} /\ s.skip \in Nat
  BY DEF PostgresStates
<1>2. CASE s.skip > 0
  BY <1>1, <1>2 DEF PostgresStep, AloneStep
<1>3. CASE s.skip = 0 /\ s.in \in Words
  <2>1. PostgresStep(q, s, i) = PostgresInCode(q, s, i) /\ AloneStep(q, s, i) = PostgresInCode(q, s, i)
    BY <1>3 DEF PostgresStep, AloneStep, Words
  <2> QED BY <1>3, <2>1 DEF Words
<1>4. CASE s.skip = 0 /\ s.in = "line"
  <2>1. PostgresStep(q, s, i) = PostgresInLine(q, s, i) /\ AloneStep(q, s, i) = InLine(q, s, i)
    BY <1>4 DEF PostgresStep, AloneStep, Words
  <2> QED BY <1>4, <2>1 DEF PostgresInLine, InLine
<1>5. CASE s.skip = 0 /\ s.in \in {"block", "$"}
  BY <1>5 DEF PostgresStep, AloneStep, Words
<1>6. CASE s.skip = 0 /\ s.in \in {"'", "e'", "double"}
  <2>1. PostgresStep(q, s, i) = PostgresInQuotes(q, s, i) /\ AloneStep(q, s, i) = AloneInQuotes(q, s, i)
    BY <1>6 DEF PostgresStep, AloneStep, Words
  <2> QED BY <1>6, <2>1 DEF PostgresInQuotes, AloneInQuotes
<1> QED BY <1>1, <1>2, <1>3, <1>4, <1>5, <1>6

\* What follows when nothing was before.
LEMMA CodeAlone ==
    ASSUME NEW q \in Seq(Characters), NEW i \in DOMAIN q
    PROVE  /\ AloneStep(q, Reading("code"), i) = PostgresInCode(q, Reading("code"), i)
           /\ PostgresInCode(q, Reading("code"), i) \in PostgresStates(q)
           /\ PostgresInCode(q, Reading("code"), i).in = "line" =>
                 PostgresInCode(q, Reading("code"), i) = Reading("line")
           /\ q[i] \in White => PostgresInCode(q, Reading("code"), i) = Reading("code")
           /\ Next2(q, i) = <<"-", "-">> => PostgresInCode(q, Reading("code"), i) = Reading("line")
<1> DEFINE s == Reading("code")
<1>1. s \in PostgresStates(q) /\ s.in = "code" /\ s.skip = 0
  BY DEF PostgresStates, Reading, State, Words
<1>2. AloneStep(q, s, i) = PostgresInCode(q, s, i)
  BY <1>1 DEF AloneStep, Words
<1>3. AloneStep(q, s, i) \in PostgresStates(q)
  <2> HIDE DEF s
  <2> QED BY <1>1, AloneStepTyped
<1>4. Char(q, i) = q[i]
  BY DEF Char
<1> HIDE DEF s
<1>5. PostgresInCode(q, s, i).in = "line" => PostgresInCode(q, s, i) = Reading("line")
  BY <1>1 DEF PostgresInCode, Reading, State
<1>6. ASSUME q[i] \in White PROVE PostgresInCode(q, s, i) = Reading("code")
  <2>1. q[i] \notin Letters /\ q[i] \notin Digits /\ q[i] \notin {"'", "double", "-", "/", "$"}
    BY <1>6, Zenon DEF White, Letters, Digits
  <2>2. Next2(q, i) # <<"-", "-">> /\ Next2(q, i) # <<"/", "*">>
    BY <1>4, <2>1, Pairs
  <2> QED BY <1>1, <2>1, <2>2 DEF PostgresInCode
<1>7. ASSUME Next2(q, i) = <<"-", "-">> PROVE PostgresInCode(q, s, i) = Reading("line")
  <2>1. q[i] = "-"
    BY <1>4, <1>7, Pairs
  <2>2. q[i] \notin Letters /\ q[i] \notin Digits
    BY <2>1 DEF Letters, Digits
  <2> QED BY <1>1, <1>7, <2>1, <2>2 DEF PostgresInCode
<1> QED BY <1>2, <1>3, <1>5, <1>6, <1>7 DEF s

\* Every step of the PostgreSQL server leads to a state it can be in.
LEMMA PostgresStepTyped ==
    ASSUME NEW q \in Seq(Characters), NEW s \in PostgresReaderStates(q), NEW i \in DOMAIN q
    PROVE  PostgresStep(q, s, i) \in PostgresReaderStates(q)
<1>1. CASE s \in PostgresStates(q)
  <2>1. PostgresStep(q, s, i) \in {AloneStep(q, s, i), Reading("ended"), Reading("next")}
    <3>1. s.skip \in Nat
      BY <1>1 DEF PostgresStates
    <3> QED BY <1>1, <3>1, StepsAlike
  <2> QED BY <1>1, <2>1, AloneStepTyped DEF PostgresReaderStates
<1>2. CASE s \in {Reading("ended"), Reading("next")}
  <2>1. PostgresStep(q, s, i) = PostgresBehind(q, s, i)
    BY <1>2 DEF PostgresStep, Reading, State, Words
  <2>2. Reading("e'") \in PostgresStates(q) /\ State("line", 0, 1, <<>>) \in PostgresStates(q)
    BY DEF PostgresStates, Reading, State, Words
  <2> QED BY <1>2, <2>1, <2>2, CodeAlone DEF PostgresBehind, PostgresReaderStates
<1> QED BY <1>1, <1>2 DEF PostgresReaderStates

\* The PostgreSQL server reads a statement to its end.
LEMMA PostgresReadsDef ==
    ASSUME NEW q \in Seq(Characters)
    PROVE  /\ PostgresReads(q)[1] = Reading("code")
           /\ \A i \in 1 .. Len(q) : PostgresReads(q)[i + 1] = PostgresStep(q, PostgresReads(q)[i], i)
           /\ \A i \in 1 .. Len(q) + 1 : PostgresReads(q)[i] \in PostgresReaderStates(q)
<1> DEFINE D == 1 .. Len(q) + 1
           S == PostgresReaderStates(q)
           Body(i, f) == IF i = 1 THEN Reading("code") ELSE PostgresStep(q, f[i - 1], i - 1)
           Is(f) == f = [i \in D |-> Body(i, f)]
           at == CHOOSE f : Is(f)
           step == [i \in 1 .. Len(q) |-> [s \in S |-> PostgresStep(q, s, i)]]
<1>0. Len(q) \in Nat /\ DOMAIN q = 1 .. Len(q)
  OBVIOUS
<1>1. PostgresReads(q) = at
  BY DEF PostgresReads
<1>2. Reading("code") \in S
  BY DEF PostgresReaderStates, PostgresStates, Reading, State, Words
<1>3. \A i \in 1 .. Len(q), s \in S : PostgresStep(q, s, i) \in S
  BY <1>0, PostgresStepTyped
<1> HIDE DEF S
<1>4. \E f : Is(f)
  <2>1. step \in [1 .. Len(q) -> [S -> S]]
    BY <1>3
  <2> HIDE DEF step
  <2> HIDE DEF D
  <2>a. Machine(Len(q), S, Reading("code"), step)
    BY <1>0, <1>2, <2>1 DEF Machine
  <2>b. PICK f : Runs(Len(q), S, Reading("code"), step, f)
    BY <2>a, Automaton
  <2>2. f \in [D -> S] /\ \A i \in D : f[i] = IF i = 1 THEN Reading("code") ELSE step[i - 1][f[i - 1]]
    BY <2>b DEF Runs, D
  <2>3. ASSUME NEW i \in D, i # 1 PROVE f[i] = PostgresStep(q, f[i - 1], i - 1)
    <3>1. i - 1 \in 1 .. Len(q) /\ i - 1 \in D
      BY <1>0, <2>3 DEF D
    <3>2. f[i - 1] \in S
      BY <2>2, <3>1
    <3> QED BY <2>2, <2>3, <3>1, <3>2 DEF step
  <2>4. \A i \in D : f[i] = Body(i, f)
    BY <2>2, <2>3
  <2> HIDE DEF Body
  <2> QED BY <2>2, <2>4
<1>5. Is(at)
  BY <1>4
<1>6. \A i \in D : at[i] = Body(i, at)
  <2> HIDE DEF at, Body, D
  <2> QED BY <1>5
<1> HIDE DEF at
<1>7. at[1] = Reading("code") /\ \A i \in 1 .. Len(q) : at[i + 1] = PostgresStep(q, at[i], i)
  <2>1. 1 \in D /\ \A i \in 1 .. Len(q) : i + 1 \in D /\ i + 1 # 1 /\ i + 1 - 1 = i
    BY <1>0
  <2> HIDE DEF D
  <2> QED BY <1>6, <2>1
<1>8. \A i \in 1 .. Len(q) + 1 : at[i] \in S
  <2>1. \A i \in 1 .. Len(q) : at[i] \in S => at[i + 1] \in S
    BY <1>3, <1>7
  <2> QED BY <1>0, <1>2, <1>7, <2>1, Stays
<1> QED BY <1>1, <1>7, <1>8 DEF S

\* What is left of a state without what was behind.
Alone(s) ==
    IF s.in \in {"ended", "next"} THEN Reading("code")
    ELSE IF s.in = "line" THEN State("line", s.skip, 0, s.tag)
    ELSE s
AloneReads(q) == [i \in 1 .. Len(q) + 1 |-> Alone(PostgresReads(q)[i])]

\* It is a state of the other reader, at whose steps the two agree.
LEMMA AloneTyped ==
    ASSUME NEW q \in Seq(Characters), NEW s \in PostgresReaderStates(q)
    PROVE  /\ Alone(s) \in PostgresStates(q)
           /\ Alone(s).skip = s.skip /\ Alone(s).tag = s.tag
           /\ s.in \in {"ended", "next"} => s = Reading(s.in) /\ Alone(s) = Reading("code")
           /\ s.in \notin {"ended", "next"} => s \in PostgresStates(q) /\ Alone(s).in = s.in
           /\ s.in \notin {"ended", "next", "line"} => Alone(s) = s
<1>1. CASE s \in PostgresStates(q)
  <2>1. /\ s.in \in Words \cup {"line", "block", "$", "'", "e'", "double"}
        /\ s.skip \in Nat /\ s.tag \in {<<>>} \cup Tags(q)
    BY <1>1 DEF PostgresStates
  <2>2. s.in \notin {"ended", "next"}
    BY <2>1 DEF Words
  <2>3. CASE s.in = "line"
    BY <1>1, <2>1, <2>2, <2>3 DEF Alone, State, PostgresStates, Words
  <2>4. CASE s.in # "line"
    BY <1>1, <2>2, <2>4 DEF Alone
  <2> QED BY <2>3, <2>4
<1>2. CASE s \in {Reading("ended"), Reading("next")}
  BY <1>2 DEF Alone, Reading, State, PostgresStates, Words
<1> QED BY <1>1, <1>2 DEF PostgresReaderStates

\* The server and AloneStep agree wherever the server does not go on with an
\* e'...' on a later line.
LEMMA AloneAlike ==
    ASSUME NEW q \in Seq(Characters), NEW s \in PostgresReaderStates(q), NEW i \in DOMAIN q,
           ~(q[i] = "'" /\ s.in = "next")
    PROVE  Alone(PostgresStep(q, s, i)) = AloneStep(q, Alone(s), i)
<1> DEFINE t == PostgresStep(q, s, i)
           code == PostgresInCode(q, Reading("code"), i)
<1>0. /\ Alone(Reading("ended")) = Reading("code") /\ Alone(Reading("next")) = Reading("code")
      /\ Alone(Reading("line")) = Reading("line") /\ Alone(State("line", 0, 1, <<>>)) = Reading("line")
  BY DEF Alone, Reading, State
<1>1. CASE s.in \in {"ended", "next"}
  <2>1. s = Reading(s.in) /\ Alone(s) = Reading("code") /\ s \in {Reading("ended"), Reading("next")}
    BY <1>1, AloneTyped
  <2>2. t = PostgresBehind(q, s, i)
    BY <1>1, <2>1 DEF PostgresStep, Reading, State, Words
  <2>3. AloneStep(q, Alone(s), i) = code
    BY <2>1, CodeAlone
  <2>4. Alone(code) = code
    <3>1. code \in PostgresStates(q) /\ (code.in = "line" => code = Reading("line"))
      BY CodeAlone
    <3> HIDE DEF code
    <3>2. code \in PostgresReaderStates(q) /\ code.in \notin {"ended", "next"}
      BY <3>1 DEF PostgresStates, PostgresReaderStates, Words
    <3> QED BY <1>0, <3>1, <3>2, AloneTyped
  <2>5. q[i] = "\n" => q[i] \in White
    BY DEF White
  <2> QED BY <1>0, <2>1, <2>2, <2>3, <2>4, <2>5, CodeAlone DEF PostgresBehind
<1>2. CASE s.in = "line" /\ s.skip = 0
  <2>1. s \in PostgresStates(q) /\ Alone(s) = State("line", 0, 0, s.tag)
    BY <1>2, AloneTyped DEF Alone
  <2>2. t = PostgresInLine(q, s, i)
    BY <1>2 DEF PostgresStep, Words
  <2>3. AloneStep(q, Alone(s), i) = InLine(q, Alone(s), i)
    BY <2>1 DEF AloneStep, Words, State
  <2>4. Alone(Reading("code")) = Reading("code")
    BY DEF Alone, Reading, State
  <2> QED BY <1>0, <2>2, <2>3, <2>4 DEF PostgresInLine, InLine
<1>3. CASE s.in = "line" /\ s.skip # 0
  <2>1. s \in PostgresStates(q) /\ Alone(s) = State("line", s.skip, 0, s.tag) /\ s.skip \in Nat
    BY <1>3, AloneTyped DEF Alone, PostgresStates
  <2>2. t = Passing(s, s.skip - 1)
    BY <1>3, <2>1 DEF PostgresStep
  <2>3. AloneStep(q, Alone(s), i) = Passing(Alone(s), s.skip - 1)
    BY <1>3, <2>1 DEF AloneStep, State
  <2> QED BY <1>3, <2>1, <2>2, <2>3 DEF Alone, Passing, State
<1>4. CASE s.in \notin {"ended", "next", "line"}
  <2>1. s \in PostgresStates(q) /\ Alone(s) = s
    BY <1>4, AloneTyped
  <2>2. t \in {AloneStep(q, s, i), Reading("ended")}
    <3>1. s.skip \in Nat
      BY <2>1 DEF PostgresStates
    <3> QED BY <1>4, <2>1, <3>1, StepsAlike
  <2>3. t = Reading("ended") => s.in = "e'" /\ s.skip = 0 /\ AloneStep(q, s, i) = Reading("code")
    <3>0. /\ s.in \in Words \cup {"block", "$", "'", "e'", "double"} /\ s.skip \in Nat
          /\ Reading("ended") \notin PostgresStates(q)
      BY <1>4, <2>1 DEF PostgresStates, Reading, State, Words
    <3>1. CASE s.in = "e'" /\ s.skip = 0
      <4>1. t = PostgresInQuotes(q, s, i) /\ AloneStep(q, s, i) = AloneInQuotes(q, s, i)
        BY <3>1 DEF PostgresStep, AloneStep, Words
      <4>2. s # Reading("ended") /\ Passing(s, 1) # Reading("ended")
        BY <3>1 DEF Passing, Reading, State
      <4> QED BY <3>1, <4>1, <4>2 DEF PostgresInQuotes, AloneInQuotes
    <3>2. CASE ~(s.in = "e'" /\ s.skip = 0)
      <4>1. t = AloneStep(q, s, i)
        BY <1>4, <2>1, <3>0, <3>2, StepsAlike
      <4>2. t \in PostgresStates(q)
        BY <2>1, <4>1, AloneStepTyped
      <4> QED BY <3>0, <4>2
    <3> QED BY <3>1, <3>2
  <2>4. t # Reading("ended") => Alone(t) = t
    <3> SUFFICES ASSUME t = AloneStep(q, s, i) PROVE Alone(t) = t
      BY <2>2
    <3>1. t \in PostgresReaderStates(q) /\ t.in \notin {"ended", "next"}
      <4>1. t \in PostgresStates(q)
        BY <2>1, AloneStepTyped
      <4> HIDE DEF t
      <4> QED BY <4>1 DEF PostgresReaderStates, PostgresStates, Words
    <3>2. t.in = "line" => t = Reading("line")
      <4>0. s.in \in Words \cup {"block", "$", "'", "e'", "double"} /\ s.skip \in Nat
        BY <1>4, <2>1 DEF PostgresStates
      <4>1. CASE s.skip = 0 /\ s.in \in Words
        <5>1. t = PostgresInCode(q, s, i)
          BY <4>1 DEF AloneStep, Words
        <5> QED BY <5>1 DEF PostgresInCode, Reading, State
      <4>2. CASE s.skip > 0 \/ s.in \notin Words
        <5>1. t.in # "line"
          BY <1>4, <4>0, <4>2 DEF AloneStep, PostgresInBlock, InDollars, AloneInQuotes, Passing, Reading, State
        <5> QED BY <5>1
      <4> QED BY <4>0, <4>1, <4>2
    <3> HIDE DEF t
    <3> QED BY <1>0, <3>1, <3>2, AloneTyped
  <2> QED BY <1>0, <2>1, <2>2, <2>3, <2>4
<1> QED BY <1>1, <1>2, <1>3, <1>4

\* A query the server reads as the scanner can.
ReadsAlone(q) ==
    /\ q \in Seq(Characters)
    /\ \A i \in DOMAIN q : q[i] = "'" =>
          /\ PostgresReads(q)[i].in = "e" => Char(q, i - 2) # "$"
          /\ PostgresReads(q)[i].in # "next"

\* Its reading, and where the server looks for parameters.
LEMMA AloneReadsIs ==
    ASSUME NEW q, ReadsAlone(q)
    PROVE  /\ Reads(q, AloneReads(q))
           /\ \A i \in DOMAIN q :
                 Place(q, AloneReads(q), i) <=>
                    /\ Numbered(q, i) /\ PostgresReads(q)[i].skip = 0
                    /\ PostgresReads(q)[i].in \in {"code", "number", "ended", "next"}
<1> DEFINE r == PostgresReads(q)
           at == AloneReads(q)
<1>0. q \in Seq(Characters) /\ Len(q) \in Nat /\ DOMAIN q = 1 .. Len(q)
  BY DEF ReadsAlone
<1>1. /\ r[1] = Reading("code")
      /\ \A i \in 1 .. Len(q) : r[i + 1] = PostgresStep(q, r[i], i)
      /\ \A i \in 1 .. Len(q) + 1 : r[i] \in PostgresReaderStates(q)
  BY <1>0, PostgresReadsDef
<1>2. \A i \in DOMAIN q : q[i] = "'" => (r[i].in = "e" => Char(q, i - 2) # "$") /\ r[i].in # "next"
  BY DEF ReadsAlone
<1>3. \A i \in 1 .. Len(q) + 1 : at[i] = Alone(r[i])
  BY DEF AloneReads
<1> HIDE DEF r, at
<1>4. at[1] = Reading("code")
  <2>1. Alone(Reading("code")) = Reading("code")
    BY DEF Alone, Reading, State
  <2> QED BY <1>0, <1>1, <1>3, <2>1
<1>5. ASSUME NEW i \in 1 .. Len(q) PROVE at[i + 1] = AloneStep(q, at[i], i)
  <2>1. i \in 1 .. Len(q) + 1 /\ i + 1 \in 1 .. Len(q) + 1 /\ i \in DOMAIN q
    BY <1>0
  <2> QED BY <1>0, <1>1, <1>2, <1>3, <2>1, AloneAlike
<1>6. \A i \in 1 .. Len(q) + 1 : at[i] \in PostgresStates(q)
  BY <1>0, <1>1, <1>3, AloneTyped
<1>7. ASSUME NEW i \in DOMAIN q, q[i] = "'", at[i].in = "e" PROVE Char(q, i - 2) # "$"
  <2>1. i \in 1 .. Len(q) + 1
    BY <1>0
  <2>2. r[i].in = "e"
    <3>1. at[i] = Alone(r[i]) /\ r[i] \in PostgresReaderStates(q)
      BY <1>1, <1>3, <2>1
    <3>2. r[i].in \in {"ended", "next"} => at[i] = Reading("code")
      BY <1>0, <3>1, AloneTyped
    <3>3. Reading("code").in # "e"
      BY DEF Reading, State
    <3> QED BY <1>0, <1>7, <3>1, <3>2, <3>3, AloneTyped
  <2> QED BY <1>2, <1>7, <2>2
<1>8. ASSUME NEW i \in DOMAIN q
      PROVE  at[i].skip = r[i].skip
             /\ (at[i].in \in {"code", "number"} <=> r[i].in \in {"code", "number", "ended", "next"})
  <2>1. i \in 1 .. Len(q) + 1
    BY <1>0
  <2>2. at[i] = Alone(r[i]) /\ r[i] \in PostgresReaderStates(q)
    BY <1>1, <1>3, <2>1
  <2>3. Reading("code").in = "code"
    BY DEF Reading, State
  <2>4. CASE r[i].in \in {"ended", "next"}
    BY <1>0, <2>2, <2>3, <2>4, AloneTyped
  <2>5. CASE r[i].in \notin {"ended", "next"}
    BY <1>0, <2>2, <2>5, AloneTyped
  <2> QED BY <2>4, <2>5
<1>9. Reads(q, at)
  BY <1>0, <1>4, <1>5, <1>6, <1>7 DEF Reads, ReadsFrom
<1>10. \A i \in DOMAIN q :
          Place(q, at, i) <=> /\ Numbered(q, i) /\ r[i].skip = 0
                              /\ r[i].in \in {"code", "number", "ended", "next"}
  BY <1>8 DEF Place
<1> QED BY <1>9, <1>10 DEF r, at

\* countPostgresPlaceholders() counts what the server reads.
LEMMA PostgresCount ==
    ASSUME NEW q, ReadsAlone(q)
    PROVE  /\ CountPostgres(q) = IF ParameterNumbers(q) = {} THEN 0 ELSE Max(ParameterNumbers(q))
           /\ CountPostgres(q) \in Nat
<1> DEFINE at == AloneReads(q)
           N == Len(q) + 1
<1>0. q \in Seq(Characters) /\ Len(q) \in Nat /\ DOMAIN q = 1 .. Len(q)
  BY DEF ReadsAlone
<1>1. PICK from : Counting(q, from)
  BY <1>0, CountPostgresDef
<1>2. Reads(q, at)
  BY AloneReadsIs
<1>3. at[1] = Reading("code")
  BY <1>2 DEF Reads, ReadsFrom
<1>p. \A i \in DOMAIN q :
         Place(q, at, i) <=> /\ Numbered(q, i) /\ PostgresReads(q)[i].skip = 0
                             /\ PostgresReads(q)[i].in \in {"code", "number", "ended", "next"}
  BY AloneReadsIs
<1> HIDE DEF at
<1> DEFINE Good == {i \in 1 .. N : Fresh(q, at[i], i) => Greatest(q, at, i, from[i])}
<1>4. ASSUME NEW i \in 1 .. N, \A m \in i + 1 .. N : m \in Good PROVE i \in Good
  <2>1. CASE i = Len(q) + 1
    <3>1. from[i] = 0 /\ \A k \in i .. Len(q) : FALSE
      BY <1>0, <1>1, <2>1 DEF Counting
    <3> QED BY <3>1 DEF Greatest
  <2>2. CASE i # Len(q) + 1
    <3>1. i \in DOMAIN q
      BY <1>0, <2>2
    <3>2. \A m \in i + 1 .. Len(q) + 1 : Fresh(q, at[m], m) => Greatest(q, at, m, from[m])
      BY <1>4
    <3> QED BY <1>1, <1>2, <3>1, <3>2, GreatestFrom
  <2> QED BY <2>1, <2>2
<1>5. 1 .. N \subseteq Good
  <2> HIDE DEF Good, N
  <2>1. N \in Nat
    BY <1>0 DEF N
  <2> QED BY <1>4, <2>1, Descending
<1>6. Greatest(q, at, 1, from[1])
  <2>1. Fresh(q, at[1], 1)
    BY <1>3 DEF Fresh, Reading, State, Words
  <2>2. 1 \in 1 .. N
    BY <1>0
  <2> QED BY <1>5, <2>1, <2>2
<1> DEFINE S == ParameterNumbers(q)
           n == from[1]
<1>7. S = {NumberOf(q, k) : k \in {j \in DOMAIN q : Place(q, at, j)}}
  <2>1. {j \in DOMAIN q : Place(q, at, j)} =
            {j \in DOMAIN q : /\ Numbered(q, j)
                              /\ PostgresReads(q)[j].in \in {"code", "number", "ended", "next"}
                              /\ PostgresReads(q)[j].skip = 0}
    BY <1>p
  <2> QED BY <2>1 DEF ParameterNumbers, NumberOf
<1>8. n \in Nat /\ CountPostgres(q) = n
  BY <1>0, <1>1 DEF Counting
<1>9. \A x \in S : x \in Nat /\ x <= n
  <2> SUFFICES ASSUME NEW k \in DOMAIN q, Place(q, at, k) PROVE NumberOf(q, k) \in Nat /\ NumberOf(q, k) <= n
    BY <1>7
  <2> QED BY <1>0, <1>6, NumberAt DEF Greatest, NumberOf
<1>10. n # 0 => n \in S
  BY <1>0, <1>6, <1>7 DEF Greatest
<1> HIDE DEF S, n
<1>11. CASE S = {}
  <2>1. n = 0
    BY <1>8, <1>10, <1>11
  <2> QED BY <1>8, <1>11, <2>1 DEF S
<1>12. CASE S # {}
  <2>1. S \in SUBSET (0 .. n)
    BY <1>8, <1>9
  <2>2. Max(S) \in S /\ \A y \in S : y <= Max(S)
    BY <1>8, <1>12, <2>1, MaxIs
  <2>3. Max(S) = n
    <3>1. Max(S) \in Nat /\ Max(S) <= n
      BY <1>9, <2>2
    <3>2. n # 0 => n <= Max(S)
      BY <1>10, <2>2
    <3> QED BY <1>8, <3>1, <3>2
  <2> QED BY <1>8, <1>12, <2>3 DEF S
<1> QED BY <1>11, <1>12

-----------------------------------------------------------------------------
(* How the MySQL server reads a query.                                     *)

\* What the MySQL server can be reading.
MySqlStates == [in : {"code", "line", "#", "block"} \cup Quotes, skip : {0, 1}, depth : {0}, tag : {<<>>}]

\* Every step of the MySQL server leads to a state it can be in.
LEMMA MySqlStepTyped ==
    ASSUME NEW q, NEW s \in MySqlStates, NEW i
    PROVE  MySqlStep(q, s, i) \in MySqlStates
<1>1. /\ s.in \in {"code", "line", "#", "block"} \cup Quotes /\ s.skip \in {0, 1}
      /\ s.depth = 0 /\ s.tag = <<>>
  BY DEF MySqlStates
<1>2. \A x \in {"code", "line", "#", "block"} \cup Quotes :
         /\ Reading(x) \in MySqlStates
         /\ Passing(Reading(x), 1) \in MySqlStates
  BY DEF MySqlStates, Reading, Passing, State
<1>3. Passing(s, 0) \in MySqlStates /\ Passing(s, 1) \in MySqlStates
  BY <1>1 DEF MySqlStates, Passing, State
<1>4. CASE s.skip > 0
  <2>1. s.skip - 1 = 0
    BY <1>1, <1>4
  <2> QED BY <1>3, <1>4, <2>1 DEF MySqlStep
<1>5. CASE s.skip = 0 /\ s.in = "code"
  <2>1. MySqlStep(q, s, i) = MySqlInCode(q, s, i)
    BY <1>5 DEF MySqlStep, Quotes
  <2> QED BY <1>2, <2>1 DEF MySqlInCode
<1>6. CASE s.skip = 0 /\ s.in \in {"line", "#"}
  <2>1. MySqlStep(q, s, i) = InLine(q, s, i)
    BY <1>6 DEF MySqlStep, Quotes
  <2> QED BY <1>2, <2>1 DEF InLine
<1>7. CASE s.skip = 0 /\ s.in = "block"
  <2>1. MySqlStep(q, s, i) = MySqlInBlock(q, s, i)
    BY <1>7 DEF MySqlStep, Quotes
  <2> QED BY <1>2, <2>1 DEF MySqlInBlock
<1>8. CASE s.skip = 0 /\ s.in \in Quotes
  <2>1. MySqlStep(q, s, i) = MySqlInQuotes(q, s, i)
    BY <1>8 DEF MySqlStep, Quotes
  <2> QED BY <1>2, <1>3, <2>1 DEF MySqlInQuotes
<1> QED BY <1>1, <1>4, <1>5, <1>6, <1>7, <1>8

\* The MySQL server reads a statement to its end.
MySqlFrom(q, at) ==
    /\ at[1] = Reading("code")
    /\ \A i \in 1 .. Len(q) : at[i + 1] = MySqlStep(q, at[i], i)
    /\ \A i \in 1 .. Len(q) + 1 : at[i] \in MySqlStates

\* The MySQL server reads a query to its end.
LEMMA MySqlReadsDef ==
    ASSUME NEW q, Len(q) \in Nat
    PROVE  MySqlFrom(q, MySqlReads(q))
<1> DEFINE D == 1 .. Len(q) + 1
           S == MySqlStates
           Body(i, f) == IF i = 1 THEN Reading("code") ELSE MySqlStep(q, f[i - 1], i - 1)
           Is(f) == f = [i \in D |-> Body(i, f)]
           at == CHOOSE f : Is(f)
           step == [i \in 1 .. Len(q) |-> [s \in S |-> MySqlStep(q, s, i)]]
<1>0. Len(q) \in Nat
  OBVIOUS
<1>1. MySqlReads(q) = at
  BY DEF MySqlReads
<1>2. Reading("code") \in S
  BY DEF MySqlStates, Reading, State, Quotes
<1>3. \A i \in 1 .. Len(q), s \in S : MySqlStep(q, s, i) \in S
  BY MySqlStepTyped
<1> HIDE DEF S
<1>4. \E f : Is(f)
  <2>1. step \in [1 .. Len(q) -> [S -> S]]
    BY <1>3
  <2> HIDE DEF step, D
  <2>2. Machine(Len(q), S, Reading("code"), step)
    BY <1>0, <1>2, <2>1 DEF Machine
  <2>3. PICK f : Runs(Len(q), S, Reading("code"), step, f)
    BY <2>2, Automaton
  <2>4. f \in [D -> S] /\ \A i \in D : f[i] = IF i = 1 THEN Reading("code") ELSE step[i - 1][f[i - 1]]
    BY <2>3 DEF Runs, D
  <2>5. ASSUME NEW i \in D, i # 1 PROVE f[i] = MySqlStep(q, f[i - 1], i - 1)
    <3>1. i - 1 \in 1 .. Len(q) /\ i - 1 \in D
      BY <1>0, <2>5 DEF D
    <3>2. f[i - 1] \in S
      BY <2>4, <3>1
    <3> QED BY <2>4, <2>5, <3>1, <3>2 DEF step
  <2>6. \A i \in D : f[i] = Body(i, f)
    BY <2>4, <2>5
  <2> HIDE DEF Body
  <2> QED BY <2>4, <2>6
<1>5. Is(at)
  BY <1>4
<1>6. \A i \in D : at[i] = Body(i, at)
  <2> HIDE DEF at, Body, D
  <2> QED BY <1>5
<1> HIDE DEF at
<1>7. at[1] = Reading("code") /\ \A i \in 1 .. Len(q) : at[i + 1] = MySqlStep(q, at[i], i)
  <2>1. 1 \in D /\ \A i \in 1 .. Len(q) : i + 1 \in D /\ i + 1 # 1 /\ i + 1 - 1 = i
    BY <1>0
  <2> HIDE DEF D
  <2> QED BY <1>6, <2>1
<1>8. \A i \in 1 .. Len(q) + 1 : at[i] \in S
  <2>1. \A i \in 1 .. Len(q) : at[i] \in S => at[i + 1] \in S
    BY <1>3, <1>7
  <2> QED BY <1>0, <1>2, <1>7, <2>1, Stays
<1>9. MySqlFrom(q, at)
  BY <1>7, <1>8 DEF MySqlFrom, S
<1> QED BY <1>1, <1>9

\* No more than two question marks are in a row.
Paired(q) == \A i \in Markers(q) : Char(q, i + 1) = "?" => Char(q, i + 2) # "?"

\* What follows a comment's end is its last character.
LEMMA EndPassed ==
    ASSUME NEW q, NEW at, MySqlFrom(q, at), Len(q) \in Nat, NEW k \in 1 .. Len(q),
           at[k].in = "code", at[k].skip > 0
    PROVE  Char(q, k) = "/"
<1>1. k # 1
  BY DEF MySqlFrom, Reading, State
<1>2. k - 1 \in 1 .. Len(q) /\ k - 1 + 1 = k /\ k - 1 \in 1 .. Len(q) + 1
  BY <1>1
<1> DEFINE s == at[k - 1]
<1>3. s \in MySqlStates /\ at[k] = MySqlStep(q, s, k - 1)
  BY <1>2 DEF MySqlFrom
<1> HIDE DEF s
<1>4. s.in \in {"code", "line", "#", "block"} \cup Quotes /\ s.skip \in {0, 1}
  BY <1>3 DEF MySqlStates
<1>5. s.skip = 0
  <2> SUFFICES ASSUME s.skip = 1 PROVE FALSE
    BY <1>4
  <2>1. at[k] = Passing(s, 0)
    BY <1>3 DEF MySqlStep
  <2> QED BY <2>1 DEF Passing, State
<1>6. CASE s.in = "code"
  <2>1. at[k] = MySqlInCode(q, s, k - 1)
    BY <1>3, <1>5, <1>6 DEF MySqlStep, Quotes
  <2> QED BY <1>5, <2>1 DEF MySqlInCode, Passing, Reading, State
<1>7. CASE s.in \in {"line", "#"}
  <2>1. at[k] = InLine(q, s, k - 1)
    BY <1>3, <1>5, <1>7 DEF MySqlStep, Quotes
  <2> QED BY <1>5, <2>1 DEF InLine, Reading, State
<1>8. CASE s.in = "block"
  <2>1. at[k] = MySqlInBlock(q, s, k - 1)
    BY <1>3, <1>5, <1>8 DEF MySqlStep, Quotes
  <2>2. Next2(q, k - 1) = <<"*", "/">>
    BY <1>5, <2>1 DEF MySqlInBlock
  <2> QED BY <1>2, <2>2, Pairs
<1>9. CASE s.in \in Quotes
  <2>1. at[k] = MySqlInQuotes(q, s, k - 1)
    BY <1>3, <1>5, <1>9 DEF MySqlStep, Quotes
  <2> QED BY <1>5, <1>9, <2>1 DEF MySqlInQuotes, Passing, Reading, State, Quotes
<1> QED BY <1>4, <1>6, <1>7, <1>8, <1>9

\* A question mark before one in code is in code too.
LEMMA MarkBefore ==
    ASSUME NEW q, NEW at, MySqlFrom(q, at), Len(q) \in Nat, DOMAIN q = 1 .. Len(q),
           NEW i \in 1 .. Len(q), InCode(at, i), Char(q, i - 1) = "?"
    PROVE  i - 1 \in DOMAIN q /\ q[i - 1] = "?" /\ InCode(at, i - 1)
<1> DEFINE k == i - 1
           s == at[k]
<1>1. k \in DOMAIN q /\ q[k] = "?" /\ k + 1 = i /\ k \in 1 .. Len(q) /\ k \in 1 .. Len(q) + 1
  BY DEF Char
<1> HIDE DEF k
<1>2. s \in MySqlStates /\ at[i] = MySqlStep(q, s, k)
  BY <1>1 DEF MySqlFrom
<1>3. s.in = "code" /\ s.skip > 0 => FALSE
  <2> SUFFICES ASSUME s.in = "code", s.skip > 0 PROVE FALSE
    OBVIOUS
  <2>1. Char(q, k) = "/"
    BY <1>1, EndPassed
  <2> QED BY <1>1, <2>1 DEF Char
<1> HIDE DEF s
<1>4. s.in \in {"code", "line", "#", "block"} \cup Quotes /\ s.skip \in {0, 1}
  BY <1>2 DEF MySqlStates
<1>5. at[i].in = "code" /\ at[i].skip = 0
  BY DEF InCode
<1>6. s.in = "code"
  <2>1. CASE s.skip = 1
    <3>1. at[i] = Passing(s, 0)
      BY <1>2, <2>1 DEF MySqlStep
    <3> QED BY <1>5, <3>1 DEF Passing, State
  <2>2. CASE s.skip = 0 /\ s.in \in {"line", "#"}
    <3>1. at[i] = InLine(q, s, k)
      BY <1>2, <2>2 DEF MySqlStep, Quotes
    <3>2. q[k] # "\n"
      BY <1>1, Zenon
    <3> QED BY <1>5, <2>2, <3>1, <3>2 DEF InLine
  <2>3. CASE s.skip = 0 /\ s.in = "block"
    <3>1. at[i] = MySqlInBlock(q, s, k)
      BY <1>2, <2>3 DEF MySqlStep, Quotes
    <3> QED BY <1>5, <2>3, <3>1 DEF MySqlInBlock, Passing, Reading, State
  <2>4. CASE s.skip = 0 /\ s.in \in Quotes
    <3>1. at[i] = MySqlInQuotes(q, s, k)
      BY <1>2, <2>4 DEF MySqlStep, Quotes
    <3>2. q[k] \notin Quotes
      BY <1>1 DEF Quotes
    <3>3. s.in # "code"
      BY <2>4 DEF Quotes
    <3> QED BY <1>5, <2>4, <3>1, <3>2, <3>3 DEF MySqlInQuotes, Passing, State
  <2> QED BY <1>4, <2>1, <2>2, <2>3, <2>4
<1>7. InCode(at, k)
  BY <1>3, <1>4, <1>6 DEF InCode, s
<1> QED BY <1>1, <1>7 DEF k

\* A question mark is a placeholder unless it is the second of a pair.
LEMMA QuestionMarksIs ==
    ASSUME NEW q, Len(q) \in Nat, DOMAIN q = 1 .. Len(q), Paired(q)
    PROVE  \A i : i \in QuestionMarks(q) <=> i \in Markers(q) /\ i - 1 \notin QuestionMarks(q)
<1>1. MySqlFrom(q, MySqlReads(q))
  BY MySqlReadsDef
<1>2. ASSUME NEW i \in Markers(q), Char(q, i - 1) = "?" PROVE i - 1 \in Markers(q)
  <2>1. i \in 1 .. Len(q) /\ InCode(MySqlReads(q), i)
    BY DEF Markers
  <2> HIDE DEF Markers
  <2>2. i - 1 \in DOMAIN q /\ q[i - 1] = "?" /\ InCode(MySqlReads(q), i - 1)
    BY <1>1, <1>2, <2>1, MarkBefore
  <2> QED BY <2>2 DEF Markers
<1>3. \A i \in Markers(q) : i \in 1 .. Len(q) /\ Char(q, i) = "?"
  BY DEF Markers, Char
<1>4. \A i \in QuestionMarks(q) : i \in Markers(q) /\ Char(q, i - 1) # "?"
  BY DEF QuestionMarks
<1>5. \A i \in Markers(q) : Char(q, i - 1) # "?" => i \in QuestionMarks(q)
  BY DEF QuestionMarks
<1>6. ASSUME NEW i \in QuestionMarks(q) PROVE i - 1 \notin QuestionMarks(q)
  BY <1>3, <1>4
<1>7. ASSUME NEW i \in Markers(q), i - 1 \notin QuestionMarks(q) PROVE i \in QuestionMarks(q)
  <2> SUFFICES ASSUME Char(q, i - 1) = "?" PROVE FALSE
    BY <1>5
  <2>1. i - 1 \in Markers(q)
    BY <1>2
  <2>2. Char(q, i - 1 - 1) = "?"
    BY <1>5, <1>7, <2>1
  <2>3. i - 1 - 1 \in Markers(q)
    BY <1>2, <2>1, <2>2
  <2>4. i \in Int /\ i - 1 - 1 + 1 = i - 1 /\ i - 1 - 1 + 2 = i
    BY <1>3
  <2>5. Char(q, i) # "?"
    BY <2>3, <2>4 DEF Paired
  <2> QED BY <1>3, <2>5
<1> QED BY <1>4, <1>6, <1>7

-----------------------------------------------------------------------------
(* What scanSql() jumps over is one thing for the server.                  *)

\* A text as the MySQL server reads it, without what the scanner and the server
\* differ about: a backslash in backquotes, a comment that is code and too many
\* question marks in a row.
Text(q, at) ==
    /\ q \in Seq(Characters) /\ MySqlFrom(q, at) /\ Paired(q)
    /\ \A i \in DOMAIN q : q[i] = "\\" => at[i].in # "tick"
    /\ \A i \in DOMAIN q :
          InCode(at, i) /\ Next2(q, i) = <<"/", "*">> => Comments(q, i, {"!", "+"})
\* From i to l there is one thing, in which only a quote, as the second of two,
\* is read as code.
Over(q, at, i, l) ==
    /\ l \in i .. Len(q)
    /\ l < Len(q) => at[l + 1] = Reading("code")
    /\ \A k \in i + 1 .. l : InCode(at, k) => q[k] \in Quotes

\* What Text() says, taken apart.
LEMMA TextSteps ==
    ASSUME NEW q, NEW at, Text(q, at)
    PROVE  /\ q \in Seq(Characters) /\ Len(q) \in Nat /\ DOMAIN q = 1 .. Len(q)
           /\ at[1] = Reading("code") /\ Paired(q)
           /\ \A k \in 1 .. Len(q) : at[k + 1] = MySqlStep(q, at[k], k)
BY DEF Text, MySqlFrom

\* What the scanner of the MySQL lane takes for one thing.
LEMMA MySqlSpanIs ==
    ASSUME NEW q, NEW i \in DOMAIN q, NEW scanner
    PROVE  /\ q[i] \in Quotes => MySqlSpan(q, i, scanner) = QuotedEnd(q, i, {"\\"})
           /\ Char(q, i) = "/" /\ Char(q, i + 1) = "*" =>
                 MySqlSpan(q, i, scanner) = FirstFrom(q, i + 3, LAMBDA j : q[j] = "/" /\ q[j - 1] = "*")
           /\ q[i] = "#" \/ (Char(q, i) = "-" /\ Char(q, i + 1) = "-" /\ Char(q, i + 2) \in White) =>
                 MySqlSpan(q, i, scanner) = LineEnd(q, i)
           /\ Char(q, i) = "?" /\ Char(q, i + 1) = "?" => MySqlSpan(q, i, scanner) = i + 1
           /\ Replaces(scanner, q, i) => MySqlSpan(q, i, scanner) = RunOf(q, i + 1, Part)
           /\ /\ q[i] \notin Quotes /\ q[i] # "#"
              /\ ~(Char(q, i) = "/" /\ Char(q, i + 1) = "*")
              /\ ~(Char(q, i) = "-" /\ Char(q, i + 1) = "-" /\ Char(q, i + 2) \in White)
              /\ ~(Char(q, i) = "?" /\ Char(q, i + 1) = "?")
              /\ ~Replaces(scanner, q, i)
              => MySqlSpan(q, i, scanner) = i
<1>1. Char(q, i) = q[i]
  BY DEF Char
<1>2. Replaces(scanner, q, i) => q[i] \in Sigils
  BY DEF Replaces, IsName
<1>3. Quotes = {"'", "double", "tick"}
  BY DEF Quotes
<1>4. CASE q[i] \in Quotes
  <2>1. MySqlSpan(q, i, scanner) = QuotedEnd(q, i, {"\\"})
    BY <1>1, <1>2, <1>3, <1>4, Pairs DEF MySqlSpan, Sigils
  <2> QED BY <1>1, <1>2, <1>3, <1>4, <2>1 DEF Sigils
<1>5. CASE Char(q, i) = "/" /\ Char(q, i + 1) = "*"
  <2>1. MySqlSpan(q, i, scanner) = FirstFrom(q, i + 3, LAMBDA j : q[j] = "/" /\ q[j - 1] = "*")
    BY <1>1, <1>2, <1>3, <1>5, Pairs DEF MySqlSpan, Sigils, FirstFrom
  <2> QED BY <1>1, <1>2, <1>3, <1>5, <2>1 DEF Sigils
<1>6. CASE q[i] = "#" \/ (Char(q, i) = "-" /\ Char(q, i + 1) = "-" /\ Char(q, i + 2) \in White)
  <2>1. MySqlSpan(q, i, scanner) = LineEnd(q, i)
    BY <1>1, <1>2, <1>3, <1>6, Pairs DEF MySqlSpan, Sigils
  <2> QED BY <1>1, <1>2, <1>3, <1>6, <2>1 DEF Sigils
<1>7. CASE Char(q, i) = "?" /\ Char(q, i + 1) = "?"
  <2>1. MySqlSpan(q, i, scanner) = i + 1
    BY <1>1, <1>2, <1>3, <1>7, Pairs DEF MySqlSpan, Sigils
  <2> QED BY <1>1, <1>2, <1>3, <1>7, <2>1 DEF Sigils
<1>8. CASE Replaces(scanner, q, i)
  <2>1. MySqlSpan(q, i, scanner) = RunOf(q, i + 1, Part)
    BY <1>1, <1>2, <1>3, <1>8, Pairs DEF MySqlSpan, Sigils
  <2> QED BY <1>1, <1>2, <1>3, <1>8, <2>1 DEF Sigils
<1>9. CASE /\ q[i] \notin Quotes /\ q[i] # "#"
           /\ ~(Char(q, i) = "/" /\ Char(q, i + 1) = "*")
           /\ ~(Char(q, i) = "-" /\ Char(q, i + 1) = "-" /\ Char(q, i + 2) \in White)
           /\ ~(Char(q, i) = "?" /\ Char(q, i + 1) = "?")
           /\ ~Replaces(scanner, q, i)
  <2>1. MySqlSpan(q, i, scanner) = i
    BY <1>1, <1>2, <1>3, <1>9, Pairs DEF MySqlSpan
  <2> QED BY <1>9, <2>1
<1> QED BY <1>4, <1>5, <1>6, <1>7, <1>8, <1>9

\* A quoted text, in which the server reads a doubled quote as the end of one
\* text and the start of the next.
LEMMA MySqlQuoteSpan ==
    ASSUME NEW q, NEW at, Text(q, at), NEW i \in DOMAIN q, at[i] = Reading("code"), q[i] \in Quotes
    PROVE  Over(q, at, i, QuotedEnd(q, i, {"\\"}))
<1> DEFINE l == QuotedEnd(q, i, {"\\"})
           what == q[i]
<1>0. /\ q \in Seq(Characters) /\ Len(q) \in Nat /\ DOMAIN q = 1 .. Len(q) /\ i \in 1 .. Len(q)
      /\ \A k \in 1 .. Len(q) : at[k + 1] = MySqlStep(q, at[k], k)
      /\ \A k \in 1 .. Len(q) : q[k] = "\\" => at[k].in # "tick"
  BY TextSteps DEF Text
<1>n. Len(q) \in Nat
  BY <1>0
<1>a. ASSUME NEW k \in 1 .. Len(q), at[k] = Reading("code"), q[k] \in Quotes
      PROVE  at[k + 1] = Reading(q[k])
  <2>1. at[k].in = "code" /\ at[k].skip = 0
    BY <1>a DEF Reading, State
  <2>2. at[k + 1] = MySqlInCode(q, at[k], k)
    BY <1>0, <2>1 DEF MySqlStep, Quotes
  <2> QED BY <1>a, <2>2 DEF MySqlInCode
<1>c. PICK close : Closing(q, i, {"\\"}, close)
  BY <1>0, QuotedEndDef
<1>3. what \in Quotes /\ what = q[i] /\ what # "\\" /\ what # "" /\ what # "code"
  BY DEF Quotes
<1> HIDE DEF what, l
<1> DEFINE Closes(j) == /\ \A k \in j .. close[j] : InCode(at, k) => q[k] \in Quotes
                        /\ close[j] < Len(q) => at[close[j] + 1] = Reading("code")
           Good == {j \in 1 .. Len(q) + 2 : j > i /\ j <= Len(q) + 1 /\ at[j] = Reading(what) => Closes(j)}
<1>4. ASSUME NEW j \in 1 .. Len(q) + 2, \A m \in j + 1 .. Len(q) + 2 : m \in Good PROVE j \in Good
  <2> SUFFICES ASSUME j > i, j <= Len(q) + 1, at[j] = Reading(what) PROVE Closes(j)
    OBVIOUS
  <2>0. at[j].in = what /\ at[j].skip = 0 /\ ~InCode(at, j)
    <3>1. at[j].in = what /\ at[j].skip = 0
      BY DEF Reading, State
    <3> QED BY <1>3, <3>1 DEF InCode
  <2>1. CASE j = Len(q) + 1
    <3>1. close[j] = Len(q)
      BY <1>0, <1>c, <2>1 DEF Closing
    <3> QED BY <1>0, <2>1, <3>1
  <2>2. CASE j # Len(q) + 1
    <3>0. j \in 1 .. Len(q) /\ j \in DOMAIN q /\ ~(j > Len(q))
      <4>1. j \in 1 .. Len(q)
        BY <1>n, <2>2
      <4> QED BY <1>0, <4>1
    <3>1. at[j + 1] = MySqlInQuotes(q, at[j], j)
      <4>1. what \in Quotes /\ what \notin {"code", "line", "#", "block"}
        BY <1>3 DEF Quotes
      <4> QED BY <1>0, <2>0, <3>0, <4>1 DEF MySqlStep
    <3>2. Char(q, j) = q[j] /\ (Char(q, j + 1) # "" => j + 1 \in DOMAIN q /\ Char(q, j + 1) = q[j + 1])
      BY <3>0 DEF Char
    <3>3. close[j] = IF q[j] = "\\" THEN close[j + 2]
                     ELSE IF q[j] # q[i] THEN close[j + 1]
                     ELSE IF Char(q, j + 1) = q[i] THEN close[j + 2]
                     ELSE j
      <4>1. j \in i + 1 .. Len(q) + 2
        BY <1>n, <2>2, <3>0
      <4>2. close[j] = IF j > Len(q) THEN Len(q)
                       ELSE IF q[j] \in {"\\"} THEN close[j + 2]
                       ELSE IF q[j] # q[i] THEN close[j + 1]
                       ELSE IF Char(q, j + 1) = q[i] THEN close[j + 2]
                       ELSE j
        BY <1>c, <4>1 DEF Closing
      <4> QED BY <3>0, <4>2
    <3>4. ASSUME ~InCode(at, j + 1) \/ q[j + 1] \in Quotes, close[j] = close[j + 2],
                 j < Len(q) => at[j + 2] = Reading(what)
          PROVE Closes(j)
      <4>1. CASE j = Len(q)
        <5>1. close[j] = Len(q)
          <6>1. j + 2 \in i + 1 .. Len(q) + 2 /\ j + 2 > Len(q)
            BY <1>0, <4>1
          <6>2. close[j + 2] = Len(q)
            BY <1>c, <6>1 DEF Closing
          <6> QED BY <3>4, <6>2
        <5> QED BY <1>0, <2>0, <4>1, <5>1
      <4>2. CASE j # Len(q)
        <5>0. j + 2 \in j + 1 .. Len(q) + 2 /\ j + 2 > i /\ j + 2 <= Len(q) + 1 /\ j < Len(q)
          BY <1>0, <3>0, <4>2
        <5>4. Closes(j + 2)
          BY <1>4, <3>4, <5>0
        <5>5. \A k \in j .. close[j] : k = j \/ k = j + 1 \/ k \in j + 2 .. close[j]
          BY <3>0
        <5> QED BY <2>0, <3>4, <5>4, <5>5
      <4> QED BY <4>1, <4>2
    <3>5. CASE q[j] = "\\"
      <4>1. at[j + 1] = Passing(at[j], 1)
        <5>1. at[j].in # "tick" /\ q[j] # at[j].in
          BY <1>0, <1>3, <2>0, <3>0, <3>5
        <5> QED BY <3>1, <3>5, <5>1 DEF MySqlInQuotes
      <4>2. at[j + 1].in = what /\ at[j + 1].skip = 1 /\ at[j + 1].depth = 0 /\ at[j + 1].tag = <<>>
        BY <2>2, <4>1 DEF Passing, State, Reading
      <4>3. j < Len(q) => at[j + 2] = Reading(what)
        <5> SUFFICES ASSUME j < Len(q) PROVE at[j + 2] = Reading(what)
          OBVIOUS
        <5>1. j + 1 \in 1 .. Len(q) /\ j + 1 + 1 = j + 2 /\ 1 - 1 = 0 /\ 1 > 0
          BY <1>0, <3>0
        <5>2. at[j + 2] = MySqlStep(q, at[j + 1], j + 1)
          BY <1>0, <5>1
        <5>3. at[j + 2] = Passing(at[j + 1], 0)
          BY <4>2, <5>1, <5>2 DEF MySqlStep
        <5> QED BY <4>2, <5>3 DEF Passing, Reading, State
      <4>4. ~InCode(at, j + 1)
        BY <4>2 DEF InCode
      <4> QED BY <3>3, <3>4, <3>5, <4>3, <4>4
    <3>6. CASE q[j] # "\\" /\ q[j] # q[i]
      <4>1. at[j + 1] = at[j]
        BY <1>3, <2>0, <3>1, <3>6 DEF MySqlInQuotes
      <4>2. close[j] = close[j + 1]
        BY <3>3, <3>6
      <4>3. j + 1 \in j + 1 .. Len(q) + 2 /\ j + 1 > i /\ j + 1 <= Len(q) + 1
        BY <1>0, <3>0
      <4>4. Closes(j + 1)
        BY <1>4, <4>1, <4>3
      <4>5. \A k \in j .. close[j] : k = j \/ k \in j + 1 .. close[j]
        BY <3>0
      <4> QED BY <2>0, <4>2, <4>4, <4>5
    <3>7. CASE q[j] # "\\" /\ q[j] = q[i] /\ Char(q, j + 1) = q[i]
      <4>1. at[j + 1] = Reading("code")
        BY <1>3, <2>0, <3>1, <3>7 DEF MySqlInQuotes
      <4>2. j + 1 \in DOMAIN q /\ q[j + 1] = what
        BY <1>3, <3>2, <3>7
      <4>3. j + 1 \in 1 .. Len(q) /\ j + 1 + 1 = j + 2
        BY <1>0, <4>2
      <4>4. at[j + 2] = Reading(what)
        BY <1>3, <1>a, <4>1, <4>2, <4>3
      <4> QED BY <1>3, <3>3, <3>4, <3>7, <4>2, <4>4
    <3>8. CASE q[j] # "\\" /\ q[j] = q[i] /\ Char(q, j + 1) # q[i]
      <4>1. at[j + 1] = Reading("code")
        BY <1>3, <2>0, <3>1, <3>8 DEF MySqlInQuotes
      <4>2. close[j] = j
        BY <3>3, <3>8
      <4>3. \A k \in j .. close[j] : k = j
        BY <3>0, <4>2
      <4> QED BY <2>0, <4>1, <4>2, <4>3
    <3> QED BY <3>5, <3>6, <3>7, <3>8
  <2> QED BY <2>1, <2>2
<1> HIDE DEF Good
<1>5. 1 .. Len(q) + 2 \subseteq Good
  <2>1. Len(q) + 2 \in Nat
    BY <1>0
  <2> QED BY <1>4, <2>1, Descending
<1>6. i + 1 \in Good /\ i + 1 > i /\ i + 1 <= Len(q) + 1
  BY <1>0, <1>5
<1>7. Closes(i + 1) /\ close[i + 1] = l
  <2>1. at[i + 1] = Reading(what)
    BY <1>0, <1>3, <1>a
  <2> QED BY <1>6, <1>c, <2>1 DEF Good, Closing, l
<1>8. l \in i .. Len(q)
  BY <1>0, QuotedEndBounds DEF l
<1>9. Over(q, at, i, l)
  BY <1>7, <1>8 DEF Over
<1> QED BY <1>9 DEF l

\* What starts nothing leaves the server in code.
Plain(q, i) ==
    /\ q[i] \notin Quotes /\ q[i] # "#"
    /\ ~(Char(q, i) = "/" /\ Char(q, i + 1) = "*")
    /\ ~(Char(q, i) = "-" /\ Char(q, i + 1) = "-" /\ Char(q, i + 2) \in White)

\* The server's step in code.
LEMMA CodeStep ==
    ASSUME NEW q, NEW at, Text(q, at), NEW i \in DOMAIN q, at[i] = Reading("code")
    PROVE  at[i + 1] = MySqlInCode(q, at[i], i) /\ (Plain(q, i) => at[i + 1] = Reading("code"))
<1>0. i \in 1 .. Len(q) /\ Char(q, i) = q[i]
  BY TextSteps DEF Char
<1>1. at[i].in = "code" /\ at[i].skip = 0
  BY DEF Reading, State
<1>2. at[i + 1] = MySqlInCode(q, at[i], i)
  BY <1>0, <1>1, TextSteps DEF MySqlStep, Quotes
<1>3. ASSUME Plain(q, i) PROVE at[i + 1] = Reading("code")
  <2>1. ~Comments(q, i, {"!"}) /\ ~(Next2(q, i) = <<"-", "-">> /\ Char(q, i + 2) \in White)
    BY <1>3, Pairs DEF Plain, Comments
  <2> QED BY <1>2, <1>3, <2>1 DEF Plain, MySqlInCode
<1> QED BY <1>2, <1>3

\* A comment to the end of the line.
LEMMA MySqlLineSpan ==
    ASSUME NEW q, NEW at, Text(q, at), NEW i \in DOMAIN q, at[i] = Reading("code"),
           q[i] = "#" \/ (Char(q, i) = "-" /\ Char(q, i + 1) = "-" /\ Char(q, i + 2) \in White)
    PROVE  Over(q, at, i, LineEnd(q, i))
<1> DEFINE found == {j \in i + 1 .. Len(q) : q[j] = "\n"}
           l == Min(found \cup {Len(q)})
<1>0. /\ q \in Seq(Characters) /\ Len(q) \in Nat /\ DOMAIN q = 1 .. Len(q) /\ i \in 1 .. Len(q)
      /\ \A k \in 1 .. Len(q) : at[k + 1] = MySqlStep(q, at[k], k)
  BY TextSteps
<1>1. LineEnd(q, i) = l
  BY DEF LineEnd, FirstFrom
<1>2. i + 1 \in Nat \ {0} /\ found \in SUBSET (i + 1 .. Len(q)) /\ Len(q) > 0
  BY <1>0
<1>3. /\ l \in 1 .. Len(q) /\ (l < Len(q) => l >= i + 1) /\ (l < Len(q) => l \in found)
      /\ \A k \in found : l <= k
  <2> HIDE DEF found
  <2> QED BY <1>0, <1>2, FirstFromIs
<1>4. /\ l < Len(q) => q[l] = "\n"
      /\ \A k \in i + 1 .. Len(q) : q[k] = "\n" => l <= k
  <2> HIDE DEF l
  <2> QED BY <1>3
<1> HIDE DEF l, found
<1>5. l \in i .. Len(q)
  BY <1>0, <1>3
<1> DEFINE what == IF q[i] = "#" THEN "#" ELSE "line"
           Good == {k \in i + 1 .. l : at[k] = Reading(what)}
<1>w. what \in {"line", "#"}
  OBVIOUS
<1>6. at[i + 1] = Reading(IF q[i] = "#" THEN "#" ELSE "line")
  <2>1. Char(q, i) = q[i] /\ q[i] \notin Quotes /\ ~Comments(q, i, {"!"})
    <3>1. Char(q, i) = q[i] /\ q[i] \in {"#", "-"}
      BY DEF Char
    <3>2. q[i] \notin Quotes
      BY <3>1 DEF Quotes
    <3> QED BY <3>1, <3>2, Pairs DEF Comments
  <2>2. q[i] = "#" \/ (Next2(q, i) = <<"-", "-">> /\ Char(q, i + 2) \in White)
    BY Pairs
  <2> QED BY <2>1, <2>2, CodeStep DEF MySqlInCode
<1>x. at[i + 1] = Reading(what)
  BY <1>6
<1> HIDE DEF what
<1>7. ASSUME NEW k \in 1 .. Len(q), at[k] = Reading(what)
      PROVE  at[k + 1] = InLine(q, at[k], k) /\ ~InCode(at, k)
  <2>1. at[k].in \in {"line", "#"} /\ at[k].skip = 0
    BY <1>7, <1>w DEF Reading, State
  <2> QED BY <1>0, <2>1 DEF MySqlStep, Quotes, InCode
<1>8. ASSUME NEW k \in i + 1 .. l - 1, k \in Good PROVE k + 1 \in Good
  <2>1. k \in 1 .. Len(q) /\ k + 1 \in i + 1 .. l /\ k \in i + 1 .. Len(q) /\ ~(l <= k)
    BY <1>0, <1>5
  <2>2. q[k] # "\n"
    BY <1>4, <2>1
  <2>3. at[k + 1] = Reading(what)
    BY <1>7, <1>8, <2>1, <2>2 DEF InLine
  <2> QED BY <2>1, <2>3
<1>9. i + 1 .. l \subseteq Good
  <2>1. CASE l = i
    <3>1. \A k \in i + 1 .. l : FALSE
      BY <1>0, <2>1
    <3> QED BY <3>1
  <2>2. CASE l # i
    <3>1. i + 1 \in Good
      BY <1>0, <1>5, <1>x, <2>2
    <3> HIDE DEF Good
    <3>2. i + 1 \in Nat /\ l \in Nat
      BY <1>0, <1>5
    <3> QED BY <1>8, <3>1, <3>2, Stretch
  <2> QED BY <2>1, <2>2
<1>10. ASSUME l < Len(q) PROVE at[l + 1] = Reading("code")
  <2>1. l \in i + 1 .. l /\ l \in 1 .. Len(q) /\ q[l] = "\n"
    BY <1>0, <1>3, <1>4, <1>5, <1>10
  <2>2. at[l] = Reading(what)
    BY <1>9, <2>1
  <2> QED BY <1>7, <2>1, <2>2 DEF InLine
<1>11. ASSUME NEW k \in i + 1 .. l PROVE ~InCode(at, k)
  <2>1. k \in 1 .. Len(q)
    BY <1>0, <1>5
  <2> QED BY <1>7, <1>9, <2>1
<1> QED BY <1>1, <1>5, <1>10, <1>11 DEF Over

\* A block comment.
LEMMA MySqlBlockSpan ==
    ASSUME NEW q, NEW at, Text(q, at), NEW i \in DOMAIN q, at[i] = Reading("code"),
           Char(q, i) = "/", Char(q, i + 1) = "*"
    PROVE  Over(q, at, i, FirstFrom(q, i + 3, LAMBDA j : q[j] = "/" /\ q[j - 1] = "*"))
<1> DEFINE found == {j \in i + 3 .. Len(q) : q[j] = "/" /\ q[j - 1] = "*"}
           l == Min(found \cup {Len(q)})
<1>0. /\ q \in Seq(Characters) /\ Len(q) \in Nat /\ DOMAIN q = 1 .. Len(q) /\ i \in 1 .. Len(q)
      /\ \A k \in 1 .. Len(q) : at[k + 1] = MySqlStep(q, at[k], k)
  BY TextSteps
<1>1. FirstFrom(q, i + 3, LAMBDA j : q[j] = "/" /\ q[j - 1] = "*") = l
  BY DEF FirstFrom
<1>2. q[i] = "/" /\ i + 1 \in 1 .. Len(q)
  <2>1. q[i] = "/" /\ i + 1 \in DOMAIN q
    BY DEF Char
  <2> QED BY <1>0, <2>1
<1>3. i + 3 \in Nat \ {0} /\ found \in SUBSET (i + 3 .. Len(q)) /\ Len(q) > 0
  BY <1>0
<1>4. /\ l \in 1 .. Len(q) /\ (l < Len(q) => l >= i + 3) /\ (l < Len(q) => l \in found)
      /\ \A k \in found : l <= k
  <2> HIDE DEF found
  <2> QED BY <1>0, <1>3, FirstFromIs
<1>5. /\ \A k \in found : k \in i + 3 .. Len(q) /\ q[k] = "/" /\ q[k - 1] = "*"
      /\ \A k \in i + 3 .. Len(q) : q[k] = "/" /\ q[k - 1] = "*" => k \in found
  OBVIOUS
<1> HIDE DEF l, found
<1>6. l \in i + 1 .. Len(q)
  BY <1>0, <1>2, <1>4
<1>7. at[i + 1] = Passing(Reading("block"), 1)
  <2>1. q[i] \notin Quotes /\ Next2(q, i) = <<"/", "*">>
    BY <1>2, Pairs DEF Quotes
  <2>2. InCode(at, i)
    BY DEF InCode, Reading, State
  <2>3. Comments(q, i, {"!"})
    BY <2>1, <2>2 DEF Text, Comments
  <2> QED BY <2>1, <2>3, CodeStep DEF MySqlInCode
<1>8. at[i + 2] = Reading("block") /\ ~InCode(at, i + 1)
  <2>1. /\ at[i + 1].in = "block" /\ at[i + 1].skip = 1 /\ at[i + 1].depth = 0 /\ at[i + 1].tag = <<>>
        /\ 1 > 0 /\ 1 - 1 = 0 /\ i + 1 + 1 = i + 2
    BY <1>0, <1>7 DEF Passing, Reading, State
  <2>2. at[i + 2] = MySqlStep(q, at[i + 1], i + 1)
    BY <1>0, <1>2, <2>1
  <2>3. at[i + 2] = Passing(at[i + 1], 0)
    BY <2>1, <2>2 DEF MySqlStep
  <2> QED BY <2>1, <2>3 DEF Passing, Reading, State, InCode
<1>9. ASSUME NEW k \in 1 .. Len(q), at[k] = Reading("block")
      PROVE  at[k + 1] = MySqlInBlock(q, at[k], k) /\ ~InCode(at, k)
  <2>1. at[k].in = "block" /\ at[k].skip = 0
    BY <1>9 DEF Reading, State
  <2> QED BY <1>0, <2>1 DEF MySqlStep, Quotes, InCode
<1>10. ASSUME NEW k \in i + 2 .. Len(q), k + 1 \notin found PROVE Next2(q, k) # <<"*", "/">>
  <2> SUFFICES ASSUME Char(q, k) = "*", Char(q, k + 1) = "/" PROVE FALSE
    BY Pairs
  <2>1. q[k] = "*" /\ k + 1 \in DOMAIN q /\ q[k + 1] = "/"
    BY DEF Char
  <2>2. k + 1 \in i + 3 .. Len(q) /\ k + 1 - 1 = k
    BY <1>0, <2>1
  <2> QED BY <1>5, <1>10, <2>1, <2>2
\* Where the comment's end begins, or the end of the text.
<1> DEFINE last == IF l \in found THEN l - 1 ELSE Len(q)
           Good == {k \in i + 2 .. last : at[k] = Reading("block")}
<1>11. /\ last \in i + 1 .. Len(q)
       /\ l \in found => last = l - 1 /\ last \in i + 2 .. Len(q)
       /\ l \notin found => last = Len(q) /\ l >= Len(q)
  <2>1. CASE l \in found
    <3>1. l \in i + 3 .. Len(q) /\ last = l - 1
      BY <1>5, <2>1
    <3> HIDE DEF last
    <3> QED BY <1>0, <2>1, <3>1
  <2>2. CASE l \notin found
    <3>1. last = Len(q) /\ l >= Len(q)
      BY <1>0, <1>4, <2>2
    <3> HIDE DEF last
    <3> QED BY <1>0, <1>2, <2>2, <3>1
  <2> QED BY <2>1, <2>2
<1>l. last \in i + 1 .. Len(q)
  BY <1>11
<1>n. Len(q) \in Nat /\ i \in 1 .. Len(q)
  BY <1>0
<1>12. ASSUME NEW k \in i + 2 .. last - 1 PROVE k + 1 \notin found
  <2> SUFFICES ASSUME k + 1 \in found PROVE FALSE
    OBVIOUS
  <2>1. l <= k + 1 /\ k + 1 <= last
    <3>1. l <= k + 1
      BY <1>4
    <3> HIDE DEF last
    <3>2. k + 1 <= last
      BY <1>l, <1>n
    <3> QED BY <3>1, <3>2
  <2>2. l \in found
    <3> SUFFICES ASSUME l \notin found PROVE FALSE
      OBVIOUS
    <3>1. last = Len(q) /\ l >= Len(q) /\ k + 1 <= Len(q)
      <4> HIDE DEF last
      <4> QED BY <1>11, <2>1
    <3>2. l = k + 1
      <4> HIDE DEF last
      <4> QED BY <1>0, <1>4, <2>1, <3>1
    <3> QED BY <3>2
  <2>3. last = l - 1
    BY <1>11, <2>2
  <2> HIDE DEF last
  <2> QED BY <1>0, <1>4, <2>1, <2>3
<1>13. i + 2 .. last \subseteq Good
  <2>1. CASE last < i + 2
    <3>1. \A k \in i + 2 .. last : FALSE
      <4> HIDE DEF last
      <4> QED BY <1>l, <1>n, <2>1
    <3> QED BY <3>1
  <2>2. CASE ~(last < i + 2)
    <3>1. i + 2 \in Good
      <4>1. i + 2 \in i + 2 .. last
        <5> HIDE DEF last
        <5> QED BY <1>l, <1>n, <2>2
      <4> QED BY <1>8, <4>1
    <3>2. ASSUME NEW k \in i + 2 .. last - 1, k \in Good PROVE k + 1 \in Good
      <4>1. k \in 1 .. Len(q) /\ k \in i + 2 .. Len(q) /\ k + 1 \in i + 2 .. last
        <5> HIDE DEF last
        <5> QED BY <1>l, <1>n
      <4>2. Next2(q, k) # <<"*", "/">>
        BY <1>10, <1>12, <4>1
      <4>3. at[k + 1] = Reading("block")
        BY <1>9, <3>2, <4>1, <4>2 DEF MySqlInBlock
      <4> QED BY <4>1, <4>3
    <3>3. i + 2 \in Nat /\ last \in Nat
      <4> HIDE DEF last
      <4> QED BY <1>l, <1>n
    <3> HIDE DEF Good, last
    <3> QED BY <3>1, <3>2, <3>3, Stretch
  <2> QED BY <2>1, <2>2
<1>14. \A k \in i + 2 .. last : at[k] = Reading("block") /\ ~InCode(at, k)
  <2> SUFFICES ASSUME NEW k \in i + 2 .. last PROVE at[k] = Reading("block") /\ ~InCode(at, k)
    OBVIOUS
  <2>1. k \in 1 .. Len(q)
    <3> HIDE DEF last
    <3> QED BY <1>l, <1>n
  <2>2. at[k] = Reading("block")
    BY <1>13
  <2> QED BY <1>9, <2>1, <2>2
<1>15. CASE l \notin found
  <2>1. last = Len(q) /\ l >= Len(q)
    BY <1>11, <1>15
  <2> HIDE DEF last
  <2>2. \A k \in i + 1 .. l : ~InCode(at, k)
    <3> SUFFICES ASSUME NEW k \in i + 1 .. l PROVE ~InCode(at, k)
      OBVIOUS
    <3>1. k = i + 1 \/ k \in i + 2 .. last
      BY <1>0, <1>6, <2>1
    <3> QED BY <1>8, <1>14, <3>1
  <2>3. l \in i .. Len(q) /\ ~(l < Len(q))
    BY <1>0, <1>6, <2>1
  <2> QED BY <1>1, <2>2, <2>3 DEF Over
<1>16. CASE l \in found
  <2>1. last = l - 1 /\ last \in i + 2 .. Len(q) /\ q[l] = "/" /\ q[l - 1] = "*"
    BY <1>5, <1>11, <1>16
  <2> HIDE DEF last
  <2>2. last \in 1 .. Len(q) /\ last + 1 = l /\ l \in 1 .. Len(q) /\ last \in i + 2 .. last
    BY <1>0, <1>6, <2>1
  <2>3. at[l] = Passing(Reading("code"), 1)
    <3>1. Char(q, last) = "*" /\ Char(q, last + 1) = "/"
      BY <1>0, <2>1, <2>2 DEF Char
    <3>2. Next2(q, last) = <<"*", "/">>
      BY <3>1, Pairs
    <3>3. at[last] = Reading("block")
      BY <1>14, <2>2
    <3>4. at[last + 1] = MySqlInBlock(q, at[last], last)
      BY <1>9, <2>2, <3>3
    <3> QED BY <2>2, <3>2, <3>4 DEF MySqlInBlock
  <2>4. at[l].in = "code" /\ at[l].skip = 1 /\ at[l].depth = 0 /\ at[l].tag = <<>> /\ 1 > 0 /\ 1 - 1 = 0
    BY <2>3 DEF Passing, Reading, State
  <2>5. at[l + 1] = Reading("code")
    <3>1. at[l + 1] = MySqlStep(q, at[l], l)
      BY <1>0, <2>2
    <3>2. at[l + 1] = Passing(at[l], 0)
      BY <2>4, <3>1 DEF MySqlStep
    <3> QED BY <2>4, <3>2 DEF Passing, Reading, State
  <2>6. ~InCode(at, l)
    BY <2>4 DEF InCode
  <2>7. \A k \in i + 1 .. l : ~InCode(at, k)
    <3> SUFFICES ASSUME NEW k \in i + 1 .. l PROVE ~InCode(at, k)
      OBVIOUS
    <3>1. k = i + 1 \/ k \in i + 2 .. last \/ k = l
      BY <1>0, <1>6, <2>2
    <3> QED BY <1>8, <1>14, <2>6, <3>1
  <2>8. l \in i .. Len(q)
    BY <1>0, <1>6
  <2> QED BY <1>1, <2>5, <2>7, <2>8 DEF Over
<1> QED BY <1>15, <1>16

\* A named placeholder.
LEMMA NameSpan ==
    ASSUME NEW q, NEW at, Text(q, at), NEW i \in DOMAIN q, at[i] = Reading("code"), IsName(q, i)
    PROVE  /\ RunOf(q, i + 1, Part) \in i + 1 .. Len(q)
           /\ at[RunOf(q, i + 1, Part) + 1] = Reading("code")
           /\ \A k \in i + 1 .. RunOf(q, i + 1, Part) : q[k] \in Part
<1> DEFINE l == RunOf(q, i + 1, Part)
<1>0. /\ q \in Seq(Characters) /\ Len(q) \in Nat /\ DOMAIN q = 1 .. Len(q) /\ i \in 1 .. Len(q)
  BY TextSteps
<1>1. q[i] \in Sigils /\ i + 1 \in 1 .. Len(q) /\ q[i + 1] \in Part /\ i + 1 - 1 = i
  <2>1. i + 1 \in DOMAIN q /\ q[i + 1] \in Part
    <3>1. "" \notin Part
      BY DEF Part, Letters, Digits
    <3> QED BY <3>1 DEF IsName, Char
  <2> QED BY <1>0, <2>1 DEF IsName
<1>2. l \in i .. Len(q) /\ (\A k \in i + 1 .. l : q[k] \in Part) /\ (l < Len(q) => q[l + 1] \notin Part)
  <2>1. i + 1 \in 1 .. Len(q) + 1
    BY <1>0
  <2> QED BY <1>0, <1>1, <2>1, RunOfIs
<1> HIDE DEF l
<1>3. l \in i + 1 .. Len(q)
  <2> SUFFICES ASSUME l = i PROVE FALSE
    BY <1>0, <1>2
  <2> QED BY <1>0, <1>1, <1>2
<1>4. \A k \in 1 .. Len(q) : q[k] \in Part \cup Sigils => Plain(q, k)
  <2> SUFFICES ASSUME NEW k \in 1 .. Len(q), q[k] \in Part \cup Sigils PROVE Plain(q, k)
    OBVIOUS
  <2>1. Char(q, k) = q[k]
    BY <1>0 DEF Char
  <2>2. q[k] \notin Quotes \cup {"#", "/", "-"}
    BY DEF Part, Letters, Digits, Sigils, Quotes
  <2> QED BY <2>1, <2>2 DEF Plain
<1> DEFINE Good == {k \in i .. l + 1 : at[k] = Reading("code")}
<1>5. i \in Good
  BY <1>0, <1>3
<1>6. ASSUME NEW k \in i .. l, k \in Good PROVE k + 1 \in Good
  <2>1. k \in 1 .. Len(q) /\ k + 1 \in i .. l + 1 /\ (k = i \/ k \in i + 1 .. l)
    BY <1>0, <1>3
  <2>2. Plain(q, k)
    BY <1>1, <1>2, <1>4, <2>1
  <2> QED BY <1>0, <1>6, <2>1, <2>2, CodeStep
<1>7. i .. l + 1 \subseteq Good
  <2> DEFINE b == l + 1
  <2>1. i \in Nat /\ b \in Nat /\ b - 1 = l
    BY <1>0, <1>3
  <2> HIDE DEF Good
  <2>2. \A k \in i .. b - 1 : k \in Good => k + 1 \in Good
    BY <1>6, <2>1
  <2> HIDE DEF b
  <2>3. i .. b \subseteq Good
    BY <1>5, <2>1, <2>2, Stretch
  <2> QED BY <2>3 DEF b
<1>8. at[l + 1] = Reading("code")
  <2>1. l + 1 \in i .. l + 1
    BY <1>0, <1>3
  <2> QED BY <1>7, <2>1
<1> QED BY <1>2, <1>3, <1>8 DEF l

-----------------------------------------------------------------------------
(* What scanSql() finds.                                                   *)

\* The scanner goes forward, whatever it meets.
LEMMA MySqlSpanBounds ==
    ASSUME NEW q \in Seq(Characters), NEW i \in DOMAIN q, NEW scanner
    PROVE  MySqlSpan(q, i, scanner) \in i .. Len(q)
<1> DEFINE l == MySqlSpan(q, i, scanner)
<1>0. Len(q) \in Nat /\ DOMAIN q = 1 .. Len(q) /\ i \in 1 .. Len(q) /\ Len(q) > 0 /\ i \in i .. Len(q)
  OBVIOUS
<1>a. ASSUME NEW a \in Nat \ {0}, a >= i, NEW found \in SUBSET (a .. Len(q))
      PROVE  Min(found \cup {Len(q)}) \in i .. Len(q)
  <2> DEFINE m == Min(found \cup {Len(q)})
  <2>1. m \in 1 .. Len(q) /\ (m < Len(q) => m >= a)
    BY <1>0, FirstFromIs
  <2> HIDE DEF m
  <2>2. m \in i .. Len(q)
    BY <1>0, <1>a, <2>1
  <2> QED BY <2>2 DEF m
<1>1. CASE q[i] \in Quotes
  BY <1>1, MySqlSpanIs, QuotedEndBounds
<1>2. CASE Char(q, i) = "/" /\ Char(q, i + 1) = "*"
  <2> DEFINE a == i + 3
             found == {j \in a .. Len(q) : q[j] = "/" /\ q[j - 1] = "*"}
  <2>1. l = Min(found \cup {Len(q)})
    BY <1>2, MySqlSpanIs DEF FirstFrom
  <2>2. found \in SUBSET (a .. Len(q)) /\ a \in Nat \ {0} /\ a >= i
    BY <1>0
  <2> HIDE DEF found, a, l
  <2> QED BY <1>a, <2>1, <2>2 DEF l
<1>3. CASE q[i] = "#" \/ (Char(q, i) = "-" /\ Char(q, i + 1) = "-" /\ Char(q, i + 2) \in White)
  <2> DEFINE a == i + 1
             found == {j \in a .. Len(q) : q[j] = "\n"}
  <2>1. l = Min(found \cup {Len(q)})
    BY <1>3, MySqlSpanIs DEF FirstFrom, LineEnd
  <2>2. found \in SUBSET (a .. Len(q)) /\ a \in Nat \ {0} /\ a >= i
    BY <1>0
  <2> HIDE DEF found, a, l
  <2> QED BY <1>a, <2>1, <2>2 DEF l
<1>4. CASE Char(q, i) = "?" /\ Char(q, i + 1) = "?"
  <2>1. i + 1 \in DOMAIN q
    BY <1>4 DEF Char
  <2>2. i + 1 \in i .. Len(q)
    BY <1>0, <2>1
  <2> QED BY <1>4, <2>2, MySqlSpanIs
<1>5. CASE Replaces(scanner, q, i)
  <2>1. l = RunOf(q, i + 1, Part)
    BY <1>5, MySqlSpanIs
  <2>2. i + 1 \in 1 .. Len(q) + 1 /\ i + 1 - 1 = i
    BY <1>0
  <2> QED BY <2>1, <2>2, RunOfIs
<1>6. CASE /\ q[i] \notin Quotes /\ q[i] # "#"
           /\ ~(Char(q, i) = "/" /\ Char(q, i + 1) = "*")
           /\ ~(Char(q, i) = "-" /\ Char(q, i + 1) = "-" /\ Char(q, i + 2) \in White)
           /\ ~(Char(q, i) = "?" /\ Char(q, i + 1) = "?")
           /\ ~Replaces(scanner, q, i)
  <2>1. l = i
    BY <1>6, MySqlSpanIs
  <2> QED BY <1>0, <2>1
<1> QED BY <1>1, <1>2, <1>3, <1>4, <1>5, <1>6

\* One more in front.
LEMMA Prefixed ==
    ASSUME NEW T, NEW x \in T, NEW s \in Seq(T)
    PROVE  /\ <<x>> \o s \in Seq(T) /\ Len(<<x>> \o s) = Len(s) + 1
           /\ (<<x>> \o s)[1] = x
           /\ \A k \in 1 .. Len(s) : (<<x>> \o s)[k + 1] = s[k]
OBVIOUS

Scans == [sql : Seq(Characters), names : Seq(Seq(Characters)), count : Nat]
\* from is the scan of the rest, for each place to go on from.
Scanning(q, scanner, from) ==
    /\ ScanSql(q, scanner) = from[1]
    /\ from[Len(q) + 1] = [sql |-> <<>>, names |-> <<>>, count |-> 0]
    /\ \A i \in 1 .. Len(q) + 1 : from[i] \in Scans
    /\ \A i \in 1 .. Len(q) : from[i] = Scanned(q, i, MySqlSpan(q, i, scanner), scanner,
                                                from[MySqlSpan(q, i, scanner) + 1])

\* What is scanned of a query, put in front of the scan of the rest, is a scan.
LEMMA ScannedTyped ==
    ASSUME NEW q \in Seq(Characters), NEW i \in 1 .. Len(q), NEW l \in i .. Len(q), NEW scanner, NEW rest \in Scans
    PROVE  Scanned(q, i, l, scanner, rest) \in Scans
<1>1. SubSeq(q, i, l) \in Seq(Characters) /\ SubSeq(q, i + 1, l) \in Seq(Characters)
  <2>1. i \in 1 .. Len(q) + 1 /\ i + 1 \in 1 .. Len(q) + 1 /\ l \in i - 1 .. Len(q) /\ l \in (i + 1) - 1 .. Len(q)
    OBVIOUS
  <2> QED BY <2>1, SubSeqProperties
<1>2. rest.sql \in Seq(Characters) /\ rest.names \in Seq(Seq(Characters)) /\ rest.count \in Nat
  BY DEF Scans
<1>3. <<"?">> \o rest.sql \in Seq(Characters) /\ SubSeq(q, i, l) \o rest.sql \in Seq(Characters)
  <2>1. "?" \in Characters
    BY TextsOfCharacters
  <2> QED BY <1>1, <1>2, <2>1, Prefixed, ConcatProperties
<1>4. <<SubSeq(q, i + 1, l)>> \o rest.names \in Seq(Seq(Characters))
  BY <1>1, <1>2, Prefixed
<1>5. rest.count + 1 \in Nat /\ rest.count + (IF q[i] = "?" THEN 1 ELSE 0) \in Nat
  BY <1>2
<1> QED BY <1>2, <1>3, <1>4, <1>5 DEF Scanned, Scans

\* scanSql() comes to an end.
LEMMA ScanSqlDef ==
    ASSUME NEW q \in Seq(Characters), NEW scanner
    PROVE  \E from : Scanning(q, scanner, from)
<1> DEFINE D == 1 .. Len(q) + 1
           last == [i \in DOMAIN q |-> MySqlSpan(q, i, scanner)]
           none == [sql |-> <<>>, names |-> <<>>, count |-> 0]
           Body(i, f) == IF i > Len(q) THEN none ELSE Scanned(q, i, last[i], scanner, f[last[i] + 1])
           Is(f) == f = [i \in D |-> Body(i, f)]
           from == CHOOSE f : Is(f)
           F == [i \in D |-> [f \in [D -> Scans] |-> Body(i, f)]]
           rank == [i \in D |-> Len(q) + 1 - i]
           N == Len(q) + 1
<1>0. Len(q) \in Nat /\ DOMAIN q = 1 .. Len(q)
  OBVIOUS
<1>1. ScanSql(q, scanner) = from[1]
  BY DEF ScanSql
<1>l. /\ \A i \in 1 .. Len(q) : last[i] = MySqlSpan(q, i, scanner)
      /\ \A i \in 1 .. Len(q) : last[i] \in i .. Len(q)
  BY <1>0, MySqlSpanBounds
<1> HIDE DEF last
<1>2. ASSUME NEW i \in 1 .. Len(q), NEW rest \in Scans PROVE Scanned(q, i, last[i], scanner, rest) \in Scans
  BY <1>l, ScannedTyped
<1>n. none \in Scans
  <2>1. <<>> \in Seq(Characters) /\ <<>> \in Seq(Seq(Characters)) /\ 0 \in Nat
    OBVIOUS
  <2> QED BY <2>1 DEF Scans
<1> HIDE DEF none
<1>3. ASSUME NEW i \in D, NEW f \in [D -> Scans] PROVE Body(i, f) \in Scans
  <2>1. CASE i > Len(q)
    BY <1>n, <2>1
  <2>2. CASE ~(i > Len(q))
    <3>1. i \in 1 .. Len(q)
      BY <1>0, <2>2
    <3>2. last[i] + 1 \in D
      BY <1>0, <1>l, <3>1
    <3>3. f[last[i] + 1] \in Scans
      BY <3>2
    <3> QED BY <1>2, <2>2, <3>1, <3>3
  <2> QED BY <2>1, <2>2
<1>4. \E f \in [D -> Scans] : Is(f)
  <2>1. rank \in [D -> 0 .. N] /\ N \in Nat
    BY <1>0
  <2>2. F \in [D -> [[D -> Scans] -> Scans]]
    <3> HIDE DEF Body, D
    <3> QED BY <1>3
  <2>3. \A i \in D : \A f, g \in [D -> Scans] :
           (\A k \in D : rank[k] < rank[i] => f[k] = g[k]) => F[i][f] = F[i][g]
    <3> SUFFICES ASSUME NEW i \in D, NEW f \in [D -> Scans], NEW g \in [D -> Scans],
                        \A k \in D : rank[k] < rank[i] => f[k] = g[k]
                 PROVE  Body(i, f) = Body(i, g)
      BY Zenon
    <3>1. i <= Len(q) => last[i] + 1 \in D /\ rank[last[i] + 1] < rank[i]
      BY <1>0, <1>l
    <3>2. i <= Len(q) => f[last[i] + 1] = g[last[i] + 1]
      BY <3>1
    <3>3. CASE i > Len(q)
      BY <3>3
    <3>4. CASE ~(i > Len(q))
      BY <1>0, <3>2, <3>4
    <3> QED BY <3>3, <3>4
  <2> HIDE DEF F, rank, D, N
  <2>4. PICK f \in [D -> Scans] : \A i \in D : f[i] = F[i][f]
    <3>1. Scans # {}
      BY <1>n
    <3>2. Grounded(D, Scans, N, rank, F)
      BY <2>1, <2>2, <2>3, <3>1 DEF Grounded
    <3> QED BY <3>2, Recursion
  <2>5. \A i \in D : f[i] = Body(i, f)
    BY <2>4 DEF F
  <2> HIDE DEF Body
  <2> QED BY <2>4, <2>5
<1>5. Is(from)
  BY <1>4
<1>6. \A i \in D : from[i] = Body(i, from)
  <2> HIDE DEF from, Body, D
  <2> QED BY <1>5
<1> HIDE DEF from
<1>7. from[Len(q) + 1] = none
  <2>1. Len(q) + 1 \in D /\ Len(q) + 1 > Len(q)
    BY <1>0
  <2> QED BY <1>6, <2>1
<1>8. \A i \in 1 .. Len(q) : from[i] = Scanned(q, i, last[i], scanner, from[last[i] + 1])
  <2> TAKE i \in 1 .. Len(q)
  <2>1. i \in D /\ ~(i > Len(q))
    BY <1>0
  <2> QED BY <1>6, <2>1
<1> DEFINE Good == {i \in 1 .. N : from[i] \in Scans}
<1>9. ASSUME NEW i \in 1 .. N, \A k \in i + 1 .. N : k \in Good PROVE i \in Good
  <2>1. CASE i > Len(q)
    <3>1. i = Len(q) + 1
      BY <1>0, <2>1
    <3> QED BY <1>7, <1>n, <3>1
  <2>2. CASE ~(i > Len(q))
    <3>1. i \in 1 .. Len(q) /\ last[i] + 1 \in i + 1 .. N
      BY <1>0, <1>l, <2>2
    <3>2. from[last[i] + 1] \in Scans
      BY <1>9, <3>1
    <3> QED BY <1>2, <1>8, <3>1, <3>2
  <2> QED BY <2>1, <2>2
<1> HIDE DEF Good
<1>10. 1 .. N \subseteq Good
  <2> HIDE DEF N
  <2>1. N \in Nat
    BY <1>0 DEF N
  <2> QED BY <1>9, <2>1, Descending
<1>11. Scanning(q, scanner, from)
  <2>1. \A i \in 1 .. Len(q) + 1 : from[i] \in Scans
    BY <1>10 DEF Good
  <2>2. \A i \in 1 .. Len(q) : from[i] = Scanned(q, i, MySqlSpan(q, i, scanner), scanner,
                                                  from[MySqlSpan(q, i, scanner) + 1])
    BY <1>l, <1>8
  <2> QED BY <1>1, <1>7, <2>1, <2>2 DEF Scanning, none
<1> QED BY <1>11

\* Where the scanner starts anew the server reads code, and a question mark
\* there is a placeholder's first.
Start(q, at, i) ==
    i \in DOMAIN q => /\ at[i] = Reading("code")
                      /\ q[i] = "?" => i - 1 \notin QuestionMarks(q)
\* What the scanner passes over holds no placeholder's start.
Passes(q, at, i, l) ==
    /\ l \in i .. Len(q)
    /\ Start(q, at, l + 1)
    /\ \A k \in i + 1 .. l : k \notin QuestionMarks(q) \cup Names(q)

\* The server reads a placeholder where it reads code.
LEMMA PlacesInCode ==
    ASSUME NEW q, Len(q) \in Nat, DOMAIN q = 1 .. Len(q)
    PROVE  /\ \A k \in QuestionMarks(q) : k \in DOMAIN q /\ q[k] = "?" /\ InCode(MySqlReads(q), k)
           /\ \A k \in Names(q) : k \in DOMAIN q /\ q[k] \in Sigils /\ IsName(q, k) /\ InCode(MySqlReads(q), k)
<1>2. \A k \in QuestionMarks(q) : k \in DOMAIN q /\ q[k] = "?" /\ InCode(MySqlReads(q), k)
  BY DEF QuestionMarks, Markers
<1>3. \A k \in Names(q) : k \in DOMAIN q /\ q[k] \in Sigils /\ IsName(q, k) /\ InCode(MySqlReads(q), k)
  BY DEF Names, IsName
<1> QED BY <1>2, <1>3

\* Where one thing ends the scanner starts anew.
LEMMA PassesOver ==
    ASSUME NEW q, Text(q, MySqlReads(q)), NEW i \in DOMAIN q, NEW l,
           Over(q, MySqlReads(q), i, l), l > i \/ q[i] # "?"
    PROVE  Passes(q, MySqlReads(q), i, l)
<1> DEFINE at == MySqlReads(q)
<1>0. Len(q) \in Nat /\ DOMAIN q = 1 .. Len(q) /\ i \in 1 .. Len(q) /\ l \in i .. Len(q)
  BY TextSteps DEF Over
<1>1. "?" \notin Quotes /\ \A x \in Sigils : x \notin Quotes
  BY DEF Quotes, Sigils
<1>2. \A k \in i + 1 .. l : k \notin QuestionMarks(q) \cup Names(q)
  BY <1>0, <1>1, PlacesInCode DEF Over
<1>3. ASSUME l + 1 \in DOMAIN q PROVE at[l + 1] = Reading("code") /\ l + 1 - 1 \notin QuestionMarks(q)
  <2>1. l < Len(q) /\ l + 1 - 1 = l /\ (l = i \/ l \in i + 1 .. l)
    BY <1>0, <1>3
  <2>2. at[l + 1] = Reading("code")
    BY <2>1 DEF Over
  <2>3. l \notin QuestionMarks(q)
    <3>1. CASE l = i
      <4>1. q[l] # "?"
        BY <1>0, <3>1
      <4> QED BY <1>0, <4>1, PlacesInCode
    <3>2. CASE l \in i + 1 .. l
      BY <1>2, <3>2
    <3> QED BY <2>1, <3>1, <3>2
  <2> QED BY <2>1, <2>2, <2>3
<1> QED BY <1>0, <1>2, <1>3 DEF Passes, Start

\* What the scanner takes for one thing is one thing for the server, or a
\* placeholder.
LEMMA MySqlSpanPassed ==
    ASSUME NEW q, Text(q, MySqlReads(q)), NEW i \in DOMAIN q, Start(q, MySqlReads(q), i), NEW scanner
    PROVE  /\ Passes(q, MySqlReads(q), i, MySqlSpan(q, i, scanner))
           /\ i \in QuestionMarks(q) <=> q[i] = "?"
           /\ ~Replaces(scanner, q, i) /\ q[i] # "?" => Over(q, MySqlReads(q), i, MySqlSpan(q, i, scanner))
           /\ ~Replaces(scanner, q, i) /\ q[i] # "?" /\ Plain(q, i) => MySqlSpan(q, i, scanner) = i
<1> DEFINE at == MySqlReads(q)
           l == MySqlSpan(q, i, scanner)
<1>0. /\ q \in Seq(Characters) /\ Len(q) \in Nat /\ DOMAIN q = 1 .. Len(q) /\ i \in 1 .. Len(q)
      /\ at[i] = Reading("code") /\ (q[i] = "?" => i - 1 \notin QuestionMarks(q)) /\ Paired(q)
  BY TextSteps DEF Start
<1>1. Char(q, i) = q[i] /\ InCode(at, i)
  BY <1>0 DEF Char, InCode, Reading, State
<1>2. i \in QuestionMarks(q) <=> q[i] = "?"
  BY <1>0, <1>1, QuestionMarksIs DEF Markers
<1>3. "?" \notin Quotes /\ (\A x \in Sigils : x \notin Quotes \cup {"?", "#", "/", "-"}) /\ Quotes \cap {"#", "/", "-"} = {}
  BY DEF Quotes, Sigils
<1>4. Replaces(scanner, q, i) => IsName(q, i) /\ q[i] \in Sigils
  BY DEF Replaces, IsName
<1> DEFINE block == Char(q, i) = "/" /\ Char(q, i + 1) = "*"
           line == q[i] = "#" \/ (Char(q, i) = "-" /\ Char(q, i + 1) = "-" /\ Char(q, i + 2) \in White)
<1>5. ASSUME Plain(q, i) PROVE at[i + 1] = Reading("code")
  BY <1>0, <1>5, CodeStep
<1>6. q[i] = "?" => Plain(q, i)
  BY <1>1, <1>3 DEF Plain
<1>7. CASE q[i] \in Quotes
  <2>1. ~Plain(q, i)
    BY <1>7 DEF Plain
  <2>2. Over(q, at, i, l)
    <3>1. l = QuotedEnd(q, i, {"\\"})
      BY <1>7, MySqlSpanIs
    <3> HIDE DEF l
    <3> QED BY <1>0, <1>7, <3>1, MySqlQuoteSpan
  <2> QED BY <1>2, <1>3, <1>7, <2>1, <2>2, PassesOver
<1>8. CASE block
  <2>1. Over(q, at, i, l) /\ ~Plain(q, i)
    <3>1. l = FirstFrom(q, i + 3, LAMBDA j : q[j] = "/" /\ q[j - 1] = "*")
      BY <1>8, MySqlSpanIs DEF FirstFrom
    <3>2. Over(q, at, i, FirstFrom(q, i + 3, LAMBDA j : q[j] = "/" /\ q[j - 1] = "*"))
      BY <1>0, <1>8, MySqlBlockSpan DEF FirstFrom
    <3>3. Over(q, at, i, l)
      BY <3>1, <3>2 DEF FirstFrom
    <3> QED BY <1>8, <3>3 DEF Plain
  <2>2. q[i] # "?"
    BY <1>1, <1>8
  <2> QED BY <1>2, <2>1, <2>2, PassesOver
<1>9. CASE line
  <2>1. Over(q, at, i, l) /\ ~Plain(q, i)
    <3>1. l = LineEnd(q, i)
      BY <1>9, MySqlSpanIs
    <3>2. Over(q, at, i, LineEnd(q, i))
      BY <1>0, <1>9, MySqlLineSpan
    <3> QED BY <1>9, <3>1, <3>2 DEF Plain
  <2>2. q[i] # "?"
    BY <1>1, <1>9
  <2> QED BY <1>2, <2>1, <2>2, PassesOver
<1>10. CASE q[i] = "?" /\ Char(q, i + 1) = "?"
  <2>1. l = i + 1 /\ i + 1 \in DOMAIN q /\ q[i + 1] = "?"
    BY <1>1, <1>10, MySqlSpanIs DEF Char
  <2>2. at[i + 1] = Reading("code") /\ i + 1 - 1 = i
    BY <1>0, <1>5, <1>6, <1>10
  <2>3. at[l + 1] = Reading("code")
    <3>1. Plain(q, i + 1)
      BY <1>3, <2>1 DEF Plain, Char
    <3> QED BY <2>1, <2>2, <3>1, CodeStep
  <2>4. i + 1 \notin QuestionMarks(q)
    <3>1. i \in QuestionMarks(q)
      BY <1>2, <1>10
    <3>2. \A k : k \in QuestionMarks(q) => k - 1 \notin QuestionMarks(q)
      BY <1>0, QuestionMarksIs
    <3>3. (i + 1) - 1 = i
      BY <1>0
    <3> QED BY <3>1, <3>2, <3>3, Zenon
  <2>5. i + 1 \notin Names(q)
    BY <1>0, <1>3, <2>1, PlacesInCode
  <2>6. l \in i .. Len(q) /\ l + 1 - 1 = i + 1 /\ \A k \in i + 1 .. l : k = i + 1
    BY <1>0, <2>1
  <2>7. Passes(q, at, i, l)
    BY <2>3, <2>4, <2>5, <2>6 DEF Passes, Start
  <2> QED BY <1>2, <1>10, <2>7
<1>11. CASE Replaces(scanner, q, i)
  <2>1. /\ l \in i + 1 .. Len(q) /\ at[l + 1] = Reading("code")
        /\ \A k \in i + 1 .. l : q[k] \in Part
    <3>1. l = RunOf(q, i + 1, Part)
      BY <1>11, MySqlSpanIs
    <3> QED BY <1>0, <1>4, <1>11, <3>1, NameSpan
  <2>2. \A x \in Part : x # "?" /\ x \notin Sigils
    BY DEF Part, Letters, Digits, Sigils
  <2>3. \A k \in i + 1 .. l : k \notin QuestionMarks(q) \cup Names(q)
    BY <1>0, <2>1, <2>2, PlacesInCode
  <2>4. l \in i .. Len(q) /\ l + 1 - 1 = l /\ l \in i + 1 .. l
    BY <1>0, <2>1
  <2>5. Passes(q, at, i, l)
    BY <2>1, <2>3, <2>4 DEF Passes, Start
  <2> QED BY <1>2, <1>3, <1>4, <1>11, <2>5
<1>12. CASE Plain(q, i) /\ ~Replaces(scanner, q, i) /\ ~(q[i] = "?" /\ Char(q, i + 1) = "?")
  <2>1. l = i
    BY <1>1, <1>12, MySqlSpanIs DEF Plain
  <2>2. Over(q, at, i, l)
    <3>1. l \in i .. Len(q) /\ \A k \in i + 1 .. l : FALSE
      BY <1>0, <2>1
    <3> QED BY <1>5, <1>12, <2>1, <3>1 DEF Over
  <2>3. CASE q[i] # "?"
    BY <1>2, <2>1, <2>2, <2>3, PassesOver
  <2>4. CASE q[i] = "?"
    <3>1. l \in i .. Len(q) /\ \A k \in i + 1 .. l : FALSE
      BY <1>0, <2>1
    <3>2. i + 1 \in DOMAIN q => q[i + 1] # "?"
      BY <1>12, <2>4 DEF Char
    <3>3. Passes(q, at, i, l)
      BY <1>5, <1>12, <2>1, <3>1, <3>2 DEF Passes, Start
    <3> QED BY <1>2, <2>4, <3>3
  <2> QED BY <2>3, <2>4
<1>13. q[i] \in Quotes \/ block \/ line \/ Plain(q, i)
  BY DEF Plain
<1> HIDE DEF l, block, line, at
<1> QED BY <1>7, <1>8, <1>9, <1>10, <1>11, <1>12, <1>13 DEF l, at

\* What a set of places has from i on.
Left(S, i) == {k \in S : k >= i}
Within(S, i, j) == {k \in S : k >= i /\ k <= j}
StepsTo(S, i, l) ==
    /\ Cardinality(Left(S, l + 1)) \in Nat
    /\ Cardinality(Left(S, i)) = Cardinality(Left(S, l + 1)) + (IF i \in S THEN 1 ELSE 0)
    /\ i \in S => Cardinality(Within(S, i, i)) = 1
    /\ \A k \in S : k >= l + 1 =>
          Cardinality(Within(S, i, k)) = Cardinality(Within(S, l + 1, k)) + (IF i \in S THEN 1 ELSE 0)

\* Only the first of the numbers that are passed can be one of the set.
LEMMA LeftStep ==
    ASSUME NEW N \in Nat, NEW S \in SUBSET (1 .. N), NEW i \in 1 .. N, NEW l \in i .. N,
           \A k \in i + 1 .. l : k \notin S
    PROVE  StepsTo(S, i, l)
<1>1. ASSUME NEW T \in SUBSET S PROVE IsFiniteSet(T) /\ Cardinality(T) \in Nat
  <2>1. IsFiniteSet(1 .. N) /\ T \subseteq 1 .. N
    BY FS_Interval
  <2>2. IsFiniteSet(T)
    BY <2>1, FS_Subset
  <2> QED BY <2>2, FS_CardinalityType
<1>2. ASSUME NEW T, NEW U \in SUBSET S, T = IF i \in S THEN U \cup {i} ELSE U, i \notin U
      PROVE  Cardinality(T) = Cardinality(U) + (IF i \in S THEN 1 ELSE 0)
  <2>1. CASE i \in S
    <3>1. IsFiniteSet(U) /\ T = U \cup {i}
      BY <1>1, <1>2, <2>1
    <3>2. Cardinality(T) = Cardinality(U) + 1
      BY <1>2, <3>1, FS_AddElement
    <3> QED BY <2>1, <3>2
  <2>2. CASE i \notin S
    BY <1>1, <1>2, <2>2
  <2> QED BY <2>1, <2>2
<1>3. \A k \in S : k \in 1 .. N /\ (k >= i => k = i \/ k >= l + 1) /\ (k >= l + 1 => k >= i /\ k # i)
  OBVIOUS
<1>s. ASSUME NEW T, NEW U, \A x \in T : x \in S, \A x \in U : x \in S,
             \A x \in S : x \in T <=> x = i \/ x \in U, i \notin U
      PROVE  T = (IF i \in S THEN U \cup {i} ELSE U) /\ i \notin U /\ U \in SUBSET S
  <2>1. \A x : x \in T <=> x \in (IF i \in S THEN U \cup {i} ELSE U)
    BY <1>s
  <2> QED BY <1>s, <2>1
<1>4. /\ Left(S, i) = IF i \in S THEN Left(S, l + 1) \cup {i} ELSE Left(S, l + 1)
      /\ i \notin Left(S, l + 1) /\ Left(S, l + 1) \in SUBSET S
  <2> DEFINE T == Left(S, i)
             U == Left(S, l + 1)
  <2>1. /\ \A x \in T : x \in S
        /\ \A x \in U : x \in S
    BY DEF Left
  <2>2. \A x \in S : x \in T <=> x = i \/ x \in U
    BY <1>3 DEF Left
  <2>3. i \notin U
    BY <1>3 DEF Left
  <2> HIDE DEF T, U
  <2>4. T = (IF i \in S THEN U \cup {i} ELSE U) /\ i \notin U /\ U \in SUBSET S
    BY <1>s, <2>1, <2>2, <2>3
  <2> QED BY <2>4 DEF T, U
<1>5. ASSUME NEW k \in S, k >= l + 1
      PROVE  /\ Within(S, i, k) = IF i \in S THEN Within(S, l + 1, k) \cup {i} ELSE Within(S, l + 1, k)
             /\ i \notin Within(S, l + 1, k) /\ Within(S, l + 1, k) \in SUBSET S
  <2> DEFINE T == Within(S, i, k)
             U == Within(S, l + 1, k)
  <2>0. i <= k
    BY <1>3, <1>5
  <2>1. /\ \A x \in T : x \in S
        /\ \A x \in U : x \in S
    BY DEF Within
  <2>2. \A x \in S : x \in T <=> x = i \/ x \in U
    BY <1>3, <2>0 DEF Within
  <2>3. i \notin U
    BY <1>3 DEF Within
  <2> HIDE DEF T, U
  <2>4. T = (IF i \in S THEN U \cup {i} ELSE U) /\ i \notin U /\ U \in SUBSET S
    BY <1>s, <2>1, <2>2, <2>3
  <2> QED BY <2>4 DEF T, U
<1>6. i \in S => Within(S, i, i) = {i}
  <2>1. \A x : x \in Within(S, i, i) => x = i
    BY <1>3 DEF Within
  <2>2. i \in S => i \in Within(S, i, i)
    BY <1>3 DEF Within
  <2> QED BY <2>1, <2>2
<1>7. i \in S => Cardinality(Within(S, i, i)) = 1
  BY <1>6, FS_Singleton
<1>8. Cardinality(Left(S, i)) = Cardinality(Left(S, l + 1)) + (IF i \in S THEN 1 ELSE 0)
  BY <1>2, <1>4
<1>9. ASSUME NEW k \in S, k >= l + 1
      PROVE  Cardinality(Within(S, i, k)) = Cardinality(Within(S, l + 1, k)) + (IF i \in S THEN 1 ELSE 0)
  BY <1>2, <1>5, <1>9
<1> QED BY <1>1, <1>4, <1>7, <1>8, <1>9 DEF StepsTo

\* The n-th of those that are left is one of as many.
LEMMA WithinBounds ==
    ASSUME NEW N \in Nat, NEW S \in SUBSET (1 .. N), NEW i \in Nat, NEW k \in Left(S, i)
    PROVE  Cardinality(Within(S, i, k)) \in 1 .. Cardinality(Left(S, i))
<1>1. IsFiniteSet(Left(S, i))
  <2>1. IsFiniteSet(1 .. N)
    BY FS_Interval
  <2>2. Left(S, i) \in SUBSET (1 .. N)
    BY DEF Left
  <2> QED BY <2>1, <2>2, FS_Subset
<1>2. k \in Within(S, i, k) /\ Within(S, i, k) \in SUBSET Left(S, i)
  BY DEF Within, Left
<1>3. IsFiniteSet(Within(S, i, k)) /\ Cardinality(Within(S, i, k)) <= Cardinality(Left(S, i))
  BY <1>1, <1>2, FS_Subset
<1>4. Cardinality(Within(S, i, k)) \in Nat /\ Cardinality(Left(S, i)) \in Nat
  BY <1>1, <1>3, FS_CardinalityType
<1>5. Cardinality(Within(S, i, k)) # 0
  <2>1. Within(S, i, k) # {}
    BY <1>2
  <2> QED BY <1>3, <2>1, FS_EmptySet
<1> QED BY <1>3, <1>4, <1>5

\* The placeholders a scan is meant to find.
Placeholders(q, scanner) == QuestionMarks(q) \cup (IF scanner = "named" THEN Names(q) ELSE {})
\* No sigil is doubled.
Single(q) == \A i \in 2 .. Len(q) : q[i] \in Sigils => q[i - 1] # q[i]

\* Where the scanner starts on a thing, it tells a placeholder from what is none.
LEMMA StartPlace ==
    ASSUME NEW q, Text(q, MySqlReads(q)), NEW i \in DOMAIN q, Start(q, MySqlReads(q), i),
           NEW scanner, scanner = "named" => Single(q)
    PROVE  /\ i \in Placeholders(q, scanner) <=> Replaces(scanner, q, i) \/ q[i] = "?"
           /\ scanner = "named" => (i \in Names(q) <=> Replaces(scanner, q, i))
           /\ Replaces(scanner, q, i) => scanner = "named" /\ q[i] # "?"
<1>0. Len(q) \in Nat /\ DOMAIN q = 1 .. Len(q) /\ i \in 1 .. Len(q)
  BY TextSteps
<1>1. InCode(MySqlReads(q), i)
  BY DEF Start, InCode, Reading, State
<1>2. i \in QuestionMarks(q) <=> q[i] = "?"
  BY MySqlSpanPassed
<1>3. Replaces(scanner, q, i) => scanner = "named" /\ q[i] # "?" /\ q[i] \in Sigils /\ q[i] # ""
  BY DEF Replaces, IsName, Sigils
<1>4. ASSUME scanner = "named", Replaces(scanner, q, i) PROVE i \in Names(q)
  <2>1. Char(q, i - 1) # q[i]
    <3>1. CASE i = 1
      <4>1. i - 1 \notin DOMAIN q
        BY <1>0, <3>1
      <4> QED BY <1>3, <1>4, <4>1 DEF Char
    <3>2. CASE i # 1
      <4>1. i \in 2 .. Len(q) /\ i - 1 \in DOMAIN q
        BY <1>0, <3>2
      <4>2. q[i - 1] # q[i]
        BY <1>3, <1>4, <4>1 DEF Single
      <4> QED BY <4>1, <4>2 DEF Char
    <3> QED BY <3>1, <3>2
  <2> QED BY <1>1, <1>4, <2>1 DEF Names, Replaces
<1>5. scanner = "named" => (i \in Names(q) <=> Replaces(scanner, q, i))
  BY <1>4 DEF Names, Replaces
<1> QED BY <1>2, <1>3, <1>5 DEF Placeholders

\* The scan of a text from i on, as it should be.
Word(q, k) == SubSeq(q, k + 1, RunOf(q, k + 1, Part))
Listed(q, i, names) ==
    /\ Len(names) = Cardinality(Left(Names(q), i))
    /\ \A k \in Left(Names(q), i) : names[Cardinality(Within(Names(q), i, k))] = Word(q, k)
Found(q, scanner, i, scan) ==
    /\ scan.count = Cardinality(Left(Placeholders(q, scanner), i))
    /\ scanner # "named" => scan.names = <<>>
    /\ scanner = "named" => Listed(q, i, scan.names)

\* Placeholders are places of the query.
LEMMA PlaceholdersTyped ==
    ASSUME NEW q, Len(q) \in Nat, DOMAIN q = 1 .. Len(q), NEW scanner
    PROVE  Placeholders(q, scanner) \in SUBSET (1 .. Len(q)) /\ Names(q) \in SUBSET (1 .. Len(q))
BY PlacesInCode DEF Placeholders

\* A scan of the rest that is as it should be stays so with one thing more.
LEMMA FoundFrom ==
    ASSUME NEW q, Text(q, MySqlReads(q)), NEW scanner, scanner = "named" => Single(q),
           NEW i \in DOMAIN q, Start(q, MySqlReads(q), i), NEW rest \in Scans,
           Found(q, scanner, MySqlSpan(q, i, scanner) + 1, rest)
    PROVE  Found(q, scanner, i, Scanned(q, i, MySqlSpan(q, i, scanner), scanner, rest))
<1> DEFINE l == MySqlSpan(q, i, scanner)
           S == Placeholders(q, scanner)
           T == Names(q)
           made == Scanned(q, i, l, scanner, rest)
<1>0. /\ q \in Seq(Characters) /\ Len(q) \in Nat /\ DOMAIN q = 1 .. Len(q) /\ i \in 1 .. Len(q)
  BY TextSteps
<1>1. l \in i .. Len(q)
  BY MySqlSpanPassed DEF Passes
<1>a. \A k \in i + 1 .. l : k \notin S
  BY MySqlSpanPassed DEF Passes, Placeholders
<1>b. \A k \in i + 1 .. l : k \notin T
  BY MySqlSpanPassed DEF Passes
<1>n. Len(q) \in Nat /\ i \in 1 .. Len(q)
  BY <1>0
<1>2. S \in SUBSET (1 .. Len(q)) /\ T \in SUBSET (1 .. Len(q))
  BY <1>0, PlaceholdersTyped
<1>c. StepsTo(S, i, l) /\ StepsTo(T, i, l)
  <2> HIDE DEF S, T, l
  <2> QED BY <1>1, <1>2, <1>a, <1>b, <1>n, LeftStep
<1>3. /\ i \in S <=> Replaces(scanner, q, i) \/ q[i] = "?"
      /\ scanner = "named" => (i \in T <=> Replaces(scanner, q, i))
      /\ Replaces(scanner, q, i) => scanner = "named" /\ q[i] # "?"
  BY StartPlace
<1>4. /\ Replaces(scanner, q, i) => made.count = rest.count + 1 /\ made.names = <<SubSeq(q, i + 1, l)>> \o rest.names
      /\ ~Replaces(scanner, q, i) => /\ made.count = rest.count + (IF q[i] = "?" THEN 1 ELSE 0)
                                     /\ made.names = rest.names
  BY DEF Scanned
<1>5. rest.count \in Nat /\ rest.names \in Seq(Seq(Characters))
  BY DEF Scans
<1>6. rest.count = Cardinality(Left(S, l + 1)) /\ (scanner # "named" => rest.names = <<>>)
  BY DEF Found
<1> HIDE DEF made, S, T, l
<1>7. made.count = Cardinality(Left(S, i))
  <2>1. Cardinality(Left(S, i)) = Cardinality(Left(S, l + 1)) + (IF i \in S THEN 1 ELSE 0)
    BY <1>c DEF StepsTo
  <2> QED BY <1>3, <1>4, <1>5, <1>6, <2>1
<1>8. scanner # "named" => made.names = <<>>
  BY <1>3, <1>4, <1>6
<1>9. ASSUME scanner = "named" PROVE Listed(q, i, made.names)
  <2>1. /\ Len(rest.names) = Cardinality(Left(T, l + 1))
        /\ \A k \in Left(T, l + 1) : rest.names[Cardinality(Within(T, l + 1, k))] = Word(q, k)
    BY <1>9 DEF Found, Listed, T, l
  <2>2. /\ Cardinality(Left(T, l + 1)) \in Nat
        /\ Cardinality(Left(T, i)) = Cardinality(Left(T, l + 1)) + (IF i \in T THEN 1 ELSE 0)
        /\ i \in T => Cardinality(Within(T, i, i)) = 1
        /\ \A k \in T : k >= l + 1 =>
              Cardinality(Within(T, i, k)) = Cardinality(Within(T, l + 1, k)) + (IF i \in T THEN 1 ELSE 0)
    BY <1>c DEF StepsTo
  <2>3. \A k \in Left(T, i) : k \in T /\ (k = i \/ k >= l + 1)
    BY <1>n, <1>1, <1>b, <1>2 DEF Left
  <2>4. \A k \in T : k >= l + 1 => Cardinality(Within(T, l + 1, k)) \in 1 .. Cardinality(Left(T, l + 1))
    <3> TAKE k \in T
    <3> HAVE k >= l + 1
    <3>1. k \in Left(T, l + 1) /\ l + 1 \in Nat
      BY <1>0, <1>1 DEF Left
    <3> QED BY <1>0, <1>2, <3>1, WithinBounds
  <2>5. CASE i \in T
    <3> DEFINE w == SubSeq(q, i + 1, l)
    <3>1. Replaces(scanner, q, i) /\ made.names = <<w>> \o rest.names
      BY <1>3, <1>4, <1>9, <2>5
    <3>2. w \in Seq(Characters) /\ w = Word(q, i)
      <4>1. l = RunOf(q, i + 1, Part)
        BY <1>0, <3>1, MySqlSpanIs DEF l
      <4>2. i \in 1 .. Len(q) + 1 /\ i + 1 \in 1 .. Len(q) + 1 /\ l \in (i + 1) - 1 .. Len(q)
        BY <1>0, <1>1
      <4>3. \A k \in i + 1 .. l : q[k] \in Characters
        BY <1>0, <1>1
      <4>4. i + 1 \in Int /\ l \in Int
        BY <1>0, <1>1
      <4> QED BY <4>1, <4>3, <4>4, SubSeqProperties DEF Word
    <3> HIDE DEF w
    <3>3. /\ Len(made.names) = Len(rest.names) + 1
          /\ made.names[1] = w
          /\ \A m \in 1 .. Len(rest.names) : made.names[m + 1] = rest.names[m]
      BY <1>5, <3>1, <3>2, Prefixed
    <3>4. Len(made.names) = Cardinality(Left(T, i))
      BY <2>1, <2>2, <2>5, <3>3
    <3>5. ASSUME NEW k \in Left(T, i) PROVE made.names[Cardinality(Within(T, i, k))] = Word(q, k)
      <4>1. CASE k = i
        BY <2>2, <2>5, <3>2, <3>3, <4>1
      <4>2. CASE k >= l + 1
        <5> DEFINE m == Cardinality(Within(T, l + 1, k))
        <5>1. k \in T /\ k \in Left(T, l + 1)
          BY <2>3, <4>2 DEF Left
        <5>2. m \in 1 .. Len(rest.names)
          BY <2>1, <2>4, <4>2, <5>1
        <5>3. Cardinality(Within(T, i, k)) = m + 1
          BY <2>2, <2>5, <4>2, <5>1
        <5>4. rest.names[m] = Word(q, k)
          BY <2>1, <5>1
        <5> HIDE DEF m
        <5> QED BY <3>3, <5>2, <5>3, <5>4
      <4> QED BY <2>3, <4>1, <4>2
    <3> QED BY <3>4, <3>5 DEF Listed, T
  <2>6. CASE i \notin T
    <3>1. made.names = rest.names
      BY <1>3, <1>4, <1>9, <2>6
    <3>2. Len(made.names) = Cardinality(Left(T, i))
      BY <2>1, <2>2, <2>6, <3>1
    <3>3. ASSUME NEW k \in Left(T, i) PROVE made.names[Cardinality(Within(T, i, k))] = Word(q, k)
      <4>1. k \in T /\ k >= l + 1 /\ k \in Left(T, l + 1)
        BY <2>3, <2>6 DEF Left
      <4>2. Cardinality(Within(T, l + 1, k)) \in Nat
        BY <2>2, <2>4, <4>1
      <4>3. Cardinality(Within(T, i, k)) = Cardinality(Within(T, l + 1, k))
        BY <2>2, <2>6, <4>1, <4>2
      <4> QED BY <2>1, <3>1, <4>1, <4>3
    <3> QED BY <3>2, <3>3 DEF Listed, T
  <2> QED BY <2>5, <2>6
<1>10. Found(q, scanner, i, made)
  BY <1>7, <1>8, <1>9 DEF Found, S
<1> QED BY <1>10 DEF made, l

\* scanSql() finds the placeholders of a text.
LEMMA ScanFinds ==
    ASSUME NEW q, Text(q, MySqlReads(q)), NEW scanner, scanner = "named" => Single(q)
    PROVE  ScanSql(q, scanner) \in Scans /\ Found(q, scanner, 1, ScanSql(q, scanner))
<1> DEFINE N == Len(q) + 1
<1>0. q \in Seq(Characters) /\ Len(q) \in Nat /\ DOMAIN q = 1 .. Len(q) /\ MySqlReads(q)[1] = Reading("code")
  BY TextSteps
<1>1. PICK from : Scanning(q, scanner, from)
  BY <1>0, ScanSqlDef
<1>s. /\ ScanSql(q, scanner) = from[1]
      /\ from[N] = [sql |-> <<>>, names |-> <<>>, count |-> 0]
      /\ \A i \in 1 .. N : from[i] \in Scans
      /\ \A i \in 1 .. Len(q) : from[i] = Scanned(q, i, MySqlSpan(q, i, scanner), scanner,
                                                   from[MySqlSpan(q, i, scanner) + 1])
  BY <1>1 DEF Scanning
<1> DEFINE Good == {i \in 1 .. N : Start(q, MySqlReads(q), i) => Found(q, scanner, i, from[i])}
<1>2. ASSUME NEW i \in 1 .. N, \A k \in i + 1 .. N : k \in Good PROVE i \in Good
  <2> SUFFICES ASSUME Start(q, MySqlReads(q), i) PROVE Found(q, scanner, i, from[i])
    OBVIOUS
  <2>1. CASE i = N
    <3>1. ASSUME NEW S \in SUBSET (1 .. Len(q)) PROVE Left(S, i) = {}
      <4>1. \A k \in S : ~(k >= i)
        BY <1>0, <2>1
      <4>2. \A k : k \notin Left(S, i)
        BY <4>1 DEF Left
      <4> QED BY <4>2
    <3>2. Left(Placeholders(q, scanner), i) = {} /\ Left(Names(q), i) = {}
      BY <1>0, <3>1, PlaceholdersTyped
    <3>3. /\ from[i].count = 0 /\ from[i].names = <<>> /\ Len(<<>>) = 0
      BY <1>s, <2>1
    <3> QED BY <3>2, <3>3, FS_EmptySet DEF Found, Listed
  <2>2. CASE i # N
    <3> DEFINE l == MySqlSpan(q, i, scanner)
    <3>1. i \in 1 .. Len(q) /\ i \in DOMAIN q
      BY <1>0, <2>2
    <3>2. l \in i .. Len(q) /\ Start(q, MySqlReads(q), l + 1)
      BY <3>1, MySqlSpanPassed DEF Passes
    <3>3. from[i] = Scanned(q, i, l, scanner, from[l + 1])
      BY <1>s, <3>1
    <3>4. l + 1 \in i + 1 .. N /\ l + 1 \in 1 .. N
      <4> HIDE DEF l
      <4> QED BY <1>0, <3>1, <3>2
    <3>5. Found(q, scanner, l + 1, from[l + 1]) /\ from[l + 1] \in Scans
      BY <1>2, <1>s, <3>2, <3>4
    <3> QED BY <3>1, <3>3, <3>5, FoundFrom
  <2> QED BY <2>1, <2>2
<1> HIDE DEF Good
<1>3. 1 .. N \subseteq Good
  <2>1. N \in Nat
    BY <1>0
  <2> HIDE DEF N
  <2> QED BY <1>2, <2>1, Descending
<1>4. 1 \in 1 .. N /\ 1 - 1 \notin QuestionMarks(q)
  BY <1>0, PlacesInCode
<1>5. Start(q, MySqlReads(q), 1)
  BY <1>0, <1>4 DEF Start
<1> QED BY <1>3, <1>4, <1>5, <1>s DEF Good

-----------------------------------------------------------------------------
(* What scanSql() makes of a query with named placeholders.                *)

\* From a place in a text that looks, as far as the server looks, like a place in
\* another, it goes on alike.
Like(q, i, l, k, T, x) ==
    /\ x \in DOMAIN T /\ T[x] = q[k]
    /\ k + 1 <= l => Char(T, x + 1) = Char(q, k + 1)
    /\ k + 2 <= l => Char(T, x + 2) = Char(q, k + 2)
    /\ k = l /\ l = Len(q) => Char(T, x + 1) = ""
    /\ k + 1 = l /\ l = Len(q) => Char(T, x + 2) = ""
\* What ends a code comment's opening is still one thing.
LEMMA OpeningWithin ==
    ASSUME NEW q, NEW at, Text(q, at), NEW i \in DOMAIN q, at[i] = Reading("code"), NEW l, Over(q, at, i, l)
    PROVE  /\ Char(q, i) = "/" /\ Char(q, i + 1) = "*" => i + 1 <= l /\ (i + 2 <= l \/ l = Len(q))
           /\ Char(q, i) = "-" /\ Char(q, i + 1) = "-" /\ Char(q, i + 2) \in White => i + 2 <= l
<1>0. /\ Len(q) \in Nat /\ DOMAIN q = 1 .. Len(q) /\ i \in 1 .. Len(q) /\ l \in i .. Len(q)
      /\ \A k \in 1 .. Len(q) : at[k + 1] = MySqlStep(q, at[k], k)
  BY TextSteps DEF Over
<1>c. Char(q, i) = q[i] /\ at[i + 1] = MySqlInCode(q, at[i], i)
  BY CodeStep DEF Char
<1>1. ASSUME Char(q, i) = "/", Char(q, i + 1) = "*" PROVE i + 1 <= l /\ (i + 2 <= l \/ l = Len(q))
  <2>1. i + 1 \in DOMAIN q
    BY <1>1 DEF Char
  <2>2. q[i] \notin Quotes /\ Comments(q, i, {"!"})
    <3>1. Next2(q, i) = <<"/", "*">> /\ InCode(at, i)
      BY <1>1, Pairs DEF InCode, Reading, State
    <3>2. Comments(q, i, {"!", "+"})
      BY <3>1 DEF Text
    <3> QED BY <1>1, <1>c, <3>2 DEF Quotes, Comments
  <2>3. at[i + 1] = Passing(Reading("block"), 1)
    BY <1>c, <2>2 DEF MySqlInCode
  <2>4. at[i + 1] # Reading("code") /\ at[i + 1].skip = 1 /\ at[i + 1].in = "block"
    BY <2>3 DEF Passing, Reading, State
  <2>5. l # i
    BY <1>0, <2>1, <2>4 DEF Over
  <2>6. at[(i + 1) + 1] # Reading("code")
    <3>1. i + 1 \in 1 .. Len(q)
      BY <1>0, <2>1
    <3>2. at[(i + 1) + 1] = MySqlStep(q, at[i + 1], i + 1)
      BY <1>0, <3>1
    <3>3. at[(i + 1) + 1] = Passing(at[i + 1], at[i + 1].skip - 1)
      BY <2>4, <3>2 DEF MySqlStep
    <3>4. at[(i + 1) + 1].in = "block"
      BY <2>4, <3>3 DEF Passing, State
    <3> QED BY <3>4 DEF Reading, State
  <2>7. l = i + 1 => ~(l < Len(q))
    BY <2>6 DEF Over
  <2>8. Len(q) \in Nat /\ i \in 1 .. Len(q) /\ l \in i .. Len(q)
    BY <1>0
  <2> QED BY <2>5, <2>7, <2>8
<1>2. ASSUME Char(q, i) = "-", Char(q, i + 1) = "-", Char(q, i + 2) \in White PROVE i + 2 <= l
  <2>1. i + 1 \in DOMAIN q /\ i + 2 \in DOMAIN q /\ q[i + 1] = "-"
    BY <1>2 DEF Char, White
  <2>2. q[i] \notin Quotes /\ q[i] # "#" /\ ~Comments(q, i, {"!"}) /\ Next2(q, i) = <<"-", "-">>
    BY <1>2, <1>c, Pairs DEF Quotes, Comments
  <2>3. at[i + 1] = Reading("line")
    BY <1>2, <1>c, <2>2 DEF MySqlInCode
  <2>4. at[i + 2] = Reading("line")
    <3>1. at[i + 1].in = "line" /\ at[i + 1].skip = 0
      BY <2>3 DEF Reading, State
    <3>2. i + 1 \in 1 .. Len(q) /\ (i + 1) + 1 = i + 2
      BY <1>0, <2>1
    <3>3. at[i + 2] = MySqlStep(q, at[i + 1], i + 1)
      BY <1>0, <3>2
    <3>4. at[i + 2] = InLine(q, at[i + 1], i + 1)
      BY <3>1, <3>3 DEF MySqlStep, Quotes
    <3> QED BY <2>1, <2>3, <3>4 DEF InLine
  <2>5. Reading("line") # Reading("code")
    BY DEF Reading, State
  <2>6. l # i /\ l # i + 1
    <3>1. l = i => l < Len(q)
      BY <1>0, <2>1
    <3>2. l = i + 1 => l < Len(q) /\ l + 1 = i + 2
      BY <1>0, <2>1
    <3> QED BY <2>3, <2>4, <2>5, <3>1, <3>2 DEF Over
  <2> QED BY <1>0, <2>6
<1> QED BY <1>1, <1>2

\* In another text where the same characters stand, a comment is opened as it was.
LEMMA OpeningKept ==
    ASSUME NEW q, NEW at, Text(q, at), NEW i \in DOMAIN q, at[i] = Reading("code"), NEW l, Over(q, at, i, l),
           Char(q, i) = "/" /\ Char(q, i + 1) = "*",
           NEW T, NEW x, Like(q, i, l, i, T, x)
    PROVE  Comments(q, i, {"!", "+"}) /\ Comments(T, x, {"!", "+"})
<1>0. Len(q) \in Nat /\ DOMAIN q = 1 .. Len(q) /\ i \in 1 .. Len(q) /\ l \in i .. Len(q)
  BY TextSteps DEF Over
<1>1. Comments(q, i, {"!", "+"})
  <2>1. Next2(q, i) = <<"/", "*">> /\ InCode(at, i)
    BY Pairs DEF InCode, Reading, State
  <2> QED BY <2>1 DEF Text
<1>2. i + 1 <= l /\ (i + 2 <= l \/ l = Len(q))
  BY OpeningWithin
<1>3. Char(T, x) = "/" /\ Char(T, x + 1) = "*"
  BY <1>2 DEF Like, Char
<1>4. Char(T, x + 2) = Char(q, i + 2) \/ Char(T, x + 2) = ""
  <2>0. i \in Nat /\ l \in Nat
    BY <1>0
  <2>1. i + 2 <= l \/ (i + 1 = l /\ l = Len(q))
    BY <1>2, <2>0
  <2> QED BY <2>1 DEF Like
<1>5. Next2(T, x) = <<"/", "*">>
  BY <1>3, Pairs
<1> QED BY <1>1, <1>4, <1>5 DEF Comments

\* In another text where the same characters stand, the server reads a thing as
\* it did.
LEMMA SpanStep ==
    ASSUME NEW q, NEW at, Text(q, at), NEW i \in DOMAIN q, at[i] = Reading("code"), NEW l, Over(q, at, i, l),
           NEW k \in i .. l, k > i \/ ~Plain(q, i),
           NEW T, NEW x, Like(q, i, l, k, T, x)
    PROVE  MySqlStep(T, at[k], x) = at[k + 1]
<1>0. /\ Len(q) \in Nat /\ DOMAIN q = 1 .. Len(q) /\ i \in 1 .. Len(q) /\ l \in i .. Len(q)
      /\ \A m \in 1 .. Len(q) : at[m + 1] = MySqlStep(q, at[m], m)
      /\ \A m \in 1 .. Len(q) : at[m] \in MySqlStates
  BY TextSteps DEF Over, Text, MySqlFrom
<1>1. k \in 1 .. Len(q) /\ k \in DOMAIN q
  BY <1>0
<1>2. at[k + 1] = MySqlStep(q, at[k], k) /\ at[k] \in MySqlStates
  BY <1>0, <1>1
<1>3. at[k].skip \in {0, 1} /\ at[k].in \in {"code", "line", "#", "block"} \cup Quotes
  BY <1>2 DEF MySqlStates
<1>4. T[x] = q[k] /\ Char(T, x) = q[k] /\ Char(q, k) = q[k]
  BY <1>1 DEF Like, Char
<1>5. CASE at[k].skip > 0
  BY <1>2, <1>5 DEF MySqlStep
<1>6. CASE at[k].skip = 0 /\ at[k].in \in {"line", "#"}
  BY <1>2, <1>4, <1>6 DEF MySqlStep, InLine, Quotes
<1>7. CASE at[k].skip = 0 /\ at[k].in \in Quotes
  BY <1>2, <1>4, <1>7 DEF MySqlStep, MySqlInQuotes, Quotes
<1>8. CASE at[k].skip = 0 /\ at[k].in = "block"
  <2>1. /\ at[k + 1] = MySqlInBlock(q, at[k], k)
        /\ MySqlStep(T, at[k], x) = MySqlInBlock(T, at[k], x)
    BY <1>2, <1>8 DEF MySqlStep, Quotes
  <2>2. Char(T, x + 1) = Char(q, k + 1)
    <3>1. CASE k + 1 <= l
      BY <3>1 DEF Like
    <3>2. CASE ~(k + 1 <= l)
      <4>1. k = l
        BY <1>0, <3>2
      <4>2. at[k + 1] # Reading("code")
        BY <1>8, <2>1 DEF MySqlInBlock, Passing, Reading, State
      <4>3. l = Len(q)
        <5>1. l < Len(q) => at[l + 1] = Reading("code")
          BY DEF Over
        <5>2. ~(l < Len(q))
          BY <4>1, <4>2, <5>1
        <5>3. Len(q) \in Nat /\ l \in i .. Len(q) /\ i \in 1 .. Len(q)
          BY <1>0
        <5> QED BY <5>2, <5>3
      <4>4. k + 1 \notin DOMAIN q
        BY <1>0, <4>1, <4>3
      <4> QED BY <4>1, <4>3, <4>4 DEF Like, Char
    <3> QED BY <3>1, <3>2
  <2> QED BY <1>4, <2>1, <2>2, Pairs DEF MySqlInBlock
<1>9. CASE at[k].skip = 0 /\ at[k].in = "code"
  <2>1. /\ at[k + 1] = MySqlInCode(q, at[k], k)
        /\ MySqlStep(T, at[k], x) = MySqlInCode(T, at[k], x)
    BY <1>2, <1>9 DEF MySqlStep, Quotes
  <2>2. CASE q[k] \in Quotes
    BY <1>4, <2>1, <2>2 DEF MySqlInCode
  <2>3. CASE q[k] \notin Quotes
    <3>1. k = i /\ ~Plain(q, i)
      <4>1. ~(k \in i + 1 .. l)
        BY <1>9, <2>3 DEF Over, InCode
      <4>2. ~(k > i)
        BY <1>0, <1>1, <4>1
      <4> QED BY <1>0, <1>1, <4>2
    <3>2. CASE q[i] = "#"
      <4>1. ~Comments(q, k, {"!"}) /\ ~Comments(T, x, {"!"})
        BY <1>4, <3>1, <3>2, Pairs DEF Comments
      <4> QED BY <1>4, <2>1, <3>1, <3>2, <4>1 DEF MySqlInCode
    <3>3. CASE Char(q, i) = "/" /\ Char(q, i + 1) = "*"
      <4>1. Comments(q, k, {"!", "+"}) /\ Comments(T, x, {"!", "+"})
        BY <1>9, <3>1, <3>3, OpeningKept DEF InCode
      <4>2. Comments(q, k, {"!"}) /\ Comments(T, x, {"!"})
        BY <4>1 DEF Comments
      <4> QED BY <1>4, <2>1, <2>3, <4>2 DEF MySqlInCode
    <3>4. CASE Char(q, i) = "-" /\ Char(q, i + 1) = "-" /\ Char(q, i + 2) \in White
      <4>1. i + 2 <= l
        BY <3>4, OpeningWithin
      <4>2. i + 1 <= l
        BY <1>0, <4>1
      <4>3. Char(T, x + 1) = Char(q, k + 1) /\ Char(T, x + 2) = Char(q, k + 2)
        BY <3>1, <4>1, <4>2 DEF Like
      <4>4. /\ Next2(q, k) = <<"-", "-">> /\ Next2(T, x) = <<"-", "-">>
            /\ ~Comments(q, k, {"!"}) /\ ~Comments(T, x, {"!"}) /\ q[k] # "#"
        BY <1>4, <3>1, <3>4, <4>3, Pairs DEF Comments
      <4> QED BY <1>4, <2>1, <2>3, <3>1, <3>4, <4>3, <4>4 DEF MySqlInCode
    <3> QED BY <2>3, <3>1, <3>2, <3>3, <3>4 DEF Plain
  <2> QED BY <2>2, <2>3
<1> QED BY <1>3, <1>5, <1>6, <1>7, <1>8, <1>9

\* Nothing starts here for the server.
LEMMA PlainStep ==
    ASSUME NEW T, NEW x \in DOMAIN T, Plain(T, x)
    PROVE  MySqlStep(T, Reading("code"), x) = Reading("code")
<1>0. Char(T, x) = T[x]
  BY DEF Char
<1>1. Reading("code").in = "code" /\ Reading("code").skip = 0
  BY DEF Reading, State
<1>2. MySqlStep(T, Reading("code"), x) = MySqlInCode(T, Reading("code"), x)
  BY <1>1 DEF MySqlStep, Quotes
<1>3. ~Comments(T, x, {"!"}) /\ ~(Next2(T, x) = <<"-", "-">> /\ Char(T, x + 2) \in White)
  BY Pairs DEF Plain, Comments
<1> QED BY <1>2, <1>3 DEF Plain, MySqlInCode

\* What mysql2 would take for something else than the server does does not come up.
Agreed(reader, T, s, k) ==
    /\ s.in = "code" /\ s.skip = 0 /\ Next2(T, k) = <<"/", "*">> => Comments(T, k, {"!", "+"})
    /\ reader = "mysql2" /\ s.in \in {"double", "#"} => ~Known(T, k)

\* Nor where the same characters stand.
LEMMA AgreedKept ==
    ASSUME NEW q, NEW at, Text(q, at), NEW i \in DOMAIN q, at[i] = Reading("code"), NEW l, Over(q, at, i, l),
           NEW k \in i .. l, k > i \/ ~Plain(q, i),
           NEW T, NEW x, Like(q, i, l, k, T, x), NEW reader, Agreed(reader, q, at[k], k)
    PROVE  Agreed(reader, T, at[k], x)
<1>0. /\ Len(q) \in Nat /\ DOMAIN q = 1 .. Len(q) /\ i \in 1 .. Len(q) /\ l \in i .. Len(q)
      /\ k \in 1 .. Len(q) /\ k \in DOMAIN q
      /\ \A m \in 1 .. Len(q) : at[m + 1] = MySqlStep(q, at[m], m)
  BY TextSteps DEF Over
<1>1. T[x] = q[k] /\ Char(T, x) = q[k] /\ Char(q, k) = q[k]
  BY <1>0 DEF Like, Char
<1>2. ASSUME at[k].in = "code", at[k].skip = 0, Next2(T, x) = <<"/", "*">> PROVE Comments(T, x, {"!", "+"})
  <2>1. q[k] = "/"
    BY <1>1, <1>2, Pairs
  <2>2. k = i /\ ~Plain(q, i)
    <3>1. ~(k \in i + 1 .. l)
      BY <1>2, <2>1 DEF Over, InCode, Quotes
    <3>2. ~(k > i)
      BY <1>0, <3>1
    <3> QED BY <1>0, <3>2
  <2>3. Char(q, i) = "/" /\ Char(q, i + 1) = "*"
    BY <1>1, <2>1, <2>2 DEF Plain, Quotes
  <2> QED BY <2>2, <2>3, OpeningKept
<1>3. ASSUME reader = "mysql2", at[k].in \in {"double", "#"} PROVE ~Known(T, x)
  <2>1. q[k] \notin {"'", "tick", "?"} /\ Next2(q, k) \notin {<<"-", "-">>, <<"/", "*">>}
    BY <1>3 DEF Agreed, Known
  <2>2. CASE k # l
    <3>1. k + 1 <= l
      BY <1>0, <2>2
    <3>2. Next2(T, x) = Next2(q, k)
      BY <1>1, <3>1 DEF Like, Next2
    <3> QED BY <1>1, <2>1, <3>2 DEF Known
  <2>3. CASE k = l /\ l = Len(q)
    <3>1. Char(T, x + 1) = ""
      BY <2>3 DEF Like
    <3>2. Next2(T, x) \notin {<<"-", "-">>, <<"/", "*">>}
      BY <3>1, Pairs
    <3> QED BY <1>1, <2>1, <3>2 DEF Known
  <2>4. CASE k = l /\ l < Len(q)
    <3>1. MySqlStep(q, at[k], k) = Reading("code")
      BY <1>0, <2>4 DEF Over
    <3>2. ASSUME at[k].skip > 0 PROVE FALSE
      <4>1. Passing(at[k], at[k].skip - 1) = Reading("code")
        BY <3>1, <3>2 DEF MySqlStep
      <4> QED BY <1>3, <4>1 DEF Passing, Reading, State
    <3>3. at[k].skip = 0
      <4>1. at[k].skip \in {0, 1}
        BY <1>0 DEF Text, MySqlFrom, MySqlStates
      <4> QED BY <3>2, <4>1
    <3>4. q[k] \in {"double", "\n"}
      <4>1. CASE at[k].in = "double"
        <5>1. MySqlInQuotes(q, at[k], k) = Reading("code")
          BY <3>1, <3>3, <4>1 DEF MySqlStep, Quotes
        <5> QED BY <4>1, <5>1 DEF MySqlInQuotes, Passing, Reading, State
      <4>2. CASE at[k].in = "#"
        <5>1. InLine(q, at[k], k) = Reading("code")
          BY <3>1, <3>3, <4>2 DEF MySqlStep, Quotes
        <5> QED BY <4>2, <5>1 DEF InLine, Reading, State
      <4> QED BY <1>3, <4>1, <4>2
    <3>5. Next2(T, x) \notin {<<"-", "-">>, <<"/", "*">>}
      BY <1>1, <3>4, Pairs
    <3> QED BY <1>1, <2>1, <3>5 DEF Known
  <2>5. Len(q) \in Nat /\ l \in i .. Len(q) /\ i \in 1 .. Len(q)
    BY <1>0
  <2>6. l = Len(q) \/ l < Len(q)
    BY <2>5
  <2> QED BY <2>2, <2>3, <2>4, <2>6
<1> QED BY <1>2, <1>3 DEF Agreed

\* The server reads a text in one way.
LEMMA OneReading ==
    ASSUME NEW q, Len(q) \in Nat, NEW a, MySqlFrom(q, a), NEW b, MySqlFrom(q, b)
    PROVE  \A i \in 1 .. Len(q) + 1 : a[i] = b[i]
<1> DEFINE Good == {n \in 0 .. Len(q) : a[n + 1] = b[n + 1]}
<1>1. /\ a[1] = b[1]
      /\ \A i \in 1 .. Len(q) : a[i + 1] = MySqlStep(q, a[i], i) /\ b[i + 1] = MySqlStep(q, b[i], i)
  BY DEF MySqlFrom
<1>2. 0 \in Good
  BY <1>1
<1>3. ASSUME NEW n \in 1 .. Len(q), n - 1 \in Good PROVE n \in Good
  <2>1. a[n] = b[n]
    BY <1>3
  <2> QED BY <1>1, <2>1
<1> HIDE DEF Good
<1>4. 0 .. Len(q) \subseteq Good
  BY <1>2, <1>3, Upwards
<1> TAKE i \in 1 .. Len(q) + 1
<1>5. i - 1 \in Good
  BY <1>4
<1> QED BY <1>5 DEF Good

\* As many places further on.
LEMMA ShiftedCount ==
    ASSUME NEW N \in Nat, NEW M \in SUBSET (1 .. N), NEW d \in Nat
    PROVE  Cardinality({d + m : m \in M}) = Cardinality(M) /\ IsFiniteSet({d + m : m \in M})
<1> DEFINE S == {d + m : m \in M}
           f == [m \in M |-> d + m]
<1>1. IsFiniteSet(M)
  <2>1. IsFiniteSet(1 .. N)
    BY FS_Interval
  <2> QED BY <2>1, FS_Subset
<1>2. f \in Bijection(M, S)
  <2>1. f \in [M -> S]
    OBVIOUS
  <2>2. \A a, b \in M : f[a] = f[b] => a = b
    OBVIOUS
  <2>3. \A s \in S : \E a \in M : f[a] = s
    OBVIOUS
  <2> HIDE DEF f, S
  <2> QED BY <2>1, <2>2, <2>3, Fun_IsBij
<1>3. ExistsBijection(M, S)
  BY <1>2, Fun_ExistsBij
<1> QED BY <1>1, <1>3, FS_Bijection

\* A text with n placeholders, each one question mark, and no name.
Asked(T, r) == {k \in DOMAIN T : T[k] = "?" /\ InCode(r, k)}
Clean(reader, T, r, n) ==
    /\ T \in Seq(Characters) /\ MySqlFrom(T, r)
    /\ \A k \in DOMAIN T : T[k] = "\\" => r[k].in # "tick"
    /\ \A k \in DOMAIN T : InCode(r, k) => ~IsName(T, k)
    /\ \A k \in Asked(T, r) : Char(T, k + 1) # "?"
    /\ \A k \in DOMAIN T : Agreed(reader, T, r[k], k)
    /\ Cardinality(Asked(T, r)) = n

\* Such a text is read as MySqlReads() says, and its placeholders are those.
LEMMA CleanText ==
    ASSUME NEW reader, NEW T, NEW r, NEW n, Clean(reader, T, r, n)
    PROVE  /\ Text(T, MySqlReads(T)) /\ Names(T) = {}
           /\ Cardinality(QuestionMarks(T)) = n
           /\ \A k \in QuestionMarks(T) : Char(T, k + 1) # "?"
           /\ \A k \in DOMAIN T : Agreed(reader, T, MySqlReads(T)[k], k)
<1> DEFINE at == MySqlReads(T)
<1>0. Len(T) \in Nat /\ DOMAIN T = 1 .. Len(T) /\ T \in Seq(Characters)
  BY DEF Clean
<1>1. MySqlFrom(T, at)
  BY <1>0, MySqlReadsDef
<1>2. \A k \in DOMAIN T : at[k] = r[k]
  <2>1. MySqlFrom(T, r)
    BY DEF Clean
  <2>2. \A k \in 1 .. Len(T) + 1 : at[k] = r[k]
    BY <1>0, <1>1, <2>1, OneReading
  <2> QED BY <1>0, <2>2
<1>3. \A k \in DOMAIN T : InCode(at, k) <=> InCode(r, k)
  BY <1>2 DEF InCode
<1>4. Markers(T) = Asked(T, r)
  BY <1>3 DEF Markers, Asked
<1>5. \A k \in Markers(T) : Char(T, k + 1) # "?"
  BY <1>4 DEF Clean
<1>6. \A k \in DOMAIN T : Agreed(reader, T, at[k], k)
  BY <1>2 DEF Clean
<1>7. Text(T, at)
  <2>1. \A k \in DOMAIN T : InCode(at, k) /\ Next2(T, k) = <<"/", "*">> => Comments(T, k, {"!", "+"})
    BY <1>6 DEF Agreed, InCode
  <2>2. \A k \in DOMAIN T : T[k] = "\\" => at[k].in # "tick"
    BY <1>2 DEF Clean
  <2>3. Paired(T)
    BY <1>5 DEF Paired
  <2> QED BY <1>0, <1>1, <2>1, <2>2, <2>3 DEF Text
<1>8. Names(T) = {}
  <2>1. \A k \in DOMAIN T : InCode(at, k) => ~IsName(T, k)
    BY <1>3 DEF Clean
  <2> QED BY <2>1 DEF Names
<1>9. QuestionMarks(T) = Markers(T)
  <2>1. \A k \in Markers(T) : Char(T, k - 1) # "?"
    <3> SUFFICES ASSUME NEW k \in Markers(T), Char(T, k - 1) = "?" PROVE FALSE
      OBVIOUS
    <3>1. k \in 1 .. Len(T) /\ InCode(at, k) /\ T[k] = "?"
      BY <1>0 DEF Markers
    <3>2. k - 1 \in DOMAIN T /\ T[k - 1] = "?" /\ InCode(at, k - 1)
      BY <1>0, <1>1, <3>1, MarkBefore
    <3>3. k - 1 \in Markers(T) /\ (k - 1) + 1 = k
      BY <3>1, <3>2 DEF Markers
    <3>4. Char(T, (k - 1) + 1) # "?"
      BY <1>5, <3>3
    <3> QED BY <1>0, <3>1, <3>3, <3>4 DEF Char
  <2> QED BY <2>1 DEF QuestionMarks
<1> QED BY <1>4, <1>5, <1>6, <1>7, <1>8, <1>9 DEF Clean

\* A piece that the server reads from code to code, in front of such a text.
Piece(reader, P, u, T) ==
    /\ P \in Seq(Characters) /\ Len(P) # 0
    /\ u[1] = Reading("code")
    /\ T # <<>> => u[Len(P) + 1] = Reading("code")
    /\ \A k \in 1 .. Len(P) + 1 : u[k] \in MySqlStates
    /\ \A k \in 1 .. Len(P) : u[k + 1] = MySqlStep(P \o T, u[k], k)
    /\ \A k \in 1 .. Len(P) : P[k] = "\\" => u[k].in # "tick"
    /\ \A k \in 1 .. Len(P) : InCode(u, k) => ~IsName(P \o T, k)
    /\ P[1] = "?" => Char(P \o T, 2) # "?"
    /\ \A k \in 2 .. Len(P) : InCode(u, k) => P[k] # "?"
    /\ \A k \in 1 .. Len(P) : Agreed(reader, P \o T, u[k], k)

\* The characters of two texts that are joined.
LEMMA JoinChars ==
    ASSUME NEW P \in Seq(Characters), NEW T \in Seq(Characters)
    PROVE  /\ P \o T \in Seq(Characters) /\ Len(P \o T) = Len(P) + Len(T)
           /\ DOMAIN (P \o T) = 1 .. Len(P) + Len(T)
           /\ \A k \in 1 .. Len(P) : (P \o T)[k] = P[k]
           /\ \A k \in 1 .. Len(T) : (P \o T)[Len(P) + k] = T[k]
           /\ \A k \in Nat \ {0} : Char(P \o T, Len(P) + k) = Char(T, k)
<1> DEFINE s == P \o T
<1>0. Len(P) \in Nat /\ Len(T) \in Nat /\ DOMAIN T = 1 .. Len(T)
  OBVIOUS
<1>1. s \in Seq(Characters) /\ Len(s) = Len(P) + Len(T)
  BY ConcatProperties
<1>2. \A k \in 1 .. Len(P) + Len(T) : s[k] = IF k <= Len(P) THEN P[k] ELSE T[k - Len(P)]
  BY ConcatProperties
<1> HIDE DEF s
<1>3. DOMAIN s = 1 .. Len(P) + Len(T)
  BY <1>1
<1>4. \A k \in 1 .. Len(P) : s[k] = P[k]
  BY <1>0, <1>2
<1>5. ASSUME NEW k \in 1 .. Len(T) PROVE s[Len(P) + k] = T[k]
  <2>1. Len(P) + k \in 1 .. Len(P) + Len(T) /\ ~(Len(P) + k <= Len(P)) /\ (Len(P) + k) - Len(P) = k
    BY <1>0
  <2> QED BY <1>2, <2>1
<1>6. ASSUME NEW k \in Nat \ {0} PROVE Char(s, Len(P) + k) = Char(T, k)
  <2>1. Len(P) + k \in DOMAIN s <=> k \in DOMAIN T
    BY <1>0, <1>3
  <2> QED BY <1>0, <1>5, <2>1 DEF Char
<1> QED BY <1>1, <1>3, <1>4, <1>5, <1>6 DEF s

\* The server's step depends on three characters.
LEMMA SameStep ==
    ASSUME NEW S, NEW x \in DOMAIN S, NEW T, NEW y \in DOMAIN T, S[x] = T[y],
           Char(S, x + 1) = Char(T, y + 1), Char(S, x + 2) = Char(T, y + 2), NEW s \in MySqlStates
    PROVE  MySqlStep(S, s, x) = MySqlStep(T, s, y)
<1>1. Char(S, x) = S[x] /\ Char(T, y) = T[y]
  BY DEF Char
<1>2. Next2(S, x) = Next2(T, y)
  BY <1>1 DEF Next2
<1>3. s.skip \in {0, 1} /\ s.in \in {"code", "line", "#", "block"} \cup Quotes
  BY DEF MySqlStates
<1>4. /\ MySqlInCode(S, s, x) = MySqlInCode(T, s, y)
      /\ InLine(S, s, x) = InLine(T, s, y)
      /\ MySqlInBlock(S, s, x) = MySqlInBlock(T, s, y)
      /\ MySqlInQuotes(S, s, x) = MySqlInQuotes(T, s, y)
  BY <1>2 DEF MySqlInCode, Comments, InLine, MySqlInBlock, MySqlInQuotes
<1>5. CASE s.skip > 0
  BY <1>5 DEF MySqlStep
<1>6. CASE s.skip = 0
  BY <1>3, <1>4, <1>6 DEF MySqlStep, Quotes
<1> QED BY <1>3, <1>5, <1>6

\* So does whether mysql2 agrees.
LEMMA SameAgreed ==
    ASSUME NEW S, NEW x \in DOMAIN S, NEW T, NEW y \in DOMAIN T, S[x] = T[y],
           Char(S, x + 1) = Char(T, y + 1), Char(S, x + 2) = Char(T, y + 2), NEW s, NEW reader
    PROVE  Agreed(reader, S, s, x) <=> Agreed(reader, T, s, y)
<1>1. Next2(S, x) = Next2(T, y)
  BY DEF Next2, Char
<1> QED BY <1>1 DEF Agreed, Comments, Known

\* A piece in front of a clean text makes a clean text.
LEMMA Join ==
    ASSUME NEW reader, NEW P, NEW u, NEW T, Piece(reader, P, u, T), NEW r, NEW n \in Nat, Clean(reader, T, r, n)
    PROVE  \E both : Clean(reader, P \o T, both, n + (IF P[1] = "?" THEN 1 ELSE 0))
<1> DEFINE p == Len(P)
           t == Len(T)
           s == P \o T
           both == [k \in 1 .. p + t + 1 |-> IF k <= p + 1 THEN u[k] ELSE r[k - p]]
<1>0. /\ P \in Seq(Characters) /\ T \in Seq(Characters) /\ p \in Nat \ {0} /\ t \in Nat
      /\ DOMAIN P = 1 .. p /\ DOMAIN T = 1 .. t
  BY DEF Piece, Clean
<1>n. p \in Nat \ {0} /\ t \in Nat
  BY <1>0
<1>1. /\ s \in Seq(Characters) /\ Len(s) = p + t /\ DOMAIN s = 1 .. p + t
      /\ \A k \in 1 .. p : s[k] = P[k]
      /\ \A k \in 1 .. t : s[p + k] = T[k]
      /\ \A k \in Nat \ {0} : Char(s, p + k) = Char(T, k)
  BY <1>0, JoinChars
<1>2. /\ u[1] = Reading("code") /\ (t # 0 => u[p + 1] = Reading("code"))
      /\ \A k \in 1 .. p + 1 : u[k] \in MySqlStates
      /\ \A k \in 1 .. p : u[k + 1] = MySqlStep(s, u[k], k)
      /\ \A k \in 1 .. p : P[k] = "\\" => u[k].in # "tick"
      /\ \A k \in 1 .. p : InCode(u, k) => ~IsName(s, k)
      /\ P[1] = "?" => Char(s, 2) # "?"
      /\ \A k \in 2 .. p : InCode(u, k) => P[k] # "?"
      /\ \A k \in 1 .. p : Agreed(reader, s, u[k], k)
  <2>1. t # 0 => T # <<>>
    OBVIOUS
  <2> QED BY <2>1 DEF Piece
<1>3. /\ r[1] = Reading("code")
      /\ \A k \in 1 .. t : r[k + 1] = MySqlStep(T, r[k], k)
      /\ \A k \in 1 .. t + 1 : r[k] \in MySqlStates
      /\ \A k \in 1 .. t : T[k] = "\\" => r[k].in # "tick"
      /\ \A k \in 1 .. t : InCode(r, k) => ~IsName(T, k)
      /\ \A k \in Asked(T, r) : Char(T, k + 1) # "?"
      /\ \A k \in 1 .. t : Agreed(reader, T, r[k], k)
      /\ Cardinality(Asked(T, r)) = n
  BY <1>0 DEF Clean, MySqlFrom
<1>4. \A k \in 1 .. p + 1 : both[k] = u[k]
  BY <1>n
<1>5. \A m \in 1 .. t + 1 : (m # 1 \/ t # 0) => both[p + m] = r[m]
  <2> TAKE m \in 1 .. t + 1
  <2> HAVE m # 1 \/ t # 0
  <2>1. CASE m = 1
    <3>1. p + m = p + 1 /\ p + 1 \in 1 .. p + 1
      BY <1>n, <2>1
    <3> QED BY <1>2, <1>3, <1>4, <2>1, <3>1
  <2>2. CASE m # 1
    <3>1. p + m \in 1 .. p + t + 1 /\ ~(p + m <= p + 1) /\ (p + m) - p = m
      BY <1>n, <2>2
    <3> QED BY <3>1
  <2> QED BY <2>1, <2>2
<1>6. \A k \in 1 .. p + t : k \in 1 .. p \/ (k - p \in 1 .. t /\ p + (k - p) = k /\ t # 0)
  BY <1>n
<1> HIDE DEF both, s, p, t
<1>7. \A m \in 1 .. t : both[p + m] = r[m] /\ both[p + m + 1] = r[m + 1]
  <2> TAKE m \in 1 .. t
  <2>1. m \in 1 .. t + 1 /\ m + 1 \in 1 .. t + 1 /\ t # 0 /\ p + m + 1 = p + (m + 1)
    BY <1>n
  <2> QED BY <1>5, <2>1
<1>8. ASSUME NEW k \in 1 .. p + t PROVE both[k + 1] = MySqlStep(s, both[k], k)
  <2>1. CASE k \in 1 .. p
    <3>1. k \in 1 .. p + 1 /\ k + 1 \in 1 .. p + 1
      BY <1>n, <2>1
    <3> QED BY <1>2, <1>4, <2>1, <3>1
  <2>2. ASSUME NEW m \in 1 .. t, p + m = k PROVE both[k + 1] = MySqlStep(s, both[k], k)
    <3>1. both[k] = r[m] /\ both[k + 1] = r[m + 1]
      BY <1>7, <2>2
    <3>2. r[m + 1] = MySqlStep(T, r[m], m) /\ r[m] \in MySqlStates
      <4>1. m \in 1 .. t + 1
        BY <1>n
      <4> QED BY <1>3, <4>1
    <3>3. Char(s, k + 1) = Char(T, m + 1) /\ Char(s, k + 2) = Char(T, m + 2)
      <4>1. k + 1 = p + (m + 1) /\ k + 2 = p + (m + 2) /\ m + 1 \in Nat \ {0} /\ m + 2 \in Nat \ {0}
        BY <1>n, <2>2
      <4> QED BY <1>1, <4>1
    <3>4. s[k] = T[m] /\ k \in DOMAIN s /\ m \in DOMAIN T
      BY <1>0, <1>1, <2>2
    <3>5. MySqlStep(s, r[m], k) = MySqlStep(T, r[m], m)
      BY <3>2, <3>3, <3>4, SameStep
    <3> QED BY <3>1, <3>2, <3>5
  <2> QED BY <1>6, <2>1, <2>2
<1>9. ASSUME NEW k \in 1 .. p + t + 1 PROVE both[k] \in MySqlStates
  <2>1. CASE k \in 1 .. p + 1
    BY <1>2, <1>4, <2>1
  <2>2. CASE k \notin 1 .. p + 1
    <3>1. k - p \in 1 .. t + 1 /\ k - p # 1 /\ p + (k - p) = k
      BY <1>n, <2>2
    <3> QED BY <1>3, <1>5, <3>1
  <2> QED BY <2>1, <2>2
<1>10. MySqlFrom(s, both)
  <2>1. both[1] = Reading("code")
    <3>1. 1 \in 1 .. p + 1
      BY <1>n
    <3> QED BY <1>2, <1>4, <3>1
  <2>2. /\ \A k \in 1 .. Len(s) : both[k + 1] = MySqlStep(s, both[k], k)
        /\ \A k \in 1 .. Len(s) + 1 : both[k] \in MySqlStates
    BY <1>1, <1>8, <1>9
  <2> QED BY <2>1, <2>2 DEF MySqlFrom
<1>11. ASSUME NEW k \in 1 .. p
       PROVE  /\ s[k] = P[k] /\ both[k] = u[k]
              /\ InCode(both, k) <=> InCode(u, k)
  <2>1. k \in 1 .. p + 1
    BY <1>n
  <2> QED BY <1>1, <1>4, <2>1 DEF InCode
<1>12. ASSUME NEW m \in 1 .. t
       PROVE  /\ s[p + m] = T[m] /\ both[p + m] = r[m]
              /\ InCode(both, p + m) <=> InCode(r, m)
              /\ IsName(s, p + m) <=> IsName(T, m)
              /\ Char(s, p + m + 1) = Char(T, m + 1)
  <2>1. s[p + m] = T[m] /\ both[p + m] = r[m]
    BY <1>1, <1>7
  <2>2. Char(s, p + m + 1) = Char(T, m + 1)
    <3>1. p + m + 1 = p + (m + 1) /\ m + 1 \in Nat \ {0}
      BY <1>n
    <3> QED BY <1>1, <3>1
  <2> QED BY <2>1, <2>2 DEF InCode, IsName
<1>13. \A k \in DOMAIN s : s[k] = "\\" => both[k].in # "tick"
  <2> SUFFICES ASSUME NEW k \in 1 .. p + t, s[k] = "\\" PROVE both[k].in # "tick"
    BY <1>1
  <2>1. CASE k \in 1 .. p
    BY <1>2, <1>11, <2>1
  <2>2. ASSUME NEW m \in 1 .. t, p + m = k PROVE both[k].in # "tick"
    BY <1>3, <1>12, <2>2
  <2> QED BY <1>6, <2>1, <2>2
<1>14. \A k \in DOMAIN s : InCode(both, k) => ~IsName(s, k)
  <2> SUFFICES ASSUME NEW k \in 1 .. p + t, InCode(both, k) PROVE ~IsName(s, k)
    BY <1>1
  <2>1. CASE k \in 1 .. p
    BY <1>2, <1>11, <2>1
  <2>2. ASSUME NEW m \in 1 .. t, p + m = k PROVE ~IsName(s, k)
    BY <1>3, <1>12, <2>2
  <2> QED BY <1>6, <2>1, <2>2
<1> DEFINE M == Asked(T, r)
           moved == {p + m : m \in M}
<1>m. \A m : m \in M <=> m \in 1 .. t /\ T[m] = "?" /\ InCode(r, m)
  BY <1>0 DEF Asked
<1>15. \A k : k \in Asked(s, both) <=> (k = 1 /\ P[1] = "?") \/ k \in moved
  <2>1. ASSUME NEW k \in 1 .. p PROVE k \in Asked(s, both) <=> k = 1 /\ P[1] = "?"
    <3>0. k \in 1 .. p + t /\ (k = 1 \/ k \in 2 .. p)
      BY <1>n
    <3>1. k \in DOMAIN s /\ (k = 1 \/ k \in 2 .. p)
      BY <1>1, <3>0
    <3>2. InCode(u, 1)
      BY <1>2 DEF InCode, Reading, State
    <3> QED BY <1>2, <1>11, <3>1, <3>2 DEF Asked
  <2>2. ASSUME NEW m \in 1 .. t PROVE p + m \in Asked(s, both) <=> m \in M
    <3>1. p + m \in DOMAIN s
      BY <1>n, <1>1
    <3> QED BY <1>12, <1>m, <3>1 DEF Asked
  <2>3. \A k \in moved : k \in 1 .. p + t /\ k \notin 1 .. p /\ \E m \in M : k = p + m
    BY <1>n, <1>m
  <2>4. \A k \in Asked(s, both) : k \in 1 .. p + t
    BY <1>1 DEF Asked
  <2>5. 1 \in 1 .. p
    BY <1>n
  <2> TAKE k
  <2> HIDE DEF M
  <2>6. CASE k \in 1 .. p
    BY <2>1, <2>3, <2>6
  <2>7. ASSUME NEW m \in 1 .. t, p + m = k, k \notin 1 .. p
        PROVE  k \in Asked(s, both) <=> (k = 1 /\ P[1] = "?") \/ k \in moved
    <3>1. k \in moved => m \in M
      <4> SUFFICES ASSUME k \in moved PROVE m \in M
        OBVIOUS
      <4>1. PICK j \in M : k = p + j
        BY <2>3
      <4>2. j = m
        BY <1>n, <1>m, <2>7, <4>1
      <4> QED BY <4>1, <4>2
    <3>2. m \in M => k \in moved
      BY <2>7
    <3>3. k # 1
      BY <2>5, <2>7
    <3> HIDE DEF moved
    <3> QED BY <2>2, <2>7, <3>1, <3>2, <3>3
  <2>8. CASE k \notin 1 .. p + t
    <3>1. k # 1
      BY <1>n, <2>8
    <3> QED BY <2>3, <2>4, <2>8, <3>1
  <2> HIDE DEF moved
  <2> QED BY <1>6, <2>6, <2>7, <2>8
<1>16. Cardinality(Asked(s, both)) = n + (IF P[1] = "?" THEN 1 ELSE 0)
  <2>1. Cardinality(moved) = n /\ IsFiniteSet(moved)
    <3>1. M \in SUBSET (1 .. t)
      BY <1>m
    <3> HIDE DEF M
    <3> QED BY <1>n, <1>3, <3>1, ShiftedCount DEF M
  <2>2. 1 \notin moved
    BY <1>n, <1>m
  <2> HIDE DEF moved
  <2>3. CASE P[1] = "?"
    <3>1. Asked(s, both) = moved \cup {1}
      BY <1>15, <2>3
    <3> QED BY <2>1, <2>2, <2>3, <3>1, FS_AddElement
  <2>4. CASE P[1] # "?"
    <3>1. Asked(s, both) = moved
      BY <1>15, <2>4
    <3> QED BY <2>1, <2>4, <3>1
  <2> QED BY <2>3, <2>4
<1>17. \A k \in Asked(s, both) : Char(s, k + 1) # "?"
  <2> SUFFICES ASSUME NEW k \in Asked(s, both) PROVE Char(s, k + 1) # "?"
    OBVIOUS
  <2>1. CASE k = 1 /\ P[1] = "?"
    BY <1>2, <2>1
  <2>2. CASE k \in moved
    <3>1. PICK m \in M : k = p + m
      BY <2>2
    <3>2. m \in 1 .. t
      BY <1>m
    <3> QED BY <1>3, <1>12, <3>1, <3>2
  <2> HIDE DEF moved
  <2> QED BY <1>15, <2>1, <2>2
<1>18. \A k \in DOMAIN s : Agreed(reader, s, both[k], k)
  <2> SUFFICES ASSUME NEW k \in 1 .. p + t PROVE Agreed(reader, s, both[k], k)
    BY <1>1
  <2>1. CASE k \in 1 .. p
    BY <1>2, <1>11, <2>1
  <2>2. ASSUME NEW m \in 1 .. t, p + m = k PROVE Agreed(reader, s, both[k], k)
    <3>1. Char(s, k + 1) = Char(T, m + 1) /\ Char(s, k + 2) = Char(T, m + 2)
      <4>1. k + 1 = p + (m + 1) /\ k + 2 = p + (m + 2) /\ m + 1 \in Nat \ {0} /\ m + 2 \in Nat \ {0}
        BY <1>n, <2>2
      <4> QED BY <1>1, <4>1
    <3>2. s[k] = T[m] /\ k \in DOMAIN s /\ m \in DOMAIN T /\ both[k] = r[m]
      BY <1>0, <1>1, <1>12, <2>2
    <3>3. Agreed(reader, T, r[m], m)
      BY <1>3
    <3> QED BY <3>1, <3>2, <3>3, SameAgreed
  <2> QED BY <1>6, <2>1, <2>2
<1>19. Clean(reader, s, both, n + (IF P[1] = "?" THEN 1 ELSE 0))
  BY <1>1, <1>10, <1>13, <1>14, <1>16, <1>17, <1>18 DEF Clean
<1> QED BY <1>19 DEF s

\* A text whose names can be replaced by question marks.
Replaceable(reader, q) ==
    /\ Text(q, MySqlReads(q)) /\ QuestionMarks(q) = {} /\ Single(q)
    /\ \A i \in Names(q) : Char(q, RunOf(q, i + 1, Part) + 1) \notin Sigils \cup {"?"}
    /\ \A k \in DOMAIN q : Agreed(reader, q, MySqlReads(q)[k], k)
\* What was made of the rest of it begins like the rest, or with a question mark.
Ahead(q, i, S) ==
    /\ i \in Names(q) => Char(S, 1) = "?"
    /\ i \notin Names(q) => Char(S, 1) = Char(q, i)
    /\ i \notin Names(q) => Char(S, 2) = Char(q, i + 1) \/ Char(S, 2) = "?"
Made(reader, q, i, S, r, n) == Clean(reader, S, r, n) /\ Ahead(q, i, S) /\ (i \notin DOMAIN q => S = <<>>)

\* A name is replaced by a question mark.
LEMMA NameReplaced ==
    ASSUME NEW reader, NEW q, Replaceable(reader, q), NEW i \in DOMAIN q, Start(q, MySqlReads(q), i),
           Replaces("named", q, i), NEW T, NEW r, NEW n \in Nat,
           Made(reader, q, MySqlSpan(q, i, "named") + 1, T, r, n)
    PROVE  \E both : Made(reader, q, i, <<"?">> \o T, both, n + 1)
<1> DEFINE l == MySqlSpan(q, i, "named")
           P == <<"?">>
           s == P \o T
           u == [k \in 1 .. 2 |-> Reading("code")]
<1>0. /\ q \in Seq(Characters) /\ Len(q) \in Nat /\ DOMAIN q = 1 .. Len(q) /\ i \in 1 .. Len(q)
      /\ T \in Seq(Characters)
  BY TextSteps DEF Replaceable, Made, Clean
<1>1. i \in Names(q) /\ l = RunOf(q, i + 1, Part)
  BY StartPlace, MySqlSpanIs DEF Replaceable
<1>p. P \in Seq(Characters) /\ Len(P) = 1 /\ P[1] = "?"
  <2> DEFINE x == "?"
  <2>1. x \in Characters
    BY TextsOfCharacters
  <2> HIDE DEF x
  <2>2. <<x>> \in Seq(Characters) /\ Len(<<x>>) = 1 /\ <<x>>[1] = x
    BY <2>1
  <2> QED BY <2>2 DEF x
<1> HIDE DEF P, l
<1>2. /\ s \in Seq(Characters) /\ Len(s) = 1 + Len(T) /\ DOMAIN s = 1 .. 1 + Len(T)
      /\ s[1] = "?" /\ \A k \in Nat \ {0} : Char(s, 1 + k) = Char(T, k)
  <2>1. 1 \in 1 .. Len(P)
    BY <1>p
  <2>2. /\ s \in Seq(Characters) /\ Len(s) = Len(P) + Len(T) /\ DOMAIN s = 1 .. Len(P) + Len(T)
        /\ \A k \in 1 .. Len(P) : s[k] = P[k]
        /\ \A k \in Nat \ {0} : Char(s, Len(P) + k) = Char(T, k)
    BY <1>0, <1>p, JoinChars
  <2> HIDE DEF s
  <2> QED BY <1>p, <2>1, <2>2
<1>3. Char(s, 2) = Char(T, 1) /\ Char(s, 2) # "?"
  <2>1. Char(s, 2) = Char(T, 1)
    <3>1. 2 = 1 + 1 /\ 1 \in Nat \ {0}
      OBVIOUS
    <3> HIDE DEF s
    <3> QED BY <1>2, <3>1
  <2>2. Char(q, l + 1) \notin Sigils \cup {"?"}
    BY <1>1 DEF Replaceable
  <2>3. l + 1 \notin Names(q)
    BY <1>0, <2>2, PlacesInCode DEF Char
  <2>4. Char(T, 1) = Char(q, l + 1)
    BY <2>3 DEF Made, Ahead, l
  <2> QED BY <2>1, <2>2, <2>4
<1>4. 1 \in DOMAIN s /\ Char(s, 1) = "?"
  <2>1. 1 \in DOMAIN s
    BY <1>0, <1>2
  <2> HIDE DEF s
  <2> QED BY <1>2, <2>1 DEF Char
<1>5. MySqlStep(s, Reading("code"), 1) = Reading("code") /\ ~IsName(s, 1)
  <2> HIDE DEF s
  <2>1. Plain(s, 1) /\ ~IsName(s, 1)
    BY <1>2, <1>4 DEF Plain, Quotes, IsName, Sigils
  <2> QED BY <1>4, <2>1, PlainStep
<1>6. Piece(reader, P, u, T)
  <2>1. u[1] = Reading("code") /\ u[2] = Reading("code") /\ u[1 + 1] = Reading("code")
    OBVIOUS
  <2>2. Reading("code") \in MySqlStates
    BY DEF MySqlStates, Reading, State, Quotes
  <2>3. /\ \A k \in 1 .. Len(P) + 1 : u[k] = Reading("code")
        /\ \A k \in 1 .. Len(P) : k = 1
        /\ \A k \in 2 .. Len(P) : FALSE
        /\ u[Len(P) + 1] = Reading("code") /\ Len(P) # 0
    BY <1>p
  <2>4. P[1] # "\\"
    BY <1>p
  <2>5. Agreed(reader, s, Reading("code"), 1)
    <3>1. Next2(s, 1) # <<"/", "*">>
      BY <1>4, Pairs
    <3> QED BY <3>1 DEF Agreed, Reading, State
  <2> HIDE DEF u
  <2> QED BY <1>3, <1>5, <1>p, <2>1, <2>2, <2>3, <2>4, <2>5 DEF Piece, s
<1>7. PICK both : Clean(reader, s, both, n + 1)
  <2>1. PICK both : Clean(reader, s, both, n + (IF P[1] = "?" THEN 1 ELSE 0))
    BY <1>6, Join DEF Made
  <2> HIDE DEF s
  <2>2. Clean(reader, s, both, n + 1)
    BY <1>p, <2>1
  <2> QED BY <2>2
<1>8. Ahead(q, i, s)
  BY <1>1, <1>4 DEF Ahead
<1>9. Made(reader, q, i, s, both, n + 1)
  BY <1>7, <1>8 DEF Made
<1> QED BY <1>9 DEF s, P

\* What is not a name is kept.
LEMMA PieceKept ==
    ASSUME NEW reader, NEW q, Replaceable(reader, q), NEW i \in DOMAIN q, Start(q, MySqlReads(q), i),
           ~Replaces("named", q, i), NEW T, NEW r, NEW n \in Nat,
           Made(reader, q, MySqlSpan(q, i, "named") + 1, T, r, n)
    PROVE  \E both : Made(reader, q, i, SubSeq(q, i, MySqlSpan(q, i, "named")) \o T, both, n)
<1> DEFINE at == MySqlReads(q)
           l == MySqlSpan(q, i, "named")
           p == l - i + 1
           P == SubSeq(q, i, l)
           s == P \o T
           u == [k \in 1 .. p + 1 |-> at[(i - 1) + k]]
<1>0. /\ q \in Seq(Characters) /\ Len(q) \in Nat /\ DOMAIN q = 1 .. Len(q) /\ i \in 1 .. Len(q)
      /\ T \in Seq(Characters) /\ at[i] = Reading("code") /\ Text(q, at)
  BY TextSteps DEF Replaceable, Made, Clean, Start
<1>1. q[i] # "?" /\ i \notin Names(q)
  BY MySqlSpanPassed, StartPlace DEF Replaceable
<1>2. Over(q, at, i, l) /\ (Plain(q, i) => l = i)
  BY <1>1, MySqlSpanPassed DEF Replaceable
<1>3. l \in i .. Len(q)
  BY <1>2 DEF Over
<1>n. Len(q) \in Nat /\ i \in 1 .. Len(q) /\ l \in i .. Len(q)
  BY <1>0, <1>3
<1> HIDE DEF l, at
<1>p. p \in Nat \ {0} /\ (i - 1) + 1 = i /\ (i - 1) + p = l /\ p + 1 \in Nat
  BY <1>n
<1>k. \A k \in 1 .. p : /\ (i - 1) + k \in i .. l /\ (i - 1) + k \in 1 .. Len(q)
                        /\ k # 1 => (i - 1) + k \in i + 1 .. l
                        /\ (i - 1) + (k + 1) = ((i - 1) + k) + 1 /\ (i - 1) + (k + 2) = ((i - 1) + k) + 2
                        /\ ((i - 1) + k) + 1 <= l => k + 1 \in 1 .. p
                        /\ ((i - 1) + k) + 2 <= l => k + 2 \in 1 .. p
                        /\ (i - 1) + k = l => k = p
  <2> TAKE k \in 1 .. p
  <2>0. k \in 1 .. (l - i + 1)
    OBVIOUS
  <2>1. (i - 1) + k \in i .. l /\ (k # 1 => (i - 1) + k \in i + 1 .. l)
    BY <1>n, <2>0
  <2>2. (i - 1) + k \in 1 .. Len(q)
    <3> DEFINE x == (i - 1) + k
    <3>1. x \in i .. l
      BY <2>1
    <3> HIDE DEF x
    <3>2. x \in 1 .. Len(q)
      BY <1>n, <3>1
    <3> QED BY <3>2 DEF x
  <2>3. (i - 1) + (k + 1) = ((i - 1) + k) + 1 /\ (i - 1) + (k + 2) = ((i - 1) + k) + 2
    BY <1>n, <2>0
  <2>4. /\ ((i - 1) + k) + 1 <= l => k + 1 \in 1 .. p
        /\ ((i - 1) + k) + 2 <= l => k + 2 \in 1 .. p
        /\ (i - 1) + k = l => k = p
    BY <1>n, <2>0
  <2> QED BY <2>1, <2>2, <2>3, <2>4
<1>4. P \in Seq(Characters) /\ Len(P) = p /\ \A k \in 1 .. p : P[k] = q[(i - 1) + k]
  <2>1. \A k \in i .. l : q[k] \in Characters
    <3>1. \A k \in i .. l : k \in 1 .. Len(q)
      BY <1>n
    <3> QED BY <1>0, <3>1
  <2>2. i \in Int /\ l \in Int /\ i <= l
    BY <1>n
  <2>3. P \in Seq(Characters) /\ Len(P) = (IF i <= l THEN l - i + 1 ELSE 0) /\ \A k \in 1 .. l - i + 1 : P[k] = q[i + k - 1]
    BY <2>1, <2>2, SubSeqProperties
  <2>4. \A k \in 1 .. p : i + k - 1 = (i - 1) + k
    BY <1>n
  <2> HIDE DEF P
  <2> QED BY <2>2, <2>3, <2>4
<1> HIDE DEF P
<1>u. /\ \A k \in 1 .. p + 1 : u[k] = at[(i - 1) + k]
      /\ \A k \in 1 .. p : u[k] = at[(i - 1) + k] /\ u[k + 1] = at[((i - 1) + k) + 1]
  <2>1. \A k \in 1 .. p + 1 : u[k] = at[(i - 1) + k]
    OBVIOUS
  <2>2. \A k \in 1 .. p : k \in 1 .. p + 1 /\ k + 1 \in 1 .. p + 1
    BY <1>p
  <2> HIDE DEF u, p
  <2> QED BY <1>k, <2>1, <2>2
<1> HIDE DEF p, u
<1>s. /\ s \in Seq(Characters) /\ Len(s) = p + Len(T) /\ DOMAIN s = 1 .. p + Len(T)
      /\ \A k \in 1 .. p : s[k] = q[(i - 1) + k]
      /\ \A k \in Nat \ {0} : Char(s, p + k) = Char(T, k)
  <2>1. /\ s \in Seq(Characters) /\ Len(s) = Len(P) + Len(T) /\ DOMAIN s = 1 .. Len(P) + Len(T)
        /\ \A k \in 1 .. Len(P) : s[k] = P[k]
        /\ \A k \in Nat \ {0} : Char(s, Len(P) + k) = Char(T, k)
    BY <1>0, <1>4, JoinChars
  <2> HIDE DEF s
  <2> QED BY <1>4, <2>1
<1>t. Len(T) \in Nat
  BY <1>0
<1> HIDE DEF s
<1>5. \A k \in 1 .. p : k \in DOMAIN s /\ Char(s, k) = q[(i - 1) + k]
  <2>1. \A k \in 1 .. p : k \in 1 .. p + Len(T)
    BY <1>p, <1>t
  <2> QED BY <1>s, <2>1 DEF Char
<1>6. /\ Ahead(q, l + 1, T)
      /\ l + 1 \notin DOMAIN q => T = <<>>
  BY DEF Made, l
\* What the server sees behind a single character.
<1>7. ASSUME l = i
      PROVE  /\ Char(s, 2) = Char(q, i + 1) \/ Char(s, 2) = "?"
             /\ Char(s, 2) = "-" => Char(s, 3) = Char(q, i + 2) \/ Char(s, 3) = "?"
  <2>0. p = 1
    BY <1>n, <1>7 DEF p
  <2>1. Char(s, 2) = Char(T, 1) /\ Char(s, 3) = Char(T, 2)
    <3>1. 2 = 1 + 1 /\ 3 = 1 + 2 /\ 1 \in Nat \ {0} /\ 2 \in Nat \ {0}
      OBVIOUS
    <3> QED BY <1>s, <2>0, <3>1
  <2>2. (i + 1) + 1 = i + 2
    BY <1>n
  <2> QED BY <1>6, <1>7, <2>1, <2>2 DEF Ahead
<1>8. ASSUME Plain(q, i) PROVE Plain(s, 1)
  <2>1. l = i
    BY <1>2, <1>8 DEF l
  <2>2. 1 \in 1 .. p /\ (i - 1) + 1 = i
    BY <1>p
  <2>3. s[1] = q[i] /\ Char(s, 1) = q[i] /\ Char(q, i) = q[i]
    BY <1>0, <1>5, <1>s, <2>2 DEF Char
  <2>4. 1 + 1 = 2 /\ 1 + 2 = 3
    OBVIOUS
  <2>5. "?" # "*" /\ "?" # "-" /\ "?" \notin White
    BY DEF White
  <2>6. ~(Char(s, 1) = "/" /\ Char(s, 1 + 1) = "*")
    BY <1>7, <1>8, <2>1, <2>3, <2>4, <2>5 DEF Plain
  <2>7. ~(Char(s, 1) = "-" /\ Char(s, 1 + 1) = "-" /\ Char(s, 1 + 2) \in White)
    BY <1>7, <1>8, <2>1, <2>3, <2>4, <2>5 DEF Plain
  <2> QED BY <1>8, <2>3, <2>6, <2>7 DEF Plain
<1>9. ASSUME NEW k \in 1 .. p PROVE u[k + 1] = MySqlStep(s, u[k], k) /\ Agreed(reader, s, u[k], k)
  <2> DEFINE j == (i - 1) + k
  <2>0. u[k] = at[j] /\ u[k + 1] = at[j + 1] /\ j \in i .. l /\ k \in DOMAIN s /\ s[k] = q[j]
    BY <1>5, <1>k, <1>s, <1>u
  <2>1. CASE j > i \/ ~Plain(q, i)
    <3>1. ASSUME j + 1 <= l PROVE Char(s, k + 1) = Char(q, j + 1)
      <4>1. k + 1 \in 1 .. p /\ (i - 1) + (k + 1) = j + 1
        BY <1>k, <3>1
      <4>2. Char(s, k + 1) = q[j + 1] /\ j + 1 \in DOMAIN q
        <5>1. Char(s, k + 1) = q[(i - 1) + (k + 1)] /\ (i - 1) + (k + 1) \in DOMAIN q
          BY <1>0, <1>5, <1>k, <4>1
        <5> HIDE DEF j
        <5> QED BY <4>1, <5>1
      <4> QED BY <4>2 DEF Char
    <3>2. ASSUME j + 2 <= l PROVE Char(s, k + 2) = Char(q, j + 2)
      <4>1. k + 2 \in 1 .. p /\ (i - 1) + (k + 2) = j + 2
        BY <1>k, <3>2
      <4>2. Char(s, k + 2) = q[j + 2] /\ j + 2 \in DOMAIN q
        <5>1. Char(s, k + 2) = q[(i - 1) + (k + 2)] /\ (i - 1) + (k + 2) \in DOMAIN q
          BY <1>0, <1>5, <1>k, <4>1
        <5> HIDE DEF j
        <5> QED BY <4>1, <5>1
      <4> QED BY <4>2 DEF Char
    <3>3. ASSUME j = l, l = Len(q) PROVE Char(s, k + 1) = ""
      <4>1. k = p
        BY <1>k, <3>3
      <4>2. l + 1 \notin DOMAIN q
        BY <1>0, <3>3
      <4>3. T = <<>>
        BY <1>6, <4>2
      <4>4. Char(s, k + 1) = Char(T, 1)
        <5>1. 1 \in Nat \ {0}
          OBVIOUS
        <5> QED BY <1>s, <4>1, <5>1
      <4>5. 1 \notin DOMAIN T
        BY <4>3
      <4> QED BY <4>4, <4>5 DEF Char
    <3>6. ASSUME j + 1 = l, l = Len(q) PROVE Char(s, k + 2) = ""
      <4>1. k + 1 = p
        <5>1. k + 1 \in 1 .. p /\ (i - 1) + (k + 1) = l
          <6>1. j + 1 <= l
            BY <1>n, <3>6
          <6> QED BY <1>k, <3>6, <6>1
        <5> QED BY <1>k, <5>1
      <4>2. l + 1 \notin DOMAIN q
        BY <1>0, <3>6
      <4>3. T = <<>>
        BY <1>6, <4>2
      <4>4. Char(s, k + 2) = Char(T, 1)
        <5>1. 1 \in Nat \ {0} /\ k + 2 = (k + 1) + 1
          OBVIOUS
        <5> QED BY <1>s, <4>1, <5>1
      <4>5. 1 \notin DOMAIN T
        BY <4>3
      <4> QED BY <4>4, <4>5 DEF Char
    <3>4. Like(q, i, l, j, s, k)
      <4> HIDE DEF j
      <4> QED BY <2>0, <3>1, <3>2, <3>3, <3>6 DEF Like
    <3>7. Agreed(reader, q, at[j], j)
      <4>1. j \in DOMAIN q
        BY <1>0, <1>k
      <4> HIDE DEF j
      <4> QED BY <4>1 DEF Replaceable, at
    <3> HIDE DEF j
    <3>5. MySqlStep(s, at[j], k) = at[j + 1]
      BY <1>0, <1>2, <2>0, <2>1, <3>4, SpanStep DEF l
    <3>8. Agreed(reader, s, at[j], k)
      BY <1>0, <1>2, <2>0, <2>1, <3>4, <3>7, AgreedKept DEF l
    <3> QED BY <2>0, <3>5, <3>8
  <2>2. CASE ~(j > i) /\ Plain(q, i)
    <3>1. j = i /\ k = 1
      <4>1. j \in i .. l /\ ~(j > i) /\ i \in Nat /\ l \in Nat
        <5>1. i \in Nat /\ l \in Nat
          BY <1>n
        <5> HIDE DEF j
        <5> QED BY <2>0, <2>2, <5>1, Zenon
      <4>2. j = i
        <5> HIDE DEF j
        <5> QED BY <4>1
      <4>3. (i - 1) + k = i /\ k \in Nat
        BY <1>p, <4>2
      <4> QED BY <4>1, <4>2, <4>3
    <3>2. u[k] = Reading("code") /\ u[k + 1] = Reading("code")
      <4>1. at[i + 1] = Reading("code")
        BY <1>0, <2>2, CodeStep
      <4> HIDE DEF j
      <4> QED BY <1>0, <2>0, <3>1, <4>1
    <3>3. Agreed(reader, s, Reading("code"), 1)
      <4>1. Next2(s, 1) # <<"/", "*">>
        BY <1>8, <2>2, Pairs DEF Plain
      <4> QED BY <4>1 DEF Agreed, Reading, State
    <3> QED BY <1>8, <2>0, <2>2, <3>1, <3>2, <3>3, PlainStep
  <2> QED BY <2>1, <2>2
<1>10. ASSUME NEW k \in 1 .. p, InCode(u, k)
       PROVE  ~IsName(s, k) /\ P[k] # "?"
  <2> DEFINE j == (i - 1) + k
  <2>0. u[k] = at[j] /\ j \in i .. l /\ s[k] = q[j] /\ P[k] = q[j] /\ (k # 1 => j \in i + 1 .. l)
    BY <1>4, <1>k, <1>s, <1>u
  <2>1. CASE k # 1
    <3>1. InCode(at, j)
      BY <1>10, <2>0 DEF InCode
    <3>2. q[j] \in Quotes
      BY <1>2, <2>0, <2>1, <3>1 DEF Over, at, l
    <3> HIDE DEF j
    <3> QED BY <2>0, <3>2 DEF IsName, Quotes, Sigils
  <2>2. CASE k = 1
    <3>1. j = i /\ 1 + 1 = 2
      BY <1>n, <2>2
    <3>2. s[k] = q[i] /\ P[k] = q[i]
      BY <2>0, <3>1
    <3>3. ASSUME IsName(s, k) PROVE FALSE
      <4>1. q[i] \in Sigils /\ Char(s, 2) # q[i] /\ Char(s, 2) \in Part
        BY <2>2, <3>1, <3>2, <3>3 DEF IsName
      <4>2. Plain(q, i)
        <5>1. Char(q, i) = q[i]
          BY <1>0 DEF Char
        <5> QED BY <4>1, <5>1 DEF Plain, Sigils, Quotes
      <4>3. l = i
        BY <1>2, <4>2 DEF l
      <4>4. "?" \notin Part
        BY DEF Part, Letters, Digits
      <4>5. Char(s, 2) = Char(q, i + 1)
        BY <1>7, <4>1, <4>3, <4>4
      <4>6. IsName(q, i)
        BY <4>1, <4>5 DEF IsName
      <4> QED BY <4>6 DEF Replaces
    <3> QED BY <1>1, <3>2, <3>3
  <2> QED BY <2>1, <2>2
<1>11. Piece(reader, P, u, T)
  <2>1. u[1] = Reading("code")
    <3>1. 1 \in 1 .. p + 1 /\ (i - 1) + 1 = i
      BY <1>p
    <3> QED BY <1>0, <1>u, <3>1
  <2>2. ASSUME T # <<>> PROVE u[p + 1] = Reading("code")
    <3>1. l + 1 \in DOMAIN q
      BY <1>6, <2>2
    <3>2. l < Len(q)
      BY <1>0, <1>n, <3>1
    <3>3. at[l + 1] = Reading("code")
      BY <1>2, <3>2 DEF Over, l, at
    <3>4. p + 1 \in 1 .. p + 1 /\ (i - 1) + (p + 1) = l + 1
      <4>1. i \in Int /\ p \in Nat /\ (i - 1) + p = l
        BY <1>p, <1>n
      <4> QED BY <4>1
    <3> QED BY <1>u, <3>3, <3>4
  <2>3. \A k \in 1 .. p + 1 : u[k] \in MySqlStates
    <3>1. \A k \in 1 .. p + 1 : (i - 1) + k \in 1 .. Len(q) + 1
      BY <1>n, <1>p
    <3>2. \A k \in 1 .. Len(q) + 1 : at[k] \in MySqlStates
      BY <1>0 DEF Text, MySqlFrom
    <3> QED BY <1>u, <3>1, <3>2
  <2>4. \A k \in 1 .. p : P[k] = "\\" => u[k].in # "tick"
    <3>1. \A k \in 1 .. Len(q) : q[k] = "\\" => at[k].in # "tick"
      BY <1>0 DEF Text
    <3> TAKE k \in 1 .. p
    <3>2. P[k] = q[(i - 1) + k] /\ u[k] = at[(i - 1) + k] /\ (i - 1) + k \in 1 .. Len(q)
      BY <1>4, <1>k, <1>u
    <3> QED BY <3>1, <3>2
  <2>5. P[1] # "?"
    <3>1. 1 \in 1 .. p
      BY <1>p
    <3>2. InCode(u, 1)
      BY <2>1 DEF InCode, Reading, State
    <3> QED BY <1>10, <3>1, <3>2
  <2>6. \A k \in 2 .. p : InCode(u, k) => P[k] # "?"
    <3>1. \A k \in 2 .. p : k \in 1 .. p
      BY <1>p
    <3> QED BY <1>10, <3>1
  <2>7. p # 0
    BY <1>p
  <2>8. \A k \in 1 .. p : InCode(u, k) => ~IsName(s, k)
    BY <1>10
  <2> QED BY <1>4, <1>9, <2>1, <2>2, <2>3, <2>4, <2>5, <2>6, <2>7, <2>8 DEF Piece, s
<1>12. PICK both : Clean(reader, s, both, n)
  <2>1. PICK both : Clean(reader, s, both, n + (IF P[1] = "?" THEN 1 ELSE 0))
    BY <1>11, Join DEF Made, s
  <2>2. P[1] # "?"
    <3>1. 1 \in 1 .. p /\ (i - 1) + 1 = i
      BY <1>p
    <3> QED BY <1>1, <1>4, <3>1
  <2>3. n + 0 = n
    OBVIOUS
  <2>4. Clean(reader, s, both, n)
    BY <2>1, <2>2, <2>3
  <2> QED BY <2>4
<1>13. Ahead(q, i, s)
  <2>1. Char(s, 1) = Char(q, i)
    <3>1. 1 \in 1 .. p /\ (i - 1) + 1 = i
      BY <1>p
    <3> QED BY <1>0, <1>5, <3>1 DEF Char
  <2>2. CASE l = i
    BY <1>1, <1>7, <2>1, <2>2 DEF Ahead
  <2>3. CASE l # i
    <3>1. 2 \in 1 .. p /\ (i - 1) + 2 = i + 1 /\ i + 1 \in 1 .. Len(q)
      BY <1>n, <2>3 DEF p
    <3>2. Char(s, 2) = q[i + 1]
      BY <1>5, <3>1
    <3>3. Char(s, 2) = Char(q, i + 1)
      BY <1>0, <3>1, <3>2 DEF Char
    <3> QED BY <1>1, <2>1, <3>3 DEF Ahead
  <2> QED BY <2>2, <2>3
<1>14. Made(reader, q, i, s, both, n)
  BY <1>12, <1>13 DEF Made
<1> QED BY <1>14 DEF s, P, l

\* What scanSql() makes of a query with names has a question mark for each of
\* them, and no name: by induction from the query's end.
LEMMA ScanReplaces ==
    ASSUME NEW reader, NEW q, Replaceable(reader, q)
    PROVE  \E r : Clean(reader, ScanSql(q, "named").sql, r, Len(ScanSql(q, "named").names))
<1> DEFINE N == Len(q) + 1
           at == MySqlReads(q)
<1>0. /\ q \in Seq(Characters) /\ Len(q) \in Nat /\ DOMAIN q = 1 .. Len(q)
      /\ at[1] = Reading("code") /\ Text(q, at)
  BY TextSteps DEF Replaceable
<1>1. PICK from : Scanning(q, "named", from)
  BY <1>0, ScanSqlDef
<1>s. /\ ScanSql(q, "named") = from[1]
      /\ from[N] = [sql |-> <<>>, names |-> <<>>, count |-> 0]
      /\ \A i \in 1 .. N : from[i] \in Scans
      /\ \A i \in 1 .. Len(q) : from[i] = Scanned(q, i, MySqlSpan(q, i, "named"), "named",
                                                   from[MySqlSpan(q, i, "named") + 1])
  BY <1>1 DEF Scanning
<1>e. /\ <<>> \in Seq(Characters) /\ Len(<<>>) = 0
      /\ \A k \in Nat : Char(<<>>, k) = ""
  BY DEF Char
<1> DEFINE Good == {i \in 1 .. N : Start(q, at, i) => \E r : Made(reader, q, i, from[i].sql, r, Len(from[i].names))}
<1>2. ASSUME NEW i \in 1 .. N, \A k \in i + 1 .. N : k \in Good PROVE i \in Good
  <2> SUFFICES ASSUME Start(q, at, i) PROVE \E r : Made(reader, q, i, from[i].sql, r, Len(from[i].names))
    OBVIOUS
  <2>1. CASE i = N
    <3> DEFINE T == from[i].sql
               r == [k \in 1 .. 1 |-> Reading("code")]
    <3>1. T = <<>> /\ from[i].names = <<>> /\ Len(from[i].names) = 0
      BY <1>s, <2>1
    <3>2. T \in Seq(Characters) /\ Len(T) = 0 /\ DOMAIN T = 1 .. 0
      BY <3>1
    <3> HIDE DEF T, r
    <3>3. r[1] = Reading("code") /\ Reading("code") \in MySqlStates
      BY DEF MySqlStates, Reading, State, Quotes, r
    <3>4. \A k : k \notin DOMAIN T
      BY <3>2
    <3>5. MySqlFrom(T, r)
      <4>1. /\ \A k \in 1 .. Len(T) : FALSE
            /\ \A k \in 1 .. Len(T) + 1 : k = 1
        BY <3>2
      <4> QED BY <3>3, <4>1 DEF MySqlFrom
    <3>6. Cardinality(Asked(T, r)) = 0
      <4>1. Asked(T, r) = {}
        BY <3>4 DEF Asked
      <4> QED BY <4>1, FS_EmptySet
    <3>7. \A k \in Asked(T, r) : FALSE
      BY <3>4 DEF Asked
    <3>8. Clean(reader, T, r, 0)
      BY <3>2, <3>4, <3>5, <3>6, <3>7 DEF Clean
    <3>9. Ahead(q, i, T)
      <4>1. i \notin DOMAIN q /\ i + 1 \notin DOMAIN q
        BY <1>0, <2>1
      <4>2. i \notin Names(q) /\ Char(q, i) = "" /\ Char(q, i + 1) = ""
        BY <1>0, <4>1, PlacesInCode DEF Char
      <4>3. Char(T, 1) = "" /\ Char(T, 2) = ""
        BY <3>4 DEF Char
      <4> QED BY <4>2, <4>3 DEF Ahead
    <3>10. Made(reader, q, i, T, r, Len(from[i].names))
      BY <3>1, <3>8, <3>9 DEF Made
    <3> QED BY <3>10 DEF T
  <2>2. CASE i # N
    <3> DEFINE l == MySqlSpan(q, i, "named")
               rest == from[l + 1]
               n == Len(rest.names)
    <3>1. i \in 1 .. Len(q) /\ i \in DOMAIN q
      BY <1>0, <2>2
    <3>2. l \in i .. Len(q) /\ Start(q, at, l + 1)
      BY <1>0, <3>1, MySqlSpanPassed DEF Passes
    <3>3. from[i] = Scanned(q, i, l, "named", rest)
      BY <1>s, <3>1
    <3>4. l + 1 \in i + 1 .. N /\ l + 1 \in 1 .. N
      <4> HIDE DEF l
      <4> QED BY <1>0, <3>1, <3>2
    <3>5. rest \in Scans /\ \E r : Made(reader, q, l + 1, rest.sql, r, n)
      BY <1>2, <1>s, <3>2, <3>4
    <3>6. n \in Nat /\ rest.names \in Seq(Seq(Characters)) /\ SubSeq(q, i + 1, l) \in Seq(Characters)
      <4>1. rest.names \in Seq(Seq(Characters))
        BY <3>5 DEF Scans
      <4>2. SubSeq(q, i + 1, l) \in Seq(Characters)
        <5>1. \A k \in i + 1 .. l : q[k] \in Characters
          <6> HIDE DEF l
          <6>1. \A k \in i + 1 .. l : k \in 1 .. Len(q)
            BY <1>0, <3>1, <3>2
          <6> QED BY <1>0, <6>1
        <5>2. i + 1 \in Int /\ l \in Int
          <6> HIDE DEF l
          <6> QED BY <1>0, <3>1, <3>2
        <5> QED BY <5>1, <5>2, SubSeqProperties
      <4> HIDE DEF rest
      <4> QED BY <4>1, <4>2
    <3> PICK r : Made(reader, q, l + 1, rest.sql, r, n)
      BY <3>5
    <3>7. CASE Replaces("named", q, i)
      <4>1. from[i].sql = <<"?">> \o rest.sql /\ from[i].names = <<SubSeq(q, i + 1, l)>> \o rest.names
        BY <3>3, <3>7 DEF Scanned
      <4>2. Len(from[i].names) = n + 1
        <5> DEFINE w == SubSeq(q, i + 1, l)
        <5> HIDE DEF w, rest
        <5>1. Len(<<w>> \o rest.names) = Len(rest.names) + 1
          BY <3>6, Prefixed DEF w
        <5> QED BY <4>1, <5>1 DEF w
      <4>3. \E both : Made(reader, q, i, <<"?">> \o rest.sql, both, n + 1)
        <5> HIDE DEF n, rest
        <5> QED BY <1>0, <3>1, <3>6, <3>7, NameReplaced
      <4> QED BY <4>1, <4>2, <4>3
    <3>8. CASE ~Replaces("named", q, i)
      <4>1. from[i].sql = SubSeq(q, i, l) \o rest.sql /\ from[i].names = rest.names
        <5> DEFINE a == SubSeq(q, i, l) \o rest.sql
                   b == rest.names
                   c == rest.count + (IF q[i] = "?" THEN 1 ELSE 0)
        <5>1. Scanned(q, i, l, "named", rest) = [sql |-> a, names |-> b, count |-> c]
          <6> HIDE DEF l, rest
          <6> QED BY <3>8 DEF Scanned
        <5> HIDE DEF a, b, c
        <5>2. from[i] = [sql |-> a, names |-> b, count |-> c]
          BY <3>3, <5>1
        <5>3. from[i].sql = a /\ from[i].names = b
          BY <5>2
        <5> QED BY <5>3 DEF a, b
      <4>2. \E both : Made(reader, q, i, SubSeq(q, i, l) \o rest.sql, both, n)
        <5> HIDE DEF n, rest
        <5> QED BY <1>0, <3>1, <3>6, <3>8, PieceKept
      <4> QED BY <4>1, <4>2
    <3> QED BY <3>7, <3>8
  <2> QED BY <2>1, <2>2
<1> HIDE DEF Good
<1>3. 1 .. N \subseteq Good
  <2>1. N \in Nat
    BY <1>0
  <2> HIDE DEF N
  <2> QED BY <1>2, <2>1, Descending
<1>4. 1 \in 1 .. N /\ 1 - 1 \notin QuestionMarks(q)
  BY <1>0, PlacesInCode
<1>5. Start(q, at, 1)
  BY <1>0, <1>4 DEF Start
<1>6. \E r : Made(reader, q, 1, from[1].sql, r, Len(from[1].names))
  BY <1>3, <1>4, <1>5 DEF Good
<1> QED BY <1>6, <1>s DEF Made

-----------------------------------------------------------------------------
(* How mysql2 reads a query, and where it puts the values.                 *)

\* Every step of mysql2 leads to a state the server can be in.
LEMMA FormatStepTyped ==
    ASSUME NEW q, NEW s \in MySqlStates, NEW i
    PROVE  FormatStep(q, s, i) \in MySqlStates
<1>1. MySqlStep(q, s, i) \in MySqlStates
  BY MySqlStepTyped
<1>2. \A x \in {"code", "line", "#", "block"} \cup Quotes :
         /\ Reading(x) \in MySqlStates
         /\ Passing(Reading(x), 1) \in MySqlStates
  BY DEF MySqlStates, Reading, Passing, State
<1>3. FormatInCode(q, s, i) \in MySqlStates
  BY <1>2 DEF FormatInCode, Quotes
<1> QED BY <1>1, <1>3 DEF FormatStep

\* It reads a statement to its end.
FormatFrom(q, at) ==
    /\ at[1] = Reading("code")
    /\ \A i \in 1 .. Len(q) : at[i + 1] = FormatStep(q, at[i], i)
    /\ \A i \in 1 .. Len(q) + 1 : at[i] \in MySqlStates

\* It reads a query to its end.
LEMMA FormatReadsDef ==
    ASSUME NEW q, Len(q) \in Nat
    PROVE  FormatFrom(q, FormatReads(q))
<1> DEFINE D == 1 .. Len(q) + 1
           S == MySqlStates
           Body(i, f) == IF i = 1 THEN Reading("code") ELSE FormatStep(q, f[i - 1], i - 1)
           Is(f) == f = [i \in D |-> Body(i, f)]
           at == CHOOSE f : Is(f)
           step == [i \in 1 .. Len(q) |-> [s \in S |-> FormatStep(q, s, i)]]
<1>0. Len(q) \in Nat
  OBVIOUS
<1>1. FormatReads(q) = at
  BY DEF FormatReads
<1>2. Reading("code") \in S
  BY DEF MySqlStates, Reading, State, Quotes
<1>3. \A i \in 1 .. Len(q), s \in S : FormatStep(q, s, i) \in S
  BY FormatStepTyped
<1> HIDE DEF S
<1>4. \E f : Is(f)
  <2>1. step \in [1 .. Len(q) -> [S -> S]]
    BY <1>3
  <2> HIDE DEF step, D
  <2>2. Machine(Len(q), S, Reading("code"), step)
    BY <1>0, <1>2, <2>1 DEF Machine
  <2>3. PICK f : Runs(Len(q), S, Reading("code"), step, f)
    BY <2>2, Automaton
  <2>4. f \in [D -> S] /\ \A i \in D : f[i] = IF i = 1 THEN Reading("code") ELSE step[i - 1][f[i - 1]]
    BY <2>3 DEF Runs, D
  <2>5. ASSUME NEW i \in D, i # 1 PROVE f[i] = FormatStep(q, f[i - 1], i - 1)
    <3>1. i - 1 \in 1 .. Len(q) /\ i - 1 \in D
      BY <1>0, <2>5 DEF D
    <3>2. f[i - 1] \in S
      BY <2>4, <3>1
    <3> QED BY <2>4, <2>5, <3>1, <3>2 DEF step
  <2>6. \A i \in D : f[i] = Body(i, f)
    BY <2>4, <2>5
  <2> HIDE DEF Body
  <2> QED BY <2>4, <2>6
<1>5. Is(at)
  BY <1>4
<1>6. \A i \in D : at[i] = Body(i, at)
  <2> HIDE DEF at, Body, D
  <2> QED BY <1>5
<1> HIDE DEF at
<1>7. at[1] = Reading("code") /\ \A i \in 1 .. Len(q) : at[i + 1] = FormatStep(q, at[i], i)
  <2>1. 1 \in D /\ \A i \in 1 .. Len(q) : i + 1 \in D /\ i + 1 # 1 /\ i + 1 - 1 = i
    BY <1>0
  <2> HIDE DEF D
  <2> QED BY <1>6, <2>1
<1>8. \A i \in 1 .. Len(q) + 1 : at[i] \in S
  <2>1. \A i \in 1 .. Len(q) : at[i] \in S => at[i + 1] \in S
    BY <1>3, <1>7
  <2> QED BY <1>0, <1>2, <1>7, <2>1, Stays
<1>9. FormatFrom(q, at)
  BY <1>7, <1>8 DEF FormatFrom, S
<1> QED BY <1>1, <1>9

\* What mysql2 takes for code is code to the server, or in double quotes or a #
\* comment; but a -- that ends the query starts no comment for the server.
Lockstep(q, s, f, i) ==
    \/ s.in \in {"double", "#"} /\ f = Reading("code")
    \/ s.in \notin {"double", "#"} /\ f = s
    \/ i >= Len(q) /\ Char(q, Len(q)) = "-"

\* Where they agree they go on in lockstep.
LEMMA LockstepGoesOn ==
    ASSUME NEW q, Len(q) \in Nat, DOMAIN q = 1 .. Len(q), NEW i \in 1 .. Len(q),
           NEW s \in MySqlStates, NEW f, Lockstep(q, s, f, i), Agreed("mysql2", q, s, i)
    PROVE  Lockstep(q, MySqlStep(q, s, i), FormatStep(q, f, i), i + 1)
<1>0. /\ s.in \in {"code", "line", "#", "block"} \cup Quotes /\ s.skip \in {0, 1}
      /\ s.in = "code" /\ s.skip = 0 => s = Reading("code")
  BY DEF MySqlStates, Reading, State
<1>1. /\ Reading("code").in = "code" /\ Reading("code").skip = 0
      /\ \A x, n : Passing(x, n).in = x.in
      /\ \A x : Reading(x).in = x
  BY DEF Reading, Passing, State
<1>2. CASE i >= Len(q) /\ Char(q, Len(q)) = "-"
  <2>1. i + 1 >= Len(q)
    BY <1>2
  <2> QED BY <1>2, <2>1 DEF Lockstep
<1>3. CASE s.in \in {"double", "#"} /\ f = Reading("code")
  <2>1. FormatStep(q, f, i) = FormatInCode(q, Reading("code"), i)
    BY <1>1, <1>3 DEF FormatStep
  <2>2. FormatStep(q, f, i) = Reading("code")
    BY <1>3, <2>1 DEF Agreed, Known, FormatInCode, Comments
  <2>3. MySqlStep(q, s, i).in = s.in \/ MySqlStep(q, s, i) = Reading("code")
    <3>1. CASE s.skip > 0
      BY <1>1, <3>1 DEF MySqlStep
    <3>2. CASE s.skip = 0 /\ s.in = "#"
      <4>1. MySqlStep(q, s, i) = InLine(q, s, i)
        BY <3>2 DEF MySqlStep, Quotes
      <4> QED BY <4>1 DEF InLine
    <3>3. CASE s.skip = 0 /\ s.in = "double"
      <4>1. MySqlStep(q, s, i) = MySqlInQuotes(q, s, i)
        BY <3>3 DEF MySqlStep, Quotes
      <4> QED BY <1>1, <4>1 DEF MySqlInQuotes
    <3> QED BY <1>0, <1>3, <3>1, <3>2, <3>3
  <2> QED BY <1>1, <1>3, <2>2, <2>3 DEF Lockstep
<1>4. CASE s.in \notin {"double", "#"} /\ f = s /\ ~(s.in = "code" /\ s.skip = 0)
  <2>1. FormatStep(q, f, i) = MySqlStep(q, s, i)
    BY <1>4 DEF FormatStep
  <2>2. MySqlStep(q, s, i).in \in {s.in, "code"}
    <3>1. CASE s.skip > 0
      BY <1>1, <3>1 DEF MySqlStep
    <3>2. CASE s.skip = 0 /\ s.in = "line"
      <4>1. MySqlStep(q, s, i) = InLine(q, s, i)
        BY <3>2 DEF MySqlStep, Quotes
      <4> QED BY <1>1, <4>1 DEF InLine
    <3>3. CASE s.skip = 0 /\ s.in = "block"
      <4>1. MySqlStep(q, s, i) = MySqlInBlock(q, s, i)
        BY <3>3 DEF MySqlStep, Quotes
      <4> QED BY <1>1, <4>1 DEF MySqlInBlock
    <3>4. CASE s.skip = 0 /\ s.in \in Quotes
      <4>1. MySqlStep(q, s, i) = MySqlInQuotes(q, s, i)
        BY <3>4 DEF MySqlStep, Quotes
      <4> QED BY <1>1, <4>1 DEF MySqlInQuotes
    <3> QED BY <1>0, <1>4, <3>1, <3>2, <3>3, <3>4
  <2>3. MySqlStep(q, s, i).in \notin {"double", "#"}
    BY <1>4, <2>2
  <2> QED BY <2>1, <2>3 DEF Lockstep
<1>5. CASE s = Reading("code") /\ f = s
  <2> DEFINE c == Reading("code")
  <2>1. MySqlStep(q, s, i) = MySqlInCode(q, c, i) /\ FormatStep(q, f, i) = FormatInCode(q, c, i)
    BY <1>1, <1>5 DEF MySqlStep, FormatStep, Quotes
  <2>2. Comments(q, i, {"!"}) <=> Comments(q, i, {"!", "+"})
    <3>1. Next2(q, i) = <<"/", "*">> => Comments(q, i, {"!", "+"})
      BY <1>1, <1>5 DEF Agreed
    <3> QED BY <3>1 DEF Comments
  <2>3. Char(q, i) = q[i]
    BY DEF Char
  <2> HIDE DEF c
  <2>4. CASE q[i] \in {"'", "tick"}
    <3>1. MySqlInCode(q, c, i) = Reading(q[i]) /\ FormatInCode(q, c, i) = Reading(q[i])
      BY <2>4 DEF MySqlInCode, FormatInCode, Quotes
    <3> QED BY <1>1, <2>1, <2>4, <3>1 DEF Lockstep
  <2>5. CASE q[i] \in {"double", "#"}
    <3>1. Next2(q, i) \notin {<<"-", "-">>, <<"/", "*">>}
      BY <2>3, <2>5, Pairs
    <3>2. MySqlInCode(q, c, i) = Reading(q[i]) /\ FormatInCode(q, c, i) = c
      BY <2>5, <3>1 DEF MySqlInCode, FormatInCode, Comments, Quotes
    <3> QED BY <1>1, <2>1, <2>5, <3>2 DEF Lockstep, c
  <2>6. CASE q[i] \notin Quotes \cup {"#"} /\ Comments(q, i, {"!"})
    <3>1. MySqlInCode(q, c, i) = Passing(Reading("block"), 1) /\ FormatInCode(q, c, i) = Passing(Reading("block"), 1)
      BY <2>2, <2>6 DEF MySqlInCode, FormatInCode, Quotes
    <3> QED BY <1>1, <2>1, <3>1 DEF Lockstep
  <2>7. CASE q[i] \notin Quotes \cup {"#"} /\ ~Comments(q, i, {"!"}) /\ Next2(q, i) = <<"-", "-">>
    <3>1. CASE Char(q, i + 2) \in White
      <4>1. MySqlInCode(q, c, i) = Reading("line") /\ FormatInCode(q, c, i) = Reading("line")
        BY <2>2, <2>7, <3>1 DEF MySqlInCode, FormatInCode, Quotes
      <4> QED BY <1>1, <2>1, <4>1 DEF Lockstep
    <3>2. CASE i + 2 \notin DOMAIN q
      <4>1. Char(q, i + 1) = "-"
        BY <2>7, Pairs
      <4>2. i + 1 \in DOMAIN q
        BY <4>1 DEF Char
      <4>n. \A n \in Nat : i + 1 \in 1 .. n /\ i + 2 \notin 1 .. n => i + 1 = n
        OBVIOUS
      <4>3. i + 1 = Len(q)
        BY <3>2, <4>2, <4>n
      <4>4. i + 1 >= Len(q)
        BY <4>3
      <4> QED BY <4>1, <4>3, <4>4 DEF Lockstep
    <3>3. CASE Char(q, i + 2) \notin White /\ i + 2 \in DOMAIN q
      <4>1. MySqlInCode(q, c, i) = c /\ FormatInCode(q, c, i) = c
        BY <2>2, <2>7, <3>3 DEF MySqlInCode, FormatInCode, Quotes
      <4> QED BY <1>1, <2>1, <4>1 DEF Lockstep, c
    <3> QED BY <3>1, <3>2, <3>3
  <2>8. CASE q[i] \notin Quotes \cup {"#"} /\ ~Comments(q, i, {"!"}) /\ Next2(q, i) # <<"-", "-">>
    <3>1. MySqlInCode(q, c, i) = c /\ FormatInCode(q, c, i) = c
      BY <2>2, <2>8 DEF MySqlInCode, FormatInCode, Quotes
    <3> QED BY <1>1, <2>1, <3>1 DEF Lockstep, c
  <2> QED BY <2>4, <2>5, <2>6, <2>7, <2>8 DEF Quotes
<1> QED BY <1>0, <1>2, <1>3, <1>4, <1>5 DEF Lockstep

\* They read a text in lockstep.
LEMMA LockstepToTheEnd ==
    ASSUME NEW q, Text(q, MySqlReads(q)), \A k \in DOMAIN q : Agreed("mysql2", q, MySqlReads(q)[k], k)
    PROVE  \A i \in 1 .. Len(q) + 1 : Lockstep(q, MySqlReads(q)[i], FormatReads(q)[i], i)
<1> DEFINE s == MySqlReads(q)
           f == FormatReads(q)
           Good == {n \in 0 .. Len(q) : Lockstep(q, s[n + 1], f[n + 1], n + 1)}
<1>0. Len(q) \in Nat /\ DOMAIN q = 1 .. Len(q)
  BY TextSteps
<1>1. /\ s[1] = Reading("code") /\ f[1] = Reading("code")
      /\ \A i \in 1 .. Len(q) : s[i + 1] = MySqlStep(q, s[i], i) /\ f[i + 1] = FormatStep(q, f[i], i)
      /\ \A i \in 1 .. Len(q) : s[i] \in MySqlStates
  <2>1. MySqlFrom(q, s) /\ FormatFrom(q, f)
    BY <1>0, MySqlReadsDef, FormatReadsDef
  <2>2. \A i \in 1 .. Len(q) : i \in 1 .. Len(q) + 1
    BY <1>0
  <2> HIDE DEF s, f
  <2> QED BY <2>1, <2>2 DEF MySqlFrom, FormatFrom
<1>2. \A k \in 1 .. Len(q) : Agreed("mysql2", q, s[k], k)
  BY <1>0
<1> HIDE DEF s, f
<1>3. 0 \in Good
  <2>1. Lockstep(q, s[1], f[1], 1)
    BY <1>1 DEF Lockstep, Reading, State
  <2> QED BY <1>0, <2>1
<1>4. ASSUME NEW n \in 1 .. Len(q), n - 1 \in Good PROVE n \in Good
  <2>1. Lockstep(q, s[n], f[n], n)
    <3>1. n - 1 + 1 = n
      BY <1>0
    <3> QED BY <1>4, <3>1
  <2>2. s[n] \in MySqlStates /\ Agreed("mysql2", q, s[n], n)
    BY <1>1, <1>2
  <2>3. Lockstep(q, MySqlStep(q, s[n], n), FormatStep(q, f[n], n), n + 1)
    BY <1>0, <2>1, <2>2, LockstepGoesOn
  <2> QED BY <1>0, <1>1, <2>3
<1> HIDE DEF Good
<1>5. 0 .. Len(q) \subseteq Good
  BY <1>0, <1>3, <1>4, Upwards
<1> TAKE i \in 1 .. Len(q) + 1
<1>6. i - 1 \in Good /\ i - 1 + 1 = i
  BY <1>0, <1>5
<1> QED BY <1>6 DEF Good, s, f

\* mysql2 finds the placeholders of such a text.
LEMMA FillsAll ==
    ASSUME NEW q, Text(q, MySqlReads(q)), \A k \in DOMAIN q : Agreed("mysql2", q, MySqlReads(q)[k], k)
    PROVE  Fillable(q) = QuestionMarks(q)
<1> DEFINE s == MySqlReads(q)
           f == FormatReads(q)
<1>0. Len(q) \in Nat /\ DOMAIN q = 1 .. Len(q) /\ Paired(q)
  BY TextSteps
<1>1. ASSUME NEW i \in DOMAIN q, q[i] = "?"
      PROVE  InCode(f, i) <=> InCode(s, i)
  <2>1. i \in 1 .. Len(q) + 1
    BY <1>0
  <2>2. Lockstep(q, s[i], f[i], i)
    BY <2>1, LockstepToTheEnd
  <2>3. ~(i >= Len(q) /\ Char(q, Len(q)) = "-")
    <3> SUFFICES ASSUME i >= Len(q), Char(q, Len(q)) = "-" PROVE FALSE
      OBVIOUS
    <3>1. i = Len(q)
      BY <1>0
    <3> QED BY <1>1, <3>1 DEF Char
  <2>4. s[i].in \notin {"double", "#"}
    BY <1>1 DEF Agreed, Known
  <2>5. f[i] = s[i]
    BY <2>2, <2>3, <2>4 DEF Lockstep
  <2> QED BY <2>5 DEF InCode
<1>2. ASSUME NEW i \in Markers(q) PROVE ~Spells(q, i, <<"?", "?", "?">>)
  <2> SUFFICES ASSUME Spells(q, i, <<"?", "?", "?">>) PROVE FALSE
    OBVIOUS
  <2>1. i \in 1 .. Len(q)
    BY <1>0 DEF Markers
  <2>2. \A k \in 1 .. 3 : Char(q, i + k - 1) = "?"
    BY DEF Spells
  <2>3. i + 2 - 1 = i + 1 /\ i + 3 - 1 = i + 2 /\ 2 \in 1 .. 3 /\ 3 \in 1 .. 3
    BY <2>1
  <2>4. Char(q, i + 1) = "?" /\ Char(q, i + 2) = "?"
    BY <2>2, <2>3
  <2> QED BY <1>0, <2>4 DEF Paired
<1>3. \A i : i \in Fillable(q) <=> i \in QuestionMarks(q)
  <2> TAKE i
  <2>1. i \in Fillable(q) <=> /\ i \in DOMAIN q /\ q[i] = "?" /\ InCode(f, i)
                              /\ Char(q, i - 1) # "?" /\ ~Spells(q, i, <<"?", "?", "?">>)
    BY DEF Fillable
  <2>2. i \in QuestionMarks(q) <=> i \in Markers(q) /\ Char(q, i - 1) # "?"
    BY DEF QuestionMarks
  <2>3. i \in Markers(q) <=> i \in DOMAIN q /\ q[i] = "?" /\ InCode(s, i)
    BY DEF Markers
  <2> HIDE DEF s, f
  <2> QED BY <1>1, <1>2, <2>1, <2>2, <2>3
<1> QED BY <1>3

\* With a value for each of them none is left.
LEMMA FilledAll ==
    ASSUME NEW q, Len(q) \in Nat, DOMAIN q = 1 .. Len(q), Fillable(q) = QuestionMarks(q),
           NEW values, Len(values) \in Nat, Cardinality(QuestionMarks(q)) <= Len(values)
    PROVE  Filled(q, values) = QuestionMarks(q)
<1> DEFINE S == QuestionMarks(q)
<1>1. IsFiniteSet(S)
  <2>1. IsFiniteSet(1 .. Len(q))
    BY FS_Interval
  <2>2. S \subseteq 1 .. Len(q)
    BY PlacesInCode
  <2> QED BY <2>1, <2>2, FS_Subset
<1>2. Filled(q, values) = {i \in S : Cardinality({j \in S : j <= i}) <= Len(values)}
  BY DEF Filled
<1> HIDE DEF S
<1>3. ASSUME NEW i \in S PROVE Cardinality({j \in S : j <= i}) <= Len(values)
  <2> DEFINE T == {j \in S : j <= i}
  <2>1. T \subseteq S
    OBVIOUS
  <2> HIDE DEF T
  <2>2. Cardinality(T) <= Cardinality(S) /\ IsFiniteSet(T)
    BY <1>1, <2>1, FS_Subset
  <2>3. Cardinality(T) \in Nat /\ Cardinality(S) \in Nat
    BY <1>1, <2>2, FS_CardinalityType
  <2>4. Cardinality(S) <= Len(values)
    BY DEF S
  <2>5. Cardinality(T) <= Len(values)
    BY <2>2, <2>3, <2>4
  <2> QED BY <2>5 DEF T
<1> QED BY <1>2, <1>3 DEF S

\* Without ?? the server of a prepared statement finds them too.
LEMMA ServerSeesAll ==
    ASSUME NEW q, Text(q, MySqlReads(q)), \A i \in QuestionMarks(q) : Char(q, i + 1) # "?"
    PROVE  Markers(q) = QuestionMarks(q)
<1>0. Len(q) \in Nat /\ DOMAIN q = 1 .. Len(q) /\ Paired(q)
  BY TextSteps
<1>1. \A i : i \in QuestionMarks(q) <=> i \in Markers(q) /\ i - 1 \notin QuestionMarks(q)
  BY <1>0, QuestionMarksIs
<1>2. ASSUME NEW i \in Markers(q) PROVE i - 1 \notin QuestionMarks(q)
  <2>1. i \in 1 .. Len(q) /\ Char(q, i) = "?"
    BY <1>0 DEF Markers, Char
  <2>2. i - 1 + 1 = i
    BY <2>1
  <2> QED BY <2>1, <2>2
<1> QED BY <1>1, <1>2
=============================================================================
