-------------------------- MODULE Retrieval_proofs --------------------------
(***************************************************************************)
(* Proofs about the components of module Components that find code and     *)
(* show it to a model, for all values of their constants, and the lemmas   *)
(* on sequences, sums and loops that those of Components_proofs rest on    *)
(* too.  The invariant that carries a component's properties is defined in *)
(* the component's own module.                                             *)
(***************************************************************************)
EXTENDS Components, FiniteSetTheorems, WellFoundedInduction, SequenceTheorems, TLAPS

\* What is in a sequence of things is one of them.
LEMMA Elements == ASSUME NEW S, NEW s \in Seq(S), NEW i \in DOMAIN s PROVE s[i] \in S
<1>1. i \in 1 .. Len(s)
  OBVIOUS
<1> QED
  BY <1>1

\* What is appended is the last, and moves nothing.
LEMMA Appended ==
  ASSUME NEW S, NEW s \in Seq(S), NEW x \in S
  PROVE  /\ Append(s, x) \in Seq(S) /\ Len(s) \in Nat /\ DOMAIN s = 1 .. Len(s)
         /\ Len(Append(s, x)) = Len(s) + 1
         /\ DOMAIN Append(s, x) = 1 .. (Len(s) + 1)
         /\ \A i \in DOMAIN s : Append(s, x)[i] = s[i]
         /\ Append(s, x)[Len(s) + 1] = x
  OBVIOUS

\* A set of numbers that is not empty has a least one.
LEMMA LeastNumber ==
  ASSUME NEW S, S \subseteq Nat, S # {}
  PROVE  \E x \in S : \A y \in S : x <= y
<1> DEFINE less == {pair \in Nat \X Nat : pair[1] < pair[2]}
<1>1. IsWellFoundedOn(less, Nat)
  BY NatLessThanWellFounded DEF OpToRel
<1>2. \A x, y \in Nat : y < x => <<y, x>> \in less
  OBVIOUS
<1> HIDE DEF less
<1>3. PICK x \in S : \A y \in S : ~ (<<y, x>> \in less)
  <2>1. S \subseteq Nat /\ S # {}
    OBVIOUS
  <2> QED
    BY <1>1, <2>1, WFMin, Zenon
<1>4. ASSUME NEW y \in S PROVE x <= y
  <2>1. x \in Nat /\ y \in Nat /\ ~ (<<y, x>> \in less)
    BY <1>3
  <2>2. ~ (y < x)
    BY <1>2, <2>1
  <2> QED
    BY <2>1, <2>2
<1> QED
  BY <1>4

\* And a bounded one has a greatest.
LEMMA GreatestNumber ==
  ASSUME NEW N \in Nat, NEW S, S \subseteq 0 .. N, S # {}
  PROVE  \E x \in S : \A y \in S : y <= x
<1> DEFINE T == {N - x : x \in S}
<1>1. T \subseteq Nat /\ T # {}
  <2>1. \A x \in S : x \in Nat /\ N - x \in Nat
    OBVIOUS
  <2> QED
    BY <2>1
<1>2. PICK z \in T : \A y \in T : z <= y
  BY <1>1, LeastNumber
<1>3. PICK x \in S : z = N - x
  OBVIOUS
<1>4. \A y \in S : N - y \in T
  OBVIOUS
<1>5. ASSUME NEW y \in S PROVE y <= x
  <2>1. z <= N - y
    BY <1>2, <1>4
  <2> QED
    BY <1>3, <2>1
<1> QED
  BY <1>5

\* Induction up to a bound, about the values of a function.
LEMMA StepByStep ==
  ASSUME NEW N \in Nat, NEW f, NEW T, f[0] \in T,
         \A n \in 1 .. N : f[n - 1] \in T => f[n] \in T
  PROVE  \A n \in 0 .. N : f[n] \in T
<1> DEFINE bad == {n \in 0 .. N : f[n] \notin T}
<1> SUFFICES ASSUME bad # {} PROVE FALSE
  OBVIOUS
<1> bad \subseteq Nat
  OBVIOUS
<1>1. PICK n \in bad : \A m \in bad : n <= m
  <2> HIDE DEF bad
  <2> QED
    BY LeastNumber
<1>2. n \in 1 .. N /\ n - 1 \in 0 .. N /\ n - 1 \notin bad
  BY <1>1
<1> QED
  BY <1>2

\* What a loop has computed after each of its turns.
Iterates(g, N, T, b, step) ==
  /\ g \in [0 .. N -> T] /\ g[0] = b
  /\ \A n \in 1 .. N : g[n] = step[<<g[n - 1], n>>]

\* A loop of N turns computes something after each of them, and stays in T if
\* every turn does.
LEMMA LoopsCompute ==
  ASSUME NEW N \in Nat, NEW T, NEW b \in T, NEW step \in [T \X (1 .. N) -> T]
  PROVE  \E g : Iterates(g, N, T, b, step)
<1> DEFINE Done(m) == \E g \in [0 .. m -> T] :
             g[0] = b /\ \A n \in 1 .. m : g[n] = step[<<g[n - 1], n>>]
           bad == {m \in 0 .. N : ~ Done(m)}
<1>1. bad = {}
  <2> SUFFICES ASSUME bad # {} PROVE FALSE
    OBVIOUS
  <2> bad \subseteq Nat
    OBVIOUS
  <2>1. PICK m \in bad : \A k \in bad : m <= k
    <3> HIDE DEF bad
    <3> QED
      BY LeastNumber
  <2>2. m # 0
    <3>1. [i \in 0 .. 0 |-> b] \in [0 .. 0 -> T]
      OBVIOUS
    <3>2. [i \in 0 .. 0 |-> b][0] = b /\ \A n \in 1 .. 0 : FALSE
      OBVIOUS
    <3>3. Done(0)
      BY <3>1, <3>2
    <3> QED
      BY <3>3
  <2>3. m - 1 \in 0 .. N /\ m \in 1 .. N /\ Done(m - 1)
    BY <2>1, <2>2
  <2>4. PICK g \in [0 .. m - 1 -> T] : g[0] = b /\ \A n \in 1 .. m - 1 : g[n] = step[<<g[n - 1], n>>]
    BY <2>3
  <2> DEFINE h == [i \in 0 .. m |-> IF i = m THEN step[<<g[m - 1], m>>] ELSE g[i]]
  <2>5. h \in [0 .. m -> T]
    BY <2>3, <2>4
  <2>6. h[0] = b /\ h[m - 1] = g[m - 1] /\ h[m] = step[<<g[m - 1], m>>]
    BY <2>3, <2>4
  <2>7. ASSUME NEW n \in 1 .. m, n # m PROVE h[n] = step[<<h[n - 1], n>>]
    <3>1. n \in 1 .. m - 1 /\ n \in 0 .. m /\ n - 1 \in 0 .. m /\ n - 1 # m
      BY <2>7
    <3>2. h[n] = g[n] /\ h[n - 1] = g[n - 1]
      BY <2>7, <3>1
    <3> QED
      BY <2>4, <3>1, <3>2
  <2>8. \A n \in 1 .. m : h[n] = step[<<h[n - 1], n>>]
    BY <2>6, <2>7
  <2> QED
    BY <2>5, <2>6, <2>8
<1>2. N \in 0 .. N /\ Done(N)
  BY <1>1
<1> QED
  BY <1>2 DEF Iterates

\* The first elements of a sequence.
LEMMA Prefix ==
  ASSUME NEW S, NEW s \in Seq(S), NEW n \in 0 .. Len(s)
  PROVE  /\ SubSeq(s, 1, n) \in Seq(S) /\ Len(SubSeq(s, 1, n)) = n /\ DOMAIN SubSeq(s, 1, n) = 1 .. n
         /\ \A k \in 1 .. n : SubSeq(s, 1, n)[k] = s[k]
  OBVIOUS

\* And those that come after some.
LEMMA Suffix ==
  ASSUME NEW S, NEW s \in Seq(S), NEW m \in Nat
  PROVE  /\ SubSeq(s, m + 1, Len(s)) \in Seq(S)
         /\ Len(SubSeq(s, m + 1, Len(s))) = IF m + 1 <= Len(s) THEN Len(s) - m ELSE 0
         /\ \A i \in 1 .. Len(s) - m : SubSeq(s, m + 1, Len(s))[i] = s[m + i]
  OBVIOUS

\* A function on the first numbers is a sequence.
LEMMA FunctionIsSeq ==
  ASSUME NEW S, NEW n \in Nat, NEW f \in [1 .. n -> S]
  PROVE  f \in Seq(S) /\ Len(f) = n /\ DOMAIN f = 1 .. n
  OBVIOUS

\* An element that is replaced.
LEMMA Replaced == ASSUME NEW S, NEW s \in Seq(S), NEW i, NEW x \in S PROVE [s EXCEPT ![i] = x] \in Seq(S)
<1> DEFINE t == [s EXCEPT ![i] = x]
<1>1. Len(s) \in Nat /\ DOMAIN s = 1 .. Len(s) /\ \A k \in 1 .. Len(s) : s[k] \in S
  OBVIOUS
<1>2. t = [k \in 1 .. Len(s) |-> IF k = i THEN x ELSE s[k]]
  BY <1>1
<1>3. t \in [1 .. Len(s) -> S]
  BY <1>1, <1>2
<1> HIDE DEF t
<1>4. t \in Seq(S)
  BY <1>1, <1>3, FunctionIsSeq
<1> QED
  BY <1>4 DEF t

\* What is a sequence of some things is one of more.
LEMMA Wider == ASSUME NEW S, NEW T, S \subseteq T, NEW s \in Seq(S) PROVE s \in Seq(T)
  OBVIOUS

\* The sums of the first numbers of a sequence are what their definition says.
LEMMA SumsAdd ==
  ASSUME NEW f \in Seq(Int)
  PROVE  /\ Sums(f) = [n \in 0 .. Len(f) |-> IF n = 0 THEN 0 ELSE Sums(f)[n - 1] + f[n]]
         /\ \A n \in 0 .. Len(f) : Sums(f)[n] \in Int
<1>1. Len(f) \in Nat /\ \A n \in 1 .. Len(f) : f[n] \in Int
  OBVIOUS
<1> DEFINE step == [p \in Int \X (1 .. Len(f)) |-> p[1] + f[p[2]]]
<1>2. step \in [Int \X (1 .. Len(f)) -> Int]
  BY <1>1
<1>3. \A a \in Int, n \in 1 .. Len(f) : step[<<a, n>>] = a + f[n]
  OBVIOUS
<1>4. PICK g \in [0 .. Len(f) -> Int] :
        g[0] = 0 /\ \A n \in 1 .. Len(f) : g[n] = step[<<g[n - 1], n>>]
  <2>1. Len(f) \in Nat /\ 0 \in Int
    BY <1>1
  <2> HIDE DEF step
  <2>2. \E g : Iterates(g, Len(f), Int, 0, step)
    BY <1>2, <2>1, LoopsCompute
  <2> QED
    BY <2>2 DEF Iterates
<1>5. g = [n \in 0 .. Len(f) |-> IF n = 0 THEN 0 ELSE g[n - 1] + f[n]]
  <2>1. ASSUME NEW n \in 0 .. Len(f), n # 0 PROVE g[n] = g[n - 1] + f[n]
    <3>1. n \in 1 .. Len(f) /\ n - 1 \in 0 .. Len(f)
      BY <1>1, <2>1
    <3>2. g[n - 1] \in Int /\ g[n] = step[<<g[n - 1], n>>]
      BY <1>4, <2>1, <3>1
    <3> QED
      BY <1>3, <3>1, <3>2
  <2>2. g[0] = 0
    BY <1>1, <1>4
  <2> QED
    BY <2>1, <2>2
<1>6. Sums(f) = [n \in 0 .. Len(f) |-> IF n = 0 THEN 0 ELSE Sums(f)[n - 1] + f[n]]
  BY <1>5, Zenon DEF Sums
<1> DEFINE s == Sums(f)
<1> HIDE DEF s
<1>7. s = [n \in 0 .. Len(f) |-> IF n = 0 THEN 0 ELSE s[n - 1] + f[n]]
  BY <1>6 DEF s
<1>8. s[0] \in Int /\ \A n \in 1 .. Len(f) : s[n - 1] \in Int => s[n] \in Int
  BY <1>1, <1>7, SMTT(30)
<1>9. \A n \in 0 .. Len(f) : s[n] \in Int
  BY <1>1, <1>8, StepByStep
<1> QED
  BY <1>6, <1>9 DEF s

\* The sum of no numbers, and of one more.
LEMMA SumAdds ==
  ASSUME NEW f \in Seq(Int), NEW x \in Int
  PROVE  /\ Sum(<<>>) = 0
         /\ Sum(f) \in Int
         /\ Sum(Append(f, x)) = Sum(f) + x
<1>1. Len(f) \in Nat /\ <<>> \in Seq(Int) /\ Len(<<>>) = 0
  OBVIOUS
<1>2. Sum(<<>>) = 0
  <2> DEFINE z == Sums(<<>>)
  <2>1. z = [n \in 0 .. Len(<<>>) |-> IF n = 0 THEN 0 ELSE z[n - 1] + <<>>[n]]
    BY <1>1, SumsAdd
  <2> HIDE DEF z
  <2>2. z[0] = 0
    BY <1>1, <2>1
  <2> QED
    BY <1>1, <2>2 DEF Sum, z
<1>3. Sum(f) \in Int
  BY <1>1, SumsAdd DEF Sum
<1> DEFINE h == Append(f, x)
           s == Sums(f)
           t == Sums(h)
<1>4. h \in Seq(Int) /\ Len(h) = Len(f) + 1 /\ h[Len(h)] = x /\ \A n \in 1 .. Len(f) : h[n] = f[n]
  OBVIOUS
<1>5. s = [n \in 0 .. Len(f) |-> IF n = 0 THEN 0 ELSE s[n - 1] + f[n]]
  BY SumsAdd
<1>6. t = [n \in 0 .. Len(h) |-> IF n = 0 THEN 0 ELSE t[n - 1] + h[n]]
  BY <1>4, SumsAdd
<1> DEFINE apart == [n \in 0 .. Len(f) |-> s[n] - t[n]]
<1>7. (\A n \in 0 .. Len(f) : s[n] \in Int) /\ (\A n \in 0 .. Len(h) : t[n] \in Int)
  BY <1>4, SumsAdd
<1> HIDE DEF s, t, h
<1>8. \A n \in 0 .. Len(f) : apart[n] \in {0}
  <2>1. apart[0] \in {0}
    <3>1. s[0] = 0 /\ t[0] = 0
      BY <1>1, <1>4, <1>5, <1>6
    <3> QED
      BY <1>1, <3>1
  <2>2. ASSUME NEW n \in 1 .. Len(f), apart[n - 1] \in {0} PROVE apart[n] \in {0}
    <3>1. n \in 0 .. Len(f) /\ n - 1 \in 0 .. Len(f) /\ n \in 0 .. Len(h) /\ n # 0
      BY <1>1, <1>4
    <3>2. s[n - 1] = t[n - 1]
      BY <1>7, <2>2, <3>1
    <3>3. s[n] = s[n - 1] + f[n] /\ t[n] = t[n - 1] + h[n] /\ h[n] = f[n]
      BY <1>4, <1>5, <1>6, <3>1
    <3> QED
      BY <1>7, <3>1, <3>2, <3>3
  <2> HIDE DEF apart
  <2> QED
    BY <1>1, <2>1, <2>2, StepByStep
<1>9. s[Len(f)] = t[Len(f)]
  <2>1. Len(f) \in 0 .. Len(f) /\ Len(f) \in 0 .. Len(h)
    BY <1>1, <1>4
  <2> QED
    BY <1>7, <1>8, <2>1
<1>10. t[Len(h)] = t[Len(f)] + x
  BY <1>1, <1>4, <1>6
<1> QED
  BY <1>2, <1>3, <1>9, <1>10 DEF Sum, s, t, h

\* The greatest number of a set that has one.
LEMMA GreatestIsIn ==
  ASSUME NEW N \in Nat, NEW S, S \subseteq 0 .. N, S # {}
  PROVE  Greatest(S) \in S
BY GreatestNumber DEF Greatest

\* What sums are apart stays so when the same is added, and else changes as much.
LEMMA Balance ==
  ASSUME NEW a \in Int, NEW b \in Int, NEW e \in Int, NEW x \in Int
  PROVE  /\ a - b = 0 => (a + e) - (b + e) = 0 /\ (a + (e + x)) - (b + e) - x = 0
         /\ a - b - x = 0 => (a + e) - (b + e) - x = 0 /\ a = b + x
  OBVIOUS

\* Two sequences of the same length whose elements differ by no more than one
\* at one place have sums that differ as much.
LEMMA SumChanges ==
  ASSUME NEW f \in Seq(Int), NEW h \in Seq(Int), Len(h) = Len(f),
         NEW i \in 1 .. Len(f), NEW x \in Int, h[i] = f[i] + x,
         \A k \in 1 .. Len(f) : k # i => h[k] = f[k]
  PROVE  Sum(h) = Sum(f) + x
<1> DEFINE s == Sums(f)
           t == Sums(h)
           N == Len(f)
<1>1. N \in Nat /\ i \in 1 .. N 
      /\ \A k \in 1 .. N : f[k] \in Int
  OBVIOUS
<1>2. s = [n \in 0 .. N |-> IF n = 0 THEN 0 ELSE s[n - 1] + f[n]]
  BY SumsAdd
<1>3. t = [n \in 0 .. N |-> IF n = 0 THEN 0 ELSE t[n - 1] + h[n]]
  BY SumsAdd
<1>4. \A n \in 0 .. N : s[n] \in Int /\ t[n] \in Int
  BY SumsAdd
<1>5. \A k \in 1 .. N : h[k] = IF k = i THEN f[k] + x ELSE f[k]
  BY <1>1
<1> HIDE DEF s, t, N
<1> DEFINE apart == [n \in 0 .. N |-> IF n < i THEN t[n] - s[n] ELSE t[n] - s[n] - x]
<1>7. apart[0] \in {0}
  BY <1>1, <1>2, <1>3
<1>8. ASSUME NEW n \in 1 .. N, apart[n - 1] \in {0} PROVE apart[n] \in {0}
  <2>1. n \in 0 .. N /\ n - 1 \in 0 .. N /\ n # 0
    BY <1>1
  <2>2. s[n] = s[n - 1] + f[n] /\ t[n] = t[n - 1] + h[n]
    BY <1>2, <1>3, <2>1
  <2>3. n \in Int /\ s[n - 1] \in Int /\ t[n - 1] \in Int /\ s[n] \in Int /\ t[n] \in Int /\ f[n] \in Int
    BY <1>1, <1>4, <2>1
  <2>11. PICK a \in Int, b \in Int, e \in Int : a = t[n - 1] /\ b = s[n - 1] /\ e = f[n]
    BY <2>3
  <2>12. s[n] = b + e /\ t[n] = a + h[n]
    BY <2>2, <2>11, Zenon
  <2>13. /\ a - b = 0 => (a + e) - (b + e) = 0 /\ (a + (e + x)) - (b + e) - x = 0
         /\ a - b - x = 0 => (a + e) - (b + e) - x = 0
    BY Balance
  <2>4. h[n] = IF n = i THEN f[n] + x ELSE f[n]
    BY <1>5
  <2>5. apart[n - 1] = (IF n - 1 < i THEN t[n - 1] - s[n - 1] ELSE t[n - 1] - s[n - 1] - x)
        /\ apart[n] = (IF n < i THEN t[n] - s[n] ELSE t[n] - s[n] - x)
    BY <2>1
  <2>6. apart[n - 1] = 0
    BY <1>8
  <2> HIDE DEF apart
  <2>7. CASE n < i
    <3>1. n - 1 < i /\ n # i
      BY <1>1, <2>7
    <3>2. t[n - 1] - s[n - 1] = 0 /\ h[n] = f[n]
      BY <2>4, <2>5, <2>6, <3>1, Zenon
    <3>3. t[n] - s[n] = 0
      BY <2>11, <2>12, <2>13, <3>2, Zenon
    <3> QED
      BY <2>5, <2>7, <3>3, Zenon
  <2>8. CASE n = i
    <3>1. n - 1 < i /\ ~ (n < i)
      BY <1>1, <2>8
    <3>2. t[n - 1] - s[n - 1] = 0 /\ h[n] = f[n] + x
      BY <2>4, <2>5, <2>6, <2>8, <3>1, Zenon
    <3>3. t[n] - s[n] - x = 0
      BY <2>11, <2>12, <2>13, <3>2, Zenon
    <3> QED
      BY <2>5, <3>1, <3>3, Zenon
  <2>9. CASE n > i
    <3>1. ~ (n - 1 < i) /\ ~ (n < i) /\ n # i
      BY <1>1, <2>9
    <3>2. t[n - 1] - s[n - 1] - x = 0 /\ h[n] = f[n]
      BY <2>4, <2>5, <2>6, <3>1, Zenon
    <3>3. t[n] - s[n] - x = 0
      BY <2>11, <2>12, <2>13, <3>2, Zenon
    <3> QED
      BY <2>5, <3>1, <3>3, Zenon
  <2>10. apart[n] = 0
    BY <1>1, <2>7, <2>8, <2>9
  <2> QED
    BY <2>10
<1>9. apart[N] = 0
  <2> HIDE DEF apart
  <2>1. \A n \in 0 .. N : apart[n] \in {0}
    BY <1>1, <1>7, <1>8, StepByStep
  <2> QED
    BY <1>1, <2>1
<1>10. apart[N] = t[N] - s[N] - x /\ s[N] \in Int /\ t[N] \in Int
  BY <1>1, <1>4
<1> HIDE DEF apart
<1>11. t[N] = s[N] + x
  <2>1. t[N] - s[N] - x = 0
    BY <1>9, <1>10, Zenon
  <2> QED
    BY <1>10, <2>1, Balance, ZenonT(30)
<1>12. Sum(f) = s[N] /\ Sum(h) = t[N]
  BY DEF Sum, s, t, N
<1> QED
  BY <1>11, <1>12

\* A sum of zeros is zero.
LEMMA SumOfZeros ==
  ASSUME NEW f \in Seq(Int), \A n \in 1 .. Len(f) : f[n] = 0
  PROVE  Sum(f) = 0
<1> DEFINE s == Sums(f)
<1>1. Len(f) \in Nat
  OBVIOUS
<1>2. s = [n \in 0 .. Len(f) |-> IF n = 0 THEN 0 ELSE s[n - 1] + f[n]]
  BY SumsAdd
<1> HIDE DEF s
<1>3. s[0] \in {0} /\ \A n \in 1 .. Len(f) : s[n - 1] \in {0} => s[n] \in {0}
  BY <1>1, <1>2
<1>4. \A n \in 0 .. Len(f) : s[n] \in {0}
  BY <1>1, <1>3, StepByStep
<1> QED
  BY <1>1, <1>4 DEF Sum, s

(***************************************************************************)
(* CallPath.  r1 is the module, r2 the request, r3 what is pending, r4     *)
(* what was visited, r5 the function that is read, r6 the edges, r7 says   *)
(* truncated, r8 is the status.                                            *)
(***************************************************************************)

\* What remains of a sequence without its head.
LEMMA Tailed ==
  ASSUME NEW S, NEW s \in Seq(S), s # <<>>
  PROVE  /\ Tail(s) \in Seq(S) /\ Len(s) \in Nat /\ Len(s) > 0
         /\ Head(s) = s[1] /\ s[1] \in S /\ 1 \in DOMAIN s
         /\ DOMAIN Tail(s) = 1 .. (Len(s) - 1)
         /\ \A i \in DOMAIN Tail(s) : i + 1 \in DOMAIN s /\ Tail(s)[i] = s[i + 1]
         /\ \A i \in DOMAIN s : i = 1 \/ (i - 1 \in DOMAIN Tail(s) /\ Tail(s)[i - 1] = s[i])
  OBVIOUS

\* Which is its minimum.
LEMMA MinimumIsIn ==
  ASSUME NEW S, S \subseteq Nat, S # {} PROVE Trace!Least(S) \in S
<1>1. \E x \in S : \A y \in S : x <= y
  BY LeastNumber
<1> QED
  BY <1>1 DEF Trace!Least

\* The function that a bare name means is one of the module.
LEMMA LexicalIsCallable ==
  ASSUME NEW m \in TraceModules, NEW name \in DOMAIN m.functions, NEW call,
         Trace!LexicalFunction(m, name, call) # None
  PROVE  Trace!LexicalFunction(m, name, call) \in DOMAIN m.functions
<1> DEFINE scopes == Trace!Enclosing(name)
           around == {i \in DOMAIN scopes : scopes[i] \in DOMAIN m.functions /\ Trace!Callable(m, scopes[i] \o call)}
<1>1. around \subseteq Nat
  BY TraceAssumption DEF Trace!Enclosing
<1>2. CASE Len(call) = 1 /\ around # {}
  <2>1. Trace!Least(around) \in around
    BY <1>1, <1>2, MinimumIsIn
  <2>2. Trace!LexicalFunction(m, name, call) = scopes[Trace!Least(around)] \o call
    BY <1>2 DEF Trace!LexicalFunction
  <2> QED
    BY <2>1, <2>2 DEF Trace!Callable
<1>3. CASE ~(Len(call) = 1 /\ around # {})
  <2>1. Trace!LexicalFunction(m, name, call) = IF Trace!Callable(m, call) THEN call ELSE None
    BY <1>3 DEF Trace!LexicalFunction
  <2> QED
    BY <2>1 DEF Trace!Callable
<1> QED
  BY <1>2, <1>3

\* So is what a local call leads to.
LEMMA LocalIsFunction ==
  ASSUME NEW m \in TraceModules, NEW name \in DOMAIN m.functions, NEW i,
         Trace!Target(m, name, i) # None, Trace!Target(m, name, i).kind = "local"
  PROVE  Trace!Target(m, name, i).to \in DOMAIN m.functions
<1> DEFINE call == m.functions[name].calls[i]
           lexical == Trace!LexicalFunction(m, name, call.name)
<1>1. lexical # None /\ Trace!Target(m, name, i).to = lexical
  BY DEF Trace!Target, Trace!Resolved, Trace!Edge
<1> QED
  BY <1>1, LexicalIsCallable

\* A function is reached from itself by no call.
LEMMA ReachStart ==
  ASSUME NEW m, NEW from \in DOMAIN m.functions PROVE Trace!ReachedBy(m, from, from, 0)
<1> DEFINE path == [i \in 0 .. 0 |-> from]
<1>1. path \in [0 .. 0 -> DOMAIN m.functions] /\ path[0] = from /\ 1 .. 0 = {}
  OBVIOUS
<1> QED
  BY <1>1 DEF Trace!ReachedBy

\* And one call further by what it calls.
LEMMA ReachExtend ==
  ASSUME NEW m, NEW from, NEW name, NEW d \in Nat, Trace!ReachedBy(m, from, name, d),
         NEW to \in DOMAIN m.functions, to \in Trace!Callees(m, name)
  PROVE  Trace!ReachedBy(m, from, to, d + 1)
<1>1. PICK path \in [0 .. d -> DOMAIN m.functions] :
         /\ path[0] = from /\ path[d] = name
         /\ \A i \in 1 .. d : path[i] \in Trace!Callees(m, path[i - 1])
  BY DEF Trace!ReachedBy
<1> DEFINE more == [i \in 0 .. (d + 1) |-> IF i <= d THEN path[i] ELSE to]
<1>2. more \in [0 .. (d + 1) -> DOMAIN m.functions] /\ more[0] = from /\ more[d + 1] = to
  BY <1>1
<1>3. ASSUME NEW i \in 1 .. (d + 1) PROVE more[i] \in Trace!Callees(m, more[i - 1])
  <2>1. CASE i <= d
    <3>1. i \in 1 .. d /\ more[i] = path[i] /\ more[i - 1] = path[i - 1]
      BY <2>1
    <3> QED
      BY <3>1, <1>1
  <2>2. CASE i = d + 1
    <3>1. more[i] = to /\ more[i - 1] = name
      BY <2>2, <1>1
    <3> QED
      BY <3>1
  <2> QED
    BY <2>1, <2>2
<1> QED
  BY <1>2, <1>3 DEF Trace!ReachedBy

\* A local call is an edge, and what it leads to is called.
LEMMA CallIsEdge ==
  ASSUME NEW m, NEW names, NEW name \in names, NEW i \in DOMAIN m.functions[name].calls,
         Trace!Target(m, name, i) # None
  PROVE  /\ Trace!Target(m, name, i) \in Trace!EdgesOf(m, names)
         /\ Trace!Target(m, name, i).kind = "local" =>
              Trace!Target(m, name, i).to \in Trace!Callees(m, name)
<1> DEFINE edge == Trace!Target(m, name, i)
<1>1. edge \in Trace!TargetsOf(m, name) /\ edge # None
  BY DEF Trace!TargetsOf
<1> HIDE DEF edge
<1>2. \A some : name \in some => edge \in Trace!EdgesOf(m, some)
  <2> SUFFICES ASSUME NEW some, name \in some PROVE edge \in Trace!EdgesOf(m, some)
    OBVIOUS
  <2>1. Trace!TargetsOf(m, name) \in {Trace!TargetsOf(m, n) : n \in some}
    OBVIOUS
  <2>2. edge \in UNION {Trace!TargetsOf(m, n) : n \in some}
    BY <1>1, <2>1
  <2> QED
    BY <1>1, <2>2 DEF Trace!EdgesOf
<1>3. edge \in Trace!EdgesOf(m, {name})
  BY <1>2
<1>4. edge.kind = "local" => edge.to \in Trace!Callees(m, name)
  BY <1>3 DEF Trace!Callees
<1> QED
  BY <1>2, <1>4 DEF edge

\* A trace starts with its request, waiting at depth 0.
LEMMA PathInit == part = "callpath" /\ Init => Trace!PathInv
<1> SUFFICES ASSUME part = "callpath", Init PROVE Trace!PathInv
  OBVIOUS
<1>1. Trace!Init
  BY DEF Init
<1> USE TraceAssumption DEF Trace!Init
<1>2. Trace!TypeOK
  <2>1. /\ r1 \in TraceModules /\ r7 \in BOOLEAN /\ r4 \subseteq DOMAIN r1.functions /\ r5 = None
        /\ r6 \in Seq(Trace!EdgesOf(r1, Trace!Reached(r1, r2))) /\ Len(r6) <= TraceMaxEdges
    <3>1. r6 = <<>> /\ Len(r6) = 0
      BY <1>1
    <3>2. \A S : <<>> \in Seq(S)
      OBVIOUS
    <3>3. r6 \in Seq(Trace!EdgesOf(r1, Trace!Reached(r1, r2)))
      BY <3>1, <3>2
    <3>4. 0 <= TraceMaxEdges
      OBVIOUS
    <3>5. r1 \in TraceModules /\ r7 \in BOOLEAN /\ r4 = {} /\ r5 = None
      BY <1>1
    <3> QED
      BY <3>1, <3>3, <3>4, <3>5
  <2>2. CASE Trace!Callable(r1, r2)
    <3>1. r3 = <<[name |-> r2, depth |-> 0]>> /\ r2 \in DOMAIN r1.functions
      BY <1>1, <2>2 DEF Trace!Callable
    <3>2. [name |-> r2, depth |-> 0] \in Trace!Waiting
      BY <3>1 DEF Trace!Waiting, Trace!Depths
    <3>3. r3 \in Seq(Trace!Waiting)
      BY <3>1, <3>2
    <3>4. Trace!ReachedBy(r1, r2, r2, 0)
      BY <3>1, ReachStart
    <3>5. \A i \in DOMAIN r3 : r3[i].name = r2 /\ r3[i].depth = 0
      BY <3>1
    <3>6. \A i \in DOMAIN r3 : Trace!ReachedBy(r1, r2, r3[i].name, r3[i].depth)
      BY <3>4, <3>5
    <3> QED
      BY <2>1, <3>3, <3>6 DEF Trace!TypeOK
  <2>3. CASE ~ Trace!Callable(r1, r2)
    <3>1. r3 = <<>>
      BY <1>1, <2>3
    <3> QED
      BY <2>1, <3>1 DEF Trace!TypeOK
  <2> QED
    BY <2>2, <2>3
<1>3. ASSUME r8 # "error"
      PROVE  /\ Trace!FollowedIsKnown
             /\ \E level \in [r4 -> Trace!Depths] : Trace!Ordered(level) /\ Trace!Covers(level)
  <2>1. r3 = <<[name |-> r2, depth |-> 0]>> /\ r4 = {} /\ r5 = None
    BY <1>1, <1>3
  <2>2. DOMAIN r3 = {1} /\ r3[1].name = r2 /\ r3[1].depth = 0
    BY <2>1
  <2> DEFINE level == [v \in {} |-> 0]
  <2>3. level \in [r4 -> Trace!Depths]
    BY <2>1
  <2>4. Trace!Ordered(level)
    BY <2>1, <2>2 DEF Trace!Ordered
  <2>5. Trace!Covers(level)
    BY <2>1, <2>2 DEF Trace!Covers, Trace!Covered
  <2> QED
    BY <2>1, <2>3, <2>4, <2>5 DEF Trace!FollowedIsKnown
<1>4. r8 # "done"
  BY <1>1
<1> QED
  BY <1>2, <1>3, <1>4 DEF Trace!PathInv

\* A function that waits is within reach.
LEMMA WaitingIsKnown ==
  ASSUME Trace!TypeOK
  PROVE  \A i \in DOMAIN r3 : /\ r3[i] \in Trace!Waiting /\ r3[i].name \in DOMAIN r1.functions
                              /\ r3[i].depth \in 0 .. TraceMaxLocalDepth
                              /\ Trace!ReachedBy(r1, r2, r3[i].name, r3[i].depth)
<1>1. /\ r3 \in Seq(Trace!Waiting)
      /\ \A i \in DOMAIN r3 : Trace!ReachedBy(r1, r2, r3[i].name, r3[i].depth)
  BY DEF Trace!TypeOK
<1>2. \A i \in DOMAIN r3 : r3[i] \in Trace!Waiting
  BY <1>1, Elements
<1>3. \A w \in Trace!Waiting : w.name \in DOMAIN r1.functions /\ w.depth \in 0 .. TraceMaxLocalDepth
  BY DEF Trace!Waiting, Trace!Depths
<1> QED
  BY <1>1, <1>2, <1>3

\* The next function that waits was already visited, or is read.
LEMMA PathPops ==
  ASSUME Trace!PathInv, Trace!Pop PROVE Trace!PathInv'
<1> DEFINE h == Head(r3)
<1>1. /\ Trace!TypeOK /\ r8 = "running" /\ r5 = None /\ r3 \in Seq(Trace!Waiting) /\ r3 # <<>>
      /\ r3' = Tail(r3)
      /\ r1' = r1 /\ r2' = r2 /\ r6' = r6 /\ r7' = r7 /\ r8' = r8
  BY DEF Trace!PathInv, Trace!TypeOK, Trace!Pop
<1>2. /\ r3' \in Seq(Trace!Waiting) /\ 1 \in DOMAIN r3 /\ h = r3[1]
      /\ \A i \in DOMAIN r3' : i + 1 \in DOMAIN r3 /\ r3'[i] = r3[i + 1]
      /\ \A i \in DOMAIN r3 : i = 1 \/ (i - 1 \in DOMAIN r3' /\ r3'[i - 1] = r3[i])
      /\ DOMAIN r3' \subseteq Int
  BY <1>1, Tailed
<1>3. /\ h \in Trace!Waiting /\ h.name \in DOMAIN r1.functions
      /\ h.depth \in 0 .. TraceMaxLocalDepth
      /\ Trace!ReachedBy(r1, r2, h.name, h.depth)
  BY <1>1, <1>2, WaitingIsKnown
<1> HIDE DEF h
<1>4. \A i \in DOMAIN r3' : Trace!ReachedBy(r1, r2, r3'[i].name, r3'[i].depth)
  BY <1>1, <1>2, WaitingIsKnown
<1>5. CASE h.name \in r4
  <2>1. r4' = r4 /\ r5' = None
    BY <1>1, <1>5 DEF Trace!Pop, h
  <2>2. Trace!TypeOK'
    <3>1. Trace!Waiting' = Trace!Waiting
      BY <1>1 DEF Trace!Waiting
    <3> QED
      BY <1>1, <1>2, <1>4, <2>1, <3>1 DEF Trace!TypeOK
  <2>3. ASSUME r7 = FALSE
        PROVE  /\ Trace!FollowedIsKnown'
               /\ \E level \in [r4 -> Trace!Depths] : Trace!Ordered(level)' /\ Trace!Covers(level)'
    <3>1. /\ Trace!FollowedIsKnown
          /\ \E level \in [r4 -> Trace!Depths] : Trace!Ordered(level) /\ Trace!Covers(level)
      BY <1>1, <2>3 DEF Trace!PathInv
    <3>2. PICK level \in [r4 -> Trace!Depths] : Trace!Ordered(level) /\ Trace!Covers(level)
      BY <3>1
    <3>3. Trace!FollowedIsKnown'
      BY <1>1, <2>1, <3>1 DEF Trace!FollowedIsKnown, Trace!Followed, Trace!Known
    <3>4. Trace!Ordered(level)'
      BY <1>1, <1>2, <2>1, <3>2 DEF Trace!Ordered
    <3>5. \A name, d : d \in Int /\ Trace!Covered(level, name, d) => Trace!Covered(level, name, d)'
      <4> SUFFICES ASSUME NEW name, NEW d \in Int, Trace!Covered(level, name, d)
                   PROVE  Trace!Covered(level, name, d)'
        OBVIOUS
      <4>1. level[h.name] <= h.depth /\ level[h.name] \in Int /\ h.depth \in Int
        BY <1>2, <1>3, <1>5, <3>2 DEF Trace!Ordered, Trace!Depths
      <4>2. CASE name \in r4 /\ level[name] <= d
        BY <4>2, <2>1 DEF Trace!Covered
      <4>3. CASE \E i \in DOMAIN r3 : r3[i].name = name /\ r3[i].depth <= d
        <5>1. PICK i \in DOMAIN r3 : r3[i].name = name /\ r3[i].depth <= d
          BY <4>3
        <5>2. CASE i = 1
          BY <1>2, <1>5, <2>1, <4>1, <5>1, <5>2 DEF Trace!Covered
        <5>3. CASE i # 1
          BY <1>2, <5>1, <5>3 DEF Trace!Covered
        <5> QED
          BY <5>2, <5>3
      <4> QED
        BY <4>2, <4>3 DEF Trace!Covered
    <3>6. Trace!Covers(level)'
      <4>1. \A name \in r4 : level[name] + 1 \in Int
        BY <3>2, TraceAssumption DEF Trace!Depths
      <4> QED
        BY <1>1, <2>1, <3>2, <3>5, <4>1 DEF Trace!Covers, Trace!Followed
    <3> QED
      BY <3>2, <3>3, <3>4, <3>6
  <2> QED
    BY <1>1, <2>1, <2>2, <2>3 DEF Trace!PathInv, Trace!TypeOK
<1>6. CASE h.name \notin r4
  <2>1. r4' = r4 \cup {h.name} /\ r5' = [name |-> h.name, depth |-> h.depth, next |-> 1]
    BY <1>1, <1>6 DEF Trace!Pop, h
  <2>2. r5'.name = h.name /\ r5'.depth = h.depth /\ r5'.next = 1 /\ r5' # None
    <3>1. r5' \in [name : DOMAIN r1.functions, depth : Nat, next : Nat]
      BY <1>3, <2>1, TraceAssumption
    <3>2. r1 \in TraceModules
      BY <1>1 DEF Trace!TypeOK
    <3> QED
      BY <1>3, <2>1, <3>1, <3>2, TraceAssumption
  <2>3. Trace!TypeOK'
    <3>1. Trace!Waiting' = Trace!Waiting
      BY <1>1 DEF Trace!Waiting
    <3>2. r5' \in Trace!Reading'
      BY <1>3, <2>1 DEF Trace!Reading, Trace!Depths
    <3>3. r4' \subseteq DOMAIN r1'.functions
      BY <1>1, <1>3, <2>1 DEF Trace!TypeOK
    <3> QED
      BY <1>1, <1>2, <1>3, <1>4, <2>2, <3>1, <3>2, <3>3 DEF Trace!TypeOK
  <2>4. ASSUME NEW name \in r4', NEW i \in DOMAIN r1.functions[name].calls, Trace!Followed(name, i)'
        PROVE  name \in r4 /\ name # h.name /\ Trace!Followed(name, i)
    <3>1. DOMAIN r1.functions[name].calls = 1 .. Len(r1.functions[name].calls) /\ r1 \in TraceModules
      BY <1>1, <1>3, <2>1, TraceAssumption DEF Trace!TypeOK
    <3>2. i \in Int /\ i >= 1 /\ ~ (i < 1)
      BY <3>1
    <3>3. name # h.name
      BY <1>1, <2>2, <2>4, <3>2 DEF Trace!Followed
    <3> QED
      BY <1>1, <2>1, <2>4, <3>3 DEF Trace!Followed
  <2>5. ASSUME r7 = FALSE
        PROVE  /\ Trace!FollowedIsKnown'
               /\ \E level \in [r4' -> Trace!Depths] : Trace!Ordered(level)' /\ Trace!Covers(level)'
    <3>1. /\ Trace!FollowedIsKnown
          /\ \E level \in [r4 -> Trace!Depths] : Trace!Ordered(level) /\ Trace!Covers(level)
      BY <1>1, <2>5 DEF Trace!PathInv
    <3>2. PICK level \in [r4 -> Trace!Depths] : Trace!Ordered(level) /\ Trace!Covers(level)
      BY <3>1
    <3>3. Trace!FollowedIsKnown'
      BY <1>1, <2>4, <3>1 DEF Trace!FollowedIsKnown, Trace!Known
    <3>4. PICK new : /\ new \in [r4 \cup {h.name} -> Trace!Depths]
                     /\ new[h.name] = h.depth
                     /\ \A v \in r4 : v # h.name /\ new[v] = level[v]
      <4> DEFINE f == [v \in r4 \cup {h.name} |-> IF v = h.name THEN h.depth ELSE level[v]]
      <4>1. /\ f \in [r4 \cup {h.name} -> Trace!Depths]
            /\ f[h.name] = h.depth
            /\ \A v \in r4 : v # h.name /\ f[v] = level[v]
        BY <1>3, <1>6, <3>2 DEF Trace!Depths
      <4> QED
        BY <4>1
    <3>5. \A v \in r4 : new[v] <= h.depth /\ new[v] \in Int
      BY <1>2, <3>2, <3>4 DEF Trace!Ordered, Trace!Depths
    <3>6. \A i \in DOMAIN r3' : /\ r3'[i].depth \in Int /\ h.depth <= r3'[i].depth
                                /\ r3'[i].depth <= h.depth + 1
      <4>1. \A i \in DOMAIN r3 : r3[i].depth \in Int
        BY <1>1, WaitingIsKnown
      <4>2. \A i \in DOMAIN r3' : 1 < i + 1
        BY <1>1, Tailed
      <4> QED
        BY <1>2, <3>2, <4>1, <4>2 DEF Trace!Ordered
    <3>7. Trace!Ordered(new)'
      <4>1. \A v \in r4', i \in DOMAIN r3' : new[v] <= r3'[i].depth
        BY <1>3, <2>1, <3>4, <3>5, <3>6
      <4>2. \A i, j \in DOMAIN r3' : /\ r3'[j].depth <= r3'[i].depth + 1
                                     /\ i < j => r3'[i].depth <= r3'[j].depth
        BY <1>2, <3>2 DEF Trace!Ordered
      <4>3. new[r5'.name] = r5'.depth /\ \A v \in r4' : new[v] <= r5'.depth
        BY <1>3, <2>1, <2>2, <3>4, <3>5
      <4>4. \A i \in DOMAIN r3' : r5'.depth <= r3'[i].depth /\ r3'[i].depth <= r5'.depth + 1
        BY <2>2, <3>6
      <4> QED
        BY <4>1, <4>2, <4>3, <4>4 DEF Trace!Ordered
    <3>8. \A name, d : Trace!Covered(level, name, d) => Trace!Covered(new, name, d)'
      <4> SUFFICES ASSUME NEW name, NEW d, Trace!Covered(level, name, d)
                   PROVE  Trace!Covered(new, name, d)'
        OBVIOUS
      <4>1. CASE name \in r4 /\ level[name] <= d
        BY <4>1, <2>1, <3>4 DEF Trace!Covered
      <4>2. CASE \E i \in DOMAIN r3 : r3[i].name = name /\ r3[i].depth <= d
        <5>1. PICK i \in DOMAIN r3 : r3[i].name = name /\ r3[i].depth <= d
          BY <4>2
        <5>2. CASE i = 1
          BY <1>2, <2>1, <3>4, <5>1, <5>2 DEF Trace!Covered
        <5>3. CASE i # 1
          BY <1>2, <5>1, <5>3 DEF Trace!Covered
        <5> QED
          BY <5>2, <5>3
      <4> QED
        BY <4>1, <4>2 DEF Trace!Covered
    <3>9. Trace!Covers(new)'
      <4>1. Trace!Covered(new, r2, 0)'
        BY <1>1, <3>2, <3>8 DEF Trace!Covers
      <4>2. ASSUME NEW name \in r4', NEW i \in DOMAIN r1.functions[name].calls,
                   Trace!Followed(name, i)', new[name] < TraceMaxLocalDepth,
                   Trace!Target(r1, name, i).kind = "local"
            PROVE  Trace!Covered(new, Trace!Target(r1, name, i).to, new[name] + 1)'
        <5>1. name \in r4 /\ Trace!Followed(name, i) /\ new[name] = level[name]
          BY <2>4, <3>4, <4>2
        <5>2. Trace!Covered(level, Trace!Target(r1, name, i).to, level[name] + 1)
          BY <3>2, <4>2, <5>1 DEF Trace!Covers
        <5> QED
          BY <1>1, <3>8, <5>1, <5>2
      <4> QED
        BY <1>1, <4>1, <4>2 DEF Trace!Covers
    <3> QED
      BY <2>1, <3>3, <3>4, <3>7, <3>9
  <2> QED
    BY <1>1, <2>3, <2>5 DEF Trace!PathInv, Trace!TypeOK
<1> QED
  BY <1>5, <1>6

\* The function that is read is visited and within reach.
LEMMA ReadingIsKnown ==
  ASSUME Trace!TypeOK, r5 # None
  PROVE  /\ r5 = [name |-> r5.name, depth |-> r5.depth, next |-> r5.next]
         /\ r8 = "running" /\ r5.name \in r4 /\ r5.name \in DOMAIN r1.functions
         /\ r5.depth \in 0 .. TraceMaxLocalDepth /\ r5.next \in Nat \ {0}
         /\ Trace!ReachedBy(r1, r2, r5.name, r5.depth)
         /\ r1 \in TraceModules
         /\ DOMAIN r1.functions[r5.name].calls = 1 .. Len(r1.functions[r5.name].calls)
         /\ Len(r1.functions[r5.name].calls) \in Nat
<1>1. r5 \in Trace!Reading /\ r4 \subseteq DOMAIN r1.functions /\ r1 \in TraceModules
  BY DEF Trace!TypeOK
<1>2. /\ r5 = [name |-> r5.name, depth |-> r5.depth, next |-> r5.next]
      /\ r5.name \in r4 /\ r5.depth \in 0 .. TraceMaxLocalDepth /\ r5.next \in Nat \ {0}
  BY <1>1 DEF Trace!Reading, Trace!Depths
<1> QED
  BY <1>1, <1>2, TraceAssumption DEF Trace!TypeOK

\* A call is read: it is an edge, the function it leads to waits, or the limit
\* is met and the trace is truncated.
LEMMA PathReads ==
  ASSUME Trace!PathInv, Trace!ReadCall PROVE Trace!PathInv'
<1>0. PICK name, depth, edge :
         name = r5.name /\ depth = r5.depth /\ edge = Trace!Target(r1, r5.name, r5.next)
  OBVIOUS
<1> DEFINE new  == edge # None /\ ~ Trace!Known(edge)
           full == \/ Len(r6) >= TraceMaxEdges
                   \/ new /\ edge.kind = "import" /\ Len(r6) + 1 >= TraceMaxEdges
           joins == edge # None /\ edge.kind = "local" /\ depth < TraceMaxLocalDepth /\ Len(r6) < TraceMaxEdges
           item == [name |-> edge.to, depth |-> depth + 1]
           all == Trace!EdgesOf(r1, Trace!Reached(r1, r2))
<1>1. /\ r5 # None /\ r5.next <= Len(r1.functions[name].calls)
      /\ r6' = IF new /\ Len(r6) < TraceMaxEdges THEN Append(r6, edge) ELSE r6
      /\ r3' = IF joins THEN Append(r3, item) ELSE r3
      /\ r7' = (r7 \/ full)
      /\ r5' = IF full THEN None ELSE [r5 EXCEPT !.next = @ + 1]
      /\ r1' = r1 /\ r2' = r2 /\ r4' = r4 /\ r8' = r8
  BY <1>0 DEF Trace!ReadCall
<1>2. Trace!TypeOK
  BY DEF Trace!PathInv
<1>3. /\ r5 = [name |-> name, depth |-> depth, next |-> r5.next]
      /\ r8 = "running" /\ name \in r4 /\ name \in DOMAIN r1.functions
      /\ depth \in 0 .. TraceMaxLocalDepth /\ r5.next \in Nat \ {0}
      /\ Trace!ReachedBy(r1, r2, name, depth)
      /\ r1 \in TraceModules
      /\ r5.next \in DOMAIN r1.functions[name].calls
      /\ DOMAIN r1.functions[name].calls \subseteq Int
  BY <1>0, <1>1, <1>2, ReadingIsKnown
<1>4. name \in Trace!Reached(r1, r2)
  BY <1>3 DEF Trace!Reached, Trace!Depths
<1>5. edge # None => edge \in all
  BY <1>0, <1>3, <1>4, CallIsEdge
<1>6. joins => /\ edge.to \in DOMAIN r1.functions
               /\ edge.to \in Trace!Callees(r1, name)
  BY <1>0, <1>3, CallIsEdge, LocalIsFunction
<1>7. joins => Trace!ReachedBy(r1, r2, edge.to, depth + 1)
  BY <1>3, <1>6, ReachExtend
<1>8. joins => item \in Trace!Waiting
  BY <1>3, <1>6, TraceAssumption DEF Trace!Waiting, Trace!Depths
<1>9. /\ r3 \in Seq(Trace!Waiting) /\ r6 \in Seq(all) /\ Len(r6) <= TraceMaxEdges
      /\ TraceMaxEdges \in Nat /\ TraceMaxLocalDepth \in Nat /\ Len(r6) \in Nat
  BY <1>2, TraceAssumption DEF Trace!TypeOK
<1> HIDE DEF all
<1>10. /\ r6' \in Seq(all) /\ Len(r6') <= TraceMaxEdges
       /\ \A i \in DOMAIN r6 : i \in DOMAIN r6' /\ r6'[i] = r6[i]
       /\ new /\ Len(r6) < TraceMaxEdges => \E i \in DOMAIN r6' : r6'[i] = edge
  <2>1. CASE new /\ Len(r6) < TraceMaxEdges
    BY <1>1, <1>5, <1>9, <2>1, Appended, SMTT(30)
  <2>2. CASE ~ (new /\ Len(r6) < TraceMaxEdges)
    BY <1>1, <1>9, <2>2
  <2> QED
    BY <2>1, <2>2
<1>11. /\ r3' \in Seq(Trace!Waiting)
       /\ \A i \in DOMAIN r3 : i \in DOMAIN r3' /\ r3'[i] = r3[i]
       /\ \A i \in DOMAIN r3' : \/ i \in DOMAIN r3
                                \/ joins /\ r3'[i] = item /\ \A j \in DOMAIN r3 : j < i
       /\ joins => \E i \in DOMAIN r3' : r3'[i] = item
  <2> HIDE DEF item
  <2>1. CASE joins
    BY <1>1, <1>8, <1>9, <2>1, Appended
  <2>2. CASE ~ joins
    BY <1>1, <1>9, <2>2
  <2> QED
    BY <2>1, <2>2
<1>12. Trace!TypeOK'
  <2>1. Trace!Waiting' = Trace!Waiting /\ all' = all
    BY <1>1 DEF Trace!Waiting, all
  <2>2. \A i \in DOMAIN r3' : Trace!ReachedBy(r1, r2, r3'[i].name, r3'[i].depth)
    BY <1>2, <1>7, <1>11, WaitingIsKnown
  <2>3. ASSUME r5' # None
        PROVE  /\ r5' \in Trace!Reading' /\ r8' = "running"
               /\ Trace!ReachedBy(r1, r2, r5'.name, r5'.depth)
    <3>1. r5' = [name |-> name, depth |-> depth, next |-> r5.next + 1]
      BY <1>1, <1>3, <2>3
    <3>2. r5.next + 1 \in Nat \ {0}
      BY <1>3
    <3> QED
      BY <1>1, <1>3, <3>1, <3>2 DEF Trace!Reading, Trace!Depths
  <2>4. r7' \in BOOLEAN /\ r1' \in TraceModules /\ r4' \subseteq DOMAIN r1'.functions
    BY <1>1, <1>2 DEF Trace!TypeOK
  <2> QED
    BY <1>1, <1>10, <1>11, <2>1, <2>2, <2>3, <2>4 DEF Trace!TypeOK, all
<1>13. ASSUME r7' = FALSE
       PROVE  /\ Trace!FollowedIsKnown'
              /\ \E level \in [r4 -> Trace!Depths] : Trace!Ordered(level)' /\ Trace!Covers(level)'
  <2>1. r7 = FALSE /\ ~full
    <3>1. r7 \in BOOLEAN
      BY <1>2 DEF Trace!TypeOK
    <3> HIDE DEF full
    <3>2. ~ (r7 \/ full)
      BY <1>1, <1>13
    <3> QED
      BY <3>1, <3>2
  <2>2. /\ Trace!FollowedIsKnown
        /\ \E level \in [r4 -> Trace!Depths] : Trace!Ordered(level) /\ Trace!Covers(level)
    BY <1>3, <2>1 DEF Trace!PathInv
  <2>3. PICK level \in [r4 -> Trace!Depths] : Trace!Ordered(level) /\ Trace!Covers(level)
    BY <2>2
  <2>4. /\ r5'.name = name /\ r5'.depth = depth /\ r5'.next = r5.next + 1 /\ r5' # None
        /\ Len(r6) < TraceMaxEdges
    <3>1. r5' = [name |-> name, depth |-> depth, next |-> r5.next + 1]
      BY <1>1, <1>3, <2>1
    <3>2. r5' \in [name : DOMAIN r1.functions, depth : Nat, next : Nat]
      BY <1>3, <3>1, TraceAssumption
    <3>3. r5' # None
      BY <1>3, <3>2, TraceAssumption
    <3> QED
      BY <1>9, <2>1, <3>1, <3>3
  <2>5. ASSUME NEW v \in r4, NEW i \in DOMAIN r1.functions[v].calls, Trace!Followed(v, i)'
        PROVE  Trace!Followed(v, i) \/ (v = name /\ i = r5.next /\ edge # None)
    <3>1. Trace!Target(r1, v, i) # None /\ (v = name => i < r5.next + 1)
      BY <1>1, <2>4, <2>5 DEF Trace!Followed
    <3>2. CASE v = name /\ i = r5.next
      BY <1>0, <3>1, <3>2
    <3>3. CASE ~ (v = name /\ i = r5.next)
      <4>1. v = name => i < r5.next
        BY <1>3, <3>1, <3>3
      <4> QED
        BY <1>0, <3>1, <4>1 DEF Trace!Followed
    <3> QED
      BY <3>2, <3>3
  <2>6. Trace!FollowedIsKnown'
    <3>1. \A e : Trace!Known(e) => Trace!Known(e)'
      BY <1>10 DEF Trace!Known
    <3>2. edge # None => Trace!Known(edge)'
      <4>1. CASE new
        BY <1>10, <2>4, <4>1 DEF Trace!Known
      <4>2. CASE ~ new
        BY <3>1, <4>2
      <4> QED
        BY <4>1, <4>2
    <3>3. ASSUME NEW v \in r4, NEW i \in DOMAIN r1.functions[v].calls, Trace!Followed(v, i)'
          PROVE  Trace!Known(Trace!Target(r1, v, i))'
      <4>1. CASE Trace!Followed(v, i)
        BY <1>1, <2>2, <3>1, <4>1 DEF Trace!FollowedIsKnown
      <4>2. CASE v = name /\ i = r5.next /\ edge # None
        BY <1>0, <1>1, <3>2, <4>2
      <4> QED
        BY <2>5, <3>3, <4>1, <4>2
    <3> QED
      BY <1>1, <3>3 DEF Trace!FollowedIsKnown
  <2>7. Trace!Ordered(level)'
    <3>1. \A i \in DOMAIN r3' : /\ depth <= r3'[i].depth /\ r3'[i].depth <= depth + 1
                                /\ r3'[i].depth \in Int
      <4>1. \A i \in DOMAIN r3 : r3[i].depth \in Int
        BY <1>2, WaitingIsKnown
      <4>2. item.depth = depth + 1
        OBVIOUS
      <4> HIDE DEF item
      <4> QED
        BY <1>0, <1>1, <1>3, <1>11, <2>3, <4>1, <4>2 DEF Trace!Ordered
    <3>2. \A v \in r4 : level[v] <= depth /\ level[v] \in Int
      BY <1>0, <1>1, <2>3 DEF Trace!Ordered, Trace!Depths
    <3>3. \A v \in r4, i \in DOMAIN r3' : level[v] <= r3'[i].depth
      BY <1>3, <3>1, <3>2
    <3>4. \A i, j \in DOMAIN r3' : r3'[j].depth <= r3'[i].depth + 1
      BY <1>3, <3>1
    <3>5. \A i, j \in DOMAIN r3' : i < j => r3'[i].depth <= r3'[j].depth
      <4> SUFFICES ASSUME NEW i \in DOMAIN r3', NEW j \in DOMAIN r3', i < j
                   PROVE  r3'[i].depth <= r3'[j].depth
        OBVIOUS
      <4>1. i \in Int /\ j \in Int
        BY <1>11
      <4>2. CASE j \in DOMAIN r3
        <5>1. i \in DOMAIN r3
          BY <1>11, <4>1, <4>2
        <5> QED
          BY <1>11, <2>3, <4>2, <5>1 DEF Trace!Ordered
      <4>3. CASE j \notin DOMAIN r3
        <5>1. r3'[j].depth = depth + 1
          BY <1>11, <4>3
        <5> QED
          BY <3>1, <5>1
      <4> QED
        BY <4>2, <4>3
    <3>6. level[name] = depth
      BY <1>0, <1>1, <2>3 DEF Trace!Ordered
    <3> QED
      BY <1>1, <2>4, <3>1, <3>2, <3>3, <3>4, <3>5, <3>6 DEF Trace!Ordered
  <2>8. Trace!Covers(level)'
    <3>1. \A to, d : Trace!Covered(level, to, d) => Trace!Covered(level, to, d)'
      BY <1>1, <1>11 DEF Trace!Covered
    <3>2. joins => Trace!Covered(level, edge.to, level[name] + 1)'
      <4>1. level[name] = depth
        BY <1>0, <1>1, <2>3 DEF Trace!Ordered
      <4>2. item.name = edge.to /\ item.depth = depth + 1
        OBVIOUS
      <4> HIDE DEF item
      <4>3. ASSUME joins PROVE \E i \in DOMAIN r3' : r3'[i].name = edge.to /\ r3'[i].depth <= level[name] + 1
        BY <1>3, <1>11, <4>1, <4>2, <4>3
      <4> QED
        BY <1>1, <4>3 DEF Trace!Covered
    <3>3. ASSUME NEW v \in r4, NEW i \in DOMAIN r1.functions[v].calls,
                 Trace!Followed(v, i)', level[v] < TraceMaxLocalDepth,
                 Trace!Target(r1, v, i).kind = "local"
          PROVE  Trace!Covered(level, Trace!Target(r1, v, i).to, level[v] + 1)'
      <4>1. CASE Trace!Followed(v, i)
        <5>1. Trace!Covered(level, Trace!Target(r1, v, i).to, level[v] + 1)
          BY <2>3, <3>3, <4>1 DEF Trace!Covers
        <5> QED
          BY <1>1, <3>1, <5>1
      <4>2. CASE v = name /\ i = r5.next /\ edge # None
        <5>1. level[name] = depth
          BY <1>0, <1>1, <2>3 DEF Trace!Ordered
        <5>2. Trace!Target(r1, v, i) = edge /\ joins
          BY <1>0, <2>4, <3>3, <4>2, <5>1
        <5>3. Trace!Covered(level, edge.to, level[v] + 1)'
          BY <3>2, <4>2, <5>2
        <5> QED
          BY <1>1, <4>2, <5>2, <5>3
      <4> QED
        BY <2>5, <3>3, <4>1, <4>2
    <3>4. Trace!Covered(level, r2, 0)'
      BY <1>1, <2>3, <3>1 DEF Trace!Covers
    <3> QED
      BY <1>1, <3>3, <3>4 DEF Trace!Covers
  <2> QED
    BY <2>3, <2>6, <2>7, <2>8
<1> QED
  BY <1>1, <1>3, <1>12, <1>13 DEF Trace!PathInv, Trace!TypeOK

\* The calls of the function are all read.
LEMMA PathLeaves ==
  ASSUME Trace!PathInv, Trace!Leave PROVE Trace!PathInv'
<1>1. /\ r5 # None /\ r5.next > Len(r1.functions[r5.name].calls) /\ r5' = None
      /\ r1' = r1 /\ r2' = r2 /\ r3' = r3 /\ r4' = r4 /\ r6' = r6 /\ r7' = r7 /\ r8' = r8
  BY DEF Trace!Leave
<1>2. Trace!TypeOK
  BY DEF Trace!PathInv
<1>3. Trace!TypeOK'
  <2>1. Trace!Waiting' = Trace!Waiting
    BY <1>1 DEF Trace!Waiting
  <2> QED
    BY <1>1, <1>2, <2>1 DEF Trace!TypeOK
<1>4. \A i \in DOMAIN r1.functions[r5.name].calls : i < r5.next
  BY <1>1, <1>2, ReadingIsKnown
<1>5. \A name, i : Trace!Followed(name, i)' => Trace!Followed(name, i)
  BY <1>1, <1>4 DEF Trace!Followed
<1>6. \A level, name, d : Trace!Covered(level, name, d)' = Trace!Covered(level, name, d)
  BY <1>1 DEF Trace!Covered
<1>7. \A level : Trace!Covers(level) => Trace!Covers(level)'
  BY <1>1, <1>5, <1>6 DEF Trace!Covers
<1>8. \A level : Trace!Ordered(level) => Trace!Ordered(level)'
  BY <1>1 DEF Trace!Ordered
<1>9. Trace!FollowedIsKnown => Trace!FollowedIsKnown'
  BY <1>1, <1>5 DEF Trace!FollowedIsKnown, Trace!Known
<1> QED
  BY <1>1, <1>3, <1>7, <1>8, <1>9 DEF Trace!PathInv

\* Nothing waits, or the limit is met and the trace is truncated.
LEMMA PathReturns ==
  ASSUME Trace!PathInv, Trace!Return PROVE Trace!PathInv'
<1>1. /\ r5 = None /\ r7' = (r7 \/ r3 # <<>>) /\ r8' = "done" /\ r8 = "running"
      /\ r1' = r1 /\ r2' = r2 /\ r3' = r3 /\ r4' = r4 /\ r5' = r5 /\ r6' = r6
  BY DEF Trace!Return
<1>2. Trace!TypeOK
  BY DEF Trace!PathInv
<1>3. Trace!TypeOK'
  <2>1. Trace!Waiting' = Trace!Waiting /\ r7' \in BOOLEAN
    BY <1>1, <1>2 DEF Trace!Waiting, Trace!TypeOK
  <2> QED
    BY <1>1, <1>2, <2>1 DEF Trace!TypeOK
<1>4. \A level, name, d : Trace!Covered(level, name, d)' = Trace!Covered(level, name, d)
  BY <1>1 DEF Trace!Covered
<1>5. \A level : Trace!Covers(level) => Trace!Covers(level)'
  BY <1>1, <1>4 DEF Trace!Covers, Trace!Followed
<1>6. \A level : Trace!Ordered(level) => Trace!Ordered(level)'
  BY <1>1 DEF Trace!Ordered
<1>7. Trace!FollowedIsKnown => Trace!FollowedIsKnown'
  BY <1>1 DEF Trace!FollowedIsKnown, Trace!Followed, Trace!Known
<1>8. ~ r7' => ~ r7 /\ r3 = <<>>
  BY <1>1
<1> QED
  BY <1>1, <1>3, <1>5, <1>6, <1>7, <1>8 DEF Trace!PathInv

\* A step of a trace keeps the invariant.
LEMMA PathStep == Trace!PathInv /\ Trace!Next => Trace!PathInv'
  BY PathPops, PathReads, PathLeaves, PathReturns DEF Trace!Next

\* So does a step of another component.
LEMMA PathOthers ==
  ASSUME Trace!PathInv, UNCHANGED vars PROVE Trace!PathInv'
<1>1. /\ r1' = r1 /\ r2' = r2 /\ r3' = r3 /\ r4' = r4 /\ r5' = r5 /\ r6' = r6 /\ r7' = r7 /\ r8' = r8
  BY DEF vars
<1>2. Trace!TypeOK'
  <2>1. Trace!Waiting' = Trace!Waiting /\ Trace!Reading' = Trace!Reading
    BY <1>1 DEF Trace!Waiting, Trace!Reading
  <2> QED
    BY <1>1, <2>1 DEF Trace!TypeOK, Trace!PathInv
<1>3. \A level, name, d : Trace!Covered(level, name, d)' = Trace!Covered(level, name, d)
  BY <1>1 DEF Trace!Covered
<1>4. \A level : Trace!Covers(level) => Trace!Covers(level)'
  BY <1>1, <1>3 DEF Trace!Covers, Trace!Followed
<1>5. \A level : Trace!Ordered(level) => Trace!Ordered(level)'
  BY <1>1 DEF Trace!Ordered
<1>6. Trace!FollowedIsKnown => Trace!FollowedIsKnown'
  BY <1>1 DEF Trace!FollowedIsKnown, Trace!Followed, Trace!Known
<1> QED
  BY <1>1, <1>2, <1>4, <1>5, <1>6 DEF Trace!PathInv

\* An edge is what a call of one of the functions leads to.
LEMMA EdgeIsCall ==
  ASSUME NEW m, NEW names, NEW e \in Trace!EdgesOf(m, names)
  PROVE  \E name \in names : \E i \in DOMAIN m.functions[name].calls :
           e = Trace!Target(m, name, i) /\ e # None
<1>1. PICK name \in names : e \in Trace!TargetsOf(m, name)
  BY DEF Trace!EdgesOf
<1>2. e # None
  BY DEF Trace!EdgesOf
<1> QED
  BY <1>1, <1>2 DEF Trace!TargetsOf

\* When nothing waits, whatever a path of local calls leads to was visited, no
\* deeper than the path is long.
LEMMA PathsAreVisited ==
  ASSUME r3 = <<>>, r5 = None, TraceMaxLocalDepth \in Nat,
         NEW level \in [r4 -> Trace!Depths], Trace!Covers(level),
         NEW d \in Trace!Depths, NEW path \in [0 .. d -> DOMAIN r1.functions],
         path[0] = r2,
         \A i \in 1 .. d : path[i] \in Trace!Callees(r1, path[i - 1])
  PROVE  path[d] \in r4
<1> DEFINE bad == {k \in 0 .. d : ~ (path[k] \in r4 /\ level[path[k]] <= k)}
<1>1. d \in Nat /\ d <= TraceMaxLocalDepth
  BY DEF Trace!Depths
<1>2. \A name, e : Trace!Covered(level, name, e) => name \in r4 /\ level[name] <= e
  BY DEF Trace!Covered
<1>3. bad = {}
  <2> SUFFICES ASSUME bad # {} PROVE FALSE
    OBVIOUS
  <2>1. bad \subseteq Nat
    BY <1>1
  <2>2. PICK k \in bad : \A j \in bad : k <= j
    BY <2>1, LeastNumber
  <2>3. k \in 0 .. d /\ ~ (path[k] \in r4 /\ level[path[k]] <= k)
    OBVIOUS
  <2>4. k # 0
    BY <1>2, <2>3 DEF Trace!Covers
  <2>5. k - 1 \in 0 .. d /\ k \in 1 .. d /\ k - 1 \notin bad
    BY <1>1, <2>2, <2>3, <2>4
  <2> DEFINE caller == path[k - 1]
  <2>6. caller \in r4 /\ level[caller] <= k - 1
    BY <2>5
  <2>7. PICK e \in Trace!EdgesOf(r1, {caller}) : e.kind = "local" /\ e.to = path[k]
    BY <2>5 DEF Trace!Callees
  <2>8. PICK i \in DOMAIN r1.functions[caller].calls : e = Trace!Target(r1, caller, i) /\ e # None
    BY EdgeIsCall
  <2>9. Trace!Followed(caller, i)
    BY <2>6, <2>8 DEF Trace!Followed
  <2>10. level[caller] \in Nat /\ level[caller] < TraceMaxLocalDepth
    BY <1>1, <2>5, <2>6 DEF Trace!Depths
  <2>11. Trace!Covered(level, path[k], level[caller] + 1)
    BY <2>6, <2>7, <2>8, <2>9, <2>10 DEF Trace!Covers
  <2>12. path[k] \in r4 /\ level[path[k]] <= level[caller] + 1 /\ level[path[k]] \in Nat
    BY <1>2, <2>11 DEF Trace!Depths
  <2> QED
    BY <2>3, <2>5, <2>6, <2>10, <2>12
<1>4. d \in 0 .. d
  BY <1>1
<1> QED
  BY <1>3, <1>4

\* A trace that ended and is not truncated has every call within reach.
LEMMA PathComplete == Trace!PathInv => Trace!UntruncatedIsComplete
<1> SUFFICES ASSUME Trace!PathInv, r8 = "done" PROVE Trace!UntruncatedIsComplete
  BY DEF Trace!UntruncatedIsComplete
<1> DEFINE all == Trace!EdgesOf(r1, Trace!Reached(r1, r2))
           found == {Trace!Key(r6[i]) : i \in DOMAIN r6}
           keys == {Trace!Key(e) : e \in all}
<1>1. Trace!TypeOK /\ r5 = None /\ (~ r7 => r3 = <<>>)
  BY DEF Trace!PathInv
<1>2. r6 \in Seq(all) /\ Len(r6) <= TraceMaxEdges
  BY <1>1 DEF Trace!TypeOK
<1>3. found \subseteq keys
  <2>1. \A i \in DOMAIN r6 : r6[i] \in all
    <3> HIDE DEF all
    <3> QED
      BY <1>2, Elements
  <2> HIDE DEF all
  <2> QED
    BY <2>1
<1>4. ASSUME ~ r7, NEW e \in all PROVE Trace!Key(e) \in found
  <2>1. PICK name \in Trace!Reached(r1, r2) : \E i \in DOMAIN r1.functions[name].calls :
          e = Trace!Target(r1, name, i) /\ e # None
    BY EdgeIsCall
  <2>2. PICK i \in DOMAIN r1.functions[name].calls : e = Trace!Target(r1, name, i) /\ e # None
    BY <2>1
  <2>3. /\ Trace!FollowedIsKnown
        /\ \E level \in [r4 -> Trace!Depths] : Trace!Ordered(level) /\ Trace!Covers(level)
    BY <1>4 DEF Trace!PathInv
  <2>4. PICK level \in [r4 -> Trace!Depths] : Trace!Covers(level)
    BY <2>3
  <2>5. PICK d \in Trace!Depths : Trace!ReachedBy(r1, r2, name, d)
    BY DEF Trace!Reached
  <2>6. PICK path \in [0 .. d -> DOMAIN r1.functions] :
          /\ path[0] = r2 /\ path[d] = name
          /\ \A j \in 1 .. d : path[j] \in Trace!Callees(r1, path[j - 1])
    BY <2>5 DEF Trace!ReachedBy
  <2>7. name \in r4
    BY <1>1, <1>4, <2>4, <2>6, PathsAreVisited, TraceAssumption
  <2>8. Trace!Known(e)
    BY <1>1, <2>2, <2>3, <2>7 DEF Trace!FollowedIsKnown, Trace!Followed
  <2> QED
    BY <2>8 DEF Trace!Known
<1>5. ~ r7 => found = keys
  <2> HIDE DEF all, found
  <2> QED
    BY <1>3, <1>4
<1> QED
  BY <1>2, <1>3, <1>5 DEF Trace!UntruncatedIsComplete

\* A trace of calls that is not called truncated is complete, and none has
\* an edge that is not a call within the depth, for any module, depth and limit
\* (call_path.py:333).
THEOREM TracesAreAlwaysComplete == Spec => []UntruncatedIsComplete
<1> DEFINE Inv == part = "callpath" => Trace!PathInv
<1>1. Init => Inv
  BY PathInit
<1>2. Inv /\ [Next]_vars => Inv'
  <2> SUFFICES ASSUME Inv, [Next]_vars, part' = "callpath" PROVE Trace!PathInv'
    OBVIOUS
  <2>1. CASE UNCHANGED vars
    <3>1. Trace!PathInv
      BY <2>1 DEF vars
    <3> QED
      BY <2>1, <3>1, PathOthers
  <2>2. CASE Next
    <3>1. part = "callpath" /\ Trace!Next
      BY <2>2 DEF Next
    <3> QED
      BY <3>1, PathStep
  <2> QED
    BY <2>1, <2>2
<1>3. Inv => UntruncatedIsComplete
  BY PathComplete DEF UntruncatedIsComplete
<1> QED
  BY <1>1, <1>2, <1>3, PTL DEF Spec

-----------------------------------------------------------------------------
(***************************************************************************)
(* EvidencePlan.  r1 is pc, r2 the disk, r3 the edits, r4 the rows, r5    *)
(* what was observed, r6 the evidence, r7 the catalog, r8 the plan, r9 the *)
(* error.                                                                  *)
(***************************************************************************)

\* Its numbers are those of Numbers.
LEMMA EvidenceNumbers ==
  /\ \A f : Evidence!Sum(f) = Sum(f)
  /\ \A S : Evidence!Greatest(S) = Greatest(S)
<1>1. \A f : Evidence!Sums(f) = Sums(f)
  BY Zenon DEF Evidence!Sums, Sums
<1> QED
  BY <1>1, Zenon DEF Evidence!Sum, Sum, Evidence!Greatest, Greatest

\* The sum of no numbers, and of one more.
LEMMA EvidenceSum ==
  ASSUME NEW f \in Seq(Int), NEW x \in Int
  PROVE  /\ Evidence!Sum(<<>>) = 0
         /\ Evidence!Sum(f) \in Int
         /\ Evidence!Sum(Append(f, x)) = Evidence!Sum(f) + x
BY EvidenceNumbers, SumAdds

\* What lines and rows cost is a number.
LEMMA EvidenceSize ==
  ASSUME NEW text \in Seq([no : Nat, len : Nat])
  PROVE  Evidence!Size(text) \in Int
<1>1. [i \in DOMAIN text |-> text[i].len] \in Seq(Int)
  <2>1. DOMAIN text = 1 .. Len(text) /\ Len(text) \in Nat
    OBVIOUS
  <2>2. \A i \in DOMAIN text : text[i] \in [no : Nat, len : Nat]
    BY Elements
  <2>3. [i \in DOMAIN text |-> text[i].len] \in [1 .. Len(text) -> Int]
    BY <2>1, <2>2
  <2> QED
    BY <2>1, <2>3, FunctionIsSeq
<1>2. Evidence!Sum([i \in DOMAIN text |-> text[i].len]) \in Int
  BY <1>1, EvidenceSum
<1> QED
  BY <1>2 DEF Evidence!Size

\* What fits is a part from the beginning, and within the budget.
LEMMA EvidenceFitting ==
  ASSUME NEW text \in Seq([no : Nat, len : Nat]), NEW budget \in Int
  PROVE  \E n \in 0 .. Len(text) :
           /\ Evidence!Fitting(text, budget) = SubSeq(text, 1, n)
           /\ n # 0 => Evidence!Size(SubSeq(text, 1, n)) + 1 <= budget
<1> DEFINE fits == {n \in 1 .. Len(text) : Evidence!Size(SubSeq(text, 1, n)) + 1 <= budget}
<1>1. Len(text) \in Nat /\ SubSeq(text, 1, 0) = <<>>
  OBVIOUS
<1>2. CASE fits = {}
  <2>1. Evidence!Fitting(text, budget) = <<>>
    BY <1>2 DEF Evidence!Fitting
  <2> QED
    BY <1>1, <2>1
<1>3. CASE fits # {}
  <2> DEFINE n == Evidence!Greatest(fits)
  <2>1. fits \subseteq 0 .. Len(text)
    BY <1>1
  <2>2. n \in fits
    <3> HIDE DEF fits
    <3> QED
      BY <1>1, <1>3, <2>1, EvidenceNumbers, GreatestIsIn
  <2>3. Evidence!Fitting(text, budget) = SubSeq(text, 1, n)
    BY <1>3, Zenon DEF Evidence!Fitting
  <2> HIDE DEF n
  <2> QED
    BY <1>1, <2>2, <2>3
<1> QED
  BY <1>2, <1>3

\* No rows cost nothing.
LEMMA EvidenceNoCost == Evidence!Cost(<<>>) = 0
<1>1. [i \in DOMAIN <<>> |-> EvidenceOverhead + Evidence!Size(<<>>[i].text)] = <<>>
  OBVIOUS
<1>2. Evidence!Sum(<<>>) = 0
  <2>1. <<>> \in Seq(Int) /\ 0 \in Int
    OBVIOUS
  <2> QED
    BY <2>1, EvidenceSum
<1> QED
  BY <1>1, <1>2 DEF Evidence!Cost

\* What one more row costs.
LEMMA EvidenceCost ==
  ASSUME NEW rows \in Seq(Evidence!Observed), NEW row \in Evidence!Observed
  PROVE  /\ Evidence!Cost(rows) \in Int /\ Evidence!Size(row.text) \in Int
         /\ Evidence!Cost(Append(rows, row)) = Evidence!Cost(rows) + EvidenceOverhead + Evidence!Size(row.text)
<1> DEFINE f == [i \in DOMAIN rows |-> EvidenceOverhead + Evidence!Size(rows[i].text)]
           x == EvidenceOverhead + Evidence!Size(row.text)
<1>1. \A r \in Evidence!Observed : r.text \in Seq([no : Nat, len : Nat])
  BY DEF Evidence!Observed, Evidence!Fragment
<1>2. \A r \in Evidence!Observed : Evidence!Size(r.text) \in Int
  BY <1>1, EvidenceSize
<1>3. EvidenceOverhead \in Int
  BY EvidenceAssumption
<1>4. f \in Seq(Int) /\ x \in Int
  <2>1. DOMAIN rows = 1 .. Len(rows) /\ Len(rows) \in Nat
    OBVIOUS
  <2>2. \A i \in DOMAIN rows : rows[i] \in Evidence!Observed
    BY Elements
  <2>3. f \in [1 .. Len(rows) -> Int]
    BY <1>2, <1>3, <2>1, <2>2
  <2>4. f \in Seq(Int)
    <3> HIDE DEF f
    <3> QED
      BY <2>1, <2>3, FunctionIsSeq
  <2> QED
    BY <1>2, <1>3, <2>4
<1>5. Append(f, x) = [i \in DOMAIN Append(rows, row) |-> EvidenceOverhead + Evidence!Size(Append(rows, row)[i].text)]
  <2>1. /\ Len(rows) \in Nat /\ DOMAIN rows = 1 .. Len(rows)
        /\ DOMAIN Append(rows, row) = 1 .. (Len(rows) + 1)
        /\ \A i \in DOMAIN rows : Append(rows, row)[i] = rows[i]
        /\ Append(rows, row)[Len(rows) + 1] = row
    BY Appended
  <2>2. Len(f) = Len(rows)
    BY <2>1
  <2>3. Append(f, x) = [i \in 1 .. Len(rows) + 1 |-> IF i = Len(rows) + 1 THEN x ELSE f[i]]
    BY <1>4, <2>1, <2>2
  <2>4. \A i \in 1 .. Len(rows) + 1 :
          (IF i = Len(rows) + 1 THEN x ELSE f[i]) = EvidenceOverhead + Evidence!Size(Append(rows, row)[i].text)
    BY <2>1
  <2> QED
    BY <2>1, <2>3, <2>4
<1>6. Evidence!Cost(rows) = Evidence!Sum(f) /\ Evidence!Cost(Append(rows, row)) = Evidence!Sum(Append(f, x))
  BY <1>5 DEF Evidence!Cost
<1> HIDE DEF f
<1>7. /\ Evidence!Sum(f) \in Int
      /\ Evidence!Sum(Append(f, x)) = Evidence!Sum(f) + x
  BY <1>4, EvidenceSum
<1> QED
  BY <1>2, <1>3, <1>6, <1>7

\* One row more keeps the rows whole, and the context within its limit.
LEMMA EvidenceCompacted ==
  ASSUME NEW acc, acc.rows \in Seq(Evidence!Observed), acc.used = Evidence!Cost(acc.rows),
         acc.used <= EvidenceMaxContext, acc.full \in BOOLEAN,
         acc = [rows |-> acc.rows, used |-> acc.used, full |-> acc.full],
         NEW row \in Evidence!Observed
  PROVE  LET more == Evidence!Compacted(acc, row)
         IN /\ more = [rows |-> more.rows, used |-> more.used, full |-> more.full]
            /\ more.rows \in Seq(Evidence!Observed) /\ more.full \in BOOLEAN
            /\ more.used = Evidence!Cost(more.rows) /\ more.used <= EvidenceMaxContext
<1> DEFINE remaining == EvidenceMaxContext - acc.used
           budget == remaining - EvidenceOverhead
           text == IF Evidence!Size(row.text) <= budget THEN row.text ELSE Evidence!Fitting(row.text, budget)
           more == Evidence!Compacted(acc, row)
           kept == [path |-> row.path, start |-> row.start,
                    end |-> Evidence!Lesser(row.end, row.start + Len(text) - 1),
                    total |-> row.total, text |-> text]
           Stays == acc.full \/ remaining <= EvidenceReserve \/ text = <<>>
<1>1. more = IF Stays THEN [acc EXCEPT !.full = TRUE]
             ELSE [rows |-> Append(acc.rows, kept), used |-> acc.used + EvidenceOverhead + Evidence!Size(text), full |-> FALSE]
  BY DEF Evidence!Compacted
<1>2. EvidenceMaxContext \in Int /\ EvidenceOverhead \in Int /\ acc.used \in Int /\ budget \in Int
  BY EvidenceAssumption, EvidenceCost
<1>3. /\ row.text \in Seq([no : Nat, len : Nat]) /\ Len(row.text) = row.end - row.start + 1
      /\ row.path \in EvidenceFiles
      /\ row.start \in Nat \ {0} /\ row.end \in Nat /\ row.total \in Nat
      /\ row.start <= row.end /\ row.end <= row.total
      /\ \A k \in 1 .. Len(row.text) : row.text[k].no = row.start + k - 1
      /\ row = [path |-> row.path, start |-> row.start, end |-> row.end, total |-> row.total, text |-> row.text]
  BY DEF Evidence!Observed, Evidence!Fragment
<1>4. Evidence!Size(row.text) \in Int
  BY EvidenceCost
<1> HIDE DEF more
<1>5. CASE Stays
  <2>1. more = [rows |-> acc.rows, used |-> acc.used, full |-> TRUE]
    <3> HIDE DEF kept, text, remaining
    <3> QED
      BY <1>1, <1>5
  <2> QED
    BY <2>1 DEF more
<1>6. CASE ~ Stays
  <2>1. more = [rows |-> Append(acc.rows, kept), used |-> acc.used + EvidenceOverhead + Evidence!Size(text), full |-> FALSE]
    <3> HIDE DEF kept, text, remaining
    <3> QED
      BY <1>1, <1>6
  <2>2. PICK n \in 1 .. Len(row.text) : text = SubSeq(row.text, 1, n)
    <3>1. CASE Evidence!Size(row.text) <= budget
      <4>1. text = row.text /\ Len(row.text) \in 1 .. Len(row.text) /\ row.text = SubSeq(row.text, 1, Len(row.text))
        BY <1>3, <3>1
      <4> QED
        BY <4>1
    <3>2. CASE ~ (Evidence!Size(row.text) <= budget)
      <4>1. text = Evidence!Fitting(row.text, budget)
        BY <3>2
      <4>2. PICK m \in 0 .. Len(row.text) : Evidence!Fitting(row.text, budget) = SubSeq(row.text, 1, m)
        BY <1>2, <1>3, EvidenceFitting
      <4>3. m # 0
        <5>1. SubSeq(row.text, 1, 0) = <<>> /\ text # <<>>
          BY <1>3, <1>6, SMT
        <5> HIDE DEF text
        <5> QED
          BY <4>1, <4>2, <5>1
      <4>4. m \in 1 .. Len(row.text)
        BY <1>3, <4>3
      <4> QED
        BY <4>1, <4>2, <4>4, Zenon
    <3> QED
      BY <3>1, <3>2
  <2>3. Evidence!Size(text) <= budget
    <3>1. CASE Evidence!Size(row.text) <= budget
      BY <3>1
    <3>2. CASE ~ (Evidence!Size(row.text) <= budget)
      <4>1. text = Evidence!Fitting(row.text, budget)
        BY <3>2
      <4>2. PICK m \in 0 .. Len(row.text) :
              /\ Evidence!Fitting(row.text, budget) = SubSeq(row.text, 1, m)
              /\ m # 0 => Evidence!Size(SubSeq(row.text, 1, m)) + 1 <= budget
        BY <1>2, <1>3, EvidenceFitting
      <4>3. m # 0
        <5>1. SubSeq(row.text, 1, 0) = <<>> /\ text # <<>>
          BY <1>3, <1>6, SMT
        <5> HIDE DEF text
        <5> QED
          BY <4>1, <4>2, <5>1
      <4>4. Evidence!Size(text) + 1 <= budget
        BY <4>1, <4>2, <4>3
      <4>5. text \in Seq([no : Nat, len : Nat])
        <5>1. row.text \in Seq([no : Nat, len : Nat]) /\ n \in 0 .. Len(row.text)
          BY <1>3
        <5> HIDE DEF text
        <5> QED
          BY <2>2, <5>1, Prefix, Zenon
      <4>6. Evidence!Size(text) \in Int
        BY <4>5, EvidenceSize
      <4> HIDE DEF budget, text
      <4> QED
        BY <1>2, <4>4, <4>6
    <3> QED
      BY <3>1, <3>2
  <2> HIDE DEF text
  <2>4. /\ text \in Seq([no : Nat, len : Nat]) /\ Len(text) = n /\ DOMAIN text = 1 .. n
        /\ \A k \in 1 .. n : text[k] = row.text[k]
    <3>1. row.text \in Seq([no : Nat, len : Nat]) /\ n \in 0 .. Len(row.text)
      BY <1>3
    <3>2. /\ SubSeq(row.text, 1, n) \in Seq([no : Nat, len : Nat])
          /\ Len(SubSeq(row.text, 1, n)) = n /\ DOMAIN SubSeq(row.text, 1, n) = 1 .. n
          /\ \A k \in 1 .. n : SubSeq(row.text, 1, n)[k] = row.text[k]
      <4> DEFINE Line == [no : Nat, len : Nat]
                 whole == row.text
      <4>1. whole \in Seq(Line) /\ n \in 0 .. Len(whole)
        BY <3>1
      <4> HIDE DEF Line, whole
      <4>2. /\ SubSeq(whole, 1, n) \in Seq(Line)
            /\ Len(SubSeq(whole, 1, n)) = n /\ DOMAIN SubSeq(whole, 1, n) = 1 .. n
            /\ \A k \in 1 .. n : SubSeq(whole, 1, n)[k] = whole[k]
        BY <4>1, Prefix
      <4> QED
        BY <4>2 DEF Line, whole
    <3> QED
      BY <2>2, <3>2, Zenon
  <2>5. /\ kept = [path |-> row.path, start |-> row.start, end |-> row.start + n - 1, total |-> row.total, text |-> text]
        /\ row.start + n - 1 \in Nat /\ row.start <= row.start + n - 1 /\ row.start + n - 1 <= row.end
    <3>1. n \in Nat \ {0} /\ row.start + n - 1 <= row.end
      BY <1>3
    <3>2. Evidence!Lesser(row.end, row.start + Len(text) - 1) = row.start + n - 1
      BY <1>3, <2>4, <3>1, SMTT(30) DEF Evidence!Lesser
    <3>3. row.start + n - 1 \in Nat /\ row.start <= row.start + n - 1
      BY <1>3, <3>1
    <3> QED
      BY <3>1, <3>2, <3>3
  <2> HIDE DEF kept
  <2>6. kept \in Evidence!Fragment
    <3>1. \A k \in 1 .. n : text[k].no = row.start + k - 1
      <4>1. \A k \in 1 .. n : k \in 1 .. Len(row.text)
        BY <1>3
      <4> QED
        BY <1>3, <2>4, <4>1, Zenon
    <3>2. kept.text = text /\ kept.start = row.start /\ kept.end = row.start + n - 1 /\ kept.total = row.total
      BY <2>5
    <3>3. n = row.start + n - 1 - row.start + 1 /\ row.start + n - 1 <= row.total
      BY <1>3, <2>5, SMTT(30)
    <3>4. kept \in [path : EvidenceFiles, start : Nat \ {0}, end : Nat, total : Nat, text : Seq([no : Nat, len : Nat])]
      BY <1>3, <2>4, <2>5
    <3>5. /\ kept.start <= kept.end /\ kept.end <= kept.total
          /\ Len(kept.text) = kept.end - kept.start + 1
          /\ \A k \in DOMAIN kept.text : kept.text[k].no = kept.start + k - 1
      <4>1. kept.start <= kept.end /\ kept.end <= kept.total
        BY <2>5, <3>2, <3>3, Zenon
      <4>2. Len(kept.text) = kept.end - kept.start + 1
        <5>1. Len(kept.text) = n
          BY <2>4, <3>2, Zenon
        <5>2. kept.end - kept.start + 1 = n
          BY <1>3, <3>2
        <5> QED
          BY <5>1, <5>2, Zenon
      <4>3. \A k \in DOMAIN kept.text : kept.text[k].no = kept.start + k - 1
        BY <2>4, <3>1, <3>2, Zenon
      <4> QED
        BY <4>1, <4>2, <4>3
    <3> QED
      BY <3>4, <3>5 DEF Evidence!Fragment
  <2>7. kept \in Evidence!Observed
    BY <2>5, <2>6 DEF Evidence!Observed
  <2>8. Append(acc.rows, kept) \in Seq(Evidence!Observed)
    BY <2>7
  <2>9. /\ Evidence!Cost(Append(acc.rows, kept)) = acc.used + EvidenceOverhead + Evidence!Size(text)
        /\ Evidence!Size(text) \in Int
    BY <2>5, <2>7, EvidenceCost
  <2>10. acc.used + EvidenceOverhead + Evidence!Size(text) <= EvidenceMaxContext
    BY <1>2, <2>3, <2>9
  <2> QED
    BY <2>1, <2>8, <2>9, <2>10 DEF more
<1> QED
  BY <1>5, <1>6

\* What is sent to the model is made of whole rows, and within the limit.
LEMMA EvidenceCompaction ==
  ASSUME NEW seq \in Seq(Evidence!Observed)
  PROVE  /\ Evidence!CompactEvidence(seq) \in Seq(Evidence!Observed)
         /\ Evidence!Cost(Evidence!CompactEvidence(seq)) <= EvidenceMaxContext
<1> DEFINE N == Len(seq)
           T == {acc \in [rows : Seq(Evidence!Observed), used : Int, full : BOOLEAN] :
                   acc.used = Evidence!Cost(acc.rows) /\ acc.used <= EvidenceMaxContext}
           b == [rows |-> <<>>, used |-> 0, full |-> FALSE]
           step == [p \in T \X (1 .. N) |-> Evidence!Compacted(p[1], seq[p[2]])]
<1>1. N \in Nat /\ \A n \in 1 .. N : seq[n] \in Evidence!Observed
  BY Elements
<1>2. b \in T
  BY EvidenceNoCost, EvidenceAssumption
<1>3. step \in [T \X (1 .. N) -> T]
  <2> SUFFICES ASSUME NEW acc \in T, NEW n \in 1 .. N PROVE Evidence!Compacted(acc, seq[n]) \in T
    OBVIOUS
  <2> DEFINE more == Evidence!Compacted(acc, seq[n])
  <2>1. /\ acc.rows \in Seq(Evidence!Observed) /\ acc.used = Evidence!Cost(acc.rows)
        /\ acc.used <= EvidenceMaxContext /\ acc.full \in BOOLEAN
        /\ acc = [rows |-> acc.rows, used |-> acc.used, full |-> acc.full]
    OBVIOUS
  <2>2. seq[n] \in Evidence!Observed
    BY <1>1
  <2>3. /\ more = [rows |-> more.rows, used |-> more.used, full |-> more.full]
        /\ more.rows \in Seq(Evidence!Observed) /\ more.full \in BOOLEAN
        /\ more.used = Evidence!Cost(more.rows) /\ more.used <= EvidenceMaxContext
    BY <2>1, <2>2, EvidenceCompacted
  <2>4. Evidence!Cost(more.rows) \in Int
    BY <2>2, <2>3, EvidenceCost
  <2> HIDE DEF more
  <2>5. more \in T
    BY <2>3, <2>4
  <2> QED
    BY <2>5 DEF more
<1>4. PICK g : Iterates(g, N, T, b, step)
  <2> HIDE DEF T, b, step, N
  <2> QED
    BY <1>1, <1>2, <1>3, LoopsCompute
<1>5. g \in [0 .. N -> T] /\ g[0] = b /\ \A n \in 1 .. N : g[n] = Evidence!Compacted(g[n - 1], seq[n])
  <2>1. g \in [0 .. N -> T] /\ g[0] = b /\ \A n \in 1 .. N : g[n] = step[<<g[n - 1], n>>]
    <3> HIDE DEF T, b, step, N
    <3> QED
      BY <1>4 DEF Iterates
  <2>2. ASSUME NEW n \in 1 .. N PROVE g[n] = Evidence!Compacted(g[n - 1], seq[n])
    <3> HIDE DEF T
    <3>1. n - 1 \in 0 .. N
      BY <1>1
    <3>2. g[n - 1] \in T
      BY <2>1, <3>1
    <3>3. <<g[n - 1], n>> \in T \X (1 .. N)
      BY <3>2
    <3> QED
      BY <2>1, <3>3
  <2> QED
    BY <2>1, <2>2
<1>6. g = [n \in 0 .. N |-> IF n = 0 THEN b ELSE Evidence!Compacted(g[n - 1], seq[n])]
  <2> HIDE DEF T, b
  <2> QED
    BY <1>1, <1>5
<1> DEFINE c == Evidence!Compaction(seq)
<1>7. c = [n \in 0 .. N |-> IF n = 0 THEN b ELSE Evidence!Compacted(c[n - 1], seq[n])]
  BY <1>6, Zenon DEF Evidence!Compaction
<1> HIDE DEF c
<1>8. \A n \in 0 .. N : c[n] \in T
  <2>1. c[0] = b /\ c[0] \in T
    <3> HIDE DEF b, T
    <3> QED
      BY <1>1, <1>2, <1>7
  <2>2. ASSUME NEW n \in 1 .. N, c[n - 1] \in T PROVE c[n] \in T
    <3> HIDE DEF b, T
    <3>1. c[n] = Evidence!Compacted(c[n - 1], seq[n])
      BY <1>1, <1>7
    <3>2. step[<<c[n - 1], n>>] = Evidence!Compacted(c[n - 1], seq[n]) /\ step[<<c[n - 1], n>>] \in T
      BY <1>3, <2>2
    <3> QED
      BY <3>1, <3>2
  <2> HIDE DEF T, b, N
  <2> QED
    BY <1>1, <2>1, <2>2, StepByStep
<1>9. c[N] \in T /\ Evidence!CompactEvidence(seq) = c[N].rows
  BY <1>1, <1>8 DEF Evidence!CompactEvidence, c
<1> QED
  BY <1>9

\* What read_file returns of a range that it could return whole.
LEMMA EvidenceReads ==
  ASSUME r2 \in [EvidenceFiles -> EvidenceTexts], NEW path \in EvidenceFiles,
         NEW first \in Nat \ {0}, NEW last \in Nat, first <= last,
         Evidence!ReadFile(path, first, last).end = last
  PROVE  Evidence!ReadFile(path, first, last) \in Evidence!Observed
<1> DEFINE text == r2[path]
           lines == [i \in 1 .. last - first + 1 |-> [no |-> first + i - 1, len |-> text[first + i - 1]]]
           read == Evidence!ReadFile(path, first, last)
<1>1. text \in Seq(Nat) /\ Len(text) \in Nat
  BY EvidenceAssumption
<1>2. last <= Len(text) /\ Evidence!Lesser(Len(text), last) = last
  <2>1. read.end = Evidence!Lesser(Len(text), last)
    BY DEF Evidence!ReadFile
  <2> HIDE DEF text
  <2> QED
    BY <1>1, <2>1 DEF Evidence!Lesser
<1>3. read = [path |-> path, start |-> first, end |-> last, total |-> Len(text), text |-> lines]
  BY <1>2 DEF Evidence!ReadFile
<1> HIDE DEF read
<1>4. lines \in Seq([no : Nat, len : Nat]) /\ Len(lines) = last - first + 1 /\ DOMAIN lines = 1 .. last - first + 1
  <2>1. \A i \in 1 .. last - first + 1 : first + i - 1 \in 1 .. Len(text)
    BY <1>1, <1>2
  <2>2. \A i \in 1 .. last - first + 1 : text[first + i - 1] \in Nat
    <3> SUFFICES ASSUME NEW i \in 1 .. last - first + 1 PROVE text[first + i - 1] \in Nat
      OBVIOUS
    <3>1. first + i - 1 \in 1 .. Len(text)
      BY <2>1
    <3> HIDE DEF text
    <3> QED
      BY <1>1, <3>1
  <2>3. lines \in [1 .. last - first + 1 -> [no : Nat, len : Nat]] /\ last - first + 1 \in Nat
    <3>1. \A i \in 1 .. last - first + 1 : first + i - 1 \in Nat
      OBVIOUS
    <3> HIDE DEF text
    <3> QED
      BY <2>2, <3>1
  <2> HIDE DEF lines
  <2> QED
    BY <2>3, FunctionIsSeq
<1>5. \A k \in 1 .. last - first + 1 : lines[k].no = first + k - 1
  OBVIOUS
<1> HIDE DEF lines, text
<1>6. /\ read.path = path /\ read.start = first /\ read.end = last /\ read.total = Len(text)
      /\ read.text = lines
  BY <1>3
<1>7. read \in [path : EvidenceFiles, start : Nat \ {0}, end : Nat, total : Nat, text : Seq([no : Nat, len : Nat])]
  BY <1>1, <1>3, <1>4
<1>8. read \in Evidence!Fragment
  <2>1. \A k \in DOMAIN read.text : read.text[k].no = read.start + k - 1
    BY <1>4, <1>5, <1>6, Zenon
  <2>2. Len(read.text) = read.end - read.start + 1
    BY <1>4, <1>6, Zenon
  <2> QED
    BY <1>2, <1>6, <1>7, <2>1, <2>2 DEF Evidence!Fragment
<1> QED
  BY <1>6, <1>8 DEF Evidence!Observed, read, text

\* A chunk starts and ends at lines, and is not empty.
LEMMA EvidenceChunks ==
  ASSUME r2 \in [EvidenceFiles -> EvidenceTexts], NEW p \in EvidenceFiles, NEW c \in Evidence!Chunks(p)
  PROVE  c \in [path : EvidenceFiles, start : Nat \ {0}, end : Nat] /\ c.start <= c.end
<1> DEFINE n == Len(r2[p])
<1>1. n \in Nat /\ EvidenceChunkSize \in Nat \ {0}
  BY EvidenceAssumption
<1> HIDE DEF n
<1>2. PICK s \in Evidence!ChunkStarts(n) :
        c = [path |-> p, start |-> s, end |-> Evidence!Lesser(s + EvidenceChunkSize - 1, n)]
  BY DEF Evidence!Chunks, n
<1>3. s \in 1 .. n
  BY DEF Evidence!ChunkStarts
<1>4. Evidence!Lesser(s + EvidenceChunkSize - 1, n) \in Nat /\ s <= Evidence!Lesser(s + EvidenceChunkSize - 1, n)
  BY <1>1, <1>3 DEF Evidence!Lesser
<1> QED
  BY <1>1, <1>2, <1>3, <1>4

\* A planning starts with nothing read, shown or cited.
LEMMA EvidenceInit == part = "evidence" /\ Init => Evidence!CitationInv
<1> SUFFICES ASSUME part = "evidence", Init PROVE Evidence!CitationInv
  OBVIOUS
<1>1. Evidence!Init
  BY DEF Init
<1>2. Evidence!Catalog(<<>>) = [p \in {} |-> None]
  <2>1. {<<>>[i].path : i \in DOMAIN <<>>} = {}
    OBVIOUS
  <2> QED
    BY <2>1, Zenon DEF Evidence!Catalog
<1>3. Evidence!Cost(<<>>) <= EvidenceMaxContext
  BY EvidenceNoCost, EvidenceAssumption
<1> QED
  BY <1>1, <1>2, <1>3 DEF Evidence!Init, Evidence!CitationInv

\* A step that neither edits a file nor changes what is shown keeps the rest.
LEMMA EvidenceStep == Evidence!CitationInv /\ Evidence!Next => Evidence!CitationInv'
<1> SUFFICES ASSUME Evidence!CitationInv, Evidence!Next PROVE Evidence!CitationInv'
  OBVIOUS
<1>1. /\ r3 \in Nat /\ r2 \in [EvidenceFiles -> EvidenceTexts]
      /\ r1 \in {"search", "read", "analyze", "present", "end"}
      /\ r4 \in Seq([path : EvidenceFiles, start : Nat \ {0}, end : Nat])
      /\ \A i \in DOMAIN r4 : r4[i].start <= r4[i].end
      /\ r5 \in Seq(Evidence!Observed) /\ r6 \in Seq(Evidence!Observed)
      /\ Evidence!Cost(r6) <= EvidenceMaxContext
      /\ r7 = Evidence!Catalog(r6)
      /\ r8 # None => \A ref \in r8 : Evidence!Supported(ref)
      /\ r1 # "end" => r9 = None
      /\ r1 \notin {"present", "end"} => r8 = None
      /\ r9 # None => r8 = None
  BY DEF Evidence!CitationInv
<1>2. r2' = r2 /\ r3' = r3 => Evidence!Observed' = Evidence!Observed
  BY DEF Evidence!Observed, Evidence!Fragment
<1>3. r7' = r7 => \A ref : Evidence!Supported(ref)' = Evidence!Supported(ref)
  BY DEF Evidence!Supported
<1>4. r6' = r6 => Evidence!Cost(r6)' = Evidence!Cost(r6) /\ Evidence!Catalog(r6)' = Evidence!Catalog(r6)
  BY DEF Evidence!Cost, Evidence!Catalog, Evidence!Size, Evidence!Sum, Evidence!Sums
<1>5. CASE Evidence!Search
  <2>1. r4' \in Seq([path : EvidenceFiles, start : Nat \ {0}, end : Nat]) /\ \A i \in DOMAIN r4' : r4'[i].start <= r4'[i].end
    <3> DEFINE found == UNION {Evidence!Chunks(p) : p \in EvidenceFiles}
    <3>1. r4' = r4 \/ \E n \in 1 .. EvidenceTopK : r4' \in [1 .. n -> found]
      BY <1>5 DEF Evidence!Search
    <3>2. CASE r4' = r4
      BY <1>1, <3>2
    <3>3. ASSUME NEW n \in 1 .. EvidenceTopK, r4' \in [1 .. n -> found]
          PROVE  r4' \in Seq([path : EvidenceFiles, start : Nat \ {0}, end : Nat]) /\ \A i \in DOMAIN r4' : r4'[i].start <= r4'[i].end
      <4>1. \A c \in found : c \in [path : EvidenceFiles, start : Nat \ {0}, end : Nat] /\ c.start <= c.end
        BY <1>1, EvidenceChunks
      <4> HIDE DEF found
      <4>2. \A i \in 1 .. n : r4'[i] \in [path : EvidenceFiles, start : Nat \ {0}, end : Nat] /\ r4'[i].start <= r4'[i].end
        BY <3>3, <4>1
      <4>3. n \in Nat /\ r4' \in [1 .. n -> [path : EvidenceFiles, start : Nat \ {0}, end : Nat]]
        <5>1. n \in Nat
          BY EvidenceAssumption
        <5> QED
          BY <3>3, <4>2, <5>1
      <4> DEFINE S == [path : EvidenceFiles, start : Nat \ {0}, end : Nat]
      <4>4. n \in Nat /\ r4' \in [1 .. n -> S]
        BY <4>3
      <4> HIDE DEF S
      <4>5. r4' \in Seq(S) /\ DOMAIN r4' = 1 .. n
        BY <4>4, FunctionIsSeq
      <4> QED
        BY <4>2, <4>5 DEF S
    <3> QED
      BY <3>1, <3>2, <3>3
  <2>2. r2' = r2 /\ r3' = r3 /\ r5' = r5 /\ r6' = r6 /\ r7' = r7 /\ r8' = r8 /\ r8 = None /\ r1' \in {"read", "end"}
        /\ (r1' = "read" => r9' = None)
    BY <1>1, <1>5 DEF Evidence!Search, Evidence!Fail
  <2> QED
    BY <1>1, <1>2, <1>3, <1>4, <2>1, <2>2 DEF Evidence!CitationInv
<1>6. CASE Evidence!ReadRow
  <2> DEFINE row == r4[1]
             result == Evidence!ReadFile(row.path, row.start, row.end)
  <2>1. /\ r1 = "read" /\ r4 # <<>> /\ r4' = Tail(r4) /\ r2' = r2 /\ r3' = r3 /\ r6' = r6 /\ r7' = r7 /\ r8' = r8
        /\ \/ r1' = r1 /\ r5' = r5 /\ r9' = r9
           \/ result.end = row.end /\ r5' = Append(r5, result) /\ r1' = r1 /\ r9' = r9
           \/ r5' = r5 /\ r1' = "end"
    BY <1>6 DEF Evidence!ReadRow, Evidence!Fail
  <2>2. row \in [path : EvidenceFiles, start : Nat \ {0}, end : Nat] /\ row.start <= row.end
    <3>1. 1 \in DOMAIN r4
      BY <1>1, <2>1
    <3> QED
      BY <1>1, <3>1, Elements
  <2>3. result.end = row.end => result \in Evidence!Observed
    BY <1>1, <2>2, EvidenceReads
  <2>4. r4' \in Seq([path : EvidenceFiles, start : Nat \ {0}, end : Nat]) /\ \A i \in DOMAIN r4' : r4'[i].start <= r4'[i].end
    <3> DEFINE S == [path : EvidenceFiles, start : Nat \ {0}, end : Nat]
    <3>1. r4 \in Seq(S) /\ r4 # <<>>
      BY <1>1, <2>1
    <3> HIDE DEF S
    <3>2. Tail(r4) \in Seq(S) /\ \A i \in DOMAIN Tail(r4) : i + 1 \in DOMAIN r4 /\ Tail(r4)[i] = r4[i + 1]
      BY <3>1
    <3> QED
      BY <1>1, <2>1, <3>2 DEF S
  <2>5. r5' \in Seq(Evidence!Observed)
    <3> DEFINE S == Evidence!Observed
    <3>1. r5 \in Seq(S) /\ (r5' = r5 \/ (r5' = Append(r5, result) /\ result \in S))
      BY <1>1, <2>1, <2>3
    <3> HIDE DEF S, result, row
    <3>2. r5' \in Seq(S)
      BY <3>1
    <3> QED
      BY <3>2 DEF S
  <2> HIDE DEF result, row
  <2> QED
    BY <1>1, <1>2, <1>3, <1>4, <2>1, <2>4, <2>5 DEF Evidence!CitationInv
<1>7. CASE Evidence!Collect
  <2>1. /\ r1 = "read" /\ r2' = r2 /\ r3' = r3 /\ r4' = r4 /\ r5' = r5 /\ r8' = r8
        /\ \/ r1' = "end" /\ r6' = r6 /\ r7' = r7
           \/ /\ r6' = Evidence!CompactEvidence(r5) /\ r7' = Evidence!Catalog(Evidence!CompactEvidence(r5))
              /\ r1' = "analyze" /\ r9' = r9
    BY <1>7 DEF Evidence!Collect, Evidence!Fail
  <2>2. CASE r6' = r6 /\ r7' = r7 /\ r1' = "end"
    BY <1>1, <1>2, <1>3, <1>4, <2>1, <2>2 DEF Evidence!CitationInv
  <2>3. CASE /\ r6' = Evidence!CompactEvidence(r5) /\ r7' = Evidence!Catalog(Evidence!CompactEvidence(r5))
             /\ r1' = "analyze" /\ r9' = r9
    <3>1. r6' \in Seq(Evidence!Observed) /\ Evidence!Cost(r6') <= EvidenceMaxContext /\ r7' = Evidence!Catalog(r6')
      BY <1>1, <2>3, EvidenceCompaction
    <3>2. Evidence!Cost(r6)' = Evidence!Cost(r6') /\ Evidence!Catalog(r6)' = Evidence!Catalog(r6')
      BY DEF Evidence!Cost, Evidence!Catalog, Evidence!Size, Evidence!Sum, Evidence!Sums
    <3> QED
      BY <1>1, <1>2, <2>1, <2>3, <3>1, <3>2 DEF Evidence!CitationInv
  <2> QED
    BY <2>1, <2>2, <2>3
<1>8. ASSUME NEW refs, Evidence!Analyze(refs) PROVE Evidence!CitationInv'
  <2>1. /\ r1 = "analyze" /\ r2' = r2 /\ r3' = r3 /\ r4' = r4 /\ r5' = r5 /\ r6' = r6 /\ r7' = r7
        /\ \/ r1' = "end" /\ r8' = r8
           \/ r8' = refs /\ (\A ref \in refs : Evidence!Supported(ref)) /\ r1' = "present" /\ r9' = r9
    BY <1>8 DEF Evidence!Analyze, Evidence!Fail
  <2> QED
    BY <1>1, <1>2, <1>3, <1>4, <2>1 DEF Evidence!CitationInv
<1>9. CASE Evidence!Present
  <2>1. /\ r1 = "present" /\ r1' = "end" /\ r2' = r2 /\ r3' = r3 /\ r4' = r4 /\ r5' = r5 /\ r6' = r6 /\ r7' = r7
        /\ r8' = r8 /\ r9' = r9
    BY <1>9 DEF Evidence!Present
  <2> QED
    BY <1>1, <1>2, <1>3, <1>4, <2>1 DEF Evidence!CitationInv
<1>10. ASSUME NEW path \in EvidenceFiles, NEW text \in EvidenceTexts, Evidence!EditFile(path, text)
       PROVE  Evidence!CitationInv'
  <2>1. /\ r2' = [r2 EXCEPT ![path] = text] /\ r3' = r3 + 1 /\ r1' = r1 /\ r4' = r4 /\ r5' = r5 /\ r6' = r6
        /\ r7' = r7 /\ r8' = r8 /\ r9' = r9
    BY <1>10 DEF Evidence!EditFile
  <2>2. r2' \in [EvidenceFiles -> EvidenceTexts] /\ r3' \in Nat /\ r3' # 0
    BY <1>1, <2>1
  <2>3. Evidence!Observed \subseteq Evidence!Observed'
    BY <2>2 DEF Evidence!Observed, Evidence!Fragment
  <2>4. r5' \in Seq(Evidence!Observed') /\ r6' \in Seq(Evidence!Observed')
    <3> DEFINE before == Evidence!Observed
               after == Evidence!Observed'
    <3>1. r5 \in Seq(before) /\ r6 \in Seq(before) /\ before \subseteq after /\ r5' = r5 /\ r6' = r6
      BY <1>1, <2>1, <2>3
    <3> HIDE DEF before, after
    <3>2. \A s \in Seq(before) : s \in Seq(after)
      BY <3>1, Wider
    <3> QED
      BY <3>1, <3>2 DEF after
  <2> QED
    BY <1>1, <1>3, <1>4, <2>1, <2>2, <2>4 DEF Evidence!CitationInv
<1> QED
  BY <1>5, <1>6, <1>7, <1>8, <1>9, <1>10 DEF Evidence!Next

\* What carries it implies the property.
LEMMA EvidenceCited == Evidence!CitationInv => Evidence!CitationsAreShown
<1> SUFFICES ASSUME Evidence!CitationInv PROVE Evidence!CitationsAreShown
  OBVIOUS
<1>1. /\ r6 \in Seq(Evidence!Observed) /\ r7 = Evidence!Catalog(r6) /\ Evidence!Cost(r6) <= EvidenceMaxContext
      /\ r8 # None => \A ref \in r8 : Evidence!Supported(ref)
      /\ r9 # None => r8 = None
  BY DEF Evidence!CitationInv
<1> DEFINE Of(p) == {i \in DOMAIN r6 : r6[i].path = p}
           First(p) == CHOOSE i \in Of(p) : \A j \in Of(p) : i <= j
<1>2. \A i \in DOMAIN r6 : r6[i] \in Evidence!Observed
  BY <1>1, Elements
<1>3. DOMAIN r6 \subseteq Nat
  BY <1>1
<1>4. /\ DOMAIN r7 = {r6[i].path : i \in DOMAIN r6}
      /\ \A p \in DOMAIN r7 : /\ r7[p].lines = UNION {r6[i].start .. r6[i].end : i \in Of(p)}
                              /\ r7[p].total = r6[First(p)].total
  BY <1>1 DEF Evidence!Catalog
<1> HIDE DEF Of, First
<1>5. ASSUME r8 # None, NEW ref \in r8 PROVE ref.start .. ref.end \subseteq Evidence!Shown(ref.path)
  <2>1. ref.path \in DOMAIN r7 /\ ref.start .. ref.end \subseteq r7[ref.path].lines
    BY <1>1, <1>5 DEF Evidence!Supported
  <2>2. ASSUME NEW n \in ref.start .. ref.end PROVE n \in Evidence!Shown(ref.path)
    <3>1. n \in UNION {r6[i].start .. r6[i].end : i \in Of(ref.path)}
      BY <1>4, <2>1
    <3>2. PICK i \in Of(ref.path) : n \in r6[i].start .. r6[i].end
      BY <3>1
    <3>3. i \in DOMAIN r6 /\ r6[i].path = ref.path
      BY <3>2 DEF Of
    <3> DEFINE r == r6[i]
               k == n - r.start + 1
    <3>4. r \in Evidence!Fragment
      BY <1>2, <3>3 DEF Evidence!Observed
    <3> HIDE DEF r
    <3>5. /\ r.start \in Nat \ {0} /\ r.end \in Nat /\ Len(r.text) = r.end - r.start + 1
          /\ r.text \in Seq([no : Nat, len : Nat])
          /\ \A j \in DOMAIN r.text : r.text[j].no = r.start + j - 1
      BY <3>4 DEF Evidence!Fragment
    <3>6. n \in r.start .. r.end
      BY <3>2 DEF r
    <3>7. k \in 1 .. Len(r.text) /\ r.start + k - 1 = n
      BY <3>5, <3>6
    <3>8. DOMAIN r.text = 1 .. Len(r.text)
      BY <3>5
    <3> HIDE DEF k
    <3>9. r.text[k].no = n /\ k \in DOMAIN r.text
      BY <3>5, <3>7, <3>8, Zenon
    <3>10. n \in {r6[i].text[j].no : j \in DOMAIN r6[i].text}
      BY <3>9, Zenon DEF r
    <3> QED
      BY <3>3, <3>10 DEF Evidence!Shown
  <2> QED
    BY <2>2
<1>6. ASSUME r3 = 0, NEW i \in DOMAIN r6
      PROVE  Evidence!Supported([path |-> r6[i].path, start |-> r6[i].start, end |-> r6[i].end])
  <2> DEFINE p == r6[i].path
  <2>1. i \in Of(p) /\ p \in DOMAIN r7
    BY <1>4 DEF Of
  <2>2. Of(p) \subseteq Nat /\ Of(p) # {}
    BY <1>3, <2>1 DEF Of
  <2>3. First(p) \in Of(p)
    <3>1. \E m \in Of(p) : \A j \in Of(p) : m <= j
      <4> HIDE DEF p
      <4> QED
        BY <2>2, LeastNumber
    <3> QED
      BY <3>1 DEF First
  <2>4. First(p) \in DOMAIN r6 /\ r6[First(p)].path = p
    BY <2>3 DEF Of
  <2>5. r6[First(p)].total = Len(r2[p]) /\ r6[i].total = Len(r2[p])
    BY <1>2, <1>6, <2>4 DEF Evidence!Observed
  <2>6. r6[i].end <= r6[i].total
    BY <1>2 DEF Evidence!Observed, Evidence!Fragment
  <2>7. r6[i].end <= r7[p].total
    BY <1>4, <2>1, <2>5, <2>6
  <2>8. r6[i].start .. r6[i].end \subseteq r7[p].lines
    BY <1>4, <2>1
  <2> QED
    BY <2>1, <2>7, <2>8 DEF Evidence!Supported
<1> QED
  BY <1>1, <1>5, <1>6 DEF Evidence!CitationsAreShown

-----------------------------------------------------------------------------
(***************************************************************************)
(* CitedContext.  r1 is via, r2 the calls, r3 the ranges observed, r4 the  *)
(* lines seen, r5 the answer.                                              *)
(***************************************************************************)

TextLine == [no : Nat, len : Nat]

\* What a text begins with.
Beginnings(text) ==
  {part0 \in Seq(TextLine) : Len(part0) <= Len(text) /\ \A k \in 1 .. Len(part0) : part0[k] = text[k]}

\* Its numbers are those of Numbers, and a size is one.
LEMMA ContextNumbers ==
  /\ \A f : Context!Sum(f) = Sum(f)
  /\ \A S : Context!Greatest(S) = Greatest(S)
  /\ \A m, n : Context!Lesser(m, n) = Lesser(m, n)
  /\ \A m, n : Context!Larger(m, n) = Larger(m, n)
<1>1. \A f : Context!Sums(f) = Sums(f)
  BY Zenon DEF Context!Sums, Sums
<1> QED
  BY <1>1, Zenon DEF Context!Sum, Sum, Context!Greatest, Greatest, Context!Lesser, Lesser, Context!Larger, Larger

\* So is the length of a text.
LEMMA ContextSize == ASSUME NEW text \in Seq(TextLine) PROVE Context!Size(text) \in Int
<1>1. [i \in DOMAIN text |-> text[i].len] \in Seq(Int)
  <2>1. DOMAIN text = 1 .. Len(text) /\ Len(text) \in Nat
    OBVIOUS
  <2>2. \A i \in DOMAIN text : text[i] \in TextLine
    BY Elements
  <2>3. [i \in DOMAIN text |-> text[i].len] \in [1 .. Len(text) -> Int]
    BY <2>1, <2>2 DEF TextLine
  <2> QED
    BY <2>1, <2>3, FunctionIsSeq
<1>2. Sum([i \in DOMAIN text |-> text[i].len]) \in Int
  <2> DEFINE f == [i \in DOMAIN text |-> text[i].len]
  <2>1. f \in Seq(Int) /\ 0 \in Int
    BY <1>1
  <2> HIDE DEF f
  <2>2. Sum(f) \in Int
    BY <2>1, SumAdds
  <2> QED
    BY <2>2 DEF f
<1> QED
  BY <1>2, ContextNumbers DEF Context!Size

\* A part of a text from its beginning; a beginning of one is one.
LEMMA ContextBegins ==
  ASSUME NEW text \in Seq(TextLine)
  PROVE  /\ text \in Beginnings(text) /\ <<>> \in Beginnings(text)
         /\ \A n \in 0 .. Len(text) : SubSeq(text, 1, n) \in Beginnings(text)
         /\ \A part0 \in Beginnings(text) : Beginnings(part0) \subseteq Beginnings(text)
<1>1. text \in Beginnings(text) /\ <<>> \in Beginnings(text)
  BY DEF Beginnings
<1>2. ASSUME NEW n \in 0 .. Len(text) PROVE SubSeq(text, 1, n) \in Beginnings(text)
  <2>1. /\ SubSeq(text, 1, n) \in Seq(TextLine) /\ Len(SubSeq(text, 1, n)) = n
        /\ \A k \in 1 .. n : SubSeq(text, 1, n)[k] = text[k]
    BY Prefix
  <2>2. n <= Len(text)
    OBVIOUS
  <2> DEFINE less == SubSeq(text, 1, n)
  <2>3. less \in Seq(TextLine) /\ Len(less) <= Len(text) /\ \A k \in 1 .. Len(less) : less[k] = text[k]
    BY <2>1, <2>2, Zenon
  <2> HIDE DEF less
  <2>4. less \in Beginnings(text)
    BY <2>3 DEF Beginnings
  <2> QED
    BY <2>4 DEF less
<1>3. ASSUME NEW part0 \in Beginnings(text), NEW less \in Beginnings(part0) PROVE less \in Beginnings(text)
  <2>1. /\ part0 \in Seq(TextLine) /\ Len(part0) <= Len(text) /\ \A k \in 1 .. Len(part0) : part0[k] = text[k]
        /\ less \in Seq(TextLine) /\ Len(less) <= Len(part0) /\ \A k \in 1 .. Len(less) : less[k] = part0[k]
    BY DEF Beginnings
  <2>2. Len(less) \in Nat /\ Len(part0) \in Nat /\ Len(text) \in Nat
    BY <2>1
  <2>3. Len(less) <= Len(text) /\ \A k \in 1 .. Len(less) : k \in 1 .. Len(part0)
    BY <2>1, <2>2
  <2>4. \A k \in 1 .. Len(less) : less[k] = text[k]
    BY <2>1, <2>3, Zenon
  <2> QED
    BY <2>1, <2>3, <2>4 DEF Beginnings
<1> QED
  BY <1>1, <1>2, <1>3

\* What is stripped, cut or left of a text in the context begins it.
LEMMA ContextCuts ==
  ASSUME NEW text \in Seq(TextLine), NEW n
  PROVE  /\ Context!Stripped(text) \in Beginnings(text)
         /\ Context!WholeLines(text, n) \in Beginnings(text)
         /\ Context!Truncated(text, n) \in Beginnings(text)
         /\ Context!BlockShows(text, n) \in Beginnings(text)
         /\ Context!ReadShows(text) \in Beginnings(text)
<1> DEFINE full == {i \in 0 .. Len(text) : i = 0 \/ text[i].len > 0}
           fits(m) == {i \in 0 .. Len(text) : i = 0 \/ Context!Size(SubSeq(text, 1, i)) + 1 <= m}
<1>1. Len(text) \in Nat
  OBVIOUS
<1>2. Context!Stripped(text) \in Beginnings(text)
  <2>1. full \subseteq 0 .. Len(text) /\ 0 \in full
    BY <1>1
  <2>2. Context!Stripped(text) = SubSeq(text, 1, Greatest(full))
    BY ContextNumbers DEF Context!Stripped
  <2> HIDE DEF full
  <2>3. Greatest(full) \in 0 .. Len(text)
    BY <1>1, <2>1, GreatestIsIn
  <2> QED
    BY <2>2, <2>3, ContextBegins
<1>3. \A m : Context!WholeLines(text, m) \in Beginnings(text)
  <2> SUFFICES ASSUME NEW m PROVE Context!WholeLines(text, m) \in Beginnings(text)
    OBVIOUS
  <2> DEFINE fit == fits(m)
  <2>1. fit \subseteq 0 .. Len(text) /\ 0 \in fit
    BY <1>1
  <2>2. Context!WholeLines(text, m) = SubSeq(text, 1, Greatest(fit))
    BY ContextNumbers DEF Context!WholeLines
  <2> HIDE DEF fit
  <2>3. Greatest(fit) \in 0 .. Len(text)
    BY <1>1, <2>1, GreatestIsIn
  <2> QED
    BY <2>2, <2>3, ContextBegins
<1>4. \A m : Context!Truncated(text, m) \in Beginnings(text)
  BY <1>3, ContextBegins DEF Context!Truncated
<1>5. Context!BlockShows(text, n) \in Beginnings(text)
  BY <1>3, ContextBegins DEF Context!BlockShows
<1>6. Context!ReadShows(text) \in Beginnings(text)
  BY <1>4, ContextBegins DEF Context!ReadShows
<1> QED
  BY <1>2, <1>3, <1>4, <1>5, <1>6

\* The lines of a range of a file.
LEMMA ContextLines ==
  ASSUME NEW path \in DOMAIN ContextSource, NEW first \in Nat \ {0}, NEW last \in Nat,
         first <= last, last <= Len(ContextSource[path])
  PROVE  /\ Context!Lines(path, first, last) \in Seq(TextLine)
         /\ Len(Context!Lines(path, first, last)) = last - first + 1
         /\ \A k \in 1 .. last - first + 1 :
              Context!Lines(path, first, last)[k] = [no |-> first + k - 1, len |-> ContextSource[path][first + k - 1]]
<1> DEFINE file == ContextSource[path]
           lines == [i \in 1 .. last - first + 1 |-> [no |-> first + i - 1, len |-> file[first + i - 1]]]
<1>1. file \in Seq(Nat)
  BY ContextAssumption
<1>2. Context!Lines(path, first, last) = lines
  BY DEF Context!Lines
<1>3. ASSUME NEW i \in 1 .. last - first + 1 PROVE [no |-> first + i - 1, len |-> file[first + i - 1]] \in TextLine
  <2>1. first + i - 1 \in 1 .. Len(file) /\ first + i - 1 \in Nat
    BY <1>1
  <2> HIDE DEF file
  <2>2. file[first + i - 1] \in Nat
    BY <1>1, <2>1
  <2> QED
    BY <2>1, <2>2 DEF TextLine
<1>4. lines \in [1 .. last - first + 1 -> TextLine] /\ last - first + 1 \in Nat
  <2>1. last - first + 1 \in Nat
    OBVIOUS
  <2> HIDE DEF file
  <2>2. lines \in [1 .. last - first + 1 -> TextLine]
    BY <1>3, Zenon
  <2> QED
    BY <2>1, <2>2
<1>5. lines \in Seq(TextLine) /\ Len(lines) = last - first + 1
  <2> HIDE DEF lines
  <2> QED
    BY <1>4, FunctionIsSeq
<1>6. \A k \in 1 .. last - first + 1 : lines[k] = [no |-> first + k - 1, len |-> file[first + k - 1]]
  OBVIOUS
<1> QED
  BY <1>2, <1>5, <1>6

\* A chunk is a range of its file.
LEMMA ContextChunks ==
  ASSUME NEW c \in Context!AllChunks
  PROVE  /\ c.path \in DOMAIN ContextSource /\ c.start \in Nat \ {0} /\ c.end \in Nat
         /\ c.start <= c.end /\ c.end <= Len(ContextSource[c.path])
<1>1. PICK path \in DOMAIN ContextSource : c \in Context!Chunks(path)
  BY DEF Context!AllChunks
<1> DEFINE n == Len(ContextSource[path])
<1>2. n \in Nat /\ ContextChunkSize \in Nat \ {0}
  BY ContextAssumption
<1>3. PICK s \in 1 .. n : c = [path |-> path, start |-> s, end |-> Context!Lesser(s + ContextChunkSize - 1, n)]
  BY <1>1, Zenon DEF Context!Chunks
<1> HIDE DEF n
<1>4. Context!Lesser(s + ContextChunkSize - 1, n) \in s .. n
  BY <1>2, <1>3 DEF Context!Lesser
<1>5. c.path = path /\ c.start = s /\ c.end \in s .. n
  BY <1>3, <1>4
<1> QED
  BY <1>2, <1>3, <1>5 DEF n

\* A range of a file whose lines are empty or among these.
Ranges == [path : DOMAIN ContextSource, start : Int, end : Int]
Shown(lines, range) ==
  \A n \in range.start .. range.end :
    ContextSource[range.path][n] = 0 \/ [path |-> range.path, no |-> n] \in lines

\* More lines cover the same ranges.
LEMMA ContextMore ==
  ASSUME NEW lines, NEW ranges, NEW more, Context!Covers(lines, ranges), lines \subseteq more
  PROVE  Context!Covers(more, ranges)
BY DEF Context!Covers

\* A range that is noted after the others.
LEMMA ContextNoted ==
  ASSUME NEW lines, NEW ranges, Context!Covers(lines, ranges), NEW range \in Ranges, Shown(lines, range)
  PROVE  Context!Covers(lines, Context!Noted(ranges, range)) /\ Context!Covers(lines, Append(ranges, range))
<1>1. /\ ranges \in Seq(Ranges)
      /\ \A i \in DOMAIN ranges : Shown(lines, ranges[i])
  BY DEF Context!Covers, Ranges, Shown
<1> DEFINE longer == Append(ranges, range)
<1>2. /\ longer \in Seq(Ranges) /\ Len(ranges) \in Nat /\ DOMAIN ranges = 1 .. Len(ranges)
      /\ DOMAIN longer = 1 .. (Len(ranges) + 1)
      /\ \A i \in DOMAIN ranges : longer[i] = ranges[i]
      /\ longer[Len(ranges) + 1] = range
  BY <1>1, Appended
<1> HIDE DEF longer
<1>3. ASSUME NEW i \in DOMAIN longer PROVE Shown(lines, longer[i])
  <2>1. i \in DOMAIN ranges \/ i = Len(ranges) + 1
    BY <1>2
  <2>2. CASE i \in DOMAIN ranges
    <3>1. longer[i] = ranges[i] /\ Shown(lines, ranges[i])
      BY <1>1, <1>2, <2>2
    <3> QED
      BY <3>1
  <2>3. CASE i = Len(ranges) + 1
    <3>1. longer[i] = range
      BY <1>2, <2>3
    <3> QED
      BY <3>1
  <2> QED
    BY <2>1, <2>2, <2>3
<1>4. Context!Covers(lines, longer)
  BY <1>2, <1>3 DEF Context!Covers, Ranges, Shown
<1> QED
  BY <1>4 DEF Context!Noted, longer

\* A line that extends the last range, or is noted.
LEMMA ContextLineRecorded ==
  ASSUME NEW lines, NEW ranges, Context!Covers(lines, ranges), NEW path \in DOMAIN ContextSource,
         NEW no \in Int, [path |-> path, no |-> no] \in lines
  PROVE  Context!Covers(lines, Context!LineRecorded(ranges, path, no))
<1> DEFINE last == Len(ranges)
           range == [path |-> path, start |-> no, end |-> no]
           wider == [ranges[last] EXCEPT !.end = no]
           longer == [ranges EXCEPT ![last] = wider]
<1>1. /\ ranges \in Seq(Ranges)
      /\ \A i \in DOMAIN ranges : Shown(lines, ranges[i])
  BY DEF Context!Covers, Ranges, Shown
<1>2. last \in Nat /\ DOMAIN ranges = 1 .. last
  BY <1>1
<1>3. CASE ~ (last > 0 /\ ranges[last].path = path /\ ranges[last].end + 1 = no)
  <2>1. range \in Ranges
    BY DEF Ranges
  <2>2. Shown(lines, range)
    <3>1. range.path = path /\ range.start = no /\ range.end = no
      OBVIOUS
    <3>2. \A n \in no .. no : n = no
      OBVIOUS
    <3> HIDE DEF range
    <3> QED
      BY <3>1, <3>2 DEF Shown
  <2> HIDE DEF range
  <2>3. Context!Covers(lines, Context!Noted(ranges, range))
    BY <2>1, <2>2, ContextNoted
  <2> QED
    BY <1>3, <2>3 DEF Context!LineRecorded, range
<1>4. CASE last > 0 /\ ranges[last].path = path /\ ranges[last].end + 1 = no
  <2>1. last \in DOMAIN ranges
    BY <1>2, <1>4
  <2>2. ranges[last] \in Ranges /\ Shown(lines, ranges[last])
    BY <1>1, <2>1, Elements
  <2>3. /\ wider \in Ranges
        /\ wider.path = path /\ wider.start = ranges[last].start /\ wider.end = no
    BY <1>4, <2>2 DEF Ranges
  <2>4. Shown(lines, wider)
    <3>1. ranges[last].start \in Int /\ ranges[last].end \in Int
      BY <2>2 DEF Ranges
    <3> HIDE DEF wider, last
    <3>2. \A n \in wider.start .. wider.end : n \in ranges[last].start .. ranges[last].end \/ n = no
      BY <1>4, <2>3, <3>1
    <3> QED
      BY <1>4, <2>2, <2>3, <3>2 DEF Shown
  <2> HIDE DEF wider
  <2>5. longer \in Seq(Ranges)
    BY <1>1, <2>3, Replaced
  <2>6. DOMAIN longer = DOMAIN ranges /\ longer[last] = wider
        /\ \A i \in DOMAIN ranges : i # last => longer[i] = ranges[i]
    BY <2>1
  <2> HIDE DEF longer
  <2>7. \A i \in DOMAIN longer : Shown(lines, longer[i])
    <3> SUFFICES ASSUME NEW i \in DOMAIN longer PROVE Shown(lines, longer[i])
      OBVIOUS
    <3>1. i \in DOMAIN ranges /\ (longer[i] = wider \/ longer[i] = ranges[i])
      BY <2>6
    <3>2. Shown(lines, ranges[i]) \/ longer[i] = wider
      BY <1>1, <3>1
    <3> QED
      BY <2>4, <3>1, <3>2
  <2>8. Context!Covers(lines, longer)
    BY <2>5, <2>7 DEF Context!Covers, Ranges, Shown
  <2>9. Context!LineRecorded(ranges, path, no) = longer
    BY <1>4 DEF Context!LineRecorded, longer, wider
  <2> QED
    BY <2>8, <2>9
<1> QED
  BY <1>3, <1>4

\* The range that is recorded of a row, and the lines of a file that was read.
LEMMA ContextRow ==
  ASSUME NEW row, row.path \in DOMAIN ContextSource, row.start \in Nat \ {0}, row.end \in Nat,
         row.start <= row.end, row.end <= Len(ContextSource[row.path]),
         NEW text \in Beginnings(Context!Lines(row.path, row.start, row.end))
  PROVE  /\ text \in Seq(TextLine)
         /\ \A k \in 1 .. Len(text) : [path |-> row.path, no |-> text[k].no] \in Context!LinesOf(row.path, text)
         /\ Context!RowRange(row, text) \in Ranges
         /\ Shown(Context!LinesOf(row.path, text), Context!RowRange(row, text))
<1> DEFINE all == Context!Lines(row.path, row.start, row.end)
<1>1. /\ all \in Seq(TextLine) /\ Len(all) = row.end - row.start + 1
      /\ \A k \in 1 .. row.end - row.start + 1 :
           all[k] = [no |-> row.start + k - 1, len |-> ContextSource[row.path][row.start + k - 1]]
  BY ContextLines
<1>2. text \in Seq(TextLine) /\ Len(text) <= Len(all) /\ \A k \in 1 .. Len(text) : text[k] = all[k]
  BY DEF Beginnings
<1>3. Len(text) \in Nat /\ DOMAIN text = 1 .. Len(text)
  BY <1>2
<1> HIDE DEF all
<1>4. ASSUME NEW k \in 1 .. Len(text) PROVE text[k].no = row.start + k - 1
  <2>1. k \in 1 .. row.end - row.start + 1
    BY <1>1, <1>2, <1>3
  <2>2. text[k] = [no |-> row.start + k - 1, len |-> ContextSource[row.path][row.start + k - 1]]
    BY <1>1, <1>2, <2>1, Zenon
  <2> QED
    BY <2>2
<1>5. ASSUME NEW n \in row.start .. row.start + Len(text) - 1
      PROVE  [path |-> row.path, no |-> n] \in Context!LinesOf(row.path, text)
  <2> DEFINE k == n - row.start + 1
  <2>1. k \in 1 .. Len(text) /\ row.start + k - 1 = n
    BY <1>3
  <2> HIDE DEF k
  <2>2. text[k].no = n /\ k \in DOMAIN text
    BY <1>3, <1>4, <2>1, Zenon
  <2> QED
    BY <2>2, Zenon DEF Context!LinesOf
<1>6. \A k \in 1 .. Len(text) : [path |-> row.path, no |-> text[k].no] \in Context!LinesOf(row.path, text)
  BY <1>3, Zenon DEF Context!LinesOf
<1> DEFINE range == Context!RowRange(row, text)
<1>7. /\ range.path = row.path /\ range.start = row.start
      /\ range.end = Context!Lesser(row.end, row.start + Len(text) - 1)
      /\ range \in Ranges
  <2>1. Context!Lesser(row.end, row.start + Len(text) - 1) \in Int
    BY <1>3 DEF Context!Lesser
  <2> QED
    BY <2>1 DEF Context!RowRange, Ranges
<1> HIDE DEF range
<1>8. \A n \in range.start .. range.end : n \in row.start .. row.start + Len(text) - 1
  BY <1>3, <1>7 DEF Context!Lesser
<1>9. Shown(Context!LinesOf(row.path, text), range)
  BY <1>5, <1>7, <1>8 DEF Shown
<1> QED
  BY <1>2, <1>6, <1>7, <1>9 DEF range

\* What a search shows of each row is a beginning of it.
LEMMA ContextSearched ==
  ASSUME NEW rows \in Context!Searches, NEW i \in DOMAIN rows
  PROVE  /\ rows[i] \in Context!AllChunks
         /\ Context!SearchShows(rows)[i] \in Beginnings(Context!Lines(rows[i].path, rows[i].start, rows[i].end))
<1> DEFINE row == rows[i]
           lines == Context!Lines(row.path, row.start, row.end)
           texts == [j \in DOMAIN rows |-> Context!Stripped(Context!Lines(rows[j].path, rows[j].start, rows[j].end))]
<1>1. row \in Context!AllChunks
  <2>1. PICK n \in 0 .. ContextMaxRows : rows \in [1 .. n -> Context!AllChunks]
    BY DEF Context!Searches
  <2> QED
    BY <2>1
<1>2. lines \in Seq(TextLine)
  <2> HIDE DEF row
  <2> QED
    BY <1>1, ContextChunks, ContextLines
<1>3. texts[i] = Context!Stripped(lines) /\ texts[i] \in Beginnings(lines)
  <2>1. texts[i] = Context!Stripped(lines)
    OBVIOUS
  <2> HIDE DEF lines, texts
  <2> QED
    BY <1>2, <2>1, ContextCuts
<1>4. PICK per : Context!SearchShows(rows)[i] \in {texts[i], Context!Truncated(texts[i], per), <<>>}
  BY DEF Context!SearchShows
<1> HIDE DEF lines, texts
<1>5. texts[i] \in Seq(TextLine)
  BY <1>3 DEF Beginnings
<1>6. Context!Truncated(texts[i], per) \in Beginnings(lines)
  BY <1>2, <1>3, <1>5, ContextCuts, ContextBegins
<1>7. <<>> \in Beginnings(lines)
  BY <1>2, ContextBegins
<1>8. Context!SearchShows(rows)[i] \in Beginnings(lines)
  BY <1>3, <1>4, <1>6, <1>7
<1> QED
  BY <1>1, <1>8 DEF lines

\* The rows of a search are recorded one after the other.
LEMMA ContextRowsRecorded ==
  ASSUME NEW rows \in Context!Searches, NEW lines, NEW ranges, Context!Covers(lines, ranges), NEW texts,
         \A i \in DOMAIN rows : /\ Context!RowRange(rows[i], texts[i]) \in Ranges
                                /\ Shown(lines, Context!RowRange(rows[i], texts[i]))
  PROVE  Context!Covers(lines, Context!RowsRecorded(ranges, rows, texts)[Len(rows)])
<1> DEFINE N == Len(rows)
           T == {some \in Seq(Ranges) : Context!Covers(lines, some)}
           Turn(a, n) == IF texts[n] = <<>> THEN a ELSE Context!Noted(a, Context!RowRange(rows[n], texts[n]))
           step == [p \in T \X (1 .. N) |-> Turn(p[1], p[2])]
           c == Context!RowsRecorded(ranges, rows, texts)
<1>1. N \in Nat
  <2>1. PICK n \in 0 .. ContextMaxRows : rows \in [1 .. n -> Context!AllChunks]
    BY DEF Context!Searches
  <2>2. n \in Nat
    OBVIOUS
  <2> QED
    BY <2>1, <2>2, FunctionIsSeq
<1>2. ranges \in T /\ \A some : Context!Covers(lines, some) => some \in T
  BY DEF Context!Covers, Ranges
<1>3. ASSUME NEW a \in T, NEW n \in 1 .. N PROVE Turn(a, n) \in T
  <2>1. n \in DOMAIN rows
    <3>1. PICK m \in 0 .. ContextMaxRows : rows \in [1 .. m -> Context!AllChunks]
      BY DEF Context!Searches
    <3>2. m \in Nat
      OBVIOUS
    <3> QED
      BY <3>1, <3>2, FunctionIsSeq
  <2> DEFINE range == Context!RowRange(rows[n], texts[n])
  <2>2. range \in Ranges /\ Shown(lines, range)
    BY <2>1
  <2> HIDE DEF range
  <2>3. Context!Covers(lines, Context!Noted(a, range))
    BY <2>2, ContextNoted
  <2> HIDE DEF T
  <2> QED
    BY <1>2, <2>3 DEF range
<1> HIDE DEF T
<1>4. step \in [T \X (1 .. N) -> T] /\ \A a \in T, n \in 1 .. N : step[<<a, n>>] = Turn(a, n)
  <2> HIDE DEF Turn
  <2> QED
    BY <1>3
<1>5. PICK g : Iterates(g, N, T, ranges, step)
  <2> HIDE DEF step, N
  <2> QED
    BY <1>1, <1>2, <1>4, LoopsCompute
<1> HIDE DEF step
<1>6. g = [n \in 0 .. N |-> IF n = 0 THEN ranges ELSE Turn(g[n - 1], n)]
  <2> HIDE DEF Turn, N
  <2>1. g \in [0 .. N -> T] /\ g[0] = ranges /\ \A n \in 1 .. N : g[n] = step[<<g[n - 1], n>>]
    BY <1>5 DEF Iterates
  <2>2. ASSUME NEW n \in 1 .. N PROVE g[n] = Turn(g[n - 1], n)
    <3>1. g[n - 1] \in T
      BY <1>1, <2>1
    <3> QED
      BY <1>4, <2>1, <3>1
  <2> QED
    BY <1>1, <2>1, <2>2
<1>7. c = [n \in 0 .. N |-> IF n = 0 THEN ranges ELSE Turn(c[n - 1], n)]
  BY <1>6, Zenon DEF Context!RowsRecorded
<1> HIDE DEF c
<1>8. \A n \in 0 .. N : c[n] \in T
  <2> HIDE DEF Turn, N
  <2>1. c[0] \in T /\ \A n \in 1 .. N : c[n - 1] \in T => c[n] \in T
    BY <1>1, <1>2, <1>3, <1>7
  <2> QED
    BY <1>1, <2>1, StepByStep
<1>9. c[N] \in T
  BY <1>1, <1>8
<1> QED
  BY <1>9 DEF c, T

\* The lines of a file are recorded one after the other.
LEMMA ContextLinesRecorded ==
  ASSUME NEW path \in DOMAIN ContextSource, NEW text \in Seq(TextLine), NEW lines, NEW ranges,
         Context!Covers(lines, ranges),
         \A k \in 1 .. Len(text) : [path |-> path, no |-> text[k].no] \in lines
  PROVE  Context!Covers(lines, Context!LinesRecorded(ranges, path, text)[Len(text)])
<1> DEFINE N == Len(text)
           T == {some \in Seq(Ranges) : Context!Covers(lines, some)}
           Turn(a, n) == Context!LineRecorded(a, path, text[n].no)
           step == [p \in T \X (1 .. N) |-> Turn(p[1], p[2])]
           c == Context!LinesRecorded(ranges, path, text)
<1>1. N \in Nat
  OBVIOUS
<1>2. ranges \in T /\ \A some : Context!Covers(lines, some) => some \in T
  BY DEF Context!Covers, Ranges
<1>3. ASSUME NEW a \in T, NEW n \in 1 .. N PROVE Turn(a, n) \in T
  <2>1. text[n] \in TextLine
    OBVIOUS
  <2>2. text[n].no \in Int /\ [path |-> path, no |-> text[n].no] \in lines
    BY <2>1 DEF TextLine
  <2>3. Context!Covers(lines, Context!LineRecorded(a, path, text[n].no))
    BY <2>2, ContextLineRecorded
  <2> HIDE DEF T
  <2> QED
    BY <1>2, <2>3
<1> HIDE DEF T
<1>4. step \in [T \X (1 .. N) -> T] /\ \A a \in T, n \in 1 .. N : step[<<a, n>>] = Turn(a, n)
  <2> HIDE DEF Turn
  <2> QED
    BY <1>3
<1>5. PICK g : Iterates(g, N, T, ranges, step)
  <2> HIDE DEF step, N
  <2> QED
    BY <1>1, <1>2, <1>4, LoopsCompute
<1> HIDE DEF step
<1>6. g = [n \in 0 .. N |-> IF n = 0 THEN ranges ELSE Turn(g[n - 1], n)]
  <2> HIDE DEF Turn, N
  <2>1. g \in [0 .. N -> T] /\ g[0] = ranges /\ \A n \in 1 .. N : g[n] = step[<<g[n - 1], n>>]
    BY <1>5 DEF Iterates
  <2>2. ASSUME NEW n \in 1 .. N PROVE g[n] = Turn(g[n - 1], n)
    <3>1. g[n - 1] \in T
      BY <1>1, <2>1
    <3> QED
      BY <1>4, <2>1, <3>1
  <2> QED
    BY <1>1, <2>1, <2>2
<1>7. c = [n \in 0 .. N |-> IF n = 0 THEN ranges ELSE Turn(c[n - 1], n)]
  BY <1>6, Zenon DEF Context!LinesRecorded
<1> HIDE DEF c
<1>8. \A n \in 0 .. N : c[n] \in T
  <2> HIDE DEF Turn, N
  <2>1. c[0] \in T /\ \A n \in 1 .. N : c[n - 1] \in T => c[n] \in T
    BY <1>1, <1>2, <1>3, <1>7
  <2> QED
    BY <1>1, <2>1, StepByStep
<1>9. c[N] \in T
  BY <1>1, <1>8
<1> QED
  BY <1>9 DEF c, T

\* A line is empty, or it is among the first n of a text.
Counted(path, text, n, line) == ContextSource[path][line] = 0 \/ \E j \in 1 .. n : text[j].no = line

\* The blocks of a file: each line from the first to the last is in the text
\* or empty, in the order of the lines, so that a line may come earlier than its
\* number says, and never later.
GoodBlocks(path) ==
  {b \in [path : {path}, start : Nat \ {0}, end : Nat, text : Seq(TextLine), rank : Nat] :
     /\ b.start <= b.end
     /\ \A k \in 1 .. Len(b.text) : /\ b.start + k - 1 <= b.text[k].no
                                    /\ b.text[k].no <= b.end
                                    /\ \A n \in b.start .. b.text[k].no : Counted(path, b.text, k, n)
     /\ \A n \in b.start .. b.end : Counted(path, b.text, Len(b.text), n)}

\* The lines that splitlines finds in a chunk.
LEMMA ContextSplit ==
  ASSUME NEW path \in DOMAIN ContextSource, NEW first \in Nat \ {0}, NEW last \in Nat,
         first <= last, last <= Len(ContextSource[path])
  PROVE  LET text == Context!SplitLines(Context!Lines(path, first, last))
         IN /\ text \in Seq(TextLine) /\ Len(text) \in Nat
            /\ Len(text) <= last - first + 1
            /\ \A k \in 1 .. Len(text) : text[k].no = first + k - 1
            /\ \A n \in first .. last : n <= first + Len(text) - 1 \/ ContextSource[path][n] = 0
<1> DEFINE all == Context!Lines(path, first, last)
           text == Context!SplitLines(all)
           N == last - first + 1
<1>1. /\ all \in Seq(TextLine) /\ Len(all) = N
      /\ \A k \in 1 .. N : all[k] = [no |-> first + k - 1, len |-> ContextSource[path][first + k - 1]]
  BY ContextLines
<1> N \in Nat \ {0} /\ N = last - first + 1
  OBVIOUS
<1> HIDE DEF all, N
<1>4. ASSUME NEW k \in 1 .. N
      PROVE  all[k].no = first + k - 1 /\ all[k].len = ContextSource[path][first + k - 1]
  <2>1. all[k] = [no |-> first + k - 1, len |-> ContextSource[path][first + k - 1]]
    BY <1>1, Zenon
  <2> QED
    BY <2>1
<1>2. CASE all # <<>> /\ all[Len(all)].len = 0
  <2>1. text = SubSeq(all, 1, N - 1)
    BY <1>1, <1>2 DEF Context!SplitLines
  <2>2. N - 1 \in 0 .. Len(all)
    BY <1>1
  <2>3. SubSeq(all, 1, N - 1) \in Seq(TextLine) /\ Len(SubSeq(all, 1, N - 1)) = N - 1
        /\ \A k \in 1 .. N - 1 : SubSeq(all, 1, N - 1)[k] = all[k]
    <3> DEFINE m == N - 1
    <3>1. m \in 0 .. Len(all)
      BY <2>2
    <3> HIDE DEF m
    <3>2. SubSeq(all, 1, m) \in Seq(TextLine) /\ Len(SubSeq(all, 1, m)) = m
          /\ \A k \in 1 .. m : SubSeq(all, 1, m)[k] = all[k]
      BY <1>1, <3>1, Prefix
    <3> QED
      BY <3>2 DEF m
  <2> HIDE DEF text
  <2>4. text \in Seq(TextLine) /\ Len(text) = N - 1 /\ \A k \in 1 .. N - 1 : text[k] = all[k]
    BY <2>1, <2>3, Zenon
  <2>5. ContextSource[path][last] = 0
    <3>1. N \in 1 .. N /\ all[N].len = 0 /\ first + N - 1 = last
      BY <1>1, <1>2
    <3>3. all[N].len = ContextSource[path][first + N - 1]
      BY <1>4, <3>1
    <3> QED
      BY <3>1, <3>3
  <2>6. \A k \in 1 .. N - 1 : text[k].no = first + k - 1
    <3> SUFFICES ASSUME NEW k \in 1 .. N - 1 PROVE text[k].no = first + k - 1
      OBVIOUS
    <3>1. k \in 1 .. N
      BY <1>1
    <3>2. all[k].no = first + k - 1
      BY <1>4, <3>1
    <3> QED
      BY <2>4, <3>2, Zenon
  <2>7. \A n \in first .. last : n <= first + (N - 1) - 1 \/ n = last
    BY <1>1
  <2>8. Len(text) \in Nat /\ Len(text) <= last - first + 1
    BY <2>4
  <2>9. \A n \in first .. last : n <= first + Len(text) - 1 \/ ContextSource[path][n] = 0
    BY <2>4, <2>5, <2>7
  <2> QED
    BY <2>4, <2>6, <2>8, <2>9 DEF text, all
<1>3. CASE ~ (all # <<>> /\ all[Len(all)].len = 0)
  <2>1. text = all
    BY <1>3 DEF Context!SplitLines
  <2>2. \A k \in 1 .. N : all[k].no = first + k - 1
    BY <1>4
  <2>3. \A n \in first .. last : n <= first + N - 1
    BY <1>1
  <2> HIDE DEF text
  <2>4. Len(text) \in Nat /\ Len(text) = N /\ text \in Seq(TextLine)
    BY <1>1, <2>1
  <2>5. \A n \in first .. last : n <= first + Len(text) - 1 \/ ContextSource[path][n] = 0
    BY <2>3, <2>4
  <2> QED
    BY <2>1, <2>2, <2>4, <2>5 DEF text, all
<1> QED
  BY <1>2, <1>3

\* What a good block is.
LEMMA ContextGood ==
  ASSUME NEW path, NEW b \in GoodBlocks(path)
  PROVE  /\ b.path = path /\ b.start \in Nat \ {0} /\ b.end \in Nat /\ b.start <= b.end
         /\ b.text \in Seq(TextLine) /\ Len(b.text) \in Nat /\ b.rank \in Nat
         /\ \A k \in 1 .. Len(b.text) : b.text[k].no \in Nat
         /\ \A k \in 1 .. Len(b.text) : b.start + k - 1 <= b.text[k].no /\ b.text[k].no <= b.end
         /\ \A k \in 1 .. Len(b.text) : \A n \in b.start .. b.text[k].no : Counted(path, b.text, k, n)
         /\ \A n \in b.start .. b.end : Counted(path, b.text, Len(b.text), n)
<1> DEFINE text == b.text
<1>1. text \in Seq(TextLine)
  BY DEF GoodBlocks
<1>2. Len(text) \in Nat /\ \A k \in 1 .. Len(text) : text[k] \in TextLine
  <2> HIDE DEF text
  <2> QED
    BY <1>1, Elements
<1>3. \A k \in 1 .. Len(text) : text[k].no \in Nat
  BY <1>2 DEF TextLine
<1> QED
  BY <1>1, <1>2, <1>3 DEF GoodBlocks

\* A block that goes on: the lines after its last, without the empty last.
LEMMA ContextExtends ==
  ASSUME NEW path, NEW b \in GoodBlocks(path), NEW more \in Seq(TextLine), NEW end \in Nat, NEW rank \in Nat,
         b.end <= end, Len(more) <= end - b.end,
         \A i \in 1 .. Len(more) : more[i].no = b.end + i,
         \A n \in b.end + 1 .. end : n <= b.end + Len(more) \/ ContextSource[path][n] = 0
  PROVE  [path |-> b.path, start |-> b.start, end |-> end, text |-> b.text \o more, rank |-> rank]
           \in GoodBlocks(path)
<1> DEFINE A == Len(b.text)
           B == Len(more)
           s == b.start
           e == b.end
           old == b.text
           text == old \o more
           next == [path |-> path, start |-> s, end |-> end, text |-> text, rank |-> rank]
<1>1. /\ b.path = path /\ s \in Nat \ {0} /\ e \in Nat /\ s <= e
      /\ old \in Seq(TextLine) /\ A \in Nat
      /\ \A k \in 1 .. A : old[k].no \in Nat /\ s + k - 1 <= old[k].no /\ old[k].no <= e
      /\ \A k \in 1 .. A : \A n \in s .. old[k].no : Counted(path, old, k, n)
      /\ \A n \in s .. e : Counted(path, old, A, n)
  BY ContextGood
<1>2. B \in Nat /\ B <= end - e /\ e <= end /\ \A i \in 1 .. B : more[i].no = e + i
  OBVIOUS
<1>3. \A n \in e + 1 .. end : n <= e + B \/ ContextSource[path][n] = 0
  OBVIOUS
<1> HIDE DEF s, e, old
<1>4. text \in Seq(TextLine) /\ Len(text) = A + B
      /\ (\A k \in 1 .. A : text[k] = old[k]) /\ \A i \in 1 .. B : text[A + i] = more[i]
  BY <1>1 DEF old
<1> HIDE DEF text, A, B
<1>5. A <= e - s + 1
  <2>1. CASE A = 0
    BY <1>1, <2>1
  <2>2. CASE A # 0
    <3>1. A \in 1 .. A
      BY <1>1, <2>2
    <3>2. s + A - 1 <= old[A].no /\ old[A].no <= e /\ old[A].no \in Nat
      BY <1>1, <3>1
    <3> QED
      BY <1>1, <3>2
  <2> QED
    BY <2>1, <2>2
<1>6. ASSUME NEW i \in 1 .. B PROVE text[A + i].no = e + i /\ A + i \in 1 .. A + B
  <2>1. text[A + i] = more[i] /\ more[i].no = e + i
    BY <1>2, <1>4, Zenon
  <2>2. A + i \in 1 .. A + B
    BY <1>1, <1>2
  <2> QED
    BY <2>1, <2>2, Zenon
<1>7. ASSUME NEW n \in s .. e, NEW m \in A .. A + B PROVE Counted(path, text, m, n)
  <2>1. Counted(path, old, A, n)
    BY <1>1
  <2>2. \A j \in 1 .. A : j \in 1 .. m /\ text[j].no = old[j].no
    BY <1>1, <1>4
  <2> QED
    BY <2>1, <2>2 DEF Counted
<1>8. ASSUME NEW m \in 0 .. B, NEW n \in e + 1 .. e + m PROVE Counted(path, text, A + m, n)
  <2> DEFINE i == n - e
  <2>1. i \in 1 .. B /\ e + i = n /\ A + i \in 1 .. A + m
    BY <1>1, <1>2
  <2> HIDE DEF i
  <2>2. text[A + i].no = n
    BY <1>6, <2>1
  <2> QED
    BY <2>1, <2>2 DEF Counted
<1>9. ASSUME NEW k \in 1 .. A
      PROVE  s + k - 1 <= text[k].no /\ text[k].no <= end /\ \A n \in s .. text[k].no : Counted(path, text, k, n)
  <2>1. text[k].no = old[k].no
    BY <1>4
  <2>2. s + k - 1 <= old[k].no /\ old[k].no <= end
    BY <1>1, <1>2
  <2>3. \A j \in 1 .. k : text[j].no = old[j].no
    BY <1>1, <1>4
  <2>4. \A n \in s .. old[k].no : Counted(path, old, k, n)
    BY <1>1
  <2>5. \A n : Counted(path, old, k, n) => Counted(path, text, k, n)
    BY <2>3 DEF Counted
  <2> QED
    BY <2>1, <2>2, <2>4, <2>5
<1>10. ASSUME NEW i \in 1 .. B
       PROVE  /\ s + (A + i) - 1 <= text[A + i].no /\ text[A + i].no <= end
              /\ \A n \in s .. text[A + i].no : Counted(path, text, A + i, n)
  <2>1. text[A + i].no = e + i
    BY <1>6
  <2>2. s + (A + i) - 1 <= e + i /\ e + i <= end
    BY <1>1, <1>2, <1>5
  <2>3. i \in 0 .. B /\ A + i \in A .. A + B
    BY <1>1, <1>2
  <2>4. \A n \in s .. e + i : n \in s .. e \/ n \in e + 1 .. e + i
    BY <1>1
  <2>5. \A n \in s .. e + i : Counted(path, text, A + i, n)
    BY <1>7, <1>8, <2>3, <2>4
  <2> QED
    BY <2>1, <2>2, <2>5
<1>11. ASSUME NEW k \in 1 .. Len(text)
       PROVE  s + k - 1 <= text[k].no /\ text[k].no <= end /\ \A n \in s .. text[k].no : Counted(path, text, k, n)
  <2>1. k \in 1 .. A \/ \E i \in 1 .. B : k = A + i
    <3>1. k \in 1 .. A \/ (k - A \in 1 .. B /\ k = A + (k - A))
      BY <1>1, <1>2, <1>4
    <3> QED
      BY <3>1
  <2>2. CASE k \in 1 .. A
    BY <1>9, <2>2
  <2>3. ASSUME NEW i \in 1 .. B, k = A + i
        PROVE  s + k - 1 <= text[k].no /\ text[k].no <= end /\ \A n \in s .. text[k].no : Counted(path, text, k, n)
    <3>1. /\ s + (A + i) - 1 <= text[A + i].no /\ text[A + i].no <= end
          /\ \A n \in s .. text[A + i].no : Counted(path, text, A + i, n)
      BY <1>10
    <3> QED
      BY <2>3, <3>1, Zenon
  <2> QED
    BY <2>1, <2>2, <2>3
<1>12. ASSUME NEW n \in s .. end PROVE Counted(path, text, Len(text), n)
  <2>1. A + B \in A .. A + B /\ B \in 0 .. B
    BY <1>1, <1>2
  <2>2. n \in s .. e \/ n \in e + 1 .. e + B \/ ContextSource[path][n] = 0
    BY <1>1, <1>2, <1>3
  <2>3. CASE n \in s .. e
    BY <1>4, <1>7, <2>1, <2>3
  <2>4. CASE n \in e + 1 .. e + B
    BY <1>4, <1>8, <2>1, <2>4
  <2>5. CASE ContextSource[path][n] = 0
    BY <2>5 DEF Counted
  <2> QED
    BY <2>2, <2>3, <2>4, <2>5
<1>13. next \in [path : {path}, start : Nat \ {0}, end : Nat, text : Seq(TextLine), rank : Nat] /\ s <= end
  BY <1>1, <1>2, <1>4
<1>14. next \in GoodBlocks(path)
  <2>1. next.start = s /\ next.end = end /\ next.text = text
    OBVIOUS
  <2> HIDE DEF next
  <2> QED
    BY <1>11, <1>12, <1>13, <2>1 DEF GoodBlocks
<1> QED
  BY <1>1, <1>14 DEF next, s, text, old

\* A chunk becomes a good block, or the last of them goes on.
LEMMA ContextMerge ==
  ASSUME NEW path \in DOMAIN ContextSource, NEW blocks \in Seq(GoodBlocks(path)), NEW rank \in Nat,
         NEW chunk, chunk.path = path, chunk.start \in Nat \ {0}, chunk.end \in Nat,
         chunk.start <= chunk.end, chunk.end <= Len(ContextSource[path])
  PROVE  Context!Merge(blocks, chunk, rank) \in Seq(GoodBlocks(path))
<1> DEFINE text == Context!SplitLines(Context!Lines(path, chunk.start, chunk.end))
           last == blocks[Len(blocks)]
           overlap == Context!Larger(0, last.end - chunk.start + 1)
           first == [path |-> chunk.path, start |-> chunk.start, end |-> chunk.end, text |-> text, rank |-> rank]
           more == SubSeq(text, overlap + 1, Len(text))
           end == Context!Larger(last.end, chunk.end)
           longer == [path |-> last.path, start |-> last.start, end |-> end,
                      text |-> last.text \o more, rank |-> Context!Lesser(last.rank, rank)]
           Apart == blocks = <<>> \/ (blocks # <<>> /\ chunk.start > last.end + 1)
           Good == GoodBlocks(path)
           c == chunk.start
           d == chunk.end
           M == Len(text)
<1>1. /\ text \in Seq(TextLine) /\ M \in Nat /\ M <= d - c + 1
      /\ \A k \in 1 .. M : text[k].no = c + k - 1
      /\ \A n \in c .. d : n <= c + M - 1 \/ ContextSource[path][n] = 0
  BY ContextSplit
<1>2. Context!Merge(blocks, chunk, rank) = IF Apart THEN Append(blocks, first) ELSE [blocks EXCEPT ![Len(blocks)] = longer]
  BY Zenon DEF Context!Merge
<1>3. c \in Nat \ {0} /\ d \in Nat /\ c <= d
  OBVIOUS
<1> HIDE DEF c, d
<1>4. CASE Apart
  <2> HIDE DEF text, M
  <2>1. ASSUME NEW k \in 1 .. Len(text)
        PROVE  c + k - 1 <= text[k].no /\ text[k].no <= d /\ \A n \in c .. text[k].no : Counted(path, text, k, n)
    <3>1. text[k].no = c + k - 1 /\ c + k - 1 <= d
      BY <1>1, <1>3 DEF M
    <3>2. ASSUME NEW n \in c .. c + k - 1 PROVE Counted(path, text, k, n)
      <4> DEFINE j == n - c + 1
      <4>1. j \in 1 .. k /\ j \in 1 .. M /\ c + j - 1 = n
        BY <1>1, <1>3 DEF M
      <4> HIDE DEF j
      <4>2. text[j].no = n
        BY <1>1, <4>1
      <4> QED
        BY <4>1, <4>2 DEF Counted
    <3> QED
      BY <1>3, <3>1, <3>2
  <2>2. ASSUME NEW n \in c .. d PROVE Counted(path, text, Len(text), n)
    <3>1. CASE n <= c + M - 1
      <4> DEFINE j == n - c + 1
      <4>1. j \in 1 .. M /\ c + j - 1 = n
        BY <1>1, <1>3, <3>1
      <4> HIDE DEF j
      <4>2. text[j].no = n
        BY <1>1, <4>1
      <4> QED
        BY <4>1, <4>2 DEF Counted, M
    <3>2. CASE ContextSource[path][n] = 0
      BY <3>2 DEF Counted
    <3> QED
      BY <1>1, <3>1, <3>2
  <2>3. first = [path |-> path, start |-> c, end |-> d, text |-> text, rank |-> rank]
    BY DEF c, d
  <2>4. first \in [path : {path}, start : Nat \ {0}, end : Nat, text : Seq(TextLine), rank : Nat]
    BY <1>1, <1>3, <2>3
  <2>5. first.start = c /\ first.end = d /\ first.text = text
    BY <2>3
  <2> HIDE DEF first
  <2>6. first \in Good
    BY <1>3, <2>1, <2>2, <2>4, <2>5 DEF GoodBlocks
  <2> HIDE DEF Good
  <2>7. Append(blocks, first) \in Seq(Good)
    <3>1. blocks \in Seq(Good)
      BY DEF Good
    <3> QED
      BY <2>6, <3>1
  <2> QED
    BY <1>2, <1>4, <2>7 DEF Good
<1>5. CASE ~ Apart
  <2>1. Len(blocks) \in DOMAIN blocks /\ last \in Good
    <3>1. blocks # <<>>
      BY <1>5
    <3>2. Len(blocks) \in DOMAIN blocks
      <4> DEFINE S == Good
      <4>1. blocks \in Seq(S)
        OBVIOUS
      <4> HIDE DEF S
      <4> QED
        BY <3>1, <4>1
    <3> QED
      BY <3>2, Elements
  <2>2. last.end \in Nat /\ last.rank \in Nat
    BY <2>1, ContextGood
  <2>3. c <= last.end + 1
    <3>1. ~ (c > last.end + 1)
      BY <1>5 DEF c
    <3> QED
      BY <1>3, <2>2, <3>1
  <2> DEFINE e == last.end
  <2>4. overlap = e + 1 - c /\ overlap \in Nat
    BY <1>3, <2>2, <2>3 DEF Context!Larger, c
  <2>5. end \in Nat /\ e <= end /\ d <= end /\ (end = e \/ end = d)
    BY <1>3, <2>2 DEF Context!Larger, d
  <2> HIDE DEF text, M, overlap, end, e, last
  <2>12. e \in Nat
    BY <2>2 DEF e
  <2>6. more \in Seq(TextLine) /\ Len(more) = (IF overlap + 1 <= M THEN M - overlap ELSE 0)
        /\ \A i \in 1 .. M - overlap : more[i] = text[overlap + i]
    <3>1. text \in Seq(TextLine) /\ overlap \in Nat
      BY <1>1, <2>4
    <3>2. /\ SubSeq(text, overlap + 1, Len(text)) \in Seq(TextLine)
          /\ Len(SubSeq(text, overlap + 1, Len(text))) = IF overlap + 1 <= Len(text) THEN Len(text) - overlap ELSE 0
          /\ \A i \in 1 .. Len(text) - overlap : SubSeq(text, overlap + 1, Len(text))[i] = text[overlap + i]
      BY <3>1, Suffix
    <3> QED
      BY <3>2 DEF M
  <2> HIDE DEF more
  <2>7. Len(more) \in Nat /\ Len(more) <= end - e
    <3>1. M \in Nat /\ M <= d - c + 1
      BY <1>1
    <3> QED
      BY <1>3, <2>12, <2>3, <2>4, <2>5, <2>6, <3>1
  <2>8. ASSUME NEW i \in 1 .. Len(more) PROVE more[i].no = e + i
    <3>4. M \in Nat
      BY <1>1
    <3>5. i \in 1 .. M - overlap /\ overlap + i \in 1 .. M
      BY <2>4, <2>6, <3>4
    <3>1. more[i] = text[overlap + i] /\ overlap + i \in 1 .. M
      BY <2>6, <3>5, Zenon
    <3>2. text[overlap + i].no = c + (overlap + i) - 1
      BY <1>1, <3>1
    <3>3. c + (overlap + i) - 1 = e + i
      BY <1>3, <2>12, <2>4, <3>5
    <3> QED
      BY <3>1, <3>2, <3>3, Zenon
  <2>9. ASSUME NEW n \in e + 1 .. end PROVE n <= e + Len(more) \/ ContextSource[path][n] = 0
    <3>1. e \in Nat
      BY <2>2 DEF e
    <3>2. n \in c .. d
      BY <1>3, <2>3, <2>5, <3>1 DEF e
    <3>3. n <= c + M - 1 \/ ContextSource[path][n] = 0
      BY <1>1, <3>2
    <3> QED
      BY <1>1, <1>3, <2>4, <2>6, <3>1, <3>3
  <2>10. longer \in Good
    <3>1. Context!Lesser(last.rank, rank) \in Nat
      BY <2>2 DEF Context!Lesser
    <3> QED
      BY <2>1, <2>5, <2>6, <2>7, <2>8, <2>9, <3>1, ContextExtends DEF e
  <2> HIDE DEF Good, longer
  <2>11. [blocks EXCEPT ![Len(blocks)] = longer] \in Seq(Good)
    <3>1. blocks \in Seq(Good)
      BY DEF Good
    <3> QED
      BY <2>10, <3>1, Replaced
  <2> QED
    BY <1>2, <1>5, <2>11 DEF Good
<1> QED
  BY <1>4, <1>5

\* The blocks of a file are good after each of its lines.
LEMMA ContextFile ==
  ASSUME NEW rows \in Context!Searches, NEW path \in DOMAIN ContextSource
  PROVE  Context!Blocks(rows, path)[Len(ContextSource[path])] \in Seq(GoodBlocks(path))
<1> DEFINE N == Len(ContextSource[path])
           T == Seq(GoodBlocks(path))
           At(s) == {i \in DOMAIN rows : rows[i].path = path /\ rows[i].start = s}
           Turn(a, s) == IF At(s) = {} THEN a ELSE LET i == CHOOSE i \in At(s) : TRUE IN Context!Merge(a, rows[i], i)
           step == [p \in T \X (1 .. N) |-> Turn(p[1], p[2])]
           c == Context!Blocks(rows, path)
<1>1. N \in Nat /\ <<>> \in T
  BY ContextAssumption
<1>2. ASSUME NEW a \in T, NEW s PROVE Turn(a, s) \in T
  <2>1. CASE At(s) = {}
    BY <2>1
  <2>2. CASE At(s) # {}
    <3> DEFINE i == CHOOSE i \in At(s) : TRUE
    <3>1. i \in At(s)
      BY <2>2
    <3>2. i \in DOMAIN rows /\ rows[i].path = path
      BY <3>1
    <3>3. Turn(a, s) = Context!Merge(a, rows[i], i)
      BY <2>2
    <3> HIDE DEF i, At, T
    <3>4. i \in Nat
      <4>1. PICK n \in 0 .. ContextMaxRows : rows \in [1 .. n -> Context!AllChunks]
        BY DEF Context!Searches
      <4> QED
        BY <3>2, <4>1
    <3>5. rows[i] \in Context!AllChunks
      BY <3>2, ContextSearched
    <3>6. /\ rows[i].path \in DOMAIN ContextSource /\ rows[i].start \in Nat \ {0} /\ rows[i].end \in Nat
          /\ rows[i].start <= rows[i].end /\ rows[i].end <= Len(ContextSource[rows[i].path])
      BY <3>5, ContextChunks
    <3>7. Context!Merge(a, rows[i], i) \in T
      BY <3>2, <3>4, <3>6, ContextMerge DEF T
    <3> QED
      BY <3>3, <3>7
  <2> QED
    BY <2>1, <2>2
<1> HIDE DEF T
<1>3. step \in [T \X (1 .. N) -> T]
  <2> HIDE DEF Turn
  <2> QED
    BY <1>2
<1>4. \A a \in T, n \in 1 .. N : step[<<a, n>>] = Turn(a, n)
  <2> HIDE DEF Turn
  <2> QED
    OBVIOUS
<1>5. PICK g : Iterates(g, N, T, <<>>, step)
  <2> HIDE DEF step, N
  <2> QED
    BY <1>1, <1>3, LoopsCompute
<1> HIDE DEF step
<1>6. g = [s \in 0 .. N |-> IF s = 0 THEN <<>> ELSE Turn(g[s - 1], s)]
  <2> HIDE DEF Turn, N
  <2>1. g \in [0 .. N -> T] /\ g[0] = <<>> /\ \A n \in 1 .. N : g[n] = step[<<g[n - 1], n>>]
    BY <1>5 DEF Iterates
  <2>2. ASSUME NEW n \in 1 .. N PROVE g[n] = Turn(g[n - 1], n)
    <3>1. g[n - 1] \in T
      BY <1>1, <2>1
    <3> QED
      BY <1>4, <2>1, <3>1
  <2> QED
    BY <1>1, <2>1, <2>2
<1>7. c = [s \in 0 .. N |-> IF s = 0 THEN <<>> ELSE Turn(c[s - 1], s)]
  BY <1>6, ZenonT(30) DEF Context!Blocks
<1> HIDE DEF c
<1>8. \A n \in 0 .. N : c[n] \in T
  <2> HIDE DEF Turn, N
  <2>1. c[0] \in T /\ \A n \in 1 .. N : c[n - 1] \in T => c[n] \in T
    BY <1>1, <1>2, <1>7
  <2> QED
    BY <1>1, <2>1, StepByStep
<1> QED
  BY <1>1, <1>8 DEF c, T

\* So are those of all files, wherever they rank.
LEMMA ContextAllGood ==
  ASSUME NEW rows \in Context!Searches, NEW b \in Context!ContextBlocks(rows)
  PROVE  \E path \in DOMAIN ContextSource : b \in GoodBlocks(path)
<1>1. PICK i \in DOMAIN rows :
        \E k \in DOMAIN Context!Blocks(rows, rows[i].path)[Len(ContextSource[rows[i].path])] :
          b = Context!Blocks(rows, rows[i].path)[Len(ContextSource[rows[i].path])][k]
  BY DEF Context!ContextBlocks
<1> DEFINE path == rows[i].path
           all == Context!Blocks(rows, path)[Len(ContextSource[path])]
<1>2. PICK k \in DOMAIN all : b = all[k]
  BY <1>1
<1>3. path \in DOMAIN ContextSource
  <2>1. rows[i] \in Context!AllChunks
    BY ContextSearched
  <2> QED
    BY <2>1, ContextChunks
<1> HIDE DEF path
<1>4. all \in Seq(GoodBlocks(path))
  BY <1>3, ContextFile
<1> HIDE DEF all
<1>5. b \in GoodBlocks(path)
  BY <1>2, <1>4, Elements
<1> QED
  BY <1>3, <1>5

\* The range that is recorded of a good block is of lines that are shown of it.
LEMMA ContextShown ==
  ASSUME NEW path \in DOMAIN ContextSource, NEW b \in GoodBlocks(path),
         NEW shown \in Beginnings(b.text)
  PROVE  \/ Context!VisibleRange(b, shown) = <<>>
         \/ \E range \in Ranges : /\ Context!VisibleRange(b, shown) = <<range>>
                                 /\ Shown(Context!LinesOf(b.path, shown), range)
<1>1. /\ b.path = path /\ b.start \in Nat \ {0} /\ b.end \in Nat
      /\ \A k \in 1 .. Len(b.text) : b.text[k].no \in Nat
      /\ \A k \in 1 .. Len(b.text) : b.start + k - 1 <= b.text[k].no
      /\ \A k \in 1 .. Len(b.text) : \A n \in b.start .. b.text[k].no : Counted(path, b.text, k, n)
  BY ContextGood
<1>2. shown \in Seq(TextLine) /\ Len(shown) <= Len(b.text) /\ \A k \in 1 .. Len(shown) : shown[k] = b.text[k]
  BY DEF Beginnings
<1>3. Len(shown) \in Nat /\ DOMAIN shown = 1 .. Len(shown) /\ Len(b.text) \in Nat
  BY <1>2, ContextGood
<1>4. ASSUME NEW n \in b.start .. b.start + Len(shown) - 1
      PROVE  ContextSource[path][n] = 0 \/ [path |-> path, no |-> n] \in Context!LinesOf(path, shown)
  <2> DEFINE k == n - b.start + 1
  <2>1. k \in 1 .. Len(shown) /\ k \in 1 .. Len(b.text) /\ b.start + k - 1 = n
    BY <1>1, <1>2, <1>3
  <2> HIDE DEF k
  <2>2. n \in b.start .. b.text[k].no
    BY <1>1, <2>1
  <2>3. Counted(path, b.text, k, n)
    BY <1>1, <2>1, <2>2
  <2>4. ASSUME NEW j \in 1 .. k, b.text[j].no = n PROVE [path |-> path, no |-> n] \in Context!LinesOf(path, shown)
    <3>1. j \in 1 .. Len(shown)
      BY <1>3, <2>1
    <3>2. j \in DOMAIN shown /\ shown[j].no = n
      BY <1>2, <1>3, <2>4, <3>1, Zenon
    <3> QED
      BY <3>2, Zenon DEF Context!LinesOf
  <2> QED
    BY <2>3, <2>4 DEF Counted
<1> DEFINE range == [path |-> b.path, start |-> b.start, end |-> Context!Lesser(b.end, b.start + Len(shown) - 1)]
<1>5. /\ range.path = path /\ range.start = b.start
      /\ range.end = Context!Lesser(b.end, b.start + Len(shown) - 1)
      /\ range \in Ranges
  <2>1. Context!Lesser(b.end, b.start + Len(shown) - 1) \in Int
    BY <1>1, <1>3 DEF Context!Lesser
  <2> QED
    BY <1>1, <2>1 DEF Ranges
<1>6. Context!VisibleRange(b, shown) \in {<<>>, <<range>>}
  BY DEF Context!VisibleRange
<1> HIDE DEF range
<1>7. \A n \in range.start .. range.end : n \in b.start .. b.start + Len(shown) - 1
  BY <1>1, <1>3, <1>5 DEF Context!Lesser
<1>8. Shown(Context!LinesOf(b.path, shown), range)
  BY <1>1, <1>4, <1>5, <1>7 DEF Shown
<1> QED
  BY <1>5, <1>6, <1>8

\* What a context has at each of its blocks.
Contexts ==
  {a \in [used : Int, ranges : Seq(Ranges),
          lines : SUBSET [path : DOMAIN ContextSource, no : Nat]] : Context!Covers(a.lines, a.ranges)}

\* One block more.
LEMMA ContextShow ==
  ASSUME NEW acc \in Contexts, NEW path \in DOMAIN ContextSource, NEW b \in GoodBlocks(path)
  PROVE  Context!Show(acc, b) \in Contexts
<1> DEFINE text == Context!Stripped(b.text)
           remaining == ContextMaxChars - acc.used
           shown == Context!BlockShows(text, remaining)
           lines == Context!LinesOf(b.path, shown)
           range == Context!VisibleRange(b, shown)
           used == acc.used + Context!Lesser(Context!Size(text) + ContextOverhead, remaining)
           more == [used |-> used, ranges |-> acc.ranges \o range, lines |-> acc.lines \cup lines]
<1>1. Context!Show(acc, b) = IF remaining <= 0 THEN acc ELSE more
  BY DEF Context!Show
<1>2. b.path = path /\ b.start \in Int /\ b.end \in Int /\ b.text \in Seq(TextLine)
  BY ContextGood
<1>3. acc.used \in Int /\ acc.ranges \in Seq(Ranges)
      /\ acc.lines \subseteq [path : DOMAIN ContextSource, no : Nat] /\ Context!Covers(acc.lines, acc.ranges)
  BY DEF Contexts
<1>4. text \in Beginnings(b.text) /\ text \in Seq(TextLine)
  BY <1>2, ContextCuts DEF Beginnings
<1> HIDE DEF text
<1>5. shown \in Beginnings(b.text) /\ shown \in Seq(TextLine)
  <2>1. shown \in Beginnings(text)
    <3> HIDE DEF remaining
    <3> QED
      BY <1>4, ContextCuts
  <2>2. Beginnings(text) \subseteq Beginnings(b.text)
    BY <1>2, <1>4, ContextBegins
  <2> QED
    BY <2>1, <2>2 DEF Beginnings
<1> HIDE DEF shown
<1>7. lines \subseteq [path : DOMAIN ContextSource, no : Nat]
  <2>1. \A i \in DOMAIN shown : shown[i].no \in Nat
    <3>1. \A i \in DOMAIN shown : shown[i] \in TextLine
      BY <1>5, Elements
    <3> QED
      BY <3>1 DEF TextLine
  <2> QED
    BY <1>2, <2>1 DEF Context!LinesOf
<1>9. used \in Int
  <2>1. Context!Size(text) \in Int /\ ContextMaxChars \in Int /\ ContextOverhead \in Int
    BY <1>4, ContextSize, ContextAssumption
  <2> QED
    BY <1>3, <2>1 DEF Context!Lesser
<1>10. acc.ranges \o range \in Seq(Ranges) /\ Context!Covers(acc.lines \cup lines, acc.ranges \o range)
  <2>1. Context!Covers(acc.lines \cup lines, acc.ranges)
    BY <1>3, ContextMore
  <2>2. CASE range = <<>>
    <3>1. acc.ranges \o range = acc.ranges
      BY <1>3, <2>2
    <3> QED
      BY <1>3, <2>1, <3>1
  <2>3. ASSUME NEW one \in Ranges, range = <<one>>, Shown(lines, one)
        PROVE  acc.ranges \o range \in Seq(Ranges) /\ Context!Covers(acc.lines \cup lines, acc.ranges \o range)
    <3>1. acc.ranges \o range = Append(acc.ranges, one)
      BY <1>3, <2>3
    <3>2. Shown(acc.lines \cup lines, one)
      BY <2>3 DEF Shown
    <3> HIDE DEF lines, range
    <3>3. Context!Covers(acc.lines \cup lines, Append(acc.ranges, one))
      BY <2>1, <2>3, <3>2, ContextNoted
    <3> QED
      BY <3>1, <3>3 DEF Context!Covers, Ranges
  <2> QED
    BY <1>5, <2>2, <2>3, ContextShown
<1> HIDE DEF lines, range, used
<1>11. more \in Contexts
  BY <1>3, <1>7, <1>9, <1>10 DEF Contexts
<1> QED
  BY <1>1, <1>11

\* The ranges of a context are covered by its lines.
LEMMA ContextRendered ==
  ASSUME NEW rows \in Context!Searches
  PROVE  Context!Covers(Context!Context(rows).lines, Context!Context(rows).ranges)
<1> DEFINE N == Len(rows)
           T == Contexts
           b == [used |-> 0, ranges |-> <<>>, lines |-> {}]
           Ranked(r) == {block \in Context!ContextBlocks(rows) : block.rank = r}
           Turn(a, r) == IF Ranked(r) = {} THEN a ELSE Context!Show(a, CHOOSE block \in Ranked(r) : TRUE)
           step == [p \in T \X (1 .. N) |-> Turn(p[1], p[2])]
           c == Context!Rendered(rows)
<1>1. N \in Nat
  <2>1. PICK n \in 0 .. ContextMaxRows : rows \in [1 .. n -> Context!AllChunks]
    BY DEF Context!Searches
  <2>2. n \in Nat
    OBVIOUS
  <2> QED
    BY <2>1, <2>2, FunctionIsSeq
<1>2. b \in T
  <2>1. Context!Covers({}, <<>>)
    BY DEF Context!Covers
  <2>2. <<>> \in Seq(Ranges)
    OBVIOUS
  <2>3. b.lines = {} /\ b.ranges = <<>>
    OBVIOUS
  <2>4. b \in [used : Int, ranges : Seq(Ranges), lines : SUBSET [path : DOMAIN ContextSource, no : Nat]]
    BY <2>2
  <2> HIDE DEF b
  <2>5. Context!Covers(b.lines, b.ranges)
    BY <2>1, <2>3, Zenon
  <2> QED
    BY <2>4, <2>5 DEF Contexts
<1>3. ASSUME NEW a \in T, NEW r PROVE Turn(a, r) \in T
  <2>1. CASE Ranked(r) = {}
    BY <2>1
  <2>2. CASE Ranked(r) # {}
    <3> DEFINE block == CHOOSE block \in Ranked(r) : TRUE
    <3>1. block \in Context!ContextBlocks(rows)
      BY <2>2
    <3>2. Turn(a, r) = Context!Show(a, block)
      BY <2>2
    <3> HIDE DEF block
    <3>3. PICK path \in DOMAIN ContextSource : block \in GoodBlocks(path)
      BY <3>1, ContextAllGood
    <3> QED
      BY <3>2, <3>3, ContextShow
  <2> QED
    BY <2>1, <2>2
<1> HIDE DEF T
<1>4. step \in [T \X (1 .. N) -> T]
  <2> HIDE DEF Turn
  <2> QED
    BY <1>3
<1>5. \A a \in T, n \in 1 .. N : step[<<a, n>>] = Turn(a, n)
  <2> HIDE DEF Turn
  <2> QED
    OBVIOUS
<1>6. PICK g : Iterates(g, N, T, b, step)
  <2> HIDE DEF step, N, b
  <2> QED
    BY <1>1, <1>2, <1>4, LoopsCompute
<1> HIDE DEF step
<1>7. g = [r \in 0 .. N |-> IF r = 0 THEN b ELSE Turn(g[r - 1], r)]
  <2> HIDE DEF Turn, N, b
  <2>1. g \in [0 .. N -> T] /\ g[0] = b /\ \A n \in 1 .. N : g[n] = step[<<g[n - 1], n>>]
    BY <1>6 DEF Iterates
  <2>2. ASSUME NEW n \in 1 .. N PROVE g[n] = Turn(g[n - 1], n)
    <3>1. g[n - 1] \in T
      BY <1>1, <2>1
    <3> QED
      BY <1>5, <2>1, <3>1
  <2> QED
    BY <1>1, <2>1, <2>2
<1>8. c = [r \in 0 .. N |-> IF r = 0 THEN b ELSE Turn(c[r - 1], r)]
  BY <1>7, Zenon DEF Context!Rendered
<1> HIDE DEF c
<1>9. \A n \in 0 .. N : c[n] \in T
  <2> HIDE DEF Turn, N, b
  <2>1. c[0] \in T /\ \A n \in 1 .. N : c[n - 1] \in T => c[n] \in T
    BY <1>1, <1>2, <1>3, <1>8
  <2> QED
    BY <1>1, <2>1, StepByStep
<1>10. c[N] \in T /\ Context!Context(rows) = c[N]
  BY <1>1, <1>9 DEF c, Context!Context
<1> QED
  BY <1>10 DEF T, Contexts

\* A run starts with nothing shown.
LEMMA ContextInit == part = "context" /\ Init => Context!CitedInv
<1> SUFFICES ASSUME part = "context", Init PROVE Context!CitedInv
  OBVIOUS
<1>1. r3 = <<>> /\ r4 = {} /\ r5 = None
  BY DEF Init, Context!Init
<1> QED
  BY <1>1 DEF Context!CitedInv, Context!Covers

\* Each call adds ranges with their lines; the check is of what was recorded.
LEMMA ContextStep == Context!CitedInv /\ Context!Next => Context!CitedInv'
<1> SUFFICES ASSUME Context!CitedInv, Context!Next PROVE Context!CitedInv'
  OBVIOUS
<1>1. /\ Context!Covers(r4, r3)
      /\ r5 # None => r5.cites \in ContextCited /\ r5.accepted = Context!IsSupported(r5.cites, r3)
  BY DEF Context!CitedInv
<1>2. Context!Covers(r4, r3)' = Context!Covers(r4', r3')
  BY DEF Context!Covers
<1>3. ASSUME Context!Covers(r4', r3'), r5' = None PROVE Context!CitedInv'
  BY <1>2, <1>3 DEF Context!CitedInv
<1>4. ASSUME NEW rows \in Context!Searches, Context!SearchCode(rows) PROVE Context!CitedInv'
  <2> DEFINE texts == Context!SearchShows(rows)
             lines == UNION {Context!LinesOf(rows[i].path, texts[i]) : i \in DOMAIN rows}
  <2>1. r5' = None /\ r3' = Context!RowsRecorded(r3, rows, texts)[Len(rows)] /\ r4' = r4 \cup lines
    BY <1>4 DEF Context!SearchCode
  <2>2. ASSUME NEW i \in DOMAIN rows
        PROVE  /\ Context!RowRange(rows[i], texts[i]) \in Ranges
               /\ Shown(r4 \cup lines, Context!RowRange(rows[i], texts[i]))
    <3> DEFINE row == rows[i]
               text == texts[i]
    <3>1. row \in Context!AllChunks /\ text \in Beginnings(Context!Lines(row.path, row.start, row.end))
      BY ContextSearched
    <3>2. Context!LinesOf(row.path, text) \subseteq r4 \cup lines
      <4> HIDE DEF texts
      <4> QED
        OBVIOUS
    <3> HIDE DEF row, text, lines
    <3>3. Context!RowRange(row, text) \in Ranges /\ Shown(Context!LinesOf(row.path, text), Context!RowRange(row, text))
      BY <3>1, ContextChunks, ContextRow
    <3>4. Shown(r4 \cup lines, Context!RowRange(row, text))
      BY <3>2, <3>3 DEF Shown
    <3> QED
      BY <3>3, <3>4 DEF row, text
  <2> HIDE DEF lines, texts
  <2>3. Context!Covers(r4 \cup lines, r3)
    BY <1>1, ContextMore
  <2>4. Context!Covers(r4 \cup lines, Context!RowsRecorded(r3, rows, texts)[Len(rows)])
    BY <2>2, <2>3, ContextRowsRecorded
  <2> QED
    BY <1>3, <2>1, <2>4
<1>5. ASSUME NEW rows \in Context!Searches, Context!BuildContext(rows) PROVE Context!CitedInv'
  <2>1. r5' = None /\ r3' = Context!Context(rows).ranges /\ r4' = Context!Context(rows).lines
    BY <1>5 DEF Context!BuildContext
  <2> QED
    BY <1>3, <2>1, ContextRendered
<1>6. ASSUME NEW path \in DOMAIN ContextSource, NEW first \in DOMAIN ContextSource[path],
             NEW last \in first .. Len(ContextSource[path]), Context!ReadFile(path, first, last)
      PROVE  Context!CitedInv'
  <2> DEFINE all == Context!Lines(path, first, last)
             text == Context!ReadShows(all)
  <2>1. r5' = None /\ r3' = Context!LinesRecorded(r3, path, text)[Len(text)] /\ r4' = r4 \cup Context!LinesOf(path, text)
    BY <1>6 DEF Context!ReadFile
  <2>2. first \in Nat \ {0} /\ last \in Nat /\ first <= last /\ last <= Len(ContextSource[path])
    <3>1. ContextSource[path] \in Seq(Nat)
      BY ContextAssumption
    <3> QED
      BY <3>1
  <2>3. text \in Beginnings(all)
    <3>1. all \in Seq(TextLine)
      BY <2>2, ContextLines
    <3> HIDE DEF all
    <3> QED
      BY <3>1, ContextCuts
  <2>4. text \in Seq(TextLine) /\ \A k \in 1 .. Len(text) : [path |-> path, no |-> text[k].no] \in Context!LinesOf(path, text)
    <3> DEFINE row == [path |-> path, start |-> first, end |-> last]
    <3>1. row.path = path /\ row.start = first /\ row.end = last
      OBVIOUS
    <3> HIDE DEF row, text
    <3> QED
      BY <2>2, <2>3, <3>1, ContextRow
  <2> HIDE DEF text
  <2>5. Context!Covers(r4 \cup Context!LinesOf(path, text), r3)
    BY <1>1, ContextMore
  <2>6. Context!Covers(r4 \cup Context!LinesOf(path, text), Context!LinesRecorded(r3, path, text)[Len(text)])
    BY <2>4, <2>5, ContextLinesRecorded
  <2> QED
    BY <1>3, <2>1, <2>6
<1>7. ASSUME NEW c \in ContextCited, Context!Answer(c) PROVE Context!CitedInv'
  <2>1. /\ r5' = [cites |-> c, accepted |-> Context!IsSupported(c, r3)]
        /\ r3' = r3 /\ r4' = r4
    BY <1>7 DEF Context!Answer
  <2>2. \A d : Context!IsSupported(d, r3)' = Context!IsSupported(d, r3)
    BY <2>1 DEF Context!IsSupported, Context!PathsMatch
  <2>3. r5'.cites = c /\ r5'.accepted = Context!IsSupported(c, r3)
    BY <2>1
  <2>4. Context!Covers(r4, r3)'
    BY <1>1, <1>2, <2>1
  <2>5. r5'.cites \in ContextCited /\ r5'.accepted = Context!IsSupported(r5'.cites, r3')
    BY <2>1, <2>3
  <2> QED
    BY <2>4, <2>5 DEF Context!CitedInv
<1> QED
  BY <1>4, <1>5, <1>6, <1>7 DEF Context!Next

\* A citation that is accepted is of one file, and lies in one of the ranges.
LEMMA ContextAccepted == Context!CitedInv => Context!AcceptedLinesWereShown
<1> SUFFICES ASSUME Context!CitedInv, r5 # None, r5.accepted
             PROVE  \E path \in DOMAIN ContextSource :
                      /\ \A i \in DOMAIN r3 :
                           Context!PathsMatch(r5.cites.path, r3[i].path) => r3[i].path = path
                      /\ Context!PathsMatch(r5.cites.path, path)
                      /\ \A n \in r5.cites.start .. r5.cites.end :
                           ContextSource[path][n] = 0 \/ [path |-> path, no |-> n] \in r4
  BY DEF Context!AcceptedLinesWereShown
<1> DEFINE c == r5.cites
           matching == {p \in {r3[i].path : i \in DOMAIN r3} : Context!PathsMatch(c.path, p)}
<1>1. c \in ContextCited /\ Context!Covers(r4, r3) /\ Context!IsSupported(c, r3)
  BY DEF Context!CitedInv
<1>2. PICK path \in matching : matching = {path}
  BY <1>1 DEF Context!IsSupported
<1>3. PICK j \in DOMAIN r3 : r3[j].path \in matching /\ r3[j].start <= c.start /\ c.end <= r3[j].end
  BY <1>1 DEF Context!IsSupported
<1> DEFINE r == r3[j]
<1>4. r.path = path /\ Context!PathsMatch(c.path, path)
      /\ \A i \in DOMAIN r3 : Context!PathsMatch(c.path, r3[i].path) => r3[i].path = path
  BY <1>2, <1>3
<1>5. path \in DOMAIN ContextSource /\ r.start \in Int /\ r.end \in Int
      /\ \A n \in r.start .. r.end : ContextSource[path][n] = 0 \/ [path |-> path, no |-> n] \in r4
  <2>1. r3 \in Seq(Ranges) /\ Shown(r4, r)
    BY <1>1 DEF Context!Covers, Ranges, Shown
  <2>2. r \in Ranges
    BY <2>1, Elements
  <2> HIDE DEF r
  <2> QED
    BY <1>4, <2>1, <2>2 DEF Ranges, Shown
<1>6. \A n \in c.start .. c.end : n \in r.start .. r.end
  <2>1. c.start \in Nat /\ c.end \in Nat
    BY <1>1, ContextAssumption
  <2> HIDE DEF c
  <2> QED
    BY <1>3, <1>5, <2>1
<1> QED
  BY <1>4, <1>5, <1>6

\* A citation that is accepted means one file and lines that the model was
\* shown, in a plan of Learning Mode and in an answer, for any repository,
\* search, edits and limits (learning/workflow.py:195, citation_validator.py:91).
THEOREM CitationsAreAlwaysShown == Spec => []CitationsAreShown
<1> DEFINE Inv == /\ part = "evidence" => Evidence!CitationInv
                  /\ part = "context" => Context!CitedInv
<1>1. Init => Inv
  BY EvidenceInit, ContextInit
<1>2. Inv /\ [Next]_vars => Inv'
  <2> SUFFICES ASSUME Inv, [Next]_vars PROVE Inv'
    OBVIOUS
  <2>1. CASE UNCHANGED vars
    <3>1. /\ part' = part /\ r1' = r1 /\ r2' = r2 /\ r3' = r3 /\ r4' = r4 /\ r5' = r5
          /\ r6' = r6 /\ r7' = r7 /\ r8' = r8 /\ r9' = r9
      BY <2>1 DEF vars
    <3>2. Evidence!CitationInv => Evidence!CitationInv'
      <4>1. Evidence!Observed' = Evidence!Observed
        BY <3>1 DEF Evidence!Observed, Evidence!Fragment
      <4>2. \A ref : Evidence!Supported(ref)' = Evidence!Supported(ref)
        BY <3>1 DEF Evidence!Supported
      <4>3. Evidence!Cost(r6)' = Evidence!Cost(r6) /\ Evidence!Catalog(r6)' = Evidence!Catalog(r6)
        BY <3>1 DEF Evidence!Cost, Evidence!Catalog, Evidence!Size, Evidence!Sum, Evidence!Sums
      <4> QED
        BY <3>1, <4>1, <4>2, <4>3 DEF Evidence!CitationInv
    <3>3. Context!CitedInv => Context!CitedInv'
      <4>1. Context!Covers(r4, r3)' = Context!Covers(r4, r3)
        BY <3>1 DEF Context!Covers
      <4>2. \A c : Context!IsSupported(c, r3)' = Context!IsSupported(c, r3)
        BY <3>1 DEF Context!IsSupported, Context!PathsMatch
      <4> QED
        BY <3>1, <4>1, <4>2 DEF Context!CitedInv
    <3> QED
      BY <3>1, <3>2, <3>3
  <2>2. CASE Next
    <3>1. part' = part
      BY <2>2 DEF Next
    <3>2. CASE part = "evidence"
      <4>1. Evidence!Next
        BY <2>2, <3>2 DEF Next
      <4> QED
        BY <3>1, <3>2, <4>1, EvidenceStep
    <3>3. CASE part = "context"
      <4>1. Context!Next
        BY <2>2, <3>3 DEF Next
      <4> QED
        BY <3>1, <3>3, <4>1, ContextStep
    <3> QED
      BY <3>1, <3>2, <3>3
  <2> QED
    BY <2>1, <2>2
<1>3. Inv => CitationsAreShown
  BY EvidenceCited, ContextAccepted DEF CitationsAreShown
<1> QED
  BY <1>1, <1>2, <1>3, PTL DEF Spec

-----------------------------------------------------------------------------
(***************************************************************************)
(* CodeSearch.  r1 is the stage, r2 the query, r3 the scores, r4 the       *)
(* seeds, r5 the chunks recalled and r6 the final ones.                    *)
(***************************************************************************)

LEMMA SearchCardinality == ASSUME NEW S PROVE Search!Cardinality(S) = Cardinality(S)
  BY Zenon DEF Search!Cardinality, Cardinality

\* An order of a set, as the pairs of it: strict, total and transitive.
Total(S, order) ==
  /\ \A i \in S : <<i, i>> \notin order
  /\ \A i, j \in S : i # j => <<i, j>> \in order \/ <<j, i>> \in order
  /\ \A i, j, k \in S : <<i, j>> \in order /\ <<j, k>> \in order => <<i, k>> \in order

\* A sequence with each element of a set once, in an order.
Lists(s, n, S, order) ==
  /\ n \in Nat /\ s \in [1 .. n -> S]
  /\ \A p, q \in 1 .. n : p < q => <<s[p], s[q]>> \in order
  /\ \A p, q \in 1 .. n : s[p] = s[q] => p = q
  /\ \A i \in S : \E p \in 1 .. n : s[p] = i

\* Sorting a finite set by an order of it lists the set in that order.
LEMMA SortedLists ==
  ASSUME NEW S, IsFiniteSet(S), NEW order, Total(S, order)
  PROVE  Lists(Search!Sorted(S, order), Cardinality(S), S, order)
<1> DEFINE n == Cardinality(S)
           s == Search!Sorted(S, order)
           before(i) == Search!Before(S, order, i)
           rank == [i \in S |-> Cardinality(before(i))]
<1>1. n \in Nat
  BY FS_CardinalityType
<1>2. ASSUME NEW i \in S PROVE IsFiniteSet(before(i)) /\ rank[i] \in 0 .. n - 1
  <2>1. before(i) \in SUBSET (S \ {i})
    BY DEF Search!Before, Total
  <2>2. IsFiniteSet(S \ {i}) /\ Cardinality(S \ {i}) = n - 1
    BY FS_RemoveElement
  <2>3. IsFiniteSet(before(i)) /\ Cardinality(before(i)) <= n - 1
    <3> HIDE DEF before
    <3> QED
      BY <2>1, <2>2, FS_Subset
  <2>4. Cardinality(before(i)) \in Nat
    <3> HIDE DEF before
    <3> QED
      BY <2>3, FS_CardinalityType
  <2> QED
    BY <1>1, <2>3, <2>4
<1>3. ASSUME NEW i \in S, NEW j \in S, <<i, j>> \in order PROVE rank[i] < rank[j]
  <2>1. before(i) \in SUBSET before(j)
    BY <1>3 DEF Search!Before, Total
  <2>2. i \in before(j) /\ i \notin before(i)
    BY <1>3 DEF Search!Before, Total
  <2>3. IsFiniteSet(before(j)) /\ rank[i] \in Int /\ rank[j] \in Int
    BY <1>1, <1>2
  <2>4. rank[i] = Cardinality(before(i)) /\ rank[j] = Cardinality(before(j))
    OBVIOUS
  <2> HIDE DEF before, rank
  <2>5. Cardinality(before(i)) <= Cardinality(before(j)) /\ Cardinality(before(i)) # Cardinality(before(j))
    BY <2>1, <2>2, <2>3, FS_Subset
  <2> QED
    BY <2>3, <2>4, <2>5
<1>4. rank \in Injection(S, 0 .. n - 1)
  <2>1. rank \in [S -> 0 .. n - 1]
    BY <1>2
  <2>2. \A i, j \in S : rank[i] = rank[j] => i = j
    <3> SUFFICES ASSUME NEW i \in S, NEW j \in S, i # j PROVE rank[i] # rank[j]
      OBVIOUS
    <3>1. <<i, j>> \in order \/ <<j, i>> \in order
      BY DEF Total
    <3>2. rank[i] < rank[j] \/ rank[j] < rank[i]
      BY <1>3, <3>1
    <3>3. rank[i] \in Int /\ rank[j] \in Int
      BY <1>1, <1>2
    <3> QED
      BY <3>2, <3>3
  <2> HIDE DEF rank
  <2> QED
    BY <2>1, <2>2 DEF Injection, IsInjective
<1>5. IsFiniteSet(0 .. n - 1) /\ Cardinality(0 .. n - 1) = n
  BY <1>1, FS_Interval
<1>6. \A r \in 0 .. n - 1 : \E i \in S : rank[i] = r
  <2> HIDE DEF rank
  <2>1. rank \in Surjection(S, 0 .. n - 1)
    BY <1>4, <1>5, FS_Injection
  <2> QED
    BY <2>1 DEF Surjection
<1>7. s = [p \in 1 .. Cardinality(S) |->
              CHOOSE i \in S : Cardinality(Search!Before(S, order, i)) = p - 1]
  BY SearchCardinality DEF Search!Sorted
<1>8. ASSUME NEW p \in 1 .. n PROVE s[p] \in S /\ rank[s[p]] = p - 1
  <2>1. PICK i \in S : rank[i] = p - 1
    BY <1>1, <1>6
  <2>2. Cardinality(before(i)) = p - 1
    BY <2>1
  <2> HIDE DEF s
  <2>3. s[p] \in S /\ Cardinality(before(s[p])) = p - 1
    BY <1>7, <2>2, Zenon
  <2> QED
    BY <2>3
<1> HIDE DEF rank, s, before
<1>9. s \in [1 .. n -> S]
  BY <1>7, <1>8
<1>10. ASSUME NEW p \in 1 .. n, NEW q \in 1 .. n, p < q PROVE <<s[p], s[q]>> \in order
  <2>1. rank[s[p]] = p - 1 /\ rank[s[q]] = q - 1 /\ s[p] \in S /\ s[q] \in S
    BY <1>8
  <2>2. rank[s[p]] < rank[s[q]] /\ ~ (rank[s[q]] < rank[s[p]])
    BY <1>1, <1>10, <2>1
  <2>3. s[p] # s[q] /\ <<s[q], s[p]>> \notin order
    BY <1>3, <2>1, <2>2
  <2> QED
    BY <2>1, <2>3 DEF Total
<1>11. ASSUME NEW p \in 1 .. n, NEW q \in 1 .. n, s[p] = s[q] PROVE p = q
  <2>1. p - 1 = q - 1
    BY <1>8, <1>11
  <2> QED
    BY <1>1, <2>1
<1>12. ASSUME NEW i \in S PROVE \E p \in 1 .. n : s[p] = i
  <2>1. PICK p \in 1 .. n : rank[i] = p - 1
    <3>1. rank[i] \in 0 .. n - 1
      BY <1>2
    <3>2. rank[i] + 1 \in 1 .. n /\ rank[i] = (rank[i] + 1) - 1
      BY <1>1, <3>1
    <3> QED
      BY <3>2
  <2>2. s[p] \in S /\ rank[s[p]] = rank[i]
    BY <1>8, <2>1
  <2>3. s[p] = i
    BY <1>4, <2>2 DEF Injection, IsInjective
  <2> QED
    BY <2>3
<1> QED
  BY <1>1, <1>9, <1>10, <1>11, <1>12 DEF Lists, s

\* Of some elements of a set in an order, one is before the others.
LEMMA FirstInOrder ==
  ASSUME NEW S, IsFiniteSet(S), NEW order, Total(S, order), NEW T, T \subseteq S, T # {}
  PROVE  \E l \in T : \A i \in T : i # l => <<l, i>> \in order /\ <<i, l>> \notin order
<1>1. PICK s, n : Lists(s, n, S, order)
  BY SortedLists
<1> DEFINE places == {p \in 1 .. n : s[p] \in T}
<1>2. places \subseteq Nat /\ places # {}
  BY <1>1 DEF Lists
<1>3. PICK p \in places : \A q \in places : p <= q
  <2> HIDE DEF places
  <2> QED
    BY <1>2, LeastNumber
<1>4. ASSUME NEW i \in T, i # s[p] PROVE <<s[p], i>> \in order
  <2>1. PICK q \in 1 .. n : s[q] = i
    BY <1>1 DEF Lists
  <2>2. p <= q /\ p # q
    BY <1>3, <1>4, <2>1
  <2>3. p < q /\ p \in 1 .. n
    BY <1>1, <2>2 DEF Lists
  <2> QED
    BY <1>1, <2>1, <2>3 DEF Lists
<1>5. s[p] \in T
  OBVIOUS
<1>6. \A i \in T : <<s[p], i>> \in order => <<i, s[p]>> \notin order
  BY <1>5 DEF Total
<1> QED
  BY <1>4, <1>5, <1>6

\* The first of each file is before the rest of the file, and there is one.
LEMMA LeadOfFile ==
  ASSUME NEW S, IsFiniteSet(S), NEW order, Total(S, order), NEW i \in S
  PROVE  \E l \in Search!Leads(S, order) :
           /\ l \in S /\ Search!File(l) = Search!File(i)
           /\ \A j \in S : Search!File(j) = Search!File(i) =>
                /\ j # l => <<l, j>> \in order /\ <<j, l>> \notin order /\ j \notin Search!Leads(S, order)
<1> DEFINE T == {j \in S : Search!File(j) = Search!File(i)}
<1>1. T \subseteq S /\ T # {}
  OBVIOUS
<1>2. PICK l \in T : \A j \in T : j # l => <<l, j>> \in order /\ <<j, l>> \notin order
  <2> HIDE DEF T
  <2> QED
    BY <1>1, FirstInOrder
<1>3. \A j \in T : <<j, l>> \notin order
  BY <1>2 DEF Total
<1>4. l \in Search!Leads(S, order)
  BY <1>3 DEF Search!Leads, Search!Before
<1>5. \A j \in T : j # l => j \notin Search!Leads(S, order)
  BY <1>2 DEF Search!Leads, Search!Before
<1> QED
  BY <1>2, <1>4, <1>5

\* Putting the first of each file ahead is an order again.
LEMMA DiverseIsTotal ==
  ASSUME NEW S, NEW order, Total(S, order)
  PROVE  Total(S, Search!Diverse(S, order))
<1> DEFINE leads == Search!Leads(S, order)
<1>1. \A i, j \in S : <<i, j>> \in Search!Diverse(S, order) <=>
        \/ i \in leads /\ j \notin leads
        \/ (i \in leads <=> j \in leads) /\ <<i, j>> \in order
  BY DEF Search!Diverse
<1> HIDE DEF leads
<1> QED
  BY <1>1, Zenon DEF Total

\* And a sequence is one.
LEMMA SeqIsFunction == ASSUME NEW S, NEW s \in Seq(S) PROVE Len(s) \in Nat /\ s \in [1 .. Len(s) -> S]
  OBVIOUS

\* The first k of n.
CountOf(n, k) == IF k < 0 THEN 0 ELSE IF k <= n THEN k ELSE n

\* The first m of n, of some set.
Begins(f, m, s, n, S) ==
  /\ m \in Nat /\ m <= n /\ f \in [1 .. m -> S] /\ Len(f) = m
  /\ \A p \in 1 .. m : f[p] = s[p]

LEMMA FirstOfIs ==
  ASSUME NEW S, NEW n \in Nat, NEW s \in [1 .. n -> S], NEW k \in Int
  PROVE  Begins(Search!FirstOf(s, k), CountOf(n, k), s, n, S)
<1> DEFINE m == CountOf(n, k)
           f == Search!FirstOf(s, k)
<1> USE DEF CountOf, Begins
<1>1. s \in Seq(S) /\ Len(s) = n
  BY FunctionIsSeq
<1>2. f = SubSeq(s, 1, IF k <= n THEN k ELSE n)
  BY <1>1 DEF Search!FirstOf, Search!Lesser
<1>3. CASE k < 0
  <2>1. f = <<>> /\ m = 0 /\ Len(<<>>) = 0 /\ <<>> \in [1 .. 0 -> S]
    BY <1>1, <1>2, <1>3
  <2> QED
    BY <2>1
<1>4. CASE k >= 0
  <2>1. m \in 0 .. n /\ f = SubSeq(s, 1, m)
    BY <1>2, <1>4
  <2>2. SubSeq(s, 1, m) \in Seq(S) /\ Len(SubSeq(s, 1, m)) = m /\ \A p \in 1 .. m : SubSeq(s, 1, m)[p] = s[p]
    <3>1. m \in 0 .. Len(s)
      BY <1>1, <2>1
    <3> QED
      BY ONLY <1>1, <3>1, Prefix
  <2>3. f \in Seq(S) /\ Len(f) = m /\ \A p \in 1 .. m : f[p] = s[p]
    BY <2>1, <2>2, Zenon
  <2>4. f \in [1 .. m -> S]
    BY <2>3
  <2> QED
    BY <2>1, <2>3, <2>4
<1> QED
  BY <1>3, <1>4

\* A function on the first numbers has a bound.
LEMMA ScoresAreBounded ==
  ASSUME NEW N \in Nat, NEW score \in [1 .. N -> Nat]
  PROVE  \E M \in Nat : \A i \in 1 .. N : score[i] < M
<1> DEFINE T == {n \in Nat : \E M \in Nat : \A i \in 1 .. N : i <= n => score[i] < M}
           f == [n \in 0 .. N |-> n]
<1>1. f[0] \in T
  <2>1. \A i \in 1 .. N : ~ (i <= 0)
    OBVIOUS
  <2> QED
    BY <2>1
<1>2. ASSUME NEW n \in 1 .. N, f[n - 1] \in T PROVE f[n] \in T
  <2>1. f[n - 1] = n - 1 /\ f[n] = n
    OBVIOUS
  <2>2. PICK M \in Nat : \A i \in 1 .. N : i <= n - 1 => score[i] < M
    BY <1>2, <2>1
  <2>3. PICK L \in Nat : M <= L /\ score[n] < L
    <3>1. M + score[n] + 1 \in Nat /\ M <= M + score[n] + 1 /\ score[n] < M + score[n] + 1
      OBVIOUS
    <3> QED
      BY <3>1
  <2>4. \A i \in 1 .. N : i <= n => score[i] < L
    BY <2>2, <2>3
  <2> QED
    BY <2>1, <2>4
<1>3. f[N] \in T /\ f[N] = N
  <2> HIDE DEF T, f
  <2>1. \A n \in 0 .. N : f[n] \in T
    BY <1>1, <1>2, StepByStep
  <2> QED
    BY <2>1 DEF f
<1> QED
  BY <1>3

\* Some of these have the highest score.
LEMMA HighestScore ==
  ASSUME NEW N \in Nat, NEW score \in [1 .. N -> Nat], NEW S, S \subseteq 1 .. N, S # {}
  PROVE  \E i \in S : \A j \in S : score[j] <= score[i]
<1>1. PICK M \in Nat : \A i \in 1 .. N : score[i] < M
  BY ScoresAreBounded
<1> DEFINE T == {score[i] : i \in S}
<1>2. T \subseteq 0 .. M /\ T # {}
  <2>1. \A i \in S : score[i] \in 0 .. M
    BY <1>1
  <2> QED
    BY <2>1
<1>3. PICK x \in T : \A y \in T : y <= x
  <2> HIDE DEF T
  <2> QED
    BY <1>2, GreatestNumber
<1> QED
  BY <1>3

\* If n elements of a falling sequence are found in another, its n-th is no
\* greater than that of the other.
LEMMA Matching ==
  ASSUME NEW n \in Nat \ {0}, NEW b \in Nat, n <= b,
         NEW A, \A p \in 1 .. n : A[p] \in Nat /\ A[n] <= A[p],
         NEW B, \A p \in 1 .. b : B[p] \in Nat /\ (n <= p => B[p] <= B[n]),
         NEW f \in [1 .. n -> 1 .. b],
         \A p, q \in 1 .. n : f[p] = f[q] => p = q,
         \A p \in 1 .. n : B[f[p]] = A[p]
  PROVE  A[n] <= B[n]
<1> SUFFICES ASSUME ~ (A[n] <= B[n]) PROVE FALSE
  OBVIOUS
<1>1. A[n] \in Nat /\ B[n] \in Nat /\ B[n] < A[n]
  OBVIOUS
<1>2. f \in [1 .. n -> 1 .. n - 1]
  <2> SUFFICES ASSUME NEW p \in 1 .. n PROVE f[p] \in 1 .. n - 1
    OBVIOUS
  <2>1. f[p] \in 1 .. b /\ B[f[p]] \in Nat /\ A[p] \in Nat /\ B[f[p]] = A[p] /\ A[n] <= A[p]
    OBVIOUS
  <2>2. n <= f[p] => B[f[p]] <= B[n]
    BY <2>1
  <2>3. ~ (n <= f[p])
    BY <1>1, <2>1, <2>2
  <2> QED
    BY <2>1, <2>3
<1>3. /\ IsFiniteSet(1 .. n) /\ Cardinality(1 .. n) = n
      /\ IsFiniteSet(1 .. n - 1) /\ Cardinality(1 .. n - 1) = n - 1
  <2>1. n \in Int /\ 1 \in Int /\ n - 1 \in Int /\ ~ (1 > n)
    OBVIOUS
  <2>2. /\ IsFiniteSet(1 .. n) /\ Cardinality(1 .. n) = IF 1 > n THEN 0 ELSE n - 1 + 1
        /\ IsFiniteSet(1 .. n - 1) /\ Cardinality(1 .. n - 1) = IF 1 > n - 1 THEN 0 ELSE n - 1 - 1 + 1
    BY ONLY <2>1, FS_Interval
  <2> QED
    BY <2>1, <2>2
<1>4. \E p, q \in 1 .. n : p # q /\ f[p] = f[q]
  <2>1. Cardinality(1 .. n - 1) < Cardinality(1 .. n)
    BY <1>3
  <2> QED
    BY ONLY <1>2, <1>3, <2>1, FS_PigeonHole, SMTT(30)
<1> QED
  BY <1>4

\* The positions of the index, and what is where.
LEMMA SearchIndexes ==
  /\ Len(SearchChunks) \in Nat /\ Search!Indexes = 1 .. Len(SearchChunks)
  /\ IsFiniteSet(Search!Indexes) /\ Cardinality(Search!Indexes) = Len(SearchChunks)
  /\ None \notin Int
BY SearchAssumption, FS_Interval DEF Search!Indexes

\* The best chunk of some is one of them.
LEMMA BestIsOneOf ==
  ASSUME NEW score \in [Search!Indexes -> Nat], NEW S, S \subseteq Search!Indexes, S # {}
  PROVE  Search!BestOf(S, score) \in S
<1> DEFINE T == {i \in S : \A j \in S : score[j] <= score[i]}
<1>1. T # {}
  BY SearchIndexes, HighestScore
<1>2. T \subseteq Nat
  <2>1. \A i \in Search!Indexes : i \in Nat
    BY SearchIndexes
  <2> QED
    BY <2>1
<1>3. \E x \in T : \A y \in T : x <= y
  <2> HIDE DEF T
  <2> QED
    BY <1>1, <1>2, LeastNumber
<1>4. Search!Least(T) \in T
  <2> HIDE DEF T
  <2> QED
    BY <1>3 DEF Search!Least
<1> QED
  BY <1>4 DEF Search!BestOf

\* The chunk of a mentioned method is in the file asked about.
LEMMA TargetIsInFile ==
  ASSUME NEW score \in [Search!Indexes -> Nat], NEW file, NEW mentions, DOMAIN mentions \subseteq Nat,
         NEW t, t = Search!TargetIn(file, mentions, score)
  PROVE  t = None \/ (t \in Search!Indexes /\ t # None /\ Search!File(t) = file)
<1> DEFINE found == {n \in DOMAIN mentions : mentions[n].file = file /\ Search!Covering(mentions[n]) # {}}
<1>1. t = IF found = {} THEN None ELSE Search!BestOf(Search!Covering(mentions[Search!Least(found)]), score)
  BY DEF Search!TargetIn
<1>2. CASE found # {}
  <2>1. Search!Least(found) \in found
    <3>1. found \subseteq Nat
      OBVIOUS
    <3> HIDE DEF found
    <3>2. \E x \in found : \A y \in found : x <= y
      BY <1>2, <3>1, LeastNumber
    <3> QED
      BY <3>2 DEF Search!Least
  <2>2. PICK d : d = mentions[Search!Least(found)]
    OBVIOUS
  <2>3. d.file = file /\ Search!Covering(d) # {}
    BY <2>1, <2>2
  <2>4. Search!Covering(d) \subseteq {i \in Search!Indexes : Search!File(i) = file}
    BY <2>3 DEF Search!Covering
  <2>5. Search!BestOf(Search!Covering(d), score) \in Search!Covering(d)
    BY <2>3, <2>4, BestIsOneOf
  <2>6. t = Search!BestOf(Search!Covering(d), score)
    BY <1>1, <1>2, <2>2
  <2>7. t \in Search!Indexes /\ Search!File(t) = file
    BY <2>4, <2>5, <2>6
  <2> QED
    BY <2>7, SearchIndexes
<1> QED
  BY <1>1, <1>2

\* A promoted score is a score.
LEMMA PromotedScores ==
  ASSUME NEW score \in [Search!Indexes -> Nat], NEW asked
  PROVE  Search!Promoted(score, asked) \in [Search!Indexes -> Nat]
<1> DEFINE all == {score[i] : i \in Search!Indexes}
           best == {Search!BestOf(Search!Covering(d), score) : d \in {e \in asked : Search!Covering(e) # {}}}
           top == Search!Greatest(all)
<1>1. ASSUME NEW i \in Search!Indexes PROVE top \in Nat
  <2>1. PICK M \in Nat : all \subseteq 0 .. M
    <3>1. PICK M \in Nat : \A j \in Search!Indexes : score[j] < M
      BY SearchIndexes, ScoresAreBounded
    <3>2. all \subseteq 0 .. M
      BY <3>1
    <3> QED
      BY <3>2
  <2>2. all # {}
    OBVIOUS
  <2> HIDE DEF all
  <2>3. \E x \in all : \A y \in all : y <= x
    BY <2>1, <2>2, GreatestNumber
  <2>4. top \in all
    BY <2>3 DEF Search!Greatest
  <2>5. all \subseteq Nat
    BY <2>1
  <2> QED
    BY <2>4, <2>5
<1>2. Search!Promoted(score, asked) = [i \in Search!Indexes |-> IF i \in best THEN top + 1 + score[i] ELSE score[i]]
  BY DEF Search!Promoted
<1> HIDE DEF best, top
<1> QED
  BY <1>1, <1>2

\* An order that is by score.
Falls(S, order, score) == \A i, j \in S : <<i, j>> \in order => score[j] <= score[i]

LEMMA ByScoreIsTotal ==
  ASSUME NEW score \in [Search!Indexes -> Nat]
  PROVE  /\ Total(Search!Indexes, Search!ByScore(score))
         /\ Falls(Search!Indexes, Search!ByScore(score), score)
<1> DEFINE order == Search!ByScore(score)
<1>1. \A i, j \in Search!Indexes : <<i, j>> \in order <=> (score[i] > score[j] \/ (score[i] = score[j] /\ i < j))
  BY DEF Search!ByScore
<1>2. \A i \in Search!Indexes : score[i] \in Nat /\ i \in Nat
  BY SearchIndexes
<1> HIDE DEF order
<1>3. \A i \in Search!Indexes : <<i, i>> \notin order
  BY <1>1, <1>2
<1>4. \A i, j \in Search!Indexes : i # j => <<i, j>> \in order \/ <<j, i>> \in order
  BY <1>1, <1>2
<1>5. \A i, j, k \in Search!Indexes : <<i, j>> \in order /\ <<j, k>> \in order => <<i, k>> \in order
  BY <1>1, <1>2
<1>6. Falls(Search!Indexes, order, score)
  BY <1>1, <1>2 DEF Falls
<1> QED
  BY <1>3, <1>4, <1>5, <1>6, Zenon DEF Total, order

\* The first n of a list of X are found in a list of Y, with their keys.
Found(n, a, X, d1, k1, b, Y, d2, k2, g) ==
  /\ a \in Nat /\ b \in Nat /\ n \in 1 .. a /\ n <= b
  /\ d1 \in [1 .. a -> X] /\ \A p, q \in 1 .. a : d1[p] = d1[q] => p = q
  /\ d2 \in [1 .. b -> Y] /\ \A i \in Y : \E p \in 1 .. b : d2[p] = i
  /\ (\A i \in X : k1[i] \in Nat) /\ \A p, q \in 1 .. a : p < q => k1[d1[q]] <= k1[d1[p]]
  /\ (\A i \in Y : k2[i] \in Nat) /\ \A p, q \in 1 .. b : p < q => k2[d2[q]] <= k2[d2[p]]
  /\ \A p \in 1 .. n : g[d1[p]] \in Y /\ k2[g[d1[p]]] = k1[d1[p]]
  /\ \A p, q \in 1 .. n : g[d1[p]] = g[d1[q]] => d1[p] = d1[q]

\* Then the n-th has no greater key than the n-th there.
LEMMA NotAhead ==
  ASSUME NEW n, NEW a, NEW X, NEW d1, NEW k1, NEW b, NEW Y, NEW d2, NEW k2, NEW g,
         Found(n, a, X, d1, k1, b, Y, d2, k2, g)
  PROVE  k1[d1[n]] <= k2[d2[n]]
<1> USE DEF Found
<1> DEFINE f == [p \in 1 .. n |-> CHOOSE q \in 1 .. b : d2[q] = g[d1[p]]]
           A == [p \in 1 .. n |-> k1[d1[p]]]
           B == [p \in 1 .. b |-> k2[d2[p]]]
<1>1. \A p \in 1 .. n : f[p] \in 1 .. b /\ d2[f[p]] = g[d1[p]]
  OBVIOUS
<1>2. f \in [1 .. n -> 1 .. b]
  BY <1>1
<1>3. \A p \in 1 .. n : p \in 1 .. a /\ d1[p] \in X
  OBVIOUS
<1>4. \A p, q \in 1 .. n : f[p] = f[q] => p = q
  <2> HIDE DEF f
  <2> SUFFICES ASSUME NEW p \in 1 .. n, NEW q \in 1 .. n, f[p] = f[q] PROVE p = q
    OBVIOUS
  <2>1. g[d1[p]] = g[d1[q]]
    BY <1>1
  <2> QED
    BY <1>3, <2>1
<1>5. \A p \in 1 .. n : A[p] \in Nat /\ A[n] <= A[p]
  <2> SUFFICES ASSUME NEW p \in 1 .. n PROVE A[p] \in Nat /\ A[n] <= A[p]
    OBVIOUS
  <2>1. A[p] = k1[d1[p]] /\ A[n] = k1[d1[n]] /\ k1[d1[p]] \in Nat /\ k1[d1[n]] \in Nat
    BY <1>3
  <2>2. p = n \/ (p < n /\ p \in 1 .. a)
    OBVIOUS
  <2>3. p < n => k1[d1[n]] <= k1[d1[p]]
    BY <2>2
  <2> QED
    BY <2>1, <2>2, <2>3
<1>6. \A p \in 1 .. b : B[p] \in Nat /\ (n <= p => B[p] <= B[n])
  <2> SUFFICES ASSUME NEW p \in 1 .. b PROVE B[p] \in Nat /\ (n <= p => B[p] <= B[n])
    OBVIOUS
  <2>1. n \in 1 .. b /\ B[p] = k2[d2[p]] /\ B[n] = k2[d2[n]] /\ k2[d2[p]] \in Nat /\ k2[d2[n]] \in Nat
    OBVIOUS
  <2>2. n < p => k2[d2[p]] <= k2[d2[n]]
    BY <2>1
  <2>3. n <= p => n = p \/ n < p
    OBVIOUS
  <2> QED
    BY <2>1, <2>2, <2>3
<1>7. \A p \in 1 .. n : B[f[p]] = A[p]
  <2> SUFFICES ASSUME NEW p \in 1 .. n PROVE B[f[p]] = A[p]
    OBVIOUS
  <2>1. f[p] \in 1 .. b /\ d2[f[p]] = g[d1[p]] /\ k2[g[d1[p]]] = k1[d1[p]]
    BY <1>1
  <2> HIDE DEF f
  <2> QED
    BY <2>1
<1>8. A[n] = k1[d1[n]] /\ B[n] = k2[d2[n]] /\ n \in Nat \ {0}
  OBVIOUS
<1> HIDE DEF f, A, B
<1>9. A[n] <= B[n]
  <2>1. b \in Nat /\ n <= b
    OBVIOUS
  <2> QED
    BY ONLY <2>1, <1>2, <1>4, <1>5, <1>6, <1>7, <1>8, Matching
<1> QED
  BY <1>8, <1>9, Zenon

\* The key of a chunk in a ranking that puts the first of each file ahead: its
\* score, and more than any score for a first one.
Key(leads, score, M) == [i \in Search!Indexes |-> IF i \in leads THEN score[i] + M ELSE score[i]]

LEMMA KeysFall ==
  ASSUME NEW score \in [Search!Indexes -> Nat], NEW M \in Nat, \A i \in Search!Indexes : score[i] < M,
         NEW S, S \subseteq Search!Indexes, NEW order, Falls(S, order, score),
         NEW n, NEW d, Lists(d, n, S, Search!Diverse(S, order)),
         NEW leads, leads = Search!Leads(S, order),
         NEW key, key = Key(leads, score, M)
  PROVE  /\ \A i \in S : key[i] \in Nat
         /\ \A p, q \in 1 .. n : p < q => key[d[q]] <= key[d[p]]
<1>1. \A i \in S : /\ score[i] \in Nat /\ score[i] < M
                   /\ key[i] = IF i \in leads THEN score[i] + M ELSE score[i]
  BY DEF Key
<1>2. \A i \in S : key[i] \in Nat
  BY <1>1
<1>3. ASSUME NEW p \in 1 .. n, NEW q \in 1 .. n, p < q PROVE key[d[q]] <= key[d[p]]
  <2>1. PICK i \in S, j \in S : i = d[p] /\ j = d[q]
    BY DEF Lists
  <2>2. <<i, j>> \in Search!Diverse(S, order)
    BY <1>3, <2>1 DEF Lists
  <2>3. \/ i \in leads /\ j \notin leads
        \/ (i \in leads <=> j \in leads) /\ <<i, j>> \in order
    BY <2>2 DEF Search!Diverse
  <2>4. <<i, j>> \in order => score[j] <= score[i]
    BY DEF Falls
  <2>5. /\ score[i] \in Nat /\ score[i] < M /\ key[i] = IF i \in leads THEN score[i] + M ELSE score[i]
        /\ score[j] \in Nat /\ score[j] < M /\ key[j] = IF j \in leads THEN score[j] + M ELSE score[j]
    BY <1>1
  <2>6. key[j] <= key[i]
    <3>1. CASE i \in leads /\ j \notin leads
      BY <2>5, <3>1
    <3>2. CASE i \in leads /\ j \in leads /\ score[j] <= score[i]
      BY <2>5, <3>2
    <3>3. CASE i \notin leads /\ j \notin leads /\ score[j] <= score[i]
      BY <2>5, <3>3
    <3> QED
      BY <2>3, <2>4, <3>1, <3>2, <3>3
  <2> QED
    BY <2>1, <2>6
<1> QED
  BY <1>2, <1>3

\* The ranking d1 of the index, and the ranking d2 of a part of it, both by score
\* with the first of each file ahead; the part holds the m first of d1, and has
\* no other files.
SameFiles(m, d1, a, o1, S, d2, b, o2, score) ==
  /\ score \in [Search!Indexes -> Nat] /\ S \subseteq Search!Indexes
  /\ Total(Search!Indexes, o1) /\ Falls(Search!Indexes, o1, score)
  /\ Total(S, o2) /\ Falls(S, o2, score)
  /\ Lists(d1, a, Search!Indexes, Search!Diverse(Search!Indexes, o1))
  /\ Lists(d2, b, S, Search!Diverse(S, o2))
  /\ m \in 0 .. a /\ \A p \in 1 .. m : d1[p] \in S
  /\ \A i \in S : \E p \in 1 .. m : Search!File(d1[p]) = Search!File(i)

\* Then the m first of both have the same scores.
LEMMA SameScores ==
  ASSUME NEW m, NEW d1, NEW a, NEW o1, NEW S, NEW d2, NEW b, NEW o2, NEW score,
         SameFiles(m, d1, a, o1, S, d2, b, o2, score)
  PROVE  m <= b /\ \A n \in 1 .. m : score[d1[n]] = score[d2[n]]
<1> SUFFICES ASSUME score \in [Search!Indexes -> Nat], S \subseteq Search!Indexes,
                    Total(Search!Indexes, o1), Falls(Search!Indexes, o1, score),
                    Total(S, o2), Falls(S, o2, score),
                    Lists(d1, a, Search!Indexes, Search!Diverse(Search!Indexes, o1)),
                    Lists(d2, b, S, Search!Diverse(S, o2)),
                    m \in 0 .. a, \A p \in 1 .. m : d1[p] \in S,
                    \A i \in S : \E p \in 1 .. m : Search!File(d1[p]) = Search!File(i)
             PROVE  m <= b /\ \A n \in 1 .. m : score[d1[n]] = score[d2[n]]
  BY DEF SameFiles
<1> DEFINE all == Search!Indexes
           file(i) == Search!File(i)
           L1 == Search!Leads(all, o1)
           L2 == Search!Leads(S, o2)
           first1 == [i \in S |-> CHOOSE l \in L1 : file(l) = file(i)]
           first2 == [i \in S |-> CHOOSE l \in L2 : file(l) = file(i)]
           swap == [i \in S |-> IF i = first1[i] THEN first2[i] ELSE IF i = first2[i] THEN first1[i] ELSE i]
<1>1. IsFiniteSet(all) /\ IsFiniteSet(S)
  BY SearchIndexes, FS_Subset
<1>2. ASSUME NEW i \in S
      PROVE  /\ first1[i] \in L1 /\ first1[i] \in all /\ file(first1[i]) = file(i)
             /\ \A j \in all : file(j) = file(i) =>
                  /\ j \in L1 => j = first1[i]
                  /\ j # first1[i] => <<first1[i], j>> \in o1
  <2>1. PICK l \in L1 :
             /\ l \in all /\ file(l) = file(i)
             /\ \A j \in all : file(j) = file(i) =>
                  /\ j # l => <<l, j>> \in o1 /\ <<j, l>> \notin o1 /\ j \notin L1
    <3>1. i \in all
      OBVIOUS
    <3> QED
      BY ONLY <1>1, <3>1, Total(all, o1), LeadOfFile
  <2>2. L1 \subseteq all
    BY DEF Search!Leads
  <2>3. \A j \in L1 : file(j) = file(i) => j = l
    BY <2>1, <2>2
  <2> HIDE DEF L1
  <2>4. first1[i] = l
    BY <2>1, <2>3
  <2> QED
    BY <2>1, <2>4
<1>3. ASSUME NEW i \in S
      PROVE  /\ first2[i] \in L2 /\ first2[i] \in S /\ file(first2[i]) = file(i)
             /\ \A j \in S : file(j) = file(i) =>
                  /\ j \in L2 => j = first2[i]
                  /\ j # first2[i] => <<first2[i], j>> \in o2
  <2>1. PICK l \in L2 :
             /\ l \in S /\ file(l) = file(i)
             /\ \A j \in S : file(j) = file(i) =>
                  /\ j # l => <<l, j>> \in o2 /\ <<j, l>> \notin o2 /\ j \notin L2
    BY ONLY <1>1, i \in S, Total(S, o2), LeadOfFile
  <2>2. L2 \subseteq S
    BY DEF Search!Leads
  <2>3. \A j \in L2 : file(j) = file(i) => j = l
    BY <2>1, <2>2
  <2> HIDE DEF L2
  <2>4. first2[i] = l
    BY <2>1, <2>3
  <2> QED
    BY <2>1, <2>4
<1>4. \A i, j \in all : <<i, j>> \in Search!Diverse(all, o1) <=>
         \/ i \in L1 /\ j \notin L1
         \/ (i \in L1 <=> j \in L1) /\ <<i, j>> \in o1
  BY DEF Search!Diverse
<1>5. Total(all, Search!Diverse(all, o1))
  BY DiverseIsTotal
<1> HIDE DEF L1, L2
<1>6. ASSUME NEW i \in S PROVE first1[i] \in S
  <2>1. PICK p \in 1 .. m : file(d1[p]) = file(i)
    OBVIOUS
  <2>2. a \in Nat /\ p \in 1 .. a /\ d1[p] \in all /\ d1[p] \in S
    BY DEF Lists
  <2>3. CASE d1[p] # first1[i]
    <3>1. <<first1[i], d1[p]>> \in Search!Diverse(all, o1) /\ first1[i] \in all
      BY <1>2, <1>4, <2>1, <2>2, <2>3
    <3>2. PICK q \in 1 .. a : d1[q] = first1[i]
      BY <3>1 DEF Lists
    <3>3. <<d1[p], first1[i]>> \notin Search!Diverse(all, o1)
      BY <1>5, <2>2, <3>1 DEF Total
    <3>4. ~ (p < q) /\ p # q
      BY <2>2, <2>3, <3>2, <3>3 DEF Lists
    <3>5. q \in 1 .. m
      BY <2>2, <3>4
    <3> QED
      BY <3>2, <3>5
  <2> QED
    BY <2>2, <2>3
<1>7. ASSUME NEW i \in S PROVE score[first1[i]] = score[first2[i]]
  <2>1. first1[i] \in S /\ first2[i] \in S /\ first1[i] \in all /\ first2[i] \in all
    BY <1>3, <1>6
  <2>2. first1[i] = first2[i] \/ (<<first1[i], first2[i]>> \in o1 /\ <<first2[i], first1[i]>> \in o2)
    BY <1>2, <1>3, <2>1
  <2>3. score[first1[i]] \in Nat /\ score[first2[i]] \in Nat
    BY <2>1
  <2> HIDE DEF first1, first2
  <2>4. first1[i] = first2[i] \/ (score[first2[i]] <= score[first1[i]] /\ score[first1[i]] <= score[first2[i]])
    BY <2>1, <2>2 DEF Falls
  <2> QED
    BY <2>3, <2>4
<1>8. \A i \in S : /\ first1[i] \in S /\ file(first1[i]) = file(i) /\ (i \in L1 <=> i = first1[i])
                   /\ first2[i] \in S /\ file(first2[i]) = file(i) /\ (i \in L2 <=> i = first2[i])
                   /\ score[first1[i]] = score[first2[i]]
  BY <1>2, <1>3, <1>6, <1>7
<1>9. \A i, j \in S : file(i) = file(j) => first1[i] = first1[j] /\ first2[i] = first2[j]
  BY <1>2, <1>3, <1>6
<1> HIDE DEF first1, first2
<1>10. ASSUME NEW i \in S
       PROVE  /\ swap[i] \in S /\ swap[swap[i]] = i /\ score[swap[i]] = score[i]
              /\ i \in L1 <=> swap[i] \in L2
              /\ i \in L2 <=> swap[i] \in L1
  <2>1. PICK x \in S, y \in S : x = first1[i] /\ y = first2[i]
    BY <1>8
  <2>2. /\ first1[x] = x /\ first2[x] = y /\ first1[y] = x /\ first2[y] = y /\ score[x] = score[y]
        /\ (i \in L1 <=> i = x) /\ (i \in L2 <=> i = y) /\ x \in L1 /\ y \in L2
        /\ (x \in L2 <=> x = y) /\ (y \in L1 <=> y = x)
    <3>1. file(x) = file(i) /\ file(y) = file(i)
      BY <1>8, <2>1
    <3>2. first1[x] = x /\ first2[x] = y /\ first1[y] = x /\ first2[y] = y
      BY <1>9, <2>1, <3>1
    <3>3. score[x] = score[y]
      BY <1>8, <2>1
    <3>4. (i \in L1 <=> i = x) /\ (i \in L2 <=> i = y)
      BY <1>8, <2>1
    <3>5. x \in L1 /\ y \in L2 /\ (x \in L2 <=> x = y) /\ (y \in L1 <=> y = x)
      BY <1>8, <3>2
    <3> QED
      BY <3>2, <3>3, <3>4, <3>5
  <2>3. swap[i] = IF i = x THEN y ELSE IF i = y THEN x ELSE i
    BY <2>1
  <2>4. swap[x] = y /\ swap[y] = x
    BY <2>2
  <2>5. CASE i = x
    BY <2>2, <2>3, <2>4, <2>5
  <2>6. CASE i = y /\ i # x
    BY <2>2, <2>3, <2>4, <2>6
  <2>7. CASE i # x /\ i # y
    BY <2>2, <2>3, <2>7
  <2> QED
    BY <2>5, <2>6, <2>7
<1> HIDE DEF swap
<1>11. PICK M \in Nat : \A i \in all : score[i] < M
  BY SearchIndexes, ScoresAreBounded
<1> DEFINE k1 == Key(L1, score, M)
           k2 == Key(L2, score, M)
<1>12. /\ \A i \in all : k1[i] \in Nat
       /\ \A p, q \in 1 .. a : p < q => k1[d1[q]] <= k1[d1[p]]
  <2>1. all \subseteq Search!Indexes /\ L1 = Search!Leads(all, o1)
    BY DEF L1
  <2> QED
    BY <1>11, <2>1, KeysFall
<1>13. /\ \A i \in S : k2[i] \in Nat
       /\ \A p, q \in 1 .. b : p < q => k2[d2[q]] <= k2[d2[p]]
  <2>1. L2 = Search!Leads(S, o2)
    BY DEF L2
  <2> QED
    BY <1>11, <2>1, KeysFall
<1>14. \A i \in S : k2[swap[i]] = k1[i] /\ k1[swap[i]] = k2[i]
  BY <1>10 DEF Key
<1>15. \A i, j \in S : swap[i] = swap[j] => i = j
  BY <1>10
<1>16. \A i \in S, j \in S : k1[i] = k2[j] => score[i] = score[j]
  <2> SUFFICES ASSUME NEW i \in S, NEW j \in S, k1[i] = k2[j] PROVE score[i] = score[j]
    OBVIOUS
  <2>1. /\ score[i] \in Nat /\ score[i] < M /\ k1[i] = IF i \in L1 THEN score[i] + M ELSE score[i]
        /\ score[j] \in Nat /\ score[j] < M /\ k2[j] = IF j \in L2 THEN score[j] + M ELSE score[j]
    BY <1>11 DEF Key
  <2>2. (IF i \in L1 THEN score[i] + M ELSE score[i]) = (IF j \in L2 THEN score[j] + M ELSE score[j])
    BY <2>1
  <2> QED
    BY <2>1, <2>2
<1> HIDE DEF k1, k2
<1>17. a \in Nat /\ b \in Nat /\ d1 \in [1 .. a -> all] /\ d2 \in [1 .. b -> S]
  BY DEF Lists
<1>18. m <= b
  <2> DEFINE g == [p \in 1 .. m |-> CHOOSE q \in 1 .. b : d2[q] = d1[p]]
  <2>1. ASSUME NEW p \in 1 .. m PROVE p \in 1 .. a /\ g[p] \in 1 .. b /\ d2[g[p]] = d1[p]
    <3>1. d1[p] \in S /\ p \in 1 .. a
      BY <1>17
    <3>2. \E q \in 1 .. b : d2[q] = d1[p]
      BY <3>1 DEF Lists
    <3> QED
      BY <3>1, <3>2
  <2>2. \A p, q \in 1 .. m : g[p] = g[q] => p = q
    <3> HIDE DEF g
    <3> SUFFICES ASSUME NEW p \in 1 .. m, NEW q \in 1 .. m, g[p] = g[q] PROVE p = q
      OBVIOUS
    <3>1. d1[p] = d1[q]
      BY <2>1
    <3>2. p \in 1 .. a /\ q \in 1 .. a
      BY DEF Lists
    <3> QED
      BY <3>1, <3>2 DEF Lists
  <2>3. g \in [1 .. m -> 1 .. b]
    BY <2>1
  <2> HIDE DEF g
  <2>4. g \in Injection(1 .. m, 1 .. b)
    BY <2>2, <2>3 DEF Injection, IsInjective
  <2>5. IsFiniteSet(1 .. b) /\ Cardinality(1 .. b) = b /\ Cardinality(1 .. m) = m
    BY <1>17, FS_Interval
  <2> QED
    BY <2>4, <2>5, FS_Injection
<1>19. ASSUME NEW n \in 1 .. m PROVE score[d1[n]] = score[d2[n]]
  <2>1. n \in 1 .. a /\ n \in 1 .. b /\ n <= b /\ n <= a /\ d1[n] \in S /\ d2[n] \in S
    BY <1>17, <1>18
  <2>2. k1[d1[n]] <= k2[d2[n]]
    <3>1. \A p, q \in 1 .. a : d1[p] = d1[q] => p = q
      BY DEF Lists
    <3>2. \A i \in S : \E p \in 1 .. b : d2[p] = i
      BY DEF Lists
    <3>3. \A p \in 1 .. n : d1[p] \in S
      BY <1>18
    <3>4. \A p \in 1 .. n : swap[d1[p]] \in S /\ k2[swap[d1[p]]] = k1[d1[p]]
      BY <1>10, <1>14, <3>3
    <3>5. \A p, q \in 1 .. n : swap[d1[p]] = swap[d1[q]] => d1[p] = d1[q]
      BY <1>15, <3>3
    <3>6. Found(n, a, all, d1, k1, b, S, d2, k2, swap)
      BY <1>12, <1>13, <1>17, <2>1, <3>1, <3>2, <3>4, <3>5, Zenon DEF Found
    <3> QED
      BY <3>6, NotAhead
  <2>3. k2[d2[n]] <= k1[d1[n]]
    <3>1. \A p, q \in 1 .. b : d2[p] = d2[q] => p = q
      BY DEF Lists
    <3>2. \A i \in all : \E p \in 1 .. a : d1[p] = i
      BY DEF Lists
    <3>3. \A p \in 1 .. n : d2[p] \in S
      BY <1>17, <2>1
    <3>4. \A p \in 1 .. n : swap[d2[p]] \in all /\ k1[swap[d2[p]]] = k2[d2[p]]
      BY <1>10, <1>14, <3>3
    <3>5. \A p, q \in 1 .. n : swap[d2[p]] = swap[d2[q]] => d2[p] = d2[q]
      BY <1>15, <3>3
    <3>6. Found(n, b, S, d2, k2, a, all, d1, k1, swap)
      BY <1>12, <1>13, <1>17, <2>1, <3>1, <3>2, <3>4, <3>5, Zenon DEF Found
    <3> QED
      BY <3>6, NotAhead
  <2>4. k1[d1[n]] = k2[d2[n]]
    <3>1. k1[d1[n]] \in Nat /\ k2[d2[n]] \in Nat
      BY <1>12, <1>13, <2>1
    <3> QED
      BY <2>2, <2>3, <3>1
  <2> QED
    BY <1>16, <2>1, <2>4
<1> QED
  BY <1>18, <1>19

\* Recalled rows of some chunks, each once, of which those in found are the
\* hits, and none of these is missing.
Rows(near) == [chunk : near, seed : BOOLEAN]
Recall(rows, near, found) ==
  /\ rows \in Seq(Rows(near))
  /\ \A p, q \in DOMAIN rows : rows[p].chunk = rows[q].chunk => p = q
  /\ \A p \in DOMAIN rows : rows[p].seed <=> rows[p].chunk \in found
  /\ \A i \in found : \E p \in DOMAIN rows : rows[p].chunk = i

\* A chunk that is added or upgraded is there once, as a hit if it is one.
LEMMA RowAdded ==
  ASSUME NEW near, NEW rows \in Seq(Rows(near)), NEW i \in near, NEW isSeed \in BOOLEAN,
         NEW r, r = Search!AddOrUpgrade(rows, i, isSeed)
  PROVE  /\ r \in Seq(Rows(near)) /\ Len(r) \in Nat /\ Len(r) <= Len(rows) + 1
         /\ \A found : Recall(rows, near, found) => Recall(r, near, IF isSeed THEN found \cup {i} ELSE found)
<1> DEFINE n == Len(rows)
           row == [chunk |-> i, seed |-> isSeed]
<1>1. n \in Nat /\ DOMAIN rows = 1 .. n /\ \A p \in 1 .. n : rows[p] \in Rows(near)
  OBVIOUS
<1>2. \A p \in 1 .. n : rows[p].chunk \in near /\ rows[p].seed \in BOOLEAN
  BY <1>1 DEF Rows
<1>3. CASE \E p \in DOMAIN rows : rows[p].chunk = i
  <2>1. r = [p \in 1 .. n |-> IF rows[p].chunk = i THEN [chunk |-> i, seed |-> rows[p].seed \/ isSeed]
                              ELSE rows[p]]
    BY <1>1, <1>3 DEF Search!AddOrUpgrade
  <2>2. \A p \in 1 .. n : r[p] \in Rows(near)
    BY <1>1, <1>2, <2>1 DEF Rows
  <2>3. r \in [1 .. n -> Rows(near)]
    BY <2>1, <2>2
  <2>4. r \in Seq(Rows(near)) /\ Len(r) = n /\ DOMAIN r = 1 .. n
    BY <1>1, <2>3, FunctionIsSeq
  <2>5. \A p \in 1 .. n : /\ r[p].chunk = rows[p].chunk
                          /\ r[p].seed <=> rows[p].seed \/ (isSeed /\ rows[p].chunk = i)
    BY <1>1, <1>2, <2>1
  <2>6. ASSUME NEW found, Recall(rows, near, found)
        PROVE  Recall(r, near, IF isSeed THEN found \cup {i} ELSE found)
    <3> DEFINE more == IF isSeed THEN found \cup {i} ELSE found
    <3>1. \A p, q \in DOMAIN r : r[p].chunk = r[q].chunk => p = q
      BY <1>1, <2>4, <2>5, <2>6 DEF Recall
    <3>2. \A p \in DOMAIN r : r[p].seed <=> r[p].chunk \in more
      BY <1>1, <2>4, <2>5, <2>6 DEF Recall
    <3>3. \A j \in more : \E p \in DOMAIN rows : rows[p].chunk = j
      BY <1>3, <2>6 DEF Recall
    <3>4. \A p \in DOMAIN rows : p \in DOMAIN r /\ r[p].chunk = rows[p].chunk
      BY <1>1, <2>4, <2>5
    <3>5. \A j \in more : \E p \in DOMAIN r : r[p].chunk = j
      <4> HIDE DEF more
      <4> QED
        BY <3>3, <3>4, Zenon
    <3> QED
      BY <2>4, <3>1, <3>2, <3>5 DEF Recall
  <2>7. Len(r) \in Nat /\ Len(r) <= Len(rows) + 1
    BY <1>1, <2>4
  <2> QED
    BY <2>4, <2>6, <2>7, Zenon
<1>4. CASE ~ (\E p \in DOMAIN rows : rows[p].chunk = i)
  <2>1. r = Append(rows, row) /\ row \in Rows(near)
    BY <1>4 DEF Search!AddOrUpgrade, Rows
  <2>2. /\ r \in Seq(Rows(near)) /\ Len(r) = n + 1 /\ DOMAIN r = 1 .. n + 1
        /\ \A p \in 1 .. n : r[p] = rows[p]
        /\ r[n + 1] = row
    <3> HIDE DEF row
    <3> QED
      BY <1>1, <2>1, Appended
  <2>3. r[n + 1].chunk = i /\ (r[n + 1].seed <=> isSeed)
    BY <2>2
  <2>4. \A p \in 1 .. n : rows[p].chunk # i /\ r[p].chunk # i
    BY <1>1, <1>4, <2>2
  <2>5. \A p \in 1 .. n + 1 : p \in 1 .. n \/ p = n + 1
    BY <1>1
  <2>6. ASSUME NEW found, Recall(rows, near, found)
        PROVE  Recall(r, near, IF isSeed THEN found \cup {i} ELSE found)
    <3> DEFINE more == IF isSeed THEN found \cup {i} ELSE found
    <3>1. ASSUME NEW p \in DOMAIN r, NEW q \in DOMAIN r, r[p].chunk = r[q].chunk PROVE p = q
      <4>1. CASE p \in 1 .. n /\ q \in 1 .. n
        <5>1. rows[p].chunk = rows[q].chunk
          BY <2>2, <3>1, <4>1
        <5> QED
          BY <1>1, <2>6, <4>1, <5>1 DEF Recall
      <4>2. CASE ~ (p \in 1 .. n /\ q \in 1 .. n)
        BY <2>2, <2>3, <2>4, <2>5, <3>1, <4>2
      <4> QED
        BY <4>1, <4>2
    <3>2. i \notin found
      BY <1>4, <2>6 DEF Recall
    <3>3. \A p \in 1 .. n : r[p].seed <=> r[p].chunk \in more
      BY <1>1, <2>2, <2>4, <2>6 DEF Recall
    <3>4. r[n + 1].seed <=> r[n + 1].chunk \in more
      BY <2>3, <3>2
    <3>5. \A j \in found : \E p \in 1 .. n : r[p].chunk = j
      BY <1>1, <2>2, <2>6 DEF Recall
    <3>6. \A p \in 1 .. n : p \in 1 .. n + 1
      BY <1>1
    <3>7. n + 1 \in 1 .. n + 1
      BY <1>1
    <3>8. \A j \in more : \E p \in DOMAIN r : r[p].chunk = j
      BY <2>2, <2>3, <3>5, <3>6, <3>7
    <3>9. \A p \in DOMAIN r : r[p].seed <=> r[p].chunk \in more
      BY <2>2, <2>5, <3>3, <3>4
    <3> HIDE DEF more
    <3>10. Recall(r, near, more)
      BY <2>2, <3>1, <3>8, <3>9 DEF Recall
    <3> QED
      BY <3>10 DEF more
  <2>7. Len(r) \in Nat /\ Len(r) <= Len(rows) + 1
    BY <1>1, <2>2
  <2> QED
    BY <2>2, <2>6, <2>7, Zenon
<1> QED
  BY <1>3, <1>4

\* Recalling the chunks around a hit adds the hit, and no more than those.
LEMMA AroundAHit ==
  ASSUME NEW near, near \subseteq Search!Indexes, NEW seed \in near, NEW w \in Nat,
         \A i \in Search!Indexes : Search!File(i) = Search!File(seed) => i \in near,
         NEW rows \in Seq(Rows(near)), NEW N, N = 2 * w + 1,
         NEW r, r = Search!Around(rows, seed, w)[N]
  PROVE  /\ r \in Seq(Rows(near)) /\ Len(r) \in Nat /\ Len(r) <= Len(rows) + N
         /\ \A found : Recall(rows, near, found) => Recall(r, near, found \cup {seed})
<1> DEFINE T == Seq(Rows(near))
           At(n) == seed - w + n - 1
           Turn(b, n) == IF Search!IsNear(At(n), seed) THEN Search!AddOrUpgrade(b, At(n), At(n) = seed) ELSE b
           step == [x \in T \X (1 .. N) |-> Turn(x[1], x[2])]
           c == Search!Around(rows, seed, w)
<1>1. N \in Nat /\ seed \in Int /\ seed \in Search!Indexes
  BY SearchIndexes
<1>2. ASSUME NEW b \in T, NEW n \in 1 .. N
      PROVE  /\ Turn(b, n) \in T /\ Len(b) \in Nat /\ Len(Turn(b, n)) \in Nat /\ Len(Turn(b, n)) <= Len(b) + 1
             /\ \A found : Recall(b, near, found) =>
                  Recall(Turn(b, n), near, IF n = w + 1 THEN found \cup {seed} ELSE found)
  <2>1. At(n) = seed <=> n = w + 1
    BY <1>1
  <2>2. PICK i, s : i = At(n) /\ s = (At(n) = seed)
    OBVIOUS
  <2>3. CASE Search!IsNear(i, seed)
    <3>1. i \in near /\ s \in BOOLEAN
      BY <2>2, <2>3 DEF Search!IsNear
    <3>2. Turn(b, n) = Search!AddOrUpgrade(b, i, s)
      BY <2>2, <2>3
    <3>3. PICK t : t = Turn(b, n)
      OBVIOUS
    <3> HIDE DEF Turn
    <3>4. /\ t \in T /\ Len(t) \in Nat /\ Len(t) <= Len(b) + 1
          /\ \A found : Recall(b, near, found) => Recall(t, near, IF s THEN found \cup {i} ELSE found)
      BY <3>1, <3>2, <3>3, RowAdded
    <3>5. \A found : (IF s THEN found \cup {i} ELSE found) = (IF n = w + 1 THEN found \cup {seed} ELSE found)
      BY <2>1, <2>2
    <3>6. Len(b) \in Nat
      OBVIOUS
    <3> QED
      BY <3>3, <3>4, <3>5, <3>6, Zenon
  <2>4. CASE ~ Search!IsNear(i, seed)
    <3>1. Turn(b, n) = b
      BY <2>2, <2>4
    <3>2. i # seed
      BY <1>1, <2>4 DEF Search!IsNear
    <3>3. Len(b) \in Nat /\ n # w + 1
      BY <2>1, <2>2, <3>2
    <3> HIDE DEF Turn
    <3> QED
      BY <3>1, <3>3
  <2> QED
    BY <2>3, <2>4
<1>3. step \in [T \X (1 .. N) -> T]
  <2>1. \A x \in T \X (1 .. N) : Turn(x[1], x[2]) \in T
    <3> HIDE DEF Turn, T
    <3> QED
      BY <1>2
  <2> HIDE DEF Turn, T
  <2> QED
    BY <2>1
<1>4. \A b \in T, n \in 1 .. N : step[<<b, n>>] = Turn(b, n)
  <2> HIDE DEF Turn, T
  <2> QED
    OBVIOUS
<1>5. PICK g : Iterates(g, N, T, rows, step)
  <2> HIDE DEF step, T
  <2>1. rows \in T
    BY DEF T
  <2> QED
    BY <1>1, <1>3, <2>1, LoopsCompute
<1>6. g = [n \in 0 .. N |-> IF n = 0 THEN rows ELSE Turn(g[n - 1], n)]
  <2>1. ASSUME NEW n \in 0 .. N, n # 0 PROVE g[n] = Turn(g[n - 1], n)
    <3>1. n \in 1 .. N /\ n - 1 \in 0 .. N
      BY <1>1, <2>1
    <3>2. g[n - 1] \in T /\ g[n] = step[<<g[n - 1], n>>]
      BY <1>5, <3>1 DEF Iterates
    <3> HIDE DEF Turn, T, step
    <3> QED
      BY <1>4, <3>1, <3>2
  <2>2. g \in [0 .. N -> T] /\ g[0] = rows
    BY <1>5 DEF Iterates
  <2> HIDE DEF Turn, T, step
  <2> QED
    BY <2>1, <2>2
<1>7. c = [n \in 0 .. N |-> IF n = 0 THEN rows ELSE Turn(c[n - 1], n)]
  BY <1>6, Zenon DEF Search!Around
<1> HIDE DEF Turn, T, step, c
<1>8. c[0] = rows /\ \A n \in 1 .. N : c[n] = Turn(c[n - 1], n)
  BY <1>1, <1>7
<1>9. r = c[N] /\ rows \in T
  BY DEF c, T
<1> DEFINE Hits(n, found) == IF n > w THEN found \cup {seed} ELSE found
           Inv(n) == /\ c[n] \in T /\ Len(c[n]) \in Nat /\ Len(c[n]) <= Len(rows) + n
                     /\ \A found : Recall(rows, near, found) => Recall(c[n], near, Hits(n, found))
           good == {n \in 0 .. N : Inv(n)}
           f == [n \in 0 .. N |-> n]
<1>10. f[0] \in good
  <2>1. Len(rows) \in Nat /\ ~ (0 > w)
    OBVIOUS
  <2>2. Inv(0)
    BY <1>8, <1>9, <2>1
  <2>3. f[0] = 0 /\ 0 \in 0 .. N
    BY <1>1
  <2> HIDE DEF Inv, f
  <2> QED
    BY <2>2, <2>3
<1>11. ASSUME NEW n \in 1 .. N, f[n - 1] \in good PROVE f[n] \in good
  <2>1. f[n - 1] = n - 1 /\ f[n] = n /\ n \in 0 .. N /\ n - 1 \in 0 .. N
    BY <1>1
  <2>2. Inv(n - 1)
    BY <1>11, <2>1
  <2>3. PICK b : b = c[n - 1]
    OBVIOUS
  <2>4. /\ b \in T /\ Len(b) \in Nat /\ Len(b) <= Len(rows) + (n - 1)
        /\ \A found : Recall(rows, near, found) => Recall(b, near, Hits(n - 1, found))
    BY <2>2, <2>3
  <2>5. c[n] = Turn(b, n)
    BY <1>8, <2>3
  <2>6. /\ c[n] \in T /\ Len(c[n]) \in Nat /\ Len(c[n]) <= Len(b) + 1
        /\ \A found : Recall(b, near, found) => Recall(c[n], near, IF n = w + 1 THEN found \cup {seed} ELSE found)
    BY <1>2, <2>4, <2>5
  <2>7. \A found : (IF n = w + 1 THEN Hits(n - 1, found) \cup {seed} ELSE Hits(n - 1, found)) = Hits(n, found)
    <3>1. (n > w) <=> (n = w + 1 \/ n - 1 > w)
      OBVIOUS
    <3>2. n = w + 1 => ~ (n - 1 > w)
      OBVIOUS
    <3> QED
      BY <3>1, <3>2
  <2>8. Len(c[n]) <= Len(rows) + n
    <3>1. Len(rows) \in Nat
      OBVIOUS
    <3> QED
      BY <2>4, <2>6, <3>1
  <2>9. \A found : Recall(rows, near, found) => Recall(c[n], near, Hits(n, found))
    <3> HIDE DEF Hits
    <3> QED
      BY <2>4, <2>6, <2>7
  <2> QED
    BY <2>1, <2>6, <2>8, <2>9
<1>12. Inv(N) /\ N > w
  <2>1. N \in 0 .. N /\ N > w
    BY <1>1
  <2>2. f[N] = N
    BY <2>1
  <2> HIDE DEF good, f
  <2>3. f[N] \in good
    BY <1>1, <1>10, <1>11, <2>1, StepByStep
  <2> QED
    BY <2>1, <2>2, <2>3 DEF good
<1> QED
  BY <1>9, <1>12 DEF T

\* The multiples of a number.
LEMMA Multiples ==
  ASSUME NEW C \in Nat, NEW m \in Nat, NEW n \in 1 .. m
  PROVE  n * C \in Nat /\ (n - 1) * C \in Nat /\ n * C = (n - 1) * C + C /\ n * C <= m * C
<1>1. n \in Nat /\ n - 1 \in Nat /\ m - n \in Nat
  OBVIOUS
<1>2. n * C \in Nat /\ (n - 1) * C \in Nat /\ (m - n) * C \in Nat /\ m * C \in Nat
  <2>1. \A k \in Nat : k * C \in Nat
    OBVIOUS
  <2> QED
    BY <1>1, <2>1
<1>3. (n - 1) * C = n * C - C
  OBVIOUS
<1>4. (m - n) * C = m * C - n * C
  OBVIOUS
<1> QED
  BY <1>2, <1>3, <1>4

\* Recalling the neighbours of all hits: each chunk once, and, unless a bound
\* is less than what there may be, each hit.
LEMMA HitsExpanded ==
  ASSUME NEW m \in Nat, NEW found \in [1 .. m -> Search!Indexes],
         NEW near, near = {i \in Search!Indexes : \E p \in 1 .. m : Search!File(found[p]) = Search!File(i)},
         NEW w \in Nat \ {0}, NEW bound, NEW C, C = 2 * w + 1,
         NEW r, r = Search!Expanded(found, w, bound)[m]
  PROVE  /\ Len(r) \in Nat /\ \E hits : Recall(r, near, hits)
         /\ bound \in Int /\ m * C <= bound => Recall(r, near, {found[p] : p \in 1 .. m}) /\ Len(r) <= m * C
<1> DEFINE T == Seq(Rows(near))
           Turn(b, n) == IF Search!IsFull(b, bound) THEN b ELSE Search!Around(b, found[n], w)[2 * w + 1]
           step == [x \in T \X (1 .. m) |-> Turn(x[1], x[2])]
           c == Search!Expanded(found, w, bound)
<1>1. C \in Nat /\ C >= 1 /\ Len(found) = m
  BY FunctionIsSeq
<1>2. near \subseteq Search!Indexes
  OBVIOUS
<1>3. ASSUME NEW n \in 1 .. m
      PROVE  found[n] \in near /\ \A i \in Search!Indexes : Search!File(i) = Search!File(found[n]) => i \in near
  OBVIOUS
<1>4. ASSUME NEW b \in T, NEW n \in 1 .. m
      PROVE  /\ Turn(b, n) \in T /\ Len(b) \in Nat /\ Len(Turn(b, n)) \in Nat /\ Len(Turn(b, n)) <= Len(b) + C
             /\ (\E hits : Recall(b, near, hits)) => \E hits : Recall(Turn(b, n), near, hits)
             /\ ~ Search!IsFull(b, bound) =>
                  \A hits : Recall(b, near, hits) => Recall(Turn(b, n), near, hits \cup {found[n]})
  <2>1. PICK seed \in near : seed = found[n]
    BY <1>3
  <2>2. PICK t : t = Search!Around(b, seed, w)[C]
    OBVIOUS
  <2>3. /\ t \in T /\ Len(t) \in Nat /\ Len(t) <= Len(b) + C
        /\ \A hits : Recall(b, near, hits) => Recall(t, near, hits \cup {seed})
    <3>1. \A i \in Search!Indexes : Search!File(i) = Search!File(seed) => i \in near
      BY <1>3, <2>1
    <3>2. w \in Nat /\ C = 2 * w + 1
      OBVIOUS
    <3> QED
      BY ONLY <1>2, <2>2, <3>1, <3>2, seed \in near, b \in T, AroundAHit
  <2>4. Turn(b, n) = IF Search!IsFull(b, bound) THEN b ELSE t
    BY <2>1, <2>2
  <2>5. Len(b) \in Nat /\ Len(b) <= Len(b) + C
    BY <1>1
  <2> HIDE DEF Turn
  <2>6. CASE Search!IsFull(b, bound)
    <3>1. Turn(b, n) = b
      BY <2>4, <2>6
    <3> QED
      BY <2>5, <2>6, <3>1, Zenon
  <2>7. CASE ~ Search!IsFull(b, bound)
    <3>1. Turn(b, n) = t
      BY <2>4, <2>7
    <3> QED
      BY <2>1, <2>3, <2>5, <3>1, Zenon
  <2> QED
    BY <2>6, <2>7
<1>5. step \in [T \X (1 .. m) -> T]
  <2>1. \A x \in T \X (1 .. m) : Turn(x[1], x[2]) \in T
    <3> HIDE DEF Turn, T
    <3> QED
      BY <1>4
  <2> HIDE DEF Turn, T
  <2> QED
    BY <2>1
<1>6. \A b \in T, n \in 1 .. m : step[<<b, n>>] = Turn(b, n)
  <2> HIDE DEF Turn, T
  <2> QED
    OBVIOUS
<1>7. <<>> \in T
  OBVIOUS
<1>8. PICK g : Iterates(g, m, T, <<>>, step)
  <2> HIDE DEF step, T
  <2> QED
    BY <1>5, <1>7, LoopsCompute
<1>9. g = [n \in 0 .. m |-> IF n = 0 THEN <<>> ELSE Turn(g[n - 1], n)]
  <2>1. ASSUME NEW n \in 0 .. m, n # 0 PROVE g[n] = Turn(g[n - 1], n)
    <3>1. n \in 1 .. m /\ n - 1 \in 0 .. m
      BY <2>1
    <3>2. g[n - 1] \in T /\ g[n] = step[<<g[n - 1], n>>]
      BY <1>8, <3>1 DEF Iterates
    <3> HIDE DEF Turn, T, step
    <3> QED
      BY <1>6, <3>1, <3>2
  <2>2. g \in [0 .. m -> T] /\ g[0] = <<>>
    BY <1>8 DEF Iterates
  <2> HIDE DEF Turn, T, step
  <2> QED
    BY <2>1, <2>2
<1>10. c = [n \in 0 .. m |-> IF n = 0 THEN <<>> ELSE Turn(c[n - 1], n)]
  <2>1. g = [n \in 0 .. Len(found) |-> IF n = 0 THEN <<>> ELSE Turn(g[n - 1], n)]
    BY <1>1, <1>9, Zenon
  <2>2. c = [n \in 0 .. Len(found) |-> IF n = 0 THEN <<>> ELSE Turn(c[n - 1], n)]
    BY <2>1, Zenon DEF Search!Expanded
  <2> QED
    BY <1>1, <2>2, Zenon
<1> HIDE DEF Turn, T, step, c
<1>11. c[0] = <<>> /\ \A n \in 1 .. m : c[n] = Turn(c[n - 1], n)
  BY <1>10
<1> DEFINE wide == bound \in Int /\ m * C <= bound
           Hits(n) == {found[p] : p \in 1 .. n}
           Inv(n) == /\ c[n] \in T /\ Len(c[n]) \in Nat /\ \E hits : Recall(c[n], near, hits)
                     /\ wide => Recall(c[n], near, Hits(n)) /\ Len(c[n]) <= n * C
           good == {n \in 0 .. m : Inv(n)}
           f == [n \in 0 .. m |-> n]
<1>12. f[0] \in good
  <2>1. Len(<<>>) = 0 /\ Hits(0) = {} /\ 0 * C = 0 /\ DOMAIN <<>> = {}
    BY <1>1
  <2>2. Recall(<<>>, near, {})
    BY <2>1 DEF Recall
  <2>3. Inv(0)
    <3>1. c[0] \in T /\ Len(c[0]) \in Nat /\ Len(c[0]) <= 0 * C
      BY <1>7, <1>11, <2>1
    <3>2. Recall(c[0], near, Hits(0))
      BY <1>11, <2>1, <2>2, Zenon
    <3> QED
      BY <3>1, <3>2, Zenon
  <2>4. f[0] = 0 /\ 0 \in 0 .. m
    OBVIOUS
  <2> HIDE DEF Inv, f
  <2> QED
    BY <2>3, <2>4
<1>13. ASSUME NEW n \in 1 .. m, f[n - 1] \in good PROVE f[n] \in good
  <2>1. f[n - 1] = n - 1 /\ f[n] = n /\ n \in 0 .. m /\ n - 1 \in 0 .. m
    OBVIOUS
  <2>2. Inv(n - 1)
    BY <1>13, <2>1
  <2>3. PICK b : b = c[n - 1]
    OBVIOUS
  <2>4. /\ b \in T /\ Len(b) \in Nat /\ \E hits : Recall(b, near, hits)
        /\ wide => Recall(b, near, Hits(n - 1)) /\ Len(b) <= (n - 1) * C
    BY <2>2, <2>3
  <2>5. c[n] = Turn(b, n)
    BY <1>11, <2>3
  <2>6. /\ c[n] \in T /\ Len(c[n]) \in Nat /\ Len(c[n]) <= Len(b) + C /\ \E hits : Recall(c[n], near, hits)
        /\ ~ Search!IsFull(b, bound) =>
              \A hits : Recall(b, near, hits) => Recall(c[n], near, hits \cup {found[n]})
    BY <1>4, <2>4, <2>5, Zenon
  <2>7. ASSUME wide PROVE Recall(c[n], near, Hits(n)) /\ Len(c[n]) <= n * C
    <3>1. Recall(b, near, Hits(n - 1)) /\ Len(b) <= (n - 1) * C
      BY <2>4, <2>7
    <3>2. PICK x \in Nat, y \in Nat, z \in Int : x = (n - 1) * C /\ y = n * C /\ z = m * C
      <4>1. (n - 1) * C \in Nat /\ n * C \in Nat /\ m * C \in Int
        BY <1>1, Multiples
      <4> QED
        BY <4>1
    <3>3. y = x + C /\ y <= z
      BY <1>1, <3>2, Multiples
    <3>4. Len(b) <= x /\ bound \in Int /\ z <= bound
      BY <2>7, <3>1, <3>2, Zenon
    <3>5. Len(b) < bound
      BY <1>1, <2>4, <3>3, <3>4
    <3>6. ~ Search!IsFull(b, bound)
      BY <2>4, <3>4, <3>5 DEF Search!IsFull
    <3>7. Len(c[n]) <= y
      BY <1>1, <2>4, <2>6, <3>3, <3>4
    <3>8. Hits(n - 1) \cup {found[n]} = Hits(n)
      <4>1. \A p \in 1 .. n : p \in 1 .. n - 1 \/ p = n
        OBVIOUS
      <4>2. \A p \in 1 .. n - 1 : p \in 1 .. n
        OBVIOUS
      <4>3. n \in 1 .. n
        OBVIOUS
      <4> QED
        BY <4>1, <4>2, <4>3
    <3>9. Recall(c[n], near, Hits(n))
      <4> HIDE DEF Hits
      <4> QED
        BY <2>6, <3>1, <3>6, <3>8
    <3> QED
      BY <3>2, <3>7, <3>9, Zenon
  <2>8. Inv(n)
    BY <2>6, <2>7, Zenon
  <2> HIDE DEF Inv, f
  <2> QED
    BY <2>1, <2>8
<1>14. Inv(m)
  <2>1. f[m] = m /\ m \in 0 .. m
    OBVIOUS
  <2> HIDE DEF good, f
  <2>2. f[m] \in good
    BY <1>12, <1>13, <2>1, StepByStep
  <2> QED
    BY <2>1, <2>2 DEF good
<1>15. r = c[m]
  BY DEF c
<1> QED
  BY <1>14, <1>15, Zenon

\* What is recalled: each chunk once, of the files of the hits, and, unless the
\* caller's bound cuts it, every hit as a hit.
LEMMA RecalledRows ==
  ASSUME NEW m \in Nat, NEW found \in [1 .. m -> Search!Indexes],
         \A p, q \in 1 .. m : found[p] = found[q] => p = q,
         NEW near, near = {i \in Search!Indexes : \E p \in 1 .. m : Search!File(found[p]) = Search!File(i)},
         NEW w \in Int, NEW bound, bound = None \/ bound \in Nat \ {0},
         NEW r, r = Search!Recalled(found, w, bound)
  PROVE  /\ \E hits : Recall(r, near, hits)
         /\ bound # None /\ m * (2 * Search!Larger(w, 0) + 1) <= bound =>
              Recall(r, near, {found[p] : p \in 1 .. m})
<1> DEFINE all == IF w <= 0 THEN [p \in DOMAIN found |-> [chunk |-> found[p], seed |-> TRUE]]
                  ELSE Search!Expanded(found, w, bound)[Len(found)]
           hit == {found[p] : p \in 1 .. m}
           C == 2 * Search!Larger(w, 0) + 1
           wide == bound # None /\ m * C <= bound
<1>1. DOMAIN found = 1 .. m /\ Len(found) = m /\ None \notin Int
  BY FunctionIsSeq, SearchIndexes
<1>2. r = Search!Cut(all, bound)
  BY DEF Search!Recalled
<1>3. /\ Len(all) \in Nat /\ (\E hits : Recall(all, near, hits))
      /\ wide => Recall(all, near, hit) /\ Len(all) <= m * C
  <2>1. CASE w <= 0
    <3> DEFINE rows == [p \in 1 .. m |-> [chunk |-> found[p], seed |-> TRUE]]
    <3>1. all = rows
      BY <1>1, <2>1
    <3>2. \A p \in 1 .. m : found[p] \in near /\ rows[p] = [chunk |-> found[p], seed |-> TRUE]
      OBVIOUS
    <3>3. \A p \in 1 .. m : rows[p] \in Rows(near)
      BY <3>2 DEF Rows
    <3>4. rows \in [1 .. m -> Rows(near)]
      BY <3>3
    <3>5. \A p \in 1 .. m : rows[p].chunk = found[p] /\ rows[p].seed
      BY <3>2
    <3> HIDE DEF rows
    <3>6. rows \in Seq(Rows(near)) /\ Len(rows) = m /\ DOMAIN rows = 1 .. m
      BY <3>4, FunctionIsSeq
    <3>7. Recall(rows, near, hit)
      BY <3>5, <3>6 DEF Recall
    <3>8. m * C = m
      <4>1. C = 1
        BY <2>1 DEF Search!Larger
      <4> QED
        BY <4>1
    <3>9. Len(all) \in Nat /\ Len(all) <= m * C
      BY <3>1, <3>6, <3>8
    <3> HIDE DEF all, hit
    <3>10. Recall(all, near, hit)
      BY <3>1, <3>7, Zenon
    <3> QED
      BY <3>9, <3>10, Zenon
  <2>2. CASE w > 0
    <3>1. all = Search!Expanded(found, w, bound)[m]
      BY <1>1, <2>2
    <3>2. C = 2 * w + 1 /\ w \in Nat \ {0}
      BY <2>2 DEF Search!Larger
    <3>3. PICK k, rows : k = C /\ rows = all
      OBVIOUS
    <3>4. k = 2 * w + 1 /\ rows = Search!Expanded(found, w, bound)[m]
      BY <3>1, <3>2, <3>3, Zenon
    <3> HIDE DEF all, hit, C
    <3>5. /\ Len(rows) \in Nat /\ \E hits : Recall(rows, near, hits)
          /\ bound \in Int /\ m * k <= bound =>
               Recall(rows, near, {found[p] : p \in 1 .. m}) /\ Len(rows) <= m * k
      BY <3>2, <3>4, HitsExpanded
    <3>6. wide => bound \in Int /\ m * k <= bound
      BY <3>3
    <3> QED
      BY <3>3, <3>5, <3>6, Zenon DEF hit
  <2>3. w <= 0 \/ w > 0
    OBVIOUS
  <2> QED
    BY <2>1, <2>2, <2>3, Zenon
<1> HIDE DEF all
<1>6. PICK b : b = all
  OBVIOUS
<1>7. /\ r = Search!Cut(b, bound) /\ Len(b) \in Nat /\ (\E hits : Recall(b, near, hits))
      /\ wide => Recall(b, near, hit) /\ Len(b) <= m * C
  BY <1>2, <1>3, <1>6, Zenon
<1>4. CASE bound = None
  <2>1. r = b
    BY <1>4, <1>7 DEF Search!Cut
  <2> QED
    BY <1>4, <1>7, <2>1
<1>5. CASE bound \in Nat \ {0}
  <2>1. r = Search!FirstOf(b, bound)
    BY <1>1, <1>5, <1>7 DEF Search!Cut
  <2>2. b \in Seq(Rows(near))
    BY <1>7 DEF Recall
  <2>3. PICK n \in Nat : n = Len(b) /\ b \in [1 .. n -> Rows(near)]
    <3>1. Len(b) \in Nat /\ b \in [1 .. Len(b) -> Rows(near)]
      BY <2>2, SeqIsFunction
    <3> QED
      BY <3>1
  <2>4. PICK l : l = CountOf(n, bound)
    OBVIOUS
  <2>5. /\ l \in Nat /\ l <= n /\ r \in [1 .. l -> Rows(near)] /\ Len(r) = l
        /\ \A p \in 1 .. l : r[p] = b[p]
    <3>1. bound \in Int
      BY <1>5
    <3>2. PICK R : R = Rows(near)
      OBVIOUS
    <3>3. b \in [1 .. n -> R]
      BY <2>3, <3>2
    <3>4. /\ l \in Nat /\ l <= n /\ r \in [1 .. l -> R] /\ Len(r) = l
          /\ \A p \in 1 .. l : r[p] = b[p]
      <4>1. n \in Nat
        OBVIOUS
      <4>2. Begins(Search!FirstOf(b, bound), CountOf(n, bound), b, n, R)
        BY ONLY <3>1, <3>3, <4>1, FirstOfIs
      <4>3. Begins(r, l, b, n, R)
        BY ONLY <2>1, <2>4, <4>2, Zenon
      <4> QED
        BY ONLY <4>3 DEF Begins
    <3> QED
      BY <3>2, <3>4
  <2>6. DOMAIN b = 1 .. n /\ r \in Seq(Rows(near)) /\ DOMAIN r = 1 .. l /\ \A p \in 1 .. l : p \in 1 .. n
    BY <2>3, <2>5, FunctionIsSeq
  <2>7. PICK hits : Recall(b, near, hits)
    BY <1>7
  <2>8. Recall(r, near, {r[p].chunk : p \in 1 .. l} \cap hits)
    <3>1. \A p, q \in DOMAIN r : r[p].chunk = r[q].chunk => p = q
      BY <2>5, <2>6, <2>7 DEF Recall
    <3>2. \A p \in DOMAIN r : r[p].seed <=> r[p].chunk \in {r[k].chunk : k \in 1 .. l} \cap hits
      BY <2>5, <2>6, <2>7 DEF Recall
    <3>3. \A i \in {r[p].chunk : p \in 1 .. l} \cap hits : \E p \in DOMAIN r : r[p].chunk = i
      BY <2>6
    <3> QED
      BY <2>6, <3>1, <3>2, <3>3 DEF Recall
  <2>9. ASSUME wide PROVE Recall(r, near, hit)
    <3>1. Recall(b, near, hit) /\ n <= m * C /\ m * C <= bound /\ m * C \in Int
      <4>1. C \in Int /\ m * C \in Int
        BY DEF Search!Larger
      <4> QED
        BY <1>7, <2>3, <2>9, <4>1
    <3>2. l = n
      <4>1. n <= bound
        <5>1. PICK x \in Int : x = m * C
          BY <3>1
        <5> QED
          BY <1>5, <3>1, <5>1
      <4> QED
        BY <1>5, <2>4, <4>1 DEF CountOf
    <3>3. r = b
      BY <2>3, <2>5, <3>2
    <3> QED
      BY <3>1, <3>3
  <2> QED
    BY <2>8, <2>9
<1> QED
  BY <1>4, <1>5

\* An order of some chunks, by score, and with hits ahead of others of their score.
Ranked(S, order, score, hits) ==
  /\ S \subseteq Search!Indexes /\ Total(S, order) /\ Falls(S, order, score)
  /\ \A i, j \in S : <<i, j>> \in order /\ score[i] = score[j] => i \in hits \/ j \notin hits

\* That of the filter is one.
LEMMA ByRecallIsTotal ==
  ASSUME NEW score \in [Search!Indexes -> Nat], NEW near, near \subseteq Search!Indexes,
         NEW hits, NEW rows, Recall(rows, near, hits),
         NEW S, S \subseteq {rows[p].chunk : p \in DOMAIN rows},
         NEW order, order = Search!ByRecall(rows, score)
  PROVE  Ranked(S, order, score, hits)
<1> DEFINE place == [i \in S |-> CHOOSE p \in DOMAIN rows : rows[p].chunk = i]
           IsBefore(p, q) ==
              \/ score[rows[p].chunk] > score[rows[q].chunk]
              \/ /\ score[rows[p].chunk] = score[rows[q].chunk]
                 /\ \/ rows[p].seed /\ ~ rows[q].seed
                    \/ rows[p].seed = rows[q].seed /\ p < q
           First(i, j) == \/ score[i] > score[j]
                          \/ /\ score[i] = score[j]
                             /\ \/ i \in hits /\ j \notin hits
                                \/ (i \in hits <=> j \in hits) /\ place[i] < place[j]
<1>1. DOMAIN rows \subseteq Nat /\ \A p \in DOMAIN rows : rows[p] \in Rows(near)
  BY Elements DEF Recall
<1>2. \A p \in DOMAIN rows : rows[p].chunk \in near /\ rows[p].seed \in BOOLEAN
  BY <1>1 DEF Rows
<1>3. ASSUME NEW i \in S
      PROVE  /\ place[i] \in DOMAIN rows /\ rows[place[i]].chunk = i /\ place[i] \in Nat
             /\ i \in Search!Indexes /\ score[i] \in Nat
             /\ rows[place[i]].seed <=> i \in hits
  <2>1. \E p \in DOMAIN rows : rows[p].chunk = i
    OBVIOUS
  <2>2. place[i] \in DOMAIN rows /\ rows[place[i]].chunk = i
    BY <2>1
  <2> HIDE DEF place
  <2>3. i \in Search!Indexes /\ score[i] \in Nat
    BY <1>2, <2>2
  <2>4. rows[place[i]].seed <=> i \in hits
    BY <2>2 DEF Recall
  <2> QED
    BY <1>1, <2>2, <2>3, <2>4
<1>4. \A i, j \in S : place[i] = place[j] => i = j
  <2> HIDE DEF place
  <2> QED
    BY <1>3
<1>5. order = {<<rows[pq[1]].chunk, rows[pq[2]].chunk>> :
                 pq \in {places \in (DOMAIN rows) \X (DOMAIN rows) : IsBefore(places[1], places[2])}}
  BY DEF Search!ByRecall
<1> HIDE DEF place
<1>6. ASSUME NEW i \in S, NEW j \in S
      PROVE  <<i, j>> \in order <=> First(i, j)
  <2>1. IsBefore(place[i], place[j]) <=> First(i, j)
    <3>1. rows[place[i]].chunk = i /\ rows[place[j]].chunk = j
      BY <1>3
    <3>2. (rows[place[i]].seed <=> i \in hits) /\ (rows[place[j]].seed <=> j \in hits)
      BY <1>3
    <3>3. rows[place[i]].seed \in BOOLEAN /\ rows[place[j]].seed \in BOOLEAN
      BY <1>2, <1>3
    <3>4. (rows[place[i]].seed = rows[place[j]].seed) <=> (i \in hits <=> j \in hits)
      BY <3>2, <3>3
    <3> QED
      BY <3>1, <3>2, <3>4, Zenon
  <2>2. ASSUME IsBefore(place[i], place[j]) PROVE <<i, j>> \in order
    <3> DEFINE pq == <<place[i], place[j]>>
    <3>1. pq \in (DOMAIN rows) \X (DOMAIN rows) /\ pq[1] = place[i] /\ pq[2] = place[j]
      BY <1>3
    <3>2. <<rows[pq[1]].chunk, rows[pq[2]].chunk>> = <<i, j>>
      BY <1>3, <3>1
    <3>3. IsBefore(pq[1], pq[2])
      BY <2>2, <3>1, Zenon
    <3> HIDE DEF pq, IsBefore
    <3> QED
      BY <1>5, <3>1, <3>2, <3>3
  <2>3. ASSUME <<i, j>> \in order PROVE IsBefore(place[i], place[j])
    <3> HIDE DEF IsBefore
    <3>1. PICK pq \in (DOMAIN rows) \X (DOMAIN rows) :
               IsBefore(pq[1], pq[2]) /\ <<i, j>> = <<rows[pq[1]].chunk, rows[pq[2]].chunk>>
      BY <1>5, <2>3
    <3>2. pq[1] \in DOMAIN rows /\ pq[2] \in DOMAIN rows /\ rows[pq[1]].chunk = i /\ rows[pq[2]].chunk = j
      BY <3>1
    <3>3. pq[1] = place[i] /\ pq[2] = place[j]
      <4>1. rows[place[i]].chunk = i /\ rows[place[j]].chunk = j
            /\ place[i] \in DOMAIN rows /\ place[j] \in DOMAIN rows
        BY <1>3
      <4> QED
        BY <3>2, <4>1 DEF Recall
    <3> QED
      BY <3>1, <3>3
  <2> HIDE DEF IsBefore, First
  <2> QED
    BY <2>1, <2>2, <2>3
<1>7. \A i \in S : score[i] \in Nat /\ place[i] \in Nat /\ i \in Search!Indexes
  BY <1>3
<1>8. \A i \in S : <<i, i>> \notin order
  BY <1>6, <1>7
<1>9. \A i, j \in S : i # j => <<i, j>> \in order \/ <<j, i>> \in order
  <2> SUFFICES ASSUME NEW i \in S, NEW j \in S, i # j PROVE First(i, j) \/ First(j, i)
    BY <1>6
  <2>1. place[i] < place[j] \/ place[j] < place[i]
    BY <1>4, <1>7
  <2>2. score[i] > score[j] \/ score[j] > score[i] \/ score[i] = score[j]
    BY <1>7
  <2> QED
    BY <2>1, <2>2
<1>10. \A i, j, k \in S : <<i, j>> \in order /\ <<j, k>> \in order => <<i, k>> \in order
  <2> SUFFICES ASSUME NEW i \in S, NEW j \in S, NEW k \in S, First(i, j), First(j, k) PROVE First(i, k)
    BY <1>6
  <2>1. /\ score[i] \in Nat /\ score[j] \in Nat /\ score[k] \in Nat
        /\ place[i] \in Nat /\ place[j] \in Nat /\ place[k] \in Nat
    BY <1>7
  <2> QED
    BY <2>1
<1>11. Falls(S, order, score)
  <2> SUFFICES ASSUME NEW i \in S, NEW j \in S, First(i, j) PROVE score[j] <= score[i]
    BY <1>6 DEF Falls
  <2> QED
    BY <1>7
<1>12. \A i, j \in S : <<i, j>> \in order /\ score[i] = score[j] => i \in hits \/ j \notin hits
  <2> SUFFICES ASSUME NEW i \in S, NEW j \in S, First(i, j), score[i] = score[j] PROVE i \in hits \/ j \notin hits
    BY <1>6
  <2> QED
    BY <1>7
<1> HIDE DEF First
<1> QED
  BY <1>7, <1>8, <1>9, <1>10, <1>11, <1>12 DEF Total, Ranked

\* The filter lists what it keeps, in its order, or begins a list with the
\* first of each file ahead.
LEMMA FilteredIs ==
  ASSUME NEW score \in [Search!Indexes -> Nat], NEW near, near \subseteq Search!Indexes,
         NEW hits, NEW rows, Recall(rows, near, hits), NEW minScore, NEW finalK \in Int \cup {None},
         NEW S, S = Search!Kept(rows, score, minScore),
         NEW order, order = Search!ByRecall(rows, score),
         NEW f, f = Search!Filtered(rows, score, finalK, minScore)
  PROVE  /\ S \subseteq Search!Indexes
         /\ minScore = None => S = {rows[p].chunk : p \in DOMAIN rows}
         /\ finalK = None => Lists(f, Cardinality(S), S, order)
         /\ finalK # None => \E d : /\ Lists(d, Cardinality(S), S, Search!Diverse(S, order))
                                    /\ Begins(f, CountOf(Cardinality(S), finalK), d, Cardinality(S), S)
<1>1. S \subseteq {rows[p].chunk : p \in DOMAIN rows}
  BY DEF Search!Kept
<1>2. minScore = None => S = {rows[p].chunk : p \in DOMAIN rows}
  BY DEF Search!Kept
<1>3. S \subseteq Search!Indexes /\ Total(S, order)
  <2>1. Ranked(S, order, score, hits)
    BY <1>1, ByRecallIsTotal, Zenon
  <2> QED
    BY <2>1 DEF Ranked
<1>4. IsFiniteSet(S)
  BY <1>3, SearchIndexes, FS_Subset
<1>5. f = IF finalK = None THEN Search!Sorted(S, order) ELSE Search!Diversified(S, order, finalK)
  BY DEF Search!Filtered
<1>6. CASE finalK = None
  <2>1. f = Search!Sorted(S, order)
    BY <1>5, <1>6
  <2>2. Lists(f, Cardinality(S), S, order)
    BY <1>3, <1>4, <2>1, SortedLists
  <2> QED
    BY <1>2, <1>3, <1>6, <2>2
<1>7. CASE finalK # None
  <2>1. Total(S, Search!Diverse(S, order))
    BY <1>3, DiverseIsTotal
  <2>2. PICK d, n : d = Search!Sorted(S, Search!Diverse(S, order)) /\ n = Cardinality(S)
    OBVIOUS
  <2>3. Lists(d, n, S, Search!Diverse(S, order))
    BY <1>4, <2>1, <2>2, SortedLists
  <2>4. finalK \in Int /\ n \in Nat /\ d \in [1 .. n -> S]
    BY <1>7, <2>3 DEF Lists
  <2>5. Begins(Search!FirstOf(d, finalK), CountOf(n, finalK), d, n, S)
    BY ONLY <2>4, FirstOfIs
  <2>6. f = Search!FirstOf(d, finalK)
    BY <1>5, <1>7, <2>2 DEF Search!Diversified
  <2>7. Begins(f, CountOf(n, finalK), d, n, S)
    BY <2>5, <2>6, Zenon
  <2> QED
    BY <1>2, <1>3, <1>7, <2>2, <2>3, <2>7, Zenon
<1> QED
  BY <1>6, <1>7

\* What is selected: the first m chunks of all, in their order.
Selected(d, m, D, score) ==
  /\ D = Search!Sorted(Search!Indexes, Search!Diverse(Search!Indexes, Search!ByScore(score)))
  /\ Lists(D, Len(SearchChunks), Search!Indexes, Search!Diverse(Search!Indexes, Search!ByScore(score)))
  /\ Begins(d, m, D, Len(SearchChunks), Search!Indexes)

LEMMA SelectedIs ==
  ASSUME NEW score \in [Search!Indexes -> Nat], NEW k \in Int,
         NEW d, d = Search!Diversified(Search!Indexes, Search!ByScore(score), k)
  PROVE  \E D : Selected(d, CountOf(Len(SearchChunks), k), D, score)
<1>1. PICK order : order = Search!Diverse(Search!Indexes, Search!ByScore(score))
  OBVIOUS
<1>2. Total(Search!Indexes, order)
  <2>1. Total(Search!Indexes, Search!ByScore(score))
    BY ByScoreIsTotal
  <2> QED
    BY <1>1, <2>1, DiverseIsTotal
<1>3. PICK D, n : D = Search!Sorted(Search!Indexes, order) /\ n = Len(SearchChunks)
  OBVIOUS
<1>4. Lists(D, n, Search!Indexes, order) /\ n \in Nat
  <2>1. IsFiniteSet(Search!Indexes) /\ Cardinality(Search!Indexes) = n /\ n \in Nat
    BY <1>3, SearchIndexes
  <2> QED
    BY ONLY <1>2, <1>3, <2>1, SortedLists
<1>5. d = Search!FirstOf(D, k)
  BY <1>1, <1>3 DEF Search!Diversified
<1>6. Begins(Search!FirstOf(D, k), CountOf(n, k), D, n, Search!Indexes)
  <2>1. D \in [1 .. n -> Search!Indexes]
    BY <1>4 DEF Lists
  <2> QED
    BY ONLY <1>4, <2>1, k \in Int, FirstOfIs
<1>7. Begins(d, CountOf(n, k), D, n, Search!Indexes)
  BY <1>5, <1>6, Zenon
<1> QED
  BY <1>1, <1>3, <1>4, <1>7, Zenon DEF Selected

\* The first chunk of a file that was selected is the best of the file, and
\* the only one that was put ahead.
Best(l, d, m, score) ==
  /\ l \in Search!Indexes /\ \E q \in 1 .. m : d[q] = l
  /\ \A j \in Search!Indexes : Search!File(j) = Search!File(l) =>
       /\ score[j] <= score[l]
       /\ j # l => j \notin Search!Leads(Search!Indexes, Search!ByScore(score))

LEMMA FirstIsBest ==
  ASSUME NEW score \in [Search!Indexes -> Nat], NEW d, NEW m, NEW D, Selected(d, m, D, score),
         NEW p \in 1 .. m, NEW l, l = Search!LeadIn(d, Search!File(d[p]))
  PROVE  Search!File(l) = Search!File(d[p]) /\ Best(l, d, m, score)
<1> DEFINE all == Search!Indexes
           order == Search!ByScore(score)
           leads == Search!Leads(all, order)
           file == Search!File(d[p])
           places == {q \in DOMAIN d : Search!File(d[q]) = file}
           n == Len(SearchChunks)
<1>1. m \in Nat /\ m <= n /\ n \in Nat /\ d \in [1 .. m -> all] /\ \A q \in 1 .. m : d[q] = D[q] /\ q \in 1 .. n
  BY SearchIndexes DEF Selected, Begins
<1>2. Total(all, order) /\ Falls(all, order, score)
  BY ByScoreIsTotal
<1>3. d[p] \in all
  BY <1>1
<1>4. PICK b \in leads : /\ b \in all /\ Search!File(b) = file
                         /\ \A j \in all : Search!File(j) = file =>
                              /\ j # b => <<b, j>> \in order /\ <<j, b>> \notin order /\ j \notin leads
  <2>1. IsFiniteSet(all)
    BY SearchIndexes
  <2>2. PICK S, o, i : S = all /\ o = order /\ i = d[p]
    OBVIOUS
  <2>3. \E b \in Search!Leads(S, o) :
           /\ b \in S /\ Search!File(b) = Search!File(i)
           /\ \A j \in S : Search!File(j) = Search!File(i) =>
                /\ j # b => <<b, j>> \in o /\ <<j, b>> \notin o /\ j \notin Search!Leads(S, o)
    <3>1. IsFiniteSet(S) /\ Total(S, o) /\ i \in S
      BY <1>2, <1>3, <2>1, <2>2, Zenon
    <3> QED
      BY ONLY <3>1, LeadOfFile
  <2> QED
    BY <2>2, <2>3, Zenon
<1>5. ASSUME NEW r \in places PROVE \E q \in 1 .. m : d[q] = b /\ q <= r
  <2>1. r \in 1 .. m /\ d[r] \in all /\ Search!File(d[r]) = file
    BY <1>1
  <2>2. CASE d[r] = b
    BY <2>1, <2>2, <1>1
  <2>3. CASE d[r] # b
    <3>1. d[r] \notin leads
      BY <1>4, <2>1, <2>3
    <3>2. <<d[r], b>> \notin Search!Diverse(all, order)
      BY <1>4, <3>1 DEF Search!Diverse
    <3>3. PICK q \in 1 .. n : D[q] = b
      BY <1>4 DEF Selected, Lists
    <3>4. D[r] = d[r] /\ r \in 1 .. n
      BY <1>1, <2>1
    <3>5. ~ (r < q)
      BY <3>2, <3>3, <3>4 DEF Selected, Lists
    <3>6. q \in 1 .. m /\ q <= r
      BY <1>1, <2>1, <3>5
    <3> QED
      BY <1>1, <3>3, <3>6
  <2> QED
    BY <2>2, <2>3
<1>6. Search!Least(places) \in places /\ \A r \in places : Search!Least(places) <= r
  <2>1. places \subseteq Nat /\ p \in places
    BY <1>1
  <2> HIDE DEF places
  <2>2. \E x \in places : \A y \in places : x <= y
    BY <2>1, LeastNumber
  <2> QED
    BY <2>2 DEF Search!Least
<1>7. l = b
  <2>1. l = d[Search!Least(places)]
    BY DEF Search!LeadIn
  <2>2. PICK least : least = Search!Least(places)
    OBVIOUS
  <2>3. PICK q \in 1 .. m : d[q] = b /\ q <= least
    BY <1>5, <1>6, <2>2
  <2>4. q \in places
    BY <1>1, <1>4, <2>3
  <2>5. least <= q /\ least \in 1 .. m
    BY <1>1, <1>6, <2>2, <2>4
  <2>6. least = q
    BY <1>1, <2>3, <2>5
  <2> QED
    BY <2>1, <2>2, <2>3, <2>6
<1>8. \E q \in 1 .. m : d[q] = b
  <2>1. p \in places
    BY <1>1
  <2> QED
    BY <1>5, <2>1
<1>9. ASSUME NEW j \in all, Search!File(j) = file
      PROVE  score[j] <= score[b] /\ (j # b => j \notin leads)
  <2>1. j # b => <<b, j>> \in order /\ j \notin leads
    BY <1>4, <1>9
  <2>2. j # b => score[j] <= score[b]
    BY <1>2, <1>4, <2>1 DEF Falls
  <2>3. score[b] \in Nat
    BY <1>4
  <2> QED
    BY <2>1, <2>2, <2>3
<1> QED
  BY <1>4, <1>7, <1>8, <1>9 DEF Best

\* The chunk a file was asked for, and the one of it that was selected first.
Asked(file, mentions, score) == Search!TargetIn(file, mentions, score)

\* What the selection becomes when the chunks asked for take the places of the
\* first of their files.
Swapped(al, ad, d, m, mentions, score) ==
  /\ al \in [1 .. m -> Search!Indexes]
  /\ \A p, q \in 1 .. m : al[p] = al[q] => p = q
  /\ \A p \in 1 .. m : Search!File(al[p]) = Search!File(d[p])
  /\ \A p \in 1 .. m : Asked(Search!File(d[p]), mentions, score) = None => al[p] = d[p]
  /\ \A p \in 1 .. m : Asked(Search!File(d[p]), mentions, score) # None =>
       \E q \in 1 .. m : /\ al[q] = Asked(Search!File(d[p]), mentions, score)
                         /\ d[q] = Search!LeadIn(d, Search!File(d[p]))
                         /\ ad[al[q]] = score[d[q]]
  /\ ad \in [Search!Indexes -> Nat]
  /\ \A i \in Search!Indexes : Asked(Search!File(i), mentions, score) # i => ad[i] = score[i]

LEMMA AlignedIs ==
  ASSUME NEW score \in [Search!Indexes -> Nat], NEW d, NEW m, NEW D, Selected(d, m, D, score),
         NEW mentions, DOMAIN mentions \subseteq Nat,
         NEW al, al = Search!Aligned(d, mentions, score),
         NEW ad, ad = Search!Adjusted(d, mentions, score)
  PROVE  Swapped(al, ad, d, m, mentions, score)
<1> DEFINE all == Search!Indexes
           t(p) == Asked(Search!File(d[p]), mentions, score)
           l(p) == Search!LeadIn(d, Search!File(d[p]))
<1>1. /\ m \in Nat /\ d \in [1 .. m -> all] /\ DOMAIN d = 1 .. m
      /\ \A p, q \in 1 .. m : d[p] = d[q] => p = q
  <2>1. m \in Nat /\ m <= Len(SearchChunks) /\ d \in [1 .. m -> all] /\ \A p \in 1 .. m : d[p] = D[p]
    BY DEF Selected, Begins
  <2>2. \A p \in 1 .. m : p \in 1 .. Len(SearchChunks)
    BY <2>1, SearchIndexes
  <2> QED
    BY <2>1, <2>2 DEF Selected, Lists
<1>2. None \notin all
  BY SearchIndexes
<1>3. ASSUME NEW p \in 1 .. m
      PROVE  t(p) = None \/ (t(p) \in all /\ t(p) # None /\ Search!File(t(p)) = Search!File(d[p]))
  <2>1. PICK file, x : file = Search!File(d[p]) /\ x = Search!TargetIn(file, mentions, score)
    OBVIOUS
  <2>2. x = None \/ (x \in all /\ x # None /\ Search!File(x) = file)
    BY <2>1, TargetIsInFile
  <2> QED
    BY <2>1, <2>2, Zenon DEF Asked
<1>4. ASSUME NEW p \in 1 .. m
      PROVE  l(p) \in all /\ Search!File(l(p)) = Search!File(d[p]) /\ \E q \in 1 .. m : d[q] = l(p)
  <2>1. PICK x : x = Search!LeadIn(d, Search!File(d[p]))
    OBVIOUS
  <2>2. Search!File(x) = Search!File(d[p]) /\ Best(x, d, m, score)
    BY <2>1, FirstIsBest
  <2> QED
    BY <2>1, <2>2, Zenon DEF Best
<1>5. \A p \in 1 .. m : al[p] = IF t(p) # None /\ d[p] = l(p) THEN t(p)
                                ELSE IF d[p] = t(p) THEN l(p) ELSE d[p]
  BY <1>1, Zenon DEF Search!Aligned, Asked
<1>6. DOMAIN al = 1 .. m /\ al = [p \in 1 .. m |-> al[p]]
  BY <1>1 DEF Search!Aligned
<1>7. \A p, q \in 1 .. m : Search!File(d[p]) = Search!File(d[q]) => t(p) = t(q) /\ l(p) = l(q)
  OBVIOUS
<1>8. ad = [i \in all |-> IF /\ Asked(Search!File(i), mentions, score) = i
                            /\ \E p \in 1 .. m : Search!File(d[p]) = Search!File(i)
                         THEN score[Search!LeadIn(d, Search!File(i))] ELSE score[i]]
  BY <1>1, Zenon DEF Search!Adjusted, Asked
<1> HIDE DEF t, l
<1>9. ASSUME NEW p \in 1 .. m PROVE al[p] \in all /\ Search!File(al[p]) = Search!File(d[p])
  BY <1>1, <1>3, <1>4, <1>5
<1>10. al \in [1 .. m -> all]
  BY <1>6, <1>9
<1>11. ASSUME NEW p \in 1 .. m, NEW q \in 1 .. m, al[p] = al[q] PROVE p = q
  <2>1. Search!File(d[p]) = Search!File(d[q])
    BY <1>9, <1>11
  <2>2. t(p) = t(q) /\ l(p) = l(q)
    BY <1>7, <2>1
  <2>3. d[p] = d[q]
    <3>1. d[p] # None /\ d[q] # None
      BY <1>1, <1>2
    <3> QED
      BY <1>5, <1>11, <2>2, <3>1
  <2> QED
    BY <1>1, <2>3
<1>12. ASSUME NEW p \in 1 .. m, t(p) = None PROVE al[p] = d[p]
  BY <1>1, <1>2, <1>5, <1>12
<1>13. ASSUME NEW i \in all PROVE ad[i] \in Nat /\ (Asked(Search!File(i), mentions, score) # i => ad[i] = score[i])
  <2>1. ASSUME NEW p \in 1 .. m, Search!File(d[p]) = Search!File(i)
        PROVE  Search!LeadIn(d, Search!File(i)) \in all
    BY <1>4, <2>1, Zenon DEF l
  <2>2. /\ ad[i] = IF /\ Asked(Search!File(i), mentions, score) = i
                      /\ \E p \in 1 .. m : Search!File(d[p]) = Search!File(i)
                   THEN score[Search!LeadIn(d, Search!File(i))] ELSE score[i]
    BY <1>8
  <2> QED
    BY <2>1, <2>2
<1>14. ad \in [all -> Nat]
  <2>1. DOMAIN ad = all /\ ad = [i \in all |-> ad[i]]
    BY <1>8
  <2> QED
    BY <1>13, <2>1
<1>15. ASSUME NEW p \in 1 .. m, t(p) # None
       PROVE  \E q \in 1 .. m : al[q] = t(p) /\ d[q] = l(p) /\ ad[al[q]] = score[d[q]]
  <2>1. PICK q \in 1 .. m : d[q] = l(p)
    BY <1>4
  <2>2. Search!File(d[q]) = Search!File(d[p])
    BY <1>4, <2>1
  <2>3. t(q) = t(p) /\ l(q) = l(p)
    BY <1>7, <2>2
  <2>4. al[q] = t(p)
    BY <1>5, <1>15, <2>1, <2>3
  <2>5. t(p) \in all /\ Search!File(t(p)) = Search!File(d[p])
    BY <1>3, <1>15
  <2>6. ad[t(p)] = score[l(p)]
    <3>1. PICK i \in all : i = t(p)
      BY <2>5
    <3>2. Search!File(i) = Search!File(d[p])
      BY <2>5, <3>1
    <3>3. Asked(Search!File(i), mentions, score) = i /\ Search!LeadIn(d, Search!File(i)) = l(p)
      BY <3>1, <3>2, Zenon DEF t, l
    <3>4. ad[i] = score[Search!LeadIn(d, Search!File(i))]
      <4>1. \E r \in 1 .. m : Search!File(d[r]) = Search!File(i)
        BY <3>2
      <4> QED
        BY <1>8, <3>3, <4>1
    <3> QED
      BY <3>1, <3>3, <3>4
  <2> QED
    BY <2>1, <2>4, <2>6
<1>16. \A p \in 1 .. m : Asked(Search!File(d[p]), mentions, score) = None => al[p] = d[p]
  BY <1>12, Zenon DEF t
<1>17. \A p \in 1 .. m : Asked(Search!File(d[p]), mentions, score) # None =>
         \E q \in 1 .. m : /\ al[q] = Asked(Search!File(d[p]), mentions, score)
                           /\ d[q] = Search!LeadIn(d, Search!File(d[p]))
                           /\ ad[al[q]] = score[d[q]]
  BY <1>15, Zenon DEF t, l
<1> QED
  BY <1>9, <1>10, <1>11, <1>13, <1>14, <1>16, <1>17, Zenon DEF Swapped

\* Without a mention nothing is asked for, and nothing changes.
LEMMA NothingSwapped ==
  ASSUME NEW score \in [Search!Indexes -> Nat], NEW d, NEW m, NEW D, Selected(d, m, D, score),
         NEW al, NEW ad, Swapped(al, ad, d, m, <<>>, score)
  PROVE  al = d /\ ad = score
<1>1. \A file : Asked(file, <<>>, score) = None
  BY DEF Asked, Search!TargetIn
<1>2. d \in [1 .. m -> Search!Indexes]
  BY DEF Selected, Begins
<1>3. al = d
  <2>1. \A p \in 1 .. m : al[p] = d[p]
    BY <1>1, Zenon DEF Swapped
  <2>2. al \in [1 .. m -> Search!Indexes]
    BY DEF Swapped
  <2>3. al = [p \in 1 .. m |-> al[p]] /\ d = [p \in 1 .. m |-> d[p]]
    BY <1>2, <2>2
  <2>4. [p \in 1 .. m |-> al[p]] = [p \in 1 .. m |-> d[p]]
    BY <2>1
  <2> QED
    BY ONLY <2>3, <2>4, Zenon
<1>4. ad = score
  <2>1. \A i \in Search!Indexes : i # None
    BY SearchIndexes
  <2> QED
    BY <1>1, <2>1 DEF Swapped
<1> QED
  BY <1>3, <1>4

\* In the order of the filter a hit is before what is no hit and no better, and
\* if it is in the same file, that one is not put ahead.
LEMMA HitsGoFirst ==
  ASSUME NEW S, NEW order, NEW score \in [Search!Indexes -> Nat], NEW hits, Ranked(S, order, score, hits),
         NEW h \in S, h \in hits, NEW j \in S, j \notin hits, score[j] <= score[h]
  PROVE  /\ <<h, j>> \in order /\ <<j, h>> \notin order
         /\ Search!File(h) = Search!File(j) => j \notin Search!Leads(S, order)
<1>1. h \in Search!Indexes /\ j \in Search!Indexes /\ score[h] \in Nat /\ score[j] \in Nat
  BY DEF Ranked
<1>2. <<j, h>> \notin order
  <2> SUFFICES ASSUME <<j, h>> \in order PROVE FALSE
    OBVIOUS
  <2>1. score[h] <= score[j]
    BY DEF Ranked, Falls
  <2>2. score[j] = score[h]
    BY <1>1, <2>1
  <2> QED
    BY <2>2 DEF Ranked
<1>3. <<h, j>> \in order
  BY <1>2 DEF Ranked, Total
<1>4. Search!File(h) = Search!File(j) => j \notin Search!Leads(S, order)
  BY <1>3 DEF Search!Leads, Search!Before
<1> QED
  BY <1>2, <1>3, <1>4

\* Of two selected chunks and one that was not, none of them put ahead of its
\* file, the selected one is no worse.
LEMMA SelectedIsNoWorse ==
  ASSUME NEW score \in [Search!Indexes -> Nat], NEW d, NEW m, NEW D, Selected(d, m, D, score),
         NEW q \in 1 .. m, d[q] \notin Search!Leads(Search!Indexes, Search!ByScore(score)),
         NEW i \in Search!Indexes, \A r \in 1 .. m : d[r] # i
  PROVE  score[i] <= score[d[q]]
<1> DEFINE all == Search!Indexes
           order == Search!ByScore(score)
           n == Len(SearchChunks)
<1>1. m \in Nat /\ m <= n /\ n \in Nat /\ \A r \in 1 .. m : d[r] = D[r] /\ r \in 1 .. n
  BY SearchIndexes DEF Selected, Begins
<1>2. PICK r \in 1 .. n : D[r] = i
  BY DEF Selected, Lists
<1>3. ~ (r <= m)
  <2> SUFFICES ASSUME r <= m PROVE FALSE
    OBVIOUS
  <2>1. r \in 1 .. m
    BY <1>1
  <2> QED
    BY <1>1, <1>2, <2>1
<1>4. q < r /\ q \in 1 .. n /\ D[q] = d[q]
  BY <1>1, <1>3
<1>5. <<d[q], i>> \in Search!Diverse(all, order)
  BY <1>2, <1>4 DEF Selected, Lists
<1>6. <<d[q], i>> \in order /\ d[q] \in all
  BY <1>5 DEF Search!Diverse
<1>7. Falls(all, order, score)
  BY ByScoreIsTotal
<1> QED
  BY <1>6, <1>7 DEF Falls

\* What is ahead of a chunk that was asked for and is no hit is in another
\* file, in which a chunk was asked for.
LEMMA OnlyDisplaced ==
  ASSUME NEW score \in [Search!Indexes -> Nat], NEW d, NEW m, NEW D, Selected(d, m, D, score),
         NEW mentions, DOMAIN mentions \subseteq Nat,
         NEW al, NEW ad, Swapped(al, ad, d, m, mentions, score),
         NEW hits, hits = {al[p] : p \in 1 .. m},
         NEW S, hits \subseteq S, \A i \in S : \E p \in 1 .. m : Search!File(al[p]) = Search!File(i),
         NEW order, Ranked(S, order, ad, hits),
         NEW p \in 1 .. m, NEW t, t = Asked(Search!File(d[p]), mentions, score), t # None,
         NEW i \in S, i \notin hits, <<i, t>> \in Search!Diverse(S, order)
  PROVE  /\ Search!File(i) # Search!File(d[p])
         /\ Asked(Search!File(i), mentions, score) # None
<1> DEFINE all == Search!Indexes
           leads == Search!Leads(S, order)
           file == Search!File(d[p])
           l == Search!LeadIn(d, file)
<1>1. /\ S \subseteq all /\ ad \in [all -> Nat] /\ d \in [1 .. m -> all] /\ al \in [1 .. m -> all] /\ m \in Nat
      /\ \A x \in 1 .. m : Search!File(al[x]) = Search!File(d[x])
  BY DEF Ranked, Swapped, Selected, Begins
<1>2. /\ \E q \in 1 .. m : al[q] = t /\ d[q] = l /\ ad[t] = score[l]
      /\ t \in hits /\ t \in S /\ t \in all
  <2>1. \E q \in 1 .. m : al[q] = t /\ d[q] = l /\ ad[al[q]] = score[d[q]]
    BY Zenon DEF Swapped
  <2> QED
    BY <1>1, <2>1
<1>3. /\ Search!File(t) = file
  <2>1. t \in all /\ Search!File(t) = file
    <3>1. PICK x : x = Search!TargetIn(file, mentions, score)
      OBVIOUS
    <3>2. x = None \/ (x \in all /\ x # None /\ Search!File(x) = file)
      BY <3>1, TargetIsInFile
    <3> QED
      BY <3>1, <3>2, Zenon DEF Asked
  <2> QED
    BY <2>1
<1>4. Search!File(l) = file /\ Best(l, d, m, score)
  <2>1. PICK x : x = Search!LeadIn(d, Search!File(d[p]))
    OBVIOUS
  <2>2. Search!File(x) = Search!File(d[p]) /\ Best(x, d, m, score)
    BY <2>1, FirstIsBest
  <2> QED
    BY <2>1, <2>2, Zenon
<1>5. \/ i \in leads /\ t \notin leads
      \/ (i \in leads <=> t \in leads) /\ <<i, t>> \in order
  BY DEF Search!Diverse
<1>6. i \in all /\ ad[i] \in Nat /\ score[i] \in Nat /\ ad[t] \in Nat /\ i # t
  BY <1>1, <1>2
<1>7. Asked(Search!File(i), mentions, score) # i => ad[i] = score[i]
  BY <1>6 DEF Swapped
<1>8. ASSUME NEW h \in S, h \in hits, NEW j \in S, j \notin hits, ad[j] <= ad[h]
       PROVE  <<j, h>> \notin order /\ (Search!File(h) = Search!File(j) => j \notin leads)
  <2>1. ad \in [Search!Indexes -> Nat] /\ Ranked(S, order, ad, hits)
    BY <1>1
  <2> QED
    BY ONLY <2>1, <1>8, HitsGoFirst
<1> HIDE DEF leads, l, file
<1>9. ASSUME Search!File(i) = file PROVE FALSE
  <2>1. Asked(Search!File(i), mentions, score) = t
    BY <1>9, Zenon DEF file
  <2>2. ad[i] = score[i]
    BY <1>6, <1>7, <2>1
  <2>3. score[i] <= score[l]
    BY <1>4, <1>6, <1>9 DEF Best
  <2>4. ad[i] <= ad[t]
    BY <1>2, <2>2, <2>3
  <2>5. Search!File(t) = Search!File(i)
    BY <1>3, <1>9
  <2>6. <<i, t>> \notin order /\ i \notin leads
    BY <1>2, <1>8, <2>4, <2>5
  <2> QED
    BY <1>5, <2>6
<1>10. ASSUME Asked(Search!File(i), mentions, score) = None PROVE FALSE
  <2>1. PICK g : g = Search!File(i)
    OBVIOUS
  <2>2. ad[i] = score[i] /\ None \notin all
    BY <1>6, <1>7, <1>10, SearchIndexes
  <2>3. \A x \in 1 .. m : Search!File(d[x]) = g => al[x] = d[x]
    BY <1>10, <2>1, Zenon DEF Swapped
  \* The first of i's file is a hit, and so ahead of i.
  <2>4. PICK b : b \in hits /\ b \in S /\ Search!File(b) = g /\ score[i] <= score[b] /\ ad[b] = score[b]
    <3>1. PICK x \in 1 .. m : Search!File(d[x]) = g
      BY <1>1, <2>1
    <3>2. PICK b : b = Search!LeadIn(d, Search!File(d[x]))
      OBVIOUS
    <3>3. Search!File(b) = g /\ Best(b, d, m, score)
      <4>1. Search!File(b) = Search!File(d[x]) /\ Best(b, d, m, score)
        BY <3>2, FirstIsBest
      <4> QED
        BY <3>1, <4>1, Zenon
    <3>4. PICK y \in 1 .. m : d[y] = b
      BY <3>3 DEF Best
    <3>5. al[y] = b
      BY <2>3, <3>3, <3>4
    <3>6. b \in hits /\ b \in S /\ b \in all
      BY <1>1, <3>5
    <3>7. score[i] <= score[b]
      BY <1>6, <2>1, <3>3 DEF Best
    <3>8. ad[b] = score[b]
      <4>1. Asked(Search!File(b), mentions, score) # b
        BY <1>10, <2>1, <2>2, <3>3, <3>6
      <4> QED
        BY <3>6, <4>1 DEF Swapped
    <3> QED
      BY <3>3, <3>6, <3>7, <3>8
  <2>5. i \notin leads
    <3>1. ad[i] <= ad[b] /\ Search!File(b) = Search!File(i)
      BY <2>1, <2>2, <2>4
    <3> QED
      BY <1>8, <2>4, <3>1
  <2>6. t \notin leads /\ <<i, t>> \in order
    BY <1>5, <2>5
  <2>7. ad[t] < ad[i]
    <3>1. ad[t] <= ad[i]
      BY <1>2, <2>6 DEF Ranked, Falls
    <3>2. ad[t] # ad[i]
      BY <1>2, <2>6 DEF Ranked
    <3> QED
      BY <1>6, <3>1, <3>2
  \* Something of t's file is ahead of t, and that can only be a hit.
  <2>8. PICK j \in S : Search!File(j) = file /\ <<j, t>> \in order
    BY <1>2, <1>3, <2>6 DEF leads, Search!Leads, Search!Before
  <2>9. j # t /\ j \in all
    BY <1>1, <1>2, <2>8 DEF Ranked, Total
  <2>10. ad[j] <= ad[t]
    <3>1. Asked(Search!File(j), mentions, score) = t
      BY <2>8, Zenon DEF file
    <3>2. ad[j] = score[j]
      BY <2>9, <3>1 DEF Swapped
    <3>3. score[j] <= score[l]
      BY <1>4, <2>8, <2>9 DEF Best
    <3> QED
      BY <1>2, <3>2, <3>3
  <2>11. j \in hits
    <3> SUFFICES ASSUME j \notin hits PROVE FALSE
      OBVIOUS
    <3>1. <<j, t>> \notin order
      BY <1>2, <1>8, <2>10
    <3> QED
      BY <2>8, <3>1
  <2>12. PICK x \in 1 .. m : al[x] = j
    BY <2>11
  <2>13. Search!File(d[x]) = file /\ d[x] \in all
    BY <1>1, <2>8, <2>12
  <2>14. d[x] # l
    <3>1. PICK q \in 1 .. m : al[q] = t /\ d[q] = l
      BY <1>2
    <3>2. x # q
      BY <2>9, <2>12, <3>1
    <3>3. d[x] # d[q]
      <4>1. \A y, z \in 1 .. m : d[y] = d[z] => y = z
        <5>1. m \in Nat /\ m <= Len(SearchChunks) /\ \A y \in 1 .. m : d[y] = D[y]
          BY DEF Selected, Begins
        <5>2. \A y \in 1 .. m : y \in 1 .. Len(SearchChunks)
          BY <5>1, SearchIndexes
        <5> QED
          BY <5>1, <5>2 DEF Selected, Lists
      <4> QED
        BY <3>2, <4>1
    <3> QED
      BY <3>1, <3>3
  <2>15. d[x] \notin Search!Leads(all, Search!ByScore(score)) /\ score[d[x]] <= score[l]
    BY <1>4, <2>13, <2>14 DEF Best
  <2>16. \A r \in 1 .. m : d[r] # i
    <3> SUFFICES ASSUME NEW r \in 1 .. m, d[r] = i PROVE FALSE
      OBVIOUS
    <3>1. al[r] = i
      BY <2>1, <2>3
    <3> QED
      BY <3>1
  <2>17. score[i] <= score[d[x]]
    BY <1>6, <2>15, <2>16, SelectedIsNoWorse
  <2>18. score[d[x]] \in Nat /\ score[l] \in Nat
    BY <2>13, <1>4 DEF Best
  <2> QED
    BY <1>2, <1>6, <2>2, <2>7, <2>15, <2>17, <2>18
<1> QED
  BY <1>9, <1>10, Zenon DEF file

\* The k first of a list leave out one of m hits, and are no fewer.
LeftOut(E, k, al, m, p) ==
  /\ m \in Nat /\ k \in Nat /\ m <= k /\ p \in 1 .. m
  /\ \A x, y \in 1 .. k : E[x] = E[y] => x = y
  /\ \A x \in 1 .. k : E[x] # al[p]

\* Then one of them is no hit.
LEMMA SomeIsNoHit ==
  ASSUME NEW E, NEW k, NEW al, NEW m, NEW p, LeftOut(E, k, al, m, p)
  PROVE  \E x \in 1 .. k : \A q \in 1 .. m : al[q] # E[x]
<1> USE DEF LeftOut
<1> SUFFICES ASSUME \A x \in 1 .. k : \E q \in 1 .. m : al[q] = E[x] PROVE FALSE
  OBVIOUS
<1> DEFINE h == [x \in 1 .. k |-> CHOOSE q \in 1 .. m : al[q] = E[x]]
           T == (1 .. m) \ {p}
<1>1. \A x \in 1 .. k : h[x] \in 1 .. m /\ al[h[x]] = E[x]
  OBVIOUS
<1>2. h \in [1 .. k -> T]
  <2>1. \A x \in 1 .. k : h[x] # p
    BY <1>1
  <2> QED
    BY <1>1, <2>1
<1>3. \A x, y \in 1 .. k : h[x] = h[y] => x = y
  <2> HIDE DEF h
  <2> QED
    BY <1>1
<1>4. IsFiniteSet(1 .. m) /\ Cardinality(1 .. m) = m /\ IsFiniteSet(1 .. k) /\ Cardinality(1 .. k) = k
  BY FS_Interval
<1>5. IsFiniteSet(T) /\ Cardinality(T) = m - 1
  <2>1. PICK U : U = 1 .. m
    OBVIOUS
  <2>2. IsFiniteSet(U \ {p}) /\ Cardinality(U \ {p}) = IF p \in U THEN Cardinality(U) - 1 ELSE Cardinality(U)
    BY <1>4, <2>1, FS_RemoveElement
  <2> QED
    BY <1>4, <2>1, <2>2
<1> HIDE DEF h, T
<1>6. Cardinality(T) < Cardinality(1 .. k)
  BY <1>4, <1>5
<1>7. \E x, y \in 1 .. k : x # y /\ h[x] = h[y]
  BY ONLY <1>2, <1>4, <1>5, <1>6, FS_PigeonHole
<1> QED
  BY <1>3, <1>7

\* The filter's ranking E of all that was recalled, and what it returns of it.
Refiltered(f, k, E, S, order, score, hits, al, m) ==
  /\ hits = {al[p] : p \in 1 .. m} /\ hits \subseteq S
  /\ \A i \in S : \E p \in 1 .. m : Search!File(al[p]) = Search!File(i)
  /\ Ranked(S, order, score, hits)
  /\ Lists(E, Cardinality(S), S, Search!Diverse(S, order))
  /\ Begins(f, CountOf(Cardinality(S), k), E, Cardinality(S), S)

\* A chunk that was asked for is found, or one that was displaced is instead.
LEMMA AskedIsFound ==
  ASSUME NEW score \in [Search!Indexes -> Nat], NEW d, NEW m, NEW D, Selected(d, m, D, score),
         NEW mentions, DOMAIN mentions \subseteq Nat,
         NEW al, NEW ad, Swapped(al, ad, d, m, mentions, score),
         NEW k \in Nat, m <= k,
         NEW f, NEW E, NEW S, NEW order, NEW hits, Refiltered(f, k, E, S, order, ad, hits, al, m),
         NEW p \in 1 .. m, NEW t, t = Asked(Search!File(d[p]), mentions, score), t # None,
         \A x \in DOMAIN f : f[x] # t
  PROVE  \E x \in DOMAIN f : /\ Search!File(f[x]) # Search!File(d[p])
                             /\ Asked(Search!File(f[x]), mentions, score) # None
                             /\ f[x] \notin hits
<1> SUFFICES ASSUME NEW n, n = Cardinality(S), hits = {al[q] : q \in 1 .. m}, hits \subseteq S,
                    \A i \in S : \E q \in 1 .. m : Search!File(al[q]) = Search!File(i),
                    Ranked(S, order, ad, hits), Lists(E, n, S, Search!Diverse(S, order)),
                    Begins(f, CountOf(n, k), E, n, S)
             PROVE  \E x \in DOMAIN f : /\ Search!File(f[x]) # Search!File(d[p])
                                        /\ Asked(Search!File(f[x]), mentions, score) # None
                                        /\ f[x] \notin hits
  BY DEF Refiltered
<1> DEFINE c == CountOf(n, k)
<1>1. /\ m \in Nat /\ al \in [1 .. m -> Search!Indexes]
      /\ \E q \in 1 .. m : al[q] = t
      /\ \A q \in 1 .. m : al[q] \in hits /\ al[q] \in S
  BY DEF Selected, Begins, Swapped
<1>2. PICK u \in 1 .. n : E[u] = t
  BY <1>1 DEF Lists
<1>3. /\ n \in Nat /\ E \in [1 .. n -> S]
      /\ \A x, y \in 1 .. n : E[x] = E[y] => x = y
  BY DEF Lists
<1>4. c \in Nat /\ c <= n /\ DOMAIN f = 1 .. c /\ \A x \in 1 .. c : f[x] = E[x]
  BY DEF Begins
<1>5. c = k /\ k < u
  <2>1. ~ (u <= c)
    <3> SUFFICES ASSUME u <= c PROVE FALSE
      OBVIOUS
    <3>1. u \in 1 .. c
      BY <1>4
    <3> QED
      BY <1>2, <1>4, <3>1
  <2>2. c = IF k < 0 THEN 0 ELSE IF k <= n THEN k ELSE n
    BY DEF CountOf
  <2> HIDE DEF c
  <2> QED
    BY <1>3, <1>4, <2>1, <2>2
<1> HIDE DEF c
<1>6. \A x \in 1 .. k : x \in 1 .. n /\ x < u /\ E[x] \in S /\ f[x] = E[x] /\ E[x] # t
  <2> SUFFICES ASSUME NEW x \in 1 .. k PROVE x \in 1 .. n /\ x < u /\ E[x] \in S /\ f[x] = E[x] /\ E[x] # t
    OBVIOUS
  <2>1. x \in 1 .. n /\ x < u
    BY <1>3, <1>5
  <2>2. E[x] \in S
    BY <1>3, <2>1
  <2>3. f[x] = E[x] /\ x \in DOMAIN f
    BY <1>4, <1>5
  <2> QED
    BY <2>1, <2>2, <2>3
<1>7. PICK x \in 1 .. k : \A q \in 1 .. m : al[q] # E[x]
  <2>1. PICK q \in 1 .. m : al[q] = t
    BY <1>1
  <2>2. \A y, z \in 1 .. k : E[y] = E[z] => y = z
    BY <1>3, <1>6
  <2>3. \A y \in 1 .. k : E[y] # al[q]
    BY <1>6, <2>1
  <2>4. m <= k /\ k \in Nat
    OBVIOUS
  <2>5. LeftOut(E, k, al, m, q)
    BY <1>1, <2>2, <2>3, <2>4 DEF LeftOut
  <2> QED
    BY ONLY <2>5, SomeIsNoHit
<1>8. PICK i \in S : i = E[x]
  BY <1>6
<1>9. i \notin hits
  BY <1>7, <1>8
<1>10. <<i, t>> \in Search!Diverse(S, order)
  <2>1. x \in 1 .. n /\ u \in 1 .. n /\ x < u
    BY <1>6
  <2> QED
    BY <1>2, <1>8, <2>1 DEF Lists
<1>11. /\ Search!File(i) # Search!File(d[p])
       /\ Asked(Search!File(i), mentions, score) # None
  BY <1>9, <1>10, OnlyDisplaced
<1>12. x \in DOMAIN f /\ f[x] = i
  BY <1>4, <1>5, <1>6, <1>8
<1> QED
  BY <1>9, <1>11, <1>12

\* Without a mention, the best are listed with their scores.
LEMMA BestAreListed ==
  ASSUME NEW score \in [Search!Indexes -> Nat], NEW K \in Nat, NEW k \in 1 .. K,
         NEW m, m = CountOf(Len(SearchChunks), K), NEW d, NEW D, Selected(d, m, D, score),
         NEW f, NEW E, NEW S, NEW order, NEW hits, Refiltered(f, k, E, S, order, score, hits, d, m),
         NEW best, best = Search!Diversified(Search!Indexes, Search!ByScore(score), k)
  PROVE  [p \in DOMAIN f |-> score[f[p]]] = [p \in DOMAIN best |-> score[best[p]]]
<1> SUFFICES ASSUME hits = {d[q] : q \in 1 .. m}, hits \subseteq S,
                    \A i \in S : \E q \in 1 .. m : Search!File(d[q]) = Search!File(i),
                    Ranked(S, order, score, hits),
                    Lists(E, Cardinality(S), S, Search!Diverse(S, order)),
                    Begins(f, CountOf(Cardinality(S), k), E, Cardinality(S), S)
             PROVE  [p \in DOMAIN f |-> score[f[p]]] = [p \in DOMAIN best |-> score[best[p]]]
  BY DEF Refiltered
<1> DEFINE N == Len(SearchChunks)
           n == Cardinality(S)
           c == CountOf(n, k)
           all == Search!Indexes
           o1 == Search!ByScore(score)
<1>1. N \in Nat /\ IsFiniteSet(all) /\ Cardinality(all) = N
  BY SearchIndexes
<1>2. n \in Nat /\ n <= N
  <2>1. S \subseteq all
    BY DEF Ranked
  <2>2. n \in Nat
    BY DEF Lists
  <2> QED
    BY <1>1, <2>1, <2>2, FS_Subset
<1>3. PICK D2 : Selected(best, CountOf(N, k), D2, score)
  <2>1. k \in Int
    OBVIOUS
  <2> QED
    BY ONLY score \in [Search!Indexes -> Nat], <2>1, best = Search!Diversified(Search!Indexes, Search!ByScore(score), k), SelectedIs
<1>4. D2 = D
  BY <1>3 DEF Selected
<1>5. m \in Nat /\ m <= N /\ DOMAIN d = 1 .. m /\ \A p \in 1 .. m : d[p] = D[p]
  BY DEF Selected, Begins
<1>6. DOMAIN best = 1 .. CountOf(N, k) /\ CountOf(N, k) <= N /\ \A p \in 1 .. CountOf(N, k) : best[p] = D[p]
  BY <1>3, <1>4 DEF Selected, Begins
<1>7. c \in Nat /\ DOMAIN f = 1 .. c /\ \A p \in 1 .. c : f[p] = E[p]
  BY DEF Begins
<1>8. m = (IF K <= N THEN K ELSE N) /\ c = (IF k <= n THEN k ELSE n) /\ CountOf(N, k) = (IF k <= N THEN k ELSE N)
  BY DEF CountOf
<1> HIDE DEF c
<1>9. m <= n /\ \A p \in 1 .. m : score[D[p]] = score[E[p]]
  <2>1. Total(all, o1) /\ Falls(all, o1, score) /\ S \subseteq all /\ Total(S, order) /\ Falls(S, order, score)
    BY ByScoreIsTotal DEF Ranked
  <2>2. Lists(D, N, all, Search!Diverse(all, o1))
    BY DEF Selected
  <2>3. \A p \in 1 .. m : D[p] \in S
    BY <1>5
  <2>4. \A i \in S : \E p \in 1 .. m : Search!File(D[p]) = Search!File(i)
    BY <1>5
  <2>5. m \in 0 .. N
    BY <1>1, <1>5
  <2>6. Lists(E, n, S, Search!Diverse(S, order)) /\ score \in [all -> Nat]
    OBVIOUS
  <2>7. SameFiles(m, D, N, o1, S, E, n, order, score)
    BY <2>1, <2>2, <2>3, <2>4, <2>5, <2>6 DEF SameFiles
  <2> QED
    BY ONLY <2>7, SameScores
<1>10. c = CountOf(N, k) /\ c <= m
  <2>1. k \in Nat /\ k <= K
    OBVIOUS
  <2>2. m <= n
    BY <1>9
  <2> HIDE DEF n, N
  <2> QED
    BY <1>1, <1>2, <1>8, <2>1, <2>2
<1>11. \A p \in 1 .. c : score[f[p]] = score[best[p]]
  <2> SUFFICES ASSUME NEW p \in 1 .. c PROVE score[f[p]] = score[best[p]]
    OBVIOUS
  <2>1. p \in 1 .. m
    BY <1>5, <1>7, <1>10
  <2> QED
    BY <1>6, <1>7, <1>9, <1>10, <2>1
<1>12. DOMAIN f = 1 .. c /\ DOMAIN best = 1 .. c
  BY <1>6, <1>7, <1>10
<1> QED
  BY <1>11, <1>12

\* The default bound leaves room for every hit and all around it.
LEMMA DefaultIsWide ==
  ASSUME NEW N \in Nat, NEW K \in Int, NEW m, m = CountOf(N, K), NEW w \in Int,
         NEW bound, bound = Search!MaxRecallResults(K, w, None)
  PROVE  bound \in Nat \ {0} /\ m * (2 * Search!Larger(w, 0) + 1) <= bound
<1>1. PICK C \in Nat : C = 2 * Search!Larger(w, 0) + 1
  BY DEF Search!Larger
<1>2. bound = Search!Larger(20, K * C)
  BY <1>1 DEF Search!MaxRecallResults
<1>3. PICK x \in Int : x = K * C
  BY <1>1
<1>4. bound \in Nat \ {0} /\ x <= bound /\ 20 <= bound
  <2>1. bound = Search!Larger(20, x)
    BY <1>2, <1>3
  <2> QED
    BY <2>1 DEF Search!Larger
<1>5. m \in Nat /\ (m # 0 => K \in Nat /\ m \in 1 .. K)
  BY DEF CountOf
<1>6. m * C <= bound
  <2>1. CASE m = 0
    <3>1. 0 * C = 0
      BY <1>1
    <3> QED
      BY <1>4, <2>1, <3>1
  <2>2. CASE m # 0
    <3>1. K \in Nat /\ m \in 1 .. K
      BY <1>5, <2>2
    <3>2. m * C \in Nat /\ m * C <= K * C
      BY ONLY <1>1, <3>1, Multiples
    <3>3. PICK y \in Nat : y = m * C
      BY <3>2
    <3>4. y <= x
      BY <1>3, <3>2, <3>3
    <3> QED
      BY <1>4, <3>3, <3>4
  <2> QED
    BY <2>1, <2>2
<1> QED
  BY <1>1, <1>4, <1>6

\* Any bound is none or positive.
LEMMA BoundIs ==
  ASSUME NEW K \in Int, NEW w \in Int, NEW given \in Int \cup {None},
         NEW bound, bound = Search!MaxRecallResults(K, w, given)
  PROVE  bound = None \/ bound \in Nat \ {0}
<1>1. CASE given = None
  <2>1. bound = Search!MaxRecallResults(K, w, None)
    BY <1>1
  <2>2. bound \in Nat \ {0}
    <3>1. 0 \in Nat
      OBVIOUS
    <3>2. PICK m : m = CountOf(0, K)
      OBVIOUS
    <3> QED
      BY <2>1, <3>1, <3>2, DefaultIsWide
  <2> QED
    BY <2>2
<1>2. CASE given # None
  BY <1>2 DEF Search!MaxRecallResults
<1> QED
  BY <1>1, <1>2

\* The filter returns no chunk twice.
LEMMA FilteredOnce ==
  ASSUME NEW score \in [Search!Indexes -> Nat], NEW near, near \subseteq Search!Indexes,
         NEW hits, NEW rows, Recall(rows, near, hits), NEW minScore, NEW finalK \in Int \cup {None},
         NEW f, f = Search!Filtered(rows, score, finalK, minScore)
  PROVE  \A p, q \in DOMAIN f : f[p] = f[q] => p = q
<1>1. PICK S, order, n : /\ S = Search!Kept(rows, score, minScore) /\ order = Search!ByRecall(rows, score)
                         /\ n = Cardinality(S)
  OBVIOUS
<1>2. /\ finalK = None => Lists(f, Cardinality(S), S, order)
      /\ finalK # None => \E d : /\ Lists(d, Cardinality(S), S, Search!Diverse(S, order))
                                 /\ Begins(f, CountOf(Cardinality(S), finalK), d, Cardinality(S), S)
  BY <1>1, FilteredIs
<1>3. CASE finalK = None
  <2>1. Lists(f, n, S, order)
    BY <1>1, <1>2, <1>3, Zenon
  <2> QED
    BY <2>1 DEF Lists
<1>4. CASE finalK # None
  <2>1. PICK c, d : Lists(d, n, S, Search!Diverse(S, order)) /\ Begins(f, c, d, n, S)
    BY <1>1, <1>2, <1>4, Zenon
  <2>2. c \in Nat /\ n \in Nat /\ c <= n /\ DOMAIN f = 1 .. c /\ \A p \in 1 .. c : f[p] = d[p]
    BY <2>1 DEF Begins, Lists
  <2>3. \A p \in 1 .. c : p \in 1 .. n
    BY <2>2
  <2> QED
    BY <2>1, <2>2, <2>3 DEF Lists
<1> QED
  BY <1>3, <1>4

\* The scores and the hits of a query, before what it mentions is looked at.
SearchScore == Search!Promoted(r2.scores, r2.asked)
SearchHits == Search!Diversified(Search!Indexes, Search!ByScore(SearchScore), Search!CandidateK)

\* How far a search is, and what it has by then.
SearchInv ==
  /\ r2 \in SearchQueries
  /\ r1 \in {"rank", "align", "recall", "filter", "done"}
  /\ r1 = "rank" => r3 = r2.scores
  /\ r1 = "align" => r3 = SearchScore /\ r4 = SearchHits
  /\ r1 \in {"recall", "filter", "done"} =>
       /\ r3 = Search!Adjusted(SearchHits, r2.mentions, SearchScore)
       /\ r4 = Search!Aligned(SearchHits, r2.mentions, SearchScore)
  /\ r1 \in {"filter", "done"} =>
       r5 = Search!Recalled(r4, r2.window, Search!MaxRecallResults(Search!CandidateK, r2.window, r2.maxRecall))
  /\ r1 = "done" =>
       r6 = IF r2.noFilter THEN [p \in DOMAIN r5 |-> r5[p].chunk]
            ELSE Search!Filtered(r5, r3, IF Search!FinalK = 0 THEN None ELSE Search!FinalK, r2.minScore)

\* A search starts with the scores of its query.
LEMMA SearchInit == part = "search" /\ Init => SearchInv
  BY DEF Init, Search!Init, SearchInv

\* Each stage is made from the one before.
LEMMA SearchStep == SearchInv /\ Search!Next => SearchInv'
<1> SUFFICES ASSUME SearchInv, Search!Next PROVE SearchInv'
  OBVIOUS
<1>1. r2' = r2
  BY DEF Search!Next, Search!Rank, Search!Align, Search!Recall, Search!Filter
<1>2. SearchScore' = SearchScore /\ Search!CandidateK' = Search!CandidateK /\ Search!FinalK' = Search!FinalK
  BY <1>1 DEF SearchScore, Search!CandidateK, Search!FinalK
<1>3. SearchHits' = SearchHits
  BY <1>2 DEF SearchHits
<1>4. CASE Search!Rank
  <2>1. r1' = "align" /\ r3' = SearchScore /\ r4' = SearchHits
    BY <1>4, Zenon DEF Search!Rank, SearchInv, SearchScore, SearchHits
  <2> QED
    BY <1>1, <1>2, <1>3, <2>1 DEF SearchInv
<1>5. CASE Search!Align
  <2>1. /\ r1' = "recall" /\ r3' = Search!Adjusted(SearchHits, r2.mentions, SearchScore)
        /\ r4' = Search!Aligned(SearchHits, r2.mentions, SearchScore)
    BY <1>5, Zenon DEF Search!Align, SearchInv
  <2> QED
    BY <1>1, <1>2, <1>3, <2>1 DEF SearchInv
<1>6. CASE Search!Recall
  <2>1. /\ r1 = "recall" /\ r1' = "filter" /\ r3' = r3 /\ r4' = r4
        /\ r5' = Search!Recalled(r4, r2.window, Search!MaxRecallResults(Search!CandidateK, r2.window, r2.maxRecall))
    BY <1>6 DEF Search!Recall
  <2> QED
    BY <1>1, <1>2, <1>3, <2>1 DEF SearchInv
<1>7. CASE Search!Filter
  <2>1. /\ r1 = "filter" /\ r1' = "done" /\ r3' = r3 /\ r4' = r4 /\ r5' = r5
        /\ r6' = IF r2.noFilter THEN [p \in DOMAIN r5 |-> r5[p].chunk]
                 ELSE Search!Filtered(r5, r3, IF Search!FinalK = 0 THEN None ELSE Search!FinalK, r2.minScore)
    BY <1>7 DEF Search!Filter
  <2> QED
    BY <1>1, <1>2, <1>3, <2>1 DEF SearchInv
<1> QED
  BY <1>4, <1>5, <1>6, <1>7 DEF Search!Next

\* What a query is.
LEMMA QueryIs ==
  ASSUME SearchInv
  PROVE  /\ SearchScore \in [Search!Indexes -> Nat] /\ Search!CandidateK \in Int /\ Search!FinalK \in Int
         /\ r2.window \in Int /\ r2.maxRecall \in Int \cup {None} /\ DOMAIN r2.mentions \subseteq Nat
<1>1. /\ r2.scores \in [Search!Indexes -> Nat] /\ r2.topK \in Int /\ r2.window \in Int
      /\ r2.candidateK \in Int \cup {None} /\ r2.finalK \in Int \cup {None}
      /\ r2.maxRecall \in Int \cup {None} /\ DOMAIN r2.mentions \subseteq Nat
  BY SearchAssumption DEF SearchInv, Search!Indexes
<1>2. SearchScore \in [Search!Indexes -> Nat]
  BY <1>1, PromotedScores DEF SearchScore
<1>3. Search!CandidateK \in Int /\ Search!FinalK \in Int
  BY <1>1 DEF Search!CandidateK, Search!FinalK
<1> QED
  BY <1>1, <1>2, <1>3

\* What a search that is done has: the hits d, m in all, that begin the ranking
\* D of the index, and the rows around what became of them.
Searched(d, m, D, near, hits) ==
  /\ d = SearchHits /\ m = CountOf(Len(SearchChunks), Search!CandidateK)
  /\ Selected(d, m, D, SearchScore)
  /\ Swapped(r4, r3, d, m, r2.mentions, SearchScore)
  /\ near = {i \in Search!Indexes : \E p \in 1 .. m : Search!File(r4[p]) = Search!File(i)}
  /\ Recall(r5, near, hits)
  /\ r2.maxRecall = None => hits = {r4[p] : p \in 1 .. m}

LEMMA SearchedIs ==
  ASSUME SearchInv, r1 = "done"
  PROVE  \E d, m, D, near, hits : Searched(d, m, D, near, hits)
<1> DEFINE s == SearchScore
           K == Search!CandidateK
           w == r2.window
           bound == Search!MaxRecallResults(K, w, r2.maxRecall)
           N == Len(SearchChunks)
<1>1. PICK d, m : d = SearchHits /\ m = CountOf(N, K)
  OBVIOUS
<1>2. s \in [Search!Indexes -> Nat] /\ K \in Int /\ w \in Int /\ r2.maxRecall \in Int \cup {None}
      /\ DOMAIN r2.mentions \subseteq Nat /\ N \in Nat
  BY QueryIs, SearchIndexes
<1>3. PICK D : Selected(d, m, D, s)
  <2>1. d = Search!Diversified(Search!Indexes, Search!ByScore(s), K)
    BY <1>1 DEF SearchHits
  <2>2. \E D : Selected(d, CountOf(Len(SearchChunks), K), D, s)
    <3> HIDE DEF s, K
    <3> QED
      BY ONLY <1>2, <2>1, SelectedIs
  <2> QED
    BY <1>1, <2>2
<1>4. Swapped(r4, r3, d, m, r2.mentions, s)
  <2>1. r4 = Search!Aligned(d, r2.mentions, s) /\ r3 = Search!Adjusted(d, r2.mentions, s)
    BY <1>1 DEF SearchInv
  <2>2. PICK mentions, score : mentions = r2.mentions /\ score = s
    OBVIOUS
  <2>3. Swapped(r4, r3, d, m, mentions, score)
    <3>1. score \in [Search!Indexes -> Nat] /\ Selected(d, m, D, score) /\ DOMAIN mentions \subseteq Nat
          /\ r4 = Search!Aligned(d, mentions, score) /\ r3 = Search!Adjusted(d, mentions, score)
      BY <1>2, <1>3, <2>1, <2>2
    <3> QED
      BY ONLY <3>1, AlignedIs
  <2> QED
    BY <2>2, <2>3, Zenon
<1>5. /\ m \in Nat /\ r4 \in [1 .. m -> Search!Indexes]
      /\ \A p, q \in 1 .. m : r4[p] = r4[q] => p = q
  BY <1>3, <1>4 DEF Selected, Begins, Swapped
<1>6. PICK near : near = {i \in Search!Indexes : \E p \in 1 .. m : Search!File(r4[p]) = Search!File(i)}
  OBVIOUS
<1>7. PICK x, b : x = w /\ b = bound
  OBVIOUS
<1>8. b = None \/ b \in Nat \ {0}
  <2> HIDE DEF K, w
  <2> QED
    BY <1>2, <1>7, BoundIs
<1>9. r2.maxRecall = None => b # None /\ m * (2 * Search!Larger(x, 0) + 1) <= b
  <2> SUFFICES ASSUME r2.maxRecall = None PROVE b # None /\ m * (2 * Search!Larger(x, 0) + 1) <= b
    OBVIOUS
  <2>1. PICK k : k = K
    OBVIOUS
  <2>2. b = Search!MaxRecallResults(k, x, None) /\ N \in Nat /\ k \in Int /\ x \in Int /\ m = CountOf(N, k)
    BY <1>1, <1>2, <1>7, <2>1, Zenon
  <2>3. b \in Nat \ {0} /\ m * (2 * Search!Larger(x, 0) + 1) <= b
    BY ONLY <2>2, DefaultIsWide
  <2> QED
    BY <2>3, SearchIndexes
<1>10. /\ \E hits : Recall(r5, near, hits)
       /\ b # None /\ m * (2 * Search!Larger(x, 0) + 1) <= b => Recall(r5, near, {r4[p] : p \in 1 .. m})
  <2>1. r5 = Search!Recalled(r4, x, b)
    BY <1>7 DEF SearchInv
  <2>2. x \in Int
    BY <1>2, <1>7
  <2> QED
    BY ONLY <1>5, <1>6, <1>8, <2>1, <2>2, RecalledRows
<1>11. PICK hits : Recall(r5, near, hits) /\ (r2.maxRecall = None => hits = {r4[p] : p \in 1 .. m})
  BY <1>9, <1>10
<1> QED
  BY <1>1, <1>3, <1>4, <1>6, <1>11, Zenon DEF Searched

\* No chunk is returned twice.
LEMMA SearchedOnce ==
  ASSUME SearchInv, r1 = "done"
  PROVE  \A p, q \in DOMAIN r6 : r6[p] = r6[q] => p = q
<1>1. PICK d, m, D, near, hits : Searched(d, m, D, near, hits)
  BY SearchedIs
<1>2. Recall(r5, near, hits) /\ near \subseteq Search!Indexes /\ r3 \in [Search!Indexes -> Nat]
  BY <1>1 DEF Searched, Swapped
<1>3. CASE r2.noFilter
  <2>1. r6 = [p \in DOMAIN r5 |-> r5[p].chunk]
    BY <1>3 DEF SearchInv
  <2> QED
    BY <1>2, <2>1 DEF Recall
<1>4. CASE ~ r2.noFilter
  <2>1. PICK k, least : k = (IF Search!FinalK = 0 THEN None ELSE Search!FinalK) /\ least = r2.minScore
    OBVIOUS
  <2>2. k \in Int \cup {None}
    BY <2>1, QueryIs
  <2>3. r6 = Search!Filtered(r5, r3, k, least)
    BY <1>4, <2>1, Zenon DEF SearchInv
  <2> QED
    BY ONLY <1>2, <2>2, <2>3, FilteredOnce
<1> QED
  BY <1>3, <1>4

\* What the filter keeps when no score is too low: every chunk recalled, in an
\* order that has the hits first.
LEMMA AllAreKept ==
  ASSUME SearchInv, r1 = "done", ~ r2.noFilter, r2.minScore = None, r2.maxRecall = None,
         Search!FinalK \in Nat \ {0},
         NEW d, NEW m, NEW D, NEW near, NEW hits, Searched(d, m, D, near, hits)
  PROVE  \E E, S, order : Refiltered(r6, Search!FinalK, E, S, order, r3, hits, r4, m)
<1>1. /\ Recall(r5, near, hits) /\ near \subseteq Search!Indexes /\ r3 \in [Search!Indexes -> Nat]
      /\ near = {i \in Search!Indexes : \E p \in 1 .. m : Search!File(r4[p]) = Search!File(i)}
  BY DEF Searched, Swapped
<1>2. PICK k : k = Search!FinalK
  OBVIOUS
<1>3. k \in Nat /\ k # 0 /\ k \in Int /\ k # None
  BY <1>2, SearchIndexes
<1>4. r6 = Search!Filtered(r5, r3, k, None)
  <2>1. r6 = Search!Filtered(r5, r3, IF Search!FinalK = 0 THEN None ELSE Search!FinalK, r2.minScore)
    BY Zenon DEF SearchInv
  <2>2. (IF Search!FinalK = 0 THEN None ELSE Search!FinalK) = k
    BY <1>2, <1>3
  <2> QED
    BY <2>1, <2>2
<1>5. PICK S, order, least : /\ S = Search!Kept(r5, r3, None) /\ order = Search!ByRecall(r5, r3)
                             /\ least = None
  OBVIOUS
<1>6. /\ least = None => S = {r5[p].chunk : p \in DOMAIN r5}
      /\ k # None => \E E : /\ Lists(E, Cardinality(S), S, Search!Diverse(S, order))
                            /\ Begins(r6, CountOf(Cardinality(S), k), E, Cardinality(S), S)
  <2>1. S = Search!Kept(r5, r3, least) /\ r6 = Search!Filtered(r5, r3, k, least) /\ order = Search!ByRecall(r5, r3)
    BY <1>4, <1>5
  <2>2. k \in Int \cup {None}
    BY <1>3
  <2> QED
    BY ONLY <1>1, <2>1, <2>2, FilteredIs
<1>7. S = {r5[p].chunk : p \in DOMAIN r5}
  BY <1>5, <1>6
<1>8. PICK E : /\ Lists(E, Cardinality(S), S, Search!Diverse(S, order))
               /\ Begins(r6, CountOf(Cardinality(S), k), E, Cardinality(S), S)
  BY <1>3, <1>6
<1>9. Ranked(S, order, r3, hits)
  <2>1. S \subseteq {r5[p].chunk : p \in DOMAIN r5}
    BY <1>7
  <2> QED
    BY ONLY <1>1, <1>5, <2>1, ByRecallIsTotal
<1>10. hits \subseteq S
  BY <1>1, <1>7 DEF Recall
<1>11. \A i \in S : \E p \in 1 .. m : Search!File(r4[p]) = Search!File(i)
  <2>1. \A p \in DOMAIN r5 : r5[p].chunk \in near
    <3>1. r5 \in Seq(Rows(near))
      BY <1>1 DEF Recall
    <3>2. \A p \in DOMAIN r5 : r5[p] \in Rows(near)
      BY <3>1, Elements
    <3> QED
      BY <3>2 DEF Rows
  <2> QED
    BY <1>1, <1>7, <2>1
<1>12. hits = {r4[p] : p \in 1 .. m}
  BY DEF Searched
<1> QED
  BY <1>2, <1>8, <1>9, <1>10, <1>11, <1>12, Zenon DEF Refiltered

\* Without a mention the scores returned are the best.
LEMMA SearchedBest ==
  ASSUME SearchInv, r1 = "done", r2.mentions = <<>>, ~ r2.noFilter, r2.maxRecall = None, r2.minScore = None,
         Search!FinalK \in 1 .. Search!CandidateK,
         NEW best, best = Search!Diversified(Search!Indexes, Search!ByScore(r3), Search!FinalK)
  PROVE  [p \in DOMAIN r6 |-> r3[r6[p]]] = [p \in DOMAIN best |-> r3[best[p]]]
<1>1. PICK d, m, D, near, hits : Searched(d, m, D, near, hits)
  BY SearchedIs
<1>2. PICK k, K : k = Search!FinalK /\ K = Search!CandidateK
  OBVIOUS
<1>3. K \in Nat /\ k \in 1 .. K /\ Search!FinalK \in Nat \ {0}
  <2>1. K \in Int
    BY <1>2, QueryIs
  <2> QED
    BY <1>2, <2>1
<1>4. r4 = d /\ r3 = SearchScore
  <2>1. SearchScore \in [Search!Indexes -> Nat]
    BY QueryIs
  <2>2. Swapped(r4, r3, d, m, <<>>, SearchScore) /\ Selected(d, m, D, SearchScore)
    BY <1>1 DEF Searched
  <2> QED
    BY ONLY <2>1, <2>2, NothingSwapped
<1>5. PICK E, S, order : Refiltered(r6, k, E, S, order, r3, hits, d, m)
  <2>1. \E E, S, order : Refiltered(r6, Search!FinalK, E, S, order, r3, hits, r4, m)
    BY <1>1, <1>3, AllAreKept
  <2> QED
    BY <1>2, <1>4, <2>1, Zenon
<1>6. r3 \in [Search!Indexes -> Nat] /\ m = CountOf(Len(SearchChunks), K) /\ Selected(d, m, D, r3)
  <2>1. r3 \in [Search!Indexes -> Nat]
    BY <1>4, QueryIs
  <2> QED
    BY <1>1, <1>2, <1>4, <2>1 DEF Searched
<1>7. best = Search!Diversified(Search!Indexes, Search!ByScore(r3), k)
  BY <1>2
<1> QED
  BY ONLY <1>3, <1>5, <1>6, <1>7, BestAreListed

\* A method that was asked for is in the answer, or a chunk that another one
\* displaced took its place.
LEMMA SearchedMethod ==
  ASSUME SearchInv, r1 = "done", r2.maxRecall = None, r2.minScore = None, Search!FinalK = Search!CandidateK,
         NEW p \in DOMAIN r4, NEW file, file = Search!File(r4[p]),
         NEW t, t = Asked(file, r2.mentions, SearchScore), t # None,
         \A x \in DOMAIN r6 : r6[x] # t
  PROVE  \E x \in DOMAIN r6 : /\ Search!File(r6[x]) # file
                              /\ Asked(Search!File(r6[x]), r2.mentions, SearchScore) # None
                              /\ \A q \in DOMAIN r4 : r4[q] # r6[x]
<1>1. PICK d, m, D, near, hits : Searched(d, m, D, near, hits)
  BY SearchedIs
<1>2. PICK k, score, mentions : k = Search!CandidateK /\ score = SearchScore /\ mentions = r2.mentions
  OBVIOUS
<1>3. /\ score \in [Search!Indexes -> Nat] /\ k \in Int /\ DOMAIN mentions \subseteq Nat
      /\ Selected(d, m, D, score) /\ Swapped(r4, r3, d, m, mentions, score)
      /\ hits = {r4[q] : q \in 1 .. m} /\ m = CountOf(Len(SearchChunks), k)
  BY <1>1, <1>2, QueryIs DEF Searched
<1>4. /\ DOMAIN r4 = 1 .. m /\ p \in 1 .. m /\ file = Search!File(d[p])
  BY <1>3 DEF Swapped
<1>5. k \in Nat \ {0} /\ m <= k
  <2>1. m \in Nat /\ m # 0
    <3>1. m \in Nat
      BY <1>3 DEF Selected, Begins
    <3> QED
      BY <1>4, <3>1
  <2> QED
    BY <1>3, <2>1, SearchIndexes DEF CountOf
<1>6. t = Asked(Search!File(d[p]), mentions, score)
  BY <1>2, <1>4
<1>7. PICK q \in 1 .. m : r4[q] = t
  <2>1. Asked(Search!File(d[p]), mentions, score) # None /\ p \in 1 .. m
    BY <1>4, <1>6
  <2>2. \E q \in 1 .. m : r4[q] = Asked(Search!File(d[p]), mentions, score)
    BY ONLY <1>3, <2>1 DEF Swapped
  <2> QED
    BY <1>6, <2>2
<1>8. ~ r2.noFilter
  <2> SUFFICES ASSUME r2.noFilter PROVE FALSE
    OBVIOUS
  <2>1. r6 = [x \in DOMAIN r5 |-> r5[x].chunk]
    BY DEF SearchInv
  <2>2. t \in hits
    BY <1>3, <1>7
  <2>3. \E x \in DOMAIN r5 : r5[x].chunk = t
    BY <1>1, <2>2 DEF Searched, Recall
  <2> QED
    BY <2>1, <2>3
<1>9. PICK E, S, order : Refiltered(r6, k, E, S, order, r3, hits, r4, m)
  <2>1. Search!FinalK \in Nat \ {0} /\ Search!FinalK = k
    BY <1>2, <1>5
  <2>2. \E E, S, order : Refiltered(r6, Search!FinalK, E, S, order, r3, hits, r4, m)
    BY <1>1, <1>8, <2>1, AllAreKept
  <2> QED
    BY <2>1, <2>2, Zenon
<1>10. \E x \in DOMAIN r6 : /\ Search!File(r6[x]) # Search!File(d[p])
                            /\ Asked(Search!File(r6[x]), mentions, score) # None
                            /\ r6[x] \notin hits
  <2>1. \A x \in DOMAIN r6 : r6[x] # t
    OBVIOUS
  <2>2. t # None /\ k \in Nat
    BY <1>5
  <2> QED
    BY ONLY <1>3, <1>4, <1>5, <1>6, <1>9, <2>1, <2>2, AskedIsFound
<1>11. PICK x \in DOMAIN r6 : /\ Search!File(r6[x]) # Search!File(d[p])
                              /\ Asked(Search!File(r6[x]), mentions, score) # None
                              /\ r6[x] \notin hits
  BY <1>10
<1>12. \A y \in DOMAIN r4 : r4[y] # r6[x]
  BY <1>3, <1>4, <1>11
<1> QED
  BY <1>2, <1>4, <1>11, <1>12

\* Both together.
LEMMA SearchKept == SearchInv => Search!SearchKeepsTheBest
<1> SUFFICES ASSUME SearchInv PROVE Search!BestAreReturned /\ Search!MentionedMethodIsReturned
  BY DEF Search!SearchKeepsTheBest
<1>1. Search!BestAreReturned
  <2> SUFFICES ASSUME r1 = "done"
               PROVE  /\ \A p, q \in DOMAIN r6 : r6[p] = r6[q] => p = q
                      /\ (/\ r2.mentions = <<>> /\ ~r2.noFilter
                          /\ r2.maxRecall = None /\ r2.minScore = None
                          /\ Search!FinalK \in 1 .. Search!CandidateK) =>
                           LET best == Search!Diversified(Search!Indexes, Search!ByScore(r3), Search!FinalK)
                           IN [p \in DOMAIN r6 |-> r3[r6[p]]] = [p \in DOMAIN best |-> r3[best[p]]]
    BY DEF Search!BestAreReturned
  <2> QED
    BY SearchedOnce, SearchedBest
<1>2. Search!MentionedMethodIsReturned
  <2> SUFFICES ASSUME r1 = "done", r2.maxRecall = None, r2.minScore = None, Search!FinalK = Search!CandidateK,
                      NEW p \in DOMAIN r4,
                      NEW t, t = Search!TargetIn(Search!File(r4[p]), r2.mentions, SearchScore), t # None,
                      ~ Search!InSeq(t, r6)
               PROVE  \E q \in DOMAIN r6 :
                        /\ Search!File(r6[q]) # Search!File(r4[p])
                        /\ Search!TargetIn(Search!File(r6[q]), r2.mentions, SearchScore) # None
                        /\ ~ Search!InSeq(r6[q], r4)
    BY Zenon DEF Search!MentionedMethodIsReturned, SearchScore
  <2>1. PICK file : file = Search!File(r4[p])
    OBVIOUS
  <2>2. t = Asked(file, r2.mentions, SearchScore) /\ \A x \in DOMAIN r6 : r6[x] # t
    BY <2>1, Zenon DEF Asked, Search!InSeq
  <2>3. \E x \in DOMAIN r6 : /\ Search!File(r6[x]) # file
                             /\ Asked(Search!File(r6[x]), r2.mentions, SearchScore) # None
                             /\ \A q \in DOMAIN r4 : r4[q] # r6[x]
    BY <2>1, <2>2, SearchedMethod
  <2> QED
    BY <2>1, <2>3, Zenon DEF Asked, Search!InSeq
<1> QED
  BY <1>1, <1>2

\* A search returns no chunk twice, and as good chunks as there are, and what
\* it was asked to locate unless a chunk displaced in another file takes the
\* place, for any index, scores, query and bounds (bm25.py:480, recall.py:14,
\* filter.py:11).
THEOREM SearchAlwaysKeepsTheBest == Spec => []SearchKeepsTheBest
<1> DEFINE Inv == part = "search" => SearchInv
<1>1. Init => Inv
  BY SearchInit
<1>2. Inv /\ [Next]_vars => Inv'
  <2> SUFFICES ASSUME Inv, [Next]_vars PROVE Inv'
    OBVIOUS
  <2>1. CASE UNCHANGED vars
    <3>1. /\ part' = part /\ r1' = r1 /\ r2' = r2 /\ r3' = r3 /\ r4' = r4 /\ r5' = r5 /\ r6' = r6
      BY <2>1 DEF vars
    <3>2. SearchScore' = SearchScore /\ Search!CandidateK' = Search!CandidateK /\ Search!FinalK' = Search!FinalK
      BY <3>1 DEF SearchScore, Search!CandidateK, Search!FinalK
    <3>3. SearchHits' = SearchHits
      BY <3>2 DEF SearchHits
    <3>4. SearchInv => SearchInv'
      BY <3>1, <3>2, <3>3 DEF SearchInv
    <3> QED
      BY <3>1, <3>4
  <2>2. CASE Next
    <3>1. part' = part
      BY <2>2 DEF Next
    <3>2. CASE part = "search"
      <4>1. Search!Next
        BY <2>2, <3>2 DEF Next
      <4> QED
        BY <3>1, <3>2, <4>1, SearchStep
    <3> QED
      BY <3>1, <3>2
  <2> QED
    BY <2>1, <2>2
<1>3. Inv => SearchKeepsTheBest
  BY SearchKept DEF SearchKeepsTheBest
<1> QED
  BY <1>1, <1>2, <1>3, PTL DEF Spec

=============================================================================
