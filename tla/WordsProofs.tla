---------------------------- MODULE WordsProofs ----------------------------
(***************************************************************************)
(* Proofs about what is came: that a reply arrives (Egress).               *)
(***************************************************************************)
EXTENDS Egress, Reports, Reading, FiniteSetTheorems, SequenceTheorems, TLAPS

-----------------------------------------------------------------------------
(* Recursion over the natural numbers up to N, without an operator as      *)
(* parameter: a set takes its place, and a function that of the rule.      *)

\* A set that holds 0, and with a number the next one, holds N: the successor would
\* map it one to one into itself without 0.
LEMMA Climb ==
  ASSUME NEW N \in Nat, NEW S \in SUBSET (0..N), 0 \in S, \A n \in S : n < N => n + 1 \in S
  PROVE  N \in S
<1> SUFFICES ASSUME N \notin S PROVE FALSE
  OBVIOUS
<1> DEFINE T == S \ {0}
           f == [n \in S |-> n + 1]
<1>1. IsFiniteSet(S)
  <2>1. IsFiniteSet(0..N)
    BY FS_Interval, 0 \in Int, N \in Int
  <2> QED
    BY <2>1, FS_Subset
<1>2. IsFiniteSet(T) /\ Cardinality(T) < Cardinality(S)
  <2>1. IsFiniteSet(T) /\ Cardinality(T) = IF 0 \in S THEN Cardinality(S) - 1 ELSE Cardinality(S)
    BY <1>1, FS_RemoveElement
  <2>2. Cardinality(S) \in Nat
    BY <1>1, FS_CardinalityType
  <2> QED
    BY <2>1, <2>2
<1>3. f \in [S -> T]
  OBVIOUS
<1>4. \A x, y \in S : x # y => f[x] # f[y]
  OBVIOUS
<1> HIDE DEF T, f
<1>5. \E x, y \in S : x # y /\ f[x] = f[y]
  BY <1>1, <1>2, <1>3, FS_PigeonHole
<1> QED
  BY <1>4, <1>5

\* f begins with base and goes on by rule, up to n.
Follows(f, base, rule, n) == f[0] = base /\ \A m \in 1..n : f[m] = rule[<<m, f[m - 1]>>]

\* There is such a function.
LEMMA Recursion ==
  ASSUME NEW N \in Nat, NEW S, NEW base \in S, NEW rule \in [(1..N) \X S -> S]
  PROVE  \E f \in [0..N -> S] : Follows(f, base, rule, N)
<1> DEFINE T == {n \in 0..N : \E f \in [0..N -> S] : Follows(f, base, rule, n)}
<1>1. 0 \in T
  <2> DEFINE f == [n \in 0..N |-> base]
  <2>1. f \in [0..N -> S] /\ f[0] = base
    OBVIOUS
  <2> HIDE DEF f
  <2>2. Follows(f, base, rule, 0)
    BY <2>1 DEF Follows
  <2> QED
    BY <2>1, <2>2
<1>2. ASSUME NEW n \in T, n < N
      PROVE  n + 1 \in T
  <2>1. PICK f \in [0..N -> S] : Follows(f, base, rule, n)
    BY <1>2
  <2>2. n \in 0..N /\ n + 1 \in 1..N
    BY <1>2
  <2> DEFINE x == rule[<<n + 1, f[n]>>]
             g == [f EXCEPT ![n + 1] = x]
  <2>3. x \in S
    <3>1. <<n + 1, f[n]>> \in (1..N) \X S
      BY <2>2
    <3> QED
      BY <3>1
  <2> HIDE DEF x
  <2>4. g \in [0..N -> S]
    BY <2>2, <2>3
  <2>5. \A m \in 1..n : g[m] = f[m] /\ g[m - 1] = f[m - 1]
    BY <2>2
  <2>6. g[n + 1] = x /\ g[n] = f[n] /\ g[0] = f[0]
    BY <2>2
  <2> HIDE DEF g
  <2>7. Follows(g, base, rule, n + 1)
    <3>1. ASSUME NEW m \in 1..(n + 1) PROVE g[m] = rule[<<m, g[m - 1]>>]
      <4>1. CASE m = n + 1
        <5>1. m - 1 = n
          BY <4>1, <2>2
        <5>2. g[n + 1] = rule[<<n + 1, g[n]>>]
          BY <2>6 DEF x
        <5> QED
          BY <4>1, <5>1, <5>2
      <4>2. CASE m \in 1..n
        BY <4>2, <2>5, <2>1 DEF Follows
      <4> QED
        BY <4>1, <4>2, <2>2
    <3> QED
      BY <3>1, <2>6, <2>1 DEF Follows
  <2> QED
    BY <2>2, <2>4, <2>7
<1> HIDE DEF T
<1>3. T \in SUBSET (0..N)
  BY DEF T
<1>4. N \in T
  BY <1>1, <1>2, <1>3, Climb
<1> QED
  BY <1>4 DEF T

-----------------------------------------------------------------------------
(* Sums. SumFunctionOnSet adds the numbers of a finite set up in an order  *)
(* of its own; the order does not matter.                                  *)

Chosen(s) == CHOOSE x \in s : TRUE

\* it holds the sum of g over each subset of S.
Sums(it, g, S) == it = [s \in SUBSET S |-> IF s = {} THEN 0 ELSE g[Chosen(s)] + it[s \ {Chosen(s)}]]

LEMMA SumIs ==
  ASSUME NEW g, NEW S
  PROVE  SumFunctionOnSet(g, S) = (CHOOSE it : Sums(it, g, S))[S]
BY DEF SumFunctionOnSet, FoldFunctionOnSet, MapThenFoldSet, Sums, Chosen

\* One element less.
LEMMA Without ==
  ASSUME NEW s, IsFiniteSet(s), NEW x \in s
  PROVE  /\ IsFiniteSet(s \ {x}) /\ Cardinality(s) \in Nat /\ Cardinality(s \ {x}) = Cardinality(s) - 1
         /\ Cardinality(s) > 0 /\ Cardinality(s \ {x}) \in Nat /\ x \notin s \ {x} /\ s = (s \ {x}) \cup {x}
<1>1. IsFiniteSet(s \ {x}) /\ Cardinality(s \ {x}) = Cardinality(s) - 1
  BY FS_RemoveElement
<1>2. Cardinality(s) \in Nat /\ Cardinality(s \ {x}) \in Nat
  BY <1>1, FS_CardinalityType
<1> QED
  BY <1>1, <1>2

\* A set of subsets of S that holds the empty one, and each with one element more,
\* holds S.
LEMMA FillUp ==
  ASSUME NEW S, IsFiniteSet(S), NEW W \in SUBSET SUBSET S, {} \in W,
         \A s \in W : \A x \in S \ s : s \cup {x} \in W
  PROVE  S \in W
<1> DEFINE N == Cardinality(S)
           T == {n \in 0..N : \A s \in SUBSET S : Cardinality(s) = n => s \in W}
<1>1. N \in Nat
  BY FS_CardinalityType
<1>2. \A s \in SUBSET S : IsFiniteSet(s)
  BY FS_Subset
<1>3. 0 \in T
  <2>1. \A s \in SUBSET S : Cardinality(s) = 0 => s = {}
    BY <1>2, FS_EmptySet
  <2>2. 0 \in 0..N
    BY <1>1
  <2>3. \A s \in SUBSET S : Cardinality(s) = 0 => s \in W
    BY <2>1
  <2> HIDE DEF N
  <2> QED
    BY <2>2, <2>3
<1>4. ASSUME NEW n \in T, n < N PROVE n + 1 \in T
  <2>1. ASSUME NEW s \in SUBSET S, Cardinality(s) = n + 1 PROVE s \in W
    <3>0. n + 1 # 0 /\ Cardinality({}) = 0
      BY <1>1, <1>4, FS_EmptySet
    <3>1. s # {}
      BY <2>1, <3>0
    <3>2. PICK x \in s : TRUE
      BY <3>1
    <3>3. Cardinality(s \ {x}) = n
      BY <1>2, <2>1, <3>2, Without
    <3>4. s \ {x} \in W
      BY <3>3, <1>4
    <3>5. (s \ {x}) \cup {x} = s /\ x \in S \ (s \ {x})
      BY <3>2
    <3>6. (s \ {x}) \cup {x} \in W
      BY <3>4, <3>5
    <3> QED
      BY <3>5, <3>6
  <2>2. n + 1 \in 0..N
    BY <1>1, <1>4
  <2> QED
    BY <2>1, <2>2
<1>5. T \in SUBSET (0..N)
  OBVIOUS
<1> HIDE DEF T, N
<1>6. N \in T
  BY <1>1, <1>3, <1>4, <1>5, Climb
<1> QED
  BY <1>6 DEF T, N

LEMMA SumExists ==
  ASSUME NEW S, IsFiniteSet(S), NEW g, \A x \in S : g[x] \in Nat
  PROVE  \E it \in [SUBSET S -> Nat] : Sums(it, g, S)
<1> DEFINE N == Cardinality(S)
           H == [SUBSET S -> Nat]
           Resum(h) == [s \in SUBSET S |-> IF s = {} THEN 0 ELSE g[Chosen(s)] + h[s \ {Chosen(s)}]]
           base == [s \in SUBSET S |-> 0]
           rule == [x \in (1..N) \X H |-> Resum(x[2])]
<1>1. N \in Nat
  BY FS_CardinalityType
<1>2. \A s \in SUBSET S : IsFiniteSet(s)
  BY FS_Subset
<1>3. \A s \in SUBSET S : s # {} => Chosen(s) \in s /\ s \ {Chosen(s)} \in SUBSET S
  BY DEF Chosen
<1>4. ASSUME NEW h \in H PROVE Resum(h) \in H
  BY <1>3
<1>5. base \in H /\ rule \in [(1..N) \X H -> H]
  <2>1. \A x \in (1..N) \X H : x[2] \in H
    OBVIOUS
  <2> HIDE DEF H, Resum
  <2>2. rule \in [(1..N) \X H -> H]
    BY <2>1, <1>4
  <2>3. base \in H
    BY DEF H
  <2> QED
    BY <2>2, <2>3
<1>6. \A n \in 1..N, h \in H : rule[<<n, h>>] = Resum(h)
  <2> HIDE DEF H, Resum
  <2> QED
    OBVIOUS
<1> HIDE DEF rule, base
<1>7. PICK f \in [0..N -> H] : Follows(f, base, rule, N)
  <2> HIDE DEF H, N
  <2> QED
    BY <1>1, <1>5, Recursion
<1>8. ASSUME NEW n \in 0..N, n < N PROVE f[n + 1] = Resum(f[n])
  <2>1. n + 1 \in 1..N /\ (n + 1) - 1 = n
    BY <1>1, <1>8
  <2> HIDE DEF H, Resum
  <2>2. f[n] \in H
    OBVIOUS
  <2> QED
    BY <2>1, <2>2, <1>6, <1>7 DEF Follows
<1> DEFINE T == {n \in 0..N : \A s \in SUBSET S : Cardinality(s) <= n => Resum(f[n])[s] = f[n][s]}
<1>9. 0 \in T
  <2>1. ASSUME NEW s \in SUBSET S, Cardinality(s) <= 0 PROVE s = {}
    BY <1>2, <2>1, FS_CardinalityType, FS_EmptySet
  <2>2. f[0][{}] = 0 /\ Resum(f[0])[{}] = 0
    BY <1>7 DEF Follows, base
  <2> HIDE DEF H, Resum
  <2>3. \A s \in SUBSET S : Cardinality(s) <= 0 => Resum(f[0])[s] = f[0][s]
    BY <2>1, <2>2
  <2> QED
    BY <2>3, <1>1
<1>10. ASSUME NEW n \in T, n < N PROVE n + 1 \in T
  <2>1. n + 1 \in 0..N /\ n \in 0..N
    BY <1>1, <1>10
  <2>2. f[n + 1] = Resum(f[n])
    BY <2>1, <1>8, <1>10
  <2>3. ASSUME NEW s \in SUBSET S, Cardinality(s) <= n + 1 PROVE Resum(f[n + 1])[s] = f[n + 1][s]
    <3>1. CASE s = {}
      BY <2>2, <3>1
    <3>2. CASE s # {}
      <4> DEFINE r == s \ {Chosen(s)}
      <4>0. Cardinality(r) = Cardinality(s) - 1 /\ Cardinality(s) \in Nat
        BY <1>2, <1>3, <3>2, Without
      <4>1. r \in SUBSET S /\ Cardinality(r) <= n
        <5>1. r \in SUBSET S
          BY <1>3, <3>2
        <5> HIDE DEF r
        <5> QED
          BY <4>0, <5>1, <1>1, <2>1, <2>3
      <4>2. Resum(f[n])[r] = f[n][r]
        BY <4>1, <1>10
      <4>3. \A h : Resum(h)[s] = g[Chosen(s)] + h[r]
        BY <3>2
      <4> HIDE DEF Resum, r
      <4> QED
        BY <2>2, <4>2, <4>3
    <3> QED
      BY <3>1, <3>2
  <2> QED
    BY <2>1, <2>3
<1>11. T \in SUBSET (0..N)
  OBVIOUS
<1>12. N \in T
  <2> HIDE DEF T, N
  <2> QED
    BY <1>1, <1>9, <1>10, <1>11, Climb
<1>13. \A s \in SUBSET S : Cardinality(s) <= N
  BY FS_Subset, FS_CardinalityType
<1>14. Resum(f[N]) = f[N]
  <2>1. \A s \in SUBSET S : Resum(f[N])[s] = f[N][s]
    BY <1>12, <1>13
  <2>2. f[N] \in H /\ Resum(f[N]) \in H
    <3>1. f[N] \in H
      <4> HIDE DEF H
      <4> QED
        BY <1>1
    <3> HIDE DEF H, Resum
    <3> QED
      BY <3>1, <1>4
  <2> QED
    BY <2>1, <2>2
<1>15. f[N] \in H /\ Sums(f[N], g, S)
  <2>1. f[N] \in H
    <3> HIDE DEF H
    <3> QED
      BY <1>1
  <2> QED
    BY <2>1, <1>14 DEF Sums
<1> QED
  BY <1>15

\* Two ways to sum up the same numbers.
LEMMA SumsAgree ==
  ASSUME NEW S, NEW R, NEW W \in SUBSET (S \cap R), IsFiniteSet(W), NEW g, NEW h, \A x \in W : g[x] = h[x],
         NEW it, Sums(it, g, S), NEW jt, Sums(jt, h, R)
  PROVE  it[W] = jt[W]
<1> DEFINE N == Cardinality(W)
           T == {n \in 0..N : \A s \in SUBSET W : Cardinality(s) <= n => it[s] = jt[s]}
<1>1. N \in Nat
  BY FS_CardinalityType
<1>2. \A s \in SUBSET W : IsFiniteSet(s) /\ s \in SUBSET S /\ s \in SUBSET R
  BY FS_Subset
<1>3. \A s \in SUBSET W : s # {} => Chosen(s) \in s /\ s \ {Chosen(s)} \in SUBSET W
  BY DEF Chosen
<1>4. it[{}] = 0 /\ jt[{}] = 0
  <2>1. {} \in SUBSET S /\ {} \in SUBSET R
    OBVIOUS
  <2> QED
    BY <2>1 DEF Sums
<1>5. ASSUME NEW s \in SUBSET W, s # {}
      PROVE  it[s] = g[Chosen(s)] + it[s \ {Chosen(s)}] /\ jt[s] = h[Chosen(s)] + jt[s \ {Chosen(s)}]
  BY <1>2, <1>5 DEF Sums
<1>6. 0 \in T
  <2>1. ASSUME NEW s \in SUBSET W, Cardinality(s) <= 0 PROVE s = {}
    BY <1>2, <2>1, FS_CardinalityType, FS_EmptySet
  <2> QED
    BY <2>1, <1>1, <1>4
<1>7. ASSUME NEW n \in T, n < N PROVE n + 1 \in T
  <2>1. n + 1 \in 0..N
    BY <1>1, <1>7
  <2>2. ASSUME NEW s \in SUBSET W, Cardinality(s) <= n + 1 PROVE it[s] = jt[s]
    <3>1. CASE s = {}
      BY <1>4, <3>1
    <3>2. CASE s # {}
      <4>1. Chosen(s) \in s /\ s \ {Chosen(s)} \in SUBSET W
        BY <3>2, <1>3
      <4>2. Cardinality(s \ {Chosen(s)}) <= n
        BY <4>1, <1>2, <2>1, <2>2, Without
      <4>3. it[s \ {Chosen(s)}] = jt[s \ {Chosen(s)}]
        BY <4>1, <4>2, <1>7
      <4> QED
        BY <4>1, <4>3, <1>5, <3>2
    <3> QED
      BY <3>1, <3>2
  <2> QED
    BY <2>1, <2>2
<1>8. T \in SUBSET (0..N)
  OBVIOUS
<1>9. N \in T
  <2> HIDE DEF T, N
  <2> QED
    BY <1>1, <1>6, <1>7, <1>8, Climb
<1> QED
  BY <1>1, <1>9

\* Any element may be taken out first.
Takes(it, g, S) == \A s \in SUBSET S : \A x \in s : it[s] = g[x] + it[s \ {x}]

LEMMA SumsTake ==
  ASSUME NEW S, NEW g, NEW it, Sums(it, g, S), IsFiniteSet(S), \A x \in S : g[x] \in Nat, it \in [SUBSET S -> Nat]
  PROVE  Takes(it, g, S)
<1> DEFINE N == Cardinality(S)
           T == {n \in 0..N : \A s \in SUBSET S : Cardinality(s) <= n => \A x \in s : it[s] = g[x] + it[s \ {x}]}
<1>1. N \in Nat
  BY FS_CardinalityType
<1>2. \A s \in SUBSET S : IsFiniteSet(s)
  BY FS_Subset
<1>3. \A s \in SUBSET S : s # {} => Chosen(s) \in s
  BY DEF Chosen
<1>4. it[{}] = 0
  BY DEF Sums
<1>5. ASSUME NEW s \in SUBSET S, s # {}
      PROVE  it[s] = g[Chosen(s)] + it[s \ {Chosen(s)}]
  BY <1>5 DEF Sums
<1>6. 0 \in T
  <2>1. ASSUME NEW s \in SUBSET S, Cardinality(s) <= 0 PROVE s = {}
    BY <1>2, <2>1, FS_CardinalityType, FS_EmptySet
  <2> QED
    BY <2>1, <1>1
<1>7. ASSUME NEW n \in T, n < N PROVE n + 1 \in T
  <2>1. n + 1 \in 0..N
    BY <1>1, <1>7
  <2>2. ASSUME NEW s \in SUBSET S, Cardinality(s) <= n + 1, NEW x \in s PROVE it[s] = g[x] + it[s \ {x}]
    <3> DEFINE c == Chosen(s)
    <3>1. c \in s /\ it[s] = g[c] + it[s \ {c}]
      BY <1>3, <1>5
    <3>2. CASE x = c
      BY <3>1, <3>2
    <3>3. CASE x # c
      <4> DEFINE r == s \ {x, c}
      <4> HIDE DEF c
      <4>1. /\ s \ {x} \in SUBSET S /\ s \ {c} \in SUBSET S /\ r \in SUBSET S /\ c \in s \ {x} /\ x \in s \ {c}
            /\ (s \ {x}) \ {c} = r /\ (s \ {c}) \ {x} = r
        BY <3>1, <3>3
      <4>2. Cardinality(s \ {x}) <= n /\ Cardinality(s \ {c}) <= n
        <5>1. /\ Cardinality(s \ {x}) = Cardinality(s) - 1 /\ Cardinality(s \ {c}) = Cardinality(s) - 1
              /\ Cardinality(s) \in Nat
          BY <3>1, <1>2, <2>2, Without
        <5> QED
          BY <5>1, <1>1, <2>1, <2>2
      <4>3. it[s \ {x}] = g[c] + it[(s \ {x}) \ {c}] /\ it[s \ {c}] = g[x] + it[(s \ {c}) \ {x}]
        BY <4>1, <4>2, <1>7
      <4>4. it[s \ {x}] = g[c] + it[r] /\ it[s \ {c}] = g[x] + it[r]
        BY <4>1, <4>3
      <4>5. it[r] \in Nat /\ g[c] \in Nat /\ g[x] \in Nat
        BY <4>1, <3>1
      <4> QED
        BY <3>1, <4>4, <4>5
    <3> QED
      BY <3>2, <3>3
  <2> QED
    BY <2>1, <2>2
<1>8. T \in SUBSET (0..N)
  OBVIOUS
<1>9. N \in T
  <2> HIDE DEF T, N
  <2> QED
    BY <1>1, <1>6, <1>7, <1>8, Climb
<1>10. \A s \in SUBSET S : Cardinality(s) <= N
  BY FS_Subset, FS_CardinalityType
<1> QED
  BY <1>1, <1>9, <1>10 DEF Takes

LEMMA SumFacts ==
  ASSUME NEW S, IsFiniteSet(S), NEW g, \A x \in S : g[x] \in Nat
  PROVE  \E it \in [SUBSET S -> Nat] : Sums(it, g, S) /\ SumFunctionOnSet(g, S) = it[S]
<1> DEFINE it == CHOOSE it : Sums(it, g, S)
<1>1. PICK jt \in [SUBSET S -> Nat] : Sums(jt, g, S)
  BY SumExists
<1>2. Sums(it, g, S)
  BY <1>1
<1>3. SumFunctionOnSet(g, S) = it[S]
  BY SumIs
<1> HIDE DEF it
<1>4. \A s \in SUBSET S : it[s] = jt[s]
  BY <1>1, <1>2, FS_Subset, SumsAgree
<1>5. S \in SUBSET S
  OBVIOUS
<1> QED
  BY <1>1, <1>3, <1>4, <1>5

\* What is needed of sums.
LEMMA SumEmpty == ASSUME NEW g PROVE SumFunctionOnSet(g, {}) = 0
<1>1. IsFiniteSet({})
  BY FS_EmptySet
<1>2. PICK it \in [SUBSET {} -> Nat] : Sums(it, g, {}) /\ SumFunctionOnSet(g, {}) = it[{}]
  BY <1>1, SumFacts
<1>3. {} \in SUBSET {}
  OBVIOUS
<1>4. it[{}] = 0
  BY <1>2, <1>3 DEF Sums
<1> QED
  BY <1>2, <1>4

LEMMA SumAgree ==
  ASSUME NEW S, IsFiniteSet(S), NEW g, NEW h, \A x \in S : g[x] \in Nat /\ g[x] = h[x]
  PROVE  SumFunctionOnSet(g, S) = SumFunctionOnSet(h, S) /\ SumFunctionOnSet(g, S) \in Nat
<1>1. PICK it \in [SUBSET S -> Nat] : Sums(it, g, S) /\ SumFunctionOnSet(g, S) = it[S]
  BY SumFacts
<1>2. \A x \in S : h[x] \in Nat
  OBVIOUS
<1>3. PICK jt \in [SUBSET S -> Nat] : Sums(jt, h, S) /\ SumFunctionOnSet(h, S) = jt[S]
  BY <1>2, SumFacts
<1>4. S \in SUBSET (S \cap S)
  OBVIOUS
<1>5. it[S] = jt[S]
  BY <1>1, <1>3, <1>4, SumsAgree
<1>6. S \in SUBSET S
  OBVIOUS
<1> QED
  BY <1>1, <1>3, <1>5, <1>6

LEMMA SumTake ==
  ASSUME NEW S, IsFiniteSet(S), NEW g, \A y \in S : g[y] \in Nat, NEW x \in S
  PROVE  /\ SumFunctionOnSet(g, S) = g[x] + SumFunctionOnSet(g, S \ {x})
         /\ SumFunctionOnSet(g, S) \in Nat /\ SumFunctionOnSet(g, S \ {x}) \in Nat
<1>1. PICK it \in [SUBSET S -> Nat] : Sums(it, g, S) /\ SumFunctionOnSet(g, S) = it[S]
  BY SumFacts
<1>2. \A s \in SUBSET S : \A y \in s : it[s] = g[y] + it[s \ {y}]
  <2>1. Sums(it, g, S) /\ it \in [SUBSET S -> Nat]
    BY <1>1
  <2>2. Takes(it, g, S)
    BY <2>1, SumsTake
  <2> QED
    BY <2>2 DEF Takes
<1>3. S \in SUBSET S /\ S \ {x} \in SUBSET S /\ S \ {x} \in SUBSET (S \cap (S \ {x}))
      /\ S \ {x} \in SUBSET (S \ {x})
  OBVIOUS
<1>4. IsFiniteSet(S \ {x})
  BY <1>3, FS_Subset
<1>5. PICK jt \in [SUBSET (S \ {x}) -> Nat] : Sums(jt, g, S \ {x}) /\ SumFunctionOnSet(g, S \ {x}) = jt[S \ {x}]
  <2>1. \A y \in S \ {x} : g[y] \in Nat
    OBVIOUS
  <2> QED
    BY <1>4, <2>1, SumFacts
<1>6. it[S \ {x}] = jt[S \ {x}]
  BY <1>1, <1>3, <1>4, <1>5, SumsAgree
<1>7. it[S] = g[x] + it[S \ {x}]
  BY <1>2, <1>3
<1>8. it[S] \in Nat /\ jt[S \ {x}] \in Nat
  BY <1>3
<1> QED
  BY <1>1, <1>5, <1>6, <1>7, <1>8

LEMMA SumAdd ==
  ASSUME NEW A, IsFiniteSet(A), NEW x, x \notin A, NEW g, \A y \in A \cup {x} : g[y] \in Nat
  PROVE  /\ SumFunctionOnSet(g, A \cup {x}) = SumFunctionOnSet(g, A) + g[x]
         /\ SumFunctionOnSet(g, A) \in Nat /\ SumFunctionOnSet(g, A \cup {x}) \in Nat
<1>1. IsFiniteSet(A \cup {x}) /\ x \in A \cup {x} /\ (A \cup {x}) \ {x} = A
  BY FS_AddElement
<1>2. /\ SumFunctionOnSet(g, A \cup {x}) = g[x] + SumFunctionOnSet(g, (A \cup {x}) \ {x})
      /\ SumFunctionOnSet(g, A \cup {x}) \in Nat /\ SumFunctionOnSet(g, (A \cup {x}) \ {x}) \in Nat
  BY <1>1, SumTake
<1>3. g[x] \in Nat
  OBVIOUS
<1> QED
  BY <1>1, <1>2, <1>3

LEMMA SumUnion ==
  ASSUME NEW A, IsFiniteSet(A), NEW B, IsFiniteSet(B), A \cap B = {}, NEW g, \A y \in A \cup B : g[y] \in Nat
  PROVE  /\ SumFunctionOnSet(g, A \cup B) = SumFunctionOnSet(g, A) + SumFunctionOnSet(g, B)
         /\ SumFunctionOnSet(g, A) \in Nat /\ SumFunctionOnSet(g, B) \in Nat
<1> DEFINE U(s) == SumFunctionOnSet(g, A \cup s) = SumFunctionOnSet(g, A) + SumFunctionOnSet(g, s)
           W == {s \in SUBSET B : U(s)}
<1>1. SumFunctionOnSet(g, A) \in Nat /\ SumFunctionOnSet(g, B) \in Nat
  BY SumAgree
<1>2. {} \in W
  <2>1. A \cup {} = A /\ SumFunctionOnSet(g, {}) = 0
    BY SumEmpty
  <2>2. U({})
    BY <2>1, <1>1
  <2> QED
    BY <2>2
<1>3. ASSUME NEW s \in W, NEW x \in B \ s PROVE s \cup {x} \in W
  <2>1. IsFiniteSet(s) /\ IsFiniteSet(A \cup s)
    BY FS_Subset, FS_Union
  <2>2. /\ SumFunctionOnSet(g, s \cup {x}) = SumFunctionOnSet(g, s) + g[x] /\ SumFunctionOnSet(g, s) \in Nat
    BY <2>1, SumAdd
  <2>3. SumFunctionOnSet(g, (A \cup s) \cup {x}) = SumFunctionOnSet(g, A \cup s) + g[x]
    BY <2>1, SumAdd
  <2>4. (A \cup s) \cup {x} = A \cup (s \cup {x}) /\ g[x] \in Nat
    OBVIOUS
  <2>5. U(s)
    OBVIOUS
  <2>6. U(s \cup {x})
    <3> DEFINE a == SumFunctionOnSet(g, A)
               b == SumFunctionOnSet(g, s)
               c == SumFunctionOnSet(g, A \cup s)
    <3>1. c = a + b /\ a \in Nat /\ b \in Nat
      BY <2>2, <2>5, <1>1
    <3>2. SumFunctionOnSet(g, A \cup (s \cup {x})) = c + g[x]
      BY <2>3, <2>4, Zenon
    <3>3. SumFunctionOnSet(g, s \cup {x}) = b + g[x]
      BY <2>2
    <3> HIDE DEF a, b, c
    <3>4. c + g[x] = a + (b + g[x])
      BY <3>1, <2>4
    <3>5. SumFunctionOnSet(g, A \cup (s \cup {x})) = a + SumFunctionOnSet(g, s \cup {x})
      BY <3>2, <3>3, <3>4, Zenon
    <3> QED
      BY <3>5 DEF a
  <2> QED
    BY <2>6
<1>4. W \in SUBSET SUBSET B
  OBVIOUS
<1>5. B \in W
  <2> HIDE DEF W
  <2> QED
    BY <1>2, <1>3, <1>4, FillUp
<1> QED
  BY <1>1, <1>5

-----------------------------------------------------------------------------
(* What a report tells (Reports).                                          *)

Saying == {"refused", "unread", "error", "none", "unclear", "shown", "right", "over", "wrong", "open"}

\* A record in which a call tells nothing of a section, a balance or a price.
Bare(what, w) ==
  /\ what.word = w /\ what.tally \in [Section -> -2..MaxRows] /\ what.gifts = "unsaid"

LEMMA WordIs ==
  ASSUME NEW w
  PROVE  Bare(Word(w), w) /\ Word(w).rows = 0 /\ Word(w).total = Unsaid
<1>1. -1 \in -2..MaxRows
  BY ReportsAssumption
<1> QED
  BY <1>1 DEF Word, Silent, Bare, Unsaid

\* Reports of one thing, and of pages.
Single == {"order", "payment", "cod", "profile", "qr"}
Paged == {"orders", "video", "wallet", "section", "warehouse", "day"}

\* What a port may make of an answer a about n rows.
Sound(a, n, g) ==
  /\ g \in Got /\ n \in 0..MaxRows
  /\ report \in Single => g.kind \in {"null", "value", "raise", "throw"}
  /\ report \in Paged => g.kind \in {"value", "raise", "throw", "date"}
  /\ g.kind = "null" => n = 0 \/ a \in ToldAsNone
  /\ g.kind = "value" /\ report \in Paged =>
       /\ g.rows <= n
       /\ g.rows = 0 => n = 0 \/ g.total > 0 \/ a \in ToldAsNone
       /\ report # "day" => g.total \in {n, Unsaid} \/ a = "unsummed"
  /\ report = "orders" /\ g.kind = "value" /\ g.rows = 0 => n = 0 \/ a \in ToldAsNone
  /\ report = "day" /\ g.kind = "value" =>
       /\ a \in {"full", "nameless", "unsummed"} /\ g.total \in {n, Unsaid}
       /\ g.total >= 0 => a \in {"full", "nameless"}

LEMMA ShownIs ==
  ASSUME NEW n \in 0..MaxRows
  PROVE  /\ Shown(n) \in 0..MaxRows /\ Shown(n) <= n /\ (Shown(n) = 0 => n = 0)
         /\ \A k \in Nameable(n) : k \in 0..MaxRows /\ k <= n
BY ReportsAssumption DEF Shown, Nameable

LEMMA GotIs ==
  /\ \A rows \in 0..MaxRows, total \in -1..MaxRows :
       Value(rows, total) \in Got /\ Value(rows, total).kind = "value" /\ Value(rows, total).rows = rows
         /\ Value(rows, total).total = total
  /\ \A kind \in {"null", "raise", "date", "throw"} : Only(kind) \in Got /\ Only(kind).kind = kind
<1>1. 0 \in 0..MaxRows /\ -1 \in -1..MaxRows
  BY ReportsAssumption
<1> QED
  BY <1>1 DEF Value, Only, Got, Unsaid

LEMMA ReadsAreSound ==
  ASSUME report \in Report, report # "price", NEW n \in 0..MaxRows, NEW a \in Answers(n), NEW g \in Reads(a, n)
  PROVE  Sound(a, n, g)
<1>1. /\ n \in -1..MaxRows /\ -1 \in -1..MaxRows /\ 0 \in 0..MaxRows /\ (n > 0 => 1 \in 0..MaxRows)
  BY ReportsAssumption
<1>2. /\ Shown(n) \in 0..MaxRows /\ Shown(n) <= n /\ (Shown(n) = 0 => n = 0) /\ Shown(n) \in -1..MaxRows
      /\ \A k \in Nameable(n) : k \in 0..MaxRows /\ k <= n
  BY ShownIs
<1>b. ASSUME g \in Broken(a) PROVE g \in Got /\ g.kind \in {"raise", "throw"}
  BY <1>b, GotIs DEF Broken
<1>a. /\ a \in {"odd", "fail", "cut", "baddate", "nameless", "absent", "full", "unsummed"}
      /\ a = "baddate" => report \in {"day", "section", "warehouse"}
      /\ a = "nameless" => n > 0
      /\ a = "absent" => n = 0 /\ report \in Keyed
      /\ a \in {"full", "unsummed"} => n > 0 \/ report \notin Keyed
  BY DEF Answers
<1>3. CASE report = "order"
  BY <1>3, <1>1, <1>a, <1>b, GotIs DEF Reads, OrderDetail, Sound, Keyed, Single, Paged, Unsaid
<1>4. CASE report = "orders"
  BY <1>4, <1>1, <1>2, <1>a, <1>b, GotIs DEF Reads, SearchOrders, Sound, Keyed, Single, Paged, Unsaid, ToldAsNone
<1>5. CASE report = "payment"
  BY <1>5, <1>1, <1>a, <1>b, GotIs DEF Reads, OrderPayment, Sound, Keyed, Single, Paged, Unsaid
<1>6. CASE report = "video"
  <2>1. \A k \in 0..(n - 1) : k \in 0..MaxRows /\ k <= n
    BY ReportsAssumption
  <2> QED
    BY <1>6, <2>1, <1>1, <1>a, <1>b, GotIs DEF Reads, CameraLinks, Sound, Keyed, Single, Paged, Unsaid, ToldAsNone
<1>7. CASE report = "cod"
  BY <1>7, <1>1, <1>a, <1>b, GotIs DEF Reads, CodCheck, Sound, Keyed, Single, Paged, Unsaid
<1>8. CASE report = "profile"
  BY <1>8, <1>1, <1>a, <1>b, GotIs DEF Reads, Profile, Sound, Keyed, Single, Paged, Unsaid, ToldAsNone
<1>9. CASE report = "qr"
  BY <1>9, <1>1, <1>a, <1>b, GotIs DEF Reads, DepositQr, Sound, Keyed, Single, Paged, Unsaid, ToldAsNone
<1>10. CASE report = "wallet"
  BY <1>10, <1>1, <1>2, <1>a, <1>b, GotIs DEF Reads, WalletLedger, Sound, Keyed, Single, Paged, Unsaid, ToldAsNone
<1>11. CASE report \in {"day", "section", "warehouse"}
  <2>1. g \in DailyPage(a, n)
    BY <1>11 DEF Reads, WarehousePage
  <2> QED
    BY <2>1, <1>11, <1>1, <1>2, <1>a, <1>b, GotIs DEF DailyPage, Sound, Keyed, Single, Paged, Unsaid, ToldAsNone
<1> QED
  BY <1>3, <1>4, <1>5, <1>6, <1>7, <1>8, <1>9, <1>10, <1>11 DEF Report

\* A word about one source that is true of its answer.
Fair(what, a, W) ==
  /\ what.word \in Saying /\ what.rows \in 0..MaxRows /\ what.total \in -1..MaxRows
  /\ what.tally \in [Section -> -2..MaxRows] /\ what.gifts \in {"unsaid", "none", "some"}
  /\ what.word = "none" => 0 \in W \/ what.total > 0 \/ a \in ToldAsNone
  /\ what.word = "shown" =>
       /\ \E n \in W : what.rows <= n
       /\ what.total \in W \cup {Unsaid} \/ a = "unsummed"
  /\ what.gifts = "none" => what.word \in {"right", "over"}

LEMMA FailureIsFair ==
  ASSUME NEW g \in Got, g.kind \in {"raise", "throw", "date"}, NEW a, NEW W
  PROVE  Fair(TellFailure(g), a, W)
<1>1. 0 \in 0..MaxRows /\ -1 \in -1..MaxRows
  BY ReportsAssumption
<1>2. \A w \in {"unread", "error", "refused"} : Fair(Word(w), a, W)
  BY <1>1, WordIs DEF Fair, Bare, Saying, Unsaid
<1> QED
  BY <1>2 DEF TellFailure

LEMMA OneIsFair ==
  ASSUME NEW W, NEW n \in W, NEW a, NEW g, Sound(a, n, g), report \in Single
  PROVE  Fair(TellOne(g), a, W)
<1>1. 0 \in 0..MaxRows /\ -1 \in -1..MaxRows /\ 0 <= n
  BY ReportsAssumption DEF Sound
<1>2. CASE g.kind = "null"
  <2>1. n = 0 \/ a \in ToldAsNone
    BY <1>2 DEF Sound
  <2>2. Fair(Word("none"), a, W)
    BY <1>1, <2>1, WordIs DEF Fair, Bare, Saying, Unsaid
  <2> QED
    BY <1>2, <2>2 DEF TellOne
<1>3. CASE g.kind = "value"
  <2>1. Fair(Word("shown"), a, W)
    BY <1>1, WordIs DEF Fair, Bare, Saying, Unsaid
  <2> QED
    BY <1>3, <2>1 DEF TellOne
<1>4. CASE g.kind \notin {"null", "value"}
  <2>1. g \in Got /\ g.kind \in {"raise", "throw", "date"}
    BY <1>4 DEF Sound
  <2> QED
    BY <1>4, <2>1, FailureIsFair DEF TellOne
<1> QED
  BY <1>2, <1>3, <1>4

LEMMA PageIsFair ==
  ASSUME NEW W, NEW n \in W, NEW a, NEW g, Sound(a, n, g), report \in Paged, report # "day"
  PROVE  Fair(TellPage(g), a, W)
<1>1. /\ g \in Got /\ n \in 0..MaxRows
  BY DEF Sound
<1>2. CASE g.kind = "value" /\ g.rows = 0
  <2> DEFINE what == [Word("none") EXCEPT !.total = g.total]
  <2>1. what.word = "none" /\ what.rows = 0 /\ what.total = g.total /\ what.gifts = "unsaid"
        /\ what.tally \in [Section -> -2..MaxRows]
    BY WordIs, ReportsAssumption DEF Word, Silent, Bare, Unsaid
  <2>2. n = 0 \/ g.total > 0 \/ a \in ToldAsNone
    BY <1>2 DEF Sound
  <2>3. g.total \in -1..MaxRows /\ 0 \in 0..MaxRows
    BY <1>1, ReportsAssumption DEF Got
  <2>4. TellPage(g) = what
    BY <1>2 DEF TellPage
  <2> HIDE DEF what
  <2>5. Fair(what, a, W)
    BY <2>1, <2>2, <2>3 DEF Fair, Saying
  <2> QED
    BY <2>4, <2>5
<1>3. CASE g.kind = "value" /\ g.rows # 0
  <2> DEFINE what == [Word("shown") EXCEPT !.rows = g.rows, !.total = g.total]
  <2>1. Bare(what, "shown") /\ what.rows = g.rows /\ what.total = g.total
    BY ReportsAssumption DEF Word, Silent, Bare, Unsaid
  <2>2. g.rows <= n /\ (g.total \in {n, Unsaid} \/ a = "unsummed")
    BY <1>3 DEF Sound
  <2>3. g.total \in -1..MaxRows /\ g.rows \in 0..MaxRows /\ g.rows > 0
    BY <1>1, <1>3 DEF Got
  <2>4. TellPage(g) = what
    BY <1>3, <2>3 DEF TellPage
  <2> HIDE DEF what
  <2>5. Fair(what, a, W)
    BY <2>1, <2>2, <2>3 DEF Fair, Saying, Bare
  <2> QED
    BY <2>4, <2>5
<1>4. CASE g.kind # "value"
  <2>1. g.kind \in {"raise", "throw", "date"}
    BY <1>4 DEF Sound
  <2> QED
    BY <1>1, <1>4, <2>1, FailureIsFair DEF TellPage
<1> QED
  BY <1>2, <1>3, <1>4

LEMMA CodIsFair ==
  ASSUME NEW W, NEW n \in W, NEW a, NEW g, Sound(a, n, g), report = "cod", NEW what \in TellCod(g)
  PROVE  Fair(what, a, W)
<1>1. CASE g.kind = "value"
  <2>1. PICK v \in Verdict \cup {"other"}, gifts \in {"some", "none", "unread"} :
          what = [Word(CodWord(v)) EXCEPT !.gifts = GiftsOf(v, gifts)]
    BY <1>1 DEF TellCod
  <2>2. /\ what.word = CodWord(v) /\ what.rows = 0 /\ what.total = Unsaid
        /\ what.tally \in [Section -> -2..MaxRows] /\ what.gifts = GiftsOf(v, gifts)
    BY <2>1, ReportsAssumption DEF Word, Silent, Unsaid
  <2>3. /\ CodWord(v) \in {"right", "over", "wrong", "open"}
        /\ v \in {"OPTIMAL", "VALID_COMBO"} => CodWord(v) \in {"right", "over"}
    BY DEF CodWord, Verdict
  <2>4. GiftsOf(v, gifts) \in {"unsaid", "none", "some"} /\ (GiftsOf(v, gifts) = "none" => v \in {"OPTIMAL", "VALID_COMBO"})
    BY DEF GiftsOf
  <2>5. 0 \in 0..MaxRows /\ -1 \in -1..MaxRows
    BY ReportsAssumption
  <2> HIDE <2>1
  <2> QED
    BY <2>2, <2>3, <2>4, <2>5 DEF Fair, Saying, Unsaid
<1>2. CASE g.kind # "value"
  <2>1. what = TellOne(g)
    BY <1>2 DEF TellCod
  <2> QED
    BY <2>1, OneIsFair DEF Single
<1> QED
  BY <1>1, <1>2

LEMMA OrdersAreFair ==
  ASSUME NEW W, NEW n \in W, NEW a, NEW g, Sound(a, n, g), report = "orders", NEW what \in TellOrders(g)
  PROVE  Fair(what, a, W)
<1>1. CASE g.kind = "value" /\ g.rows = 0
  <2>1. what = Word("none")
    BY <1>1 DEF TellOrders
  <2>2. n = 0 \/ a \in ToldAsNone
    BY <1>1 DEF Sound
  <2>3. 0 \in 0..MaxRows /\ -1 \in -1..MaxRows
    BY ReportsAssumption
  <2>4. Bare(Word("none"), "none") /\ Word("none").rows = 0 /\ Word("none").total = Unsaid
    BY WordIs
  <2> QED
    BY <2>1, <2>2, <2>3, <2>4 DEF Fair, Bare, Saying, Unsaid
<1>2. CASE ~(g.kind = "value" /\ g.rows = 0)
  <2>1. what = TellPage(g)
    BY <1>2 DEF TellOrders
  <2> QED
    BY <2>1, PageIsFair DEF Paged
<1> QED
  BY <1>1, <1>2

\* The sections of a day, when none of them is fatal.
LEMMA DayIsFair ==
  ASSUME report = "day", NEW what \in (IF Fatal # {} THEN Fatal ELSE {DayReport}),
         \A s \in Section : \E n \in was[s] : Sound(answered[s], n, got[s])
  PROVE  /\ what.word \in Saying /\ what.word # "none" /\ what.rows \in 0..MaxRows /\ what.total \in -1..MaxRows
         /\ what.tally \in [Section -> -2..MaxRows] /\ what.gifts = "unsaid"
         /\ what.word = "shown" =>
              /\ \A s \in Section : what.tally[s] >= 0 => what.tally[s] \in was[s]
              /\ \E s \in Section : answered[s] \in {"full", "nameless", "unsummed"}
              /\ what.balanced => \A s \in {"charges", "refunds"} : answered[s] \in {"full", "nameless"}
<1>1. 0 \in 0..MaxRows /\ -1 \in -1..MaxRows /\ -2 \in -2..MaxRows /\ (\A n \in -1..MaxRows : n \in -2..MaxRows)
  BY ReportsAssumption
<1>2. \A s \in Section : got[s].kind \in {"value", "raise", "throw", "date"}
  BY DEF Sound, Paged
<1>3. CASE Fatal # {}
  <2>1. what \in {Word("error"), Word("refused"), Word("unread")}
    BY <1>3 DEF Fatal
  <2>2. \A w \in {"error", "refused", "unread"} : Bare(Word(w), w) /\ Word(w).rows = 0 /\ Word(w).total = Unsaid
    BY WordIs
  <2> QED
    BY <1>1, <2>1, <2>2 DEF Bare, Saying, Unsaid
<1>4. CASE Fatal = {}
  <2> DEFINE tally == [s \in Section |-> TallyOf(s)]
  <2>1. PICK c \in Section : got[c].kind = "value"
    <3> DEFINE kinds == {got[s].kind : s \in Section}
    <3>1. "throw" \notin kinds /\ "date" \notin kinds /\ kinds # {"raise"}
      BY <1>4 DEF Fatal
    <3>2. "charges" \in Section
      BY DEF Section
    <3> QED
      BY <1>2, <3>1, <3>2
  <2>2. \A s \in Section : TallyOf(s) \in -2..MaxRows
    BY <1>1 DEF TallyOf, Sound, Got, Failed
  <2>3. ASSUME NEW s \in Section, TallyOf(s) >= 0
        PROVE  TallyOf(s) \in was[s] /\ answered[s] \in {"full", "nameless"}
    <3>1. got[s].kind = "value" /\ got[s].total >= 0
      BY <2>3 DEF TallyOf, Failed
    <3>2. PICK n \in was[s] : Sound(answered[s], n, got[s])
      OBVIOUS
    <3>3. got[s].total \in {n, Unsaid} /\ answered[s] \in {"full", "nameless"}
      BY <3>1, <3>2 DEF Sound
    <3> QED
      BY <3>1, <3>3 DEF TallyOf, Unsaid
  <2>4. answered[c] \in {"full", "nameless", "unsummed"}
    BY <2>1 DEF Sound
  <2>5. what = DayReport
    BY <1>4
  <2>6. /\ what.word = "shown" /\ what.rows = 0 /\ what.total = Unsaid /\ what.gifts = "unsaid"
        /\ what.tally = tally /\ what.balanced = (tally["charges"] >= 0 /\ tally["refunds"] >= 0)
    BY <2>5 DEF DayReport, Word, Silent
  <2>7. what.balanced => \A s \in {"charges", "refunds"} : TallyOf(s) >= 0 /\ s \in Section
    BY <2>6 DEF Section
  <2> HIDE <2>5
  <2>8. tally \in [Section -> -2..MaxRows] /\ \A s \in Section : tally[s] = TallyOf(s)
    BY <2>2
  <2> HIDE DEF tally
  <2> QED
    BY <1>1, <2>3, <2>4, <2>6, <2>7, <2>8 DEF Saying, Unsaid
<1> QED
  BY <1>3, <1>4

\* The pieces of a cart whose products are all found, product by product and line by
\* line, are as many.
LEMMA CartIsWhole ==
  ASSUME NEW n \in Nat, cart \in [1..n -> Line], \A i \in 1..n : matched[i] \in Sku
  PROVE  /\ CartLines \in [Sku -> Nat]
         /\ SumFunctionOnSet(CartLines, Sku) = SumFunctionOnSet(Bought, 1..n)
         /\ \A i \in 1..n : CartLines[matched[i]] >= cart[i].pieces
<1> DEFINE Of(k) == {i \in 1..n : matched[i] = k}
           In(s) == {i \in 1..n : matched[i] \in s}
           W == {s \in SUBSET Sku : SumFunctionOnSet(CartLines, s) = SumFunctionOnSet(Bought, In(s))}
<1>1. DOMAIN cart = 1..n /\ Bought = [i \in 1..n |-> cart[i].pieces]
  BY DEF Bought
<1>2. \A i \in 1..n : Bought[i] \in Nat /\ Bought[i] = cart[i].pieces
  BY <1>1 DEF Line
<1>3. \A I \in SUBSET (1..n) : IsFiniteSet(I)
  BY FS_Interval, FS_Subset, 1 \in Int, n \in Int
<1>4. ASSUME NEW k \in Sku
      PROVE  CartLines[k] = SumFunctionOnSet(Bought, Of(k)) /\ SumFunctionOnSet(Bought, Of(k)) \in Nat
             /\ IsFiniteSet(Of(k))
  <2>1. CartLines[k] = SumFunctionOnSet(Bought, Of(k))
    BY <1>1 DEF CartLines, PiecesOf
  <2>2. IsFiniteSet(Of(k)) /\ \A i \in Of(k) : Bought[i] \in Nat
    BY <1>2, <1>3
  <2>3. SumFunctionOnSet(Bought, Of(k)) \in Nat
    <3> HIDE DEF Of
    <3> QED
      BY <2>2, SumAgree
  <2> QED
    BY <2>1, <2>2, <2>3
<1>5. CartLines \in [Sku -> Nat]
  <2>1. CartLines = [k \in Sku |-> CartLines[k]]
    BY DEF CartLines
  <2> QED
    BY <2>1, <1>4
<1>6. {} \in W
  <2>1. In({}) = {}
    OBVIOUS
  <2> QED
    BY <2>1, SumEmpty
<1>7. ASSUME NEW s \in W, NEW k \in Sku \ s PROVE s \cup {k} \in W
  <2>1. IsFiniteSet(s) /\ \A j \in s \cup {k} : CartLines[j] \in Nat
    BY <1>5, ReportsAssumption, FS_Subset
  <2>2. SumFunctionOnSet(CartLines, s \cup {k}) = SumFunctionOnSet(CartLines, s) + CartLines[k]
    BY <2>1, SumAdd
  <2>3. /\ IsFiniteSet(In(s)) /\ IsFiniteSet(Of(k)) /\ In(s) \cap Of(k) = {} /\ In(s) \cup Of(k) = In(s \cup {k})
        /\ \A i \in In(s) \cup Of(k) : Bought[i] \in Nat
    BY <1>2, <1>3
  <2>4. SumFunctionOnSet(CartLines, s) = SumFunctionOnSet(Bought, In(s))
    OBVIOUS
  <2>5. CartLines[k] = SumFunctionOnSet(Bought, Of(k))
    BY <1>4
  <2> HIDE DEF In, Of
  <2>6. SumFunctionOnSet(Bought, In(s) \cup Of(k)) = SumFunctionOnSet(Bought, In(s)) + SumFunctionOnSet(Bought, Of(k))
    BY <2>3, SumUnion
  <2>7. SumFunctionOnSet(CartLines, s \cup {k}) = SumFunctionOnSet(Bought, In(s \cup {k}))
    BY <2>2, <2>3, <2>4, <2>5, <2>6
  <2> QED
    BY <2>7
<1>8. W \in SUBSET SUBSET Sku
  OBVIOUS
<1>9. Sku \in W
  <2> HIDE DEF W
  <2> QED
    BY <1>6, <1>7, <1>8, ReportsAssumption, FillUp
<1>10. In(Sku) = 1..n
  OBVIOUS
<1>11. ASSUME NEW i \in 1..n PROVE CartLines[matched[i]] >= cart[i].pieces
  <2> DEFINE O == Of(matched[i])
  <2>1. matched[i] \in Sku /\ i \in O /\ IsFiniteSet(O) /\ CartLines[matched[i]] = SumFunctionOnSet(Bought, O)
    BY <1>4
  <2>2. \A j \in O : Bought[j] \in Nat
    BY <1>2
  <2> HIDE DEF O
  <2>3. SumFunctionOnSet(Bought, O) = Bought[i] + SumFunctionOnSet(Bought, O \ {i})
        /\ SumFunctionOnSet(Bought, O \ {i}) \in Nat
    BY <2>1, <2>2, SumTake
  <2> QED
    BY <2>1, <2>3, <1>2
<1> QED
  BY <1>5, <1>9, <1>10, <1>11

\* What has been read fits what was asked.
Heard ==
  stage = "reading" /\ report # "price" =>
    \A s \in (IF report = "day" THEN Section ELSE {"it"}) :
      s \in due \/ \E n \in was[s] : Sound(answered[s], n, got[s])

\* A line that needs no search has its product from the start.
Priced ==
  stage = "reading" /\ report = "price" =>
    \A i \in DOMAIN cart : cart[i].by = "code" /\ cart[i].means \in Listed =>
      i \notin due /\ matched[i] = cart[i].means

ReportsIInv ==
  /\ ReportsTypeOK /\ was \in [Source -> SUBSET (0..MaxRows)]
  /\ stage = "gate" => due = {}
  /\ Heard /\ Priced /\ ReportsAreTrue

\* A record that tells nothing that could be wrong.
Mute(what) ==
  /\ what.rows \in 0..MaxRows /\ what.total \in -1..MaxRows
  /\ what.tally \in [Section -> -2..MaxRows] /\ what.gifts = "unsaid"

LEMMA WordIsMute ==
  ASSUME NEW w
  PROVE  Word(w).word = w /\ Mute(Word(w))
<1>1. 0 \in 0..MaxRows /\ -1 \in -1..MaxRows
  BY ReportsAssumption
<1> QED
  BY <1>1, WordIs DEF Bare, Mute, Unsaid

\* The end of a call.
LEMMA EndStep ==
  ASSUME ReportsIInv, stage' = "over", UNCHANGED <<report, got, cart, matched, book, answered>>, due' = {},
         was' \in [Source -> SUBSET (0..MaxRows)], \A s \in Source : book[s] \in was'[s],
         told'.word \in Saying, told'.rows \in 0..MaxRows, told'.total \in -1..MaxRows,
         told'.tally \in [Section -> -2..MaxRows], told'.gifts \in {"unsaid", "none", "some"}, ReportsAreTrue'
  PROVE  ReportsIInv'
<1>1. ReportsTypeOK'
  BY DEF ReportsIInv, ReportsTypeOK, Saying
<1>2. Heard' /\ Priced'
  BY DEF Heard, Priced
<1> QED
  BY <1>1, <1>2 DEF ReportsIInv

\* A step within it.
LEMMA InsideStep ==
  ASSUME ReportsIInv, stage \in {"gate", "reading"}, UNCHANGED <<report, told>>
  PROVE  told.word = "nothing" /\ ReportsAreTrue'
<1>1. told.word = "nothing" /\ told.gifts # "none"
  BY DEF ReportsIInv, ReportsTypeOK, ReportsAreTrue
<1> QED
  BY <1>1 DEF ReportsAreTrue

LEMMA ReportsInitial ==
  ASSUME ReportsInit
  PROVE  ReportsIInv
<1>1. 0 \in 0..MaxRows /\ -1 \in -1..MaxRows /\ -1 \in -2..MaxRows /\ 0 \in 0..MaxLines
  BY ReportsAssumption
<1>2. Only("none") \in Got
  BY <1>1 DEF Only, Got, Unsaid
<1>3. cart \in UNION {[1..n -> Line] : n \in 0..MaxLines}
  <2>1. cart \in [1..0 -> Line]
    BY DEF ReportsInit
  <2> QED
    BY <2>1, <1>1
<1>4. /\ told.word = "nothing" /\ told.rows = 0 /\ told.total = Unsaid /\ told.gifts = "unsaid"
      /\ told.tally = [s \in Section |-> Unsaid]
  BY DEF ReportsInit, Silent
<1>5. ReportsTypeOK
  BY <1>1, <1>2, <1>3, <1>4 DEF ReportsInit, ReportsTypeOK, Taken, Unsaid
<1>6. was \in [Source -> SUBSET (0..MaxRows)]
  BY DEF ReportsInit
<1>7. Heard /\ Priced
  BY DEF ReportsInit, Heard, Priced
<1>8. ReportsAreTrue
  BY <1>4 DEF ReportsAreTrue
<1> QED
  BY <1>5, <1>6, <1>7, <1>8 DEF ReportsIInv, ReportsInit

\* A call that ends with a word about nothing.
LEMMA MuteStep ==
  ASSUME ReportsIInv, stage' = "over", UNCHANGED <<report, got, cart, matched, book, answered>>, due' = {},
         was' \in [Source -> SUBSET (0..MaxRows)], \A s \in Source : book[s] \in was'[s],
         NEW w \in Saying \ {"none", "shown"}, told' = Word(w)
  PROVE  ReportsIInv'
<1>1. told'.word = w /\ Mute(told')
  BY WordIsMute
<1>2. ReportsAreTrue'
  BY <1>1 DEF ReportsAreTrue, Mute
<1> QED
  BY <1>1, <1>2, EndStep DEF Mute

LEMMA EnterReportStep ==
  ASSUME ReportsIInv, EnterReport
  PROVE  ReportsIInv'
<1>a. ReportsTypeOK /\ (stage = "gate" => due = {})
  BY DEF ReportsIInv
<1>0. /\ stage = "gate" /\ report # "price" /\ UNCHANGED <<report, got, cart, matched, book, answered>>
      /\ was' = [s \in Source |-> {book[s]}]
  BY DEF EnterReport
<1>1. was' \in [Source -> SUBSET (0..MaxRows)] /\ \A s \in Source : book[s] \in was'[s]
  BY <1>0, <1>a DEF ReportsTypeOK
<1>2. CASE Says(Word("refused")) /\ UNCHANGED due
  BY <1>a, <1>0, <1>1, <1>2, MuteStep DEF Says, Saying
<1>3. CASE stage' = "reading" /\ due' = (IF report = "day" THEN Section ELSE {"it"}) /\ UNCHANGED told
  <2>1. told.word = "nothing" /\ ReportsAreTrue'
    BY <1>0, <1>3, InsideStep
  <2>2. due' \subseteq Source
    BY <1>3 DEF Source
  <2>3. ReportsTypeOK'
    BY <1>0, <1>1, <1>3, <1>a, <2>1, <2>2 DEF ReportsTypeOK
  <2>4. Heard' /\ Priced'
    BY <1>0, <1>3 DEF Heard, Priced
  <2> QED
    BY <1>1, <1>3, <2>1, <2>3, <2>4 DEF ReportsIInv
<1> QED
  BY <1>2, <1>3 DEF EnterReport

LEMMA AnswerArrivesStep ==
  ASSUME ReportsIInv, NEW s \in Source, AnswerArrives(s)
  PROVE  ReportsIInv'
<1>a. ReportsTypeOK /\ Heard /\ was \in [Source -> SUBSET (0..MaxRows)] /\ (stage = "gate" => due = {})
  BY DEF ReportsIInv
<1>0. /\ report # "price" /\ s \in due /\ due' = due \ {s}
      /\ UNCHANGED <<report, stage, cart, matched, told, book, was>>
  BY DEF AnswerArrives
<1>1. PICK a \in Answers(book[s]) : \E g \in Reads(a, book[s]) :
        got' = [got EXCEPT ![s] = g] /\ answered' = [answered EXCEPT ![s] = a]
  BY DEF AnswerArrives
<1>2. PICK g \in Reads(a, book[s]) : got' = [got EXCEPT ![s] = g] /\ answered' = [answered EXCEPT ![s] = a]
  BY <1>1
<1>3. book[s] \in 0..MaxRows /\ book[s] \in was[s] /\ report \in Report /\ stage \in {"gate", "reading"}
  BY <1>a, <1>0 DEF ReportsTypeOK
<1>4. Sound(a, book[s], g)
  BY <1>0, <1>3, ReadsAreSound
<1>5. g \in Got /\ a \in Outcome
  <2>1. g \in Got
    BY <1>4 DEF Sound
  <2>2. a \in Outcome
    BY DEF Answers, Outcome
  <2> QED
    BY <2>1, <2>2
<1>6. told.word = "nothing" /\ ReportsAreTrue'
  BY <1>0, <1>3, InsideStep
<1>7. ReportsTypeOK'
  BY <1>a, <1>0, <1>2, <1>3, <1>5 DEF ReportsTypeOK
<1>8. Heard'
  <2> SUFFICES ASSUME stage = "reading", NEW q \in (IF report = "day" THEN Section ELSE {"it"}), q \notin due'
               PROVE  (\E n \in was[q] : Sound(answered[q], n, got[q]))'
    BY <1>0 DEF Heard
  <2>0. q \in Source
    BY DEF Source
  <2>1. CASE q = s
    <3>1. answered'[q] = a /\ got'[q] = g
      BY <1>2, <1>a, <2>1 DEF ReportsTypeOK
    <3>2. (\E n \in {book[q]} : Sound(answered[q], n, got[q]))'
      BY <3>1, <2>1, <1>0, <1>4 DEF Sound, ToldAsNone
    <3> QED
      BY <3>2, <2>1, <1>3, <1>0
  <2>2. CASE q # s
    <3>1. answered'[q] = answered[q] /\ got'[q] = got[q] /\ q \notin due
      BY <1>2, <1>0, <1>a, <2>2, <2>0 DEF ReportsTypeOK
    <3>2. PICK n \in was[q] : Sound(answered[q], n, got[q])
      BY <3>1, <1>0, <1>a DEF Heard
    <3>3. Sound(answered[q], n, got[q])'
      BY <3>1, <3>2, <1>0 DEF Sound, ToldAsNone
    <3> QED
      BY <3>3, <1>0
  <2> QED
    BY <2>1, <2>2
<1>9. Priced'
  BY <1>0 DEF Priced
<1> QED
  BY <1>0, <1>3, <1>6, <1>7, <1>8, <1>9, <1>a DEF ReportsIInv

LEMMA TellSingleStep ==
  ASSUME ReportsIInv, TellSingle
  PROVE  ReportsIInv'
<1>a. ReportsTypeOK /\ Heard /\ was \in [Source -> SUBSET (0..MaxRows)] /\ \A s \in Source : book[s] \in was[s]
  BY DEF ReportsIInv, ReportsTypeOK
<1>0. stage = "reading" /\ due = {} /\ UNCHANGED <<report, due, got, cart, matched, book, answered, was>>
  BY DEF TellSingle
<1> DEFINE g == got["it"]
           a == answered["it"]
           W == was["it"]
<1>1. PICK what \in
         CASE report = "order" -> TellOrder(g)      [] report = "orders" -> TellOrders(g)
           [] report = "payment" -> TellPayment(g)  [] report = "video" -> TellVideo(g)
           [] report = "cod" -> TellCod(g)          [] report = "profile" -> TellProfile(g)
           [] report = "qr" -> TellQr(g)            [] report = "wallet" -> TellWallet(g)
           [] report = "section" -> TellSection(g)  [] report = "warehouse" -> TellWarehouse(g)
           [] OTHER -> {} : Says(what)
  BY DEF TellSingle
<1>2. report \notin {"day", "price"} /\ report \in Report
  BY <1>a, <1>1 DEF ReportsTypeOK
<1>3. PICK n \in W : Sound(a, n, g)
  BY <1>0, <1>2, <1>a DEF Heard
<1> HIDE DEF g, a, W
<1>4. Fair(what, a, W)
  <2>1. CASE report \in {"order", "payment", "profile", "qr"}
    <3>1. what = TellOne(g)
      BY <1>1, <2>1 DEF TellOrder, TellPayment, TellProfile, TellQr
    <3> QED
      BY <1>3, <2>1, <3>1, OneIsFair DEF Single
  <2>2. CASE report \in {"video", "wallet", "section", "warehouse"}
    <3>1. what = TellPage(g)
      BY <1>1, <2>2 DEF TellVideo, TellWallet, TellSection, TellWarehouse
    <3> QED
      BY <1>3, <2>2, <3>1, PageIsFair DEF Paged
  <2>3. CASE report = "orders"
    <3>1. what \in TellOrders(g)
      BY <1>1, <2>3
    <3> QED
      BY <1>3, <2>3, <3>1, OrdersAreFair
  <2>4. CASE report = "cod"
    <3>1. what \in TellCod(g)
      BY <1>1, <2>4
    <3> QED
      BY <1>3, <2>4, <3>1, CodIsFair
  <2> QED
    BY <1>2, <2>1, <2>2, <2>3, <2>4 DEF Report
<1>5. stage' = "over" /\ told' = what
  BY <1>1 DEF Says
<1>6. ReportsAreTrue'
  <2>1. Fair(told', a', W')
    BY <1>0, <1>4, <1>5 DEF Fair, ToldAsNone, a, W
  <2>2. report' \notin {"day", "price"}
    BY <1>0, <1>2
  <2> QED
    BY <2>1, <2>2, <1>0 DEF Fair, ReportsAreTrue, ToldAsNone, a, W
<1> QED
  BY <1>0, <1>4, <1>5, <1>6, <1>a, EndStep DEF Fair

LEMMA TellDayStep ==
  ASSUME ReportsIInv, TellDay
  PROVE  ReportsIInv'
<1>a. ReportsTypeOK /\ Heard /\ was \in [Source -> SUBSET (0..MaxRows)] /\ \A s \in Source : book[s] \in was[s]
  BY DEF ReportsIInv, ReportsTypeOK
<1>0. /\ stage = "reading" /\ report = "day" /\ due = {}
      /\ UNCHANGED <<report, due, got, cart, matched, book, answered, was>>
  BY DEF TellDay
<1>1. PICK what \in (IF Fatal # {} THEN Fatal ELSE {DayReport}) : Says(what)
  BY DEF TellDay
<1>2. \A s \in Section : \E n \in was[s] : Sound(answered[s], n, got[s])
  BY <1>0, <1>a DEF Heard
<1>3. /\ what.word \in Saying /\ what.word # "none" /\ what.rows \in 0..MaxRows /\ what.total \in -1..MaxRows
      /\ what.tally \in [Section -> -2..MaxRows] /\ what.gifts = "unsaid"
      /\ what.word = "shown" =>
           /\ \A s \in Section : what.tally[s] >= 0 => what.tally[s] \in was[s]
           /\ \E s \in Section : answered[s] \in {"full", "nameless", "unsummed"}
           /\ what.balanced => \A s \in {"charges", "refunds"} : answered[s] \in {"full", "nameless"}
  BY <1>0, <1>2, DayIsFair
<1>4. stage' = "over" /\ told' = what
  BY <1>1 DEF Says
<1>5. ReportsAreTrue'
  BY <1>0, <1>3, <1>4 DEF ReportsAreTrue
<1> QED
  BY <1>0, <1>3, <1>4, <1>5, <1>a, EndStep

LEMMA EnterPriceStep ==
  ASSUME ReportsIInv, EnterPrice
  PROVE  ReportsIInv'
<1>a. /\ ReportsTypeOK /\ (stage = "gate" => due = {}) /\ was \in [Source -> SUBSET (0..MaxRows)]
      /\ \A s \in Source : book[s] \in was[s]
  BY DEF ReportsIInv, ReportsTypeOK
<1>0. stage = "gate" /\ report = "price" /\ UNCHANGED <<report, got, book, answered, was>>
  BY DEF EnterPrice
<1>1. CASE Says(Word("refused")) /\ UNCHANGED <<due, cart, matched>>
  BY <1>a, <1>0, <1>1, MuteStep DEF Says, Saying
<1>2. CASE \E n \in 1..MaxLines : \E lines \in [1..n -> Line] :
             LET known(i) == i <= n /\ lines[i].by = "code" /\ lines[i].means \in Listed
             IN  /\ cart' = lines
                 /\ matched' = [i \in 1..MaxLines |-> IF known(i) THEN lines[i].means ELSE "nothing"]
                 /\ due' = {i \in 1..n : ~known(i)}
                 /\ stage' = "reading" /\ UNCHANGED told
  <2>0. PICK n \in 1..MaxLines : \E lines \in [1..n -> Line] :
             LET known(i) == i <= n /\ lines[i].by = "code" /\ lines[i].means \in Listed
             IN  /\ cart' = lines
                 /\ matched' = [i \in 1..MaxLines |-> IF known(i) THEN lines[i].means ELSE "nothing"]
                 /\ due' = {i \in 1..n : ~known(i)}
                 /\ stage' = "reading" /\ UNCHANGED told
    BY <1>2
  <2>1. PICK lines \in [1..n -> Line] :
             LET known(i) == i <= n /\ lines[i].by = "code" /\ lines[i].means \in Listed
             IN  /\ cart' = lines
                 /\ matched' = [i \in 1..MaxLines |-> IF known(i) THEN lines[i].means ELSE "nothing"]
                 /\ due' = {i \in 1..n : ~known(i)}
                 /\ stage' = "reading" /\ UNCHANGED told
    BY <2>0
  <2>2. n \in 0..MaxLines /\ n \in Nat /\ \A i \in 1..n : i \in 1..MaxLines /\ i <= n
    BY ReportsAssumption
  <2>3. cart' \in UNION {[1..m -> Line] : m \in 0..MaxLines}
    BY <2>1, <2>2
  <2>4. due' \subseteq 1..MaxLines
    BY <2>1, <2>2
  <2>5. matched' \in [1..MaxLines -> Taken]
    BY <2>1, ReportsAssumption DEF Taken
  <2>6. told.word = "nothing" /\ ReportsAreTrue'
    BY <1>0, <2>1, InsideStep
  <2>7. ReportsTypeOK'
    BY <1>0, <1>a, <2>1, <2>3, <2>4, <2>5, <2>6 DEF ReportsTypeOK
  <2>8. Heard'
    BY <1>0 DEF Heard
  <2>9. Priced'
    <3>1. ASSUME NEW i \in 1..n, lines[i].by = "code", lines[i].means \in Listed
          PROVE  i \notin due' /\ matched'[i] = lines[i].means
      BY <2>1, <2>2, <3>1
    <3>2. DOMAIN lines = 1..n /\ cart' = lines
      BY <2>1
    <3> QED
      BY <3>1, <3>2 DEF Priced
  <2> QED
    BY <1>0, <1>a, <2>1, <2>6, <2>7, <2>8, <2>9 DEF ReportsIInv
<1> QED
  BY <1>1, <1>2 DEF EnterPrice

LEMMA MatchedIsTaken ==
  ASSUME NEW line, NEW products \in SUBSET Sku, NEW exact \in BOOLEAN
  PROVE  Matched(line, products, exact) \in Taken
<1>1. Cardinality({}) = 0
  BY FS_EmptySet
<1> QED
  BY <1>1 DEF Matched, Taken

LEMMA ProductsArriveStep ==
  ASSUME ReportsIInv, NEW i \in 1..MaxLines, ProductsArrive(i)
  PROVE  ReportsIInv'
<1>a. /\ ReportsTypeOK /\ was \in [Source -> SUBSET (0..MaxRows)] /\ Priced
      /\ \A s \in Source : book[s] \in was[s]
  BY DEF ReportsIInv, ReportsTypeOK
<1>0. report = "price" /\ stage = "reading" /\ i \in due /\ UNCHANGED <<report, got, cart, book, answered, was>>
  BY DEF ProductsArrive
<1>1. ASSUME NEW products \in SUBSET Sku, NEW exact \in BOOLEAN,
             matched' = [matched EXCEPT ![i] = Matched(cart[i], products, exact)],
             due' = due \ {i}, UNCHANGED <<stage, told>>
      PROVE  ReportsIInv'
  <2>1. told.word = "nothing" /\ ReportsAreTrue'
    BY <1>0, <1>1, InsideStep
  <2>2. matched' \in [1..MaxLines -> Taken]
    BY <1>a, <1>1, MatchedIsTaken DEF ReportsTypeOK
  <2>3. ReportsTypeOK'
    BY <1>a, <1>0, <1>1, <2>1, <2>2 DEF ReportsTypeOK
  <2>4. Heard'
    BY <1>0 DEF Heard
  <2>5. Priced'
    <3>1. ASSUME NEW j \in DOMAIN cart, cart[j].by = "code", cart[j].means \in Listed
          PROVE  j \notin due' /\ matched'[j] = cart[j].means
      <4>1. j \notin due /\ matched[j] = cart[j].means
        BY <1>a, <1>0, <3>1 DEF Priced
      <4>2. j # i
        BY <4>1, <1>0
      <4> QED
        BY <4>1, <4>2, <1>1, <1>a DEF ReportsTypeOK
    <3> QED
      BY <3>1, <1>0 DEF Priced
  <2> QED
    BY <1>0, <1>1, <1>a, <2>1, <2>3, <2>4, <2>5 DEF ReportsIInv
<1>2. ASSUME NEW w \in {"unread", "error"}, Says(Word(w)), due' = {}, UNCHANGED matched
      PROVE  ReportsIInv'
  BY <1>a, <1>0, <1>2, MuteStep DEF Says, Saying
<1> QED
  BY <1>1, <1>2 DEF ProductsArrive

LEMMA TellPriceStep ==
  ASSUME ReportsIInv, TellPrice
  PROVE  ReportsIInv'
<1>a. /\ ReportsTypeOK /\ was \in [Source -> SUBSET (0..MaxRows)] /\ Priced
      /\ \A s \in Source : book[s] \in was[s]
  BY DEF ReportsIInv, ReportsTypeOK
<1>0. /\ report = "price" /\ stage = "reading" /\ due = {}
      /\ UNCHANGED <<report, due, got, cart, matched, book, answered, was>>
  BY DEF TellPrice
<1> DEFINE priced == [Word("shown") EXCEPT !.quoted = CartLines]
<1>1. CASE Says(Word("unclear"))
  BY <1>a, <1>0, <1>1, MuteStep DEF Says, Saying
<1>2. CASE \E w \in {"unread", "error"} : Says(Word(w))
  BY <1>a, <1>0, <1>2, MuteStep DEF Says, Saying
<1>3. CASE Says(Word("none"))
  <2>1. stage' = "over" /\ told'.word = "none" /\ Mute(told')
    BY <1>3, WordIsMute DEF Says
  <2>2. ReportsAreTrue'
    BY <1>0, <2>1 DEF ReportsAreTrue, Mute
  <2> QED
    BY <1>a, <1>0, <2>1, <2>2, EndStep DEF Mute, Saying
<1>4. CASE Says(priced) /\ \A i \in DOMAIN cart : matched[i] \in Sku
  <2>1. PICK n \in 0..MaxLines : cart \in [1..n -> Line]
    BY <1>a DEF ReportsTypeOK
  <2>2. n \in Nat /\ DOMAIN cart = 1..n
    BY <2>1
  <2>3. /\ CartLines \in [Sku -> Nat] /\ SumFunctionOnSet(CartLines, Sku) = SumFunctionOnSet(Bought, 1..n)
        /\ \A i \in 1..n : CartLines[matched[i]] >= cart[i].pieces
    BY <1>4, <2>1, <2>2, CartIsWhole
  <2>4. /\ priced.word = "shown" /\ Mute(priced) /\ priced.quoted = CartLines
    BY ReportsAssumption DEF Word, Silent, Mute, Unsaid
  <2>5. stage' = "over" /\ told' = priced
    BY <1>4 DEF Says
  <2> HIDE DEF priced
  <2>6. SumFunction(told'.quoted) = SumFunction(Bought)'
    <3>1. DOMAIN CartLines = Sku /\ DOMAIN Bought = 1..n /\ Bought' = Bought
      BY <1>0, <2>2, <2>3 DEF Bought
    <3>2. SumFunction(CartLines) = SumFunctionOnSet(CartLines, Sku) /\ SumFunction(Bought) = SumFunctionOnSet(Bought, 1..n)
      BY <3>1 DEF SumFunction
    <3>3. SumFunction(Bought)' = SumFunction(Bought)
      BY <3>1
    <3> QED
      BY <2>3, <2>4, <2>5, <3>2, <3>3
  <2>7. ASSUME NEW i \in DOMAIN cart, cart[i].by = "code", cart[i].means \in Listed
        PROVE  told'.quoted[cart[i].means] >= cart[i].pieces
    BY <1>a, <1>0, <2>2, <2>3, <2>4, <2>5, <2>7 DEF Priced
  <2>8. ReportsAreTrue'
    BY <1>0, <2>4, <2>5, <2>6, <2>7 DEF ReportsAreTrue, Mute
  <2> QED
    BY <1>a, <1>0, <2>4, <2>5, <2>8, EndStep DEF Mute, Saying
<1>5. \/ Says(Word("unclear")) \/ Says(Word("none")) \/ \E w \in {"unread", "error"} : Says(Word(w))
      \/ Says(priced) /\ \A i \in DOMAIN cart : matched[i] \in Sku
  <2>1. CASE \E i \in DOMAIN cart : matched[i] \notin Sku
    BY <2>1 DEF TellPrice
  <2>2. CASE \A i \in DOMAIN cart : matched[i] \in Sku
    <3>1. PICK r \in Recommended :
            Says(CASE r = "quote" -> priced
                   [] r = "null" -> IF AtRetailPrice THEN priced ELSE Word("none")
                   [] OTHER -> Word(r))
      BY <2>2 DEF TellPrice
    <3> HIDE DEF priced
    <3>2. CASE r = "quote"
      BY <2>2, <3>1, <3>2
    <3>3. CASE r = "null"
      BY <2>2, <3>1, <3>3
    <3>4. CASE r \in {"unread", "error"}
      BY <3>1, <3>4
    <3> QED
      BY <3>2, <3>3, <3>4 DEF Recommended
  <2> QED
    BY <2>1, <2>2
<1> QED
  BY <1>1, <1>2, <1>3, <1>4, <1>5

LEMMA BookGoesOnStep ==
  ASSUME ReportsIInv, BookGoesOn
  PROVE  ReportsIInv'
<1>a. /\ ReportsTypeOK /\ Heard /\ was \in [Source -> SUBSET (0..MaxRows)]
  BY DEF ReportsIInv
<1>0. /\ stage = "reading" /\ report # "price"
      /\ UNCHANGED <<report, stage, due, got, cart, matched, told, answered>>
  BY DEF BookGoesOn
<1>1. PICK s \in due : /\ book[s] < MaxRows /\ book' = [book EXCEPT ![s] = @ + 1]
                       /\ was' = [was EXCEPT ![s] = @ \cup {book'[s]}]
  BY DEF BookGoesOn
<1>2. s \in Source /\ book[s] + 1 \in 0..MaxRows
  BY <1>0, <1>1, <1>a, ReportsAssumption DEF ReportsTypeOK
<1>3. /\ book' \in [Source -> 0..MaxRows] /\ book'[s] \in 0..MaxRows
      /\ \A q \in Source : q # s => book'[q] = book[q] /\ was'[q] = was[q]
      /\ was'[s] = was[s] \cup {book'[s]} /\ was' \in [Source -> SUBSET (0..MaxRows)]
  <2>1. book' \in [Source -> 0..MaxRows] /\ book'[s] \in 0..MaxRows
    BY <1>1, <1>2, <1>a DEF ReportsTypeOK
  <2> QED
    BY <1>1, <1>2, <1>a, <2>1 DEF ReportsTypeOK
<1>4. told.word = "nothing" /\ ReportsAreTrue'
  BY <1>0, InsideStep
<1>5. ReportsTypeOK'
  BY <1>0, <1>2, <1>3, <1>4, <1>a DEF ReportsTypeOK
<1>6. Heard'
  <2> SUFFICES ASSUME NEW q \in (IF report = "day" THEN Section ELSE {"it"}), q \notin due
               PROVE  (\E n \in was[q] : Sound(answered[q], n, got[q]))'
    BY <1>0 DEF Heard
  <2>0. q \in Source
    BY DEF Source
  <2>1. PICK n \in was[q] : Sound(answered[q], n, got[q])
    BY <1>0, <1>a DEF Heard
  <2>2. n \in was'[q]
    BY <1>3, <2>0
  <2>3. Sound(answered[q], n, got[q])'
    BY <1>0, <2>1 DEF Sound, ToldAsNone
  <2> QED
    BY <2>2, <2>3
<1>7. Priced'
  BY <1>0 DEF Priced
<1> QED
  BY <1>0, <1>3, <1>4, <1>5, <1>6, <1>7 DEF ReportsIInv

LEMMA ReportsStep ==
  ASSUME ReportsIInv, [ReportsNext]_reportVars
  PROVE  ReportsIInv'
<1>1. CASE UNCHANGED reportVars
  <2>1. UNCHANGED <<report, stage, due, got, cart, matched, told, book, answered, was>>
    BY <1>1 DEF reportVars
  <2>2. ReportsTypeOK'
    BY <2>1 DEF ReportsIInv, ReportsTypeOK
  <2>3. Heard' /\ Priced'
    BY <2>1 DEF ReportsIInv, Heard, Priced, Sound, ToldAsNone
  <2>4. ReportsAreTrue'
    <3>1. Bought' = Bought
      BY <2>1 DEF Bought
    <3> QED
      BY <2>1, <3>1 DEF ReportsIInv, ReportsAreTrue, ToldAsNone
  <2> QED
    BY <2>1, <2>2, <2>3, <2>4 DEF ReportsIInv
<1> QED
  BY <1>1, EnterReportStep, AnswerArrivesStep, TellSingleStep, TellDayStep, EnterPriceStep, ProductsArriveStep,
     TellPriceStep, BookGoesOnStep DEF ReportsNext

(* A call has heard what its sources answered, and what it tells is so.     *)
THEOREM ReportsInductive == ReportsSpec => []ReportsIInv
<1>1. ReportsInit => ReportsIInv
  BY ReportsInitial
<1>2. ReportsIInv /\ [ReportsNext]_reportVars => ReportsIInv'
  BY ReportsStep
<1> QED
  BY <1>1, <1>2, PTL DEF ReportsSpec

(* ReportsTypeOK; nothing is told before the end, and a call that is over   *)
(* waits for nothing.                                                      *)
THEOREM ReportsKeepTypes == ReportsSpec => []ReportsTypeOK
<1>1. ReportsIInv => ReportsTypeOK
  BY DEF ReportsIInv
<1> QED
  BY <1>1, ReportsInductive, PTL

(* What could not be read is never told as nothing, a day's report adds up  *)
(* what was read, and a price is for every line of the cart in full: for    *)
(* books, carts and catalogues of any size (src/operational and its tools). *)
THEOREM ReportsTellTheTruth == ReportsSpec => []ReportsAreTrue
<1>1. ReportsIInv => ReportsAreTrue
  BY DEF ReportsIInv
<1> QED
  BY <1>1, ReportsInductive, PTL

-----------------------------------------------------------------------------
(* What is handed over of the documents docs.                              *)

LEMMA TextIs ==
  ASSUME shelf \in [Ref -> 0..MaxRef], NEW refs \in SUBSET Ref
  PROVE  /\ IsFiniteSet(refs) /\ TextOf(refs) \in Nat /\ TextOf({}) = 0
         /\ \A r \in Ref : r \notin refs => TextOf(refs \cup {r}) = TextOf(refs) + shelf[r]
<1>1. \A r \in Ref : shelf[r] \in Nat
  BY ReadingAssumption
<1>2. IsFiniteSet(refs)
  BY ReadingAssumption, FS_Subset
<1>3. TextOf(refs) \in Nat
  BY <1>1, <1>2, SumAgree DEF TextOf
<1>4. TextOf({}) = 0
  BY SumEmpty DEF TextOf
<1>5. ASSUME NEW r \in Ref, r \notin refs PROVE TextOf(refs \cup {r}) = TextOf(refs) + shelf[r]
  <2>1. \A y \in refs \cup {r} : shelf[y] \in Nat
    BY <1>1
  <2> QED
    BY <1>2, <1>5, <2>1, SumAdd DEF TextOf
<1> QED
  BY <1>2, <1>3, <1>4, <1>5

Load(docs, bag, n) ==
  IF TextOf(bag) + shelf[docs[n]] <= RefBudget THEN bag \cup {docs[n]} ELSE bag

LEMMA LoadingIs ==
  ASSUME shelf \in [Ref -> 0..MaxRef], NEW docs \in Seq(Ref)
  PROVE  /\ Loading(docs) \in [0..Len(docs) -> SUBSET Ref] /\ Loading(docs)[0] = {}
         /\ \A n \in 1..Len(docs) : Loading(docs)[n] = Load(docs, Loading(docs)[n - 1], n)
<1> DEFINE N == Len(docs)
           rule == [x \in (1..N) \X SUBSET Ref |-> Load(docs, x[2], x[1])]
<1>1. N \in Nat /\ \A n \in 1..N : docs[n] \in Ref
  OBVIOUS
<1>2. rule \in [(1..N) \X SUBSET Ref -> SUBSET Ref]
  <2>1. ASSUME NEW x \in (1..N) \X SUBSET Ref PROVE Load(docs, x[2], x[1]) \in SUBSET Ref
    BY <1>1 DEF Load
  <2> QED
    BY <2>1
<1>3. PICK f \in [0..N -> SUBSET Ref] : Follows(f, {}, rule, N)
  <2>1. {} \in SUBSET Ref
    OBVIOUS
  <2> HIDE DEF N, rule
  <2> QED
    BY <1>1, <1>2, <2>1, Recursion
<1> DEFINE F(h) == h = [n \in 0..N |-> IF n = 0 THEN {}
                                       ELSE IF TextOf(h[n - 1]) + shelf[docs[n]] <= RefBudget
                                            THEN h[n - 1] \cup {docs[n]} ELSE h[n - 1]]
<1>4. f[0] = {} /\ \A n \in 1..N : f[n] = Load(docs, f[n - 1], n)
  <2>1. f[0] = {} /\ \A n \in 1..N : f[n] = rule[<<n, f[n - 1]>>]
    BY <1>3 DEF Follows
  <2>2. ASSUME NEW n \in 1..N PROVE rule[<<n, f[n - 1]>>] = Load(docs, f[n - 1], n)
    <3>0. n - 1 \in 0..N
      BY <1>1
    <3>1. f[n - 1] \in SUBSET Ref
      BY <3>0
    <3>2. <<n, f[n - 1]>> \in (1..N) \X SUBSET Ref
      BY <3>1
    <3> HIDE DEF N
    <3> QED
      BY <3>2
  <2> QED
    BY <2>1, <2>2
<1>5. F(f)
  <2>1. ASSUME NEW n \in 0..N, n # 0 PROVE n \in 1..N
    BY <1>1, <2>1
  <2> QED
    BY <1>4, <2>1 DEF Load
<1> DEFINE h == CHOOSE h : F(h)
<1>6. Loading(docs) = h
  BY DEF Loading
<1>7. F(h)
  BY <1>5
<1> HIDE DEF h
<1>8. h[0] = {} /\ \A n \in 1..N : h[n] = Load(docs, h[n - 1], n)
  <2>1. (\A n \in 1..N : n \in 0..N /\ n # 0) /\ 0 \in 0..N
    BY <1>1
  <2> HIDE DEF N
  <2>2. h[0] = {}
    BY <1>7, <2>1
  <2>3. ASSUME NEW n \in 1..N PROVE h[n] = Load(docs, h[n - 1], n)
    BY <1>7, <2>1 DEF Load
  <2> QED
    BY <2>2, <2>3
<1>9. h \in [0..N -> SUBSET Ref]
  <2> DEFINE T == {n \in 0..N : \A m \in 0..n : h[m] \in SUBSET Ref}
  <2>1. 0 \in T
    BY <1>1, <1>8
  <2>2. ASSUME NEW n \in T, n < N PROVE n + 1 \in T
    <3>1. n + 1 \in 1..N /\ (n + 1) - 1 = n /\ n \in 0..n /\ h[n] \in SUBSET Ref
      BY <1>1, <2>2
    <3>2. h[n + 1] \in SUBSET Ref
      <4>1. h[n + 1] = Load(docs, h[n], n + 1)
        BY <3>1, <1>8
      <4>2. docs[n + 1] \in Ref
        BY <3>1, <1>1
      <4> QED
        BY <4>1, <4>2, <3>1 DEF Load
    <3>3. \A m \in 0..(n + 1) : m \in 0..n \/ m = n + 1
      BY <3>1
    <3> QED
      BY <3>1, <3>2, <3>3
  <2>3. T \in SUBSET (0..N)
    OBVIOUS
  <2>4. N \in T
    <3> HIDE DEF T, N
    <3> QED
      BY <1>1, <2>1, <2>2, <2>3, Climb
  <2>5. DOMAIN h = 0..N /\ h = [n \in 0..N |-> h[n]]
    BY <1>7
  <2> QED
    BY <2>4, <2>5
<1> QED
  BY <1>6, <1>8, <1>9

\* Of the first n documents those in bag fit the budget, and no other would have.
Loaded(docs, bag, n) ==
  /\ bag \subseteq {docs[i] : i \in 1..n} /\ TextOf(bag) <= RefBudget
  /\ \A i \in 1..n : docs[i] \notin bag =>
       TextOf(bag) + shelf[docs[i]] > RefBudget /\ \A g \in bag : shelf[g] <= shelf[docs[i]]

LEMMA LoadingHolds ==
  ASSUME shelf \in [Ref -> 0..MaxRef], NEW docs \in Seq(Ref),
         \A i, j \in DOMAIN docs : i < j => shelf[docs[i]] <= shelf[docs[j]]
  PROVE  Loaded(docs, Bundle(docs), Len(docs))
<1> DEFINE N == Len(docs)
           L == Loading(docs)
           T == {n \in 0..N : Loaded(docs, L[n], n)}
<1>1. N \in Nat /\ \A n \in 1..N : docs[n] \in Ref /\ n \in DOMAIN docs
  OBVIOUS
<1>2. L \in [0..N -> SUBSET Ref] /\ L[0] = {} /\ \A n \in 1..N : L[n] = Load(docs, L[n - 1], n)
  BY LoadingIs
<1>r. \A r \in Ref : shelf[r] \in Nat
  BY ReadingAssumption
<1> HIDE DEF L
<1>3. 0 \in T
  <2>1. TextOf({}) = 0
    BY TextIs
  <2>2. Loaded(docs, {}, 0)
    BY <2>1, ReadingAssumption DEF Loaded
  <2>3. 0 \in 0..N /\ Loaded(docs, L[0], 0)
    BY <2>2, <1>1, <1>2
  <2> HIDE DEF N
  <2> QED
    BY <2>3
<1>4. ASSUME NEW n \in T, n < N PROVE n + 1 \in T
  <2> DEFINE bag == L[n]
             d == docs[n + 1]
  <2>1. /\ n \in 0..N /\ n + 1 \in 1..N /\ (n + 1) - 1 = n /\ n + 1 \in 0..N
        /\ \A i \in 1..(n + 1) : i \in 1..n \/ i = n + 1
        /\ \A i \in 1..n : i \in 1..(n + 1) /\ i < n + 1 /\ i \in 1..N
    BY <1>1, <1>4
  <2>2. bag \in SUBSET Ref /\ d \in Ref /\ L[n + 1] = Load(docs, bag, n + 1) /\ Loaded(docs, bag, n)
    <3>1. bag \in SUBSET Ref
      BY <1>2, <2>1
    <3>2. d \in Ref
      BY <1>1, <2>1
    <3>3. L[n + 1] = Load(docs, bag, n + 1)
      BY <1>2, <2>1
    <3>4. Loaded(docs, bag, n)
      OBVIOUS
    <3> QED
      BY <3>1, <3>2, <3>3, <3>4
  <2>3. TextOf(bag) \in Nat /\ shelf[d] \in Nat
    BY <2>2, <1>r, TextIs
  <2>4. \A i \in 1..n : docs[i] \in Ref /\ shelf[docs[i]] \in Nat /\ shelf[docs[i]] <= shelf[d]
    BY <1>1, <1>r, <2>1
  <2>5. \A g \in bag : \E i \in 1..n : g = docs[i]
    BY <2>2 DEF Loaded
  <2>s. {docs[i] : i \in 1..(n + 1)} = {docs[i] : i \in 1..n} \cup {d}
    BY <2>1
  <2> HIDE DEF bag, d, N
  <2>6. CASE TextOf(bag) + shelf[d] <= RefBudget
    <3> DEFINE new == bag \cup {d}
    <3>1. L[n + 1] = new
      BY <2>2, <2>6 DEF Load, d
    <3>2. TextOf(new) <= RefBudget
      <4>1. CASE d \in bag
        <5>1. new = bag
          BY <4>1
        <5> QED
          BY <5>1, <2>2 DEF Loaded
      <4>2. CASE d \notin bag
        <5>1. TextOf(new) = TextOf(bag) + shelf[d]
          BY <2>2, <4>2, TextIs
        <5> QED
          BY <5>1, <2>6
      <4> QED
        BY <4>1, <4>2
    <3>3. ASSUME NEW i \in 1..n, docs[i] \notin bag PROVE FALSE
      <4>1. TextOf(bag) + shelf[docs[i]] > RefBudget
        BY <2>2, <3>3 DEF Loaded
      <4> QED
        BY <4>1, <2>3, <2>4, <2>6, ReadingAssumption
    <3>4. \A i \in 1..(n + 1) : docs[i] \in new
      BY <2>1, <3>3 DEF d
    <3>5. new \subseteq {docs[i] : i \in 1..(n + 1)}
      BY <2>s, <2>2 DEF Loaded
    <3> HIDE DEF new
    <3>6. Loaded(docs, new, n + 1)
      BY <3>2, <3>4, <3>5 DEF Loaded
    <3> QED
      BY <3>1, <3>6, <2>1
  <2>7. CASE ~(TextOf(bag) + shelf[d] <= RefBudget)
    <3>1. L[n + 1] = bag
      BY <2>2, <2>7 DEF Load, d
    <3>2. bag \subseteq {docs[i] : i \in 1..(n + 1)} /\ TextOf(bag) <= RefBudget
      BY <2>s, <2>2 DEF Loaded
    <3>3. TextOf(bag) + shelf[d] > RefBudget
      BY <2>3, <2>7, ReadingAssumption
    <3>4. \A g \in bag : shelf[g] <= shelf[d]
      BY <2>4, <2>5
    <3>5. ASSUME NEW i \in 1..(n + 1), docs[i] \notin bag
          PROVE  TextOf(bag) + shelf[docs[i]] > RefBudget /\ \A g \in bag : shelf[g] <= shelf[docs[i]]
      <4>1. CASE i = n + 1
        BY <4>1, <3>3, <3>4 DEF d
      <4>2. CASE i \in 1..n
        BY <4>2, <3>5, <2>2 DEF Loaded
      <4> QED
        BY <4>1, <4>2, <2>1
    <3>6. Loaded(docs, bag, n + 1)
      BY <3>2, <3>5 DEF Loaded
    <3> QED
      BY <3>1, <3>6, <2>1
  <2> QED
    BY <2>6, <2>7
<1>5. T \in SUBSET (0..N)
  OBVIOUS
<1>6. N \in T
  <2> HIDE DEF T, N
  <2> QED
    BY <1>1, <1>3, <1>4, <1>5, Climb
<1>7. Bundle(docs) = L[N]
  BY DEF Bundle, L
<1> QED
  BY <1>6, <1>7

-----------------------------------------------------------------------------
(* What the model is read (Reading).                                       *)

\* The documents that fit are those of bundleReferences: in every order of them.
LEMMA BundleFits ==
  ASSUME shelf \in [Ref -> 0..MaxRef], NEW docs \in Orders(Ref)
  PROVE  /\ Bundle(docs) \subseteq Ref /\ TextOf(Bundle(docs)) <= RefBudget
         /\ \A r \in Ref \ Bundle(docs) :
              TextOf(Bundle(docs)) + shelf[r] > RefBudget /\ \A g \in Bundle(docs) : shelf[g] <= shelf[r]
<1> DEFINE n == Cardinality(Ref)
<1>1. n \in Nat
  BY ReadingAssumption, FS_CardinalityType
<1>2. /\ docs \in [1..n -> Ref] /\ Range(docs) = Ref
      /\ \A i, j \in DOMAIN docs : i < j => shelf[docs[i]] <= shelf[docs[j]]
  BY DEF Orders
<1>3. docs \in Seq(Ref) /\ Len(docs) = n
  <2> HIDE DEF n
  <2> QED
    BY <1>1, <1>2
<1>4. Loaded(docs, Bundle(docs), n)
  BY <1>2, <1>3, LoadingHolds
<1>5. \A r \in Ref : \E i \in 1..n : r = docs[i]
  BY <1>2 DEF Range
<1>6. \A i \in 1..n : docs[i] \in Ref
  BY <1>2
<1> HIDE DEF n
<1> QED
  BY <1>4, <1>5, <1>6 DEF Loaded

\* Where a call is tells what it asked for and what it has met so far.
OnTheWay ==
  /\ place # "over" => cause = "none"
  /\ place = "asked" => given = {} /\ pointed = {} /\ contacted = {} /\ scans = 0 /\ ~blind
  /\ place \in {"fetch", "body", "name", "describe", "plain", "ocr"} =>
       asks # "use_skill" /\ link = "listed" /\ scans = 0
  /\ place \in {"body", "name", "describe", "plain", "ocr"} => "listed" \in contacted
  /\ place \in {"describe", "name", "plain", "ocr"} => length >= 0
  /\ place = "describe" => asks = "xem_anh"
  /\ place \in {"name", "plain", "ocr"} => asks = "doc_file"
  /\ place = "skill" => asks = "use_skill" /\ visible
  /\ asks = "use_skill" => contacted = {} /\ scans = 0

ReadingIInv == ReadingTypeOK /\ OnTheWay /\ ReadingIsTrue

LEMMA ReadingInitial ==
  ASSUME ReadingInit
  PROVE  ReadingIInv
<1>1. ReadingTypeOK
  <2>1. -1 \in -1..MaxText /\ 0 \in 0..1
    BY ReadingAssumption
  <2> QED
    BY <2>1 DEF ReadingInit, ReadingIdle, ReadingTypeOK
<1>2. OnTheWay
  BY DEF ReadingInit, ReadingIdle, OnTheWay
<1>3. WholeIsWhole /\ BlameIsFair /\ FetchedAsListed
  BY DEF ReadingInit, ReadingIdle, WholeIsWhole, BlameIsFair, FetchedAsListed
<1>4. NothingIsHidden
  <2>1. given \ pointed = {} /\ pointed = {} /\ given \cup pointed = {} /\ place = "asked" /\ words = "none"
    BY DEF ReadingInit, ReadingIdle
  <2>2. TextOf({}) = 0
    BY SumEmpty DEF TextOf
  <2> QED
    BY <2>1, <2>2, ReadingAssumption DEF NothingIsHidden
<1> QED
  BY <1>1, <1>2, <1>3, <1>4 DEF ReadingIInv, ReadingIsTrue

\* A step of an attachment, and one that leaves the references alone, hides none.
LEMMA AttachmentStep ==
  ASSUME ReadingIInv, asks # "use_skill", asks' = asks, NoRefs, place' # "skill"
  PROVE  NothingIsHidden'
<1>1. UNCHANGED <<visible, shelf, given, pointed>>
  BY DEF NoRefs, call
<1>2. NothingIsHidden
  BY DEF ReadingIInv, ReadingIsTrue
<1>3. TextOf(given \ pointed)' = TextOf(given \ pointed)
  BY <1>1 DEF TextOf
<1> QED
  BY <1>1, <1>2, <1>3 DEF NothingIsHidden

\* What becomes of an answer of the service.
Answered ==
  /\ place' = "over"
  /\ \/ words' = "fault" /\ cause' \in {"file", "busy"}
     \/ words' = "incident" /\ cause' = "service"
     \/ words' = "cut" /\ length > TextCap /\ cause' = cause
     \/ words' = "whole" /\ length # 0 /\ ~(length > TextCap) /\ cause' = cause

LEMMA AnswersAre == AnyAnswer => Answered
<1>1. Text => Answered
  <2>1. CASE length = 0
    BY <2>1 DEF Text, Answered, Blame, EndWith
  <2>2. CASE length # 0
    BY <2>2 DEF Text, Answered, EndWith
  <2> QED
    BY <2>1, <2>2
<1> QED
  BY <1>1 DEF AnyAnswer, Answered, Blame, Raise, EndWith

LEMMA ReadingStep ==
  ASSUME ReadingIInv, [ReadingNext]_readingVars
  PROVE  ReadingIInv'
<1>a. ReadingTypeOK /\ OnTheWay /\ WholeIsWhole /\ BlameIsFair /\ FetchedAsListed /\ NothingIsHidden
  BY DEF ReadingIInv, ReadingIsTrue
<1>n. TextCap \in Nat /\ MaxText \in Nat /\ \A n \in 0..MaxText : n \in -1..MaxText
  BY ReadingAssumption
<1>1. ASSUME CheckUrl PROVE ReadingIInv'
  <2>1. asks # "use_skill" /\ asks' = asks /\ NoRefs /\ place' # "skill" /\ place # "skill"
    BY <1>1, <1>a DEF CheckUrl, Move, EndWith, Blame, OnTheWay, NoRefs, call
  <2>2. NothingIsHidden'
    BY <2>1, AttachmentStep
  <2>3. ReadingTypeOK'
    BY <1>1, <1>a, <1>n DEF CheckUrl, Move, EndWith, Blame, NoRefs, call, ReadingTypeOK
  <2>4. OnTheWay'
    <3>1. \/ place' = "over"
          \/ place' = "fetch" /\ link = "listed" /\ cause' = cause
      BY <1>1, <1>a DEF CheckUrl, Move, EndWith, Blame, ReadingTypeOK
    <3>2. place = "asked" /\ UNCHANGED <<length, contacted, scans>> /\ NoRefs
      BY <1>1 DEF CheckUrl
    <3> QED
      BY <2>1, <3>1, <3>2, <1>a DEF NoRefs, call, OnTheWay
  <2>5. WholeIsWhole' /\ BlameIsFair' /\ FetchedAsListed'
    BY <1>1, <1>a, <1>n DEF CheckUrl, Move, EndWith, Blame, NoRefs, call, OnTheWay, ReadingTypeOK, WholeIsWhole, BlameIsFair, FetchedAsListed
  <2> QED
    BY <2>2, <2>3, <2>4, <2>5 DEF ReadingIInv, ReadingIsTrue
<1>2. ASSUME Download PROVE ReadingIInv'
  <2>1. asks # "use_skill" /\ asks' = asks /\ NoRefs /\ place' # "skill" /\ place # "skill"
    BY <1>2, <1>a DEF Download, Move, EndWith, Blame, OnTheWay, NoRefs, call
  <2>2. NothingIsHidden'
    BY <2>1, AttachmentStep
  <2>3. ReadingTypeOK'
    BY <1>2, <1>a, <1>n DEF Download, Move, EndWith, Blame, NoRefs, call, ReadingTypeOK
  <2>4. OnTheWay'
    BY <1>2, <1>a DEF Download, Move, EndWith, Blame, NoRefs, call, OnTheWay
  <2>5. WholeIsWhole' /\ BlameIsFair' /\ FetchedAsListed'
    BY <1>2, <1>a, <1>n DEF Download, Move, EndWith, Blame, NoRefs, call, OnTheWay, ReadingTypeOK, WholeIsWhole, BlameIsFair, FetchedAsListed
  <2> QED
    BY <2>2, <2>3, <2>4, <2>5 DEF ReadingIInv, ReadingIsTrue
<1>3. ASSUME ReadBody PROVE ReadingIInv'
  <2>1. asks # "use_skill" /\ asks' = asks /\ NoRefs /\ place' # "skill" /\ place # "skill"
    BY <1>3, <1>a DEF ReadBody, Move, EndWith, Blame, Raise, OnTheWay, NoRefs, call
  <2>2. NothingIsHidden'
    BY <2>1, AttachmentStep
  <2>3. ReadingTypeOK'
    BY <1>3, <1>a, <1>n DEF ReadBody, Move, EndWith, Blame, Raise, NoRefs, call, ReadingTypeOK
  <2>4. OnTheWay'
    <3>1. \/ place' = "over"
          \/ place' = "describe" /\ asks = "xem_anh" /\ cause' = cause
          \/ place' = "name" /\ asks = "doc_file" /\ cause' = cause
      BY <1>3, <2>1, <1>a DEF ReadBody, Move, EndWith, Blame, Raise, ReadingTypeOK
    <3>2. place = "body" /\ UNCHANGED <<contacted, scans>> /\ NoRefs
      BY <1>3 DEF ReadBody
    <3>3. place' # "over" => length' \in 0..MaxText
      BY <1>3 DEF ReadBody, Blame, Raise, EndWith
    <3> QED
      BY <2>1, <3>1, <3>2, <3>3, <1>a DEF NoRefs, call, OnTheWay
  <2>5. WholeIsWhole' /\ BlameIsFair' /\ FetchedAsListed'
    BY <1>3, <1>a, <1>n DEF ReadBody, Move, EndWith, Blame, Raise, NoRefs, call, OnTheWay, ReadingTypeOK, WholeIsWhole, BlameIsFair, FetchedAsListed
  <2> QED
    BY <2>2, <2>3, <2>4, <2>5 DEF ReadingIInv, ReadingIsTrue
<1>4. ASSUME NameFile PROVE ReadingIInv'
  <2>1. asks # "use_skill" /\ asks' = asks /\ NoRefs /\ place' # "skill" /\ place # "skill"
    BY <1>4, <1>a DEF NameFile, Move, EndWith, Raise, OnTheWay, NoRefs, call
  <2>2. NothingIsHidden'
    BY <2>1, AttachmentStep
  <2>3. ReadingTypeOK'
    BY <1>4, <1>a, <1>n DEF NameFile, Move, EndWith, Raise, NoRefs, call, ReadingTypeOK
  <2>4. OnTheWay'
    BY <1>4, <1>a DEF NameFile, Move, EndWith, Raise, NoRefs, call, OnTheWay
  <2>5. WholeIsWhole' /\ BlameIsFair' /\ FetchedAsListed'
    BY <1>4, <1>a, <1>n DEF NameFile, Move, EndWith, Raise, NoRefs, call, OnTheWay, ReadingTypeOK, WholeIsWhole, BlameIsFair, FetchedAsListed
  <2> QED
    BY <2>2, <2>3, <2>4, <2>5 DEF ReadingIInv, ReadingIsTrue
<1>5. ASSUME Describe PROVE ReadingIInv'
  <2>1. asks # "use_skill" /\ asks' = asks /\ NoRefs /\ place' # "skill" /\ place # "skill"
    BY <1>5, <1>a DEF Describe, Serve, EndWith, Blame, Raise, OnTheWay, NoRefs, call
  <2>2. NothingIsHidden'
    BY <2>1, AttachmentStep
  <2>3. ReadingTypeOK'
    BY <1>5, <1>a, <1>n DEF Describe, Serve, EndWith, Blame, Raise, NoRefs, call, ReadingTypeOK
  <2>4. OnTheWay'
    BY <1>5, <1>a DEF Describe, Serve, EndWith, Blame, Raise, NoRefs, call, OnTheWay
  <2>5. WholeIsWhole' /\ BlameIsFair' /\ FetchedAsListed'
    BY <1>5, <1>a, <1>n DEF Describe, Serve, EndWith, Blame, Raise, NoRefs, call, OnTheWay, ReadingTypeOK, WholeIsWhole, BlameIsFair, FetchedAsListed
  <2> QED
    BY <2>2, <2>3, <2>4, <2>5 DEF ReadingIInv, ReadingIsTrue
<1>6. ASSUME Convert PROVE ReadingIInv'
  <2>0. AnyAnswer => Answered
    BY AnswersAre
  <2>1. asks # "use_skill" /\ asks' = asks /\ NoRefs /\ place' # "skill" /\ place # "skill"
    BY <1>6, <2>0, <1>a DEF Convert, Serve, Answered, Move, OnTheWay, NoRefs, call
  <2>2. NothingIsHidden'
    BY <2>1, AttachmentStep
  <2>3. ReadingTypeOK'
    BY <1>6, <2>0, <1>a, <1>n DEF Convert, Serve, Answered, Move, NoRefs, call, ReadingTypeOK
  <2>4. OnTheWay'
    BY <1>6, <2>0, <1>a DEF Convert, Serve, Answered, Move, NoRefs, call, OnTheWay
  <2>5. WholeIsWhole' /\ BlameIsFair' /\ FetchedAsListed'
    BY <1>6, <2>0, <1>a, <1>n DEF Convert, Serve, Answered, Move, NoRefs, call, OnTheWay, ReadingTypeOK, WholeIsWhole, BlameIsFair, FetchedAsListed
  <2> QED
    BY <2>2, <2>3, <2>4, <2>5 DEF ReadingIInv, ReadingIsTrue
<1>7. ASSUME ConvertByOcr PROVE ReadingIInv'
  <2>0. AnyAnswer => Answered
    BY AnswersAre
  <2>1. asks # "use_skill" /\ asks' = asks /\ NoRefs /\ place' # "skill" /\ place # "skill"
    BY <1>7, <2>0, <1>a DEF ConvertByOcr, Serve, Answered, OnTheWay, NoRefs, call
  <2>2. NothingIsHidden'
    BY <2>1, AttachmentStep
  <2>3. ReadingTypeOK'
    BY <1>7, <2>0, <1>a, <1>n DEF ConvertByOcr, Serve, Answered, NoRefs, call, OnTheWay, ReadingTypeOK
  <2>4. OnTheWay'
    BY <1>7, <2>0, <1>a DEF ConvertByOcr, Serve, Answered, NoRefs, call, OnTheWay
  <2>5. WholeIsWhole' /\ BlameIsFair' /\ FetchedAsListed'
    BY <1>7, <2>0, <1>a, <1>n DEF ConvertByOcr, Serve, Answered, NoRefs, call, OnTheWay, ReadingTypeOK, WholeIsWhole, BlameIsFair, FetchedAsListed
  <2> QED
    BY <2>2, <2>3, <2>4, <2>5 DEF ReadingIInv, ReadingIsTrue
<1>8. ASSUME UseSkill PROVE ReadingIInv'
  <2>0. /\ place = "asked" /\ asks = "use_skill" /\ UNCHANGED <<asks, link, visible, shelf, length, contacted, scans>>
        /\ given = {} /\ pointed = {} /\ contacted = {} /\ scans = 0 /\ ~blind /\ cause = "none"
    BY <1>8, <1>a DEF UseSkill, call, OnTheWay
  <2>s. shelf \in [Ref -> 0..MaxRef]
    BY <1>a DEF ReadingTypeOK
  <2>z. TextOf({}) = 0
    BY SumEmpty DEF TextOf
  <2>1. CASE Unseen /\ UNCHANGED <<cause, given, pointed, blind>>
    <3>1. ~visible /\ place' = "over" /\ words' = "missing"
      BY <2>1 DEF Unseen, EndWith
    <3>2. NothingIsHidden'
      <4>1. (given \ pointed)' = {} /\ TextOf(given \ pointed)' = TextOf({}) /\ given' \cup pointed' = {}
        BY <2>0, <2>1 DEF TextOf
      <4> QED
        BY <2>0, <2>1, <3>1, <4>1, <2>z, ReadingAssumption DEF NothingIsHidden
    <3> QED
      BY <2>0, <2>1, <3>1, <3>2, <1>a DEF ReadingIInv, ReadingIsTrue, ReadingTypeOK, OnTheWay, WholeIsWhole, BlameIsFair,
         FetchedAsListed
  <2>2. CASE visible /\ place' = "skill" /\ words' = words /\ UNCHANGED cause
             /\ (\E docs \in Orders(Ref) : given' = Bundle(docs)) /\ pointed' = Ref \ given' /\ UNCHANGED blind
    <3>1. /\ given' \subseteq Ref /\ TextOf(given') <= RefBudget
          /\ \A r \in Ref \ given' : TextOf(given') + shelf[r] > RefBudget /\ \A g \in given' : shelf[g] <= shelf[r]
      BY <2>2, <2>s, BundleFits
    <3>2. NothingIsHidden'
      <4>1. (given \ pointed)' = given' /\ TextOf(given \ pointed)' = TextOf(given') /\ given' \cup pointed' = Ref
        BY <2>0, <2>2, <3>1 DEF TextOf
      <4>2. words' # "missing"
        BY <2>0, <2>2, <1>a DEF ReadingTypeOK
      <4> QED
        BY <2>0, <2>2, <3>1, <4>1, <4>2 DEF NothingIsHidden
    <3>3. ReadingTypeOK'
      BY <2>0, <2>2, <3>1, <1>a DEF ReadingTypeOK
    <3> QED
      BY <2>0, <2>2, <3>2, <3>3, <1>a DEF ReadingIInv, ReadingIsTrue, OnTheWay, WholeIsWhole, BlameIsFair, FetchedAsListed
  <2>3. CASE visible /\ place' = "skill" /\ words' = words /\ UNCHANGED cause /\ Unlisted /\ UNCHANGED <<given, pointed>>
    <3>1. NothingIsHidden'
      <4>1. (given \ pointed)' = {} /\ TextOf(given \ pointed)' = TextOf({}) /\ given' \cup pointed' = {}
        BY <2>0, <2>3 DEF TextOf
      <4> QED
        BY <2>0, <2>3, <4>1, <2>z, ReadingAssumption DEF NothingIsHidden, Unlisted
    <3> QED
      BY <2>0, <2>3, <3>1, <1>a DEF ReadingIInv, ReadingIsTrue, ReadingTypeOK, OnTheWay, WholeIsWhole, BlameIsFair,
         FetchedAsListed, Unlisted
  <2>4. CASE Unreadable /\ UNCHANGED <<given, pointed, blind>>
    <3>1. visible /\ place' = "over" /\ words' = "incident" /\ cause' = "service"
      BY <2>4 DEF Unreadable, Raise, EndWith
    <3>2. NothingIsHidden'
      <4>1. (given \ pointed)' = {} /\ TextOf(given \ pointed)' = TextOf({}) /\ given' \cup pointed' = {}
        BY <2>0, <2>4 DEF TextOf
      <4> QED
        BY <2>0, <2>4, <3>1, <4>1, <2>z, ReadingAssumption DEF NothingIsHidden
    <3> QED
      BY <2>0, <2>4, <3>1, <3>2, <1>a DEF ReadingIInv, ReadingIsTrue, ReadingTypeOK, OnTheWay, WholeIsWhole, BlameIsFair,
         FetchedAsListed
  <2> QED
    BY <1>8, <2>1, <2>2, <2>3, <2>4 DEF UseSkill
<1>9. ASSUME UseReference PROVE ReadingIInv'
  <2>0. /\ place = "skill" /\ asks = "use_skill" /\ visible /\ cause = "none" /\ words = "none"
        /\ UNCHANGED <<asks, link, visible, shelf, pointed, length, contacted, scans>>
    BY <1>9, <1>a DEF UseReference, call, OnTheWay, ReadingTypeOK
  <2>1. given' \ pointed' = given \ pointed /\ given' \subseteq Ref /\ given \subseteq given'
        /\ (given' = given \/ given \cup pointed = given' \cup pointed')
    BY <1>9, <1>a, <2>0 DEF UseReference, ReadingTypeOK
  <2>2. \/ place' = place /\ words' = words /\ cause' = cause /\ blind' = blind
        \/ place' = "over" /\ words' = "whole" /\ cause' = cause /\ blind' = blind
        \/ place' = "over" /\ words' = "missing" /\ cause' = cause /\ blind' = TRUE
        \/ place' = "over" /\ words' = "incident" /\ cause' = "service" /\ blind' = blind
    BY <1>9 DEF UseReference, EndWith, Unlisted, Unreadable, Raise
  <2>3. NothingIsHidden'
    <3>1. (given \ pointed)' = given \ pointed /\ TextOf(given \ pointed)' = TextOf(given \ pointed)
      BY <2>0, <2>1 DEF TextOf
    <3> QED
      BY <2>0, <2>1, <2>2, <3>1, <1>a DEF NothingIsHidden
  <2>4. ReadingTypeOK'
    BY <2>0, <2>1, <2>2, <1>a DEF ReadingTypeOK
  <2>5. OnTheWay'
    BY <2>0, <2>1, <2>2, <1>a DEF OnTheWay
  <2> QED
    BY <2>0, <2>2, <2>3, <2>4, <2>5, <1>a DEF ReadingIInv, ReadingIsTrue, WholeIsWhole, BlameIsFair, FetchedAsListed
<1>10. ASSUME UNCHANGED readingVars PROVE ReadingIInv'
  <2>1. UNCHANGED <<asks, link, visible, shelf, place, words, given, pointed, cause, length, contacted, scans, blind>>
    BY <1>10 DEF readingVars, call, traces
  <2>2. NothingIsHidden'
    <3>1. TextOf(given \ pointed)' = TextOf(given \ pointed)
      BY <2>1 DEF TextOf
    <3> QED
      BY <2>1, <3>1, <1>a DEF NothingIsHidden
  <2> QED
    BY <2>1, <2>2, <1>a DEF ReadingIInv, ReadingIsTrue, ReadingTypeOK, OnTheWay, WholeIsWhole, BlameIsFair, FetchedAsListed
<1> QED
  BY <1>1, <1>2, <1>3, <1>4, <1>5, <1>6, <1>7, <1>8, <1>9, <1>10 DEF ReadingNext

(* What a call has met fits where it is, and ReadingIsTrue.                 *)
THEOREM ReadingInductive == ReadingSpec => []ReadingIInv
<1>1. ReadingInit => ReadingIInv
  BY ReadingInitial
<1>2. ReadingIInv /\ [ReadingNext]_readingVars => ReadingIInv'
  BY ReadingStep
<1> QED
  BY <1>1, <1>2, PTL DEF ReadingSpec

(* ReadingTypeOK, and whatever a call ends with is told.                    *)
THEOREM ReadingKeepsTypes == ReadingSpec => []ReadingTypeOK
<1>1. ReadingIInv => ReadingTypeOK
  BY DEF ReadingIInv
<1> QED
  BY <1>1, ReadingInductive, PTL

(* What the model is told of an attachment or a skill is so, for every      *)
(* budget, every set of references and every length of them (src/vision,    *)
(* src/doc, src/skills).                                                    *)
THEOREM WhatIsReadIsTrue == ReadingSpec => []ReadingIsTrue
<1>1. ReadingIInv => ReadingIsTrue
  BY DEF ReadingIInv
<1> QED
  BY <1>1, ReadingInductive, PTL

-----------------------------------------------------------------------------
(* Splitting a reply.                                                      *)

\* Lines follow each other, within a message and from one to the next.
Rising(q) ==
  \A m, n \in DOMAIN q : \A i \in DOMAIN q[m], j \in DOMAIN q[n] :
    m < n \/ (m = n /\ i < j) => q[m][i] < q[n][j]

\* The messages of q hold the lines of W and no others.
Holds(q, W) ==
  /\ \A m \in DOMAIN q : \A i \in DOMAIN q[m] : q[m][i] \in W
  /\ \A w \in W : \E m \in DOMAIN q : \E i \in DOMAIN q[m] : q[m][i] = w

\* The messages are not empty, and they and the current one hold the lines of W.
Sorted(acc, W) ==
  /\ acc.chunks \in Seq(Seq(Nat)) /\ acc.current \in Seq(Nat)
  /\ \A m \in DOMAIN acc.chunks : acc.chunks[m] # <<>>
  /\ Rising(acc.chunks)
  /\ \A i, j \in DOMAIN acc.current : i < j => acc.current[i] < acc.current[j]
  /\ \A m \in DOMAIN acc.chunks : \A i \in DOMAIN acc.chunks[m], j \in DOMAIN acc.current :
       acc.chunks[m][i] < acc.current[j]
  /\ \A m \in DOMAIN acc.chunks : \A i \in DOMAIN acc.chunks[m] : acc.chunks[m][i] \in W
  /\ \A j \in DOMAIN acc.current : acc.current[j] \in W
  /\ \A w \in W :
       \/ \E m \in DOMAIN acc.chunks : \E i \in DOMAIN acc.chunks[m] : acc.chunks[m][i] = w
       \/ \E j \in DOMAIN acc.current : acc.current[j] = w

LEMMA NothingSorted == Sorted([chunks |-> <<>>, current |-> <<>>], {})
<1> DEFINE acc == [chunks |-> <<>>, current |-> <<>>]
<1>1. acc.chunks = <<>> /\ acc.current = <<>>
  OBVIOUS
<1>2. <<>> \in Seq(Seq(Nat)) /\ <<>> \in Seq(Nat) /\ DOMAIN <<>> = {}
  OBVIOUS
<1> HIDE DEF acc
<1>3. Sorted(acc, {})
  BY <1>1, <1>2, Zenon DEF Sorted, Rising
<1> QED
  BY <1>3 DEF acc

LEMMA FlushSorts ==
  ASSUME NEW acc, NEW W \in SUBSET Nat, Sorted(acc, W)
  PROVE  Sorted(Flush(acc), W) /\ Flush(acc).current = <<>>
<1>1. CASE acc.current = <<>>
  BY <1>1 DEF Flush
<1>2. CASE acc.current # <<>>
  <2> DEFINE c == acc.chunks
             l == acc.current
             q == Append(c, l)
  <2>1. /\ q \in Seq(Seq(Nat)) /\ DOMAIN q = 1..(Len(c) + 1) /\ DOMAIN c = 1..Len(c) /\ Len(c) \in Nat
        /\ q[Len(c) + 1] = l
        /\ \A m \in DOMAIN c : m \in DOMAIN q /\ q[m] = c[m]
    BY DEF Sorted
  <2>2. Flush(acc) = [chunks |-> q, current |-> <<>>]
    BY <1>2 DEF Flush
  <2>3. \A m \in DOMAIN q : m \in DOMAIN c \/ m = Len(c) + 1
    BY <2>1
  <2> HIDE DEF q
  <2>4. Rising(q)
    <3> SUFFICES ASSUME NEW m \in DOMAIN q, NEW n \in DOMAIN q, NEW i \in DOMAIN q[m], NEW j \in DOMAIN q[n],
                        m < n \/ (m = n /\ i < j)
                 PROVE  q[m][i] < q[n][j]
      BY DEF Rising
    <3>1. CASE m \in DOMAIN c /\ n \in DOMAIN c
      BY <3>1, <2>1 DEF Sorted, Rising
    <3>2. CASE m \in DOMAIN c /\ n = Len(c) + 1
      BY <3>2, <2>1 DEF Sorted
    <3>3. CASE m = Len(c) + 1 /\ n = Len(c) + 1
      BY <3>3, <2>1 DEF Sorted
    <3> QED
      BY <3>1, <3>2, <3>3, <2>1, <2>3
  <2>5. /\ \A m \in DOMAIN q : q[m] # <<>>
        /\ \A m \in DOMAIN q : \A i \in DOMAIN q[m] : q[m][i] \in W
    BY <1>2, <2>1, <2>3 DEF Sorted
  <2>6. ASSUME NEW w \in W
        PROVE  \E m \in DOMAIN q : \E i \in DOMAIN q[m] : q[m][i] = w
    <3>1. Len(c) + 1 \in DOMAIN q
      BY <2>1
    <3>2. CASE \E m \in DOMAIN c : \E i \in DOMAIN c[m] : c[m][i] = w
      BY <3>2, <2>1
    <3>3. CASE \E j \in DOMAIN l : l[j] = w
      BY <3>1, <3>3, <2>1
    <3> QED
      BY <3>2, <3>3 DEF Sorted
  <2> QED
    BY <2>1, <2>2, <2>4, <2>5, <2>6 DEF Sorted
<1> QED
  BY <1>1, <1>2

LEMMA WordSorts ==
  ASSUME NEW acc, NEW W \in SUBSET Nat, Sorted(acc, W), NEW n \in Nat, \A w \in W : w < n,
         acc = [chunks |-> acc.chunks, current |-> acc.current]
  PROVE  Sorted([acc EXCEPT !.current = Append(@, n)], W \cup {n})
<1> DEFINE l == acc.current
           k == Append(l, n)
           b == [acc EXCEPT !.current = Append(@, n)]
<1>1. b.chunks = acc.chunks /\ b.current = k
  OBVIOUS
<1>2. /\ k \in Seq(Nat) /\ DOMAIN k = 1..(Len(l) + 1) /\ DOMAIN l = 1..Len(l) /\ Len(l) \in Nat
      /\ k[Len(l) + 1] = n
      /\ \A j \in DOMAIN l : j \in DOMAIN k /\ k[j] = l[j]
  BY DEF Sorted
<1>3. \A j \in DOMAIN k : j \in DOMAIN l \/ j = Len(l) + 1
  BY <1>2
<1> HIDE DEF b, k
<1>0. \A j \in DOMAIN l : l[j] \in W
  BY DEF Sorted
<1>4. ASSUME NEW i \in DOMAIN k, NEW j \in DOMAIN k, i < j
      PROVE  k[i] < k[j]
  <2>1. i \in DOMAIN l
    BY <1>2, <1>4
  <2>2. CASE j \in DOMAIN l
    BY <2>1, <2>2, <1>2, <1>4 DEF Sorted
  <2>3. CASE j = Len(l) + 1
    BY <2>1, <2>3, <1>2, <1>0
  <2> QED
    BY <2>2, <2>3, <1>3
<1>5. \A m \in DOMAIN acc.chunks : \A i \in DOMAIN acc.chunks[m], j \in DOMAIN k : acc.chunks[m][i] < k[j]
  <2> SUFFICES ASSUME NEW m \in DOMAIN acc.chunks, NEW i \in DOMAIN acc.chunks[m], NEW j \in DOMAIN k
               PROVE  acc.chunks[m][i] < k[j]
    OBVIOUS
  <2>1. CASE j \in DOMAIN l
    BY <2>1, <1>2 DEF Sorted
  <2>2. CASE j = Len(l) + 1
    <3>1. acc.chunks[m][i] \in W
      BY DEF Sorted
    <3> QED
      BY <3>1, <2>2, <1>2
  <2> QED
    BY <2>1, <2>2, <1>3
<1>6. \A j \in DOMAIN k : k[j] \in W \cup {n}
  BY <1>2, <1>3 DEF Sorted
<1>7. ASSUME NEW w \in W \cup {n}
      PROVE  \/ \E m \in DOMAIN acc.chunks : \E i \in DOMAIN acc.chunks[m] : acc.chunks[m][i] = w
             \/ \E j \in DOMAIN k : k[j] = w
  <2>1. Len(l) + 1 \in DOMAIN k
    BY <1>2
  <2>2. CASE w = n
    BY <2>1, <2>2, <1>2
  <2>3. CASE w \in W
    BY <2>3, <1>2 DEF Sorted
  <2> QED
    BY <2>2, <2>3
<1>8. Sorted(b, W \cup {n})
  BY <1>1, <1>2, <1>4, <1>5, <1>6, <1>7 DEF Sorted
<1> QED
  BY <1>8 DEF b

Lines == {"words", "marker"} \cup Code

Acc == [chunks : Seq(Seq(Nat)), current : Seq(Nat)]

LEMMA SplitLineTyped ==
  ASSUME NEW d, NEW acc \in Acc, NEW n \in Nat
  PROVE  SplitLine(d, acc, n) \in Acc
<1>1. Flush(acc) \in Acc
  BY DEF Flush, Acc
<1>2. [acc EXCEPT !.current = Append(@, n)] \in Acc
  <2>1. Append(acc.current, n) \in Seq(Nat)
    BY DEF Acc
  <2> HIDE DEF Acc
  <2> QED
    BY <2>1 DEF Acc
<1> QED
  BY <1>1, <1>2 DEF SplitLine

LEMMA SplittingIs ==
  ASSUME NEW d \in Seq(Lines)
  PROVE  /\ Splitting(d) \in [0..Len(d) -> Acc]
         /\ Splitting(d)[0] = [chunks |-> <<>>, current |-> <<>>]
         /\ \A n \in 1..Len(d) : Splitting(d)[n] = SplitLine(d, Splitting(d)[n - 1], n)
<1> DEFINE N == Len(d)
           base == [chunks |-> <<>>, current |-> <<>>]
           rule == [x \in (1..N) \X Acc |-> SplitLine(d, x[2], x[1])]
<1>1. N \in Nat /\ base \in Acc
  <2>1. base \in Acc
    BY DEF Acc
  <2> QED
    BY <2>1
<1>2. rule \in [(1..N) \X Acc -> Acc]
  <2>1. \A x \in (1..N) \X Acc : x[2] \in Acc /\ x[1] \in Nat
    BY <1>1
  <2> QED
    BY <2>1, SplitLineTyped
<1>3. \A n \in 1..N, acc \in Acc : rule[<<n, acc>>] = SplitLine(d, acc, n)
  OBVIOUS
<1> HIDE DEF N, base, rule
<1>4. PICK f \in [0..N -> Acc] : Follows(f, base, rule, N)
  BY <1>1, <1>2, Recursion
<1>5. f = [n \in 0..N |-> IF n = 0 THEN base ELSE SplitLine(d, f[n - 1], n)]
  <2>1. ASSUME NEW n \in 0..N
        PROVE  f[n] = IF n = 0 THEN base ELSE SplitLine(d, f[n - 1], n)
    <3>1. CASE n = 0
      BY <3>1, <1>4 DEF Follows
    <3>2. CASE n # 0
      <4>1. n \in 1..N /\ n - 1 \in 0..N
        BY <3>2, <1>1
      <4> QED
        BY <4>1, <3>2, <1>4, <1>3 DEF Follows
    <3> QED
      BY <3>1, <3>2
  <2> QED
    BY <2>1, <1>4
<1>6. Splitting(d) = [n \in 0..N |-> IF n = 0 THEN base ELSE SplitLine(d, Splitting(d)[n - 1], n)]
  BY <1>5 DEF Splitting, N, base
<1>7. ASSUME NEW g, g = [n \in 0..N |-> IF n = 0 THEN base ELSE SplitLine(d, g[n - 1], n)]
      PROVE  /\ g \in [0..N -> Acc] /\ g[0] = base
             /\ \A n \in 1..N : g[n] = SplitLine(d, g[n - 1], n)
  <2>1. g[0] = base
    BY <1>1, <1>7
  <2>2. ASSUME NEW n \in 1..N PROVE g[n] = SplitLine(d, g[n - 1], n)
    BY <1>1, <1>7
  <2> DEFINE T == {n \in 0..N : \A m \in 0..n : g[m] \in Acc}
  <2>3. 0 \in T
    BY <2>1, <1>1
  <2>4. ASSUME NEW n \in T, n < N PROVE n + 1 \in T
    <3>1. n + 1 \in 1..N /\ g[n] \in Acc /\ n \in Nat /\ (n + 1) - 1 = n
      BY <2>4, <1>1
    <3>2. g[n + 1] \in Acc
      BY <3>1, <2>2, SplitLineTyped
    <3>3. \A m \in 0..(n + 1) : m \in 0..n \/ m = n + 1
      BY <3>1
    <3> QED
      BY <3>1, <3>2, <3>3, <2>4
  <2>5. T \in SUBSET (0..N)
    OBVIOUS
  <2> HIDE DEF T
  <2>6. N \in T
    BY <2>3, <2>4, <2>5, <1>1, Climb
  <2>7. \A m \in 0..N : g[m] \in Acc
    BY <2>6 DEF T
  <2> QED
    BY <2>1, <2>2, <2>7, <1>7
<1> QED
  BY <1>6, <1>7 DEF N, base

\* The words among the first n lines of a reply.
WordsIn(d, n) == {i \in 1..n : d[i] = "words"}

LEMMA SplittingSorts ==
  ASSUME NEW d \in Seq(Lines)
  PROVE  Sorted(Splitting(d)[Len(d)], WordsIn(d, Len(d)))
<1> DEFINE N == Len(d)
           a == Splitting(d)
           T == {n \in 0..N : Sorted(a[n], WordsIn(d, n))}
<1>1. N \in Nat
  OBVIOUS
<1>2. 0 \in T
  <2>1. a[0] = [chunks |-> <<>>, current |-> <<>>] /\ WordsIn(d, 0) = {}
    BY SplittingIs DEF WordsIn
  <2> QED
    <3> HIDE DEF a
    <3>1. Sorted(a[0], WordsIn(d, 0))
      BY <2>1, NothingSorted
    <3>2. 0 \in 0..N
      BY <1>1
    <3> QED
      BY <3>1, <3>2
<1>3. ASSUME NEW n \in T, n < N
      PROVE  n + 1 \in T
  <2> DEFINE W == WordsIn(d, n)
  <2>1. n \in 0..N /\ n + 1 \in 1..N /\ (n + 1) - 1 = n /\ n + 1 \in Nat
    BY <1>3, <1>1
  <2>2. a[n + 1] = SplitLine(d, a[n], n + 1) /\ a[n] \in Acc
    BY <2>1, SplittingIs
  <2>3. Sorted(a[n], W) /\ W \in SUBSET Nat /\ \A w \in W : w < n + 1
    BY <2>1 DEF WordsIn
  <2>4. WordsIn(d, n + 1) = IF d[n + 1] = "words" THEN W \cup {n + 1} ELSE W
    BY <2>1 DEF WordsIn
  <2> HIDE DEF W, a
  <2>5. Sorted(SplitLine(d, a[n], n + 1), WordsIn(d, n + 1))
    <3>1. CASE d[n + 1] = "marker"
      BY <3>1, <2>3, <2>4, FlushSorts DEF SplitLine
    <3>2. CASE d[n + 1] = "words"
      <4>1. Sorted([a[n] EXCEPT !.current = Append(@, n + 1)], W \cup {n + 1})
        BY <2>1, <2>2, <2>3, WordSorts DEF Acc
      <4> QED
        BY <4>1, <3>2, <2>4 DEF SplitLine
    <3>3. CASE d[n + 1] \notin {"marker", "words"}
      BY <3>3, <2>3, <2>4 DEF SplitLine
    <3> QED
      BY <3>1, <3>2, <3>3
  <2> QED
    BY <2>1, <2>2, <2>5
<1> HIDE DEF T
<1>4. T \in SUBSET (0..N)
  BY DEF T
<1>5. N \in T
  BY <1>1, <1>2, <1>3, <1>4, Climb
<1> QED
  BY <1>5 DEF T

\* The spans of a reply: not empty, rising, and with all its words.
Partition(q, W) ==
  /\ q \in Seq(Seq(Nat)) /\ \A m \in DOMAIN q : q[m] # <<>>
  /\ Rising(q) /\ Holds(q, W)

LEMMA SpansSort ==
  ASSUME NEW d \in Seq(Lines)
  PROVE  Partition(Spans(d), WordsIn(d, Len(d)))
<1> DEFINE acc == Flush(Splitting(d)[Len(d)])
           W == WordsIn(d, Len(d))
<1>1. W \in SUBSET Nat
  BY DEF WordsIn
<1>2. Sorted(acc, W) /\ acc.current = <<>>
  BY <1>1, SplittingSorts, FlushSorts
<1>3. Spans(d) = acc.chunks
  BY DEF Spans
<1> HIDE DEF acc, W
<1>4. Partition(acc.chunks, W)
  BY <1>2 DEF Partition, Sorted, Holds
<1> QED
  BY <1>3, <1>4 DEF W

\* l is the lines of the first n messages of q, in their order.
Joined(l, q, n) ==
  /\ l \in Seq(Nat)
  /\ \A i, j \in DOMAIN l : i < j => l[i] < l[j]
  /\ \A i \in DOMAIN l : \E m \in 1..n : \E j \in DOMAIN q[m] : q[m][j] = l[i]
  /\ \A m \in 1..n : \A j \in DOMAIN q[m] : \E i \in DOMAIN l : l[i] = q[m][j]

LEMMA JoinOne ==
  ASSUME NEW q \in Seq(Seq(Nat)), Rising(q), NEW n \in 1..Len(q), n + 1 \in 1..Len(q),
         NEW l, Joined(l, q, n)
  PROVE  Joined(l \o q[n + 1], q, n + 1)
<1> DEFINE t == q[n + 1]
           k == l \o t
<1>1. /\ l \in Seq(Nat) /\ t \in Seq(Nat) /\ Len(l) \in Nat /\ Len(t) \in Nat /\ n \in Nat
      /\ DOMAIN l = 1..Len(l) /\ DOMAIN t = 1..Len(t)
  BY DEF Joined
<1>2. /\ k \in Seq(Nat) /\ DOMAIN k = 1..(Len(l) + Len(t))
      /\ \A i \in DOMAIN l : i \in DOMAIN k /\ k[i] = l[i]
      /\ \A j \in DOMAIN t : Len(l) + j \in DOMAIN k /\ k[Len(l) + j] = t[j]
      /\ \A i \in DOMAIN k : i \in DOMAIN l \/ (i - Len(l) \in DOMAIN t /\ k[i] = t[i - Len(l)] /\ i > Len(l))
  <2> HIDE DEF t
  <2>1. k \in Seq(Nat) /\ Len(k) = Len(l) + Len(t) /\ DOMAIN k = 1..(Len(l) + Len(t))
    BY <1>1
  <2>2. \A i \in 1..(Len(l) + Len(t)) : k[i] = IF i <= Len(l) THEN l[i] ELSE t[i - Len(l)]
    BY <1>1
  <2> HIDE DEF k
  <2>3. ASSUME NEW i \in DOMAIN l PROVE i \in DOMAIN k /\ k[i] = l[i]
    <3>1. i \in 1..(Len(l) + Len(t)) /\ i <= Len(l)
      BY <1>1
    <3> QED
      BY <3>1, <2>1, <2>2
  <2>4. ASSUME NEW j \in DOMAIN t PROVE Len(l) + j \in DOMAIN k /\ k[Len(l) + j] = t[j]
    <3>1. Len(l) + j \in 1..(Len(l) + Len(t)) /\ ~(Len(l) + j <= Len(l)) /\ (Len(l) + j) - Len(l) = j
      BY <1>1
    <3>2. Len(l) + j \in DOMAIN k
      BY <3>1, <2>1
    <3>3. k[Len(l) + j] = t[(Len(l) + j) - Len(l)]
      BY <3>1, <2>2
    <3> QED
      BY <3>1, <3>2, <3>3
  <2>5. ASSUME NEW i \in DOMAIN k, i \notin DOMAIN l
        PROVE  i - Len(l) \in DOMAIN t /\ k[i] = t[i - Len(l)] /\ i > Len(l)
    <3>a. i \in 1..(Len(l) + Len(t)) /\ i \notin 1..Len(l)
      BY <1>1, <2>1, <2>5
    <3>b. Len(l) \in Nat /\ Len(t) \in Nat
      BY <1>1
    <3>c. i > Len(l) /\ i - Len(l) \in 1..Len(t)
      BY <3>a, <3>b
    <3>1. i \in 1..(Len(l) + Len(t)) /\ i > Len(l) /\ i - Len(l) \in DOMAIN t
      BY <1>1, <3>a, <3>c
    <3> QED
      BY <3>1, <2>2
  <2> QED
    BY <2>1, <2>3, <2>4, <2>5
<1>3. DOMAIN q = 1..Len(q) /\ Len(q) \in Nat
  OBVIOUS
<1>7. \A i \in DOMAIN l, j \in DOMAIN t : l[i] < t[j]
  <2> SUFFICES ASSUME NEW i \in DOMAIN l, NEW j \in DOMAIN t PROVE l[i] < t[j]
    OBVIOUS
  <2>1. PICK m \in 1..n : \E p \in DOMAIN q[m] : q[m][p] = l[i]
    BY DEF Joined
  <2>2. PICK p \in DOMAIN q[m] : q[m][p] = l[i]
    BY <2>1
  <2>3. m \in DOMAIN q /\ n + 1 \in DOMAIN q /\ m < n + 1
    BY <1>3
  <2> QED
    BY <2>2, <2>3 DEF Rising
<1>8. \A i, j \in DOMAIN t : i < j => t[i] < t[j]
  BY <1>3 DEF Rising
<1> HIDE DEF t, k
<1>4. ASSUME NEW i \in DOMAIN k, NEW j \in DOMAIN k, i < j
      PROVE  k[i] < k[j]
  <2>1. CASE i \in DOMAIN l /\ j \in DOMAIN l
    BY <2>1, <1>2, <1>4 DEF Joined
  <2>2. CASE i \in DOMAIN l /\ j \notin DOMAIN l
    BY <2>2, <1>2, <1>7
  <2>3. CASE i \notin DOMAIN l
    <3>1. j \notin DOMAIN l
      BY <2>3, <1>1, <1>2, <1>4
    <3>2. i - Len(l) < j - Len(l)
      BY <1>1, <1>2, <1>4
    <3> QED
      BY <3>1, <3>2, <2>3, <1>2, <1>8
  <2> QED
    BY <2>1, <2>2, <2>3
<1>5. ASSUME NEW i \in DOMAIN k
      PROVE  \E m \in 1..(n + 1) : \E j \in DOMAIN q[m] : q[m][j] = k[i]
  <2>1. CASE i \in DOMAIN l
    <3>1. PICK m \in 1..n : \E j \in DOMAIN q[m] : q[m][j] = l[i]
      BY <2>1 DEF Joined
    <3>2. m \in 1..(n + 1)
      BY <1>1
    <3> QED
      BY <2>1, <3>1, <3>2, <1>2
  <2>2. CASE i - Len(l) \in DOMAIN t /\ k[i] = t[i - Len(l)]
    <3>1. n + 1 \in 1..(n + 1)
      BY <1>1
    <3> QED
      BY <3>1, <2>2 DEF t
  <2> QED
    BY <2>1, <2>2, <1>2
<1>6. ASSUME NEW m \in 1..(n + 1), NEW j \in DOMAIN q[m]
      PROVE  \E i \in DOMAIN k : k[i] = q[m][j]
  <2>1. CASE m = n + 1
    BY <2>1, <1>2 DEF t
  <2>2. CASE m \in 1..n
    <3>1. PICK i \in DOMAIN l : l[i] = q[m][j]
      BY <2>2 DEF Joined
    <3> QED
      BY <3>1, <1>2
  <2> QED
    BY <2>1, <2>2, <1>1
<1>9. Joined(k, q, n + 1)
  BY <1>2, <1>4, <1>5, <1>6 DEF Joined
<1> QED
  BY <1>9 DEF k, t

LEMMA FlattenIs ==
  ASSUME NEW q \in Seq(Seq(Nat)), q # <<>>
  PROVE  \E h \in [1..Len(q) -> Seq(Nat)] :
           /\ FlattenSeq(q) = h[Len(q)] /\ h[1] = q[1]
           /\ \A i \in 2..Len(q) : h[i] = h[i - 1] \o q[i]
<1> DEFINE N == Len(q) - 1
           L == Seq(Nat)
           rule == [x \in (1..N) \X L |-> x[2] \o q[x[1] + 1]]
<1>1. N \in Nat /\ Len(q) = N + 1 /\ \A i \in 1..Len(q) : q[i] \in L
  OBVIOUS
<1>2. rule \in [(1..N) \X L -> L]
  <2>1. ASSUME NEW x \in (1..N) \X L PROVE x[2] \o q[x[1] + 1] \in L
    <3>1. x[2] \in L /\ q[x[1] + 1] \in L
      BY <1>1
    <3> QED
      BY <3>1
  <2> QED
    BY <2>1
<1>3. \A n \in 1..N, l \in L : rule[<<n, l>>] = l \o q[n + 1]
  OBVIOUS
<1>4. q[1] \in L
  BY <1>1
<1> HIDE DEF N, L, rule
<1>5. PICK f \in [0..N -> L] : Follows(f, q[1], rule, N)
  BY <1>1, <1>2, <1>4, Recursion
<1> DEFINE F(h) == h = [i \in 1..Len(q) |-> IF i = 1 THEN q[i] ELSE h[i - 1] \o q[i]]
           g == [i \in 1..Len(q) |-> f[i - 1]]
<1>6. F(g)
  <2>1. ASSUME NEW i \in 1..Len(q)
        PROVE  g[i] = IF i = 1 THEN q[i] ELSE g[i - 1] \o q[i]
    <3>1. CASE i = 1
      BY <3>1, <1>5, <1>1 DEF Follows
    <3>2. CASE i # 1
      <4>1. i - 1 \in 1..N /\ (i - 1) + 1 = i /\ i - 1 \in 1..Len(q) /\ (i - 1) - 1 \in 0..N
        BY <3>2, <1>1
      <4>2. f[i - 1] = rule[<<i - 1, f[(i - 1) - 1]>>]
        BY <4>1, <1>5 DEF Follows
      <4>3. rule[<<i - 1, f[(i - 1) - 1]>>] = f[(i - 1) - 1] \o q[(i - 1) + 1]
        BY <4>1, <1>3, <1>5
      <4> QED
        BY <3>2, <4>1, <4>2, <4>3
    <3> QED
      BY <3>1, <3>2
  <2> QED
    BY <2>1
<1> DEFINE h == CHOOSE h : F(h)
<1>7. F(h)
  BY <1>6
<1>8. FlattenSeq(q) = h[Len(q)]
  BY <1>1 DEF FlattenSeq
<1> HIDE DEF h
<1>9. h[1] = q[1] /\ \A i \in 2..Len(q) : h[i] = h[i - 1] \o q[i]
  <2>1. \A i \in 1..Len(q) : h[i] = IF i = 1 THEN q[i] ELSE h[i - 1] \o q[i]
    BY <1>7, Zenon
  <2>2. 1 \in 1..Len(q) /\ \A i \in 2..Len(q) : i \in 1..Len(q) /\ i # 1
    BY <1>1
  <2> QED
    BY <2>1, <2>2
<1>10. ASSUME NEW i \in 1..Len(q) PROVE h[i] \in L
  <2> DEFINE T == {n \in 0..N : \A m \in 0..n : h[m + 1] \in L}
  <2>1. 0 \in T
    BY <1>1, <1>4, <1>9
  <2>2. ASSUME NEW n \in T, n < N PROVE n + 1 \in T
    <3>1. /\ n + 2 \in 2..Len(q) /\ n + 2 \in 1..Len(q) /\ (n + 2) - 1 = n + 1 /\ n \in Nat
          /\ h[n + 1] \in L /\ n + 1 \in 0..N
      BY <2>2, <1>1
    <3>2. h[n + 2] \in L
      <4>1. q[n + 2] \in L /\ h[n + 2] = h[n + 1] \o q[n + 2]
        BY <3>1, <1>1, <1>9
      <4>2. \A a, b \in L : a \o b \in L
        BY DEF L
      <4> QED
        BY <4>1, <4>2, <3>1
    <3>3. ASSUME NEW m \in 0..(n + 1) PROVE h[m + 1] \in L
      <4>1. m \in 0..n \/ m + 1 = n + 2
        BY <3>1
      <4> QED
        BY <4>1, <3>2, <2>2
    <3> QED
      BY <3>1, <3>3
  <2>3. T \in SUBSET (0..N)
    OBVIOUS
  <2> HIDE DEF T
  <2>4. N \in T
    BY <2>1, <2>2, <2>3, <1>1, Climb
  <2>5. i - 1 \in 0..N /\ (i - 1) + 1 = i
    BY <1>1
  <2> QED
    BY <2>4, <2>5 DEF T
<1>11. h \in [1..Len(q) -> L]
  BY <1>7, <1>10
<1> QED
  BY <1>8, <1>9, <1>11 DEF L

LEMMA FlattenJoins ==
  ASSUME NEW q \in Seq(Seq(Nat)), q # <<>>, Rising(q)
  PROVE  Joined(FlattenSeq(q), q, Len(q))
<1> DEFINE N == Len(q) - 1
<1>1. N \in Nat /\ Len(q) = N + 1 /\ \A i \in 1..Len(q) : q[i] \in Seq(Nat)
  OBVIOUS
<1>2. PICK h \in [1..Len(q) -> Seq(Nat)] :
        /\ FlattenSeq(q) = h[Len(q)] /\ h[1] = q[1]
        /\ \A i \in 2..Len(q) : h[i] = h[i - 1] \o q[i]
  BY FlattenIs
<1> DEFINE T == {n \in 0..N : Joined(h[n + 1], q, n + 1)}
<1>3. 0 \in T
  <2>1. DOMAIN q = 1..Len(q) /\ 1 \in 1..Len(q)
    BY <1>1
  <2>2. Joined(q[1], q, 1)
    <3>1. \A i, j \in DOMAIN q[1] : i < j => q[1][i] < q[1][j]
      BY <2>1 DEF Rising
    <3>2. 1 \in 1..1 /\ \A m \in 1..1 : m = 1
      OBVIOUS
    <3> QED
      BY <3>1, <3>2, <2>1, <1>1 DEF Joined
  <2>3. 0 \in 0..N /\ 0 + 1 = 1
    BY <1>1
  <2> QED
    BY <2>2, <2>3, <1>2
<1>4. ASSUME NEW n \in T, n < N PROVE n + 1 \in T
  <2>1. /\ n + 1 \in 1..Len(q) /\ (n + 1) + 1 \in 2..Len(q) /\ n + 1 \in 0..N
        /\ ((n + 1) + 1) - 1 = n + 1
    BY <1>4, <1>1
  <2>2. h[(n + 1) + 1] = h[n + 1] \o q[(n + 1) + 1]
    BY <2>1, <1>2
  <2>3. Joined(h[n + 1] \o q[(n + 1) + 1], q, (n + 1) + 1)
    <3>1. Joined(h[n + 1], q, n + 1) /\ (n + 1) + 1 \in 1..Len(q)
      BY <1>4, <2>1
    <3> QED
      BY <3>1, <2>1, JoinOne
  <2> QED
    BY <2>1, <2>2, <2>3
<1> HIDE DEF T
<1>5. T \in SUBSET (0..N)
  BY DEF T
<1>6. N \in T
  BY <1>1, <1>3, <1>4, <1>5, Climb
<1> QED
  BY <1>6, <1>1, <1>2 DEF T

\* splitReply: at most MAX_CHUNKS messages, not empty, rising, with all the words.
LEMMA SplitReplySorts ==
  ASSUME NEW d \in Seq(Lines)
  PROVE  /\ Partition(SplitReply(d), WordsIn(d, Len(d)))
         /\ Len(SplitReply(d)) <= MaxMessages
<1> DEFINE p == Spans(d)
           W == WordsIn(d, Len(d))
<1>1. Partition(p, W)
  BY SpansSort
<1>2. MaxMessages \in Nat /\ MaxMessages >= 1
  BY EgressAssumption
<1>3. CASE Len(p) <= MaxMessages
  BY <1>1, <1>3 DEF SplitReply
<1>4. CASE ~(Len(p) <= MaxMessages)
  <2> DEFINE h == SubSeq(p, 1, MaxMessages - 1)
             q == SubSeq(p, MaxMessages, Len(p))
             l == FlattenSeq(q)
             r == Append(h, l)
  <2>1. SplitReply(d) = r
    BY <1>4 DEF SplitReply
  <2> HIDE DEF p, W
  <2>2. p \in Seq(Seq(Nat)) /\ Len(p) \in Nat /\ Len(p) > MaxMessages /\ DOMAIN p = 1..Len(p)
    BY <1>1, <1>2, <1>4 DEF Partition
  <2>3. /\ q \in Seq(Seq(Nat)) /\ Len(q) = Len(p) - MaxMessages + 1 /\ DOMAIN q = 1..Len(q) /\ Len(q) \in Nat
        /\ \A i \in 1..Len(q) : q[i] = p[MaxMessages + i - 1]
    <3>1. /\ MaxMessages \in Int /\ Len(p) \in Int /\ MaxMessages <= Len(p)
          /\ \A i \in MaxMessages..Len(p) : p[i] \in Seq(Nat)
      BY <2>2, <1>2
    <3>2. /\ q \in Seq(Seq(Nat)) /\ Len(q) = Len(p) - MaxMessages + 1
          /\ \A i \in 1..(Len(p) - MaxMessages + 1) : q[i] = p[MaxMessages + i - 1]
      BY <3>1, SubSeqProperties
    <3> HIDE DEF q
    <3> QED
      BY <3>2
  <2>4. /\ h \in Seq(Seq(Nat)) /\ Len(h) = MaxMessages - 1 /\ DOMAIN h = 1..(MaxMessages - 1)
        /\ \A i \in 1..(MaxMessages - 1) : h[i] = p[i]
    <3>1. /\ 1 \in Int /\ MaxMessages - 1 \in Int /\ MaxMessages - 1 - 1 + 1 = MaxMessages - 1
          /\ (IF 1 <= MaxMessages - 1 THEN MaxMessages - 1 - 1 + 1 ELSE 0) = MaxMessages - 1
          /\ \A i \in 1..(MaxMessages - 1) : p[i] \in Seq(Nat) /\ 1 + i - 1 = i
      BY <2>2, <1>2
    <3>2. /\ h \in Seq(Seq(Nat)) /\ Len(h) = MaxMessages - 1
          /\ \A i \in 1..(MaxMessages - 1) : h[i] = p[i]
      BY <3>1, SubSeqProperties
    <3> HIDE DEF h
    <3> QED
      BY <3>2
  <2> HIDE DEF h, q
  <2>5. \A i \in DOMAIN q : MaxMessages + i - 1 \in DOMAIN p /\ q[i] = p[MaxMessages + i - 1]
    <3> SUFFICES ASSUME NEW i \in 1..Len(q)
                 PROVE  MaxMessages + i - 1 \in DOMAIN p /\ q[i] = p[MaxMessages + i - 1]
      BY <2>3
    <3>1. i \in Int /\ 1 <= i /\ i <= Len(p) - MaxMessages + 1
      BY <2>2, <2>3, <1>2
    <3>2. MaxMessages + i - 1 \in 1..Len(p)
      BY <3>1, <2>2, <1>2
    <3> QED
      BY <3>2, <2>2, <2>3
  <2>6. Rising(q)
    <3> SUFFICES ASSUME NEW m \in DOMAIN q, NEW n \in DOMAIN q, NEW i \in DOMAIN q[m], NEW j \in DOMAIN q[n],
                        m < n \/ (m = n /\ i < j)
                 PROVE  q[m][i] < q[n][j]
      BY DEF Rising
    <3>a. m \in 1..Len(q) /\ n \in 1..Len(q)
      BY <2>3
    <3>b. m \in Int /\ n \in Int /\ MaxMessages \in Int
      BY <3>a, <1>2
    <3>c. m < n => MaxMessages + m - 1 < MaxMessages + n - 1
      BY <3>b
    <3>1. MaxMessages + m - 1 < MaxMessages + n - 1 \/ (MaxMessages + m - 1 = MaxMessages + n - 1 /\ i < j)
      BY <3>c
    <3> QED
      BY <3>1, <2>5, <1>1 DEF Partition, Rising
  <2>7. Joined(l, q, Len(q))
    <3>1. q # <<>>
      BY <2>2, <2>3, <1>2
    <3> QED
      BY <3>1, <2>3, <2>6, FlattenJoins
  <2> HIDE DEF l
  <2>8. /\ r \in Seq(Seq(Nat)) /\ Len(r) = MaxMessages /\ DOMAIN r = 1..MaxMessages /\ r[MaxMessages] = l
        /\ \A m \in 1..(MaxMessages - 1) : r[m] = p[m]
    <3>1. l \in Seq(Nat)
      BY <2>7 DEF Joined
    <3> QED
      BY <3>1, <2>4, <1>2
  <2> HIDE DEF r
  <2>9. \A m \in DOMAIN r : m = MaxMessages \/ (m \in 1..(MaxMessages - 1) /\ m \in DOMAIN p /\ r[m] = p[m])
    <3> SUFFICES ASSUME NEW m \in 1..MaxMessages, m # MaxMessages
                 PROVE  m \in 1..(MaxMessages - 1) /\ m \in DOMAIN p /\ r[m] = p[m]
      BY <2>8
    <3>1. m \in 1..(MaxMessages - 1)
      BY <1>2
    <3>2. m \in 1..Len(p)
      BY <2>2, <1>2
    <3> QED
      BY <3>1, <3>2, <2>2, <2>8
  <2>10. \A i \in DOMAIN l : \E n \in DOMAIN p : n >= MaxMessages /\ \E j \in DOMAIN p[n] : p[n][j] = l[i]
    <3> SUFFICES ASSUME NEW i \in DOMAIN l
                 PROVE  \E n \in DOMAIN p : n >= MaxMessages /\ \E j \in DOMAIN p[n] : p[n][j] = l[i]
      OBVIOUS
    <3>1. PICK m \in 1..Len(q) : \E j \in DOMAIN q[m] : q[m][j] = l[i]
      BY <2>7 DEF Joined
    <3>2. MaxMessages + m - 1 \in DOMAIN p /\ q[m] = p[MaxMessages + m - 1] /\ MaxMessages + m - 1 >= MaxMessages
      <4>1. m \in DOMAIN q /\ m \in Int /\ m >= 1
        BY <2>3
      <4> QED
        BY <4>1, <2>5, <1>2
    <3> QED
      BY <3>1, <3>2
  <2>11. \A n \in DOMAIN p : n >= MaxMessages => \A j \in DOMAIN p[n] : \E i \in DOMAIN l : l[i] = p[n][j]
    <3> SUFFICES ASSUME NEW n \in DOMAIN p, n >= MaxMessages, NEW j \in DOMAIN p[n]
                 PROVE  \E i \in DOMAIN l : l[i] = p[n][j]
      OBVIOUS
    <3> DEFINE m == n - MaxMessages + 1
    <3>1. m \in 1..Len(q) /\ MaxMessages + m - 1 = n
      <4>1. n \in 1..Len(p)
        BY <2>2
      <4>2. m \in 1..(Len(p) - MaxMessages + 1) /\ MaxMessages + m - 1 = n
        BY <4>1, <2>2, <1>2
      <4> QED
        BY <4>2, <2>3
    <3> HIDE DEF m
    <3>2. q[m] = p[n]
      BY <3>1, <2>3
    <3> QED
      BY <3>1, <3>2, <2>7 DEF Joined
  <2>12. Rising(r)
    <3> SUFFICES ASSUME NEW m \in DOMAIN r, NEW n \in DOMAIN r, NEW i \in DOMAIN r[m], NEW j \in DOMAIN r[n],
                        m < n \/ (m = n /\ i < j)
                 PROVE  r[m][i] < r[n][j]
      BY DEF Rising
    <3>1. CASE m # MaxMessages /\ n # MaxMessages
      BY <3>1, <2>9, <1>1 DEF Partition, Rising
    <3>2. CASE m # MaxMessages /\ n = MaxMessages
      <4>1. j \in DOMAIN l /\ r[n] = l /\ m \in DOMAIN p /\ r[m] = p[m] /\ m < MaxMessages
        BY <3>2, <2>8, <2>9, <1>2
      <4>2. PICK k \in DOMAIN p : k >= MaxMessages /\ \E x \in DOMAIN p[k] : p[k][x] = l[j]
        BY <4>1, <2>10
      <4>3. PICK x \in DOMAIN p[k] : p[k][x] = l[j]
        BY <4>2
      <4>4. m < k
        BY <4>1, <4>2, <2>2, <1>2
      <4>5. p[m][i] < p[k][x]
        BY <4>1, <4>4, <1>1 DEF Partition, Rising
      <4> QED
        BY <4>1, <4>3, <4>5
    <3>3. CASE m = MaxMessages
      <4>1. n = MaxMessages
        BY <3>3, <2>8, <1>2
      <4> QED
        BY <3>3, <4>1, <2>7, <2>8, <1>2 DEF Joined
    <3> QED
      BY <3>1, <3>2, <3>3
  <2>13. \A m \in DOMAIN r : r[m] # <<>>
    <3>1. l # <<>>
      <4>1. MaxMessages \in DOMAIN p
        BY <2>2, <1>2
      <4>2. p[MaxMessages] # <<>> /\ p[MaxMessages] \in Seq(Nat)
        BY <4>1, <1>1, <2>2 DEF Partition
      <4>3. 1 \in DOMAIN p[MaxMessages]
        BY <4>2
      <4>4. \E i \in DOMAIN l : TRUE
        BY <4>1, <4>3, <2>11, <1>2
      <4> QED
        BY <4>4
    <3> QED
      BY <3>1, <2>8, <2>9, <1>1 DEF Partition
  <2>14. Holds(r, W)
    <3>1. ASSUME NEW m \in DOMAIN r, NEW i \in DOMAIN r[m] PROVE r[m][i] \in W
      <4>1. CASE m = MaxMessages
        BY <4>1, <2>8, <2>10, <1>1 DEF Partition, Holds
      <4>2. CASE m # MaxMessages
        BY <4>2, <2>9, <1>1 DEF Partition, Holds
      <4> QED
        BY <4>1, <4>2
    <3>2. ASSUME NEW w \in W PROVE \E m \in DOMAIN r : \E i \in DOMAIN r[m] : r[m][i] = w
      <4>1. PICK n \in DOMAIN p : \E i \in DOMAIN p[n] : p[n][i] = w
        BY <1>1 DEF Partition, Holds
      <4>2. CASE n >= MaxMessages
        <5>1. PICK i \in DOMAIN l : l[i] = w
          BY <4>1, <4>2, <2>11
        <5>2. MaxMessages \in DOMAIN r
          BY <2>8, <1>2
        <5> QED
          BY <5>1, <5>2, <2>8
      <4>3. CASE n < MaxMessages
        <5>1. n \in 1..(MaxMessages - 1) /\ n \in DOMAIN r
          BY <4>3, <2>2, <2>8, <1>2
        <5> QED
          BY <4>1, <5>1, <2>8
      <4> QED
        BY <4>2, <4>3, <2>2, <1>2
    <3> QED
      BY <3>1, <3>2 DEF Holds
  <2>15. Partition(r, W) /\ Len(r) <= MaxMessages
    BY <2>8, <2>12, <2>13, <2>14, <1>2 DEF Partition
  <2> QED
    BY <2>1, <2>15 DEF W
<1> QED
  BY <1>3, <1>4

-----------------------------------------------------------------------------
(* The pictures of a reply.                                                *)

\* The first time that a link is there.
FirstCode(d, i) == d[i] \in Code /\ \A j \in 1..(i - 1) : d[j] # d[i]

LEMMA CollectingIs ==
  ASSUME NEW d \in Seq(Lines)
  PROVE  /\ Collecting(d) \in [0..Len(d) -> Seq(Nat)]
         /\ Collecting(d)[0] = <<>>
         /\ \A n \in 1..Len(d) :
              Collecting(d)[n] = IF FirstCode(d, n) THEN Append(Collecting(d)[n - 1], n)
                                 ELSE Collecting(d)[n - 1]
<1> DEFINE N == Len(d)
           L == Seq(Nat)
           one(n, l) == IF FirstCode(d, n) THEN Append(l, n) ELSE l
           rule == [x \in (1..N) \X L |-> one(x[1], x[2])]
<1>1. N \in Nat /\ <<>> \in L
  OBVIOUS
<1>2. \A n \in 1..N, l \in L : one(n, l) \in L
  BY <1>1
<1>3. rule \in [(1..N) \X L -> L] /\ \A n \in 1..N, l \in L : rule[<<n, l>>] = one(n, l)
  BY <1>2
<1> HIDE DEF N, L, rule
<1>4. PICK f \in [0..N -> L] : Follows(f, <<>>, rule, N)
  BY <1>1, <1>3, Recursion
<1> DEFINE F(g) == g = [n \in 0..N |-> IF n = 0 THEN <<>> ELSE one(n, g[n - 1])]
<1>5. F(f)
  <2>1. ASSUME NEW n \in 0..N
        PROVE  f[n] = IF n = 0 THEN <<>> ELSE one(n, f[n - 1])
    <3>1. CASE n = 0
      BY <3>1, <1>4 DEF Follows
    <3>2. CASE n # 0
      <4>1. n \in 1..N /\ n - 1 \in 0..N
        BY <3>2, <1>1
      <4>2. f[n] = rule[<<n, f[n - 1]>>] /\ f[n - 1] \in L
        BY <4>1, <1>4 DEF Follows
      <4> QED
        BY <4>1, <4>2, <3>2, <1>3
    <3> QED
      BY <3>1, <3>2
  <2> QED
    BY <2>1, <1>4
<1> DEFINE a == Collecting(d)
<1>6. a = CHOOSE g : F(g)
  BY DEF Collecting, FirstCode, N
<1>7. F(a)
  BY <1>5, <1>6
<1> HIDE DEF a
<1>8. a[0] = <<>>
  BY <1>1, <1>7
<1>9. ASSUME NEW n \in 1..N PROVE a[n] = one(n, a[n - 1])
  <2>1. \A k \in 0..N : a[k] = IF k = 0 THEN <<>> ELSE one(k, a[k - 1])
    BY <1>7, Zenon
  <2>2. n \in 0..N /\ n # 0
    BY <1>1
  <2> QED
    BY <2>1, <2>2
<1>10. ASSUME NEW m \in 0..N PROVE a[m] \in L
  <2> DEFINE T == {n \in 0..N : \A k \in 0..n : a[k] \in L}
  <2>1. 0 \in T
    BY <1>8, <1>1
  <2>2. ASSUME NEW n \in T, n < N PROVE n + 1 \in T
    <3>1. n + 1 \in 1..N /\ a[n] \in L /\ n \in Nat /\ (n + 1) - 1 = n /\ n + 1 \in 0..N
      BY <2>2, <1>1
    <3>2. a[n + 1] \in L
      BY <3>1, <1>9, <1>2
    <3>3. ASSUME NEW k \in 0..(n + 1) PROVE a[k] \in L
      <4>1. k \in 0..n \/ k = n + 1
        BY <3>1
      <4> QED
        BY <4>1, <3>2, <2>2
    <3> QED
      BY <3>1, <3>3
  <2>3. T \in SUBSET (0..N)
    OBVIOUS
  <2> HIDE DEF T
  <2>4. N \in T
    BY <2>1, <2>2, <2>3, <1>1, Climb
  <2> QED
    BY <2>4 DEF T
<1>11. a \in [0..N -> L]
  BY <1>7, <1>10
<1> QED
  BY <1>8, <1>9, <1>11 DEF a, N, L

\* c holds the first places of the links among the first n lines, in their order.
Collected(c, d, n) ==
  /\ c \in Seq(Nat)
  /\ \A i, j \in DOMAIN c : i < j => c[i] < c[j]
  /\ \A i \in DOMAIN c : c[i] \in 1..n /\ FirstCode(d, c[i])
  /\ \A i \in 1..n : d[i] \in Code => \E k \in DOMAIN c : c[k] <= i /\ d[c[k]] = d[i]

LEMMA CollectOne ==
  ASSUME NEW d, NEW n \in Nat, NEW c, Collected(c, d, n)
  PROVE  Collected(IF FirstCode(d, n + 1) THEN Append(c, n + 1) ELSE c, d, n + 1)
<1>0. (n + 1) - 1 = n /\ n + 1 \in 1..(n + 1) /\ \A i \in 1..n : i \in 1..(n + 1)
  OBVIOUS
<1>1. CASE FirstCode(d, n + 1)
  <2> DEFINE e == Append(c, n + 1)
  <2>1. /\ e \in Seq(Nat) /\ DOMAIN e = 1..(Len(c) + 1) /\ DOMAIN c = 1..Len(c) /\ Len(c) \in Nat
        /\ e[Len(c) + 1] = n + 1
        /\ \A j \in DOMAIN c : j \in DOMAIN e /\ e[j] = c[j]
    BY DEF Collected
  <2>2. \A j \in DOMAIN e : j \in DOMAIN c \/ j = Len(c) + 1
    BY <2>1
  <2>3. \A i \in DOMAIN c : c[i] \in 1..n /\ c[i] < n + 1
    BY DEF Collected
  <2> HIDE DEF e
  <2>4. ASSUME NEW i \in DOMAIN e, NEW j \in DOMAIN e, i < j PROVE e[i] < e[j]
    <3>1. i \in DOMAIN c
      BY <2>1, <2>4
    <3>2. CASE j \in DOMAIN c
      BY <3>1, <3>2, <2>1, <2>4 DEF Collected
    <3>3. CASE j = Len(c) + 1
      BY <3>1, <3>3, <2>1, <2>3
    <3> QED
      BY <3>2, <3>3, <2>2
  <2>5. ASSUME NEW i \in DOMAIN e PROVE e[i] \in 1..(n + 1) /\ FirstCode(d, e[i])
    <3>1. CASE i \in DOMAIN c
      BY <3>1, <2>1, <1>0 DEF Collected
    <3>2. CASE i = Len(c) + 1
      BY <3>2, <2>1, <1>0, <1>1
    <3> QED
      BY <3>1, <3>2, <2>2
  <2>6. ASSUME NEW i \in 1..(n + 1), d[i] \in Code
        PROVE  \E k \in DOMAIN e : e[k] <= i /\ d[e[k]] = d[i]
    <3>1. CASE i \in 1..n
      <4>1. PICK k \in DOMAIN c : c[k] <= i /\ d[c[k]] = d[i]
        BY <2>6, <3>1 DEF Collected
      <4> QED
        BY <4>1, <2>1
    <3>2. CASE i = n + 1
      <4>1. Len(c) + 1 \in DOMAIN e /\ e[Len(c) + 1] <= i
        BY <2>1, <3>2
      <4> QED
        BY <4>1, <3>2, <2>1
    <3> QED
      BY <3>1, <3>2
  <2>7. Collected(e, d, n + 1)
    BY <2>1, <2>4, <2>5, <2>6 DEF Collected
  <2> QED
    BY <2>7, <1>1 DEF e
<1>2. CASE ~FirstCode(d, n + 1)
  <2>1. ASSUME NEW i \in 1..(n + 1), d[i] \in Code
        PROVE  \E k \in DOMAIN c : c[k] <= i /\ d[c[k]] = d[i]
    <3>1. CASE i \in 1..n
      BY <2>1, <3>1 DEF Collected
    <3>2. CASE i = n + 1
      <4>1. PICK j \in 1..n : d[j] = d[i]
        BY <3>2, <2>1, <1>0, <1>2 DEF FirstCode
      <4>2. PICK k \in DOMAIN c : c[k] <= j /\ d[c[k]] = d[j]
        BY <4>1, <2>1 DEF Collected
      <4>3. c[k] \in Nat
        BY DEF Collected
      <4>4. c[k] <= i
        BY <4>1, <4>2, <4>3, <3>2
      <4> QED
        BY <4>1, <4>2, <4>4
    <3> QED
      BY <3>1, <3>2
  <2> QED
    BY <2>1, <1>0, <1>2 DEF Collected
<1> QED
  BY <1>1, <1>2

LEMMA PicturedCollects ==
  ASSUME NEW d \in Seq(Lines)
  PROVE  Collected(Pictured(d), d, Len(d))
<1> DEFINE N == Len(d)
           a == Collecting(d)
           T == {n \in 0..N : Collected(a[n], d, n)}
<1>1. N \in Nat
  OBVIOUS
<1>2. 0 \in T
  <2> HIDE DEF a
  <2>1. a[0] = <<>> /\ <<>> \in Seq(Nat) /\ DOMAIN <<>> = {}
    BY CollectingIs DEF a
  <2>2. \A i \in 1..0 : FALSE
    OBVIOUS
  <2>3. Collected(a[0], d, 0)
    BY <2>1, <2>2, Zenon DEF Collected
  <2> QED
    BY <2>3, <1>1
<1>3. ASSUME NEW n \in T, n < N PROVE n + 1 \in T
  <2>1. n \in Nat /\ n + 1 \in 1..N /\ (n + 1) - 1 = n /\ n + 1 \in 0..N
    BY <1>3, <1>1
  <2>2. a[n + 1] = IF FirstCode(d, n + 1) THEN Append(a[n], n + 1) ELSE a[n]
    BY <2>1, CollectingIs
  <2> HIDE DEF a
  <2>3. Collected(a[n + 1], d, n + 1)
    BY <2>1, <2>2, <1>3, CollectOne
  <2> QED
    BY <2>1, <2>3
<1> HIDE DEF T
<1>4. T \in SUBSET (0..N)
  BY DEF T
<1>5. N \in T
  BY <1>1, <1>2, <1>3, <1>4, Climb
<1> QED
  BY <1>5 DEF T, Pictured

-----------------------------------------------------------------------------
(* The parts of a reply.                                                   *)

Part == [kind : {"text", "image", "link"}, lines : Seq(Nat), cut : BOOLEAN]

LEMMA TextPartIs ==
  ASSUME NEW l \in Seq(Nat), l # <<>>
  PROVE  /\ TextPart(l) \in Part /\ TextPart(l).kind = "text"
         /\ Len(TextPart(l).lines) \in 1..Len(l) /\ DOMAIN TextPart(l).lines = 1..Len(TextPart(l).lines)
         /\ \A i \in DOMAIN TextPart(l).lines : i \in DOMAIN l /\ TextPart(l).lines[i] = l[i]
         /\ Len(TextPart(l).lines) < Len(l) => TextPart(l).cut
<1>1. Len(l) \in Nat /\ Len(l) > 0 /\ DOMAIN l = 1..Len(l)
  OBVIOUS
<1>2. ChannelLimit \in Nat /\ ChannelLimit >= 1
  BY EgressAssumption
<1> DEFINE m == [kind |-> "text", lines |-> l, cut |-> FALSE]
<1>3. CASE Len(l) <= ChannelLimit
  <2>1. TextPart(l) = m
    BY <1>3 DEF TextPart, Cap
  <2> QED
    BY <2>1, <1>1 DEF Part
<1>4. CASE ~(Len(l) <= ChannelLimit)
  <2> DEFINE k == SubSeq(l, 1, ChannelLimit)
  <2>1. TextPart(l) = [kind |-> "text", lines |-> k, cut |-> TRUE]
    BY <1>4 DEF TextPart, Cap
  <2>2. /\ k \in Seq(Nat) /\ Len(k) = ChannelLimit /\ DOMAIN k = 1..ChannelLimit
        /\ \A i \in 1..ChannelLimit : i \in DOMAIN l /\ k[i] = l[i]
    BY <1>1, <1>2, <1>4
  <2> HIDE DEF k
  <2> QED
    BY <2>1, <2>2, <1>1, <1>2, <1>4 DEF Part
<1> QED
  BY <1>3, <1>4

PartsDef(d, P, Q, C) ==
  /\ P \in Seq(Part) /\ Len(P) = Len(Q) + Len(C)
  /\ \A k \in 1..Len(Q) : P[k] = TextPart(Q[k])
  /\ \A k \in 1..Len(C) : P[Len(Q) + k] = PicturePart(C[k])

LEMMA PartsAre ==
  ASSUME NEW d \in Seq(Lines)
  PROVE  PartsDef(d, Parts(d), SplitReply(d), Pictured(d))
<1> DEFINE Q == SplitReply(d)
           C == Pictured(d)
           T == [i \in DOMAIN Q |-> TextPart(Q[i])]
           I == [i \in DOMAIN C |-> PicturePart(C[i])]
           P == T \o I
<1>1. Q \in Seq(Seq(Nat)) /\ \A m \in DOMAIN Q : Q[m] # <<>>
  BY SplitReplySorts DEF Partition
<1>2. C \in Seq(Nat)
  BY PicturedCollects DEF Collected
<1>3. Parts(d) = P
  BY DEF Parts
<1> HIDE DEF Q, C
<1>4. DOMAIN Q = 1..Len(Q) /\ Len(Q) \in Nat /\ DOMAIN C = 1..Len(C) /\ Len(C) \in Nat
  BY <1>1, <1>2
<1>5. T \in Seq(Part) /\ Len(T) = Len(Q) /\ \A k \in 1..Len(Q) : T[k] = TextPart(Q[k])
  <2>1. ASSUME NEW i \in 1..Len(Q) PROVE TextPart(Q[i]) \in Part
    <3>1. i \in DOMAIN Q /\ Q[i] \in Seq(Nat)
      BY <1>1, <1>4
    <3>2. Q[i] # <<>>
      BY <3>1, <1>1
    <3> QED
      BY <3>1, <3>2, TextPartIs
  <2> QED
    BY <2>1, <1>4
<1>6. I \in Seq(Part) /\ Len(I) = Len(C) /\ \A k \in 1..Len(C) : I[k] = PicturePart(C[k])
  <2>1. \A i \in 1..Len(C) : PicturePart(C[i]) \in Part
    BY <1>2, <1>4 DEF PicturePart, Part
  <2> QED
    BY <2>1, <1>4
<1> HIDE DEF T, I
<1>7. /\ P \in Seq(Part) /\ Len(P) = Len(Q) + Len(C)
      /\ \A k \in 1..Len(Q) : P[k] = T[k]
      /\ \A k \in 1..Len(C) : P[Len(Q) + k] = I[k]
  <2>0. T \in Seq(Part) /\ I \in Seq(Part)
    BY <1>5, <1>6
  <2>1. P \in Seq(Part) /\ Len(P) = Len(Q) + Len(C)
    <3>1. P \in Seq(Part) /\ Len(P) = Len(T) + Len(I)
      BY <2>0
    <3> QED
      BY <3>1, <1>5, <1>6
  <2>2. \A k \in 1..(Len(T) + Len(I)) : P[k] = IF k <= Len(T) THEN T[k] ELSE I[k - Len(T)]
    BY <2>0
  <2> HIDE DEF P
  <2>3. ASSUME NEW k \in 1..Len(Q) PROVE P[k] = T[k]
    BY <2>2, <1>4, <1>5, <1>6
  <2>4. ASSUME NEW k \in 1..Len(C) PROVE P[Len(Q) + k] = I[k]
    <3>1. Len(Q) + k \in 1..(Len(T) + Len(I)) /\ ~(Len(Q) + k <= Len(T)) /\ (Len(Q) + k) - Len(T) = k
      BY <1>4, <1>5, <1>6
    <3> QED
      BY <3>1, <2>2
  <2> QED
    BY <2>1, <2>3, <2>4
<1>8. PartsDef(d, P, Q, C)
  BY <1>5, <1>6, <1>7 DEF PartsDef
<1> QED
  BY <1>3, <1>8 DEF Q, C

\* What the parts of a reply hold, the first b of them its messages.
LineOf(p)  == p.lines[1]

Ordered(d, P, b) ==
  /\ P \in Seq(Part) /\ b \in 0..Len(P) /\ b <= MaxMessages
  /\ \A k \in DOMAIN P : P[k].lines # <<>> /\ P[k].kind = IF k <= b THEN "text" ELSE "image"
  /\ \A k \in 1..b : \A i \in DOMAIN P[k].lines : P[k].lines[i] \in WordsIn(d, Len(d))
  /\ \A k \in 1..b, n \in 1..b : \A i \in DOMAIN P[k].lines, j \in DOMAIN P[n].lines :
       k < n \/ (k = n /\ i < j) => P[k].lines[i] < P[n].lines[j]
  /\ \A k \in (b + 1)..Len(P) : Len(P[k].lines) = 1 /\ LineOf(P[k]) \in 1..Len(d) /\ FirstCode(d, LineOf(P[k]))
  /\ \A k, n \in (b + 1)..Len(P) : k < n => LineOf(P[k]) < LineOf(P[n])
  /\ \A i \in 1..Len(d) : d[i] \in Code =>
       \E k \in (b + 1)..Len(P) : LineOf(P[k]) <= i /\ d[LineOf(P[k])] = d[i]

LEMMA PartsOrdered ==
  ASSUME NEW d \in Seq(Lines)
  PROVE  Ordered(d, Parts(d), Len(SplitReply(d)))
<1> DEFINE P == Parts(d)
           Q == SplitReply(d)
           C == Pictured(d)
           b == Len(Q)
           W == WordsIn(d, Len(d))
<1>1. Partition(Q, W) /\ Len(Q) <= MaxMessages
  BY SplitReplySorts
<1>2. Collected(C, d, Len(d))
  BY PicturedCollects
<1>3. PartsDef(d, P, Q, C)
  BY PartsAre
<1> HIDE DEF P, Q, C, W
<1>4. /\ Q \in Seq(Seq(Nat)) /\ C \in Seq(Nat) /\ P \in Seq(Part)
      /\ b \in Nat /\ Len(C) \in Nat /\ Len(P) = b + Len(C)
      /\ DOMAIN Q = 1..b /\ DOMAIN C = 1..Len(C) /\ DOMAIN P = 1..Len(P)
  BY <1>1, <1>2, <1>3 DEF Partition, Collected, PartsDef
<1> HIDE DEF b
<1>5. ASSUME NEW k \in 1..b
      PROVE  /\ P[k].lines # <<>> /\ P[k].kind = "text" /\ k \in DOMAIN Q
             /\ \A i \in DOMAIN P[k].lines : i \in DOMAIN Q[k] /\ P[k].lines[i] = Q[k][i]
  <2>a. P[k] = TextPart(Q[k])
    BY <1>3, <1>4 DEF PartsDef, b
  <2>b. k \in DOMAIN Q
    BY <1>4
  <2>c. Q[k] \in Seq(Nat) /\ Q[k] # <<>>
    <3>1. \A j \in DOMAIN Q : Q[j] \in Seq(Nat) /\ Q[j] # <<>>
      BY <1>1 DEF Partition
    <3> QED
      BY <2>b, <3>1
  <2>1. P[k] = TextPart(Q[k]) /\ Q[k] \in Seq(Nat) /\ Q[k] # <<>>
    BY <2>a, <2>c
  <2>2. /\ TextPart(Q[k]).kind = "text" /\ Len(TextPart(Q[k]).lines) \in 1..Len(Q[k])
        /\ TextPart(Q[k]) \in Part
        /\ \A i \in DOMAIN TextPart(Q[k]).lines : i \in DOMAIN Q[k] /\ TextPart(Q[k]).lines[i] = Q[k][i]
    BY <2>1, TextPartIs
  <2>3. TextPart(Q[k]).lines # <<>>
    BY <2>1, <2>2
  <2> QED
    BY <2>1, <2>2, <2>3, <1>4
<1>6. ASSUME NEW k \in (b + 1)..Len(P)
      PROVE  /\ k - b \in DOMAIN C /\ P[k] = PicturePart(C[k - b])
             /\ P[k].lines # <<>> /\ P[k].kind = "image" /\ Len(P[k].lines) = 1 /\ LineOf(P[k]) = C[k - b]
  <2>1. k - b \in 1..Len(C) /\ b + (k - b) = k
    BY <1>4
  <2>2. P[k] = PicturePart(C[k - b])
    BY <2>1, <1>3 DEF PartsDef, b
  <2> QED
    BY <2>1, <2>2, <1>4 DEF PicturePart, LineOf
<1>7. ASSUME NEW k \in DOMAIN P
      PROVE  P[k].lines # <<>> /\ P[k].kind = IF k <= b THEN "text" ELSE "image"
  <2>1. k \in 1..b \/ (k \in (b + 1)..Len(P) /\ ~(k <= b))
    BY <1>4
  <2> QED
    BY <2>1, <1>5, <1>6
<1>8. ASSUME NEW k \in 1..b, NEW i \in DOMAIN P[k].lines
      PROVE  P[k].lines[i] \in W
  BY <1>1, <1>5 DEF Partition, Holds
<1>9. ASSUME NEW k \in 1..b, NEW n \in 1..b, NEW i \in DOMAIN P[k].lines, NEW j \in DOMAIN P[n].lines,
             k < n \/ (k = n /\ i < j)
      PROVE  P[k].lines[i] < P[n].lines[j]
  BY <1>1, <1>5, <1>9 DEF Partition, Rising
<1>10. ASSUME NEW k \in (b + 1)..Len(P)
       PROVE  Len(P[k].lines) = 1 /\ LineOf(P[k]) \in 1..Len(d) /\ FirstCode(d, LineOf(P[k]))
  BY <1>6, <1>2 DEF Collected
<1>11. ASSUME NEW k \in (b + 1)..Len(P), NEW n \in (b + 1)..Len(P), k < n
       PROVE  LineOf(P[k]) < LineOf(P[n])
  <2>1. k - b < n - b
    BY <1>4, <1>11
  <2> QED
    BY <2>1, <1>6, <1>2 DEF Collected
<1>12. ASSUME NEW i \in 1..Len(d), d[i] \in Code
       PROVE  \E k \in (b + 1)..Len(P) : LineOf(P[k]) <= i /\ d[LineOf(P[k])] = d[i]
  <2>1. PICK m \in DOMAIN C : C[m] <= i /\ d[C[m]] = d[i]
    BY <1>2, <1>12 DEF Collected
  <2>2. b + m \in (b + 1)..Len(P) /\ (b + m) - b = m
    BY <1>4
  <2>3. LineOf(P[b + m]) = C[m]
    BY <2>2, <1>6
  <2> QED
    BY <2>1, <2>2, <2>3
<1>13. b \in 0..Len(P) /\ b <= MaxMessages
  BY <1>1, <1>4 DEF b
<1>14. Ordered(d, P, b)
  BY <1>4, <1>7, <1>8, <1>9, <1>10, <1>11, <1>12, <1>13 DEF Ordered, W
<1> QED
  BY <1>14 DEF P, b, Q

\* A word is in the messages, or cut off the end of one.
LEMMA WordsAreSplit ==
  ASSUME NEW d \in Seq(Lines), NEW i \in WordsIn(d, Len(d))
  PROVE  \E m \in DOMAIN SplitReply(d) :
           /\ m \in 1..Len(SplitReply(d)) /\ i \in Range(SplitReply(d)[m])
           /\ \/ \E j \in DOMAIN Parts(d)[m].lines : Parts(d)[m].lines[j] = i
              \/ Parts(d)[m].cut /\ Last(Parts(d)[m].lines) < i
<1> DEFINE P == Parts(d)
           Q == SplitReply(d)
           C == Pictured(d)
           W == WordsIn(d, Len(d))
<1>1. Partition(Q, W)
  BY SplitReplySorts
<1>2. PartsDef(d, P, Q, C)
  BY PartsAre
<1> HIDE DEF P, Q, C, W
<1>3. PICK m \in DOMAIN Q : \E j \in DOMAIN Q[m] : Q[m][j] = i
  BY <1>1 DEF Partition, Holds, W
<1>4. PICK j \in DOMAIN Q[m] : Q[m][j] = i
  BY <1>3
<1>5. m \in 1..Len(Q) /\ Q[m] \in Seq(Nat) /\ Q[m] # <<>>
  BY <1>1 DEF Partition
<1>6. i \in Range(Q[m])
  BY <1>4 DEF Range
<1>7. P[m] = TextPart(Q[m])
  BY <1>2, <1>5 DEF PartsDef
<1> DEFINE t == TextPart(Q[m])
<1>8. /\ t \in Part /\ Len(t.lines) \in 1..Len(Q[m]) /\ DOMAIN t.lines = 1..Len(t.lines)
      /\ \A k \in DOMAIN t.lines : k \in DOMAIN Q[m] /\ t.lines[k] = Q[m][k]
      /\ Len(t.lines) < Len(Q[m]) => t.cut
  BY <1>5, TextPartIs
<1> HIDE DEF t
<1>9. DOMAIN Q[m] = 1..Len(Q[m]) /\ Len(Q[m]) \in Nat /\ Len(t.lines) \in Nat
  BY <1>5, <1>8
<1>10. CASE j <= Len(t.lines)
  <2>1. j \in DOMAIN t.lines
    BY <1>8, <1>9, <1>10
  <2>2. t.lines[j] = i
    BY <2>1, <1>4, <1>8
  <2> QED
    BY <2>1, <2>2, <1>5, <1>6, <1>7 DEF t, P, Q
<1>11. CASE j > Len(t.lines)
  <2>1. Len(t.lines) < Len(Q[m])
    BY <1>9, <1>11
  <2>2. Len(t.lines) \in DOMAIN t.lines
    BY <1>8
  <2>3. Last(t.lines) = Q[m][Len(t.lines)]
    BY <2>2, <1>8 DEF Last
  <2>4. Q[m][Len(t.lines)] < Q[m][j]
    BY <2>2, <1>1, <1>8, <1>11 DEF Partition, Rising
  <2> QED
    BY <2>1, <2>3, <2>4, <1>4, <1>5, <1>6, <1>7, <1>8 DEF t, P, Q
<1> QED
  BY <1>9, <1>10, <1>11

-----------------------------------------------------------------------------
(* What a person has received of the parts P of a reply, b of them         *)
(* messages, when the turn is done with n: the messages c, the lines K     *)
(* given up; e if one arrived that was not confirmed.                      *)

\* Message x brought part k.
BroughtBy(P, b, x, k) == x.lines = P[k].lines /\ (x.kind = "text" <=> k <= b)

\* Each message brought a part that the turn is done with, or, unconfirmed, the
\* picture that is to be sent as a link.
AllCame(P, b, n, c, e) ==
  \A m \in DOMAIN c : \E k \in 1..Len(P) :
    BroughtBy(P, b, c[m], k) /\ (k <= n \/ (e /\ k = n + 1 /\ k > b))

\* Each part that the turn is done with arrived or was given up.
AllDone(P, b, n, c, K) ==
  \A k \in 1..n :
    \/ \E m \in DOMAIN c : BroughtBy(P, b, c[m], k)
    \/ k <= b /\ \A i \in DOMAIN P[k].lines : P[k].lines[i] \in K

\* What was given up are lines of its messages, and did not arrive.
GivenUp(P, b, n, c, e, K) ==
  /\ \A x \in K : \E k \in 1..n : k <= b /\ \E i \in DOMAIN P[k].lines : P[k].lines[i] = x
  /\ ~e => \A m \in DOMAIN c : c[m].kind = "text" => \A i \in DOMAIN c[m].lines : c[m].lines[i] \notin K

InOrder(c, e) ==
  \A m, n \in DOMAIN c : m < n =>
    /\ c[n].kind = "text" =>
         /\ c[m].kind = "text"
         /\ \A i \in DOMAIN c[m].lines, j \in DOMAIN c[n].lines : c[m].lines[i] < c[n].lines[j]
    /\ ~e /\ c[m].kind # "text" /\ c[n].kind # "text" => LineOf(c[m]) < LineOf(c[n])

TextsIn(c) == {m \in DOMAIN c : c[m].kind = "text"}

FewTexts(b, n, c) == Cardinality(TextsIn(c)) <= n /\ Cardinality(TextsIn(c)) <= b

Fine(P, b, n, c, e, K) ==
  /\ AllCame(P, b, n, c, e) /\ AllDone(P, b, n, c, K) /\ GivenUp(P, b, n, c, e, K)
  /\ InOrder(c, e) /\ FewTexts(b, n, c)

LEMMA Appended ==
  ASSUME NEW c \in Seq(Part), NEW x \in Part
  PROVE  /\ Append(c, x) \in Seq(Part) /\ Len(c) \in Nat /\ DOMAIN c = 1..Len(c)
         /\ DOMAIN Append(c, x) = 1..(Len(c) + 1) /\ Append(c, x)[Len(c) + 1] = x
         /\ \A m \in DOMAIN c : m \in DOMAIN Append(c, x) /\ Append(c, x)[m] = c[m]
         /\ \A m \in DOMAIN Append(c, x) : m \in DOMAIN c \/ m = Len(c) + 1
  OBVIOUS

LEMMA TextsAppended ==
  ASSUME NEW c \in Seq(Part), NEW x \in Part
  PROVE  /\ Cardinality(TextsIn(c)) \in Nat
         /\ Cardinality(TextsIn(Append(c, x))) =
              Cardinality(TextsIn(c)) + (IF x.kind = "text" THEN 1 ELSE 0)
<1> DEFINE a == Append(c, x)
<1>1. /\ Len(c) \in Nat /\ DOMAIN c = 1..Len(c)
      /\ DOMAIN a = 1..(Len(c) + 1) /\ a[Len(c) + 1] = x
      /\ \A m \in DOMAIN c : m \in DOMAIN a /\ a[m] = c[m]
      /\ \A m \in DOMAIN a : m \in DOMAIN c \/ m = Len(c) + 1
  BY Appended
<1> HIDE DEF a
<1>2. IsFiniteSet(TextsIn(c))
  <2>1. IsFiniteSet(1..Len(c))
    BY <1>1, FS_Interval, 1 \in Int, Len(c) \in Int
  <2>2. TextsIn(c) \in SUBSET (1..Len(c))
    BY <1>1 DEF TextsIn
  <2> QED
    BY <2>1, <2>2, FS_Subset
<1>3. Cardinality(TextsIn(c)) \in Nat
  BY <1>2, FS_CardinalityType
<1>4. Len(c) + 1 \notin TextsIn(c)
  BY <1>1 DEF TextsIn
<1>5. TextsIn(a) = IF x.kind = "text" THEN TextsIn(c) \cup {Len(c) + 1} ELSE TextsIn(c)
  BY <1>1 DEF TextsIn
<1>6. Cardinality(TextsIn(c) \cup {Len(c) + 1}) = Cardinality(TextsIn(c)) + 1
  BY <1>2, <1>4, FS_AddElement
<1>7. Cardinality(TextsIn(a)) = Cardinality(TextsIn(c)) + (IF x.kind = "text" THEN 1 ELSE 0)
  BY <1>3, <1>5, <1>6
<1> QED
  BY <1>3, <1>7 DEF a

\* The message under way arrives.
LEMMA FineSent ==
  ASSUME NEW d \in Seq(Lines), NEW P, NEW b, Ordered(d, P, b), NEW n \in Nat, n + 1 <= Len(P),
         NEW c \in Seq(Part), NEW x \in Part, NEW e \in BOOLEAN, NEW K,
         Fine(P, b, n, c, e, K), BroughtBy(P, b, x, n + 1)
  PROVE  Fine(P, b, n + 1, Append(c, x), e, K)
<1> DEFINE a == Append(c, x)
           l == Len(c) + 1
<1>1. /\ Len(c) \in Nat /\ DOMAIN c = 1..Len(c) /\ DOMAIN a = 1..l /\ a[l] = x
      /\ \A m \in DOMAIN c : m \in DOMAIN a /\ a[m] = c[m]
      /\ \A m \in DOMAIN a : m \in DOMAIN c \/ m = l
  BY Appended
<1>2. /\ Cardinality(TextsIn(c)) \in Nat
      /\ Cardinality(TextsIn(a)) = Cardinality(TextsIn(c)) + (IF x.kind = "text" THEN 1 ELSE 0)
  BY TextsAppended
<1>3. P \in Seq(Part) /\ Len(P) \in Nat /\ b \in Nat /\ b <= Len(P) /\ n + 1 \in 1..Len(P) /\ DOMAIN P = 1..Len(P)
  BY DEF Ordered
<1> HIDE DEF a, l
<1>4. AllCame(P, b, n + 1, a, e)
  <2> SUFFICES ASSUME NEW m \in DOMAIN a
               PROVE  \E k \in 1..Len(P) :
                        BroughtBy(P, b, a[m], k) /\ (k <= n + 1 \/ (e /\ k = (n + 1) + 1 /\ k > b))
    BY DEF AllCame
  <2>1. CASE m = l
    BY <2>1, <1>1, <1>3
  <2>2. CASE m \in DOMAIN c
    <3>1. PICK k \in 1..Len(P) : BroughtBy(P, b, c[m], k) /\ (k <= n \/ (e /\ k = n + 1 /\ k > b))
      BY <2>2 DEF Fine, AllCame
    <3> QED
      BY <3>1, <2>2, <1>1
  <2> QED
    BY <2>1, <2>2, <1>1
<1>5. AllDone(P, b, n + 1, a, K)
  <2> SUFFICES ASSUME NEW k \in 1..(n + 1)
               PROVE  \/ \E m \in DOMAIN a : BroughtBy(P, b, a[m], k)
                      \/ k <= b /\ \A i \in DOMAIN P[k].lines : P[k].lines[i] \in K
    BY DEF AllDone
  <2>1. CASE k = n + 1
    <3>1. l \in DOMAIN a
      BY <1>1 DEF l
    <3> QED
      BY <2>1, <3>1, <1>1
  <2>2. CASE k \in 1..n
    BY <2>2, <1>1 DEF Fine, AllDone
  <2> QED
    BY <2>1, <2>2
<1>6. GivenUp(P, b, n + 1, a, e, K)
  <2>1. ASSUME NEW y \in K
        PROVE  \E k \in 1..(n + 1) : k <= b /\ \E i \in DOMAIN P[k].lines : P[k].lines[i] = y
    <3>1. PICK k \in 1..n : k <= b /\ \E i \in DOMAIN P[k].lines : P[k].lines[i] = y
      BY DEF Fine, GivenUp
    <3> QED
      BY <3>1
  <2>2. ASSUME ~e, NEW m \in DOMAIN a, a[m].kind = "text", NEW i \in DOMAIN a[m].lines
        PROVE  a[m].lines[i] \notin K
    <3>1. CASE m \in DOMAIN c
      BY <3>1, <2>2, <1>1 DEF Fine, GivenUp
    <3>2. CASE m = l
      <4>1. a[m].lines = P[n + 1].lines /\ n + 1 <= b
        BY <3>2, <2>2, <1>1 DEF BroughtBy
      <4> SUFFICES ASSUME a[m].lines[i] \in K PROVE FALSE
        OBVIOUS
      <4>2. PICK k \in 1..n : k <= b /\ \E j \in DOMAIN P[k].lines : P[k].lines[j] = P[n + 1].lines[i]
        BY <4>1 DEF Fine, GivenUp
      <4>3. PICK j \in DOMAIN P[k].lines : P[k].lines[j] = P[n + 1].lines[i]
        BY <4>2
      <4>4. k \in 1..b /\ n + 1 \in 1..b /\ k < n + 1 /\ i \in DOMAIN P[n + 1].lines
        BY <4>1, <4>2, <1>3, <2>2
      <4>5. P[k].lines[j] < P[n + 1].lines[i]
        BY <4>4 DEF Ordered
      <4>6. P[k].lines[j] \in Nat
        BY <4>4 DEF Ordered, WordsIn
      <4> QED
        BY <4>3, <4>5, <4>6
    <3> QED
      BY <3>1, <3>2, <1>1
  <2> QED
    BY <2>1, <2>2 DEF GivenUp
<1>7. InOrder(a, e)
  <2> SUFFICES ASSUME NEW m \in DOMAIN a, NEW k \in DOMAIN a, m < k
               PROVE  /\ a[k].kind = "text" =>
                           /\ a[m].kind = "text"
                           /\ \A i \in DOMAIN a[m].lines, j \in DOMAIN a[k].lines : a[m].lines[i] < a[k].lines[j]
                      /\ ~e /\ a[m].kind # "text" /\ a[k].kind # "text" => LineOf(a[m]) < LineOf(a[k])
    BY DEF InOrder
  <2>1. m \in DOMAIN c
    BY <1>1 DEF l
  <2>2. CASE k \in DOMAIN c
    BY <2>1, <2>2, <1>1 DEF Fine, InOrder
  <2>3. CASE k = l
    <3>1. PICK p \in 1..Len(P) : BroughtBy(P, b, c[m], p) /\ (p <= n \/ (e /\ p = n + 1 /\ p > b))
      BY <2>1 DEF Fine, AllCame
    <3>2. a[k] = x /\ a[m] = c[m]
      BY <2>1, <2>3, <1>1
    <3>3. ASSUME x.kind = "text"
          PROVE  /\ c[m].kind = "text"
                 /\ \A i \in DOMAIN c[m].lines, j \in DOMAIN x.lines : c[m].lines[i] < x.lines[j]
      <4>1. n + 1 \in 1..b /\ p \in 1..b /\ p < n + 1
        BY <3>1, <3>3, <1>3 DEF BroughtBy
      <4>2. c[m].lines = P[p].lines /\ x.lines = P[n + 1].lines /\ c[m].kind = "text"
        BY <3>1, <4>1 DEF BroughtBy
      <4>3. \A i \in DOMAIN P[p].lines, j \in DOMAIN P[n + 1].lines : P[p].lines[i] < P[n + 1].lines[j]
        BY <4>1 DEF Ordered
      <4> QED
        BY <4>2, <4>3
    <3>4. ASSUME ~e, c[m].kind # "text", x.kind # "text"
          PROVE  LineOf(c[m]) < LineOf(x)
      <4>1. n + 1 \in (b + 1)..Len(P) /\ p \in (b + 1)..Len(P) /\ p < n + 1
        BY <3>1, <3>4, <1>3 DEF BroughtBy
      <4>2. LineOf(c[m]) = LineOf(P[p]) /\ LineOf(x) = LineOf(P[n + 1])
        BY <3>1 DEF BroughtBy, LineOf
      <4>3. LineOf(P[p]) < LineOf(P[n + 1])
        BY <4>1 DEF Ordered
      <4> QED
        BY <4>2, <4>3
    <3> QED
      BY <3>2, <3>3, <3>4
  <2> QED
    BY <2>2, <2>3, <1>1
<1>8. FewTexts(b, n + 1, a)
  <2>1. x.kind = "text" => n + 1 <= b
    BY DEF BroughtBy
  <2> QED
    BY <2>1, <1>2, <1>3 DEF Fine, FewTexts
<1>9. Fine(P, b, n + 1, a, e, K)
  BY <1>4, <1>5, <1>6, <1>7, <1>8 DEF Fine
<1> QED
  BY <1>9 DEF a

\* A later message is given up.
LEMMA FineGivenUp ==
  ASSUME NEW d \in Seq(Lines), NEW P, NEW b, Ordered(d, P, b), NEW n \in Nat, n + 1 <= b,
         NEW c \in Seq(Part), NEW e \in BOOLEAN, NEW K, Fine(P, b, n, c, e, K)
  PROVE  Fine(P, b, n + 1, c, e, K \cup Range(P[n + 1].lines))
<1> DEFINE R == Range(P[n + 1].lines)
<1>1. P \in Seq(Part) /\ Len(P) \in Nat /\ b \in Nat /\ b <= Len(P) /\ n + 1 \in 1..b
  BY DEF Ordered
<1>2. /\ \A i \in DOMAIN P[n + 1].lines : P[n + 1].lines[i] \in R
      /\ \A y \in R : \E i \in DOMAIN P[n + 1].lines : P[n + 1].lines[i] = y
  BY DEF Range
<1> HIDE DEF R
<1>3. AllCame(P, b, n + 1, c, e)
  <2> SUFFICES ASSUME NEW m \in DOMAIN c
               PROVE  \E k \in 1..Len(P) :
                        BroughtBy(P, b, c[m], k) /\ (k <= n + 1 \/ (e /\ k = (n + 1) + 1 /\ k > b))
    BY DEF AllCame
  <2>1. PICK k \in 1..Len(P) : BroughtBy(P, b, c[m], k) /\ (k <= n \/ (e /\ k = n + 1 /\ k > b))
    BY DEF Fine, AllCame
  <2> QED
    BY <2>1
<1>4. AllDone(P, b, n + 1, c, K \cup R)
  <2> SUFFICES ASSUME NEW k \in 1..(n + 1)
               PROVE  \/ \E m \in DOMAIN c : BroughtBy(P, b, c[m], k)
                      \/ k <= b /\ \A i \in DOMAIN P[k].lines : P[k].lines[i] \in K \cup R
    BY DEF AllDone
  <2>1. CASE k = n + 1
    BY <2>1, <1>1, <1>2
  <2>2. CASE k \in 1..n
    BY <2>2 DEF Fine, AllDone
  <2> QED
    BY <2>1, <2>2
<1>5. GivenUp(P, b, n + 1, c, e, K \cup R)
  <2>1. ASSUME NEW y \in K \cup R
        PROVE  \E k \in 1..(n + 1) : k <= b /\ \E i \in DOMAIN P[k].lines : P[k].lines[i] = y
    <3>1. CASE y \in R
      <4>1. n + 1 \in 1..(n + 1) /\ n + 1 <= b
        BY <1>1
      <4> QED
        BY <3>1, <4>1, <1>2
    <3>2. CASE y \in K
      <4>1. PICK k \in 1..n : k <= b /\ \E i \in DOMAIN P[k].lines : P[k].lines[i] = y
        BY <3>2 DEF Fine, GivenUp
      <4> QED
        BY <4>1
    <3> QED
      BY <3>1, <3>2
  <2>2. ASSUME ~e, NEW m \in DOMAIN c, c[m].kind = "text", NEW i \in DOMAIN c[m].lines
        PROVE  c[m].lines[i] \notin K \cup R
    <3>1. c[m].lines[i] \notin K
      BY <2>2 DEF Fine, GivenUp
    <3>2. ASSUME c[m].lines[i] \in R PROVE FALSE
      <4>1. PICK k \in 1..Len(P) : BroughtBy(P, b, c[m], k) /\ (k <= n \/ (e /\ k = n + 1 /\ k > b))
        BY DEF Fine, AllCame
      <4>2. k \in 1..b /\ k < n + 1 /\ c[m].lines = P[k].lines
        BY <4>1, <2>2, <1>1 DEF BroughtBy
      <4>3. PICK j \in DOMAIN P[n + 1].lines : P[n + 1].lines[j] = P[k].lines[i]
        BY <3>2, <4>2, <1>2
      <4>4. P[k].lines[i] < P[n + 1].lines[j]
        BY <4>2, <2>2, <1>1 DEF Ordered
      <4>5. P[k].lines[i] \in Nat
        BY <4>2, <2>2 DEF Ordered, WordsIn
      <4> QED
        BY <4>3, <4>4, <4>5
    <3> QED
      BY <3>1, <3>2
  <2> QED
    BY <2>1, <2>2 DEF GivenUp
<1>6. FewTexts(b, n + 1, c)
  <2>1. Cardinality(TextsIn(c)) <= n /\ Cardinality(TextsIn(c)) <= b
    BY DEF Fine, FewTexts
  <2>2. Cardinality(TextsIn(c)) \in Nat
    <3>1. PICK x : x \in Part
      <4>1. [kind |-> "text", lines |-> <<>>, cut |-> FALSE] \in Part
        BY DEF Part
      <4> QED
        BY <4>1
    <3> QED
      BY <3>1, TextsAppended
  <2> QED
    BY <2>1, <2>2 DEF FewTexts
<1>7. Fine(P, b, n + 1, c, e, K \cup R)
  BY <1>3, <1>4, <1>5, <1>6 DEF Fine
<1> QED
  BY <1>7 DEF R

\* Less is claimed once a message has arrived that was not confirmed: it may also be
\* given up.
LEMMA FineUnconfirmed ==
  ASSUME NEW P, NEW b, NEW n \in Nat, NEW c, NEW e \in BOOLEAN, NEW K, Fine(P, b, n, c, e, K)
  PROVE  /\ Fine(P, b, n, c, TRUE, K)
         /\ \A k \in 1..n : k <= b => Fine(P, b, n, c, TRUE, K \cup Range(P[k].lines))
<1>1. Fine(P, b, n, c, TRUE, K)
  BY DEF Fine, AllCame, GivenUp, InOrder
<1>2. ASSUME NEW k \in 1..n, k <= b
      PROVE  Fine(P, b, n, c, TRUE, K \cup Range(P[k].lines))
  <2>1. AllDone(P, b, n, c, K \cup Range(P[k].lines))
    BY <1>1 DEF Fine, AllDone
  <2>2. GivenUp(P, b, n, c, TRUE, K \cup Range(P[k].lines))
    BY <1>1, <1>2 DEF Fine, GivenUp, Range
  <2> QED
    BY <1>1, <2>1, <2>2 DEF Fine
<1> QED
  BY <1>1, <1>2

\* A picture arrives, unconfirmed, and is to be sent as a link.
LEMMA FineTwice ==
  ASSUME NEW d \in Seq(Lines), NEW P, NEW b, Ordered(d, P, b), NEW n \in Nat, n + 1 <= Len(P), n + 1 > b,
         NEW c \in Seq(Part), NEW x \in Part, NEW e \in BOOLEAN, NEW K,
         Fine(P, b, n, c, e, K), BroughtBy(P, b, x, n + 1)
  PROVE  Fine(P, b, n, Append(c, x), TRUE, K)
<1> DEFINE a == Append(c, x)
           l == Len(c) + 1
<1>1. /\ Len(c) \in Nat /\ DOMAIN c = 1..Len(c) /\ DOMAIN a = 1..l /\ a[l] = x
      /\ \A m \in DOMAIN c : m \in DOMAIN a /\ a[m] = c[m]
      /\ \A m \in DOMAIN a : m \in DOMAIN c \/ m = l
  BY Appended
<1>2. x.kind # "text" /\ n + 1 \in 1..Len(P) /\ b \in Nat
  BY DEF BroughtBy, Ordered
<1>3. Cardinality(TextsIn(a)) = Cardinality(TextsIn(c))
  <2>1. /\ Cardinality(TextsIn(c)) \in Nat
        /\ Cardinality(TextsIn(a)) = Cardinality(TextsIn(c)) + (IF x.kind = "text" THEN 1 ELSE 0)
    BY TextsAppended
  <2> QED
    BY <2>1, <1>2
<1> HIDE DEF a, l
<1>4. AllCame(P, b, n, a, TRUE)
  <2> SUFFICES ASSUME NEW m \in DOMAIN a
               PROVE  \E k \in 1..Len(P) : BroughtBy(P, b, a[m], k) /\ (k <= n \/ (k = n + 1 /\ k > b))
    BY DEF AllCame
  <2>1. CASE m = l
    BY <2>1, <1>1, <1>2
  <2>2. CASE m \in DOMAIN c
    <3>1. PICK k \in 1..Len(P) : BroughtBy(P, b, c[m], k) /\ (k <= n \/ (e /\ k = n + 1 /\ k > b))
      BY <2>2 DEF Fine, AllCame
    <3> QED
      BY <3>1, <2>2, <1>1
  <2> QED
    BY <2>1, <2>2, <1>1
<1>5. AllDone(P, b, n, a, K)
  BY <1>1 DEF Fine, AllDone
<1>6. GivenUp(P, b, n, a, TRUE, K)
  BY DEF Fine, GivenUp
<1>7. InOrder(a, TRUE)
  <2> SUFFICES ASSUME NEW m \in DOMAIN a, NEW k \in DOMAIN a, m < k, a[k].kind = "text"
               PROVE  /\ a[m].kind = "text"
                      /\ \A i \in DOMAIN a[m].lines, j \in DOMAIN a[k].lines : a[m].lines[i] < a[k].lines[j]
    BY DEF InOrder
  <2>1. k \in DOMAIN c
    BY <1>1, <1>2
  <2>2. m \in DOMAIN c
    BY <2>1, <1>1
  <2> QED
    BY <2>1, <2>2, <1>1 DEF Fine, InOrder
<1>8. Fine(P, b, n, a, TRUE, K)
  BY <1>3, <1>4, <1>5, <1>6, <1>7 DEF Fine, FewTexts
<1> QED
  BY <1>8 DEF a

-----------------------------------------------------------------------------
(* Where a turn stands that sends the reply d: t is left to send, l if the *)
(* picture is being sent as a link, p its phase.                           *)

\* t is what follows the first n parts; only a picture is sent as a link.
Left(P, n, t, l, p) ==
  /\ n \in Nat /\ n + Len(t) = Len(P) /\ \A k \in DOMAIN t : t[k] = P[n + k]
  /\ p \in {"get", "await", "try"} => t # <<>>
  /\ l => t # <<>> /\ Head(t).kind = "image"
  /\ p = "replied" => t = <<>>

Done(d, t) == Len(Parts(d)) - Len(t)

InTurn(d, t, l, p, c, e, K) ==
  p # "failed" =>
    /\ Left(Parts(d), Done(d, t), t, l, p)
    /\ Fine(Parts(d), Len(SplitReply(d)), Done(d, t), c, e, K)

\* The message under way is the next part.
LEMMA UnderWay ==
  ASSUME NEW d \in Seq(Lines), NEW t \in Seq(Part), t # <<>>, NEW l \in BOOLEAN, NEW p,
         Left(Parts(d), Done(d, t), t, l, p)
  PROVE  /\ Done(d, t) \in Nat /\ Done(d, t) + 1 <= Len(Parts(d)) /\ Head(t) = Parts(d)[Done(d, t) + 1]
         /\ Head(t) \in Part /\ (Head(t).kind = "text" <=> Done(d, t) + 1 <= Len(SplitReply(d)))
         /\ Head(t).kind \in {"text", "image"}
         /\ Tail(t) \in Seq(Part) /\ Done(d, Tail(t)) = Done(d, t) + 1
         /\ Left(Parts(d), Done(d, Tail(t)), Tail(t), FALSE, "begin")
         /\ \A x \in Part : /\ x.lines = Head(t).lines
                            /\ x.kind = "text" <=> Head(t).kind = "text"
                            => BroughtBy(Parts(d), Len(SplitReply(d)), x, Done(d, t) + 1)
<1> DEFINE P == Parts(d)
           b == Len(SplitReply(d))
           n == Done(d, t)
<1>1. Ordered(d, P, b)
  BY PartsOrdered
<1>2. /\ Len(t) \in Nat /\ Len(t) > 0 /\ DOMAIN t = 1..Len(t) /\ 1 \in DOMAIN t /\ Head(t) = t[1]
      /\ Tail(t) \in Seq(Part) /\ Len(Tail(t)) = Len(t) - 1
      /\ DOMAIN Tail(t) = 1..(Len(t) - 1) /\ \A k \in 1..(Len(t) - 1) : Tail(t)[k] = t[k + 1]
  OBVIOUS
<1>3. P \in Seq(Part) /\ Len(P) \in Nat /\ DOMAIN P = 1..Len(P) /\ b \in Nat
  BY <1>1 DEF Ordered
<1>4. n \in Nat /\ n + Len(t) = Len(P) /\ \A k \in DOMAIN t : t[k] = P[n + k]
  BY DEF Left
<1>5. Done(d, Tail(t)) = n + 1
  <2>1. Len(P) - (Len(t) - 1) = n + 1
    BY <1>2, <1>3, <1>4
  <2> QED
    BY <2>1, <1>2 DEF Done
<1> HIDE DEF P, b, n
<1>6. n + 1 \in DOMAIN P /\ n + 1 <= Len(P) /\ Head(t) = P[n + 1]
  BY <1>2, <1>3, <1>4
<1>7. P[n + 1] \in Part /\ P[n + 1].kind = IF n + 1 <= b THEN "text" ELSE "image"
  BY <1>1, <1>3, <1>6 DEF Ordered
<1>8. Left(P, n + 1, Tail(t), FALSE, "begin")
  <2>1. n + 1 \in Nat /\ (n + 1) + Len(Tail(t)) = Len(P)
    <3>1. Len(t) \in Nat /\ Len(Tail(t)) = Len(t) - 1 /\ n \in Nat /\ n + Len(t) = Len(P)
      BY <1>2, <1>4
    <3>2. \A x, y, z \in Nat : x + y = z => (x + 1) + (y - 1) = z
      OBVIOUS
    <3> QED
      BY <3>1, <3>2, <1>3
  <2>2. ASSUME NEW k \in DOMAIN Tail(t) PROVE Tail(t)[k] = P[(n + 1) + k]
    <3>1. k + 1 \in DOMAIN t /\ Tail(t)[k] = t[k + 1] /\ n + (k + 1) = (n + 1) + k
      BY <1>2, <1>4
    <3> QED
      BY <3>1, <1>4
  <2> QED
    BY <2>1, <2>2 DEF Left
<1>9. ASSUME NEW x \in Part, x.lines = Head(t).lines, x.kind = "text" <=> Head(t).kind = "text"
      PROVE  BroughtBy(P, b, x, n + 1)
  BY <1>6, <1>7, <1>9 DEF BroughtBy
<1>10. (Head(t).kind = "text" <=> n + 1 <= b) /\ Head(t).kind \in {"text", "image"}
  BY <1>6, <1>7
<1> QED
  BY <1>2, <1>4, <1>5, <1>6, <1>7, <1>8, <1>9, <1>10 DEF P, b, n

\* The turn goes from phase to phase.
LEMMA PartMoves ==
  ASSUME NEW d \in Seq(Lines), NEW t \in Seq(Part), NEW l \in BOOLEAN, NEW p, NEW q, NEW c, NEW e, NEW K,
         InTurn(d, t, l, p, c, e, K), p # "failed",
         q \in {"get", "await", "try"} => t # <<>>, q = "replied" => t = <<>>
  PROVE  InTurn(d, t, l, q, c, e, K)
BY DEF InTurn, Left

\* The message under way, as it is sent.
Posted(t, l) == [Head(t) EXCEPT !.kind = IF l THEN "link" ELSE @]

LEMMA PostedIs ==
  ASSUME NEW t \in Seq(Part), NEW l \in BOOLEAN, Head(t) \in Part, l => Head(t).kind = "image"
  PROVE  /\ Posted(t, l) \in Part /\ Posted(t, l).lines = Head(t).lines
         /\ Posted(t, l).kind = "text" <=> Head(t).kind = "text"
BY DEF Posted, Part

LEMMA TurnSends ==
  ASSUME NEW d \in Seq(Lines), NEW t \in Seq(Part), NEW l \in BOOLEAN,
         NEW c \in Seq(Part), NEW e \in BOOLEAN, NEW K, InTurn(d, t, l, "try", c, e, K)
  PROVE  InTurn(d, Tail(t), FALSE, "begin", Append(c, Posted(t, l)), e, K)
<1> DEFINE P == Parts(d)
           b == Len(SplitReply(d))
           n == Done(d, t)
           x == Posted(t, l)
<1>1. Left(P, n, t, l, "try") /\ Fine(P, b, n, c, e, K) /\ t # <<>> /\ (l => Head(t).kind = "image")
  BY DEF InTurn, Left
<1>2. Ordered(d, P, b)
  BY PartsOrdered
<1>3. /\ n \in Nat /\ n + 1 <= Len(P) /\ Head(t) \in Part /\ Done(d, Tail(t)) = n + 1
      /\ Left(P, Done(d, Tail(t)), Tail(t), FALSE, "begin")
      /\ \A y \in Part : y.lines = Head(t).lines /\ (y.kind = "text" <=> Head(t).kind = "text")
                         => BroughtBy(P, b, y, n + 1)
  BY <1>1, UnderWay
<1>4. x \in Part /\ BroughtBy(P, b, x, n + 1)
  BY <1>1, <1>3, PostedIs
<1> HIDE DEF P, b, n, x
<1>5. Fine(P, b, n + 1, Append(c, x), e, K)
  BY <1>1, <1>2, <1>3, <1>4, FineSent
<1> QED
  BY <1>3, <1>5 DEF InTurn, P, b, n, x

\* The post throws: what becomes of a turn of the medium m.
ToLink(t, l, m)  == Head(t).kind = "image" /\ ~l /\ m # "bridge"
ToSkip(d, t)     == Head(t).kind = "text" /\ Len(t) # Len(Parts(d))

Thrown(d, t, l, m, K, u, v, q, L) ==
  /\ v = ToLink(t, l, m)
  /\ u = (IF ToSkip(d, t) THEN Tail(t) ELSE t)
  /\ q = (IF ToLink(t, l, m) \/ ToSkip(d, t) THEN "begin" ELSE "failed")
  /\ L = (IF ToSkip(d, t) THEN K \cup Range(Head(t).lines) ELSE K)

\* The message x arrived, unconfirmed, or did not.
Unconfirmed(c, x, e, g, f) == (g = c /\ f = e) \/ (g = Append(c, x) /\ f = TRUE)

LEMMA TurnThrows ==
  ASSUME NEW d \in Seq(Lines), NEW t \in Seq(Part), NEW l \in BOOLEAN, NEW m, NEW p \in {"await", "try"},
         NEW c \in Seq(Part), NEW e \in BOOLEAN, NEW K, InTurn(d, t, l, p, c, e, K),
         NEW g, NEW f \in BOOLEAN, Unconfirmed(c, Posted(t, l), e, g, f),
         NEW u, NEW v \in BOOLEAN, NEW q, NEW L, Thrown(d, t, l, m, K, u, v, q, L)
  PROVE  InTurn(d, u, v, q, g, f, L)
<1> DEFINE P == Parts(d)
           b == Len(SplitReply(d))
           n == Done(d, t)
           x == Posted(t, l)
<1>1. Left(P, n, t, l, p) /\ Fine(P, b, n, c, e, K) /\ t # <<>> /\ (l => Head(t).kind = "image")
  BY DEF InTurn, Left
<1>2. Ordered(d, P, b)
  BY PartsOrdered
<1>3. /\ n \in Nat /\ n + 1 <= Len(P) /\ Head(t) \in Part /\ Done(d, Tail(t)) = n + 1
      /\ Head(t) = P[n + 1] /\ (Head(t).kind = "text" <=> n + 1 <= b) /\ Head(t).kind \in {"text", "image"}
      /\ Left(P, Done(d, Tail(t)), Tail(t), FALSE, "begin")
      /\ \A y \in Part : y.lines = Head(t).lines /\ (y.kind = "text" <=> Head(t).kind = "text")
                         => BroughtBy(P, b, y, n + 1)
  BY <1>1, UnderWay
<1>4. x \in Part /\ BroughtBy(P, b, x, n + 1)
  BY <1>1, <1>3, PostedIs
<1>5. b \in Nat /\ Len(P) \in Nat
  BY <1>2 DEF Ordered
<1>6. CASE ToSkip(d, t)
  <2>1. Head(t).kind = "text" /\ n + 1 <= b /\ ~ToLink(t, l, m)
    BY <1>3, <1>6 DEF ToSkip, ToLink
  <2> HIDE DEF P, b, n, x
  <2>2. ASSUME g = c, f = e
        PROVE  Fine(P, b, n + 1, g, f, K \cup Range(P[n + 1].lines))
    BY <1>1, <1>2, <1>3, <2>1, <2>2, FineGivenUp
  <2>3. ASSUME g = Append(c, x), f = TRUE
        PROVE  Fine(P, b, n + 1, g, f, K \cup Range(P[n + 1].lines))
    <3>1. Fine(P, b, n + 1, Append(c, x), e, K)
      BY <1>1, <1>2, <1>3, <1>4, FineSent
    <3>2. n + 1 \in 1..(n + 1) /\ n + 1 \in Nat
      BY <1>3
    <3> QED
      BY <3>1, <3>2, <2>1, <2>3, FineUnconfirmed
  <2>4. Fine(P, b, n + 1, g, f, K \cup Range(Head(t).lines))
    BY <2>2, <2>3, <1>3 DEF x, Unconfirmed
  <2>5. InTurn(d, Tail(t), FALSE, "begin", g, f, K \cup Range(Head(t).lines))
    BY <2>4, <1>3 DEF InTurn, P, b, n
  <2>6. v = FALSE /\ u = Tail(t) /\ q = "begin" /\ L = K \cup Range(Head(t).lines)
    BY <2>1, <1>6 DEF Thrown
  <2> QED
    BY <2>5, <2>6
<1>7. CASE ~ToSkip(d, t) /\ ToLink(t, l, m)
  <2>1. Head(t).kind = "image" /\ n + 1 > b
    BY <1>3, <1>5, <1>7 DEF ToLink
  <2> HIDE DEF P, b, n, x
  <2>2. ASSUME g = Append(c, x), f = TRUE PROVE Fine(P, b, n, g, f, K)
    BY <1>1, <1>2, <1>3, <1>4, <2>1, <2>2, FineTwice
  <2>3. Fine(P, b, n, g, f, K)
    BY <2>2, <1>1 DEF x, Unconfirmed
  <2>4. Left(P, n, t, TRUE, "begin")
    BY <1>1, <2>1 DEF Left
  <2>5. InTurn(d, t, TRUE, "begin", g, f, K)
    BY <2>3, <2>4 DEF InTurn, P, b, n
  <2>6. v = TRUE /\ u = t /\ q = "begin" /\ L = K
    BY <1>7 DEF Thrown
  <2> QED
    BY <2>5, <2>6
<1>8. CASE ~ToSkip(d, t) /\ ~ToLink(t, l, m)
  <2>1. q = "failed"
    BY <1>8 DEF Thrown
  <2> QED
    BY <2>1 DEF InTurn
<1> QED
  BY <1>6, <1>7, <1>8

-----------------------------------------------------------------------------
(* The invariant.                                                          *)

EgressTyped ==
  /\ EgressTypeOK
  /\ fetch \in [1..2 -> [state : {"none", "asked", "answered"}, token : Nat]]
  /\ todo \in [Sender -> Seq(Part)] /\ chat \in [Sender -> Seq(Part)] /\ skipped \in [Sender -> SUBSET Nat]

\* One call for a token at a time; a second try is made with what it brought.
TokenInv ==
  /\ \A i \in 1..2 : fetch[i] # NoFetch => inflight = i
  /\ \A s \in Sender : forced[s] /\ phase[s] = "try" => fresh[s]
  /\ stale = {}

TurnInv(s) == InTurn(reply[s], todo[s], asLink[s], phase[s], chat[s], s \in echo, skipped[s])

EgressIInv == EgressTyped /\ TokenInv /\ \A s \in Sender : TurnInv(s)

LEMMA ReplyLines ==
  ASSUME EgressIInv, NEW s \in Sender
  PROVE  /\ reply[s] \in Seq(Lines) /\ todo[s] \in Seq(Part) /\ chat[s] \in Seq(Part)
         /\ asLink[s] \in BOOLEAN /\ phase[s] \in Phase /\ TurnInv(s)
<1>1. reply[s] \in Reply
  BY DEF EgressIInv, EgressTyped, EgressTypeOK
<1>2. Reply \subseteq Seq(Lines)
  BY EgressAssumption DEF Lines
<1> QED
  BY <1>1, <1>2 DEF EgressIInv, EgressTyped, EgressTypeOK

LEMMA EgressStarts == EgressInit => EgressIInv
<1> SUFFICES ASSUME EgressInit PROVE EgressIInv
  OBVIOUS
<1>1. ASSUME NEW s \in Sender
      PROVE  reply[s] \in Seq(Lines) /\ todo[s] = Parts(reply[s]) /\ Parts(reply[s]) \in Seq(Part)
  <2>1. reply[s] \in Seq(Lines)
    BY EgressAssumption DEF EgressInit, Lines
  <2>2. Parts(reply[s]) \in Seq(Part)
    BY <2>1, PartsOrdered DEF Ordered
  <2> QED
    BY <2>1, <2>2 DEF EgressInit
<1>2. EgressTypeOK
  BY EgressAssumption DEF EgressInit, EgressTypeOK, Phase, NoFetch, NoToken
<1>3. EgressTyped
  <2>1. todo \in [Sender -> Seq(Part)]
    BY <1>1 DEF EgressInit
  <2>2. chat \in [Sender -> Seq(Part)] /\ skipped \in [Sender -> SUBSET Nat]
    <3>1. <<>> \in Seq(Part)
      OBVIOUS
    <3> QED
      BY <3>1 DEF EgressInit
  <2>3. fetch \in [1..2 -> [state : {"none", "asked", "answered"}, token : Nat]]
    BY DEF EgressInit, NoFetch, NoToken
  <2> QED
    BY <1>2, <2>1, <2>2, <2>3 DEF EgressTyped
<1>4. TokenInv
  BY DEF TokenInv, EgressInit
<1>5. ASSUME NEW s \in Sender PROVE TurnInv(s)
  <2> DEFINE d == reply[s]
             P == Parts(d)
             b == Len(SplitReply(d))
  <2>1. Ordered(d, P, b)
    BY <1>1, PartsOrdered
  <2>2. todo[s] = P /\ asLink[s] = FALSE /\ phase[s] = "begin" /\ chat[s] = <<>> /\ skipped[s] = {} /\ s \notin echo
    BY <1>1 DEF EgressInit
  <2>3. P \in Seq(Part) /\ Len(P) \in Nat /\ b \in Nat
    BY <2>1 DEF Ordered
  <2> HIDE DEF d, P, b
  <2>4. Len(P) - Len(P) = 0 /\ 0 + Len(P) = Len(P) /\ \A k \in DOMAIN P : 0 + k = k
    BY <2>3
  <2>5. Left(P, 0, P, FALSE, "begin")
    BY <2>4 DEF Left
  <2>6. Fine(P, b, 0, <<>>, FALSE, {})
    <3>1. DOMAIN <<>> = {} /\ TextsIn(<<>>) = {} /\ 1..0 = {}
      BY DEF TextsIn
    <3>2. Cardinality(TextsIn(<<>>)) = 0
      BY <3>1, FS_EmptySet
    <3>3. FewTexts(b, 0, <<>>)
      BY <3>2, <2>3 DEF FewTexts
    <3> QED
      BY <3>1, <3>3, Zenon DEF Fine, AllCame, AllDone, GivenUp, InOrder
  <2>7. InTurn(d, P, FALSE, "begin", <<>>, FALSE, {})
    BY <2>4, <2>5, <2>6 DEF InTurn, Done, P, b
  <2>8. (s \in echo) = FALSE
    BY <2>2
  <2> QED
    BY <2>2, <2>7, <2>8 DEF TurnInv, d
<1> QED
  BY <1>3, <1>4, <1>5 DEF EgressIInv

\* What concerns one turn is kept by a rule of another.
LEMMA OthersSend ==
  ASSUME EgressIInv, NEW s \in Sender, UNCHANGED <<reply, todo, asLink, received>>, phase'[s] = phase[s]
  PROVE  TurnInv(s)'
BY DEF EgressIInv, TurnInv, received

LEMMA NextPartKeeps ==
  ASSUME EgressIInv, NEW s \in Sender, NextPart(s)
  PROVE  EgressIInv'
<1>1. /\ phase' = [phase EXCEPT ![s] = IF todo[s] = <<>> THEN "replied"
                                       ELSE IF medium[s] = "official" THEN "get" ELSE "try"]
      /\ forced' = [forced EXCEPT ![s] = FALSE] /\ phase[s] = "begin"
  BY DEF NextPart, Goto, Prepare
<1>2. EgressTyped'
  BY <1>1 DEF EgressIInv, EgressTyped, EgressTypeOK, NextPart, Phase, source, received
<1>3. TokenInv'
  BY <1>1 DEF EgressIInv, EgressTyped, EgressTypeOK, TokenInv, NextPart, source
<1>4. ASSUME NEW q \in Sender PROVE TurnInv(q)'
  <2>1. CASE q = s
    <3>1. InTurn(reply[s], todo[s], asLink[s], phase'[s], chat[s], s \in echo, skipped[s])
      <4> DEFINE w == phase'[s]
      <4>1. /\ w \in {"get", "await", "try"} => todo[s] # <<>>
            /\ w = "replied" => todo[s] = <<>>
        BY <1>1 DEF EgressIInv, EgressTyped, EgressTypeOK
      <4>2. InTurn(reply[s], todo[s], asLink[s], phase[s], chat[s], s \in echo, skipped[s]) /\ phase[s] # "failed"
        BY <1>1, ReplyLines DEF TurnInv
      <4> HIDE DEF w
      <4>3. InTurn(reply[s], todo[s], asLink[s], w, chat[s], s \in echo, skipped[s])
        BY <4>1, <4>2, ReplyLines, PartMoves
      <4> QED
        BY <4>3 DEF w
    <3> QED
      BY <2>1, <3>1 DEF TurnInv, NextPart, received
  <2>2. CASE q # s
    BY <2>2, <1>1, OthersSend DEF NextPart, EgressIInv, EgressTyped, EgressTypeOK
  <2> QED
    BY <2>1, <2>2
<1> QED
  BY <1>2, <1>3, <1>4 DEF EgressIInv

LEMMA GetKeeps ==
  ASSUME EgressIInv, NEW s \in Sender, Get(s)
  PROVE  EgressIInv'
<1>1. PICK w \in {"await", "try"} : phase' = [phase EXCEPT ![s] = w]
  BY DEF Get, Goto
<1>2. EgressTyped' /\ TokenInv'
  <2>1. CASE AtHand(s)
    <3>1. /\ token' = [token EXCEPT ![s] = kept] /\ fresh' = [fresh EXCEPT ![s] = FALSE]
          /\ phase' = [phase EXCEPT ![s] = "try"] /\ UNCHANGED <<source, awaits>> /\ ~forced[s]
      BY <2>1 DEF Get, Goto, AtHand
    <3>2. EgressTyped'
      BY <3>1 DEF EgressIInv, EgressTyped, EgressTypeOK, Get, Phase, source, received
    <3>3. TokenInv'
      BY <3>1 DEF EgressIInv, EgressTyped, EgressTypeOK, TokenInv, Get, source
    <3> QED
      BY <3>2, <3>3
  <2>2. CASE ~AtHand(s)
    <3>1. /\ kept' = (IF forced[s] THEN NoToken ELSE kept) /\ phase' = [phase EXCEPT ![s] = "await"]
          /\ UNCHANGED <<token, fresh>>
      BY <2>2 DEF Get, Goto
    <3>2. CASE inflight # 0
      <4>1. awaits' = [awaits EXCEPT ![s] = inflight] /\ UNCHANGED <<fetch, inflight>>
        BY <2>2, <3>2 DEF Get
      <4>2. EgressTyped'
        BY <3>1, <3>2, <4>1 DEF EgressIInv, EgressTyped, EgressTypeOK, Get, Phase, NoToken, received
      <4>3. TokenInv'
        BY <3>1, <4>1 DEF EgressIInv, EgressTyped, EgressTypeOK, TokenInv, Get
      <4> QED
        BY <4>2, <4>3
    <3>3. CASE inflight = 0
      <4>1. PICK i \in 1..2 : /\ fetch[i] = NoFetch /\ fetch' = [fetch EXCEPT ![i].state = "asked"]
                              /\ inflight' = i /\ awaits' = [awaits EXCEPT ![s] = i]
        BY <2>2, <3>3 DEF Get
      <4>2. /\ fetch'[i] = [state |-> "asked", token |-> NoToken]
            /\ \A j \in 1..2 : j # i => fetch'[j] = fetch[j]
            /\ fetch' \in [1..2 -> [state : {"none", "asked", "answered"}, token : Nat]]
        BY <4>1 DEF EgressIInv, EgressTyped, NoFetch
      <4>3. EgressTyped'
        <5>1. /\ live' = live /\ \A j \in 1..2 : fetch'[j].state \in {"none", "asked", "answered"} /\ fetch'[j].token \in 0..live
          BY <4>2 DEF EgressIInv, EgressTyped, EgressTypeOK, Get, NoToken
        <5> QED
          BY <3>1, <4>1, <4>2, <5>1 DEF EgressIInv, EgressTyped, EgressTypeOK, Get, Phase, NoToken, received
      <4>4. \A j \in 1..2 : fetch'[j] # NoFetch => inflight' = j
        <5>1. \A j \in 1..2 : fetch[j] = NoFetch
          BY <3>3 DEF EgressIInv, TokenInv
        <5> QED
          BY <5>1, <4>1, <4>2
      <4>5. TokenInv'
        BY <3>1, <4>4 DEF EgressIInv, EgressTyped, EgressTypeOK, TokenInv, Get
      <4> QED
        BY <4>3, <4>5
    <3> QED
      BY <3>2, <3>3
  <2> QED
    BY <2>1, <2>2
<1>3. ASSUME NEW q \in Sender PROVE TurnInv(q)'
  <2>1. CASE q = s
    <3>1. phase[s] = "get" /\ phase'[s] = w
      BY <1>1 DEF Get, EgressIInv, EgressTyped, EgressTypeOK
    <3>2. InTurn(reply[s], todo[s], asLink[s], phase[s], chat[s], s \in echo, skipped[s]) /\ todo[s] # <<>>
      BY <3>1, ReplyLines DEF TurnInv, InTurn, Left
    <3>3. InTurn(reply[s], todo[s], asLink[s], w, chat[s], s \in echo, skipped[s])
      BY <3>1, <3>2, ReplyLines, PartMoves
    <3> QED
      BY <2>1, <3>1, <3>3 DEF TurnInv, Get, received
  <2>2. CASE q # s
    BY <2>2, <1>1, OthersSend DEF Get, EgressIInv, EgressTyped, EgressTypeOK
  <2> QED
    BY <2>1, <2>2
<1> QED
  BY <1>2, <1>3 DEF EgressIInv

\* The backend answers, or replaces the token; what is kept expires.
LEMMA BackendKeeps ==
  ASSUME EgressIInv, Replace \/ Expire \/ \E i \in 1..2 : Issue(i)
  PROVE  EgressIInv'
<1>1. UNCHANGED <<reply, medium, inflight, attempt, outbox, received>>
  BY DEF Replace, Expire, Issue, source
<1>2. \A q \in Sender : TurnInv(q)'
  BY <1>1, OthersSend DEF outbox
<1>3. CASE Replace
  <2>1. live' = live + 1 /\ live < MaxToken /\ UNCHANGED source
    BY <1>3 DEF Replace
  <2>2. \A n : n \in 0..live => n \in 0..(live + 1)
    BY DEF EgressIInv, EgressTyped, EgressTypeOK
  <2>3. EgressTyped'
    BY <1>1, <2>1, <2>2, EgressAssumption DEF EgressIInv, EgressTyped, EgressTypeOK, source, attempt, outbox, received
  <2>4. TokenInv'
    BY <1>1, <2>1 DEF EgressIInv, TokenInv, source, attempt, outbox
  <2> QED
    BY <2>3, <2>4, <1>2 DEF EgressIInv
<1>4. CASE Expire
  <2>1. kept' = 0 /\ UNCHANGED <<live, fetch>>
    BY <1>4 DEF Expire, NoToken
  <2>2. EgressTyped'
    BY <1>1, <2>1 DEF EgressIInv, EgressTyped, EgressTypeOK, attempt, outbox, received
  <2>3. TokenInv'
    BY <1>1, <2>1 DEF EgressIInv, TokenInv, attempt, outbox
  <2> QED
    BY <2>2, <2>3, <1>2 DEF EgressIInv
<1>5. ASSUME NEW i \in 1..2, Issue(i)
      PROVE  EgressIInv'
  <2>1. /\ fetch[i].state = "asked" /\ fetch' = [fetch EXCEPT ![i] = [state |-> "answered", token |-> live]]
        /\ UNCHANGED <<live, kept>>
    BY <1>5 DEF Issue
  <2>2. fetch'[i] = [state |-> "answered", token |-> live] /\ \A j \in 1..2 : j # i => fetch'[j] = fetch[j]
    BY <2>1 DEF EgressIInv, EgressTyped
  <2>3. live \in Nat /\ live \in 0..live
    BY DEF EgressIInv, EgressTyped, EgressTypeOK
  <2>4. EgressTyped'
    <3>1. fetch' \in [1..2 -> [state : {"none", "asked", "answered"}, token : Nat]]
      BY <2>1, <2>3 DEF EgressIInv, EgressTyped
    <3>2. \A j \in 1..2 : fetch'[j].state \in {"none", "asked", "answered"} /\ fetch'[j].token \in 0..live
      BY <2>2, <2>3 DEF EgressIInv, EgressTyped, EgressTypeOK
    <3> QED
      BY <1>1, <2>1, <3>1, <3>2 DEF EgressIInv, EgressTyped, EgressTypeOK, attempt, outbox, received
  <2>5. TokenInv'
    <3>1. fetch[i] # NoFetch
      BY <2>1 DEF NoFetch
    <3>2. \A j \in 1..2 : fetch'[j] # NoFetch => fetch[j] # NoFetch
      BY <2>2, <3>1
    <3> QED
      BY <1>1, <3>2 DEF EgressIInv, TokenInv, attempt, outbox
  <2> QED
    BY <2>4, <2>5, <1>2 DEF EgressIInv
<1> QED
  BY <1>3, <1>4, <1>5

LEMMA ArriveKeeps ==
  ASSUME EgressIInv, NEW i \in 1..2, Arrive(i)
  PROVE  EgressIInv'
<1>1. /\ kept' = fetch[i].token /\ fetch' = [fetch EXCEPT ![i] = NoFetch] /\ inflight' = 0
      /\ \A q \in Sender : /\ token'[q] = IF awaits[q] = i THEN fetch[i].token ELSE token[q]
                           /\ fresh'[q] = (awaits[q] = i \/ fresh[q])
                           /\ phase'[q] = IF awaits[q] = i THEN "try" ELSE phase[q]
                           /\ awaits'[q] = IF awaits[q] = i THEN 0 ELSE awaits[q]
      /\ fetch[i].state = "answered"
  BY DEF Arrive
<1>2. fetch'[i] = NoFetch /\ \A j \in 1..2 : j # i => fetch'[j] = fetch[j]
  BY <1>1 DEF EgressIInv, EgressTyped
<1>3. fetch[i].token \in 0..live /\ fetch[i].token \in Nat
  BY DEF EgressIInv, EgressTyped, EgressTypeOK
<1>4. EgressTyped'
  <2>1. fetch' \in [1..2 -> [state : {"none", "asked", "answered"}, token : Nat]]
    BY <1>1 DEF EgressIInv, EgressTyped, NoFetch, NoToken
  <2>2. \A j \in 1..2 : fetch'[j].state \in {"none", "asked", "answered"} /\ fetch'[j].token \in 0..live
    BY <1>2 DEF EgressIInv, EgressTyped, EgressTypeOK, NoFetch, NoToken
  <2>3. /\ token' \in [Sender -> 0..live] /\ fresh' \in [Sender -> BOOLEAN] /\ phase' \in [Sender -> Phase]
        /\ awaits' \in [Sender -> 0..2]
    BY <1>1, <1>3 DEF Arrive, EgressIInv, EgressTyped, EgressTypeOK, Phase
  <2>4. \A q \in Sender : awaits'[q] # 0 <=> phase'[q] = "await"
    BY <1>1 DEF EgressIInv, EgressTyped, EgressTypeOK
  <2> QED
    BY <2>1, <2>2, <2>3, <2>4, <1>1, <1>3 DEF Arrive, EgressIInv, EgressTyped, EgressTypeOK, received
<1>5. TokenInv'
  <2>1. \A j \in 1..2 : fetch'[j] # NoFetch => inflight' = j
    <3>1. fetch[i] # NoFetch
      BY <1>1 DEF NoFetch
    <3>2. \A j \in 1..2 : fetch'[j] = NoFetch
      BY <3>1, <1>2 DEF EgressIInv, TokenInv
    <3> QED
      BY <3>2
  <2>2. \A q \in Sender : forced'[q] /\ phase'[q] = "try" => fresh'[q]
    BY <1>1 DEF Arrive, EgressIInv, TokenInv
  <2> QED
    BY <2>1, <2>2 DEF Arrive, EgressIInv, TokenInv
<1>6. ASSUME NEW q \in Sender PROVE TurnInv(q)'
  <2>1. CASE awaits[q] = i
    <3>1. phase[q] = "await" /\ phase'[q] = "try"
      BY <2>1, <1>1 DEF EgressIInv, EgressTyped, EgressTypeOK
    <3>2. InTurn(reply[q], todo[q], asLink[q], phase[q], chat[q], q \in echo, skipped[q]) /\ todo[q] # <<>>
      BY <3>1, ReplyLines DEF TurnInv, InTurn, Left
    <3>3. InTurn(reply[q], todo[q], asLink[q], "try", chat[q], q \in echo, skipped[q])
      BY <3>1, <3>2, ReplyLines, PartMoves
    <3> QED
      BY <3>1, <3>3 DEF TurnInv, Arrive, received
  <2>2. CASE awaits[q] # i
    BY <2>2, <1>1, OthersSend DEF Arrive
  <2> QED
    BY <2>1, <2>2
<1> QED
  BY <1>4, <1>5, <1>6 DEF EgressIInv

\* A post that throws, for its callers S: what they sent arrived, unconfirmed, or did not.
LEMMA ThrowKeeps ==
  ASSUME EgressIInv, NEW S \in SUBSET Sender, Throw(S), reply' = reply,
         \A q \in S : phase[q] \in {"await", "try"},
         \A q \in Sender :
           \/ chat'[q] = chat[q] /\ (q \in echo' <=> q \in echo)
           \/ q \in S /\ chat'[q] = Append(chat[q], Message(q)) /\ q \in echo'
  PROVE  /\ \A q \in Sender : TurnInv(q)'
         /\ phase' \in [Sender -> Phase] /\ asLink' \in [Sender -> BOOLEAN]
         /\ todo' \in [Sender -> Seq(Part)] /\ skipped' \in [Sender -> SUBSET Nat]
         /\ \A q \in Sender : phase'[q] = IF q \in S THEN phase'[q] ELSE phase[q]
         /\ \A q \in S : phase'[q] \in {"begin", "failed"}
<1> DEFINE T(q) == ToLink(todo[q], asLink[q], medium[q])
           G(q) == ToSkip(reply[q], todo[q])
<1>1. /\ phase' = [q \in Sender |-> IF q \notin S THEN phase[q] ELSE IF T(q) \/ G(q) THEN "begin" ELSE "failed"]
      /\ asLink' = [q \in Sender |-> IF q \in S THEN T(q) ELSE asLink[q]]
      /\ todo' = [q \in Sender |-> IF q \in S /\ G(q) THEN Tail(todo[q]) ELSE todo[q]]
      /\ skipped' = [q \in Sender |-> IF q \in S /\ G(q) THEN skipped[q] \cup Range(Head(todo[q]).lines) ELSE skipped[q]]
  BY DEF Throw, IsFirst, ToLink, ToSkip
<1>2. ASSUME NEW q \in Sender
      PROVE  T(q) \in BOOLEAN /\ G(q) \in BOOLEAN
  BY DEF ToLink, ToSkip
<1>3. ASSUME NEW q \in S
      PROVE  todo[q] # <<>> /\ Head(todo[q]) \in Part /\ Tail(todo[q]) \in Seq(Part) /\ Range(Head(todo[q]).lines) \subseteq Nat
  <2>1. Left(Parts(reply[q]), Done(reply[q], todo[q]), todo[q], asLink[q], phase[q]) /\ todo[q] # <<>>
    BY ReplyLines DEF TurnInv, InTurn, Left
  <2>2. Head(todo[q]) \in Part /\ Tail(todo[q]) \in Seq(Part)
    BY <2>1, ReplyLines, UnderWay
  <2> QED
    BY <2>1, <2>2 DEF Part, Range
<1>4. ASSUME NEW q \in Sender PROVE TurnInv(q)'
  <2>0. /\ phase'[q] = (IF q \notin S THEN phase[q] ELSE IF T(q) \/ G(q) THEN "begin" ELSE "failed")
        /\ asLink'[q] = (IF q \in S THEN T(q) ELSE asLink[q])
        /\ todo'[q] = (IF q \in S /\ G(q) THEN Tail(todo[q]) ELSE todo[q])
        /\ skipped'[q] = (IF q \in S /\ G(q) THEN skipped[q] \cup Range(Head(todo[q]).lines) ELSE skipped[q])
    BY <1>1
  <2>1. CASE q \in S
    <3> DEFINE d == reply[q]
               t == todo[q]
               l == asLink[q]
               e == q \in echo
               f == q \in echo'
               v == T(q)
    <3>1. /\ d \in Seq(Lines) /\ t \in Seq(Part) /\ l \in BOOLEAN /\ chat[q] \in Seq(Part)
          /\ InTurn(d, t, l, phase[q], chat[q], e, skipped[q])
      BY ReplyLines DEF TurnInv
    <3>2. phase[q] \in {"await", "try"} /\ e \in BOOLEAN /\ f \in BOOLEAN /\ v \in BOOLEAN
      BY <2>1, <1>2
    <3>3. Unconfirmed(chat[q], Posted(t, l), e, chat'[q], f)
      BY DEF Message, Posted, Unconfirmed
    <3>4. Thrown(d, t, l, medium[q], skipped[q], todo'[q], v, phase'[q], skipped'[q]) /\ asLink'[q] = v
      BY <2>0, <2>1 DEF Thrown
    <3> HIDE DEF d, t, l, e, f, v
    <3>5. InTurn(d, todo'[q], v, phase'[q], chat'[q], f, skipped'[q])
      BY <3>1, <3>2, <3>3, <3>4, TurnThrows
    <3> QED
      BY <3>4, <3>5 DEF TurnInv, d, f
  <2>2. CASE q \notin S
    BY <2>0, <2>2, ReplyLines DEF TurnInv
  <2> QED
    BY <2>1, <2>2
<1> HIDE DEF T, G
<1>5. phase' \in [Sender -> Phase]
  BY <1>1 DEF EgressIInv, EgressTyped, EgressTypeOK, Phase
<1>6. asLink' \in [Sender -> BOOLEAN]
  BY <1>1, <1>2 DEF EgressIInv, EgressTyped, EgressTypeOK
<1>7. todo' \in [Sender -> Seq(Part)] /\ skipped' \in [Sender -> SUBSET Nat]
  <2>1. ASSUME NEW q \in Sender PROVE todo[q] \in Seq(Part) /\ skipped[q] \subseteq Nat
    BY DEF EgressIInv, EgressTyped
  <2>2. ASSUME NEW q \in Sender
        PROVE  /\ (IF q \in S /\ G(q) THEN Tail(todo[q]) ELSE todo[q]) \in Seq(Part)
               /\ (IF q \in S /\ G(q) THEN skipped[q] \cup Range(Head(todo[q]).lines) ELSE skipped[q]) \in SUBSET Nat
    BY <2>1, <1>3
  <2> QED
    BY <1>1, <2>2
<1>8. /\ \A q \in Sender : phase'[q] = IF q \in S THEN phase'[q] ELSE phase[q]
      /\ \A q \in S : phase'[q] \in {"begin", "failed"}
  BY <1>1
<1> QED
  BY <1>4, <1>5, <1>6, <1>7, <1>8

LEMMA FetchFailsKeeps ==
  ASSUME EgressIInv, NEW i \in 1..2, FetchFails(i)
  PROVE  EgressIInv'
<1> DEFINE S == {q \in Sender : awaits[q] = i}
<1>1. /\ Throw(S) /\ fetch' = [fetch EXCEPT ![i] = NoFetch] /\ inflight' = 0
      /\ awaits' = [q \in Sender |-> IF awaits[q] = i THEN 0 ELSE awaits[q]]
      /\ UNCHANGED <<reply, medium, live, kept, forced, token, fresh, stale, chat, echo>>
  BY DEF FetchFails
<1>2. S \in SUBSET Sender /\ \A q \in S : phase[q] = "await"
  BY DEF EgressIInv, EgressTyped, EgressTypeOK
<1>3. \A q \in Sender : q \in S <=> awaits[q] = i
  OBVIOUS
<1> HIDE DEF S
<1>4. /\ \A q \in Sender : TurnInv(q)'
      /\ phase' \in [Sender -> Phase] /\ asLink' \in [Sender -> BOOLEAN]
      /\ todo' \in [Sender -> Seq(Part)] /\ skipped' \in [Sender -> SUBSET Nat]
      /\ \A q \in Sender : phase'[q] = IF q \in S THEN phase'[q] ELSE phase[q]
      /\ \A q \in S : phase'[q] \in {"begin", "failed"}
  BY <1>1, <1>2, ThrowKeeps
<1>5. fetch'[i] = NoFetch /\ \A j \in 1..2 : j # i => fetch'[j] = fetch[j]
  BY <1>1 DEF EgressIInv, EgressTyped
<1>6. EgressTyped'
  <2>1. fetch' \in [1..2 -> [state : {"none", "asked", "answered"}, token : Nat]]
    BY <1>1 DEF EgressIInv, EgressTyped, NoFetch, NoToken
  <2>2. \A j \in 1..2 : fetch'[j].state \in {"none", "asked", "answered"} /\ fetch'[j].token \in 0..live
    BY <1>5 DEF EgressIInv, EgressTyped, EgressTypeOK, NoFetch, NoToken
  <2>3. awaits' \in [Sender -> 0..2]
    BY <1>1 DEF EgressIInv, EgressTyped, EgressTypeOK
  <2>4. ASSUME NEW q \in Sender PROVE awaits'[q] # 0 <=> phase'[q] = "await"
    <3>1. awaits'[q] = IF awaits[q] = i THEN 0 ELSE awaits[q]
      BY <1>1
    <3> QED
      BY <3>1, <1>3, <1>4 DEF EgressIInv, EgressTyped, EgressTypeOK
  <2> QED
    BY <1>1, <1>4, <2>1, <2>2, <2>3, <2>4 DEF EgressIInv, EgressTyped, EgressTypeOK
<1>7. TokenInv'
  <2>1. fetch[i] # NoFetch
    BY DEF FetchFails, NoFetch
  <2>2. \A j \in 1..2 : fetch'[j] = NoFetch
    BY <2>1, <1>5 DEF EgressIInv, TokenInv
  <2>3. ASSUME NEW q \in Sender, forced'[q], phase'[q] = "try" PROVE fresh'[q]
    <3>1. q \notin S
      BY <2>3, <1>4
    <3>2. phase[q] = "try" /\ forced[q] /\ fresh' = fresh
      BY <3>1, <2>3, <1>1, <1>4
    <3> QED
      BY <3>2 DEF EgressIInv, TokenInv
  <2> QED
    BY <2>2, <2>3, <1>1 DEF EgressIInv, TokenInv
<1> QED
  BY <1>4, <1>6, <1>7 DEF EgressIInv

\* Of the turn s alone.
LEMMA OneThrows ==
  ASSUME EgressIInv, NEW s \in Sender, phase[s] = "try", Throw({s}),
         UNCHANGED <<reply, medium, live, source, forced, token, awaits, fresh, stale>>,
         \/ UNCHANGED <<chat, echo>>
         \/ chat' = [chat EXCEPT ![s] = Append(@, Message(s))] /\ echo' = echo \cup {s}
  PROVE  EgressIInv'
<1>1. ASSUME NEW q \in Sender
      PROVE  \/ chat'[q] = chat[q] /\ (q \in echo' <=> q \in echo)
             \/ q \in {s} /\ chat'[q] = Append(chat[q], Message(q)) /\ q \in echo'
  BY DEF EgressIInv, EgressTyped
<1>2. {s} \in SUBSET Sender /\ \A q \in {s} : phase[q] \in {"await", "try"}
  OBVIOUS
<1>3. /\ \A q \in Sender : TurnInv(q)'
      /\ phase' \in [Sender -> Phase] /\ asLink' \in [Sender -> BOOLEAN]
      /\ todo' \in [Sender -> Seq(Part)] /\ skipped' \in [Sender -> SUBSET Nat]
      /\ \A q \in Sender : phase'[q] = IF q \in {s} THEN phase'[q] ELSE phase[q]
      /\ \A q \in {s} : phase'[q] \in {"begin", "failed"}
  BY <1>1, <1>2, ThrowKeeps
<1>4. chat' \in [Sender -> Seq(Part)] /\ echo' \subseteq Sender
  <2>1. Message(s) \in Part
    <3>1. todo[s] # <<>> /\ Left(Parts(reply[s]), Done(reply[s], todo[s]), todo[s], asLink[s], phase[s])
      BY ReplyLines DEF TurnInv, InTurn, Left
    <3>2. Head(todo[s]) \in Part /\ (asLink[s] => Head(todo[s]).kind = "image")
      BY <3>1, ReplyLines, UnderWay DEF Left
    <3>3. Posted(todo[s], asLink[s]) \in Part
      BY <3>2, ReplyLines, PostedIs
    <3> QED
      BY <3>3 DEF Posted, Message
  <2> DEFINE c == Append(chat[s], Message(s))
  <2>2. c \in Seq(Part) /\ chat \in [Sender -> Seq(Part)] /\ echo \subseteq Sender
    BY <2>1, ReplyLines DEF EgressIInv, EgressTyped, EgressTypeOK
  <2>3. UNCHANGED <<chat, echo>> \/ (chat' = [chat EXCEPT ![s] = c] /\ echo' = echo \cup {s})
    OBVIOUS
  <2> HIDE DEF c
  <2> QED
    BY <2>2, <2>3
<1>5. \A q \in Sender : phase'[q] = phase[q] \/ (q = s /\ phase'[q] \in {"begin", "failed"})
  BY <1>3
<1>6. EgressTyped'
  BY <1>3, <1>4, <1>5 DEF EgressIInv, EgressTyped, EgressTypeOK, source
<1>7. TokenInv'
  BY <1>5 DEF EgressIInv, TokenInv, source
<1> QED
  BY <1>3, <1>6, <1>7 DEF EgressIInv

LEMMA RejectedKeeps ==
  ASSUME EgressIInv, NEW s \in Sender, Rejected(s)
  PROVE  EgressIInv'
<1>1. phase[s] = "try"
  BY DEF Rejected
<1>2. CASE forced[s]
  <2>1. fresh[s]
    BY <1>1, <1>2 DEF EgressIInv, TokenInv
  <2>2. /\ Throw({s}) /\ UNCHANGED <<reply, medium, live, source, forced, token, awaits, fresh, stale>>
        /\ UNCHANGED <<chat, echo>>
    BY <2>1, <1>2 DEF Rejected
  <2> QED
    BY <1>1, <2>2, OneThrows
<1>3. CASE ~forced[s]
  <2>1. /\ forced' = [forced EXCEPT ![s] = TRUE] /\ phase' = [phase EXCEPT ![s] = "get"]
        /\ UNCHANGED <<reply, medium, live, source, token, awaits, fresh, stale, todo, asLink, received>>
    BY <1>3 DEF Rejected, Goto, received
  <2>2. EgressTyped'
    BY <1>1, <2>1 DEF EgressIInv, EgressTyped, EgressTypeOK, Phase, source, received
  <2>3. TokenInv'
    BY <2>1 DEF EgressIInv, EgressTyped, EgressTypeOK, TokenInv, source
  <2>4. ASSUME NEW q \in Sender PROVE TurnInv(q)'
    <3>1. CASE q = s
      <4>1. InTurn(reply[s], todo[s], asLink[s], phase[s], chat[s], s \in echo, skipped[s]) /\ todo[s] # <<>>
        BY <1>1, ReplyLines DEF TurnInv, InTurn, Left
      <4>2. InTurn(reply[s], todo[s], asLink[s], "get", chat[s], s \in echo, skipped[s])
        BY <1>1, <4>1, ReplyLines, PartMoves
      <4>3. phase'[s] = "get"
        BY <2>1 DEF EgressIInv, EgressTyped, EgressTypeOK
      <4> QED
        BY <2>1, <3>1, <4>2, <4>3 DEF TurnInv, received
    <3>2. CASE q # s
      BY <2>1, <3>2, OthersSend DEF EgressIInv, EgressTyped, EgressTypeOK
    <3> QED
      BY <3>1, <3>2
  <2> QED
    BY <2>2, <2>3, <2>4 DEF EgressIInv
<1> QED
  BY <1>2, <1>3

LEMMA RefusedKeeps ==
  ASSUME EgressIInv, NEW s \in Sender, Refused(s)
  PROVE  EgressIInv'
<1>1. /\ phase[s] = "try" /\ Throw({s})
      /\ UNCHANGED <<reply, medium, live, source, forced, token, awaits, fresh, stale>>
      /\ \/ UNCHANGED <<chat, echo>>
         \/ chat' = [chat EXCEPT ![s] = Append(@, Message(s))] /\ echo' = echo \cup {s}
  BY DEF Refused, Reach, attempt
<1> QED
  BY <1>1, OneThrows

LEMMA SentKeeps ==
  ASSUME EgressIInv, NEW s \in Sender, Sent(s)
  PROVE  EgressIInv'
<1> DEFINE x == Posted(todo[s], asLink[s])
<1>1. /\ phase[s] = "try" /\ phase' = [phase EXCEPT ![s] = "begin"]
      /\ chat' = [chat EXCEPT ![s] = Append(@, x)]
      /\ todo' = [todo EXCEPT ![s] = Tail(@)] /\ asLink' = [asLink EXCEPT ![s] = FALSE]
      /\ UNCHANGED <<reply, medium, live, source, attempt, skipped, echo>>
  BY DEF Sent, Reach, Advance, Goto, Message, Posted
<1>2. /\ Left(Parts(reply[s]), Done(reply[s], todo[s]), todo[s], asLink[s], "try") /\ todo[s] # <<>>
      /\ asLink[s] => Head(todo[s]).kind = "image"
      /\ InTurn(reply[s], todo[s], asLink[s], "try", chat[s], s \in echo, skipped[s])
  BY <1>1, ReplyLines DEF TurnInv, InTurn, Left
<1>3. Head(todo[s]) \in Part /\ Tail(todo[s]) \in Seq(Part)
  BY <1>2, ReplyLines, UnderWay
<1>4. x \in Part
  BY <1>2, <1>3, ReplyLines, PostedIs
<1>5. Append(chat[s], x) \in Seq(Part)
  BY <1>4, ReplyLines
<1>6. InTurn(reply[s], Tail(todo[s]), FALSE, "begin", Append(chat[s], x), s \in echo, skipped[s])
  <2> DEFINE e == s \in echo
  <2>1. e \in BOOLEAN /\ InTurn(reply[s], todo[s], asLink[s], "try", chat[s], e, skipped[s])
    BY <1>2
  <2> HIDE DEF e
  <2>2. InTurn(reply[s], Tail(todo[s]), FALSE, "begin", Append(chat[s], x), e, skipped[s])
    BY <2>1, ReplyLines, TurnSends
  <2> QED
    BY <2>2 DEF e
<1> HIDE DEF x
<1>7. EgressTyped'
  BY <1>1, <1>3, <1>5 DEF EgressIInv, EgressTyped, EgressTypeOK, Phase, source, attempt
<1>8. TokenInv'
  BY <1>1 DEF EgressIInv, EgressTyped, EgressTypeOK, TokenInv, source, attempt
<1>9. ASSUME NEW q \in Sender PROVE TurnInv(q)'
  <2>1. CASE q = s
    <3>1. /\ todo'[s] = Tail(todo[s]) /\ asLink'[s] = FALSE /\ phase'[s] = "begin"
          /\ chat'[s] = Append(chat[s], x) /\ reply' = reply /\ echo' = echo /\ skipped' = skipped
      BY <1>1 DEF EgressIInv, EgressTyped, EgressTypeOK
    <3> QED
      BY <2>1, <3>1, <1>6 DEF TurnInv
  <2>2. CASE q # s
    <3>1. /\ todo'[q] = todo[q] /\ asLink'[q] = asLink[q] /\ phase'[q] = phase[q]
          /\ chat'[q] = chat[q] /\ reply' = reply /\ echo' = echo /\ skipped' = skipped
      BY <2>2, <1>1 DEF EgressIInv, EgressTyped, EgressTypeOK
    <3> QED
      BY <3>1, ReplyLines DEF TurnInv
  <2> QED
    BY <2>1, <2>2
<1> QED
  BY <1>7, <1>8, <1>9 DEF EgressIInv

LEMMA EgressStep ==
  ASSUME EgressIInv, [EgressNext]_<<egressVars, faults>>
  PROVE  EgressIInv'
<1>1. CASE EgressNext
  <2>1. ASSUME NEW s \in Sender, NextPart(s) \/ Get(s) \/ Rejected(s) \/ Sent(s) \/ Refused(s)
        PROVE  EgressIInv'
    BY <2>1, NextPartKeeps, GetKeeps, RejectedKeeps, SentKeeps, RefusedKeeps
  <2>2. ASSUME NEW i \in 1..2, Issue(i) \/ Arrive(i) \/ FetchFails(i)
        PROVE  EgressIInv'
    BY <2>2, BackendKeeps, ArriveKeeps, FetchFailsKeeps
  <2>3. CASE Replace \/ Expire
    BY <2>3, BackendKeeps
  <2> QED
    BY <1>1, <2>1, <2>2, <2>3 DEF EgressNext
<1>2. CASE UNCHANGED <<egressVars, faults>>
  <2>1. UNCHANGED <<reply, medium, live, kept, fetch, inflight, todo, asLink, phase, forced, token, awaits,
                    fresh, stale, chat, skipped, echo>>
    BY <1>2 DEF egressVars, source, attempt, outbox, received
  <2> QED
    BY <2>1 DEF EgressIInv, EgressTyped, EgressTypeOK, TokenInv, TurnInv
<1> QED
  BY <1>1, <1>2

\* The invariant is one, and so is the type invariant.
THEOREM EgressInductive == EgressSpec => []EgressIInv
<1>1. EgressInit /\ NoFault => EgressIInv
  BY EgressStarts
<1>2. EgressIInv /\ [EgressNext]_<<egressVars, faults>> => EgressIInv'
  BY EgressStep
<1> QED
  BY <1>1, <1>2, PTL DEF EgressSpec

\* The variables of the outgoing side have their types (EgressTypeOK of
\* src/broadcast).
THEOREM EgressKeepsTypes == EgressSpec => []EgressTypeOK
<1>1. EgressIInv => EgressTypeOK
  BY DEF EgressIInv, EgressTyped
<1> QED
  BY <1>1, EgressInductive, PTL

-----------------------------------------------------------------------------
(* What the invariant says of a turn that has replied.                     *)

BroughtIn(c, kinds) == UNION {Range(c[m].lines) : m \in {n \in DOMAIN c : c[n].kind \in kinds}}

LEMMA BroughtInIs ==
  ASSUME NEW c, NEW kinds, NEW x
  PROVE  x \in BroughtIn(c, kinds) <=>
           \E m \in DOMAIN c : c[m].kind \in kinds /\ \E i \in DOMAIN c[m].lines : c[m].lines[i] = x
BY DEF BroughtIn, Range

\* All parts are done with.
AtEnd(d, c, e, K) == Fine(Parts(d), Len(SplitReply(d)), Len(Parts(d)), c, e, K)

\* Every message brought a part of the reply, and every part arrived or was given up.
LEMMA EndParts ==
  ASSUME NEW d \in Seq(Lines), NEW c \in Seq(Part), NEW e \in BOOLEAN, NEW K, AtEnd(d, c, e, K)
  PROVE  LET P == Parts(d)
             b == Len(SplitReply(d)) IN
         /\ \A m \in DOMAIN c : /\ c[m].kind = "text" => \E k \in 1..b : c[m].lines = P[k].lines
                                /\ c[m].kind # "text" => \E k \in (b + 1)..Len(P) : c[m].lines = P[k].lines
         /\ \A k \in 1..b : \/ \E m \in DOMAIN c : c[m].kind = "text" /\ c[m].lines = P[k].lines
                            \/ \A i \in DOMAIN P[k].lines : P[k].lines[i] \in K
         /\ \A k \in (b + 1)..Len(P) : \E m \in DOMAIN c : c[m].kind # "text" /\ c[m].lines = P[k].lines
         /\ \A x \in K : \E k \in 1..b : \E i \in DOMAIN P[k].lines : P[k].lines[i] = x
<1> DEFINE P == Parts(d)
           b == Len(SplitReply(d))
<1>1. Ordered(d, P, b)
  BY PartsOrdered
<1>2. Fine(P, b, Len(P), c, e, K)
  BY DEF AtEnd
<1> HIDE DEF P, b
<1>3. Len(P) \in Nat /\ b \in 0..Len(P)
  BY <1>1 DEF Ordered
<1>4. ASSUME NEW m \in DOMAIN c
      PROVE  /\ c[m].kind = "text" => \E k \in 1..b : c[m].lines = P[k].lines
             /\ c[m].kind # "text" => \E k \in (b + 1)..Len(P) : c[m].lines = P[k].lines
  <2>1. PICK k \in 1..Len(P) : BroughtBy(P, b, c[m], k)
    BY <1>2 DEF Fine, AllCame
  <2>2. k \in 1..b \/ k \in (b + 1)..Len(P)
    BY <1>3
  <2>3. k \in 1..b => k <= b
    OBVIOUS
  <2>4. k \in (b + 1)..Len(P) => ~(k <= b)
    BY <1>3
  <2> QED
    BY <2>1, <2>2, <2>3, <2>4 DEF BroughtBy
<1>5. ASSUME NEW k \in 1..b
      PROVE  \/ \E m \in DOMAIN c : c[m].kind = "text" /\ c[m].lines = P[k].lines
             \/ \A i \in DOMAIN P[k].lines : P[k].lines[i] \in K
  <2>1. k \in 1..Len(P) /\ k <= b
    BY <1>3
  <2> QED
    BY <2>1, <1>2 DEF Fine, AllDone, BroughtBy
<1>6. ASSUME NEW k \in (b + 1)..Len(P)
      PROVE  \E m \in DOMAIN c : c[m].kind # "text" /\ c[m].lines = P[k].lines
  <2>1. k \in 1..Len(P) /\ ~(k <= b)
    BY <1>3
  <2> QED
    BY <2>1, <1>2 DEF Fine, AllDone, BroughtBy
<1>7. ASSUME NEW x \in K
      PROVE  \E k \in 1..b : \E i \in DOMAIN P[k].lines : P[k].lines[i] = x
  <2>1. PICK k \in 1..Len(P) : k <= b /\ \E i \in DOMAIN P[k].lines : P[k].lines[i] = x
    BY <1>2 DEF Fine, GivenUp
  <2> QED
    BY <2>1, <1>3
<1> QED
  BY <1>4, <1>5, <1>6, <1>7 DEF P, b

\* Its words.
LEMMA EndWords ==
  ASSUME NEW d \in Seq(Lines), NEW c \in Seq(Part), NEW e \in BOOLEAN, NEW K, AtEnd(d, c, e, K)
  PROVE  /\ BroughtIn(c, {"text"}) \cup K \subseteq WordsIn(d, Len(d))
         /\ \A i \in WordsIn(d, Len(d)) \ (BroughtIn(c, {"text"}) \cup K) :
              \E m \in DOMAIN SplitReply(d) :
                i \in Range(SplitReply(d)[m]) /\ Parts(d)[m].cut /\ Last(Parts(d)[m].lines) < i
         /\ ~e => BroughtIn(c, {"text"}) \cap K = {}
<1> DEFINE P == Parts(d)
           b == Len(SplitReply(d))
           W == WordsIn(d, Len(d))
           B == BroughtIn(c, {"text"})
<1>1. \A k \in 1..b : \A i \in DOMAIN P[k].lines : P[k].lines[i] \in W
  BY PartsOrdered DEF Ordered
<1>2. /\ \A m \in DOMAIN c : c[m].kind = "text" => \E k \in 1..b : c[m].lines = P[k].lines
      /\ \A k \in 1..b : \/ \E m \in DOMAIN c : c[m].kind = "text" /\ c[m].lines = P[k].lines
                         \/ \A i \in DOMAIN P[k].lines : P[k].lines[i] \in K
      /\ \A x \in K : \E k \in 1..b : \E i \in DOMAIN P[k].lines : P[k].lines[i] = x
  <2>1. \A m \in DOMAIN c : c[m].kind = "text" => \E k \in 1..b : c[m].lines = P[k].lines
    BY EndParts
  <2>2. \A k \in 1..b : \/ \E m \in DOMAIN c : c[m].kind = "text" /\ c[m].lines = P[k].lines
                        \/ \A i \in DOMAIN P[k].lines : P[k].lines[i] \in K
    BY EndParts
  <2>3. \A x \in K : \E k \in 1..b : \E i \in DOMAIN P[k].lines : P[k].lines[i] = x
    BY EndParts
  <2> QED
    BY <2>1, <2>2, <2>3
<1>3. \A x : x \in B <=> \E m \in DOMAIN c : c[m].kind = "text" /\ \E i \in DOMAIN c[m].lines : c[m].lines[i] = x
  BY BroughtInIs
<1>4. ~e => \A m \in DOMAIN c : c[m].kind = "text" => \A i \in DOMAIN c[m].lines : c[m].lines[i] \notin K
  BY DEF AtEnd, Fine, GivenUp
<1>5. ASSUME NEW i \in W
      PROVE  \E m \in DOMAIN SplitReply(d) :
               /\ m \in 1..b /\ i \in Range(SplitReply(d)[m])
               /\ \/ \E j \in DOMAIN P[m].lines : P[m].lines[j] = i
                  \/ P[m].cut /\ Last(P[m].lines) < i
  BY WordsAreSplit
<1> HIDE DEF P, b, W, B
<1>6. B \cup K \subseteq W
  BY <1>1, <1>2, <1>3
<1>7. ~e => B \cap K = {}
  BY <1>3, <1>4
<1>8. ASSUME NEW i \in W \ (B \cup K)
      PROVE  \E m \in DOMAIN SplitReply(d) :
               i \in Range(SplitReply(d)[m]) /\ P[m].cut /\ Last(P[m].lines) < i
  <2>1. PICK m \in DOMAIN SplitReply(d) :
               /\ m \in 1..b /\ i \in Range(SplitReply(d)[m])
               /\ \/ \E j \in DOMAIN P[m].lines : P[m].lines[j] = i
                  \/ P[m].cut /\ Last(P[m].lines) < i
    BY <1>5
  <2>2. ASSUME NEW j \in DOMAIN P[m].lines, P[m].lines[j] = i PROVE FALSE
    <3>1. CASE \E x \in DOMAIN c : c[x].kind = "text" /\ c[x].lines = P[m].lines
      BY <3>1, <2>2, <1>3
    <3>2. CASE \A y \in DOMAIN P[m].lines : P[m].lines[y] \in K
      BY <3>2, <2>2
    <3> QED
      BY <3>1, <3>2, <2>1, <1>2
  <2> QED
    BY <2>1, <2>2
<1> QED
  BY <1>6, <1>7, <1>8 DEF P, b, W, B

\* The order of its messages.
LEMMA EndOrder ==
  ASSUME NEW d \in Seq(Lines), NEW c \in Seq(Part), NEW e \in BOOLEAN, NEW K, AtEnd(d, c, e, K)
  PROVE  /\ \A m, n \in TextsIn(c) : \A i \in DOMAIN c[m].lines, j \in DOMAIN c[n].lines :
              m < n \/ (m = n /\ i < j) => c[m].lines[i] < c[n].lines[j]
         /\ Cardinality(TextsIn(c)) <= MaxMessages
         /\ \A i \in TextsIn(c), j \in DOMAIN c \ TextsIn(c) : i < j
         /\ ~e => \A m, n \in DOMAIN c \ TextsIn(c) : m < n => Head(c[m].lines) < Head(c[n].lines)
<1> DEFINE P == Parts(d)
           b == Len(SplitReply(d))
<1>1. Ordered(d, P, b)
  BY PartsOrdered
<1>2. \A m \in DOMAIN c : c[m].kind = "text" => \E k \in 1..b : c[m].lines = P[k].lines
  BY EndParts
<1>3. InOrder(c, e) /\ FewTexts(b, Len(P), c)
  BY DEF AtEnd, Fine
<1>4. DOMAIN c = 1..Len(c) /\ Len(c) \in Nat
  OBVIOUS
<1> HIDE DEF P, b
<1>5. ASSUME NEW m \in TextsIn(c), NEW n \in TextsIn(c), NEW i \in DOMAIN c[m].lines, NEW j \in DOMAIN c[n].lines,
             m < n \/ (m = n /\ i < j)
      PROVE  c[m].lines[i] < c[n].lines[j]
  <2>1. CASE m < n
    BY <2>1, <1>3 DEF InOrder, TextsIn
  <2>2. CASE m = n /\ i < j
    <3>1. PICK k \in 1..b : c[m].lines = P[k].lines
      BY <1>2 DEF TextsIn
    <3>2. \A x, y \in DOMAIN P[k].lines : x < y => P[k].lines[x] < P[k].lines[y]
      BY <1>1 DEF Ordered
    <3> QED
      BY <2>2, <3>1, <3>2
  <2> QED
    BY <1>5, <2>1, <2>2
<1>6. Cardinality(TextsIn(c)) <= MaxMessages
  <2>1. Cardinality(TextsIn(c)) <= b /\ b <= MaxMessages /\ b \in Nat /\ MaxMessages \in Nat
    BY <1>1, <1>3, EgressAssumption DEF FewTexts, Ordered
  <2>2. Cardinality(TextsIn(c)) \in Nat
    <3>1. [kind |-> "text", lines |-> <<>>, cut |-> FALSE] \in Part
      BY DEF Part
    <3> QED
      BY <3>1, TextsAppended
  <2> QED
    BY <2>1, <2>2
<1>7. ASSUME NEW i \in TextsIn(c), NEW j \in DOMAIN c \ TextsIn(c)
      PROVE  i < j
  <2>1. ~(j < i)
    BY <1>3 DEF InOrder, TextsIn
  <2>2. i \in Nat /\ j \in Nat /\ i # j
    BY <1>4 DEF TextsIn
  <2> QED
    BY <2>1, <2>2
<1>8. ASSUME ~e, NEW m \in DOMAIN c \ TextsIn(c), NEW n \in DOMAIN c \ TextsIn(c), m < n
      PROVE  Head(c[m].lines) < Head(c[n].lines)
  <2>1. LineOf(c[m]) < LineOf(c[n])
    BY <1>3, <1>8 DEF InOrder, TextsIn
  <2>2. c[m] \in Part /\ c[n] \in Part
    OBVIOUS
  <2>3. c[m].lines \in Seq(Nat) /\ c[n].lines \in Seq(Nat)
    BY <2>2 DEF Part
  <2> QED
    BY <2>1, <2>3 DEF LineOf
<1> QED
  BY <1>5, <1>6, <1>7, <1>8

\* Its pictures.
LEMMA EndCodes ==
  ASSUME NEW d \in Seq(Lines), NEW c \in Seq(Part), NEW e \in BOOLEAN, NEW K, AtEnd(d, c, e, K)
  PROVE  LET codes == BroughtIn(c, {"image", "link"}) IN
         /\ \A i \in codes : d[i] \in Code
         /\ \A i \in DOMAIN d : d[i] \in Code => \E j \in codes : j <= i /\ d[j] = d[i]
         /\ \A i, j \in codes : d[i] = d[j] => i = j
<1> DEFINE P == Parts(d)
           b == Len(SplitReply(d))
           codes == BroughtIn(c, {"image", "link"})
<1>1. Ordered(d, P, b)
  BY PartsOrdered
<1>2. /\ \A m \in DOMAIN c : c[m].kind # "text" => \E k \in (b + 1)..Len(P) : c[m].lines = P[k].lines
      /\ \A k \in (b + 1)..Len(P) : \E m \in DOMAIN c : c[m].kind # "text" /\ c[m].lines = P[k].lines
  <2>1. \A k \in (b + 1)..Len(P) : \E m \in DOMAIN c : c[m].kind # "text" /\ c[m].lines = P[k].lines
    BY EndParts
  <2>2. \A m \in DOMAIN c : c[m].kind # "text" => \E k \in (b + 1)..Len(P) : c[m].lines = P[k].lines
    BY EndParts
  <2> QED
    BY <2>1, <2>2
<1>3. ASSUME NEW x
      PROVE  x \in codes <=>
               \E m \in DOMAIN c : c[m].kind # "text" /\ \E i \in DOMAIN c[m].lines : c[m].lines[i] = x
  <2>0. \A m \in DOMAIN c : c[m] \in Part
    OBVIOUS
  <2>1. \A m \in DOMAIN c : c[m].kind # "text" <=> c[m].kind \in {"image", "link"}
    BY <2>0 DEF Part
  <2> QED
    BY <2>1, BroughtInIs
<1>4. DOMAIN d = 1..Len(d)
  OBVIOUS
<1>0. ASSUME NEW k \in (b + 1)..Len(P)
      PROVE  k \in DOMAIN P /\ P[k].lines \in Seq(Nat) /\ Len(P[k].lines) = 1
  <2> HIDE DEF P, b
  <2>1. P \in Seq(Part) /\ b \in 0..Len(P) /\ Len(P) \in Nat
    BY <1>1 DEF Ordered
  <2>2. k \in DOMAIN P
    BY <2>1
  <2>3. P[k] \in Part
    BY <2>1, <2>2
  <2> QED
    BY <2>2, <2>3, <1>1 DEF Ordered, Part
<1> HIDE DEF P, b, codes
<1>5. ASSUME NEW x \in codes
      PROVE  x \in 1..Len(d) /\ FirstCode(d, x)
  <2>1. PICK m \in DOMAIN c : c[m].kind # "text" /\ \E i \in DOMAIN c[m].lines : c[m].lines[i] = x
    BY <1>3
  <2>2. PICK k \in (b + 1)..Len(P) : c[m].lines = P[k].lines
    BY <2>1, <1>2
  <2>3. k \in DOMAIN P /\ P[k].lines \in Seq(Nat)
    BY <1>0
  <2>4. Len(P[k].lines) = 1 /\ LineOf(P[k]) \in 1..Len(d) /\ FirstCode(d, LineOf(P[k]))
    BY <1>1 DEF Ordered
  <2>5. DOMAIN P[k].lines = {1}
    BY <2>3, <2>4
  <2>6. x = LineOf(P[k])
    BY <2>1, <2>2, <2>5 DEF LineOf
  <2> QED
    BY <2>4, <2>6
<1>6. ASSUME NEW i \in DOMAIN d, d[i] \in Code
      PROVE  \E j \in codes : j <= i /\ d[j] = d[i]
  <2>1. PICK k \in (b + 1)..Len(P) : LineOf(P[k]) <= i /\ d[LineOf(P[k])] = d[i]
    BY <1>1, <1>4, <1>6 DEF Ordered
  <2>2. PICK m \in DOMAIN c : c[m].kind # "text" /\ c[m].lines = P[k].lines
    BY <1>2
  <2>3. k \in DOMAIN P /\ P[k].lines \in Seq(Nat) /\ Len(P[k].lines) = 1
    BY <1>0
  <2>4. 1 \in DOMAIN c[m].lines /\ c[m].lines[1] = LineOf(P[k])
    BY <2>2, <2>3 DEF LineOf
  <2>5. LineOf(P[k]) \in codes
    BY <2>2, <2>4, <1>3
  <2> QED
    BY <2>1, <2>5
<1>7. ASSUME NEW i \in codes, NEW j \in codes, d[i] = d[j]
      PROVE  i = j
  <2>1. i \in 1..Len(d) /\ j \in 1..Len(d) /\ FirstCode(d, i) /\ FirstCode(d, j)
    BY <1>5
  <2>2. Len(d) \in Nat
    OBVIOUS
  <2>3. ~(i \in 1..(j - 1)) /\ ~(j \in 1..(i - 1))
    BY <2>1, <1>7 DEF FirstCode
  <2> QED
    BY <2>1, <2>2, <2>3, <1>4
<1>8. \A i \in codes : d[i] \in Code
  BY <1>5 DEF FirstCode
<1> QED
  BY <1>6, <1>7, <1>8 DEF codes

\* Of a turn that counts as replied, the person received all lines in their order
\* but what is known to be missing, and every code once; a second try is not made with
\* an old token, and one call for a token runs at a time (ReplyArrives of
\* src/broadcast).
THEOREM RepliesArrive == EgressSpec => []ReplyArrives
<1>1. ASSUME EgressIInv PROVE ReplyArrives
  <2>1. ASSUME NEW s \in Sender, phase[s] = "replied"
        PROVE  LET lines(m) == chat[s][m].lines
                   came     == Brought(s, {"text"}) \cup skipped[s]
                   codes    == Brought(s, {"image", "link"})
                   says(i)  == reply[s][i]
               IN /\ came \subseteq Words(s)
                  /\ \A i \in Words(s) \ came : CutOff(s, i)
                  /\ s \notin echo => Brought(s, {"text"}) \cap skipped[s] = {}
                  /\ \A m, n \in Texts(s) : \A i \in DOMAIN lines(m), j \in DOMAIN lines(n) :
                       m < n \/ (m = n /\ i < j) => lines(m)[i] < lines(n)[j]
                  /\ Cardinality(Texts(s)) <= MaxMessages
                  /\ \A i \in Texts(s), j \in Pictures(s) : i < j
                  /\ \A i \in codes : says(i) \in Code
                  /\ \A i \in DOMAIN reply[s] : says(i) \in Code => \E j \in codes : j <= i /\ says(j) = says(i)
                  /\ \A i, j \in codes : says(i) = says(j) => i = j
                  /\ s \notin echo => \A m, n \in Pictures(s) : m < n => Head(lines(m)) < Head(lines(n))
    <3> DEFINE d == reply[s]
               c == chat[s]
               e == s \in echo
               K == skipped[s]
    <3>1. d \in Seq(Lines) /\ c \in Seq(Part) /\ e \in BOOLEAN
      BY <1>1, ReplyLines
    <3>2. AtEnd(d, c, e, K)
      <4>1. Left(Parts(d), Done(d, todo[s]), todo[s], asLink[s], "replied") /\ todo[s] = <<>>
        BY <1>1, <2>1, ReplyLines DEF TurnInv, InTurn, Left
      <4>2. Fine(Parts(d), Len(SplitReply(d)), Done(d, todo[s]), c, e, K)
        BY <1>1, <2>1, ReplyLines DEF TurnInv, InTurn
      <4>3. Done(d, todo[s]) = Len(Parts(d))
        <5>1. Len(todo[s]) = 0 /\ Done(d, todo[s]) \in Nat /\ Done(d, todo[s]) + Len(todo[s]) = Len(Parts(d))
          BY <4>1 DEF Left
        <5> QED
          BY <5>1
      <4> QED
        BY <4>2, <4>3 DEF AtEnd
    <3>3. /\ Brought(s, {"text"}) = BroughtIn(c, {"text"}) /\ Words(s) = WordsIn(d, Len(d))
          /\ Brought(s, {"image", "link"}) = BroughtIn(c, {"image", "link"})
          /\ Texts(s) = TextsIn(c) /\ Pictures(s) = DOMAIN c \ TextsIn(c)
      BY <3>1 DEF Brought, BroughtIn, Words, WordsIn, Texts, TextsIn, Pictures
    <3>4. \A i : CutOff(s, i) <=> \E m \in DOMAIN SplitReply(d) :
                   i \in Range(SplitReply(d)[m]) /\ Parts(d)[m].cut /\ Last(Parts(d)[m].lines) < i
      BY DEF CutOff
    <3> HIDE DEF e, K
    <3>5. /\ BroughtIn(c, {"text"}) \cup K \subseteq WordsIn(d, Len(d))
          /\ \A i \in WordsIn(d, Len(d)) \ (BroughtIn(c, {"text"}) \cup K) :
               \E m \in DOMAIN SplitReply(d) :
                 i \in Range(SplitReply(d)[m]) /\ Parts(d)[m].cut /\ Last(Parts(d)[m].lines) < i
          /\ ~e => BroughtIn(c, {"text"}) \cap K = {}
      BY <3>1, <3>2, EndWords
    <3>6. /\ \A m, n \in TextsIn(c) : \A i \in DOMAIN c[m].lines, j \in DOMAIN c[n].lines :
               m < n \/ (m = n /\ i < j) => c[m].lines[i] < c[n].lines[j]
          /\ Cardinality(TextsIn(c)) <= MaxMessages
          /\ \A i \in TextsIn(c), j \in DOMAIN c \ TextsIn(c) : i < j
          /\ ~e => \A m, n \in DOMAIN c \ TextsIn(c) : m < n => Head(c[m].lines) < Head(c[n].lines)
      BY <3>1, <3>2, EndOrder
    <3>7. /\ \A i \in BroughtIn(c, {"image", "link"}) : d[i] \in Code
          /\ \A i \in DOMAIN d : d[i] \in Code =>
               \E j \in BroughtIn(c, {"image", "link"}) : j <= i /\ d[j] = d[i]
          /\ \A i, j \in BroughtIn(c, {"image", "link"}) : d[i] = d[j] => i = j
      BY <3>1, <3>2, EndCodes
    <3>8. s \notin echo <=> ~e
      BY DEF e
    <3> QED
      BY <3>3, <3>4, <3>5, <3>6, <3>7, <3>8 DEF K
  <2>2. stale = {} /\ \E i \in 1..2 : fetch[i] = NoFetch
    <3>1. fetch[1] = NoFetch \/ fetch[2] = NoFetch
      BY <1>1 DEF EgressIInv, TokenInv
    <3> QED
      BY <1>1, <3>1 DEF EgressIInv, TokenInv
  <2> QED
    BY <2>1, <2>2 DEF ReplyArrives
<1> QED
  BY <1>1, EgressInductive, PTL
=============================================================================
