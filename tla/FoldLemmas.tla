------------------------------ MODULE FoldLemmas ------------------------------
(* Induction over data.  The induction principles of the library are about an  *)
(* operator; here they are about a set, and a fold's step is a parameter of the*)
(* module, so that a proof about a fold INSTANCEs it with that step.  What the *)
(* step needs besides the accumulated value and the element is its context.    *)
EXTENDS FiniteSetsExt, Sequences, WellFoundedInduction

CONSTANT step(_, _, _)

\* A fold of elements of E keeps to T.
Steps(context, T, E, base) ==
    base \in T /\ \A value \in T, e \in E : step(context, value, e) \in T

\* What FoldLeft of SequencesExt comes to.
Folded(context, base, s) ==
    MapThenFoldSet(LAMBDA e, value : step(context, value, e), base,
                   LAMBDA i : s[i], LAMBDA S : Max(S), DOMAIN s)

-----------------------------------------------------------------------------
\* A set of numbers has a least one.
LEMMA LeastNumber ==
    ASSUME NEW S \in SUBSET Nat, S # {}
    PROVE  \E n \in S : \A m \in S : ~(m < n)
<1> DEFINE R == OpToRel(<, Nat)
<1>1. IsWellFoundedOn(R, Nat)
    BY NatLessThanWellFounded
<1>2. \A m, n \in Nat : m < n => <<m, n>> \in R
    BY DEF OpToRel
<1> HIDE DEF R
<1>3. PICK n \in S : \A m \in S : ~(<<m, n>> \in R)
    BY <1>1, WFMin
<1> QED BY <1>2, <1>3

\* Induction: numbers that hold zero and each one's successor are all numbers.
LEMMA Numbers ==
    ASSUME NEW S \in SUBSET Nat, 0 \in S, \A n \in S : n + 1 \in S
    PROVE  S = Nat
<1> SUFFICES ASSUME Nat \ S # {} PROVE FALSE
    OBVIOUS
<1>1. PICK n \in Nat \ S : \A m \in Nat \ S : ~(m < n)
    BY LeastNumber
<1>2. n # 0 /\ n - 1 \in Nat /\ n - 1 < n
    OBVIOUS
<1>3. n - 1 \in S
    BY <1>1, <1>2
<1> QED BY <1>2, <1>3

\* Induction up to a bound.
LEMMA UpTo ==
    ASSUME NEW n \in Nat, NEW S, 0 \in S, \A k \in 0 .. n - 1 : k \in S => k + 1 \in S
    PROVE  0 .. n \subseteq S
<1> DEFINE Q == {k \in Nat : k <= n => k \in S}
<1>1. 0 \in Q /\ \A k \in Q : k + 1 \in Q
    OBVIOUS
<1> HIDE DEF Q
<1>2. Q \in SUBSET Nat
    BY DEF Q
<1>3. Q = Nat
    BY <1>1, <1>2, Numbers
<1> QED BY <1>3 DEF Q

-----------------------------------------------------------------------------
\* The position a fold takes first.
LEMMA LastPosition == \A k \in Nat \ {0} : Max(1 .. k) = k
<1> SUFFICES ASSUME NEW k \in Nat \ {0} PROVE Max(1 .. k) = k
    OBVIOUS
<1>1. k \in 1 .. k /\ \A y \in 1 .. k : k >= y
    OBVIOUS
<1>2. \A x \in 1 .. k : (\A y \in 1 .. k : x >= y) => x >= k
    BY <1>1
<1>3. \A x \in 1 .. k : (\A y \in 1 .. k : x >= y) => x = k
    BY <1>2
<1> QED BY <1>1, <1>3 DEF Max

\* The iteration behind a fold, over the first n elements.
Iterates(c, base, s, n, iter) ==
    iter = [P \in SUBSET (1 .. n) |->
               IF P = {} THEN base ELSE step(c, iter[P \ {Max(P)}], s[Max(P)])]

\* The iteration behind a fold exists: a function on all sets of positions.
LEMMA IterationExists ==
    ASSUME NEW c, NEW T, NEW E, NEW base, Steps(c, T, E, base),
           NEW s \in Seq(E)
    PROVE  \E iter : Iterates(c, base, s, Len(s), iter)
<1> DEFINE S == {m \in Nat : \E f : Iterates(c, base, s, m, f)}
<1>0. Len(s) \in Nat
    OBVIOUS
<1>1. 0 \in S
    <2> DEFINE f == [P \in SUBSET (1 .. 0) |-> base]
    <2>1. \A P \in SUBSET (1 .. 0) : P = {}
        OBVIOUS
    <2>2. Iterates(c, base, s, 0, f)
        BY <2>1 DEF Iterates
    <2> HIDE DEF f
    <2> QED BY <2>2
<1>2. ASSUME NEW m \in S PROVE m + 1 \in S
    <2>0. m \in Nat
        BY <1>2
    <2>1. PICK f : Iterates(c, base, s, m, f)
        BY <1>2
    <2> DEFINE g == [P \in SUBSET (1 .. m + 1) |->
                        IF m + 1 \in P THEN step(c, f[P \ {m + 1}], s[m + 1]) ELSE f[P]]
    <2>2. ASSUME NEW P \in SUBSET (1 .. m + 1)
          PROVE  g[P] = IF P = {} THEN base ELSE step(c, g[P \ {Max(P)}], s[Max(P)])
        <3>1. CASE m + 1 \in P
            <4>1. Max(P) = m + 1
                <5>1. \A k \in P : m + 1 >= k
                    OBVIOUS
                <5>2. \A x \in P : (\A y \in P : x >= y) => x = m + 1
                    BY <3>1
                <5> QED BY <3>1, <5>1, <5>2 DEF Max
            <4>2. /\ P \ {m + 1} \in SUBSET (1 .. m + 1)
                  /\ m + 1 \notin P \ {m + 1}
                OBVIOUS
            <4>3. g[P \ {m + 1}] = f[P \ {m + 1}]
                BY <4>2
            <4> QED BY <3>1, <4>1, <4>3
        <3>2. CASE m + 1 \notin P
            <4>1. P \in SUBSET (1 .. m) /\ P \ {Max(P)} \in SUBSET (1 .. m)
                <5>1. \A k \in P : k \in 1 .. m
                    BY <2>0, <3>2
                <5> QED BY <5>1
            <4>2. g[P] = f[P] /\ g[P \ {Max(P)}] = f[P \ {Max(P)}]
                BY <3>2, <4>1
            <4>3. f[P] = IF P = {} THEN base ELSE step(c, f[P \ {Max(P)}], s[Max(P)])
                BY <2>1, <4>1 DEF Iterates
            <4> QED BY <4>2, <4>3
        <3> QED BY <3>1, <3>2
    <2>3. Iterates(c, base, s, m + 1, g)
        BY <2>2 DEF Iterates
    <2> HIDE DEF g
    <2> QED BY <2>0, <2>3
<1> HIDE DEF S
<1>3. S = Nat
    BY <1>1, <1>2, Numbers DEF S
<1> QED BY <1>0, <1>3 DEF S

\* The values a fold goes through, and the one it comes to.
Visits(c, T, base, s, values) ==
    /\ values \in [0 .. Len(s) -> T]
    /\ values[0] = base
    /\ \A k \in 1 .. Len(s) : values[k] = step(c, values[k - 1], s[k])
    /\ values[Len(s)] = Folded(c, base, s)

\* A fold visits the elements in their order, each once.
THEOREM FoldVisits ==
    ASSUME NEW c, NEW T, NEW E, NEW base, Steps(c, T, E, base),
           NEW s \in Seq(E)
    PROVE  \E values : Visits(c, T, base, s, values)
<1>0. Len(s) \in Nat /\ DOMAIN s = 1 .. Len(s) /\ \A k \in 1 .. Len(s) : s[k] \in E
    OBVIOUS
<1>1. PICK iter : iter = CHOOSE f : Iterates(c, base, s, Len(s), f)
    OBVIOUS
<1>2. Iterates(c, base, s, Len(s), iter)
    <2>1. \E f : Iterates(c, base, s, Len(s), f)
        BY IterationExists
    <2> QED BY <1>1, <2>1
<1>3. Folded(c, base, s) = iter[1 .. Len(s)]
    BY <1>0, <1>1 DEF Iterates, Folded, MapThenFoldSet
<1>4. iter[1 .. 0] = base
    <2>1. 1 .. 0 = {} /\ {} \in SUBSET (1 .. Len(s))
        OBVIOUS
    <2> QED BY <1>2, <2>1 DEF Iterates
<1>5. ASSUME NEW k \in 1 .. Len(s)
      PROVE  iter[1 .. k] = step(c, iter[1 .. k - 1], s[k])
    <2>1. 1 .. k \in SUBSET (1 .. Len(s)) /\ k \in 1 .. k /\ k \in Nat \ {0}
        BY <1>0
    <2>2. Max(1 .. k) = k
        BY <2>1, LastPosition
    <2>3. (1 .. k) \ {k} = 1 .. k - 1
        OBVIOUS
    <2>4. iter[1 .. k] = step(c, iter[(1 .. k) \ {Max(1 .. k)}], s[Max(1 .. k)])
        BY <1>2, <2>1 DEF Iterates
    <2> QED BY <2>2, <2>3, <2>4
<1>6. \A k \in 0 .. Len(s) : iter[1 .. k] \in T
    <2> DEFINE S == {k \in 0 .. Len(s) : iter[1 .. k] \in T}
    <2>1. 0 \in S
        BY <1>0, <1>4 DEF Steps
    <2>2. ASSUME NEW k \in 0 .. Len(s) - 1, k \in S PROVE k + 1 \in S
        <3>1. k + 1 \in 1 .. Len(s) /\ (k + 1) - 1 = k
            BY <1>0
        <3>2. iter[1 .. k + 1] = step(c, iter[1 .. k], s[k + 1])
            BY <1>5, <3>1
        <3> QED BY <1>0, <2>2, <3>1, <3>2 DEF Steps
    <2> HIDE DEF S
    <2>3. 0 .. Len(s) \subseteq S
        BY <1>0, <2>1, <2>2, UpTo
    <2> QED BY <2>3 DEF S
<1> DEFINE values == [k \in 0 .. Len(s) |-> iter[1 .. k]]
<1>7. values \in [0 .. Len(s) -> T]
    BY <1>6
<1>8. values[0] = base /\ values[Len(s)] = Folded(c, base, s)
    BY <1>0, <1>3, <1>4
<1>9. \A k \in 1 .. Len(s) : values[k] = step(c, values[k - 1], s[k])
    BY <1>0, <1>5
<1> HIDE DEF values
<1>10. Visits(c, T, base, s, values)
    BY <1>7, <1>8, <1>9 DEF Visits
<1> QED BY <1>10

\* The fold over one element more.
THEOREM FoldAppend ==
    ASSUME NEW c, NEW T, NEW E, NEW base, Steps(c, T, E, base),
           NEW s \in Seq(E), NEW e \in E
    PROVE  /\ Folded(c, base, s) \in T
           /\ Folded(c, base, Append(s, e)) = step(c, Folded(c, base, s), e)
           /\ Folded(c, base, <<>>) = base
<1> DEFINE t == Append(s, e)
<1>0. /\ Len(s) \in Nat /\ t \in Seq(E) /\ Len(t) = Len(s) + 1
      /\ \A k \in 1 .. Len(s) : t[k] = s[k]
      /\ t[Len(s) + 1] = e
    OBVIOUS
<1> HIDE DEF t
<1>1. PICK v : Visits(c, T, base, s, v)
    BY FoldVisits
<1>2. PICK w : Visits(c, T, base, t, w)
    BY <1>0, FoldVisits
<1>3. w[Len(s)] = v[Len(s)]
    <2> DEFINE S == {k \in 0 .. Len(s) : w[k] = v[k]}
    <2>1. 0 \in S
        BY <1>0, <1>1, <1>2 DEF Visits
    <2>2. ASSUME NEW k \in 0 .. Len(s) - 1, k \in S PROVE k + 1 \in S
        <3>1. k + 1 \in 1 .. Len(s) /\ k + 1 \in 1 .. Len(t) /\ (k + 1) - 1 = k
            BY <1>0
        <3>2. w[k + 1] = step(c, w[k], t[k + 1]) /\ v[k + 1] = step(c, v[k], s[k + 1])
            BY <1>1, <1>2, <3>1 DEF Visits
        <3> QED BY <1>0, <2>2, <3>1, <3>2
    <2> HIDE DEF S
    <2>3. 0 .. Len(s) \subseteq S
        BY <1>0, <2>1, <2>2, UpTo
    <2> QED BY <1>0, <2>3 DEF S
<1>4. Len(t) \in 1 .. Len(t) /\ Len(t) - 1 = Len(s)
    BY <1>0
<1>5. Folded(c, base, t) = step(c, Folded(c, base, s), e)
    BY <1>0, <1>1, <1>2, <1>3, <1>4 DEF Visits
<1>6. Folded(c, base, s) \in T
    BY <1>0, <1>1 DEF Visits
<1>7. Folded(c, base, <<>>) = base
    <2>1. <<>> \in Seq(E) /\ Len(<<>>) = 0
        OBVIOUS
    <2>2. PICK u : Visits(c, T, base, <<>>, u)
        BY <2>1, FoldVisits
    <2> QED BY <2>1, <2>2 DEF Visits
<1> QED BY <1>5, <1>6, <1>7 DEF t

\* What holds of the base and is kept by each element holds of the fold.
THEOREM FoldKeeps ==
    ASSUME NEW c, NEW T, NEW E, NEW base, Steps(c, T, E, base),
           NEW s \in Seq(E),
           NEW G, <<0, base>> \in G,
           \A k \in 1 .. Len(s), t \in T :
               <<k - 1, t>> \in G => <<k, step(c, t, s[k])>> \in G
    PROVE  <<Len(s), Folded(c, base, s)>> \in G
<1>0. Len(s) \in Nat
    OBVIOUS
<1>1. PICK v : Visits(c, T, base, s, v)
    BY FoldVisits
<1> DEFINE S == {k \in 0 .. Len(s) : <<k, v[k]>> \in G}
<1>2. 0 \in S
    <2>1. v[0] = base /\ 0 \in 0 .. Len(s)
        BY <1>0, <1>1 DEF Visits
    <2> QED BY <2>1
<1>3. ASSUME NEW k \in 0 .. Len(s) - 1, k \in S PROVE k + 1 \in S
    <2>1. k + 1 \in 1 .. Len(s) /\ (k + 1) - 1 = k /\ v[k] \in T /\ k + 1 \in 0 .. Len(s)
        BY <1>0, <1>1 DEF Visits
    <2>2. v[k + 1] = step(c, v[k], s[k + 1])
        BY <1>1, <2>1 DEF Visits
    <2>3. <<k + 1, step(c, v[k], s[k + 1])>> \in G
        BY <1>3, <2>1
    <2> QED BY <2>1, <2>2, <2>3
<1> HIDE DEF S
<1>4. 0 .. Len(s) \subseteq S
    BY <1>0, <1>2, <1>3, UpTo
<1> QED BY <1>0, <1>1, <1>4 DEF S, Visits

\* Sequences whose elements change a value alike.
Alike(c, T, s, r) ==
    /\ Len(r) = Len(s)
    /\ \A k \in 1 .. Len(s), t \in T : step(c, t, r[k]) = step(c, t, s[k])

\* Folds over sequences whose elements do the same come to the same.
THEOREM FoldAgrees ==
    ASSUME NEW c, NEW T, NEW E, NEW base, Steps(c, T, E, base),
           NEW s \in Seq(E), NEW r \in Seq(E), Alike(c, T, s, r)
    PROVE  Folded(c, base, r) = Folded(c, base, s)
<1>0. /\ Len(s) \in Nat /\ Len(r) = Len(s)
      /\ \A k \in 1 .. Len(s), t \in T : step(c, t, r[k]) = step(c, t, s[k])
    BY DEF Alike
<1>1. PICK v : Visits(c, T, base, s, v)
    BY FoldVisits
<1>2. PICK w : Visits(c, T, base, r, w)
    BY FoldVisits
<1> DEFINE S == {k \in 0 .. Len(s) : w[k] = v[k]}
<1>3. 0 \in S
    BY <1>0, <1>1, <1>2 DEF Visits
<1>4. ASSUME NEW k \in 0 .. Len(s) - 1, k \in S PROVE k + 1 \in S
    <2>1. k + 1 \in 1 .. Len(s) /\ k \in 0 .. Len(s) /\ (k + 1) - 1 = k
        BY <1>0
    <2>2. /\ w[k + 1] = step(c, w[k], r[k + 1]) /\ v[k + 1] = step(c, v[k], s[k + 1])
          /\ v[k] \in T
        BY <1>0, <1>1, <1>2, <2>1 DEF Visits
    <2> QED BY <1>0, <1>4, <2>1, <2>2
<1> HIDE DEF S
<1>5. 0 .. Len(s) \subseteq S
    BY <1>0, <1>3, <1>4, UpTo
<1> QED BY <1>0, <1>1, <1>2, <1>5 DEF S, Visits

-----------------------------------------------------------------------------
\* A sequence that is built up: each of n elements is passed over or appended.
Grows(T, n, w, v) ==
    /\ v \in [0 .. n -> Seq(T)]
    /\ v[0] = <<>>
    /\ \A k \in 1 .. n : \/ v[k] = v[k - 1]
                         \/ w[k] \in T /\ v[k] = Append(v[k - 1], w[k])

\* Where its elements come from.
Grown(n, w, v, from) ==
    /\ from \in [1 .. Len(v[n]) -> 1 .. n]
    /\ \A i, j \in 1 .. Len(v[n]) : i < j => from[i] < from[j]
    /\ \A i \in 1 .. Len(v[n]) : /\ v[n][i] = w[from[i]]
                                 /\ Len(v[from[i] - 1]) = i - 1
                                 /\ Len(v[from[i]]) = i
    /\ \A k \in 1 .. n : v[k] = v[k - 1] \/ \E i \in 1 .. Len(v[n]) : from[i] = k
    /\ \A k \in 0 .. n : /\ Len(v[k]) \in 0 .. Len(v[n])
                         /\ \A i \in 1 .. Len(v[k]) : v[n][i] = v[k][i] /\ from[i] <= k

\* What has been built up stays, in the order of what it was built from.
THEOREM GrowthKeepsOrder ==
    ASSUME NEW T, NEW n \in Nat, NEW w, NEW v, Grows(T, n, w, v)
    PROVE  \E from : Grown(n, w, v, from)
<1> DEFINE L(k) == Len(v[k])
<1>1. \A k \in 0 .. n : v[k] \in Seq(T) /\ L(k) \in Nat
    BY DEF Grows
<1>2. ASSUME NEW k \in 1 .. n
      PROVE  /\ k \in 0 .. n /\ k - 1 \in 0 .. n
             /\ \/ v[k] = v[k - 1]
                \/ /\ L(k) = L(k - 1) + 1 /\ v[k][L(k)] = w[k]
                   /\ \A i \in 1 .. L(k - 1) : v[k][i] = v[k - 1][i]
    <2>1. k \in 0 .. n /\ k - 1 \in 0 .. n
        OBVIOUS
    <2>2. CASE v[k] = v[k - 1]
        BY <2>1, <2>2
    <2>3. CASE w[k] \in T /\ v[k] = Append(v[k - 1], w[k])
        <3>1. PICK s \in Seq(T) : s = v[k - 1]
            BY <1>1, <2>1
        <3>2. /\ Len(Append(s, w[k])) = Len(s) + 1
              /\ \A i \in 1 .. Len(s) : Append(s, w[k])[i] = s[i]
              /\ Append(s, w[k])[Len(s) + 1] = w[k]
            BY <2>3
        <3> QED BY <2>1, <2>3, <3>1, <3>2
    <2> QED BY <2>2, <2>3 DEF Grows
<1>3. ASSUME NEW j \in 0 .. n, NEW k \in 0 .. n, j <= k
      PROVE  L(j) <= L(k) /\ \A i \in 1 .. L(j) : v[k][i] = v[j][i]
    <2> DEFINE S == {m \in 0 .. n : j <= m =>
                        L(j) <= L(m) /\ \A i \in 1 .. L(j) : v[m][i] = v[j][i]}
    <2>1. 0 \in S
        <3>1. 0 \in 0 .. n /\ (j <= 0 => j = 0)
            OBVIOUS
        <3> QED BY <1>1, <3>1
    <2>2. ASSUME NEW m \in 0 .. n - 1, m \in S PROVE m + 1 \in S
        <3>1. m + 1 \in 1 .. n /\ m \in 0 .. n /\ (m + 1) - 1 = m /\ m + 1 \in 0 .. n
            OBVIOUS
        <3>2. CASE j = m + 1
            BY <1>1, <3>1, <3>2
        <3>3. CASE j # m + 1
            <4>1. SUFFICES ASSUME j <= m + 1
                  PROVE  L(j) <= L(m + 1) /\ \A i \in 1 .. L(j) : v[m + 1][i] = v[j][i]
                BY <3>1
            <4>2. L(j) <= L(m) /\ \A i \in 1 .. L(j) : v[m][i] = v[j][i]
                <5>1. j <= m
                    BY <3>3, <4>1
                <5> QED BY <2>2, <5>1
            <4>3. /\ L(m) \in Nat /\ L(j) \in Nat
                  /\ \/ v[m + 1] = v[m]
                     \/ /\ L(m + 1) = L(m) + 1
                        /\ \A i \in 1 .. L(m) : v[m + 1][i] = v[m][i]
                BY <1>1, <1>2, <3>1
            <4> QED BY <4>2, <4>3
        <3> QED BY <3>2, <3>3
    <2> HIDE DEF S
    <2>3. 0 .. n \subseteq S
        BY <2>1, <2>2, UpTo
    <2> QED BY <1>3, <2>3 DEF S
<1>4. L(0) = 0 /\ 0 \in 0 .. n /\ n \in 0 .. n
    BY DEF Grows
<1>5. ASSUME NEW i \in 1 .. L(n)
      PROVE  \E k \in 1 .. n : L(k - 1) = i - 1 /\ L(k) = i
    <2> DEFINE S == {k \in 0 .. n : i <= L(k)}
    <2>1. S \in SUBSET Nat /\ S # {}
        BY <1>1, <1>4
    <2>2. PICK k \in S : \A m \in S : ~(m < k)
        BY <2>1, LeastNumber
    <2>3. k # 0 /\ k \in 0 .. n
        BY <1>4
    <2>4. k \in 1 .. n /\ k - 1 \in 0 .. n /\ k - 1 < k
        BY <2>3
    <2>5. ~(i <= L(k - 1)) /\ i <= L(k)
        BY <2>2, <2>4
    <2>6. L(k - 1) \in Nat /\ L(k) \in Nat
        BY <1>1, <2>3, <2>4
    <2>7. L(k) = L(k - 1) \/ L(k) = L(k - 1) + 1
        BY <1>2, <2>4
    <2>8. L(k - 1) = i - 1 /\ L(k) = i
        BY <2>5, <2>6, <2>7
    <2> QED BY <2>4, <2>8
<1> DEFINE from == [i \in 1 .. L(n) |-> CHOOSE k \in 1 .. n : L(k - 1) = i - 1 /\ L(k) = i]
<1>6. \A i \in 1 .. L(n) : from[i] \in 1 .. n /\ L(from[i] - 1) = i - 1 /\ L(from[i]) = i
    BY <1>5
<1>7. from \in [1 .. L(n) -> 1 .. n]
    BY <1>6
<1> HIDE DEF from
<1>8. ASSUME NEW i \in 1 .. L(n), NEW k \in 0 .. n, L(k) >= i PROVE from[i] <= k
    <2>1. SUFFICES ASSUME k < from[i] PROVE FALSE
        BY <1>6
    <2>2. from[i] \in 1 .. n /\ from[i] - 1 \in 0 .. n /\ k <= from[i] - 1
        BY <1>6, <2>1
    <2>3. L(k) <= i - 1
        BY <1>3, <1>6, <2>2
    <2> QED BY <1>1, <1>8, <2>3
<1>9. ASSUME NEW i \in 1 .. L(n), NEW j \in 1 .. L(n), i < j PROVE from[i] < from[j]
    <2>1. from[j] \in 1 .. n /\ from[j] - 1 \in 0 .. n /\ L(from[j] - 1) = j - 1
        BY <1>6
    <2>2. L(from[j] - 1) >= i
        BY <1>9, <2>1
    <2>3. from[i] <= from[j] - 1
        BY <1>8, <2>1, <2>2
    <2> QED BY <1>6, <2>3
<1>10. ASSUME NEW i \in 1 .. L(n) PROVE v[n][i] = w[from[i]]
    <2>1. /\ from[i] \in 1 .. n /\ from[i] \in 0 .. n /\ from[i] <= n
          /\ L(from[i] - 1) = i - 1 /\ L(from[i]) = i
        BY <1>6
    <2>2. v[from[i]] # v[from[i] - 1]
        BY <2>1
    <2>3. v[from[i]][i] = w[from[i]]
        BY <1>2, <2>1, <2>2
    <2>4. i \in 1 .. L(from[i])
        BY <2>1
    <2>5. v[n][i] = v[from[i]][i]
        BY <1>3, <1>4, <2>1, <2>4
    <2> QED BY <2>3, <2>5
<1>11. ASSUME NEW k \in 1 .. n
       PROVE  v[k] = v[k - 1] \/ \E i \in 1 .. L(n) : from[i] = k
    <2>1. SUFFICES ASSUME v[k] # v[k - 1] PROVE \E i \in 1 .. L(n) : from[i] = k
        OBVIOUS
    <2>2. /\ k \in 0 .. n /\ k - 1 \in 0 .. n /\ L(k) = L(k - 1) + 1
          /\ L(k) \in Nat /\ L(k - 1) \in Nat /\ L(k) <= L(n) /\ L(n) \in Nat
        BY <1>1, <1>2, <1>3, <1>4, <2>1
    <2>3. L(k) \in 1 .. L(n)
        BY <2>2
    <2>4. from[L(k)] <= k
        BY <1>8, <2>2, <2>3
    <2>5. ~(from[L(k)] <= k - 1)
        <3>1. SUFFICES ASSUME from[L(k)] <= k - 1 PROVE FALSE
            OBVIOUS
        <3>2. from[L(k)] \in 0 .. n /\ L(from[L(k)]) = L(k)
            BY <1>6, <2>3
        <3>3. L(from[L(k)]) <= L(k - 1)
            BY <1>3, <2>2, <3>1, <3>2
        <3> QED BY <2>2, <3>2, <3>3
    <2>6. from[L(k)] = k
        BY <1>6, <2>3, <2>4, <2>5
    <2> QED BY <2>3, <2>6
<1>12. ASSUME NEW k \in 0 .. n
       PROVE  /\ L(k) \in 0 .. L(n)
              /\ \A i \in 1 .. L(k) : v[n][i] = v[k][i] /\ from[i] <= k
    <2>1. L(k) \in Nat /\ L(n) \in Nat /\ L(k) <= L(n)
        BY <1>1, <1>3, <1>4
    <2>2. \A i \in 1 .. L(k) : i \in 1 .. L(n) /\ L(k) >= i
        BY <2>1
    <2>3. \A i \in 1 .. L(k) : v[n][i] = v[k][i]
        BY <1>3, <1>4
    <2> QED BY <1>8, <2>1, <2>2, <2>3
<1>13. Grown(n, w, v, from)
    BY <1>6, <1>7, <1>9, <1>10, <1>11, <1>12 DEF Grown
<1> QED BY <1>13
=============================================================================
