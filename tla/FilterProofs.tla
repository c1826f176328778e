----------------------------- MODULE FilterProofs -----------------------------
(***************************************************************************)
(* What Kept of module Filter returns, for every sequence. The theorems    *)
(* about induction take a predicate as a parameter; the ones about         *)
(* well-founded relations take a set, and that is enough.                  *)
(***************************************************************************)
EXTENDS Filter, TLAPS, WellFoundedInduction, SequenceTheorems

\* A set of naturals that is not empty has a least element.
LEMMA Least ==
    ASSUME NEW T, T \subseteq Nat, T # {}
    PROVE  \E x \in T : \A y \in T : x <= y
<1> DEFINE R == OpToRel(<, Nat)
<1>1. IsWellFoundedOn(R, Nat)
    BY NatLessThanWellFounded
<1>2. \A x, y \in Nat : <<x, y>> \in R <=> x < y
    BY DEF OpToRel
<1> HIDE DEF R
<1>3. PICK x \in T : \A y \in T : ~(<<y, x>> \in R)
    BY <1>1, WFMin
<1>4. ASSUME NEW y \in T PROVE x <= y
    <2>1. x \in Nat /\ y \in Nat
        OBVIOUS
    <2>2. ~(y < x)
        BY <1>2, <1>3, <2>1
    <2> QED
        BY <2>1, <2>2
<1> QED
    BY <1>4

\* Induction from 0 to N, for a set.
LEMMA UpTo ==
    ASSUME NEW N \in Nat, NEW T, 0 \in T,
           \A n \in 0 .. N : (n # N /\ n \in T) => n + 1 \in T
    PROVE  \A n \in 0 .. N : n \in T
<1> DEFINE M == {n \in 0 .. N : n \notin T}
<1> SUFFICES ASSUME M # {} PROVE FALSE
    OBVIOUS
<1>1. PICK x \in M : \A y \in M : x <= y
    <2>1. M \subseteq Nat
        OBVIOUS
    <2> HIDE DEF M
    <2> QED
        BY <2>1, Least
<1>2. x \in 0 .. N /\ x \notin T /\ x # 0
    OBVIOUS
<1>3. x - 1 \in 0 .. N /\ x - 1 # N /\ (x - 1) + 1 = x /\ ~(x <= x - 1)
    BY <1>2
<1>4. x - 1 \in T
    BY <1>1, <1>3
<1> QED
    BY <1>2, <1>3, <1>4

-----------------------------------------------------------------------------
(* Kept. *)

\* g[n] is what is kept of the first n elements.
Prefixes(g, s, K, N) ==
    /\ g[0] = <<>>
    /\ \A n \in 1 .. N : g[n] = IF n \in K THEN Append(g[n - 1], s[n]) ELSE g[n - 1]

\* There is such a function.
LEMMA PrefixesExist ==
    ASSUME NEW S, NEW s \in Seq(S), NEW K
    PROVE  \E g \in [0 .. Len(s) -> Seq(S)] : Prefixes(g, s, K, Len(s))
<1> DEFINE N == Len(s)
           T == {n \in 0 .. N : \E g \in [0 .. n -> Seq(S)] : Prefixes(g, s, K, n)}
<1>0. N \in Nat /\ \A n \in 1 .. N : s[n] \in S
    BY ElementOfSeq
<1> HIDE DEF N
<1>1. 0 \in T
    <2> DEFINE g == [n \in 0 .. 0 |-> <<>>]
    <2>1. g \in [0 .. 0 -> Seq(S)] /\ Prefixes(g, s, K, 0)
        BY DEF Prefixes
    <2> QED
        BY <1>0, <2>1
<1>2. ASSUME NEW n \in 0 .. N, n # N, n \in T PROVE n + 1 \in T
    <2>1. PICK g \in [0 .. n -> Seq(S)] : Prefixes(g, s, K, n)
        BY <1>2
    <2>2. n \in Nat /\ n + 1 \in 1 .. N /\ n + 1 \in 0 .. N
        BY <1>0, <1>2
    <2> DEFINE z == IF n + 1 \in K THEN Append(g[n], s[n + 1]) ELSE g[n]
               h == [m \in 0 .. n + 1 |-> IF m = n + 1 THEN z ELSE g[m]]
    <2>3. z \in Seq(S)
        BY <1>0, <2>2
    <2> HIDE DEF z
    <2>4. h \in [0 .. n + 1 -> Seq(S)]
        <3>1. ASSUME NEW m \in 0 .. n + 1, m # n + 1 PROVE g[m] \in Seq(S)
            <4>1. m \in 0 .. n
                BY <2>2, <3>1
            <4> QED
                BY <4>1
        <3> QED
            BY <2>3, <3>1
    <2>5. h[n + 1] = z /\ \A m \in 0 .. n : h[m] = g[m]
        BY <2>2
    <2> HIDE DEF h
    <2>6. Prefixes(h, s, K, n + 1)
        <3>1. h[0] = <<>>
            BY <2>1, <2>2, <2>5 DEF Prefixes
        <3>2. ASSUME NEW m \in 1 .. n + 1
              PROVE  h[m] = IF m \in K THEN Append(h[m - 1], s[m]) ELSE h[m - 1]
            <4>1. CASE m = n + 1
                <5>1. m - 1 = n /\ h[n] = g[n]
                    BY <2>2, <2>5, <4>1
                <5> QED
                    BY <2>5, <4>1, <5>1 DEF z
            <4>2. CASE m # n + 1
                <5>1. m \in 1 .. n /\ m \in 0 .. n /\ m - 1 \in 0 .. n
                    BY <2>2, <4>2
                <5>2. h[m] = g[m] /\ h[m - 1] = g[m - 1]
                    BY <2>5, <5>1
                <5>3. g[m] = IF m \in K THEN Append(g[m - 1], s[m]) ELSE g[m - 1]
                    BY <2>1, <5>1 DEF Prefixes
                <5> QED
                    BY <5>2, <5>3
            <4> QED
                BY <4>1, <4>2
        <3> QED
            BY <3>1, <3>2 DEF Prefixes
    <2> QED
        BY <2>2, <2>4, <2>6
<1>3. \A n \in 0 .. N : n \in T
    <2> HIDE DEF T
    <2> QED
        BY <1>0, <1>1, <1>2, UpTo
<1> QED
    BY <1>0, <1>3 DEF N

\* Kept is the last of its prefixes.
LEMMA KeptPrefixes ==
    ASSUME NEW S, NEW s \in Seq(S), NEW K
    PROVE  \E g : Prefixes(g, s, K, Len(s)) /\ Kept(s, K) = g[Len(s)]
<1> DEFINE Body(g) == [n \in 0 .. Len(s) |->
                         IF n = 0 THEN <<>>
                         ELSE IF n \in K THEN Append(g[n - 1], s[n]) ELSE g[n - 1]]
           k == CHOOSE g : g = Body(g)
<1>0. Len(s) \in Nat
    OBVIOUS
<1>1. PICK g \in [0 .. Len(s) -> Seq(S)] : Prefixes(g, s, K, Len(s))
    BY PrefixesExist
<1>2. ASSUME NEW n \in 0 .. Len(s)
      PROVE  g[n] = IF n = 0 THEN <<>>
                    ELSE IF n \in K THEN Append(g[n - 1], s[n]) ELSE g[n - 1]
    <2>1. CASE n = 0
        BY <1>1, <2>1 DEF Prefixes
    <2>2. CASE n # 0
        <3>1. n \in 1 .. Len(s)
            BY <1>0, <2>2
        <3> QED
            BY <1>1, <2>2, <3>1 DEF Prefixes
    <2> QED
        BY <2>1, <2>2
<1>3. g = Body(g)
    BY <1>2
<1>4. k = Body(k)
    BY <1>3
<1>5. Kept(s, K) = k[Len(s)]
    BY DEF Kept
<1> HIDE DEF k
<1>6. ASSUME NEW n \in 0 .. Len(s)
      PROVE  k[n] = IF n = 0 THEN <<>>
                    ELSE IF n \in K THEN Append(k[n - 1], s[n]) ELSE k[n - 1]
    BY <1>4
<1>7. Prefixes(k, s, K, Len(s))
    <2>1. k[0] = <<>>
        BY <1>0, <1>6
    <2>2. ASSUME NEW n \in 1 .. Len(s)
          PROVE  k[n] = IF n \in K THEN Append(k[n - 1], s[n]) ELSE k[n - 1]
        <3>1. n \in 0 .. Len(s) /\ n # 0
            BY <1>0
        <3> QED
            BY <1>6, <3>1
    <2> QED
        BY <2>1, <2>2 DEF Prefixes
<1> QED
    BY <1>5, <1>7

\* The prefixes are sequences over the same elements.
LEMMA PrefixesType ==
    ASSUME NEW S, NEW s \in Seq(S), NEW K, NEW g, Prefixes(g, s, K, Len(s))
    PROVE  \A n \in 0 .. Len(s) : g[n] \in Seq(S)
<1> DEFINE N == Len(s)
           T == {n \in 0 .. N : g[n] \in Seq(S)}
<1>0. N \in Nat /\ \A n \in 1 .. N : s[n] \in S
    BY ElementOfSeq
<1> HIDE DEF N
<1>1. 0 \in T
    <2>1. g[0] = <<>>
        BY DEF Prefixes
    <2>2. <<>> \in Seq(S)
        BY EmptySeq
    <2>3. g[0] \in Seq(S)
        BY <2>1, <2>2
    <2> QED
        BY <1>0, <2>3
<1>2. ASSUME NEW n \in 0 .. N, n # N, n \in T PROVE n + 1 \in T
    <2>1. n + 1 \in 1 .. N /\ n + 1 \in 0 .. N /\ (n + 1) - 1 = n /\ g[n] \in Seq(S)
        BY <1>0, <1>2
    <2>2. g[n + 1] = IF n + 1 \in K THEN Append(g[n], s[n + 1]) ELSE g[n]
        BY <2>1 DEF Prefixes, N
    <2>3. Append(g[n], s[n + 1]) \in Seq(S)
        BY <1>0, <2>1, AppendProperties
    <2>4. g[n + 1] \in Seq(S)
        BY <2>1, <2>2, <2>3
    <2> QED
        BY <2>1, <2>4
<1> HIDE DEF T
<1>3. \A n \in 0 .. N : n \in T
    BY <1>0, <1>1, <1>2, UpTo
<1> QED
    BY <1>3 DEF T, N

\* k lists elements of s at positions of K, from left to right.
Sublist(k, s, K) ==
    \E e : /\ \A i \in 1 .. Len(k) : e[i] \in (1 .. Len(s)) \cap K /\ k[i] = s[e[i]]
           /\ \A i, j \in 1 .. Len(k) : i < j => e[i] < e[j]

\* The first n elements of s, as far as Kept is concerned.
UpToSublist(k, s, K, n) ==
    \E e : /\ \A i \in 1 .. Len(k) : e[i] \in (1 .. n) \cap K /\ k[i] = s[e[i]]
           /\ \A i, j \in 1 .. Len(k) : i < j => e[i] < e[j]

\* What is kept are elements at positions of K, in their order.
LEMMA KeptSublist ==
    ASSUME NEW S, NEW s \in Seq(S), NEW K
    PROVE  Kept(s, K) \in Seq(S) /\ Sublist(Kept(s, K), s, K)
<1>1. PICK g : Prefixes(g, s, K, Len(s)) /\ Kept(s, K) = g[Len(s)]
    BY KeptPrefixes
<1> DEFINE N == Len(s)
           T == {n \in 0 .. N : UpToSublist(g[n], s, K, n)}
<1>0. N \in Nat /\ \A n \in 1 .. N : s[n] \in S
    BY ElementOfSeq
<1>2. \A n \in 0 .. N : g[n] \in Seq(S)
    BY <1>1, PrefixesType
<1> HIDE DEF N
<1>3. 0 \in T
    <2>1. g[0] = <<>>
        BY <1>1 DEF Prefixes
    <2> QED
        BY <1>0, <2>1 DEF UpToSublist
<1>4. ASSUME NEW n \in 0 .. N, n # N, n \in T PROVE n + 1 \in T
    <2>1. n \in Nat /\ n + 1 \in 1 .. N /\ n + 1 \in 0 .. N /\ (n + 1) - 1 = n
        BY <1>0, <1>4
    <2>2. g[n + 1] = IF n + 1 \in K THEN Append(g[n], s[n + 1]) ELSE g[n]
        BY <1>1, <2>1 DEF Prefixes, N
    <2> DEFINE k == g[n]
    <2>3. k \in Seq(S) /\ Len(k) \in Nat
        BY <1>2
    <2>4. PICK e : /\ \A i \in 1 .. Len(k) : e[i] \in (1 .. n) \cap K /\ k[i] = s[e[i]]
                   /\ \A i, j \in 1 .. Len(k) : i < j => e[i] < e[j]
        BY <1>4 DEF UpToSublist
    <2> HIDE DEF k
    <2>5. CASE n + 1 \notin K
        <3>1. \A i \in 1 .. Len(k) : e[i] \in 1 .. n + 1
            BY <2>1, <2>4
        <3>2. UpToSublist(k, s, K, n + 1)
            BY <2>4, <3>1 DEF UpToSublist
        <3> QED
            BY <2>1, <2>2, <2>5, <3>2 DEF k
    <2>6. CASE n + 1 \in K
        <3> DEFINE x == s[n + 1]
                   h == Append(k, x)
                   f == [i \in 1 .. Len(k) + 1 |-> IF i = Len(k) + 1 THEN n + 1 ELSE e[i]]
        <3>1. /\ Len(h) = Len(k) + 1 /\ h[Len(k) + 1] = x
              /\ \A i \in 1 .. Len(k) : h[i] = k[i]
            BY <1>0, <2>1, <2>3, AppendProperties
        <3>2. f[Len(k) + 1] = n + 1 /\ \A i \in 1 .. Len(k) : f[i] = e[i]
            BY <2>3
        <3> HIDE DEF h, f
        <3>3. ASSUME NEW i \in 1 .. Len(h)
              PROVE  f[i] \in (1 .. n + 1) \cap K /\ h[i] = s[f[i]]
            <4>1. CASE i = Len(k) + 1
                BY <2>1, <2>6, <3>1, <3>2, <4>1
            <4>2. CASE i # Len(k) + 1
                <5>1. i \in 1 .. Len(k)
                    BY <2>3, <3>1, <4>2
                <5>2. e[i] \in (1 .. n) \cap K /\ k[i] = s[e[i]]
                    BY <2>4, <5>1
                <5> QED
                    BY <2>1, <3>1, <3>2, <5>1, <5>2
            <4> QED
                BY <4>1, <4>2
        <3>4. ASSUME NEW i \in 1 .. Len(h), NEW j \in 1 .. Len(h), i < j
              PROVE  f[i] < f[j]
            <4>1. i \in 1 .. Len(k) /\ f[i] = e[i] /\ e[i] \in 1 .. n
                BY <2>3, <2>4, <3>1, <3>2, <3>4
            <4>2. CASE j = Len(k) + 1
                BY <2>1, <3>2, <4>1, <4>2
            <4>3. CASE j # Len(k) + 1
                <5>1. j \in 1 .. Len(k)
                    BY <2>3, <3>1, <4>3
                <5> QED
                    BY <2>4, <3>2, <3>4, <4>1, <5>1
            <4> QED
                BY <4>2, <4>3
        <3>5. UpToSublist(h, s, K, n + 1)
            BY <3>3, <3>4 DEF UpToSublist
        <3> QED
            BY <2>1, <2>2, <2>6, <3>5 DEF h, k
    <2> QED
        BY <2>5, <2>6
<1> HIDE DEF T
<1>5. \A n \in 0 .. N : n \in T
    BY <1>0, <1>3, <1>4, UpTo
<1>6. N \in T /\ g[N] \in Seq(S)
    BY <1>0, <1>2, <1>5
<1> QED
    BY <1>1, <1>6 DEF T, N, Sublist, UpToSublist

\* Where every element is kept, nothing changes.
LEMMA KeptAll ==
    ASSUME NEW S, NEW s \in Seq(S), NEW K, \A n \in 1 .. Len(s) : n \in K
    PROVE  Kept(s, K) = s
<1>1. PICK g : Prefixes(g, s, K, Len(s)) /\ Kept(s, K) = g[Len(s)]
    BY KeptPrefixes
<1> DEFINE N == Len(s)
           T == {n \in 0 .. N : Len(g[n]) = n /\ \A i \in 1 .. n : g[n][i] = s[i]}
<1>0. N \in Nat /\ \A n \in 1 .. N : s[n] \in S
    BY ElementOfSeq
<1>2. \A n \in 0 .. N : g[n] \in Seq(S)
    BY <1>1, PrefixesType
<1> HIDE DEF N
<1>3. 0 \in T
    BY <1>0, <1>1 DEF Prefixes
<1>4. ASSUME NEW n \in 0 .. N, n # N, n \in T PROVE n + 1 \in T
    <2>1. n \in Nat /\ n + 1 \in 1 .. N /\ n + 1 \in 0 .. N /\ (n + 1) - 1 = n
        BY <1>0, <1>4
    <2>2. g[n + 1] = Append(g[n], s[n + 1])
        BY <1>1, <2>1 DEF Prefixes, N
    <2>3. /\ g[n] \in Seq(S) /\ s[n + 1] \in S
          /\ Len(g[n]) = n /\ \A i \in 1 .. n : g[n][i] = s[i]
        BY <1>0, <1>2, <1>4, <2>1
    <2>4. /\ Len(g[n + 1]) = n + 1 /\ g[n + 1][n + 1] = s[n + 1]
          /\ \A i \in 1 .. n : g[n + 1][i] = g[n][i]
        BY <2>1, <2>2, <2>3, AppendProperties
    <2>5. ASSUME NEW i \in 1 .. n + 1 PROVE g[n + 1][i] = s[i]
        <3>1. i = n + 1 \/ i \in 1 .. n
            BY <2>1
        <3> QED
            BY <2>3, <2>4, <3>1
    <2> QED
        BY <2>1, <2>4, <2>5
<1> HIDE DEF T
<1>5. \A n \in 0 .. N : n \in T
    BY <1>0, <1>3, <1>4, UpTo
<1>6. N \in T /\ g[N] \in Seq(S) /\ N \in 0 .. N
    BY <1>0, <1>2, <1>5
<1> QED
    BY <1>1, <1>6, SeqEqual DEF T, N

\* One more element is kept or it is not.
LEMMA KeptAppend ==
    ASSUME NEW S, NEW s \in Seq(S), NEW x \in S, NEW K, NEW L,
           \A n \in 1 .. Len(s) : n \in K <=> n \in L
    PROVE  Kept(Append(s, x), L) =
               IF Len(s) + 1 \in L THEN Append(Kept(s, K), x) ELSE Kept(s, K)
<1> DEFINE N == Len(s)
           t == Append(s, x)
<1>1. PICK g : Prefixes(g, s, K, N) /\ Kept(s, K) = g[N]
    BY KeptPrefixes
<1>2. /\ t \in Seq(S) /\ Len(t) = N + 1 /\ t[N + 1] = x /\ N \in Nat
      /\ \A n \in 1 .. N : t[n] = s[n]
    BY AppendProperties
<1> HIDE DEF t, N
<1>3. PICK h : Prefixes(h, t, L, N + 1) /\ Kept(t, L) = h[N + 1]
    BY <1>2, KeptPrefixes
<1> DEFINE T == {n \in 0 .. N : h[n] = g[n]}
<1>4. 0 \in T
    BY <1>1, <1>2, <1>3 DEF Prefixes
<1>5. ASSUME NEW n \in 0 .. N, n # N, n \in T PROVE n + 1 \in T
    <2>1. /\ n \in Nat /\ n + 1 \in 1 .. N /\ n + 1 \in 1 .. N + 1 /\ n + 1 \in 0 .. N
          /\ (n + 1) - 1 = n /\ h[n] = g[n]
        BY <1>2, <1>5
    <2>2. g[n + 1] = IF n + 1 \in K THEN Append(g[n], s[n + 1]) ELSE g[n]
        BY <1>1, <2>1 DEF Prefixes
    <2>3. h[n + 1] = IF n + 1 \in L THEN Append(h[n], t[n + 1]) ELSE h[n]
        BY <1>3, <2>1 DEF Prefixes
    <2>4. n + 1 \in K <=> n + 1 \in L
        BY <2>1 DEF N
    <2> QED
        BY <1>2, <2>1, <2>2, <2>3, <2>4
<1> HIDE DEF T
<1>6. \A n \in 0 .. N : n \in T
    BY <1>2, <1>4, <1>5, UpTo
<1>7. h[N] = g[N]
    BY <1>2, <1>6 DEF T
<1>8. N + 1 \in 1 .. N + 1 /\ (N + 1) - 1 = N
    BY <1>2
<1>9. h[N + 1] = IF N + 1 \in L THEN Append(h[N], t[N + 1]) ELSE h[N]
    BY <1>3, <1>8 DEF Prefixes
<1> QED
    BY <1>1, <1>2, <1>3, <1>7, <1>9 DEF t, N

\* Kept is the one way to list the positions in K in their order.
LEMMA KeptPositions ==
    ASSUME NEW N \in Nat, NEW K, NEW c \in Seq(Nat),
           \A j \in 1 .. Len(c) : c[j] \in (1 .. N) \cap K,
           \A i, j \in 1 .. Len(c) : i < j => c[i] < c[j],
           \A n \in (1 .. N) \cap K : \E j \in 1 .. Len(c) : c[j] = n
    PROVE  Kept([n \in 1 .. N |-> n], K) = c
<1> DEFINE s == [n \in 1 .. N |-> n]
           \* h lists the elements of c up to n
           Lists(h, n) ==
               /\ Len(h) \in 0 .. Len(c)
               /\ \A j \in 1 .. Len(h) : h[j] = c[j]
               /\ \A j \in 1 .. Len(c) : j <= Len(h) <=> c[j] <= n
<1>1. s \in Seq(Nat) /\ Len(s) = N /\ \A n \in 1 .. N : s[n] = n
    <2>1. s \in [1 .. N -> Nat]
        OBVIOUS
    <2>2. s \in Seq(Nat)
        BY <2>1, SeqDef
    <2> QED
        BY <2>2, LenProperties
<1>2. Len(c) \in Nat /\ \A j \in 1 .. Len(c) : c[j] \in Nat
    BY ElementOfSeq
<1> HIDE DEF s
<1>3. PICK g : Prefixes(g, s, K, N) /\ Kept(s, K) = g[N]
    BY <1>1, KeptPrefixes
<1> DEFINE T == {n \in 0 .. N : Lists(g[n], n)}
<1>4. \A n \in 0 .. N : g[n] \in Seq(Nat)
    BY <1>1, <1>3, PrefixesType
<1>5. 0 \in T
    <2>1. g[0] = <<>> /\ Len(g[0]) = 0
        BY <1>3 DEF Prefixes
    <2>2. \A j \in 1 .. Len(c) : c[j] \in 1 .. N
        OBVIOUS
    <2> QED
        BY <1>2, <2>1, <2>2
<1>6. ASSUME NEW n \in 0 .. N, n # N, n \in T PROVE n + 1 \in T
    <2>1. n \in Nat /\ n + 1 \in 1 .. N /\ n + 1 \in 0 .. N /\ (n + 1) - 1 = n
        BY <1>6
    <2>2. g[n + 1] = IF n + 1 \in K THEN Append(g[n], n + 1) ELSE g[n]
        BY <1>1, <1>3, <2>1 DEF Prefixes
    <2>3. PICK h : h = g[n]
        OBVIOUS
    <2>4. Lists(h, n) /\ h \in Seq(Nat) /\ Len(h) \in Nat
        BY <1>4, <1>6, <2>1, <2>3, LenProperties
    <2> HIDE DEF T
    <2>5. CASE n + 1 \notin K
        <3>1. \A j \in 1 .. Len(c) : c[j] # n + 1
            BY <2>5
        <3>2. \A j \in 1 .. Len(c) : c[j] <= n <=> c[j] <= n + 1
            BY <1>2, <2>1, <3>1
        <3>3. Lists(h, n + 1)
            BY <2>4, <3>2
        <3>4. Lists(g[n + 1], n + 1)
            BY <2>2, <2>3, <2>5, <3>3
        <3> QED
            BY <2>1, <3>4 DEF T
    <2>6. CASE n + 1 \in K
        <3>1. PICK m \in 1 .. Len(c) : c[m] = n + 1
            BY <2>1, <2>6
        <3>2. m = Len(h) + 1
            <4>1. ~(m <= Len(h))
                BY <1>2, <2>1, <2>4, <3>1
            <4>2. ASSUME Len(h) + 1 < m PROVE FALSE
                <5>1. Len(h) + 1 \in 1 .. Len(c)
                    BY <1>2, <2>4, <4>2
                <5>2. c[Len(h) + 1] < n + 1
                    BY <3>1, <4>2, <5>1
                <5>3. c[Len(h) + 1] <= n
                    BY <1>2, <2>1, <5>1, <5>2
                <5> QED
                    BY <2>4, <5>1, <5>3
            <4> QED
                BY <1>2, <2>4, <4>1, <4>2
        <3>3. PICK k : k = Append(h, n + 1)
            OBVIOUS
        <3>4. /\ Len(k) = Len(h) + 1 /\ k[Len(h) + 1] = n + 1
              /\ \A j \in 1 .. Len(h) : k[j] = h[j]
            BY <2>1, <2>4, <3>3, AppendProperties
        <3>5. ASSUME NEW j \in 1 .. Len(k) PROVE k[j] = c[j]
            <4>1. j \in 1 .. Len(h) \/ j = Len(h) + 1
                BY <2>4, <3>4
            <4>2. j \in 1 .. Len(h) => h[j] = c[j]
                BY <2>4
            <4> QED
                BY <3>1, <3>2, <3>4, <4>1, <4>2
        <3>6. ASSUME NEW j \in 1 .. Len(c) PROVE j <= Len(k) <=> c[j] <= n + 1
            <4>1. CASE j < m
                <5>1. j <= Len(h) /\ j <= Len(k)
                    BY <2>4, <3>2, <3>4, <4>1
                <5>2. c[j] <= n /\ c[j] \in Nat
                    BY <1>2, <2>4, <5>1
                <5> QED
                    BY <2>1, <5>1, <5>2
            <4>2. CASE j = m
                BY <1>2, <2>1, <3>1, <3>2, <3>4, <4>2
            <4>3. CASE j > m
                <5>1. n + 1 < c[j]
                    BY <3>1, <4>3
                <5> QED
                    BY <1>2, <2>1, <2>4, <3>1, <3>2, <3>4, <4>3, <5>1
            <4> QED
                BY <1>2, <3>1, <4>1, <4>2, <4>3
        <3>7. Lists(k, n + 1)
            BY <1>2, <2>4, <3>1, <3>2, <3>4, <3>5, <3>6
        <3>8. Lists(g[n + 1], n + 1)
            BY <2>2, <2>3, <2>6, <3>3, <3>7
        <3> QED
            BY <2>1, <3>8 DEF T
    <2> QED
        BY <2>5, <2>6
<1> HIDE DEF T
<1>7. \A n \in 0 .. N : n \in T
    BY <1>5, <1>6, UpTo
<1>8. Lists(g[N], N) /\ g[N] \in Seq(Nat) /\ Len(g[N]) \in Nat
    <2>1. N \in 0 .. N
        OBVIOUS
    <2> QED
        BY <2>1, <1>4, <1>7, LenProperties DEF T
<1>9. Len(g[N]) = Len(c)
    <2>1. Len(c) # 0 => Len(c) \in 1 .. Len(c) /\ c[Len(c)] <= N
        BY <1>2
    <2> QED
        BY <1>2, <1>8, <2>1
<1> QED
    BY <1>3, <1>8, <1>9, SeqEqual DEF s
=============================================================================
