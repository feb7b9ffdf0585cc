---------------------------- MODULE ServingProofs ----------------------------
(***************************************************************************)
(* Safety of the data plane for any services, networks, configs, clients   *)
(* and limits: what a build makes of any list of containers, and what the  *)
(* tables and the queries keep while passes, the world and clients run.    *)
(***************************************************************************)
EXTENDS Serving, TLAPS, FiniteSetTheorems, WellFoundedInduction

-----------------------------------------------------------------------------
(* Numbers, and functions defined by recursion                             *)

(* Every set of natural numbers has a least element. *)
LEMMA LeastExists ==
  ASSUME NEW T \in SUBSET Nat, T # {}
  PROVE  \E n \in T : \A m \in T : n <= m
  <1> DEFINE R == StrictSubsetOrdering(Nat)
             below(n) == 0 .. n
             F == {below(n) : n \in T}
  <1>1. IsWellFoundedOn(R, FiniteSubsetsOf(Nat))
    BY FS_StrictSubsetOrderingWellFounded
  <1>2. F \subseteq FiniteSubsetsOf(Nat) /\ F # {}
    <2>1. ASSUME NEW n \in T
          PROVE  below(n) \in FiniteSubsetsOf(Nat)
      <3>1. below(n) \in SUBSET Nat
        OBVIOUS
      <3>2. IsFiniteSet(0 .. n)
        BY FS_Interval
      <3> QED
        BY <3>1, <3>2 DEF FiniteSubsetsOf
    <2> QED
      BY <2>1
  <1> HIDE DEF R
  <1>3. PICK x \in F : \A y \in F : ~(<<y, x>> \in R)
    BY <1>1, <1>2, WFMin
  <1>4. PICK n \in T : x = below(n)
    BY <1>3
  <1>5. ASSUME NEW m \in T, m < n
        PROVE  FALSE
    <2>1. below(m) \subseteq below(n) /\ below(m) # below(n)
      <3>1. n \in below(n) /\ n \notin below(m)
        BY <1>5
      <3>2. below(m) \subseteq below(n)
        BY <1>5
      <3> QED
        BY <3>1, <3>2
    <2>2. <<below(m), below(n)>> \in R
      BY <2>1 DEF R, StrictSubsetOrdering
    <2> QED
      BY <1>3, <1>4, <2>2
  <1> QED
    BY <1>5

(* What the community modules' Min and Max choose. *)
LEMMA MinIsLeast ==
  ASSUME NEW T \in SUBSET Nat, T # {}
  PROVE  Min(T) \in T /\ \A m \in T : Min(T) <= m
  BY LeastExists DEF Min

LEMMA MaxIsGreatest ==
  ASSUME NEW T \in SUBSET Nat, T # {}, NEW b \in Nat, \A m \in T : m <= b
  PROVE  Max(T) \in T /\ \A m \in T : m <= Max(T)
  <1> DEFINE U == {b - m : m \in T}
  <1>1. U \in SUBSET Nat /\ U # {}
    <2>1. ASSUME NEW m \in T
          PROVE  b - m \in Nat
      OBVIOUS
    <2> QED
      BY <2>1
  <1>2. PICK n \in U : \A m \in U : n <= m
    BY <1>1, LeastExists
  <1>3. PICK k \in T : n = b - k
    BY <1>2
  <1>4. ASSUME NEW m \in T
        PROVE  m <= k
    <2>1. b - k <= b - m
      BY <1>2, <1>3
    <2> QED
      BY <2>1
  <1> QED
    BY <1>4 DEF Max

(* Induction, for a set instead of a predicate. *)
LEMMA SetInduction ==
  ASSUME NEW T, NEW N \in Nat, 0 \in T,
         \A n \in 0 .. N : n < N /\ n \in T => n + 1 \in T
  PROVE  \A n \in 0 .. N : n \in T
  <1> SUFFICES ASSUME {n \in 0 .. N : n \notin T} # {} PROVE FALSE
    OBVIOUS
  <1> DEFINE U == {n \in 0 .. N : n \notin T}
  <1>1. PICK n \in U : \A m \in U : n <= m
    <2>1. U \in SUBSET Nat
      OBVIOUS
    <2> QED
      BY <2>1, LeastExists
  <1>2. n # 0 /\ n \in 1 .. N
    BY <1>1
  <1>3. n - 1 \in 0 .. N /\ n - 1 \notin U /\ n - 1 < N
    BY <1>1, <1>2
  <1>4. n - 1 \in T
    BY <1>3
  <1>5. (n - 1) + 1 \in T
    BY <1>3, <1>4
  <1> QED
    BY <1>1, <1>2, <1>5

(* A function on 0 .. N defined by recursion, with the step given as a function. *)
Iterates(f, N, b, g) == f[0] = b /\ \A n \in 1 .. N : f[n] = g[<<n, f[n - 1]>>]

LEMMA RecursionExists ==
  ASSUME NEW V, NEW N \in Nat, NEW b \in V, NEW g \in [(1 .. N) \X V -> V]
  PROVE  \E f \in [0 .. N -> V] : Iterates(f, N, b, g)
  <1> DEFINE Defined(n, f) == /\ f \in [0 .. n -> V] /\ f[0] = b
                              /\ \A k \in 1 .. n : f[k] = g[<<k, f[k - 1]>>]
             T == {n \in 0 .. N : \E f : Defined(n, f)}
  <1>1. 0 \in T
    <2>1. Defined(0, [k \in 0 .. 0 |-> b])
      OBVIOUS
    <2> HIDE DEF Defined
    <2> QED
      BY <2>1
  <1>2. ASSUME NEW n \in 0 .. N, n < N, n \in T
        PROVE  n + 1 \in T
    <2>1. PICK f : Defined(n, f)
      BY <1>2
    <2> DEFINE h == [k \in 0 .. n + 1 |-> IF k <= n THEN f[k] ELSE g[<<n + 1, f[n]>>]]
    <2>2. Defined(n + 1, h)
      <3>1. f[n] \in V /\ n + 1 \in 1 .. N
        BY <1>2, <2>1
      <3>2. g[<<n + 1, f[n]>>] \in V
        BY <3>1
      <3>3. h \in [0 .. n + 1 -> V] /\ h[0] = b
        BY <2>1, <3>2
      <3>4. ASSUME NEW k \in 1 .. n + 1
            PROVE  h[k] = g[<<k, h[k - 1]>>]
        <4>1. CASE k <= n
          BY <2>1, <4>1
        <4>2. CASE k = n + 1
          <5>1. k \in 0 .. n + 1 /\ ~(k <= n) /\ k - 1 = n /\ n \in 0 .. n + 1 /\ n <= n
            BY <4>2
          <5>2. h[k] = g[<<n + 1, f[n]>>] /\ h[n] = f[n]
            BY <5>1
          <5> QED
            BY <4>2, <5>1, <5>2
        <4> QED
          BY <4>1, <4>2
      <3> QED
        BY <3>3, <3>4
    <2> HIDE DEF Defined
    <2> QED
      BY <1>2, <2>2
  <1> HIDE DEF T
  <1>3. N \in T
    BY <1>1, <1>2, SetInduction
  <1> QED
    BY <1>3 DEF T, Iterates

-----------------------------------------------------------------------------
(* Lists                                                                   *)

(* Spelled out, as the provers do not see it for strings. *)
LEMMA EmptyList ==
  ASSUME NEW S
  PROVE  <<>> \in Seq(S)
  OBVIOUS

LEMMA RangeType ==
  ASSUME NEW S, NEW list \in Seq(S)
  PROVE  Range(list) \subseteq S
  BY DEF Range

LEMMA ShortLists ==
  ASSUME NEW S, NEW a \in S, NEW b \in S
  PROVE  /\ <<a>> \in Seq(S) /\ Range(<<a>>) = {a}
         /\ <<a, b>> \in Seq(S) /\ Range(<<a, b>>) = {a, b}
  <1>1. DOMAIN <<a>> = {1} /\ <<a>>[1] = a
    OBVIOUS
  <1>2. DOMAIN <<a, b>> = {1, 2} /\ <<a, b>>[1] = a /\ <<a, b>>[2] = b
    OBVIOUS
  <1>3. <<a>> \in Seq(S) /\ <<a, b>> \in Seq(S)
    OBVIOUS
  <1> QED
    BY <1>1, <1>2, <1>3 DEF Range

(* A list made by going through another one. *)
LEMMA MadeList ==
  ASSUME NEW S, NEW R, NEW list \in Seq(S), NEW m,
         m = [i \in DOMAIN list |-> m[i]], \A i \in DOMAIN list : m[i] \in R
  PROVE  m \in Seq(R) /\ Range(m) = {m[i] : i \in DOMAIN list}
  <1>1. DOMAIN list = 1 .. Len(list) /\ Len(list) \in Nat
    OBVIOUS
  <1>2. m \in [1 .. Len(list) -> R]
    BY <1>1
  <1>3. DOMAIN m = DOMAIN list
    OBVIOUS
  <1> QED
    BY <1>1, <1>2, <1>3 DEF Range

(* Two lists together have the elements of both. *)
LEMMA ConcatRange ==
  ASSUME NEW S, NEW s \in Seq(S), NEW t \in Seq(S)
  PROVE  s \o t \in Seq(S) /\ Range(s \o t) = Range(s) \cup Range(t)
  <1> DEFINE u == s \o t
  <1>1. /\ u \in Seq(S) /\ Len(u) = Len(s) + Len(t)
        /\ \A i \in 1 .. Len(s) : u[i] = s[i]
        /\ \A i \in 1 .. Len(t) : u[Len(s) + i] = t[i]
    OBVIOUS
  <1>2. /\ Len(s) \in Nat /\ Len(t) \in Nat /\ DOMAIN u = 1 .. Len(s) + Len(t)
        /\ DOMAIN s = 1 .. Len(s) /\ DOMAIN t = 1 .. Len(t)
    OBVIOUS
  <1> HIDE DEF u
  <1>3. Range(u) \subseteq Range(s) \cup Range(t)
    <2> SUFFICES ASSUME NEW i \in DOMAIN u
                 PROVE  u[i] \in Range(s) \cup Range(t)
      BY DEF Range
    <2>1. CASE i <= Len(s)
      BY <1>1, <1>2, <2>1 DEF Range
    <2>2. CASE i > Len(s)
      <3>1. i - Len(s) \in 1 .. Len(t) /\ Len(s) + (i - Len(s)) = i
        BY <1>2, <2>2
      <3> QED
        BY <1>1, <1>2, <3>1 DEF Range
    <2> QED
      BY <1>2, <2>1, <2>2
  <1>4. Range(s) \subseteq Range(u)
    BY <1>1, <1>2 DEF Range
  <1>5. Range(t) \subseteq Range(u)
    <2> SUFFICES ASSUME NEW i \in DOMAIN t
                 PROVE  t[i] \in Range(u)
      BY DEF Range
    <2>1. Len(s) + i \in DOMAIN u
      BY <1>2
    <2> QED
      BY <1>1, <1>2, <2>1 DEF Range
  <1> QED
    BY <1>1, <1>3, <1>4, <1>5 DEF u

(* What FlattenSeq computes, as the limit of a recursion. *)
LEMMA FlattenSteps ==
  ASSUME NEW S, NEW seqs \in Seq(Seq(S)), Len(seqs) # 0
  PROVE  \E f \in [1 .. Len(seqs) -> Seq(S)] :
           /\ f[1] = seqs[1]
           /\ \A i \in 2 .. Len(seqs) : f[i] = f[i - 1] \o seqs[i]
           /\ FlattenSeq(seqs) = f[Len(seqs)]
  <1> DEFINE N == Len(seqs)
             Body(f, i) == IF i = 1 THEN seqs[i] ELSE f[i - 1] \o seqs[i]
             flat == CHOOSE f : f = [i \in 1 .. N |-> Body(f, i)]
             g == [p \in (1 .. N) \X Seq(S) |-> p[2] \o seqs[p[1]]]
  <1>1. N \in Nat /\ N >= 1 /\ \A i \in 1 .. N : seqs[i] \in Seq(S)
    OBVIOUS
  <1>2. g \in [(1 .. N) \X Seq(S) -> Seq(S)]
    BY <1>1
  <1>3. PICK h \in [0 .. N -> Seq(S)] :
          h[0] = <<>> /\ \A n \in 1 .. N : h[n] = g[<<n, h[n - 1]>>]
    <2>1. <<>> \in Seq(S) /\ N \in Nat
      BY <1>1
    <2> DEFINE V == Seq(S)
               empty == <<>>
    <2>2. empty \in V /\ N \in Nat /\ g \in [(1 .. N) \X V -> V]
      BY <1>2, <2>1
    <2> HIDE DEF g, N, V, empty
    <2>3. \E h \in [0 .. N -> V] : Iterates(h, N, empty, g)
      BY <2>2, RecursionExists
    <2> QED
      BY <2>3 DEF V, empty, Iterates
  <1> HIDE DEF N
  <1>4. \A n \in 1 .. N : h[n - 1] \in Seq(S)
    BY <1>1
  <1>5. ASSUME NEW n \in 1 .. N
        PROVE  h[n] = h[n - 1] \o seqs[n]
    <2>1. g[<<n, h[n - 1]>>] = h[n - 1] \o seqs[n]
      BY <1>4
    <2> QED
      BY <1>3, <2>1
  <1> DEFINE f == [i \in 1 .. N |-> h[i]]
  <1>6. f \in [1 .. N -> Seq(S)] /\ f[1] = seqs[1]
    <2>1. h[1] = seqs[1]
      <3>1. 1 \in 1 .. N /\ seqs[1] \in Seq(S) /\ 1 - 1 = 0
        BY <1>1
      <3>2. h[1] = h[1 - 1] \o seqs[1]
        BY <1>5, <3>1
      <3>3. h[0] = <<>>
        BY <1>3
      <3>4. h[1] = <<>> \o seqs[1]
        BY <3>1, <3>2, <3>3
      <3> HIDE DEF N
      <3> QED
        BY <3>1, <3>4
    <2> QED
      BY <1>1, <2>1
  <1>7. ASSUME NEW i \in 2 .. N
        PROVE  f[i] = f[i - 1] \o seqs[i]
    <2>1. i \in 1 .. N /\ i - 1 \in 1 .. N
      BY <1>1
    <2>2. h[i] = h[i - 1] \o seqs[i]
      BY <1>5, <2>1
    <2> QED
      BY <2>1, <2>2
  <1>8. f = [i \in 1 .. N |-> Body(f, i)]
    <2>1. ASSUME NEW i \in 1 .. N
          PROVE  f[i] = Body(f, i)
      <3>1. CASE i = 1
        BY <1>6, <3>1
      <3>2. CASE i # 1
        <4>1. i \in 2 .. N
          BY <1>1, <3>2
        <4> HIDE DEF f
        <4>2. f[i] = f[i - 1] \o seqs[i]
          BY <1>7, <4>1
        <4> QED
          BY <3>2, <4>2
      <3> QED
        BY <3>1, <3>2
    <2> HIDE DEF Body
    <2> QED
      BY <2>1
  <1>9. flat = [i \in 1 .. N |-> Body(flat, i)]
    <2> HIDE DEF f, Body
    <2> QED
      BY <1>8
  <1>10. FlattenSeq(seqs) = flat[N]
    BY DEF FlattenSeq, N
  <1>11. \A n \in 0 .. N - 1 : flat[n + 1] = f[n + 1]
    <2> DEFINE T == {n \in 0 .. N - 1 : flat[n + 1] = f[n + 1]}
    <2>1. \A i \in 1 .. N : flat[i] = IF i = 1 THEN seqs[i] ELSE flat[i - 1] \o seqs[i]
      <3> HIDE DEF flat, f
      <3> QED
        BY <1>9
    <2> HIDE DEF flat, f
    <2>2. 0 \in T
      BY <1>1, <1>6, <2>1
    <2>3. ASSUME NEW n \in 0 .. N - 1, n < N - 1, n \in T
          PROVE  n + 1 \in T
      <3>1. n + 2 \in 2 .. N /\ (n + 2) - 1 = n + 1 /\ n + 1 \in 0 .. N - 1
        BY <1>1, <2>3
      <3>2. flat[n + 2] = flat[n + 1] \o seqs[n + 2]
        <4>1. n + 2 \in 1 .. N /\ n + 2 # 1
          BY <1>1, <3>1
        <4>2. flat[n + 2] = flat[(n + 2) - 1] \o seqs[n + 2]
          BY <2>1, <4>1
        <4> QED
          BY <3>1, <4>2
      <3>3. f[n + 2] = f[n + 1] \o seqs[n + 2]
        <4>1. f[n + 2] = f[(n + 2) - 1] \o seqs[n + 2]
          BY <1>7, <3>1
        <4> QED
          BY <3>1, <4>1
      <3>4. flat[n + 1] = f[n + 1]
        BY <2>3
      <3>5. (n + 1) + 1 = n + 2
        BY <1>1, <2>3
      <3>6. flat[(n + 1) + 1] = f[(n + 1) + 1]
        BY <3>2, <3>3, <3>4, <3>5
      <3> QED
        BY <3>1, <3>6
    <2> HIDE DEF T
    <2>4. \A n \in 0 .. N - 1 : n \in T
      <3> DEFINE M == N - 1
      <3>1. M \in Nat
        BY <1>1
      <3>2. 0 \in T /\ \A n \in 0 .. M : n < M /\ n \in T => n + 1 \in T
        BY <2>2, <2>3
      <3> HIDE DEF M
      <3>3. \A n \in 0 .. M : n \in T
        BY <3>1, <3>2, SetInduction
      <3> QED
        BY <3>3 DEF M
    <2> QED
      BY <2>4 DEF T
  <1>12. FlattenSeq(seqs) = f[N]
    <2>1. N - 1 \in 0 .. N - 1 /\ (N - 1) + 1 = N
      BY <1>1
    <2> HIDE DEF f, flat
    <2> QED
      BY <1>10, <1>11, <2>1
  <1> HIDE DEF f
  <1> QED
    BY <1>6, <1>7, <1>12 DEF N

(* A flattened list has the elements of the lists it is made of. *)
LEMMA FlattenRange ==
  ASSUME NEW S, NEW seqs \in Seq(Seq(S))
  PROVE  /\ FlattenSeq(seqs) \in Seq(S)
         /\ Range(FlattenSeq(seqs)) = UNION {Range(seqs[i]) : i \in DOMAIN seqs}
  <1>1. CASE Len(seqs) = 0
    <2>1. FlattenSeq(seqs) = seqs /\ seqs = <<>>
      BY <1>1 DEF FlattenSeq
    <2>2. seqs \in Seq(S) /\ DOMAIN seqs = {}
      BY <2>1
    <2> QED
      BY <2>1, <2>2 DEF Range
  <1>2. CASE Len(seqs) # 0
    <2> DEFINE N == Len(seqs)
    <2>1. N \in Nat /\ N >= 1 /\ DOMAIN seqs = 1 .. N /\ \A i \in 1 .. N : seqs[i] \in Seq(S)
      BY <1>2
    <2>2. PICK f \in [1 .. N -> Seq(S)] :
            /\ f[1] = seqs[1]
            /\ \A i \in 2 .. N : f[i] = f[i - 1] \o seqs[i]
            /\ FlattenSeq(seqs) = f[N]
      BY <1>2, FlattenSteps
    <2> HIDE DEF N
    <2> DEFINE U(n) == UNION {Range(seqs[i]) : i \in 1 .. n}
               T == {n \in 0 .. N : n # 0 => Range(f[n]) = U(n)}
    <2>3. 0 \in T
      BY <2>1
    <2>4. ASSUME NEW n \in 0 .. N, n < N, n \in T
          PROVE  n + 1 \in T
      <3>1. n + 1 \in 1 .. N /\ n + 1 \in 0 .. N /\ f[n + 1] \in Seq(S) /\ seqs[n + 1] \in Seq(S)
        BY <2>1, <2>4
      <3>2. CASE n = 0
        <4>1. U(1) = Range(seqs[1])
          <5>1. 1 .. 1 = {1}
            OBVIOUS
          <5> QED
            BY <5>1
        <4>2. n + 1 = 1
          BY <3>2
        <4>3. Range(f[n + 1]) = U(n + 1)
          BY <2>2, <4>1, <4>2
        <4> HIDE DEF U
        <4> QED
          BY <3>1, <4>3
      <3>3. CASE n # 0
        <4>1. n \in 1 .. N /\ n + 1 \in 2 .. N /\ (n + 1) - 1 = n
          BY <2>1, <2>4, <3>3
        <4>2. f[n + 1] = f[n] \o seqs[n + 1]
          <5>1. f[n + 1] = f[(n + 1) - 1] \o seqs[n + 1]
            BY <2>2, <4>1
          <5> QED
            BY <4>1, <5>1
        <4>3. f[n] \in Seq(S)
          BY <4>1
        <4>4. Range(f[n + 1]) = Range(f[n]) \cup Range(seqs[n + 1])
          BY <3>1, <4>2, <4>3, ConcatRange
        <4>5. U(n + 1) = U(n) \cup Range(seqs[n + 1])
          <5>1. 1 .. n + 1 = (1 .. n) \cup {n + 1}
            BY <4>1
          <5> QED
            BY <5>1
        <4>6. Range(f[n]) = U(n)
          BY <2>4, <3>3
        <4>7. Range(f[n + 1]) = U(n + 1)
          BY <4>4, <4>5, <4>6
        <4> HIDE DEF U
        <4> QED
          BY <3>1, <4>7
      <3> QED
        BY <3>2, <3>3
    <2> HIDE DEF T
    <2>5. \A n \in 0 .. N : n \in T
      BY <2>1, <2>3, <2>4, SetInduction
    <2>6. Range(f[N]) = U(N)
      <3>1. N \in 0 .. N /\ N # 0
        BY <2>1
      <3>2. N \in T
        BY <2>5, <3>1
      <3> QED
        BY <3>1, <3>2 DEF T
    <2>7. f[N] \in Seq(S)
      BY <2>1
    <2> QED
      BY <2>1, <2>2, <2>6, <2>7
  <1> QED
    BY <1>1, <1>2

(* lists has a list for every element of outer, with the image of the element. *)
Nested(lists, outer, image, R) ==
  /\ lists = [n \in DOMAIN outer |-> lists[n]]
  /\ \A n \in DOMAIN outer : lists[n] \in Seq(R) /\ Range(lists[n]) = image[outer[n]]

(* A list made by going through lists made for the elements of another. *)
LEMMA NestedList ==
  ASSUME NEW S, NEW R, NEW outer \in Seq(S), NEW lists, NEW image,
         Nested(lists, outer, image, R)
  PROVE  /\ FlattenSeq(lists) \in Seq(R)
         /\ \A e : e \in Range(FlattenSeq(lists)) <=> \E o \in Range(outer) : e \in image[o]
  <1>1. lists \in Seq(Seq(R)) /\ DOMAIN lists = DOMAIN outer
    <2>1. lists \in Seq(Seq(R))
      BY MadeList DEF Nested
    <2> QED
      BY <2>1 DEF Nested
  <1>2. /\ FlattenSeq(lists) \in Seq(R)
        /\ Range(FlattenSeq(lists)) = UNION {Range(lists[n]) : n \in DOMAIN lists}
    BY <1>1, FlattenRange
  <1>3. ASSUME NEW e
        PROVE  e \in Range(FlattenSeq(lists)) <=> \E o \in Range(outer) : e \in image[o]
    <2>1. e \in Range(FlattenSeq(lists)) <=> \E n \in DOMAIN lists : e \in Range(lists[n])
      BY <1>2
    <2>2. (\E n \in DOMAIN lists : e \in Range(lists[n]))
            <=> \E n \in DOMAIN outer : e \in image[outer[n]]
      BY <1>1 DEF Nested
    <2>3. (\E n \in DOMAIN outer : e \in image[outer[n]]) <=> \E o \in Range(outer) : e \in image[o]
      BY DEF Range
    <2> QED
      BY <2>1, <2>2, <2>3
  <1> QED
    BY <1>2, <1>3

(* A list of lists of routes is flattened to a list of routes. *)
LEMMA NestedRoutes ==
  ASSUME NEW S, NEW R, NEW outer \in Seq(S), NEW lists,
         lists = [n \in DOMAIN outer |-> lists[n]],
         \A n \in DOMAIN outer : lists[n] \in Seq(R)
  PROVE  FlattenSeq(lists) \in Seq(R)
  <1>1. lists \in Seq(Seq(R))
    BY MadeList
  <1> QED
    BY <1>1, FlattenRange

(* What ends in a domain has the domain as its suffix. *)
LEMMA ConcatSuffix ==
  ASSUME NEW S, NEW p \in Seq(S), NEW d \in Seq(S)
  PROVE  IsSuffix(d, p \o d)
  <1> DEFINE u == p \o d
             a == Reverse(d)
             b == Reverse(u)
  <1>1. /\ u \in Seq(S) /\ Len(u) = Len(p) + Len(d)
        /\ \A i \in 1 .. Len(d) : u[Len(p) + i] = d[i]
        /\ Len(p) \in Nat /\ Len(d) \in Nat
    OBVIOUS
  <1> HIDE DEF u
  <1>2. a \in Seq(S) /\ Len(a) = Len(d)
    <2>1. \A i \in 1 .. Len(d) : Len(d) - i + 1 \in 1 .. Len(d)
      BY <1>1
    <2>2. \A i \in 1 .. Len(d) : d[Len(d) - i + 1] \in S
      BY <2>1
    <2> QED
      BY <1>1, <2>2 DEF Reverse
  <1>3. b \in Seq(S) /\ Len(b) = Len(u)
    <2>1. \A i \in 1 .. Len(u) : Len(u) - i + 1 \in 1 .. Len(u)
      BY <1>1
    <2>2. \A i \in 1 .. Len(u) : u[Len(u) - i + 1] \in S
      BY <1>1, <2>1
    <2>3. Len(u) \in Nat
      BY <1>1
    <2> QED
      BY <2>2, <2>3 DEF Reverse
  <1>4. ASSUME NEW i \in 1 .. Len(d)
        PROVE  a[i] = b[i]
    <2> DEFINE j == Len(d) - i + 1
    <2>1. j \in 1 .. Len(d) /\ Len(p) + j = Len(u) - i + 1 /\ i \in 1 .. Len(u)
      BY <1>1
    <2>2. a[i] = d[j]
      BY DEF Reverse
    <2>3. b[i] = u[Len(u) - i + 1]
      BY <2>1 DEF Reverse
    <2> HIDE DEF j, a, b
    <2>4. u[Len(p) + j] = d[j]
      BY <1>1, <2>1
    <2>5. u[Len(u) - i + 1] = d[j]
      BY <2>1, <2>4
    <2> QED
      BY <2>2, <2>3, <2>5
  <1> HIDE DEF a, b
  <1>5. Len(a) <= Len(b) /\ Len(a) \in Nat
    BY <1>1, <1>2, <1>3
  <1>6. SubSeq(a, 1, Len(a)) = SubSeq(b, 1, Len(a))
    <2>1. SubSeq(a, 1, Len(a)) = [i \in 1 .. Len(a) |-> a[i]]
      BY <1>2, <1>5
    <2>2. SubSeq(b, 1, Len(a)) = [i \in 1 .. Len(a) |-> b[i]]
      BY <1>3, <1>5
    <2> QED
      BY <1>2, <1>4, <2>1, <2>2
  <1> QED
    BY <1>5, <1>6 DEF IsSuffix, IsPrefix, a, b, u

(* A list without repetitions that is as long as a finite set lists all of it. *)
LEMMA InjectiveLists ==
  ASSUME NEW S, IsFiniteSet(S), NEW f \in [1 .. Cardinality(S) -> S], IsInjective(f)
  PROVE  f \in Seq(S) /\ Range(f) = S
  <1> DEFINE n == Cardinality(S)
  <1>1. n \in Nat
    BY FS_CardinalityType
  <1>2. f \in Injection(1 .. n, S)
    BY DEF Injection
  <1>3. IsFiniteSet(1 .. n) /\ Cardinality(1 .. n) = Cardinality(S)
    BY <1>1, FS_Interval
  <1>4. f \in Surjection(1 .. n, S)
    BY <1>2, <1>3, FS_Injection
  <1>5. Range(f) = S
    BY <1>4 DEF Surjection, Range
  <1> QED
    BY <1>1, <1>5

(* SetToSeq lists a finite set, each element once. *)
LEMMA SetToSeqLists ==
  ASSUME NEW S, IsFiniteSet(S)
  PROVE  /\ SetToSeq(S) \in Seq(S) /\ Range(SetToSeq(S)) = S
         /\ IsInjective(SetToSeq(S))
  <1> DEFINE n == Cardinality(S)
  <1>1. ExistsBijection(1 .. n, S)
    BY FS_CardinalityType
  <1>2. \E f \in [1 .. n -> S] : IsInjective(f)
    BY <1>1 DEF ExistsBijection, Bijection, Injection
  <1>3. SetToSeq(S) \in [1 .. n -> S] /\ IsInjective(SetToSeq(S))
    BY <1>2 DEF SetToSeq
  <1> QED
    BY <1>3, InjectiveLists

LEMMA SetToSeqsLists ==
  ASSUME NEW S, IsFiniteSet(S), NEW f \in SetToSeqs(S)
  PROVE  f \in Seq(S) /\ Range(f) = S
  <1>1. f \in [1 .. Cardinality(S) -> S] /\ IsInjective(f)
    BY DEF SetToSeqs, IsInjective
  <1> QED
    BY <1>1, InjectiveLists

LEMMA FiniteRange ==
  ASSUME NEW S, NEW list \in Seq(S)
  PROVE  IsFiniteSet(Range(list))
  <1>1. Len(list) \in Nat /\ DOMAIN list = 1 .. Len(list)
    OBVIOUS
  <1>2. list \in Surjection(1 .. Len(list), Range(list))
    BY <1>1 DEF Surjection, Range
  <1> QED
    BY <1>1, <1>2, FS_NatSurjection DEF ExistsSurjection

-----------------------------------------------------------------------------
(* Merge                                                                   *)

(* Entries as Merge takes them, tables as it builds them. *)
Host == Seq(STRING)
Sources == {"runtime", "docker"}
Record == [host : Host, ip : Scopes, source : Sources]
Rank(e) == Priority(e.source)

(* A table after one more entry. *)
Added(table, e) ==
  [h \in DOMAIN table \cup {e.host} |->
     IF h # e.host THEN table[h]
     ELSE IF h \in DOMAIN table THEN Stronger(e, table[h]) ELSE e]

Tables == UNION {[D -> Record] : D \in SUBSET Host}

(* Entry s is the first of the strongest for h among the first n. *)
FirstStrongest(entries, h, n, s) ==
  /\ s \in 1 .. n /\ entries[s].host = h
  /\ \A i \in 1 .. n : entries[i].host = h =>
       Rank(entries[i]) <= Rank(entries[s]) /\ (i < s => Rank(entries[i]) < Rank(entries[s]))

(* Of three rivals the second is not stronger than the first. *)
NoComeback(entries) ==
  \A i, j, k \in DOMAIN entries :
    i < j /\ j < k /\ entries[i].host = entries[j].host /\ entries[j].host = entries[k].host
      => Rank(entries[j]) <= Rank(entries[i])

LEMMA RankType == \A e \in Record : Rank(e) \in Nat
  BY DEF Record, Rank, Priority, Sources

LEMMA AddedType ==
  ASSUME NEW table \in Tables, NEW e \in Record
  PROVE  Added(table, e) \in Tables
  <1>1. PICK D \in SUBSET Host : table \in [D -> Record]
    BY DEF Tables
  <1>2. e.host \in Host
    BY DEF Record
  <1>3. \A w \in Record : Stronger(e, w) \in Record
    BY DEF Stronger
  <1>4. Added(table, e) \in [D \cup {e.host} -> Record]
    BY <1>1, <1>2, <1>3 DEF Added
  <1>5. D \cup {e.host} \in SUBSET Host
    BY <1>2
  <1> QED
    BY <1>4, <1>5 DEF Tables

(* Merge goes through the entries one by one. *)
LEMMA MergeSteps ==
  ASSUME NEW entries \in Seq(Record)
  PROVE  \E c \in [0 .. Len(entries) -> Tables] :
           /\ c[0] = <<>>
           /\ \A n \in 1 .. Len(entries) : c[n] = Added(c[n - 1], entries[n])
           /\ Merge(entries) = [h \in HostsOf(entries) |-> c[Len(entries)][h].ip]
  <1> DEFINE N == Len(entries)
             V == Tables
             empty == <<>>
             g == [p \in (1 .. N) \X V |-> Added(p[2], entries[p[1]])]
             Body(f, n) == IF n = 0 THEN <<>> ELSE Added(f[n - 1], entries[n])
             chosen == CHOOSE f : f = [n \in 0 .. N |-> Body(f, n)]
  <1>1. N \in Nat /\ DOMAIN entries = 1 .. N /\ \A n \in 1 .. N : entries[n] \in Record
    OBVIOUS
  <1>2. empty \in V
    <2>1. <<>> \in [{} -> Record] /\ {} \in SUBSET Host
      OBVIOUS
    <2> QED
      BY <2>1 DEF Tables
  <1>3. g \in [(1 .. N) \X V -> V]
    BY <1>1, AddedType
  <1>4. PICK f \in [0 .. N -> V] : Iterates(f, N, empty, g)
    <2> HIDE DEF g, N, V, empty
    <2> QED
      BY <1>1, <1>2, <1>3, RecursionExists
  <1> HIDE DEF N
  <1>5. f[0] = <<>>
    BY <1>4 DEF Iterates
  <1>6. ASSUME NEW n \in 1 .. N
        PROVE  f[n] = Added(f[n - 1], entries[n])
    <2>1. n - 1 \in 0 .. N
      BY <1>1
    <2>2. f[n - 1] \in V
      BY <2>1
    <2>3. g[<<n, f[n - 1]>>] = Added(f[n - 1], entries[n])
      BY <2>2
    <2>4. f[n] = g[<<n, f[n - 1]>>]
      BY <1>4 DEF Iterates
    <2> QED
      BY <2>3, <2>4
  <1>7. f = [n \in 0 .. N |-> Body(f, n)]
    <2>1. ASSUME NEW n \in 0 .. N
          PROVE  f[n] = Body(f, n)
      <3>1. CASE n = 0
        BY <1>5, <3>1
      <3>2. CASE n # 0
        <4>1. n \in 1 .. N
          BY <1>1, <3>2
        <4> QED
          BY <1>6, <3>2, <4>1
      <3> QED
        BY <3>1, <3>2
    <2> HIDE DEF Body
    <2> QED
      BY <2>1
  <1>8. chosen = [n \in 0 .. N |-> Body(chosen, n)]
    <2> HIDE DEF Body
    <2> QED
      BY <1>7
  <1>9. Merge(entries) = [h \in HostsOf(entries) |-> chosen[N][h].ip]
    BY DEF Merge, N, Added
  <1>10. \A n \in 0 .. N : n \in {m \in 0 .. N : chosen[m] = f[m]}
    <2> DEFINE T == {m \in 0 .. N : chosen[m] = f[m]}
    <2>1. chosen[0] = <<>>
      BY <1>1, <1>8
    <2>2. ASSUME NEW n \in 1 .. N
          PROVE  chosen[n] = Added(chosen[n - 1], entries[n])
      <3>1. n \in 0 .. N /\ n # 0
        BY <1>1
      <3> HIDE DEF chosen
      <3> QED
        BY <1>8, <3>1
    <2> HIDE DEF chosen
    <2>3. 0 \in T
      BY <1>1, <1>5, <2>1
    <2>4. ASSUME NEW n \in 0 .. N, n < N, n \in T
          PROVE  n + 1 \in T
      <3>1. n + 1 \in 1 .. N /\ n + 1 \in 0 .. N /\ (n + 1) - 1 = n
        BY <1>1, <2>4
      <3>2. chosen[n + 1] = Added(chosen[n], entries[n + 1])
        <4>1. chosen[n + 1] = Added(chosen[(n + 1) - 1], entries[n + 1])
          BY <2>2, <3>1
        <4> QED
          BY <3>1, <4>1
      <3>3. f[n + 1] = Added(f[n], entries[n + 1])
        <4>1. f[n + 1] = Added(f[(n + 1) - 1], entries[n + 1])
          BY <1>6, <3>1
        <4> QED
          BY <3>1, <4>1
      <3>4. chosen[n] = f[n]
        BY <2>4
      <3> QED
        BY <3>1, <3>2, <3>3, <3>4
    <2> HIDE DEF T
    <2>5. \A n \in 0 .. N : n \in T
      BY <1>1, <2>3, <2>4, SetInduction
    <2> QED
      BY <2>5 DEF T
  <1>11. chosen[N] = f[N]
    <2>1. N \in 0 .. N
      BY <1>1
    <2> HIDE DEF chosen
    <2> QED
      BY <1>10, <2>1
  <1>12. Merge(entries) = [h \in HostsOf(entries) |-> f[N][h].ip]
    <2> HIDE DEF chosen
    <2> QED
      BY <1>9, <1>11
  <1> HIDE DEF g, chosen, V
  <1> QED
    BY <1>4, <1>5, <1>6, <1>12 DEF N, V

Rival(entries, h, n) == \E i \in 1 .. n : entries[i].host = h

(* What the table holds for h after the first n entries. *)
Held(entries, h, n, c) ==
  /\ h \in DOMAIN c <=> Rival(entries, h, n)
  /\ h \in DOMAIN c =>
       /\ c[h] \in Record
       /\ \E s \in 1 .. n :
            /\ FirstStrongest(entries, h, n, s) /\ c[h].ip = entries[s].ip
            /\ \/ c[h] = entries[s]
               \/ \A k \in DOMAIN entries : n < k => entries[k].host # h

(* One more entry: it wins only over weaker ones, and then none follows that it
   would have to lose to or win over again. *)
LEMMA AddedHeld ==
  ASSUME NEW entries \in Seq(Record), NoComeback(entries), NEW h \in Host,
         NEW n \in 0 .. Len(entries), n < Len(entries), NEW c \in Tables,
         Held(entries, h, n, c)
  PROVE  Held(entries, h, n + 1, Added(c, entries[n + 1]))
  <1> DEFINE N == Len(entries)
             e == entries[n + 1]
             d == Added(c, e)
  <1>0. N \in Nat /\ DOMAIN entries = 1 .. N /\ \A i \in 1 .. N : entries[i] \in Record
    OBVIOUS
  <1>1. n \in Nat /\ n + 1 \in 1 .. N /\ e \in Record /\ Rank(e) \in Nat
    <2>1. n \in Nat /\ n + 1 \in 1 .. N
      BY <1>0
    <2> QED
      BY <1>0, <2>1, RankType
  <1>2. \A i \in 1 .. N : Rank(entries[i]) \in Nat
    BY <1>0, RankType
  <1> HIDE DEF N
  <1>3. CASE e.host # h
    <2>1. h \in DOMAIN d <=> h \in DOMAIN c
      BY <1>3 DEF Added
    <2>2. h \in DOMAIN c => d[h] = c[h]
      BY <1>3 DEF Added
    <2>3. Rival(entries, h, n + 1) <=> Rival(entries, h, n)
      <3>1. \A i \in 1 .. n + 1 : i \in 1 .. n \/ i = n + 1
        BY <1>1
      <3>2. \A i \in 1 .. n : i \in 1 .. n + 1
        BY <1>1
      <3> QED
        BY <1>3, <3>1, <3>2 DEF Rival
    <2>4. ASSUME NEW s \in 1 .. n, FirstStrongest(entries, h, n, s)
          PROVE  s \in 1 .. n + 1 /\ FirstStrongest(entries, h, n + 1, s)
      <3>1. \A i \in 1 .. n + 1 : i \in 1 .. n \/ i = n + 1
        BY <1>1
      <3>2. s \in 1 .. n + 1
        BY <1>1
      <3> QED
        BY <1>3, <2>4, <3>1, <3>2 DEF FirstStrongest
    <2> HIDE DEF d
    <2>5. ASSUME h \in DOMAIN d
          PROVE  /\ d[h] \in Record
                 /\ \E s \in 1 .. n + 1 :
                      /\ FirstStrongest(entries, h, n + 1, s) /\ d[h].ip = entries[s].ip
                      /\ \/ d[h] = entries[s]
                         \/ \A k \in DOMAIN entries : n + 1 < k => entries[k].host # h
      <3>1. h \in DOMAIN c /\ d[h] = c[h]
        BY <2>1, <2>2, <2>5
      <3>2. PICK s \in 1 .. n : /\ FirstStrongest(entries, h, n, s) /\ c[h].ip = entries[s].ip
                                /\ \/ c[h] = entries[s]
                                   \/ \A k \in DOMAIN entries : n < k => entries[k].host # h
        BY <3>1 DEF Held
      <3>3. s \in 1 .. n + 1 /\ FirstStrongest(entries, h, n + 1, s)
        BY <2>4, <3>2
      <3>4. \A k \in DOMAIN entries : n + 1 < k => n < k
        BY <1>0, <1>1
      <3>5. c[h] \in Record
        BY <3>1 DEF Held
      <3> QED
        BY <3>1, <3>2, <3>3, <3>4, <3>5
    <2> QED
      BY <2>1, <2>3, <2>5 DEF Held, d
  <1>4. CASE e.host = h
    <2>1. h \in DOMAIN d /\ d[h] = IF h \in DOMAIN c THEN Stronger(e, c[h]) ELSE e
      BY <1>4 DEF Added
    <2>2. Rival(entries, h, n + 1)
      <3>1. n + 1 \in 1 .. n + 1
        BY <1>1
      <3> QED
        BY <1>4, <3>1 DEF Rival
    <2> HIDE DEF d
    <2>3. CASE h \notin DOMAIN c
      <3>1. \A i \in 1 .. n : entries[i].host # h
        BY <2>3 DEF Held, Rival
      <3>2. \A i \in 1 .. n + 1 : i \in 1 .. n \/ i = n + 1
        BY <1>1
      <3>3. FirstStrongest(entries, h, n + 1, n + 1)
        <4>1. n + 1 \in 1 .. n + 1
          BY <1>1
        <4>2. \A i \in 1 .. n + 1 : entries[i].host = h => i = n + 1
          BY <3>1, <3>2
        <4> QED
          BY <1>1, <1>4, <4>1, <4>2 DEF FirstStrongest
      <3>4. d[h] = e
        BY <2>1, <2>3
      <3>5. n + 1 \in 1 .. n + 1
        BY <1>1
      <3> QED
        BY <1>1, <2>1, <2>2, <3>3, <3>4, <3>5 DEF Held, d
    <2>4. CASE h \in DOMAIN c
      <3>1. PICK s \in 1 .. n : /\ FirstStrongest(entries, h, n, s) /\ c[h].ip = entries[s].ip
                                /\ \/ c[h] = entries[s]
                                   \/ \A k \in DOMAIN entries : n < k => entries[k].host # h
        BY <2>4 DEF Held
      <3>2. n < n + 1 /\ n + 1 \in DOMAIN entries
        BY <1>0, <1>1
      <3>3. c[h] = entries[s]
        BY <1>4, <3>1, <3>2
      <3>4. d[h] = IF e.ip # entries[s].ip /\ Rank(e) > Rank(entries[s]) THEN e ELSE entries[s]
        BY <2>1, <2>4, <3>3 DEF Stronger, Rank
      <3>5. s \in 1 .. N /\ s \in 1 .. n + 1 /\ s < n + 1 /\ Rank(entries[s]) \in Nat
            /\ entries[s] \in Record /\ entries[s].host = h
        <4>1. s \in 1 .. N /\ s \in 1 .. n + 1 /\ s < n + 1
          BY <1>0, <1>1
        <4> QED
          BY <1>0, <1>2, <3>1, <4>1 DEF FirstStrongest
      <3>6. \A i \in 1 .. n + 1 : i \in 1 .. n \/ i = n + 1
        BY <1>1
      <3>7. \A i \in 1 .. n : /\ i \in 1 .. N /\ i < n + 1
                              /\ Rank(entries[i]) \in Nat
        <4>1. \A i \in 1 .. n : i \in 1 .. N /\ i < n + 1
          BY <1>0, <1>1
        <4> QED
          BY <1>2, <4>1
      <3>8. CASE Rank(e) > Rank(entries[s])
        <4>1. FirstStrongest(entries, h, n + 1, n + 1)
          <5>1. n + 1 \in 1 .. n + 1
            BY <1>1
          <5>2. ASSUME NEW i \in 1 .. n + 1, entries[i].host = h
                PROVE  Rank(entries[i]) <= Rank(e) /\ (i < n + 1 => Rank(entries[i]) < Rank(e))
            <6>1. CASE i = n + 1
              BY <1>1, <6>1
            <6>2. CASE i \in 1 .. n
              <7>1. Rank(entries[i]) <= Rank(entries[s])
                BY <3>1, <5>2, <6>2 DEF FirstStrongest
              <7>2. Rank(entries[i]) \in Nat
                BY <3>7, <6>2
              <7> QED
                BY <1>1, <3>5, <3>8, <7>1, <7>2
            <6> QED
              BY <3>6, <6>1, <6>2
          <5> QED
            BY <1>4, <5>1, <5>2 DEF FirstStrongest
        <4>2. d[h].ip = e.ip /\ d[h] \in Record
          BY <1>1, <3>4, <3>5, <3>8
        <4>3. d[h] = e \/ \A k \in DOMAIN entries : n + 1 < k => entries[k].host # h
          <5>1. ASSUME NEW k \in DOMAIN entries, n + 1 < k, entries[k].host = h
                PROVE  FALSE
            <6>1. Rank(e) <= Rank(entries[s])
              BY <1>0, <1>4, <3>2, <3>5, <5>1 DEF NoComeback
            <6> QED
              BY <1>1, <3>5, <3>8, <6>1
          <5> QED
            BY <5>1
        <4>4. n + 1 \in 1 .. n + 1
          BY <1>1
        <4> QED
          BY <2>1, <2>2, <4>1, <4>2, <4>3, <4>4 DEF Held, d
      <3>9. CASE ~(Rank(e) > Rank(entries[s]))
        <4>1. d[h] = entries[s]
          BY <3>4, <3>9
        <4>2. Rank(e) <= Rank(entries[s])
          BY <1>1, <3>5, <3>9
        <4>3. FirstStrongest(entries, h, n + 1, s)
          <5>1. ASSUME NEW i \in 1 .. n + 1, entries[i].host = h
                PROVE  /\ Rank(entries[i]) <= Rank(entries[s])
                       /\ i < s => Rank(entries[i]) < Rank(entries[s])
            <6>1. CASE i = n + 1
              <7>1. ~(i < s)
                BY <1>1, <3>5, <6>1
              <7> QED
                BY <4>2, <6>1, <7>1
            <6>2. CASE i \in 1 .. n
              BY <3>1, <5>1, <6>2 DEF FirstStrongest
            <6> QED
              BY <3>6, <6>1, <6>2
          <5> QED
            BY <3>5, <5>1 DEF FirstStrongest
        <4> QED
          BY <2>1, <2>2, <3>5, <4>1, <4>3 DEF Held, d
      <3> QED
        BY <3>8, <3>9
    <2> QED
      BY <2>3, <2>4
  <1> QED
    BY <1>3, <1>4

(* A name gets the address of the first of the strongest entries for it. *)
LEMMA MergeHeld ==
  ASSUME NEW entries \in Seq(Record), NoComeback(entries), NEW h \in HostsOf(entries)
  PROVE  \E s \in DOMAIN entries :
           /\ FirstStrongest(entries, h, Len(entries), s)
           /\ Merge(entries)[h] = entries[s].ip
  <1> DEFINE N == Len(entries)
  <1>1. N \in Nat /\ DOMAIN entries = 1 .. N /\ \A i \in 1 .. N : entries[i] \in Record
    OBVIOUS
  <1>2. PICK c \in [0 .. N -> Tables] :
          /\ c[0] = <<>>
          /\ \A n \in 1 .. N : c[n] = Added(c[n - 1], entries[n])
          /\ Merge(entries) = [i \in HostsOf(entries) |-> c[N][i].ip]
    BY MergeSteps
  <1>3. PICK r \in 1 .. N : entries[r].host = h
    BY <1>1 DEF HostsOf
  <1>4. h \in Host
    BY <1>1, <1>3 DEF Record
  <1> HIDE DEF N
  <1> DEFINE T == {n \in 0 .. N : Held(entries, h, n, c[n])}
  <1>5. 0 \in T
    <2>1. DOMAIN c[0] = {}
      BY <1>2
    <2>2. ~Rival(entries, h, 0)
      <3>1. 1 .. 0 = {}
        OBVIOUS
      <3> QED
        BY <3>1 DEF Rival
    <2>3. Held(entries, h, 0, c[0])
      BY <2>1, <2>2 DEF Held
    <2> QED
      BY <1>1, <2>3
  <1>6. ASSUME NEW n \in 0 .. N, n < N, n \in T
        PROVE  n + 1 \in T
    <2>1. n + 1 \in 1 .. N /\ n + 1 \in 0 .. N /\ (n + 1) - 1 = n
      BY <1>1, <1>6
    <2>2. c[n + 1] = Added(c[n], entries[n + 1])
      <3>1. c[n + 1] = Added(c[(n + 1) - 1], entries[n + 1])
        BY <1>2, <2>1
      <3> QED
        BY <2>1, <3>1
    <2>3. c[n] \in Tables /\ Held(entries, h, n, c[n])
      BY <1>6
    <2>4. Held(entries, h, n + 1, Added(c[n], entries[n + 1]))
      BY <1>4, <1>6, <2>3, AddedHeld DEF N
    <2> QED
      BY <2>1, <2>2, <2>4
  <1> HIDE DEF T
  <1>7. \A n \in 0 .. N : n \in T
    BY <1>1, <1>5, <1>6, SetInduction
  <1>8. Held(entries, h, N, c[N])
    <2>1. N \in 0 .. N
      BY <1>1
    <2> QED
      BY <1>7, <2>1 DEF T
  <1>9. h \in DOMAIN c[N]
    BY <1>3, <1>8 DEF Held, Rival
  <1>10. PICK s \in 1 .. N : FirstStrongest(entries, h, N, s) /\ c[N][h].ip = entries[s].ip
    BY <1>8, <1>9 DEF Held
  <1>11. Merge(entries)[h] = c[N][h].ip
    BY <1>2
  <1> QED
    BY <1>1, <1>10, <1>11 DEF N

-----------------------------------------------------------------------------
(* Names and targets                                                       *)

LEMMA ScopeTypes ==
  /\ Own \in Scopes /\ Own \in Scope
  /\ \A v \in DOMAIN Services : /\ Services[v] \in Service /\ Services[v].scope \in Scopes
                                /\ Services[v].names \in Seq(STRING)
  /\ Scopes \subseteq Scope
  <1>1. Own \in Scope /\ Services \in Seq(Service)
    BY ServicesAssumption
  <1>2. \A v \in DOMAIN Services : Services[v] \in Service
    BY <1>1
  <1>3. \A e \in Service : e.scope \in Scope /\ e.names \in Seq(STRING)
    BY DEF Service
  <1> QED
    BY <1>1, <1>2, <1>3 DEF Scopes

(* Every name a pattern renders is a name and ends in the domain. *)
LEMMA RenderType ==
  ASSUME NEW tokens \in Seq(Token), NEW name, NEW s \in Scope,
         name \in STRING \/ tokens \in Seq(Token \ {"service"}),
         NEW domain \in Host \ {<<>>}
  PROVE  /\ Render(tokens, name, s, domain) \in Host
         /\ Render(tokens, name, s, domain) # <<>>
         /\ IsSuffix(domain, Render(tokens, name, s, domain))
  <1> DEFINE labels == [i \in DOMAIN tokens |-> Label(tokens[i], name, s)]
  <1>1. ASSUME NEW t \in Token, name \in STRING \/ t # "service"
        PROVE  Label(t, name, s) \in STRING
    <2>1. s.workspace \in STRING /\ s.project \in STRING
      BY DEF Scope
    <2>2. t = "service" \/ t = "workspace" \/ t = "project"
      BY DEF Token
    <2> QED
      BY <1>1, <2>1, <2>2 DEF Label
  <1>2. labels \in Seq(STRING)
    <2>1. DOMAIN tokens = 1 .. Len(tokens) /\ Len(tokens) \in Nat
      OBVIOUS
    <2>2. ASSUME NEW i \in DOMAIN tokens
          PROVE  labels[i] \in STRING
      <3>1. tokens[i] \in Token /\ (name \in STRING \/ tokens[i] # "service")
        BY <2>1
      <3>2. labels[i] = Label(tokens[i], name, s)
        OBVIOUS
      <3> QED
        BY <1>1, <3>1, <3>2
    <2>3. labels \in [1 .. Len(tokens) -> STRING]
      <3>1. labels = [i \in 1 .. Len(tokens) |-> labels[i]]
        BY <2>1
      <3> HIDE DEF labels
      <3> QED
        BY <2>1, <2>2, <3>1
    <2> HIDE DEF labels
    <2> QED
      BY <2>1, <2>3
  <1>3. domain \in Seq(STRING) /\ domain # <<>>
    BY DEF Host
  <1> HIDE DEF labels
  <1>4. IsSuffix(domain, labels \o domain)
    BY <1>2, <1>3, ConcatSuffix
  <1>5. labels \o domain \in Seq(STRING) /\ labels \o domain # <<>>
    <2>1. labels \o domain \in Seq(STRING) /\ Len(labels \o domain) = Len(labels) + Len(domain)
      BY <1>2, <1>3
    <2>2. Len(domain) # 0 /\ Len(domain) \in Nat /\ Len(labels) \in Nat
      BY <1>2, <1>3
    <2>3. Len(labels \o domain) # 0
      BY <2>1, <2>2
    <2> QED
      BY <2>1, <2>3
  <1> QED
    BY <1>4, <1>5 DEF Render, labels, Host

LEMMA WorkspaceHostType ==
  ASSUME NEW r, RoutingType(r), NEW s \in Scope
  PROVE  /\ WorkspaceHost(r, s) \in Host \ {<<>>}
         /\ IsSuffix(r.domain, WorkspaceHost(r, s))
  <1>1. r.domain \in Host \ {<<>>} /\ r.pattern \in Seq(Token)
    BY DEF RoutingType, Host
  <1> DEFINE kept(token) == IF token = "service" THEN <<>> ELSE <<token>>
             lists == [i \in DOMAIN r.pattern |-> kept(r.pattern[i])]
             Kept == Token \ {"service"}
  <1>2. lists \in Seq(Seq(Kept))
    <2>1. DOMAIN r.pattern = 1 .. Len(r.pattern) /\ Len(r.pattern) \in Nat
      BY <1>1
    <2>2. ASSUME NEW i \in 1 .. Len(r.pattern)
          PROVE  kept(r.pattern[i]) \in Seq(Kept)
      <3>1. r.pattern[i] \in Token
        BY <1>1, <2>1
      <3>2. CASE r.pattern[i] = "service"
        <4>1. kept(r.pattern[i]) = <<>>
          BY <3>2
        <4> HIDE DEF Kept
        <4> QED
          BY <4>1
      <3>3. CASE r.pattern[i] # "service"
        <4>1. r.pattern[i] \in Kept /\ kept(r.pattern[i]) = <<r.pattern[i]>>
          BY <3>1, <3>3
        <4> HIDE DEF Kept, kept
        <4> QED
          BY <4>1
      <3> QED
        BY <3>2, <3>3
    <2> HIDE DEF kept
    <2> QED
      BY <2>1, <2>2
  <1>3. WithoutService(r.pattern) = FlattenSeq(lists)
    BY DEF WithoutService, FlatMap
  <1>4. WithoutService(r.pattern) \in Seq(Kept)
    <2> HIDE DEF lists, Kept
    <2> QED
      BY <1>2, <1>3, FlattenRange
  <1>5. Seq(Kept) \subseteq Seq(Token)
    OBVIOUS
  <1> HIDE DEF kept
  <1> QED
    BY <1>1, <1>4, <1>5, RenderType DEF WorkspaceHost

LEMMA ProjectHostType ==
  ASSUME NEW r, RoutingType(r), NEW s \in Scope
  PROVE  /\ ProjectHost(r, s) \in Host \ {<<>>}
         /\ IsSuffix(r.domain, ProjectHost(r, s))
         /\ ProjectHost(r, s)[1] = s.project
  <1>1. r.domain \in Seq(STRING) /\ <<s.project>> \in Seq(STRING)
    BY DEF RoutingType, Scope
  <1>2. IsSuffix(r.domain, ProjectHost(r, s))
    BY <1>1, ConcatSuffix DEF ProjectHost
  <1> QED
    BY <1>1, <1>2 DEF ProjectHost, Host

LEMMA ServiceHostType ==
  ASSUME NEW r, RoutingType(r), NEW s \in Scope, NEW name \in STRING \cup {""}
  PROVE  /\ ServiceHost(r, name, s) \in Host
         /\ ServiceHost(r, name, s) # <<>> => IsSuffix(r.domain, ServiceHost(r, name, s))
  <1>1. r.domain \in Host \ {<<>>} /\ r.pattern \in Seq(Token)
    BY DEF RoutingType, Host
  <1>2. <<>> \in Seq(STRING)
    BY EmptyList
  <1> QED
    BY <1>1, <1>2, RenderType DEF ServiceHost, Host

Container == [v : Range(Services), nets : Seq(Ip) \ {<<>>}]
Lease == {l \in [scope : Scopes, domain : Host, hosts : Seq(Host)] :
            \A h \in Range(l.hosts) : h # <<>> /\ IsSuffix(l.domain, h)}

(* What a build reads. *)
ViewType(w) ==
  /\ RoutingType(w.cfg)
  /\ \A s \in Scopes : w.conf[s] = Bad \/ RoutingType(w.conf[s])
  /\ w.running \in Seq(Container)
  /\ w.leases \in Seq(Lease)

LEMMA ContainerIPType ==
  ASSUME NEW list \in Seq(Ip) \ {<<>>}, NEW reachable
  PROVE  ContainerIP(list, reachable) \in Range(list)
  <1> DEFINE good == {n \in DOMAIN list : list[n] \in reachable}
  <1>1. good \in SUBSET Nat /\ 1 \in DOMAIN list
    OBVIOUS
  <1>2. good # {} => Min(good) \in good
    <2> HIDE DEF good
    <2> QED
      BY <1>1, MinIsLeast
  <1> QED
    BY <1>1, <1>2 DEF ContainerIP, Range

(* A service is reached at one of its own container's addresses. *)
LEMMA TargetType ==
  ASSUME NEW w, NEW c \in Container
  PROVE  Target(w, c) \in Range(c.nets) /\ Range(c.nets) \subseteq Ip
  <1> DEFINE list == c.nets
             good == {n \in DOMAIN list : list[n] \notin w.avoid}
  <1>1. list \in Seq(Ip) \ {<<>>}
    BY DEF Container
  <1> HIDE DEF list
  <1>2. good \in SUBSET Nat
    BY <1>1
  <1>3. good # {} => Min(good) \in good
    <2> HIDE DEF good
    <2> QED
      BY <1>2, MinIsLeast
  <1>4. ContainerIP(list, w.reachable) \in Range(list)
    BY <1>1, ContainerIPType
  <1>5. PickTarget(ContainerIP(list, w.reachable), list, w.avoid) \in Range(list)
    BY <1>1, <1>3, <1>4 DEF PickTarget, Range
  <1>6. Range(list) \subseteq Ip
    BY <1>1 DEF Range
  <1> QED
    BY <1>5, <1>6 DEF Target, list

LEMMA RoutingOfScope ==
  ASSUME NEW w, ViewType(w), NEW s \in Scopes
  PROVE  RoutingType(Routing(w.cfg, w.conf, s))
  BY DEF ViewType, Routing

(* A view has the containers of the services it is made from. *)
LEMMA SeenType ==
  ASSUME NEW S \in SUBSET (DOMAIN Services), \A v \in S : nets[v] \in Seq(Ip) \ {<<>>}
  PROVE  /\ Seen(S) \in Seq(Container)
         /\ Range(Seen(S)) = {[v |-> Services[v], nets |-> nets[v]] : v \in S}
  <1> DEFINE c(v) == [v |-> Services[v], nets |-> nets[v]]
             here(v) == IF v \in S THEN <<c(v)>> ELSE <<>>
             lists == [v \in DOMAIN Services |-> here(v)]
  <1>1. Seen(S) = FlattenSeq(lists)
    <2>1. [i \in DOMAIN [v \in DOMAIN Services |-> v] |-> here([v \in DOMAIN Services |-> v][i])]
            = lists
      OBVIOUS
    <2> QED
      BY <2>1 DEF Seen, FlatMap
  <1>2. DOMAIN Services = 1 .. Len(Services) /\ Len(Services) \in Nat
    BY ServicesAssumption
  <1>3. ASSUME NEW v \in S
        PROVE  c(v) \in Container
    BY <1>3 DEF Container, Range
  <1>4. ASSUME NEW v \in DOMAIN Services
        PROVE  here(v) \in Seq(Container) /\ Range(here(v)) = {c(u) : u \in S \cap {v}}
    <2>1. CASE v \in S
      <3>1. c(v) \in Container
        BY <1>3, <2>1
      <3> HIDE DEF c
      <3>2. <<c(v)>> \in Seq(Container) /\ Range(<<c(v)>>) = {c(v)}
        <4>1. DOMAIN <<c(v)>> = {1} /\ <<c(v)>>[1] = c(v)
          OBVIOUS
        <4> QED
          BY <3>1, <4>1 DEF Range
      <3> QED
        BY <2>1, <3>2
    <2>2. CASE v \notin S
      <3>1. here(v) = <<>> /\ S \cap {v} = {}
        BY <2>2
      <3>2. <<>> \in Seq(Container) /\ Range(<<>>) = {}
        BY EmptyList DEF Range
      <3> HIDE DEF here
      <3> QED
        BY <3>1, <3>2
    <2> QED
      BY <2>1, <2>2
  <1>5. lists \in Seq(Seq(Container)) /\ DOMAIN lists = DOMAIN Services
    <2>1. lists \in [1 .. Len(Services) -> Seq(Container)]
      <3> HIDE DEF here
      <3> QED
        BY <1>2, <1>4
    <2> HIDE DEF lists
    <2> QED
      BY <1>2, <2>1
  <1>6. \A v \in DOMAIN Services : Range(lists[v]) = {c(u) : u \in S \cap {v}}
    <2> HIDE DEF here
    <2> QED
      BY <1>4
  <1> HIDE DEF lists
  <1>7. /\ FlattenSeq(lists) \in Seq(Container)
        /\ Range(FlattenSeq(lists)) = UNION {Range(lists[v]) : v \in DOMAIN Services}
    BY <1>5, FlattenRange
  <1>8. UNION {Range(lists[v]) : v \in DOMAIN Services} = {c(u) : u \in S}
    <2> HIDE DEF c
    <2>1. ASSUME NEW v \in DOMAIN Services, NEW e \in Range(lists[v])
          PROVE  e \in {c(u) : u \in S}
      BY <1>6
    <2>2. ASSUME NEW u \in S
          PROVE  c(u) \in Range(lists[u]) /\ u \in DOMAIN Services
      BY <1>6
    <2> QED
      BY <2>1, <2>2
  <1> QED
    BY <1>1, <1>7, <1>8

-----------------------------------------------------------------------------
(* Records of a build                                                      *)

HostRecord(w, s) ==
  [host |-> WorkspaceHost(Routing(w.cfg, w.conf, s), s), ip |-> s, source |-> "runtime"]
ProjectRecord(w, s) ==
  [host |-> ProjectHost(Routing(w.cfg, w.conf, s), s), ip |-> s, source |-> "runtime"]
LeasedRecord(h) == [host |-> h, ip |-> Own, source |-> "runtime"]
NamedRecord(w, c, name) ==
  [host |-> ServiceHost(Routing(w.cfg, w.conf, c.v.scope), name, c.v.scope),
   ip |-> c.v.scope, source |-> "docker"]

HostRecords(w, order) == [i \in DOMAIN order |-> HostRecord(w, order[i])]
LeasedRecords(w) ==
  FlattenSeq([n \in DOMAIN w.leases |->
                [i \in DOMAIN w.leases[n].hosts |-> LeasedRecord(w.leases[n].hosts[i])]])
NamedRecords(w) ==
  FlattenSeq([n \in DOMAIN w.running |->
                [i \in DOMAIN w.running[n].v.names |->
                   NamedRecord(w, w.running[n], w.running[n].v.names[i])]])
ProjectRecords(w, order) ==
  [i \in DOMAIN Defaults(order) |-> ProjectRecord(w, Defaults(order)[i])]

LEMMA RecordsParts ==
  ASSUME NEW w, NEW order
  PROVE  Records(w, order) = HostRecords(w, order) \o LeasedRecords(w)
                               \o NamedRecords(w) \o ProjectRecords(w, order)
  BY DEF Records, FlatMap, HostRecords, LeasedRecords, NamedRecords, ProjectRecords,
         HostRecord, LeasedRecord, NamedRecord, ProjectRecord

LEMMA ContainerType ==
  ASSUME NEW c \in Container
  PROVE  /\ c.v \in Service /\ c.v.scope \in Scopes /\ c.v.names \in Seq(STRING)
         /\ c.nets \in Seq(Ip) \ {<<>>}
  <1>1. c.v \in Range(Services) /\ c.nets \in Seq(Ip) \ {<<>>}
    BY DEF Container
  <1>2. PICK v \in DOMAIN Services : c.v = Services[v]
    BY <1>1 DEF Range
  <1> QED
    BY <1>1, <1>2, ScopeTypes

LEMMA RecordTypes ==
  ASSUME NEW w, ViewType(w)
  PROVE  /\ \A s \in Scopes : HostRecord(w, s) \in Record /\ ProjectRecord(w, s) \in Record
         /\ \A h \in Host : LeasedRecord(h) \in Record
         /\ \A c \in Container, name \in STRING : NamedRecord(w, c, name) \in Record
  <1>1. ASSUME NEW s \in Scopes
        PROVE  HostRecord(w, s) \in Record /\ ProjectRecord(w, s) \in Record
    <2>1. s \in Scope /\ RoutingType(Routing(w.cfg, w.conf, s))
      BY ScopeTypes, RoutingOfScope
    <2> QED
      BY <2>1, WorkspaceHostType, ProjectHostType DEF HostRecord, ProjectRecord, Record, Sources
  <1>2. ASSUME NEW h \in Host
        PROVE  LeasedRecord(h) \in Record
    BY ScopeTypes DEF LeasedRecord, Record, Sources
  <1>3. ASSUME NEW c \in Container, NEW name \in STRING
        PROVE  NamedRecord(w, c, name) \in Record
    <2>1. c.v.scope \in Scopes
      BY ContainerType
    <2>2. c.v.scope \in Scope /\ RoutingType(Routing(w.cfg, w.conf, c.v.scope))
      BY <2>1, ScopeTypes, RoutingOfScope
    <2> QED
      BY <2>1, <2>2, ServiceHostType DEF NamedRecord, Record, Sources
  <1> QED
    BY <1>1, <1>2, <1>3

LEMMA LeasedRecordsType ==
  ASSUME NEW w, ViewType(w)
  PROVE  /\ LeasedRecords(w) \in Seq(Record)
         /\ \A e : e \in Range(LeasedRecords(w)) <=>
              \E l \in Range(w.leases) : \E h \in Range(l.hosts) : e = LeasedRecord(h)
  <1> DEFINE made(l) == [i \in DOMAIN l.hosts |-> LeasedRecord(l.hosts[i])]
             image == [l \in Lease |-> {LeasedRecord(h) : h \in Range(l.hosts)}]
             outer == w.leases
             lists == [n \in DOMAIN outer |-> made(outer[n])]
  <1>1. outer \in Seq(Lease)
    BY DEF ViewType
  <1> HIDE DEF outer
  <1>2. ASSUME NEW l \in Lease
        PROVE  made(l) \in Seq(Record) /\ Range(made(l)) = image[l]
    <2>1. l.hosts \in Seq(Host)
      BY DEF Lease
    <2> DEFINE hosts == l.hosts
               m == made(l)
    <2>2. m = [i \in DOMAIN hosts |-> m[i]] /\ DOMAIN m = DOMAIN hosts
          /\ \A i \in DOMAIN hosts : m[i] = LeasedRecord(hosts[i])
      OBVIOUS
    <2>3. \A i \in DOMAIN hosts : hosts[i] \in Host
      BY <2>1
    <2> HIDE DEF m, made, hosts
    <2>4. hosts \in Seq(Host)
      BY <2>1 DEF hosts
    <2>5. m \in Seq(Record) /\ Range(m) = {m[i] : i \in DOMAIN hosts}
      BY <2>2, <2>3, <2>4, RecordTypes, MadeList
    <2>6. Range(m) = {LeasedRecord(h) : h \in Range(hosts)}
      BY <2>2, <2>5 DEF Range
    <2> QED
      BY <2>5, <2>6 DEF m, hosts
  <1>3. \A n \in DOMAIN outer : outer[n] \in Lease /\ lists[n] = made(outer[n])
    BY <1>1
  <1>4. lists = [n \in DOMAIN outer |-> lists[n]]
    OBVIOUS
  <1>5. LeasedRecords(w) = FlattenSeq(lists)
    BY DEF LeasedRecords, outer
  <1> HIDE DEF lists, made
  <1>6. \A l \in Range(outer) : image[l] = {LeasedRecord(h) : h \in Range(l.hosts)}
    BY <1>1 DEF Range
  <1> HIDE DEF image
  <1>7. /\ FlattenSeq(lists) \in Seq(Record)
        /\ \A e : e \in Range(FlattenSeq(lists)) <=> \E l \in Range(outer) : e \in image[l]
    <2>1. \A n \in DOMAIN outer : lists[n] \in Seq(Record) /\ Range(lists[n]) = image[outer[n]]
      BY <1>2, <1>3
    <2>2. Nested(lists, outer, image, Record)
      BY <1>4, <2>1 DEF Nested
    <2> QED
      BY <1>1, <2>2, NestedList
  <1> QED
    BY <1>5, <1>6, <1>7 DEF outer

LEMMA NamedRecordsType ==
  ASSUME NEW w, ViewType(w)
  PROVE  /\ NamedRecords(w) \in Seq(Record)
         /\ \A e : e \in Range(NamedRecords(w)) <=>
              \E c \in Range(w.running) : \E name \in Range(c.v.names) : e = NamedRecord(w, c, name)
  <1> DEFINE made(c) == [i \in DOMAIN c.v.names |-> NamedRecord(w, c, c.v.names[i])]
             image == [c \in Container |-> {NamedRecord(w, c, name) : name \in Range(c.v.names)}]
             outer == w.running
             lists == [n \in DOMAIN outer |-> made(outer[n])]
  <1>1. outer \in Seq(Container)
    BY DEF ViewType
  <1> HIDE DEF outer
  <1>2. ASSUME NEW c \in Container
        PROVE  made(c) \in Seq(Record) /\ Range(made(c)) = image[c]
    <2>1. c.v.names \in Seq(STRING)
      BY ContainerType
    <2> DEFINE names == c.v.names
               m == made(c)
    <2>2. m = [i \in DOMAIN names |-> m[i]] /\ DOMAIN m = DOMAIN names
          /\ \A i \in DOMAIN names : m[i] = NamedRecord(w, c, names[i])
      OBVIOUS
    <2>3. \A i \in DOMAIN names : names[i] \in STRING
      BY <2>1
    <2> HIDE DEF m, made, names
    <2>4. names \in Seq(STRING)
      BY <2>1 DEF names
    <2>5. m \in Seq(Record) /\ Range(m) = {m[i] : i \in DOMAIN names}
      BY <2>2, <2>3, <2>4, RecordTypes, MadeList
    <2>6. Range(m) = {NamedRecord(w, c, name) : name \in Range(names)}
      BY <2>2, <2>5 DEF Range
    <2> QED
      BY <2>5, <2>6 DEF m, names
  <1>3. \A n \in DOMAIN outer : outer[n] \in Container /\ lists[n] = made(outer[n])
    BY <1>1
  <1>4. lists = [n \in DOMAIN outer |-> lists[n]]
    OBVIOUS
  <1>5. NamedRecords(w) = FlattenSeq(lists)
    BY DEF NamedRecords, outer
  <1> HIDE DEF lists, made
  <1>6. \A c \in Range(outer) : image[c] = {NamedRecord(w, c, name) : name \in Range(c.v.names)}
    BY <1>1 DEF Range
  <1> HIDE DEF image
  <1>7. /\ FlattenSeq(lists) \in Seq(Record)
        /\ \A e : e \in Range(FlattenSeq(lists)) <=> \E c \in Range(outer) : e \in image[c]
    <2>1. \A n \in DOMAIN outer : lists[n] \in Seq(Record) /\ Range(lists[n]) = image[outer[n]]
      BY <1>2, <1>3
    <2>2. Nested(lists, outer, image, Record)
      BY <1>4, <2>1 DEF Nested
    <2> QED
      BY <1>1, <2>2, NestedList
  <1> QED
    BY <1>5, <1>6, <1>7 DEF outer

(* The order in which a build meets its workspaces. *)
OrderOf(w, order) == order \in Seq(Scopes) /\ Range(order) = BuildScopes(w)

LEMMA DefaultsType ==
  ASSUME NEW order \in Seq(Scopes)
  PROVE  /\ Defaults(order) \in Seq(Scopes) /\ IsInjective(Defaults(order))
         /\ Range(Defaults(order)) =
              {s \in Range(order) : s = DefaultWorkspace(order, s.project)}
  <1> DEFINE D == {s \in Range(order) : s = DefaultWorkspace(order, s.project)}
  <1>4. IsFiniteSet(D)
    <2>1. D \in SUBSET Range(order) /\ IsFiniteSet(Range(order))
      BY FiniteRange
    <2> HIDE DEF D
    <2> QED
      BY <2>1, FS_Subset
  <1>5. D \subseteq Scopes
    BY DEF Range
  <1> HIDE DEF D
  <1>6. SetToSeq(D) \in Seq(D) /\ Range(SetToSeq(D)) = D /\ IsInjective(SetToSeq(D))
    BY <1>4, SetToSeqLists
  <1>7. Defaults(order) = SetToSeq(D)
    BY DEF Defaults, D
  <1>8. Seq(D) \subseteq Seq(Scopes)
    BY <1>5
  <1> QED
    BY <1>6, <1>7, <1>8 DEF D

LEMMA HostRecordsType ==
  ASSUME NEW w, ViewType(w), NEW order \in Seq(Scopes)
  PROVE  /\ HostRecords(w, order) \in Seq(Record)
         /\ \A e : e \in Range(HostRecords(w, order)) <=>
              \E s \in Range(order) : e = HostRecord(w, s)
  <1> DEFINE m == HostRecords(w, order)
  <1>1. m = [i \in DOMAIN order |-> m[i]] /\ \A i \in DOMAIN order : m[i] = HostRecord(w, order[i])
    BY DEF HostRecords
  <1>2. \A i \in DOMAIN order : order[i] \in Scopes
    OBVIOUS
  <1> HIDE DEF m
  <1>3. m \in Seq(Record) /\ Range(m) = {m[i] : i \in DOMAIN order}
    BY <1>1, <1>2, RecordTypes, MadeList
  <1> QED
    BY <1>1, <1>3 DEF m, Range

(* No two project hosts are the same: one workspace stands for a project. *)
LEMMA ProjectRecordsType ==
  ASSUME NEW w, ViewType(w), NEW order \in Seq(Scopes)
  PROVE  /\ ProjectRecords(w, order) \in Seq(Record)
         /\ \A e : e \in Range(ProjectRecords(w, order)) <=>
              \E s \in Range(Defaults(order)) : e = ProjectRecord(w, s)
         /\ \A i, j \in DOMAIN ProjectRecords(w, order) :
              ProjectRecords(w, order)[i].host = ProjectRecords(w, order)[j].host => i = j
  <1> DEFINE m == ProjectRecords(w, order)
             d == Defaults(order)
  <1>0. /\ d \in Seq(Scopes) /\ IsInjective(d)
        /\ Range(d) = {s \in Range(order) : s = DefaultWorkspace(order, s.project)}
    BY DefaultsType
  <1>1. /\ m = [i \in DOMAIN d |-> m[i]] /\ DOMAIN m = DOMAIN d
        /\ \A i \in DOMAIN d : m[i] = ProjectRecord(w, d[i])
    BY DEF ProjectRecords
  <1> HIDE DEF m, d
  <1>2. \A i \in DOMAIN d : d[i] \in Scopes
    BY <1>0
  <1>3. m \in Seq(Record) /\ Range(m) = {m[i] : i \in DOMAIN d}
    BY <1>0, <1>1, <1>2, RecordTypes, MadeList
  <1>4. ASSUME NEW i \in DOMAIN d, NEW j \in DOMAIN d, m[i].host = m[j].host
        PROVE  i = j
    <2>1. d[i] \in Scope /\ d[j] \in Scope
      BY <1>2, ScopeTypes
    <2>2. RoutingType(Routing(w.cfg, w.conf, d[i])) /\ RoutingType(Routing(w.cfg, w.conf, d[j]))
      BY <1>2, RoutingOfScope
    <2>3. ProjectHost(Routing(w.cfg, w.conf, d[i]), d[i])[1] = d[i].project
          /\ ProjectHost(Routing(w.cfg, w.conf, d[j]), d[j])[1] = d[j].project
      BY <2>1, <2>2, ProjectHostType
    <2>4. ProjectRecord(w, d[i]).host = ProjectRecord(w, d[j]).host
      BY <1>1, <1>4
    <2>5. d[i].project = d[j].project
      BY <2>3, <2>4 DEF ProjectRecord
    <2>6. d[i] = DefaultWorkspace(order, d[i].project) /\ d[j] = DefaultWorkspace(order, d[j].project)
      <3>1. d[i] \in Range(d) /\ d[j] \in Range(d)
        BY DEF Range
      <3> QED
        BY <1>0, <3>1
    <2>7. d[i] = d[j]
      BY <2>5, <2>6
    <2> QED
      BY <1>0, <2>7 DEF IsInjective
  <1>5. \A e : e \in Range(m) <=> \E s \in Range(d) : e = ProjectRecord(w, s)
    BY <1>1, <1>3 DEF Range
  <1> QED
    BY <1>1, <1>3, <1>4, <1>5 DEF m, d

(* The strong rivals come first; after the weak ones there is at most one. *)
LEMMA PartsNoComeback ==
  ASSUME NEW a \in Seq(Record), NEW b \in Seq(Record), NEW d \in Seq(Record),
         \A i \in DOMAIN a : a[i].source = "runtime",
         \A i \in DOMAIN b : b[i].source = "docker",
         \A i \in DOMAIN d : d[i].source = "runtime",
         \A i, j \in DOMAIN d : d[i].host = d[j].host => i = j
  PROVE  NoComeback(a \o b \o d)
  <1> DEFINE A == Len(a)
             B == Len(b)
             D == Len(d)
             u == a \o b \o d
  <1>1. /\ A \in Nat /\ B \in Nat /\ D \in Nat
        /\ DOMAIN a = 1 .. A /\ DOMAIN b = 1 .. B /\ DOMAIN d = 1 .. D
        /\ DOMAIN u = 1 .. (A + B) + D
        /\ \A i \in 1 .. A : u[i] = a[i]
        /\ \A i \in 1 .. B : u[A + i] = b[i]
        /\ \A i \in 1 .. D : u[(A + B) + i] = d[i]
    <2> DEFINE t == a \o b
    <2>1. /\ t \in Seq(Record) /\ Len(t) = A + B /\ DOMAIN t = 1 .. A + B
          /\ A \in Nat /\ B \in Nat /\ D \in Nat
          /\ DOMAIN a = 1 .. A /\ DOMAIN b = 1 .. B /\ DOMAIN d = 1 .. D
          /\ \A i \in 1 .. A : t[i] = a[i]
          /\ \A i \in 1 .. B : t[A + i] = b[i]
      OBVIOUS
    <2>2. u = t \o d
      OBVIOUS
    <2> HIDE DEF t, A, B, u
    <2>3. /\ DOMAIN u = 1 .. Len(t) + D
          /\ \A i \in 1 .. Len(t) : u[i] = t[i]
          /\ \A i \in 1 .. D : u[Len(t) + i] = d[i]
      <3>1. D = Len(d) /\ t \in Seq(Record)
        BY <2>1 DEF D
      <3> QED
        BY <2>2, <3>1
    <2>4. \A i \in 1 .. A : i \in 1 .. A + B
      BY <2>1
    <2>5. \A i \in 1 .. B : A + i \in 1 .. A + B
      BY <2>1
    <2> HIDE DEF D
    <2> QED
      BY <2>1, <2>3, <2>4, <2>5
  <1> HIDE DEF A, B, D, u
  <1>2. \A i \in DOMAIN u : \/ i \in 1 .. A /\ Rank(u[i]) = 200
                            \/ i > A /\ i <= A + B /\ Rank(u[i]) = 100
                            \/ i > A + B /\ i - (A + B) \in 1 .. D /\ Rank(u[i]) = 200
    <2> SUFFICES ASSUME NEW i \in DOMAIN u
                 PROVE  \/ i \in 1 .. A /\ Rank(u[i]) = 200
                        \/ i > A /\ i <= A + B /\ Rank(u[i]) = 100
                        \/ i > A + B /\ i - (A + B) \in 1 .. D /\ Rank(u[i]) = 200
      OBVIOUS
    <2>1. CASE i \in 1 .. A
      BY <1>1, <2>1 DEF Rank, Priority
    <2>2. CASE i > A /\ i <= A + B
      <3>1. i - A \in 1 .. B /\ A + (i - A) = i
        BY <1>1, <2>2
      <3>2. u[i] = b[i - A] /\ b[i - A].source = "docker"
        BY <1>1, <3>1
      <3> QED
        BY <2>2, <3>2 DEF Rank, Priority
    <2>3. CASE i > A + B
      <3>1. i - (A + B) \in 1 .. D /\ (A + B) + (i - (A + B)) = i
        BY <1>1, <2>3
      <3>2. u[i] = d[i - (A + B)] /\ d[i - (A + B)].source = "runtime"
        BY <1>1, <3>1
      <3> QED
        BY <2>3, <3>1, <3>2 DEF Rank, Priority
    <2> QED
      BY <1>1, <2>1, <2>2, <2>3
  <1>3. ASSUME NEW i \in DOMAIN u, NEW j \in DOMAIN u, NEW k \in DOMAIN u, i < j, j < k,
               u[j].host = u[k].host, ~(Rank(u[j]) <= Rank(u[i]))
        PROVE  FALSE
    <2>1. Rank(u[i]) = 100 /\ Rank(u[j]) = 200 /\ i > A /\ i \in Int /\ j \in Int /\ k \in Int
      <3>1. i \in Int /\ j \in Int /\ k \in Int
        BY <1>1
      <3>2. Rank(u[i]) = 200 => FALSE
        <4>1. Rank(u[j]) = 200 \/ Rank(u[j]) = 100
          BY <1>2
        <4> QED
          BY <1>3, <4>1
      <3>3. Rank(u[i]) = 100 /\ i > A
        BY <1>2, <3>2
      <3>4. Rank(u[j]) = 200
        <4>1. Rank(u[j]) = 200 \/ Rank(u[j]) = 100
          BY <1>2
        <4> QED
          BY <1>3, <3>3, <4>1
      <3> QED
        BY <3>1, <3>3, <3>4
    <2>2. j > A + B /\ j - (A + B) \in 1 .. D
      <3>1. j \in 1 .. A \/ (j > A + B /\ j - (A + B) \in 1 .. D)
        BY <1>2, <2>1
      <3>2. j > A /\ A \in Int
        BY <1>1, <1>3, <2>1
      <3> QED
        BY <3>1, <3>2
    <2>3. k > A + B /\ k - (A + B) \in 1 .. D
      <3>1. A \in Nat /\ B \in Nat
        BY <1>1
      <3>2. k > A + B /\ k > A
        BY <1>3, <2>1, <2>2, <3>1
      <3>3. \/ k \in 1 .. A \/ k <= A + B
            \/ (k > A + B /\ k - (A + B) \in 1 .. D)
        BY <1>2
      <3> QED
        BY <2>1, <3>1, <3>2, <3>3
    <2>4. u[j] = d[j - (A + B)] /\ u[k] = d[k - (A + B)]
      <3>1. (A + B) + (j - (A + B)) = j /\ (A + B) + (k - (A + B)) = k
        BY <1>1, <2>1
      <3> QED
        BY <1>1, <2>2, <2>3, <3>1
    <2>5. j - (A + B) = k - (A + B)
      BY <1>1, <1>3, <2>2, <2>3, <2>4
    <2> QED
      BY <1>1, <1>3, <2>1, <2>5
  <1>4. NoComeback(u)
    BY <1>3 DEF NoComeback
  <1> QED
    BY <1>4 DEF u

(* The records of a build, and that no name loses a record to come back to. *)
LEMMA RecordsType ==
  ASSUME NEW w, ViewType(w), NEW order, OrderOf(w, order)
  PROVE  /\ Records(w, order) \in Seq(Record) /\ NoComeback(Records(w, order))
         /\ \A e : e \in Range(Records(w, order)) <=>
              \/ \E s \in Range(order) : e = HostRecord(w, s)
              \/ \E l \in Range(w.leases) : \E h \in Range(l.hosts) : e = LeasedRecord(h)
              \/ \E c \in Range(w.running) :
                   \E name \in Range(c.v.names) : e = NamedRecord(w, c, name)
              \/ \E s \in Range(Defaults(order)) : e = ProjectRecord(w, s)
  <1> DEFINE own == HostRecords(w, order)
             leased == LeasedRecords(w)
             named == NamedRecords(w)
             stands == ProjectRecords(w, order)
             strong == own \o leased
  <1>0. order \in Seq(Scopes)
    BY DEF OrderOf
  <1>1. /\ own \in Seq(Record)
        /\ \A e : e \in Range(own) <=> \E s \in Range(order) : e = HostRecord(w, s)
    BY <1>0, HostRecordsType
  <1>2. /\ leased \in Seq(Record)
        /\ \A e : e \in Range(leased) <=>
             \E l \in Range(w.leases) : \E h \in Range(l.hosts) : e = LeasedRecord(h)
    BY LeasedRecordsType
  <1>3. /\ named \in Seq(Record)
        /\ \A e : e \in Range(named) <=>
             \E c \in Range(w.running) : \E name \in Range(c.v.names) : e = NamedRecord(w, c, name)
    BY NamedRecordsType
  <1>4. /\ stands \in Seq(Record)
        /\ \A e : e \in Range(stands) <=> \E s \in Range(Defaults(order)) : e = ProjectRecord(w, s)
        /\ \A i, j \in DOMAIN stands : stands[i].host = stands[j].host => i = j
    BY <1>0, ProjectRecordsType
  <1>5. Records(w, order) = strong \o named \o stands
    BY RecordsParts
  <1> HIDE DEF own, leased, named, stands
  <1>6. strong \in Seq(Record) /\ Range(strong) = Range(own) \cup Range(leased)
    BY <1>1, <1>2, ConcatRange
  <1>7. /\ \A e \in Range(strong) : e.source = "runtime"
        /\ \A e \in Range(named) : e.source = "docker"
        /\ \A e \in Range(stands) : e.source = "runtime"
    BY <1>1, <1>2, <1>3, <1>4, <1>6 DEF HostRecord, LeasedRecord, NamedRecord, ProjectRecord
  <1> HIDE DEF strong
  <1>8. /\ \A i \in DOMAIN strong : strong[i].source = "runtime"
        /\ \A i \in DOMAIN named : named[i].source = "docker"
        /\ \A i \in DOMAIN stands : stands[i].source = "runtime"
    BY <1>7 DEF Range
  <1>9. NoComeback(strong \o named \o stands)
    BY <1>3, <1>4, <1>6, <1>8, PartsNoComeback
  <1>10. /\ strong \o named \in Seq(Record)
         /\ Range(strong \o named) = Range(strong) \cup Range(named)
    BY <1>3, <1>6, ConcatRange
  <1>11. /\ strong \o named \o stands \in Seq(Record)
         /\ Range(strong \o named \o stands) = Range(strong) \cup Range(named) \cup Range(stands)
    <2> DEFINE before == strong \o named
    <2>1. before \in Seq(Record) /\ Range(before) = Range(strong) \cup Range(named)
      BY <1>10
    <2> HIDE DEF before
    <2>2. /\ before \o stands \in Seq(Record)
          /\ Range(before \o stands) = Range(before) \cup Range(stands)
      BY <1>4, <2>1, ConcatRange
    <2> QED
      BY <2>1, <2>2 DEF before
  <1> QED
    BY <1>1, <1>2, <1>3, <1>4, <1>5, <1>6, <1>9, <1>11

(* A zone of the build covers every name it makes a record for. *)
LEMMA RecordsCovered ==
  ASSUME NEW w, ViewType(w), NEW order, OrderOf(w, order), NEW e \in Range(Records(w, order)),
         e.host # <<>>
  PROVE  \E z \in Domains(w) : IsSuffix(z, e.host)
  <1>1. ASSUME NEW s \in BuildScopes(w)
        PROVE  s \in Scopes
    <2>1. CASE s = Own
      BY <2>1, ScopeTypes
    <2>2. CASE s \in {c.v.scope : c \in Range(w.running)}
      <3>1. \A c \in Range(w.running) : c \in Container
        BY DEF ViewType, Range
      <3> QED
        BY <2>2, <3>1, ContainerType
    <2> QED
      BY <2>1, <2>2 DEF BuildScopes
  <1>2. ASSUME NEW s \in BuildScopes(w)
        PROVE  /\ s \in Scope /\ RoutingType(Routing(w.cfg, w.conf, s))
               /\ Routing(w.cfg, w.conf, s).domain \in Domains(w)
    BY <1>1, ScopeTypes, RoutingOfScope DEF Domains
  <1>3. CASE \E s \in Range(order) : e = HostRecord(w, s)
    <2>1. PICK s \in BuildScopes(w) : e = HostRecord(w, s)
      BY <1>3 DEF OrderOf
    <2> QED
      BY <1>2, <2>1, WorkspaceHostType DEF HostRecord
  <1>4. CASE \E l \in Range(w.leases) : \E h \in Range(l.hosts) : e = LeasedRecord(h)
    <2>1. PICK l \in Range(w.leases) : \E h \in Range(l.hosts) : e = LeasedRecord(h)
      BY <1>4
    <2>2. l \in Lease /\ l.domain \in Domains(w)
      BY DEF ViewType, Range, Domains
    <2>3. PICK h \in Range(l.hosts) : e = LeasedRecord(h)
      BY <2>1
    <2> QED
      BY <2>2, <2>3 DEF LeasedRecord, Lease
  <1>5. CASE \E c \in Range(w.running) : \E name \in Range(c.v.names) : e = NamedRecord(w, c, name)
    <2>1. PICK c \in Range(w.running) : \E name \in Range(c.v.names) : e = NamedRecord(w, c, name)
      BY <1>5
    <2>2. c \in Container /\ c.v.scope \in BuildScopes(w)
      BY DEF ViewType, Range, BuildScopes
    <2>3. PICK name \in Range(c.v.names) : e = NamedRecord(w, c, name)
      BY <2>1
    <2>4. name \in STRING
      BY <2>2, ContainerType DEF Range
    <2> QED
      BY <1>2, <2>2, <2>3, <2>4, ServiceHostType DEF NamedRecord
  <1>6. CASE \E s \in Range(Defaults(order)) : e = ProjectRecord(w, s)
    <2>1. PICK s \in BuildScopes(w) : e = ProjectRecord(w, s)
      BY <1>6, DefaultsType DEF OrderOf
    <2> QED
      BY <1>2, <2>1, ProjectHostType DEF ProjectRecord
  <1> QED
    BY <1>3, <1>4, <1>5, <1>6, RecordsType

(* The DNS table of a build answers with a record of the name. *)
LEMMA BuildRecords ==
  ASSUME NEW w, ViewType(w), NEW order, NEW later, OrderOf(w, order),
         NEW h \in DOMAIN Build(w, order, later).dns
  PROVE  /\ \E e \in Range(Records(w, order)) :
              e.host = h /\ Build(w, order, later).dns[h] = e.ip
         /\ Build(w, order, later).dns[h] \in Scopes
         /\ h # <<>> => \E z \in Build(w, order, later).zones : IsSuffix(z, h)
  <1> DEFINE list == Records(w, order)
  <1>1. list \in Seq(Record) /\ NoComeback(list)
    BY RecordsType
  <1>2. Build(w, order, later).dns = Merge(list) /\ Build(w, order, later).zones = Domains(w)
    BY DEF Build
  <1> HIDE DEF list
  <1>3. h \in HostsOf(list)
    BY <1>2 DEF Merge
  <1>4. PICK s \in DOMAIN list : FirstStrongest(list, h, Len(list), s) /\ Merge(list)[h] = list[s].ip
    BY <1>1, <1>3, MergeHeld
  <1>5. list[s] \in Range(list) /\ list[s].host = h /\ list[s] \in Record
    BY <1>1, <1>4 DEF FirstStrongest, Range
  <1>6. h # <<>> => \E z \in Domains(w) : IsSuffix(z, h)
    BY <1>5, RecordsCovered DEF list
  <1> QED
    BY <1>2, <1>4, <1>5, <1>6 DEF list, Record

-----------------------------------------------------------------------------
(* Routes of a build                                                       *)

(* A table made of routes holds one of the routes for each host. *)
LEMMA LastWinsHeld ==
  ASSUME NEW R, NEW list \in Seq(R)
  PROVE  /\ DOMAIN LastWins(list) = HostsOf(list)
         /\ \A h \in DOMAIN LastWins(list) :
              \E e \in R : e.host = h /\ LastWins(list)[h] = e.target
  <1>1. DOMAIN LastWins(list) = HostsOf(list)
    BY DEF LastWins
  <1>2. ASSUME NEW h \in HostsOf(list)
        PROVE  \E e \in R : e.host = h /\ LastWins(list)[h] = e.target
    <2> DEFINE T == {i \in DOMAIN list : list[i].host = h}
    <2>1. DOMAIN list = 1 .. Len(list) /\ Len(list) \in Nat
      OBVIOUS
    <2>2. T \in SUBSET Nat /\ T # {} /\ \A m \in T : m <= Len(list)
      BY <1>2, <2>1 DEF HostsOf
    <2>3. LastWins(list)[h] = list[Max(T)].target
      BY <1>2 DEF LastWins
    <2> HIDE DEF T
    <2>4. Max(T) \in T
      BY <2>1, <2>2, MaxIsGreatest
    <2>5. list[Max(T)] \in R /\ list[Max(T)].host = h
      BY <2>4 DEF T
    <2> QED
      BY <2>3, <2>5
  <1> QED
    BY <1>1, <1>2

(* The service a route of host h to target t is for: one with a record for h in
   its workspace, which has the target among its addresses. *)
RouteFor(w, order, h, t) ==
  \E c \in Range(w.running) :
    /\ t \in Range(c.nets)
    /\ \E e \in Range(Records(w, order)) : e.host = h /\ e.ip = c.v.scope

GoodRoutes(w, order) ==
  {e \in [host : Host, target : AllTargets] :
     RouteFor(w, order, e.host, e.target) \/ \E l \in Range(w.leases) : e.host \in Range(l.hosts)}

TargetsIn(w, s) ==
  {t \in AllTargets : \E c \in Range(w.running) : c.v.scope = s /\ t \in Range(c.nets)}

(* The target of a workspace's own host is in one of its containers. *)
LEMMA DefaultTargetType ==
  ASSUME NEW w, ViewType(w), NEW s
  PROVE  DefaultTarget(w, s) \in Seq(TargetsIn(w, s))
  <1> DEFINE v(n)     == w.running[n].v
             here     == {n \in DOMAIN w.running : v(n).scope = s}
             defaults == {n \in here : v(n).default}
             serving  == {n \in here : ServesHTTP(v(n))}
             first    == IF defaults # {} THEN {n \in defaults : HasHTTPPort(v(n))}
                         ELSE IF Cardinality(serving) = 1 THEN serving ELSE {}
  <1>1. first \subseteq here /\ here \subseteq DOMAIN w.running
    OBVIOUS
  <1>2. w.running \in Seq(Container)
    BY DEF ViewType
  <1>3. DefaultTarget(w, s) = IF first = {} THEN <<>> ELSE <<Target(w, w.running[Min(first)])>>
    BY DEF DefaultTarget
  <1> HIDE DEF first
  <1>4. CASE first = {}
    BY <1>3, <1>4, EmptyList
  <1>5. CASE first # {}
    <2>1. first \in SUBSET Nat
      BY <1>1, <1>2
    <2>2. Min(first) \in first
      BY <1>5, <2>1, MinIsLeast
    <2> DEFINE c == w.running[Min(first)]
    <2>3. c \in Range(w.running) /\ c \in Container /\ c.v.scope = s
      BY <1>1, <1>2, <2>2 DEF Range
    <2> HIDE DEF c
    <2>4. Target(w, c) \in TargetsIn(w, s)
      BY <2>3, TargetType DEF TargetsIn, AllTargets
    <2>5. DefaultTarget(w, s) = <<Target(w, c)>>
      BY <1>3, <1>5 DEF c
    <2> HIDE DEF defaults, here, serving
    <2> QED
      BY <2>4, <2>5
  <1> QED
    BY <1>4, <1>5

LeasedRoutes(w) ==
  FlattenSeq([n \in DOMAIN w.leases |->
    [i \in DOMAIN w.leases[n].hosts |-> [host |-> w.leases[n].hosts[i], target |-> Local]]])
NamedRoutesOf(w, c) ==
  IF ~ServesHTTP(c.v) THEN <<>>
  ELSE [i \in DOMAIN c.v.names |->
          [host |-> ServiceHost(Routing(w.cfg, w.conf, c.v.scope), c.v.names[i], c.v.scope),
           target |-> Target(w, c)]]
NamedRoutes(w) == FlattenSeq([n \in DOMAIN w.running |-> NamedRoutesOf(w, w.running[n])])
RoutesTo(h, t) == [i \in DOMAIN t |-> [host |-> h, target |-> t[i]]]
OwnRoutes(w, later) ==
  FlattenSeq([n \in DOMAIN later |->
    RoutesTo(WorkspaceHost(Routing(w.cfg, w.conf, later[n]), later[n]),
             DefaultTarget(w, later[n]))])
ProjectRoutes(w, order) ==
  FlattenSeq([n \in DOMAIN Defaults(order) |->
    RoutesTo(ProjectHost(Routing(w.cfg, w.conf, Defaults(order)[n]), Defaults(order)[n]),
             DefaultTarget(w, Defaults(order)[n]))])

LEMMA RoutesParts ==
  ASSUME NEW w, NEW order, NEW later
  PROVE  HTTPRoutes(w, order, later) = LeasedRoutes(w) \o NamedRoutes(w)
                                         \o OwnRoutes(w, later) \o ProjectRoutes(w, order)
  BY DEF HTTPRoutes, FlatMap, LeasedRoutes, NamedRoutes, NamedRoutesOf, RoutesTo, OwnRoutes,
         ProjectRoutes

LEMMA LeasedRoutesType ==
  ASSUME NEW w, ViewType(w), NEW order
  PROVE  LeasedRoutes(w) \in Seq(GoodRoutes(w, order))
  <1> DEFINE R == GoodRoutes(w, order)
             outer == w.leases
             made(l) == [i \in DOMAIN l.hosts |-> [host |-> l.hosts[i], target |-> Local]]
             lists == [n \in DOMAIN outer |-> made(outer[n])]
  <1>1. outer \in Seq(Lease)
    BY DEF ViewType
  <1>2. ASSUME NEW n \in DOMAIN outer
        PROVE  lists[n] \in Seq(R)
    <2> DEFINE l == outer[n]
               m == made(l)
               hosts == l.hosts
    <2>1. l \in Range(w.leases) /\ hosts \in Seq(Host)
      BY <1>1 DEF Range, Lease
    <2>2. ASSUME NEW i \in DOMAIN hosts
          PROVE  m[i] \in R
      <3>1. hosts[i] \in Host /\ hosts[i] \in Range(l.hosts)
        BY <2>1 DEF Range
      <3> DEFINE e == [host |-> hosts[i], target |-> Local]
      <3>2. m[i] = e
        OBVIOUS
      <3>3. e \in [host : Host, target : AllTargets] /\ e.host = hosts[i]
        BY <3>1 DEF AllTargets
      <3> HIDE DEF e, m, l, made, hosts, outer
      <3> QED
        BY <2>1, <3>1, <3>2, <3>3 DEF GoodRoutes
    <2>3. m = [i \in DOMAIN hosts |-> m[i]]
      OBVIOUS
    <2>4. lists[n] = m
      OBVIOUS
    <2> HIDE DEF m, hosts, made, lists, R, outer, l
    <2> QED
      BY <2>1, <2>2, <2>3, <2>4, MadeList
  <1>3. lists = [n \in DOMAIN outer |-> lists[n]]
    OBVIOUS
  <1>4. LeasedRoutes(w) = FlattenSeq(lists)
    BY DEF LeasedRoutes
  <1> HIDE DEF lists, R, outer
  <1> QED
    BY <1>1, <1>2, <1>3, <1>4, NestedRoutes DEF R

LEMMA NamedRoutesType ==
  ASSUME NEW w, ViewType(w), NEW order, OrderOf(w, order)
  PROVE  NamedRoutes(w) \in Seq(GoodRoutes(w, order))
  <1> DEFINE R == GoodRoutes(w, order)
             outer == w.running
             lists == [n \in DOMAIN outer |-> NamedRoutesOf(w, outer[n])]
  <1>1. outer \in Seq(Container)
    BY DEF ViewType
  <1>2. ASSUME NEW n \in DOMAIN outer
        PROVE  lists[n] \in Seq(R)
    <2> DEFINE c == outer[n]
               names == c.v.names
               s == c.v.scope
               host(name) == ServiceHost(Routing(w.cfg, w.conf, s), name, s)
               m == [i \in DOMAIN names |-> [host |-> host(names[i]), target |-> Target(w, c)]]
    <2>1. c \in Range(w.running) /\ c \in Container
      BY <1>1 DEF Range
    <2>2. names \in Seq(STRING) /\ s \in Scopes
      BY <2>1, ContainerType
    <2>3. lists[n] = IF ServesHTTP(c.v) THEN m ELSE <<>>
      BY DEF NamedRoutesOf
    <2> HIDE DEF c, lists, R
    <2>4. ASSUME NEW i \in DOMAIN names
          PROVE  m[i] \in R
      <3> DEFINE e == [host |-> host(names[i]), target |-> Target(w, c)]
      <3>1. names[i] \in STRING /\ names[i] \in Range(names)
        BY <2>2 DEF Range
      <3>2. NamedRecord(w, c, names[i]).host = host(names[i])
            /\ NamedRecord(w, c, names[i]).ip = s
        BY DEF NamedRecord
      <3>3. host(names[i]) \in Host
        BY <2>1, <3>1, <3>2, RecordTypes DEF Record
      <3>4. NamedRecord(w, c, names[i]) \in Range(Records(w, order))
        BY <2>1, <3>1, RecordsType
      <3>5. Target(w, c) \in Range(c.nets) /\ Target(w, c) \in AllTargets
        BY <2>1, TargetType DEF AllTargets
      <3>6. m[i] = e /\ e.host = host(names[i]) /\ e.target = Target(w, c)
            /\ e \in [host : Host, target : AllTargets]
        BY <3>3, <3>5
      <3> HIDE DEF e, m, host, names
      <3>7. RouteFor(w, order, e.host, e.target)
        BY <2>1, <3>2, <3>4, <3>5, <3>6 DEF RouteFor, s
      <3> HIDE DEF s
      <3> QED
        BY <3>6, <3>7 DEF R, GoodRoutes
    <2>5. m = [i \in DOMAIN names |-> m[i]]
      OBVIOUS
    <2> HIDE DEF m, names
    <2>6. m \in Seq(R)
      BY <2>2, <2>4, <2>5, MadeList
    <2> QED
      BY <2>3, <2>6, EmptyList
  <1>3. lists = [n \in DOMAIN outer |-> lists[n]]
    OBVIOUS
  <1>4. NamedRoutes(w) = FlattenSeq(lists)
    BY DEF NamedRoutes
  <1> HIDE DEF lists, R, outer
  <1> QED
    BY <1>1, <1>2, <1>3, <1>4, NestedRoutes DEF R

(* Routes to a workspace's own target, under a host that has a record for it. *)
LEMMA RoutesToType ==
  ASSUME NEW w, ViewType(w), NEW order, NEW e \in Range(Records(w, order)), e \in Record,
         NEW s, e.ip = s
  PROVE  RoutesTo(e.host, DefaultTarget(w, s)) \in Seq(GoodRoutes(w, order))
  <1> DEFINE R == GoodRoutes(w, order)
             t == DefaultTarget(w, s)
             h == e.host
             m == RoutesTo(h, t)
  <1>1. t \in Seq(TargetsIn(w, s)) /\ h \in Host
    BY DefaultTargetType DEF Record
  <1>2. m = [i \in DOMAIN t |-> m[i]] /\ \A i \in DOMAIN t : m[i] = [host |-> h, target |-> t[i]]
    BY DEF RoutesTo
  <1> HIDE DEF t, m, R
  <1>3. ASSUME NEW i \in DOMAIN t
        PROVE  m[i] \in R
    <2>1. t[i] \in TargetsIn(w, s)
      BY <1>1
    <2>2. t[i] \in AllTargets /\ RouteFor(w, order, h, t[i])
      BY <2>1 DEF TargetsIn, RouteFor
    <2>3. m[i] \in [host : Host, target : AllTargets] /\ m[i].host = h /\ m[i].target = t[i]
      BY <1>1, <1>2, <2>2
    <2> HIDE DEF h
    <2> QED
      BY <2>2, <2>3 DEF R, GoodRoutes
  <1>4. m \in Seq(R)
    BY <1>1, <1>2, <1>3, MadeList
  <1> QED
    BY <1>4 DEF m, R, t

LEMMA OwnRoutesType ==
  ASSUME NEW w, ViewType(w), NEW order, OrderOf(w, order), NEW later, OrderOf(w, later)
  PROVE  OwnRoutes(w, later) \in Seq(GoodRoutes(w, order))
  <1> DEFINE R == GoodRoutes(w, order)
             r(s) == Routing(w.cfg, w.conf, s)
             lists == [n \in DOMAIN later |-> RoutesTo(WorkspaceHost(r(later[n]), later[n]),
                                                       DefaultTarget(w, later[n]))]
  <1>1. later \in Seq(Scopes) /\ Range(later) = Range(order)
    BY DEF OrderOf
  <1>2. ASSUME NEW n \in DOMAIN later
        PROVE  lists[n] \in Seq(R)
    <2> DEFINE s == later[n]
               e == HostRecord(w, s)
    <2>1. s \in Scopes /\ s \in Range(order)
      BY <1>1 DEF Range
    <2>2. e \in Range(Records(w, order)) /\ e \in Record
      BY <2>1, RecordsType, RecordTypes
    <2>3. e.host = WorkspaceHost(r(s), s) /\ e.ip = s
      BY DEF HostRecord
    <2>4. lists[n] = RoutesTo(e.host, DefaultTarget(w, s))
      BY <2>3
    <2> HIDE DEF e, s, lists
    <2> QED
      BY <2>2, <2>3, <2>4, RoutesToType
  <1>3. lists = [n \in DOMAIN later |-> lists[n]]
    OBVIOUS
  <1>4. OwnRoutes(w, later) = FlattenSeq(lists)
    BY DEF OwnRoutes
  <1> HIDE DEF lists, R
  <1> QED
    BY <1>1, <1>2, <1>3, <1>4, NestedRoutes DEF R

LEMMA ProjectRoutesType ==
  ASSUME NEW w, ViewType(w), NEW order, OrderOf(w, order)
  PROVE  ProjectRoutes(w, order) \in Seq(GoodRoutes(w, order))
  <1> DEFINE R == GoodRoutes(w, order)
             r(s) == Routing(w.cfg, w.conf, s)
             outer == Defaults(order)
             lists == [n \in DOMAIN outer |-> RoutesTo(ProjectHost(r(outer[n]), outer[n]),
                                                       DefaultTarget(w, outer[n]))]
  <1>1. outer \in Seq(Scopes)
    BY DefaultsType DEF OrderOf
  <1>2. ASSUME NEW n \in DOMAIN outer
        PROVE  lists[n] \in Seq(R)
    <2> DEFINE s == outer[n]
               e == ProjectRecord(w, s)
    <2>1. s \in Scopes /\ s \in Range(outer)
      BY <1>1 DEF Range
    <2>2. e \in Range(Records(w, order)) /\ e \in Record
      BY <2>1, RecordsType, RecordTypes
    <2>3. e.host = ProjectHost(r(s), s) /\ e.ip = s
      BY DEF ProjectRecord
    <2>4. lists[n] = RoutesTo(e.host, DefaultTarget(w, s))
      BY <2>3
    <2> HIDE DEF e, s, lists, outer
    <2> QED
      BY <2>2, <2>3, <2>4, RoutesToType
  <1>3. lists = [n \in DOMAIN outer |-> lists[n]]
    OBVIOUS
  <1>4. ProjectRoutes(w, order) = FlattenSeq(lists)
    BY DEF ProjectRoutes
  <1> HIDE DEF lists, R, outer
  <1> QED
    BY <1>1, <1>2, <1>3, <1>4, NestedRoutes DEF R

(* Every route of a build is a lease's or a service's with a record. *)
LEMMA BuildRoutes ==
  ASSUME NEW w, ViewType(w), NEW order, OrderOf(w, order), NEW later, OrderOf(w, later)
  PROVE  Build(w, order, later).routes \in Seq(GoodRoutes(w, order))
  <1> DEFINE R == GoodRoutes(w, order)
             a == LeasedRoutes(w)
             b == NamedRoutes(w)
             c == OwnRoutes(w, later)
             d == ProjectRoutes(w, order)
  <1>1. a \in Seq(R) /\ b \in Seq(R) /\ c \in Seq(R) /\ d \in Seq(R)
    BY LeasedRoutesType, NamedRoutesType, OwnRoutesType, ProjectRoutesType
  <1>2. Build(w, order, later).routes = a \o b \o c \o d
    BY RoutesParts DEF Build
  <1> HIDE DEF R, a, b, c, d
  <1> QED
    BY <1>1, <1>2 DEF R

(* A TCP listener of a workspace leads to a container of it. *)
GoodListeners(w) ==
  {e \in [host : Scopes \X Nat, target : Ip] :
     \E c \in Range(w.running) : e.host[1] = c.v.scope /\ e.target \in Range(c.nets)}

LEMMA BuildListeners ==
  ASSUME NEW w, ViewType(w), NEW order, NEW later
  PROVE  /\ TCPRoutes(w) \in Seq(GoodListeners(w))
         /\ Build(w, order, later).tcp = LastWins(TCPRoutes(w))
  <1> DEFINE R == GoodListeners(w)
             outer == w.running
             ports(c) == SetToSeq(c.v.tcp \ {HTTPPort})
             made(c) == [i \in DOMAIN ports(c) |->
                           [host |-> <<c.v.scope, ports(c)[i]>>,
                            target |-> ContainerIP(c.nets, w.reachable)]]
             lists == [n \in DOMAIN outer |-> made(outer[n])]
  <1>1. outer \in Seq(Container)
    BY DEF ViewType
  <1>2. ASSUME NEW n \in DOMAIN outer
        PROVE  lists[n] \in Seq(R)
    <2> DEFINE c == outer[n]
               P == c.v.tcp \ {HTTPPort}
               list == SetToSeq(P)
               ip == ContainerIP(c.nets, w.reachable)
               m == [i \in DOMAIN list |-> [host |-> <<c.v.scope, list[i]>>, target |-> ip]]
    <2>1. c \in Range(w.running) /\ c \in Container
      BY <1>1 DEF Range
    <2>2. lists[n] = m
      OBVIOUS
    <2> HIDE DEF c, lists, R, made, outer
    <2>3. c.v \in Service /\ c.v \in Range(Services) /\ c.v.scope \in Scopes
          /\ c.nets \in Seq(Ip) \ {<<>>}
      BY <2>1, ContainerType DEF Container
    <2>4. IsFiniteSet(c.v.tcp) /\ c.v.tcp \in SUBSET Nat
      <3>1. PICK v \in DOMAIN Services : c.v = Services[v]
        BY <2>3 DEF Range
      <3>2. IsFiniteSet(c.v.tcp)
        BY <3>1, ServicesAssumption
      <3> QED
        BY <2>3, <3>2 DEF Service
    <2>5. P \in SUBSET (c.v.tcp) /\ P \subseteq Nat
      BY <2>4
    <2>6. list \in Seq(P)
      <3>1. IsFiniteSet(P)
        <4> HIDE DEF P
        <4> QED
          BY <2>4, <2>5, FS_Subset
      <3> HIDE DEF P
      <3> QED
        BY <3>1, SetToSeqLists
    <2> HIDE DEF P, list
    <2>7. ip \in Range(c.nets) /\ ip \in Ip
      <3>1. ip \in Range(c.nets)
        BY <2>3, ContainerIPType
      <3> QED
        BY <2>3, <3>1 DEF Range
    <2> HIDE DEF ip
    <2>8. ASSUME NEW i \in DOMAIN list
          PROVE  m[i] \in R
      <3>1. list[i] \in Nat
        BY <2>5, <2>6
      <3>2. m[i] \in [host : Scopes \X Nat, target : Ip] /\ m[i].host[1] = c.v.scope
            /\ m[i].target = ip
        BY <2>3, <2>7, <3>1
      <3> HIDE DEF m
      <3> QED
        BY <2>1, <2>7, <3>2 DEF R, GoodListeners
    <2>9. m = [i \in DOMAIN list |-> m[i]]
      OBVIOUS
    <2> HIDE DEF m
    <2> QED
      BY <2>2, <2>6, <2>8, <2>9, MadeList
  <1>3. lists = [n \in DOMAIN outer |-> lists[n]]
    OBVIOUS
  <1>4. TCPRoutes(w) = FlattenSeq(lists)
    BY DEF TCPRoutes, FlatMap
  <1>5. FlattenSeq(lists) \in Seq(R)
    <2> HIDE DEF lists, R, outer
    <2> QED
      BY <1>1, <1>2, <1>3, NestedRoutes
  <1> QED
    BY <1>4, <1>5 DEF Build

-----------------------------------------------------------------------------
(* The invariant                                                           *)

(* A zone is there for the name; the empty name stands for none. *)
Covers(Z, h) == h # <<>> => \E z \in Z : IsSuffix(z, h)
Route == [host : Host, target : AllTargets]
Steps == {"idle", "zone", "lookup", "refused", "loopback", "admitted", "sent", "failed"}
Request == [step : Steps, host : Asked \cup {<<>>}, target : AllTargets, steady : BOOLEAN]
Mark == [errors : 0 .. QuarantineAt - 1, quarantined : BOOLEAN]

WorldInv ==
  /\ DOMAIN nets = DOMAIN Services
  /\ \A v \in DOMAIN Services : nets[v] \in Networks[v] \cup {Gone}
  /\ status \in [Ip -> Status]
  /\ DOMAIN conf = Scopes
  /\ \A s \in Scopes : conf[s] \in Configs[s] \cup {Bad}
  /\ leases \in Seq(Lease)
  /\ changes \in 0 .. MaxChanges

PassInv ==
  /\ cfg \in Configs[Own]
  /\ pc \in {"idle", "inspect", "zones", "dns", "http"}
  /\ listed \subseteq DOMAIN Services
  /\ avoid \subseteq AllTargets

(* Whatever a build makes a record for is covered by its zones. *)
BuiltInv ==
  /\ Range(built.dns) \subseteq Scopes
  /\ built.routes \in Seq(Route)
  /\ \A h \in DOMAIN built.dns : Covers(built.zones, h)

(* The published zones cover the published records, and those about to be. *)
TableInv ==
  /\ Range(dns) \subseteq Scopes
  /\ Range(http) \subseteq AllTargets
  /\ pc # "dns" => \A h \in DOMAIN dns : Covers(zones, h)
  /\ pc = "dns" => \A h \in DOMAIN built.dns : Covers(zones, h)

CountInv ==
  /\ cache \in [AllTargets -> {"unknown", "healthy", "unhealthy"}]
  /\ tracker \in [Asked \X AllTargets -> Mark]
  /\ breaker \in [Asked -> 0 .. BreakAt]

(* A steady query is still under way, for a name that keeps its record. *)
ReqInv ==
  /\ req \in [Req -> Request]
  /\ \A r \in Req : /\ req[r].step # "idle" => req[r].host \in Asked
                    /\ req[r].steady => req[r].step \in {"zone", "lookup"}

SteadyInv ==
  \A r \in Req : req[r].steady => /\ req[r].host \in DOMAIN dns
                                  /\ pc = "dns" => req[r].host \in DOMAIN built.dns

IInv == WorldInv /\ PassInv /\ BuiltInv /\ TableInv /\ CountInv /\ ReqInv /\ SteadyInv

LEMMA ConfigTypes ==
  ASSUME NEW s \in Scopes
  PROVE  \A c \in Configs[s] : RoutingType(c)
  BY ConfigsAssumption

LEMMA ViewTyped ==
  ASSUME WorldInv, cfg \in Configs[Own], NEW S \in SUBSET RunningServices
  PROVE  /\ ViewType(View(S))
         /\ View(S).leases = leases
         /\ Range(View(S).running) = {[v |-> Services[v], nets |-> nets[v]] : v \in S}
         /\ BuildScopes(View(S)) = {Own} \cup {Services[v].scope : v \in S}
  <1>1. S \in SUBSET DOMAIN Services /\ \A v \in S : nets[v] \in Seq(Ip) \ {<<>>}
    BY NetworksAssumption DEF RunningServices, WorldInv, Gone
  <1>2. /\ Seen(S) \in Seq(Container)
        /\ Range(Seen(S)) = {[v |-> Services[v], nets |-> nets[v]] : v \in S}
    BY <1>1, SeenType
  <1>3. RoutingType(cfg) /\ \A s \in Scopes : conf[s] = Bad \/ RoutingType(conf[s])
    BY ScopeTypes, ConfigTypes DEF WorldInv
  <1>4. View(S).cfg = cfg /\ View(S).conf = conf /\ View(S).running = Seen(S)
        /\ View(S).leases = leases
    BY DEF View
  <1>5. BuildScopes(View(S)) = {Own} \cup {Services[v].scope : v \in S}
    <2> DEFINE seen == Seen(S)
               T == {c.v.scope : c \in Range(seen)}
    <2>1. BuildScopes(View(S)) = {Own} \cup T
      BY <1>4 DEF BuildScopes
    <2>2. ASSUME NEW c \in Range(seen)
          PROVE  c.v.scope \in {Services[v].scope : v \in S}
      BY <1>2
    <2>3. ASSUME NEW v \in S
          PROVE  Services[v].scope \in T
      <3>1. [v |-> Services[v], nets |-> nets[v]] \in Range(seen)
        BY <1>2
      <3> QED
        BY <3>1
    <2> HIDE DEF seen
    <2> QED
      BY <2>1, <2>2, <2>3
  <1> QED
    BY <1>2, <1>3, <1>4, <1>5 DEF ViewType, WorldInv

LEMMA OrdersTyped ==
  ASSUME WorldInv, cfg \in Configs[Own], NEW S \in SUBSET RunningServices, NEW order \in Orders(S)
  PROVE  OrderOf(View(S), order)
  <1> DEFINE T == {Services[v].scope : v \in S}
             f == [v \in S |-> Services[v].scope]
  <1>1. S \in SUBSET DOMAIN Services /\ IsFiniteSet(DOMAIN Services)
    <2>1. DOMAIN Services = 1 .. Len(Services) /\ Len(Services) \in Nat
      BY ServicesAssumption
    <2>2. IsFiniteSet(1 .. Len(Services))
      BY <2>1, FS_Interval
    <2> QED
      BY <2>1, <2>2 DEF RunningServices
  <1>2. IsFiniteSet(S)
    BY <1>1, FS_Subset
  <1>3. f \in Surjection(S, T)
    BY DEF Surjection
  <1>4. IsFiniteSet(T)
    <2> HIDE DEF f, T
    <2> QED
      BY <1>2, <1>3, FS_Surjection
  <1>5. {Own} \cup T \subseteq Scopes
    BY <1>1, ScopeTypes
  <1> HIDE DEF T
  <1>6. IsFiniteSet({Own} \cup T)
    BY <1>4, FS_AddElement
  <1>7. order \in SetToSeqs({Own} \cup T)
    BY DEF Orders, T
  <1>8. order \in Seq({Own} \cup T) /\ Range(order) = {Own} \cup T
    BY <1>6, <1>7, SetToSeqsLists
  <1>9. BuildScopes(View(S)) = {Own} \cup T
    BY ViewTyped DEF T
  <1>10. Seq({Own} \cup T) \subseteq Seq(Scopes)
    BY <1>5
  <1> QED
    BY <1>8, <1>9, <1>10 DEF OrderOf

(* What a build returns is fit to be published. *)
LEMMA BuildMade ==
  ASSUME WorldInv, cfg \in Configs[Own], NEW S \in SUBSET RunningServices,
         NEW order \in Orders(S), NEW later \in Orders(S)
  PROVE  LET made == Build(View(S), order, later)
         IN  /\ Range(made.dns) \subseteq Scopes
             /\ made.routes \in Seq(Route)
             /\ \A h \in DOMAIN made.dns : Covers(made.zones, h)
  <1> DEFINE w == View(S)
             made == Build(w, order, later)
  <1>1. ViewType(w) /\ OrderOf(w, order) /\ OrderOf(w, later)
    BY ViewTyped, OrdersTyped
  <1> HIDE DEF w
  <1>2. made.routes \in Seq(GoodRoutes(w, order))
    BY <1>1, BuildRoutes
  <1>3. GoodRoutes(w, order) \subseteq Route
    BY DEF GoodRoutes, Route
  <1>4. Seq(GoodRoutes(w, order)) \subseteq Seq(Route)
    BY <1>3
  <1>5. \A h \in DOMAIN made.dns : made.dns[h] \in Scopes /\ Covers(made.zones, h)
    BY <1>1, BuildRecords DEF Covers
  <1> HIDE DEF made
  <1>6. made.routes \in Seq(Route) /\ Range(made.dns) \subseteq Scopes
    BY <1>2, <1>4, <1>5 DEF Range
  <1> QED
    BY <1>5, <1>6 DEF made, w

LEMMA LastRoutes ==
  ASSUME NEW list \in Seq(Route)
  PROVE  \A h \in DOMAIN LastWins(list) : LastWins(list)[h] \in AllTargets
  <1>1. \A e \in Route : e.target \in AllTargets
    BY DEF Route
  <1> QED
    BY <1>1, LastWinsHeld

LEMMA NoReqType == NoReq \in Request /\ NoReq.step = "idle" /\ NoReq.steady = FALSE
                   /\ NoReq.host = <<>>
  BY DEF NoReq, Request, Steps, AllTargets

LEMMA CleanType == Clean \in Mark
  BY LimitsAssumption DEF Clean, Mark

(* A lease names hosts that end in its domain. *)
LEMMA LeaseType ==
  ASSUME NEW s \in Scopes, RoutingType(conf[s]), NEW name \in {""} \cup NamesIn(s)
  PROVE  LeaseOf(s, name) \in Lease
  <1> DEFINE own == WorkspaceHost(conf[s], s)
             service == ServiceHost(conf[s], name, s)
             hosts == IF service = <<>> THEN <<own>> ELSE <<own, service>>
             l == LeaseOf(s, name)
  <1>1. s \in Scope /\ name \in STRING \cup {""}
    <2>1. NamesIn(s) \subseteq STRING
      <3>1. ASSUME NEW v \in DOMAIN Services
            PROVE  Range(Services[v].names) \subseteq STRING
        <4>1. Services[v].names \in Seq(STRING)
          BY ScopeTypes
        <4> QED
          BY <4>1, RangeType
      <3> QED
        BY <3>1 DEF NamesIn
    <2> QED
      BY <2>1, ScopeTypes
  <1>2. own \in Host \ {<<>>} /\ IsSuffix(conf[s].domain, own)
    BY <1>1, WorkspaceHostType
  <1>3. service \in Host /\ (service # <<>> => IsSuffix(conf[s].domain, service))
    BY <1>1, ServiceHostType
  <1>4. conf[s].domain \in Host
    BY DEF RoutingType, Host
  <1> HIDE DEF own, service
  <1>5. hosts \in Seq(Host) /\ \A h \in Range(hosts) : h # <<>> /\ IsSuffix(conf[s].domain, h)
    <2>1. CASE service = <<>>
      <3>1. hosts = <<own>>
        BY <2>1
      <3>2. <<own>> \in Seq(Host) /\ Range(<<own>>) = {own}
        BY <1>2, ShortLists
      <3> HIDE DEF hosts
      <3> QED
        BY <1>2, <3>1, <3>2
    <2>2. CASE service # <<>>
      <3>1. hosts = <<own, service>>
        BY <2>2
      <3>2. <<own, service>> \in Seq(Host) /\ Range(<<own, service>>) = {own, service}
        BY <1>2, <1>3, ShortLists
      <3> HIDE DEF hosts
      <3> QED
        BY <1>2, <1>3, <2>2, <3>1, <3>2
    <2> QED
      BY <2>1, <2>2
  <1>6. l = [scope |-> s, domain |-> conf[s].domain, hosts |-> hosts]
    BY DEF LeaseOf, own, service
  <1> HIDE DEF hosts, l
  <1>7. l \in [scope : Scopes, domain : Host, hosts : Seq(Host)] /\ l.hosts = hosts
        /\ l.domain = conf[s].domain
    BY <1>4, <1>5, <1>6
  <1>8. l \in Lease
    BY <1>5, <1>7 DEF Lease
  <1> QED
    BY <1>8 DEF l

-----------------------------------------------------------------------------
(* It holds at the start, and the world and passes keep it                 *)

LEMMA InitIInv == Init => IInv
  <1> SUFFICES ASSUME Init PROVE IInv
    OBVIOUS
  <1>1. WorldInv
    <2>1. DOMAIN nets = DOMAIN Services /\ DOMAIN conf = Scopes
      BY ConfigsAssumption DEF Init
    <2>2. leases \in Seq(Lease)
      BY EmptyList DEF Init
    <2>3. changes \in 0 .. MaxChanges
      BY ChangesAssumption DEF Init
    <2> QED
      BY <2>1, <2>2, <2>3, ConfigsAssumption, FirstAssumption DEF Init, WorldInv
  <1>2. PassInv
    BY ConfigsAssumption, ScopeTypes DEF Init, PassInv
  <1>3. BuiltInv
    <2>1. built = Nothing /\ DOMAIN Nothing.dns = {} /\ Nothing.routes = <<>>
      BY DEF Init, Nothing
    <2> QED
      BY <2>1, EmptyList DEF BuiltInv, Range
  <1>4. PICK order \in Orders(RunningServices), later \in Orders(RunningServices) :
          LET first == Build(View(RunningServices), order, later)
          IN  /\ zones = first.zones /\ dns = first.dns
              /\ http = LastWins(first.routes)
    BY DEF Init
  <1> DEFINE first == Build(View(RunningServices), order, later)
  <1>5. /\ Range(first.dns) \subseteq Scopes
        /\ first.routes \in Seq(Route)
        /\ \A h \in DOMAIN first.dns : Covers(first.zones, h)
    BY <1>1, <1>2, BuildMade DEF PassInv
  <1>6. TableInv
    <2>1. zones = first.zones /\ dns = first.dns /\ http = LastWins(first.routes) /\ pc = "idle"
      BY <1>4 DEF Init
    <2> HIDE DEF first
    <2>2. Range(http) \subseteq AllTargets
      BY <1>5, <2>1, LastRoutes DEF Range
    <2> QED
      BY <1>5, <2>1, <2>2 DEF TableInv
  <1>7. CountInv
    <2>1. [h \in Asked |-> 0] \in [Asked -> 0 .. BreakAt]
      BY LimitsAssumption
    <2> QED
      BY <2>1, CleanType DEF Init, CountInv
  <1>8. ReqInv /\ SteadyInv
    BY NoReqType DEF Init, ReqInv, SteadyInv
  <1> QED
    BY <1>1, <1>2, <1>3, <1>6, <1>7, <1>8 DEF IInv

(* The world changes and the tables do not. *)
LEMMA WorldKeeps ==
  ASSUME IInv, WorldInv', UNCHANGED <<pass, tables, cache, tracker, breaker, req>>
  PROVE  IInv'
  <1> USE DEF pass, tables
  <1>1. PassInv'
    BY DEF IInv, PassInv
  <1>2. BuiltInv'
    BY DEF IInv, BuiltInv
  <1>3. TableInv'
    BY DEF IInv, TableInv
  <1>4. CountInv'
    BY DEF IInv, CountInv
  <1>5. ReqInv' /\ SteadyInv'
    BY DEF IInv, ReqInv, SteadyInv
  <1> QED
    BY <1>1, <1>2, <1>3, <1>4, <1>5 DEF IInv

LEMMA WorldIInv ==
  ASSUME IInv,
         \/ \E v \in DOMAIN Services : ContainerChanges(v)
         \/ \E ip \in Ip : HealthChanges(ip)
         \/ \E s \in Scopes : ConfigChanges(s) \/ RunChanges(s)
  PROVE  IInv'
  <1>0. UNCHANGED <<pass, tables, cache, tracker, breaker, req>> /\ changes' \in 0 .. MaxChanges
    <2>1. changes \in 0 .. MaxChanges /\ MaxChanges \in Nat
      BY ChangesAssumption DEF IInv, WorldInv
    <2>2. /\ UNCHANGED <<pass, tables, cache, tracker, breaker, req>>
          /\ changes < MaxChanges /\ changes' = changes + 1
      BY DEF ContainerChanges, HealthChanges, ConfigChanges, RunChanges, Change
    <2> QED
      BY <2>1, <2>2
  <1>1. CASE \E v \in DOMAIN Services : ContainerChanges(v)
    <2>1. PICK v \in DOMAIN Services : \E n \in Networks[v] \cup {Gone} :
            nets' = [nets EXCEPT ![v] = n] /\ UNCHANGED <<status, conf, leases>>
      BY <1>1 DEF ContainerChanges
    <2>0. PICK n \in Networks[v] \cup {Gone} :
            nets' = [nets EXCEPT ![v] = n] /\ UNCHANGED <<status, conf, leases>>
      BY <2>1
    <2>2. DOMAIN nets' = DOMAIN nets /\ \A u \in DOMAIN nets : nets'[u] = IF u = v THEN n ELSE nets[u]
      BY <2>0
    <2>3. WorldInv'
      BY <1>0, <2>0, <2>2 DEF IInv, WorldInv
    <2> QED
      BY <1>0, <2>3, WorldKeeps
  <1>2. CASE \E ip \in Ip : HealthChanges(ip)
    <2>1. PICK ip \in Ip, s \in Status :
            status' = [status EXCEPT ![ip] = s] /\ UNCHANGED <<nets, conf, leases>>
      BY <1>2 DEF HealthChanges
    <2>2. status' \in [Ip -> Status]
      BY <2>1 DEF IInv, WorldInv
    <2>3. WorldInv'
      BY <1>0, <2>1, <2>2 DEF IInv, WorldInv
    <2> QED
      BY <1>0, <2>3, WorldKeeps
  <1>3. CASE \E s \in Scopes : ConfigChanges(s)
    <2>1. PICK s \in Scopes : \E c \in Configs[s] \cup {Bad} :
            conf' = [conf EXCEPT ![s] = c] /\ UNCHANGED <<nets, status, leases>>
      BY <1>3 DEF ConfigChanges
    <2>0. PICK c \in Configs[s] \cup {Bad} :
            conf' = [conf EXCEPT ![s] = c] /\ UNCHANGED <<nets, status, leases>>
      BY <2>1
    <2>2. DOMAIN conf' = DOMAIN conf /\ \A u \in DOMAIN conf : conf'[u] = IF u = s THEN c ELSE conf[u]
      BY <2>0
    <2>3. WorldInv'
      BY <1>0, <2>0, <2>2 DEF IInv, WorldInv
    <2> QED
      BY <1>0, <2>3, WorldKeeps
  <1>4. CASE \E s \in Scopes : RunChanges(s)
    <2>1. UNCHANGED <<nets, status, conf>>
      BY <1>4 DEF RunChanges
    <2>2. leases' \in Seq(Lease)
      <3>1. PICK s \in Scopes : RunChanges(s)
        BY <1>4
      <3>2. CASE leases' = <<>>
        BY <3>2, EmptyList
      <3>3. CASE leases' # <<>>
        <4>1. PICK name \in {""} \cup NamesIn(s) : conf[s] # Bad /\ leases' = <<LeaseOf(s, name)>>
          BY <3>1, <3>3 DEF RunChanges
        <4>2. RoutingType(conf[s])
          BY <4>1, ConfigTypes DEF IInv, WorldInv
        <4>3. LeaseOf(s, name) \in Lease
          BY <4>2, LeaseType
        <4> QED
          BY <4>1, <4>3, ShortLists
      <3> QED
        BY <3>2, <3>3
    <2>3. WorldInv'
      BY <1>0, <2>1, <2>2 DEF IInv, WorldInv
    <2> QED
      BY <1>0, <2>3, WorldKeeps
  <1> QED
    BY <1>1, <1>2, <1>3, <1>4

LEMMA BeginIInv ==
  ASSUME IInv, Begin
  PROVE  IInv'
  <1>1. WorldInv' /\ BuiltInv'
    BY DEF IInv, WorldInv, BuiltInv, Begin, world
  <1>2. cfg' \in Configs[Own]
    BY ScopeTypes DEF IInv, PassInv, WorldInv, Begin
  <1>3. avoid' \subseteq AllTargets
    <2>1. \A k \in SnapshotActive : k \in Asked \X AllTargets
      BY DEF IInv, CountInv, SnapshotActive
    <2>2. avoid' = {k[2] : k \in SnapshotActive}
      BY DEF Begin
    <2> QED
      BY <2>1, <2>2
  <1>4. PassInv'
    BY <1>2, <1>3 DEF PassInv, Begin, RunningServices
  <1>5. TableInv'
    BY DEF IInv, TableInv, Begin, tables
  <1>6. CountInv'
    <2>1. tracker' \in [Asked \X AllTargets -> Mark]
      BY CleanType DEF IInv, CountInv, Begin
    <2> QED
      BY <2>1 DEF IInv, CountInv, Begin
  <1>7. ReqInv' /\ SteadyInv'
    BY DEF IInv, ReqInv, SteadyInv, Begin, tables
  <1> QED
    BY <1>1, <1>4, <1>5, <1>6, <1>7 DEF IInv

LEMMA RemovedIInv ==
  ASSUME IInv, Removed
  PROVE  IInv'
  BY DEF IInv, WorldInv, PassInv, BuiltInv, TableInv, CountInv, ReqInv, SteadyInv, Removed,
         world, tables

LEMMA InspectIInv ==
  ASSUME IInv, Inspect
  PROVE  IInv'
  <1> DEFINE S == listed \cap RunningServices
  <1>1. PICK order \in Orders(S), later \in Orders(S) : built' = Build(View(S), order, later)
    BY DEF Inspect
  <1>2. WorldInv /\ cfg \in Configs[Own] /\ S \in SUBSET RunningServices
    BY DEF IInv, PassInv
  <1> HIDE DEF S
  <1>3. BuiltInv'
    BY <1>1, <1>2, BuildMade DEF BuiltInv
  <1>4. WorldInv' /\ PassInv' /\ CountInv'
    BY DEF IInv, WorldInv, PassInv, CountInv, Inspect, world
  <1>5. TableInv' /\ ReqInv' /\ SteadyInv'
    BY DEF IInv, TableInv, ReqInv, SteadyInv, Inspect, tables
  <1> QED
    BY <1>3, <1>4, <1>5 DEF IInv

LEMMA SetZonesIInv ==
  ASSUME IInv, SetZones
  PROVE  IInv'
  <1>1. WorldInv' /\ PassInv' /\ BuiltInv' /\ CountInv'
    BY DEF IInv, WorldInv, PassInv, BuiltInv, CountInv, SetZones, world
  <1>2. TableInv'
    BY DEF IInv, BuiltInv, TableInv, SetZones
  <1>3. ASSUME NEW r \in Req
        PROVE  /\ req'[r] \in Request /\ req'[r].step = req[r].step /\ req'[r].host = req[r].host
               /\ req'[r].steady => req[r].steady /\ req[r].host \in DOMAIN built.dns
    <2>1. req[r] \in Request
      BY DEF IInv, ReqInv
    <2>2. req'[r] = [req[r] EXCEPT !.steady = req[r].steady /\ req[r].host \in DOMAIN built.dns]
      BY DEF SetZones
    <2> QED
      BY <2>1, <2>2 DEF Request
  <1>4. req' \in [Req -> Request]
    <2>1. req' = [r \in Req |-> req'[r]]
      BY DEF SetZones
    <2> QED
      BY <1>3, <2>1
  <1>5. ReqInv' /\ SteadyInv'
    BY <1>3, <1>4 DEF IInv, ReqInv, SteadyInv, SetZones
  <1> QED
    BY <1>1, <1>2, <1>5 DEF IInv

LEMMA SetRecordsIInv ==
  ASSUME IInv, SetRecords
  PROVE  IInv'
  <1>1. WorldInv' /\ PassInv' /\ BuiltInv' /\ CountInv' /\ ReqInv'
    BY DEF IInv, WorldInv, PassInv, BuiltInv, CountInv, ReqInv, SetRecords, world
  <1>2. TableInv'
    BY DEF IInv, BuiltInv, TableInv, SetRecords
  <1>3. SteadyInv'
    BY DEF IInv, SteadyInv, SetRecords
  <1> QED
    BY <1>1, <1>2, <1>3 DEF IInv

LEMMA ProbeType ==
  ASSUME IInv, Probe(built.routes)
  PROVE  cache' \in [AllTargets -> {"unknown", "healthy", "unhealthy"}]
  BY DEF IInv, CountInv, Probe

LEMMA SetRoutesIInv ==
  ASSUME IInv, SetRoutes
  PROVE  IInv'
  <1>1. WorldInv' /\ PassInv'
    BY DEF IInv, WorldInv, PassInv, SetRoutes, world
  <1>2. BuiltInv'
    <2>1. built' = Nothing /\ DOMAIN Nothing.dns = {} /\ Nothing.routes = <<>>
      BY DEF SetRoutes, Nothing
    <2> QED
      BY <2>1, EmptyList DEF BuiltInv, Range
  <1>3. Range(http') \subseteq AllTargets
    <2> DEFINE next == LastWins(built.routes)
    <2>1. \A h \in DOMAIN next : next[h] \in AllTargets
      BY LastRoutes DEF IInv, BuiltInv
    <2>2. \A h \in DOMAIN http : http[h] \in AllTargets
      BY DEF IInv, TableInv, Range
    <2>3. http' = Preserved(next)
      BY DEF SetRoutes
    <2> HIDE DEF next
    <2>4. \A h \in Doubtful(next) : h \in DOMAIN http
      BY DEF Doubtful
    <2>5. \A h \in DOMAIN Preserved(next) : Preserved(next)[h] \in AllTargets
      BY <2>1, <2>2, <2>4 DEF Preserved
    <2> QED
      BY <2>3, <2>5 DEF Range
  <1>4. TableInv'
    BY <1>3 DEF IInv, TableInv, SetRoutes
  <1>5. CountInv'
    <2>1. breaker' \in [Asked -> 0 .. BreakAt]
      BY LimitsAssumption DEF SetRoutes
    <2> QED
      BY <2>1, ProbeType DEF IInv, CountInv, SetRoutes
  <1>6. ReqInv' /\ SteadyInv'
    BY DEF IInv, ReqInv, SteadyInv, SetRoutes
  <1> QED
    BY <1>1, <1>2, <1>4, <1>5, <1>6 DEF IInv

LEMMA RoutesRefusedIInv ==
  ASSUME IInv, RoutesRefused
  PROVE  IInv'
  <1>1. WorldInv' /\ PassInv'
    BY DEF IInv, WorldInv, PassInv, RoutesRefused, world
  <1>2. BuiltInv'
    <2>1. built' = Nothing /\ DOMAIN Nothing.dns = {} /\ Nothing.routes = <<>>
      BY DEF RoutesRefused, Nothing
    <2> QED
      BY <2>1, EmptyList DEF BuiltInv, Range
  <1>3. TableInv' /\ ReqInv' /\ SteadyInv'
    BY DEF IInv, TableInv, ReqInv, SteadyInv, RoutesRefused, tables
  <1>4. CountInv'
    BY ProbeType DEF IInv, CountInv, RoutesRefused
  <1> QED
    BY <1>1, <1>2, <1>3, <1>4 DEF IInv

-----------------------------------------------------------------------------
(* Clients and clocks keep it                                              *)

(* A request fit to be a client's. *)
Sound(q) ==
  /\ q \in Request
  /\ q.step # "idle" => q.host \in Asked
  /\ q.steady => /\ q.step \in {"zone", "lookup"} /\ q.host \in DOMAIN dns
                 /\ pc = "dns" => q.host \in DOMAIN built.dns

LEMMA NoReqSound == Sound(NoReq)
  BY NoReqType DEF Sound

LEMMA RequestSound ==
  ASSUME IInv, NEW r \in Req
  PROVE  Sound(req[r])
  BY DEF IInv, ReqInv, SteadyInv, Sound

LEMMA StepSound ==
  ASSUME NEW q \in Request, q.host \in Asked, NEW step \in Steps,
         ~q.steady
  PROVE  Sound([q EXCEPT !.step = step])
  <1>1. /\ [q EXCEPT !.step = step] \in Request /\ [q EXCEPT !.step = step].host = q.host
        /\ [q EXCEPT !.step = step].steady = q.steady
    BY DEF Request
  <1> QED
    BY <1>1 DEF Sound

LEMMA ClientKeeps ==
  ASSUME IInv, UNCHANGED <<world, pass, tables>>
  PROVE  WorldInv' /\ PassInv' /\ BuiltInv' /\ TableInv'
  <1> USE DEF world, pass, tables
  <1>1. WorldInv'
    BY DEF IInv, WorldInv
  <1>2. PassInv' /\ BuiltInv'
    BY DEF IInv, PassInv, BuiltInv
  <1>3. TableInv'
    BY DEF IInv, TableInv
  <1> QED
    BY <1>1, <1>2, <1>3

(* One client's request becomes q. *)
LEMMA RequestKeeps ==
  ASSUME IInv, UNCHANGED <<world, pass, tables>>, CountInv', NEW r \in Req, NEW q, Sound(q),
         req' = [req EXCEPT ![r] = q]
  PROVE  IInv'
  <1>1. q \in Request
    BY DEF Sound
  <1>2. req' \in [Req -> Request] /\ \A c \in Req : req'[c] = IF c = r THEN q ELSE req[c]
    BY <1>1 DEF IInv, ReqInv
  <1>3. UNCHANGED <<dns, pc, built>>
    BY DEF pass, tables
  <1>4. ASSUME NEW c \in Req
        PROVE  /\ req'[c].step # "idle" => req'[c].host \in Asked
               /\ req'[c].steady => /\ req'[c].step \in {"zone", "lookup"}
                                    /\ req'[c].host \in DOMAIN dns
                                    /\ pc = "dns" => req'[c].host \in DOMAIN built.dns
    <2>1. Sound(req'[c])
      BY <1>2, RequestSound
    <2> QED
      BY <2>1 DEF Sound
  <1>5. ReqInv' /\ SteadyInv'
    BY <1>2, <1>3, <1>4 DEF ReqInv, SteadyInv
  <1> QED
    BY <1>5, ClientKeeps DEF IInv

LEMMA CountKeeps ==
  ASSUME IInv, UNCHANGED <<world, pass, tables, req>>, CountInv'
  PROVE  IInv'
  <1>1. ReqInv' /\ SteadyInv'
    BY DEF IInv, ReqInv, SteadyInv, pass, tables
  <1> QED
    BY <1>1, ClientKeeps DEF IInv

LEMMA AskIInv ==
  ASSUME IInv, NEW r \in Req, NEW h \in Asked, Ask(r, h)
  PROVE  IInv'
  <1> DEFINE steady == h \in DOMAIN dns /\ (pc = "dns" => h \in DOMAIN built.dns)
             q == [step |-> "zone", host |-> h, target |-> Local, steady |-> steady]
  <1>1. req' = [req EXCEPT ![r] = q] /\ UNCHANGED <<world, pass, tables, cache, tracker, breaker>>
    BY DEF Ask
  <1>2. Sound(q)
    <2>1. steady \in BOOLEAN
      OBVIOUS
    <2>2. q \in Request
      <3> HIDE DEF steady
      <3> QED
        BY <2>1 DEF Request, Steps, AllTargets
    <2>3. q.step = "zone" /\ q.host = h /\ (q.steady <=> steady)
      OBVIOUS
    <2> HIDE DEF q
    <2> QED
      BY <2>2, <2>3 DEF Sound
  <1>3. CountInv'
    BY <1>1 DEF IInv, CountInv
  <1> HIDE DEF q
  <1> QED
    BY <1>1, <1>2, <1>3, RequestKeeps

(* What a steady query asks for is covered by a zone. *)
LEMMA SteadyAllowed ==
  ASSUME IInv, NEW r \in Req, req[r].steady
  PROVE  \E z \in zones : IsSuffix(z, req[r].host)
  <1>1. req[r].step \in {"zone", "lookup"} /\ req[r].host \in Asked /\ req[r].host \in DOMAIN dns
        /\ (pc = "dns" => req[r].host \in DOMAIN built.dns)
    BY DEF IInv, ReqInv, SteadyInv
  <1>2. req[r].host # <<>>
    BY <1>1, AskedAssumption
  <1> QED
    BY <1>1, <1>2 DEF IInv, TableInv, Covers

LEMMA AllowsIInv ==
  ASSUME IInv, NEW r \in Req, Allows(r)
  PROVE  IInv'
  <1> DEFINE allowed == \E z \in zones : IsSuffix(z, req[r].host)
             step == IF allowed THEN "lookup" ELSE "refused"
             q == [req[r] EXCEPT !.step = step]
  <1>0. req[r] \in Request /\ req \in [Req -> Request]
    BY DEF IInv, ReqInv
  <1>1. req' = [req EXCEPT ![r] = q] /\ UNCHANGED <<world, pass, tables, cache, tracker, breaker>>
    BY DEF Allows
  <1>2. Sound(q)
    <2>1. step \in Steps /\ (req[r].steady => step = "lookup")
      BY SteadyAllowed DEF Steps
    <2> HIDE DEF step
    <2>2. q \in Request /\ q.step = step /\ q.host = req[r].host /\ (q.steady <=> req[r].steady)
      BY <1>0, <2>1 DEF Request
    <2>3. req[r].host \in Asked
      BY DEF IInv, ReqInv, Allows
    <2> HIDE DEF q
    <2> QED
      BY <2>1, <2>2, <2>3, RequestSound DEF Sound
  <1>3. CountInv'
    BY <1>1 DEF IInv, CountInv
  <1> HIDE DEF q
  <1> QED
    BY <1>1, <1>2, <1>3, RequestKeeps

LEMMA LookupIInv ==
  ASSUME IInv, NEW r \in Req, Lookup(r)
  PROVE  IInv'
  <1> DEFINE q == IF req[r].host \in DOMAIN dns THEN NoReq ELSE [req[r] EXCEPT !.step = "loopback"]
  <1>0. req[r] \in Request /\ req[r].host \in Asked
    BY DEF IInv, ReqInv, Lookup
  <1>1. req' = [req EXCEPT ![r] = q] /\ UNCHANGED <<world, pass, tables, cache, tracker, breaker>>
    BY DEF Lookup
  <1>2. Sound(q)
    <2>1. CASE req[r].host \in DOMAIN dns
      BY <2>1, NoReqSound
    <2>2. CASE req[r].host \notin DOMAIN dns
      <3>1. ~req[r].steady
        BY <2>2 DEF IInv, SteadyInv
      <3>2. "loopback" \in Steps
        BY DEF Steps
      <3>3. Sound([req[r] EXCEPT !.step = "loopback"])
        BY <1>0, <3>1, <3>2, StepSound
      <3> QED
        BY <2>2, <3>3
    <2> QED
      BY <2>1, <2>2
  <1>3. CountInv'
    BY <1>1 DEF IInv, CountInv
  <1> HIDE DEF q
  <1> QED
    BY <1>1, <1>2, <1>3, RequestKeeps

(* A request that is no query is never steady. *)
LEMMA SentNotSteady ==
  ASSUME IInv, NEW r \in Req, req[r].step \in {"admitted", "sent", "failed"}
  PROVE  ~req[r].steady /\ req[r].host \in Asked /\ req[r] \in Request
         /\ req[r].target \in AllTargets
  BY DEF IInv, ReqInv, Request

LEMMA AdmitIInv ==
  ASSUME IInv, NEW r \in Req, NEW h \in Asked, Admit(r, h)
  PROVE  IInv'
  <1> DEFINE q == [NoReq EXCEPT !.step = "admitted", !.host = h]
  <1>1. req' = [req EXCEPT ![r] = q] /\ UNCHANGED <<world, pass, tables, cache, tracker>>
    BY DEF Admit
  <1>2. Sound(q)
    <2>1. NoReq \in Request /\ ~NoReq.steady
      BY NoReqType
    <2>2. q \in Request /\ q.host = h /\ ~q.steady
      BY <2>1 DEF Request, Steps
    <2> HIDE DEF q
    <2> QED
      BY <2>2 DEF Sound
  <1>3. CountInv'
    <2>1. breaker' \in [Asked -> 0 .. BreakAt]
      BY LimitsAssumption DEF IInv, CountInv, Admit
    <2> QED
      BY <1>1, <2>1 DEF IInv, CountInv
  <1> HIDE DEF q
  <1> QED
    BY <1>1, <1>2, <1>3, RequestKeeps

LEMMA ForwardIInv ==
  ASSUME IInv, NEW r \in Req, Forward(r)
  PROVE  IInv'
  <1> DEFINE h == req[r].host
             q == IF h \in DOMAIN http THEN [req[r] EXCEPT !.step = "sent", !.target = http[h]]
                  ELSE NoReq
  <1>0. ~req[r].steady /\ h \in Asked /\ req[r] \in Request
    BY SentNotSteady DEF Forward
  <1>1. req' = [req EXCEPT ![r] = q] /\ UNCHANGED <<world, pass, tables, cache, tracker, breaker>>
    BY DEF Forward
  <1>2. Sound(q)
    <2>1. CASE h \in DOMAIN http
      <3> DEFINE p == [req[r] EXCEPT !.step = "sent", !.target = http[h]]
      <3>1. http[h] \in AllTargets
        BY <2>1 DEF IInv, TableInv, Range
      <3>2. p \in Request /\ p.host = h /\ p.steady = req[r].steady
        BY <1>0, <3>1 DEF Request, Steps
      <3>3. q = p
        BY <2>1
      <3> HIDE DEF p, q, h
      <3> QED
        BY <1>0, <3>2, <3>3 DEF Sound
    <2>2. CASE h \notin DOMAIN http
      BY <2>2, NoReqSound
    <2> QED
      BY <2>1, <2>2
  <1>3. CountInv'
    BY <1>1 DEF IInv, CountInv
  <1> HIDE DEF q, h
  <1> QED
    BY <1>1, <1>2, <1>3, RequestKeeps

LEMMA SucceedIInv ==
  ASSUME IInv, NEW r \in Req, Succeed(r)
  PROVE  IInv'
  <1>1. req' = [req EXCEPT ![r] = NoReq] /\ UNCHANGED <<world, pass, tables, cache, tracker>>
    BY DEF Succeed
  <1>2. CountInv'
    <2> DEFINE h == req[r].host
               n == 0
    <2>2. breaker' = [breaker EXCEPT ![h] = n]
      BY DEF Succeed
    <2>3. n \in 0 .. BreakAt
      <3>1. breaker[h] \in 0 .. BreakAt /\ BreakAt \in Nat
        BY SentNotSteady, LimitsAssumption DEF IInv, CountInv, Succeed
      <3> HIDE DEF h
      <3> QED
        BY <3>1
    <2> HIDE DEF h, n
    <2>1. breaker' \in [Asked -> 0 .. BreakAt]
      BY <2>2, <2>3 DEF IInv, CountInv
    <2> QED
      BY <1>1, <2>1 DEF IInv, CountInv
  <1> QED
    BY <1>1, <1>2, NoReqSound, RequestKeeps

LEMMA FailIInv ==
  ASSUME IInv, NEW r \in Req, Fail(r)
  PROVE  IInv'
  <1>1. UNCHANGED <<world, pass, tables, cache, tracker>>
    BY DEF Fail
  <1>2. CountInv'
    <2> DEFINE h == req[r].host
               n == IF breaker[h] < BreakAt THEN breaker[h] + 1 ELSE breaker[h]
    <2>2. breaker' = [breaker EXCEPT ![h] = n]
      BY DEF Fail
    <2>3. n \in 0 .. BreakAt
      <3>1. breaker[h] \in 0 .. BreakAt /\ BreakAt \in Nat
        BY SentNotSteady, LimitsAssumption DEF IInv, CountInv, Fail
      <3> HIDE DEF h
      <3> QED
        BY <3>1
    <2> HIDE DEF h, n
    <2>1. breaker' \in [Asked -> 0 .. BreakAt]
      BY <2>2, <2>3 DEF IInv, CountInv
    <2> QED
      BY <1>1, <2>1 DEF IInv, CountInv
  <1>3. CASE req' = [req EXCEPT ![r] = NoReq]
    BY <1>1, <1>2, <1>3, NoReqSound, RequestKeeps
  <1>4. CASE req' = [req EXCEPT ![r].step = "failed"]
    <2> DEFINE q == [req[r] EXCEPT !.step = "failed"]
    <2>1. req' = [req EXCEPT ![r] = q]
      BY <1>4
    <2>2. Sound(q)
      <3>1. ~req[r].steady /\ req[r].host \in Asked /\ req[r] \in Request
        BY SentNotSteady DEF Fail
      <3>2. "failed" \in Steps
        BY DEF Steps
      <3> QED
        BY <3>1, <3>2, StepSound
    <2> HIDE DEF q
    <2> QED
      BY <1>1, <1>2, <2>1, <2>2, RequestKeeps
  <1> QED
    BY <1>3, <1>4 DEF Fail

LEMMA RecordedType ==
  ASSUME NEW k \in Mark
  PROVE  Recorded(k) \in Mark
  <1>1. k.errors \in 0 .. QuarantineAt - 1 /\ QuarantineAt \in Nat \ {0}
    BY LimitsAssumption DEF Mark
  <1>2. CASE k.errors + 1 < QuarantineAt
    <2>1. k.errors + 1 \in 0 .. QuarantineAt - 1
      BY <1>1, <1>2
    <2> QED
      BY <1>2, <2>1 DEF Recorded, Mark
  <1>3. CASE ~(k.errors + 1 < QuarantineAt)
    BY <1>1, <1>3 DEF Recorded, Mark
  <1> QED
    BY <1>2, <1>3

LEMMA ReportIInv ==
  ASSUME IInv, NEW r \in Req, Report(r)
  PROVE  IInv'
  <1>1. req' = [req EXCEPT ![r] = NoReq] /\ UNCHANGED <<world, pass, tables, cache, breaker>>
    BY DEF Report
  <1>2. CountInv'
    <2> DEFINE k == <<req[r].host, req[r].target>>
    <2>1. k \in Asked \X AllTargets
      BY SentNotSteady DEF Report
    <2>2. tracker' = [tracker EXCEPT ![k] = Recorded(tracker[k])]
      BY DEF Report
    <2> HIDE DEF k
    <2>3. tracker' \in [Asked \X AllTargets -> Mark]
      BY <2>1, <2>2, RecordedType DEF IInv, CountInv
    <2> QED
      BY <1>1, <2>3 DEF IInv, CountInv
  <1> QED
    BY <1>1, <1>2, NoReqSound, RequestKeeps

LEMMA ClockIInv ==
  ASSUME IInv, \/ \E t \in AllTargets : ProbeExpires(t)
               \/ \E k \in Asked \X AllTargets : WindowEnds(k) \/ QuarantineEnds(k)
  PROVE  IInv'
  <1>1. CASE \E t \in AllTargets : ProbeExpires(t)
    <2>1. CountInv'
      BY <1>1 DEF IInv, CountInv, ProbeExpires
    <2> QED
      BY <1>1, <2>1, CountKeeps DEF ProbeExpires
  <1>2. CASE \E k \in Asked \X AllTargets : WindowEnds(k) \/ QuarantineEnds(k)
    <2>1. PICK k \in Asked \X AllTargets : WindowEnds(k) \/ QuarantineEnds(k)
      BY <1>2
    <2>2. PICK m : tracker' = [tracker EXCEPT ![k] = m]
                   /\ (m = [tracker[k] EXCEPT !.errors = 0]
                        \/ m = [tracker[k] EXCEPT !.quarantined = FALSE])
      BY <2>1 DEF WindowEnds, QuarantineEnds
    <2>3. m \in Mark
      <3>1. tracker[k] \in Mark /\ 0 \in 0 .. QuarantineAt - 1
        BY <2>1, LimitsAssumption DEF IInv, CountInv
      <3> QED
        BY <2>2, <3>1 DEF Mark
    <2>4. UNCHANGED <<world, pass, tables, cache, breaker, req>>
      BY <2>1 DEF WindowEnds, QuarantineEnds
    <2>5. CountInv'
      BY <2>2, <2>3, <2>4 DEF IInv, CountInv
    <2> QED
      BY <2>4, <2>5, CountKeeps
  <1> QED
    BY <1>1, <1>2

LEMMA NextIInv == IInv /\ [Next]_vars => IInv'
  <1> SUFFICES ASSUME IInv, [Next]_vars PROVE IInv'
    OBVIOUS
  <1>1. CASE \/ \E v \in DOMAIN Services : ContainerChanges(v)
             \/ \E ip \in Ip : HealthChanges(ip)
             \/ \E s \in Scopes : ConfigChanges(s) \/ RunChanges(s)
    BY <1>1, WorldIInv
  <1>2. CASE PassStep
    BY <1>2, BeginIInv, RemovedIInv, InspectIInv, SetZonesIInv, SetRecordsIInv, SetRoutesIInv,
       RoutesRefusedIInv DEF PassStep
  <1>3. CASE \/ \E t \in AllTargets : ProbeExpires(t)
             \/ \E k \in Asked \X AllTargets : WindowEnds(k) \/ QuarantineEnds(k)
    BY <1>3, ClockIInv
  <1>4. CASE \E r \in Req, h \in Asked : Ask(r, h) \/ Admit(r, h)
    BY <1>4, AskIInv, AdmitIInv
  <1>5. CASE \E r \in Req : Allows(r) \/ Lookup(r) \/ Forward(r) \/ Succeed(r) \/ Fail(r) \/ Report(r)
    BY <1>5, AllowsIInv, LookupIInv, ForwardIInv, SucceedIInv, FailIInv, ReportIInv
  <1>6. CASE UNCHANGED vars
    <2>1. CountInv'
      BY <1>6 DEF IInv, CountInv, vars
    <2> QED
      BY <1>6, <2>1, CountKeeps DEF vars
  <1> QED
    BY <1>1, <1>2, <1>3, <1>4, <1>5, <1>6 DEF Next

(* The inductive invariant holds in every state the daemon reaches. *)
THEOREM Invariance == Spec => []IInv
  BY InitIInv, NextIInv, PTL DEF Spec

(* Tables, caches, trackers and requests keep their types; a table leads to
   workspaces and addresses that exist. *)
THEOREM TypeCorrect == Spec => []TypeOK
  <1>1. IInv => TypeOK
    BY DEF IInv, WorldInv, PassInv, TableInv, CountInv, ReqInv, TypeOK, Request, Mark, Steps
  <1> QED
    BY <1>1, Invariance, PTL

(* handleDNS, which reads zones and records under separate locks, never refuses a
   name that has a record all along and will have one in what a pass publishes. *)
THEOREM SteadyNamesAnswered == Spec => []SteadyAnswered
  <1>1. IInv => SteadyAnswered
    BY DEF IInv, ReqInv, SteadyAnswered
  <1> QED
    BY <1>1, Invariance, PTL

-----------------------------------------------------------------------------
(* What a pass builds                                                      *)

(* Of the entries for a name, the first of the strongest decides. *)
LEMMA MergeDecides ==
  ASSUME NEW entries \in Seq(Record), NoComeback(entries), NEW h \in HostsOf(entries)
  PROVE  LET rank(i)   == Priority(entries[i].source)
             rivals    == {i \in DOMAIN entries : entries[i].host = h}
             strongest == {i \in rivals : \A j \in rivals : rank(j) <= rank(i)}
         IN  Merge(entries)[h] = entries[Min(strongest)].ip
  <1> DEFINE rank(i)   == Priority(entries[i].source)
             rivals    == {i \in DOMAIN entries : entries[i].host = h}
             strongest == {i \in rivals : \A j \in rivals : rank(j) <= rank(i)}
  <1>1. DOMAIN entries = 1 .. Len(entries) /\ Len(entries) \in Nat
    OBVIOUS
  <1>2. PICK s \in DOMAIN entries :
          FirstStrongest(entries, h, Len(entries), s) /\ Merge(entries)[h] = entries[s].ip
    BY MergeHeld
  <1>3. \A i \in DOMAIN entries : rank(i) \in Nat
    BY RankType DEF Rank
  <1>4. s \in strongest
    BY <1>1, <1>2 DEF FirstStrongest, Rank
  <1>5. ASSUME NEW i \in strongest
        PROVE  s <= i
    <2>1. i \in rivals /\ s \in rivals /\ rank(s) <= rank(i) /\ i \in DOMAIN entries
      BY <1>4
    <2>2. i < s => rank(i) < rank(s)
      BY <1>1, <1>2, <2>1 DEF FirstStrongest, Rank
    <2>3. rank(i) \in Nat /\ rank(s) \in Nat /\ i \in Nat /\ s \in Nat
      BY <1>1, <1>3, <2>1
    <2> HIDE DEF rank
    <2> QED
      BY <2>1, <2>2, <2>3
  <1>6. strongest \in SUBSET Nat
    BY <1>1
  <1> HIDE DEF strongest
  <1>7. Min(strongest) \in strongest /\ Min(strongest) <= s
    BY <1>4, <1>6, MinIsLeast
  <1>8. s <= Min(strongest) /\ s \in Nat /\ Min(strongest) \in Nat
    BY <1>4, <1>5, <1>6, <1>7
  <1>9. Min(strongest) = s
    BY <1>7, <1>8
  <1> QED
    BY <1>2, <1>9 DEF strongest

(* routes.Merge over the records of any build gives a name the address of the
   first of its strongest records, for every order of the workspaces. *)
THEOREM StrongestDecides == Spec => []MergePrecedence
  <1>1. IInv => MergePrecedence
    <2> SUFFICES ASSUME IInv, NEW order \in Orders(listed \cap RunningServices),
                        NEW h \in HostsOf(Records(View(listed \cap RunningServices), order))
                 PROVE  LET entries   == Records(View(listed \cap RunningServices), order)
                            rank(i)   == Priority(entries[i].source)
                            rivals    == {i \in DOMAIN entries : entries[i].host = h}
                            strongest == {i \in rivals : \A j \in rivals : rank(j) <= rank(i)}
                        IN  Merge(entries)[h] = entries[Min(strongest)].ip
      BY DEF MergePrecedence
    <2> DEFINE S == listed \cap RunningServices
               entries == Records(View(S), order)
    <2>1. ViewType(View(S)) /\ OrderOf(View(S), order)
      BY ViewTyped, OrdersTyped DEF IInv, PassInv
    <2>2. entries \in Seq(Record) /\ NoComeback(entries)
      BY <2>1, RecordsType
    <2> HIDE DEF entries
    <2> QED
      BY <2>2, MergeDecides DEF entries
  <1> QED
    BY <1>1, Invariance, PTL

(* What any build makes of any containers keeps workspaces apart. *)
LEMMA KeptByBuild ==
  ASSUME WorldInv, cfg \in Configs[Own], NEW S \in SUBSET RunningServices,
         NEW order \in Orders(S), NEW later \in Orders(S)
  PROVE  LET made    == Build(View(S), order, later)
             routes  == LastWins(made.routes)
             Serves(s, ip) == \E v \in S : Services[v].scope = s /\ ip \in Range(nets[v])
             Rivals(h) == {e.ip : e \in {x \in Range(Records(View(S), order)) : x.host = h}}
             Leased  == UNION {Range(l.hosts) : l \in Range(leases)}
         IN  /\ \A h \in DOMAIN routes \ Leased :
                  Cardinality(Rivals(h)) = 1 => Serves(made.dns[h], routes[h])
             /\ \A k \in DOMAIN made.tcp : Serves(k[1], made.tcp[k])
  <1> DEFINE w == View(S)
             made == Build(w, order, later)
             list == Records(w, order)
             routes == LastWins(made.routes)
             Serves(s, ip) == \E v \in S : Services[v].scope = s /\ ip \in Range(nets[v])
             Rivals(h) == {e.ip : e \in {x \in Range(list) : x.host = h}}
             Leased == UNION {Range(l.hosts) : l \in Range(leases)}
  <1>1. /\ ViewType(w) /\ OrderOf(w, order) /\ OrderOf(w, later)
        /\ w.leases = leases
        /\ Range(w.running) = {[v |-> Services[v], nets |-> nets[v]] : v \in S}
    BY ViewTyped, OrdersTyped
  <1> HIDE DEF w
  <1>2. ASSUME NEW c \in Range(w.running), NEW ip \in Range(c.nets)
        PROVE  Serves(c.v.scope, ip)
    <2>1. PICK v \in S : c = [v |-> Services[v], nets |-> nets[v]]
      BY <1>1
    <2> QED
      BY <2>1
  <1>3. list \in Seq(Record)
    BY <1>1, RecordsType
  <1>4. made.dns = Merge(list)
    BY DEF Build
  <1>5. made.routes \in Seq(GoodRoutes(w, order))
    BY <1>1, BuildRoutes
  <1>6. /\ TCPRoutes(w) \in Seq(GoodListeners(w))
        /\ made.tcp = LastWins(TCPRoutes(w))
    BY <1>1, BuildListeners
  <1>7. \A h \in DOMAIN made.dns : \E e \in Range(list) : e.host = h /\ made.dns[h] = e.ip
    BY <1>1, BuildRecords
  <1> HIDE DEF made, list, Serves
  <1>8. ASSUME NEW h \in DOMAIN routes, h \notin Leased, Cardinality(Rivals(h)) = 1
        PROVE  Serves(made.dns[h], routes[h])
    <2>1. PICK e \in GoodRoutes(w, order) : e.host = h /\ routes[h] = e.target
      BY <1>5, LastWinsHeld
    <2>2. RouteFor(w, order, h, routes[h])
      BY <1>1, <1>8, <2>1 DEF GoodRoutes
    <2>3. PICK c \in Range(w.running) :
            /\ routes[h] \in Range(c.nets)
            /\ \E r \in Range(list) : r.host = h /\ r.ip = c.v.scope
      BY <2>2 DEF RouteFor, list
    <2>4. c.v.scope \in Rivals(h)
      BY <2>3
    <2>5. h \in DOMAIN made.dns
      <3>1. PICK r \in Range(list) : r.host = h
        BY <2>3
      <3>2. h \in HostsOf(list)
        BY <3>1 DEF HostsOf, Range
      <3> QED
        BY <1>4, <3>2 DEF Merge
    <2>6. made.dns[h] \in Rivals(h)
      BY <1>7, <2>5
    <2>7. IsFiniteSet(Rivals(h))
      <3> DEFINE X == {x \in Range(list) : x.host = h}
                 T == {e1.ip : e1 \in X}
                 f == [x \in X |-> x.ip]
      <3>1. X \in SUBSET Range(list) /\ IsFiniteSet(Range(list))
        BY <1>3, FiniteRange
      <3> HIDE DEF X
      <3>2. IsFiniteSet(X)
        BY <3>1, FS_Subset
      <3>3. f \in Surjection(X, T)
        BY DEF Surjection
      <3>4. IsFiniteSet(T)
        <4> HIDE DEF f, T
        <4> QED
          BY <3>2, <3>3, FS_Surjection
      <3> QED
        BY <3>4 DEF X
    <2> HIDE DEF Rivals
    <2>8. PICK x : Rivals(h) = {x}
      BY <1>8, <2>7, FS_Singleton
    <2>9. made.dns[h] = c.v.scope
      BY <2>4, <2>6, <2>8
    <2> QED
      BY <1>2, <2>3, <2>9
  <1>9. ASSUME NEW k \in DOMAIN made.tcp
        PROVE  Serves(k[1], made.tcp[k])
    <2>1. PICK e \in GoodListeners(w) : e.host = k /\ made.tcp[k] = e.target
      BY <1>6, LastWinsHeld
    <2>2. PICK c \in Range(w.running) : e.host[1] = c.v.scope /\ e.target \in Range(c.nets)
      BY <2>1 DEF GoodListeners
    <2> QED
      BY <1>2, <2>1, <2>2
  <1> QED
    BY <1>8, <1>9 DEF made, list, w, Serves

(* A name that one workspace claims resolves to the workspace whose container
   answers for it, in every build a pass can make. *)
THEOREM WorkspacesKeptApart == Spec => []WorkspacesKept
  <1>1. IInv => WorkspacesKept
    <2> SUFFICES ASSUME IInv
                 PROVE  WorkspacesKept
      OBVIOUS
    <2>1. WorldInv /\ cfg \in Configs[Own] /\ listed \cap RunningServices \in SUBSET RunningServices
      BY DEF IInv, PassInv
    <2> QED
      BY <2>1, KeptByBuild DEF WorkspacesKept
  <1> QED
    BY <1>1, Invariance, PTL

=============================================================================
