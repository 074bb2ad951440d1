---------------------------- MODULE PrintfProofs ----------------------------
(***************************************************************************)
(* What vfnprintf() prints, for every format, word and width.              *)
(*                                                                         *)
(* The model's recursive functions are reasoned about by induction in the  *)
(* form that a set of numbers holds all of them (Induction), and from      *)
(* their own equations, which are shown to have a solution first.          *)
(***************************************************************************)
EXTENDS Printf, WellFoundedInduction, TLAPS

-----------------------------------------------------------------------------
(* Induction.                                                              *)

Smaller == {p \in Nat \X Nat : p[1] < p[2]}
LEMMA SmallerIsWellFounded == IsWellFoundedOn(Smaller, Nat)
BY NatLessThanWellFounded DEF OpToRel, Smaller

LEMMA CompleteInduction ==
    ASSUME NEW S, \A n \in Nat : (\A k \in 0 .. n - 1 : k \in S) => n \in S
    PROVE  \A n \in Nat : n \in S
<1> DEFINE T == {n \in Nat : n \notin S}
<1>1. SUFFICES ASSUME T # {} PROVE FALSE
  OBVIOUS
<1>2. PICK x \in T : \A y \in T : <<y, x>> \notin Smaller
  <2>1. T \subseteq Nat
    OBVIOUS
  <2> HIDE DEF T
  <2>2. QED
    BY <1>1, <2>1, SmallerIsWellFounded, WFMin
<1>3. ASSUME NEW k \in 0 .. x - 1 PROVE k \in S
  <2>1. <<k, x>> \in Smaller
    BY <1>3 DEF Smaller
  <2>2. QED
    BY <1>2, <2>1
<1>4. QED
  BY <1>3

LEMMA Induction ==
    ASSUME NEW S, 0 \in S, \A n \in Nat : n \in S => n + 1 \in S
    PROVE  \A n \in Nat : n \in S
<1>1. ASSUME NEW n \in Nat, \A k \in 0 .. n - 1 : k \in S PROVE n \in S
  <2>1. CASE n = 0
    BY <2>1
  <2>2. CASE n # 0
    <3>1. n - 1 \in Nat /\ n - 1 \in 0 .. n - 1 /\ (n - 1) + 1 = n
      BY <2>2
    <3>2. QED
      BY <1>1, <3>1
  <2>3. QED
    BY <2>1, <2>2
<1>2. QED
  BY <1>1, CompleteInduction

-----------------------------------------------------------------------------
(* A recursive function's equation has a solution: there is one on every   *)
(* 0 .. n, any two agree where both are defined, and the values they       *)
(* agree on make the function.                                             *)

IsStep(A, a, G) == a \in A /\ G \in [Nat \X A -> A]
Solves(A, a, G, g, n) ==
    g \in [0 .. n -> A] /\ g[0] = a /\ \A k \in 0 .. n - 1 : g[k + 1] = G[<<k, g[k]>>]
Recurs(A, a, G, f) ==
    f \in [Nat -> A] /\ f[0] = a /\ \A k \in Nat : f[k + 1] = G[<<k, f[k]>>]

LEMMA SolutionsAgree ==
    ASSUME NEW A, NEW a, NEW G, NEW n \in Nat, NEW m \in Nat, NEW g, NEW h,
           Solves(A, a, G, g, n), Solves(A, a, G, h, m)
    PROVE  \A k \in Nat : k <= n /\ k <= m => g[k] = h[k]
<1> DEFINE S == {k \in Nat : k <= n /\ k <= m => g[k] = h[k]}
<1>1. 0 \in S
  BY DEF Solves
<1>2. ASSUME NEW k \in Nat, k \in S PROVE k + 1 \in S
  <2>1. ASSUME k + 1 <= n, k + 1 <= m PROVE g[k + 1] = h[k + 1]
    <3>1. k \in 0 .. n - 1 /\ k \in 0 .. m - 1 /\ g[k] = h[k]
      BY <1>2, <2>1
    <3>2. g[k + 1] = G[<<k, g[k]>>] /\ h[k + 1] = G[<<k, h[k]>>]
      BY <3>1 DEF Solves
    <3>3. QED
      BY <3>1, <3>2
  <2>2. QED
    BY <2>1
<1> HIDE DEF S
<1>3. \A k \in Nat : k \in S
  BY <1>1, <1>2, Induction
<1>4. QED
  BY <1>3 DEF S

LEMMA SolutionUpto ==
    ASSUME NEW A, NEW a, NEW G, IsStep(A, a, G)
    PROVE  \A n \in Nat : \E g : Solves(A, a, G, g, n)
<1> DEFINE S == {n \in Nat : \E g : Solves(A, a, G, g, n)}
<1>0. a \in A /\ G \in [Nat \X A -> A]
  BY DEF IsStep
<1>1. 0 \in S
  <2> DEFINE g == [k \in 0 .. 0 |-> a]
  <2>1. Solves(A, a, G, g, 0)
    BY <1>0 DEF Solves
  <2> HIDE DEF g
  <2>2. QED
    BY <2>1
<1>2. ASSUME NEW n \in Nat, n \in S PROVE n + 1 \in S
  <2>0. PICK g : Solves(A, a, G, g, n)
    BY <1>2
  <2>1. g \in [0 .. n -> A] /\ g[0] = a /\ \A k \in 0 .. n - 1 : g[k + 1] = G[<<k, g[k]>>]
    BY <2>0 DEF Solves
  <2> DEFINE h == [k \in 0 .. n + 1 |-> IF k <= n THEN g[k] ELSE G[<<n, g[n]>>]]
  <2>2. h \in [0 .. n + 1 -> A]
    BY <1>0, <2>1
  <2>3. h[0] = a
    BY <2>1
  <2>4. ASSUME NEW k \in 0 .. n + 1 - 1 PROVE h[k + 1] = G[<<k, h[k]>>]
    <3>1. CASE k = n
      <4>1. h[n + 1] = G[<<n, g[n]>>] /\ h[n] = g[n]
        OBVIOUS
      <4>2. QED
        BY <3>1, <4>1
    <3>2. CASE k # n
      <4>1. k \in 0 .. n - 1 /\ k + 1 \in 0 .. n
        BY <3>2
      <4>2. h[k + 1] = g[k + 1] /\ h[k] = g[k]
        BY <4>1
      <4>3. g[k + 1] = G[<<k, g[k]>>]
        BY <2>1, <4>1
      <4>4. QED
        BY <4>2, <4>3
    <3>3. QED
      BY <3>1, <3>2
  <2> HIDE DEF h
  <2>5. Solves(A, a, G, h, n + 1)
    BY <2>2, <2>3, <2>4 DEF Solves
  <2>6. QED
    BY <2>5
<1> HIDE DEF S
<1>3. \A n \in Nat : n \in S
  BY <1>1, <1>2, Induction
<1>4. QED
  BY <1>3 DEF S

LEMMA Recursion ==
    ASSUME NEW A, NEW a, NEW G, IsStep(A, a, G)
    PROVE  \E f : Recurs(A, a, G, f)
<1> DEFINE Sol(n) == CHOOSE g : Solves(A, a, G, g, n)
           f == [n \in Nat |-> Sol(n)[n]]
<1>1. ASSUME NEW n \in Nat PROVE Solves(A, a, G, Sol(n), n)
  BY SolutionUpto, Zenon
<1> HIDE DEF Sol
<1>2. ASSUME NEW k \in Nat PROVE f[k] \in A
  <2>1. Sol(k) \in [0 .. k -> A] /\ k \in 0 .. k
    BY <1>1 DEF Solves
  <2>2. QED
    BY <2>1
<1>3. f[0] = a
  BY <1>1 DEF Solves
<1>4. ASSUME NEW k \in Nat PROVE f[k + 1] = G[<<k, f[k]>>]
  <2>1. k + 1 \in Nat /\ k <= k + 1 /\ k <= k /\ k \in 0 .. k + 1 - 1
    OBVIOUS
  <2>2. Solves(A, a, G, Sol(k), k) /\ Solves(A, a, G, Sol(k + 1), k + 1)
    BY <1>1, <2>1, Zenon
  <2>3. ASSUME NEW g, NEW h, Solves(A, a, G, g, k), Solves(A, a, G, h, k + 1)
        PROVE  h[k] = g[k] /\ h[k + 1] = G[<<k, h[k]>>]
    <3>1. \A j \in Nat : j <= k + 1 /\ j <= k => h[j] = g[j]
      BY <2>1, <2>3, SolutionsAgree
    <3>2. \A j \in 0 .. k + 1 - 1 : h[j + 1] = G[<<j, h[j]>>]
      BY <2>3 DEF Solves
    <3>3. QED
      BY <2>1, <3>1, <3>2
  <2>4. Sol(k + 1)[k] = Sol(k)[k] /\ Sol(k + 1)[k + 1] = G[<<k, Sol(k + 1)[k]>>]
    BY <2>2, <2>3, Zenon
  <2>5. f[k] = Sol(k)[k] /\ f[k + 1] = Sol(k + 1)[k + 1]
    BY <2>1, Zenon
  <2>6. QED
    BY <2>4, <2>5, Zenon
<1>5. f \in [Nat -> A]
  BY <1>2
<1> HIDE DEF f
<1>6. QED
  BY <1>3, <1>4, <1>5, Zenon DEF Recurs

-----------------------------------------------------------------------------
(* Sequences one after the other: where each begins, and what is there.    *)

Joined(C, s, up) ==
    /\ up \in [Nat -> Seq(C)] /\ up[0] = <<>>
    /\ \A k \in Nat : k + 1 <= Len(s) => up[k + 1] = up[k] \o s[k + 1]
Upto(C, s) == CHOOSE up : Joined(C, s, up)

LEMMA UptoJoins ==
    ASSUME NEW C, NEW n \in Nat, NEW s \in [1 .. n -> Seq(C)]
    PROVE  Joined(C, s, Upto(C, s))
<1> DEFINE G == [p \in Nat \X Seq(C) |-> IF p[1] + 1 <= n THEN p[2] \o s[p[1] + 1] ELSE p[2]]
<1>1. G \in [Nat \X Seq(C) -> Seq(C)]
  <2>1. ASSUME NEW p \in Nat \X Seq(C), p[1] + 1 <= n PROVE p[2] \o s[p[1] + 1] \in Seq(C)
    <3>1. p[1] \in Nat /\ p[2] \in Seq(C) /\ p[1] + 1 \in 1 .. n
      BY <2>1
    <3>2. s[p[1] + 1] \in Seq(C)
      BY <3>1
    <3>3. QED
      BY <3>1, <3>2
  <2>2. QED
    BY <2>1
<1>2. <<>> \in Seq(C)
  OBVIOUS
<1>3. ASSUME NEW k \in Nat, NEW v \in Seq(C), k + 1 <= n PROVE G[<<k, v>>] = v \o s[k + 1]
  BY <1>3
<1> HIDE DEF G
<1>4. PICK up : Recurs(Seq(C), <<>>, G, up)
  BY <1>1, <1>2, Recursion, Zenon DEF IsStep
<1>5. ASSUME NEW k \in Nat, k + 1 <= n PROVE up[k + 1] = up[k] \o s[k + 1]
  <2>1. up[k] \in Seq(C)
    BY <1>4 DEF Recurs
  <2>2. G[<<k, up[k]>>] = up[k] \o s[k + 1]
    BY <1>3, <1>5, <2>1, Zenon
  <2>3. QED
    BY <1>4, <2>2, Zenon DEF Recurs
<1>6. Len(s) = n
  OBVIOUS
<1>7. Joined(C, s, up)
  BY <1>4, <1>5, <1>6, Zenon DEF Joined, Recurs
<1>8. QED
  BY <1>7, Zenon DEF Upto

LEMMA UptoFacts ==
    ASSUME NEW C, NEW n \in Nat, NEW s \in [1 .. n -> Seq(C)]
    PROVE  /\ Upto(C, s) \in [Nat -> Seq(C)]
           /\ Upto(C, s)[0] = <<>>
           /\ \A k \in Nat : k + 1 <= n => Upto(C, s)[k + 1] = Upto(C, s)[k] \o s[k + 1]
<1>1. Len(s) = n
  OBVIOUS
<1>2. QED
  BY <1>1, UptoJoins, Zenon DEF Joined

(* FlattenSeq() is what has been joined at the end.                        *)
LEMMA FlattenIsUpto ==
    ASSUME NEW C, NEW n \in Nat, NEW s \in [1 .. n -> Seq(C)]
    PROVE  FlattenSeq(s) = Upto(C, s)[n]
<1> DEFINE U == Upto(C, s)
<1>1. /\ U \in [Nat -> Seq(C)] /\ U[0] = <<>>
      /\ \A k \in Nat : k + 1 <= n => U[k + 1] = U[k] \o s[k + 1]
  BY UptoFacts, Zenon
<1> HIDE DEF U
<1>2. Len(s) = n
  OBVIOUS
<1>3. CASE n = 0
  <2>1. FlattenSeq(s) = <<>>
    BY <1>2, <1>3 DEF FlattenSeq
  <2>2. U[n] = <<>>
    BY <1>1, <1>3, Zenon
  <2>3. QED
    BY <2>1, <2>2, Zenon DEF U
<1>4. CASE n # 0
  <2> DEFINE Step(f, i) == IF i = 1 THEN s[i] ELSE f[i - 1] \o s[i]
             flatten == CHOOSE f : f = [i \in 1 .. n |-> Step(f, i)]
             up == [i \in 1 .. n |-> U[i]]
  <2>1. FlattenSeq(s) = flatten[n]
    BY <1>2, <1>4 DEF FlattenSeq
  <2>2. ASSUME NEW i \in 1 .. n PROVE up[i] = Step(up, i)
    <3>1. i - 1 \in Nat /\ (i - 1) + 1 = i /\ (i - 1) + 1 <= n
      OBVIOUS
    <3>2. U[i] = U[i - 1] \o s[i]
      BY <1>1, <3>1, Zenon
    <3>3. up[i] = U[i]
      OBVIOUS
    <3>4. CASE i = 1
      <4>1. U[i - 1] = <<>> /\ s[i] \in Seq(C)
        BY <1>1, <3>4
      <4>2. U[i - 1] \o s[i] = s[i]
        BY <4>1
      <4>3. QED
        BY <3>2, <3>3, <3>4, <4>2, Zenon
    <3>5. CASE i # 1
      <4>1. up[i - 1] = U[i - 1]
        BY <3>5
      <4>2. QED
        BY <3>2, <3>3, <3>5, <4>1, Zenon
    <3>6. QED
      BY <3>4, <3>5
  <2>3. up = [i \in 1 .. n |-> Step(up, i)]
    BY <2>2
  <2>4. \E f : f = [i \in 1 .. n |-> Step(f, i)]
    <3> HIDE DEF up
    <3>1. QED
      BY <2>3, Zenon
  <2>5. flatten = [i \in 1 .. n |-> Step(flatten, i)]
    BY <2>4, Zenon
  <2> HIDE DEF flatten, up
  <2> DEFINE S == {k \in Nat : k + 1 <= n => flatten[k + 1] = U[k + 1]}
  <2>6. ASSUME NEW i \in 1 .. n PROVE flatten[i] = Step(flatten, i)
    BY <2>5, Zenon
  <2>7. 0 \in S
    <3>1. 1 \in 1 .. n /\ 0 + 1 = 1 /\ 0 + 1 <= n /\ 0 \in Nat
      BY <1>4
    <3>2. flatten[1] = s[1]
      BY <2>6, <3>1, Zenon
    <3>3. s[1] \in Seq(C)
      BY <3>1
    <3>4. <<>> \o s[1] = s[1]
      BY <3>3
    <3>5. U[1] = s[1]
      BY <1>1, <3>1, <3>4, Zenon
    <3>6. QED
      BY <3>1, <3>2, <3>5, Zenon
  <2>8. ASSUME NEW k \in Nat, k \in S PROVE k + 1 \in S
    <3>1. k + 1 \in Nat
      OBVIOUS
    <3>2. ASSUME (k + 1) + 1 <= n PROVE flatten[(k + 1) + 1] = U[(k + 1) + 1]
      <4>1. /\ k + 1 <= n /\ (k + 1) + 1 \in 1 .. n /\ (k + 1) + 1 # 1
            /\ ((k + 1) + 1) - 1 = k + 1
        BY <3>2
      <4>2. flatten[(k + 1) + 1] = flatten[k + 1] \o s[(k + 1) + 1]
        BY <2>6, <4>1, Zenon
      <4>3. flatten[k + 1] = U[k + 1]
        BY <2>8, <4>1, Zenon
      <4>4. QED
        BY <1>1, <3>1, <3>2, <4>2, <4>3, Zenon
    <3>3. QED
      BY <3>1, <3>2, Zenon
  <2>9. \A k \in Nat : k \in S
    <3> HIDE DEF S
    <3>1. QED
      BY <2>7, <2>8, Induction
  <2>10. n - 1 \in Nat /\ (n - 1) + 1 = n /\ (n - 1) + 1 <= n
    BY <1>4
  <2>11. flatten[n] = U[n]
    BY <2>9, <2>10, Zenon
  <2>12. QED
    BY <2>1, <2>11, Zenon DEF U
<1>5. QED
  BY <1>3, <1>4

(* t is u and then v; t begins with w.                                     *)
Then(u, v, t) ==
    /\ Len(u) \in Nat /\ Len(v) \in Nat /\ Len(t) = Len(u) + Len(v)
    /\ \A x \in 1 .. Len(u) : t[x] = u[x]
    /\ \A x \in 1 .. Len(v) : t[Len(u) + x] = v[x]
Begins(w, t) ==
    /\ Len(w) \in Nat /\ Len(t) \in Nat /\ Len(w) <= Len(t)
    /\ \A x \in 1 .. Len(w) : t[x] = w[x]

LEMMA Concatenated ==
    ASSUME NEW C, NEW u \in Seq(C), NEW v \in Seq(C)
    PROVE  u \o v \in Seq(C) /\ Then(u, v, u \o v)
BY DEF Then

LEMMA BeginsSelf == ASSUME NEW C, NEW u \in Seq(C) PROVE Begins(u, u)
BY DEF Begins

LEMMA BeginsThen ==
    ASSUME NEW w, NEW u, NEW v, NEW t, Begins(w, u), Then(u, v, t)
    PROVE  Begins(w, t)
BY DEF Begins, Then

(* t has v behind u, which together are as long as w.                      *)
Inside(u, v, w, t) ==
    /\ Len(u) \in Nat /\ Len(v) \in Nat /\ Len(t) \in Nat
    /\ Len(w) = Len(u) + Len(v) /\ Len(w) <= Len(t)
    /\ \A x \in 1 .. Len(v) : t[Len(u) + x] = v[x]

LEMMA ThenBegins ==
    ASSUME NEW u, NEW v, NEW w, NEW t, Then(u, v, w), Begins(w, t)
    PROVE  Inside(u, v, w, t)
<1>1. ASSUME NEW x \in 1 .. Len(v) PROVE t[Len(u) + x] = v[x]
  <2>1. Len(u) + x \in 1 .. Len(w)
    BY DEF Then
  <2>2. QED
    BY <2>1 DEF Then, Begins
<1>2. QED
  BY <1>1 DEF Then, Begins, Inside

(* What has been joined stays at the front of what is joined later.        *)
LEMMA UptoGrows ==
    ASSUME NEW C, NEW n \in Nat, NEW s \in [1 .. n -> Seq(C)], NEW j \in Nat
    PROVE  \A k \in Nat : j <= k /\ k <= n => Begins(Upto(C, s)[j], Upto(C, s)[k])
<1> DEFINE U == Upto(C, s)
           S == {k \in Nat : j <= k /\ k <= n => Begins(U[j], U[k])}
<1>1. /\ U \in [Nat -> Seq(C)]
      /\ \A k \in Nat : k + 1 <= n => U[k + 1] = U[k] \o s[k + 1]
  BY UptoFacts, Zenon
<1> HIDE DEF U
<1>2. Begins(U[j], U[j])
  <2>1. U[j] \in Seq(C)
    BY <1>1
  <2>2. QED
    BY <2>1, BeginsSelf, Zenon
<1>3. 0 \in S
  <2>1. ASSUME j <= 0 PROVE j = 0
    BY <2>1
  <2>2. 0 \in Nat
    OBVIOUS
  <2>3. QED
    BY <1>2, <2>1, <2>2, Zenon
<1>4. ASSUME NEW k \in Nat, k \in S PROVE k + 1 \in S
  <2>1. ASSUME j <= k + 1, k + 1 <= n PROVE Begins(U[j], U[k + 1])
    <3>1. CASE j = k + 1
      BY <1>2, <3>1, Zenon
    <3>2. CASE j # k + 1
      <4>1. j <= k /\ k <= n /\ k + 1 \in 1 .. n
        BY <2>1, <3>2
      <4>2. Begins(U[j], U[k])
        BY <1>4, <4>1, Zenon
      <4>3. U[k + 1] = U[k] \o s[k + 1]
        BY <1>1, <2>1, Zenon
      <4>4. U[k] \in Seq(C) /\ s[k + 1] \in Seq(C)
        BY <1>1, <4>1
      <4>5. Then(U[k], s[k + 1], U[k] \o s[k + 1])
        BY <4>4, Concatenated, Zenon
      <4>6. QED
        BY <4>2, <4>3, <4>5, BeginsThen, Zenon
    <3>3. QED
      BY <3>1, <3>2
  <2>2. k + 1 \in Nat
    OBVIOUS
  <2>3. QED
    BY <2>1, <2>2, Zenon
<1> HIDE DEF S
<1>5. \A k \in Nat : k \in S
  BY <1>3, <1>4, Induction
<1>6. QED
  BY <1>5, Zenon DEF S, U

(* The piece after the first j begins behind those j.                      *)
LEMMA Pieces ==
    ASSUME NEW C, NEW n \in Nat, NEW s \in [1 .. n -> Seq(C)], NEW j \in Nat, j + 1 <= n
    PROVE  /\ Then(Upto(C, s)[j], s[j + 1], Upto(C, s)[j + 1])
           /\ Begins(Upto(C, s)[j + 1], FlattenSeq(s))
           /\ Inside(Upto(C, s)[j], s[j + 1], Upto(C, s)[j + 1], FlattenSeq(s))
<1> DEFINE U == Upto(C, s)
<1>1. U \in [Nat -> Seq(C)] /\ U[j + 1] = U[j] \o s[j + 1]
  BY UptoFacts, Zenon
<1>2. FlattenSeq(s) = U[n]
  BY FlattenIsUpto, Zenon
<1>3. j + 1 \in Nat /\ j + 1 <= n /\ n \in Nat /\ n <= n /\ j + 1 \in 1 .. n
  OBVIOUS
<1>4. Begins(U[j + 1], U[n])
  BY <1>3, UptoGrows, Zenon
<1> HIDE DEF U
<1>5. U[j] \in Seq(C) /\ s[j + 1] \in Seq(C)
  BY <1>1, <1>3
<1>6. Then(U[j], s[j + 1], U[j] \o s[j + 1])
  BY <1>5, Concatenated, Zenon
<1>7. Then(U[j], s[j + 1], U[j + 1]) /\ Begins(U[j + 1], FlattenSeq(s))
  BY <1>1, <1>2, <1>4, <1>6, Zenon
<1>8. QED
  BY <1>7, ThenBegins, Zenon DEF U

-----------------------------------------------------------------------------
(* Numerals.                                                               *)

Base == {10, 16}

LEMMA DivisionTheorem ==
    ASSUME NEW v \in Nat, NEW d \in Nat, d > 0
    PROVE  v = d * (v \div d) + (v % d) /\ v % d \in 0 .. d - 1 /\ v \div d \in Nat
OBVIOUS

LEMMA QuotientUnique ==
    ASSUME NEW v \in Nat, NEW d \in Nat, d > 0, NEW q \in Nat, NEW r \in 0 .. d - 1, v = d * q + r
    PROVE  v \div d = q
OBVIOUS

LEMMA DivideTwice ==
    ASSUME NEW base \in Base, NEW v \in Nat, NEW p \in Nat, p > 0
    PROVE  (v \div base) \div p = v \div (base * p)
<1> DEFINE u == v \div base
           r == v % base
           y == u \div p
           s == u % p
<1>1. base \in Nat /\ base > 0 /\ (base = 10 \/ base = 16)
  BY DEF Base
<1>2. v = base * u + r /\ r \in 0 .. base - 1 /\ u \in Nat
  BY <1>1, DivisionTheorem
<1>3. u = p * y + s /\ s \in 0 .. p - 1 /\ y \in Nat
  BY <1>2, DivisionTheorem
<1> HIDE DEF u, r, y, s
<1>4. v = (base * p) * y + (base * s + r)
  <2>1. CASE base = 10
    BY <2>1, <1>2, <1>3
  <2>2. CASE base = 16
    BY <2>2, <1>2, <1>3
  <2>3. QED
    BY <1>1, <2>1, <2>2
<1>5. base * p \in Nat /\ base * p > 0 /\ base * s + r \in 0 .. base * p - 1
  <2>1. CASE base = 10
    BY <2>1, <1>2, <1>3
  <2>2. CASE base = 16
    BY <2>2, <1>2, <1>3
  <2>3. QED
    BY <1>1, <2>1, <2>2
<1>6. v \div (base * p) = y
  BY <1>3, <1>4, <1>5, QuotientUnique
<1>7. QED
  BY <1>6 DEF y, u

LEMMA Powers ==
    ASSUME NEW base \in Base
    PROVE  /\ Power(base, 0) = 1
           /\ \A k \in Nat : /\ Power(base, k) \in Nat
                             /\ Power(base, k + 1) = base * Power(base, k)
<1> DEFINE G == [p \in Nat \X Nat |-> base * p[2]]
           power == CHOOSE f : f = [i \in Nat |-> IF i = 0 THEN 1 ELSE base * f[i - 1]]
<1>1. IsStep(Nat, 1, G)
  <2>1. CASE base = 10
    BY <2>1 DEF IsStep
  <2>2. CASE base = 16
    BY <2>2 DEF IsStep
  <2>3. QED
    BY <2>1, <2>2 DEF Base
<1>2. ASSUME NEW k \in Nat, NEW v \in Nat PROVE G[<<k, v>>] = base * v
  OBVIOUS
<1> HIDE DEF G
<1>3. PICK f : Recurs(Nat, 1, G, f)
  BY <1>1, Recursion, Zenon
<1>4. f \in [Nat -> Nat] /\ f[0] = 1 /\ \A k \in Nat : f[k + 1] = base * f[k]
  BY <1>2, <1>3 DEF Recurs
<1>5. ASSUME NEW i \in Nat PROVE f[i] = IF i = 0 THEN 1 ELSE base * f[i - 1]
  <2>1. CASE i = 0
    BY <1>4, <2>1
  <2>2. CASE i # 0
    <3>1. i - 1 \in Nat /\ (i - 1) + 1 = i
      BY <2>2
    <3>2. QED
      BY <1>4, <2>2, <3>1, Zenon
  <2>3. QED
    BY <2>1, <2>2
<1>6. f = [i \in Nat |-> IF i = 0 THEN 1 ELSE base * f[i - 1]]
  BY <1>4, <1>5
<1>7. power = [i \in Nat |-> IF i = 0 THEN 1 ELSE base * power[i - 1]]
  BY <1>6, Zenon
<1>8. ASSUME NEW k \in Nat PROVE Power(base, k) = power[k]
  BY DEF Power
<1> HIDE DEF power
<1>9. ASSUME NEW i \in Nat PROVE power[i] = IF i = 0 THEN 1 ELSE base * power[i - 1]
  BY <1>7, Zenon
<1>10. power[0] = 1
  BY <1>9
<1>11. ASSUME NEW k \in Nat PROVE power[k + 1] = base * power[k]
  <2>1. k + 1 \in Nat /\ k + 1 # 0 /\ (k + 1) - 1 = k
    OBVIOUS
  <2>2. QED
    BY <1>9, <2>1, Zenon
<1> DEFINE S == {k \in Nat : power[k] \in Nat}
<1>12. 0 \in S
  BY <1>10
<1>13. ASSUME NEW k \in Nat, k \in S PROVE k + 1 \in S
  <2>1. base * power[k] \in Nat /\ k + 1 \in Nat
    BY <1>13 DEF Base
  <2>2. QED
    BY <1>11, <2>1, Zenon
<1> HIDE DEF S
<1>14. \A k \in Nat : k \in S
  BY <1>12, <1>13, Induction
<1>15. ASSUME NEW k \in Nat PROVE power[k] \in Nat
  BY <1>14 DEF S
<1>16. 0 \in Nat /\ \A k \in Nat : k + 1 \in Nat
  OBVIOUS
<1>17. QED
  BY <1>8, <1>10, <1>11, <1>15, <1>16, Zenon

LEMMA PowersGrow ==
    ASSUME NEW base \in Base, NEW j \in Nat
    PROVE  /\ Power(base, j) > 0
           /\ \A k \in Nat : j <= k => Power(base, j) <= Power(base, k)
<1> DEFINE P(i) == Power(base, i)
           S == {k \in Nat : P(k) > 0}
           T == {k \in Nat : j <= k => P(j) <= P(k)}
<1>1. P(0) = 1 /\ \A k \in Nat : P(k) \in Nat /\ P(k + 1) = base * P(k)
  BY Powers, Zenon
<1> HIDE DEF P
<1>2. \A k \in Nat : k \in S
  <2>1. 0 \in S
    BY <1>1
  <2>2. ASSUME NEW k \in Nat, k \in S PROVE k + 1 \in S
    <3>1. P(k) \in Nat /\ P(k) > 0 /\ P(k + 1) = base * P(k)
      BY <1>1, <2>2
    <3>2. base * P(k) > 0 /\ k + 1 \in Nat
      BY <3>1 DEF Base
    <3>3. QED
      BY <3>1, <3>2
  <2> HIDE DEF S
  <2>3. QED
    BY <2>1, <2>2, Induction
<1>3. \A k \in Nat : k \in T
  <2>1. 0 \in T
    <3>1. j <= 0 => j = 0
      OBVIOUS
    <3>2. P(j) <= P(j)
      BY <1>1
    <3>3. QED
      BY <3>1, <3>2
  <2>2. ASSUME NEW k \in Nat, k \in T PROVE k + 1 \in T
    <3>1. P(k) \in Nat /\ P(j) \in Nat /\ P(k + 1) = base * P(k) /\ k + 1 \in Nat
      BY <1>1
    <3>2. base * P(k) >= P(k) /\ base * P(k) \in Nat
      BY <3>1 DEF Base
    <3>3. ASSUME j <= k + 1 PROVE P(j) <= P(k + 1)
      <4>1. CASE j = k + 1
        BY <4>1, <3>1, <3>2
      <4>2. CASE j # k + 1
        <5>1. P(j) <= P(k)
          BY <2>2, <3>3, <4>2
        <5>2. QED
          BY <3>1, <3>2, <5>1
      <4>3. QED
        BY <4>1, <4>2
    <3>4. QED
      BY <3>1, <3>3
  <2> HIDE DEF T
  <2>3. QED
    BY <2>1, <2>2, Induction
<1>4. QED
  BY <1>2, <1>3 DEF P

(* k is the number of digits that v needs.                                 *)
Needs(v, base, k) ==
    k \in 1 .. v + 1 /\ Power(base, k) > v /\ (k > 1 => Power(base, k - 1) <= v)

LEMMA NeedsUnique ==
    ASSUME NEW base \in Base, NEW v \in Nat, NEW j, Needs(v, base, j), NEW k, Needs(v, base, k)
    PROVE  j = k
<1>1. ASSUME NEW a, Needs(v, base, a), NEW b, Needs(v, base, b), a < b PROVE FALSE
  <2>1. /\ a \in Nat /\ b - 1 \in Nat /\ a <= b - 1 /\ b > 1 /\ b \in Nat
        /\ Power(base, a) > v /\ Power(base, b - 1) <= v
    BY <1>1 DEF Needs
  <2>2. Power(base, a) <= Power(base, b - 1)
    BY <2>1, PowersGrow
  <2>3. Power(base, a) \in Nat /\ Power(base, b - 1) \in Nat
    BY <2>1, Powers
  <2>4. QED
    BY <2>1, <2>2, <2>3
<1>2. j \in Nat /\ k \in Nat
  BY DEF Needs
<1>3. ~(j < k) /\ ~(k < j)
  BY <1>1, Zenon
<1>4. QED
  BY <1>2, <1>3

LEMMA NeedsOne == ASSUME NEW base \in Base, NEW v \in Nat, v < base PROVE Needs(v, base, 1)
<1>1. Power(base, 1) = base
  <2>1. 0 \in Nat /\ 0 + 1 = 1
    OBVIOUS
  <2>2. Power(base, 1) = base * 1
    BY <2>1, Powers, Zenon
  <2>3. QED
    BY <2>2 DEF Base
<1>2. QED
  BY <1>1 DEF Needs

LEMMA NeedsMore ==
    ASSUME NEW base \in Base, NEW v \in Nat, v >= base, NEW k, Needs(v \div base, base, k)
    PROVE  Needs(v, base, k + 1)
<1> DEFINE u == v \div base
           r == v % base
<1>1. base \in Nat /\ base > 0 /\ base > 1 /\ (base = 10 \/ base = 16)
  BY DEF Base
<1>2. v = base * u + r /\ r \in 0 .. base - 1 /\ u \in Nat
  BY <1>1, DivisionTheorem
<1>3. k \in 1 .. u + 1 /\ Power(base, k) > u /\ (k > 1 => Power(base, k - 1) <= u)
  BY DEF Needs
<1>4. Power(base, k) \in Nat /\ Power(base, k + 1) = base * Power(base, k) /\ k \in Nat
  BY <1>3, Powers
<1> HIDE DEF u, r
<1>5. k + 1 \in 1 .. v + 1
  <2>1. u < v
    <3>1. CASE base = 10
      BY <3>1, <1>2
    <3>2. CASE base = 16
      BY <3>2, <1>2
    <3>3. QED
      BY <1>1, <3>1, <3>2
  <2>2. QED
    BY <1>2, <1>3, <2>1
<1>6. Power(base, k + 1) > v
  <2> DEFINE p == Power(base, k)
  <2>1. p \in Nat /\ p > u
    BY <1>3, <1>4
  <2> HIDE DEF p
  <2>2. base * p > v
    <3>1. CASE base = 10
      BY <3>1, <1>2, <2>1
    <3>2. CASE base = 16
      BY <3>2, <1>2, <2>1
    <3>3. QED
      BY <1>1, <3>1, <3>2
  <2>3. QED
    BY <1>4, <2>2 DEF p
<1>7. Power(base, k) <= v
  <2>1. CASE k = 1
    <3>1. 0 \in Nat /\ 0 + 1 = 1
      OBVIOUS
    <3>2. Power(base, 1) = base * 1
      BY <3>1, Powers, Zenon
    <3>3. QED
      BY <2>1, <3>2, <1>1
  <2>2. CASE k # 1
    <3> DEFINE p == Power(base, k - 1)
    <3>1. k - 1 \in Nat /\ (k - 1) + 1 = k
      BY <1>3, <1>4
    <3>2. p \in Nat /\ p <= u
      BY <1>3, <2>2, <3>1, Powers
    <3>3. Power(base, k) = base * p
      BY <3>1, Powers, Zenon
    <3> HIDE DEF p
    <3>4. base * p <= v
      <4>1. CASE base = 10
        BY <4>1, <1>2, <3>2
      <4>2. CASE base = 16
        BY <4>2, <1>2, <3>2
      <4>3. QED
        BY <1>1, <4>1, <4>2
    <3>5. QED
      BY <3>3, <3>4
  <2>3. QED
    BY <2>1, <2>2
<1>8. (k + 1) - 1 = k
  BY <1>4
<1>9. QED
  BY <1>5, <1>6, <1>7, <1>8 DEF Needs

LEMMA NeedsSome == ASSUME NEW base \in Base, NEW v \in Nat PROVE \E k : Needs(v, base, k)
<1> DEFINE S == {n \in Nat : \E k : Needs(n, base, k)}
<1>1. ASSUME NEW n \in Nat, \A i \in 0 .. n - 1 : i \in S PROVE n \in S
  <2>1. CASE n < base
    BY <2>1, NeedsOne
  <2>2. CASE ~(n < base)
    <3>1. n \div base \in 0 .. n - 1 /\ n >= base
      BY <2>2 DEF Base
    <3>2. PICK k : Needs(n \div base, base, k)
      BY <1>1, <3>1
    <3>3. Needs(n, base, k + 1)
      BY <3>1, <3>2, NeedsMore
    <3>4. QED
      BY <3>3
  <2>3. QED
    BY <2>1, <2>2
<1> HIDE DEF S
<1>2. v \in S
  BY <1>1, CompleteInduction
<1>3. QED
  BY <1>2 DEF S

LEMMA NeededDigitsUnique ==
    ASSUME NEW base \in Base, NEW v \in Nat, NEW k, Needs(v, base, k)
    PROVE  NeededDigits(v, base) = k /\ k \in Nat /\ k >= 1
<1>1. \E i \in 1 .. v + 1 : Power(base, i) > v /\ (i > 1 => Power(base, i - 1) <= v)
  BY DEF Needs
<1>2. Needs(v, base, NeededDigits(v, base))
  BY <1>1, Zenon DEF Needs, NeededDigits
<1>3. NeededDigits(v, base) = k
  BY <1>2, NeedsUnique, Zenon
<1>4. k \in Nat /\ k >= 1
  BY DEF Needs
<1>5. QED
  BY <1>3, <1>4

(* The last digit of a numeral, and the numeral before it.                 *)
Count(v, base, width) ==
    IF width > NeededDigits(v, base) THEN width ELSE NeededDigits(v, base)
Digit(v, base, k) == hexdigits[1 + ((v \div Power(base, k)) % base)]
More(v, base, width) == width > 1 \/ v >= base

LEMMA HexDigits == ASSUME NEW x \in 0 .. 15 PROVE hexdigits[1 + x] \in Char
<1>1. 1 + x \in 1 .. 16
  OBVIOUS
<1>2. QED
  BY <1>1, PrintfAssumption

LEMMA DigitIsChar ==
    ASSUME NEW base \in Base, NEW v \in Nat, NEW k \in Nat
    PROVE  Digit(v, base, k) \in Char
<1> DEFINE q == v \div Power(base, k)
<1>1. Power(base, k) \in Nat /\ Power(base, k) > 0
  BY Powers, PowersGrow
<1>2. q \in Nat
  BY <1>1, DivisionTheorem
<1> HIDE DEF q
<1>3. q % base \in 0 .. 15
  BY <1>2 DEF Base
<1>4. QED
  BY <1>3, HexDigits DEF Digit, q

LEMMA AppendIs ==
    ASSUME NEW C, NEW u \in Seq(C), NEW d \in C, NEW n \in Nat, n = Len(u) + 1,
           NEW t \in [1 .. n -> C], t[n] = d, \A i \in 1 .. Len(u) : t[i] = u[i]
    PROVE  t = Append(u, d)
OBVIOUS

LEMMA NumeralCounts ==
    ASSUME NEW base \in Base, NEW v \in Nat, NEW width \in Int
    PROVE  /\ Count(v, base, width) \in Nat /\ Count(v, base, width) >= 1
           /\ Numeral(v, base, width)
                = [i \in 1 .. Count(v, base, width) |-> Digit(v, base, Count(v, base, width) - i)]
           /\ Numeral(v, base, width) \in [1 .. Count(v, base, width) -> Char]
<1>1. PICK k : Needs(v, base, k)
  BY NeedsSome
<1>2. NeededDigits(v, base) \in Nat /\ NeededDigits(v, base) >= 1
  BY <1>1, NeededDigitsUnique
<1> DEFINE n == Count(v, base, width)
<1>3. n \in Nat /\ n >= 1
  BY <1>2 DEF Count
<1>4. Numeral(v, base, width) = [i \in 1 .. n |-> Digit(v, base, n - i)]
  BY DEF Numeral, Count, Digit
<1> HIDE DEF n
<1>5. ASSUME NEW i \in 1 .. n PROVE Digit(v, base, n - i) \in Char
  <2>1. n - i \in Nat
    BY <1>3
  <2>2. QED
    BY <2>1, DigitIsChar
<1>6. Numeral(v, base, width) \in [1 .. n -> Char]
  BY <1>4, <1>5
<1>7. QED
  BY <1>3, <1>4, <1>6 DEF n

LEMMA CountsMore ==
    ASSUME NEW base \in Base, NEW v \in Nat, NEW width \in Int
    PROVE  Count(v, base, width)
             = IF More(v, base, width) THEN Count(v \div base, base, width - 1) + 1 ELSE 1
<1> DEFINE u == v \div base
<1>0. base \in Nat /\ base > 0 /\ u \in Nat
  BY DEF Base
<1>1. CASE v < base
  <2>1. NeededDigits(v, base) = 1
    BY <1>1, NeedsOne, NeededDigitsUnique
  <2>2. u = 0
    BY <1>1 DEF Base
  <2>3. NeededDigits(u, base) = 1
    BY <1>0, <2>2, NeedsOne, NeededDigitsUnique
  <2> HIDE DEF u
  <2>4. QED
    BY <1>0, <1>1, <2>1, <2>3 DEF Count, More, u
<1>2. CASE ~(v < base)
  <2>1. PICK k : Needs(u, base, k)
    BY <1>0, NeedsSome
  <2>2. NeededDigits(u, base) = k /\ k \in Nat
    BY <1>0, <2>1, NeededDigitsUnique
  <2>3. v >= base
    BY <1>0, <1>2
  <2>4. NeededDigits(v, base) = k + 1
    BY <2>1, <2>3, NeedsMore, NeededDigitsUnique
  <2> HIDE DEF u
  <2>5. QED
    BY <2>2, <2>3, <2>4 DEF Count, More, u
<1>3. QED
  BY <1>1, <1>2

LEMMA LastDigit ==
    ASSUME NEW base \in Base, NEW v \in Nat, NEW width \in Int
    PROVE  Numeral(v, base, width)
             = Append(IF More(v, base, width)
                        THEN Numeral(v \div base, base, width - 1) ELSE <<>>,
                      hexdigits[1 + (v % base)])
<1> DEFINE u == v \div base
           n == Count(v, base, width)
           m == Count(u, base, width - 1)
<1>1. base \in Nat /\ base > 0 /\ u \in Nat /\ width - 1 \in Int
  BY DEF Base
<1>2. /\ n \in Nat /\ n >= 1 /\ Numeral(v, base, width) = [i \in 1 .. n |-> Digit(v, base, n - i)]
      /\ Numeral(v, base, width) \in [1 .. n -> Char]
  BY NumeralCounts
<1>3. /\ m \in Nat /\ m >= 1
      /\ Numeral(u, base, width - 1) = [i \in 1 .. m |-> Digit(u, base, m - i)]
      /\ Numeral(u, base, width - 1) \in [1 .. m -> Char]
  BY <1>1, NumeralCounts
<1>4. n = IF More(v, base, width) THEN m + 1 ELSE 1
  BY CountsMore
<1>5. Digit(v, base, 0) = hexdigits[1 + (v % base)]
  <2>1. Power(base, 0) = 1
    BY Powers
  <2>2. v \div 1 = v
    OBVIOUS
  <2>3. QED
    BY <2>1, <2>2, Zenon DEF Digit
<1>6. ASSUME NEW k \in Nat PROVE Digit(v, base, k + 1) = Digit(u, base, k)
  <2>1. /\ Power(base, k) \in Nat /\ Power(base, k) > 0
        /\ Power(base, k + 1) = base * Power(base, k)
    BY Powers, PowersGrow
  <2>2. v \div Power(base, k + 1) = u \div Power(base, k)
    BY <2>1, DivideTwice
  <2>3. QED
    BY <2>2, Zenon DEF Digit
<1>7. CASE More(v, base, width)
  <2>1. n = m + 1
    BY <1>4, <1>7
  <2> HIDE DEF u, n, m
  <2>2. ASSUME NEW i \in 1 .. m PROVE Digit(v, base, n - i) = Digit(u, base, m - i)
    <3>1. m - i \in Nat /\ n - i = (m - i) + 1
      BY <1>3, <2>1
    <3>2. QED
      BY <1>6, <3>1, Zenon
  <2>3. Digit(v, base, n - n) = hexdigits[1 + (v % base)]
    <3>1. n - n = 0
      BY <1>2
    <3>2. QED
      BY <1>5, <3>1, Zenon
  <2> DEFINE d == hexdigits[1 + (v % base)]
             whole == [i \in 1 .. n |-> Digit(v, base, n - i)]
             front == [i \in 1 .. m |-> Digit(u, base, m - i)]
  <2>4. front \in [1 .. m -> Char] /\ whole \in [1 .. n -> Char]
    BY <1>2, <1>3
  <2>5. whole = Append(front, d)
    <3>1. \A i \in 1 .. m : whole[i] = front[i]
      BY <1>2, <1>3, <2>1, <2>2
    <3>2. whole[n] = d /\ n \in Nat
      BY <1>2, <2>3
    <3> HIDE DEF whole, front, d
    <3>3. front \in Seq(Char) /\ Len(front) = m
      BY <1>3, <2>4
    <3>4. d \in Char
      BY <1>2, <2>4, <3>2
    <3>5. QED
      BY <2>1, <2>4, <3>1, <3>2, <3>3, <3>4, AppendIs
  <2>6. QED
    BY <1>2, <1>3, <1>7, <2>5, Zenon DEF u
<1>8. CASE ~More(v, base, width)
  <2>1. n = 1
    BY <1>4, <1>8
  <2>2. Numeral(v, base, width) = <<Digit(v, base, 0)>>
    BY <1>2, <2>1
  <2>3. QED
    BY <1>5, <1>8, <2>2
<1>9. QED
  BY <1>7, <1>8

(* What print_uint() sends and returns: the numeral and how many digits it *)
(* has.                                                                    *)
Sent(v, base, width) ==
    [text |-> Numeral(v, base, width), written |-> Len(Numeral(v, base, width))]
Above(p, base, a) ==
    IF a[2] > 1 \/ a[1] >= base THEN p[<<a[1] \div base, a[2] - 1>>]
    ELSE [text |-> <<>>, written |-> 0]
Round(p, base, a) ==
    [text |-> Append(Above(p, base, a).text, hexdigits[1 + (a[1] % base)]),
     written |-> Above(p, base, a).written + 1]

SentAbove(v, base, width) ==
    IF width > 1 \/ v >= base THEN Sent(v \div base, base, width - 1)
    ELSE [text |-> <<>>, written |-> 0]

LEMMA NumeralType ==
    ASSUME NEW base \in Base, NEW v \in Nat, NEW width \in Int
    PROVE  Numeral(v, base, width) \in Seq(Char) /\ Len(Numeral(v, base, width)) \in Nat
<1> DEFINE n == Count(v, base, width)
           t == Numeral(v, base, width)
<1>1. n \in Nat /\ t \in [1 .. n -> Char]
  BY NumeralCounts, Zenon
<1> HIDE DEF n, t
<1>2. t \in Seq(Char) /\ Len(t) \in Nat
  BY <1>1
<1>3. QED
  BY <1>2 DEF t

LEMMA SentRecurs ==
    ASSUME NEW base \in Base, NEW v \in Nat, NEW width \in Int,
           NEW above, above = SentAbove(v, base, width)
    PROVE  Sent(v, base, width)
             = [text |-> Append(above.text, hexdigits[1 + (v % base)]),
                written |-> above.written + 1]
<1> DEFINE u == v \div base
           d == hexdigits[1 + (v % base)]
<1>1. u \in Nat /\ width - 1 \in Int /\ d \in Char
  <2>1. v % base \in 0 .. 15
    BY DEF Base
  <2>2. QED
    BY <2>1, HexDigits DEF Base
<1>2. Numeral(v, base, width)
        = Append(IF More(v, base, width) THEN Numeral(u, base, width - 1) ELSE <<>>, d)
  BY LastDigit
<1>3. Numeral(u, base, width - 1) \in Seq(Char)
  BY <1>1, NumeralType, Zenon
<1> HIDE DEF u, d
<1>4. CASE More(v, base, width)
  <2> DEFINE t == Numeral(u, base, width - 1)
  <2>1. above = [text |-> t, written |-> Len(t)]
    BY <1>4 DEF More, Sent, SentAbove, u
  <2>2. Numeral(v, base, width) = Append(t, d)
    BY <1>2, <1>4
  <2>3. t \in Seq(Char)
    BY <1>3
  <2> HIDE DEF t
  <2>4. Len(Append(t, d)) = Len(t) + 1
    BY <2>3, <1>1
  <2>5. above.text = t /\ above.written = Len(t)
    BY <2>1
  <2>6. Len(Numeral(v, base, width)) = above.written + 1
    BY <2>2, <2>4, <2>5, Zenon
  <2>7. QED
    BY <2>2, <2>5, <2>6, Zenon DEF Sent, d
<1>5. CASE ~More(v, base, width)
  <2>1. above = [text |-> <<>>, written |-> 0]
    BY <1>5 DEF More, SentAbove
  <2>2. Numeral(v, base, width) = Append(<<>>, d)
    BY <1>2, <1>5
  <2>3. Len(Append(<<>>, d)) = 0 + 1
    BY <1>1
  <2>4. QED
    BY <2>1, <2>2, <2>3 DEF Sent, d
<1>6. QED
  BY <1>4, <1>5

(* print_uint() sends the numeral of its value, for every word and width.  *)
THEOREM PrintUint ==
    ASSUME NEW base \in Base, NEW val \in Word, NEW wide \in Int
    PROVE  print_uint(val, base, wide) = Sent(val, base, wide)
<1> DEFINE print == CHOOSE p : p = [a \in Word \X Int |-> Round(p, base, a)]
           sent == [a \in Word \X Int |-> Sent(a[1], base, a[2])]
<1>1. print_uint(val, base, wide) = print[<<val, wide>>]
  BY DEF print_uint, Round, Above
<1>2. ASSUME NEW v \in Word, NEW w \in Int
      PROVE  v \in Nat /\ v \div base \in Word /\ w - 1 \in Int /\ v % base \in Nat
  BY PrintfAssumption DEF Word, Base
<1>3. ASSUME NEW a \in Word \X Int PROVE sent[a] = Round(sent, base, a)
  <2> DEFINE v == a[1]
             w == a[2]
  <2>1. a = <<v, w>> /\ v \in Word /\ w \in Int
    OBVIOUS
  <2> HIDE DEF v, w
  <2>2. v \in Nat /\ v \div base \in Word /\ w - 1 \in Int
    BY <1>2, <2>1
  <2>3. sent[<<v, w>>] = Sent(v, base, w)
    BY <2>1
  <2>4. sent[<<v \div base, w - 1>>] = Sent(v \div base, base, w - 1)
    BY <2>2
  <2> HIDE DEF sent
  <2>5. Above(sent, base, <<v, w>>) = SentAbove(v, base, w)
    BY <2>4 DEF Above, SentAbove
  <2>6. Sent(v, base, w)
          = [text |-> Append(Above(sent, base, <<v, w>>).text, hexdigits[1 + (v % base)]),
             written |-> Above(sent, base, <<v, w>>).written + 1]
    BY <2>1, <2>2, <2>5, SentRecurs, Zenon
  <2>7. QED
    BY <2>1, <2>3, <2>6 DEF Round
<1>4. sent = [a \in Word \X Int |-> Round(sent, base, a)]
  <2>1. sent = [a \in Word \X Int |-> sent[a]]
    OBVIOUS
  <2> HIDE DEF sent
  <2>2. QED
    BY <1>3, <2>1
<1>5. print = [a \in Word \X Int |-> Round(print, base, a)]
  <2> HIDE DEF sent
  <2>1. QED
    BY <1>4, Zenon
<1> HIDE DEF print, sent
<1>6. ASSUME NEW v \in Word, NEW w \in Int PROVE print[<<v, w>>] = Round(print, base, <<v, w>>)
  <2>1. <<v, w>> \in Word \X Int
    OBVIOUS
  <2>2. QED
    BY <1>5, <2>1, Zenon
<1> DEFINE Pos(w) == IF w > 0 THEN w ELSE 0
           S == {n \in Nat : \A v \in Word, w \in Int :
                                v + Pos(w) = n => print[<<v, w>>] = Sent(v, base, w)}
<1>7. ASSUME NEW n \in Nat, \A i \in 0 .. n - 1 : i \in S PROVE n \in S
  <2>1. ASSUME NEW v \in Word, NEW w \in Int, v + Pos(w) = n
        PROVE  print[<<v, w>>] = Sent(v, base, w)
    <3>1. v \in Nat /\ v \div base \in Word /\ w - 1 \in Int
      BY <1>2
    <3>2. ASSUME w > 1 \/ v >= base
          PROVE  print[<<v \div base, w - 1>>] = Sent(v \div base, base, w - 1)
      <4>1. (v \div base) + Pos(w - 1) \in 0 .. n - 1
        BY <2>1, <3>1, <3>2 DEF Base
      <4>2. (v \div base) + Pos(w - 1) \in S
        BY <1>7, <4>1
      <4>3. QED
        BY <3>1, <4>2
    <3>3. Above(print, base, <<v, w>>) = SentAbove(v, base, w)
      BY <3>2 DEF Above, SentAbove
    <3>4. Sent(v, base, w)
            = [text |-> Append(Above(print, base, <<v, w>>).text, hexdigits[1 + (v % base)]),
               written |-> Above(print, base, <<v, w>>).written + 1]
      BY <3>1, <3>3, SentRecurs, Zenon
    <3>5. QED
      BY <1>6, <3>4 DEF Round
  <2>2. QED
    BY <2>1
<1> HIDE DEF S
<1>8. \A n \in Nat : n \in S
  BY <1>7, CompleteInduction
<1>9. val + Pos(wide) \in Nat
  BY <1>2
<1>10. QED
  BY <1>1, <1>8, <1>9 DEF S

LEMMA PairIs == ASSUME NEW C, NEW p \in C, NEW q \in C PROVE Append(<<p>>, q) = <<p, q>>
<1> DEFINE u == <<p>>
           t == <<p, q>>
<1>1. /\ u \in Seq(C) /\ Len(u) = 1 /\ u[1] = p
      /\ t \in [1 .. 2 -> C] /\ t[1] = p /\ t[2] = q /\ 2 \in Nat
  OBVIOUS
<1> HIDE DEF u, t
<1>2. \A i \in 1 .. Len(u) : t[i] = u[i]
  BY <1>1
<1>3. 2 = Len(u) + 1
  BY <1>1
<1>4. t = Append(u, q)
  BY <1>1, <1>2, <1>3, AppendIs, Zenon
<1>5. QED
  BY <1>4, Zenon DEF u, t

(* A byte has two digits.                                                  *)
LEMMA ByteNumeral ==
    ASSUME NEW x \in Byte
    PROVE  Numeral(x, 16, 2) = <<hexdigits[1 + x \div 16], hexdigits[1 + (x % 16)]>>
<1>1. /\ x \in Nat /\ x \div 16 \in 0 .. 15 /\ x \div 16 \in Nat
      /\ 16 \in Base /\ 2 \in Int /\ 1 \in Int
  BY DEF Byte, Base
<1> DEFINE high == x \div 16
           p == hexdigits[1 + high]
           q == hexdigits[1 + (x % 16)]
<1>2. p \in Char /\ q \in Char
  <2>1. x % 16 \in 0 .. 15
    BY <1>1
  <2>2. QED
    BY <1>1, <2>1, HexDigits
<1>3. Numeral(high, 16, 1) = <<p>>
  <2>1. ~More(high, 16, 1)
    BY <1>1 DEF More
  <2>2. Numeral(high, 16, 1) = Append(<<>>, hexdigits[1 + (high % 16)])
    BY <1>1, <2>1, LastDigit, Zenon
  <2>3. high % 16 = high
    BY <1>1
  <2>4. Numeral(high, 16, 1) = Append(<<>>, p)
    BY <2>2, <2>3, Zenon
  <2> HIDE DEF p
  <2>5. Append(<<>>, p) = <<p>>
    BY <1>2
  <2>6. QED
    BY <2>4, <2>5, Zenon
<1>4. Numeral(x, 16, 2) = Append(Numeral(high, 16, 1), q)
  <2>1. More(x, 16, 2) /\ 2 - 1 = 1
    BY DEF More
  <2>2. Numeral(x, 16, 2) = Append(Numeral(high, 16, 2 - 1), q)
    BY <1>1, <2>1, LastDigit, Zenon
  <2>3. QED
    BY <2>1, <2>2, Zenon
<1> HIDE DEF high, p, q
<1>5. Append(<<p>>, q) = <<p, q>>
  BY <1>2, PairIs, Zenon
<1>6. QED
  BY <1>3, <1>4, <1>5, Zenon DEF high, p, q

-----------------------------------------------------------------------------
(* The number that the first k digits stand for.                           *)

Partial(digit, k) ==
    LET upto[i \in 0 .. Len(digit)] ==
          IF i = 0 THEN 0 ELSE 10 * upto[i - 1] + ValueOf(digit[i])
    IN  upto[k]

LEMMA PartialValues ==
    ASSUME NEW n \in Nat, NEW digit \in [1 .. n -> Decimal]
    PROVE  /\ Partial(digit, 0) = 0 /\ Partial(digit, n) = Value(digit)
           /\ \A k \in 0 .. n : Partial(digit, k) \in Nat
           /\ \A k \in 0 .. n - 1 :
                 Partial(digit, k + 1) = 10 * Partial(digit, k) + ValueOf(digit[k + 1])
<1> DEFINE G == [p \in Nat \X Nat |->
                   IF p[1] + 1 <= n THEN 10 * p[2] + ValueOf(digit[p[1] + 1]) ELSE 0]
           upto == CHOOSE f : f = [i \in 0 .. n |->
                                     IF i = 0 THEN 0 ELSE 10 * f[i - 1] + ValueOf(digit[i])]
<1>0. ASSUME NEW k \in 1 .. n PROVE ValueOf(digit[k]) \in Nat
  <2>1. \E i \in 1 .. 10 : hexdigits[i] = digit[k]
    BY DEF Decimal
  <2>2. \E d \in 0 .. 9 : hexdigits[d + 1] = digit[k]
    <3>1. PICK i \in 1 .. 10 : hexdigits[i] = digit[k]
      BY <2>1
    <3>2. i - 1 \in 0 .. 9 /\ (i - 1) + 1 = i
      OBVIOUS
    <3>3. QED
      BY <3>1, <3>2, Zenon
  <2>3. ValueOf(digit[k]) \in 0 .. 9
    BY <2>2, Zenon DEF ValueOf
  <2>4. QED
    BY <2>3
<1>1. IsStep(Nat, 0, G)
  <2>1. ASSUME NEW p \in Nat \X Nat, p[1] + 1 <= n
        PROVE  10 * p[2] + ValueOf(digit[p[1] + 1]) \in Nat
    <3>1. p[1] + 1 \in 1 .. n /\ p[2] \in Nat
      BY <2>1
    <3>2. ValueOf(digit[p[1] + 1]) \in Nat
      BY <1>0, <3>1
    <3>3. QED
      BY <3>1, <3>2
  <2>2. QED
    BY <2>1 DEF IsStep
<1>2. ASSUME NEW k \in Nat, NEW v \in Nat, k + 1 <= n
      PROVE  G[<<k, v>>] = 10 * v + ValueOf(digit[k + 1])
  BY <1>2
<1> HIDE DEF G
<1>3. PICK f : Recurs(Nat, 0, G, f)
  BY <1>1, Recursion, Zenon
<1>4. f \in [Nat -> Nat] /\ f[0] = 0
  BY <1>3 DEF Recurs
<1>5. ASSUME NEW k \in Nat, k + 1 <= n PROVE f[k + 1] = 10 * f[k] + ValueOf(digit[k + 1])
  <2>1. f[k] \in Nat
    BY <1>4
  <2>2. f[k + 1] = G[<<k, f[k]>>]
    BY <1>3 DEF Recurs
  <2>3. QED
    BY <1>2, <1>5, <2>1, <2>2, Zenon
<1> DEFINE g == [i \in 0 .. n |-> f[i]]
<1>6. ASSUME NEW i \in 0 .. n
      PROVE  g[i] = IF i = 0 THEN 0 ELSE 10 * g[i - 1] + ValueOf(digit[i])
  <2>1. CASE i = 0
    BY <1>4, <2>1
  <2>2. CASE i # 0
    <3>1. i - 1 \in Nat /\ (i - 1) + 1 = i /\ (i - 1) + 1 <= n /\ i - 1 \in 0 .. n
      BY <2>2
    <3>2. f[i] = 10 * f[i - 1] + ValueOf(digit[i])
      BY <1>5, <3>1, Zenon
    <3>3. g[i] = f[i] /\ g[i - 1] = f[i - 1]
      BY <3>1
    <3>4. QED
      BY <2>2, <3>2, <3>3, Zenon
  <2>3. QED
    BY <2>1, <2>2
<1>7. g = [i \in 0 .. n |-> IF i = 0 THEN 0 ELSE 10 * g[i - 1] + ValueOf(digit[i])]
  <2>1. g = [i \in 0 .. n |-> g[i]]
    OBVIOUS
  <2> HIDE DEF g
  <2>2. QED
    BY <1>6, <2>1
<1>8. upto = [i \in 0 .. n |-> IF i = 0 THEN 0 ELSE 10 * upto[i - 1] + ValueOf(digit[i])]
  <2> HIDE DEF g
  <2>1. QED
    BY <1>7, Zenon
<1>9. Len(digit) = n
  OBVIOUS
<1>10. \A k : Partial(digit, k) = upto[k]
  BY <1>9, Zenon DEF Partial
<1>11. Value(digit) = upto[n]
  BY <1>9, Zenon DEF Value
<1> HIDE DEF upto, g
<1>12. ASSUME NEW i \in 0 .. n
       PROVE  upto[i] = IF i = 0 THEN 0 ELSE 10 * upto[i - 1] + ValueOf(digit[i])
  BY <1>8, Zenon
<1>13. upto[0] = 0
  BY <1>12
<1>14. ASSUME NEW k \in 0 .. n - 1 PROVE upto[k + 1] = 10 * upto[k] + ValueOf(digit[k + 1])
  <2>1. k + 1 \in 0 .. n /\ k + 1 # 0 /\ (k + 1) - 1 = k
    OBVIOUS
  <2>2. QED
    BY <1>12, <2>1, Zenon
<1> DEFINE S == {k \in Nat : k <= n => upto[k] \in Nat}
<1>15. \A k \in Nat : k \in S
  <2>1. 0 \in S
    BY <1>13
  <2>2. ASSUME NEW k \in Nat, k \in S PROVE k + 1 \in S
    <3>1. ASSUME k + 1 <= n PROVE upto[k + 1] \in Nat
      <4>1. k \in 0 .. n - 1 /\ k <= n /\ k + 1 \in 1 .. n
        BY <3>1
      <4>2. upto[k + 1] = 10 * upto[k] + ValueOf(digit[k + 1]) /\ upto[k] \in Nat
        BY <1>14, <2>2, <4>1, Zenon
      <4>3. ValueOf(digit[k + 1]) \in Nat
        BY <1>0, <4>1
      <4>4. QED
        BY <4>2, <4>3
    <3>2. k + 1 \in Nat
      OBVIOUS
    <3>3. QED
      BY <3>1, <3>2, Zenon
  <2> HIDE DEF S
  <2>3. QED
    BY <2>1, <2>2, Induction
<1>16. ASSUME NEW k \in 0 .. n PROVE upto[k] \in Nat
  BY <1>15
<1>17. QED
  BY <1>10, <1>11, <1>13, <1>14, <1>16, Zenon

-----------------------------------------------------------------------------
(* Items: what they are in a format, in memory and on the line.            *)

LEMMA Words ==
    ASSUME NEW v \in Word
    PROVE  /\ v \in Nat /\ WordSize - v \in Nat /\ WordSize \in Nat /\ WordSize \div 2 \in Nat
           /\ \/ v < WordSize \div 2 /\ ~(v >= WordSize \div 2)
              \/ v >= WordSize \div 2 /\ ~(v < WordSize \div 2)
           /\ v >= WordSize \div 2 => WordSize - v \in Word
<1>1. WordSize \in Nat /\ WordSize > 1
  BY PrintfAssumption
<1>2. QED
  BY <1>1 DEF Word

LEMMA OneOrTwo ==
    \A a, b : /\ Len(<<a>>) = 1 /\ <<a>> # <<>> /\ 1 \in DOMAIN <<a>>
              /\ Len(<<a, b>>) = 2 /\ <<a, b>> # <<>>
              /\ 1 \in DOMAIN <<a, b>> /\ 2 \in DOMAIN <<a, b>>
OBVIOUS

Arg == Word \cup Seq(Char) \cup Seq(Byte)
Named == {"d", "u", "x", "X", "h", "s", "%"}

LEMMA WidthValue ==
    ASSUME NEW i, WellMeant(i), i.conv # "text"
    PROVE  /\ i.conv \in Char \ Decimal /\ Len(i.width) \in Nat
           /\ i.width \in Seq(Decimal) /\ i.width \in [1 .. Len(i.width) -> Decimal]
           /\ Value(i.width) \in Nat
<1>1. i.conv \in Char \ Decimal /\ i.width \in Seq(Decimal)
  BY DEF WellMeant
<1> DEFINE w == i.width
<1> HIDE DEF w
<1>2. w \in Seq(Decimal)
  BY <1>1 DEF w
<1>3. Len(w) \in Nat /\ w \in [1 .. Len(w) -> Decimal]
  BY <1>2
<1>4. Partial(w, Len(w)) = Value(w) /\ \A k \in 0 .. Len(w) : Partial(w, k) \in Nat
  BY <1>3, PartialValues, Zenon
<1>5. Len(w) \in 0 .. Len(w)
  BY <1>3
<1>6. Value(w) \in Nat
  BY <1>4, <1>5, Zenon
<1>7. QED
  BY <1>1, <1>3, <1>6, Zenon DEF w

LEMMA CharsInChar ==
    /\ {"%", "-"} \subseteq Char /\ Decimal \subseteq Char
    /\ "text" \notin Char /\ NUL \notin Char /\ "%" # NUL
<1>1. {hexdigits[i] : i \in 1 .. 16} \subseteq Char /\ {"%", "-"} \subseteq Char
  BY PrintfAssumption
<1>2. Decimal \subseteq {hexdigits[i] : i \in 1 .. 16}
  BY DEF Decimal
<1>3. QED
  BY <1>1, <1>2, PrintfAssumption

LEMMA SpelledType == ASSUME NEW i, WellMeant(i) PROVE Spelled(i) \in Seq(Char)
<1>1. CASE i.conv = "text"
  <2>1. i.char \in Char
    BY <1>1, CharsInChar DEF WellMeant
  <2>2. QED
    BY <1>1, <2>1 DEF Spelled
<1>2. CASE i.conv # "text"
  <2> DEFINE w == i.width
             d == i.conv
  <2>1. w \in Seq(Decimal) /\ d \in Char
    BY <1>2, WidthValue
  <2>2. Spelled(i) = <<"%">> \o w \o <<d>>
    BY <1>2 DEF Spelled
  <2> HIDE DEF w, d
  <2>3. w \in Seq(Char)
    BY <2>1, CharsInChar
  <2>4. <<"%">> \in Seq(Char) /\ <<d>> \in Seq(Char)
    BY <2>1, CharsInChar
  <2>5. <<"%">> \o w \in Seq(Char)
    BY <2>3, <2>4
  <2>6. <<"%">> \o w \o <<d>> \in Seq(Char)
    BY <2>4, <2>5
  <2>7. QED
    BY <2>2, <2>6, Zenon
<1>3. QED
  BY <1>1, <1>2

LEMMA ArgsType == ASSUME NEW i, WellMeant(i) PROVE i.args \in Seq(Arg)
<1>1. CASE i.args = <<>>
  BY <1>1
<1>2. CASE i.conv # "text" /\ i.conv \in {"d", "u", "x", "X"}
  <2>1. i.args = <<i.args[1]>> /\ i.args[1] \in Word
    BY <1>2 DEF WellMeant, Takes
  <2>2. ASSUME NEW a \in Word PROVE <<a>> \in Seq(Arg)
    BY DEF Arg
  <2>3. QED
    BY <2>1, <2>2, Zenon
<1>3. CASE i.conv # "text" /\ i.conv = "s"
  <2>1. i.args = <<i.args[1]>> /\ i.args[1] \in Seq(Char)
    BY <1>3 DEF WellMeant, Takes
  <2>2. ASSUME NEW a \in Seq(Char) PROVE <<a>> \in Seq(Arg)
    <3>1. a \in Arg
      BY <2>2, Zenon DEF Arg
    <3>2. QED
      BY <3>1
  <2>3. QED
    BY <2>1, <2>2, Zenon
<1>4. CASE i.conv # "text" /\ i.conv = "h"
  <2>1. i.args = <<i.args[1], i.args[2]>> /\ i.args[1] \in Word /\ i.args[2] \in Seq(Byte)
    BY <1>4 DEF WellMeant, Takes
  <2>2. ASSUME NEW a \in Word, NEW b \in Seq(Byte) PROVE <<a, b>> \in Seq(Arg)
    <3>1. a \in Arg /\ b \in Arg
      BY <2>2, Zenon DEF Arg
    <3>2. QED
      BY <3>1
  <2>3. QED
    BY <2>1, <2>2, Zenon
<1>5. QED
  BY <1>1, <1>2, <1>3, <1>4 DEF WellMeant, Takes

LEMMA FlattenType ==
    ASSUME NEW C, NEW n \in Nat, NEW s \in [1 .. n -> Seq(C)]
    PROVE  FlattenSeq(s) \in Seq(C) /\ (n = 0 => FlattenSeq(s) = <<>>)
<1>1. FlattenSeq(s) = Upto(C, s)[n] /\ Upto(C, s) \in [Nat -> Seq(C)] /\ Upto(C, s)[0] = <<>>
  BY FlattenIsUpto, UptoFacts, Zenon
<1>2. QED
  BY <1>1

LEMMA HexBytes ==
    ASSUME NEW len \in Word, NEW ptr \in Seq(Byte), negative(len) \/ len <= Len(ptr)
    PROVE  /\ Bytes(len, ptr) \in Seq(Char)
           /\ Bytes(len, ptr) = IF len >= WordSize \div 2 THEN <<>>
                                ELSE FlattenSeq([j \in 1 .. len |-> Numeral(ptr[j], 16, 2)])
<1> DEFINE n == IF negative(len) THEN 0 ELSE len
           s == [j \in 1 .. n |-> <<hexdigits[1 + ptr[j] \div 16], hexdigits[1 + (ptr[j] % 16)]>>]
           t == [j \in 1 .. n |-> Numeral(ptr[j], 16, 2)]
<1>1. len \in Nat /\ n \in Nat /\ n <= Len(ptr)
  <2>1. len \in Nat /\ Len(ptr) \in Nat
    BY PrintfAssumption DEF Word
  <2>2. QED
    BY <2>1
<1> HIDE DEF n
<1>2. ASSUME NEW j \in 1 .. n
      PROVE  /\ Numeral(ptr[j], 16, 2)
                  = <<hexdigits[1 + ptr[j] \div 16], hexdigits[1 + (ptr[j] % 16)]>>
             /\ Numeral(ptr[j], 16, 2) \in Seq(Char)
  <2>1. ptr[j] \in Byte
    BY <1>1
  <2>2. 16 \in Base /\ 2 \in Int /\ \A b \in Byte : b \in Nat
    BY DEF Base, Byte
  <2>3. QED
    BY <2>1, <2>2, ByteNumeral, NumeralType, Zenon
<1>3. s = t /\ t \in [1 .. n -> Seq(Char)]
  BY <1>2
<1>4. FlattenSeq(t) \in Seq(Char) /\ (n = 0 => FlattenSeq(t) = <<>>)
  BY <1>1, <1>3, FlattenType, Zenon
<1>5. Bytes(len, ptr) = FlattenSeq(s)
  BY Zenon DEF Bytes, n
<1>6. CASE len >= WordSize \div 2
  <2>1. n = 0
    BY <1>6 DEF n, negative
  <2>2. QED
    BY <1>3, <1>4, <1>5, <1>6, <2>1, Zenon
<1>7. CASE ~(len >= WordSize \div 2)
  <2>1. n = len
    BY <1>7 DEF n, negative
  <2>2. QED
    BY <1>3, <1>4, <1>5, <1>7, <2>1, Zenon
<1>8. QED
  BY <1>6, <1>7

LEMMA SignedNumeral ==
    ASSUME NEW v \in Word, pad_width \in Int
    PROVE  LET r == IF v < WordSize \div 2 THEN Numeral(v, 10, pad_width)
                    ELSE <<"-">> \o Numeral(WordSize - v, 10, pad_width)
           IN  r \in Seq(Char) /\ print_int(v).text = r /\ print_int(v).written = Len(r)
<1>1. v \in Nat /\ 10 \in Base /\ "-" \in Char
  BY PrintfAssumption DEF Word, Base
<1>2. CASE v < WordSize \div 2
  <2> DEFINE t == Numeral(v, 10, pad_width)
  <2>1. t \in Seq(Char)
    BY <1>1, NumeralType
  <2>2. ~negative(v)
    BY <1>1, <1>2, PrintfAssumption DEF negative
  <2>3. print_int(v) = Sent(v, 10, pad_width)
    BY <1>1, <2>2, PrintUint DEF print_int
  <2>4. Sent(v, 10, pad_width).text = t /\ Sent(v, 10, pad_width).written = Len(t)
    BY DEF Sent
  <2>5. QED
    BY <1>2, <2>1, <2>3, <2>4, Zenon
<1>3. CASE ~(v < WordSize \div 2)
  <2> DEFINE u == WordSize - v
             t == Numeral(u, 10, pad_width)
  <2>1. u \in Word /\ u \in Nat /\ negative(v)
    BY <1>1, <1>3, PrintfAssumption DEF negative, Word
  <2>2. t \in Seq(Char) /\ Len(t) \in Nat
    BY <1>1, <2>1, NumeralType
  <2>3. print_uint(u, 10, pad_width) = Sent(u, 10, pad_width)
    BY <1>1, <2>1, PrintUint
  <2>4. print_int(v) = [text |-> <<"-">> \o Sent(u, 10, pad_width).text,
                        written |-> 1 + Sent(u, 10, pad_width).written]
    BY <2>1, <2>3, Zenon DEF print_int
  <2>5. Sent(u, 10, pad_width).text = t /\ Sent(u, 10, pad_width).written = Len(t)
    BY DEF Sent
  <2>6. print_int(v).text = <<"-">> \o t /\ print_int(v).written = 1 + Len(t)
    BY <2>4, <2>5
  <2> HIDE DEF t
  <2>7. <<"-">> \o t \in Seq(Char) /\ Len(<<"-">> \o t) = 1 + Len(t)
    BY <1>1, <2>2
  <2>8. QED
    BY <1>3, <2>6, <2>7, Zenon DEF t
<1>4. QED
  BY <1>2, <1>3

LEMMA RenderedType == ASSUME NEW i, WellMeant(i) PROVE Rendered(i) \in Seq(Char)
<1>1. CASE i.conv = "text"
  <2>1. i.char \in Char
    BY <1>1, CharsInChar DEF WellMeant
  <2>2. QED
    BY <1>1, <2>1 DEF Rendered
<1>2. CASE i.conv # "text"
  <2> DEFINE w == Value(i.width)
             v == i.args[1]
  <2>0. w \in Nat /\ w \in Int /\ i.conv \in Char
    BY <1>2, WidthValue
  <2>1. CASE i.conv \in {"u", "x", "X", "d"}
    <3>1. v \in Word
      BY <1>2, <2>1 DEF WellMeant, Takes
    <3>2. v \in Nat /\ 10 \in Base /\ 16 \in Base
      BY <3>1, PrintfAssumption DEF Word, Base
    <3>3. Numeral(v, 10, w) \in Seq(Char) /\ Numeral(v, 16, w) \in Seq(Char)
      BY <2>0, <3>2, NumeralType
    <3>4. ASSUME v >= WordSize \div 2 PROVE <<"-">> \o Numeral(WordSize - v, 10, w) \in Seq(Char)
      <4>1. WordSize - v \in Nat /\ "-" \in Char
        <5> HIDE DEF v
        <5>1. QED
          BY <3>1, Words, CharsInChar
      <4> DEFINE t == Numeral(WordSize - v, 10, w)
      <4>2. t \in Seq(Char)
        BY <2>0, <3>2, <4>1, NumeralType
      <4> HIDE DEF t
      <4>3. <<"-">> \o t \in Seq(Char)
        BY <4>1, <4>2
      <4>4. QED
        BY <4>3 DEF t
    <3>5. v < WordSize \div 2 \/ v >= WordSize \div 2
      BY <3>2, PrintfAssumption
    <3> HIDE DEF w, v
    <3>6. \/ i.conv = "u" /\ Rendered(i) = Numeral(v, 10, w)
          \/ i.conv \in {"x", "X"} /\ Rendered(i) = Numeral(v, 16, w)
          \/ i.conv = "d" /\ v < WordSize \div 2 /\ Rendered(i) = Numeral(v, 10, w)
          \/ i.conv = "d" /\ v >= WordSize \div 2
             /\ Rendered(i) = <<"-">> \o Numeral(WordSize - v, 10, w)
      BY <2>1, <3>5 DEF Rendered, w, v
    <3>7. QED
      BY <3>3, <3>4, <3>6, Zenon
  <2>2. CASE i.conv = "s"
    BY <1>2, <2>2 DEF WellMeant, Takes, Rendered
  <2>3. CASE i.conv = "h"
    <3>1. /\ v \in Word /\ i.args[2] \in Seq(Byte)
          /\ negative(v) \/ v <= Len(i.args[2])
      BY <1>2, <2>3 DEF WellMeant, Takes
    <3>2. Rendered(i) = Bytes(v, i.args[2])
      <4>1. Rendered(i) = IF v >= WordSize \div 2 THEN <<>>
                          ELSE FlattenSeq([j \in 1 .. v |-> Numeral(i.args[2][j], 16, 2)])
        BY <2>3 DEF Rendered
      <4>2. QED
        BY <3>1, <4>1, HexBytes, Zenon
    <3>3. QED
      BY <3>1, <3>2, HexBytes, Zenon
  <2>4. CASE i.conv = "%"
    BY <2>4, CharsInChar DEF Rendered
  <2>5. CASE i.conv \notin Named
    <3>1. Rendered(i) = <<"%", i.conv>>
      BY <1>2, <2>5 DEF Rendered, Named
    <3>2. QED
      BY <2>0, <3>1, CharsInChar
  <2>6. QED
    BY <2>1, <2>2, <2>3, <2>4, <2>5 DEF Named
<1>3. QED
  BY <1>1, <1>2

(* A conversion prints its item and takes the arguments of the item.       *)
LEMMA ConvertSends ==
    ASSUME NEW i, WellMeant(i), i.conv # "text", c = i.conv, pad_width = Value(i.width),
           \A x \in DOMAIN i.args : args[x] = i.args[x], convert
    PROVE  /\ out' = out \o Rendered(i) /\ written' = written + Len(Rendered(i))
           /\ IF i.args = <<>> THEN args' = args ELSE va_arg(Len(i.args))
<1>0. pad_width \in Int /\ c \in Char
  BY WidthValue
<1>1. CASE c = "d"
  <2>1. i.args = <<i.args[1]>> /\ i.args[1] \in Word
    BY <1>1 DEF WellMeant, Takes
  <2>2. Len(i.args) = 1 /\ i.args # <<>> /\ 1 \in DOMAIN i.args
    BY <2>1, OneOrTwo, Zenon
  <2> DEFINE v == i.args[1]
             r == IF v < WordSize \div 2 THEN Numeral(v, 10, pad_width)
                  ELSE <<"-">> \o Numeral(WordSize - v, 10, pad_width)
  <2>3. print_int(v).text = r /\ print_int(v).written = Len(r)
    BY <1>0, <2>1, SignedNumeral, Zenon
  <2>4. Rendered(i) = r
    <3> DEFINE w == Value(i.width)
    <3>1. \/ v < WordSize \div 2 /\ ~(v >= WordSize \div 2)
          \/ v >= WordSize \div 2 /\ ~(v < WordSize \div 2)
      BY <2>1, Words
    <3> HIDE DEF v, w
    <3>2. CASE v < WordSize \div 2 /\ ~(v >= WordSize \div 2)
      <4>1. Rendered(i) = Numeral(v, 10, w)
        BY <1>1, <3>2 DEF Rendered, v, w
      <4>2. QED
        BY <3>2, <4>1, Zenon DEF w
    <3>3. CASE v >= WordSize \div 2 /\ ~(v < WordSize \div 2)
      <4>1. Rendered(i) = <<"-">> \o Numeral(WordSize - v, 10, w)
        BY <1>1, <3>3 DEF Rendered, v, w
      <4>2. QED
        BY <3>3, <4>1, Zenon DEF w
    <3>4. QED
      BY <3>1, <3>2, <3>3
  <2>5. Send(print_int(args[1]).text, print_int(args[1]).written) /\ va_arg(1)
    BY <1>1 DEF convert
  <2>6. args[1] = v
    BY <2>2
  <2>7. Send(r, Len(r)) /\ va_arg(1)
    BY <2>3, <2>5, <2>6, Zenon
  <2> HIDE DEF r, v
  <2>8. QED
    BY <2>2, <2>4, <2>7, Zenon DEF Send
<1>2. CASE c \in {"u", "x", "X"}
  <2>1. i.args = <<i.args[1]>> /\ i.args[1] \in Word
    BY <1>2 DEF WellMeant, Takes
  <2>2. Len(i.args) = 1 /\ i.args # <<>> /\ 1 \in DOMAIN i.args
    BY <2>1, OneOrTwo, Zenon
  <2> DEFINE v == i.args[1]
             base == IF c = "u" THEN 10 ELSE 16
             r == Numeral(v, base, pad_width)
             p == print_uint(args[1], base, pad_width)
  <2>3. base \in Base
    BY DEF Base
  <2>4. args[1] = v
    BY <2>2
  <2>5. Rendered(i) = r
    <3>1. CASE c = "u"
      BY <3>1 DEF Rendered
    <3>2. CASE c \in {"x", "X"}
      BY <3>2 DEF Rendered
    <3>3. QED
      BY <1>2, <3>1, <3>2
  <2>6. Send(p.text, p.written) /\ va_arg(1)
    BY <1>2 DEF convert
  <2>7. p = Sent(v, base, pad_width)
    BY <1>0, <2>1, <2>3, <2>4, PrintUint
  <2>8. p.text = r /\ p.written = Len(r)
    BY <2>7 DEF Sent
  <2> HIDE DEF p, r, v, base
  <2>9. QED
    BY <2>2, <2>5, <2>6, <2>8, Zenon DEF Send
<1>3. CASE c = "s"
  <2>1. i.args = <<i.args[1]>> /\ Rendered(i) = i.args[1]
    BY <1>3 DEF WellMeant, Takes, Rendered
  <2>2. Len(i.args) = 1 /\ i.args # <<>> /\ 1 \in DOMAIN i.args
    BY <2>1, OneOrTwo, Zenon
  <2>3. args[1] = Rendered(i)
    BY <2>1, <2>2, Zenon
  <2>4. Send(args[1], Len(args[1])) /\ va_arg(1)
    BY <1>3 DEF convert
  <2>5. QED
    BY <2>2, <2>3, <2>4, Zenon DEF Send
<1>4. CASE c = "h"
  <2> DEFINE v == i.args[1]
             ptr == i.args[2]
  <2>1. /\ i.args = <<v, ptr>> /\ v \in Word /\ ptr \in Seq(Byte)
        /\ negative(v) \/ v <= Len(ptr)
    BY <1>4 DEF WellMeant, Takes
  <2>2. Len(i.args) = 2 /\ i.args # <<>> /\ 1 \in DOMAIN i.args /\ 2 \in DOMAIN i.args
    BY <2>1, OneOrTwo, Zenon
  <2>3. args[1] = v /\ args[2] = ptr
    BY <2>2
  <2>4. Rendered(i) = IF v >= WordSize \div 2 THEN <<>>
                      ELSE FlattenSeq([j \in 1 .. v |-> Numeral(ptr[j], 16, 2)])
    BY <1>4 DEF Rendered
  <2>5. Bytes(v, ptr) = Rendered(i)
    BY <2>1, <2>4, HexBytes, Zenon
  <2>6. Send(Bytes(args[1], args[2]), Len(Bytes(args[1], args[2]))) /\ va_arg(2)
    BY <1>4 DEF convert
  <2> HIDE DEF v, ptr
  <2>7. QED
    BY <2>2, <2>3, <2>5, <2>6, Zenon DEF Send
<1>5. CASE c = "%"
  <2>1. i.args = <<>>
    BY <1>5 DEF WellMeant, Takes
  <2>2. Rendered(i) = <<"%">> /\ Len(<<"%">>) = 1
    BY <1>5 DEF Rendered
  <2>3. Send(<<"%">>, 1) /\ args' = args
    BY <1>5 DEF convert
  <2>4. QED
    BY <2>1, <2>2, <2>3, Zenon DEF Send
<1>6. CASE c \notin Named
  <2>1. i.args = <<>>
    BY <1>6 DEF WellMeant, Takes, Named
  <2>2. Rendered(i) = <<"%", c>> /\ Len(<<"%", c>>) = 2
    BY <1>6 DEF Rendered, Named
  <2>3. Send(<<"%", c>>, 2) /\ args' = args
    BY <1>6 DEF convert, Named
  <2>4. QED
    BY <2>1, <2>2, <2>3, Zenon DEF Send
<1>7. QED
  BY <1>1, <1>2, <1>3, <1>4, <1>5, <1>6 DEF Named

-----------------------------------------------------------------------------
(* Where an item is in a format, its arguments among all, and its output.  *)

Spellings(m) == [j \in DOMAIN m.items |-> Spelled(m.items[j])]
Takings(m) == [j \in DOMAIN m.items |-> m.items[j].args]
Renderings(m) == [j \in DOMAIN m.items |-> Rendered(m.items[j])]
Start(m, j) == Len(Upto(Char, Spellings(m))[j]) + 1
Rest(m, j) == SubSeq(Arguments(m), Len(Upto(Arg, Takings(m))[j]) + 1, Len(Arguments(m)))
Output(m, j) == Upto(Char, Renderings(m))[j]
Memory(m) == Format(m) \o <<NUL>> \o Behind

LEMMA MeantItems ==
    ASSUME NEW m \in Meanings
    PROVE  /\ Len(m.items) \in Nat /\ DOMAIN m.items = 1 .. Len(m.items)
           /\ \A j \in 1 .. Len(m.items) : WellMeant(m.items[j])
           /\ m.ending \in {"whole", "bare", "width"}
           /\ Spellings(m) \in [1 .. Len(m.items) -> Seq(Char)]
           /\ Takings(m) \in [1 .. Len(m.items) -> Seq(Arg)]
           /\ Renderings(m) \in [1 .. Len(m.items) -> Seq(Char)]
<1> DEFINE n == Len(m.items)
<1>1. /\ n \in Nat /\ DOMAIN m.items = 1 .. n /\ m.ending \in DOMAIN Endings
      /\ \A j \in DOMAIN m.items : WellMeant(m.items[j])
  BY PrintfAssumption
<1>2. m.ending \in {"whole", "bare", "width"}
  BY <1>1 DEF Endings
<1> HIDE DEF n
<1>3. ASSUME NEW j \in 1 .. n
      PROVE  /\ Spelled(m.items[j]) \in Seq(Char) /\ m.items[j].args \in Seq(Arg)
             /\ Rendered(m.items[j]) \in Seq(Char)
  <2>1. WellMeant(m.items[j])
    BY <1>1
  <2>2. QED
    BY <2>1, SpelledType, ArgsType, RenderedType
<1>4. /\ Spellings(m) \in [1 .. n -> Seq(Char)] /\ Takings(m) \in [1 .. n -> Seq(Arg)]
      /\ Renderings(m) \in [1 .. n -> Seq(Char)]
  BY <1>1, <1>3 DEF Spellings, Takings, Renderings
<1>5. QED
  BY <1>1, <1>2, <1>4 DEF n

LEMMA SpelledFacts ==
    ASSUME NEW i, WellMeant(i), i.conv # "text"
    PROVE  /\ Len(i.width) \in Nat /\ Len(Spelled(i)) = Len(i.width) + 2
           /\ Spelled(i)[1] = "%" /\ Spelled(i)[Len(i.width) + 2] = i.conv
           /\ \A k \in 1 .. Len(i.width) : Spelled(i)[k + 1] = i.width[k]
<1> DEFINE w == i.width
           d == i.conv
           t == <<"%">> \o w \o <<d>>
<1>1. w \in Seq(Decimal) /\ d \in Char /\ "%" \in Char
  BY WidthValue, CharsInChar
<1>2. Spelled(i) = t
  BY DEF Spelled
<1> HIDE DEF w, d
<1>3. w \in Seq(Char) /\ Len(w) \in Nat
  BY <1>1, CharsInChar
<1>4. Len(t) = Len(w) + 2 /\ t[1] = "%" /\ t[Len(w) + 2] = d
  BY <1>1, <1>3
<1>5. \A k \in 1 .. Len(w) : t[k + 1] = w[k]
  BY <1>1, <1>3
<1> HIDE DEF t
<1>6. QED
  BY <1>2, <1>3, <1>4, <1>5 DEF w, d

LEMMA MemoryOf ==
    ASSUME NEW m \in Meanings, m.ending # "width"
    PROVE  LET f == FlattenSeq(Spellings(m)) IN
           /\ Len(f) \in Nat
           /\ Len(Format(m)) = Len(f) + (IF m.ending = "bare" THEN 1 ELSE 0)
           /\ \A x \in 1 .. Len(f) : Memory(m)[x] = f[x]
           /\ m.ending = "whole" => Memory(m)[Len(f) + 1] = NUL
           /\ m.ending = "bare" => /\ Memory(m)[Len(f) + 1] = "%"
                                   /\ Memory(m)[Len(f) + 2] = NUL
<1> DEFINE f == FlattenSeq(Spellings(m))
           C == Char \cup {NUL}
<1>1. f \in Seq(Char)
  BY MeantItems, FlattenType, Zenon
<1>2. Format(m) = f \o Endings[m.ending]
  BY DEF Format, Spellings
<1> HIDE DEF f
<1>3. /\ f \in Seq(C) /\ Len(f) \in Nat /\ <<NUL>> \in Seq(C)
      /\ Behind \in Seq(C) /\ <<"%">> \in Seq(C)
  BY <1>1, PrintfAssumption
<1>4. CASE m.ending = "whole"
  <2>1. Endings[m.ending] = <<>>
    BY <1>4 DEF Endings
  <2>2. f \o <<>> = f
    BY <1>3
  <2>3. Format(m) = f /\ Memory(m) = f \o <<NUL>> \o Behind
    BY <1>2, <2>1, <2>2, Zenon DEF Memory
  <2>4. /\ \A x \in 1 .. Len(f) : (f \o <<NUL>> \o Behind)[x] = f[x]
        /\ (f \o <<NUL>> \o Behind)[Len(f) + 1] = NUL
    BY <1>3
  <2>5. Len(f) = Len(f) + 0
    BY <1>3
  <2>6. QED
    BY <1>3, <1>4, <2>3, <2>4, <2>5 DEF f
<1>5. CASE m.ending = "bare"
  <2>1. Endings[m.ending] = <<"%">>
    BY <1>5 DEF Endings
  <2> DEFINE t == f \o <<"%">>
  <2>2. Format(m) = t /\ Memory(m) = t \o <<NUL>> \o Behind
    BY <1>2, <2>1, Zenon DEF Memory
  <2>3. /\ t \in Seq(C) /\ Len(t) = Len(f) + 1 /\ t[Len(f) + 1] = "%"
        /\ \A x \in 1 .. Len(f) : t[x] = f[x]
    BY <1>3
  <2> HIDE DEF t
  <2>4. /\ \A x \in 1 .. Len(t) : (t \o <<NUL>> \o Behind)[x] = t[x]
        /\ (t \o <<NUL>> \o Behind)[Len(t) + 1] = NUL
    BY <1>3, <2>3
  <2>5. \A x \in 1 .. Len(f) : x \in 1 .. Len(t)
    BY <1>3, <2>3
  <2>6. Len(f) + 1 \in 1 .. Len(t) /\ Len(t) + 1 = Len(f) + 2
    BY <1>3, <2>3
  <2>7. /\ \A x \in 1 .. Len(f) : Memory(m)[x] = f[x]
        /\ Memory(m)[Len(f) + 1] = "%" /\ Memory(m)[Len(f) + 2] = NUL
    BY <2>2, <2>3, <2>4, <2>5, <2>6, Zenon
  <2>8. QED
    BY <1>3, <1>5, <2>2, <2>3, <2>7 DEF f
<1>6. QED
  BY <1>4, <1>5, MeantItems

LEMMA StartFacts ==
    ASSUME NEW m \in Meanings, m.ending # "width"
    PROVE  /\ Start(m, 0) = 1
           /\ \A j \in 0 .. Len(m.items) - 1 :
                 /\ Start(m, j) \in Nat /\ Start(m, j) >= 1
                 /\ Start(m, j + 1) = Start(m, j) + Len(Spelled(m.items[j + 1]))
                 /\ Start(m, j + 1) <= Len(Format(m)) + 1
                 /\ \A x \in 1 .. Len(Spelled(m.items[j + 1])) :
                       Memory(m)[(Start(m, j) + x) - 1] = Spelled(m.items[j + 1])[x]
           /\ Start(m, Len(m.items)) \in Nat
           /\ m.ending = "whole" => /\ Memory(m)[Start(m, Len(m.items))] = NUL
                                    /\ Start(m, Len(m.items)) = Len(Format(m)) + 1
           /\ m.ending = "bare" => /\ Memory(m)[Start(m, Len(m.items))] = "%"
                                   /\ Memory(m)[Start(m, Len(m.items)) + 1] = NUL
                                   /\ Start(m, Len(m.items)) = Len(Format(m))
<1> DEFINE n == Len(m.items)
           s == Spellings(m)
           U == Upto(Char, s)
           f == FlattenSeq(s)
<1>1. /\ n \in Nat /\ s \in [1 .. n -> Seq(Char)] /\ DOMAIN m.items = 1 .. n
      /\ \A j \in 1 .. n : s[j] = Spelled(m.items[j])
  BY MeantItems DEF Spellings
<1>2. /\ Len(f) \in Nat
      /\ Len(Format(m)) = Len(f) + (IF m.ending = "bare" THEN 1 ELSE 0)
      /\ \A x \in 1 .. Len(f) : Memory(m)[x] = f[x]
      /\ m.ending = "whole" => Memory(m)[Len(f) + 1] = NUL
      /\ m.ending = "bare" => Memory(m)[Len(f) + 1] = "%" /\ Memory(m)[Len(f) + 2] = NUL
  BY MemoryOf, Zenon
<1> HIDE DEF n, s
<1>3. f = U[n] /\ U[0] = <<>>
  BY <1>1, FlattenIsUpto, UptoFacts, Zenon
<1>4. \A j : Start(m, j) = Len(U[j]) + 1
  BY DEF Start, s
<1> HIDE DEF U, f
<1>5. Len(Format(m)) \in Nat /\ Len(Format(m)) >= Len(f)
  BY <1>2
<1>6. ASSUME NEW j \in 0 .. n - 1
      PROVE  /\ Start(m, j) \in Nat /\ Start(m, j) >= 1
             /\ Start(m, j + 1) = Start(m, j) + Len(Spelled(m.items[j + 1]))
             /\ Start(m, j + 1) <= Len(Format(m)) + 1
             /\ \A x \in 1 .. Len(Spelled(m.items[j + 1])) :
                   Memory(m)[(Start(m, j) + x) - 1] = Spelled(m.items[j + 1])[x]
  <2>1. j \in Nat /\ j + 1 <= n /\ j + 1 \in 1 .. n
    BY <1>1
  <2>2. Inside(U[j], s[j + 1], U[j + 1], f)
    BY <1>1, <2>1, Pieces, Zenon DEF U, f
  <2> DEFINE v == s[j + 1]
  <2>3. /\ Len(U[j]) \in Nat /\ Len(v) \in Nat /\ Len(U[j + 1]) = Len(U[j]) + Len(v)
        /\ Len(U[j + 1]) <= Len(f) /\ \A x \in 1 .. Len(v) : f[Len(U[j]) + x] = v[x]
    BY <2>2, Zenon DEF Inside
  <2>4. v = Spelled(m.items[j + 1])
    BY <1>1, <2>1, Zenon
  <2> HIDE DEF v
  <2>5. Start(m, j) = Len(U[j]) + 1 /\ Start(m, j + 1) = Len(U[j + 1]) + 1
    BY <1>4, Zenon
  <2>6. ASSUME NEW x \in 1 .. Len(v) PROVE Memory(m)[(Start(m, j) + x) - 1] = v[x]
    <3>1. (Start(m, j) + x) - 1 = Len(U[j]) + x /\ Len(U[j]) + x \in 1 .. Len(f)
      BY <1>2, <2>3, <2>5
    <3>2. QED
      BY <1>2, <2>3, <3>1, Zenon
  <2>7. /\ Start(m, j) \in Nat /\ Start(m, j) >= 1
        /\ Start(m, j + 1) = Start(m, j) + Len(v) /\ Start(m, j + 1) <= Len(Format(m)) + 1
    BY <1>2, <1>5, <2>3, <2>5
  <2>8. QED
    BY <2>4, <2>6, <2>7, Zenon
<1>7. Start(m, n) = Len(f) + 1
  BY <1>3, <1>4, Zenon
<1>8. Start(m, 0) = 1
  <2>1. Start(m, 0) = Len(<<>>) + 1
    BY <1>3, <1>4, Zenon
  <2>2. QED
    BY <2>1
<1>9. /\ Start(m, n) \in Nat
      /\ m.ending = "whole" => Memory(m)[Start(m, n)] = NUL /\ Start(m, n) = Len(Format(m)) + 1
      /\ m.ending = "bare" => /\ Memory(m)[Start(m, n)] = "%"
                              /\ Memory(m)[Start(m, n) + 1] = NUL
                              /\ Start(m, n) = Len(Format(m))
  <2>1. (Len(f) + 1) + 1 = Len(f) + 2 /\ Len(f) + 1 \in Nat
    BY <1>2
  <2>2. /\ m.ending = "whole" => Len(Format(m)) = Len(f)
        /\ m.ending = "bare" => Len(Format(m)) = Len(f) + 1
    BY <1>2
  <2>3. QED
    BY <1>2, <1>7, <2>1, <2>2, Zenon
<1>10. QED
  BY <1>6, <1>8, <1>9, Zenon DEF n

(* t is u without its first a.                                             *)
Dropped(C, u, a, t) ==
    /\ t \in Seq(C) /\ Len(t) = Len(u) - a /\ t \in [1 .. Len(u) - a -> C]
    /\ \A x \in 1 .. Len(u) - a : t[x] = u[a + x]

LEMMA SubSeqDrops ==
    ASSUME NEW C, NEW u \in Seq(C), NEW a \in Nat, a <= Len(u)
    PROVE  Dropped(C, u, a, SubSeq(u, a + 1, Len(u)))
<1> DEFINE t == SubSeq(u, a + 1, Len(u))
<1>1. t \in Seq(C) /\ Len(t) = Len(u) - a /\ \A x \in 1 .. Len(u) - a : t[x] = u[a + x]
  OBVIOUS
<1> HIDE DEF t
<1>2. t \in [1 .. Len(u) - a -> C]
  BY <1>1
<1>3. QED
  BY <1>1, <1>2, Zenon DEF Dropped, t

LEMMA SubSeqTwice ==
    ASSUME NEW C, NEW u \in Seq(C), NEW a \in Nat, NEW b \in Nat, a + b <= Len(u)
    PROVE  LET t == SubSeq(u, a + 1, Len(u)) IN
           /\ Dropped(C, u, a, t)
           /\ SubSeq(t, b + 1, Len(t)) = SubSeq(u, (a + b) + 1, Len(u))
<1> DEFINE t == SubSeq(u, a + 1, Len(u))
<1>0. a <= Len(u) /\ Dropped(C, u, a, t)
  <2>1. a <= Len(u)
    OBVIOUS
  <2>2. QED
    BY <2>1, SubSeqDrops, Zenon
<1>1. t \in Seq(C) /\ Len(t) = Len(u) - a /\ \A x \in 1 .. Len(t) : t[x] = u[a + x]
  BY <1>0 DEF Dropped
<1> HIDE DEF t
<1>2. SubSeq(t, b + 1, Len(t)) = SubSeq(u, (a + b) + 1, Len(u))
  <2> DEFINE p == SubSeq(t, b + 1, Len(t))
             q == SubSeq(u, (a + b) + 1, Len(u))
             k == Len(u) - (a + b)
  <2>1. Len(u) \in Nat /\ k \in Nat /\ Len(t) - b = k
    BY <1>1
  <2>2. p \in [1 .. k -> C] /\ \A x \in 1 .. k : p[x] = t[b + x]
    <3>1. b <= Len(t)
      BY <1>1
    <3>2. Dropped(C, t, b, p)
      BY <1>1, <3>1, SubSeqDrops, Zenon
    <3>3. QED
      BY <2>1, <3>2, Zenon DEF Dropped
  <2>3. q \in [1 .. k -> C] /\ \A x \in 1 .. k : q[x] = u[(a + b) + x]
    <3>1. a + b \in Nat
      OBVIOUS
    <3>2. Dropped(C, u, a + b, q)
      BY <3>1, SubSeqDrops, Zenon
    <3>3. QED
      BY <3>2, Zenon DEF Dropped
  <2> HIDE DEF p, q
  <2>4. ASSUME NEW x \in 1 .. k PROVE p[x] = q[x]
    <3>1. b + x \in 1 .. Len(t) /\ a + (b + x) = (a + b) + x
      BY <1>1, <2>1
    <3>2. QED
      BY <1>1, <2>2, <2>3, <3>1, Zenon
  <2>5. p = q
    BY <2>2, <2>3, <2>4
  <2>6. QED
    BY <2>5 DEF p, q
<1>3. QED
  BY <1>0, <1>2 DEF t

LEMMA RestFacts ==
    ASSUME NEW m \in Meanings
    PROVE  /\ Rest(m, 0) = Arguments(m) /\ Rest(m, Len(m.items)) = <<>>
           /\ \A j \in 0 .. Len(m.items) - 1 :
                 /\ \A x \in DOMAIN m.items[j + 1].args : Rest(m, j)[x] = m.items[j + 1].args[x]
                 /\ m.items[j + 1].args = <<>> => Rest(m, j + 1) = Rest(m, j)
                 /\ SubSeq(Rest(m, j), Len(m.items[j + 1].args) + 1, Len(Rest(m, j)))
                       = Rest(m, j + 1)
<1> DEFINE n == Len(m.items)
           s == Takings(m)
           U == Upto(Arg, s)
           f == Arguments(m)
<1>1. /\ n \in Nat /\ s \in [1 .. n -> Seq(Arg)] /\ DOMAIN m.items = 1 .. n
      /\ \A j \in 1 .. n : s[j] = m.items[j].args
  BY MeantItems DEF Takings
<1>2. f = FlattenSeq(s)
  BY DEF Arguments, Takings
<1> HIDE DEF n, s
<1>3. f = U[n] /\ U[0] = <<>> /\ f \in Seq(Arg)
  BY <1>1, <1>2, FlattenIsUpto, UptoFacts, FlattenType, Zenon
<1>4. \A j : Rest(m, j) = SubSeq(f, Len(U[j]) + 1, Len(f))
  BY DEF Rest, s
<1> HIDE DEF U, f
<1>5. Rest(m, 0) = f
  <2>1. Rest(m, 0) = SubSeq(f, Len(<<>>) + 1, Len(f))
    BY <1>3, <1>4, Zenon
  <2>2. SubSeq(f, Len(<<>>) + 1, Len(f)) = f
    BY <1>3
  <2>3. QED
    BY <2>1, <2>2, Zenon
<1>6. Rest(m, n) = <<>>
  <2>1. Rest(m, n) = SubSeq(f, Len(f) + 1, Len(f))
    BY <1>3, <1>4, Zenon
  <2>2. SubSeq(f, Len(f) + 1, Len(f)) = <<>>
    BY <1>3
  <2>3. QED
    BY <2>1, <2>2, Zenon
<1>7. ASSUME NEW j \in 0 .. n - 1
      PROVE  /\ \A x \in DOMAIN m.items[j + 1].args : Rest(m, j)[x] = m.items[j + 1].args[x]
             /\ m.items[j + 1].args = <<>> => Rest(m, j + 1) = Rest(m, j)
             /\ SubSeq(Rest(m, j), Len(m.items[j + 1].args) + 1, Len(Rest(m, j))) = Rest(m, j + 1)
  <2> DEFINE v == s[j + 1]
             a == Len(U[j])
             b == Len(v)
             t == Rest(m, j)
  <2>1. j \in Nat /\ j + 1 <= n /\ j + 1 \in 1 .. n
    BY <1>1
  <2>2. v = m.items[j + 1].args /\ v \in Seq(Arg)
    BY <1>1, <2>1
  <2>3. Inside(U[j], v, U[j + 1], f)
    BY <1>1, <1>2, <2>1, Pieces, Zenon DEF U
  <2>4. t = SubSeq(f, a + 1, Len(f)) /\ Rest(m, j + 1) = SubSeq(f, Len(U[j + 1]) + 1, Len(f))
    BY <1>4, Zenon
  <2>5. v \in Seq(Arg)
    BY <2>2
  <2> HIDE DEF v, t
  <2>6. /\ a \in Nat /\ b \in Nat /\ Len(U[j + 1]) = a + b /\ Len(U[j + 1]) <= Len(f)
        /\ \A x \in 1 .. b : f[a + x] = v[x]
    BY <2>3, Zenon DEF Inside
  <2> HIDE DEF a
  <2>7. a + b <= Len(f)
    BY <2>6
  <2>8. /\ t \in Seq(Arg) /\ Len(t) = Len(f) - a /\ \A x \in 1 .. Len(t) : t[x] = f[a + x]
        /\ SubSeq(t, b + 1, Len(t)) = SubSeq(f, (a + b) + 1, Len(f))
    <3> HIDE DEF b
    <3>1. f \in Seq(Arg) /\ a \in Nat /\ b \in Nat /\ t = SubSeq(f, a + 1, Len(f))
      BY <1>3, <2>4, <2>6, Zenon
    <3> DEFINE g == SubSeq(f, a + 1, Len(f))
    <3>2. /\ Dropped(Arg, f, a, g)
          /\ SubSeq(g, b + 1, Len(g)) = SubSeq(f, (a + b) + 1, Len(f))
      BY <2>7, <3>1, SubSeqTwice
    <3>3. /\ Dropped(Arg, f, a, t)
          /\ SubSeq(t, b + 1, Len(t)) = SubSeq(f, (a + b) + 1, Len(f))
      BY <3>1, <3>2, Zenon
    <3>4. Len(t) = Len(f) - a
      BY <3>3, Zenon DEF Dropped
    <3>5. QED
      BY <3>3, <3>4, Zenon DEF Dropped
  <2>9. DOMAIN v = 1 .. b
    BY <2>5
  <2>10. ASSUME NEW x \in DOMAIN v PROVE t[x] = v[x]
    <3>1. x \in 1 .. b /\ x \in 1 .. Len(t)
      BY <1>3, <2>6, <2>7, <2>8, <2>9
    <3>2. QED
      BY <2>6, <2>8, <3>1, Zenon
  <2>11. SubSeq(t, b + 1, Len(t)) = Rest(m, j + 1)
    BY <2>4, <2>6, <2>8, Zenon
  <2>12. ASSUME v = <<>> PROVE Rest(m, j + 1) = t
    <3>1. Len(<<>>) = 0
      OBVIOUS
    <3>2. b = 0
      BY <2>12, <3>1, Zenon
    <3>3. Len(U[j + 1]) = a
      BY <2>6, <3>2
    <3>4. QED
      BY <2>4, <3>3, Zenon
  <2>13. QED
    BY <2>2, <2>10, <2>11, <2>12, Zenon DEF t
<1>8. QED
  BY <1>5, <1>6, <1>7, Zenon DEF n, f

LEMMA OutputFacts ==
    ASSUME NEW m \in Meanings
    PROVE  /\ Output(m, 0) = <<>>
           /\ Output(m, Len(m.items))
                = FlattenSeq([j \in DOMAIN m.items |-> Rendered(m.items[j])])
           /\ \A j \in 0 .. Len(m.items) : Output(m, j) \in Seq(Char)
           /\ \A j \in 0 .. Len(m.items) - 1 :
                 Output(m, j + 1) = Output(m, j) \o Rendered(m.items[j + 1])
<1> DEFINE n == Len(m.items)
           s == Renderings(m)
           U == Upto(Char, s)
<1>1. /\ n \in Nat /\ s \in [1 .. n -> Seq(Char)]
      /\ \A j \in 1 .. n : s[j] = Rendered(m.items[j])
  BY MeantItems DEF Renderings
<1> HIDE DEF n, s
<1>2. /\ FlattenSeq(s) = U[n] /\ U[0] = <<>> /\ U \in [Nat -> Seq(Char)]
      /\ \A k \in Nat : k + 1 <= n => U[k + 1] = U[k] \o s[k + 1]
  BY <1>1, FlattenIsUpto, UptoFacts, Zenon
<1>3. \A j : Output(m, j) = U[j]
  BY DEF Output, s
<1> HIDE DEF U
<1>4. ASSUME NEW j \in 0 .. n - 1 PROVE U[j + 1] = U[j] \o Rendered(m.items[j + 1])
  <2>1. j \in Nat /\ j + 1 <= n /\ j + 1 \in 1 .. n
    BY <1>1
  <2>2. QED
    BY <1>1, <1>2, <2>1, Zenon
<1>5. ASSUME NEW j \in 0 .. n PROVE U[j] \in Seq(Char)
  BY <1>1, <1>2
<1>6. QED
  BY <1>2, <1>3, <1>4, <1>5, Zenon DEF n, s, Renderings

-----------------------------------------------------------------------------
(* The invariant: while a format is read, its first j items have been      *)
(* printed and have taken their arguments; of the one behind them the '%', *)
(* k characters of the width, or all have been read.                       *)

Item(m, j) == m.items[j + 1]
Converts(m, j) == j < Len(m.items) /\ Item(m, j).conv # "text"
Printed(m, j) ==
    /\ j \in 0 .. Len(m.items)
    /\ out = Output(m, j) /\ written = Len(Output(m, j)) /\ args = Rest(m, j)
AtItem(m, j) == pc = "while" /\ pos = Start(m, j)
AtPercent(m, j) ==
    /\ pc = "percent" /\ pos = Start(m, j) + 1 /\ pad_width = 0
    /\ Converts(m, j) \/ (j = Len(m.items) /\ m.ending = "bare")
AtDigit(m, j, k) ==
    /\ pc = "digits" /\ Converts(m, j) /\ k \in 0 .. Len(Item(m, j).width)
    /\ pos = Start(m, j) + k + 2 /\ c = Spelled(Item(m, j))[k + 2]
    /\ pad_width = Partial(Item(m, j).width, k)
AtSwitch(m, j) ==
    /\ pc = "switch" /\ Converts(m, j) /\ pos = Start(m, j + 1)
    /\ c = Item(m, j).conv /\ pad_width = Value(Item(m, j).width)
AtEnd(m, j) == pc = "return" /\ j = Len(m.items)
Reads(m, j) ==
    AtItem(m, j) \/ AtPercent(m, j) \/ (\E k : AtDigit(m, j, k)) \/ AtSwitch(m, j) \/ AtEnd(m, j)
PrintInv ==
    /\ meant \in Meanings
    /\ meant.ending # "width" => \E j : Printed(meant, j) /\ Reads(meant, j)

LEMMA ItemFacts ==
    ASSUME NEW m \in Meanings, m.ending # "width", NEW j \in 0 .. Len(m.items),
           j # Len(m.items)
    PROVE  /\ j \in 0 .. Len(m.items) - 1 /\ j + 1 \in 0 .. Len(m.items) /\ j < Len(m.items)
           /\ WellMeant(Item(m, j)) /\ Rendered(Item(m, j)) \in Seq(Char)
           /\ Output(m, j) \in Seq(Char)
           /\ Output(m, j + 1) = Output(m, j) \o Rendered(Item(m, j))
           /\ Len(Output(m, j + 1)) = Len(Output(m, j)) + Len(Rendered(Item(m, j)))
<1>1. Len(m.items) \in Nat /\ \A i \in 1 .. Len(m.items) : WellMeant(m.items[i])
  BY MeantItems
<1>2. /\ j \in 0 .. Len(m.items) - 1 /\ j + 1 \in 0 .. Len(m.items) /\ j + 1 \in 1 .. Len(m.items)
      /\ j < Len(m.items)
  BY <1>1
<1>3. WellMeant(Item(m, j))
  BY <1>1, <1>2, Zenon DEF Item
<1>4. Rendered(Item(m, j)) \in Seq(Char)
  BY <1>3, RenderedType, Zenon
<1>5. Output(m, j) \in Seq(Char) /\ Output(m, j + 1) = Output(m, j) \o Rendered(Item(m, j))
  BY <1>2, OutputFacts, Zenon DEF Item
<1> DEFINE u == Output(m, j)
           v == Rendered(Item(m, j))
<1> HIDE DEF u, v
<1>6. u \in Seq(Char) /\ v \in Seq(Char)
  BY <1>4, <1>5, Zenon DEF u, v
<1>7. Len(u \o v) = Len(u) + Len(v)
  BY <1>6
<1>8. Len(Output(m, j + 1)) = Len(Output(m, j)) + Len(Rendered(Item(m, j)))
  BY <1>5, <1>7, Zenon DEF u, v
<1>9. QED
  BY <1>2, <1>3, <1>4, <1>5, <1>8, Zenon

(* A character of an item is where it is expected.                         *)
LEMMA ItemInMemory ==
    ASSUME NEW m \in Meanings, m.ending # "width", NEW j \in 0 .. Len(m.items) - 1, meant = m
    PROVE  /\ Start(m, j) \in Nat
           /\ Start(m, j + 1) = Start(m, j) + Len(Spelled(Item(m, j)))
           /\ Start(m, j + 1) <= Len(Format(m)) + 1
           /\ \A x \in 1 .. Len(Spelled(Item(m, j))) :
                 mem[(Start(m, j) + x) - 1] = Spelled(Item(m, j))[x]
<1>1. mem = Memory(m)
  BY Zenon DEF mem, Memory
<1>2. QED
  BY <1>1, StartFacts, Zenon DEF Item

LEMMA NextChar ==
    ASSUME NEW m \in Meanings, m.ending # "width", meant = m, NEW j, Printed(m, j), Reads(m, j),
           next_char
    PROVE  \E k : Printed(m, k)' /\ Reads(m, k)'
<1> DEFINE n == Len(m.items)
<1>1. /\ j \in 0 .. n /\ n \in Nat /\ m.ending \in {"whole", "bare", "width"}
      /\ out = Output(m, j) /\ written = Len(Output(m, j)) /\ args = Rest(m, j)
  BY MeantItems DEF Printed
<1>2. pc = "while" /\ pos = Start(m, j) /\ args' = args
  BY DEF next_char, Reads, AtItem, AtPercent, AtDigit, AtSwitch, AtEnd
<1>3. mem[pos] = NUL => pc' = "return" /\ UNCHANGED <<pos, c, pad_width, out, written>>
  BY DEF next_char
<1>4. mem[pos] # NUL => /\ c' = mem[pos] /\ pos' = pos + 1 /\ pad_width' = 0
                        /\ \/ c' # "%" /\ Send(<<c'>>, 1) /\ UNCHANGED pc
                           \/ c' = "%" /\ pc' = "percent" /\ UNCHANGED <<out, written>>
  BY DEF next_char
<1>5. CASE j = n
  <2>1. /\ m.ending = "whole" => mem[pos] = NUL
        /\ m.ending = "bare" => mem[pos] = "%"
    <3>1. mem = Memory(m)
      BY Zenon DEF mem, Memory
    <3>2. QED
      BY <1>2, <1>5, <3>1, StartFacts, Zenon
  <2>2. CASE m.ending = "whole"
    <3>1. Printed(m, j)' /\ AtEnd(m, j)'
      BY <1>1, <1>2, <1>3, <1>5, <2>1, <2>2, Zenon DEF Printed, AtEnd
    <3>2. QED
      BY <3>1, Zenon DEF Reads
  <2>3. CASE m.ending = "bare"
    <3>1. mem[pos] # NUL /\ mem[pos] = "%"
      BY <2>1, <2>3, CharsInChar
    <3>2. c' = "%" /\ pc' = "percent" /\ pad_width' = 0 /\ pos' = pos + 1
          /\ out' = out /\ written' = written
      BY <1>4, <3>1, Zenon
    <3>3. Printed(m, j)' /\ AtPercent(m, j)'
      BY <1>1, <1>2, <1>5, <2>3, <3>2, Zenon DEF Printed, AtPercent
    <3>4. QED
      BY <3>3, Zenon DEF Reads
  <2>4. QED
    BY <1>1, <2>2, <2>3
<1>6. CASE j # n
  <2> DEFINE i == Item(m, j)
  <2>1. /\ j \in 0 .. n - 1 /\ j + 1 \in 0 .. n /\ j < n /\ WellMeant(i)
        /\ Output(m, j + 1) = Output(m, j) \o Rendered(i)
        /\ Len(Output(m, j + 1)) = Len(Output(m, j)) + Len(Rendered(i))
    BY <1>1, <1>6, ItemFacts, Zenon
  <2>2. /\ Start(m, j) \in Nat /\ Start(m, j + 1) = Start(m, j) + Len(Spelled(i))
        /\ \A x \in 1 .. Len(Spelled(i)) : mem[(Start(m, j) + x) - 1] = Spelled(i)[x]
    BY <2>1, ItemInMemory, Zenon
  <2>3. ASSUME 1 \in 1 .. Len(Spelled(i)) PROVE mem[pos] = Spelled(i)[1]
    <3>1. (Start(m, j) + 1) - 1 = Start(m, j)
      BY <2>2
    <3>2. QED
      BY <1>2, <2>2, <2>3, <3>1, Zenon
  <2>4. CASE i.conv = "text"
    <3>1. /\ i.char \in Char \ {"%"} /\ i.args = <<>> /\ Spelled(i) = <<i.char>>
          /\ Rendered(i) = <<i.char>>
      BY <2>1, <2>4, CharsInChar DEF WellMeant, Spelled, Rendered
    <3>2. Len(<<i.char>>) = 1 /\ 1 \in 1 .. 1 /\ <<i.char>>[1] = i.char
      OBVIOUS
    <3>3. mem[pos] = i.char
      BY <2>3, <3>1, <3>2, Zenon
    <3>4. i.char # NUL /\ i.char # "%"
      BY <3>1, CharsInChar
    <3>5. /\ c' = i.char /\ pos' = pos + 1 /\ pc' = pc
          /\ out' = out \o <<i.char>> /\ written' = written + 1
      BY <1>4, <3>3, <3>4, Zenon DEF Send
    <3>6. Rest(m, j + 1) = Rest(m, j)
      BY <2>1, <3>1, RestFacts, Zenon DEF Item
    <3>7. Printed(m, j + 1)'
      BY <1>1, <1>2, <2>1, <3>1, <3>2, <3>5, <3>6, Zenon DEF Printed
    <3>8. AtItem(m, j + 1)'
      BY <1>2, <2>2, <3>1, <3>2, <3>5, Zenon DEF AtItem
    <3>9. QED
      BY <3>7, <3>8, Zenon DEF Reads
  <2>5. CASE i.conv # "text"
    <3>1. Spelled(i)[1] = "%" /\ Len(Spelled(i)) = Len(i.width) + 2 /\ Len(i.width) \in Nat
      BY <2>1, <2>5, SpelledFacts, Zenon
    <3>2. 1 \in 1 .. Len(Spelled(i))
      BY <3>1
    <3>3. mem[pos] = "%" /\ mem[pos] # NUL
      BY <2>3, <3>1, <3>2, CharsInChar, Zenon
    <3>4. /\ pc' = "percent" /\ pos' = pos + 1 /\ pad_width' = 0
          /\ out' = out /\ written' = written
      BY <1>4, <3>3, Zenon
    <3>5. Printed(m, j)' /\ AtPercent(m, j)'
      BY <1>1, <1>2, <2>1, <2>5, <3>4, Zenon DEF Printed, AtPercent, Converts
    <3>6. QED
      BY <3>5, Zenon DEF Reads
  <2>6. QED
    BY <2>4, <2>5
<1>7. QED
  BY <1>5, <1>6

LEMMA Percent ==
    ASSUME NEW m \in Meanings, m.ending # "width", meant = m, NEW j, Printed(m, j), Reads(m, j),
           percent
    PROVE  \E k : Printed(m, k)' /\ Reads(m, k)'
<1> DEFINE n == Len(m.items)
           i == Item(m, j)
<1>1. /\ j \in 0 .. n /\ n \in Nat
      /\ out = Output(m, j) /\ written = Len(Output(m, j)) /\ args = Rest(m, j)
  BY MeantItems DEF Printed
<1>2. AtPercent(m, j)
  BY DEF percent, Reads, AtItem, AtDigit, AtSwitch, AtEnd
<1>3. /\ c' = mem[pos] /\ pos' = pos + 1 /\ pc' = IF c' = NUL THEN "return" ELSE "digits"
      /\ pad_width' = pad_width /\ args' = args /\ out' = out /\ written' = written
  BY DEF percent
<1>4. Printed(m, j)'
  BY <1>1, <1>3, Zenon DEF Printed
<1>5. CASE j = n
  <2>1. m.ending = "bare"
    BY <1>1, <1>2, <1>5 DEF AtPercent, Converts
  <2>2. mem = Memory(m)
    BY Zenon DEF mem, Memory
  <2>3. mem[pos] = NUL
    BY <1>2, <1>5, <2>1, <2>2, StartFacts, Zenon DEF AtPercent
  <2>4. AtEnd(m, j)'
    BY <1>3, <1>5, <2>3, Zenon DEF AtEnd
  <2>5. QED
    BY <1>4, <2>4, Zenon DEF Reads
<1>6. CASE j # n
  <2>1. j \in 0 .. n - 1 /\ WellMeant(i)
    BY <1>1, <1>6, ItemFacts, Zenon
  <2>2. Converts(m, j) /\ pos = Start(m, j) + 1 /\ pad_width = 0
    BY <1>2, <1>6, Zenon DEF AtPercent
  <2>3. i.conv # "text"
    BY <2>2, Zenon DEF Converts
  <2>4. /\ Start(m, j) \in Nat
        /\ \A x \in 1 .. Len(Spelled(i)) : mem[(Start(m, j) + x) - 1] = Spelled(i)[x]
    BY <2>1, ItemInMemory, Zenon
  <2>5. /\ Len(i.width) \in Nat /\ Len(Spelled(i)) = Len(i.width) + 2
        /\ i.width \in [1 .. Len(i.width) -> Decimal]
    BY <2>1, <2>3, SpelledFacts, WidthValue, Zenon
  <2>6. mem[pos] = Spelled(i)[2]
    <3>1. (Start(m, j) + 2) - 1 = Start(m, j) + 1 /\ 2 \in 1 .. Len(Spelled(i))
      BY <2>4, <2>5
    <3>2. QED
      BY <2>2, <2>4, <3>1, Zenon
  <2>7. Spelled(i)[2] # NUL
    <3>1. Spelled(i) \in Seq(Char)
      BY <2>1, SpelledType, Zenon
    <3>2. 2 \in 1 .. Len(Spelled(i))
      BY <2>5
    <3>3. ASSUME NEW t \in Seq(Char), 2 \in 1 .. Len(t) PROVE t[2] \in Char
      BY <3>3
    <3>4. Spelled(i)[2] \in Char
      BY <3>1, <3>2, <3>3, Zenon
    <3>5. QED
      BY <3>4, CharsInChar, Zenon
  <2>8. Partial(i.width, 0) = 0
    BY <2>5, PartialValues, Zenon
  <2>9. pos' = Start(m, j) + 0 + 2 /\ 0 + 2 = 2 /\ 0 \in 0 .. Len(i.width)
    BY <1>3, <2>2, <2>4, <2>5
  <2>10. AtDigit(m, j, 0)'
    BY <1>3, <2>2, <2>6, <2>7, <2>8, <2>9, Zenon DEF AtDigit, Converts
  <2>11. QED
    BY <1>4, <2>10, Zenon DEF Reads
<1>7. QED
  BY <1>5, <1>6

LEMMA Digits ==
    ASSUME NEW m \in Meanings, m.ending # "width", meant = m, NEW j, Printed(m, j), Reads(m, j),
           digits
    PROVE  \E k : Printed(m, k)' /\ Reads(m, k)'
<1> DEFINE n == Len(m.items)
           i == Item(m, j)
           w == i.width
<1>1. /\ j \in 0 .. n /\ n \in Nat
      /\ out = Output(m, j) /\ written = Len(Output(m, j)) /\ args = Rest(m, j)
  BY MeantItems DEF Printed
<1>2. PICK k : AtDigit(m, j, k)
  BY DEF digits, Reads, AtItem, AtPercent, AtSwitch, AtEnd
<1>3. /\ Converts(m, j) /\ k \in 0 .. Len(w) /\ pos = Start(m, j) + k + 2
      /\ c = Spelled(i)[k + 2] /\ pad_width = Partial(w, k) /\ pc = "digits"
  BY <1>2, Zenon DEF AtDigit
<1>4. Printed(m, j)'
  BY <1>1, Zenon DEF digits, Printed
<1>5. i.conv # "text" /\ j # n
  BY <1>1, <1>3 DEF Converts
<1>6. j \in 0 .. n - 1 /\ WellMeant(i)
  BY <1>1, <1>5, ItemFacts, Zenon
<1>7. /\ Len(w) \in Nat /\ Len(Spelled(i)) = Len(w) + 2 /\ w \in [1 .. Len(w) -> Decimal]
      /\ Spelled(i)[Len(w) + 2] = i.conv /\ i.conv \in Char \ Decimal
      /\ \A x \in 1 .. Len(w) : Spelled(i)[x + 1] = w[x]
  BY <1>5, <1>6, SpelledFacts, WidthValue, Zenon
<1>8. /\ Start(m, j) \in Nat /\ Start(m, j + 1) = Start(m, j) + Len(Spelled(i))
      /\ \A x \in 1 .. Len(Spelled(i)) : mem[(Start(m, j) + x) - 1] = Spelled(i)[x]
  BY <1>6, ItemInMemory, Zenon
<1>9. /\ Partial(w, Len(w)) = Value(w)
      /\ \A x \in 0 .. Len(w) - 1 : Partial(w, x + 1) = 10 * Partial(w, x) + ValueOf(w[x + 1])
  BY <1>7, PartialValues, Zenon
<1> HIDE DEF w
<1> DEFINE l == Len(w)
           at == Start(m, j)
           spelled == Len(Spelled(i))
<1>10. /\ k \in 0 .. l /\ l \in Nat /\ spelled = l + 2 /\ at \in Nat
       /\ pos = at + k + 2 /\ Start(m, j + 1) = at + spelled
  BY <1>3, <1>7, <1>8, Zenon
<1>11. CASE k = Len(w)
  <2>1. c = i.conv
    BY <1>3, <1>7, <1>11, Zenon
  <2>2. c \notin Decimal
    BY <1>7, <2>1, Zenon
  <2>3. pc' = "switch" /\ pos' = pos /\ c' = c /\ pad_width' = pad_width
    BY <2>2, Zenon DEF digits
  <2>4. pos = Start(m, j + 1)
    <3> HIDE DEF l, at, spelled
    <3>1. k = l
      BY <1>11 DEF l
    <3>2. QED
      BY <1>10, <3>1
  <2>5. pad_width = Value(w)
    BY <1>3, <1>9, <1>11, Zenon
  <2>6. AtSwitch(m, j)'
    BY <1>3, <2>1, <2>3, <2>4, <2>5, Zenon DEF AtSwitch, w
  <2>7. QED
    BY <1>4, <2>6, Zenon DEF Reads
<1>12. CASE k # Len(w)
  <2>1. /\ k \in Nat /\ k + 1 \in 1 .. Len(w) /\ k + 1 \in 0 .. Len(w) /\ k \in 0 .. Len(w) - 1
        /\ (k + 1) + 1 = k + 2 /\ k + 3 \in 1 .. Len(Spelled(i)) /\ (k + 1) + 2 = k + 3
        /\ (Start(m, j) + (k + 3)) - 1 = Start(m, j) + k + 2
        /\ (Start(m, j) + k + 2) + 1 = Start(m, j) + (k + 1) + 2
    <3> HIDE DEF l, at, spelled
    <3>1. k # l
      BY <1>12 DEF l
    <3>2. /\ k \in Nat /\ k + 1 \in 1 .. l /\ k + 1 \in 0 .. l /\ k \in 0 .. l - 1
          /\ (k + 1) + 1 = k + 2 /\ k + 3 \in 1 .. spelled /\ (k + 1) + 2 = k + 3
          /\ (at + (k + 3)) - 1 = at + k + 2
          /\ (at + k + 2) + 1 = at + (k + 1) + 2
      BY <1>10, <3>1
    <3>3. QED
      BY <3>2, Zenon DEF l, at, spelled
  <2>2. c = w[k + 1]
    BY <1>3, <1>7, <2>1, Zenon
  <2>3. c \in Decimal
    <3>1. w[k + 1] \in Decimal
      BY <1>7, <2>1
    <3>2. QED
      BY <2>2, <3>1, Zenon
  <2>4. /\ pad_width' = 10 * pad_width + ValueOf(c) /\ c' = mem[pos] /\ pos' = pos + 1
        /\ pc' = pc
    BY <2>3, Zenon DEF digits
  <2>5. pad_width' = Partial(w, k + 1)
    BY <1>3, <1>9, <2>1, <2>2, <2>4, Zenon
  <2>6. c' = Spelled(i)[(k + 1) + 2]
    BY <1>3, <1>8, <2>1, <2>4, Zenon
  <2>7. pos' = Start(m, j) + (k + 1) + 2
    BY <1>3, <2>1, <2>4, Zenon
  <2>8. AtDigit(m, j, k + 1)'
    BY <1>3, <2>1, <2>4, <2>5, <2>6, <2>7, Zenon DEF AtDigit, w
  <2>9. QED
    BY <1>4, <2>8, Zenon DEF Reads
<1>13. QED
  BY <1>11, <1>12

LEMMA Convert ==
    ASSUME NEW m \in Meanings, m.ending # "width", meant = m, NEW j, Printed(m, j), Reads(m, j),
           convert
    PROVE  \E k : Printed(m, k)' /\ Reads(m, k)'
<1> DEFINE n == Len(m.items)
           i == Item(m, j)
<1>1. /\ j \in 0 .. n /\ n \in Nat
      /\ out = Output(m, j) /\ written = Len(Output(m, j)) /\ args = Rest(m, j)
  BY MeantItems DEF Printed
<1>2. AtSwitch(m, j)
  BY DEF convert, Reads, AtItem, AtPercent, AtDigit, AtEnd
<1>3. /\ Converts(m, j) /\ pos = Start(m, j + 1) /\ c = i.conv /\ pad_width = Value(i.width)
  BY <1>2, Zenon DEF AtSwitch
<1>4. i.conv # "text" /\ j # n
  BY <1>1, <1>3 DEF Converts
<1>5. /\ j \in 0 .. n - 1 /\ j + 1 \in 0 .. n /\ WellMeant(i)
      /\ Output(m, j + 1) = Output(m, j) \o Rendered(i)
      /\ Len(Output(m, j + 1)) = Len(Output(m, j)) + Len(Rendered(i))
  BY <1>1, <1>4, ItemFacts, Zenon
<1>6. /\ \A x \in DOMAIN i.args : Rest(m, j)[x] = i.args[x]
      /\ i.args = <<>> => Rest(m, j + 1) = Rest(m, j)
      /\ SubSeq(Rest(m, j), Len(i.args) + 1, Len(Rest(m, j))) = Rest(m, j + 1)
  BY <1>5, RestFacts, Zenon DEF Item
<1>7. \A x \in DOMAIN i.args : args[x] = i.args[x]
  BY <1>1, <1>6, Zenon
<1>8. /\ out' = out \o Rendered(i) /\ written' = written + Len(Rendered(i))
      /\ IF i.args = <<>> THEN args' = args ELSE va_arg(Len(i.args))
  BY <1>3, <1>4, <1>5, <1>7, ConvertSends, Zenon
<1>9. args' = Rest(m, j + 1)
  <2>1. CASE i.args = <<>>
    BY <1>1, <1>6, <1>8, <2>1, Zenon
  <2>2. CASE i.args # <<>>
    BY <1>1, <1>6, <1>8, <2>2, Zenon DEF va_arg
  <2>3. QED
    BY <2>1, <2>2
<1>10. pc' = "while" /\ pos' = pos
  BY Zenon DEF convert
<1>11. Printed(m, j + 1)'
  BY <1>1, <1>5, <1>8, <1>9, Zenon DEF Printed
<1>12. AtItem(m, j + 1)'
  BY <1>3, <1>10, Zenon DEF AtItem
<1>13. QED
  BY <1>11, <1>12, Zenon DEF Reads

(* The invariant holds in every reachable state.                           *)
THEOREM PrintInvariant == Spec => []PrintInv
<1>1. Init => PrintInv
  <2>1. SUFFICES ASSUME Init, meant.ending # "width"
                 PROVE  Printed(meant, 0) /\ Reads(meant, 0)
    BY DEF Init, PrintInv
  <2>2. meant \in Meanings /\ pc = "while" /\ pos = 1 /\ args = Arguments(meant)
        /\ out = <<>> /\ written = 0
    BY <2>1 DEF Init
  <2>3. Output(meant, 0) = <<>> /\ Rest(meant, 0) = Arguments(meant) /\ Start(meant, 0) = 1
    BY <2>1, <2>2, OutputFacts, RestFacts, StartFacts, Zenon
  <2>4. Len(<<>>) = 0 /\ 0 \in 0 .. Len(meant.items)
    BY <2>2, MeantItems
  <2>5. QED
    BY <2>2, <2>3, <2>4, Zenon DEF Printed, Reads, AtItem
<1>2. PrintInv /\ [Next]_vars => PrintInv'
  <2> SUFFICES ASSUME PrintInv, [Next]_vars PROVE PrintInv'
    OBVIOUS
  <2>1. meant \in Meanings /\ meant' = meant
    BY DEF PrintInv, Next, next_char, percent, digits, convert, vars
  <2>2. ASSUME NEW m \in Meanings, meant = m, m.ending # "width"
        PROVE  \E k : Printed(m, k)' /\ Reads(m, k)'
    <3>1. PICK j : Printed(m, j) /\ Reads(m, j)
      BY <2>2, Zenon DEF PrintInv
    <3>2. CASE next_char
      BY <2>2, <3>1, <3>2, NextChar, Zenon
    <3>3. CASE percent
      BY <2>2, <3>1, <3>3, Percent, Zenon
    <3>4. CASE digits
      BY <2>2, <3>1, <3>4, Digits, Zenon
    <3>5. CASE convert
      BY <2>2, <3>1, <3>5, Convert, Zenon
    <3>6. CASE UNCHANGED vars
      <4>1. Printed(m, j)' /\ Reads(m, j)'
        BY <3>1, <3>6, Zenon DEF vars, Printed, Reads, AtItem, AtPercent, AtDigit, AtSwitch, AtEnd
      <4>2. QED
        BY <4>1, Zenon
    <3>7. QED
      BY <3>2, <3>3, <3>4, <3>5, <3>6 DEF Next
  <2>3. QED
    BY <2>1, <2>2, Zenon DEF PrintInv
<1>3. QED
  BY <1>1, <1>2, PTL DEF Spec

(* vfnprintf() prints what its caller means, with every argument taken by  *)
(* its own conversion, and returns how many characters that is: for every  *)
(* format that does not end in a width, and all arguments.                 *)
THEOREM PrintsWhatIsMeant == Spec => []PrintsAsMeant
<1>1. PrintInv => PrintsAsMeant
  <2> SUFFICES ASSUME PrintInv, pc = "return", meant.ending # "width"
               PROVE  /\ out = FlattenSeq([j \in DOMAIN meant.items |-> Rendered(meant.items[j])])
                      /\ written = Len(out) /\ args = <<>>
    BY DEF PrintsAsMeant
  <2>1. PICK j : Printed(meant, j) /\ Reads(meant, j)
    BY Zenon DEF PrintInv
  <2>2. j = Len(meant.items)
    BY <2>1 DEF Reads, AtItem, AtPercent, AtDigit, AtSwitch, AtEnd
  <2>3. meant \in Meanings
    BY DEF PrintInv
  <2>4. /\ Rest(meant, j) = <<>>
        /\ Output(meant, j) = FlattenSeq([k \in DOMAIN meant.items |-> Rendered(meant.items[k])])
    BY <2>2, <2>3, RestFacts, OutputFacts, Zenon
  <2>5. QED
    BY <2>1, <2>4, Zenon DEF Printed
<1>2. QED
  BY <1>1, PrintInvariant, PTL

(* vfnprintf() neither goes on behind the terminator nor prints one, for   *)
(* every format that does not end in a width.                              *)
THEOREM ReadsOnlyTheFormat == Spec => []StaysInFormat
<1>1. PrintInv => StaysInFormat
  <2> SUFFICES ASSUME PrintInv, meant.ending # "width"
               PROVE  /\ pc # "return" => ~(pos > Len(Format(meant)) + 1)
                      /\ NUL \notin {out[i] : i \in DOMAIN out}
    BY DEF StaysInFormat
  <2> DEFINE m == meant
             f == Len(Format(m))
             n == Len(m.items)
  <2>1. PICK j : Printed(m, j) /\ Reads(m, j)
    BY Zenon DEF PrintInv
  <2>2. m \in Meanings /\ m.ending # "width" /\ j \in 0 .. n
    BY <2>1 DEF PrintInv, Printed
  <2>3. NUL \notin {out[i] : i \in DOMAIN out}
    <3>1. out \in Seq(Char)
      BY <2>1, <2>2, OutputFacts, Zenon DEF Printed
    <3>2. QED
      BY <3>1, CharsInChar
  <2>4. f \in Nat /\ n \in Nat /\ m.ending \in {"whole", "bare"}
    <3>1. Len(FlattenSeq(Spellings(m))) \in Nat
          /\ f = Len(FlattenSeq(Spellings(m))) + (IF m.ending = "bare" THEN 1 ELSE 0)
      BY <2>2, MemoryOf, Zenon
    <3>2. n \in Nat /\ m.ending \in {"whole", "bare"}
      BY <2>2, MeantItems
    <3> HIDE DEF f
    <3>3. QED
      BY <3>1, <3>2
  <2>5. ASSUME pc # "return" PROVE pos \in Int /\ pos <= f + 1
    <3>1. CASE j = n
      <4>1. /\ ~Converts(m, j) /\ Start(m, n) \in Nat
            /\ m.ending = "whole" => Start(m, n) = f + 1
            /\ m.ending = "bare" => Start(m, n) = f
        BY <2>2, <2>4, <3>1, StartFacts DEF Converts
      <4>2. \/ pos = Start(m, n)
            \/ pos = Start(m, n) + 1 /\ m.ending = "bare"
        BY <2>1, <2>5, <3>1, <4>1, Zenon
        DEF Reads, AtItem, AtPercent, AtDigit, AtSwitch, AtEnd
      <4>3. m.ending = "whole" \/ m.ending = "bare"
        BY <2>4
      <4> HIDE DEF f, n, m
      <4>4. QED
        BY <2>4, <4>1, <4>2, <4>3
    <3>2. CASE j # n
      <4> DEFINE i == Item(m, j)
                 s == Len(Spelled(i))
                 w == Len(i.width)
                 at == Start(m, j)
      <4>1. j \in 0 .. n - 1 /\ WellMeant(i) /\ ~AtEnd(m, j)
        BY <2>2, <3>2, ItemFacts, Zenon DEF AtEnd
      <4>2. /\ at \in Nat /\ Start(m, j + 1) = at + s /\ Start(m, j + 1) <= f + 1
        BY <2>2, <4>1, StartFacts, Zenon DEF Item
      <4>3. Spelled(i) \in Seq(Char)
        BY <4>1, SpelledType, Zenon
      <4>4. s \in Nat
        BY <4>3
      <4>5. ASSUME i.conv # "text" PROVE w \in Nat /\ s = w + 2
        BY <4>1, <4>5, SpelledFacts, Zenon
      <4>6. \/ pos = at
            \/ pos = at + 1 /\ i.conv # "text"
            \/ i.conv # "text" /\ \E k \in 0 .. w : pos = at + k + 2
            \/ pos = at + s
        BY <2>1, <3>2, <4>1, <4>2, Zenon
        DEF Reads, AtItem, AtPercent, AtDigit, AtSwitch, Converts
      <4> HIDE DEF at, s, w, f, i
      <4>7. at + s <= f + 1
        BY <4>2, Zenon
      <4>8. QED
        BY <2>4, <4>2, <4>4, <4>5, <4>6, <4>7
    <3>3. QED
      BY <3>1, <3>2
  <2>6. pc # "return" => ~(pos > f + 1)
    <3> HIDE DEF f
    <3>1. pc # "return" => pos \in Int /\ pos <= f + 1
      BY <2>5
    <3>2. QED
      BY <2>4, <3>1
  <2>7. QED
    BY <2>3, <2>6
<1>2. QED
  BY <1>1, PrintInvariant, PTL
=============================================================================
