---------------------------- MODULE ValuesProofs ----------------------------
(***************************************************************************)
(* What the aggregated confidence promises for any number of sources and   *)
(* any confidences.                                                        *)
(***************************************************************************)
EXTENDS MCValues, FiniteSetTheorems, WellFoundedInduction, TLAPS

(* What holds of a set if it holds of its proper subsets holds of all the  *)
(* subsets of a finite set.                                                *)
LEMMA SetInduction ==
    ASSUME NEW S, IsFiniteSet(S), NEW T,
           \A s \in SUBSET S : (\A t \in SUBSET s : t # s => t \in T) => s \in T
    PROVE  SUBSET S \subseteq T
<1> DEFINE O == StrictSubsetOrdering(S)
           F == SUBSET S
           B == {s \in F : s \notin T}
<1> SUFFICES ASSUME B # {} PROVE FALSE
  OBVIOUS
<1>1. PICK s \in B : \A t \in B : <<t, s>> \notin O
  <2>1. IsWellFoundedOn(O, F)
    <3>1. IsWellFoundedOn(StrictSubsetOrdering(S), FiniteSubsetsOf(S))
      BY FS_StrictSubsetOrderingWellFounded
    <3>2. FiniteSubsetsOf(S) = SUBSET S
      BY FS_FiniteSubsetsOfFinite
    <3> QED BY <3>1, <3>2
  <2>2. B \subseteq F
    OBVIOUS
  <2> HIDE DEF O, F, B
  <2> QED BY <2>1, <2>2, WFMin
<1>2. ASSUME NEW t \in SUBSET s, t # s
      PROVE  t \in T
  <2>1. <<t, s>> \in O
    BY <1>2 DEF StrictSubsetOrdering
  <2> QED BY <1>1, <2>1
<1> QED BY <1>2
-----------------------------------------------------------------------------
(* Products and sums over finite sets.                                     *)

Neutral(k)    == IF k = "*" THEN 1 ELSE 0
Comb(k, a, b) == IF k = "*" THEN a * b ELSE a + b

Total(k, f, S) == IF k = "*" THEN Product(f, S) ELSE SumFunctionOnSet(f, S)

Some(s) == CHOOSE x \in s : TRUE

(* g gives the totals of f over the sets of F, and F holds with a set what *)
(* is left of it.                                                          *)
Folded(g, k, f, F) ==
    g = [s \in F |-> IF s = {} THEN Neutral(k)
                     ELSE Comb(k, f[Some(s)], g[s \ {Some(s)}])]

(* Two such functions agree where f does.                                  *)
LEMMA FoldedUnique ==
    ASSUME NEW R, IsFiniteSet(R),
           NEW F, SUBSET R \subseteq F, NEW G, SUBSET R \subseteq G,
           NEW k, NEW f, NEW e, \A x \in R : f[x] = e[x],
           NEW g, Folded(g, k, f, F), NEW h, Folded(h, k, e, G)
    PROVE  g[R] = h[R]
<1> DEFINE T == {s \in SUBSET R : g[s] = h[s]}
<1>1. ASSUME NEW s \in SUBSET R, \A t \in SUBSET s : t # s => t \in T
      PROVE  s \in T
  <2>1. /\ g[s] = IF s = {} THEN Neutral(k) ELSE Comb(k, f[Some(s)], g[s \ {Some(s)}])
        /\ h[s] = IF s = {} THEN Neutral(k) ELSE Comb(k, e[Some(s)], h[s \ {Some(s)}])
    BY DEF Folded
  <2>2. s # {} => /\ Some(s) \in R
                  /\ g[s \ {Some(s)}] = h[s \ {Some(s)}]
    <3>1. s # {} => Some(s) \in s
      BY DEF Some
    <3> QED BY <1>1, <3>1
  <2> QED BY <2>1, <2>2
<1> HIDE DEF T
<1>2. SUBSET R \subseteq T
  BY <1>1, SetInduction
<1> QED BY <1>2 DEF T

LEMMA FoldedExists ==
    ASSUME NEW S, IsFiniteSet(S), NEW k, NEW f
    PROVE  \E g : Folded(g, k, f, SUBSET S)
<1> DEFINE T == {s \in SUBSET S : \E g : Folded(g, k, f, SUBSET s)}
           G(s) == CHOOSE g : Folded(g, k, f, SUBSET s)
<1>1. ASSUME NEW s \in SUBSET S, \A t \in SUBSET s : t # s => t \in T
      PROVE  s \in T
  <2> DEFINE v(t) == IF t = {} THEN Neutral(k)
                     ELSE Comb(k, f[Some(t)], G(t \ {Some(t)})[t \ {Some(t)}])
             h == [t \in SUBSET s |-> v(t)]
  <2>1. ASSUME NEW t \in SUBSET s, t # s
        PROVE  G(t)[t] = v(t)
    <3>1. \A r \in SUBSET t : Folded(G(r), k, f, SUBSET r)
      BY <1>1, <2>1
    <3>2. G(t)[t] = IF t = {} THEN Neutral(k)
                    ELSE Comb(k, f[Some(t)], G(t)[t \ {Some(t)}])
      <4>1. Folded(G(t), k, f, SUBSET t)
        BY <3>1
      <4> HIDE DEF G
      <4> QED BY <4>1 DEF Folded
    <3>3. CASE t # {}
      <4> DEFINE r == t \ {Some(t)}
                 P == SUBSET t
                 Q == SUBSET r
                 g == G(t)
                 i == G(r)
      <4>1. /\ r \subseteq t /\ IsFiniteSet(r)
            /\ SUBSET r \subseteq P /\ SUBSET r \subseteq Q
        <5>1. r \in SUBSET S
          OBVIOUS
        <5> QED BY <5>1, FS_Subset
      <4>2. Folded(g, k, f, P) /\ Folded(i, k, f, Q)
        BY <3>1, <4>1
      <4> HIDE DEF r, P, Q, g, i
      <4>3. g[r] = i[r]
        BY <4>1, <4>2, FoldedUnique
      <4> QED BY <3>2, <3>3, <4>3 DEF r, g, i
    <3> QED BY <3>2, <3>3
  <2>2. ASSUME NEW t \in SUBSET s
        PROVE  h[t] = IF t = {} THEN Neutral(k)
                      ELSE Comb(k, f[Some(t)], h[t \ {Some(t)}])
    <3> DEFINE r == t \ {Some(t)}
    <3>1. t # {} => r \in SUBSET s /\ r # s
      BY DEF Some
    <3>2. t # {} => h[r] = G(r)[r]
      BY <2>1, <3>1
    <3>3. h[t] = v(t)
      OBVIOUS
    <3> HIDE DEF G, h
    <3> QED BY <3>2, <3>3
  <2>3. Folded(h, k, f, SUBSET s)
    <3> HIDE DEF v, G
    <3>1. h = [t \in SUBSET s |-> h[t]]
      OBVIOUS
    <3> HIDE DEF h
    <3> QED BY <2>2, <3>1 DEF Folded
  <2> QED BY <2>3
<1> HIDE DEF T
<1>2. SUBSET S \subseteq T
  BY <1>1, SetInduction
<1> QED BY <1>2 DEF T

LEMMA TotalFolded ==
    ASSUME NEW S, IsFiniteSet(S), NEW k, NEW f
    PROVE  \E g : Folded(g, k, f, SUBSET S) /\ Total(k, f, S) = g[S]
<1> DEFINE IsProduct(g) == g = [s \in SUBSET S |->
                   IF s = {} THEN 1
                   ELSE f[CHOOSE x \in s : TRUE] * g[s \ {CHOOSE x \in s : TRUE}]]
           IsSum(g) == g = [s \in SUBSET S |->
                   IF s = {} THEN 0
                   ELSE f[CHOOSE x \in s : TRUE] + g[s \ {CHOOSE x \in s : TRUE}]]
           p == CHOOSE g : IsProduct(g)
           q == CHOOSE g : IsSum(g)
<1>1. Product(f, S) = p[S]
  BY DEF Product, FoldFunctionOnSet, MapThenFoldSet
<1>2. SumFunctionOnSet(f, S) = q[S]
  BY DEF SumFunctionOnSet, FoldFunctionOnSet, MapThenFoldSet
<1>3. PICK h : Folded(h, k, f, SUBSET S)
  BY FoldedExists
<1>4. CASE k = "*"
  <2>1. IsProduct(h)
    BY <1>3, <1>4 DEF Folded, Some, Neutral, Comb
  <2>2. IsProduct(p)
    BY <2>1
  <2>3. Folded(p, k, f, SUBSET S)
    BY <1>4, <2>2 DEF Folded, Some, Neutral, Comb
  <2> HIDE DEF p
  <2> QED BY <1>1, <1>4, <2>3 DEF Total
<1>5. CASE k # "*"
  <2>1. IsSum(h)
    BY <1>3, <1>5 DEF Folded, Some, Neutral, Comb
  <2>2. IsSum(q)
    BY <2>1
  <2>3. Folded(q, k, f, SUBSET S)
    BY <1>5, <2>2 DEF Folded, Some, Neutral, Comb
  <2> HIDE DEF q
  <2> QED BY <1>2, <1>5, <2>3 DEF Total
<1> QED BY <1>4, <1>5

LEMMA TotalSame ==
    ASSUME NEW S, IsFiniteSet(S), NEW k, NEW f, NEW e, \A x \in S : f[x] = e[x]
    PROVE  Total(k, f, S) = Total(k, e, S)
<1>1. PICK g : Folded(g, k, f, SUBSET S) /\ Total(k, f, S) = g[S]
  BY TotalFolded
<1>2. PICK h : Folded(h, k, e, SUBSET S) /\ Total(k, e, S) = h[S]
  BY TotalFolded
<1>3. g[S] = h[S]
  <2> DEFINE F == SUBSET S
  <2>1. SUBSET S \subseteq F
    OBVIOUS
  <2>2. Folded(g, k, f, F) /\ Folded(h, k, e, F)
    BY <1>1, <1>2
  <2> HIDE DEF F
  <2> QED BY <2>1, <2>2, FoldedUnique
<1> QED BY <1>1, <1>2, <1>3

LEMMA TotalEmpty ==
    ASSUME NEW k, NEW f
    PROVE  Total(k, f, {}) = Neutral(k)
<1>1. PICK g : Folded(g, k, f, SUBSET {}) /\ Total(k, f, {}) = g[{}]
  BY TotalFolded, FS_EmptySet
<1> QED BY <1>1 DEF Folded

(* Any one may be taken first.                                             *)
LEMMA TotalOut ==
    ASSUME NEW S, IsFiniteSet(S), NEW k, NEW f, \A x \in S : f[x] \in Int,
           NEW x \in S
    PROVE  /\ Total(k, f, S \ {x}) \in Int
           /\ Total(k, f, S) = Comb(k, f[x], Total(k, f, S \ {x}))
<1>1. PICK g : Folded(g, k, f, SUBSET S) /\ Total(k, f, S) = g[S]
  BY TotalFolded
<1> DEFINE T == {s \in SUBSET S : /\ g[s] \in Int
                                  /\ \A y \in s : g[s] = Comb(k, f[y], g[s \ {y}])}
<1>2. ASSUME NEW s \in SUBSET S, \A t \in SUBSET s : t # s => t \in T
      PROVE  s \in T
  <2>1. g[s] = IF s = {} THEN Neutral(k) ELSE Comb(k, f[Some(s)], g[s \ {Some(s)}])
    BY <1>1 DEF Folded
  <2>2. CASE s = {}
    BY <2>1, <2>2 DEF Neutral
  <2>3. CASE s # {}
    <3> DEFINE z == Some(s)
               r == s \ {z}
    <3>1. z \in s /\ r \in SUBSET S /\ r \in T
      <4>1. z \in s
        BY <2>3 DEF Some
      <4> QED BY <1>2, <4>1
    <3>2. g[s] = Comb(k, f[z], g[r]) /\ g[r] \in Int /\ f[z] \in Int
      BY <2>1, <2>3, <3>1
    <3> HIDE DEF z
    <3>3. g[s] \in Int
      BY <3>2 DEF Comb
    <3>4. ASSUME NEW y \in s, y # z
          PROVE  g[s] = Comb(k, f[y], g[s \ {y}])
      <4> DEFINE q == s \ {y}
                 p == r \ {y}
      <4>1. y \in r /\ z \in q /\ q \ {z} = p /\ q \in T /\ p \in T
        BY <1>2, <3>1, <3>4
      <4>2. g[q] = Comb(k, f[z], g[p]) /\ g[r] = Comb(k, f[y], g[p])
        BY <3>1, <4>1
      <4>3. g[p] \in Int /\ f[y] \in Int
        BY <4>1
      <4> HIDE DEF r, q, p
      <4>4. Comb(k, f[z], Comb(k, f[y], g[p])) = Comb(k, f[y], Comb(k, f[z], g[p]))
        <5> DEFINE a == f[z]
                   b == f[y]
                   c == g[p]
        <5>1. a \in Int /\ b \in Int /\ c \in Int
          BY <3>2, <4>3
        <5> HIDE DEF a, b, c
        <5>2. a * (b * c) = b * (a * c) /\ a + (b + c) = b + (a + c)
          BY <5>1
        <5> QED BY <5>2 DEF Comb, a, b, c
      <4> QED BY <3>2, <4>2, <4>4 DEF q
    <3> QED BY <3>2, <3>3, <3>4
  <2> QED BY <2>2, <2>3
<1> HIDE DEF T
<1>3. SUBSET S \subseteq T
  BY <1>2, SetInduction
<1> DEFINE R == S \ {x}
<1>4. R \in SUBSET S /\ IsFiniteSet(R)
  BY FS_Subset
<1>5. g[R] \in Int /\ g[S] = Comb(k, f[x], g[R])
  BY <1>3 DEF T
<1>6. Total(k, f, R) = g[R]
  <2>1. PICK h : Folded(h, k, f, SUBSET R) /\ Total(k, f, R) = h[R]
    BY <1>4, TotalFolded
  <2> DEFINE F == SUBSET S
             G == SUBSET R
  <2>2. SUBSET R \subseteq F /\ SUBSET R \subseteq G
    OBVIOUS
  <2>3. Folded(g, k, f, F) /\ Folded(h, k, f, G)
    BY <1>1, <2>1
  <2> HIDE DEF R, F, G
  <2> QED BY <1>4, <2>1, <2>2, <2>3, FoldedUnique
<1> QED BY <1>1, <1>5, <1>6

LEMMA ProductSame ==
    ASSUME NEW S, IsFiniteSet(S), NEW f, NEW e, \A x \in S : f[x] = e[x]
    PROVE  Product(f, S) = Product(e, S)
<1>1. Total("*", f, S) = Total("*", e, S)
  BY TotalSame
<1> QED BY <1>1 DEF Total

LEMMA ProductOut ==
    ASSUME NEW S, IsFiniteSet(S), NEW f, \A x \in S : f[x] \in Int, NEW x \in S
    PROVE  /\ Product(f, S \ {x}) \in Int
           /\ Product(f, S) = f[x] * Product(f, S \ {x})
<1>1. /\ Total("*", f, S \ {x}) \in Int
      /\ Total("*", f, S) = Comb("*", f[x], Total("*", f, S \ {x}))
  BY TotalOut
<1> QED BY <1>1 DEF Total, Comb

LEMMA SumOut ==
    ASSUME NEW S, IsFiniteSet(S), NEW f, \A x \in S : f[x] \in Int, NEW x \in S
    PROVE  /\ SumFunctionOnSet(f, S \ {x}) \in Int
           /\ SumFunctionOnSet(f, S) = f[x] + SumFunctionOnSet(f, S \ {x})
<1>1. /\ Total("+", f, S \ {x}) \in Int
      /\ Total("+", f, S) = Comb("+", f[x], Total("+", f, S \ {x}))
  BY TotalOut
<1>2. "+" # "*"
  OBVIOUS
<1> QED BY <1>1, <1>2 DEF Total, Comb

LEMMA NothingToTotal ==
    ASSUME NEW f
    PROVE  Product(f, {}) = 1 /\ SumFunctionOnSet(f, {}) = 0
<1>1. Total("*", f, {}) = Neutral("*") /\ Total("+", f, {}) = Neutral("+")
  BY TotalEmpty
<1>2. "+" # "*"
  OBVIOUS
<1> QED BY <1>1, <1>2 DEF Total, Neutral

(* A product of smaller factors is smaller; one of ones is 1.              *)
LEMMA ProductBetween ==
    ASSUME NEW S, IsFiniteSet(S), NEW e, NEW f,
           \A x \in S : e[x] \in Nat /\ f[x] \in Nat \ {0} /\ e[x] <= f[x]
    PROVE  /\ Product(e, S) \in Nat /\ Product(f, S) \in Nat \ {0}
           /\ Product(e, S) <= Product(f, S)
<1> DEFINE T == {s \in SUBSET S : /\ Product(e, s) \in Nat
                                  /\ Product(f, s) \in Nat \ {0}
                                  /\ Product(e, s) <= Product(f, s)}
<1>1. ASSUME NEW s \in SUBSET S, \A t \in SUBSET s : t # s => t \in T
      PROVE  s \in T
  <2>1. CASE s = {}
    <3>1. Product(e, s) = 1 /\ Product(f, s) = 1
      BY <2>1, NothingToTotal
    <3> QED BY <3>1
  <2>2. CASE s # {}
    <3>1. PICK x \in s : TRUE
      BY <2>2
    <3> DEFINE r == s \ {x}
               a == Product(e, r)
               b == Product(f, r)
               u == e[x]
               v == f[x]
    <3>2. /\ a \in Nat /\ b \in Nat \ {0} /\ a <= b
          /\ u \in Nat /\ v \in Nat \ {0} /\ u <= v
      BY <1>1, <3>1
    <3>3. IsFiniteSet(s) /\ \A y \in s : e[y] \in Int /\ f[y] \in Int
      BY FS_Subset
    <3>4. Product(e, s) = u * a /\ Product(f, s) = v * b
      BY <3>1, <3>3, ProductOut
    <3> HIDE DEF a, b, u, v
    <3>5. u * a \in Nat /\ v * b \in Nat \ {0} /\ u * a <= u * b /\ u * b <= v * b
      BY <3>2
    <3>6. u * b \in Nat
      BY <3>2
    <3> QED BY <3>4, <3>5, <3>6
  <2> QED BY <2>1, <2>2
<1> HIDE DEF T
<1>2. SUBSET S \subseteq T
  BY <1>1, SetInduction
<1> QED BY <1>2 DEF T
-----------------------------------------------------------------------------
(* The aggregated confidence.                                              *)

(* r is the rational num / den to the nearest integer, at a tie either.    *)
Near(r, num, den) == 2 * (r * den) <= 2 * num + den /\ 2 * num <= 2 * (r * den) + den

LEMMA RoundedNear ==
    ASSUME NEW num \in Nat, NEW den \in Nat \ {0}, NEW r \in Rounded(num, den)
    PROVE  r \in Nat /\ Near(r, num, den)
<1> DEFINE down == num \div den
           frac == num % den
<1>1. down \in Nat /\ frac \in 0 .. den - 1
  BY Z3
<1>2. num = den * down + frac
  BY Z3
<1>3. \/ r = down /\ 2 * frac <= den
      \/ r = down + 1 /\ 2 * frac >= den
  BY <1>1 DEF Rounded
<1> HIDE DEF down, frac
<1>4. den * down = down * den /\ (down + 1) * den = down * den + den
  BY <1>1
<1>5. CASE r = down /\ 2 * frac <= den
  BY <1>1, <1>2, <1>4, <1>5 DEF Near
<1>6. CASE r = down + 1 /\ 2 * frac >= den
  BY <1>1, <1>2, <1>4, <1>6 DEF Near
<1> QED BY <1>3, <1>5, <1>6

LEMMA RoundedExists ==
    ASSUME NEW num \in Nat, NEW den \in Nat \ {0}
    PROVE  /\ \E r : r \in Rounded(num, den)
           /\ \E down \in Nat : Rounded(num, den) \in {{down}, {down + 1}, {down, down + 1}}
<1> DEFINE down == num \div den
           frac == num % den
<1>1. down \in Nat /\ frac \in Nat
  BY Z3
<1> HIDE DEF down, frac
<1>2. 2 * frac < den \/ 2 * frac = den \/ 2 * frac > den
  BY <1>1
<1>3. Rounded(num, den) \in {{down}, {down + 1}, {down, down + 1}}
  BY <1>1, <1>2 DEF Rounded, down, frac
<1> QED BY <1>1, <1>3

(* What a sighting s contributes: without it the complement is rest and    *)
(* the scale unit.                                                         *)
Rest(confs_, s) ==
    Product([x \in Stated(confs_) |-> 100 - confs_[x]], Stated(confs_) \ {s})
Unit(confs_, s) ==
    Product([x \in Stated(confs_) |-> 100], Stated(confs_) \ {s})

LEMMA OneOut ==
    ASSUME NEW F, IsFiniteSet(F), NEW c \in [F -> (0 .. 100) \cup {None}],
           NEW s \in Stated(c)
    PROVE  /\ c[s] \in 0 .. 100
           /\ Rest(c, s) \in Nat /\ Unit(c, s) \in Nat \ {0}
           /\ Rest(c, s) <= Unit(c, s)
           /\ Complement(c) = (100 - c[s]) * Rest(c, s)
           /\ Scale(c) = 100 * Unit(c, s)
           /\ Denominator(c) = Unit(c, s)
           /\ Numerator(c) = 100 * Unit(c, s) - (100 - c[s]) * Rest(c, s)
           /\ Numerator(c) \in Nat
<1> DEFINE S == Stated(c)
           R == S \ {s}
           e == [x \in S |-> 100 - c[x]]
           f == [x \in S |-> 100]
           p == Rest(c, s)
           u == Unit(c, s)
<1>1. /\ S \subseteq F /\ IsFiniteSet(S) /\ IsFiniteSet(R) /\ R \subseteq S
      /\ \A x \in S : c[x] \in 0 .. 100
  <2>1. S \subseteq F /\ R \subseteq F
    BY DEF Stated
  <2> QED BY <2>1, FS_Subset DEF Stated
<1>2. \A x \in S : /\ e[x] = 100 - c[x] /\ e[x] \in Nat
                   /\ f[x] = 100 /\ f[x] \in Nat \ {0} /\ e[x] <= f[x]
  BY <1>1
<1>3. /\ Complement(c) = Product(e, S) /\ Scale(c) = Product(f, S)
      /\ p = Product(e, R) /\ u = Product(f, R)
  BY DEF Complement, Scale, Rest, Unit
<1> HIDE DEF S, e, f, p, u
<1>4. p \in Nat /\ u \in Nat \ {0} /\ p <= u
  <2> HIDE DEF R
  <2> QED BY <1>1, <1>2, <1>3, ProductBetween
<1>5. Complement(c) = (100 - c[s]) * p /\ Scale(c) = 100 * u
  <2>1. s \in S
    BY DEF S
  <2>2. \A x \in S : e[x] \in Int /\ f[x] \in Int
    BY <1>2
  <2>3. Product(e, S) = e[s] * p /\ Product(f, S) = f[s] * u
    BY <1>1, <1>3, <2>1, <2>2, ProductOut
  <2> QED BY <1>2, <1>3, <2>1, <2>3
<1>6. Denominator(c) = u
  BY <1>4, <1>5 DEF Denominator
<1>7. c[s] \in 0 .. 100
  BY <1>1 DEF S
<1>8. Numerator(c) = 100 * u - (100 - c[s]) * p
  BY <1>5 DEF Numerator
<1>9. Numerator(c) \in Nat
  <2> DEFINE k == 100 - c[s]
  <2>1. k \in 0 .. 100
    BY <1>7
  <2> HIDE DEF k
  <2>2. k * p \in Nat /\ k * p <= 100 * p
    BY <1>4, <2>1
  <2> QED BY <1>4, <1>8, <2>2 DEF k
<1> QED BY <1>4, <1>5, <1>6, <1>7, <1>8, <1>9 DEF p, u
(* Multiplication is monotonic.                                            *)
LEMMA TimesMore ==
    ASSUME NEW i \in Int, NEW j \in Int, i <= j, NEW n \in Nat
    PROVE  i * n \in Int /\ j * n \in Int /\ i * n <= j * n
<1>1. i * n \in Int /\ j * n \in Int
  OBVIOUS
<1>2. (j - i) * n = j * n - i * n
  OBVIOUS
<1>3. (j - i) * n \in Nat
  OBVIOUS
<1> QED BY <1>1, <1>2, <1>3

(* What is rounded lies between the confidence of any one source and 100.  *)
LEMMA RoundedBetween ==
    ASSUME NEW c \in 0 .. 100, NEW u \in Nat \ {0}, NEW p \in Nat, p <= u,
           NEW r \in Nat, Near(r, 100 * u - (100 - c) * p, u)
    PROVE  c <= r /\ r <= 100
<1> DEFINE a == (100 - c) * p
           num == 100 * u - a
<1>1. a \in Nat /\ a <= (100 - c) * u
  <2>1. 100 - c \in Nat
    OBVIOUS
  <2> QED BY <2>1, TimesMore
<1>2. (100 - c) * u = 100 * u - c * u /\ c * u \in Nat
  OBVIOUS
<1>3. num \in Int /\ c * u <= num /\ num <= 100 * u
  BY <1>1, <1>2
<1>4. r * u \in Nat /\ 2 * (r * u) <= 2 * num + u /\ 2 * num <= 2 * (r * u) + u
  BY DEF Near
<1> HIDE DEF num
<1>5. c <= r
  <2> SUFFICES ASSUME r <= c - 1 PROVE FALSE
    OBVIOUS
  <2>1. r * u <= (c - 1) * u
    BY TimesMore
  <2>2. (c - 1) * u = c * u - u
    OBVIOUS
  <2> QED BY <1>2, <1>3, <1>4, <2>1, <2>2
<1>6. r <= 100
  <2> SUFFICES ASSUME 101 <= r PROVE FALSE
    OBVIOUS
  <2>1. 101 * u <= r * u
    BY TimesMore
  <2> QED BY <1>3, <1>4, <2>1
<1> QED BY <1>5, <1>6

LEMMA AggregatesNear ==
    ASSUME NEW F, IsFiniteSet(F), NEW c \in [F -> (0 .. 100) \cup {None}],
           Stated(c) # {}, NEW r \in Aggregates(c)
    PROVE  r \in Nat /\ Near(r, Numerator(c), Denominator(c))
<1>1. PICK s \in Stated(c) : TRUE
  OBVIOUS
<1>2. Numerator(c) \in Nat /\ Denominator(c) \in Nat \ {0}
  BY <1>1, OneOut
<1>3. r \in Rounded(Numerator(c), Denominator(c))
  BY DEF Aggregates
<1> QED BY <1>2, <1>3, RoundedNear

LEMMA NearWithin ==
    ASSUME NEW F, IsFiniteSet(F), NEW c \in [F -> (0 .. 100) \cup {None}],
           Stated(c) # {}, NEW r \in Nat, Near(r, Numerator(c), Denominator(c))
    PROVE  r \in 0 .. 100 /\ \A s \in Stated(c) : c[s] <= r
<1>1. ASSUME NEW s \in Stated(c)
      PROVE  c[s] <= r /\ r <= 100
  <2>1. /\ c[s] \in 0 .. 100
        /\ Rest(c, s) \in Nat /\ Unit(c, s) \in Nat \ {0} /\ Rest(c, s) <= Unit(c, s)
        /\ Denominator(c) = Unit(c, s)
        /\ Numerator(c) = 100 * Unit(c, s) - (100 - c[s]) * Rest(c, s)
    BY OneOut
  <2>2. Near(r, 100 * Unit(c, s) - (100 - c[s]) * Rest(c, s), Unit(c, s))
    BY <2>1
  <2> QED BY <2>1, <2>2, RoundedBetween
<1> QED BY <1>1

(* The confidence recompute_confidence() stores is a percentage, for any   *)
(* finite number of sources and whatever each of them states: what the     *)
(* store's proofs assume of Agg holds of the function the code computes.   *)
THEOREM AggregateIsPct ==
    ASSUME NEW F, IsFiniteSet(F), NEW c \in [F -> (0 .. 100) \cup {None}]
    PROVE  Aggregate(c) \in 0 .. 100
<1>1. CASE Stated(c) = {}
  <2>1. Aggregates(c) = {0}
    BY <1>1 DEF Aggregates
  <2> QED BY <2>1 DEF Aggregate
<1>2. CASE Stated(c) # {}
  <2>1. PICK s \in Stated(c) : TRUE
    BY <1>2
  <2>2. Numerator(c) \in Nat /\ Denominator(c) \in Nat \ {0}
    BY <2>1, OneOut
  <2>3. PICK down \in Nat :
           Aggregates(c) \in {{down}, {down + 1}, {down, down + 1}}
    BY <1>2, <2>2, RoundedExists DEF Aggregates
  <2>4. \E a \in Aggregates(c) : \A b \in Aggregates(c) : a >= b
    BY <2>3
  <2>5. Aggregate(c) \in Aggregates(c)
    BY <2>4 DEF Aggregate
  <2>6. Aggregate(c) \in Nat /\ Near(Aggregate(c), Numerator(c), Denominator(c))
    BY <1>2, <2>5, AggregatesNear
  <2> QED BY <1>2, <2>6, NearWithin
<1> QED BY <1>1, <1>2
-----------------------------------------------------------------------------
(* One more sighting, or one that states another confidence.               *)

LEMMA NearScaled ==
    ASSUME NEW q \in Nat, NEW n \in Int, NEW d \in Nat, Near(q, n, d)
    PROVE  Near(q, 100 * n, 100 * d)
<1>1. q * d \in Nat /\ q * (100 * d) = 100 * (q * d)
  OBVIOUS
<1> QED BY <1>1 DEF Near

LEMMA NearMore ==
    ASSUME NEW q \in Nat, NEW r \in Nat, NEW d \in Nat \ {0},
           NEW n \in Int, NEW m \in Int, n < m, Near(q, n, d), Near(r, m, d)
    PROVE  q <= r
<1> SUFFICES ASSUME r <= q - 1 PROVE FALSE
  OBVIOUS
<1>1. r * d <= (q - 1) * d
  BY TimesMore
<1>2. (q - 1) * d = q * d - d /\ q * d \in Int /\ r * d \in Int
  OBVIOUS
<1>3. 2 * (q * d) <= 2 * n + d /\ 2 * m <= 2 * (r * d) + d
  BY DEF Near
<1> QED BY <1>1, <1>2, <1>3

(* What the sightings of the other sources contribute does not depend on s.*)
LEMMA OthersSame ==
    ASSUME NEW F, IsFiniteSet(F), NEW s \in F,
           NEW c \in [F -> (0 .. 100) \cup {None}],
           NEW e \in [F -> (0 .. 100) \cup {None}],
           \A x \in F \ {s} : e[x] = c[x]
    PROVE  /\ Rest(e, s) = Rest(c, s) /\ Unit(e, s) = Unit(c, s)
           /\ s \notin Stated(c) => /\ Rest(c, s) = Complement(c)
                                    /\ Unit(c, s) = Scale(c)
<1> DEFINE R == Stated(c) \ {s}
           ce == [x \in Stated(c) |-> 100 - c[x]]
           ee == [x \in Stated(e) |-> 100 - e[x]]
           cf == [x \in Stated(c) |-> 100]
           ef == [x \in Stated(e) |-> 100]
<1>1. /\ R = Stated(e) \ {s} /\ R \subseteq F
      /\ \A x \in R : ee[x] = ce[x] /\ ef[x] = cf[x]
  BY DEF Stated
<1>2. IsFiniteSet(R)
  BY <1>1, FS_Subset
<1>3. Product(ee, R) = Product(ce, R) /\ Product(ef, R) = Product(cf, R)
  <2> HIDE DEF R, ce, ee, cf, ef
  <2> QED BY <1>1, <1>2, ProductSame
<1>4. Rest(e, s) = Product(ee, R) /\ Unit(e, s) = Product(ef, R)
  BY <1>1 DEF Rest, Unit
<1>5. Rest(c, s) = Product(ce, R) /\ Unit(c, s) = Product(cf, R)
  BY DEF Rest, Unit
<1>6. s \notin Stated(c) => R = Stated(c)
  OBVIOUS
<1>7. s \notin Stated(c) => /\ Rest(c, s) = Complement(c)
                            /\ Unit(c, s) = Scale(c)
  BY <1>5, <1>6 DEF Complement, Scale
<1> QED BY <1>3, <1>4, <1>5, <1>7

(* A source that is certain adds nothing; nor does any, after one that is. *)
LEMMA FullIsHundred ==
    ASSUME NEW r \in Nat, NEW u \in Nat \ {0}, Near(r, 100 * u, u)
    PROVE  r = 100
<1>1. 100 * u - (100 - 100) * u = 100 * u
  OBVIOUS
<1>2. Near(r, 100 * u - (100 - 100) * u, u)
  BY <1>1
<1>3. 100 <= r /\ r <= 100
  BY <1>2, RoundedBetween
<1> QED BY <1>3

(* A further source: v of None becomes x.                                  *)
LEMMA SightedFirst ==
    ASSUME NEW F, IsFiniteSet(F), NEW s \in F,
           NEW c \in [F -> (0 .. 100) \cup {None}], c[s] = None, Stated(c) # {},
           NEW e \in [F -> (0 .. 100) \cup {None}],
           e[s] \in 0 .. 100, \A y \in F \ {s} : e[y] = c[y]
    PROVE  /\ Complement(c) \in Nat /\ Numerator(c) \in Nat
           /\ Denominator(c) \in Nat \ {0}
           /\ Numerator(c) = 100 * Denominator(c) - Complement(c)
           /\ Denominator(e) = 100 * Denominator(c)
           /\ Numerator(e) = 100 * Numerator(c) + e[s] * Complement(c)
<1>1. PICK o \in Stated(c) : TRUE
  OBVIOUS
<1> DEFINE d == Denominator(c)
           p == Complement(c)
<1>2. /\ p \in Nat /\ d \in Nat \ {0} /\ Scale(c) = 100 * d
      /\ Numerator(c) \in Nat /\ Numerator(c) = 100 * d - p
  <2>1. /\ c[o] \in 0 .. 100
        /\ Rest(c, o) \in Nat /\ Unit(c, o) \in Nat \ {0}
        /\ p = (100 - c[o]) * Rest(c, o) /\ d = Unit(c, o)
        /\ Scale(c) = 100 * Unit(c, o) /\ Numerator(c) \in Nat
    BY <1>1, OneOut
  <2>2. Numerator(c) = Scale(c) - p
    BY DEF Numerator
  <2> DEFINE k == 100 - c[o]
  <2>3. k \in Nat
    BY <2>1
  <2> HIDE DEF p, d, k
  <2>4. k * Rest(c, o) \in Nat
    BY <2>1, <2>3
  <2> QED BY <2>1, <2>2, <2>4 DEF k
<1>3. s \in Stated(e) /\ s \notin Stated(c)
  <2>1. e[s] # None /\ s \in DOMAIN e
    BY AbsentAssumption
  <2> QED BY <2>1 DEF Stated
<1>4. Rest(e, s) = p /\ Unit(e, s) = 100 * d
  <2>1. /\ Rest(e, s) = Rest(c, s) /\ Unit(e, s) = Unit(c, s)
        /\ Rest(c, s) = Complement(c) /\ Unit(c, s) = Scale(c)
    BY <1>3, OthersSame
  <2> QED BY <1>2, <2>1
<1>5. Denominator(e) = 100 * d /\ Numerator(e) = 100 * (100 * d) - (100 - e[s]) * p
  BY <1>3, <1>4, OneOut
<1> HIDE DEF d, p
<1>6. (100 - e[s]) * p = 100 * p - e[s] * p /\ e[s] * p \in Nat
  BY <1>2
<1>7. Numerator(e) = 100 * Numerator(c) + e[s] * p
  BY <1>2, <1>5, <1>6
<1> QED BY <1>2, <1>5, <1>7 DEF d, p

(* The same source again: v becomes x.                                     *)
LEMMA SightedAgain ==
    ASSUME NEW F, IsFiniteSet(F), NEW s \in F,
           NEW c \in [F -> (0 .. 100) \cup {None}], s \in Stated(c),
           NEW e \in [F -> (0 .. 100) \cup {None}],
           e[s] \in 0 .. 100, \A y \in F \ {s} : e[y] = c[y]
    PROVE  /\ Denominator(c) \in Nat \ {0} /\ Denominator(e) = Denominator(c)
           /\ Rest(c, s) \in Nat /\ c[s] \in 0 .. 100
           /\ Numerator(c) = 100 * Denominator(c) - (100 - c[s]) * Rest(c, s)
           /\ Numerator(e) = 100 * Denominator(c) - (100 - e[s]) * Rest(c, s)
<1>1. s \in Stated(e)
  <2>1. e[s] # None /\ s \in DOMAIN e
    BY AbsentAssumption
  <2> QED BY <2>1 DEF Stated
<1>2. Rest(e, s) = Rest(c, s) /\ Unit(e, s) = Unit(c, s)
  BY OthersSame
<1>3. /\ Denominator(c) = Unit(c, s) /\ Unit(c, s) \in Nat \ {0}
      /\ Rest(c, s) \in Nat /\ c[s] \in 0 .. 100
      /\ Numerator(c) = 100 * Unit(c, s) - (100 - c[s]) * Rest(c, s)
  BY OneOut
<1>4. /\ Denominator(e) = Unit(e, s)
      /\ Numerator(e) = 100 * Unit(e, s) - (100 - e[s]) * Rest(e, s)
  BY <1>1, OneOut
<1> QED BY <1>2, <1>3, <1>4

LEMMA MoreEvidence ==
    ASSUME NEW F, IsFiniteSet(F), NEW s \in F,
           NEW c \in [F -> (0 .. 100) \cup {None}], Stated(c) # {},
           NEW e \in [F -> (0 .. 100) \cup {None}],
           e[s] \in 0 .. 100, \A y \in F \ {s} : e[y] = c[y],
           c[s] = None => e[s] # 0, c[s] # None => c[s] < e[s],
           NEW q \in Nat, Near(q, Numerator(c), Denominator(c)),
           NEW r \in Nat, Near(r, Numerator(e), Denominator(e))
    PROVE  q <= r
<1>1. q <= 100
  BY NearWithin
<1>2. CASE c[s] = None
  <2> DEFINE p == Complement(c)
             d == Denominator(c)
             n == Numerator(c)
  <2>1. /\ p \in Nat /\ n \in Nat /\ d \in Nat \ {0} /\ n = 100 * d - p
        /\ Denominator(e) = 100 * d /\ Numerator(e) = 100 * n + e[s] * p
    <3>1. /\ Complement(c) \in Nat /\ Numerator(c) \in Nat
          /\ Denominator(c) \in Nat \ {0}
          /\ Numerator(c) = 100 * Denominator(c) - Complement(c)
          /\ Denominator(e) = 100 * Denominator(c)
          /\ Numerator(e) = 100 * Numerator(c) + e[s] * Complement(c)
      BY <1>2, SightedFirst
    <3> QED BY <3>1
  <2>2. Near(q, 100 * n, 100 * d)
    <3>1. Near(q, n, d) /\ n \in Int /\ d \in Nat
      BY <2>1
    <3> HIDE DEF n, d
    <3> QED BY <3>1, NearScaled
  <2>3. Near(r, 100 * n + e[s] * p, 100 * d)
    BY <2>1
  <2> HIDE DEF p, d, n
  <2>4. CASE p = 0
    <3>1. 100 * n + e[s] * p = 100 * (100 * d)
      BY <2>1, <2>4
    <3>2. 100 * d \in Nat \ {0}
      BY <2>1
    <3>3. r = 100
      BY <2>3, <3>1, <3>2, FullIsHundred
    <3> QED BY <1>1, <3>3
  <2>5. CASE p # 0
    <3>1. e[s] * p \in Nat /\ 1 * p <= e[s] * p
      <4>1. 1 <= e[s] /\ e[s] \in Int
        BY <1>2
      <4> QED BY <2>1, <4>1, TimesMore
    <3>2. 100 * n < 100 * n + e[s] * p /\ 100 * n \in Int /\ 100 * n + e[s] * p \in Int
      BY <2>1, <2>5, <3>1
    <3>3. 100 * d \in Nat \ {0}
      BY <2>1
    <3> QED BY <2>2, <2>3, <3>2, <3>3, NearMore
  <2> QED BY <2>4, <2>5
<1>3. CASE c[s] # None
  <2> DEFINE v == c[s]
             p == Rest(c, s)
             d == Denominator(c)
             n == 100 * d - (100 - v) * p
             m == 100 * d - (100 - e[s]) * p
  <2>1. /\ p \in Nat /\ v \in 0 .. 100 /\ d \in Nat \ {0}
        /\ Near(q, n, d) /\ Near(r, m, d)
    <3>1. s \in Stated(c)
      BY <1>3 DEF Stated
    <3>2. /\ Denominator(c) \in Nat \ {0} /\ Denominator(e) = Denominator(c)
          /\ Rest(c, s) \in Nat /\ c[s] \in 0 .. 100
          /\ Numerator(c) = 100 * Denominator(c) - (100 - c[s]) * Rest(c, s)
          /\ Numerator(e) = 100 * Denominator(c) - (100 - e[s]) * Rest(c, s)
      BY <3>1, SightedAgain
    <3> QED BY <3>2
  <2>2. v < e[s]
    BY <1>3
  <2>3. CASE p = 0
    <3> HIDE DEF p, d, v
    <3>1. m = 100 * d
      BY <2>1, <2>3
    <3>2. r = 100
      BY <2>1, <3>1, FullIsHundred
    <3> QED BY <1>1, <3>2
  <2>4. CASE p # 0
    <3> HIDE DEF p, d, v
    <3>1. (100 - v) * p = 100 * p - v * p /\ (100 - e[s]) * p = 100 * p - e[s] * p
      BY <2>1
    <3>2. (v + 1) * p <= e[s] * p /\ (v + 1) * p = v * p + p
      BY <2>1, <2>2, TimesMore
    <3>3. v * p \in Int /\ e[s] * p \in Int
      BY <2>1
    <3>4. n \in Int /\ m \in Int /\ n < m
      BY <2>1, <2>4, <3>1, <3>2, <3>3
    <3> HIDE DEF n, m
    <3> QED BY <2>1, <3>4, NearMore
  <2> QED BY <2>3, <2>4
<1> QED BY <1>2, <1>3
-----------------------------------------------------------------------------
(* The inductive invariant: with sightings, the aggregate is to the nearest*)
(* integer what the formula gives for them.                                *)
ValuesInv ==
    /\ confs \in [Feeds -> Levels \cup {None}]
    /\ agg \in Nat
    /\ kind = "sightings" => /\ Stated(confs) # {}
                             /\ Near(agg, Numerator(confs), Denominator(confs))
    /\ kind # "sightings" => Stated(confs) = {} /\ agg = 0

LEMMA ValuesInit == Init => ValuesInv
<1> SUFFICES ASSUME Init PROVE ValuesInv
  OBVIOUS
<1> DEFINE nobody == [x \in Feeds |-> None]
<1>1. Stated(nobody) = {} /\ nobody \in [Feeds -> Levels \cup {None}]
  BY DEF Stated
<1>2. CASE /\ kind = "sightings"
           /\ \E s \in Feeds, c \in Levels :
                 confs = [x \in Feeds |-> IF x = s THEN c ELSE None]
           /\ agg \in Aggregates(confs)
  <2>1. PICK s \in Feeds, c \in Levels :
           confs = [x \in Feeds |-> IF x = s THEN c ELSE None]
    BY <1>2
  <2>2. /\ confs \in [Feeds -> Levels \cup {None}]
        /\ confs \in [Feeds -> (0 .. 100) \cup {None}]
    BY <2>1, LevelsAssumption
  <2>3. s \in Stated(confs)
    <3>1. c # None
      BY LevelsAssumption, AbsentAssumption
    <3> QED BY <2>1, <3>1 DEF Stated
  <2>4. agg \in Nat /\ Near(agg, Numerator(confs), Denominator(confs))
    BY <1>2, <2>2, <2>3, FeedsAssumption, AggregatesNear
  <2> QED BY <1>2, <2>2, <2>3, <2>4 DEF ValuesInv
<1>3. CASE kind \in DOMAIN Alphabet /\ confs = nobody /\ agg = 0
  <2>1. kind # "sightings"
    BY <1>3 DEF Alphabet
  <2> QED BY <1>1, <1>3, <2>1 DEF ValuesInv
<1> QED BY <1>2, <1>3 DEF Init

LEMMA ConfsType ==
    ASSUME ValuesInv
    PROVE  confs \in [Feeds -> (0 .. 100) \cup {None}]
BY LevelsAssumption DEF ValuesInv

LEMMA SightKeeps ==
    ASSUME ValuesInv, NEW s \in Feeds, NEW c \in Levels, Sight(s, c)
    PROVE  /\ ValuesInv'
           /\ Near(agg', Numerator(confs'), Denominator(confs'))
<1>1. /\ confs \in [Feeds -> (0 .. 100) \cup {None}]
      /\ confs' \in [Feeds -> (0 .. 100) \cup {None}]
      /\ confs' \in [Feeds -> Levels \cup {None}]
      /\ confs'[s] = c /\ \A x \in Feeds \ {s} : confs'[x] = confs[x]
  BY ConfsType, LevelsAssumption DEF Sight, ValuesInv
<1>2. /\ kind = "sightings" /\ kind' = "sightings" /\ agg \in Nat
      /\ Stated(confs) # {} /\ Near(agg, Numerator(confs), Denominator(confs))
  BY DEF Sight, ValuesInv
<1>3. c \in 0 .. 100 /\ c # None
  BY LevelsAssumption, AbsentAssumption
<1>4. s \in Stated(confs')
  BY <1>1, <1>3 DEF Stated
<1>5. agg' \in Nat /\ Near(agg', Numerator(confs'), Denominator(confs'))
  <2>1. CASE {confs[s], c} \subseteq {None, 0} /\ agg' = agg
    <3>1. c = 0
      BY <1>3, <2>1
    <3>2. CASE confs[s] = None
      <4>1. /\ Denominator(confs') = 100 * Denominator(confs)
            /\ Numerator(confs') =
                  100 * Numerator(confs) + confs'[s] * Complement(confs)
            /\ Complement(confs) \in Nat
            /\ Numerator(confs) \in Nat /\ Denominator(confs) \in Nat
        BY <1>1, <1>2, <1>3, <3>2, FeedsAssumption, SightedFirst
      <4>2. Numerator(confs') = 100 * Numerator(confs)
        BY <1>1, <3>1, <4>1
      <4>3. Near(agg, 100 * Numerator(confs), 100 * Denominator(confs))
        BY <1>2, <4>1, NearScaled
      <4> QED BY <1>2, <2>1, <4>1, <4>2, <4>3
    <3>3. CASE confs[s] = 0
      <4>1. confs' = confs
        BY <3>1, <3>3 DEF Sight, ValuesInv
      <4> QED BY <1>2, <2>1, <4>1
    <3> QED BY <2>1, <3>2, <3>3
  <2>2. CASE agg' \in Aggregates(confs')
    BY <1>1, <1>4, <2>2, FeedsAssumption, AggregatesNear
  <2> QED BY <2>1, <2>2 DEF Sight
<1> QED BY <1>1, <1>2, <1>4, <1>5 DEF ValuesInv

LEMMA ValuesStep ==
    ASSUME ValuesInv, [Next]_vars
    PROVE  ValuesInv'
<1>1. CASE \E s \in Feeds, c \in Levels : Sight(s, c)
  BY <1>1, SightKeeps
<1>2. CASE UNCHANGED <<kind, confs, agg>>
  BY <1>2 DEF ValuesInv
<1>3. CASE \E t \in UNION {Alphabet[k] : k \in DOMAIN Alphabet} : Grow(t)
  BY <1>2, <1>3 DEF Grow
<1> QED BY <1>1, <1>2, <1>3 DEF Next, vars
-----------------------------------------------------------------------------
(* The aggregate is always the formula's value, whatever the sources state *)
(* and in whatever order: only a sighting of nothing is left uncounted.    *)
THEOREM ValuesInductive == Spec => []ValuesInv
<1>1. Init => ValuesInv
  BY ValuesInit
<1>2. ValuesInv /\ [Next]_vars => ValuesInv'
  BY ValuesStep
<1> QED BY <1>1, <1>2, PTL DEF Spec

(* The stored confidence is a percentage and never below the confidence of *)
(* any one source, for any finite number of sources.                       *)
THEOREM AlwaysWithinBounds == Spec => []WithinBounds
<1>1. ValuesInv => WithinBounds
  <2> SUFFICES ASSUME ValuesInv PROVE WithinBounds
    OBVIOUS
  <2>1. CASE kind = "sightings"
    <3>1. /\ Stated(confs) # {} /\ agg \in Nat
          /\ Near(agg, Numerator(confs), Denominator(confs))
      BY <2>1 DEF ValuesInv
    <3> QED BY <3>1, ConfsType, FeedsAssumption, NearWithin DEF WithinBounds
  <2>2. CASE kind # "sightings"
    BY <2>2 DEF ValuesInv, WithinBounds
  <2> QED BY <2>1, <2>2
<1> QED BY <1>1, ValuesInductive, PTL

(* A sighting that states more never lowers the stored confidence, on      *)
(* whichever side of a tie the float fell before and after it.             *)
THEOREM AlwaysMonotone == Spec => Monotone
<1>1. ValuesInv /\ [Next]_vars =>
         [(\A s \in Stated(confs) : confs'[s] >= confs[s] /\ confs' # confs)
              => agg' >= agg]_vars
  <2> SUFFICES ASSUME ValuesInv, Next,
                      \A s \in Stated(confs) : confs'[s] >= confs[s] /\ confs' # confs
               PROVE  agg' >= agg
    OBVIOUS
  <2>1. CASE \E s \in Feeds, c \in Levels : Sight(s, c)
    <3>1. PICK s \in Feeds, c \in Levels : Sight(s, c)
      BY <2>1
    <3>2. /\ confs \in [Feeds -> (0 .. 100) \cup {None}]
          /\ confs' \in [Feeds -> (0 .. 100) \cup {None}]
          /\ confs'[s] = c /\ \A x \in Feeds \ {s} : confs'[x] = confs[x]
      BY <3>1, ConfsType, LevelsAssumption DEF Sight, ValuesInv
    <3>3. /\ agg \in Nat /\ agg' \in Nat /\ Stated(confs) # {}
          /\ Near(agg, Numerator(confs), Denominator(confs))
          /\ Near(agg', Numerator(confs'), Denominator(confs'))
      <4>1. ValuesInv' /\ Near(agg', Numerator(confs'), Denominator(confs'))
        BY <3>1, SightKeeps
      <4> QED BY <3>1, <4>1 DEF Sight, ValuesInv
    <3>4. c \in 0 .. 100
      BY LevelsAssumption
    <3>5. CASE confs[s] = None /\ c = 0
      <4>1. agg' \in IF {confs[s], c} \subseteq {None, 0} THEN {agg}
                     ELSE Aggregates(confs')
        BY <3>1 DEF Sight
      <4> QED BY <3>3, <3>5, <4>1
    <3>6. CASE confs[s] = None /\ c # 0
      <4>1. /\ confs[s] = None => confs'[s] # 0
            /\ confs[s] # None => confs[s] < confs'[s]
            /\ confs'[s] \in 0 .. 100
        BY <3>2, <3>4, <3>6
      <4>2. agg <= agg'
        BY <3>2, <3>3, <4>1, FeedsAssumption, MoreEvidence
      <4> QED BY <3>3, <4>2
    <3>7. CASE confs[s] # None
      <4>1. s \in Stated(confs)
        BY <3>2, <3>7 DEF Stated
      <4>2. confs[s] \in 0 .. 100 /\ c >= confs[s] /\ confs' # confs
        BY <3>2, <3>7, <4>1
      <4>3. confs[s] # c
        BY <3>2, <4>2
      <4>4. confs[s] < c
        BY <3>4, <4>2, <4>3
      <4>5. /\ confs[s] = None => confs'[s] # 0
            /\ confs[s] # None => confs[s] < confs'[s]
            /\ confs'[s] \in 0 .. 100
        BY <3>2, <3>4, <3>7, <4>4
      <4>6. agg <= agg'
        BY <3>2, <3>3, <4>5, FeedsAssumption, MoreEvidence
      <4> QED BY <3>3, <4>6
    <3> QED BY <3>5, <3>6, <3>7
  <2>2. CASE agg' = agg
    BY <2>2 DEF ValuesInv
  <2> QED BY <2>1, <2>2 DEF Next, Grow
<1> QED BY <1>1, ValuesInductive, PTL DEF Spec, Monotone
-----------------------------------------------------------------------------
(* Inclusion and exclusion.                                                *)

Part(c, T, S)   == Product(c, T) * Product([x \in S |-> 100], S \ T)
Signed(c, T, S) == IF Cardinality(T) % 2 = 1 THEN -Part(c, T, S) ELSE Part(c, T, S)
Parts(c, S)     == [T \in SUBSET S |-> Signed(c, T, S)]

LEMMA IntProduct ==
    ASSUME NEW S, IsFiniteSet(S), NEW f, \A x \in S : f[x] \in Int
    PROVE  Product(f, S) \in Int
<1>1. CASE S = {}
  <2>1. Product(f, S) = 1
    BY <1>1, NothingToTotal
  <2> QED BY <2>1
<1>2. CASE S # {}
  <2>1. PICK x \in S : TRUE
    BY <1>2
  <2>2. /\ Product(f, S \ {x}) \in Int /\ f[x] \in Int
        /\ Product(f, S) = f[x] * Product(f, S \ {x})
    BY <2>1, ProductOut
  <2> QED BY <2>2
<1> QED BY <1>1, <1>2

LEMMA SumTimes ==
    ASSUME NEW S, IsFiniteSet(S), NEW k \in Int, NEW f, NEW e,
           \A x \in S : f[x] \in Int /\ e[x] = k * f[x]
    PROVE  /\ SumFunctionOnSet(f, S) \in Int
           /\ SumFunctionOnSet(e, S) = k * SumFunctionOnSet(f, S)
<1> DEFINE T == {s \in SUBSET S : /\ SumFunctionOnSet(f, s) \in Int
                                  /\ SumFunctionOnSet(e, s) = k * SumFunctionOnSet(f, s)}
<1>1. ASSUME NEW s \in SUBSET S, \A t \in SUBSET s : t # s => t \in T
      PROVE  s \in T
  <2>1. CASE s = {}
    <3>1. SumFunctionOnSet(e, s) = 0 /\ SumFunctionOnSet(f, s) = 0
      BY <2>1, NothingToTotal
    <3> QED BY <3>1
  <2>2. CASE s # {}
    <3>1. PICK x \in s : TRUE
      BY <2>2
    <3> DEFINE a == SumFunctionOnSet(f, s \ {x})
               b == SumFunctionOnSet(e, s \ {x})
               u == f[x]
    <3>2. a \in Int /\ b = k * a
      BY <1>1, <3>1
    <3>3. IsFiniteSet(s) /\ \A y \in s : f[y] \in Int /\ e[y] \in Int
      BY FS_Subset
    <3>4. SumFunctionOnSet(f, s) = u + a /\ SumFunctionOnSet(e, s) = k * u + b
      <4>1. SumFunctionOnSet(f, s) = f[x] + a /\ SumFunctionOnSet(e, s) = e[x] + b
        BY <3>1, <3>3, SumOut
      <4> QED BY <3>1, <4>1
    <3>5. u \in Int
      BY <3>1
    <3> HIDE DEF a, b, u
    <3>6. k * (u + a) = k * u + k * a
      BY <3>2, <3>5
    <3> QED BY <3>2, <3>4, <3>5, <3>6
  <2> QED BY <2>1, <2>2
<1> HIDE DEF T
<1>2. SUBSET S \subseteq T
  BY <1>1, SetInduction
<1> QED BY <1>2 DEF T

(* Summed over sets with and without x.                                    *)
LEMMA SumDoubled ==
    ASSUME NEW S, IsFiniteSet(S), NEW x \in S, NEW f, NEW e,
           \A s \in SUBSET S : f[s] \in Int,
           \A s \in SUBSET (S \ {x}) : e[s] = f[s] + f[s \cup {x}]
    PROVE  SumFunctionOnSet(f, SUBSET S) = SumFunctionOnSet(e, SUBSET (S \ {x}))
<1> DEFINE Y == SUBSET (S \ {x})
           Z(y) == y \cup {s \cup {x} : s \in y}
           T == {y \in SUBSET Y : SumFunctionOnSet(f, Z(y)) = SumFunctionOnSet(e, y)}
<1>1. IsFiniteSet(SUBSET S) /\ IsFiniteSet(Y)
  <2>1. IsFiniteSet(SUBSET S)
    BY FS_SUBSET, Zenon
  <2>2. Y \in SUBSET SUBSET S
    OBVIOUS
  <2> HIDE DEF Y
  <2> QED BY <2>1, <2>2, FS_Subset
<1>2. ASSUME NEW y \in SUBSET Y, \A t \in SUBSET y : t # y => t \in T
      PROVE  y \in T
  <2>1. CASE y = {}
    <3>1. Z(y) = {}
      BY <2>1
    <3> HIDE DEF Z
    <3> QED BY <2>1, <3>1, NothingToTotal
  <2>2. CASE y # {}
    <3>1. PICK t \in y : TRUE
      BY <2>2
    <3> DEFINE r == y \ {t}
               with == t \cup {x}
               Zt == Z(y) \ {t}
    <3>2. SumFunctionOnSet(f, Z(r)) = SumFunctionOnSet(e, r)
      BY <1>2, <3>1
    <3>3. /\ t \in Z(y) /\ with \in Zt /\ Zt \ {with} = Z(r)
          /\ Z(y) \in SUBSET SUBSET S /\ Zt \in SUBSET SUBSET S
      <4>1. \A s \in y : s \in SUBSET (S \ {x})
        OBVIOUS
      <4>2. t \in Z(y) /\ with \in Zt
        BY <3>1, <4>1
      <4>3. Z(y) \in SUBSET SUBSET S /\ Zt \in SUBSET SUBSET S
        BY <4>1
      <4>4. \A s \in y : s \cup {x} = with => s = t
        <5>1. x \notin t /\ \A s \in y : x \notin s
          BY <3>1, <4>1
        <5>2. ASSUME NEW s \in y, s \cup {x} = with
              PROVE  s = t
          <6>1. s = (s \cup {x}) \ {x} /\ t = with \ {x}
            BY <5>1
          <6> QED BY <5>2, <6>1
        <5> QED BY <5>2
      <4>5. \A s \in y : s # with /\ s \cup {x} # t
        BY <3>1, <4>1
      <4>6. Zt \ {with} = Z(r)
        BY <4>4, <4>5
      <4> QED BY <4>2, <4>3, <4>6
    <3>4. /\ IsFiniteSet(Z(y)) /\ IsFiniteSet(Zt) /\ IsFiniteSet(y)
          /\ \A s \in Z(y) : f[s] \in Int
          /\ \A s \in Zt : f[s] \in Int
      BY <1>1, <3>3, FS_Subset
    <3>5. \A s \in y : e[s] \in Int /\ e[s] = f[s] + f[s \cup {x}]
      OBVIOUS
    <3>6. SumFunctionOnSet(e, y) = e[t] + SumFunctionOnSet(e, r)
      BY <3>1, <3>4, <3>5, SumOut
    <3>7. SumFunctionOnSet(f, Z(y)) = f[t] + SumFunctionOnSet(f, Zt)
      <4> HIDE DEF Z
      <4> QED BY <3>3, <3>4, SumOut
    <3>8. /\ SumFunctionOnSet(f, Zt \ {with}) \in Int
          /\ SumFunctionOnSet(f, Zt) = f[with] + SumFunctionOnSet(f, Zt \ {with})
      <4> HIDE DEF Zt, with
      <4> QED BY <3>3, <3>4, SumOut
    <3>9. f[t] \in Int /\ f[with] \in Int
      BY <3>1
    <3>10. e[t] = f[t] + f[with]
      BY <3>1, <3>5
    <3> HIDE DEF Z, Zt, with, r
    <3>11. SumFunctionOnSet(f, Z(y)) = SumFunctionOnSet(e, y)
      <4> DEFINE a == SumFunctionOnSet(f, Z(r))
      <4>1. a \in Int
        BY <3>3, <3>8
      <4>2. /\ SumFunctionOnSet(f, Zt) = f[with] + a
            /\ SumFunctionOnSet(e, y) = e[t] + a
        BY <3>2, <3>3, <3>6, <3>8
      <4> HIDE DEF a
      <4> QED BY <3>7, <3>9, <3>10, <4>1, <4>2
    <3> QED BY <3>11
  <2> QED BY <2>1, <2>2
<1> HIDE DEF T
<1>3. SUBSET Y \subseteq T
  <2> HIDE DEF Y
  <2> QED BY <1>1, <1>2, SetInduction
<1>4. Z(Y) = SUBSET S
  <2>1. ASSUME NEW s \in SUBSET S
        PROVE  s \in Z(Y)
    <3>1. CASE x \in s
      <4>1. s \ {x} \in Y /\ s = (s \ {x}) \cup {x}
        BY <3>1
      <4> QED BY <4>1
    <3>2. CASE x \notin s
      <4>1. s \in Y
        BY <3>2
      <4> QED BY <4>1
    <3> QED BY <3>1, <3>2
  <2>2. ASSUME NEW s \in Z(Y)
        PROVE  s \in SUBSET S
    OBVIOUS
  <2> HIDE DEF Y, Z
  <2> QED BY <2>1, <2>2
<1>5. Y \in T
  BY <1>3
<1> QED BY <1>4, <1>5 DEF T

(* One more source x: each term appears once without it, 100 times itself, *)
(* and once with it, of the other sign.                                    *)
LEMMA SignedOut ==
    ASSUME NEW S, IsFiniteSet(S), NEW x \in S, NEW c, \A y \in S : c[y] \in Int,
           NEW R, R = S \ {x}, NEW T \in SUBSET R
    PROVE  /\ Signed(c, T, R) \in Int
           /\ Signed(c, T, S) = 100 * Signed(c, T, R)
           /\ Signed(c, T \cup {x}, S) = (-c[x]) * Signed(c, T, R)
<1> DEFINE hS == [y \in S |-> 100]
           hR == [y \in R |-> 100]
           Q == R \ T
           W == T \cup {x}
<1>1. /\ IsFiniteSet(T) /\ IsFiniteSet(Q) /\ IsFiniteSet(S \ T) /\ IsFiniteSet(W)
      /\ x \notin T /\ W \ {x} = T /\ (S \ T) \ {x} = Q /\ S \ W = Q
      /\ x \in S \ T /\ x \in W
  <2>1. T \in SUBSET S /\ Q \in SUBSET S /\ S \ T \in SUBSET S /\ W \in SUBSET S
    OBVIOUS
  <2>2. /\ IsFiniteSet(T) /\ IsFiniteSet(Q) /\ IsFiniteSet(S \ T) /\ IsFiniteSet(W)
    <3> HIDE DEF Q, W
    <3> QED BY <2>1, FS_Subset
  <2> QED BY <2>2
<1> DEFINE a == Product(c, T)
           b == Product(hR, Q)
<1>2. a \in Int /\ b \in Int
  <2>1. \A y \in T : c[y] \in Int
    OBVIOUS
  <2>2. \A y \in Q : hR[y] \in Int
    OBVIOUS
  <2> HIDE DEF Q, hR
  <2> QED BY <1>1, <2>1, <2>2, IntProduct
<1>3. Product(hS, Q) = b
  <2>1. \A y \in Q : hS[y] = hR[y]
    OBVIOUS
  <2> HIDE DEF Q, hR, hS
  <2> QED BY <1>1, <2>1, ProductSame
<1>4. Product(hS, S \ T) = 100 * b
  <2>1. (\A y \in S \ T : hS[y] \in Int) /\ hS[x] = 100
    OBVIOUS
  <2> HIDE DEF Q, hS
  <2> QED BY <1>1, <1>3, <2>1, ProductOut
<1>5. Product(c, W) = c[x] * a
  <2>1. \A y \in W : c[y] \in Int
    OBVIOUS
  <2> HIDE DEF W
  <2> QED BY <1>1, <2>1, ProductOut
<1>6. /\ Part(c, T, R) = a * b /\ Part(c, T, S) = a * (100 * b)
      /\ Part(c, W, S) = (c[x] * a) * b
  BY <1>1, <1>3, <1>4, <1>5 DEF Part
<1>7. /\ Cardinality(T) \in Nat /\ Cardinality(W) = Cardinality(T) + 1
  <2>1. Cardinality(T) \in Nat
    BY <1>1, FS_CardinalityType
  <2>2. Cardinality(W \ {x}) = Cardinality(W) - 1 /\ Cardinality(W) \in Nat
    <3> HIDE DEF W
    <3>1. Cardinality(W) \in Nat
      BY <1>1, FS_CardinalityType
    <3>2. Cardinality(W \ {x}) = Cardinality(W) - 1
      BY <1>1, FS_RemoveElement
    <3> QED BY <3>1, <3>2
  <2>3. Cardinality(W \ {x}) = Cardinality(T)
    BY <1>1
  <2> HIDE DEF W
  <2> QED BY <2>1, <2>2, <2>3
<1> DEFINE n == Cardinality(T)
           v == c[x]
           odd == n % 2 = 1
<1>8. v \in Int /\ (((n + 1) % 2 = 1) <=> ~odd)
  <2>1. v \in Int
    OBVIOUS
  <2>2. n \in Nat
    BY <1>7
  <2> HIDE DEF n
  <2>3. ((n + 1) % 2 = 1) <=> ~(n % 2 = 1)
    BY <2>2
  <2> QED BY <2>1, <2>3
<1>9. /\ Signed(c, T, R) = IF odd THEN -(a * b) ELSE a * b
      /\ Signed(c, T, S) = IF odd THEN -(a * (100 * b)) ELSE a * (100 * b)
      /\ Signed(c, W, S) = IF odd THEN (v * a) * b ELSE -((v * a) * b)
  BY <1>6, <1>7, <1>8 DEF Signed
<1>10. /\ a * b \in Int /\ a * (100 * b) = 100 * (a * b)
       /\ (v * a) * b = v * (a * b)
  <2> HIDE DEF a, b, v
  <2> QED BY <1>2, <1>8
<1> HIDE DEF a, b, v, odd, W
<1>11. /\ v * (a * b) \in Int
       /\ (-v) * (a * b) = -(v * (a * b)) /\ (-v) * (-(a * b)) = v * (a * b)
  BY <1>8, <1>10
<1>12. /\ Signed(c, T, R) \in Int
       /\ Signed(c, T, S) = 100 * Signed(c, T, R)
       /\ Signed(c, W, S) = (-v) * Signed(c, T, R)
  <2> DEFINE ab == a * b
  <2> HIDE DEF ab
  <2>1. CASE odd
    BY <1>9, <1>10, <1>11, <2>1
  <2>2. CASE ~odd
    BY <1>9, <1>10, <1>11, <2>2
  <2> QED BY <2>1, <2>2
<1> QED BY <1>12 DEF v, W
LEMMA SignedInt ==
    ASSUME NEW S, IsFiniteSet(S), NEW c, \A y \in S : c[y] \in Int,
           NEW T \in SUBSET S
    PROVE  Signed(c, T, S) \in Int
<1> DEFINE Q == S \ T
           h == [y \in S |-> 100]
<1>1. IsFiniteSet(T) /\ IsFiniteSet(Q)
  <2>1. Q \in SUBSET S
    OBVIOUS
  <2> HIDE DEF Q
  <2> QED BY <2>1, FS_Subset
<1>2. Product(c, T) \in Int /\ Product(h, Q) \in Int
  <2>1. (\A y \in T : c[y] \in Int) /\ (\A y \in Q : h[y] \in Int)
    OBVIOUS
  <2> HIDE DEF Q, h
  <2> QED BY <1>1, <2>1, IntProduct
<1>3. Part(c, T, S) \in Int
  BY <1>2 DEF Part
<1> QED BY <1>3 DEF Signed

(* Multiplied out, PROD (100 - c) is the sum of the signed parts.          *)
LEMMA Expansion ==
    ASSUME NEW S, IsFiniteSet(S), NEW c, \A x \in S : c[x] \in Int
    PROVE  SumFunctionOnSet(Parts(c, S), SUBSET S) = Product([x \in S |-> 100 - c[x]], S)
<1> DEFINE Sum(s)  == SumFunctionOnSet(Parts(c, s), SUBSET s)
           Prod(s) == Product([x \in s |-> 100 - c[x]], s)
           T == {s \in SUBSET S : Sum(s) = Prod(s)}
<1>1. ASSUME NEW s \in SUBSET S, \A t \in SUBSET s : t # s => t \in T
      PROVE  s \in T
  <2>1. IsFiniteSet(s) /\ \A x \in s : c[x] \in Int
    BY FS_Subset
  <2>2. CASE s = {}
    <3> DEFINE g == Parts(c, s)
               Y == {s}
    <3>1. SUBSET s = Y /\ IsFiniteSet(Y) /\ s \in Y /\ Y \ {s} = {}
      BY <2>2, FS_Singleton
    <3>2. g[s] = 1
      <4>1. Product(c, s) = 1 /\ Product([x \in s |-> 100], s \ s) = 1
        BY <2>2, NothingToTotal
      <4>2. Part(c, s, s) = 1
        BY <4>1 DEF Part
      <4>3. Cardinality(s) = 0
        BY <2>2, FS_EmptySet
      <4>4. Signed(c, s, s) = 1
        BY <4>2, <4>3 DEF Signed
      <4> QED BY <4>4 DEF Parts
    <3>3. SumFunctionOnSet(g, Y) = g[s] + SumFunctionOnSet(g, Y \ {s})
      <4>1. \A y \in Y : g[y] \in Int
        BY <3>2
      <4> HIDE DEF g, Y
      <4> QED BY <3>1, <4>1, SumOut
    <3>4. SumFunctionOnSet(g, {}) = 0 /\ Prod(s) = 1
      BY <2>2, NothingToTotal
    <3> HIDE DEF g, Y
    <3>5. SumFunctionOnSet(g, Y) = 1
      <4>1. SumFunctionOnSet(g, Y \ {s}) = 0
        BY <3>1, <3>4
      <4> QED BY <3>2, <3>3, <4>1
    <3>6. SumFunctionOnSet(g, SUBSET s) = 1
      BY <3>1, <3>5
    <3> QED BY <3>4, <3>6 DEF g
  <2>3. CASE s # {}
    <3>1. PICK x \in s : TRUE
      BY <2>3
    <3> DEFINE R == s \ {x}
               k == 100 - c[x]
               f == Parts(c, s)
               g == Parts(c, R)
               e == [t \in SUBSET R |-> k * g[t]]
               Y == SUBSET R
    <3>2. /\ R \in T /\ IsFiniteSet(R) /\ IsFiniteSet(Y) /\ k \in Int
          /\ \A y \in R : c[y] \in Int
      <4>1. R \in SUBSET s /\ R # s
        BY <3>1
      <4>2. IsFiniteSet(R)
        BY <2>1, <4>1, FS_Subset
      <4>3. IsFiniteSet(SUBSET R)
        BY <4>2, FS_SUBSET, Zenon
      <4>4. R \in T
        BY <1>1, <4>1
      <4>5. k \in Int /\ \A y \in R : c[y] \in Int
        BY <2>1, <3>1
      <4> HIDE DEF R, k, T
      <4> QED BY <4>2, <4>3, <4>4, <4>5
    <3>3. \A t \in SUBSET s : f[t] \in Int
      BY <2>1, SignedInt DEF Parts
    <3>4. \A t \in Y : e[t] = k * g[t] /\ g[t] \in Int
      <4> SUFFICES ASSUME NEW t \in SUBSET R PROVE g[t] \in Int
        OBVIOUS
      <4>1. Signed(c, t, R) \in Int
        <5> HIDE DEF R
        <5> QED BY <3>2, SignedInt
      <4> QED BY <4>1 DEF Parts
    <3>5. \A t \in SUBSET R : e[t] = f[t] + f[t \cup {x}]
      <4> SUFFICES ASSUME NEW t \in SUBSET R
                   PROVE  e[t] = f[t] + f[t \cup {x}]
        OBVIOUS
      <4>1. /\ Signed(c, t, R) \in Int
            /\ Signed(c, t, s) = 100 * Signed(c, t, R)
            /\ Signed(c, t \cup {x}, s) = (-c[x]) * Signed(c, t, R)
        <5>1. R = s \ {x}
          OBVIOUS
        <5> HIDE DEF R
        <5> QED BY <2>1, <3>1, <5>1, SignedOut
      <4>2. /\ g[t] = Signed(c, t, R) /\ f[t] = Signed(c, t, s)
            /\ f[t \cup {x}] = Signed(c, t \cup {x}, s)
        BY <3>1 DEF Parts
      <4> DEFINE v == c[x]
                 z == Signed(c, t, R)
      <4>3. v \in Int /\ z \in Int
        BY <2>1, <3>1, <4>1
      <4> HIDE DEF v, z
      <4>4. (100 - v) * z = 100 * z + (-v) * z
        BY <4>3
      <4> QED BY <4>1, <4>2, <4>4 DEF v, z
    <3>6. SumFunctionOnSet(f, SUBSET s) = SumFunctionOnSet(e, SUBSET R)
      <4> HIDE DEF f, e
      <4> QED BY <2>1, <3>1, <3>3, <3>5, SumDoubled
    <3>7. SumFunctionOnSet(e, Y) = k * SumFunctionOnSet(g, Y)
      <4> HIDE DEF e, g, k, Y
      <4> QED BY <3>2, <3>4, SumTimes
    <3>8. Prod(s) = k * Prod(R)
      <4> DEFINE p == [y \in s |-> 100 - c[y]]
                 q == [y \in R |-> 100 - c[y]]
      <4>1. /\ \A y \in s : p[y] \in Int
            /\ \A y \in R : p[y] = q[y]
            /\ p[x] = k
        BY <2>1, <3>1
      <4> HIDE DEF p, q, k
      <4>2. Product(p, s) = p[x] * Product(p, s \ {x})
        BY <2>1, <3>1, <4>1, ProductOut
      <4>3. Product(p, R) = Product(q, R)
        <5> HIDE DEF R
        <5> QED BY <3>2, <4>1, ProductSame
      <4> QED BY <4>1, <4>2, <4>3 DEF p, q
    <3>9. SumFunctionOnSet(g, SUBSET R) = Prod(R)
      BY <3>2
    <3> HIDE DEF e, f, g, k, R, Prod
    <3>10. SumFunctionOnSet(f, SUBSET s) = Prod(s)
      BY <3>6, <3>7, <3>8, <3>9
    <3> QED BY <3>10 DEF f
  <2> QED BY <2>2, <2>3
<1> HIDE DEF T
<1>2. SUBSET S \subseteq T
  BY <1>1, SetInduction
<1> QED BY <1>2 DEF T

(* So the probability that some source is right is the complement of the   *)
(* product over those that they are wrong.                                 *)
LEMMA EvidenceIs ==
    ASSUME ValuesInv
    PROVE  AtLeastOne(Stated(confs)) = Numerator(confs)
<1> DEFINE S == Stated(confs)
           c == confs
           f == Parts(c, S)
           v(T) == IF Cardinality(T) % 2 = 1 THEN AllOf(T, S) ELSE -AllOf(T, S)
           e == [T \in (SUBSET S) \ {{}} |-> v(T)]
           Y == SUBSET S
           Z == Y \ {{}}
<1>1. IsFiniteSet(S) /\ \A x \in S : c[x] \in Int
  <2>1. S \in SUBSET Feeds
    BY DEF Stated, ValuesInv
  <2>2. IsFiniteSet(S)
    <3> HIDE DEF S
    <3> QED BY <2>1, FeedsAssumption, FS_Subset
  <2> QED BY <2>2, ConfsType DEF Stated
<1>2. IsFiniteSet(Y) /\ IsFiniteSet(Z) /\ {} \in Y
  <2>1. IsFiniteSet(Y)
    <3> HIDE DEF S
    <3> QED BY <1>1, FS_SUBSET, Zenon
  <2>2. Z \in SUBSET Y
    OBVIOUS
  <2> HIDE DEF Z, Y
  <2>3. IsFiniteSet(Z)
    BY <2>1, <2>2, FS_Subset
  <2> QED BY <2>1, <2>3 DEF Y
<1>3. \A T \in Y : f[T] \in Int /\ f[T] = Signed(c, T, S)
  <2> SUFFICES ASSUME NEW T \in SUBSET S PROVE Signed(c, T, S) \in Int
    BY DEF Parts
  <2> HIDE DEF S
  <2> QED BY <1>1, SignedInt
<1>4. SumFunctionOnSet(f, Y) = Complement(c)
  <2>1. SumFunctionOnSet(f, Y) = Product([x \in S |-> 100 - c[x]], S)
    <3> HIDE DEF S
    <3> QED BY <1>1, Expansion
  <2> QED BY <2>1 DEF Complement
<1>5. f[{}] = Scale(c)
  <2>1. f[{}] = Signed(c, {}, S)
    BY <1>3
  <2>2. Cardinality({}) = 0
    BY FS_EmptySet
  <2>3. Product(c, {}) = 1
    BY NothingToTotal
  <2>4. S \ {} = S /\ Product([x \in S |-> 100], S) = Scale(c)
    BY DEF Scale
  <2>5. Scale(c) \in Int
    <3> DEFINE h == [x \in S |-> 100]
    <3>1. \A x \in S : h[x] \in Int
      OBVIOUS
    <3> HIDE DEF S, h
    <3>2. Product(h, S) \in Int
      BY <1>1, <3>1, IntProduct
    <3> QED BY <2>4, <3>2 DEF h
  <2>6. Part(c, {}, S) = Scale(c)
    BY <2>3, <2>4, <2>5 DEF Part
  <2> QED BY <2>1, <2>2, <2>6 DEF Signed
<1>6. SumFunctionOnSet(f, Y) = f[{}] + SumFunctionOnSet(f, Z)
  <2> HIDE DEF f, Y
  <2> QED BY <1>2, <1>3, SumOut
<1>7. /\ SumFunctionOnSet(f, Z) \in Int
      /\ SumFunctionOnSet(e, Z) = (-1) * SumFunctionOnSet(f, Z)
  <2>1. \A T \in Z : f[T] \in Int /\ e[T] = (-1) * f[T]
    <3> SUFFICES ASSUME NEW T \in Z PROVE f[T] \in Int /\ e[T] = (-1) * f[T]
      OBVIOUS
    <3>1. f[T] \in Int /\ f[T] = Signed(c, T, S)
      BY <1>3
    <3>2. Part(c, T, S) = AllOf(T, S)
      BY DEF Part, AllOf
    <3>3. e[T] = v(T)
      <4> HIDE DEF S, c, f, v
      <4> QED OBVIOUS
    <3>4. AllOf(T, S) \in Int
      <4>1. /\ Product(c, T) \in Int
            /\ Product([s \in S |-> 100], S \ T) \in Int
        <5> DEFINE Q == S \ T
                   h == [s \in S |-> 100]
        <5>1. IsFiniteSet(T) /\ IsFiniteSet(Q)
          <6>1. T \in SUBSET S /\ Q \in SUBSET S
            OBVIOUS
          <6> HIDE DEF S, Q
          <6> QED BY <1>1, <6>1, FS_Subset
        <5>2. (\A y \in T : c[y] \in Int) /\ (\A y \in Q : h[y] \in Int)
          BY <1>1
        <5> HIDE DEF Q, h
        <5>3. Product(c, T) \in Int /\ Product(h, Q) \in Int
          BY <5>1, <5>2, IntProduct
        <5> QED BY <5>3 DEF Q, h
      <4> QED BY <4>1 DEF AllOf
    <3> HIDE DEF e, f
    <3> QED BY <3>1, <3>2, <3>3, <3>4 DEF Signed
  <2> DEFINE m == -1
  <2>2. m \in Int
    OBVIOUS
  <2>3. \A T \in Z : f[T] \in Int /\ e[T] = m * f[T]
    BY <2>1
  <2> HIDE DEF e, f, Z, m
  <2>4. /\ SumFunctionOnSet(f, Z) \in Int
        /\ SumFunctionOnSet(e, Z) = m * SumFunctionOnSet(f, Z)
    BY <1>2, <2>2, <2>3, SumTimes
  <2> QED BY <2>4 DEF m
<1>8. AtLeastOne(S) = SumFunctionOnSet(e, Z)
  <2>1. AtLeastOne(S) = SumFunctionOnSet(e, DOMAIN e)
    BY Zenon DEF AtLeastOne, SumFunction
  <2>2. DOMAIN e = Z
    OBVIOUS
  <2> HIDE DEF e, Z
  <2> QED BY <2>1, <2>2
<1> HIDE DEF e, f, Y, Z
<1>9. Numerator(c) = Scale(c) - Complement(c) /\ Scale(c) \in Int
  <2>1. f[{}] \in Int
    BY <1>2, <1>3
  <2> QED BY <1>5, <2>1 DEF Numerator
<1> DEFINE a == SumFunctionOnSet(f, Z)
<1>10. /\ a \in Int /\ AtLeastOne(S) = (-1) * a
       /\ Complement(c) = Scale(c) + a
  BY <1>4, <1>5, <1>6, <1>7, <1>8
<1> HIDE DEF a, S, c
<1>11. AtLeastOne(S) = Numerator(c)
  BY <1>9, <1>10
<1> QED BY <1>11 DEF S, c

(* For any number of sources, and whatever they state: the product over    *)
(* complements is, to the nearest percent, the probability that at least   *)
(* one of the sources is right.                                            *)
THEOREM AlwaysCombinesEvidence == Spec => []CombinesEvidence
<1>1. ValuesInv => CombinesEvidence
  <2> SUFFICES ASSUME ValuesInv, kind = "sightings" PROVE CombinesEvidence
    BY DEF CombinesEvidence
  <2> DEFINE d == Denominator(confs)
             n == Numerator(confs)
  <2>1. /\ Stated(confs) # {} /\ agg \in Nat /\ Near(agg, n, d)
    BY DEF ValuesInv
  <2>2. n \in Nat /\ d \in Nat \ {0}
    <3>1. PICK s \in Stated(confs) : TRUE
      BY <2>1
    <3> QED BY <3>1, ConfsType, FeedsAssumption, OneOut
  <2>3. AtLeastOne(Stated(confs)) = n
    BY EvidenceIs
  <2>4. CombinesEvidence <=> agg * (2 * d) - 2 * n \in -((2 * d) \div 2) .. (2 * d) \div 2
    BY <2>3 DEF CombinesEvidence
  <2> HIDE DEF d, n
  <2>5. (2 * d) \div 2 = d
    BY <2>2
  <2>6. agg * (2 * d) = 2 * (agg * d) /\ agg * d \in Int
    BY <2>1, <2>2
  <2>7. agg * (2 * d) - 2 * n \in -d .. d
    BY <2>1, <2>2, <2>6 DEF Near
  <2> QED BY <2>4, <2>5, <2>7
<1> QED BY <1>1, ValuesInductive, PTL
=============================================================================
