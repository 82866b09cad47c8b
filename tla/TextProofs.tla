----------------------------- MODULE TextProofs -----------------------------
(***************************************************************************)
(* What is shown for texts of any length: defang_auto() leaves nothing     *)
(* live, nor does defang() in a value with one link (OneLink), and nothing *)
(* is lost; a value without a backslash reads back from its STIX pattern.  *)
(* A rewriting is blocks of tokens that FlattenSeq lays end to end (Laid), *)
(* so that a pass over what a pass gave is one cut of the text (CutAgain). *)
(***************************************************************************)
EXTENDS MCValues, SequenceTheorems, WellFoundedInduction, TLAPS

(* What holds of 0 and of each next number holds up to m.                  *)
LEMMA IntervalInduction ==
    ASSUME NEW m \in Nat, NEW T, 0 \in T,
           \A n \in 0 .. m - 1 : n \in T => n + 1 \in T
    PROVE  0 .. m \subseteq T
<1> DEFINE R == OpToRel(<, Nat)
           B == {i \in 0 .. m : i \notin T}
<1> SUFFICES ASSUME B # {} PROVE FALSE
  OBVIOUS
<1>1. PICK x \in B : \A y \in B : <<y, x>> \notin R
  <2>1. IsWellFoundedOn(R, Nat)
    BY NatLessThanWellFounded
  <2>2. B \subseteq Nat
    OBVIOUS
  <2> HIDE DEF R, B
  <2> QED BY <2>1, <2>2, WFMin
<1>2. x # 0 /\ x \in 0 .. m /\ x \notin T
  OBVIOUS
<1>3. <<x - 1, x>> \in R
  BY <1>2 DEF OpToRel
<1>4. x - 1 \notin B
  BY <1>1, <1>3
<1> QED BY <1>2, <1>4
-----------------------------------------------------------------------------
(* Block i of B ends at position ends[i] of the text r they make up.       *)
Ends(ends, B) ==
    ends = [i \in 0 .. Len(B) |-> IF i = 0 THEN 0 ELSE ends[i - 1] + Len(B[i])]

(* r consists of the first n blocks.                                       *)
LaidTo(r, n, B, ends) ==
    /\ Len(r) = ends[n]
    /\ \A i \in 1 .. n : \A k \in 1 .. Len(B[i]) :
          r[ends[i - 1] + k] = B[i][k]

Laid(r, B, ends) == Ends(ends, B) /\ LaidTo(r, Len(B), B, ends)

LEMMA FunctionSeq ==
    ASSUME NEW n \in Nat, NEW T, NEW b \in [1 .. n -> T]
    PROVE  b \in Seq(T) /\ Len(b) = n
<1>1. b \in Seq(T)
  BY SeqDef
<1>2. DOMAIN b = 1 .. Len(b) /\ Len(b) \in Nat
  BY <1>1, LenProperties
<1> QED BY <1>1, <1>2

LEMMA EndsStep ==
    ASSUME NEW B, Len(B) \in Nat, NEW e, Ends(e, B)
    PROVE  /\ e[0] = 0
           /\ \A i \in 1 .. Len(B) : e[i] = e[i - 1] + Len(B[i])
BY DEF Ends

LEMMA EndsExist ==
    ASSUME NEW T, NEW B \in Seq(Seq(T))
    PROVE  \E e : Ends(e, B)
<1> DEFINE n == Len(B)
           To(m, e) == e = [i \in 0 .. m |-> IF i = 0 THEN 0 ELSE e[i - 1] + Len(B[i])]
           S == {m \in 0 .. n : \E e : To(m, e)}
<1>1. n \in Nat
  BY LenProperties
<1>2. 0 \in S
  <2> DEFINE z == [i \in 0 .. 0 |-> 0]
  <2>1. \A i \in 0 .. 0 : i = 0 /\ z[i] = 0
    OBVIOUS
  <2>2. z = [i \in 0 .. 0 |-> IF i = 0 THEN 0 ELSE z[i - 1] + Len(B[i])]
    <3> HIDE DEF n
    <3> QED BY <2>1
  <2>3. To(0, z)
    BY <2>2
  <2> HIDE DEF z, To
  <2> QED BY <1>1, <2>3
<1>3. ASSUME NEW m \in 0 .. n - 1, m \in S
      PROVE  m + 1 \in S
  <2>1. PICK e : To(m, e)
    BY <1>3
  <2> DEFINE next == e[m] + Len(B[m + 1])
             g    == [i \in 0 .. m + 1 |-> IF i = m + 1 THEN next ELSE e[i]]
  <2>2. ASSUME NEW i \in 0 .. m + 1
        PROVE  g[i] = IF i = 0 THEN 0 ELSE g[i - 1] + Len(B[i])
    <3> HIDE DEF n
    <3>1. CASE i = m + 1
      BY <3>1
    <3>2. CASE i # m + 1
      <4>1. /\ i \in 0 .. m /\ g[i] = e[i]
            /\ i # 0 => i - 1 \in 0 .. m /\ g[i - 1] = e[i - 1]
        BY <3>2
      <4>2. e[i] = IF i = 0 THEN 0 ELSE e[i - 1] + Len(B[i])
        BY <2>1, <4>1
      <4> HIDE DEF g
      <4> QED BY <4>1, <4>2
    <3> QED BY <3>1, <3>2
  <2>3. To(m + 1, g)
    <3> HIDE DEF next
    <3>1. g = [i \in 0 .. m + 1 |-> g[i]]
      OBVIOUS
    <3> HIDE DEF g
    <3> QED BY <2>2, <3>1
  <2> HIDE DEF To
  <2> QED BY <1>1, <2>3
<1> HIDE DEF S
<1>4. 0 .. n \subseteq S
  BY <1>1, <1>2, <1>3, IntervalInduction
<1>5. n \in S
  BY <1>1, <1>4
<1> QED BY <1>5 DEF S, Ends

LEMMA EndsGrow ==
    ASSUME NEW T, NEW B \in Seq(Seq(T)), NEW e, Ends(e, B)
    PROVE  /\ e[0] = 0
           /\ \A i \in 1 .. Len(B) : /\ e[i] = e[i - 1] + Len(B[i])
                                     /\ Len(B[i]) \in Nat
           /\ \A j \in 0 .. Len(B) : e[j] \in Nat
           /\ \A i, j \in 0 .. Len(B) : i <= j => e[i] <= e[j]
<1> DEFINE n == Len(B)
<1>1. n \in Nat /\ \A i \in 1 .. n : Len(B[i]) \in Nat
  <2>1. n \in Nat /\ \A i \in 1 .. n : B[i] \in Seq(T)
    BY LenProperties, ElementOfSeq
  <2> QED BY <2>1, LenProperties
<1>2. e[0] = 0 /\ \A i \in 1 .. n : e[i] = e[i - 1] + Len(B[i])
  BY <1>1, EndsStep
<1> DEFINE U == {j \in 0 .. n : \A i \in 0 .. j : e[i] \in Nat /\ e[i] <= e[j]}
<1> HIDE DEF n
<1>3. 0 \in U
  BY <1>1, <1>2
<1>4. ASSUME NEW j \in 0 .. n - 1, j \in U
      PROVE  j + 1 \in U
  <2>1. j \in Nat /\ j + 1 \in 0 .. n /\ j + 1 \in 1 .. n /\ (j + 1) - 1 = j
    BY <1>1
  <2>2. e[j + 1] = e[j] + Len(B[j + 1]) /\ Len(B[j + 1]) \in Nat
    BY <1>1, <1>2, <2>1
  <2>3. e[j] \in Nat /\ \A i \in 0 .. j : e[i] \in Nat /\ e[i] <= e[j]
    BY <1>4, <2>1
  <2>4. e[j + 1] \in Nat /\ e[j] <= e[j + 1]
    BY <2>2, <2>3
  <2>5. ASSUME NEW i \in 0 .. j + 1
        PROVE  e[i] \in Nat /\ e[i] <= e[j + 1]
    <3>1. CASE i = j + 1
      BY <2>4, <3>1
    <3>2. CASE i # j + 1
      <4>1. i \in 0 .. j
        BY <2>1, <3>2
      <4>2. e[i] \in Nat /\ e[i] <= e[j]
        BY <2>3, <4>1
      <4> QED BY <2>3, <2>4, <4>2
    <3> QED BY <3>1, <3>2
  <2> QED BY <2>1, <2>4, <2>5
<1>5. 0 .. n \subseteq U
  <2> HIDE DEF U
  <2> QED BY <1>1, <1>3, <1>4, IntervalInduction
<1>6. ASSUME NEW j \in 0 .. n
      PROVE  /\ e[j] \in Nat
             /\ \A i \in 0 .. n : i <= j => e[i] <= e[j]
  <2>1. j \in U
    BY <1>5
  <2>2. \A i \in 0 .. j : e[i] \in Nat /\ e[i] <= e[j]
    BY <2>1
  <2> QED BY <1>1, <2>2
<1> QED BY <1>1, <1>2, <1>6 DEF n

(* What FlattenSeq computes of the first n blocks.                         *)
Joins(f, n, B) ==
    f = [i \in 1 .. n |-> IF i = 1 THEN B[i] ELSE f[i - 1] \o B[i]]

LEMMA JoinsExist ==
    ASSUME NEW n \in Nat, NEW B
    PROVE  \E f : Joins(f, n, B)
<1> DEFINE S == {m \in 0 .. n : \E f : Joins(f, m, B)}
<1>1. 0 \in S
  <2> DEFINE z == [i \in 1 .. 0 |-> 0]
  <2>1. z = [i \in 1 .. 0 |-> IF i = 1 THEN B[i] ELSE z[i - 1] \o B[i]]
    OBVIOUS
  <2>2. Joins(z, 0, B)
    BY <2>1 DEF Joins
  <2> QED BY <2>2
<1>2. ASSUME NEW m \in 0 .. n - 1, m \in S
      PROVE  m + 1 \in S
  <2>1. PICK f : Joins(f, m, B)
    BY <1>2
  <2> DEFINE next == IF m = 0 THEN B[1] ELSE f[m] \o B[m + 1]
             g    == [i \in 1 .. m + 1 |-> IF i = m + 1 THEN next ELSE f[i]]
  <2>2. ASSUME NEW i \in 1 .. m + 1
        PROVE  g[i] = IF i = 1 THEN B[i] ELSE g[i - 1] \o B[i]
    <3>1. CASE i = m + 1
      <4>1. g[i] = next /\ i - 1 = m /\ i # 1 => g[i - 1] = f[m]
        BY <3>1
      <4>2. g[i] = next
        BY <3>1
      <4>3. i = 1 <=> m = 0
        BY <3>1
      <4>4. i # 1 => g[i - 1] = f[m]
        <5> HIDE DEF next
        <5> QED BY <3>1
      <4> HIDE DEF g
      <4> QED BY <3>1, <4>2, <4>3, <4>4
    <3>2. CASE i # m + 1
      <4>1. /\ i \in 1 .. m /\ g[i] = f[i]
            /\ i # 1 => i - 1 \in 1 .. m /\ g[i - 1] = f[i - 1]
        <5> HIDE DEF next
        <5> QED BY <3>2
      <4>2. f[i] = IF i = 1 THEN B[i] ELSE f[i - 1] \o B[i]
        BY <2>1, <4>1 DEF Joins
      <4> HIDE DEF g
      <4> QED BY <4>1, <4>2
    <3> QED BY <3>1, <3>2
  <2>3. Joins(g, m + 1, B)
    <3> HIDE DEF next
    <3>1. g = [i \in 1 .. m + 1 |-> g[i]]
      OBVIOUS
    <3> HIDE DEF g
    <3> QED BY <2>2, <3>1 DEF Joins
  <2> HIDE DEF g
  <2> QED BY <2>3
<1> HIDE DEF S
<1>3. n \in S
  BY <1>1, <1>2, IntervalInduction
<1> QED BY <1>3 DEF S

LEMMA FlattenJoins ==
    ASSUME NEW B, Len(B) \in Nat, Len(B) # 0
    PROVE  \E f : Joins(f, Len(B), B) /\ FlattenSeq(B) = f[Len(B)]
<1> DEFINE f == CHOOSE f : f = [i \in 1 .. Len(B) |->
                              IF i = 1 THEN B[i] ELSE f[i - 1] \o B[i]]
<1>1. FlattenSeq(B) = f[Len(B)]
  BY DEF FlattenSeq
<1>2. \E g : g = [i \in 1 .. Len(B) |-> IF i = 1 THEN B[i] ELSE g[i - 1] \o B[i]]
  <2>1. PICK g : Joins(g, Len(B), B)
    BY JoinsExist
  <2> QED BY <2>1 DEF Joins
<1>3. f = [i \in 1 .. Len(B) |-> IF i = 1 THEN B[i] ELSE f[i - 1] \o B[i]]
  BY <1>2
<1>4. Joins(f, Len(B), B)
  BY <1>3 DEF Joins
<1> HIDE DEF f
<1> QED BY <1>1, <1>4

(* One more block.                                                         *)
LEMMA LaidNext ==
    ASSUME NEW T, NEW B \in Seq(Seq(T)), NEW e, Ends(e, B),
           NEW m \in 0 .. Len(B) - 1, NEW r \in Seq(T), LaidTo(r, m, B, e)
    PROVE  /\ r \o B[m + 1] \in Seq(T)
           /\ LaidTo(r \o B[m + 1], m + 1, B, e)
<1> DEFINE n == Len(B)
           b == B[m + 1]
           s == r \o b
<1>1. n \in Nat /\ m \in 0 .. n /\ m + 1 \in 1 .. n /\ (m + 1) - 1 = m /\ m \in Nat
  <2>1. n \in Nat
    BY LenProperties
  <2> QED BY <2>1
<1>2. b \in Seq(T) /\ Len(b) \in Nat
  <2>1. b \in Seq(T)
    BY <1>1, ElementOfSeq
  <2> HIDE DEF b
  <2> QED BY <2>1, LenProperties
<1>3. e[m + 1] = e[m] + Len(b) /\ e[m] \in Nat /\ Len(r) = e[m]
  BY <1>1, EndsGrow DEF LaidTo
<1>4. /\ s \in Seq(T) /\ Len(s) = e[m + 1]
      /\ \A x \in 1 .. e[m] + Len(b) : s[x] = IF x <= e[m] THEN r[x] ELSE b[x - e[m]]
  <2> HIDE DEF b
  <2>1. /\ r \o b \in Seq(T) /\ Len(r \o b) = Len(r) + Len(b)
        /\ \A x \in 1 .. Len(r) + Len(b) :
              (r \o b)[x] = IF x <= Len(r) THEN r[x] ELSE b[x - Len(r)]
    BY <1>2, ConcatProperties
  <2> QED BY <1>3, <2>1
<1> HIDE DEF s
<1>5. ASSUME NEW i \in 1 .. m + 1, NEW k \in 1 .. Len(B[i])
      PROVE  s[e[i - 1] + k] = B[i][k]
  <2> DEFINE y == e[i - 1] + k
  <2>1. CASE i = m + 1
    <3>1. y \in 1 .. e[m] + Len(b) /\ ~(y <= e[m]) /\ y - e[m] = k
      <4>1. y = e[m] + k /\ k \in 1 .. Len(b)
        BY <1>1, <2>1
      <4> DEFINE z == e[m]
                 l == Len(b)
      <4>2. z \in Nat /\ l \in Nat /\ k \in 1 .. l /\ y = z + k
        BY <1>2, <1>3, <4>1
      <4> HIDE DEF y, z, l
      <4>3. y \in 1 .. z + l /\ ~(y <= z) /\ y - z = k
        BY <4>2
      <4> QED BY <4>3 DEF z, l
    <3>2. s[y] = b[k]
      <4> HIDE DEF y, b
      <4> QED BY <1>4, <3>1
    <3> QED BY <2>1, <3>2
  <2>2. CASE i # m + 1
    <3>1. i \in 1 .. m /\ i \in 1 .. n /\ i \in 0 .. n /\ i - 1 \in 0 .. n
      BY <1>1, <2>2
    <3>2. /\ e[i] <= e[m] /\ e[i] = e[i - 1] + Len(B[i])
          /\ e[i - 1] \in Nat /\ Len(B[i]) \in Nat /\ e[i] \in Nat
      <4>1. i <= m
        BY <3>1
      <4> QED BY <1>1, <3>1, <4>1, EndsGrow
    <3>3. y \in 1 .. e[m] + Len(b) /\ y <= e[m]
      <4>1. k \in Nat /\ 1 <= k /\ k <= Len(B[i])
        BY <3>2
      <4> DEFINE z == e[m]
                 l == Len(b)
                 d == e[i - 1]
                 w == e[i]
                 v == Len(B[i])
      <4>2. /\ z \in Nat /\ l \in Nat /\ d \in Nat /\ v \in Nat /\ w \in Nat
            /\ w = d + v /\ w <= z /\ y = d + k /\ k \in Nat /\ 1 <= k /\ k <= v
        BY <1>2, <1>3, <3>2, <4>1
      <4> HIDE DEF y, z, l, d, w, v
      <4>3. y \in 1 .. z + l /\ y <= z
        BY <4>2
      <4> QED BY <4>3 DEF z, l
    <3>4. s[y] = r[y]
      <4> HIDE DEF y, b
      <4> QED BY <1>4, <3>3
    <3>5. r[y] = B[i][k]
      BY <3>1 DEF LaidTo
    <3> QED BY <3>4, <3>5
  <2> QED BY <2>1, <2>2
<1>6. LaidTo(s, m + 1, B, e)
  BY <1>4, <1>5 DEF LaidTo
<1> QED BY <1>4, <1>6 DEF s

(* FlattenSeq lays the blocks end to end.                                  *)
LEMMA FlattenLaid ==
    ASSUME NEW T, NEW B \in Seq(Seq(T))
    PROVE  FlattenSeq(B) \in Seq(T) /\ \E e : Laid(FlattenSeq(B), B, e)
<1> DEFINE n == Len(B)
<1>1. n \in Nat /\ \A i \in 1 .. n : B[i] \in Seq(T)
  BY LenProperties, ElementOfSeq
<1>2. PICK e : Ends(e, B)
  BY EndsExist
<1>3. e[0] = 0 /\ Len(<<>>) = 0 /\ <<>> \in Seq(T)
  BY <1>2, EndsGrow, EmptySeq
<1>4. LaidTo(<<>>, 0, B, e)
  BY <1>3 DEF LaidTo
<1>5. CASE n = 0
  <2>1. FlattenSeq(B) = B /\ B = <<>>
    BY <1>5, EmptySeq DEF FlattenSeq
  <2> QED BY <1>2, <1>3, <1>4, <1>5, <2>1 DEF Laid
<1>6. CASE n # 0
  <2>1. PICK f : Joins(f, n, B) /\ FlattenSeq(B) = f[n]
    BY <1>1, <1>6, FlattenJoins
  <2> DEFINE S == {m \in 0 .. n : m # 0 => f[m] \in Seq(T) /\ LaidTo(f[m], m, B, e)}
  <2>2. 0 \in S
    BY <1>1
  <2>3. ASSUME NEW m \in 0 .. n - 1, m \in S
        PROVE  m + 1 \in S
    <3>1. m \in Nat /\ m + 1 \in 1 .. n /\ m + 1 \in 0 .. n /\ (m + 1) - 1 = m
      BY <1>1
    <3> DEFINE r == IF m = 0 THEN <<>> ELSE f[m]
    <3>2. r \in Seq(T) /\ LaidTo(r, m, B, e)
      BY <1>3, <1>4, <2>3
    <3>3. f[m + 1] = r \o B[m + 1]
      <4>1. CASE m = 0
        <5>1. f[m + 1] = B[m + 1]
          BY <2>1, <3>1, <4>1 DEF Joins
        <5>2. B[m + 1] \in Seq(T)
          BY <1>1, <3>1
        <5> HIDE DEF n
        <5>3. <<>> \o B[m + 1] = B[m + 1]
          BY <5>2, ConcatEmptySeq
        <5> QED BY <4>1, <5>1, <5>3
      <4>2. CASE m # 0
        <5>1. m + 1 # 1
          BY <3>1, <4>2
        <5>2. f[m + 1] = IF m + 1 = 1 THEN B[m + 1] ELSE f[(m + 1) - 1] \o B[m + 1]
          BY <2>1, <3>1 DEF Joins
        <5> QED BY <3>1, <4>2, <5>1, <5>2
      <4> QED BY <4>1, <4>2
    <3> HIDE DEF r
    <3>4. f[m + 1] \in Seq(T) /\ LaidTo(f[m + 1], m + 1, B, e)
      BY <1>2, <3>2, <3>3, LaidNext
    <3> QED BY <3>1, <3>4
  <2> HIDE DEF S
  <2>4. n \in S
    <3> HIDE DEF n
    <3>1. 0 .. n \subseteq S
      BY <1>1, <2>2, <2>3, IntervalInduction
    <3> QED BY <1>1, <3>1
  <2> QED BY <1>2, <1>6, <2>1, <2>4 DEF S, Laid
<1> QED BY <1>5, <1>6

(* Where the k-th token of block i is, ...                                 *)
Placed(i, k, B, r, ends) == /\ ends[i - 1] + k \in 1 .. Len(r)
                            /\ r[ends[i - 1] + k] = B[i][k]

LEMMA LaidPlace ==
    ASSUME NEW T, NEW B \in Seq(Seq(T)), NEW r \in Seq(T), NEW e, Laid(r, B, e),
           NEW i \in 1 .. Len(B), NEW k \in 1 .. Len(B[i])
    PROVE  Placed(i, k, B, r, e)
<1> DEFINE n == Len(B)
           a == e[i - 1]
           b == e[i]
           c == e[n]
           l == Len(B[i])
<1>1. n \in Nat /\ i \in 0 .. n /\ i - 1 \in 0 .. n /\ n \in 0 .. n /\ i <= n
  <2>1. n \in Nat
    BY LenProperties
  <2> QED BY <2>1
<1>2. a \in Nat /\ b \in Nat /\ c \in Nat /\ b <= c /\ b = a + l /\ l \in Nat
  <2>1. Ends(e, B)
    BY DEF Laid
  <2> QED BY <1>1, <2>1, EndsGrow
<1>3. Len(r) = c /\ r[a + k] = B[i][k]
  BY DEF Laid, LaidTo
<1>4. k \in 1 .. l
  OBVIOUS
<1> HIDE DEF a, b, c, l
<1>5. a + k \in 1 .. c
  BY <1>2, <1>4
<1> QED BY <1>3, <1>5 DEF a, Placed

(* ... and that every token is in some block.                              *)
Owned(p, B, ends) ==
    \E i \in 1 .. Len(B) : \E k \in 1 .. Len(B[i]) : p = ends[i - 1] + k

LEMMA LaidOwner ==
    ASSUME NEW T, NEW B \in Seq(Seq(T)), NEW r \in Seq(T), NEW e, Laid(r, B, e)
    PROVE  \A p \in 1 .. Len(r) : Owned(p, B, e)
<1> SUFFICES ASSUME NEW p \in 1 .. Len(r)
             PROVE  Owned(p, B, e)
  OBVIOUS
<1> DEFINE n == Len(B)
           S == {m \in 0 .. n : p <= e[m] => Owned(p, B, e)}
<1>1. n \in Nat /\ p \in Nat /\ 1 <= p
  BY LenProperties
<1>2. /\ e[0] = 0 /\ \A j \in 0 .. n : e[j] \in Nat
      /\ \A i \in 1 .. n : e[i] = e[i - 1] + Len(B[i]) /\ Len(B[i]) \in Nat
  BY EndsGrow DEF Laid
<1>3. 0 \in S
  BY <1>1, <1>2
<1>4. ASSUME NEW m \in 0 .. n - 1, m \in S
      PROVE  m + 1 \in S
  <2> DEFINE a == e[m]
             l == Len(B[m + 1])
  <2>1. m + 1 \in 1 .. n /\ m + 1 \in 0 .. n /\ (m + 1) - 1 = m /\ m \in 0 .. n
    BY <1>1
  <2>2. a \in Nat /\ l \in Nat /\ e[m + 1] = a + l
    BY <1>2, <2>1
  <2>3. ASSUME p <= a + l PROVE Owned(p, B, e)
    <3>1. CASE p <= a
      BY <1>4, <3>1
    <3>2. CASE ~(p <= a)
      <4> DEFINE k == p - a
      <4>1. k \in 1 .. l /\ p = a + k
        <5> HIDE DEF a, l
        <5> QED BY <1>1, <2>2, <2>3, <3>2
      <4>2. k \in 1 .. Len(B[m + 1]) /\ p = e[(m + 1) - 1] + k
        BY <2>1, <4>1
      <4> HIDE DEF k, n
      <4> QED BY <2>1, <4>2 DEF Owned, n
    <3> QED BY <3>1, <3>2
  <2> HIDE DEF a, l
  <2> QED BY <2>1, <2>2, <2>3
<1>5. n \in S
  <2> HIDE DEF S, n
  <2>1. 0 .. n \subseteq S
    BY <1>1, <1>3, <1>4, IntervalInduction
  <2> QED BY <1>1, <2>1
<1>6. Len(r) = e[n]
  BY DEF Laid, LaidTo
<1>7. p <= e[n]
  BY <1>1, <1>6
<1> QED BY <1>5, <1>7

(* There is only one way to lay them.                                      *)
LEMMA EndsUnique ==
    ASSUME NEW T, NEW B \in Seq(Seq(T)), NEW e, Ends(e, B), NEW d, Ends(d, B)
    PROVE  \A j \in 0 .. Len(B) : d[j] = e[j]
<1> DEFINE n == Len(B)
           S == {j \in 0 .. n : d[j] = e[j]}
<1>1. n \in Nat
  BY LenProperties
<1>2. /\ e[0] = 0 /\ \A i \in 1 .. n : e[i] = e[i - 1] + Len(B[i])
      /\ d[0] = 0 /\ \A i \in 1 .. n : d[i] = d[i - 1] + Len(B[i])
  BY <1>1, EndsStep
<1>3. 0 \in S
  BY <1>1, <1>2
<1>4. ASSUME NEW m \in 0 .. n - 1, m \in S
      PROVE  m + 1 \in S
  <2>1. m + 1 \in 1 .. n /\ m + 1 \in 0 .. n /\ (m + 1) - 1 = m
    BY <1>1
  <2>2. e[m + 1] = e[m] + Len(B[m + 1]) /\ d[m + 1] = d[m] + Len(B[m + 1])
    BY <1>2, <2>1
  <2> QED BY <1>4, <2>1, <2>2
<1>5. 0 .. n \subseteq S
  <2> HIDE DEF S, n
  <2> QED BY <1>1, <1>3, <1>4, IntervalInduction
<1> QED BY <1>5

LEMMA FlattenIs ==
    ASSUME NEW T, NEW B \in Seq(Seq(T)), NEW r \in Seq(T), NEW e, Laid(r, B, e)
    PROVE  FlattenSeq(B) = r
<1> DEFINE s == FlattenSeq(B)
           n == Len(B)
<1>1. \A p \in 1 .. Len(r) : Owned(p, B, e)
  BY LaidOwner
<1>2. PICK d : Laid(s, B, d)
  BY FlattenLaid
<1>3. s \in Seq(T)
  BY FlattenLaid
<1> HIDE DEF s
<1>4. \A j \in 0 .. n : d[j] = e[j]
  BY <1>2, EndsUnique DEF Laid
<1>5. n \in Nat /\ n \in 0 .. n
  BY LenProperties
<1>6. Len(s) = d[n] /\ Len(r) = e[n]
  BY <1>2 DEF Laid, LaidTo
<1>7. Len(s) = Len(r)
  BY <1>4, <1>5, <1>6
<1>8. ASSUME NEW p \in 1 .. Len(r)
      PROVE  s[p] = r[p]
  <2>1. PICK i \in 1 .. n : \E k \in 1 .. Len(B[i]) : p = e[i - 1] + k
    BY <1>1 DEF Owned
  <2>2. PICK k \in 1 .. Len(B[i]) : p = e[i - 1] + k
    BY <2>1
  <2>3. r[e[i - 1] + k] = B[i][k] /\ s[d[i - 1] + k] = B[i][k]
    BY <1>2 DEF Laid, LaidTo
  <2>4. i - 1 \in 0 .. n
    BY <1>5
  <2>5. d[i - 1] = e[i - 1]
    BY <1>4, <2>4
  <2> QED BY <2>2, <2>3, <2>5
<1>9. s = r
  BY <1>3, <1>7, <1>8, SeqEqual
<1> QED BY <1>9 DEF s

(* Blocks of one token each.                                               *)
LEMMA FlattenSingles ==
    ASSUME NEW T, NEW s \in Seq(T), NEW B \in Seq(Seq(T)), Len(B) = Len(s),
           \A i \in 1 .. Len(s) : B[i] = <<s[i]>>
    PROVE  FlattenSeq(B) = s
<1> DEFINE n == Len(s)
           e == [i \in 0 .. n |-> i]
<1>1. n \in Nat
  BY LenProperties
<1>2. ASSUME NEW i \in 1 .. n
      PROVE  Len(B[i]) = 1 /\ B[i][1] = s[i]
  <2>1. B[i] = <<s[i]>>
    OBVIOUS
  <2> QED BY <2>1
<1>3. Ends(e, B)
  <2>1. ASSUME NEW i \in 0 .. n
        PROVE  i = IF i = 0 THEN 0 ELSE e[i - 1] + Len(B[i])
    <3>1. CASE i # 0
      <4>1. i \in 1 .. n /\ i - 1 \in 0 .. n
        BY <1>1, <3>1
      <4>2. e[i - 1] = i - 1 /\ Len(B[i]) = 1
        BY <1>2, <4>1
      <4> HIDE DEF e
      <4> QED BY <3>1, <4>1, <4>2
    <3> QED BY <3>1
  <2>2. e = [i \in 0 .. n |-> IF i = 0 THEN 0 ELSE e[i - 1] + Len(B[i])]
    <3> DEFINE g == e
    <3>1. \A i \in 0 .. n : i = IF i = 0 THEN 0 ELSE g[i - 1] + Len(B[i])
      BY <2>1
    <3>2. e = [i \in 0 .. n |-> IF i = 0 THEN 0 ELSE g[i - 1] + Len(B[i])]
      <4> HIDE DEF g
      <4> QED BY <3>1
    <3> QED BY <3>2
  <2> QED BY <2>2 DEF Ends
<1>4. LaidTo(s, Len(B), B, e)
  <2>1. Len(s) = e[Len(B)]
    BY <1>1
  <2>2. ASSUME NEW i \in 1 .. Len(B), NEW k \in 1 .. Len(B[i])
        PROVE  s[e[i - 1] + k] = B[i][k]
    <3>1. i \in 1 .. n /\ k = 1
      <4>1. i \in 1 .. n
        OBVIOUS
      <4>2. Len(B[i]) = 1
        BY <1>2, <4>1
      <4> QED BY <4>1, <4>2
    <3>2. i - 1 \in 0 .. n
      BY <1>1, <3>1
    <3>3. e[i - 1] = i - 1
      BY <3>2
    <3>4. e[i - 1] + k = i
      <4> HIDE DEF e
      <4> QED BY <3>1, <3>3
    <3> HIDE DEF e
    <3> QED BY <1>2, <3>1, <3>4
  <2> QED BY <2>1, <2>2 DEF LaidTo
<1> HIDE DEF e
<1> QED BY <1>3, <1>4, FlattenIs DEF Laid
-----------------------------------------------------------------------------
Joined(t, u, v, w) ==
    /\ Len(t) = Len(u) + Len(v) + Len(w)
    /\ \A k \in 1 .. Len(u) : t[k] = u[k]
    /\ \A k \in 1 .. Len(v) : t[Len(u) + k] = v[k]
    /\ \A k \in 1 .. Len(w) : t[Len(u) + Len(v) + k] = w[k]

LEMMA JoinThree ==
    ASSUME NEW T, NEW u \in Seq(T), NEW v \in Seq(T), NEW w \in Seq(T)
    PROVE  /\ u \o v \o w \in Seq(T)
           /\ Joined(u \o v \o w, u, v, w)
<1> DEFINE a == Len(u)
           b == Len(v)
           c == Len(w)
           x == u \o v
           y == x \o w
<1>1. a \in Nat /\ b \in Nat /\ c \in Nat
  BY LenProperties
<1>2. /\ x \in Seq(T) /\ Len(x) = a + b
      /\ \A k \in 1 .. a + b : x[k] = IF k <= a THEN u[k] ELSE v[k - a]
  BY ConcatProperties
<1> HIDE DEF x
<1>3. /\ y \in Seq(T) /\ Len(y) = (a + b) + c
      /\ \A k \in 1 .. (a + b) + c : y[k] = IF k <= a + b THEN x[k] ELSE w[k - (a + b)]
  <2>1. x \in Seq(T)
    BY <1>2
  <2>2. /\ x \o w \in Seq(T) /\ Len(x \o w) = Len(x) + Len(w)
        /\ \A k \in 1 .. Len(x) + Len(w) :
              (x \o w)[k] = IF k <= Len(x) THEN x[k] ELSE w[k - Len(x)]
    BY <2>1, ConcatProperties
  <2> QED BY <1>2, <2>2
<1> HIDE DEF y, a, b, c
<1>4. \A k \in 1 .. a : y[k] = u[k]
  <2> SUFFICES ASSUME NEW k \in 1 .. a PROVE y[k] = u[k]
    OBVIOUS
  <2>1. k \in 1 .. a + b /\ k <= a /\ k \in 1 .. (a + b) + c /\ k <= a + b
    BY <1>1
  <2> QED BY <1>2, <1>3, <2>1
<1>5. \A k \in 1 .. b : y[a + k] = v[k]
  <2> SUFFICES ASSUME NEW k \in 1 .. b PROVE y[a + k] = v[k]
    OBVIOUS
  <2> DEFINE l == a + k
  <2>1. l \in 1 .. a + b /\ ~(l <= a) /\ l \in 1 .. (a + b) + c /\ l <= a + b /\ l - a = k
    BY <1>1
  <2> HIDE DEF l
  <2>2. y[l] = v[k]
    BY <1>2, <1>3, <2>1
  <2> QED BY <2>2 DEF l
<1>6. \A k \in 1 .. c : y[a + b + k] = w[k]
  <2> SUFFICES ASSUME NEW k \in 1 .. c PROVE y[a + b + k] = w[k]
    OBVIOUS
  <2> DEFINE l == a + b + k
  <2>1. l \in 1 .. (a + b) + c /\ ~(l <= a + b) /\ l - (a + b) = k
    BY <1>1
  <2> HIDE DEF l
  <2>2. y[l] = w[k]
    BY <1>3, <2>1
  <2> QED BY <2>2 DEF l
<1>7. Len(y) = a + b + c
  BY <1>1, <1>3
<1> QED BY <1>3, <1>4, <1>5, <1>6, <1>7 DEF a, b, c, x, y, Joined

(* Block i of D is what C has for the tokens of block i of B, of which     *)
(* there is one, or three.                                                 *)
Recuts(i, B, ends, C, D) ==
    LET p == ends[i - 1]
    IN  \/ Len(B[i]) = 1 /\ D[i] = C[p + 1]
        \/ Len(B[i]) = 3 /\ D[i] = C[p + 1] \o C[p + 2] \o C[p + 3]

(* Rewriting the tokens of a text that was itself made of blocks is        *)
(* rewriting its blocks.                                                   *)
LEMMA Recut ==
    ASSUME NEW T, NEW B \in Seq(Seq(T)), NEW r \in Seq(T), NEW e, Laid(r, B, e),
           NEW C \in Seq(Seq(T)), Len(C) = Len(r),
           NEW D \in Seq(Seq(T)), Len(D) = Len(B),
           \A i \in 1 .. Len(B) : Recuts(i, B, e, C, D)
    PROVE  FlattenSeq(C) = FlattenSeq(D)
<1> DEFINE n == Len(B)
           m == Len(C)
           f == FlattenSeq(C)
<1>1. n \in Nat /\ m \in Nat
  BY LenProperties
<1>2. PICK c : Laid(f, C, c)
  BY FlattenLaid
<1>3. f \in Seq(T)
  BY FlattenLaid
<1> HIDE DEF f
<1>4. Ends(e, B) /\ Ends(c, C) /\ Len(r) = e[n] /\ Len(f) = c[m]
  BY <1>2 DEF Laid, LaidTo
<1>5. /\ e[0] = 0 /\ \A i \in 1 .. n : e[i] = e[i - 1] + Len(B[i])
      /\ \A j \in 0 .. n : e[j] \in Nat
      /\ \A i, j \in 0 .. n : i <= j => e[i] <= e[j]
  BY <1>4, EndsGrow
<1>6. /\ c[0] = 0 /\ \A i \in 1 .. m : c[i] = c[i - 1] + Len(C[i])
      /\ \A j \in 0 .. m : c[j] \in Nat
  BY <1>4, EndsGrow
<1>7. \A i \in 1 .. m : C[i] \in Seq(T)
  BY ElementOfSeq
<1>8. \A i \in 1 .. m : \A k \in 1 .. Len(C[i]) : f[c[i - 1] + k] = C[i][k]
  BY <1>2 DEF Laid, LaidTo
<1> DEFINE d == [i \in 0 .. n |-> c[e[i]]]
<1>9. ASSUME NEW i \in 1 .. n
      PROVE  /\ c[e[i]] = c[e[i - 1]] + Len(D[i])
             /\ \A k \in 1 .. Len(D[i]) : f[c[e[i - 1]] + k] = D[i][k]
  <2> DEFINE p == e[i - 1]
             q == e[i]
             x == c[p]
  <2> HIDE DEF n, m
  <2>1. i - 1 \in 0 .. n /\ i \in 0 .. n /\ n \in 0 .. n /\ i <= n
    BY <1>1
  <2>2. p \in Nat /\ q = p + Len(B[i]) /\ q \in Nat /\ q <= m
    BY <1>4, <1>5, <2>1 DEF m, n
  <2>3. Recuts(i, B, e, C, D)
    BY DEF n
  <2> HIDE DEF x, q
  <2>4. CASE Len(B[i]) = 1 /\ D[i] = C[p + 1]
    <3> HIDE DEF p
    <3>1. q = p + 1 /\ p + 1 \in 1 .. m /\ (p + 1) - 1 = p
      BY <1>1, <2>2, <2>4
    <3>2. c[p + 1] = c[p] + Len(C[p + 1])
      BY <1>6, <3>1
    <3>3. \A k \in 1 .. Len(C[p + 1]) : f[c[p] + k] = C[p + 1][k]
      <4>1. \A k \in 1 .. Len(C[p + 1]) : f[c[(p + 1) - 1] + k] = C[p + 1][k]
        BY <1>8, <3>1
      <4> QED BY <3>1, <4>1
    <3> QED BY <2>4, <3>1, <3>2, <3>3 DEF p, q
  <2>5. CASE Len(B[i]) = 3 /\ D[i] = C[p + 1] \o C[p + 2] \o C[p + 3]
    <3> HIDE DEF p
    <3> DEFINE u == C[p + 1]
               v == C[p + 2]
               w == C[p + 3]
    <3>1. /\ q = p + 3 /\ p + 1 \in 1 .. m /\ p + 2 \in 1 .. m /\ p + 3 \in 1 .. m
          /\ (p + 1) - 1 = p /\ (p + 2) - 1 = p + 1 /\ (p + 3) - 1 = p + 2
          /\ p \in 0 .. m
      BY <1>1, <2>2, <2>5
    <3>2. u \in Seq(T) /\ v \in Seq(T) /\ w \in Seq(T)
      BY <1>7, <3>1
    <3>3. /\ c[p + 1] = c[p] + Len(u) /\ c[p + 2] = c[p + 1] + Len(v)
          /\ c[p + 3] = c[p + 2] + Len(w) /\ c[p] \in Nat
      BY <1>6, <3>1
    <3>4. /\ \A k \in 1 .. Len(u) : f[c[p] + k] = u[k]
          /\ \A k \in 1 .. Len(v) : f[c[p + 1] + k] = v[k]
          /\ \A k \in 1 .. Len(w) : f[c[p + 2] + k] = w[k]
      <4>1. /\ \A k \in 1 .. Len(u) : f[c[(p + 1) - 1] + k] = u[k]
            /\ \A k \in 1 .. Len(v) : f[c[(p + 2) - 1] + k] = v[k]
            /\ \A k \in 1 .. Len(w) : f[c[(p + 3) - 1] + k] = w[k]
        BY <1>8, <3>1
      <4> QED BY <3>1, <4>1
    <3> HIDE DEF u, v, w
    <3> DEFINE t == u \o v \o w
               lu == Len(u)
               lv == Len(v)
               lw == Len(w)
               y == c[p]
    <3>5. lu \in Nat /\ lv \in Nat /\ lw \in Nat /\ y \in Nat
      BY <3>2, <3>3, LenProperties
    <3>6. /\ Len(t) = lu + lv + lw
          /\ \A k \in 1 .. lu : t[k] = u[k]
          /\ \A k \in 1 .. lv : t[lu + k] = v[k]
          /\ \A k \in 1 .. lw : t[lu + lv + k] = w[k]
      <4>1. Joined(t, u, v, w)
        BY <3>2, JoinThree
      <4> HIDE DEF t
      <4> QED BY <4>1 DEF Joined
    <3>7. D[i] = t
      BY <2>5 DEF u, v, w
    <3>8. c[p + 1] = y + lu /\ c[p + 2] = (y + lu) + lv /\ c[p + 3] = ((y + lu) + lv) + lw
      BY <3>3
    <3>9. /\ \A k \in 1 .. lu : f[y + k] = u[k]
          /\ \A k \in 1 .. lv : f[(y + lu) + k] = v[k]
          /\ \A k \in 1 .. lw : f[((y + lu) + lv) + k] = w[k]
      BY <3>4, <3>8
    <3> HIDE DEF t, lu, lv, lw
    <3>10. c[q] = y + Len(t)
      <4>1. c[q] = ((y + lu) + lv) + lw
        BY <3>1, <3>8
      <4> HIDE DEF y
      <4> QED BY <3>5, <3>6, <4>1
    <3> HIDE DEF y
    <3>11. ASSUME NEW k \in 1 .. Len(t)
           PROVE  f[y + k] = t[k]
      <4>1. k \in 1 .. lu + lv + lw
        BY <3>6
      <4>2. CASE k <= lu
        <5>1. k \in 1 .. lu
          BY <3>5, <4>1, <4>2
        <5> QED BY <3>6, <3>9, <5>1
      <4>3. CASE ~(k <= lu) /\ k <= lu + lv
        <5> DEFINE l == k - lu
        <5>1. l \in 1 .. lv /\ k = lu + l /\ y + k = (y + lu) + l
          BY <3>5, <4>1, <4>3
        <5> HIDE DEF l
        <5>2. t[lu + l] = v[l] /\ f[(y + lu) + l] = v[l]
          BY <3>6, <3>9, <5>1
        <5> QED BY <5>1, <5>2
      <4>4. CASE ~(k <= lu + lv)
        <5> DEFINE l == k - (lu + lv)
        <5>1. l \in 1 .. lw /\ k = lu + lv + l /\ y + k = ((y + lu) + lv) + l
          BY <3>5, <4>1, <4>4
        <5> HIDE DEF l
        <5>2. t[lu + lv + l] = w[l] /\ f[((y + lu) + lv) + l] = w[l]
          BY <3>6, <3>9, <5>1
        <5> QED BY <5>1, <5>2
      <4>5. k <= lu => k <= lu + lv
        BY <3>5, <4>1
      <4> QED BY <4>2, <4>3, <4>4
    <3> QED BY <3>7, <3>10, <3>11 DEF y, p, q
  <2> QED BY <2>3, <2>4, <2>5 DEF Recuts
<1>10. Ends(d, D)
  <2>1. ASSUME NEW i \in 0 .. n
        PROVE  d[i] = IF i = 0 THEN 0 ELSE d[i - 1] + Len(D[i])
    <3>1. CASE i = 0
      BY <1>5, <1>6, <3>1
    <3>2. CASE i # 0
      <4>1. i \in 1 .. n /\ i - 1 \in 0 .. n
        BY <1>1, <3>2
      <4>2. d[i] = c[e[i]] /\ d[i - 1] = c[e[i - 1]]
        BY <4>1
      <4>3. c[e[i]] = c[e[i - 1]] + Len(D[i])
        BY <1>9, <4>1
      <4> HIDE DEF d
      <4> QED BY <3>2, <4>2, <4>3
    <3> QED BY <3>1, <3>2
  <2>2. d = [i \in 0 .. n |-> d[i]]
    OBVIOUS
  <2> HIDE DEF d
  <2>3. d = [i \in 0 .. n |-> IF i = 0 THEN 0 ELSE d[i - 1] + Len(D[i])]
    BY <2>1, <2>2
  <2> QED BY <2>3 DEF Ends
<1>11. LaidTo(f, Len(D), D, d)
  <2>1. Len(f) = d[n]
    BY <1>1, <1>4
  <2>2. ASSUME NEW i \in 1 .. n, NEW k \in 1 .. Len(D[i])
        PROVE  f[d[i - 1] + k] = D[i][k]
    <3>1. i - 1 \in 0 .. n
      BY <1>1
    <3>2. d[i - 1] = c[e[i - 1]]
      BY <3>1
    <3>3. f[c[e[i - 1]] + k] = D[i][k]
      BY <1>9
    <3> HIDE DEF d
    <3> QED BY <3>2, <3>3
  <2> HIDE DEF d
  <2> QED BY <2>1, <2>2 DEF LaidTo
<1>12. Laid(f, D, d)
  BY <1>10, <1>11 DEF Laid
<1> HIDE DEF d
<1>13. FlattenSeq(D) = f
  BY <1>3, <1>12, FlattenIs
<1> QED BY <1>13 DEF f
-----------------------------------------------------------------------------
(* A text of the model has none of the tokens that defanging puts in.      *)
Tokens == {"a", "A", "0", "7", "S", "T", "Z", "http", "HTTP", "://", ".", "@",
           "/", ":", "+", "-", " ", "'", "\\"}
Marks  == {"[", "]", "at", "hxxp"}
Shown  == Tokens \cup Marks

LEMMA ShownHas ==
    /\ "[" \in Shown /\ "]" \in Shown /\ "at" \in Shown /\ "hxxp" \in Shown
    /\ "://" \in Shown /\ "." \in Shown /\ ":" \in Shown /\ "@" \in Shown
    /\ "http" \in Shown
BY DEF Shown, Tokens, Marks

Plain(s) == s \in Seq(Shown) /\ \A i \in 1 .. Len(s) : s[i] \notin Marks

(* What is shown for one token.                                            *)
Block == {SCHEME_SEP, AT, DOT, COLON} \cup {<<t>> : t \in Shown}

LEMMA BlockType ==
    ASSUME NEW b \in Block
    PROVE  /\ b \in Seq(Shown)
           /\ \/ Len(b) = 1 /\ b = <<b[1]>> /\ b[1] \in Shown
              \/ Len(b) = 3 /\ b[1] = "[" /\ b[3] = "]"
                            /\ b[2] \in {"://", "at", ".", ":"}
<1>1. CASE \E t \in Shown : b = <<t>>
  <2>1. PICK t \in Shown : b = <<t>>
    BY <1>1
  <2>2. <<t>> \in Seq(Shown) /\ Len(<<t>>) = 1 /\ <<t>>[1] = t
    OBVIOUS
  <2> QED BY <2>1, <2>2
<1>2. CASE b \in {SCHEME_SEP, AT, DOT, COLON}
  <2>1. /\ "[" \in Shown /\ "]" \in Shown /\ "://" \in Shown
        /\ "at" \in Shown /\ "." \in Shown /\ ":" \in Shown
    BY ShownHas
  <2>2. CASE b = SCHEME_SEP
    BY <2>1, <2>2 DEF SCHEME_SEP
  <2>3. CASE b = AT
    BY <2>1, <2>3 DEF AT
  <2>4. CASE b = DOT
    BY <2>1, <2>4 DEF DOT
  <2>5. CASE b = COLON
    BY <2>1, <2>5 DEF COLON
  <2> QED BY <1>2, <2>2, <2>3, <2>4, <2>5
<1> QED BY <1>1, <1>2 DEF Block

(* A block for each token of s.                                            *)
Cut(B, s) == /\ B = [i \in DOMAIN s |-> B[i]]
             /\ \A i \in DOMAIN s : B[i] \in Block

LEMMA CutType ==
    ASSUME NEW s \in Seq(Shown), NEW B, Cut(B, s)
    PROVE  /\ B \in Seq(Seq(Shown)) /\ Len(B) = Len(s)
           /\ \A i \in 1 .. Len(s) : B[i] \in Block
<1>1. Len(s) \in Nat /\ DOMAIN s = 1 .. Len(s)
  BY LenProperties
<1>2. \A i \in 1 .. Len(s) : B[i] \in Block /\ B[i] \in Seq(Shown)
  BY <1>1, BlockType DEF Cut
<1>3. B \in [1 .. Len(s) -> Seq(Shown)]
  BY <1>1, <1>2 DEF Cut
<1>4. B \in Seq(Seq(Shown)) /\ Len(B) = Len(s)
  BY <1>1, <1>3, FunctionSeq
<1> QED BY <1>2, <1>4

(* Blocks of the same lengths end at the same places.                      *)
LEMMA EndsSame ==
    ASSUME NEW B, NEW e, Ends(e, B), NEW D, Len(D) = Len(B), Len(B) \in Nat,
           \A i \in 1 .. Len(B) : Len(D[i]) = Len(B[i])
    PROVE  Ends(e, D)
<1> DEFINE n == Len(B)
<1>1. ASSUME NEW i \in 0 .. n
      PROVE  (IF i = 0 THEN 0 ELSE e[i - 1] + Len(B[i]))
                = IF i = 0 THEN 0 ELSE e[i - 1] + Len(D[i])
  <2>1. i # 0 => i \in 1 .. n
    OBVIOUS
  <2> QED BY <2>1
<1>2. e = [i \in 0 .. n |-> IF i = 0 THEN 0 ELSE e[i - 1] + Len(B[i])]
  BY DEF Ends
<1>3. e = [i \in 0 .. n |-> IF i = 0 THEN 0 ELSE e[i - 1] + Len(D[i])]
  <2> HIDE DEF n
  <2> QED BY <1>1, <1>2
<1> QED BY <1>3 DEF Ends

(* Where a block is, and what is next to it.                               *)
Spans(B, r, ends) ==
    /\ ends[0] = 0 /\ Len(r) = ends[Len(B)] /\ Len(B) \in Nat /\ Len(r) \in Nat
    /\ \A i \in 1 .. Len(B) :
          /\ ends[i] = ends[i - 1] + Len(B[i])
          /\ ends[i - 1] \in Nat /\ ends[i] \in Nat /\ ends[i] <= Len(r)
          /\ i = Len(B) => ends[i] = Len(r)

LEMMA LaidEnds ==
    ASSUME NEW T, NEW B \in Seq(Seq(T)), NEW r \in Seq(T), NEW e, Laid(r, B, e)
    PROVE  Spans(B, r, e)
<1>1. Ends(e, B) /\ Len(r) = e[Len(B)]
  BY DEF Laid, LaidTo
<1> DEFINE n == Len(B)
<1>2. n \in Nat
  BY LenProperties
<1>3. /\ e[0] = 0 /\ \A i \in 1 .. n : e[i] = e[i - 1] + Len(B[i])
      /\ \A j \in 0 .. n : e[j] \in Nat
      /\ \A i, j \in 0 .. n : i <= j => e[i] <= e[j]
  BY <1>1, EndsGrow
<1>4. ASSUME NEW i \in 1 .. n
      PROVE  e[i - 1] \in Nat /\ e[i] \in Nat /\ e[i] <= e[n]
  <2> HIDE DEF n
  <2>1. i \in 0 .. n /\ i - 1 \in 0 .. n /\ n \in 0 .. n /\ i <= n
    BY <1>2
  <2> QED BY <1>3, <2>1
<1> QED BY <1>1, <1>2, <1>3, <1>4, LenProperties DEF Spans

Touching(i, B, r, ends) ==
    /\ ends[i] \in 1 .. Len(r)     /\ r[ends[i]] = B[i][Len(B[i])]
    /\ ends[i] + 1 \in 1 .. Len(r) /\ r[ends[i] + 1] = B[i + 1][1]

LEMMA LaidNear ==
    ASSUME NEW T, NEW B \in Seq(Seq(T)), NEW r \in Seq(T), NEW e, Laid(r, B, e),
           NEW i \in 1 .. Len(B) - 1, Len(B[i]) # 0, Len(B[i + 1]) # 0
    PROVE  Touching(i, B, r, e)
<1>1. /\ i \in 1 .. Len(B) /\ i + 1 \in 1 .. Len(B) /\ (i + 1) - 1 = i
      /\ e[i] = e[i - 1] + Len(B[i])
  BY LaidEnds DEF Spans
<1>2. Len(B[i]) \in Nat /\ Len(B[i + 1]) \in Nat
  <2>1. B[i] \in Seq(T) /\ B[i + 1] \in Seq(T)
    BY <1>1, ElementOfSeq
  <2> QED BY <2>1, LenProperties
<1>3. Len(B[i]) \in 1 .. Len(B[i]) /\ 1 \in 1 .. Len(B[i + 1])
  BY <1>2
<1>4. Placed(i, Len(B[i]), B, r, e)
  BY <1>1, <1>3, LaidPlace
<1>5. Placed(i + 1, 1, B, r, e)
  BY <1>1, <1>3, LaidPlace
<1> QED BY <1>1, <1>4, <1>5 DEF Placed, Touching
-----------------------------------------------------------------------------
(* What becomes of a token that gets no brackets.                          *)
Renamed(s, i) == IF s[i] = "http" /\ i + 1 \in DOMAIN s /\ s[i + 1] = "://"
                 THEN "hxxp" ELSE s[i]

Separated(s)   == [i \in DOMAIN s |-> IF s[i] = "://" THEN SCHEME_SEP ELSE <<s[i]>>]
AfterScheme(s) == [i \in DOMAIN s |-> IF s[i] = "://" THEN SCHEME_SEP
                                      ELSE <<Renamed(s, i)>>]
AfterAt(s)     == [i \in DOMAIN s |-> IF s[i] = "://" THEN SCHEME_SEP
                                      ELSE IF s[i] = "@" THEN AT
                                      ELSE <<Renamed(s, i)>>]
AfterDots(s)   == [i \in DOMAIN s |-> IF s[i] = "://" THEN SCHEME_SEP
                                      ELSE IF s[i] = "@" THEN AT
                                      ELSE IF s[i] = "." /\ Flanked(s, i) THEN DOT
                                      ELSE <<Renamed(s, i)>>]

LEMMA CutsOf ==
    ASSUME NEW s, Plain(s)
    PROVE  /\ Cut(Separated(s), s) /\ Cut(AfterScheme(s), s)
           /\ Cut(AfterAt(s), s) /\ Cut(AfterDots(s), s)
<1>1. DOMAIN s = 1 .. Len(s)
  BY LenProperties DEF Plain
<1>2. ASSUME NEW i \in DOMAIN s
      PROVE  <<s[i]>> \in Block /\ <<Renamed(s, i)>> \in Block
  <2>1. s[i] \in Shown
    BY <1>1, ElementOfSeq DEF Plain
  <2>2. Renamed(s, i) \in Shown
    BY <2>1, ShownHas DEF Renamed
  <2> QED BY <2>1, <2>2 DEF Block
<1>3. SCHEME_SEP \in Block /\ AT \in Block /\ DOT \in Block
  BY DEF Block
<1>4. Cut(Separated(s), s)
  BY <1>2, <1>3 DEF Cut, Separated
<1>5. Cut(AfterScheme(s), s)
  BY <1>2, <1>3 DEF Cut, AfterScheme
<1>6. Cut(AfterAt(s), s)
  BY <1>2, <1>3 DEF Cut, AfterAt
<1>7. Cut(AfterDots(s), s)
  BY <1>2, <1>3 DEF Cut, AfterDots
<1> QED BY <1>4, <1>5, <1>6, <1>7

(* A token is in front of a broken separator where it was in front of one. *)
Following(s, i) == SubSeq(s, i + 1, IF i + 3 <= Len(s) THEN i + 3 ELSE Len(s))

LEMMA SchemeFollows ==
    ASSUME NEW s, Plain(s), NEW a \in Seq(Shown), NEW e, Laid(a, Separated(s), e),
           NEW i \in 1 .. Len(s), s[i] # "://"
    PROVE  Following(a, e[i]) = SCHEME_SEP <=> i + 1 \in DOMAIN s /\ s[i + 1] = "://"
<1> DEFINE n == Len(s)
           B == Separated(s)
           p == e[i]
           m == Len(a)
           last == IF p + 3 <= m THEN p + 3 ELSE m
<1>1. /\ s \in Seq(Shown) /\ n \in Nat /\ DOMAIN s = 1 .. n
      /\ B \in Seq(Seq(Shown)) /\ Len(B) = n
  BY CutsOf, CutType, LenProperties DEF Plain
<1>2. \A j \in 1 .. n : /\ s[j] = "://" => B[j] = SCHEME_SEP
                        /\ s[j] # "://" => B[j] = <<s[j]>>
  BY <1>1 DEF Separated
<1> HIDE DEF B
<1>3. /\ p \in Nat /\ m \in Nat /\ p <= m /\ (i = n => p = m)
      /\ \A j \in 1 .. n : e[j] = e[j - 1] + Len(B[j])
                           /\ e[j - 1] \in Nat /\ e[j] \in Nat /\ e[j] <= m
  <2>1. Laid(a, B, e)
    BY DEF B
  <2>2. Spans(B, a, e)
    BY <1>1, <2>1, LaidEnds
  <2> QED BY <1>1, <2>2 DEF Spans
<1>4. last \in Nat /\ last <= m /\ last <= p + 3 /\ (p + 3 <= m => last = p + 3)
      /\ (~(p + 3 <= m) => last = m)
  <2> HIDE DEF p, m
  <2> QED BY <1>3
<1> HIDE DEF last
<1>5. /\ SubSeq(a, p + 1, last) \in Seq(Shown)
      /\ Len(SubSeq(a, p + 1, last)) = IF p + 1 <= last THEN last - (p + 1) + 1 ELSE 0
      /\ \A j \in 1 .. last - (p + 1) + 1 : SubSeq(a, p + 1, last)[j] = a[(p + 1) + j - 1]
  <2> DEFINE q == p + 1
  <2>1. q \in Int /\ last \in Int /\ \A j \in q .. last : a[j] \in Shown
    <3>1. \A j \in q .. last : j \in 1 .. m
      <4> HIDE DEF p, m
      <4> QED BY <1>3, <1>4
    <3> QED BY <1>3, <1>4, <3>1, ElementOfSeq
  <2> HIDE DEF q
  <2>2. /\ SubSeq(a, q, last) \in Seq(Shown)
        /\ Len(SubSeq(a, q, last)) = IF q <= last THEN last - q + 1 ELSE 0
        /\ \A j \in 1 .. last - q + 1 : SubSeq(a, q, last)[j] = a[q + j - 1]
    BY <2>1, SubSeqProperties
  <2> QED BY <2>2 DEF q
<1> DEFINE t == SubSeq(a, p + 1, last)
<1>6. t = Following(a, p)
  BY DEF Following, last
<1> HIDE DEF t
<1>7. /\ SCHEME_SEP \in Seq(Shown) /\ Len(SCHEME_SEP) = 3 /\ SCHEME_SEP[1] = "["
      /\ SCHEME_SEP[2] = "://" /\ SCHEME_SEP[3] = "]"
  BY ShownHas DEF SCHEME_SEP
<1>8. CASE i = n
  <2>1. Len(t) = 0
    <3>1. p = m
      BY <1>3, <1>8
    <3>2. last = m
      <4> HIDE DEF p, m
      <4> QED BY <1>3, <1>4, <3>1
    <3>3. ~(p + 1 <= last)
      <4> HIDE DEF p, m
      <4> QED BY <1>3, <3>1, <3>2
    <3> QED BY <1>5, <3>3 DEF t
  <2>2. i + 1 \notin DOMAIN s
    <3> HIDE DEF n
    <3> QED BY <1>1, <1>8
  <2>3. t # SCHEME_SEP
    <3>1. Len(t) # Len(SCHEME_SEP)
      BY <1>7, <2>1
    <3> QED BY <3>1
  <2> QED BY <1>6, <2>2, <2>3
<1>9. CASE i # n
  <2>1. i \in 1 .. Len(B) - 1 /\ i + 1 \in 1 .. n /\ i + 1 \in DOMAIN s
    <3>1. i \in 1 .. n
      OBVIOUS
    <3> HIDE DEF n
    <3>2. i \in 1 .. n - 1 /\ i + 1 \in 1 .. n
      BY <1>1, <1>9, <3>1
    <3> QED BY <1>1, <3>2
  <2>2. Len(B[i]) # 0 /\ Len(B[i + 1]) # 0
    <3>1. ASSUME NEW j \in 1 .. n PROVE Len(B[j]) # 0
      <4>1. CASE s[j] = "://"
        <5>1. B[j] = SCHEME_SEP
          BY <1>2, <4>1
        <5>2. Len(SCHEME_SEP) # 0
          BY <1>7
        <5> QED BY <5>1, <5>2
      <4>2. CASE s[j] # "://"
        <5>1. B[j] = <<s[j]>>
          BY <1>2, <4>2
        <5> QED BY <5>1
      <4> QED BY <4>1, <4>2
    <3> QED BY <2>1, <3>1
  <2>3. p + 1 \in 1 .. m /\ a[p + 1] = B[i + 1][1]
    <3>1. Touching(i, B, a, e)
      BY <1>1, <2>1, <2>2, LaidNear DEF B
    <3> QED BY <3>1 DEF Touching
  <2>4. p + 1 <= last /\ 1 \in 1 .. last - (p + 1) + 1 /\ (p + 1) + 1 - 1 = p + 1
    <3> HIDE DEF p, m
    <3> QED BY <1>3, <1>4, <2>3
  <2>5. t[1] = B[i + 1][1]
    BY <1>5, <2>3, <2>4 DEF t
  <2>6. CASE s[i + 1] # "://"
    <3>1. B[i + 1][1] = s[i + 1] /\ s[i + 1] # "["
      BY <1>2, <2>1, <2>6 DEF Plain, Marks
    <3> QED BY <1>7, <1>6, <2>5, <2>6, <3>1
  <2>7. CASE s[i + 1] = "://"
    <3>1. B[i + 1] = SCHEME_SEP
      BY <1>2, <2>1, <2>7
    <3>2. 2 \in 1 .. Len(B[i + 1]) /\ 3 \in 1 .. Len(B[i + 1]) /\ (i + 1) - 1 = i
      <4>1. Len(B[i + 1]) = 3 /\ i \in Int
        BY <1>7, <3>1
      <4> QED BY <4>1
    <3>3. Placed(i + 1, 2, B, a, e) /\ Placed(i + 1, 3, B, a, e)
      <4>1. i + 1 \in 1 .. Len(B) /\ Laid(a, B, e)
        BY <1>1, <2>1 DEF B
      <4> QED BY <1>1, <3>2, <4>1, LaidPlace
    <3>4. a[p + 2] = "://" /\ a[p + 3] = "]" /\ p + 3 \in 1 .. m
      BY <1>7, <3>1, <3>2, <3>3 DEF Placed
    <3>5. last = p + 3 /\ p + 1 <= last /\ last - (p + 1) + 1 = 3
          /\ (p + 1) + 2 - 1 = p + 2 /\ (p + 1) + 3 - 1 = p + 3
      <4> HIDE DEF p, m
      <4> QED BY <1>3, <1>4, <3>4
    <3>6. Len(t) = 3 /\ t[2] = "://" /\ t[3] = "]" /\ t \in Seq(Shown)
      <4>1. Len(t) = 3 /\ t \in Seq(Shown)
        BY <1>5, <3>5 DEF t
      <4>2. 2 \in 1 .. last - (p + 1) + 1 /\ 3 \in 1 .. last - (p + 1) + 1
        BY <3>5
      <4>3. t[2] = a[p + 2] /\ t[3] = a[p + 3]
        BY <1>5, <3>5, <4>2 DEF t
      <4> QED BY <3>4, <4>1, <4>3
    <3>7. t[1] = "["
      BY <1>7, <2>5, <3>1
    <3>8. \A j \in 1 .. 3 : t[j] = SCHEME_SEP[j]
      <4>1. \A j \in 1 .. 3 : j = 1 \/ j = 2 \/ j = 3
        OBVIOUS
      <4> QED BY <1>7, <3>6, <3>7, <4>1
    <3>9. t = SCHEME_SEP
      BY <1>7, <3>6, <3>8, SeqEqual
    <3> QED BY <1>6, <2>1, <2>7, <3>9
  <2> QED BY <2>6, <2>7
<1> QED BY <1>8, <1>9

(* The first pass breaks separators, the second renames the known schemes  *)
(* in front of them: together they are one cut of the text.                *)
LEMMA SchemesAre ==
    ASSUME NEW s, Plain(s)
    PROVE  SchemesRenamed(Replaced(s, "://", SCHEME_SEP)) = FlattenSeq(AfterScheme(s))
<1> DEFINE n == Len(s)
           B == Separated(s)
           D == AfterScheme(s)
           a == FlattenSeq(B)
           r == SchemesRenamed(a)
<1>1. /\ s \in Seq(Shown) /\ n \in Nat /\ DOMAIN s = 1 .. n
      /\ B \in Seq(Seq(Shown)) /\ Len(B) = n /\ D \in Seq(Seq(Shown)) /\ Len(D) = n
  BY CutsOf, CutType, LenProperties DEF Plain
<1>2. PICK e : Laid(a, B, e)
  BY <1>1, FlattenLaid
<1>3. a \in Seq(Shown) /\ Len(a) \in Nat /\ DOMAIN a = 1 .. Len(a)
  <2>1. a \in Seq(Shown)
    BY <1>1, FlattenLaid
  <2> HIDE DEF a
  <2> QED BY <2>1, LenProperties
<1>4. Replaced(s, "://", SCHEME_SEP) = a
  BY DEF Replaced, Separated
<1>5. \A j \in 1 .. n : /\ s[j] = "://" => B[j] = SCHEME_SEP /\ D[j] = SCHEME_SEP
                        /\ s[j] # "://" => B[j] = <<s[j]>> /\ D[j] = <<Renamed(s, j)>>
  BY <1>1 DEF Separated, AfterScheme
<1>6. /\ Len(SCHEME_SEP) = 3 /\ SCHEME_SEP[1] = "["
      /\ SCHEME_SEP[2] = "://" /\ SCHEME_SEP[3] = "]"
  BY DEF SCHEME_SEP
<1> HIDE DEF a
<1>7. r = [p \in 1 .. Len(a) |->
              IF a[p] = "http" /\ Following(a, p) = SCHEME_SEP THEN "hxxp" ELSE a[p]]
  BY <1>3 DEF SchemesRenamed, Following
<1> HIDE DEF r
<1>8. r \in Seq(Shown) /\ Len(r) = Len(a)
  <2>1. \A p \in 1 .. Len(a) : a[p] \in Shown
    BY <1>3, ElementOfSeq
  <2>2. r \in [1 .. Len(a) -> Shown]
    BY <1>7, <2>1, ShownHas
  <2> QED BY <1>3, <2>2, FunctionSeq
<1> HIDE DEF B, D
<1>9. Ends(e, D)
  <2>1. \A j \in 1 .. n : Len(B[j]) = Len(D[j])
    <3> SUFFICES ASSUME NEW j \in 1 .. n PROVE Len(B[j]) = Len(D[j])
      OBVIOUS
    <3>1. CASE s[j] = "://"
      BY <1>5, <3>1
    <3>2. CASE s[j] # "://"
      <4>1. B[j] = <<s[j]>> /\ D[j] = <<Renamed(s, j)>>
        BY <1>5, <3>2
      <4> QED BY <4>1
    <3> QED BY <3>1, <3>2
  <2> QED BY <1>1, <1>2, <2>1, EndsSame DEF Laid
<1>10. ASSUME NEW i \in 1 .. n, NEW k \in 1 .. Len(D[i])
       PROVE  r[e[i - 1] + k] = D[i][k]
  <2> DEFINE p == e[i - 1] + k
  <2>1. CASE s[i] = "://"
    <3>1. B[i] = SCHEME_SEP /\ D[i] = SCHEME_SEP /\ k \in 1 .. Len(B[i])
      BY <1>5, <2>1
    <3>2. Placed(i, k, B, a, e)
      BY <1>1, <1>2, <1>3, <3>1, LaidPlace
    <3>3. p \in 1 .. Len(a) /\ a[p] = SCHEME_SEP[k]
      BY <3>1, <3>2 DEF Placed
    <3>4. a[p] # "http"
      <4>1. k = 1 \/ k = 2 \/ k = 3
        <5>1. k \in 1 .. 3
          BY <1>6, <3>1
        <5> QED BY <5>1
      <4> HIDE DEF p
      <4> QED BY <1>6, <3>3, <4>1
    <3> HIDE DEF p
    <3>5. r[p] = a[p]
      BY <1>7, <3>3, <3>4
    <3> QED BY <3>1, <3>3, <3>5 DEF p
  <2>2. CASE s[i] # "://"
    <3>1. B[i] = <<s[i]>> /\ D[i] = <<Renamed(s, i)>>
      BY <1>5, <2>2
    <3>2. Len(B[i]) = 1 /\ B[i][1] = s[i] /\ k = 1 /\ D[i][k] = Renamed(s, i)
          /\ 1 \in 1 .. Len(B[i])
      BY <3>1
    <3>3. Placed(i, 1, B, a, e)
      BY <1>1, <1>2, <1>3, <3>2, LaidPlace
    <3>4. p \in 1 .. Len(a) /\ a[p] = s[i]
      <4>1. p = e[i - 1] + 1
        BY <3>2
      <4> HIDE DEF p
      <4> QED BY <3>2, <3>3, <4>1 DEF Placed
    <3>5. p = e[i]
      <4>1. e[i] = e[i - 1] + Len(B[i])
        <5>1. Spans(B, a, e)
          BY <1>1, <1>2, <1>3, LaidEnds
        <5> QED BY <1>1, <5>1 DEF Spans
      <4>2. p = e[i - 1] + 1
        BY <3>2
      <4> HIDE DEF p
      <4> QED BY <3>2, <4>1, <4>2
    <3>6. Following(a, p) = SCHEME_SEP <=> i + 1 \in DOMAIN s /\ s[i + 1] = "://"
      BY <1>2, <1>3, <2>2, <3>5, SchemeFollows DEF B
    <3> HIDE DEF p
    <3>7. r[p] = Renamed(s, i)
      BY <1>7, <3>4, <3>6 DEF Renamed
    <3> QED BY <3>2, <3>7 DEF p
  <2> QED BY <2>1, <2>2
<1>11. Laid(r, D, e)
  <2>1. Len(r) = e[Len(D)]
    BY <1>1, <1>2, <1>8 DEF Laid, LaidTo
  <2> QED BY <1>1, <1>9, <1>10, <2>1 DEF Laid, LaidTo
<1>12. FlattenSeq(D) = r
  BY <1>1, <1>8, <1>11, FlattenIs
<1> QED BY <1>4, <1>12 DEF D, r
-----------------------------------------------------------------------------
LEMMA ThreeSingles ==
    ASSUME NEW T, NEW b \in Seq(T), Len(b) = 3
    PROVE  <<b[1]>> \o <<b[2]>> \o <<b[3]>> = b
<1> DEFINE u == <<b[1]>>
           v == <<b[2]>>
           w == <<b[3]>>
           t == u \o v \o w
<1>1. b[1] \in T /\ b[2] \in T /\ b[3] \in T
  <2>1. 1 \in 1 .. Len(b) /\ 2 \in 1 .. Len(b) /\ 3 \in 1 .. Len(b)
    OBVIOUS
  <2> QED BY <2>1, ElementOfSeq
<1>2. /\ u \in Seq(T) /\ Len(u) = 1 /\ u[1] = b[1]
      /\ v \in Seq(T) /\ Len(v) = 1 /\ v[1] = b[2]
      /\ w \in Seq(T) /\ Len(w) = 1 /\ w[1] = b[3]
  BY <1>1
<1> HIDE DEF u, v, w
<1>3. t \in Seq(T) /\ Joined(t, u, v, w)
  BY <1>2, JoinThree
<1> HIDE DEF t
<1>4. Len(t) = 3 /\ t[1] = b[1] /\ t[2] = b[2] /\ t[3] = b[3]
  <2>1. Len(u) + 1 = 2 /\ Len(u) + Len(v) + 1 = 3 /\ 1 \in 1 .. 1
    BY <1>2
  <2> QED BY <1>2, <1>3, <2>1 DEF Joined
<1>5. \A j \in 1 .. 3 : t[j] = b[j]
  <2>1. \A j \in 1 .. 3 : j = 1 \/ j = 2 \/ j = 3
    OBVIOUS
  <2> QED BY <1>4, <2>1
<1>6. t = b
  BY <1>3, <1>4, <1>5, SeqEqual
<1> QED BY <1>6 DEF t, u, v, w

(* C does with block i what D says.                                        *)
Carries(i, B, ends, C, D) ==
    \/ Len(B[i]) = 1 /\ D[i] = C[ends[i - 1] + 1]
    \/ D[i] = B[i] /\ \A k \in 1 .. Len(B[i]) : C[ends[i - 1] + k] = <<B[i][k]>>

(* A cut of what a cut gave is a cut.                                      *)
LEMMA CutAgain ==
    ASSUME NEW s \in Seq(Shown), NEW B, Cut(B, s), NEW D, Cut(D, s),
           NEW r, r = FlattenSeq(B), NEW e, Laid(r, B, e), NEW C, Cut(C, r),
           \A i \in 1 .. Len(s) : Carries(i, B, e, C, D)
    PROVE  FlattenSeq(C) = FlattenSeq(D)
<1>1. /\ B \in Seq(Seq(Shown)) /\ Len(B) = Len(s)
      /\ D \in Seq(Seq(Shown)) /\ Len(D) = Len(s)
      /\ \A i \in 1 .. Len(s) : B[i] \in Block
  BY CutType
<1>2. r \in Seq(Shown)
  BY <1>1, FlattenLaid
<1>3. C \in Seq(Seq(Shown)) /\ Len(C) = Len(r)
  BY <1>2, CutType
<1>4. ASSUME NEW i \in 1 .. Len(B)
      PROVE  Recuts(i, B, e, C, D)
  <2> DEFINE b == B[i]
             p == e[i - 1]
  <2>1. b \in Block /\ Carries(i, B, e, C, D)
    BY <1>1
  <2>2. /\ b \in Seq(Shown)
        /\ (Len(b) = 1 /\ b = <<b[1]>>) \/ Len(b) = 3
    <3> HIDE DEF b
    <3> QED BY <2>1, BlockType
  <2>3. CASE Len(b) = 1 /\ D[i] = C[p + 1]
    BY <2>3 DEF Recuts
  <2>4. CASE D[i] = b /\ \A k \in 1 .. Len(b) : C[p + k] = <<b[k]>>
    <3>1. CASE Len(b) = 1 /\ b = <<b[1]>>
      <4>1. 1 \in 1 .. Len(b)
        BY <3>1
      <4>2. C[p + 1] = <<b[1]>>
        BY <2>4, <4>1
      <4>3. D[i] = C[p + 1]
        BY <2>4, <3>1, <4>2
      <4> QED BY <3>1, <4>3 DEF Recuts
    <3>2. CASE Len(b) = 3
      <4>1. 1 \in 1 .. Len(b) /\ 2 \in 1 .. Len(b) /\ 3 \in 1 .. Len(b)
        BY <3>2
      <4>2. C[p + 1] = <<b[1]>> /\ C[p + 2] = <<b[2]>> /\ C[p + 3] = <<b[3]>>
        BY <2>4, <4>1
      <4>3. <<b[1]>> \o <<b[2]>> \o <<b[3]>> = b
        <5> HIDE DEF b
        <5> QED BY <2>2, <3>2, ThreeSingles
      <4>4. D[i] = C[p + 1] \o C[p + 2] \o C[p + 3]
        BY <2>4, <4>2, <4>3
      <4> QED BY <3>2, <4>4 DEF Recuts
    <3> QED BY <2>2, <3>1, <3>2
  <2> QED BY <2>1, <2>3, <2>4 DEF Carries
<1> QED BY <1>1, <1>2, <1>3, <1>4, Recut

(* str::replace() on what a cut gave.                                      *)
Swaps(b, d, old, new) ==
    \/ Len(b) = 1 /\ b[1] = old /\ d = new
    \/ d = b /\ \A k \in 1 .. Len(b) : b[k] # old

LEMMA ReplacedCut ==
    ASSUME NEW s \in Seq(Shown), NEW B, Cut(B, s), NEW D, Cut(D, s),
           NEW old, NEW new \in Block,
           \A i \in 1 .. Len(s) : Swaps(B[i], D[i], old, new)
    PROVE  Replaced(FlattenSeq(B), old, new) = FlattenSeq(D)
<1> DEFINE r == FlattenSeq(B)
           C == [p \in DOMAIN r |-> IF r[p] = old THEN new ELSE <<r[p]>>]
<1>1. /\ B \in Seq(Seq(Shown)) /\ Len(B) = Len(s)
      /\ \A i \in 1 .. Len(s) : B[i] \in Block
  BY CutType
<1>2. r \in Seq(Shown) /\ \E e : Laid(r, B, e)
  BY <1>1, FlattenLaid
<1>3. PICK e : Laid(r, B, e)
  BY <1>2
<1>4. Replaced(r, old, new) = FlattenSeq(C)
  BY DEF Replaced
<1> HIDE DEF r
<1>5. DOMAIN r = 1 .. Len(r)
  BY <1>2, LenProperties
<1>6. Cut(C, r)
  <2>1. ASSUME NEW p \in DOMAIN r PROVE C[p] \in Block
    <3>1. r[p] \in Shown
      BY <1>2, <1>5, ElementOfSeq
    <3>2. <<r[p]>> \in Block
      BY <3>1 DEF Block
    <3> QED BY <3>2
  <2> QED BY <2>1 DEF Cut
<1>7. ASSUME NEW i \in 1 .. Len(s)
      PROVE  Carries(i, B, e, C, D)
  <2> DEFINE p == e[i - 1]
  <2>1. ASSUME NEW k \in 1 .. Len(B[i])
        PROVE  C[p + k] = IF B[i][k] = old THEN new ELSE <<B[i][k]>>
    <3>1. Placed(i, k, B, r, e)
      BY <1>1, <1>2, <1>3, LaidPlace
    <3>2. p + k \in DOMAIN r /\ r[p + k] = B[i][k]
      BY <1>5, <3>1 DEF Placed
    <3> HIDE DEF p
    <3> QED BY <3>2
  <2> HIDE DEF C, p
  <2>2. CASE Len(B[i]) = 1 /\ B[i][1] = old /\ D[i] = new
    <3>1. 1 \in 1 .. Len(B[i])
      BY <2>2
    <3>2. C[p + 1] = new
      BY <2>1, <2>2, <3>1
    <3> QED BY <2>2, <3>2 DEF Carries, p
  <2>3. CASE D[i] = B[i] /\ \A k \in 1 .. Len(B[i]) : B[i][k] # old
    <3>1. \A k \in 1 .. Len(B[i]) : C[p + k] = <<B[i][k]>>
      BY <2>1, <2>3
    <3> QED BY <2>3, <3>1 DEF Carries, p
  <2> QED BY <2>2, <2>3 DEF Swaps
<1> HIDE DEF C
<1>8. FlattenSeq(C) = FlattenSeq(D)
  BY <1>3, <1>6, <1>7, CutAgain DEF r
<1> QED BY <1>4, <1>8 DEF r
-----------------------------------------------------------------------------
(* The ends of a block are alphanumeric where its token is.                *)
SameEdges(b, t) == /\ b[1] \in Words <=> t \in Words
                   /\ b[Len(b)] \in Words <=> t \in Words

LEMMA FlankedSame ==
    ASSUME NEW s \in Seq(Shown), NEW B, Cut(B, s),
           \A j \in 1 .. Len(s) : SameEdges(B[j], s[j]),
           NEW r \in Seq(Shown), NEW e, Laid(r, B, e),
           NEW i \in 1 .. Len(s), Len(B[i]) = 1
    PROVE  /\ IsWord(r, e[i] - 1) <=> IsWord(s, i - 1)
           /\ Flanked(r, e[i]) <=> Flanked(s, i)
<1> DEFINE n == Len(s)
<1>1. /\ B \in Seq(Seq(Shown)) /\ Len(B) = n /\ n \in Nat
      /\ DOMAIN s = 1 .. n /\ DOMAIN r = 1 .. Len(r)
  BY CutType, LenProperties
<1>2. Spans(B, r, e)
  BY <1>1, LaidEnds
<1> DEFINE Filled(j) == Len(B[j]) # 0
<1>3. ASSUME NEW x \in 1 .. n PROVE Filled(x)
  <2>1. B[x] \in Block
    BY CutType
  <2> QED BY <2>1, BlockType
<1> HIDE DEF Filled
<1>4. IsWord(r, e[i] - 1) <=> IsWord(s, i - 1)
  <2>1. e[i] - 1 = e[i - 1] /\ e[i - 1] \in Nat
    <3>1. e[i] = e[i - 1] + Len(B[i]) /\ e[i - 1] \in Nat
      BY <1>1, <1>2 DEF Spans
    <3> QED BY <3>1
  <2>2. CASE i = 1
    <3>1. e[i - 1] = 0 /\ i - 1 = 0
      BY <1>2, <2>2 DEF Spans
    <3>2. e[i] - 1 \notin DOMAIN r /\ i - 1 \notin DOMAIN s
      BY <1>1, <2>1, <3>1
    <3> QED BY <3>2 DEF IsWord
  <2>3. CASE i # 1
    <3> DEFINE j == i - 1
    <3> HIDE DEF n
    <3>1. j \in 1 .. n - 1 /\ j + 1 = i /\ j \in 1 .. n
      BY <1>1, <2>3 DEF n
    <3> HIDE DEF j
    <3>2. Len(B[j]) # 0 /\ Len(B[j + 1]) # 0
      <4>1. j \in 1 .. n /\ i \in 1 .. n
        BY <3>1 DEF n
      <4>2. Filled(j)
        BY <1>3, <4>1
      <4>3. Filled(i)
        BY <1>3, <4>1
      <4> QED BY <3>1, <4>2, <4>3 DEF Filled
    <3>3. e[j] \in 1 .. Len(r) /\ r[e[j]] = B[j][Len(B[j])]
      <4>1. Touching(j, B, r, e)
        BY <1>1, <3>1, <3>2, LaidNear
      <4> QED BY <4>1 DEF Touching
    <3>4. r[e[j]] \in Words <=> s[j] \in Words
      BY <3>1, <3>3 DEF SameEdges, n
    <3>5. e[i] - 1 = e[j]
      BY <2>1 DEF j
    <3>6. IsWord(r, e[j]) <=> IsWord(s, j)
      BY <1>1, <3>1, <3>3, <3>4 DEF IsWord
    <3> QED BY <3>5, <3>6 DEF j
  <2> QED BY <2>2, <2>3
<1>5. IsWord(r, e[i] + 1) <=> IsWord(s, i + 1)
  <2>1. CASE i = n
    <3>1. e[i] = Len(r) /\ Len(r) \in Nat
      BY <1>1, <1>2, <2>1 DEF Spans
    <3>2. e[i] + 1 \notin DOMAIN r /\ i + 1 \notin DOMAIN s
      <4> HIDE DEF n
      <4> QED BY <1>1, <2>1, <3>1
    <3> QED BY <3>2 DEF IsWord
  <2>2. CASE i # n
    <3> HIDE DEF n
    <3>1. i \in 1 .. n - 1 /\ i + 1 \in 1 .. n
      BY <1>1, <2>2 DEF n
    <3>2. Len(B[i]) # 0 /\ Len(B[i + 1]) # 0
      <4>1. Filled(i)
        BY <1>3 DEF n
      <4>2. Filled(i + 1)
        BY <1>3, <3>1
      <4> QED BY <4>1, <4>2 DEF Filled
    <3>3. e[i] + 1 \in 1 .. Len(r) /\ r[e[i] + 1] = B[i + 1][1]
      <4>1. Touching(i, B, r, e)
        BY <1>1, <3>1, <3>2, LaidNear
      <4> QED BY <4>1 DEF Touching
    <3>4. r[e[i] + 1] \in Words <=> s[i + 1] \in Words
      BY <3>1, <3>3 DEF SameEdges, n
    <3> QED BY <1>1, <3>1, <3>3, <3>4 DEF IsWord
  <2> QED BY <2>1, <2>2
<1> QED BY <1>4, <1>5 DEF Flanked

LEMMA BracketEdges ==
    ASSUME NEW t, t \in {"://", "@", "."}, NEW b \in {SCHEME_SEP, AT, DOT}
    PROVE  SameEdges(b, t)
<1>1. t \notin Words /\ "[" \notin Words /\ "]" \notin Words
  BY DEF Words
<1>2. b[1] = "[" /\ Len(b) = 3 /\ b[3] = "]"
  BY DEF SCHEME_SEP, AT, DOT
<1> QED BY <1>1, <1>2 DEF SameEdges

LEMMA RenamedEdges ==
    ASSUME NEW s, NEW i
    PROVE  SameEdges(<<Renamed(s, i)>>, s[i])
<1>1. Renamed(s, i) \in Words <=> s[i] \in Words
  BY DEF Renamed, Words
<1> DEFINE b == <<Renamed(s, i)>>
<1>2. Len(b) = 1 /\ b[1] = Renamed(s, i)
  OBVIOUS
<1> HIDE DEF b
<1>3. SameEdges(b, s[i])
  BY <1>1, <1>2 DEF SameEdges
<1> QED BY <1>3 DEF b

(* defang_auto() in one pass.                                              *)
LEMMA AutoIs ==
    ASSUME NEW s, Plain(s)
    PROVE  DefangAuto(s) = FlattenSeq(AfterDots(s))
<1> DEFINE n == Len(s)
           A == AfterScheme(s)
           B == AfterAt(s)
           D == AfterDots(s)
           r == FlattenSeq(B)
<1>1. s \in Seq(Shown) /\ n \in Nat /\ DOMAIN s = 1 .. n
  BY LenProperties DEF Plain
<1>2. Cut(A, s) /\ Cut(B, s) /\ Cut(D, s)
  BY CutsOf
<1>3. /\ Len(SCHEME_SEP) = 3 /\ SCHEME_SEP[1] = "["
      /\ SCHEME_SEP[2] = "://" /\ SCHEME_SEP[3] = "]"
      /\ Len(AT) = 3 /\ AT[1] = "[" /\ AT[2] = "at" /\ AT[3] = "]"
  BY DEF SCHEME_SEP, AT
<1>4. ASSUME NEW i \in 1 .. n
      PROVE  /\ s[i] = "://" => A[i] = SCHEME_SEP /\ B[i] = SCHEME_SEP /\ D[i] = SCHEME_SEP
             /\ s[i] = "@" => A[i] = <<"@">> /\ B[i] = AT /\ D[i] = AT
             /\ s[i] \notin {"://", "@"} =>
                   /\ A[i] = <<Renamed(s, i)>> /\ B[i] = <<Renamed(s, i)>>
                   /\ D[i] = IF s[i] = "." /\ Flanked(s, i) THEN DOT ELSE <<Renamed(s, i)>>
  <2>1. s[i] = "@" => Renamed(s, i) = "@"
    BY DEF Renamed
  <2> QED BY <1>1, <2>1 DEF AfterScheme, AfterAt, AfterDots
<1> HIDE DEF A, B, D
<1>5. Replaced(FlattenSeq(A), "@", AT) = r
  <2>1. ASSUME NEW i \in 1 .. n PROVE Swaps(A[i], B[i], "@", AT)
    <3>1. CASE s[i] = "://"
      <4>1. A[i] = SCHEME_SEP /\ B[i] = SCHEME_SEP
        BY <1>4, <3>1
      <4>2. ASSUME NEW k \in 1 .. 3 PROVE SCHEME_SEP[k] # "@"
        <5>1. k = 1 \/ k = 2 \/ k = 3
          OBVIOUS
        <5> QED BY <1>3, <5>1
      <4>3. Swaps(SCHEME_SEP, SCHEME_SEP, "@", AT)
        BY <1>3, <4>2 DEF Swaps
      <4> QED BY <4>1, <4>3
    <3>2. CASE s[i] = "@"
      <4>1. A[i] = <<"@">> /\ B[i] = AT
        BY <1>4, <3>2
      <4>2. Len(<<"@">>) = 1 /\ <<"@">>[1] = "@"
        OBVIOUS
      <4> QED BY <4>1, <4>2 DEF Swaps
    <3>3. CASE s[i] \notin {"://", "@"}
      <4>1. A[i] = <<Renamed(s, i)>> /\ B[i] = <<Renamed(s, i)>>
        BY <1>4, <3>3
      <4>2. Renamed(s, i) # "@"
        BY <3>3 DEF Renamed
      <4> DEFINE b == <<Renamed(s, i)>>
      <4>3. Len(b) = 1 /\ b[1] # "@"
        BY <4>2
      <4> HIDE DEF b
      <4>4. Swaps(b, b, "@", AT)
        BY <4>3 DEF Swaps
      <4> QED BY <4>1, <4>4 DEF b
    <3> QED BY <3>1, <3>2, <3>3
  <2>2. AT \in Block
    BY DEF Block
  <2> QED BY <1>1, <1>2, <2>1, <2>2, ReplacedCut
<1>6. DefangAuto(s) = InnerDots(r)
  BY <1>5, SchemesAre DEF DefangAuto, A
<1> DEFINE C == [p \in DOMAIN r |-> IF r[p] = "." /\ Flanked(r, p) THEN DOT ELSE <<r[p]>>]
<1>7. InnerDots(r) = FlattenSeq(C)
  BY DEF InnerDots
<1>8. /\ B \in Seq(Seq(Shown)) /\ Len(B) = n
      /\ r \in Seq(Shown) /\ \E e : Laid(r, B, e)
  BY <1>1, <1>2, CutType, FlattenLaid
<1>9. PICK e : Laid(r, B, e)
  BY <1>8
<1> HIDE DEF r
<1>10. DOMAIN r = 1 .. Len(r)
  BY <1>8, LenProperties
<1>11. Cut(C, r)
  <2>1. ASSUME NEW p \in DOMAIN r PROVE C[p] \in Block
    <3>1. r[p] \in Shown
      BY <1>8, <1>10, ElementOfSeq
    <3>2. <<r[p]>> \in Block /\ DOT \in Block
      BY <3>1 DEF Block
    <3> QED BY <3>2
  <2> QED BY <2>1 DEF Cut
<1>12. \A p \in DOMAIN r : C[p] = IF r[p] = "." /\ Flanked(r, p) THEN DOT ELSE <<r[p]>>
  OBVIOUS
<1> HIDE DEF C
<1>13. ASSUME NEW i \in 1 .. n PROVE SameEdges(B[i], s[i])
  <2>1. CASE s[i] \in {"://", "@"}
    <3>1. B[i] \in {SCHEME_SEP, AT}
      BY <1>4, <2>1
    <3> QED BY <2>1, <3>1, BracketEdges
  <2>2. CASE s[i] \notin {"://", "@"}
    BY <1>4, <2>2, RenamedEdges
  <2> QED BY <2>1, <2>2
<1>14. ASSUME NEW i \in 1 .. n PROVE Carries(i, B, e, C, D)
  <2>1. ASSUME NEW k \in 1 .. Len(B[i])
        PROVE  Placed(i, k, B, r, e)
    BY <1>8, <1>9, LaidPlace
  <2>2. CASE s[i] \in {"://", "@"}
    <3> DEFINE b == B[i]
               p == e[i - 1]
    <3>1. b \in {SCHEME_SEP, AT} /\ D[i] = b
      BY <1>4, <2>2
    <3>2. ASSUME NEW k \in 1 .. Len(b) PROVE C[p + k] = <<b[k]>>
      <4>1. p + k \in DOMAIN r /\ r[p + k] = b[k]
        BY <1>10, <2>1 DEF Placed
      <4>2. b[k] # "."
        <5> HIDE DEF b
        <5>1. k \in 1 .. 3
          BY <1>3, <3>1
        <5>2. k = 1 \/ k = 2 \/ k = 3
          BY <5>1
        <5> QED BY <1>3, <3>1, <5>2
      <4> HIDE DEF b, p
      <4> QED BY <1>12, <4>1, <4>2
    <3> QED BY <3>1, <3>2 DEF Carries
  <2>3. CASE s[i] \notin {"://", "@"}
    <3>1. /\ B[i] = <<Renamed(s, i)>>
          /\ D[i] = IF s[i] = "." /\ Flanked(s, i) THEN DOT ELSE <<Renamed(s, i)>>
      BY <1>4, <2>3
    <3>2. Len(B[i]) = 1 /\ B[i][1] = Renamed(s, i) /\ 1 \in 1 .. Len(B[i])
      BY <3>1
    <3> DEFINE p == e[i - 1] + 1
    <3>3. p \in DOMAIN r /\ r[p] = Renamed(s, i)
      <4>1. Placed(i, 1, B, r, e)
        BY <2>1, <3>2
      <4> QED BY <1>10, <3>2, <4>1 DEF Placed
    <3>4. e[i] = p
      <4>1. Spans(B, r, e)
        BY <1>8, <1>9, LaidEnds
      <4> QED BY <1>8, <3>2, <4>1 DEF Spans
    <3>5. Flanked(r, p) <=> Flanked(s, i)
      <4> HIDE DEF p
      <4> QED BY <1>1, <1>2, <1>8, <1>9, <1>13, <3>2, <3>4, FlankedSame
    <3>6. Renamed(s, i) = "." <=> s[i] = "."
      BY DEF Renamed
    <3>7. C[p] = D[i]
      <4> HIDE DEF p
      <4> QED BY <1>12, <3>1, <3>3, <3>5, <3>6
    <3> QED BY <3>2, <3>7 DEF Carries
  <2> QED BY <2>2, <2>3
<1>15. FlattenSeq(C) = FlattenSeq(D)
  BY <1>1, <1>2, <1>9, <1>11, <1>14, CutAgain DEF r
<1> QED BY <1>6, <1>7, <1>15 DEF D, C
-----------------------------------------------------------------------------
(* is_defanged() of a text that was cut: a token that got no brackets must *)
(* not need any.                                                           *)
Harmless(s, i, t) == /\ t # "@"
                     /\ t = "://" => ~IsWord(s, i - 1)
                     /\ t = "."   => ~Flanked(s, i)

LEMMA CutDefanged ==
    ASSUME NEW s \in Seq(Shown), NEW B, Cut(B, s),
           \A j \in 1 .. Len(s) : SameEdges(B[j], s[j])
    PROVE  IsDefanged(FlattenSeq(B))
              <=> \A i \in 1 .. Len(s) : Len(B[i]) = 1 => Harmless(s, i, B[i][1])
<1> DEFINE n == Len(s)
           r == FlattenSeq(B)
           Fine(p) == Harmless(r, p, r[p])
           All == \A i \in 1 .. n : Len(B[i]) = 1 => Harmless(s, i, B[i][1])
<1>1. /\ B \in Seq(Seq(Shown)) /\ Len(B) = n /\ n \in Nat
      /\ \A i \in 1 .. n : B[i] \in Block
  BY CutType, LenProperties
<1>2. r \in Seq(Shown) /\ \E e : Laid(r, B, e)
  BY <1>1, FlattenLaid
<1>3. PICK e : Laid(r, B, e)
  BY <1>2
<1>4. IsDefanged(r) <=> \A p \in DOMAIN r : Fine(p)
  BY DEF IsDefanged, Harmless
<1> HIDE DEF r
<1>5. DOMAIN r = 1 .. Len(r)
  BY <1>2, LenProperties
<1>6. Spans(B, r, e)
  BY <1>1, <1>2, <1>3, LaidEnds
<1>7. \A p \in 1 .. Len(r) : Owned(p, B, e)
  <2> HIDE DEF Fine, All
  <2> QED BY <1>1, <1>2, <1>3, LaidOwner
<1>8. ASSUME NEW i \in 1 .. n, Len(B[i]) = 1
      PROVE  /\ e[i] \in DOMAIN r /\ e[i - 1] + 1 = e[i]
             /\ Fine(e[i]) <=> Harmless(s, i, B[i][1])
  <2> DEFINE p == e[i]
  <2>1. Placed(i, 1, B, r, e)
    <3>1. 1 \in 1 .. Len(B[i])
      BY <1>8
    <3> QED BY <1>1, <1>2, <1>3, <3>1, LaidPlace
  <2>2. p = e[i - 1] + 1
    BY <1>1, <1>6, <1>8 DEF Spans
  <2>3. p \in DOMAIN r /\ r[p] = B[i][1]
    BY <1>5, <2>1, <2>2 DEF Placed
  <2>4. IsWord(r, p - 1) <=> IsWord(s, i - 1)
    BY <1>2, <1>3, <1>8, FlankedSame
  <2>5. Flanked(r, p) <=> Flanked(s, i)
    BY <1>2, <1>3, <1>8, FlankedSame
  <2> HIDE DEF p
  <2>6. Fine(p) <=> Harmless(s, i, B[i][1])
    BY <2>3, <2>4, <2>5 DEF Harmless
  <2> QED BY <2>2, <2>3, <2>6 DEF p
<1>9. ASSUME NEW i \in 1 .. n, Len(B[i]) = 3, NEW k \in 1 .. Len(B[i])
      PROVE  Fine(e[i - 1] + k)
  <2> DEFINE b == B[i]
             q == e[i - 1]
  <2>1. b \in Seq(Shown) /\ Len(b) = 3 /\ b[1] = "[" /\ b[3] = "]"
        /\ b[2] \in {"://", "at", ".", ":"}
    <3>1. b \in Block /\ Len(b) # 1
      BY <1>1, <1>9
    <3> HIDE DEF b
    <3>2. \/ Len(b) = 1
          \/ b \in Seq(Shown) /\ Len(b) = 3 /\ b[1] = "[" /\ b[3] = "]"
             /\ b[2] \in {"://", "at", ".", ":"}
      BY <3>1, BlockType
    <3> QED BY <3>1, <3>2
  <2>2. ASSUME NEW l \in 1 .. 3
        PROVE  q + l \in DOMAIN r /\ r[q + l] = b[l]
    <3>1. l \in 1 .. Len(B[i])
      BY <1>9
    <3>2. Placed(i, l, B, r, e)
      BY <1>1, <1>2, <1>3, <3>1, LaidPlace
    <3> QED BY <1>5, <3>2 DEF Placed
  <2>3. q \in Nat
    BY <1>1, <1>6 DEF Spans
  <2> HIDE DEF b, q
  <2>4. k = 1 \/ k = 2 \/ k = 3
    <3>1. k \in 1 .. 3
      BY <1>9
    <3> QED BY <3>1
  <2>5. r[q + 1] = "[" /\ r[q + 2] \in {"://", "at", ".", ":"} /\ r[q + 3] = "]"
    <3>1. 1 \in 1 .. 3 /\ 2 \in 1 .. 3 /\ 3 \in 1 .. 3
      OBVIOUS
    <3> QED BY <2>1, <2>2, <3>1
  <2>6. Fine(q + 1) /\ Fine(q + 3)
    BY <2>5 DEF Harmless
  <2>7. Fine(q + 2)
    <3>1. (q + 2) - 1 = q + 1
      BY <2>3
    <3>2. "[" \notin Words
      BY DEF Words
    <3>3. ~IsWord(r, (q + 2) - 1)
      BY <2>5, <3>1, <3>2 DEF IsWord
    <3> QED BY <2>5, <3>3 DEF Harmless, Flanked
  <2> HIDE DEF Fine
  <2> QED BY <2>4, <2>6, <2>7 DEF q
<1>10. ASSUME All, NEW p \in DOMAIN r PROVE Fine(p)
  <2>1. Owned(p, B, e)
    BY <1>5, <1>7
  <2>2. PICK i \in 1 .. n : \E k \in 1 .. Len(B[i]) : p = e[i - 1] + k
    BY <1>1, <2>1 DEF Owned
  <2>3. PICK k \in 1 .. Len(B[i]) : p = e[i - 1] + k
    BY <2>2
  <2>4. Len(B[i]) = 1 \/ Len(B[i]) = 3
    <3>1. B[i] \in Block
      BY <1>1
    <3> QED BY <3>1, BlockType
  <2>5. CASE Len(B[i]) = 1
    <3>1. k = 1
      <4>1. k \in 1 .. 1
        BY <2>5
      <4> QED BY <4>1
    <3>2. Harmless(s, i, B[i][1])
      BY <1>10, <2>5
    <3> HIDE DEF Fine
    <3>3. Fine(e[i]) /\ e[i - 1] + 1 = e[i]
      BY <1>8, <2>5, <3>2
    <3>4. p = e[i]
      BY <2>3, <3>1, <3>3
    <3> QED BY <3>3, <3>4
  <2>6. CASE Len(B[i]) = 3
    <3> HIDE DEF Fine
    <3>1. Fine(e[i - 1] + k)
      BY <1>9, <2>6
    <3> QED BY <2>3, <3>1
  <2> QED BY <2>4, <2>5, <2>6
<1>11. ASSUME \A p \in DOMAIN r : Fine(p) PROVE All
  <2> SUFFICES ASSUME NEW i \in 1 .. n, Len(B[i]) = 1
               PROVE  Harmless(s, i, B[i][1])
    OBVIOUS
  <2> HIDE DEF Fine
  <2>1. e[i] \in DOMAIN r /\ (Fine(e[i]) <=> Harmless(s, i, B[i][1]))
    BY <1>8
  <2>2. Fine(e[i])
    BY <1>11, <2>1
  <2> QED BY <2>1, <2>2
<1> HIDE DEF Fine, All
<1>12. IsDefanged(r) <=> All
  BY <1>4, <1>10, <1>11
<1> QED BY <1>12 DEF r, All

LEMMA AutoEdges ==
    ASSUME NEW s, Plain(s), NEW j \in 1 .. Len(s)
    PROVE  SameEdges(AfterDots(s)[j], s[j])
<1>1. DOMAIN s = 1 .. Len(s)
  BY LenProperties DEF Plain
<1>2. CASE s[j] \in {"://", "@", "."} /\ AfterDots(s)[j] \in {SCHEME_SEP, AT, DOT}
  BY <1>2, BracketEdges
<1>3. CASE AfterDots(s)[j] = <<Renamed(s, j)>>
  BY <1>3, RenamedEdges
<1> QED BY <1>1, <1>2, <1>3 DEF AfterDots

LEMMA AutoSafe ==
    ASSUME NEW s, Plain(s)
    PROVE  IsDefanged(DefangAuto(s))
<1> DEFINE B == AfterDots(s)
<1>1. s \in Seq(Shown) /\ DOMAIN s = 1 .. Len(s)
  BY LenProperties DEF Plain
<1>2. ASSUME NEW i \in 1 .. Len(s), Len(B[i]) = 1
      PROVE  Harmless(s, i, B[i][1])
  <2>1. Len(SCHEME_SEP) # 1 /\ Len(AT) # 1 /\ Len(DOT) # 1
    BY DEF SCHEME_SEP, AT, DOT
  <2>2. B[i] \notin {SCHEME_SEP, AT, DOT}
    <3> HIDE DEF B
    <3> QED BY <1>2, <2>1
  <2>3. B[i] = <<Renamed(s, i)>> /\ s[i] \notin {"://", "@"}
        /\ ~(s[i] = "." /\ Flanked(s, i))
    BY <1>1, <2>2 DEF AfterDots
  <2>4. B[i][1] = Renamed(s, i)
    BY <2>3
  <2> HIDE DEF B
  <2> QED BY <2>3, <2>4 DEF Harmless, Renamed
<1>3. Cut(B, s) /\ \A j \in 1 .. Len(s) : SameEdges(B[j], s[j])
  BY CutsOf, AutoEdges
<1> HIDE DEF B
<1>4. IsDefanged(FlattenSeq(B))
  BY <1>1, <1>2, <1>3, CutDefanged
<1> QED BY <1>4, AutoIs DEF B
-----------------------------------------------------------------------------
(* What reversing the substitutions makes of each block.                   *)
Back(b) == IF b = AT THEN "@"
           ELSE IF Len(b) = 3 THEN b[2]
           ELSE IF b[1] = "hxxp" THEN "http" ELSE b[1]

(* A block that is not taken for part of another one.                      *)
Readable(D, i) == 
    Len(D[i]) = 1 =>
        /\ D[i][1] \notin {"[", "]", "at"}
        /\ D[i][1] = "hxxp" => i + 1 \in DOMAIN D /\ D[i + 1] = SCHEME_SEP

(* One token with the substitutions reversed.                              *)
Live(s, i) == CASE s[i] \in {"[", "]"}              -> <<>>
                [] s[i] = "at" /\ Bracketed(s, i)   -> <<"@">>
                [] s[i] = "hxxp" /\ Bracketed(s, i + 2)
                                 /\ s[i + 2] = "://" -> <<"http">>
                [] OTHER                            -> <<s[i]>>

LEMMA RefangedIs ==
    ASSUME NEW s
    PROVE  Refanged(s) = FlattenSeq([i \in DOMAIN s |-> Live(s, i)])
BY DEF Refanged, Live

LEMMA LiveType ==
    ASSUME NEW s \in Seq(Shown), NEW i \in 1 .. Len(s)
    PROVE  Live(s, i) \in Seq(Shown)
<1>1. s[i] \in Shown
  BY ElementOfSeq
<1>2. /\ <<>> \in Seq(Shown) /\ <<"@">> \in Seq(Shown) /\ <<"http">> \in Seq(Shown)
      /\ <<s[i]>> \in Seq(Shown)
  BY <1>1, ShownHas
<1>3. Live(s, i) \in {<<>>, <<"@">>, <<"http">>, <<s[i]>>}
  BY DEF Live
<1> QED BY <1>2, <1>3

LEMMA LiveOne ==
    ASSUME NEW s, NEW i
    PROVE  /\ s[i] \in {"[", "]"} => Live(s, i) = <<>>
           /\ s[i] = "at" /\ Bracketed(s, i) => Live(s, i) = <<"@">>
           /\ s[i] = "hxxp" /\ Bracketed(s, i + 2) /\ s[i + 2] = "://"
                 => Live(s, i) = <<"http">>
           /\ s[i] \notin {"[", "]", "at", "hxxp"} => Live(s, i) = <<s[i]>>
<1>1. CASE s[i] \in {"[", "]"}
  BY <1>1 DEF Live
<1>2. CASE s[i] = "at"
  BY <1>2 DEF Live
<1>3. CASE s[i] = "hxxp"
  BY <1>3 DEF Live
<1>4. CASE s[i] \notin {"[", "]", "at", "hxxp"}
  BY <1>4 DEF Live
<1> QED BY <1>1, <1>2, <1>3, <1>4

(* Reversing the substitutions token by token is reversing each block.     *)
LEMMA ReadBack ==
    ASSUME NEW s \in Seq(Shown), NEW D, Cut(D, s),
           \A i \in 1 .. Len(s) : Readable(D, i)
    PROVE  Refanged(FlattenSeq(D)) = [i \in 1 .. Len(s) |-> Back(D[i])]
<1> DEFINE n == Len(s)
           r == FlattenSeq(D)
           v == [i \in 1 .. n |-> Back(D[i])]
           E == [i \in 1 .. n |-> <<v[i]>>]
           C == [p \in DOMAIN r |-> Live(r, p)]
<1>1. /\ D \in Seq(Seq(Shown)) /\ Len(D) = n /\ n \in Nat
      /\ \A i \in 1 .. n : D[i] \in Block
      /\ DOMAIN D = 1 .. n
  BY CutType, LenProperties
<1>2. r \in Seq(Shown) /\ \E e : Laid(r, D, e)
  BY <1>1, FlattenLaid
<1>3. PICK e : Laid(r, D, e)
  BY <1>2
<1>4. Refanged(r) = FlattenSeq(C)
  BY RefangedIs
<1> HIDE DEF r
<1>5. DOMAIN r = 1 .. Len(r)
  BY <1>2, LenProperties
<1>6. C \in Seq(Seq(Shown)) /\ Len(C) = Len(r)
  <2>1. \A p \in 1 .. Len(r) : Live(r, p) \in Seq(Shown)
    BY <1>2, LiveType
  <2>2. C \in [1 .. Len(r) -> Seq(Shown)]
    BY <1>5, <2>1
  <2>3. Len(r) \in Nat
    BY <1>2, LenProperties
  <2> HIDE DEF C
  <2> QED BY <2>2, <2>3, FunctionSeq
<1>7. \A p \in DOMAIN r : C[p] = Live(r, p)
  OBVIOUS
<1> HIDE DEF C
<1>8. ASSUME NEW i \in 1 .. n
      PROVE  /\ D[i] \in Seq(Shown)
             /\ \/ Len(D[i]) = 1 /\ D[i] = <<D[i][1]>> /\ D[i][1] \in Shown
                \/ Len(D[i]) = 3 /\ D[i][1] = "[" /\ D[i][3] = "]"
                                 /\ D[i][2] \in {"://", "at", ".", ":"}
  <2>1. D[i] \in Block
    BY <1>1
  <2> QED BY <2>1, BlockType
<1>9. ASSUME NEW i \in 1 .. n, NEW k \in 1 .. Len(D[i])
      PROVE  e[i - 1] + k \in DOMAIN r /\ r[e[i - 1] + k] = D[i][k]
  <2>1. Placed(i, k, D, r, e)
    BY <1>1, <1>2, <1>3, LaidPlace
  <2> QED BY <1>5, <2>1 DEF Placed
<1>10. Spans(D, r, e)
  BY <1>1, <1>2, <1>3, LaidEnds
<1>11. ASSUME NEW i \in 1 .. n
       PROVE  v[i] \in Shown
  <2>1. CASE Len(D[i]) = 1
    BY <1>8, <2>1, ShownHas DEF Back
  <2>2. CASE Len(D[i]) = 3
    BY <1>8, <2>2, ShownHas DEF Back
  <2> QED BY <1>8, <2>1, <2>2
<1>12. v \in Seq(Shown) /\ Len(v) = n
  <2>1. v \in [1 .. n -> Shown]
    BY <1>11
  <2> HIDE DEF v
  <2> QED BY <1>1, <2>1, FunctionSeq
<1>13. \A i \in 1 .. n : v[i] = Back(D[i])
  OBVIOUS
<1> HIDE DEF v
<1>14. E \in Seq(Seq(Shown)) /\ Len(E) = n
  <2>1. \A i \in 1 .. n : <<v[i]>> \in Seq(Shown)
    BY <1>11
  <2>2. E \in [1 .. n -> Seq(Shown)]
    BY <2>1
  <2> HIDE DEF E
  <2> QED BY <1>1, <2>2, FunctionSeq
<1>15. \A i \in 1 .. n : E[i] = <<v[i]>>
  OBVIOUS
<1> HIDE DEF E
<1>16. ASSUME NEW i \in 1 .. n, Len(D[i]) = 3
       PROVE  E[i] = C[e[i - 1] + 1] \o C[e[i - 1] + 2] \o C[e[i - 1] + 3]
  <2> DEFINE p == e[i - 1]
             b == D[i]
  <2>1. 1 \in 1 .. Len(b) /\ 2 \in 1 .. Len(b) /\ 3 \in 1 .. Len(b)
    BY <1>16
  <2>2. /\ p + 1 \in DOMAIN r /\ r[p + 1] = b[1]
        /\ p + 2 \in DOMAIN r /\ r[p + 2] = b[2]
        /\ p + 3 \in DOMAIN r /\ r[p + 3] = b[3]
    BY <1>9, <2>1
  <2>3. b[1] = "[" /\ b[3] = "]" /\ b[2] \in {"://", "at", ".", ":"} /\ b \in Seq(Shown)
    BY <1>8, <1>16
  <2>4. p \in Nat
    BY <1>1, <1>10 DEF Spans
  <2>5. v[i] = Back(b)
    BY <1>13
  <2>6. Len(b) = 3
    BY <1>16
  <2>7. E[i] = <<v[i]>>
    BY <1>15
  <2> HIDE DEF p, b
  <2>8. C[p + 1] = <<>> /\ C[p + 3] = <<>>
    <3>1. r[p + 1] \in {"[", "]"} /\ r[p + 3] \in {"[", "]"}
      BY <2>2, <2>3
    <3>2. C[p + 1] = Live(r, p + 1) /\ C[p + 3] = Live(r, p + 3)
      BY <1>7, <2>2
    <3> QED BY <3>1, <3>2, LiveOne
  <2>9. C[p + 2] = <<v[i]>>
    <3>1. Bracketed(r, p + 2)
      <4>1. (p + 2) - 1 = p + 1 /\ (p + 2) + 1 = p + 3
        BY <2>4
      <4> QED BY <2>2, <2>3, <4>1 DEF Bracketed
    <3>2. C[p + 2] = Live(r, p + 2)
      BY <1>7, <2>2
    <3>3. CASE b[2] = "at"
      <4>1. Live(r, p + 2) = <<"@">>
        BY <2>2, <3>1, <3>3, LiveOne
      <4>2. b = AT
        <5>1. AT \in Seq(Shown) /\ Len(AT) = 3 /\ AT[1] = "[" /\ AT[2] = "at" /\ AT[3] = "]"
          BY ShownHas DEF AT
        <5>2. \A j \in 1 .. 3 : b[j] = AT[j]
          <6>1. \A j \in 1 .. 3 : j = 1 \/ j = 2 \/ j = 3
            OBVIOUS
          <6> QED BY <2>3, <3>3, <5>1, <6>1
        <5> QED BY <2>3, <2>6, <5>1, <5>2, SeqEqual
      <4> QED BY <2>5, <3>2, <4>1, <4>2 DEF Back
    <3>4. CASE b[2] # "at"
      <4>1. r[p + 2] \notin {"[", "]", "at", "hxxp"}
        BY <2>2, <2>3, <3>4
      <4>2. Live(r, p + 2) = <<b[2]>>
        BY <2>2, <4>1, LiveOne
      <4>3. b # AT
        <5>1. AT[2] = "at"
          BY DEF AT
        <5> QED BY <3>4, <5>1
      <4> QED BY <2>5, <2>6, <3>2, <4>2, <4>3 DEF Back
    <3> QED BY <3>3, <3>4
  <2>10. <<v[i]>> \in Seq(Shown)
    BY <1>11
  <2>11. <<>> \o <<v[i]>> \o <<>> = <<v[i]>>
    <3> DEFINE w == <<v[i]>>
    <3> HIDE DEF w
    <3>1. <<>> \o w = w /\ w \o <<>> = w
      BY <2>10, ConcatEmptySeq DEF w
    <3> QED BY <3>1 DEF w
  <2> QED BY <2>7, <2>8, <2>9, <2>11 DEF p
<1>17. ASSUME NEW i \in 1 .. n, Len(D[i]) = 1
       PROVE  E[i] = C[e[i - 1] + 1]
  <2> DEFINE p == e[i - 1] + 1
             t == D[i][1]
  <2>1. p \in DOMAIN r /\ r[p] = t
    <3>1. 1 \in 1 .. Len(D[i])
      BY <1>17
    <3> QED BY <1>9, <3>1
  <2>2. t \notin {"[", "]", "at"} /\ (t = "hxxp" => i + 1 \in DOMAIN D /\ D[i + 1] = SCHEME_SEP)
    BY <1>17 DEF Readable
  <2>3. E[i] = <<v[i]>> /\ v[i] = Back(D[i]) /\ C[p] = Live(r, p)
    BY <1>7, <1>13, <1>15, <2>1
  <2>4. Back(D[i]) = IF t = "hxxp" THEN "http" ELSE t
    <3>1. D[i] # AT
      <4>1. Len(AT) # 1
        BY DEF AT
      <4>2. Len(D[i]) = 1
        BY <1>17
      <4> QED BY <4>1, <4>2
    <3> QED BY <1>17, <3>1 DEF Back
  <2>5. p = e[i] /\ e[i] \in Nat
    <3>1. e[i] = e[i - 1] + Len(D[i]) /\ e[i] \in Nat
      BY <1>1, <1>10 DEF Spans
    <3> QED BY <1>17, <3>1
  <2> HIDE DEF t
  <2>6. CASE t = "hxxp"
    <3>1. i + 1 \in 1 .. n /\ D[i + 1] = SCHEME_SEP /\ (i + 1) - 1 = i
      BY <1>1, <2>2, <2>6
    <3>2. /\ Len(SCHEME_SEP) = 3 /\ SCHEME_SEP[1] = "["
          /\ SCHEME_SEP[2] = "://" /\ SCHEME_SEP[3] = "]"
      BY DEF SCHEME_SEP
    <3> DEFINE q == e[i]
    <3>3. ASSUME NEW k \in 1 .. 3
          PROVE  q + k \in DOMAIN r /\ r[q + k] = SCHEME_SEP[k]
      <4>1. k \in 1 .. Len(D[i + 1])
        BY <3>1, <3>2
      <4> QED BY <1>9, <3>1, <4>1
    <3>4. q \in Nat /\ p = q
      BY <2>5
    <3> HIDE DEF q, p
    <3>5. /\ q + 1 \in DOMAIN r /\ r[q + 1] = "[" /\ r[q + 2] = "://"
          /\ q + 3 \in DOMAIN r /\ r[q + 3] = "]"
      <4>1. 1 \in 1 .. 3 /\ 2 \in 1 .. 3 /\ 3 \in 1 .. 3
        OBVIOUS
      <4> QED BY <3>2, <3>3, <4>1
    <3>6. Bracketed(r, q + 2)
      <4>1. (q + 2) - 1 = q + 1 /\ (q + 2) + 1 = q + 3
        BY <3>4
      <4> QED BY <3>5, <4>1 DEF Bracketed
    <3>7. Live(r, p) = <<"http">>
      BY <2>1, <2>6, <3>4, <3>5, <3>6, LiveOne
    <3> QED BY <2>3, <2>4, <2>6, <3>7 DEF p
  <2>7. CASE t # "hxxp"
    <3> HIDE DEF p
    <3>1. r[p] \notin {"[", "]", "at", "hxxp"}
      BY <2>1, <2>2, <2>7
    <3>2. Live(r, p) = <<t>>
      BY <2>1, <3>1, LiveOne
    <3> QED BY <2>3, <2>4, <2>7, <3>2 DEF p
  <2> QED BY <2>6, <2>7
<1>18. ASSUME NEW i \in 1 .. Len(D)
       PROVE  Recuts(i, D, e, C, E)
  <2>1. Len(D[i]) = 1 \/ Len(D[i]) = 3
    BY <1>1, <1>8
  <2>2. CASE Len(D[i]) = 1
    <3>1. E[i] = C[e[i - 1] + 1]
      BY <1>1, <1>17, <2>2
    <3> QED BY <2>2, <3>1 DEF Recuts
  <2>3. CASE Len(D[i]) = 3
    <3>1. E[i] = C[e[i - 1] + 1] \o C[e[i - 1] + 2] \o C[e[i - 1] + 3]
      BY <1>1, <1>16, <2>3
    <3> QED BY <2>3, <3>1 DEF Recuts
  <2> QED BY <2>1, <2>2, <2>3
<1>19. FlattenSeq(C) = FlattenSeq(E)
  BY <1>1, <1>2, <1>3, <1>6, <1>14, <1>18, Recut
<1>20. FlattenSeq(E) = v
  BY <1>12, <1>14, <1>15, FlattenSingles
<1> QED BY <1>4, <1>19, <1>20 DEF r, v
LEMMA BackOf ==
    /\ Back(SCHEME_SEP) = "://" /\ Back(AT) = "@" /\ Back(DOT) = "." /\ Back(COLON) = ":"
    /\ \A t : Back(<<t>>) = IF t = "hxxp" THEN "http" ELSE t
<1>1. /\ Len(SCHEME_SEP) = 3 /\ SCHEME_SEP[2] = "://"
      /\ Len(DOT) = 3 /\ DOT[2] = "."
      /\ Len(COLON) = 3 /\ COLON[2] = ":"
      /\ Len(AT) = 3 /\ AT[2] = "at"
  BY DEF SCHEME_SEP, DOT, COLON, AT
<1>2. SCHEME_SEP # AT /\ DOT # AT /\ COLON # AT
  <2>1. "://" # "at" /\ "." # "at" /\ ":" # "at"
    OBVIOUS
  <2> QED BY <1>1, <2>1
<1>3. ASSUME NEW t PROVE Back(<<t>>) = IF t = "hxxp" THEN "http" ELSE t
  <2> DEFINE b == <<t>>
  <2>1. Len(b) = 1 /\ b[1] = t
    OBVIOUS
  <2> HIDE DEF b
  <2>2. b # AT
    <3>1. Len(AT) # 1
      BY <1>1
    <3> QED BY <2>1, <3>1
  <2>3. Back(b) = IF b[1] = "hxxp" THEN "http" ELSE b[1]
    BY <2>1, <2>2 DEF Back
  <2> QED BY <2>1, <2>3 DEF b
<1> QED BY <1>1, <1>2, <1>3 DEF Back

LEMMA AutoReadable ==
    ASSUME NEW s, Plain(s), NEW i \in 1 .. Len(s)
    PROVE  Readable(AfterDots(s), i) /\ Back(AfterDots(s)[i]) = s[i]
<1> DEFINE D == AfterDots(s)
<1>1. DOMAIN s = 1 .. Len(s) /\ DOMAIN D = 1 .. Len(s)
  BY LenProperties DEF Plain, AfterDots
<1>2. s[i] \notin {"[", "]", "at", "hxxp"}
  BY DEF Plain, Marks
<1>3. \A j \in 1 .. Len(s) : s[j] = "://" => D[j] = SCHEME_SEP
  BY <1>1 DEF AfterDots
<1>4. CASE D[i] = <<Renamed(s, i)>>
  <2> DEFINE t == Renamed(s, i)
  <2>1. Len(<<t>>) = 1 /\ <<t>>[1] = t
    OBVIOUS
  <2>2. D[i][1] = t
    BY <1>4, <2>1
  <2>3. t \notin {"[", "]", "at"}
    BY <1>2 DEF Renamed
  <2>4. t = "hxxp" => s[i] = "http" /\ i + 1 \in 1 .. Len(s) /\ s[i + 1] = "://"
    BY <1>1, <1>2 DEF Renamed
  <2>5. t # "hxxp" => t = s[i]
    BY DEF Renamed
  <2>6. t = "hxxp" => i + 1 \in DOMAIN D /\ D[i + 1] = SCHEME_SEP
    BY <1>1, <1>3, <2>4
  <2> HIDE DEF D, t
  <2>7. Readable(D, i)
    BY <2>2, <2>3, <2>6 DEF Readable
  <2>8. Back(<<t>>) = s[i]
    BY <2>4, <2>5, BackOf
  <2> QED BY <1>4, <2>7, <2>8 DEF D, t
<1>5. CASE D[i] # <<Renamed(s, i)>>
  <2>1. \/ D[i] = SCHEME_SEP /\ s[i] = "://"
        \/ D[i] = AT /\ s[i] = "@"
        \/ D[i] = DOT /\ s[i] = "."
    BY <1>1, <1>5 DEF AfterDots
  <2>2. Len(SCHEME_SEP) = 3 /\ Len(AT) = 3 /\ Len(DOT) = 3
    BY DEF SCHEME_SEP, AT, DOT
  <2> HIDE DEF D
  <2>3. Len(D[i]) = 3
    BY <2>1, <2>2
  <2>4. Readable(D, i)
    BY <2>3 DEF Readable
  <2>5. Back(D[i]) = s[i]
    BY <2>1, BackOf
  <2> QED BY <2>4, <2>5 DEF D
<1> QED BY <1>4, <1>5

LEMMA AutoReadsBack ==
    ASSUME NEW s, Plain(s)
    PROVE  Refanged(DefangAuto(s)) = s
<1> DEFINE D == AfterDots(s)
<1>1. s \in Seq(Shown) /\ s = [i \in 1 .. Len(s) |-> s[i]]
  BY LenProperties DEF Plain
<1>2. Cut(D, s)
  BY CutsOf
<1>3. \A i \in 1 .. Len(s) : Readable(D, i) /\ Back(D[i]) = s[i]
  BY AutoReadable
<1> HIDE DEF D
<1>4. Refanged(FlattenSeq(D)) = [i \in 1 .. Len(s) |-> Back(D[i])]
  BY <1>1, <1>2, <1>3, ReadBack
<1>5. Refanged(FlattenSeq(D)) = s
  BY <1>1, <1>3, <1>4
<1> QED BY <1>5, AutoIs DEF D

LEMMA AutoKeeps ==
    ASSUME NEW s, Plain(s), IsDefanged(s), ~Contains(s, "://")
    PROVE  DefangAuto(s) = s
<1> DEFINE D == AfterDots(s)
<1>1. s \in Seq(Shown) /\ DOMAIN s = 1 .. Len(s)
  BY LenProperties DEF Plain
<1>2. \A i \in 1 .. Len(s) : s[i] # "://"
  BY DEF Contains
<1>3. \A i \in 1 .. Len(s) : s[i] # "@" /\ ~(s[i] = "." /\ Flanked(s, i))
  BY <1>1 DEF IsDefanged
<1>4. ASSUME NEW i \in 1 .. Len(s) PROVE D[i] = <<s[i]>>
  <2>1. Renamed(s, i) = s[i]
    BY <1>1, <1>2 DEF Renamed
  <2>2. D[i] = <<Renamed(s, i)>>
    BY <1>1, <1>2, <1>3 DEF AfterDots
  <2> HIDE DEF D
  <2> QED BY <2>1, <2>2
<1>5. Cut(D, s)
  BY CutsOf
<1> HIDE DEF D
<1>6. D \in Seq(Seq(Shown)) /\ Len(D) = Len(s)
  BY <1>1, <1>5, CutType
<1>7. FlattenSeq(D) = s
  BY <1>1, <1>4, <1>6, FlattenSingles
<1> QED BY <1>7, AutoIs DEF D
-----------------------------------------------------------------------------
(* A value of the model is a text of its type, and no text has a bracket   *)
(* or a renamed scheme before it is shown.                                 *)
TextInv == /\ kind \in DOMAIN Alphabet \cup {"sightings"}
           /\ IsText => Plain(text)

LEMMA TokensPlain ==
    ASSUME NEW s \in Seq(Tokens)
    PROVE  Plain(s)
<1>1. Len(s) \in Nat /\ s = [i \in 1 .. Len(s) |-> s[i]]
  BY LenProperties
<1>2. \A i \in 1 .. Len(s) : s[i] \in Tokens
  BY ElementOfSeq
<1>3. \A t \in Tokens : t \in Shown /\ t \notin Marks
  BY DEF Tokens, Marks, Shown
<1>4. s \in [1 .. Len(s) -> Shown]
  BY <1>1, <1>2, <1>3
<1>5. s \in Seq(Shown)
  BY <1>1, <1>4, FunctionSeq
<1> QED BY <1>2, <1>3, <1>5 DEF Plain

LEMMA ShortPlain ==
    ASSUME NEW t, t \in Starts[kind], kind \in DOMAIN Alphabet
    PROVE  Plain(t)
<1>1. DOMAIN Alphabet = {"domain", "email", "ipv4", "hash", "asn", "other", "url",
                         "ipv6", "cidr", "time"}
  BY DEF Alphabet
<1>2. t \in Seq(Tokens)
  <2>1. "a" \in Tokens /\ "0" \in Tokens /\ "7" \in Tokens /\ "T" \in Tokens
        /\ "Z" \in Tokens /\ "http" \in Tokens /\ "HTTP" \in Tokens /\ "://" \in Tokens
        /\ "." \in Tokens /\ "/" \in Tokens /\ ":" \in Tokens /\ "-" \in Tokens
    BY DEF Tokens
  <2>2. CASE kind = "url"
    <3>1. t = <<"http", "://", "a">> \/ t = <<"HTTP", "://", "a">>
      BY <1>1, <2>2 DEF Starts
    <3>2. <<"http", "://", "a">> \in Seq(Tokens) /\ <<"HTTP", "://", "a">> \in Seq(Tokens)
      BY <2>1
    <3> QED BY <3>1, <3>2
  <2>3. CASE kind = "ipv6"
    <3>1. t = <<"a", ":", "a", ":", ":", "7">> \/ t = Mapped
      BY <1>1, <2>3 DEF Starts
    <3>2. <<"a", ":", "a", ":", ":", "7">> \in Seq(Tokens)
      BY <2>1
    <3>3. Mapped \in Seq(Tokens)
      BY <2>1 DEF Mapped
    <3> QED BY <3>1, <3>2, <3>3
  <2>4. CASE kind = "cidr"
    <3>1. t = <<"7", ".", "0", ".", "0", ".", "0", "/", "7">> \/ t = Mapped \o <<"/", "7">>
      BY <1>1, <2>4 DEF Starts
    <3>2. Mapped \in Seq(Tokens) /\ <<"/", "7">> \in Seq(Tokens)
      BY <2>1 DEF Mapped
    <3>3. Mapped \o <<"/", "7">> \in Seq(Tokens)
      BY <3>2, ConcatProperties
    <3>4. <<"7", ".", "0", ".", "0", ".", "0", "/", "7">> \in Seq(Tokens)
      BY <2>1
    <3> QED BY <3>1, <3>3, <3>4
  <2>5. CASE kind = "time"
    <3>1. t = Instant \o <<"Z">> \/ t = Instant \o <<".", "7", "Z">>
      BY <1>1, <2>5 DEF Starts
    <3>2. Instant \in Seq(Tokens) /\ <<"Z">> \in Seq(Tokens) /\ <<".", "7", "Z">> \in Seq(Tokens)
      BY <2>1 DEF Instant
    <3>3. Instant \o <<"Z">> \in Seq(Tokens) /\ Instant \o <<".", "7", "Z">> \in Seq(Tokens)
      BY <3>2, ConcatProperties
    <3> QED BY <3>1, <3>3
  <2>6. CASE kind \notin {"url", "ipv6", "cidr", "time"}
    <3>1. t = <<>>
      BY <1>1, <2>6 DEF Starts
    <3> QED BY <3>1
  <2> QED BY <2>2, <2>3, <2>4, <2>5, <2>6
<1> QED BY <1>2, TokensPlain

LEMMA LongerPlain ==
    ASSUME kind \in DOMAIN Alphabet, NEW t \in Alphabet[kind], NEW s, Plain(s)
    PROVE  Plain(Append(s, t))
<1>1. t \in Tokens
  <2>1. DOMAIN Alphabet = {"domain", "email", "ipv4", "hash", "asn", "other", "url",
                           "ipv6", "cidr", "time"}
    BY DEF Alphabet
  <2>2. /\ Alphabet["domain"] = {"a", "A", ".", " ", "@", "://"}
        /\ Alphabet["email"] = {"a", ".", "@", " ", "://"}
        /\ Alphabet["ipv4"] = {"0", "7", "."}
        /\ Alphabet["hash"] = {"a", "A", "0", "."}
        /\ Alphabet["asn"] = {"A", "S", "7", "0", "+"}
        /\ Alphabet["other"] = {"a", "http", ".", "@", "://", " ", "'", "\\"}
        /\ Alphabet["url"] = {"a", ".", "@", "://", "/", "'"}
        /\ Alphabet["ipv6"] = {} /\ Alphabet["cidr"] = {} /\ Alphabet["time"] = {}
    BY DEF Alphabet
  <2>3. kind \in {"domain", "email", "ipv4"} => t \in Tokens
    BY <2>2 DEF Tokens
  <2>4. kind \in {"hash", "asn"} => t \in Tokens
    BY <2>2 DEF Tokens
  <2>5. kind \in {"other", "url"} => t \in Tokens
    BY <2>2 DEF Tokens
  <2>6. kind \notin {"ipv6", "cidr", "time"}
    BY <2>2
  <2> QED BY <2>1, <2>3, <2>4, <2>5, <2>6
<1>2. t \in Shown /\ t \notin Marks
  BY <1>1 DEF Shown, Tokens, Marks
<1> DEFINE n == Len(s)
           r == Append(s, t)
<1>3. s \in Seq(Shown) /\ n \in Nat
  BY LenProperties DEF Plain
<1>4. /\ r \in Seq(Shown) /\ Len(r) = n + 1
      /\ \A i \in 1 .. n : r[i] = s[i]
      /\ r[n + 1] = t
  BY <1>2, <1>3, AppendProperties
<1> HIDE DEF r
<1>5. ASSUME NEW i \in 1 .. Len(r) PROVE r[i] \notin Marks
  <2>1. CASE i = n + 1
    <3> HIDE DEF n
    <3> QED BY <1>2, <1>4, <2>1
  <2>2. CASE i # n + 1
    <3>1. i \in 1 .. n
      <4> HIDE DEF n
      <4> QED BY <1>3, <1>4, <2>2
    <3>2. r[i] = s[i] /\ s[i] \notin Marks
      BY <1>4, <3>1 DEF Plain
    <3> QED BY <3>2
  <2> QED BY <2>1, <2>2
<1> QED BY <1>4, <1>5 DEF Plain, r

(* Every text that is shown is one the passes of defang_auto() were        *)
(* written for: it holds no placeholder of its own.                        *)
THEOREM TextInductive == Spec => []TextInv
<1>1. Init => TextInv
  <2> SUFFICES ASSUME Init PROVE TextInv
    OBVIOUS
  <2>1. CASE kind = "sightings"
    BY <2>1 DEF TextInv, IsText
  <2>2. CASE kind \in DOMAIN Alphabet /\ text \in Starts[kind]
    BY <2>2, ShortPlain DEF TextInv
  <2> QED BY <2>1, <2>2 DEF Init
<1>2. TextInv /\ [Next]_vars => TextInv'
  <2> SUFFICES ASSUME TextInv, [Next]_vars PROVE TextInv'
    OBVIOUS
  <2>1. ASSUME NEW s \in Feeds, NEW c \in Levels, Sight(s, c) PROVE TextInv'
    BY <2>1 DEF Sight, TextInv, IsText
  <2>2. ASSUME NEW t, Grow(t) PROVE TextInv'
    <3>1. IsText /\ kind \in DOMAIN Alphabet /\ Plain(text)
      BY <2>2 DEF Grow, TextInv, IsText
    <3>2. Plain(Append(text, t))
      BY <2>2, <3>1, LongerPlain DEF Grow
    <3>3. Plain(text') /\ kind' = kind
      BY <2>2, <3>2 DEF Grow
    <3> QED BY <3>1, <3>3 DEF TextInv, IsText
  <2>3. CASE UNCHANGED vars
    BY <2>3 DEF vars, TextInv, IsText
  <2> QED BY <2>1, <2>2, <2>3 DEF Next
<1> QED BY <1>1, <1>2, PTL DEF Spec

(* Whatever text is shown, known to be an indicator or not, defang_auto()  *)
(* leaves nothing in it that is_defanged() takes for a live link.          *)
THEOREM AlwaysAutoDefanged == Spec => []AutoDefanged
<1>1. TextInv => AutoDefanged
  BY AutoSafe DEF TextInv, AutoDefanged
<1> QED BY <1>1, TextInductive, PTL

(* Nothing is lost: reversing the substitutions of defang_auto() gives the *)
(* text back, and a text with nothing live in it is shown as it is.        *)
THEOREM AlwaysAutoLegible == Spec => []AutoLegible
<1>1. TextInv => AutoLegible
  BY AutoReadsBack, AutoKeeps DEF TextInv, AutoLegible
<1> QED BY <1>1, TextInductive, PTL
-----------------------------------------------------------------------------
(* The first and the last of some positions.                               *)
LEMMA MinIn ==
    ASSUME NEW I, I \subseteq Nat, I # {}
    PROVE  Min(I) \in I /\ \A y \in I : Min(I) <= y
<1>1. PICK x \in I : \A y \in I : <<y, x>> \notin OpToRel(<, Nat)
  <2> DEFINE R == OpToRel(<, Nat)
  <2>1. IsWellFoundedOn(R, Nat)
    BY NatLessThanWellFounded
  <2> HIDE DEF R
  <2>2. \E x \in I : \A y \in I : <<y, x>> \notin R
    BY <2>1, WFMin
  <2> QED BY <2>2 DEF R
<1>2. \A y \in I : x <= y
  <2> SUFFICES ASSUME NEW y \in I, ~(x <= y) PROVE FALSE
    OBVIOUS
  <2>1. y \in Nat /\ x \in Nat /\ y < x
    OBVIOUS
  <2>2. <<y, x>> \in OpToRel(<, Nat)
    BY <2>1 DEF OpToRel
  <2> QED BY <1>1, <2>2
<1> QED BY <1>2 DEF Min

LEMMA MaxIn ==
    ASSUME NEW n \in Nat, NEW I, I \subseteq 0 .. n, I # {}
    PROVE  Max(I) \in I /\ \A y \in I : y <= Max(I)
<1> DEFINE J == {n - i : i \in I}
<1>1. J \subseteq Nat /\ J # {}
  OBVIOUS
<1>2. Min(J) \in J /\ \A y \in J : Min(J) <= y
  <2> HIDE DEF J
  <2> QED BY <1>1, MinIn
<1>3. PICK x \in I : Min(J) = n - x
  BY <1>2
<1>4. \A y \in I : y <= x
  <2> SUFFICES ASSUME NEW y \in I PROVE y <= x
    OBVIOUS
  <2>1. n - y \in J
    OBVIOUS
  <2>2. n - x <= n - y
    BY <1>2, <1>3, <2>1
  <2>3. x \in Int /\ y \in Int
    OBVIOUS
  <2> QED BY <2>2, <2>3
<1>5. \E z \in I : \A y \in I : z >= y
  <2>1. \A y \in I : x >= y
    <3>1. \A y \in I : y \in Int /\ x \in Int
      OBVIOUS
    <3> QED BY <1>4, <3>1
  <2> QED BY <2>1
<1>6. Max(I) \in I /\ \A y \in I : Max(I) >= y
  BY <1>5 DEF Max
<1>7. \A y \in I : y \in Int
  OBVIOUS
<1> QED BY <1>6, <1>7

LEMMA PartType ==
    ASSUME NEW A, NEW s \in Seq(A), NEW m \in 1 .. Len(s) + 1, NEW k \in 0 .. Len(s)
    PROVE  SubSeq(s, m, k) \in Seq(A)
<1>1. Len(s) \in Nat
  BY LenProperties
<1>2. m \in Int /\ k \in Int /\ \A j \in m .. k : j \in 1 .. Len(s)
  BY <1>1
<1>3. \A j \in m .. k : s[j] \in A
  BY <1>2, ElementOfSeq
<1> QED BY <1>2, <1>3, SubSeqProperties

LEMMA TrimStartType ==
    ASSUME NEW A, NEW s \in Seq(A), NEW T
    PROVE  TrimStart(s, T) \in Seq(A)
<1> DEFINE I == {i \in 1 .. Len(s) : s[i] \notin T}
<1>1. Len(s) \in Nat
  BY LenProperties
<1>2. SelectInSeq(s, LAMBDA t : t \notin T) = IF I # {} THEN Min(I) ELSE 0
  BY DEF SelectInSeq
<1>3. CASE I = {}
  BY <1>2, <1>3, EmptySeq DEF TrimStart
<1>4. CASE I # {}
  <2>1. Min(I) \in I
    <3>1. I \subseteq Nat
      OBVIOUS
    <3> HIDE DEF I
    <3> QED BY <1>4, <3>1, MinIn
  <2>2. Min(I) \in 1 .. Len(s) /\ Min(I) # 0
    BY <2>1
  <2> DEFINE i == Min(I)
  <2> HIDE DEF I
  <2>3. TrimStart(s, T) = SubSeq(s, i, Len(s))
    BY <1>2, <1>4, <2>2 DEF TrimStart
  <2>4. i \in 1 .. Len(s) + 1 /\ Len(s) \in 0 .. Len(s)
    BY <1>1, <2>2
  <2> HIDE DEF i
  <2>5. SubSeq(s, i, Len(s)) \in Seq(A)
    BY <2>4, PartType
  <2> QED BY <2>3, <2>5
<1> QED BY <1>3, <1>4

LEMMA TrimEndType ==
    ASSUME NEW A, NEW s \in Seq(A), NEW T
    PROVE  TrimEnd(s, T) \in Seq(A)
<1> DEFINE I == {i \in 1 .. Len(s) : s[i] \notin T}
           i == IF I # {} THEN Max(I) ELSE 0
<1>1. Len(s) \in Nat
  BY LenProperties
<1>2. SelectLastInSeq(s, LAMBDA t : t \notin T) = i
  BY DEF SelectLastInSeq
<1>3. i \in 0 .. Len(s)
  <2>1. I \subseteq 0 .. Len(s)
    OBVIOUS
  <2> HIDE DEF I
  <2>2. CASE I = {}
    BY <1>1, <2>2
  <2>3. CASE I # {}
    <3>1. Max(I) \in I
      BY <1>1, <2>1, <2>3, MaxIn
    <3>2. Max(I) \in 0 .. Len(s)
      BY <2>1, <3>1
    <3> QED BY <2>3, <3>2
  <2> QED BY <2>2, <2>3
<1> HIDE DEF i
<1>4. 1 \in 1 .. Len(s) + 1
  BY <1>1
<1>5. SubSeq(s, 1, i) \in Seq(A)
  BY <1>3, <1>4, PartType
<1> QED BY <1>2, <1>5 DEF TrimEnd

LEMMA TrimType ==
    ASSUME NEW A, NEW s \in Seq(A)
    PROVE  Trim(s) \in Seq(A)
BY TrimStartType, TrimEndType DEF Trim

LEMMA LoweredType ==
    ASSUME NEW A, NEW s \in Seq(A), \A t \in A : Lower(t) \in A
    PROVE  Lowered(s) \in Seq(A)
<1>1. Len(s) \in Nat /\ DOMAIN s = 1 .. Len(s) /\ \A i \in 1 .. Len(s) : s[i] \in A
  BY LenProperties, ElementOfSeq
<1>2. Lowered(s) \in [1 .. Len(s) -> A]
  BY <1>1 DEF Lowered
<1> QED BY <1>1, <1>2, FunctionSeq

LEMMA DomainType ==
    ASSUME NEW A, NEW s \in Seq(A), \A t \in A : Lower(t) \in A,
           NormalizeDomain(s) # Invalid
    PROVE  NormalizeDomain(s) \in Seq(A)
<1> DEFINE h == Trim(TrimEnd(s, {"."}))
<1>1. h \in Seq(A)
  BY TrimType, TrimEndType
<1>2. NormalizeDomain(s) = Lowered(h)
  BY DEF NormalizeDomain, DomainToAscii
<1> HIDE DEF h
<1> QED BY <1>1, <1>2, LoweredType

LEMMA EmailType ==
    ASSUME NEW A, NEW s \in Seq(A), \A t \in A : Lower(t) \in A,
           NormalizeEmail(s) # Invalid
    PROVE  NormalizeEmail(s) \in Seq(A)
<1> DEFINE I  == {i \in 1 .. Len(s) : s[i] = "@"}
           at == IF I # {} THEN Max(I) ELSE 0
           h  == SubSeq(s, at + 1, Len(s))
           g  == SubSeq(s, 1, at)
           d  == NormalizeDomain(h)
<1>1. Len(s) \in Nat
  BY LenProperties
<1>2. SelectLastInSeq(s, LAMBDA t : t = "@") = at
  BY DEF SelectLastInSeq
<1>3. at \in 0 .. Len(s)
  <2>1. I \subseteq 0 .. Len(s)
    OBVIOUS
  <2> HIDE DEF I
  <2>2. CASE I = {}
    BY <1>1, <2>2
  <2>3. CASE I # {}
    <3>1. Max(I) \in I
      BY <1>1, <2>1, <2>3, MaxIn
    <3>2. Max(I) \in 0 .. Len(s)
      BY <2>1, <3>1
    <3> QED BY <2>3, <3>2
  <2> QED BY <2>2, <2>3
<1> HIDE DEF at
<1>4. NormalizeEmail(s) = IF at <= 1 \/ d = Invalid THEN Invalid ELSE g \o d
  BY <1>2 DEF NormalizeEmail
<1>5. d # Invalid /\ NormalizeEmail(s) = g \o d
  BY <1>4
<1>6. h \in Seq(A)
  <2>1. at + 1 \in 1 .. Len(s) + 1 /\ Len(s) \in 0 .. Len(s)
    BY <1>1, <1>3
  <2> QED BY <2>1, PartType
<1>7. g \in Seq(A)
  <2>1. 1 \in 1 .. Len(s) + 1
    BY <1>1
  <2> QED BY <1>3, <2>1, PartType
<1> HIDE DEF h
<1>8. d \in Seq(A)
  BY <1>5, <1>6, DomainType
<1> HIDE DEF d, g
<1>9. g \o d \in Seq(A)
  BY <1>7, <1>8, ConcatProperties
<1> QED BY <1>5, <1>9

LEMMA PrintedType ==
    ASSUME NEW A, "0" \in A, NEW s \in Seq(A)
    PROVE  Printed(s) \in Seq(A)
<1>1. TrimStart(s, {"0"}) \in Seq(A)
  BY TrimStartType
<1>2. <<"0">> \in Seq(A)
  OBVIOUS
<1> QED BY <1>1, <1>2 DEF Printed

LEMMA Ipv4Type ==
    ASSUME NEW A, "0" \in A, "." \in A, NEW s \in Seq(A),
           NormalizeIpv4(s) # Invalid
    PROVE  NormalizeIpv4(s) \in Seq(A)
<1> DEFINE n == Len(s)
           dot(i) == Min({n + 1} \cup {j \in i + 1 .. n : s[j] = "."})
           d1 == dot(0)
           d2 == dot(d1)
           d3 == dot(d2)
           a == SubSeq(s, 1, d1 - 1)
           b == SubSeq(s, d1 + 1, d2 - 1)
           c == SubSeq(s, d2 + 1, d3 - 1)
           d == SubSeq(s, d3 + 1, n)
           D == <<".">>
<1>1. n \in Nat
  BY LenProperties
<1>2. ASSUME NEW i \in Nat
      PROVE  dot(i) \in Nat /\ dot(i) <= n + 1 /\ (i < dot(i) \/ dot(i) = n + 1)
             /\ 1 <= dot(i)
  <2> DEFINE I == {n + 1} \cup {j \in i + 1 .. n : s[j] = "."}
  <2>1. I \subseteq Nat /\ I # {} /\ \A j \in I : j <= n + 1 /\ 1 <= j /\ (i < j \/ j = n + 1)
    BY <1>1
  <2>2. Min(I) \in I
    <3> HIDE DEF I
    <3> QED BY <2>1, MinIn
  <2> HIDE DEF I
  <2>3. Min(I) \in Nat /\ Min(I) <= n + 1 /\ (i < Min(I) \/ Min(I) = n + 1) /\ 1 <= Min(I)
    BY <2>1, <2>2
  <2> QED BY <2>3 DEF I
<1> HIDE DEF dot
<1>3. d1 \in Nat /\ d1 <= n + 1 /\ 1 <= d1
  BY <1>2
<1>4. d2 \in Nat /\ d2 <= n + 1 /\ 1 <= d2
  <2> HIDE DEF d1
  <2> QED BY <1>2, <1>3
<1>5. d3 \in Nat /\ d3 <= n + 1 /\ 1 <= d3
  <2> HIDE DEF d1, d2
  <2> QED BY <1>2, <1>4
<1>6. NormalizeIpv4(s) = Printed(a) \o D \o Printed(b) \o D \o Printed(c) \o D \o Printed(d)
  <2> DEFINE octet == <<a, b, c, d>>
  <2>1. NormalizeIpv4(s) =
          IF \A k \in 1 .. 4 : IsNumber(octet[k], 255)
          THEN Printed(octet[1]) \o D \o Printed(octet[2]) \o D
                  \o Printed(octet[3]) \o D \o Printed(octet[4])
          ELSE Invalid
    BY DEF NormalizeIpv4, dot
  <2> HIDE DEF d1, d2, d3, n
  <2>2. octet[1] = a /\ octet[2] = b /\ octet[3] = c /\ octet[4] = d
    <3> HIDE DEF a, b, c, d
    <3> QED OBVIOUS
  <2> HIDE DEF a, b, c, d, octet
  <2> QED BY <2>1, <2>2
<1> HIDE DEF d1, d2, d3
<1>7. a \in Seq(A) /\ b \in Seq(A) /\ c \in Seq(A) /\ d \in Seq(A)
  <2> DEFINE P(m, k) == m \in Nat /\ 1 <= m /\ k \in Int /\ k <= n
  <2>1. ASSUME NEW m, NEW k, P(m, k) PROVE SubSeq(s, m, k) \in Seq(A)
    <3>1. m \in Int /\ k \in Int /\ \A j \in m .. k : j \in 1 .. Len(s)
      BY <1>1, <2>1
    <3>2. \A j \in m .. k : s[j] \in A
      BY <3>1, ElementOfSeq
    <3> QED BY <3>1, <3>2, SubSeqProperties
  <2>2. P(1, d1 - 1) /\ P(d1 + 1, d2 - 1) /\ P(d2 + 1, d3 - 1) /\ P(d3 + 1, n)
    <3> HIDE DEF n
    <3> QED BY <1>1, <1>3, <1>4, <1>5
  <2> HIDE DEF P, n
  <2> QED BY <2>1, <2>2
<1> HIDE DEF a, b, c, d
<1> DEFINE pa == Printed(a)
           pb == Printed(b)
           pc == Printed(c)
           pd == Printed(d)
<1>8. pa \in Seq(A) /\ pb \in Seq(A) /\ pc \in Seq(A) /\ pd \in Seq(A) /\ D \in Seq(A)
  BY <1>7, PrintedType
<1> HIDE DEF pa, pb, pc, pd, D
<1>9. pa \o D \o pb \o D \in Seq(A)
  BY <1>8, ConcatProperties
<1> DEFINE q == pa \o D \o pb \o D
<1> HIDE DEF q
<1>10. q \o pc \o D \o pd \in Seq(A)
  BY <1>8, <1>9, ConcatProperties DEF q
<1> QED BY <1>6, <1>10 DEF q, pa, pb, pc, pd
-----------------------------------------------------------------------------
(* What defang() shows: each token as it is, broken, or renamed in front   *)
(* of a broken separator.                                                  *)
Broken(D, s, i) ==
    \/ D[i] = <<s[i]>>
    \/ s[i] = "@"   /\ D[i] = AT
    \/ s[i] = "."   /\ D[i] = DOT
    \/ s[i] = ":"   /\ D[i] = COLON
    \/ s[i] = "://" /\ D[i] = SCHEME_SEP
    \/ /\ s[i] \in {"http", "HTTP"} /\ D[i] = <<"hxxp">>
       /\ i + 1 \in DOMAIN s /\ D[i + 1] = SCHEME_SEP

LEMMA BrokenParts ==
    /\ Len(SCHEME_SEP) = 3 /\ SCHEME_SEP[1] = "[" /\ SCHEME_SEP[2] = "://" /\ SCHEME_SEP[3] = "]"
    /\ Len(DOT) = 3 /\ DOT[1] = "[" /\ DOT[2] = "." /\ DOT[3] = "]"
    /\ Len(COLON) = 3 /\ COLON[1] = "[" /\ COLON[2] = ":" /\ COLON[3] = "]"
    /\ Len(AT) = 3 /\ AT[1] = "[" /\ AT[2] = "at" /\ AT[3] = "]"
BY DEF SCHEME_SEP, DOT, COLON, AT

LEMMA BrokenBlock ==
    ASSUME NEW s, Plain(s), NEW D, NEW i \in 1 .. Len(s), Broken(D, s, i)
    PROVE  D[i] \in Block
<1>1. s[i] \in Shown
  BY ElementOfSeq DEF Plain
<1>2. <<s[i]>> \in Block /\ <<"hxxp">> \in Block
  BY <1>1, ShownHas DEF Block
<1>3. AT \in Block /\ DOT \in Block /\ COLON \in Block /\ SCHEME_SEP \in Block
  BY DEF Block
<1> QED BY <1>2, <1>3 DEF Broken

LEMMA BrokenEdges ==
    ASSUME NEW s, NEW D, NEW i, Broken(D, s, i)
    PROVE  SameEdges(D[i], s[i])
<1>1. /\ "[" \notin Words /\ "]" \notin Words /\ "@" \notin Words /\ "." \notin Words
      /\ ":" \notin Words /\ "://" \notin Words
      /\ "http" \in Words /\ "HTTP" \in Words /\ "hxxp" \in Words
  BY DEF Words
<1>2. CASE D[i] = <<s[i]>>
  <2> DEFINE b == <<s[i]>>
  <2>1. Len(b) = 1 /\ b[1] = s[i]
    OBVIOUS
  <2> HIDE DEF b
  <2>2. SameEdges(b, s[i])
    BY <2>1 DEF SameEdges
  <2> QED BY <1>2, <2>2 DEF b
<1>3. CASE s[i] \in {"@", ".", ":", "://"} /\ D[i] \in {AT, DOT, COLON, SCHEME_SEP}
  <2>1. D[i][1] = "[" /\ D[i][Len(D[i])] = "]"
    BY <1>3, BrokenParts
  <2>2. s[i] \notin Words
    BY <1>1, <1>3
  <2> QED BY <1>1, <2>1, <2>2 DEF SameEdges
<1>4. CASE s[i] \in {"http", "HTTP"} /\ D[i] = <<"hxxp">>
  <2> DEFINE b == <<"hxxp">>
  <2>1. Len(b) = 1 /\ b[1] = "hxxp"
    OBVIOUS
  <2> HIDE DEF b
  <2>2. D[i][1] = "hxxp" /\ D[i][Len(D[i])] = "hxxp"
    BY <1>4, <2>1 DEF b
  <2>3. s[i] \in Words
    BY <1>1, <1>4
  <2> QED BY <1>1, <2>2, <2>3 DEF SameEdges
<1> QED BY <1>2, <1>3, <1>4 DEF Broken

LEMMA BrokenReads ==
    ASSUME NEW s, Plain(s), NEW D, DOMAIN D = DOMAIN s,
           NEW i \in 1 .. Len(s), Broken(D, s, i)
    PROVE  Readable(D, i) /\ Lower(Back(D[i])) = Lower(s[i])
<1>1. s[i] \notin {"[", "]", "at", "hxxp"}
  BY DEF Plain, Marks
<1>2. CASE D[i] = <<s[i]>>
  <2> DEFINE b == <<s[i]>>
  <2>1. Len(b) = 1 /\ b[1] = s[i] /\ Back(b) = s[i]
    BY <1>1, BackOf
  <2> HIDE DEF b
  <2>2. Len(D[i]) = 1 /\ D[i][1] = s[i] /\ Back(D[i]) = s[i]
    BY <1>2, <2>1 DEF b
  <2> QED BY <1>1, <2>2 DEF Readable
<1>3. CASE \/ s[i] = "@"   /\ D[i] = AT
           \/ s[i] = "."   /\ D[i] = DOT
           \/ s[i] = ":"   /\ D[i] = COLON
           \/ s[i] = "://" /\ D[i] = SCHEME_SEP
  <2>1. Len(D[i]) = 3
    BY <1>3, BrokenParts
  <2>2. Back(D[i]) = s[i]
    BY <1>3, BackOf
  <2> QED BY <2>1, <2>2 DEF Readable
<1>4. CASE /\ s[i] \in {"http", "HTTP"} /\ D[i] = <<"hxxp">>
           /\ i + 1 \in DOMAIN s /\ D[i + 1] = SCHEME_SEP
  <2> DEFINE b == <<"hxxp">>
  <2>1. Len(b) = 1 /\ b[1] = "hxxp" /\ Back(b) = "http"
    BY BackOf
  <2> HIDE DEF b
  <2>2. D[i][1] = "hxxp" /\ Back(D[i]) = "http"
    BY <1>4, <2>1 DEF b
  <2>3. Lower("http") = "http" /\ Lower(s[i]) = "http"
    BY <1>4 DEF Lower
  <2> QED BY <1>4, <2>2, <2>3 DEF Readable
<1> QED BY <1>2, <1>3, <1>4 DEF Broken

(* A text shown by breaking some of its tokens: when it is not live any    *)
(* more, and that it reads back but for the case of its scheme.            *)
Breaks(D, s) == /\ D = [i \in DOMAIN s |-> D[i]]
                /\ \A i \in 1 .. Len(s) : Broken(D, s, i)

LEMMA BreaksShown ==
    ASSUME NEW s, Plain(s), NEW D, Breaks(D, s)
    PROVE  /\ IsDefanged(FlattenSeq(D))
                 <=> \A i \in 1 .. Len(s) : D[i] = <<s[i]>> => Harmless(s, i, s[i])
           /\ Lowered(Refanged(FlattenSeq(D))) = Lowered(s)
<1> DEFINE n == Len(s)
<1>1. s \in Seq(Shown) /\ n \in Nat /\ DOMAIN s = 1 .. n /\ DOMAIN D = 1 .. n
  BY LenProperties DEF Plain, Breaks
<1>2. Cut(D, s)
  BY <1>1, BrokenBlock DEF Cut, Breaks
<1>3. \A j \in 1 .. n : SameEdges(D[j], s[j])
  BY BrokenEdges DEF Breaks
<1>4. IsDefanged(FlattenSeq(D))
         <=> \A i \in 1 .. n : Len(D[i]) = 1 => Harmless(s, i, D[i][1])
  BY <1>1, <1>2, <1>3, CutDefanged
<1>5. ASSUME NEW i \in 1 .. n
      PROVE  (Len(D[i]) = 1 => Harmless(s, i, D[i][1]))
                <=> (D[i] = <<s[i]>> => Harmless(s, i, s[i]))
  <2>1. s[i] \notin {"[", "]", "at", "hxxp"} /\ Broken(D, s, i)
    BY DEF Plain, Marks, Breaks
  <2>2. CASE D[i] = <<s[i]>>
    <3> DEFINE b == <<s[i]>>
    <3>1. Len(b) = 1 /\ b[1] = s[i]
      OBVIOUS
    <3> HIDE DEF b
    <3>2. Len(D[i]) = 1 /\ D[i][1] = s[i] /\ D[i] = b
      BY <2>2, <3>1 DEF b
    <3> QED BY <3>2 DEF b
  <2>3. CASE D[i] # <<s[i]>> /\ D[i] \in {AT, DOT, COLON, SCHEME_SEP}
    <3>1. Len(D[i]) = 3
      BY <2>3, BrokenParts
    <3> QED BY <2>3, <3>1
  <2>4. CASE D[i] # <<s[i]>> /\ D[i] = <<"hxxp">>
    <3> DEFINE b == <<"hxxp">>
    <3>1. Len(b) = 1 /\ b[1] = "hxxp"
      OBVIOUS
    <3> HIDE DEF b
    <3>2. D[i][1] = "hxxp"
      BY <2>4, <3>1 DEF b
    <3>3. Harmless(s, i, "hxxp")
      BY DEF Harmless
    <3> QED BY <2>4, <3>2, <3>3
  <2> QED BY <2>1, <2>2, <2>3, <2>4 DEF Broken
<1>6. IsDefanged(FlattenSeq(D))
         <=> \A i \in 1 .. n : D[i] = <<s[i]>> => Harmless(s, i, s[i])
  BY <1>4, <1>5
<1>7. \A i \in 1 .. n : Readable(D, i) /\ Lower(Back(D[i])) = Lower(s[i])
  BY <1>1, BrokenReads DEF Breaks
<1>8. Refanged(FlattenSeq(D)) = [i \in 1 .. n |-> Back(D[i])]
  BY <1>1, <1>2, <1>7, ReadBack
<1> DEFINE v == [i \in 1 .. n |-> Back(D[i])]
<1>9. DOMAIN v = 1 .. n /\ \A i \in 1 .. n : v[i] = Back(D[i])
  OBVIOUS
<1> HIDE DEF v
<1>10. Lowered(v) = Lowered(s)
  <2>1. Lowered(v) = [i \in 1 .. n |-> Lower(v[i])]
    BY <1>9 DEF Lowered
  <2>2. Lowered(s) = [i \in 1 .. n |-> Lower(s[i])]
    BY <1>1 DEF Lowered
  <2>3. \A i \in 1 .. n : Lower(v[i]) = Lower(s[i])
    BY <1>7, <1>9
  <2> QED BY <2>1, <2>2, <2>3
<1> QED BY <1>6, <1>8, <1>10 DEF v
-----------------------------------------------------------------------------
(* One token broken.                                                       *)
Split(s, old, new) == [i \in DOMAIN s |-> IF s[i] = old THEN new ELSE <<s[i]>>]

LEMMA SplitIs ==
    ASSUME NEW s, NEW old, NEW new
    PROVE  Replaced(s, old, new) = FlattenSeq(Split(s, old, new))
BY DEF Replaced, Split

Placeholder(t, b) == \/ t = "@" /\ b = AT
                     \/ t = "." /\ b = DOT
                     \/ t = ":" /\ b = COLON

OnlyBroken(D, s, old) == \A i \in 1 .. Len(s) : D[i] = <<s[i]>> <=> s[i] # old

LEMMA SplitBreaks ==
    ASSUME NEW s, Plain(s), NEW old, NEW new,
           Placeholder(old, new)
    PROVE  /\ Breaks(Split(s, old, new), s)
           /\ OnlyBroken(Split(s, old, new), s, old)
<1> DEFINE D == Split(s, old, new)
<1>1. DOMAIN s = 1 .. Len(s)
  BY LenProperties DEF Plain
<1>2. \A i \in 1 .. Len(s) : D[i] = IF s[i] = old THEN new ELSE <<s[i]>>
  BY <1>1 DEF Split
<1>3. D = [i \in DOMAIN s |-> D[i]]
  BY DEF Split
<1> HIDE DEF D
<1>4. \A i \in 1 .. Len(s) : Broken(D, s, i)
  BY <1>2 DEF Broken, Placeholder
<1>5. ASSUME NEW i \in 1 .. Len(s) PROVE D[i] = <<s[i]>> <=> s[i] # old
  <2>1. Len(new) = 3
    BY BrokenParts DEF Placeholder
  <2> DEFINE b == <<s[i]>>
  <2>2. Len(b) = 1
    OBVIOUS
  <2> HIDE DEF b
  <2>3. b # new
    BY <2>1, <2>2
  <2> QED BY <1>2, <2>3 DEF b
<1> QED BY <1>3, <1>4, <1>5 DEF Breaks, OnlyBroken, D

(* neutralize() of a cut.                                                  *)
Rebroken(B) == [i \in DOMAIN B |-> IF B[i] = <<"@">> THEN AT
                                   ELSE IF B[i] = <<".">> THEN DOT ELSE B[i]]

LEMMA NeutralizedCut ==
    ASSUME NEW s \in Seq(Shown), NEW B, Cut(B, s),
           \A i \in 1 .. Len(s) : Len(B[i]) = 3 =>
              \A k \in 1 .. 3 : B[i][k] \notin {"@", "."}
    PROVE  Neutralized(FlattenSeq(B)) = FlattenSeq(Rebroken(B))
<1> DEFINE A == [i \in DOMAIN s |-> IF B[i] = <<"@">> THEN AT ELSE B[i]]
           D == Rebroken(B)
<1>1. DOMAIN s = 1 .. Len(s) /\ \A i \in 1 .. Len(s) : B[i] \in Block
  BY CutType, LenProperties
<1>2. DOMAIN B = 1 .. Len(s)
  BY <1>1 DEF Cut
<1>3. AT \in Block /\ DOT \in Block
  BY DEF Block
<1>4. ASSUME NEW i \in 1 .. Len(s)
      PROVE  /\ A[i] = IF B[i] = <<"@">> THEN AT ELSE B[i]
             /\ D[i] = IF B[i] = <<"@">> THEN AT ELSE IF B[i] = <<".">> THEN DOT ELSE B[i]
  BY <1>1, <1>2 DEF Rebroken
<1>5. Cut(A, s)
  BY <1>1, <1>3, <1>4 DEF Cut
<1>6. Cut(D, s)
  <2>1. D = [i \in DOMAIN s |-> D[i]]
    BY <1>1, <1>2 DEF Rebroken
  <2> HIDE DEF D
  <2> QED BY <1>1, <1>3, <1>4, <2>1 DEF Cut
<1> HIDE DEF A, D
<1>7. ASSUME NEW i \in 1 .. Len(s)
      PROVE  \/ Len(B[i]) = 1 /\ B[i] = <<B[i][1]>>
             \/ Len(B[i]) = 3 /\ \A k \in 1 .. Len(B[i]) : B[i][k] \notin {"@", "."}
  <2>1. B[i] \in Block
    BY <1>1
  <2>2. (Len(B[i]) = 1 /\ B[i] = <<B[i][1]>>) \/ Len(B[i]) = 3
    BY <2>1, BlockType
  <2> QED BY <2>2
<1>8. Len(<<"@">>) = 1 /\ <<"@">>[1] = "@" /\ Len(<<".">>) = 1 /\ <<".">>[1] = "."
  OBVIOUS
<1>9. ASSUME NEW i \in 1 .. Len(s) PROVE Swaps(B[i], A[i], "@", AT)
  <2>1. CASE B[i] = <<"@">>
    BY <1>4, <1>8, <2>1 DEF Swaps
  <2>2. CASE B[i] # <<"@">>
    <3>1. A[i] = B[i]
      BY <1>4, <2>2
    <3>2. ASSUME NEW k \in 1 .. Len(B[i]) PROVE B[i][k] # "@"
      <4>1. CASE Len(B[i]) = 1 /\ B[i] = <<B[i][1]>>
        <5>1. k = 1
          <6>1. k \in 1 .. 1
            BY <4>1
          <6> QED BY <6>1
        <5> QED BY <2>2, <4>1, <5>1
      <4>2. CASE Len(B[i]) = 3 /\ \A l \in 1 .. Len(B[i]) : B[i][l] \notin {"@", "."}
        BY <4>2
      <4> QED BY <1>7, <4>1, <4>2
    <3> QED BY <3>1, <3>2 DEF Swaps
  <2> QED BY <2>1, <2>2
<1>10. ASSUME NEW i \in 1 .. Len(s) PROVE Swaps(A[i], D[i], ".", DOT)
  <2>1. CASE B[i] = <<"@">>
    <3>1. A[i] = AT /\ D[i] = AT
      BY <1>4, <2>1
    <3>2. ASSUME NEW k \in 1 .. Len(AT) PROVE AT[k] # "."
      <4>1. k = 1 \/ k = 2 \/ k = 3
        <5>1. k \in 1 .. 3
          BY BrokenParts
        <5> QED BY <5>1
      <4> QED BY <4>1, BrokenParts
    <3> QED BY <3>1, <3>2 DEF Swaps
  <2>2. CASE B[i] = <<".">>
    <3>1. B[i] # <<"@">>
      BY <1>8, <2>2
    <3>2. A[i] = <<".">> /\ D[i] = DOT
      BY <1>4, <2>2, <3>1
    <3> QED BY <1>8, <3>2 DEF Swaps
  <2>3. CASE B[i] # <<"@">> /\ B[i] # <<".">>
    <3>1. A[i] = B[i] /\ D[i] = B[i]
      BY <1>4, <2>3
    <3>2. ASSUME NEW k \in 1 .. Len(B[i]) PROVE B[i][k] # "."
      <4>1. CASE Len(B[i]) = 1 /\ B[i] = <<B[i][1]>>
        <5>1. k = 1
          <6>1. k \in 1 .. 1
            BY <4>1
          <6> QED BY <6>1
        <5> QED BY <2>3, <4>1, <5>1
      <4>2. CASE Len(B[i]) = 3 /\ \A l \in 1 .. Len(B[i]) : B[i][l] \notin {"@", "."}
        BY <4>2
      <4> QED BY <1>7, <4>1, <4>2
    <3> QED BY <3>1, <3>2 DEF Swaps
  <2> QED BY <2>1, <2>2, <2>3
<1>11. Replaced(FlattenSeq(B), "@", AT) = FlattenSeq(A)
  BY <1>3, <1>5, <1>9, ReplacedCut
<1>12. Replaced(FlattenSeq(A), ".", DOT) = FlattenSeq(D)
  BY <1>3, <1>5, <1>6, <1>10, ReplacedCut
<1> QED BY <1>11, <1>12 DEF Neutralized, D

(* An e-mail address: '@' and dots.                                        *)
Singles(s) == [i \in DOMAIN s |-> <<s[i]>>]

LEMMA NeutralizedIs ==
    ASSUME NEW s, Plain(s)
    PROVE  \E D : /\ Neutralized(s) = FlattenSeq(D) /\ Breaks(D, s)
                  /\ \A i \in 1 .. Len(s) : D[i] = <<s[i]>> => s[i] \notin {"@", "."}
<1> DEFINE B == Singles(s)
           D == Rebroken(B)
<1>1. s \in Seq(Shown) /\ DOMAIN s = 1 .. Len(s) /\ DOMAIN B = 1 .. Len(s)
  BY LenProperties DEF Plain, Singles
<1>2. \A i \in 1 .. Len(s) : B[i] = <<s[i]>> /\ Len(B[i]) = 1
  <2>1. \A i \in 1 .. Len(s) : B[i] = <<s[i]>>
    BY <1>1 DEF Singles
  <2>2. \A t : Len(<<t>>) = 1
    OBVIOUS
  <2> HIDE DEF B
  <2> QED BY <2>1, <2>2
<1>3. Cut(B, s)
  <2>1. \A i \in 1 .. Len(s) : s[i] \in Shown
    BY <1>1, ElementOfSeq
  <2>2. \A i \in 1 .. Len(s) : <<s[i]>> \in Block
    BY <2>1 DEF Block
  <2> QED BY <1>1, <1>2, <2>2 DEF Cut, Singles
<1>4. FlattenSeq(B) = s
  <2>1. B \in Seq(Seq(Shown)) /\ Len(B) = Len(s)
    <3> HIDE DEF B
    <3> QED BY <1>1, <1>3, CutType
  <2> HIDE DEF B
  <2> QED BY <1>1, <1>2, <2>1, FlattenSingles
<1>5. Neutralized(s) = FlattenSeq(D)
  <2> HIDE DEF B
  <2>1. ASSUME NEW i \in 1 .. Len(s) PROVE Len(B[i]) # 3
    <3>1. Len(B[i]) = 1
      BY <1>2
    <3> QED BY <3>1
  <2>2. Neutralized(FlattenSeq(B)) = FlattenSeq(D)
    BY <1>1, <1>3, <2>1, NeutralizedCut
  <2> QED BY <1>4, <2>2
<1>6. \A i \in 1 .. Len(s) :
         D[i] = IF B[i] = <<"@">> THEN AT ELSE IF B[i] = <<".">> THEN DOT ELSE B[i]
  BY <1>1 DEF Rebroken
<1>7. D = [i \in DOMAIN s |-> D[i]]
  BY <1>1 DEF Rebroken
<1> HIDE DEF B, D
<1>8. ASSUME NEW i \in 1 .. Len(s)
      PROVE  D[i] = IF s[i] = "@" THEN AT ELSE IF s[i] = "." THEN DOT ELSE <<s[i]>>
  <2>1. <<s[i]>> = <<"@">> <=> s[i] = "@"
    OBVIOUS
  <2>2. <<s[i]>> = <<".">> <=> s[i] = "."
    OBVIOUS
  <2> QED BY <1>2, <1>6, <2>1, <2>2
<1>9. ASSUME NEW i \in 1 .. Len(s), D[i] = <<s[i]>> PROVE s[i] \notin {"@", "."}
  <2>1. Len(D[i]) = 1
    BY <1>9
  <2>2. D[i] # AT /\ D[i] # DOT
    <3>1. Len(AT) # 1 /\ Len(DOT) # 1
      BY BrokenParts
    <3> QED BY <2>1, <3>1
  <2> QED BY <1>8, <2>2
<1>10. Breaks(D, s)
  BY <1>7, <1>8 DEF Breaks, Broken
<1> QED BY <1>5, <1>9, <1>10

(* A URL as the library prints it: a scheme, its separator, a host.        *)
Web(s) == /\ Len(s) >= 3
          /\ s[1] \in {"http", "HTTP"} /\ s[2] = "://" /\ s[3] = "a"

(* defang_url() breaks the head, ...                                       *)
Head2(s) == [i \in DOMAIN s |-> IF i = 1 THEN <<"hxxp">>
                                ELSE IF i = 2 THEN SCHEME_SEP ELSE <<s[i]>>]

LEMMA HeadBlocks ==
    ASSUME NEW s, Plain(s), Web(s)
    PROVE  Head2(s)[1] = <<"hxxp">> /\ Head2(s)[2] = SCHEME_SEP
<1>1. 1 \in DOMAIN s /\ 2 \in DOMAIN s
  BY LenProperties DEF Plain, Web
<1>2. Head2(s)[1] = <<"hxxp">>
  BY <1>1 DEF Head2
<1>3. 2 # 1
  OBVIOUS
<1>4. Head2(s)[2] = SCHEME_SEP
  BY <1>1, <1>3 DEF Head2
<1> QED BY <1>2, <1>4

LEMMA UrlHead ==
    ASSUME NEW s, Plain(s), Web(s)
    PROVE  /\ Cut(Head2(s), s)
           /\ DefangUrl(s) = Neutralized(FlattenSeq(Head2(s)))
<1> DEFINE n == Len(s)
           B == Head2(s)
           u == <<"hxxp">>
           v == SCHEME_SEP
           w == SubSeq(s, 3, n)
           r == u \o v \o w
           e == [i \in 0 .. n |-> IF i <= 1 THEN i ELSE i + 2]
           I == {i \in 1 .. n : s[i] = "://"}
<1>1. /\ s \in Seq(Shown) /\ n \in Nat /\ n >= 3 /\ DOMAIN s = 1 .. n
      /\ \A i \in 1 .. n : s[i] \in Shown
  BY LenProperties, ElementOfSeq DEF Plain, Web
<1>2. \A i \in 1 .. n : B[i] = IF i = 1 THEN u ELSE IF i = 2 THEN v ELSE <<s[i]>>
  BY <1>1 DEF Head2
<1>3. B[1] = u /\ B[2] = v
  BY HeadBlocks
<1>4. Cut(B, s)
  <2>1. u \in Block /\ v \in Block /\ \A i \in 1 .. n : <<s[i]>> \in Block
    BY <1>1, ShownHas DEF Block
  <2>2. B = [i \in DOMAIN s |-> B[i]]
    BY DEF Head2
  <2> HIDE DEF B, u, v
  <2> QED BY <1>1, <1>2, <2>1, <2>2 DEF Cut
<1> HIDE DEF B
<1>5. SelectInSeq(s, LAMBDA t : t = "://") = 2
  <2>1. 2 \in I /\ I \subseteq Nat
    BY <1>1 DEF Web
  <2>2. 1 \notin I
    <3>1. s[1] # "://"
      BY DEF Web
    <3> QED BY <3>1
  <2>3. SelectInSeq(s, LAMBDA t : t = "://") = Min(I)
    <3>1. SelectInSeq(s, LAMBDA t : t = "://") = IF I # {} THEN Min(I) ELSE 0
      BY DEF SelectInSeq
    <3> QED BY <2>1, <3>1
  <2>4. \A y \in I : y \in Nat /\ y >= 1
    OBVIOUS
  <2> HIDE DEF I
  <2>5. Min(I) \in I /\ Min(I) <= 2
    BY <2>1, MinIn
  <2> QED BY <2>2, <2>3, <2>4, <2>5
<1>6. SubSeq(s, 1, 1) = <<s[1]>>
  <2>1. \A j \in 1 .. 1 : s[j] \in Shown
    BY <1>1
  <2>2. /\ SubSeq(s, 1, 1) \in Seq(Shown) /\ Len(SubSeq(s, 1, 1)) = 1
        /\ SubSeq(s, 1, 1)[1] = s[1]
    <3>1. /\ SubSeq(s, 1, 1) \in Seq(Shown)
          /\ Len(SubSeq(s, 1, 1)) = IF 1 <= 1 THEN 1 - 1 + 1 ELSE 0
          /\ \A j \in 1 .. 1 - 1 + 1 : SubSeq(s, 1, 1)[j] = s[1 + j - 1]
      BY <2>1, SubSeqProperties
    <3>2. 1 \in 1 .. 1 - 1 + 1 /\ 1 + 1 - 1 = 1
      OBVIOUS
    <3> QED BY <3>1, <3>2
  <2> DEFINE x == SubSeq(s, 1, 1)
             y == <<s[1]>>
  <2>3. y \in Seq(Shown) /\ Len(y) = 1 /\ y[1] = s[1]
    <3>1. s[1] \in Shown
      BY <1>1
    <3> QED BY <3>1
  <2>4. x \in Seq(Shown) /\ Len(x) = 1 /\ x[1] = s[1]
    BY <2>2
  <2> HIDE DEF x, y
  <2>5. \A j \in 1 .. 1 : x[j] = y[j]
    BY <2>3, <2>4
  <2>6. x = y
    BY <2>3, <2>4, <2>5, SeqEqual
  <2> QED BY <2>6 DEF x, y
<1>7. DefangScheme(SubSeq(s, 1, 1)) = u
  <2>1. <<s[1]>> \in {<<"http">>, <<"HTTP">>}
    BY DEF Web
  <2> QED BY <1>6, <2>1 DEF DefangScheme
<1>8. DefangUrl(s) = Neutralized(r)
  <2> DEFINE i == SelectInSeq(s, LAMBDA t : t = "://")
  <2>1. DefangUrl(s) = Neutralized(IF i = 0 THEN s
                         ELSE DefangScheme(SubSeq(s, 1, i - 1)) \o SCHEME_SEP
                                 \o SubSeq(s, i + 1, n))
    BY DEF DefangUrl
  <2>2. i = 2
    BY <1>5
  <2> HIDE DEF i
  <2>3. i - 1 = 1 /\ i + 1 = 3 /\ i # 0
    BY <2>2
  <2> QED BY <1>7, <2>1, <2>3
<1>9. u \in Seq(Shown) /\ Len(u) = 1 /\ u[1] = "hxxp"
  BY ShownHas
<1>10. /\ v \in Seq(Shown) /\ Len(v) = 3
  <2>1. "[" \in Shown /\ "://" \in Shown /\ "]" \in Shown
    BY ShownHas
  <2> QED BY <2>1 DEF SCHEME_SEP
<1>11. /\ w \in Seq(Shown) /\ Len(w) = n - 2
       /\ \A j \in 1 .. n - 2 : w[j] = s[j + 2]
  <2>1. \A j \in 3 .. n : s[j] \in Shown
    BY <1>1
  <2>2. /\ w \in Seq(Shown) /\ Len(w) = IF 3 <= n THEN n - 3 + 1 ELSE 0
        /\ \A j \in 1 .. n - 3 + 1 : w[j] = s[3 + j - 1]
    <3> HIDE DEF n
    <3> QED BY <1>1, <2>1, SubSeqProperties
  <2> HIDE DEF w, n
  <2>3. n - 3 + 1 = n - 2 /\ \A j \in 1 .. n - 2 : 3 + j - 1 = j + 2
    BY <1>1
  <2> QED BY <1>1, <2>2, <2>3
<1> HIDE DEF u, v, w
<1>12. r \in Seq(Shown) /\ Joined(r, u, v, w)
  BY <1>9, <1>10, <1>11, JoinThree
<1> HIDE DEF r
<1>13. B \in Seq(Seq(Shown)) /\ Len(B) = n
  BY <1>1, <1>4, CutType
<1>14. Ends(e, B)
  <2>1. ASSUME NEW i \in 0 .. n
        PROVE  e[i] = IF i = 0 THEN 0 ELSE e[i - 1] + Len(B[i])
    <3>1. CASE i = 0
      BY <3>1
    <3>2. CASE i = 1
      <4>1. e[i] = 1 /\ e[i - 1] = 0 /\ Len(B[i]) = 1
        <5>1. 0 \in 0 .. n /\ i - 1 = 0
          BY <1>1, <3>2
        <5>2. e[i] = 1 /\ e[i - 1] = 0
          BY <3>2, <5>1
        <5> QED BY <1>9, <1>3, <3>2, <5>2
      <4> HIDE DEF e
      <4> QED BY <3>2, <4>1
    <3>3. CASE i = 2
      <4>1. e[i] = 4 /\ e[i - 1] = 1 /\ Len(B[i]) = 3
        <5>1. 1 \in 0 .. n /\ i - 1 = 1
          BY <1>1, <3>3
        <5>2. e[i] = 4 /\ e[i - 1] = 1
          BY <3>3, <5>1
        <5> QED BY <1>10, <1>3, <3>3, <5>2
      <4> HIDE DEF e
      <4> QED BY <3>3, <4>1
    <3>4. CASE i # 0 /\ i # 1 /\ i # 2
      <4>1. e[i] = i + 2 /\ e[i - 1] = (i - 1) + 2
        <5>1. i - 1 \in 0 .. n /\ ~(i <= 1) /\ ~(i - 1 <= 1)
          BY <1>1, <3>4
        <5> QED BY <5>1
      <4>2. Len(B[i]) = 1
        <5>1. i \in 1 .. n
          BY <1>1, <3>4
        <5>2. B[i] = <<s[i]>>
          BY <1>2, <3>4, <5>1
        <5> QED BY <5>2
      <4> HIDE DEF e
      <4>3. i \in Nat
        OBVIOUS
      <4> QED BY <3>4, <4>1, <4>2, <4>3
    <3> QED BY <3>1, <3>2, <3>3, <3>4
  <2>2. e = [i \in 0 .. n |-> e[i]]
    OBVIOUS
  <2> HIDE DEF e
  <2>3. e = [i \in 0 .. n |-> IF i = 0 THEN 0 ELSE e[i - 1] + Len(B[i])]
    BY <2>1, <2>2
  <2> QED BY <1>13, <2>3 DEF Ends
<1>15. LaidTo(r, Len(B), B, e)
  <2>1. Len(r) = e[n]
    <3>1. Len(r) = n + 2
      <4>1. Len(r) = 1 + 3 + (n - 2)
        BY <1>9, <1>10, <1>11, <1>12 DEF Joined
      <4> HIDE DEF n
      <4> QED BY <1>1, <4>1
    <3>2. e[n] = n + 2
      <4> HIDE DEF n
      <4> QED BY <1>1
    <3> QED BY <3>1, <3>2
  <2>2. ASSUME NEW i \in 1 .. n, NEW k \in 1 .. Len(B[i])
        PROVE  r[e[i - 1] + k] = B[i][k]
    <3>1. CASE i = 1
      <4>1. B[i] = u /\ k = 1
        <5>1. B[i] = u
          BY <1>2, <3>1
        <5>2. k \in 1 .. 1
          BY <1>9, <5>1
        <5> QED BY <5>1, <5>2
      <4>2. e[i - 1] = 0
        <5>1. 0 \in 0 .. n /\ i - 1 = 0
          BY <1>1, <3>1
        <5> QED BY <5>1
      <4>3. r[1] = u[1]
        <5>1. 1 \in 1 .. Len(u)
          BY <1>9
        <5> QED BY <1>12, <5>1 DEF Joined
      <4> HIDE DEF e
      <4> QED BY <4>1, <4>2, <4>3
    <3>2. CASE i = 2
      <4>1. B[i] = v /\ k \in 1 .. Len(v)
        BY <1>3, <3>2
      <4>2. e[i - 1] = 1
        <5>1. 1 \in 0 .. n /\ i - 1 = 1
          BY <1>1, <3>2
        <5> QED BY <5>1
      <4>3. r[1 + k] = v[k]
        BY <1>9, <1>12, <4>1 DEF Joined
      <4> HIDE DEF e
      <4> QED BY <4>1, <4>2, <4>3
    <3>3. CASE i # 1 /\ i # 2
      <4>1. B[i] = <<s[i]>>
        BY <1>2, <3>3
      <4>2. k = 1 /\ B[i][k] = s[i]
        <5>1. Len(B[i]) = 1 /\ B[i][1] = s[i]
          BY <4>1
        <5>2. k \in 1 .. 1
          BY <5>1
        <5> QED BY <5>1, <5>2
      <4>3. e[i - 1] = i + 1
        <5>1. i - 1 \in 0 .. n /\ ~(i - 1 <= 1) /\ (i - 1) + 2 = i + 1
          BY <1>1, <3>3
        <5> QED BY <5>1
      <4> DEFINE j == i - 2
      <4>4. j \in 1 .. n - 2 /\ j + 2 = i /\ 1 + 3 + j = i + 1 + 1
        BY <1>1, <3>3
      <4> HIDE DEF j, e, n
      <4>5. r[1 + 3 + j] = w[j] /\ w[j] = s[i]
        <5>1. w[j] = s[i]
          BY <1>11, <4>4
        <5>2. j \in 1 .. Len(w)
          BY <1>11, <4>4
        <5>3. r[Len(u) + Len(v) + j] = w[j]
          BY <1>12, <5>2 DEF Joined
        <5> QED BY <1>9, <1>10, <5>1, <5>3
      <4> QED BY <4>2, <4>3, <4>4, <4>5
    <3> QED BY <3>1, <3>2, <3>3
  <2> HIDE DEF e
  <2> QED BY <1>13, <2>1, <2>2 DEF LaidTo
<1> HIDE DEF e
<1>16. FlattenSeq(B) = r
  BY <1>12, <1>13, <1>14, <1>15, FlattenIs DEF Laid
<1> QED BY <1>4, <1>8, <1>16 DEF B

(* ... and neutralizes the rest.                                           *)
LEMMA UrlIs ==
    ASSUME NEW s, Plain(s), Web(s)
    PROVE  \E D : /\ DefangUrl(s) = FlattenSeq(D) /\ Breaks(D, s)
                  /\ \A i \in 1 .. Len(s) :
                        D[i] = <<s[i]>> <=> i \notin {1, 2} /\ s[i] \notin {"@", "."}
<1> DEFINE B == Head2(s)
           D == Rebroken(B)
           n == Len(s)
<1>1. s \in Seq(Shown) /\ n \in Nat /\ n >= 3 /\ DOMAIN s = 1 .. n /\ DOMAIN B = 1 .. n
  BY LenProperties DEF Plain, Web, Head2
<1>2. Cut(B, s) /\ DefangUrl(s) = Neutralized(FlattenSeq(B))
  BY UrlHead
<1>3. \A i \in 1 .. n : B[i] = IF i = 1 THEN <<"hxxp">>
                               ELSE IF i = 2 THEN SCHEME_SEP ELSE <<s[i]>>
  BY <1>1 DEF Head2
<1>4. \A i \in 1 .. n :
         D[i] = IF B[i] = <<"@">> THEN AT ELSE IF B[i] = <<".">> THEN DOT ELSE B[i]
  BY <1>1 DEF Rebroken
<1>5. D = [i \in DOMAIN s |-> D[i]]
  BY <1>1 DEF Rebroken
<1> HIDE DEF B, D
<1>6. /\ Len(<<"hxxp">>) = 1 /\ <<"hxxp">> # <<"@">> /\ <<"hxxp">> # <<".">>
      /\ SCHEME_SEP # <<"@">> /\ SCHEME_SEP # <<".">> /\ SCHEME_SEP # <<"hxxp">>
  <2>1. Len(<<"hxxp">>) = 1 /\ <<"hxxp">>[1] = "hxxp" /\ Len(<<"@">>) = 1 /\ <<"@">>[1] = "@"
        /\ Len(<<".">>) = 1 /\ <<".">>[1] = "."
    OBVIOUS
  <2> DEFINE a == <<"hxxp">>
             b == <<"@">>
             c == <<".">>
  <2> HIDE DEF a, b, c
  <2>2. Len(a) = 1 /\ a[1] = "hxxp" /\ Len(b) = 1 /\ b[1] = "@" /\ Len(c) = 1 /\ c[1] = "."
    BY <2>1 DEF a, b, c
  <2>3. a # b /\ a # c /\ SCHEME_SEP # a /\ SCHEME_SEP # b /\ SCHEME_SEP # c
    BY <2>2, BrokenParts
  <2> QED BY <2>1, <2>3 DEF a, b, c
<1>7. DefangUrl(s) = FlattenSeq(D)
  <2>1. ASSUME NEW i \in 1 .. n, Len(B[i]) = 3, NEW k \in 1 .. 3
        PROVE  B[i][k] \notin {"@", "."}
    <3>1. B[i] = SCHEME_SEP
      <4>1. \A t : Len(<<t>>) # 3
        OBVIOUS
      <4> QED BY <1>3, <2>1, <4>1
    <3>2. k = 1 \/ k = 2 \/ k = 3
      OBVIOUS
    <3> QED BY <3>1, <3>2, BrokenParts
  <2>2. Neutralized(FlattenSeq(B)) = FlattenSeq(Rebroken(B))
    BY <1>1, <1>2, <2>1, NeutralizedCut
  <2> QED BY <1>2, <2>2 DEF D
<1>8. 1 \in 1 .. n /\ 2 \in 1 .. n /\ 1 + 1 = 2
  BY <1>1
<1>9. D[1] = <<"hxxp">> /\ D[2] = SCHEME_SEP
  <2>1. B[1] = <<"hxxp">> /\ B[2] = SCHEME_SEP
    BY HeadBlocks DEF B
  <2> QED BY <1>4, <1>6, <1>8, <2>1
<1>10. ASSUME NEW i \in 1 .. n, i # 1, i # 2
       PROVE  D[i] = IF s[i] = "@" THEN AT ELSE IF s[i] = "." THEN DOT ELSE <<s[i]>>
  <2>1. B[i] = <<s[i]>>
    BY <1>3, <1>10
  <2>2. <<s[i]>> = <<"@">> <=> s[i] = "@"
    OBVIOUS
  <2>3. <<s[i]>> = <<".">> <=> s[i] = "."
    OBVIOUS
  <2> QED BY <1>4, <2>1, <2>2, <2>3
<1>11. ASSUME NEW i \in 1 .. n PROVE Broken(D, s, i)
  <2>1. CASE i = 1
    <3>1. /\ s[1] \in {"http", "HTTP"} /\ D[1] = <<"hxxp">>
          /\ 1 + 1 \in DOMAIN s /\ D[1 + 1] = SCHEME_SEP
      BY <1>1, <1>8, <1>9 DEF Web
    <3> QED BY <2>1, <3>1 DEF Broken
  <2>2. CASE i = 2
    BY <1>9, <2>2 DEF Broken, Web
  <2>3. CASE i # 1 /\ i # 2
    BY <1>10, <2>3 DEF Broken
  <2> QED BY <2>1, <2>2, <2>3
<1>12. ASSUME NEW i \in 1 .. n
       PROVE  D[i] = <<s[i]>> <=> i \notin {1, 2} /\ s[i] \notin {"@", "."}
  <2> DEFINE b == <<s[i]>>
  <2>1. Len(b) = 1 /\ b[1] = s[i]
    OBVIOUS
  <2> HIDE DEF b
  <2>2. b # AT /\ b # DOT /\ b # SCHEME_SEP
    BY <2>1, BrokenParts
  <2>3. CASE i = 1
    <3>1. s[1] # "hxxp"
      BY DEF Web
    <3>2. <<"hxxp">>[1] = "hxxp"
      OBVIOUS
    <3>3. D[1] # b
      BY <1>9, <2>1, <2>3, <3>1, <3>2
    <3> QED BY <2>3, <3>3 DEF b
  <2>4. CASE i = 2
    BY <1>9, <2>2, <2>4 DEF b
  <2>5. CASE i # 1 /\ i # 2
    <3>1. D[i] = IF s[i] = "@" THEN AT ELSE IF s[i] = "." THEN DOT ELSE b
      BY <1>10, <2>5 DEF b
    <3>2. D[i] = b <=> s[i] \notin {"@", "."}
      BY <2>2, <3>1
    <3> QED BY <2>5, <3>2 DEF b
  <2> QED BY <2>3, <2>4, <2>5
<1> QED BY <1>5, <1>7, <1>11, <1>12 DEF Breaks
-----------------------------------------------------------------------------
(* The texts that defang() has a form for.                                 *)
ShapeInv == /\ kind \in {"domain", "email", "ipv4"} => text \in Seq(Alphabet[kind])
            /\ kind = "url" => Web(text)
            /\ kind \in {"ipv6", "cidr"} => text \in Starts[kind]

LEMMA Forms ==
    /\ DOMAIN Alphabet = {"domain", "email", "ipv4", "hash", "asn", "other", "url",
                          "ipv6", "cidr", "time"}
    /\ Alphabet["domain"] = {"a", "A", ".", " ", "@", "://"}
    /\ Alphabet["email"] = {"a", ".", "@", " ", "://"}
    /\ Alphabet["ipv4"] = {"0", "7", "."}
    /\ Alphabet["ipv6"] = {} /\ Alphabet["cidr"] = {}
<1>1. DOMAIN Alphabet = {"domain", "email", "ipv4", "hash", "asn", "other", "url",
                         "ipv6", "cidr", "time"}
  BY DEF Alphabet
<1>2. /\ Alphabet["domain"] = {"a", "A", ".", " ", "@", "://"}
      /\ Alphabet["email"] = {"a", ".", "@", " ", "://"}
      /\ Alphabet["ipv4"] = {"0", "7", "."}
      /\ Alphabet["ipv6"] = {} /\ Alphabet["cidr"] = {}
  BY DEF Alphabet
<1> QED BY <1>1, <1>2

LEMMA FormStarts ==
    /\ Starts["domain"] = {<<>>} /\ Starts["email"] = {<<>>} /\ Starts["ipv4"] = {<<>>}
    /\ Starts["url"] = {<<"http", "://", "a">>, <<"HTTP", "://", "a">>}
    /\ Starts["ipv6"] = {<<"a", ":", "a", ":", ":", "7">>, Mapped}
    /\ Starts["cidr"] = {<<"7", ".", "0", ".", "0", ".", "0", "/", "7">>,
                         Mapped \o <<"/", "7">>}
<1>1. /\ "domain" \in DOMAIN Alphabet /\ "email" \in DOMAIN Alphabet
      /\ "ipv4" \in DOMAIN Alphabet /\ "url" \in DOMAIN Alphabet
      /\ "ipv6" \in DOMAIN Alphabet /\ "cidr" \in DOMAIN Alphabet
  BY Forms
<1>2. Starts["domain"] = {<<>>} /\ Starts["email"] = {<<>>} /\ Starts["ipv4"] = {<<>>}
  BY <1>1 DEF Starts
<1>3. Starts["url"] = {<<"http", "://", "a">>, <<"HTTP", "://", "a">>}
  BY <1>1 DEF Starts
<1>4. Starts["ipv6"] = {<<"a", ":", "a", ":", ":", "7">>, Mapped}
  BY <1>1 DEF Starts
<1>5. Starts["cidr"] = {<<"7", ".", "0", ".", "0", ".", "0", "/", "7">>,
                         Mapped \o <<"/", "7">>}
  BY <1>1 DEF Starts
<1> QED BY <1>2, <1>3, <1>4, <1>5

LEMMA WebGrows ==
    ASSUME NEW s, Plain(s), Web(s), NEW t \in Shown
    PROVE  Web(Append(s, t))
<1> DEFINE n == Len(s)
           r == Append(s, t)
<1>1. s \in Seq(Shown) /\ n \in Nat /\ n >= 3
  BY LenProperties DEF Plain, Web
<1>2. Len(r) = n + 1 /\ \A i \in 1 .. n : r[i] = s[i]
  BY <1>1, AppendProperties
<1>3. 1 \in 1 .. n /\ 2 \in 1 .. n /\ 3 \in 1 .. n /\ n + 1 >= 3
  BY <1>1
<1> HIDE DEF r, n
<1>4. r[1] = s[1] /\ r[2] = s[2] /\ r[3] = s[3]
  BY <1>2, <1>3
<1>5. Web(r)
  BY <1>2, <1>3, <1>4 DEF Web
<1> QED BY <1>5 DEF r

(* They stay what they are while they grow.                                *)
THEOREM ShapeInductive == Spec => []ShapeInv
<1>1. Init => ShapeInv
  <2> SUFFICES ASSUME Init PROVE ShapeInv
    OBVIOUS
  <2>1. CASE kind = "sightings"
    BY <2>1 DEF ShapeInv
  <2>2. CASE kind \in DOMAIN Alphabet /\ text \in Starts[kind]
    <3>1. kind \in {"domain", "email", "ipv4"} => text \in Seq(Alphabet[kind])
      <4>1. kind \in {"domain", "email", "ipv4"} => text = <<>>
        BY <2>2, FormStarts
      <4> QED BY <4>1, EmptySeq
    <3>2. kind = "url" => Web(text)
      <4> SUFFICES ASSUME kind = "url" PROVE Web(text)
        OBVIOUS
      <4>1. text = <<"http", "://", "a">> \/ text = <<"HTTP", "://", "a">>
        BY <2>2, FormStarts
      <4>2. Len(text) = 3 /\ text[1] \in {"http", "HTTP"} /\ text[2] = "://" /\ text[3] = "a"
        BY <4>1
      <4> QED BY <4>2 DEF Web
    <3> QED BY <2>2, <3>1, <3>2 DEF ShapeInv
  <2> QED BY <2>1, <2>2 DEF Init
<1>2. TextInv /\ ShapeInv /\ [Next]_vars => ShapeInv'
  <2> SUFFICES ASSUME TextInv, ShapeInv, [Next]_vars PROVE ShapeInv'
    OBVIOUS
  <2>1. ASSUME NEW s \in Feeds, NEW c \in Levels, Sight(s, c) PROVE ShapeInv'
    BY <2>1 DEF Sight, ShapeInv
  <2>2. ASSUME NEW t, Grow(t) PROVE ShapeInv'
    <3>1. t \in Alphabet[kind] /\ text' = Append(text, t) /\ kind' = kind
      BY <2>2 DEF Grow
    <3>2. IsText /\ Plain(text) /\ kind \in DOMAIN Alphabet
      BY <2>2 DEF Grow, TextInv, IsText
    <3>3. kind \notin {"ipv6", "cidr"}
      BY <3>1, Forms
    <3>4. kind \in {"domain", "email", "ipv4"} => text' \in Seq(Alphabet[kind])
      BY <3>1, AppendProperties DEF ShapeInv
    <3>5. kind = "url" => Web(text')
      <4> SUFFICES ASSUME kind = "url" PROVE Web(text')
        OBVIOUS
      <4>1. Plain(Append(text, t))
        BY <3>1, <3>2, LongerPlain
      <4>2. t \in Shown
        <5>1. Append(text, t) \in Seq(Shown) /\ text \in Seq(Shown) /\ Len(text) \in Nat
          BY <3>2, <4>1, LenProperties DEF Plain
        <5> DEFINE n == Len(text)
                   r == Append(text, t)
        <5>2. text \in Seq(Shown \cup {t}) /\ t \in Shown \cup {t}
          <6>1. Shown \subseteq Shown \cup {t}
            OBVIOUS
          <6> QED BY <5>1, <6>1, SeqMonotonic
        <5>3. Len(r) = n + 1 /\ r[n + 1] = t
          BY <5>2, AppendProperties
        <5>4. n + 1 \in 1 .. n + 1
          BY <5>1
        <5> HIDE DEF r
        <5>5. r[n + 1] \in Shown
          BY <5>1, <5>3, <5>4, ElementOfSeq DEF r
        <5> QED BY <5>3, <5>5
      <4> QED BY <3>1, <3>2, <4>2, WebGrows DEF ShapeInv
    <3> QED BY <3>1, <3>3, <3>4, <3>5 DEF ShapeInv
  <2>3. CASE UNCHANGED vars
    BY <2>3 DEF vars, ShapeInv
  <2> QED BY <2>1, <2>2, <2>3 DEF Next
<1> QED BY <1>1, <1>2, TextInductive, PTL DEF Spec
-----------------------------------------------------------------------------
LEMMA StoredForm ==
    ASSUME ShapeInv, kind \in {"domain", "email", "ipv4"}, Stored # Invalid
    PROVE  Stored \in Seq(Alphabet[kind])
<1> DEFINE A == Alphabet[kind]
           s == Trim(text)
<1>1. text \in Seq(A)
  BY DEF ShapeInv
<1> HIDE DEF A
<1>2. s \in Seq(A)
  BY <1>1, TrimType
<1>3. Stored = Normalize(kind, text)
  BY DEF Stored, Normalizable
<1>4. \A t \in {"a", ".", "@", " ", "://"} : Lower(t) = t
  BY DEF Lower
<1>5. Lower("A") = "a"
  BY DEF Lower
<1>6. CASE kind = "domain"
  <2>1. \A t \in A : Lower(t) \in A
    <3>1. A = {"a", "A", ".", " ", "@", "://"}
      BY <1>6, Forms DEF A
    <3> QED BY <1>4, <1>5, <3>1
  <2>2. Stored = NormalizeDomain(s)
    BY <1>3, <1>6 DEF Normalize
  <2> HIDE DEF s
  <2> QED BY <1>2, <2>1, <2>2, DomainType DEF A
<1>7. CASE kind = "email"
  <2>1. \A t \in A : Lower(t) \in A
    <3>1. A = {"a", ".", "@", " ", "://"}
      BY <1>7, Forms DEF A
    <3> QED BY <1>4, <3>1
  <2>2. Stored = NormalizeEmail(s)
    BY <1>3, <1>7 DEF Normalize
  <2> HIDE DEF s
  <2> QED BY <1>2, <2>1, <2>2, EmailType DEF A
<1>8. CASE kind = "ipv4"
  <2>1. "0" \in A /\ "." \in A
    BY <1>8, Forms DEF A
  <2>2. Stored = NormalizeIpv4(s)
    BY <1>3, <1>8 DEF Normalize
  <2> HIDE DEF s
  <2> QED BY <1>2, <2>1, <2>2, Ipv4Type DEF A
<1> QED BY <1>6, <1>7, <1>8

LEMMA StoredPlain ==
    ASSUME TextInv, ShapeInv, IsText, kind \in Actionable, Stored # Invalid
    PROVE  Plain(Stored)
<1>1. CASE kind \in {"domain", "email", "ipv4"}
  <2>1. Stored \in Seq(Alphabet[kind])
    BY <1>1, StoredForm
  <2>2. Alphabet[kind] \subseteq Tokens
    <3>1. /\ {"a", "A", ".", " ", "@", "://"} \subseteq Tokens
          /\ {"a", ".", "@", " ", "://"} \subseteq Tokens
          /\ {"0", "7", "."} \subseteq Tokens
      BY DEF Tokens
    <3> QED BY <1>1, <3>1, Forms
  <2>3. Stored \in Seq(Tokens)
    BY <2>1, <2>2, SeqMonotonic
  <2> QED BY <2>3, TokensPlain
<1>2. CASE kind \notin {"domain", "email", "ipv4"}
  <2>1. Stored = text
    BY <1>2 DEF Stored, Normalizable, Actionable
  <2> QED BY <2>1 DEF TextInv
<1> QED BY <1>1, <1>2

(* Only dots are broken, which is enough where nothing else is live.       *)
LEMMA DotsShown ==
    ASSUME NEW s, Plain(s)
    PROVE  /\ (\A i \in 1 .. Len(s) : s[i] \notin {"@", "://"})
                 => IsDefanged(Replaced(s, ".", DOT))
           /\ Lowered(Refanged(Replaced(s, ".", DOT))) = Lowered(s)
<1> DEFINE D == Split(s, ".", DOT)
<1>1. Placeholder(".", DOT)
  BY DEF Placeholder
<1>2. Breaks(D, s) /\ OnlyBroken(D, s, ".")
  BY <1>1, SplitBreaks
<1>3. Replaced(s, ".", DOT) = FlattenSeq(D)
  BY SplitIs
<1> HIDE DEF D
<1>4. (\A i \in 1 .. Len(s) : s[i] \notin {"@", "://"})
         => \A i \in 1 .. Len(s) : D[i] = <<s[i]>> => Harmless(s, i, s[i])
  BY <1>2 DEF Harmless, OnlyBroken
<1>5. /\ IsDefanged(FlattenSeq(D))
            <=> \A i \in 1 .. Len(s) : D[i] = <<s[i]>> => Harmless(s, i, s[i])
      /\ Lowered(Refanged(FlattenSeq(D))) = Lowered(s)
  BY <1>2, BreaksShown
<1> QED BY <1>3, <1>4, <1>5

LEMMA MailShown ==
    ASSUME NEW s, Plain(s)
    PROVE  /\ (\A i \in 1 .. Len(s) : s[i] # "://") => IsDefanged(Neutralized(s))
           /\ Lowered(Refanged(Neutralized(s))) = Lowered(s)
<1>1. PICK D : /\ Neutralized(s) = FlattenSeq(D) /\ Breaks(D, s)
               /\ \A i \in 1 .. Len(s) : D[i] = <<s[i]>> => s[i] \notin {"@", "."}
  BY NeutralizedIs
<1>2. (\A i \in 1 .. Len(s) : s[i] # "://")
         => \A i \in 1 .. Len(s) : D[i] = <<s[i]>> => Harmless(s, i, s[i])
  BY <1>1 DEF Harmless
<1>3. /\ IsDefanged(FlattenSeq(D))
            <=> \A i \in 1 .. Len(s) : D[i] = <<s[i]>> => Harmless(s, i, s[i])
      /\ Lowered(Refanged(FlattenSeq(D))) = Lowered(s)
  BY <1>1, BreaksShown
<1> QED BY <1>1, <1>2, <1>3

(* Only a separator behind the first is left.                              *)
LEMMA UrlShown ==
    ASSUME NEW s, Plain(s), Web(s)
    PROVE  /\ IsDefanged(DefangUrl(s))
                 <=> ~\E i, j \in DOMAIN s : /\ i < j /\ s[i] = "://"
                                             /\ s[j] = "://" /\ IsWord(s, j - 1)
           /\ Lowered(Refanged(DefangUrl(s))) = Lowered(s)
<1> DEFINE n == Len(s)
           Again(j) == s[j] = "://" /\ IsWord(s, j - 1)
<1>1. s \in Seq(Shown) /\ n \in Nat /\ n >= 3 /\ DOMAIN s = 1 .. n
  BY LenProperties DEF Plain, Web
<1>2. PICK D : /\ DefangUrl(s) = FlattenSeq(D) /\ Breaks(D, s)
               /\ \A i \in 1 .. n :
                     D[i] = <<s[i]>> <=> i \notin {1, 2} /\ s[i] \notin {"@", "."}
  BY UrlIs
<1>3. /\ IsDefanged(DefangUrl(s))
            <=> \A i \in 1 .. n : D[i] = <<s[i]>> => Harmless(s, i, s[i])
      /\ Lowered(Refanged(DefangUrl(s))) = Lowered(s)
  BY <1>2, BreaksShown
<1>4. ASSUME NEW j \in 1 .. n, Again(j), \E i \in DOMAIN s : i < j /\ s[i] = "://"
      PROVE  D[j] = <<s[j]>> /\ ~Harmless(s, j, s[j])
  <2>1. j \notin {1, 2}
    <3>1. PICK i \in DOMAIN s : i < j /\ s[i] = "://"
      BY <1>4
    <3>2. i # 1
      BY <3>1 DEF Web
    <3>3. i \in 1 .. n
      BY <1>1
    <3> HIDE DEF n
    <3> QED BY <1>1, <3>1, <3>2, <3>3
  <2> QED BY <1>2, <1>4, <2>1 DEF Harmless
<1>5. ASSUME NEW j \in 1 .. n, D[j] = <<s[j]>>, ~Harmless(s, j, s[j])
      PROVE  Again(j) /\ 2 \in DOMAIN s /\ 2 < j /\ s[2] = "://" /\ j \in DOMAIN s
  <2>1. j \notin {1, 2} /\ s[j] \notin {"@", "."}
    BY <1>2, <1>5
  <2>2. Again(j)
    BY <1>5, <2>1 DEF Harmless
  <2>3. 2 < j /\ 2 \in DOMAIN s
    <3> HIDE DEF n
    <3> QED BY <1>1, <2>1
  <2> QED BY <1>1, <2>2, <2>3 DEF Web
<1> HIDE DEF Again
<1>6. (\A i \in 1 .. n : D[i] = <<s[i]>> => Harmless(s, i, s[i]))
         <=> ~\E i, j \in DOMAIN s : i < j /\ s[i] = "://" /\ Again(j)
  BY <1>1, <1>4, <1>5
<1> QED BY <1>3, <1>6 DEF Again

(* Colons are all there is to break: an IPv4 address in the text stays.    *)
LEMMA Ipv6Shown ==
    ASSUME NEW s \in Starts["ipv6"], Plain(s)
    PROVE  /\ IsDefanged(Replaced(s, ":", COLON)) <=> ~Contains(s, ".")
           /\ Lowered(Refanged(Replaced(s, ":", COLON))) = Lowered(s)
<1> DEFINE D == Split(s, ":", COLON)
<1>1. Placeholder(":", COLON)
  BY DEF Placeholder
<1>2. Breaks(D, s) /\ OnlyBroken(D, s, ":")
  BY <1>1, SplitBreaks
<1>3. Replaced(s, ":", COLON) = FlattenSeq(D)
  BY SplitIs
<1> HIDE DEF D
<1>4. /\ IsDefanged(FlattenSeq(D))
            <=> \A i \in 1 .. Len(s) : D[i] = <<s[i]>> => Harmless(s, i, s[i])
      /\ Lowered(Refanged(FlattenSeq(D))) = Lowered(s)
  BY <1>2, BreaksShown
<1>5. CASE s = <<"a", ":", "a", ":", ":", "7">>
  <2>1. \A i \in 1 .. Len(s) : s[i] \in {"a", ":", "7"}
    BY <1>5
  <2>2. \A i \in 1 .. Len(s) : Harmless(s, i, s[i])
    BY <2>1 DEF Harmless
  <2>3. ~Contains(s, ".")
    BY <2>1 DEF Contains
  <2> QED BY <1>3, <1>4, <2>2, <2>3
<1>6. CASE s = Mapped
  <2>1. Len(s) = 11 /\ s[5] = "7" /\ s[6] = "." /\ s[7] = "7"
    BY <1>6 DEF Mapped
  <2>2. "7" \in Words
    BY DEF Words
  <2>3. 5 \in DOMAIN s /\ 6 \in 1 .. Len(s) /\ 7 \in DOMAIN s /\ 6 - 1 = 5 /\ 6 + 1 = 7
    BY <2>1, LenProperties DEF Plain
  <2>4. ~Harmless(s, 6, s[6])
    BY <2>1, <2>2, <2>3 DEF Harmless, Flanked, IsWord
  <2>5. D[6] = <<s[6]>>
    BY <1>2, <2>1, <2>3 DEF OnlyBroken
  <2>6. Contains(s, ".")
    BY <2>1, <2>3 DEF Contains
  <2> QED BY <1>3, <1>4, <2>3, <2>4, <2>5, <2>6
<1> QED BY <1>5, <1>6, FormStarts

(* Of a stored value of any length with no more links in it than its type  *)
(* is one, defang() leaves nothing live; and whatever is stored is read    *)
(* back from what defang() shows of it, but for the case of a scheme.      *)
THEOREM AlwaysDefangedAsTyped == Spec => []DefangedAsTyped
<1>1. TextInv /\ ShapeInv => DefangedAsTyped
  <2> SUFFICES ASSUME TextInv, ShapeInv, IsText, kind \in Actionable, Stored # Invalid
               PROVE  /\ OneLink(Stored) => IsDefanged(DefangTyped(kind, Stored))
                      /\ Lowered(Refanged(DefangTyped(kind, Stored))) = Lowered(Stored)
    BY DEF DefangedAsTyped
  <2> DEFINE s == Stored
  <2>1. Plain(s) /\ DOMAIN s = 1 .. Len(s)
    BY StoredPlain, LenProperties DEF Plain
  <2>2. kind \in {"url", "ipv6", "cidr"} => s = text
    BY DEF Stored, Normalizable
  <2> HIDE DEF s
  <2>3. \A t : ~Contains(s, t) => \A i \in 1 .. Len(s) : s[i] # t
    BY <2>1 DEF Contains
  <2>4. CASE kind \in {"domain", "ipv4", "cidr"}
    <3>1. OneLink(s) => \A i \in 1 .. Len(s) : s[i] \notin {"@", "://"}
      BY <2>3, <2>4 DEF OneLink
    <3>2. DefangTyped(kind, s) = Replaced(s, ".", DOT)
      BY <2>4 DEF DefangTyped
    <3> QED BY <2>1, <3>1, <3>2, DotsShown DEF s
  <2>5. CASE kind = "email"
    <3>1. OneLink(s) => \A i \in 1 .. Len(s) : s[i] # "://"
      BY <2>3, <2>5 DEF OneLink
    <3>2. DefangTyped(kind, s) = Neutralized(s)
      BY <2>5 DEF DefangTyped
    <3> QED BY <2>1, <3>1, <3>2, MailShown DEF s
  <2>6. CASE kind = "url"
    <3>1. Web(s)
      BY <2>2, <2>6 DEF ShapeInv
    <3>2. DefangTyped(kind, s) = DefangUrl(s)
      BY <2>6 DEF DefangTyped
    <3>3. ASSUME OneLink(s), NEW i \in DOMAIN s, NEW j \in DOMAIN s,
                 i < j, s[i] = "://", s[j] = "://"
          PROVE  FALSE
      <4>1. i = j
        BY <2>6, <3>3 DEF OneLink
      <4> QED BY <2>1, <3>3, <4>1
    <3> QED BY <2>1, <3>1, <3>2, <3>3, UrlShown DEF s
  <2>7. CASE kind = "ipv6"
    <3>1. s \in Starts["ipv6"]
      BY <2>2, <2>7 DEF ShapeInv
    <3>2. DefangTyped(kind, s) = Replaced(s, ":", COLON)
      BY <2>7 DEF DefangTyped
    <3>3. OneLink(s) => ~Contains(s, ".")
      BY <2>7 DEF OneLink
    <3> QED BY <2>1, <3>1, <3>2, <3>3, Ipv6Shown DEF s
  <2> QED BY <2>4, <2>5, <2>6, <2>7 DEF Actionable
<1> QED BY <1>1, TextInductive, ShapeInductive, PTL
-----------------------------------------------------------------------------
(* Which tokens of a literal are escaped by the one before them.           *)
Escapes(f, body) ==
    f = [i \in 0 .. Len(body) |-> i > 1 /\ body[i - 1] = "\\" /\ ~f[i - 1]]

LEMMA EscapesExist ==
    ASSUME NEW body, Len(body) \in Nat
    PROVE  \E f : Escapes(f, body)
<1> DEFINE n == Len(body)
           To(m, f) == f = [i \in 0 .. m |-> i > 1 /\ body[i - 1] = "\\" /\ ~f[i - 1]]
           S == {m \in 0 .. n : \E f : To(m, f)}
<1>1. 0 \in S
  <2> DEFINE z == [i \in 0 .. 0 |-> FALSE]
  <2>1. z = [i \in 0 .. 0 |-> i > 1 /\ body[i - 1] = "\\" /\ ~z[i - 1]]
    <3>1. ASSUME NEW i \in 0 .. 0
          PROVE  z[i] = (i > 1 /\ body[i - 1] = "\\" /\ ~z[i - 1])
      <4>1. z[i] = FALSE
        OBVIOUS
      <4>2. ~(i > 1)
        OBVIOUS
      <4> HIDE DEF z
      <4> QED BY <4>1, <4>2
    <3>2. z = [i \in 0 .. 0 |-> z[i]]
      OBVIOUS
    <3> HIDE DEF z
    <3> QED BY <3>1, <3>2
  <2> HIDE DEF z
  <2>2. To(0, z)
    BY <2>1
  <2> QED BY <2>2
<1>2. ASSUME NEW m \in 0 .. n - 1, m \in S
      PROVE  m + 1 \in S
  <2>1. PICK f : To(m, f)
    BY <1>2
  <2> DEFINE g == [i \in 0 .. m + 1 |-> i > 1 /\ body[i - 1] = "\\" /\ ~f[i - 1]]
  <2>2. ASSUME NEW i \in 0 .. m PROVE g[i] = f[i]
    <3>1. i \in 0 .. m + 1
      OBVIOUS
    <3>2. f[i] = (i > 1 /\ body[i - 1] = "\\" /\ ~f[i - 1])
      BY <2>1
    <3> QED BY <3>1, <3>2
  <2>3. ASSUME NEW i \in 0 .. m + 1
        PROVE  g[i] = (i > 1 /\ body[i - 1] = "\\" /\ ~g[i - 1])
    <3>1. g[i] = (i > 1 /\ body[i - 1] = "\\" /\ ~f[i - 1])
      OBVIOUS
    <3>2. CASE i > 1
      <4>1. i - 1 \in 0 .. m
        BY <3>2
      <4>2. g[i - 1] = f[i - 1]
        BY <2>2, <4>1
      <4> HIDE DEF g
      <4> QED BY <3>1, <4>2
    <3>3. CASE ~(i > 1)
      <4> HIDE DEF g
      <4> QED BY <3>1, <3>3
    <3> QED BY <3>2, <3>3
  <2>4. g = [i \in 0 .. m + 1 |-> g[i]]
    OBVIOUS
  <2> HIDE DEF g
  <2>5. To(m + 1, g)
    BY <2>3, <2>4
  <2> HIDE DEF To
  <2> QED BY <2>5
<1> HIDE DEF S
<1>3. n \in S
  <2>1. 0 .. n \subseteq S
    BY <1>1, <1>2, IntervalInduction
  <2> QED BY <2>1
<1> QED BY <1>3 DEF S, Escapes

(* A literal ends at the first quote that is not escaped; a backslash that *)
(* escapes is not part of it.                                              *)
Bare(body, f, i) == body[i] = "'" /\ ~f[i]
Ending(body, f) ==
    CHOOSE i \in 1 .. Len(body) + 1 : /\ i = Len(body) + 1 \/ Bare(body, f, i)
                                      /\ \A j \in 1 .. i - 1 : ~Bare(body, f, j)
Kept(body, f, i) == IF body[i] = "\\" /\ ~f[i] THEN <<>> ELSE <<body[i]>>
Taken(body, f, m) == FlattenSeq([i \in 1 .. m |-> Kept(body, f, i)])

LEMMA LiteralIs ==
    ASSUME NEW p, NEW body, body = SubSeq(p, 5, Len(p)), Len(body) \in Nat
    PROVE  \E f : /\ Escapes(f, body)
                  /\ StixLiteral(p).whole = (Ending(body, f) = Len(body) - 1)
                  /\ StixLiteral(p).value = Taken(body, f, Ending(body, f) - 1)
<1> DEFINE f == CHOOSE f : f = [i \in 0 .. Len(body) |->
                              i > 1 /\ body[i - 1] = "\\" /\ ~f[i - 1]]
<1>1. \E g : g = [i \in 0 .. Len(body) |-> i > 1 /\ body[i - 1] = "\\" /\ ~g[i - 1]]
  <2>1. PICK g : Escapes(g, body)
    BY EscapesExist
  <2> QED BY <2>1 DEF Escapes
<1>2. f = [i \in 0 .. Len(body) |-> i > 1 /\ body[i - 1] = "\\" /\ ~f[i - 1]]
  BY <1>1
<1>3. StixLiteral(p) = [whole |-> Ending(body, f) = Len(body) - 1,
                        value |-> Taken(body, f, Ending(body, f) - 1)]
  BY DEF StixLiteral, Ending, Taken, Kept, Bare
<1>4. Escapes(f, body)
  BY <1>2 DEF Escapes
<1> HIDE DEF f
<1> QED BY <1>3, <1>4

LEMMA EndingIs ==
    ASSUME NEW body, Len(body) \in Nat, NEW f
    PROVE  /\ Ending(body, f) \in 1 .. Len(body) + 1
           /\ Ending(body, f) = Len(body) + 1 \/ Bare(body, f, Ending(body, f))
           /\ \A j \in 1 .. Ending(body, f) - 1 : ~Bare(body, f, j)
<1> DEFINE n == Len(body)
           I == {i \in 1 .. n + 1 : i = n + 1 \/ Bare(body, f, i)}
           m == Min(I)
<1>1. I \subseteq Nat /\ n + 1 \in I
  OBVIOUS
<1> HIDE DEF I
<1>2. m \in I /\ \A i \in I : m <= i
  BY <1>1, MinIn
<1> HIDE DEF m
<1>3. m \in 1 .. n + 1 /\ (m = n + 1 \/ Bare(body, f, m))
  BY <1>2 DEF I
<1>4. ASSUME NEW j \in 1 .. m - 1 PROVE ~Bare(body, f, j)
  <2>1. j \in 1 .. n + 1 /\ ~(m <= j)
    BY <1>3
  <2>2. j \notin I
    BY <1>2, <2>1
  <2> QED BY <2>1, <2>2 DEF I
<1> HIDE DEF n
<1>5. \E i \in 1 .. n + 1 : /\ i = n + 1 \/ Bare(body, f, i)
                            /\ \A j \in 1 .. i - 1 : ~Bare(body, f, j)
  BY <1>3, <1>4
<1> QED BY <1>5 DEF Ending, n
-----------------------------------------------------------------------------
(* The literal of a pattern, and the quote that ends it: where the tokens  *)
(* of v are, each quote behind a backslash.                                *)
Escaped(v) == Split(v, "'", <<"\\", "'">>)

Literal(v, e, body) ==
    /\ e[0] = 0 /\ \A i \in 0 .. Len(v) : e[i] \in Nat /\ e[i] <= e[Len(v)]
    /\ Len(body) = e[Len(v)] + 2 /\ body[e[Len(v)] + 1] = "'"
    /\ \A i \in 1 .. Len(v) : v[i] # "'" =>
          e[i] = e[i - 1] + 1 /\ body[e[i - 1] + 1] = v[i]
    /\ \A i \in 1 .. Len(v) : v[i] = "'" =>
          e[i] = e[i - 1] + 2 /\ body[e[i - 1] + 1] = "\\" /\ body[e[i - 1] + 2] = "'"
    /\ \A p \in 1 .. e[Len(v)] : \E i \in 1 .. Len(v) :
          p = e[i - 1] + 1 \/ (v[i] = "'" /\ p = e[i - 1] + 2)

LEMMA EscapedType ==
    ASSUME NEW T, NEW v \in Seq(T), NEW U, T \subseteq U, "\\" \in U, "'" \in U
    PROVE  /\ Escaped(v) \in Seq(Seq(U)) /\ Len(Escaped(v)) = Len(v)
           /\ \A i \in 1 .. Len(v) : v[i] # "'" =>
                 Len(Escaped(v)[i]) = 1 /\ Escaped(v)[i][1] = v[i]
           /\ \A i \in 1 .. Len(v) : v[i] = "'" =>
                 /\ Len(Escaped(v)[i]) = 2
                 /\ Escaped(v)[i][1] = "\\" /\ Escaped(v)[i][2] = "'"
<1> DEFINE n == Len(v)
           q == <<"\\", "'">>
<1>1. n \in Nat /\ DOMAIN v = 1 .. n /\ \A i \in 1 .. n : v[i] \in U
  BY LenProperties, ElementOfSeq
<1>2. q \in Seq(U) /\ Len(q) = 2 /\ q[1] = "\\" /\ q[2] = "'"
  OBVIOUS
<1> HIDE DEF q
<1>3. Escaped(v) = [i \in 1 .. n |-> IF v[i] = "'" THEN q ELSE <<v[i]>>]
  BY <1>1 DEF Escaped, Split, q
<1>4. ASSUME NEW i \in 1 .. n, v[i] # "'"
      PROVE  Escaped(v)[i] \in Seq(U) /\ Len(Escaped(v)[i]) = 1 /\ Escaped(v)[i][1] = v[i]
  <2> DEFINE b == <<v[i]>>
  <2>1. b \in Seq(U) /\ Len(b) = 1 /\ b[1] = v[i]
    BY <1>1
  <2> HIDE DEF b
  <2>2. Escaped(v)[i] = b
    BY <1>3, <1>4 DEF b
  <2> QED BY <2>1, <2>2
<1>5. ASSUME NEW i \in 1 .. n, v[i] = "'" PROVE Escaped(v)[i] = q
  BY <1>3, <1>5
<1>6. \A i \in 1 .. n : Escaped(v)[i] \in Seq(U)
  BY <1>2, <1>4, <1>5
<1>7. Escaped(v) \in [1 .. n -> Seq(U)]
  BY <1>3, <1>6
<1>8. Escaped(v) \in Seq(Seq(U)) /\ Len(Escaped(v)) = n
  BY <1>1, <1>7, FunctionSeq
<1> QED BY <1>2, <1>4, <1>5, <1>8

LEMMA LiteralExists ==
    ASSUME NEW T, NEW v \in Seq(T), NEW type
    PROVE  LET p    == StixPattern(type, v)
               body == SubSeq(p, 5, Len(p))
           IN  (\E e : Literal(v, e, body)) /\ \E U : body \in Seq(U)
<1> DEFINE P == StixPath(type)
           U == T \cup {"\\", "'", "[", "]", "=", P}
           h == <<"[", P, "=", "'">>
           q == <<"'", "]">>
           B == Escaped(v)
           x == StixEscaped(v)
           n == Len(v)
           p == h \o x \o q
           body == SubSeq(p, 5, Len(p))
<1>1. T \subseteq U /\ "\\" \in U /\ "'" \in U /\ "[" \in U /\ "]" \in U /\ "=" \in U /\ P \in U
  OBVIOUS
<1> HIDE DEF U, P
<1>2. h \in Seq(U) /\ Len(h) = 4
  BY <1>1
<1>3. q \in Seq(U) /\ Len(q) = 2 /\ q[1] = "'"
  BY <1>1
<1>4. /\ B \in Seq(Seq(U)) /\ Len(B) = n
      /\ \A i \in 1 .. n : v[i] # "'" => Len(B[i]) = 1 /\ B[i][1] = v[i]
      /\ \A i \in 1 .. n : v[i] = "'" =>
            Len(B[i]) = 2 /\ B[i][1] = "\\" /\ B[i][2] = "'"
  BY <1>1, EscapedType
<1>5. x = FlattenSeq(B)
  BY SplitIs DEF StixEscaped, Escaped
<1>6. StixPattern(type, v) = p
  BY DEF StixPattern, P
<1> HIDE DEF B, x, h, q
<1>7. x \in Seq(U) /\ \E e : Laid(x, B, e)
  BY <1>4, <1>5, FlattenLaid
<1>8. PICK e : Laid(x, B, e)
  BY <1>7
<1>9. n \in Nat /\ Len(x) \in Nat /\ Len(x) = e[n]
  BY <1>4, <1>7, <1>8, LenProperties DEF Laid, LaidTo
<1>10. /\ body \in Seq(U) /\ Len(body) = Len(x) + 2
       /\ \A k \in 1 .. Len(x) : body[k] = x[k]
       /\ body[Len(x) + 1] = "'"
  <2> DEFINE y == h \o x
             N == Len(x)
  <2>1. y \in Seq(U) /\ Len(y) = 4 + N /\ \A i \in 1 .. 4 + N :
              y[i] = IF i <= 4 THEN h[i] ELSE x[i - 4]
    <3>1. y \in Seq(U) /\ Len(y) = Len(h) + Len(x)
      BY <1>2, <1>7, ConcatProperties
    <3>2. \A i \in 1 .. Len(h) + Len(x) :
             (h \o x)[i] = IF i <= Len(h) THEN h[i] ELSE x[i - Len(h)]
      BY <1>2, <1>7, ConcatProperties
    <3> QED BY <1>2, <3>1, <3>2
  <2>2. N \in Nat
    BY <1>9
  <2> HIDE DEF y, N
  <2>3. y \o q \in Seq(U) /\ Len(y \o q) = (4 + N) + 2 /\ \A i \in 1 .. (4 + N) + 2 :
              (y \o q)[i] = IF i <= 4 + N THEN y[i] ELSE q[i - (4 + N)]
    <3>1. y \o q \in Seq(U) /\ Len(y \o q) = Len(y) + Len(q)
      BY <1>3, <2>1, ConcatProperties
    <3>2. \A i \in 1 .. Len(y) + Len(q) :
             (y \o q)[i] = IF i <= Len(y) THEN y[i] ELSE q[i - Len(y)]
      BY <1>3, <2>1, ConcatProperties
    <3> QED BY <1>3, <2>1, <3>1, <3>2
  <2>4. p \in Seq(U) /\ Len(p) = N + 6 /\ \A i \in 1 .. N + 6 :
              p[i] = IF i <= 4 + N THEN y[i] ELSE q[i - (4 + N)]
    <3>1. p = y \o q
      BY DEF y
    <3>2. (4 + N) + 2 = N + 6
      BY <2>2
    <3> HIDE DEF p
    <3> QED BY <2>3, <3>1, <3>2
  <2> HIDE DEF p
  <2>5. 5 \in Int /\ Len(p) \in Int /\ 5 <= Len(p) /\ Len(p) - 5 + 1 = N + 2
        /\ \A i \in 5 .. Len(p) : i \in 1 .. Len(p)
    BY <2>2, <2>4
  <2>6. \A i \in 5 .. Len(p) : p[i] \in U
    BY <2>4, <2>5, ElementOfSeq
  <2>7. body \in Seq(U) /\ Len(body) = N + 2 /\ \A i \in 1 .. N + 2 : body[i] = p[5 + i - 1]
    BY <2>5, <2>6, SubSeqProperties
  <2> HIDE DEF body
  <2>8. ASSUME NEW k \in 1 .. N PROVE body[k] = x[k]
    <3>1. /\ k \in 1 .. N + 2 /\ 5 + k - 1 = 4 + k /\ 4 + k \in 1 .. N + 6
          /\ 4 + k <= 4 + N /\ 4 + k \in 1 .. 4 + N /\ ~(4 + k <= 4) /\ (4 + k) - 4 = k
      BY <2>2
    <3>2. body[k] = p[4 + k] /\ p[4 + k] = y[4 + k]
      BY <2>4, <2>7, <3>1
    <3>3. y[4 + k] = x[k]
      BY <2>1, <3>1
    <3> QED BY <3>2, <3>3
  <2>9. body[N + 1] = "'"
    <3>1. /\ N + 1 \in 1 .. N + 2 /\ 5 + (N + 1) - 1 = N + 5 /\ N + 5 \in 1 .. N + 6
          /\ ~(N + 5 <= 4 + N) /\ (N + 5) - (4 + N) = 1
      BY <2>2
    <3>2. body[N + 1] = p[N + 5]
      BY <2>7, <3>1
    <3>3. p[N + 5] = q[1]
      BY <2>4, <3>1
    <3> QED BY <1>3, <3>2, <3>3
  <2> QED BY <2>7, <2>8, <2>9 DEF N
<1> HIDE DEF body, p
<1>11. Literal(v, e, body)
  <2>1. /\ e[0] = 0 /\ \A i \in 1 .. n : e[i] = e[i - 1] + Len(B[i])
        /\ \A i \in 0 .. n : e[i] \in Nat /\ e[i] <= e[n]
    <3>1. Ends(e, B)
      BY <1>8 DEF Laid
    <3>2. n \in 0 .. n
      BY <1>9
    <3>3. /\ e[0] = 0 /\ \A i \in 1 .. n : e[i] = e[i - 1] + Len(B[i])
          /\ \A j \in 0 .. n : e[j] \in Nat /\ \A i \in 0 .. n : i <= j => e[i] <= e[j]
      BY <1>4, <3>1, EndsGrow
    <3>4. \A i \in 0 .. n : i <= n
      BY <1>9
    <3> QED BY <3>2, <3>3, <3>4
  <2>2. \A i \in 1 .. n : \A k \in 1 .. Len(B[i]) :
           e[i - 1] + k \in 1 .. Len(x) /\ x[e[i - 1] + k] = B[i][k]
    <3> SUFFICES ASSUME NEW i \in 1 .. n, NEW k \in 1 .. Len(B[i])
                 PROVE  e[i - 1] + k \in 1 .. Len(x) /\ x[e[i - 1] + k] = B[i][k]
      OBVIOUS
    <3>1. i \in 1 .. Len(B)
      BY <1>4
    <3>2. Placed(i, k, B, x, e)
      BY <1>4, <1>7, <1>8, <3>1, LaidPlace
    <3> QED BY <3>2 DEF Placed
  <2>3. \A k \in 1 .. e[n] : Owned(k, B, e)
    BY <1>4, <1>7, <1>8, <1>9, LaidOwner
  <2>4. ASSUME NEW i \in 1 .. n, v[i] # "'"
        PROVE  e[i] = e[i - 1] + 1 /\ body[e[i - 1] + 1] = v[i]
    <3>1. Len(B[i]) = 1 /\ B[i][1] = v[i] /\ 1 \in 1 .. 1
      BY <1>4, <2>4
    <3>2. e[i - 1] + 1 \in 1 .. Len(x) /\ x[e[i - 1] + 1] = B[i][1]
      BY <2>2, <3>1
    <3> QED BY <1>10, <2>1, <3>1, <3>2
  <2>5. ASSUME NEW i \in 1 .. n, v[i] = "'"
        PROVE  e[i] = e[i - 1] + 2 /\ body[e[i - 1] + 1] = "\\" /\ body[e[i - 1] + 2] = "'"
    <3>1. Len(B[i]) = 2 /\ B[i][1] = "\\" /\ B[i][2] = "'" /\ 1 \in 1 .. 2 /\ 2 \in 1 .. 2
      BY <1>4, <2>5
    <3>2. e[i - 1] + 1 \in 1 .. Len(x) /\ x[e[i - 1] + 1] = B[i][1]
      BY <2>2, <3>1
    <3>3. e[i - 1] + 2 \in 1 .. Len(x) /\ x[e[i - 1] + 2] = B[i][2]
      BY <2>2, <3>1
    <3> QED BY <1>10, <2>1, <3>1, <3>2, <3>3
  <2>6. ASSUME NEW k \in 1 .. e[n]
        PROVE  \E i \in 1 .. n : k = e[i - 1] + 1 \/ (v[i] = "'" /\ k = e[i - 1] + 2)
    <3>1. PICK i \in 1 .. n : \E j \in 1 .. Len(B[i]) : k = e[i - 1] + j
      BY <1>4, <2>3 DEF Owned
    <3>2. PICK j \in 1 .. Len(B[i]) : k = e[i - 1] + j
      BY <3>1
    <3>3. j = 1 \/ (v[i] = "'" /\ j = 2)
      <4>1. CASE v[i] = "'"
        <5>1. j \in 1 .. 2
          BY <1>4, <3>2, <4>1
        <5> QED BY <4>1, <5>1
      <4>2. CASE v[i] # "'"
        <5>1. j \in 1 .. 1
          BY <1>4, <3>2, <4>2
        <5> QED BY <5>1
      <4> QED BY <4>1, <4>2
    <3> QED BY <3>2, <3>3
  <2> HIDE DEF n
  <2>7. Len(body) = e[n] + 2 /\ body[e[n] + 1] = "'"
    BY <1>9, <1>10
  <2> QED BY <2>1, <2>4, <2>5, <2>6, <2>7 DEF Literal, n
<1> QED BY <1>6, <1>10, <1>11 DEF body
-----------------------------------------------------------------------------
LEMMA EscapesStep ==
    ASSUME NEW body, Len(body) \in Nat, NEW f, Escapes(f, body), NEW i \in 1 .. Len(body)
    PROVE  f[i] <=> i > 1 /\ body[i - 1] = "\\" /\ ~f[i - 1]
<1>1. i \in 0 .. Len(body)
  OBVIOUS
<1>2. f[i] = (i > 1 /\ body[i - 1] = "\\" /\ ~f[i - 1])
  BY <1>1 DEF Escapes
<1> QED BY <1>2

(* Where the tokens that are kept come to lie.                             *)
Sizes(c, body, f, m) ==
    /\ c[0] = 0 /\ \A p \in 0 .. m : c[p] \in Nat
    /\ \A p \in 1 .. m : c[p] = c[p - 1] + Len(Kept(body, f, p))
    /\ Len(Taken(body, f, m)) = c[m]
    /\ \A p \in 1 .. m : Len(Kept(body, f, p)) = 1 =>
          Taken(body, f, m)[c[p - 1] + 1] = Kept(body, f, p)[1]

LEMMA KeptIs ==
    ASSUME NEW body, NEW f, NEW p
    PROVE  /\ body[p] = "\\" /\ ~f[p] => Len(Kept(body, f, p)) = 0
           /\ ~(body[p] = "\\" /\ ~f[p]) =>
                 Len(Kept(body, f, p)) = 1 /\ Kept(body, f, p)[1] = body[p]
<1> DEFINE b == <<body[p]>>
<1>1. Len(b) = 1 /\ b[1] = body[p] /\ Len(<<>>) = 0
  OBVIOUS
<1> HIDE DEF b
<1>2. Kept(body, f, p) = IF body[p] = "\\" /\ ~f[p] THEN <<>> ELSE b
  BY DEF Kept, b
<1> QED BY <1>1, <1>2

LEMMA KeptLaid ==
    ASSUME NEW U, NEW body \in Seq(U), NEW f, NEW m \in 0 .. Len(body)
    PROVE  Taken(body, f, m) \in Seq(U) /\ \E c : Sizes(c, body, f, m)
<1> DEFINE C == [i \in 1 .. m |-> Kept(body, f, i)]
           r == FlattenSeq(C)
<1>1. Len(body) \in Nat /\ m \in Nat
  BY LenProperties
<1>2. ASSUME NEW i \in 1 .. m PROVE Kept(body, f, i) \in Seq(U)
  <2>1. body[i] \in U
    BY <1>1, ElementOfSeq
  <2>2. <<body[i]>> \in Seq(U) /\ <<>> \in Seq(U)
    BY <2>1
  <2> QED BY <2>2 DEF Kept
<1>3. C \in [1 .. m -> Seq(U)]
  BY <1>2
<1>4. C \in Seq(Seq(U)) /\ Len(C) = m
  BY <1>1, <1>3, FunctionSeq
<1>5. \A i \in 1 .. m : C[i] = Kept(body, f, i)
  OBVIOUS
<1>6. Taken(body, f, m) = r
  BY DEF Taken
<1> HIDE DEF C
<1>7. r \in Seq(U) /\ \E c : Laid(r, C, c)
  BY <1>4, FlattenLaid
<1>8. PICK c : Laid(r, C, c)
  BY <1>7
<1> HIDE DEF r
<1>9. /\ c[0] = 0 /\ \A p \in 0 .. m : c[p] \in Nat
      /\ \A p \in 1 .. m : c[p] = c[p - 1] + Len(C[p])
  <2>1. Ends(c, C)
    BY <1>8 DEF Laid
  <2> QED BY <1>4, <2>1, EndsGrow
<1>10. Len(r) = c[m] /\ \A p \in 1 .. m : \A k \in 1 .. Len(C[p]) : r[c[p - 1] + k] = C[p][k]
  BY <1>4, <1>8 DEF Laid, LaidTo
<1>11. ASSUME NEW p \in 1 .. m, Len(C[p]) = 1 PROVE r[c[p - 1] + 1] = C[p][1]
  <2>1. 1 \in 1 .. Len(C[p])
    BY <1>11
  <2> QED BY <1>10, <2>1
<1>12. Sizes(c, body, f, m)
  BY <1>5, <1>6, <1>9, <1>10, <1>11 DEF Sizes
<1> QED BY <1>6, <1>7, <1>12

(* A token whose predecessors hold no backslash is not escaped.            *)
LEMMA StartsFresh ==
    ASSUME NEW v, Len(v) \in Nat, NEW e, NEW body, Literal(v, e, body),
           NEW f, Escapes(f, body),
           NEW i \in 0 .. Len(v), i # 0 => v[i] # "\\"
    PROVE  ~f[e[i] + 1]
<1> DEFINE n == Len(v)
           a == e[i]
<1>1. Len(body) = e[n] + 2 /\ e[n] \in Nat /\ a \in Nat /\ a <= e[n]
  <2>1. n \in 0 .. n
    OBVIOUS
  <2> QED BY <2>1 DEF Literal
<1> HIDE DEF a
<1>2. a + 1 \in 1 .. Len(body) /\ Len(body) \in Nat /\ (a + 1) - 1 = a
  BY <1>1
<1>3. f[a + 1] => a + 1 > 1 /\ body[a] = "\\"
  BY <1>2, EscapesStep
<1>4. CASE i = 0
  <2>1. a = 0
    BY <1>4 DEF Literal, a
  <2> QED BY <1>3, <2>1 DEF a
<1>5. CASE i # 0
  <2>1. i \in 1 .. n /\ v[i] # "\\" /\ i - 1 \in 0 .. n
    BY <1>5
  <2>2. e[i - 1] \in Nat
    BY <2>1 DEF Literal
  <2>3. CASE v[i] # "'"
    <3>1. a = e[i - 1] + 1 /\ body[e[i - 1] + 1] = v[i]
      BY <2>1, <2>3 DEF Literal, a
    <3> QED BY <1>3, <2>1, <3>1 DEF a
  <2>4. CASE v[i] = "'"
    <3>1. a = e[i - 1] + 2 /\ body[e[i - 1] + 2] = "'"
      BY <2>1, <2>4 DEF Literal, a
    <3> QED BY <1>3, <3>1 DEF a
  <2> QED BY <2>3, <2>4
<1> QED BY <1>4, <1>5

(* A quote is escaped exactly if the backslash before it is not.           *)
LEMMA QuoteEscaped ==
    ASSUME NEW v, Len(v) \in Nat, NEW e, NEW body, Literal(v, e, body),
           NEW f, Escapes(f, body), NEW i \in 1 .. Len(v), v[i] = "'"
    PROVE  f[e[i - 1] + 2] <=> ~f[e[i - 1] + 1]
<1> DEFINE n == Len(v)
           a == e[i - 1]
<1>1. /\ Len(body) = e[n] + 2 /\ e[n] \in Nat /\ a \in Nat /\ a <= e[n]
      /\ body[a + 1] = "\\"
  <2>1. n \in 0 .. n /\ i - 1 \in 0 .. n
    OBVIOUS
  <2> QED BY <2>1 DEF Literal
<1> HIDE DEF a
<1>2. /\ a + 2 \in 1 .. Len(body) /\ Len(body) \in Nat /\ (a + 2) - 1 = a + 1 /\ a + 2 > 1
  BY <1>1
<1>3. f[a + 2] <=> ~f[a + 1]
  BY <1>1, <1>2, EscapesStep
<1> QED BY <1>3 DEF a

(* Without backslashes no quote but the last is bare, ...                  *)
LEMMA EndsWhole ==
    ASSUME NEW v, Len(v) \in Nat, NEW e, NEW body, Literal(v, e, body),
           NEW f, Escapes(f, body), \A i \in 1 .. Len(v) : v[i] # "\\"
    PROVE  Ending(body, f) = e[Len(v)] + 1
<1> DEFINE n == Len(v)
           m == Ending(body, f)
           N == e[n]
<1>1. Len(body) = N + 2 /\ N \in Nat /\ n \in 0 .. n
  BY DEF Literal
<1>2. Bare(body, f, N + 1)
  <2>1. ~f[N + 1]
    BY <1>1, StartsFresh
  <2> QED BY <2>1 DEF Literal, Bare
<1>3. ASSUME NEW p \in 1 .. N PROVE ~Bare(body, f, p)
  <2>1. PICK i \in 1 .. n : p = e[i - 1] + 1 \/ (v[i] = "'" /\ p = e[i - 1] + 2)
    BY DEF Literal
  <2>2. i - 1 \in 0 .. n /\ (i - 1 # 0 => i - 1 \in 1 .. n)
    OBVIOUS
  <2>3. ~f[e[i - 1] + 1]
    BY <2>2, StartsFresh
  <2>4. CASE v[i] # "'"
    <3>1. body[e[i - 1] + 1] = v[i]
      BY <2>4 DEF Literal
    <3> QED BY <2>1, <2>4, <3>1 DEF Bare
  <2>5. CASE v[i] = "'"
    <3>1. f[e[i - 1] + 2]
      BY <2>3, <2>5, QuoteEscaped
    <3>2. body[e[i - 1] + 1] = "\\"
      BY <2>5 DEF Literal
    <3> QED BY <2>1, <3>1, <3>2 DEF Bare
  <2> QED BY <2>4, <2>5
<1>4. /\ m \in 1 .. Len(body) + 1
      /\ m = Len(body) + 1 \/ Bare(body, f, m)
      /\ \A j \in 1 .. m - 1 : ~Bare(body, f, j)
  BY <1>1, EndingIs
<1> HIDE DEF m, N
<1>5. ~(m <= N)
  <2> SUFFICES ASSUME m <= N PROVE FALSE
    OBVIOUS
  <2>1. m \in 1 .. N /\ m # Len(body) + 1
    BY <1>1, <1>4
  <2> QED BY <1>3, <1>4, <2>1
<1>6. ~(m > N + 1)
  <2> SUFFICES ASSUME m > N + 1 PROVE FALSE
    OBVIOUS
  <2>1. N + 1 \in 1 .. m - 1
    BY <1>1, <1>4
  <2> QED BY <1>2, <1>4, <2>1
<1>7. m = N + 1
  BY <1>1, <1>4, <1>5, <1>6
<1> QED BY <1>7 DEF m, N, n

(* ... and each block of the literal is read as the token it stands for.   *)
LEMMA TakenWhole ==
    ASSUME NEW T, NEW v \in Seq(T), NEW e, NEW U, NEW body \in Seq(U), Literal(v, e, body),
           NEW f, Escapes(f, body), \A i \in 1 .. Len(v) : v[i] # "\\"
    PROVE  Taken(body, f, e[Len(v)]) = v
<1> DEFINE n == Len(v)
           N == e[n]
           r == Taken(body, f, N)
<1>1. n \in Nat /\ Len(body) \in Nat /\ Len(body) = N + 2 /\ N \in Nat /\ n \in 0 .. n
      /\ N \in 0 .. Len(body)
  <2>1. n \in Nat /\ Len(body) \in Nat
    BY LenProperties
  <2>2. n \in 0 .. n
    BY <2>1
  <2>3. Len(body) = N + 2 /\ N \in Nat
    BY <2>2 DEF Literal
  <2> QED BY <2>1, <2>2, <2>3
<1> HIDE DEF N
<1>2. r \in Seq(U) /\ \E c : Sizes(c, body, f, N)
  BY <1>1, KeptLaid
<1>3. PICK c : Sizes(c, body, f, N)
  BY <1>2
<1>4. /\ c[0] = 0 /\ \A p \in 0 .. N : c[p] \in Nat
      /\ \A p \in 1 .. N : c[p] = c[p - 1] + Len(Kept(body, f, p))
      /\ Len(r) = c[N]
      /\ \A p \in 1 .. N : Len(Kept(body, f, p)) = 1 => r[c[p - 1] + 1] = Kept(body, f, p)[1]
  BY <1>3 DEF Sizes
<1> HIDE DEF r
<1>5. \A i \in 0 .. n : e[i] \in Nat /\ e[i] <= N
  BY DEF Literal, N
<1>6. ASSUME NEW i \in 1 .. n, c[e[i - 1]] = i - 1
      PROVE  c[e[i]] = i /\ r[i] = v[i]
  <2> DEFINE a == e[i - 1]
  <2>1. i - 1 \in 0 .. n /\ i \in 0 .. n /\ (i - 1 # 0 => i - 1 \in 1 .. n) /\ i \in Nat
    BY <1>1
  <2>2. a \in Nat /\ a <= N /\ ~f[a + 1] /\ e[i] <= N
    BY <1>1, <1>5, <2>1, StartsFresh
  <2>3. CASE v[i] # "'"
    <3>1. e[i] = a + 1 /\ body[a + 1] = v[i] /\ v[i] # "\\"
      BY <2>3 DEF Literal
    <3>2. Len(Kept(body, f, a + 1)) = 1 /\ Kept(body, f, a + 1)[1] = v[i]
      BY <3>1, KeptIs
    <3> HIDE DEF a
    <3>3. a + 1 \in 1 .. N /\ (a + 1) - 1 = a
      BY <1>1, <2>2, <3>1
    <3>4. c[a + 1] = c[a] + 1 /\ r[c[a] + 1] = v[i]
      BY <1>4, <3>2, <3>3
    <3>5. c[a] = i - 1 /\ (i - 1) + 1 = i
      BY <1>6, <2>1 DEF a
    <3> QED BY <3>1, <3>4, <3>5
  <2>4. CASE v[i] = "'"
    <3>1. e[i] = a + 2 /\ body[a + 1] = "\\" /\ body[a + 2] = "'"
      BY <2>4 DEF Literal
    <3>2. f[a + 2]
      BY <1>1, <2>2, <2>4, QuoteEscaped
    <3>3. Len(Kept(body, f, a + 1)) = 0
      BY <2>2, <3>1, KeptIs
    <3>4. Len(Kept(body, f, a + 2)) = 1 /\ Kept(body, f, a + 2)[1] = "'"
      BY <3>1, <3>2, KeptIs
    <3> HIDE DEF a
    <3>5. /\ a + 1 \in 1 .. N /\ (a + 1) - 1 = a
          /\ a + 2 \in 1 .. N /\ (a + 2) - 1 = a + 1 /\ a \in 0 .. N
      BY <1>1, <2>2, <3>1
    <3>6. c[a + 1] = c[a] + 0 /\ c[a + 2] = c[a + 1] + 1 /\ r[c[a + 1] + 1] = "'"
      BY <1>4, <3>3, <3>4, <3>5
    <3>7. c[a] = i - 1 /\ (i - 1) + 1 = i /\ (i - 1) + 0 = i - 1
      BY <1>6, <2>1 DEF a
    <3>8. c[a + 1] = i - 1
      BY <3>6, <3>7
    <3>9. c[a + 2] = i /\ r[i] = "'"
      BY <3>6, <3>7, <3>8
    <3> QED BY <2>4, <3>1, <3>9
  <2> QED BY <2>3, <2>4
<1> DEFINE S == {i \in 0 .. n : c[e[i]] = i}
<1>7. 0 \in S
  BY <1>1, <1>4 DEF Literal
<1>8. ASSUME NEW i \in 0 .. n - 1, i \in S PROVE i + 1 \in S
  <2>1. i + 1 \in 1 .. n /\ (i + 1) - 1 = i
    BY <1>1
  <2>2. c[e[(i + 1) - 1]] = (i + 1) - 1
    BY <1>8, <2>1
  <2>3. c[e[i + 1]] = i + 1
    BY <1>6, <2>1, <2>2
  <2> QED BY <1>1, <2>3
<1>9. 0 .. n \subseteq S
  <2> HIDE DEF S, n
  <2> QED BY <1>1, <1>7, <1>8, IntervalInduction
<1>10. Len(r) = n
  <2>1. c[e[n]] = n
    BY <1>1, <1>9
  <2> QED BY <1>4, <2>1 DEF N
<1>11. ASSUME NEW i \in 1 .. n PROVE r[i] = v[i]
  <2>1. i - 1 \in 0 .. n
    BY <1>1
  <2>2. c[e[i - 1]] = i - 1
    BY <1>9, <2>1
  <2> QED BY <1>6, <2>2
<1>12. r = v
  <2>1. r \in Seq(U \cup T) /\ v \in Seq(U \cup T)
    BY <1>2, SeqMonotonic DEF r
  <2> QED BY <1>10, <1>11, <2>1, SeqEqual
<1> QED BY <1>12 DEF r, N, n

(* A backslash is not read.                                                *)
LEMMA TakenLess ==
    ASSUME NEW T, NEW v \in Seq(T), NEW e, NEW U, NEW body \in Seq(U), Literal(v, e, body),
           NEW f, Escapes(f, body), Ending(body, f) = e[Len(v)] + 1,
           \E i \in 1 .. Len(v) : v[i] = "\\"
    PROVE  Taken(body, f, e[Len(v)]) # v
<1> DEFINE n == Len(v)
           N == e[n]
           r == Taken(body, f, N)
           I == {i \in 1 .. n : v[i] = "\\"}
           k == Min(I)
<1>1. n \in Nat /\ Len(body) \in Nat /\ Len(body) = N + 2 /\ N \in Nat /\ n \in 0 .. n
      /\ N \in 0 .. Len(body)
  <2>1. n \in Nat /\ Len(body) \in Nat
    BY LenProperties
  <2>2. n \in 0 .. n
    BY <2>1
  <2>3. Len(body) = N + 2 /\ N \in Nat
    BY <2>2 DEF Literal
  <2> QED BY <2>1, <2>2, <2>3
<1>2. I \subseteq Nat /\ I # {}
  OBVIOUS
<1> HIDE DEF I
<1>3. k \in I /\ \A i \in I : k <= i
  BY <1>2, MinIn
<1> HIDE DEF k
<1>4. k \in 1 .. n /\ v[k] = "\\"
  BY <1>3 DEF I
<1>5. k - 1 # 0 => v[k - 1] # "\\"
  <2> SUFFICES ASSUME k - 1 # 0 PROVE v[k - 1] # "\\"
    OBVIOUS
  <2>1. k - 1 \in 1 .. n /\ ~(k <= k - 1)
    BY <1>1, <1>4
  <2>2. k - 1 \notin I
    BY <1>3, <2>1
  <2> QED BY <2>1, <2>2 DEF I
<1>6. ~f[e[k - 1] + 1]
  <2>1. k - 1 \in 0 .. n
    BY <1>1, <1>4
  <2> QED BY <1>1, <1>5, <2>1, StartsFresh
<1>7. \A j \in 1 .. N : ~Bare(body, f, j)
  <2>1. (N + 1) - 1 = N
    BY <1>1
  <2>2. \A j \in 1 .. Ending(body, f) - 1 : ~Bare(body, f, j)
    BY <1>1, EndingIs
  <2> QED BY <2>1, <2>2
<1> HIDE DEF N
<1>8. PICK c : Sizes(c, body, f, N)
  BY <1>1, KeptLaid
<1>9. /\ c[0] = 0 /\ \A p \in 0 .. N : c[p] \in Nat
      /\ \A p \in 1 .. N : c[p] = c[p - 1] + Len(Kept(body, f, p))
      /\ Len(r) = c[N]
  BY <1>8 DEF Sizes
<1> HIDE DEF r
<1>10. \A i \in 0 .. n : e[i] \in Nat /\ e[i] <= N
  BY DEF Literal, N
<1>11. ASSUME NEW i \in 1 .. n
       PROVE  /\ c[e[i]] = c[e[i - 1]] \/ c[e[i]] = c[e[i - 1]] + 1
              /\ i = k => c[e[i]] = c[e[i - 1]]
              /\ c[e[i - 1]] \in Nat /\ c[e[i]] \in Nat
  <2> DEFINE a == e[i - 1]
  <2>1. i - 1 \in 0 .. n /\ i \in 0 .. n
    BY <1>1
  <2>2. a \in Nat /\ a <= N /\ e[i] <= N /\ e[i] \in Nat
    BY <1>10, <2>1
  <2>3. c[a] \in Nat /\ c[e[i]] \in Nat
    <3> HIDE DEF a
    <3>1. a \in 0 .. N /\ e[i] \in 0 .. N
      BY <1>1, <2>2
    <3> QED BY <1>9, <3>1
  <2>4. CASE v[i] # "'"
    <3>1. e[i] = a + 1 /\ body[a + 1] = v[i]
      BY <2>4 DEF Literal
    <3>2. Len(Kept(body, f, a + 1)) \in {0, 1} /\ (i = k => Len(Kept(body, f, a + 1)) = 0)
      <4>1. Len(Kept(body, f, a + 1)) \in {0, 1}
        BY KeptIs
      <4>2. ASSUME i = k PROVE Len(Kept(body, f, a + 1)) = 0
        BY <1>4, <1>6, <3>1, <4>2, KeptIs
      <4> QED BY <4>1, <4>2
    <3> HIDE DEF a
    <3>3. a + 1 \in 1 .. N /\ (a + 1) - 1 = a
      BY <1>1, <2>2, <3>1
    <3>4. c[a + 1] = c[a] + Len(Kept(body, f, a + 1))
      BY <1>9, <3>3
    <3>5. /\ c[e[i]] = c[a] \/ c[e[i]] = c[a] + 1
          /\ i = k => c[e[i]] = c[a]
      <4> DEFINE l == Len(Kept(body, f, a + 1))
                 x == c[a]
      <4>1. c[e[i]] = x + l /\ l \in {0, 1} /\ x \in Nat
        BY <2>3, <3>1, <3>2, <3>4
      <4>2. i = k => l = 0
        BY <3>2
      <4> HIDE DEF l, x
      <4>3. /\ c[e[i]] = x \/ c[e[i]] = x + 1
            /\ i = k => c[e[i]] = x
        BY <4>1, <4>2
      <4> QED BY <4>3 DEF x
    <3> QED BY <2>3, <3>5 DEF a
  <2>5. CASE v[i] = "'"
    <3>1. e[i] = a + 2 /\ body[a + 1] = "\\" /\ body[a + 2] = "'"
      BY <2>5 DEF Literal
    <3>2. /\ a + 1 \in 1 .. N /\ (a + 1) - 1 = a
          /\ a + 2 \in 1 .. N /\ (a + 2) - 1 = a + 1
      <4> HIDE DEF a
      <4> QED BY <1>1, <2>2, <3>1
    <3>3. f[a + 2]
      BY <1>7, <3>1, <3>2 DEF Bare
    <3>4. ~f[a + 1]
      BY <1>1, <2>5, <3>3, QuoteEscaped
    <3>5. Len(Kept(body, f, a + 1)) = 0 /\ Len(Kept(body, f, a + 2)) = 1
      BY <3>1, <3>3, <3>4, KeptIs
    <3>6. i # k
      BY <1>4, <2>5
    <3> HIDE DEF a
    <3>7. c[a + 1] = c[a] + 0 /\ c[a + 2] = c[a + 1] + 1
      BY <1>9, <3>2, <3>5
    <3>8. c[e[i]] = c[a] + 1
      BY <2>3, <3>1, <3>7
    <3> QED BY <2>3, <3>6, <3>8 DEF a
  <2> QED BY <2>4, <2>5
<1> DEFINE S == {i \in 0 .. n : c[e[i]] \in Nat /\ c[e[i]] <= i /\ (k <= i => c[e[i]] <= i - 1)}
<1>12. 0 \in S
  <2>1. c[e[0]] = 0
    BY <1>9 DEF Literal
  <2>2. ~(k <= 0)
    BY <1>4
  <2> QED BY <1>1, <2>1, <2>2
<1>13. ASSUME NEW i \in 0 .. n - 1, i \in S PROVE i + 1 \in S
  <2> DEFINE x == c[e[i]]
             y == c[e[i + 1]]
  <2>1. i + 1 \in 1 .. n /\ (i + 1) - 1 = i /\ i \in Nat /\ i + 1 \in 0 .. n
    BY <1>1
  <2>2. /\ y = x \/ y = x + 1
        /\ i + 1 = k => y = x
        /\ x \in Nat /\ y \in Nat
    BY <1>11, <2>1
  <2>3. x <= i /\ (k <= i => x <= i - 1)
    BY <1>13
  <2> HIDE DEF x, y
  <2>4. k \in Nat
    BY <1>4
  <2>5. y <= i + 1 /\ (k <= i + 1 => y <= (i + 1) - 1)
    BY <2>1, <2>2, <2>3, <2>4
  <2> QED BY <2>1, <2>2, <2>5 DEF y
<1>14. 0 .. n \subseteq S
  <2> HIDE DEF S, n
  <2> QED BY <1>1, <1>12, <1>13, IntervalInduction
<1>15. c[e[n]] <= n - 1 /\ c[e[n]] \in Nat
  BY <1>1, <1>4, <1>14
<1>16. Len(r) # n
  <2>1. Len(r) = c[e[n]]
    BY <1>9 DEF N
  <2> HIDE DEF n, r
  <2> QED BY <1>1, <1>15, <2>1
<1> QED BY <1>16 DEF r, N, n

(* What is read of the pattern of a value is the value, if it holds no     *)
(* backslash, and else is not.                                             *)
LEMMA PatternReads ==
    ASSUME NEW T, NEW v \in Seq(T), NEW type
    PROVE  LET read == StixLiteral(StixPattern(type, v))
           IN  read.whole /\ read.value = v <=> ~Contains(v, "\\")
<1> DEFINE p == StixPattern(type, v)
           body == SubSeq(p, 5, Len(p))
           read == StixLiteral(p)
           n == Len(v)
<1> HIDE DEF p
<1>1. PICK e : Literal(v, e, body)
  BY LiteralExists DEF p
<1>2. PICK U : body \in Seq(U)
  BY LiteralExists DEF p
<1> HIDE DEF body
<1>3. Len(body) \in Nat /\ n \in Nat
  BY <1>2, LenProperties
<1>4. PICK f : /\ Escapes(f, body)
               /\ read.whole = (Ending(body, f) = Len(body) - 1)
               /\ read.value = Taken(body, f, Ending(body, f) - 1)
  BY <1>3, LiteralIs DEF body
<1> HIDE DEF read
<1>5. Len(body) - 1 = e[n] + 1 /\ (e[n] + 1) - 1 = e[n]
  <2>1. n \in 0 .. n
    BY <1>3
  <2>2. Len(body) = e[n] + 2 /\ e[n] \in Nat
    BY <1>1, <2>1 DEF Literal
  <2> QED BY <2>2
<1>6. CASE ~Contains(v, "\\")
  <2>1. \A i \in 1 .. n : v[i] # "\\"
    BY <1>6 DEF Contains
  <2>2. Ending(body, f) = e[n] + 1
    BY <1>1, <1>3, <1>4, <2>1, EndsWhole
  <2>3. Taken(body, f, e[n]) = v
    BY <1>1, <1>2, <1>4, <2>1, TakenWhole
  <2>4. read.whole /\ read.value = v
    BY <1>4, <1>5, <2>2, <2>3
  <2> QED BY <1>6, <2>4 DEF read, p
<1>7. CASE Contains(v, "\\")
  <2>1. \E i \in 1 .. n : v[i] = "\\"
    BY <1>7 DEF Contains
  <2>2. ASSUME read.whole PROVE read.value # v
    <3>1. Ending(body, f) = e[n] + 1
      BY <1>4, <1>5, <2>2
    <3>2. Taken(body, f, e[n]) # v
      BY <1>1, <1>2, <1>4, <2>1, <3>1, TakenLess
    <3> QED BY <1>4, <1>5, <3>1, <3>2
  <2> QED BY <1>7, <2>2 DEF read, p
<1> QED BY <1>6, <1>7

LEMMA HexType ==
    ASSUME NEW A, NEW s \in Seq(A), \A t \in A : Lower(t) \in A, NormalizeHex(s) # Invalid
    PROVE  NormalizeHex(s) \in Seq(A)
<1>1. NormalizeHex(s) = Lowered(s)
  BY DEF NormalizeHex
<1> QED BY <1>1, LoweredType

LEMMA AsnType ==
    ASSUME NEW A, "0" \in A, NEW s \in Seq(A), NormalizeAsn(s) # Invalid
    PROVE  NormalizeAsn(s) \in Seq(A)
<1> DEFINE t == TrimStart(s, {"A", "S", "a", "s"})
           d == IF t # <<>> /\ Head(t) = "+" THEN Tail(t) ELSE t
<1>1. t \in Seq(A)
  BY TrimStartType
<1>2. NormalizeAsn(s) = Printed(d)
  BY DEF NormalizeAsn
<1> HIDE DEF t
<1>3. d \in Seq(A)
  BY <1>1, HeadTailProperties
<1> HIDE DEF d
<1> QED BY <1>2, <1>3, PrintedType

(* What is stored of any type is a text.                                   *)
LEMMA StoredType ==
    ASSUME TextInv, IsText, Stored # Invalid
    PROVE  Stored \in Seq(Shown)
<1> DEFINE s == Trim(text)
<1>1. text \in Seq(Shown)
  BY DEF TextInv, Plain
<1>2. s \in Seq(Shown)
  BY <1>1, TrimType
<1>3. \A t \in Shown : Lower(t) \in Shown
  <2>1. "a" \in Shown /\ "http" \in Shown
    BY DEF Shown, Tokens
  <2> QED BY <2>1 DEF Lower
<1>4. "0" \in Shown /\ "." \in Shown
  BY DEF Shown, Tokens
<1>5. CASE kind \notin Normalizable
  BY <1>1, <1>5 DEF Stored
<1>6. CASE kind \in Normalizable
  <2>1. Stored = Normalize(kind, text)
    BY <1>6 DEF Stored
  <2>2. CASE kind = "domain"
    <3>1. Stored = NormalizeDomain(s)
      BY <2>1, <2>2 DEF Normalize
    <3> HIDE DEF s
    <3> QED BY <1>2, <1>3, <3>1, DomainType
  <2>3. CASE kind = "email"
    <3>1. Stored = NormalizeEmail(s)
      BY <2>1, <2>3 DEF Normalize
    <3> HIDE DEF s
    <3> QED BY <1>2, <1>3, <3>1, EmailType
  <2>4. CASE kind = "ipv4"
    <3>1. Stored = NormalizeIpv4(s)
      BY <2>1, <2>4 DEF Normalize
    <3> HIDE DEF s
    <3> QED BY <1>2, <1>4, <3>1, Ipv4Type
  <2>5. CASE kind = "hash"
    <3>1. Stored = NormalizeHex(s)
      BY <2>1, <2>5 DEF Normalize
    <3> HIDE DEF s
    <3> QED BY <1>2, <1>3, <3>1, HexType
  <2>6. CASE kind = "asn"
    <3>1. Stored = NormalizeAsn(s)
      BY <2>1, <2>6 DEF Normalize
    <3> HIDE DEF s
    <3> QED BY <1>2, <1>4, <3>1, AsnType
  <2>7. CASE kind = "other"
    <3>1. Stored = s
      BY <2>1, <2>7 DEF Normalize
    <3> QED BY <1>2, <3>1
  <2> QED BY <1>6, <2>2, <2>3, <2>4, <2>5, <2>6, <2>7 DEF Normalizable
<1> QED BY <1>5, <1>6

(* The value can be read back from the STIX pattern it was exported in,    *)
(* quotes and all, exactly if it holds no backslash, which write_stix()    *)
(* does not escape.                                                        *)
THEOREM AlwaysStixReadsBack == Spec => []StixReadsBack
<1>1. TextInv => StixReadsBack
  <2> SUFFICES ASSUME TextInv, IsText, Stored # Invalid
               PROVE  LET read == StixLiteral(StixPattern(kind, Stored))
                      IN  read.whole /\ read.value = Stored <=> ~Contains(Stored, "\\")
    BY DEF StixReadsBack
  <2> QED BY StoredType, PatternReads
<1> QED BY <1>1, TextInductive, PTL
=============================================================================
