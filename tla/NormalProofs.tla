---------------------------- MODULE NormalProofs ----------------------------
(***************************************************************************)
(* What normalize() gives for texts of any length is normal: normalizing   *)
(* it again changes nothing, except for a domain with a dot and a space.   *)
(* Each conversion cuts a part out of the text (Part), lowers it or prints *)
(* its numbers again, and finds nothing more to cut in what it gave.       *)
(***************************************************************************)
EXTENDS TextProofs
-----------------------------------------------------------------------------
(* What normalizing cuts out of a text: r are the tokens behind the first  *)
(* a of s.                                                                 *)
Part(r, s, a) == /\ a \in Nat /\ a + Len(r) <= Len(s)
                 /\ \A k \in 1 .. Len(r) : r[k] = s[a + k]

LEMMA PartOfPart ==
    ASSUME NEW A, NEW s \in Seq(A), NEW r \in Seq(A), NEW q \in Seq(A),
           NEW a, NEW b, Part(r, s, a), Part(q, r, b)
    PROVE  Part(q, s, a + b)
<1> DEFINE x == Len(q)
           y == Len(r)
           z == Len(s)
<1>1. x \in Nat /\ y \in Nat /\ z \in Nat /\ a \in Nat /\ b \in Nat /\ a + y <= z /\ b + x <= y
  BY LenProperties DEF Part
<1>2. ASSUME NEW k \in 1 .. x PROVE q[k] = s[(a + b) + k]
  <2>1. q[k] = r[b + k]
    BY DEF Part
  <2> HIDE DEF x, y, z
  <2>2. b + k \in 1 .. y /\ a + (b + k) = (a + b) + k
    BY <1>1
  <2>3. r[b + k] = s[a + (b + k)]
    BY <2>2 DEF Part, y
  <2> QED BY <2>1, <2>2, <2>3
<1> HIDE DEF x, y, z
<1>3. a + b \in Nat /\ (a + b) + x <= z
  BY <1>1
<1> QED BY <1>2, <1>3 DEF Part, x, z

LEMMA WholePart ==
    ASSUME NEW A, NEW s \in Seq(A), NEW r \in Seq(A), Part(r, s, 0), Len(r) = Len(s)
    PROVE  r = s
<1>1. Len(s) \in Nat
  BY LenProperties
<1>2. \A k \in 1 .. Len(s) : r[k] = s[k]
  <2>1. \A k \in 1 .. Len(s) : 0 + k = k
    BY <1>1
  <2> QED BY <2>1 DEF Part
<1> QED BY <1>2, SeqEqual

LEMMA SubPart ==
    ASSUME NEW A, NEW s \in Seq(A), NEW m \in 1 .. Len(s) + 1, NEW k \in 0 .. Len(s),
           m <= k + 1
    PROVE  /\ Part(SubSeq(s, m, k), s, m - 1) /\ Len(SubSeq(s, m, k)) = k - m + 1
           /\ SubSeq(s, m, k) \in Seq(A)
<1> DEFINE r == SubSeq(s, m, k)
           n == Len(s)
<1>1. n \in Nat
  BY LenProperties
<1>2. m \in Int /\ k \in Int /\ \A j \in m .. k : j \in 1 .. n
  BY <1>1
<1>3. \A j \in m .. k : s[j] \in A
  BY <1>2, ElementOfSeq
<1>4. /\ r \in Seq(A) /\ Len(r) = IF m <= k THEN k - m + 1 ELSE 0
      /\ \A i \in 1 .. k - m + 1 : r[i] = s[m + i - 1]
  BY <1>2, <1>3, SubSeqProperties
<1> HIDE DEF r, n
<1>5. Len(r) = k - m + 1
  BY <1>1, <1>4 DEF n
<1>6. m - 1 \in Nat /\ (m - 1) + (k - m + 1) <= n
  BY <1>1 DEF n
<1>7. \A i \in 1 .. k - m + 1 : m + i - 1 = (m - 1) + i
  BY <1>2
<1>8. Part(r, s, m - 1)
  BY <1>4, <1>5, <1>6, <1>7 DEF Part, n
<1> QED BY <1>4, <1>5, <1>8 DEF r

LEMMA TrimStartIs ==
    ASSUME NEW A, NEW s \in Seq(A), NEW T
    PROVE  \E a : /\ Part(TrimStart(s, T), s, a) /\ a + Len(TrimStart(s, T)) = Len(s)
                  /\ Len(TrimStart(s, T)) # 0 => TrimStart(s, T)[1] \notin T
                  /\ \A k \in 1 .. a : s[k] \in T
<1> DEFINE n == Len(s)
           I == {i \in 1 .. n : s[i] \notin T}
           r == TrimStart(s, T)
<1>1. n \in Nat
  BY LenProperties
<1>2. SelectInSeq(s, LAMBDA t : t \notin T) = IF I # {} THEN Min(I) ELSE 0
  BY DEF SelectInSeq
<1>3. CASE I = {}
  <2>1. r = <<>>
    BY <1>2, <1>3 DEF TrimStart
  <2>2. Len(r) = 0
    BY <2>1
  <2>3. \A k \in 1 .. n : s[k] \in T
    BY <1>3
  <2> HIDE DEF r, I
  <2>4. Part(r, s, n) /\ n + Len(r) = n
    BY <1>1, <2>2 DEF Part
  <2> QED BY <2>2, <2>3, <2>4 DEF r, n
<1>4. CASE I # {}
  <2> DEFINE i == Min(I)
  <2>1. i \in I /\ \A j \in I : i <= j
    <3>1. I \subseteq Nat
      OBVIOUS
    <3> HIDE DEF I
    <3> QED BY <1>4, <3>1, MinIn
  <2>2. i \in 1 .. n /\ i # 0 /\ s[i] \notin T
    BY <2>1
  <2>3. r = SubSeq(s, i, n)
    BY <1>2, <1>4, <2>2 DEF TrimStart
  <2> HIDE DEF i
  <2>4. ASSUME NEW k \in 1 .. i - 1 PROVE s[k] \in T
    <3>1. k \in 1 .. n /\ ~(i <= k)
      BY <1>1, <2>2
    <3>2. k \notin I
      BY <2>1, <3>1
    <3> QED BY <3>1, <3>2
  <2> HIDE DEF I, r
  <2>5. i \in 1 .. n + 1 /\ n \in 0 .. n /\ i <= n + 1
    BY <1>1, <2>2
  <2>6. Part(r, s, i - 1) /\ Len(r) = n - i + 1
    BY <2>3, <2>5, SubPart
  <2>7. /\ (i - 1) + (n - i + 1) = n /\ (i - 1) + 1 = i /\ 1 \in 1 .. n - i + 1
    BY <1>1, <2>2
  <2>8. r[1] = s[i]
    BY <2>6, <2>7 DEF Part
  <2> QED BY <2>2, <2>4, <2>6, <2>7, <2>8 DEF r, n
<1> QED BY <1>3, <1>4

LEMMA TrimEndIs ==
    ASSUME NEW A, NEW s \in Seq(A), NEW T
    PROVE  /\ Part(TrimEnd(s, T), s, 0)
           /\ Len(TrimEnd(s, T)) # 0 => TrimEnd(s, T)[Len(TrimEnd(s, T))] \notin T
           /\ \A k \in Len(TrimEnd(s, T)) + 1 .. Len(s) : s[k] \in T
<1> DEFINE n == Len(s)
           I == {i \in 1 .. n : s[i] \notin T}
           i == IF I # {} THEN Max(I) ELSE 0
           r == TrimEnd(s, T)
<1>1. n \in Nat
  BY LenProperties
<1>2. r = SubSeq(s, 1, i)
  BY DEF SelectLastInSeq, TrimEnd
<1>3. /\ i \in 0 .. n /\ (i # 0 => s[i] \notin T)
      /\ \A k \in i + 1 .. n : s[k] \in T
  <2>1. CASE I = {}
    <3>1. i = 0
      BY <2>1
    <3>2. \A k \in 0 + 1 .. n : k \in 1 .. n
      BY <1>1
    <3>3. \A k \in 0 + 1 .. n : s[k] \in T
      BY <2>1, <3>2
    <3> HIDE DEF i
    <3> QED BY <1>1, <3>1, <3>3
  <2>2. CASE I # {}
    <3>1. i = Max(I)
      BY <2>2
    <3>2. Max(I) \in I /\ \A j \in I : j <= Max(I)
      <4>1. I \subseteq 0 .. n
        OBVIOUS
      <4> HIDE DEF I, n
      <4> QED BY <1>1, <2>2, <4>1, MaxIn
    <3> HIDE DEF i
    <3>3. i \in 1 .. n /\ s[i] \notin T /\ \A j \in I : j <= i
      BY <3>1, <3>2
    <3>4. ASSUME NEW k \in i + 1 .. n PROVE s[k] \in T
      <4>1. k \in 1 .. n /\ ~(k <= i)
        BY <1>1, <3>3
      <4>2. k \notin I
        BY <3>3, <4>1
      <4> QED BY <4>1, <4>2
    <3> QED BY <3>3, <3>4
  <2> QED BY <2>1, <2>2
<1> HIDE DEF i, r
<1>4. 1 \in 1 .. n + 1 /\ 1 <= i + 1 /\ 1 - 1 = 0 /\ i - 1 + 1 = i
  BY <1>1, <1>3
<1>5. Part(r, s, 1 - 1) /\ Len(r) = i - 1 + 1
  BY <1>2, <1>3, <1>4, SubPart
<1>6. Part(r, s, 0) /\ Len(r) = i
  BY <1>4, <1>5
<1>7. i # 0 => r[i] \notin T
  <2>1. i # 0 => i \in 1 .. i /\ 0 + i = i
    BY <1>3
  <2>2. i # 0 => r[i] = s[i]
    BY <1>6, <2>1 DEF Part
  <2> QED BY <1>3, <2>2
<1> QED BY <1>3, <1>6, <1>7 DEF r, n

LEMMA TrimStartSame ==
    ASSUME NEW A, NEW s \in Seq(A), NEW T, Len(s) # 0 => s[1] \notin T
    PROVE  TrimStart(s, T) = s
<1> DEFINE r == TrimStart(s, T)
<1>1. PICK a : /\ Part(r, s, a) /\ a + Len(r) = Len(s)
               /\ \A k \in 1 .. a : s[k] \in T
  BY TrimStartIs
<1>2. r \in Seq(A)
  BY TrimStartType
<1> HIDE DEF r
<1>3. a \in Nat /\ Len(r) \in Nat /\ Len(s) \in Nat
  BY <1>1, <1>2, LenProperties DEF Part
<1>4. a = 0
  <2> SUFFICES ASSUME a # 0 PROVE FALSE
    OBVIOUS
  <2>1. 1 \in 1 .. a /\ Len(s) # 0
    BY <1>1, <1>3
  <2> QED BY <1>1, <2>1
<1>5. Len(r) = Len(s)
  BY <1>1, <1>3, <1>4
<1>6. r = s
  BY <1>1, <1>2, <1>4, <1>5, WholePart
<1> QED BY <1>6 DEF r

LEMMA TrimEndSame ==
    ASSUME NEW A, NEW s \in Seq(A), NEW T, Len(s) # 0 => s[Len(s)] \notin T
    PROVE  TrimEnd(s, T) = s
<1> DEFINE r == TrimEnd(s, T)
<1>1. /\ Part(r, s, 0)
      /\ \A k \in Len(r) + 1 .. Len(s) : s[k] \in T
  BY TrimEndIs
<1>2. r \in Seq(A)
  BY TrimEndType
<1> HIDE DEF r
<1>3. Len(r) \in Nat /\ Len(s) \in Nat /\ 0 + Len(r) <= Len(s)
  BY <1>1, <1>2, LenProperties DEF Part
<1>4. Len(r) = Len(s)
  <2> SUFFICES ASSUME Len(r) # Len(s) PROVE FALSE
    OBVIOUS
  <2>1. Len(s) \in Len(r) + 1 .. Len(s) /\ Len(s) # 0
    BY <1>3
  <2> QED BY <1>1, <2>1
<1>5. r = s
  BY <1>1, <1>2, <1>4, WholePart
<1> QED BY <1>5 DEF r

(* Neither starts nor ends with a space.                                   *)
Trimmed(s) == Len(s) # 0 => s[1] # " " /\ s[Len(s)] # " "

LEMMA TrimIs ==
    ASSUME NEW A, NEW s \in Seq(A)
    PROVE  /\ Trimmed(Trim(s))
           /\ \E a : /\ Part(Trim(s), s, a)
                     /\ \A k \in a + Len(Trim(s)) + 1 .. Len(s) : s[k] = " "
<1> DEFINE u == TrimStart(s, {" "})
           r == TrimEnd(u, {" "})
<1>1. Trim(s) = r
  BY DEF Trim
<1>2. PICK a : /\ Part(u, s, a) /\ a + Len(u) = Len(s)
               /\ Len(u) # 0 => u[1] \notin {" "}
  BY TrimStartIs
<1>3. u \in Seq(A)
  BY TrimStartType
<1> HIDE DEF u
<1>4. /\ Part(r, u, 0)
      /\ Len(r) # 0 => r[Len(r)] \notin {" "}
      /\ \A k \in Len(r) + 1 .. Len(u) : u[k] \in {" "}
  BY <1>3, TrimEndIs
<1>5. r \in Seq(A)
  BY <1>3, TrimEndType
<1> HIDE DEF r
<1>6. /\ Len(r) \in Nat /\ Len(u) \in Nat /\ Len(s) \in Nat /\ a \in Nat
      /\ 0 + Len(r) <= Len(u) /\ a + 0 = a
  <2>1. Len(r) \in Nat /\ Len(u) \in Nat /\ Len(s) \in Nat
    BY <1>3, <1>5, LenProperties
  <2>2. a \in Nat /\ 0 + Len(r) <= Len(u)
    BY <1>2, <1>4 DEF Part
  <2> QED BY <2>1, <2>2
<1>7. Part(r, s, a)
  <2>1. Part(r, s, a + 0)
    BY <1>2, <1>3, <1>4, <1>5, PartOfPart
  <2> QED BY <1>6, <2>1
<1>8. Trimmed(r)
  <2> SUFFICES ASSUME Len(r) # 0 PROVE r[1] # " " /\ r[Len(r)] # " "
    BY DEF Trimmed
  <2>1. 1 \in 1 .. Len(r) /\ 0 + 1 = 1 /\ Len(u) # 0
    BY <1>6
  <2>2. r[1] = u[1]
    BY <1>4, <2>1 DEF Part
  <2> QED BY <1>2, <1>4, <2>1, <2>2
<1>9. ASSUME NEW k \in a + Len(r) + 1 .. Len(s) PROVE s[k] = " "
  <2> DEFINE x == Len(r)
             y == Len(u)
             z == Len(s)
  <2>1. x \in Nat /\ y \in Nat /\ z \in Nat /\ a \in Nat /\ a + y = z /\ k \in a + x + 1 .. z
    BY <1>2, <1>6
  <2> HIDE DEF x, y, z
  <2>2. k - a \in x + 1 .. y /\ k - a \in 1 .. y /\ a + (k - a) = k
    BY <2>1
  <2>3. /\ k - a \in Len(r) + 1 .. Len(u) /\ k - a \in 1 .. Len(u) /\ a + (k - a) = k
    BY <2>2 DEF x, y
  <2>4. u[k - a] = " " /\ u[k - a] = s[a + (k - a)]
    BY <1>2, <1>4, <2>3 DEF Part
  <2> QED BY <2>3, <2>4
<1> QED BY <1>1, <1>7, <1>8, <1>9

LEMMA TrimSame ==
    ASSUME NEW A, NEW s \in Seq(A), Trimmed(s)
    PROVE  Trim(s) = s
<1>1. TrimStart(s, {" "}) = s
  BY TrimStartSame DEF Trimmed
<1>2. TrimEnd(s, {" "}) = s
  BY TrimEndSame DEF Trimmed
<1> QED BY <1>1, <1>2 DEF Trim
-----------------------------------------------------------------------------
LEMMA LowerAgain ==
    ASSUME NEW t
    PROVE  /\ Lower(Lower(t)) = Lower(t)
           /\ \A m \in {" ", ".", "@"} : Lower(t) = m <=> t = m
BY DEF Lower

LEMMA LoweredIs ==
    ASSUME NEW A, NEW s \in Seq(A)
    PROVE  /\ Len(Lowered(s)) = Len(s)
           /\ \A i \in 1 .. Len(s) : Lowered(s)[i] = Lower(s[i])
           /\ Lowered(Lowered(s)) = Lowered(s)
           /\ \E B : Lowered(s) \in Seq(B)
<1> DEFINE n == Len(s)
           r == Lowered(s)
           B == {Lower(s[i]) : i \in 1 .. n}
<1>1. n \in Nat /\ DOMAIN s = 1 .. n
  BY LenProperties
<1>2. r = [i \in 1 .. n |-> Lower(s[i])]
  BY <1>1 DEF Lowered
<1> HIDE DEF r
<1>3. \A i \in 1 .. n : r[i] = Lower(s[i])
  BY <1>2
<1>4. r \in [1 .. n -> B]
  BY <1>2
<1> HIDE DEF B
<1>5. r \in Seq(B) /\ Len(r) = n
  BY <1>1, <1>4, FunctionSeq
<1>6. Lowered(r) = [i \in 1 .. n |-> Lower(r[i])]
  <2>1. DOMAIN r = 1 .. n
    BY <1>4
  <2> QED BY <2>1 DEF Lowered
<1>7. \A i \in 1 .. n : Lower(r[i]) = Lower(s[i])
  BY <1>3, LowerAgain
<1>8. Lowered(r) = r
  BY <1>2, <1>6, <1>7
<1> QED BY <1>3, <1>5, <1>8 DEF r

LEMMA LoweredTrimmed ==
    ASSUME NEW A, NEW s \in Seq(A), Trimmed(s)
    PROVE  Trimmed(Lowered(s))
<1>1. Len(Lowered(s)) = Len(s) /\ \A i \in 1 .. Len(s) : Lowered(s)[i] = Lower(s[i])
  BY LoweredIs
<1>2. Len(s) \in Nat
  BY LenProperties
<1> SUFFICES ASSUME Len(s) # 0
             PROVE  Lowered(s)[1] # " " /\ Lowered(s)[Len(s)] # " "
  BY <1>1 DEF Trimmed
<1>3. 1 \in 1 .. Len(s) /\ Len(s) \in 1 .. Len(s)
  BY <1>2
<1>4. Lowered(s)[1] = Lower(s[1]) /\ Lowered(s)[Len(s)] = Lower(s[Len(s)])
  BY <1>1, <1>3
<1>5. s[1] # " " /\ s[Len(s)] # " "
  BY DEF Trimmed
<1>6. \A t : Lower(t) = " " => t = " "
  BY DEF Lower
<1> QED BY <1>4, <1>5, <1>6

(* A dot and a space behind it.                                            *)
LEMMA NextPlaces ==
    ASSUME NEW n \in Nat, NEW i \in 1 .. n, i + 1 <= n
    PROVE  /\ i \in 1 .. n + 1 /\ n \in 0 .. n /\ i <= n + 1
           /\ 2 <= n - i + 1 /\ 1 \in 1 .. n - i + 1 /\ 2 \in 1 .. n - i + 1
           /\ n - i + 1 \in Nat /\ (i - 1) + 1 = i /\ (i - 1) + 2 = i + 1
OBVIOUS

LEMMA TwoPlaces ==
    /\ 1 \in 1 .. 2 + 1 /\ 2 \in 0 .. 2 /\ 1 <= 2 + 1 /\ 1 - 1 = 0 /\ 2 - 1 + 1 = 2
    /\ 1 \in 1 .. 2 /\ 2 \in 1 .. 2 /\ 0 + 1 = 1 /\ 0 + 2 = 2
    /\ \A k \in 1 .. 2 : k = 1 \/ k = 2
OBVIOUS

LEMMA DotSpaceText ==
    LET q == <<".", " ">>
    IN  q \in Seq({".", " "}) /\ Len(q) = 2 /\ 2 <= Len(q) /\ q[1] = "." /\ q[2] = " "
OBVIOUS

LEMMA FirstTwo ==
    ASSUME NEW A, NEW r \in Seq(A), 2 <= Len(r)
    PROVE  LET y == SubSeq(r, 1, 2)
           IN  y \in Seq(A) /\ Len(y) = 2 /\ y[1] = r[1] /\ y[2] = r[2]
<1> DEFINE y == SubSeq(r, 1, 2)
           n == Len(r)
<1>1. n \in Nat /\ 2 <= n
  BY LenProperties
<1> HIDE DEF n
<1>2. 1 \in 1 .. n + 1 /\ 2 \in 0 .. n
  BY <1>1
<1>3. Part(y, r, 1 - 1) /\ Len(y) = 2 - 1 + 1 /\ y \in Seq(A)
  BY <1>2, TwoPlaces, SubPart DEF n
<1> HIDE DEF y
<1>4. Part(y, r, 0) /\ Len(y) = 2
  BY <1>3, TwoPlaces
<1>5. y[1] = r[0 + 1] /\ y[2] = r[0 + 2]
  BY <1>4, TwoPlaces DEF Part
<1> QED BY <1>3, <1>4, <1>5, TwoPlaces DEF y

LEMMA PrefixTwo ==
    ASSUME NEW A, NEW r \in Seq(A), 2 <= Len(r), r[1] = ".", r[2] = " "
    PROVE  IsPrefix(<<".", " ">>, r)
<1> DEFINE q == <<".", " ">>
           x == SubSeq(q, 1, 2)
           y == SubSeq(r, 1, 2)
           B == A \cup {".", " "}
<1>1. q \in Seq({".", " "}) /\ Len(q) = 2 /\ q[1] = "." /\ q[2] = " "
  BY DotSpaceText
<1>2. 2 <= Len(q)
  BY DotSpaceText
<1> HIDE DEF q
<1>3. x \in Seq({".", " "}) /\ Len(x) = 2 /\ x[1] = "." /\ x[2] = " "
  BY <1>1, <1>2, FirstTwo
<1>4. y \in Seq(A) /\ Len(y) = 2 /\ y[1] = "." /\ y[2] = " "
  BY FirstTwo
<1> HIDE DEF x, y
<1>5. x \in Seq(B) /\ y \in Seq(B)
  BY <1>3, <1>4, SeqMonotonic
<1> HIDE DEF B
<1>6. \A k \in 1 .. Len(x) : x[k] = y[k]
  BY <1>3, <1>4, TwoPlaces
<1>7. x = y
  BY <1>3, <1>4, <1>5, <1>6, SeqEqual
<1> QED BY <1>1, <1>2, <1>7 DEF IsPrefix, x, y, q

HasDotSpace(s) == \E i \in 1 .. Len(s) : i + 1 <= Len(s) /\ s[i] = "." /\ s[i + 1] = " "

LEMMA DotSpaceAt ==
    ASSUME NEW A, NEW s \in Seq(A), HasDotSpace(s)
    PROVE  \E i \in DOMAIN s : IsPrefix(<<".", " ">>, SubSeq(s, i, Len(s)))
<1> DEFINE n == Len(s)
<1>1. n \in Nat /\ DOMAIN s = 1 .. n
  BY LenProperties
<1>2. PICK i \in 1 .. n : i + 1 <= n /\ s[i] = "." /\ s[i + 1] = " "
  BY DEF HasDotSpace
<1> DEFINE r == SubSeq(s, i, n)
<1> HIDE DEF n
<1>3. /\ i \in 1 .. n + 1 /\ n \in 0 .. n /\ i <= n + 1
      /\ 2 <= n - i + 1 /\ 1 \in 1 .. n - i + 1 /\ 2 \in 1 .. n - i + 1
      /\ n - i + 1 \in Nat /\ (i - 1) + 1 = i /\ (i - 1) + 2 = i + 1
  BY <1>1, <1>2, NextPlaces
<1>4. Part(r, s, i - 1) /\ Len(r) = n - i + 1 /\ r \in Seq(A)
  BY <1>3, SubPart DEF n
<1> HIDE DEF r
<1>5. r[1] = "." /\ r[2] = " "
  <2>1. r[1] = s[(i - 1) + 1] /\ r[2] = s[(i - 1) + 2]
    BY <1>3, <1>4 DEF Part
  <2> QED BY <1>2, <1>3, <2>1
<1>6. 2 <= Len(r)
  BY <1>3, <1>4
<1>7. IsPrefix(<<".", " ">>, r)
  BY <1>4, <1>5, <1>6, PrefixTwo
<1> QED BY <1>1, <1>7 DEF r, n

LEMMA InnerPlaces ==
    ASSUME NEW n \in Nat, NEW m \in Nat, NEW a \in Nat, a + m <= n,
           NEW i \in 1 .. m, i + 1 <= m
    PROVE  /\ i + 1 \in 1 .. m /\ a + i \in 1 .. n /\ (a + i) + 1 <= n
           /\ (a + i) + 1 = a + (i + 1)
OBVIOUS

LEMMA DotSpacePart ==
    ASSUME NEW A, NEW s \in Seq(A), NEW r \in Seq(A), NEW a, Part(r, s, a),
           HasDotSpace(r)
    PROVE  HasDotSpace(s)
<1> DEFINE n == Len(s)
           m == Len(r)
<1>1. n \in Nat /\ m \in Nat /\ a \in Nat /\ a + m <= n
  BY LenProperties DEF Part
<1>2. PICK i \in 1 .. m : i + 1 <= m /\ r[i] = "." /\ r[i + 1] = " "
  BY DEF HasDotSpace
<1> HIDE DEF n, m
<1>3. i + 1 \in 1 .. m /\ a + i \in 1 .. n /\ (a + i) + 1 <= n /\ (a + i) + 1 = a + (i + 1)
  <2>1. i \in 1 .. m /\ i + 1 <= m
    BY <1>2
  <2> QED BY <1>1, <2>1, InnerPlaces
<1>4. s[a + i] = r[i] /\ s[a + (i + 1)] = r[i + 1]
  BY <1>2, <1>3 DEF Part, m
<1>5. s[a + i] = "." /\ s[(a + i) + 1] = " "
  BY <1>2, <1>3, <1>4
<1> QED BY <1>3, <1>5 DEF HasDotSpace, n

(* A domain's dots and spaces at the end are cut once: only with spaces    *)
(* between them are some left.                                             *)
LEMMA DomainIs ==
    ASSUME NEW A, NEW s \in Seq(A), NormalizeDomain(s) # Invalid
    PROVE  LET d == NormalizeDomain(s)
           IN  /\ \E B : d \in Seq(B)
               /\ Len(d) # 0 /\ Trimmed(d) /\ Lowered(d) = d
               /\ d[Len(d)] = "." => HasDotSpace(s)
               /\ (\A k \in 1 .. Len(s) : s[k] # "@") => \A k \in 1 .. Len(d) : d[k] # "@"
<1> DEFINE u == TrimEnd(s, {"."})
           h == Trim(u)
           d == NormalizeDomain(s)
<1>1. h # <<>> /\ d = Lowered(h)
  BY DEF NormalizeDomain, DomainToAscii
<1>2. /\ Part(u, s, 0)
      /\ Len(u) # 0 => u[Len(u)] \notin {"."}
  BY TrimEndIs
<1>3. u \in Seq(A)
  BY TrimEndType
<1> HIDE DEF u, d
<1>4. Trimmed(h)
  BY <1>3, TrimIs
<1>5. PICK a : /\ Part(h, u, a)
               /\ \A k \in a + Len(h) + 1 .. Len(u) : u[k] = " "
  BY <1>3, TrimIs
<1>6. h \in Seq(A)
  BY <1>3, TrimType
<1> HIDE DEF h
<1> DEFINE l == Len(h)
           m == Len(u)
           n == Len(s)
<1>7. l \in Nat /\ m \in Nat /\ n \in Nat /\ l # 0
  BY <1>1, <1>3, <1>6, LenProperties, EmptySeq
<1>8. a \in Nat /\ a + l <= m /\ m <= n
  <2>1. 0 + m <= n /\ a \in Nat /\ a + l <= m
    BY <1>2, <1>5 DEF Part
  <2> QED BY <1>7, <2>1
<1>9. Len(d) = l /\ Lowered(d) = d /\ Trimmed(d) /\ \E B : d \in Seq(B)
  BY <1>1, <1>4, <1>6, LoweredIs, LoweredTrimmed
<1>10. \A i \in 1 .. l : d[i] = Lower(h[i])
  BY <1>1, <1>6, LoweredIs
<1>11. ASSUME d[l] = "." PROVE HasDotSpace(s)
  <2>1. l \in 1 .. l
    BY <1>7
  <2>2. h[l] = "."
    <3>1. d[l] = Lower(h[l])
      BY <1>10, <2>1
    <3>2. \A t : Lower(t) = "." => t = "."
      BY DEF Lower
    <3> QED BY <1>11, <3>1, <3>2
  <2>3. u[a + l] = "."
    BY <1>5, <2>1, <2>2 DEF Part
  <2>4. m # 0 /\ m # a + l
    <3>1. m # 0
      <4> HIDE DEF l, m, n
      <4> QED BY <1>7, <1>8
    <3> QED BY <1>2, <2>3, <3>1
  <2>5. /\ a + l \in 1 .. m /\ (a + l) + 1 <= m
        /\ (a + l) + 1 \in a + l + 1 .. m
    <3> HIDE DEF l, m, n
    <3> QED BY <1>7, <1>8, <2>4
  <2>6. u[(a + l) + 1] = " "
    BY <1>5, <2>5
  <2>7. HasDotSpace(u)
    <3> HIDE DEF l
    <3> QED BY <2>3, <2>5, <2>6 DEF HasDotSpace
  <2> QED BY <1>2, <1>3, <2>7, DotSpacePart
<1>12. ASSUME \A k \in 1 .. n : s[k] # "@", NEW k \in 1 .. l PROVE d[k] # "@"
  <2>1. Part(h, s, 0 + a)
    BY <1>2, <1>3, <1>5, <1>6, PartOfPart
  <2>2. (0 + a) + k \in 1 .. n
    <3> HIDE DEF l, m, n
    <3> QED BY <1>7, <1>8
  <2>3. h[k] # "@"
    BY <1>12, <2>1, <2>2 DEF Part
  <2> QED BY <1>10, <2>3, LowerAgain
<1> QED BY <1>7, <1>9, <1>11, <1>12 DEF d

LEMMA DomainSame ==
    ASSUME NEW A, NEW d \in Seq(A), Trimmed(d), Len(d) # 0, d[Len(d)] # ".", Lowered(d) = d
    PROVE  NormalizeDomain(d) = d
<1>1. TrimEnd(d, {"."}) = d
  BY TrimEndSame
<1>2. Trim(d) = d
  BY TrimSame
<1>3. d # <<>>
  BY EmptySeq
<1> QED BY <1>1, <1>2, <1>3 DEF NormalizeDomain, DomainToAscii

LEMMA LowerDigits ==
    \A t : t \in Digits \cup {"a", "A"} => Lower(t) \in Digits \cup {"a", "A"}
BY DEF Lower, Digits

LEMMA OtherSame ==
    ASSUME NEW A, NEW s \in Seq(A), Normalize("other", s) # Invalid
    PROVE  Normalize("other", Normalize("other", s)) = Normalize("other", s)
<1> DEFINE r == Trim(s)
<1>1. r \in Seq(A) /\ Trimmed(r)
  BY TrimIs, TrimType
<1>2. Normalize("other", s) = r /\ r # <<>>
  BY DEF Normalize
<1> HIDE DEF r
<1>3. Trim(r) = r
  BY <1>1, TrimSame
<1>4. Normalize("other", r) = r
  BY <1>2, <1>3 DEF Normalize
<1> QED BY <1>2, <1>4

LEMMA HashSame ==
    ASSUME NEW A, NEW s \in Seq(A), Normalize("hash", s) # Invalid
    PROVE  Normalize("hash", Normalize("hash", s)) = Normalize("hash", s)
<1> DEFINE u == Trim(s)
           r == Lowered(u)
<1>1. u \in Seq(A) /\ Trimmed(u)
  BY TrimIs, TrimType
<1>2. /\ Normalize("hash", s) = r /\ Len(u) = HexLen
      /\ ToSet(u) \subseteq Digits \cup {"a", "A"}
  BY DEF Normalize, NormalizeHex
<1> HIDE DEF u
<1>3. /\ Len(r) = Len(u) /\ Lowered(r) = r /\ \E B : r \in Seq(B)
      /\ \A i \in 1 .. Len(u) : r[i] = Lower(u[i])
  BY <1>1, LoweredIs
<1>4. Trimmed(r)
  BY <1>1, LoweredTrimmed
<1> HIDE DEF r
<1>5. Trim(r) = r
  BY <1>3, <1>4, TrimSame
<1>6. ToSet(r) \subseteq Digits \cup {"a", "A"}
  <2>1. DOMAIN r = 1 .. Len(u) /\ DOMAIN u = 1 .. Len(u)
    BY <1>1, <1>3, LenProperties
  <2>2. ASSUME NEW i \in 1 .. Len(u) PROVE r[i] \in Digits \cup {"a", "A"}
    <3>1. u[i] \in ToSet(u)
      BY <2>1 DEF ToSet
    <3>2. Lower(u[i]) \in Digits \cup {"a", "A"}
      BY <1>2, <3>1, LowerDigits
    <3> QED BY <1>3, <3>2
  <2> QED BY <2>1, <2>2 DEF ToSet
<1>7. Normalize("hash", r) = r
  BY <1>2, <1>3, <1>5, <1>6 DEF Normalize, NormalizeHex
<1> QED BY <1>2, <1>7

LEMMA DomainFound ==
    ASSUME NEW A, NEW s \in Seq(A), Normalize("domain", s) # Invalid
    PROVE  \/ Normalize("domain", Normalize("domain", s)) = Normalize("domain", s)
           \/ HasDotSpace(s)
<1> DEFINE u == Trim(s)
           d == NormalizeDomain(u)
<1>1. u \in Seq(A)
  BY TrimType
<1>2. PICK a : Part(u, s, a)
  BY TrimIs
<1>3. Normalize("domain", s) = d
  BY DEF Normalize
<1> HIDE DEF u
<1>4. PICK B : d \in Seq(B)
  BY <1>1, <1>3, DomainIs
<1>5. /\ Len(d) # 0 /\ Trimmed(d) /\ Lowered(d) = d
      /\ d[Len(d)] = "." => HasDotSpace(u)
  BY <1>1, <1>3, DomainIs
<1> HIDE DEF d
<1>6. CASE d[Len(d)] = "."
  BY <1>1, <1>2, <1>5, <1>6, DotSpacePart
<1>7. CASE d[Len(d)] # "."
  <2>1. NormalizeDomain(d) = d /\ Trim(d) = d
    BY <1>4, <1>5, <1>7, DomainSame, TrimSame
  <2>2. Normalize("domain", d) = d
    BY <2>1 DEF Normalize
  <2> QED BY <1>3, <2>2
<1> QED BY <1>6, <1>7
(* Two texts joined by their parts.                                        *)
LEMMA PartIs ==
    ASSUME NEW A, NEW s \in Seq(A), NEW B, NEW r \in Seq(B), NEW a, Part(r, s, a), Len(r) # 0
    PROVE  SubSeq(s, a + 1, a + Len(r)) = r
<1> DEFINE n == Len(s)
           l == Len(r)
           q == SubSeq(s, a + 1, a + l)
<1>1. n \in Nat /\ l \in Nat /\ l # 0 /\ a \in Nat /\ a + l <= n
  BY LenProperties DEF Part
<1> HIDE DEF n, l
<1>2. /\ a + 1 \in 1 .. n + 1 /\ a + l \in 0 .. n /\ a + 1 <= (a + l) + 1
      /\ (a + 1) - 1 = a /\ (a + l) - (a + 1) + 1 = l
  BY <1>1
<1>3. Part(q, s, (a + 1) - 1) /\ Len(q) = (a + l) - (a + 1) + 1 /\ q \in Seq(A)
  BY <1>2, SubPart DEF n
<1> HIDE DEF q
<1>4. Part(q, s, a) /\ Len(q) = l
  BY <1>2, <1>3
<1>5. \A k \in 1 .. l : q[k] = r[k]
  BY <1>4 DEF Part, l
<1>6. q \in Seq(A \cup B) /\ r \in Seq(A \cup B)
  BY <1>3, SeqMonotonic
<1>7. q = r
  <2> DEFINE C == A \cup B
  <2>1. q \in Seq(C) /\ r \in Seq(C)
    BY <1>6
  <2> HIDE DEF C
  <2> QED BY <1>4, <1>5, <2>1, SeqEqual DEF l
<1> QED BY <1>7 DEF q, l

LEMMA JoinParts ==
    ASSUME NEW B, NEW u \in Seq(B), NEW v \in Seq(B)
    PROVE  LET w == u \o v
           IN  /\ w \in Seq(B) /\ Len(w) = Len(u) + Len(v)
               /\ Part(u, w, 0) /\ Part(v, w, Len(u))
<1> DEFINE w == u \o v
           l == Len(u)
           m == Len(v)
<1>1. l \in Nat /\ m \in Nat
  BY LenProperties
<1>2. w \in Seq(B) /\ Len(w) = l + m
  BY ConcatProperties
<1>3. \A i \in 1 .. Len(u) + Len(v) :
          w[i] = IF i <= Len(u) THEN u[i] ELSE v[i - Len(u)]
  BY ConcatProperties
<1>4. \A i \in 1 .. l + m : w[i] = IF i <= l THEN u[i] ELSE v[i - l]
  BY <1>3
<1> HIDE DEF w, l, m
<1>5. ASSUME NEW k \in 1 .. l PROVE u[k] = w[0 + k]
  <2>1. k \in 1 .. l + m /\ k <= l /\ 0 + k = k
    BY <1>1
  <2> QED BY <1>4, <2>1
<1>6. ASSUME NEW k \in 1 .. m PROVE v[k] = w[l + k]
  <2>1. l + k \in 1 .. l + m /\ ~(l + k <= l) /\ (l + k) - l = k
    BY <1>1
  <2> QED BY <1>4, <2>1
<1>7. 0 \in Nat /\ 0 + l <= l + m /\ l + m <= l + m
  BY <1>1
<1> QED BY <1>1, <1>2, <1>5, <1>6, <1>7 DEF Part, w, l, m

(* The last "@" of a text.                                                 *)
LEMMA LastAt ==
    ASSUME NEW A, NEW s \in Seq(A)
    PROVE  LET at == SelectLastInSeq(s, LAMBDA t : t = "@")
           IN  /\ at \in 0 .. Len(s) /\ (at # 0 => s[at] = "@")
               /\ \A k \in at + 1 .. Len(s) : s[k] # "@"
               /\ \A p \in 1 .. Len(s) :
                      s[p] = "@" /\ (\A k \in p + 1 .. Len(s) : s[k] # "@") => at = p
<1> DEFINE n == Len(s)
           I == {i \in 1 .. n : s[i] = "@"}
           i == IF I # {} THEN Max(I) ELSE 0
<1>1. n \in Nat
  BY LenProperties
<1>2. SelectLastInSeq(s, LAMBDA t : t = "@") = i
  BY DEF SelectLastInSeq
<1>3. /\ i \in 0 .. n /\ (i # 0 => s[i] = "@")
      /\ \A k \in i + 1 .. n : s[k] # "@"
  <2>1. CASE I = {}
    <3>1. i = 0
      BY <2>1
    <3>2. \A k \in 0 + 1 .. n : k \in 1 .. n
      BY <1>1
    <3>3. \A k \in 0 + 1 .. n : s[k] # "@"
      BY <2>1, <3>2
    <3> HIDE DEF i
    <3> QED BY <1>1, <3>1, <3>3
  <2>2. CASE I # {}
    <3>1. i = Max(I)
      BY <2>2
    <3>2. Max(I) \in I /\ \A j \in I : j <= Max(I)
      <4>1. I \subseteq 0 .. n
        OBVIOUS
      <4> HIDE DEF I, n
      <4> QED BY <1>1, <2>2, <4>1, MaxIn
    <3> HIDE DEF i
    <3>3. i \in 1 .. n /\ s[i] = "@" /\ \A j \in I : j <= i
      BY <3>1, <3>2
    <3>4. ASSUME NEW k \in i + 1 .. n PROVE s[k] # "@"
      <4>1. k \in 1 .. n /\ ~(k <= i)
        BY <1>1, <3>3
      <4>2. k \notin I
        BY <3>3, <4>1
      <4> QED BY <4>1, <4>2
    <3> QED BY <3>3, <3>4
  <2> QED BY <2>1, <2>2
<1> HIDE DEF i
<1>4. ASSUME NEW p \in 1 .. n, s[p] = "@", \A k \in p + 1 .. n : s[k] # "@"
      PROVE  i = p
  <2>1. ~(i < p)
    <3> SUFFICES ASSUME i < p PROVE FALSE
      OBVIOUS
    <3>1. p \in i + 1 .. n
      BY <1>1, <1>3
    <3> QED BY <1>3, <1>4, <3>1
  <2>2. ~(i > p)
    <3> SUFFICES ASSUME i > p PROVE FALSE
      OBVIOUS
    <3>1. i \in p + 1 .. n /\ i # 0
      BY <1>1, <1>3
    <3> QED BY <1>3, <1>4, <3>1
  <2> QED BY <1>3, <2>1, <2>2
<1> QED BY <1>2, <1>3, <1>4 DEF n

LEMMA AtPlaces ==
    ASSUME NEW n \in Nat, NEW at \in 2 .. n, NEW l \in Nat, l # 0
    PROVE  /\ 1 \in 1 .. n + 1 /\ at \in 0 .. n /\ 1 <= at + 1 /\ 1 - 1 = 0
           /\ at - 1 + 1 = at /\ at # 0 /\ 1 \in 1 .. at /\ at \in 1 .. at
           /\ 0 + 1 = 1 /\ 0 + at = at /\ at \in Nat /\ ~(at <= 1)
           /\ at \in 1 .. at + l /\ at + 1 \in 1 .. at + l /\ l \in 1 .. l /\ at + l # 0
OBVIOUS

LEMMA BehindAt ==
    ASSUME NEW n \in Nat, NEW at \in 2 .. n, NEW l \in Nat, NEW k \in at + 1 .. at + l
    PROVE  k - at \in 1 .. l /\ at + (k - at) = k
OBVIOUS

(* The domain of an address has no "@", so it is the last one that stays.  *)
LEMMA EmailSame ==
    ASSUME NEW A, NEW s \in Seq(A), NEW at \in 2 .. Len(s), s[at] = "@", s[1] # " ",
           NEW B, NEW d \in Seq(B), Trimmed(d), Len(d) # 0, NormalizeDomain(d) = d,
           d # Invalid, \A k \in 1 .. Len(d) : d[k] # "@"
    PROVE  LET e == SubSeq(s, 1, at) \o d
           IN  Trim(e) = e /\ NormalizeEmail(e) = e
<1> DEFINE n == Len(s)
           u == SubSeq(s, 1, at)
           C == A \cup B
           l == Len(d)
           e == u \o d
<1>1. n \in Nat /\ l \in Nat /\ l # 0
  BY LenProperties
<1>2. at \in 2 .. n
  OBVIOUS
<1> HIDE DEF n, l
<1>3. /\ 1 \in 1 .. n + 1 /\ at \in 0 .. n /\ 1 <= at + 1 /\ 1 - 1 = 0 /\ at - 1 + 1 = at
      /\ at # 0 /\ 1 \in 1 .. at /\ at \in 1 .. at /\ 0 + 1 = 1 /\ 0 + at = at
      /\ at \in Nat /\ ~(at <= 1)
  BY <1>1, <1>2, AtPlaces
<1>4. Part(u, s, 1 - 1) /\ Len(u) = at - 1 + 1 /\ u \in Seq(A)
  BY <1>3, SubPart DEF n
<1> HIDE DEF u
<1>5. Part(u, s, 0) /\ Len(u) = at
  BY <1>3, <1>4
<1>6. u[1] # " " /\ u[at] = "@"
  <2>1. u[1] = s[0 + 1] /\ u[at] = s[0 + at]
    BY <1>3, <1>5 DEF Part
  <2> QED BY <1>3, <2>1
<1>7. u \in Seq(C) /\ d \in Seq(C)
  BY <1>4, SeqMonotonic
<1> HIDE DEF C
<1>8. e \in Seq(C) /\ Len(e) = Len(u) + Len(d) /\ Part(u, e, 0) /\ Part(d, e, Len(u))
  BY <1>7, JoinParts
<1> HIDE DEF e
<1>9. Len(e) = at + l /\ Part(d, e, at)
  BY <1>5, <1>8 DEF l
<1>10. at \in 1 .. at + l /\ at + 1 \in 1 .. at + l /\ l \in 1 .. l /\ at + l # 0
  BY <1>1, <1>2, AtPlaces
<1>11. e[1] # " " /\ e[at] = "@"
  <2>1. u[1] = e[0 + 1] /\ u[at] = e[0 + at]
    BY <1>3, <1>5, <1>8 DEF Part
  <2> QED BY <1>3, <1>6, <2>1
<1>12. e[at + l] # " "
  <2>1. d[l] = e[at + l]
    BY <1>9, <1>10 DEF Part, l
  <2> QED BY <1>1, <2>1 DEF Trimmed, l
<1>13. Trim(e) = e
  <2>1. Trimmed(e)
    BY <1>9, <1>11, <1>12 DEF Trimmed
  <2> QED BY <1>8, <2>1, TrimSame
<1>14. ASSUME NEW k \in at + 1 .. at + l PROVE e[k] # "@"
  <2>1. k - at \in 1 .. l /\ at + (k - at) = k
    BY <1>1, <1>2, BehindAt
  <2>2. d[k - at] = e[at + (k - at)]
    BY <1>9, <2>1 DEF Part, l
  <2> QED BY <2>1, <2>2 DEF l
<1>15. SelectLastInSeq(e, LAMBDA t : t = "@") = at
  BY <1>8, <1>9, <1>10, <1>11, <1>14, LastAt
<1>16. SubSeq(e, at + 1, at + l) = d
  BY <1>1, <1>8, <1>9, PartIs DEF l
<1>17. SubSeq(e, 1, at) = u
  <2>1. SubSeq(e, 0 + 1, 0 + Len(u)) = u
    BY <1>3, <1>4, <1>5, <1>8, PartIs
  <2> QED BY <1>3, <1>5, <2>1
<1>18. NormalizeEmail(e) = u \o d
  BY <1>3, <1>9, <1>15, <1>16, <1>17 DEF NormalizeEmail
<1> QED BY <1>13, <1>18 DEF e, u

LEMMA EmailFound ==
    ASSUME NEW A, NEW s \in Seq(A), Normalize("email", s) # Invalid
    PROVE  \/ Normalize("email", Normalize("email", s)) = Normalize("email", s)
           \/ HasDotSpace(s)
<1> DEFINE u == Trim(s)
           at == SelectLastInSeq(u, LAMBDA t : t = "@")
           q == SubSeq(u, at + 1, Len(u))
           d == NormalizeDomain(q)
<1>1. u \in Seq(A) /\ Trimmed(u)
  BY TrimIs, TrimType
<1>2. PICK a : Part(u, s, a)
  BY TrimIs
<1>3. Normalize("email", s) = NormalizeEmail(u)
  BY DEF Normalize
<1> HIDE DEF u
<1>4. ~(at <= 1) /\ d # Invalid /\ NormalizeEmail(u) = SubSeq(u, 1, at) \o d
  BY <1>3 DEF NormalizeEmail
<1>5. /\ at \in 0 .. Len(u) /\ (at # 0 => u[at] = "@")
      /\ \A k \in at + 1 .. Len(u) : u[k] # "@"
  BY <1>1, LastAt
<1> HIDE DEF at
<1> DEFINE n == Len(u)
<1>6. n \in Nat
  BY <1>1, LenProperties
<1>7. at \in 0 .. n
  BY <1>5
<1> HIDE DEF n
<1>8. /\ at \in 2 .. n /\ at # 0 /\ n # 0 /\ at + 1 \in 1 .. n + 1 /\ n \in 0 .. n
      /\ at + 1 <= n + 1 /\ (at + 1) - 1 = at
  BY <1>4, <1>6, <1>7
<1>9. Part(q, u, at) /\ q \in Seq(A)
  <2>1. Part(q, u, (at + 1) - 1) /\ q \in Seq(A)
    BY <1>1, <1>8, SubPart DEF n
  <2> QED BY <1>8, <2>1
<1> HIDE DEF q
<1>10. \A k \in 1 .. Len(q) : q[k] # "@"
  <2> DEFINE l == Len(q)
  <2>1. l \in Nat /\ at + l <= n
    BY <1>9, LenProperties DEF Part, n
  <2> HIDE DEF l
  <2>2. \A k \in 1 .. l : at + k \in at + 1 .. n
    BY <1>8, <2>1
  <2>3. \A k \in 1 .. l : q[k] = u[at + k]
    BY <1>9 DEF Part, l
  <2> QED BY <1>5, <2>2, <2>3 DEF l, n
<1>11. PICK B : d \in Seq(B)
  BY <1>4, <1>9, DomainIs
<1>12. /\ Len(d) # 0 /\ Trimmed(d) /\ Lowered(d) = d
       /\ d[Len(d)] = "." => HasDotSpace(q)
       /\ \A k \in 1 .. Len(d) : d[k] # "@"
  BY <1>4, <1>9, <1>10, DomainIs
<1> HIDE DEF d
<1>13. CASE d[Len(d)] = "."
  <2>1. HasDotSpace(u)
    BY <1>1, <1>9, <1>12, <1>13, DotSpacePart
  <2> QED BY <1>1, <1>2, <2>1, DotSpacePart
<1>14. CASE d[Len(d)] # "."
  <2>1. NormalizeDomain(d) = d
    BY <1>11, <1>12, <1>14, DomainSame
  <2>2. u[at] = "@" /\ u[1] # " "
    BY <1>1, <1>5, <1>8 DEF Trimmed, n
  <2>3. at \in 2 .. Len(u)
    BY <1>8 DEF n
  <2> DEFINE e == SubSeq(u, 1, at) \o d
  <2>4. Trim(e) = e /\ NormalizeEmail(e) = e
    BY <1>1, <1>4, <1>11, <1>12, <2>1, <2>2, <2>3, EmailSame
  <2>5. Normalize("email", s) = e
    BY <1>3, <1>4
  <2> HIDE DEF e
  <2>6. Normalize("email", e) = e
    BY <2>4 DEF Normalize
  <2> QED BY <2>5, <2>6
<1> QED BY <1>13, <1>14
(* A number is a fold over the positions of its digits, the last first: a  *)
(* function on sets of positions, which exists by induction on the longest.*)
Digit(t) == IF t = "0" THEN 0 ELSE 7

Folding(g, s, F) ==
    g = [S \in F |-> IF S = {} THEN 0 ELSE 10 * g[S \ {Max(S)}] + Digit(s[Max(S)])]

LEMMA MaxTop ==
    ASSUME NEW m \in Nat, NEW S, S \subseteq 1 .. m + 1, m + 1 \in S
    PROVE  Max(S) = m + 1 /\ S \ {Max(S)} \subseteq 1 .. m
<1>1. S \subseteq 0 .. m + 1 /\ m + 1 \in Nat /\ S # {}
  OBVIOUS
<1>2. Max(S) \in S /\ \A y \in S : y <= Max(S)
  <2> DEFINE n == m + 1
  <2>1. S \subseteq 0 .. n /\ n \in Nat
    BY <1>1
  <2> HIDE DEF n
  <2> QED BY <1>1, <2>1, MaxIn
<1> DEFINE x == Max(S)
<1>3. x \in 1 .. m + 1 /\ m + 1 <= x
  BY <1>2
<1> HIDE DEF x
<1>4. x = m + 1
  BY <1>3
<1>5. S \ {x} \subseteq 1 .. m
  BY <1>4
<1> QED BY <1>4, <1>5 DEF x

LEMMA FoldStep ==
    ASSUME NEW s, NEW m \in Nat, NEW g, Folding(g, s, SUBSET (1 .. m))
    PROVE  \E h : Folding(h, s, SUBSET (1 .. m + 1))
<1> DEFINE F == SUBSET (1 .. m)
           G == SUBSET (1 .. m + 1)
           h == [S \in G |-> IF m + 1 \in S
                             THEN 10 * g[S \ {m + 1}] + Digit(s[m + 1]) ELSE g[S]]
           V(S) == IF S = {} THEN 0 ELSE 10 * h[S \ {Max(S)}] + Digit(s[Max(S)])
<1>1. \A S \in G : h[S] = IF m + 1 \in S
                          THEN 10 * g[S \ {m + 1}] + Digit(s[m + 1]) ELSE g[S]
  OBVIOUS
<1>2. h = [S \in G |-> h[S]]
  OBVIOUS
<1>3. \A S \in G : m + 1 \notin S => S \in F
  OBVIOUS
<1>4. \A S \in F : S \in G /\ m + 1 \notin S
  OBVIOUS
<1>5. \A S \in F : h[S] = g[S]
  <2> HIDE DEF h, F, G
  <2> QED BY <1>1, <1>4
<1>6. ASSUME NEW S \in G PROVE h[S] = V(S)
  <2>1. CASE m + 1 \in S
    <3>1. Max(S) = m + 1 /\ S \ {Max(S)} \in F
      BY <2>1, MaxTop
    <3> HIDE DEF h, F, G
    <3>2. h[S] = 10 * g[S \ {m + 1}] + Digit(s[m + 1])
      BY <1>1, <2>1
    <3>3. h[S \ {m + 1}] = g[S \ {m + 1}]
      BY <1>5, <3>1
    <3>4. S # {}
      BY <2>1
    <3> QED BY <3>1, <3>2, <3>3, <3>4
  <2>2. CASE m + 1 \notin S
    <3>1. S \in F /\ S \ {Max(S)} \in F
      BY <1>3, <2>2
    <3> HIDE DEF h
    <3>2. h[S] = g[S] /\ h[S \ {Max(S)}] = g[S \ {Max(S)}]
      <4> HIDE DEF F
      <4> QED BY <1>5, <3>1
    <3>3. g[S] = IF S = {} THEN 0 ELSE 10 * g[S \ {Max(S)}] + Digit(s[Max(S)])
      <4>1. g = [T \in F |-> IF T = {} THEN 0 ELSE 10 * g[T \ {Max(T)}] + Digit(s[Max(T)])]
        BY DEF Folding
      <4> HIDE DEF F
      <4> QED BY <3>1, <4>1
    <3> QED BY <3>2, <3>3
  <2> QED BY <2>1, <2>2
<1> HIDE DEF h
<1>7. Folding(h, s, G)
  <2> HIDE DEF G
  <2> QED BY <1>2, <1>6 DEF Folding
<1> QED BY <1>7

LEMMA FoldExists ==
    ASSUME NEW s, NEW n \in Nat
    PROVE  \E g : Folding(g, s, SUBSET (1 .. n))
<1> DEFINE T == {m \in 0 .. n : \E g : Folding(g, s, SUBSET (1 .. m))}
<1>1. 0 \in T
  <2> DEFINE F == SUBSET (1 .. 0)
             g == [S \in F |-> 0]
  <2>1. \A S \in F : S = {}
    OBVIOUS
  <2>2. g = [S \in F |-> IF S = {} THEN 0 ELSE 10 * g[S \ {Max(S)}] + Digit(s[Max(S)])]
    <3> HIDE DEF F
    <3> QED BY <2>1
  <2> HIDE DEF g
  <2>3. Folding(g, s, F)
    BY <2>2 DEF Folding
  <2> QED BY <2>3
<1>2. ASSUME NEW m \in 0 .. n - 1, m \in T PROVE m + 1 \in T
  <2>1. \E g : Folding(g, s, SUBSET (1 .. m))
    BY <1>2
  <2>2. m \in Nat /\ m + 1 \in 0 .. n
    OBVIOUS
  <2> HIDE DEF T
  <2>3. \E h : Folding(h, s, SUBSET (1 .. m + 1))
    BY <2>1, <2>2, FoldStep
  <2> QED BY <2>2, <2>3 DEF T
<1>3. 0 .. n \subseteq T
  <2> HIDE DEF T
  <2> QED BY <1>1, <1>2, IntervalInduction
<1>4. n \in T
  <2> HIDE DEF T
  <2> QED BY <1>3
<1> QED BY <1>4

LEMMA IntervalTop ==
    ASSUME NEW k \in Nat, k # 0
    PROVE  k \in 1 .. k /\ 1 .. k # {} /\ (1 .. k) \ {k} = 1 .. k - 1
<1>1. k \in 1 .. k
  OBVIOUS
<1>2. ASSUME NEW x PROVE x \in (1 .. k) \ {k} <=> x \in 1 .. k - 1
  <2>1. x \in (1 .. k) \ {k} => x \in 1 .. k - 1
    OBVIOUS
  <2>2. x \in 1 .. k - 1 => x \in (1 .. k) \ {k}
    OBVIOUS
  <2> QED BY <2>1, <2>2
<1> QED BY <1>1, <1>2

(* The number digit by digit.                                              *)
Counts(c, s) ==
    /\ c[0] = 0
    /\ \A k \in 1 .. Len(s) : c[k] = 10 * c[k - 1] + Digit(s[k])

LEMMA NumberSteps ==
    ASSUME NEW A, NEW s \in Seq(A)
    PROVE  \E c : Counts(c, s) /\ Number(s) = c[Len(s)]
<1> DEFINE n == Len(s)
           F == SUBSET (1 .. n)
           g == CHOOSE f : Folding(f, s, F)
           c == [k \in 0 .. n |-> g[1 .. k]]
<1>1. n \in Nat /\ DOMAIN s = 1 .. n
  BY LenProperties
<1>2. Number(s) = g[1 .. n]
  <2> HIDE DEF n
  <2> QED BY <1>1 DEF Number, FoldLeft, MapThenFoldSet, Folding, Digit
<1>3. Folding(g, s, F)
  <2> HIDE DEF n
  <2>1. \E f : Folding(f, s, F)
    BY <1>1, FoldExists
  <2> QED BY <2>1
<1> HIDE DEF g
<1>4. \A S \in F : g[S] = IF S = {} THEN 0 ELSE 10 * g[S \ {Max(S)}] + Digit(s[Max(S)])
  <2> HIDE DEF F
  <2> QED BY <1>3 DEF Folding
<1> HIDE DEF n
<1>5. \A k \in 0 .. n : 1 .. k \in F
  BY <1>1
<1>6. \A k \in 0 .. n : c[k] = g[1 .. k]
  OBVIOUS
<1>7. c[0] = 0
  <2>1. 1 .. 0 = {} /\ 0 \in 0 .. n
    BY <1>1
  <2> HIDE DEF F, c
  <2>2. g[1 .. 0] = 0
    BY <1>4, <1>5, <2>1
  <2> QED BY <1>6, <2>1, <2>2
<1>8. ASSUME NEW k \in 1 .. n PROVE c[k] = 10 * c[k - 1] + Digit(s[k])
  <2>1. k - 1 \in Nat /\ (k - 1) + 1 = k /\ k \in 0 .. n /\ k - 1 \in 0 .. n
    BY <1>1
  <2>2. k \in 1 .. k /\ 1 .. k # {} /\ (1 .. k) \ {k} = 1 .. k - 1
    <3>1. k \in Nat /\ k # 0
      BY <1>1
    <3> QED BY <3>1, IntervalTop
  <2>3. Max(1 .. k) = k
    <3> DEFINE m == k - 1
    <3>1. m \in Nat /\ m + 1 = k
      BY <2>1
    <3> HIDE DEF m
    <3>2. Max(1 .. m + 1) = m + 1
      <4>1. 1 .. m + 1 \subseteq 1 .. m + 1 /\ m + 1 \in 1 .. m + 1
        BY <3>1
      <4> QED BY <3>1, <4>1, MaxTop
    <3> QED BY <3>1, <3>2
  <2> HIDE DEF F, c
  <2>4. g[1 .. k] = 10 * g[1 .. k - 1] + Digit(s[k])
    BY <1>4, <1>5, <2>1, <2>2, <2>3
  <2> QED BY <1>6, <2>1, <2>4
<1>9. Number(s) = c[n]
  <2>1. n \in 0 .. n
    BY <1>1
  <2> HIDE DEF c
  <2> QED BY <1>2, <1>6, <2>1
<1> HIDE DEF c
<1> QED BY <1>7, <1>8, <1>9 DEF Counts, n

(* Zeros in front of a number do not change it.                            *)
LEMMA NumberZeros ==
    ASSUME NEW A, NEW s \in Seq(A), NEW B, NEW r \in Seq(B), NEW a, Part(r, s, a),
           a + Len(r) = Len(s), \A k \in 1 .. a : s[k] = "0"
    PROVE  Number(r) = Number(s)
<1>1. PICK c : Counts(c, s) /\ Number(s) = c[Len(s)]
  BY NumberSteps
<1>2. PICK d : Counts(d, r) /\ Number(r) = d[Len(r)]
  BY NumberSteps
<1> DEFINE n == Len(s)
           l == Len(r)
<1>3. n \in Nat /\ l \in Nat /\ a \in Nat /\ a + l = n
  BY LenProperties DEF Part
<1>4. \A k \in 1 .. l : r[k] = s[a + k]
  BY DEF Part
<1>5. \A k \in 1 .. n : c[k] = 10 * c[k - 1] + Digit(s[k])
  BY <1>1 DEF Counts
<1>6. \A k \in 1 .. l : d[k] = 10 * d[k - 1] + Digit(r[k])
  BY <1>2 DEF Counts
<1> HIDE DEF n, l
<1>7. c[a] = 0
  <2> DEFINE T == {k \in 0 .. a : c[k] = 0}
  <2>1. 0 \in T
    BY <1>1, <1>3 DEF Counts
  <2>2. ASSUME NEW k \in 0 .. a - 1, k \in T PROVE k + 1 \in T
    <3>1. k + 1 \in 1 .. n /\ (k + 1) - 1 = k /\ k + 1 \in 1 .. a /\ k + 1 \in 0 .. a
      BY <1>3
    <3>2. c[k] = 0
      BY <2>2
    <3>3. Digit(s[k + 1]) = 0
      BY <3>1 DEF Digit
    <3>4. c[k + 1] = 10 * c[k] + Digit(s[k + 1])
      BY <1>5, <3>1
    <3>5. c[k + 1] = 0
      BY <3>2, <3>3, <3>4
    <3> QED BY <3>1, <3>5
  <2>3. 0 .. a \subseteq T
    <3> HIDE DEF T
    <3> QED BY <1>3, <2>1, <2>2, IntervalInduction
  <2> QED BY <1>3, <2>3
<1>8. c[a + l] = d[l]
  <2> DEFINE T == {k \in 0 .. l : c[a + k] = d[k]}
  <2>1. 0 \in T
    <3>1. a + 0 = a /\ 0 \in 0 .. l
      BY <1>3
    <3>2. d[0] = 0
      BY <1>2 DEF Counts
    <3> QED BY <1>7, <3>1, <3>2
  <2>2. ASSUME NEW k \in 0 .. l - 1, k \in T PROVE k + 1 \in T
    <3>1. /\ a + (k + 1) \in 1 .. n /\ (a + (k + 1)) - 1 = a + k
          /\ k + 1 \in 1 .. l /\ (k + 1) - 1 = k /\ k + 1 \in 0 .. l
      BY <1>3
    <3>2. c[a + k] = d[k]
      BY <2>2
    <3>3. c[a + (k + 1)] = 10 * c[a + k] + Digit(s[a + (k + 1)])
      BY <1>5, <3>1
    <3>4. d[k + 1] = 10 * d[k] + Digit(r[k + 1])
      BY <1>6, <3>1
    <3>5. r[k + 1] = s[a + (k + 1)]
      BY <1>4, <3>1
    <3>6. c[a + (k + 1)] = d[k + 1]
      BY <3>2, <3>3, <3>4, <3>5
    <3> QED BY <3>1, <3>6
  <2>3. 0 .. l \subseteq T
    <3> HIDE DEF T
    <3> QED BY <1>3, <2>1, <2>2, IntervalInduction
  <2> QED BY <1>3, <2>3
<1> QED BY <1>1, <1>2, <1>3, <1>8 DEF n, l
(* What is printed has no leading zeros and is parsed to the same number.  *)
AsPrinted(p, max) == /\ IsNumber(p, max) /\ Printed(p) = p
                     /\ Len(p) # 0 /\ \A k \in 1 .. Len(p) : p[k] \in Digits

LEMMA ZeroText ==
    LET z == <<"0">>
    IN  z \in Seq({"0"}) /\ Len(z) = 1 /\ z[1] = "0" /\ z # <<>> /\ DOMAIN z = 1 .. 1
OBVIOUS

LEMMA ZeroPrinted == Printed(<<"0">>) = <<"0">>
<1> DEFINE z == <<"0">>
           r == TrimStart(z, {"0"})
<1>1. z \in Seq({"0"}) /\ Len(z) = 1 /\ z[1] = "0"
  BY ZeroText
<1> HIDE DEF z
<1>2. PICK a : /\ Part(r, z, a) /\ a + Len(r) = Len(z)
               /\ Len(r) # 0 => r[1] \notin {"0"}
  BY <1>1, TrimStartIs
<1>3. r \in Seq({"0"})
  BY <1>1, TrimStartType
<1> HIDE DEF r
<1>4. Len(r) = 0
  <2> SUFFICES ASSUME Len(r) # 0 PROVE FALSE
    OBVIOUS
  <2>1. Len(r) \in Nat
    BY <1>3, LenProperties
  <2>2. 1 \in 1 .. Len(r)
    BY <2>1
  <2>3. r[1] \in {"0"}
    BY <1>3, <2>2, ElementOfSeq
  <2> QED BY <1>2, <2>3
<1>5. r = <<>>
  BY <1>3, <1>4, EmptySeq
<1> QED BY <1>5 DEF Printed, r, z

LEMMA PrintedIs ==
    ASSUME NEW A, NEW s \in Seq(A), NEW max, IsNumber(s, max)
    PROVE  AsPrinted(Printed(s), max)
<1> DEFINE t == TrimStart(s, {"0"})
           p == Printed(s)
           n == Len(s)
<1>1. s # <<>> /\ ToSet(s) \subseteq Digits /\ Number(s) <= max
  BY DEF IsNumber
<1>2. n \in Nat /\ n # 0 /\ DOMAIN s = 1 .. n
  BY <1>1, LenProperties, EmptySeq
<1>3. \A k \in 1 .. n : s[k] \in Digits
  BY <1>1, <1>2 DEF ToSet
<1>4. \E a : /\ Part(t, s, a) /\ a + Len(t) = n
             /\ Len(t) # 0 => t[1] \notin {"0"}
             /\ \A k \in 1 .. a : s[k] \in {"0"}
  <2> DEFINE T == {"0"}
             r == TrimStart(s, T)
  <2> HIDE DEF T
  <2>1. \E a : /\ Part(r, s, a) /\ a + Len(r) = Len(s)
               /\ Len(r) # 0 => r[1] \notin T
               /\ \A k \in 1 .. a : s[k] \in T
    BY TrimStartIs
  <2> QED BY <2>1 DEF T
<1> HIDE DEF t
<1>5. PICK a : /\ Part(t, s, a) /\ a + Len(t) = n
               /\ Len(t) # 0 => t[1] \notin {"0"}
               /\ \A k \in 1 .. a : s[k] \in {"0"}
  BY <1>4
<1>6. t \in Seq(A)
  BY TrimStartType DEF t
<1>7. p = IF t = <<>> THEN <<"0">> ELSE t
  BY DEF Printed, t
<1> HIDE DEF p
<1>8. p # <<>> /\ Printed(p) = p /\ \E B : p \in Seq(B)
  <2>1. CASE t = <<>>
    BY <1>7, <2>1, ZeroPrinted, ZeroText
  <2>2. CASE t # <<>>
    <3>1. TrimStart(t, {"0"}) = t
      BY <1>5, <1>6, TrimStartSame
    <3> QED BY <1>6, <1>7, <2>2, <3>1 DEF Printed
  <2> QED BY <2>1, <2>2
<1>9. \E b : Part(p, s, b) /\ b + Len(p) = n /\ \A k \in 1 .. b : s[k] = "0"
  <2>1. CASE t = <<>>
    <3> DEFINE z == <<"0">>
    <3>1. Len(z) = 1 /\ z[1] = "0"
      BY ZeroText
    <3>2. p = z
      BY <1>7, <2>1
    <3> HIDE DEF z
    <3>3. Len(t) = 0
      BY <2>1
    <3>4. a = n
      <4>1. a \in Nat /\ a + Len(t) = n
        BY <1>5 DEF Part
      <4>2. n \in Nat
        BY <1>2
      <4> HIDE DEF n
      <4> QED BY <3>3, <4>1, <4>2
    <3> HIDE DEF n
    <3>5. /\ n - 1 \in Nat /\ (n - 1) + 1 = n /\ n - 1 + 1 <= n /\ n \in 1 .. n
          /\ 1 .. n - 1 \subseteq 1 .. n /\ \A k \in 1 .. 1 : (n - 1) + k = n /\ k = 1
      BY <1>2
    <3>6. \A k \in 1 .. n : s[k] = "0"
      BY <1>5, <3>4
    <3>7. Part(p, s, n - 1)
      BY <3>1, <3>2, <3>5, <3>6 DEF Part, n
    <3> QED BY <3>1, <3>2, <3>5, <3>6, <3>7
  <2>2. CASE t # <<>>
    BY <1>5, <1>7, <2>2
  <2> QED BY <2>1, <2>2
<1>10. PICK b : Part(p, s, b) /\ b + Len(p) = n /\ \A k \in 1 .. b : s[k] = "0"
  BY <1>9
<1>11. PICK B : p \in Seq(B)
  BY <1>8
<1>12. Number(p) = Number(s)
  BY <1>10, <1>11, NumberZeros
<1>13. Len(p) \in Nat /\ Len(p) # 0 /\ DOMAIN p = 1 .. Len(p)
  BY <1>8, <1>11, LenProperties, EmptySeq
<1>14. ASSUME NEW k \in 1 .. Len(p) PROVE p[k] \in Digits
  <2> DEFINE l == Len(p)
  <2>1. b \in Nat /\ b + l = n /\ k \in 1 .. l
    BY <1>10 DEF Part
  <2>2. l \in Nat
    BY <1>13
  <2> HIDE DEF l, n
  <2>3. b + k \in 1 .. n
    BY <1>2, <2>1, <2>2
  <2>4. p[k] = s[b + k]
    BY <1>10, <2>1 DEF Part, l
  <2> QED BY <1>3, <2>3, <2>4
<1>15. ToSet(p) \subseteq Digits
  BY <1>13, <1>14 DEF ToSet
<1>16. IsNumber(p, max)
  BY <1>1, <1>8, <1>12, <1>15 DEF IsNumber
<1> QED BY <1>8, <1>13, <1>14, <1>16 DEF AsPrinted, p

LEMMA AsnFound ==
    ASSUME NEW A, NEW s \in Seq(A), Normalize("asn", s) # Invalid
    PROVE  Normalize("asn", Normalize("asn", s)) = Normalize("asn", s)
<1> DEFINE T == {"A", "S", "a", "s"}
           u == Trim(s)
           t == TrimStart(u, T)
           d == IF t # <<>> /\ Head(t) = "+" THEN Tail(t) ELSE t
           p == Printed(d)
<1>1. t \in Seq(A)
  BY TrimType, TrimStartType
<1>2. Normalize("asn", s) = p /\ IsNumber(d, MaxNumber)
  BY DEF Normalize, NormalizeAsn
<1> HIDE DEF t
<1>3. d \in Seq(A)
  BY <1>1, HeadTailProperties
<1> HIDE DEF d
<1>4. AsPrinted(p, MaxNumber)
  BY <1>2, <1>3, PrintedIs
<1>5. p \in Seq(A \cup {"0"})
  <2> DEFINE B == A \cup {"0"}
  <2>1. d \in Seq(B) /\ "0" \in B
    BY <1>3, SeqMonotonic
  <2> HIDE DEF B
  <2>2. p \in Seq(B)
    BY <2>1, PrintedType
  <2> QED BY <2>2 DEF B
<1> HIDE DEF p
<1>6. PICK B : p \in Seq(B)
  BY <1>5
<1> DEFINE l == Len(p)
<1>7. l \in Nat /\ l # 0
  BY <1>4, <1>6, LenProperties DEF AsPrinted
<1> HIDE DEF l
<1>8. 1 \in 1 .. l /\ l \in 1 .. l
  BY <1>7
<1>9. p[1] \in Digits /\ p[l] \in Digits
  BY <1>4, <1>8 DEF AsPrinted, l
<1>10. \A x \in Digits : x # " " /\ x # "+" /\ x \notin T
  BY DEF Digits
<1>11. Trim(p) = p
  BY <1>6, <1>9, <1>10, TrimSame DEF Trimmed, l
<1>12. TrimStart(p, T) = p
  <2> HIDE DEF T
  <2> QED BY <1>6, <1>9, <1>10, TrimStartSame
<1>13. p # <<>> /\ Head(p) # "+"
  <2>1. p # <<>>
    BY <1>4 DEF AsPrinted, IsNumber
  <2>2. Head(p) = p[1]
    BY <1>6, <2>1, HeadTailProperties
  <2> QED BY <1>9, <1>10, <2>1, <2>2
<1>14. NormalizeAsn(p) = p
  BY <1>4, <1>12, <1>13 DEF NormalizeAsn, AsPrinted
<1>15. Normalize("asn", p) = p
  BY <1>11, <1>14 DEF Normalize
<1> QED BY <1>2, <1>15
(* Four numbers and the dots between them.                                 *)
NextDot(s, i) == Min({Len(s) + 1} \cup {j \in i + 1 .. Len(s) : s[j] = "."})

Octets(s) ==
    LET d1 == NextDot(s, 0)
        d2 == NextDot(s, d1)
        d3 == NextDot(s, d2)
    IN  <<SubSeq(s, 1, d1 - 1), SubSeq(s, d1 + 1, d2 - 1),
          SubSeq(s, d2 + 1, d3 - 1), SubSeq(s, d3 + 1, Len(s))>>

Dotted(u, v) == u \o <<".">> \o v

LEMMA Ipv4Is ==
    ASSUME NEW s, NormalizeIpv4(s) # Invalid
    PROVE  LET o == Octets(s)
           IN  /\ \A n \in 1 .. 4 : IsNumber(o[n], 255)
               /\ NormalizeIpv4(s) = Dotted(Dotted(Dotted(Printed(o[1]), Printed(o[2])),
                                                   Printed(o[3])), Printed(o[4]))
BY DEF NormalizeIpv4, Octets, NextDot, Dotted

LEMMA Ipv4Of ==
    ASSUME NEW s, LET o == Octets(s) IN \A n \in 1 .. 4 : IsNumber(o[n], 255)
    PROVE  LET o == Octets(s)
           IN  NormalizeIpv4(s) = Dotted(Dotted(Dotted(Printed(o[1]), Printed(o[2])),
                                                Printed(o[3])), Printed(o[4]))
BY DEF NormalizeIpv4, Octets, NextDot, Dotted

LEMMA DottedParts ==
    ASSUME NEW B, "." \in B, NEW u \in Seq(B), NEW v \in Seq(B)
    PROVE  LET w == Dotted(u, v)
           IN  /\ w \in Seq(B) /\ Len(w) = Len(u) + 1 + Len(v)
               /\ Part(u, w, 0) /\ w[Len(u) + 1] = "." /\ Part(v, w, Len(u) + 1)
<1> DEFINE z == <<".">>
           x == u \o z
           w == x \o v
           l == Len(u)
           m == Len(v)
<1>1. z \in Seq(B) /\ Len(z) = 1 /\ z[1] = "."
  OBVIOUS
<1> HIDE DEF z
<1>2. x \in Seq(B) /\ Len(x) = Len(u) + Len(z) /\ Part(u, x, 0) /\ Part(z, x, Len(u))
  BY <1>1, JoinParts
<1> HIDE DEF x
<1>3. w \in Seq(B) /\ Len(w) = Len(x) + Len(v) /\ Part(x, w, 0) /\ Part(v, w, Len(x))
  BY <1>2, JoinParts
<1> HIDE DEF w
<1>4. l \in Nat /\ m \in Nat
  BY LenProperties
<1>5. Len(x) = l + 1 /\ Len(w) = l + 1 + m
  BY <1>1, <1>2, <1>3
<1>6. Part(u, w, 0)
  <2>1. Part(u, w, 0 + 0)
    BY <1>2, <1>3, PartOfPart
  <2> QED BY <2>1
<1>7. w[l + 1] = "."
  <2>1. z[1] = x[l + 1]
    <3>1. 1 \in 1 .. 1
      OBVIOUS
    <3> QED BY <1>1, <1>2, <3>1 DEF Part
  <2>2. x[l + 1] = w[0 + (l + 1)]
    <3>1. l + 1 \in 1 .. l + 1
      <4> HIDE DEF l
      <4> QED BY <1>4
    <3> QED BY <1>3, <1>5, <3>1 DEF Part
  <2>3. 0 + (l + 1) = l + 1
    <3> HIDE DEF l
    <3> QED BY <1>4
  <2> QED BY <1>1, <2>1, <2>2, <2>3
<1>8. Part(v, w, l + 1)
  BY <1>3, <1>5
<1> QED BY <1>3, <1>5, <1>6, <1>7, <1>8 DEF Dotted, w, x, z

LEMMA NextDotIs ==
    ASSUME NEW A, NEW s \in Seq(A), NEW i \in Nat, NEW e \in i + 1 .. Len(s) + 1,
           e = Len(s) + 1 \/ s[e] = ".", \A k \in i + 1 .. e - 1 : s[k] # "."
    PROVE  NextDot(s, i) = e
<1> DEFINE n == Len(s)
           I == {n + 1} \cup {j \in i + 1 .. n : s[j] = "."}
           m == Min(I)
<1>1. n \in Nat
  BY LenProperties
<1>2. e \in i + 1 .. n + 1 /\ (e = n + 1 \/ s[e] = ".")
  OBVIOUS
<1> HIDE DEF n
<1>3. I \subseteq Nat /\ I # {}
  BY <1>1
<1>4. m \in I /\ \A y \in I : m <= y
  <2> HIDE DEF I
  <2> QED BY <1>3, MinIn
<1>5. e \in I
  <2>1. e = n + 1 \/ e \in i + 1 .. n
    BY <1>1, <1>2
  <2> QED BY <1>2, <2>1
<1>6. m <= e
  <2> HIDE DEF I, m
  <2> QED BY <1>4, <1>5
<1>7. m = n + 1 \/ (m \in i + 1 .. n /\ s[m] = ".")
  <2> HIDE DEF m
  <2> QED BY <1>4
<1>8. NextDot(s, i) = m
  BY DEF NextDot, n
<1> HIDE DEF m, I
<1>9. m = n + 1 => m = e
  BY <1>1, <1>2, <1>6
<1>10. m \in i + 1 .. n /\ m # e => m \in i + 1 .. e - 1
  BY <1>1, <1>2, <1>6
<1> QED BY <1>7, <1>8, <1>9, <1>10

LEMMA NextDotPart ==
    ASSUME NEW B, NEW w \in Seq(B), NEW r \in Seq(B), NEW i, Part(r, w, i),
           \A k \in 1 .. Len(r) : r[k] # ".", Len(r) # 0,
           i + Len(r) = Len(w) \/ w[i + Len(r) + 1] = ".", i + Len(r) <= Len(w)
    PROVE  /\ NextDot(w, i) = i + Len(r) + 1
           /\ SubSeq(w, i + 1, i + Len(r)) = r
<1> DEFINE n == Len(w)
           l == Len(r)
           e == i + l + 1
<1>1. n \in Nat /\ l \in Nat /\ i \in Nat /\ i + l <= n
  BY LenProperties DEF Part
<1>2. i + l = n \/ w[e] = "."
  OBVIOUS
<1> HIDE DEF n, l
<1>3. e \in i + 1 .. n + 1 /\ (i + l = n => e = n + 1) /\ e - 1 = i + l
  BY <1>1
<1>4. ASSUME NEW k \in i + 1 .. e - 1 PROVE w[k] # "."
  <2>1. k - i \in 1 .. l /\ i + (k - i) = k
    BY <1>1, <1>3
  <2>2. r[k - i] = w[i + (k - i)]
    BY <2>1 DEF Part, l
  <2> QED BY <2>1, <2>2 DEF l
<1> HIDE DEF e
<1>5. NextDot(w, i) = e
  BY <1>1, <1>2, <1>3, <1>4, NextDotIs DEF n
<1>6. SubSeq(w, i + 1, i + l) = r
  BY PartIs DEF l
<1> QED BY <1>5, <1>6 DEF e, l
LEMMA SlicedType ==
    ASSUME NEW A, NEW s \in Seq(A), NEW m \in Nat, NEW k \in Nat, 1 <= m, k <= Len(s)
    PROVE  SubSeq(s, m, k) \in Seq(A)
<1>1. Len(s) \in Nat
  BY LenProperties
<1>2. m \in Int /\ k \in Int /\ \A j \in m .. k : j \in 1 .. Len(s)
  BY <1>1
<1>3. \A j \in m .. k : s[j] \in A
  BY <1>2, ElementOfSeq
<1> QED BY <1>2, <1>3, SubSeqProperties

LEMMA NextDotType ==
    ASSUME NEW A, NEW s \in Seq(A), NEW i \in Nat
    PROVE  NextDot(s, i) \in 1 .. Len(s) + 1
<1> DEFINE n == Len(s)
           I == {n + 1} \cup {j \in i + 1 .. n : s[j] = "."}
<1>1. n \in Nat
  BY LenProperties
<1> HIDE DEF n
<1>2. I \subseteq Nat /\ I # {} /\ \A j \in I : j \in 1 .. n + 1
  BY <1>1
<1>3. Min(I) \in I
  <2> HIDE DEF I
  <2> QED BY <1>2, MinIn
<1>4. NextDot(s, i) = Min(I)
  BY DEF NextDot, n
<1> HIDE DEF I
<1> QED BY <1>2, <1>3, <1>4 DEF n

LEMMA OctetsType ==
    ASSUME NEW A, NEW s \in Seq(A)
    PROVE  \A n \in 1 .. 4 : Octets(s)[n] \in Seq(A)
<1> DEFINE n == Len(s)
           d1 == NextDot(s, 0)
           d2 == NextDot(s, d1)
           d3 == NextDot(s, d2)
<1>1. n \in Nat
  BY LenProperties
<1>2. d1 \in 1 .. n + 1
  BY NextDotType
<1> HIDE DEF d1
<1>3. d1 \in Nat /\ d2 \in 1 .. n + 1
  BY <1>1, <1>2, NextDotType
<1> HIDE DEF d2
<1>4. d2 \in Nat /\ d3 \in 1 .. n + 1
  BY <1>1, <1>3, NextDotType
<1> HIDE DEF d3
<1> DEFINE a == SubSeq(s, 1, d1 - 1)
           b == SubSeq(s, d1 + 1, d2 - 1)
           c == SubSeq(s, d2 + 1, d3 - 1)
           d == SubSeq(s, d3 + 1, n)
<1>5. /\ d1 - 1 \in Nat /\ d2 - 1 \in Nat /\ d3 - 1 \in Nat
      /\ d1 + 1 \in Nat /\ d2 + 1 \in Nat /\ d3 + 1 \in Nat
      /\ 1 <= d1 + 1 /\ 1 <= d2 + 1 /\ 1 <= d3 + 1 /\ 1 \in Nat /\ 1 <= 1
      /\ d1 - 1 <= n /\ d2 - 1 <= n /\ d3 - 1 <= n /\ n <= n
  <2> HIDE DEF n
  <2> QED BY <1>1, <1>2, <1>3, <1>4
<1>6. a \in Seq(A)
  BY <1>5, SlicedType
<1>7. b \in Seq(A)
  BY <1>5, SlicedType
<1>8. c \in Seq(A)
  BY <1>5, SlicedType
<1>9. d \in Seq(A)
  BY <1>1, <1>5, SlicedType
<1>10. Octets(s) = <<a, b, c, d>>
  BY DEF Octets, d1, d2, d3
<1> HIDE DEF a, b, c, d
<1> QED BY <1>6, <1>7, <1>8, <1>9, <1>10

(* No dot, and not empty: it is cut out again as it was put in.            *)
Dotless(r) == Len(r) # 0 /\ \A k \in 1 .. Len(r) : r[k] # "."

LEMMA FourPlaces ==
    ASSUME NEW la \in Nat, NEW lb \in Nat, NEW lc \in Nat, NEW ld \in Nat,
           la # 0, lb # 0, lc # 0, ld # 0,
           NEW n2, NEW n3, NEW n,
           n2 = la + 1 + lb, n3 = n2 + 1 + lc, n = n3 + 1 + ld
    PROVE  /\ n2 \in Nat /\ n3 \in Nat /\ n \in Nat
           /\ la + 1 \in 1 .. n2 /\ n2 + 1 \in 1 .. n3 /\ n3 + 1 \in 1 .. n
           /\ la + 1 \in 1 .. n3 /\ n2 + 1 \in 1 .. n /\ la + 1 \in 1 .. n
           /\ 0 + (la + 1) = la + 1 /\ 0 + (n2 + 1) = n2 + 1 /\ 0 + la + 1 = la + 1
           /\ (la + 1) + lb = n2 /\ (n2 + 1) + lc = n3 /\ (n3 + 1) + ld = n
           /\ la <= n /\ n2 <= n /\ n3 <= n /\ n <= n
           /\ (la + 1) - 1 = la /\ (n2 + 1) - 1 = n2 /\ (n3 + 1) - 1 = n3
           /\ 0 + (0 + 0) = 0 /\ 0 + la = la /\ 0 + 1 = 1
           /\ 0 + (0 + (la + 1)) = la + 1 /\ 0 + (n2 + 1) = n2 + 1
           /\ 1 \in 1 .. la /\ ld \in 1 .. ld /\ n # 0
OBVIOUS

LEMMA PartAt ==
    ASSUME NEW r, NEW s, NEW a, Part(r, s, a), NEW k \in 1 .. Len(r)
    PROVE  s[a + k] = r[k]
BY DEF Part

LEMMA NextDotCut ==
    ASSUME NEW B, NEW w \in Seq(B), NEW r \in Seq(B), NEW i, Part(r, w, i), Dotless(r),
           NEW q, i + Len(r) = q, q <= Len(w), w[q + 1] = "."
    PROVE  NextDot(w, i) = q + 1 /\ SubSeq(w, i + 1, q) = r
<1>1. Len(r) # 0 /\ \A k \in 1 .. Len(r) : r[k] # "."
  BY DEF Dotless
<1>2. i + Len(r) <= Len(w) /\ w[i + Len(r) + 1] = "."
  OBVIOUS
<1>3. NextDot(w, i) = i + Len(r) + 1 /\ SubSeq(w, i + 1, i + Len(r)) = r
  BY <1>1, <1>2, NextDotPart
<1> QED BY <1>3

IsFour(B, w, a, b, c, d) ==
    /\ w \in Seq(B) /\ Len(w) # 0 /\ Octets(w) = <<a, b, c, d>>
    /\ w[1] = a[1] /\ w[Len(w)] = d[Len(d)]

LEMMA FourOctets ==
    ASSUME NEW B, "." \in B, NEW a \in Seq(B), NEW b \in Seq(B), NEW c \in Seq(B),
           NEW d \in Seq(B), Dotless(a), Dotless(b), Dotless(c), Dotless(d)
    PROVE  IsFour(B, Dotted(Dotted(Dotted(a, b), c), d), a, b, c, d)
<1> DEFINE x == Dotted(a, b)
           y == Dotted(x, c)
           w == Dotted(y, d)
           la == Len(a)
           lb == Len(b)
           lc == Len(c)
           ld == Len(d)
           n2 == Len(x)
           n3 == Len(y)
           n == Len(w)
<1>1. /\ la \in Nat /\ lb \in Nat /\ lc \in Nat /\ ld \in Nat
      /\ la # 0 /\ lb # 0 /\ lc # 0 /\ ld # 0
  BY LenProperties DEF Dotless
<1>2. /\ x \in Seq(B) /\ n2 = la + 1 + lb
      /\ Part(a, x, 0) /\ x[la + 1] = "." /\ Part(b, x, la + 1)
  BY DottedParts
<1> HIDE DEF x
<1>3. /\ y \in Seq(B) /\ n3 = n2 + 1 + lc
      /\ Part(x, y, 0) /\ y[n2 + 1] = "." /\ Part(c, y, n2 + 1)
  BY <1>2, DottedParts
<1> HIDE DEF y
<1>4. /\ w \in Seq(B) /\ n = n3 + 1 + ld
      /\ Part(y, w, 0) /\ w[n3 + 1] = "." /\ Part(d, w, n3 + 1)
  BY <1>3, DottedParts
<1> HIDE DEF w
<1> HIDE DEF la, lb, lc, ld, n2, n3, n
<1>5. n2 = la + 1 + lb /\ n3 = n2 + 1 + lc /\ n = n3 + 1 + ld
  BY <1>2, <1>3, <1>4
<1>6. /\ n2 \in Nat /\ n3 \in Nat /\ n \in Nat
      /\ la + 1 \in 1 .. n2 /\ n2 + 1 \in 1 .. n3 /\ n3 + 1 \in 1 .. n
      /\ la + 1 \in 1 .. n3 /\ n2 + 1 \in 1 .. n /\ la + 1 \in 1 .. n
      /\ 0 + (la + 1) = la + 1 /\ 0 + (n2 + 1) = n2 + 1 /\ 0 + la + 1 = la + 1
      /\ (la + 1) + lb = n2 /\ (n2 + 1) + lc = n3 /\ (n3 + 1) + ld = n
  BY <1>1, <1>5, FourPlaces
<1>7. /\ la <= n /\ n2 <= n /\ n3 <= n /\ n <= n
      /\ (la + 1) - 1 = la /\ (n2 + 1) - 1 = n2 /\ (n3 + 1) - 1 = n3
      /\ 0 + (0 + 0) = 0 /\ 0 + la = la /\ 0 + 1 = 1
      /\ 0 + (0 + (la + 1)) = la + 1 /\ 0 + (n2 + 1) = n2 + 1
      /\ 1 \in 1 .. la /\ ld \in 1 .. ld /\ n # 0
  BY <1>1, <1>5, FourPlaces
<1>8. Part(x, w, 0 + 0) /\ Part(c, w, 0 + (n2 + 1))
  BY <1>2, <1>3, <1>4, PartOfPart
<1>9. Part(x, w, 0) /\ Part(c, w, n2 + 1)
  BY <1>7, <1>8
<1>10. Part(a, w, 0 + 0) /\ Part(b, w, 0 + (la + 1))
  BY <1>2, <1>4, <1>9, PartOfPart
<1>11. Part(a, w, 0) /\ Part(b, w, la + 1)
  BY <1>6, <1>10
<1>12. w[la + 1] = "."
  <2>1. w[0 + (la + 1)] = x[la + 1]
    BY <1>6, <1>9, PartAt DEF n2
  <2> QED BY <1>2, <1>6, <2>1
<1>13. w[n2 + 1] = "."
  <2>1. w[0 + (n2 + 1)] = y[n2 + 1]
    BY <1>4, <1>6, PartAt DEF n3
  <2> QED BY <1>3, <1>6, <2>1
<1>14. NextDot(w, 0) = la + 1 /\ SubSeq(w, 1, la) = a
  <2> DEFINE z == 0
  <2>1. z + Len(a) = la /\ la <= Len(w)
    BY <1>7 DEF la, n
  <2>2. Part(a, w, z)
    BY <1>11
  <2> HIDE DEF z
  <2>3. NextDot(w, z) = la + 1 /\ SubSeq(w, z + 1, la) = a
    BY <1>4, <1>12, <2>1, <2>2, NextDotCut
  <2> QED BY <1>7, <2>3 DEF z
<1>15. NextDot(w, la + 1) = n2 + 1 /\ SubSeq(w, (la + 1) + 1, n2) = b
  <2>1. (la + 1) + Len(b) = n2 /\ n2 <= Len(w)
    BY <1>6, <1>7 DEF lb, n
  <2> QED BY <1>4, <1>11, <1>13, <2>1, NextDotCut
<1>16. NextDot(w, n2 + 1) = n3 + 1 /\ SubSeq(w, (n2 + 1) + 1, n3) = c
  <2>1. (n2 + 1) + Len(c) = n3 /\ n3 <= Len(w)
    BY <1>6, <1>7 DEF lc, n
  <2> QED BY <1>4, <1>9, <2>1, NextDotCut
<1>17. SubSeq(w, (n3 + 1) + 1, n) = d
  <2>1. SubSeq(w, (n3 + 1) + 1, (n3 + 1) + ld) = d
    BY <1>1, <1>4, PartIs DEF ld
  <2> QED BY <1>6, <2>1
<1>18. Octets(w) = <<a, b, c, d>>
  <2> DEFINE d1 == NextDot(w, 0)
             d2 == NextDot(w, d1)
             d3 == NextDot(w, d2)
  <2>1. Octets(w) = <<SubSeq(w, 1, d1 - 1), SubSeq(w, d1 + 1, d2 - 1),
                      SubSeq(w, d2 + 1, d3 - 1), SubSeq(w, d3 + 1, n)>>
    BY DEF Octets, n
  <2>2. d1 = la + 1
    BY <1>14
  <2> HIDE DEF d1
  <2>3. d2 = n2 + 1
    BY <1>15, <2>2
  <2> HIDE DEF d2
  <2>4. d3 = n3 + 1
    BY <1>16, <2>3
  <2> HIDE DEF d3
  <2>5. SubSeq(w, 1, d1 - 1) = a
    BY <1>7, <1>14, <2>2
  <2>6. SubSeq(w, d1 + 1, d2 - 1) = b
    BY <1>7, <1>15, <2>2, <2>3
  <2>7. SubSeq(w, d2 + 1, d3 - 1) = c
    BY <1>7, <1>16, <2>3, <2>4
  <2>8. SubSeq(w, d3 + 1, n) = d
    BY <1>17, <2>4
  <2> QED BY <2>1, <2>5, <2>6, <2>7, <2>8
<1>19. w[1] = a[1] /\ w[n] = d[ld]
  <2> DEFINE z == 0
  <2>1. Part(a, w, z)
    BY <1>11
  <2> HIDE DEF z
  <2>2. w[z + 1] = a[1]
    BY <1>7, <2>1, PartAt DEF la
  <2>3. w[(n3 + 1) + ld] = d[ld]
    <3> DEFINE q == n3 + 1
    <3>1. Part(d, w, q) /\ ld \in 1 .. Len(d)
      BY <1>4, <1>7 DEF ld
    <3> HIDE DEF q
    <3>2. w[q + ld] = d[ld]
      BY <3>1, PartAt
    <3> QED BY <3>2 DEF q
  <2>4. w[0 + 1] = a[1]
    BY <2>2 DEF z
  <2> QED BY <1>6, <1>7, <2>3, <2>4
<1>20. IsFour(B, w, a, b, c, d)
  BY <1>4, <1>7, <1>18, <1>19 DEF IsFour, n, ld
<1> QED BY <1>20 DEF w, x, y

LEMMA AsPrintedIs ==
    ASSUME NEW p, NEW max, AsPrinted(p, max), Len(p) \in Nat
    PROVE  /\ Dotless(p) /\ IsNumber(p, max) /\ Printed(p) = p
           /\ p[1] # " " /\ p[Len(p)] # " "
<1>1. 1 \in 1 .. Len(p) /\ Len(p) \in 1 .. Len(p)
  BY DEF AsPrinted
<1>2. \A x \in Digits : x # " " /\ x # "."
  BY DEF Digits
<1> QED BY <1>1, <1>2 DEF AsPrinted, Dotless

LEMMA Ipv4Found ==
    ASSUME NEW A, NEW s \in Seq(A), Normalize("ipv4", s) # Invalid
    PROVE  Normalize("ipv4", Normalize("ipv4", s)) = Normalize("ipv4", s)
<1> DEFINE u == Trim(s)
           o == Octets(u)
           B == A \cup {"0", "."}
           a == Printed(o[1])
           b == Printed(o[2])
           c == Printed(o[3])
           d == Printed(o[4])
           w == Dotted(Dotted(Dotted(a, b), c), d)
<1>1. u \in Seq(A)
  BY TrimType
<1>2. Normalize("ipv4", s) = NormalizeIpv4(u)
  BY DEF Normalize
<1> HIDE DEF u
<1>3. (\A n \in 1 .. 4 : IsNumber(o[n], 255)) /\ NormalizeIpv4(u) = w
  BY <1>2, Ipv4Is
<1>4. \A n \in 1 .. 4 : o[n] \in Seq(A)
  BY <1>1, OctetsType
<1> HIDE DEF o
<1>5. ASSUME NEW n \in 1 .. 4
      PROVE  Printed(o[n]) \in Seq(B) /\ AsPrinted(Printed(o[n]), 255)
  <2>1. o[n] \in Seq(A) /\ IsNumber(o[n], 255)
    BY <1>3, <1>4
  <2>2. o[n] \in Seq(B) /\ "0" \in B
    BY <2>1, SeqMonotonic
  <2> HIDE DEF B
  <2> QED BY <2>1, <2>2, PrintedIs, PrintedType
<1>6. "." \in B
  OBVIOUS
<1> HIDE DEF B
<1>7. a \in Seq(B) /\ b \in Seq(B) /\ c \in Seq(B) /\ d \in Seq(B)
  BY <1>5
<1>8. AsPrinted(a, 255) /\ AsPrinted(b, 255) /\ AsPrinted(c, 255) /\ AsPrinted(d, 255)
  BY <1>5
<1> HIDE DEF a, b, c, d
<1>9. Len(a) \in Nat /\ Len(b) \in Nat /\ Len(c) \in Nat /\ Len(d) \in Nat
  BY <1>7, LenProperties
<1>10. /\ Dotless(a) /\ IsNumber(a, 255) /\ Printed(a) = a /\ a[1] # " "
       /\ Dotless(b) /\ IsNumber(b, 255) /\ Printed(b) = b
       /\ Dotless(c) /\ IsNumber(c, 255) /\ Printed(c) = c
       /\ Dotless(d) /\ IsNumber(d, 255) /\ Printed(d) = d /\ d[Len(d)] # " "
  BY <1>8, <1>9, AsPrintedIs
<1>11. /\ w \in Seq(B) /\ Len(w) # 0 /\ Octets(w) = <<a, b, c, d>>
       /\ w[1] = a[1] /\ w[Len(w)] = d[Len(d)]
  <2>1. Dotless(a) /\ Dotless(b) /\ Dotless(c) /\ Dotless(d)
    BY <1>10
  <2>2. IsFour(B, w, a, b, c, d)
    BY <1>6, <1>7, <2>1, FourOctets
  <2> HIDE DEF w
  <2> QED BY <2>2 DEF IsFour
<1>12. NormalizeIpv4(w) = w
  <2> DEFINE q == Octets(w)
  <2>1. q[1] = a /\ q[2] = b /\ q[3] = c /\ q[4] = d
    BY <1>11
  <2> HIDE DEF q
  <2>2. \A n \in 1 .. 4 : n = 1 \/ n = 2 \/ n = 3 \/ n = 4
    OBVIOUS
  <2>3. \A n \in 1 .. 4 : IsNumber(q[n], 255)
    BY <1>10, <2>1, <2>2
  <2>4. NormalizeIpv4(w) = Dotted(Dotted(Dotted(Printed(q[1]), Printed(q[2])),
                                         Printed(q[3])), Printed(q[4]))
    <3> HIDE DEF w
    <3> QED BY <2>3, Ipv4Of DEF q
  <2> QED BY <1>10, <2>1, <2>4
<1> HIDE DEF w
<1>13. Trim(w) = w
  BY <1>10, <1>11, TrimSame DEF Trimmed
<1>14. Normalize("ipv4", w) = w
  BY <1>12, <1>13 DEF Normalize
<1> QED BY <1>2, <1>3, <1>14

(* normalize() is idempotent, but for a domain with a dot and a space: the *)
(* exact match of search() finds what upsert_one() stored.                 *)
THEOREM AlwaysSearchFindsStored == Spec => []SearchFindsStored
<1>1. TextInv => SearchFindsStored
  <2> SUFFICES ASSUME TextInv, IsText, kind \in Normalizable, Stored # Invalid
               PROVE  \/ Needle(kind, Stored) = Stored
                      \/ /\ kind \in {"domain", "email"}
                         /\ \E i \in DOMAIN text :
                                IsPrefix(<<".", " ">>, SubSeq(text, i, Len(text)))
    BY DEF SearchFindsStored
  <2>1. text \in Seq(Shown)
    BY DEF TextInv, Plain
  <2>2. Stored = Normalize(kind, text)
    BY DEF Stored
  <2>3. \/ Normalize(kind, Stored) = Stored
        \/ kind \in {"domain", "email"} /\ HasDotSpace(text)
    <3>1. CASE kind = "domain"
      BY <2>1, <2>2, <3>1, DomainFound
    <3>2. CASE kind = "email"
      BY <2>1, <2>2, <3>2, EmailFound
    <3>3. CASE kind = "ipv4"
      BY <2>1, <2>2, <3>3, Ipv4Found
    <3>4. CASE kind = "hash"
      BY <2>1, <2>2, <3>4, HashSame
    <3>5. CASE kind = "asn"
      BY <2>1, <2>2, <3>5, AsnFound
    <3>6. CASE kind = "other"
      BY <2>1, <2>2, <3>6, OtherSame
    <3> QED BY <3>1, <3>2, <3>3, <3>4, <3>5, <3>6 DEF Normalizable
  <2>4. Normalize(kind, Stored) = Stored => Needle(kind, Stored) = Stored
    BY DEF Needle
  <2>5. HasDotSpace(text) =>
            \E i \in DOMAIN text : IsPrefix(<<".", " ">>, SubSeq(text, i, Len(text)))
    BY <2>1, DotSpaceAt
  <2> QED BY <2>3, <2>4, <2>5
<1> QED BY <1>1, TextInductive, PTL
=============================================================================
