---------------------------- MODULE SearchProofs ----------------------------
(***************************************************************************)
(* What a search answers, for every set of rows, sources and queries and   *)
(* whatever the writers commit while it hydrates its records.              *)
(***************************************************************************)
EXTENDS Search, IocTablesProofs

KeysOf(records) == [i \in 1 .. Len(records) |-> records[i].key]
-----------------------------------------------------------------------------
(* A permitted order of a finite set lists each element once.              *)
LEMMA OrderingsAre ==
    ASSUME NEW t, NEW order, NEW S, IsFiniteSet(S), NEW s
    PROVE  s \in Orderings(t, order, S) <=>
              /\ s \in Seq(S)
              /\ \A x \in S : \E i \in 1 .. Len(s) : s[i] = x
              /\ \A i, j \in 1 .. Len(s) : s[i] = s[j] => i = j
              /\ \A i, j \in 1 .. Len(s) :
                    i < j => MayPrecede(t, order, s[i], s[j])
<1> DEFINE n == Cardinality(S)
<1>1. n \in Nat /\ IsFiniteSet(1 .. n) /\ Cardinality(1 .. n) = n
  <2>1. n \in Nat
    BY FS_CardinalityType
  <2> HIDE DEF n
  <2> QED BY <2>1, FS_Interval
<1>2. Orderings(t, order, S) =
         {f \in [1 .. n -> S] :
             /\ \A i, j \in 1 .. n : i # j => f[i] # f[j]
             /\ \A i, j \in 1 .. Len(f) : i < j => MayPrecede(t, order, f[i], f[j])}
  BY DEF Orderings, SetToSeqs
<1>3. ASSUME s \in [1 .. n -> S], \A i, j \in 1 .. n : i # j => s[i] # s[j]
      PROVE  s \in Seq(S) /\ Len(s) = n /\ \A x \in S : \E i \in 1 .. n : s[i] = x
  <2> HIDE DEF n
  <2>1. s \in Injection(1 .. n, S)
    BY <1>3 DEF Injection, IsInjective
  <2>2. s \in Surjection(1 .. n, S)
    BY <1>1, <2>1, FS_Injection DEF n
  <2> QED BY <1>1, <1>3, <2>2 DEF Surjection
<1>4. ASSUME s \in Seq(S), \A x \in S : \E i \in 1 .. Len(s) : s[i] = x,
             \A i, j \in 1 .. Len(s) : s[i] = s[j] => i = j
      PROVE  Len(s) = n /\ s \in [1 .. n -> S]
  <2> DEFINE m == Len(s)
  <2>1. m \in Nat /\ s \in [1 .. m -> S]
    BY <1>4, LenProperties
  <2>2. s \in Bijection(1 .. m, S)
    BY <1>4, <2>1 DEF Bijection, Injection, IsInjective, Surjection
  <2> HIDE DEF m
  <2>3. m = n
    BY <2>1, <2>2, FS_CountingElements DEF ExistsBijection
  <2> QED BY <2>1, <2>3 DEF m
<1> HIDE DEF n
<1>5. ASSUME s \in Orderings(t, order, S)
      PROVE  /\ s \in Seq(S)
             /\ \A x \in S : \E i \in 1 .. Len(s) : s[i] = x
             /\ \A i, j \in 1 .. Len(s) : s[i] = s[j] => i = j
             /\ \A i, j \in 1 .. Len(s) :
                   i < j => MayPrecede(t, order, s[i], s[j])
  BY <1>2, <1>3, <1>5
<1>6. ASSUME /\ s \in Seq(S)
             /\ \A x \in S : \E i \in 1 .. Len(s) : s[i] = x
             /\ \A i, j \in 1 .. Len(s) : s[i] = s[j] => i = j
             /\ \A i, j \in 1 .. Len(s) :
                   i < j => MayPrecede(t, order, s[i], s[j])
      PROVE  s \in Orderings(t, order, S)
  BY <1>2, <1>4, <1>6
<1> QED BY <1>5, <1>6

(* kept gives what the post-filter keeps of the first n records.           *)
Kept(kept, n, records, values) ==
    kept = [i \in 0 .. n |->
               IF i = 0 THEN <<>>
               ELSE IF records[i].key \in values
               THEN Append(kept[i - 1], records[i])
               ELSE kept[i - 1]]

LEMMA KeptExists ==
    ASSUME NEW n \in Nat, NEW records, NEW values
    PROVE  \E f : Kept(f, n, records, values)
<1> DEFINE T == {j \in Nat : \E f : Kept(f, j, records, values)}
<1>1. 0 \in T
  <2>1. Kept([i \in 0 .. 0 |-> <<>>], 0, records, values)
    BY DEF Kept
  <2> QED BY <2>1
<1>2. ASSUME NEW j \in 0 .. n - 1, j \in T
      PROVE  j + 1 \in T
  <2>1. PICK f : Kept(f, j, records, values)
    BY <1>2
  <2> DEFINE next == IF records[j + 1].key \in values
                     THEN Append(f[j], records[j + 1]) ELSE f[j]
             g    == [i \in 0 .. j + 1 |-> IF i = j + 1 THEN next ELSE f[i]]
  <2>2. ASSUME NEW i \in 0 .. j + 1
        PROVE  g[i] = IF i = 0 THEN <<>>
                      ELSE IF records[i].key \in values
                      THEN Append(g[i - 1], records[i])
                      ELSE g[i - 1]
    <3> HIDE DEF next
    <3>1. CASE i = j + 1
      <4>1. i # 0 /\ i - 1 = j /\ j \in 0 .. j + 1 /\ j # j + 1
        BY <3>1
      <4>2. g[i] = next /\ g[i - 1] = f[j]
        BY <3>1, <4>1
      <4>3. next = IF records[i].key \in values
                   THEN Append(g[i - 1], records[i])
                   ELSE g[i - 1]
        BY <3>1, <4>2 DEF next
      <4> QED BY <4>1, <4>2, <4>3
    <3>2. CASE i # j + 1
      <4>1. /\ i \in 0 .. j /\ g[i] = f[i]
            /\ i # 0 => i - 1 \in 0 .. j /\ g[i - 1] = f[i - 1]
        BY <3>2
      <4>2. f[i] = IF i = 0 THEN <<>>
                   ELSE IF records[i].key \in values
                   THEN Append(f[i - 1], records[i])
                   ELSE f[i - 1]
        BY <2>1, <4>1 DEF Kept
      <4> QED BY <4>1, <4>2
    <3> QED BY <3>1, <3>2
  <2>3. Kept(g, j + 1, records, values)
    BY <2>2 DEF Kept
  <2> QED BY <2>3
<1> HIDE DEF T
<1>3. n \in T
  BY <1>1, <1>2, IntervalInduction
<1> QED BY <1>3 DEF T

LEMMA PostFilterKept ==
    ASSUME NEW records, Len(records) \in Nat, NEW values
    PROVE  \E f : /\ Kept(f, Len(records), records, values)
                  /\ PostFilter(records, values) = f[Len(records)]
<1> DEFINE f == CHOOSE f : f = [i \in 0 .. Len(records) |->
                              IF i = 0 THEN <<>>
                              ELSE IF records[i].key \in values
                              THEN Append(f[i - 1], records[i])
                              ELSE f[i - 1]]
<1>1. PostFilter(records, values) = f[Len(records)]
  BY DEF PostFilter
<1>2. \E g : g = [i \in 0 .. Len(records) |->
                 IF i = 0 THEN <<>>
                 ELSE IF records[i].key \in values
                 THEN Append(g[i - 1], records[i])
                 ELSE g[i - 1]]
  <2>1. PICK g : Kept(g, Len(records), records, values)
    BY KeptExists
  <2> QED BY <2>1 DEF Kept
<1>3. f = [i \in 0 .. Len(records) |->
             IF i = 0 THEN <<>>
             ELSE IF records[i].key \in values
             THEN Append(f[i - 1], records[i])
             ELSE f[i - 1]]
  BY <1>2
<1>4. Kept(f, Len(records), records, values)
  BY <1>3 DEF Kept
<1> HIDE DEF f
<1> QED BY <1>1, <1>4
(* picked holds the accepted ones of the first m records, in their order.  *)
Picked(picked, m, records, values) ==
    /\ \A x \in 1 .. Len(picked) : \E i \in 1 .. m :
          picked[x] = records[i] /\ records[i].key \in values
    /\ \A i \in 1 .. m : records[i].key \in values =>
          \E x \in 1 .. Len(picked) : picked[x] = records[i]
    /\ \A x, y \in 1 .. Len(picked) : x < y =>
          \E i, j \in 1 .. m :
             i < j /\ picked[x] = records[i] /\ picked[y] = records[j]

(* The post-filter keeps the accepted records, and them in their order.    *)
LEMMA PostFilterPicks ==
    ASSUME NEW R, NEW records \in Seq(R), NEW values
    PROVE  /\ PostFilter(records, values) \in Seq(R)
           /\ Picked(PostFilter(records, values), Len(records), records, values)
<1> DEFINE n == Len(records)
<1>1. n \in Nat /\ \A i \in 1 .. n : records[i] \in R
  BY LenProperties, ElementOfSeq
<1>2. PICK f : Kept(f, n, records, values) /\ PostFilter(records, values) = f[n]
  BY <1>1, PostFilterKept
<1> DEFINE T == {m \in 0 .. n : f[m] \in Seq(R) /\ Picked(f[m], m, records, values)}
<1>3. 0 \in T
  <2>1. f[0] = <<>>
    BY <1>1, <1>2 DEF Kept
  <2>2. f[0] \in Seq(R) /\ Len(f[0]) = 0
    BY <2>1, EmptySeq
  <2>3. Picked(f[0], 0, records, values)
    BY <2>2 DEF Picked
  <2>4. 0 \in 0 .. n
    BY <1>1
  <2> HIDE DEF n
  <2> QED BY <2>2, <2>3, <2>4
<1>4. ASSUME NEW m \in 0 .. n - 1, m \in T
      PROVE  m + 1 \in T
  <2> DEFINE g == f[m]
             a == records[m + 1]
             h == f[m + 1]
  <2>1. /\ g \in Seq(R) /\ Picked(g, m, records, values)
        /\ m \in Nat /\ m + 1 \in 1 .. n /\ a \in R
    BY <1>1, <1>4
  <2>2. h = IF a.key \in values THEN Append(g, a) ELSE g
    <3>1. m + 1 \in 0 .. n /\ m + 1 # 0 /\ (m + 1) - 1 = m
      BY <2>1
    <3> QED BY <1>2, <3>1 DEF Kept
  <2> HIDE DEF g, a, h
  <2>3. CASE a.key \notin values
    <3>1. h = g
      BY <2>2, <2>3
    <3>2. Picked(g, m + 1, records, values)
      <4>1. \A i \in 1 .. m + 1 : records[i].key \in values => i \in 1 .. m
        BY <2>1, <2>3 DEF a
      <4>2. \A i \in 1 .. m : i \in 1 .. m + 1
        BY <2>1
      <4>3. \A x \in 1 .. Len(g) : \E i \in 1 .. m + 1 :
               g[x] = records[i] /\ records[i].key \in values
        BY <2>1, <4>2 DEF Picked
      <4>4. \A i \in 1 .. m + 1 : records[i].key \in values =>
               \E x \in 1 .. Len(g) : g[x] = records[i]
        BY <2>1, <4>1 DEF Picked
      <4>5. ASSUME NEW x \in 1 .. Len(g), NEW y \in 1 .. Len(g), x < y
            PROVE  \E i, j \in 1 .. m + 1 :
                      i < j /\ g[x] = records[i] /\ g[y] = records[j]
        <5>1. PICK i \in 1 .. m, j \in 1 .. m :
                 i < j /\ g[x] = records[i] /\ g[y] = records[j]
          BY <2>1, <4>5 DEF Picked
        <5> QED BY <4>2, <5>1
      <4> QED BY <4>3, <4>4, <4>5 DEF Picked
    <3> QED BY <2>1, <3>1, <3>2 DEF h
  <2>4. CASE a.key \in values
    <3> DEFINE l == Len(g)
    <3>1. /\ h \in Seq(R) /\ Len(h) = l + 1 /\ l \in Nat
          /\ \A x \in 1 .. l : h[x] = g[x]
          /\ h[l + 1] = a
      BY <2>1, <2>2, <2>4, AppendProperties, LenProperties
    <3> HIDE DEF l
    <3>2. \A x \in 1 .. Len(h) : x \in 1 .. l \/ x = l + 1
      BY <3>1
    <3>3. \A x \in 1 .. l : \E i \in 1 .. m :
             h[x] = records[i] /\ records[i].key \in values
      <4>1. \A x \in 1 .. l : \E i \in 1 .. m :
               g[x] = records[i] /\ records[i].key \in values
        BY <2>1 DEF l, Picked
      <4> SUFFICES ASSUME NEW x \in 1 .. l
                   PROVE  \E i \in 1 .. m :
                             h[x] = records[i] /\ records[i].key \in values
        OBVIOUS
      <4>2. h[x] = g[x]
        BY <3>1
      <4> QED BY <4>1, <4>2
    <3>4. \A x \in 1 .. Len(h) : \E i \in 1 .. m + 1 :
             h[x] = records[i] /\ records[i].key \in values
      <4> SUFFICES ASSUME NEW x \in 1 .. Len(h)
                   PROVE  \E i \in 1 .. m + 1 :
                             h[x] = records[i] /\ records[i].key \in values
        OBVIOUS
      <4>1. m + 1 \in 1 .. m + 1 /\ \A i \in 1 .. m : i \in 1 .. m + 1
        BY <2>1
      <4> QED BY <2>4, <3>1, <3>2, <3>3, <4>1 DEF a
    <3>5. \A i \in 1 .. m + 1 : records[i].key \in values =>
             \E x \in 1 .. Len(h) : h[x] = records[i]
      <4> SUFFICES ASSUME NEW i \in 1 .. m + 1, records[i].key \in values
                   PROVE  \E x \in 1 .. Len(h) : h[x] = records[i]
        OBVIOUS
      <4>1. CASE i = m + 1
        <5>1. l + 1 \in 1 .. Len(h)
          BY <3>1
        <5> QED BY <3>1, <4>1, <5>1 DEF a
      <4>2. CASE i # m + 1
        <5>1. i \in 1 .. m
          BY <2>1, <4>2
        <5>2. PICK x \in 1 .. l : g[x] = records[i]
          BY <2>1, <5>1 DEF l, Picked
        <5>3. x \in 1 .. Len(h) /\ h[x] = g[x]
          BY <3>1, <5>2
        <5> QED BY <5>2, <5>3
      <4> QED BY <4>1, <4>2
    <3>6. \A x, y \in 1 .. Len(h) : x < y =>
             \E i, j \in 1 .. m + 1 :
                i < j /\ h[x] = records[i] /\ h[y] = records[j]
      <4> SUFFICES ASSUME NEW x \in 1 .. Len(h), NEW y \in 1 .. Len(h), x < y
                   PROVE  \E i, j \in 1 .. m + 1 :
                             i < j /\ h[x] = records[i] /\ h[y] = records[j]
        OBVIOUS
      <4>1. x \in 1 .. l
        BY <3>1
      <4>2. \A i \in 1 .. m : i \in 1 .. m + 1 /\ i < m + 1
        BY <2>1
      <4>3. m + 1 \in 1 .. m + 1
        BY <2>1
      <4>4. CASE y = l + 1
        BY <3>1, <3>3, <4>1, <4>2, <4>3, <4>4 DEF a
      <4>5. CASE y \in 1 .. l
        <5>1. PICK i \in 1 .. m, j \in 1 .. m :
                 i < j /\ g[x] = records[i] /\ g[y] = records[j]
          BY <2>1, <4>1, <4>5 DEF l, Picked
        <5>2. h[x] = g[x] /\ h[y] = g[y]
          BY <3>1, <4>1, <4>5
        <5> QED BY <4>2, <5>1, <5>2
      <4> QED BY <3>2, <4>4, <4>5
    <3>7. Picked(h, m + 1, records, values)
      BY <3>4, <3>5, <3>6 DEF Picked
    <3> QED BY <2>1, <3>1, <3>7 DEF h
  <2> QED BY <2>3, <2>4
<1> HIDE DEF T
<1>5. n \in T
  <2>1. 0 .. n \subseteq T
    BY <1>1, <1>3, <1>4, IntervalInduction
  <2> QED BY <1>1, <2>1
<1> QED BY <1>2, <1>5 DEF T

LEMMA KeysSeq ==
    ASSUME NEW R, NEW records \in Seq(R), NEW S,
           \A i \in 1 .. Len(records) : records[i].key \in S
    PROVE  /\ KeysOf(records) \in Seq(S)
           /\ Len(KeysOf(records)) = Len(records)
           /\ \A i \in 1 .. Len(records) : KeysOf(records)[i] = records[i].key
<1> DEFINE n == Len(records)
<1>1. n \in Nat
  BY LenProperties
<1>2. KeysOf(records) \in [1 .. n -> S]
  BY DEF KeysOf
<1>3. \A i \in 1 .. n : KeysOf(records)[i] = records[i].key
  BY DEF KeysOf
<1> HIDE DEF n
<1> QED BY <1>1, <1>2, <1>3 DEF n

(* So it turns an order of all rows into one of the accepted rows.         *)
LEMMA PostFilterOrders ==
    ASSUME NEW R, NEW records \in Seq(R), NEW values,
           NEW t, NEW order, NEW S, IsFiniteSet(S),
           KeysOf(records) \in Orderings(t, order, S)
    PROVE  KeysOf(PostFilter(records, values))
              \in Orderings(t, order, S \cap values)
<1> DEFINE kept == PostFilter(records, values)
           n    == Len(records)
           V    == S \cap values
<1>1. /\ n \in Nat
      /\ Len(KeysOf(records)) = n
      /\ \A i \in 1 .. n : KeysOf(records)[i] = records[i].key
  <2> DEFINE D == {records[i].key : i \in 1 .. n}
  <2>1. \A i \in 1 .. n : records[i].key \in D
    OBVIOUS
  <2> HIDE DEF D
  <2> QED BY <2>1, KeysSeq, LenProperties
<1>2. /\ \A i \in 1 .. n : records[i].key \in S
      /\ \A k \in S : \E i \in 1 .. n : records[i].key = k
      /\ \A i, j \in 1 .. n : records[i].key = records[j].key => i = j
      /\ \A i, j \in 1 .. n : i < j =>
            MayPrecede(t, order, records[i].key, records[j].key)
  <2> DEFINE ks == KeysOf(records)
  <2>1. /\ ks \in Seq(S)
        /\ \A k \in S : \E i \in 1 .. Len(ks) : ks[i] = k
        /\ \A i, j \in 1 .. Len(ks) : ks[i] = ks[j] => i = j
        /\ \A i, j \in 1 .. Len(ks) : i < j => MayPrecede(t, order, ks[i], ks[j])
    <3> HIDE DEF ks
    <3>1. ks \in Orderings(t, order, S)
      BY DEF ks
    <3> QED BY <3>1, OrderingsAre
  <2> HIDE DEF ks
  <2>2. Len(ks) = n /\ \A i \in 1 .. n : ks[i] = records[i].key
    BY <1>1 DEF ks
  <2>3. \A i \in 1 .. n : ks[i] \in S
    BY <2>1, <2>2, ElementOfSeq
  <2> HIDE DEF n
  <2> QED BY <2>1, <2>2, <2>3
<1>3. kept \in Seq(R) /\ Picked(kept, n, records, values)
  <2>1. /\ PostFilter(records, values) \in Seq(R)
        /\ Picked(PostFilter(records, values), Len(records), records, values)
    BY PostFilterPicks
  <2> QED BY <2>1
<1> HIDE DEF kept
<1> DEFINE m == Len(kept)
           s == KeysOf(kept)
<1>4. \A x \in 1 .. m : kept[x].key \in V
  <2> SUFFICES ASSUME NEW x \in 1 .. m PROVE kept[x].key \in V
    OBVIOUS
  <2>1. PICK i \in 1 .. n : kept[x] = records[i] /\ records[i].key \in values
    BY <1>3 DEF Picked
  <2> QED BY <1>2, <2>1
<1>5. /\ m \in Nat /\ s \in Seq(V) /\ Len(s) = m
      /\ \A x \in 1 .. m : s[x] = kept[x].key
  <2> HIDE DEF V
  <2> QED BY <1>3, <1>4, KeysSeq, LenProperties
<1>6. \A k \in V : \E x \in 1 .. m : s[x] = k
  <2> SUFFICES ASSUME NEW k \in V PROVE \E x \in 1 .. m : s[x] = k
    OBVIOUS
  <2>1. PICK i \in 1 .. n : records[i].key = k
    BY <1>2
  <2>2. PICK x \in 1 .. m : kept[x] = records[i]
    BY <1>3, <2>1 DEF Picked
  <2> QED BY <1>5, <2>1, <2>2
<1>7. ASSUME NEW x \in 1 .. m, NEW y \in 1 .. m, x < y
      PROVE  s[x] # s[y] /\ MayPrecede(t, order, s[x], s[y])
  <2>1. PICK i \in 1 .. n, j \in 1 .. n :
           i < j /\ kept[x] = records[i] /\ kept[y] = records[j]
    BY <1>3, <1>7 DEF Picked
  <2>2. i # j
    BY <2>1
  <2>3. s[x] = records[i].key /\ s[y] = records[j].key
    BY <1>5, <2>1
  <2> QED BY <1>2, <2>1, <2>2, <2>3
<1> HIDE DEF s, m
<1>8. \A x, y \in 1 .. m : s[x] = s[y] => x = y
  <2> SUFFICES ASSUME NEW x \in 1 .. m, NEW y \in 1 .. m, x # y
               PROVE  s[x] # s[y]
    OBVIOUS
  <2>1. x < y \/ y < x
    BY <1>5
  <2> QED BY <1>7, <2>1
<1>9. IsFiniteSet(V)
  BY FS_Subset
<1> HIDE DEF V
<1>10. s \in Orderings(t, order, V)
  BY <1>5, <1>6, <1>7, <1>8, <1>9, OrderingsAre
<1> QED BY <1>10 DEF s, V, kept

LEMMA WindowType ==
    ASSUME NEW R, NEW s \in Seq(R), NEW offset \in Nat,
           NEW limit \in OrNone(Nat)
    PROVE  /\ Window(s, offset, limit) \in Seq(R)
           /\ \A x \in 1 .. Len(Window(s, offset, limit)) :
                 \E i \in 1 .. Len(s) : Window(s, offset, limit)[x] = s[i]
<1> DEFINE m == offset + 1
           n == IF limit = None THEN Len(s) ELSE Earlier(offset + limit, Len(s))
<1>1. Len(s) \in Nat /\ \A i \in 1 .. Len(s) : s[i] \in R
  BY LenProperties, ElementOfSeq
<1>2. m \in Nat \ {0} /\ n \in Nat /\ n <= Len(s)
  BY <1>1 DEF OrNone, Earlier
<1>3. Window(s, offset, limit) = SubSeq(s, m, n)
  BY DEF Window
<1> HIDE DEF m, n
<1>4. \A i \in m .. n : i \in 1 .. Len(s) /\ s[i] \in R
  BY <1>1, <1>2
<1> DEFINE w == SubSeq(s, m, n)
<1>5. /\ w \in Seq(R) /\ Len(w) = (IF m <= n THEN n - m + 1 ELSE 0)
      /\ \A x \in 1 .. n - m + 1 : w[x] = s[m + x - 1]
  BY <1>2, <1>4, SubSeqProperties
<1> HIDE DEF w
<1>6. \A x \in 1 .. Len(w) : x \in 1 .. n - m + 1 /\ m + x - 1 \in 1 .. Len(s)
  BY <1>1, <1>2, <1>5
<1>7. \A x \in 1 .. Len(w) : \E i \in 1 .. Len(s) : w[x] = s[i]
  BY <1>5, <1>6
<1> QED BY <1>3, <1>5, <1>7 DEF w

(* A page of records is the page of their keys.                            *)
LEMMA WindowKeys ==
    ASSUME NEW R, NEW records \in Seq(R), NEW S,
           \A i \in 1 .. Len(records) : records[i].key \in S,
           NEW offset \in Nat, NEW limit \in OrNone(Nat)
    PROVE  KeysOf(Window(records, offset, limit))
              = Window(KeysOf(records), offset, limit)
<1> DEFINE l == Len(records)
           s == KeysOf(records)
           m == offset + 1
           n == IF limit = None THEN l ELSE Earlier(offset + limit, l)
<1>1. /\ l \in Nat /\ Len(s) = l /\ s \in Seq(S)
      /\ \A i \in 1 .. l : records[i] \in R /\ s[i] \in S /\ s[i] = records[i].key
  BY KeysSeq, LenProperties, ElementOfSeq
<1> HIDE DEF s
<1>2. m \in Nat \ {0} /\ n \in Nat /\ n <= l
  BY <1>1 DEF OrNone, Earlier
<1>3. /\ Window(records, offset, limit) = SubSeq(records, m, n)
      /\ Window(s, offset, limit) = SubSeq(s, m, n)
  BY <1>1 DEF Window
<1> HIDE DEF m, n, l
<1>4. \A i \in m .. n : i \in 1 .. l /\ records[i] \in R /\ s[i] \in S
  BY <1>1, <1>2
<1> DEFINE w == SubSeq(records, m, n)
           v == SubSeq(s, m, n)
           c == IF m <= n THEN n - m + 1 ELSE 0
<1>5. /\ w \in Seq(R) /\ Len(w) = c
      /\ \A x \in 1 .. n - m + 1 : w[x] = records[m + x - 1]
  BY <1>2, <1>4, SubSeqProperties
<1>6. /\ v \in Seq(S) /\ Len(v) = c
      /\ \A x \in 1 .. n - m + 1 : v[x] = s[m + x - 1]
  BY <1>2, <1>4, SubSeqProperties
<1> HIDE DEF w, v
<1>7. \A x \in 1 .. c : x \in 1 .. n - m + 1 /\ m + x - 1 \in 1 .. l
  BY <1>1, <1>2
<1> HIDE DEF c
<1>8. \A x \in 1 .. c : w[x].key = v[x] /\ v[x] \in S
  BY <1>1, <1>5, <1>6, <1>7
<1>9. /\ KeysOf(w) \in Seq(S) /\ Len(KeysOf(w)) = c
      /\ \A x \in 1 .. c : KeysOf(w)[x] = v[x]
  BY <1>5, <1>8, KeysSeq
<1>10. KeysOf(w) = v
  BY <1>6, <1>9, SeqEqual
<1> QED BY <1>3, <1>10 DEF w, v, s
-----------------------------------------------------------------------------
(* The writers: SerialStore's operators are those of IocTables.            *)
LEMMA SameStore ==
    ASSUME NEW t, NEW b, NEW s, NEW dflt, NEW nows, NEW raw, NEW plan, NEW now,
           NEW k, NEW v, NEW rel, NEW date, NEW kev
    PROVE  /\ Store!Applied(t, b, s, dflt, nows) = Applied(t, b, s, dflt, nows)
           /\ Store!Rejected(raw, dflt) <=> Rejected(raw, dflt)
           /\ Store!Earlier(t, 100) = Earlier(t, 100)
           /\ Store!Rescored(t, plan, now) = Rescored(t, plan, now)
           /\ Store!LinkCveIn(t, k, v, rel) = LinkCveIn(t, k, v, rel)
           /\ Store!UpsertCveIn(t, v, date, kev) = UpsertCveIn(t, v, date, kev)
           /\ Store!EmptyTables = EmptyTables
<1>1. /\ Store!Applied(t, b, s, dflt, nows) = Applied(t, b, s, dflt, nows)
      /\ Store!Rejected(raw, dflt) <=> Rejected(raw, dflt)
      /\ Store!Earlier(t, 100) = Earlier(t, 100)
  BY DEF Store!Applied, Applied, Store!UpsertInTx, UpsertInTx,
         Store!MergedRow, MergedRow, Store!MergedSighting, MergedSighting,
         Store!WithStubs, WithStubs, Store!Reindexed, Reindexed,
         Store!ConfsOf, ConfsOf, Store!Or, Or, Store!Earlier, Earlier,
         Store!Later, Later, Store!Rejected, Rejected,
         Store!Malformed, Malformed
<1>2. /\ Store!Rescored(t, plan, now) = Rescored(t, plan, now)
      /\ Store!LinkCveIn(t, k, v, rel) = LinkCveIn(t, k, v, rel)
      /\ Store!UpsertCveIn(t, v, date, kev) = UpsertCveIn(t, v, date, kev)
      /\ Store!EmptyTables = EmptyTables
  BY DEF Store!Rescored, Rescored, Store!ScoredAge, ScoredAge,
         Store!Later, Later, Store!LinkCveIn, LinkCveIn,
         Store!WithStubs, WithStubs, Store!Or, Or,
         Store!UpsertCveIn, UpsertCveIn, Store!EmptyTables, EmptyTables
<1> QED BY <1>1, <1>2

(* Whatever a writer commits, the tables keep all they had observed.       *)
LEMMA StoreStep ==
    ASSUME db \in Tables, clock \in Nat, Store!Next
    PROVE  /\ db' \in Tables /\ clock' \in Nat
           /\ Extends(db, db')
           /\ Coherent(db) => Coherent(db')
           /\ IsFiniteSet(Rows(db)) => IsFiniteSet(Rows(db'))
<1> DEFINE Kept1(u) == /\ u \in Tables
                       /\ Extends(db, u)
                       /\ Coherent(db) => Coherent(u)
                       /\ IsFiniteSet(Rows(db)) => IsFiniteSet(Rows(u))
           dflts == {50} \cup {Store!Earlier(d, 100) : d \in Defaults}
<1>1. ASSUME NEW b \in Batches, NEW s \in Sources, NEW dflt \in dflts,
             Store!Upsert(b, s, dflt)
      PROVE  Kept1(db') /\ clock' \in Nat
  <2>1. b \in Seq(RawIocs) /\ Len(b) \in Nat
    BY BatchAssumption, LenProperties
  <2>2. dflt \in Pct
    <3>1. \A d \in Nat : Earlier(d, 100) \in Pct
      BY DEF Earlier, Pct
    <3>2. \A d : Store!Earlier(d, 100) = Earlier(d, 100)
      BY DEF Store!Earlier, Earlier
    <3> QED BY <3>1, <3>2, DefaultAssumption DEF Pct
  <2>3. \A i \in 1 .. Len(b) : ~Rejected(b[i], dflt)
    BY <1>1, SameStore DEF Store!Upsert
  <2>4. PICK nows \in [1 .. Len(b) -> 0 .. clock] :
            db' = Applied(db, b, s, dflt, nows)
    BY <1>1, SameStore DEF Store!Upsert
  <2>5. nows \in [1 .. Len(b) -> Nat]
    BY <2>4
  <2>6. clock' \in Nat
    BY <1>1 DEF Store!Upsert
  <2> QED BY <2>1, <2>2, <2>3, <2>4, <2>5, <2>6, AppliedKeeps
<1>2. ASSUME Store!Rescore
      PROVE  Kept1(db') /\ clock' \in Nat
  <2>1. PICK now \in 0 .. clock : \E plan \in [Keys -> OrNone(0 .. Store!Latest(db))] :
            db' = Rescored(db, plan, now)
    BY <1>2, SameStore DEF Store!Rescore, Store!OrNone, OrNone
  <2>2. PICK plan \in [Keys -> OrNone(0 .. Store!Latest(db))] :
            db' = Rescored(db, plan, now)
    BY <2>1
  <2>3. plan \in [Keys -> OrNone(Times)]
    <3> DEFINE n == Store!Latest(db)
    <3>1. 0 .. n \subseteq Nat
      OBVIOUS
    <3> HIDE DEF n
    <3> QED BY <2>2, <3>1 DEF n, OrNone, Times
  <2>4. Rows(db') = Rows(db)
    <3>1. Extends(db, db')
      BY <2>1, <2>2, <2>3, RescoredKeeps
    <3>2. \A k \in Keys : db.ioc[k] = None => db'.ioc[k] = None
      BY <2>2 DEF Rescored, Tables
    <3> QED BY <3>1, <3>2 DEF Rows, Extends
  <2> QED BY <1>2, <2>1, <2>2, <2>3, <2>4, RescoredKeeps DEF Store!Rescore
<1>3. ASSUME Store!LinkCve
      PROVE  Kept1(db') /\ clock' \in Nat
  <2>1. PICK k \in Keys, v \in Cves, rel \in Rels :
            db.ioc[k] # None /\ db' = LinkCveIn(db, k, v, rel)
    BY <1>3, SameStore DEF Store!LinkCve
  <2>2. Rows(db') = Rows(db)
    BY <2>1 DEF Rows, LinkCveIn, Tables
  <2> QED BY <1>3, <2>1, <2>2, LinkCveKeeps DEF Store!LinkCve
<1>4. ASSUME Store!UpsertCve
      PROVE  Kept1(db') /\ clock' \in Nat
  <2>1. PICK v \in Cves, d \in OrNone(Dates), kev \in BOOLEAN :
            db' = UpsertCveIn(db, v, d, kev)
    BY <1>4, SameStore DEF Store!UpsertCve, Store!OrNone, OrNone
  <2>2. Rows(db') = Rows(db)
    BY <2>1 DEF Rows, UpsertCveIn, Tables
  <2> QED BY <1>4, <2>1, <2>2, UpsertCveKeeps DEF Store!UpsertCve
<1>5. ASSUME Store!Tick
      PROVE  Kept1(db') /\ clock' \in Nat
  BY <1>5, ExtendsReflexive DEF Store!Tick
<1> QED BY <1>1, <1>2, <1>3, <1>4, <1>5 DEF Store!Next
-----------------------------------------------------------------------------
(* The inductive invariant.                                                *)

Record == [key : Keys, row : IocRow, seen : [Sources -> OrNone(Sighting)],
           tags : SUBSET Tags, cves : SUBSET Cves]

(* The parts of the record in hand that have been read.                    *)
DraftType ==
    /\ pc \in {"sources", "tags", "cves"} =>
          /\ rec.key \in Keys /\ rec.row \in IocRow
          /\ rec = [key |-> rec.key, row |-> rec.row, seen |-> rec.seen,
                    tags |-> rec.tags, cves |-> rec.cves]
    /\ pc \in {"tags", "cves"} => rec.seen \in [Sources -> OrNone(Sighting)]
    /\ pc = "cves" => rec.tags \in SUBSET Tags

SearchType ==
    /\ db \in Tables /\ base \in Tables
    /\ clock \in Nat
    /\ query \in SearchQuery
    /\ pc \in {"row", "sources", "tags", "cves", "done", "failed"}
    /\ todo \in Seq(Selected(base, query))
    /\ out \in Seq(Record)
    /\ DraftType

(* The tables have only grown since the ids were selected.                 *)
TablesOK ==
    /\ Coherent(db) /\ Coherent(base)
    /\ Extends(base, db)
    /\ IsFiniteSet(Rows(db)) /\ IsFiniteSet(Rows(base))

(* What is known of each part of a record r of a row selected from t: it   *)
(* is of that row as it was or as it grew.                                 *)
RowOK(r, t, q) ==
    /\ r.key \in Selected(t, q)
    /\ r.row.first <= t.ioc[r.key].first
    /\ t.ioc[r.key].last <= r.row.last
    /\ t.ioc[r.key].threat # None => r.row.threat = t.ioc[r.key].threat

SeenOK(r, t) ==
    /\ \E s \in Sources : r.seen[s] # None /\ r.seen[s].first <= r.row.first
    /\ \E s \in Sources : r.seen[s] # None /\ r.seen[s].last >= r.row.last
    /\ \A s \in Sources : t.seen[r.key][s] # None => r.seen[s] # None

TagsOK(r, t) == t.tag[r.key] \subseteq r.tags
CvesOK(r, t) == LinkedTo(t, r.key) \subseteq r.cves

RecordOK(r, t, q) ==
    RowOK(r, t, q) /\ SeenOK(r, t) /\ TagsOK(r, t) /\ CvesOK(r, t)

(* The row in hand is no wider than the row in the tables is now.          *)
RowOld(r, t) ==
    /\ t.ioc[r.key] # None
    /\ t.ioc[r.key].first <= r.row.first
    /\ r.row.last <= t.ioc[r.key].last

DraftOK ==
    /\ pc \in {"sources", "tags", "cves"} =>
          todo # <<>> /\ rec.key = Head(todo) /\ RowOK(rec, base, query)
    /\ pc = "sources" => RowOld(rec, db)
    /\ pc \in {"tags", "cves"} => SeenOK(rec, base)
    /\ pc = "cves" => TagsOK(rec, base)

(* The records and, after them, the ids to hydrate are the page.           *)
InPage(page, records, ids) ==
    /\ Len(page) = Len(records) + Len(ids)
    /\ \A i \in 1 .. Len(records) : records[i].key = page[i]
    /\ \A i \in 1 .. Len(ids) : ids[i] = page[Len(records) + i]

PageOK ==
    pc \notin {"done", "failed"} =>
        \E s \in Orderings(base, query.order, Selected(base, query)) :
            InPage(SqlPage(query, s), out, todo)

SearchInv ==
    /\ SearchType
    /\ TablesOK
    /\ \A i \in 1 .. Len(out) : RecordOK(out[i], base, query)
    /\ DraftOK
    /\ PageOK
    /\ PageExact
-----------------------------------------------------------------------------
LEMMA SelectedFinite ==
    ASSUME NEW t \in Tables, IsFiniteSet(Rows(t)), NEW q \in SearchQuery
    PROVE  /\ Selected(t, q) \subseteq Keys
           /\ IsFiniteSet(Selected(t, q))
<1>1. Selected(t, q) \subseteq Rows(t) /\ Rows(t) \subseteq Keys
  BY DEF Selected, Rows, SearchQuery
<1> QED BY <1>1, FS_Subset

LEMMA PageType ==
    ASSUME NEW q \in SearchQuery, NEW S, NEW s \in Seq(S)
    PROVE  SqlPage(q, s) \in Seq(S)
<1>1. q.limit \in OrNone(Nat) /\ Or(q.offset, 0) \in Nat
  BY DEF SearchQuery, OrNone, Or
<1>2. Window(s, Or(q.offset, 0), q.limit) \in Seq(S)
  BY <1>1, WindowType
<1> QED BY <1>2 DEF SqlPage

LEMMA SearchInit ==
    ASSUME Init
    PROVE  SearchInv
<1>1. /\ db = EmptyTables /\ base = EmptyTables /\ clock = 0 /\ pc = "done"
      /\ query \in Queries /\ todo = <<>> /\ out = <<>>
  BY SameStore DEF Init, Store!Init
<1>2. SearchType
  <2>1. query \in SearchQuery
    BY <1>1, QueriesAssumption
  <2>2. todo \in Seq(Selected(base, query)) /\ out \in Seq(Record)
    BY <1>1, EmptySeq
  <2> QED BY <1>1, <2>1, <2>2, EmptyType DEF SearchType, DraftType
<1>3. TablesOK
  <2>1. Rows(EmptyTables) = {}
    BY DEF Rows, EmptyTables
  <2> QED BY <1>1, <2>1, EmptyType, EmptyOK, ExtendsReflexive, FS_EmptySet
          DEF TablesOK
<1>4. Len(out) = 0
  BY <1>1, EmptySeq
<1>5. \A i \in 1 .. Len(out) : RecordOK(out[i], base, query)
  BY <1>4
<1>6. DraftOK /\ PageOK
  BY <1>1 DEF DraftOK, PageOK
<1>7. PageExact
  <2> DEFINE all == Selected(base, query) \cap query.values
             offset == Or(query.offset, 0)
             limit == query.limit
             n == IF limit = None THEN 0 ELSE Earlier(offset + limit, 0)
  <2>1. query \in SearchQuery
    BY <1>1, QueriesAssumption
  <2>2. all = {}
    BY <1>1, <2>1 DEF Selected, EmptyTables, SearchQuery
  <2>3. out \in Seq(all) /\ Len(out) = 0
    BY <1>1, EmptySeq
  <2>4. out \in Orderings(base, query.order, all)
    <3>1. IsFiniteSet(all)
      BY <2>2, FS_EmptySet
    <3> HIDE DEF all
    <3> DEFINE s == out
               order == query.order
    <3>2. /\ s \in Seq(all)
          /\ \A x \in all : \E i \in 1 .. Len(s) : s[i] = x
          /\ \A i, j \in 1 .. Len(s) : s[i] = s[j] => i = j
          /\ \A i, j \in 1 .. Len(s) :
                i < j => MayPrecede(base, order, s[i], s[j])
      BY <2>2, <2>3
    <3> HIDE DEF s, order
    <3>3. s \in Orderings(base, order, all)
      BY <3>1, <3>2, OrderingsAre
    <3> QED BY <3>3 DEF s, order
  <2>5. offset \in Nat /\ limit \in OrNone(Nat)
    BY <2>1 DEF SearchQuery, OrNone, Or
  <2>6. n \in Int /\ n < offset + 1
    BY <2>5 DEF OrNone, Earlier
  <2>7. Window(out, offset, limit) = SubSeq(out, offset + 1, n)
    BY <2>3 DEF Window
  <2>8. Window(out, offset, limit) = <<>>
    <3> HIDE DEF n, offset
    <3> QED BY <2>5, <2>6, <2>7, SubSeqEmpty
  <2>9. [i \in 1 .. Len(out) |-> out[i].key] = <<>>
    BY <1>4
  <2> QED BY <1>1, <2>4, <2>8, <2>9 DEF PageExact
<1> QED BY <1>2, <1>3, <1>5, <1>6, <1>7 DEF SearchInv
-----------------------------------------------------------------------------
(* Each step preserves it.                                                 *)

(* A search starts with an empty answer and the page as its ids.           *)
LEMMA SelectIdsKeeps ==
    ASSUME SearchInv, NEW q \in Queries, SelectIds(q)
    PROVE  SearchInv'
<1> DEFINE S == Selected(db, q)
<1>1. /\ query' = q /\ base' = db /\ pc' = "row" /\ out' = <<>>
      /\ db' = db /\ clock' = clock
  BY DEF SelectIds
<1>2. PICK s \in Orderings(db, q.order, S) : todo' = SqlPage(q, s)
  BY DEF SelectIds
<1>3. q \in SearchQuery
  BY QueriesAssumption
<1>4. IsFiniteSet(S)
  BY <1>3, SelectedFinite DEF SearchInv, SearchType, TablesOK
<1>5. s \in Seq(S)
  <2> HIDE DEF S
  <2> QED BY <1>2, <1>4, OrderingsAre
<1>6. todo' \in Seq(S) /\ Len(todo') \in Nat
  <2> HIDE DEF S
  <2> QED BY <1>2, <1>3, <1>5, PageType, LenProperties
<1>7. out' \in Seq(Record) /\ Len(out') = 0
  BY <1>1, EmptySeq
<1>8. SearchType'
  BY <1>1, <1>3, <1>6, <1>7 DEF SearchInv, SearchType, DraftType
<1>9. TablesOK'
  BY <1>1, ExtendsReflexive DEF SearchInv, SearchType, TablesOK
<1>10. InPage(SqlPage(q, s), out', todo')
  <2> DEFINE p == SqlPage(q, s)
             records == out'
  <2>1. todo' = p /\ Len(records) = 0
    BY <1>2, <1>7
  <2> HIDE DEF p, records
  <2>2. InPage(p, records, todo')
    BY <1>6, <2>1 DEF InPage
  <2> QED BY <2>2 DEF p, records
<1>11. PageOK'
  BY <1>1, <1>2, <1>10 DEF PageOK
<1>12. (\A i \in 1 .. Len(out) : RecordOK(out[i], base, query))'
  BY <1>7
<1>13. DraftOK' /\ PageExact'
  BY <1>1 DEF DraftOK, PageExact
<1> QED BY <1>8, <1>9, <1>11, <1>12, <1>13 DEF SearchInv

(* What the steps of a search share: tables and query stay.                *)
LEMMA ReaderFrame ==
    ASSUME SearchInv, UNCHANGED <<db, clock, query, base>>
    PROVE  /\ db' \in Tables /\ base' \in Tables /\ clock' \in Nat
           /\ query' \in SearchQuery
           /\ TablesOK'
BY DEF SearchInv, SearchType, TablesOK

LEMMA NextId ==
    ASSUME SearchInv, todo # <<>>
    PROVE  /\ Head(todo) \in Keys
           /\ Head(todo) \in Selected(base, query)
           /\ base.ioc[Head(todo)] # None
           /\ db.ioc[Head(todo)] # None
           /\ base.ioc[Head(todo)] \in IocRow
           /\ db.ioc[Head(todo)] \in IocRow
           /\ db.ioc[Head(todo)].first <= base.ioc[Head(todo)].first
           /\ base.ioc[Head(todo)].last <= db.ioc[Head(todo)].last
           /\ base.ioc[Head(todo)].threat # None =>
                 db.ioc[Head(todo)].threat = base.ioc[Head(todo)].threat
<1> DEFINE k == Head(todo)
<1>1. k \in Selected(base, query)
  <2> DEFINE S == Selected(base, query)
  <2>1. todo \in Seq(S)
    BY DEF SearchInv, SearchType
  <2> HIDE DEF S
  <2>2. k \in S
    BY <2>1, HeadTailProperties
  <2> QED BY <2>2 DEF S
<1> HIDE DEF k
<1>2. k \in Keys /\ base.ioc[k] # None
  BY <1>1 DEF Selected, SearchInv, SearchType, SearchQuery
<1>3. /\ db.ioc[k] # None
      /\ db.ioc[k].first <= base.ioc[k].first
      /\ base.ioc[k].last <= db.ioc[k].last
      /\ base.ioc[k].threat # None => db.ioc[k].threat = base.ioc[k].threat
  BY <1>2 DEF SearchInv, TablesOK, Extends
<1>4. base.ioc[k] \in IocRow /\ db.ioc[k] \in IocRow
  BY <1>2, <1>3 DEF SearchInv, SearchType, Tables, OrNone
<1> QED BY <1>1, <1>2, <1>3, <1>4 DEF k

LEMMA ReadRowKeeps ==
    ASSUME SearchInv, ReadRow
    PROVE  SearchInv'
<1> DEFINE k == Head(todo)
<1>1. /\ todo # <<>> /\ pc' = "sources"
      /\ UNCHANGED <<db, clock, query, todo, out, base>>
      /\ rec' = [key |-> k, row |-> db.ioc[k], seen |-> <<>>,
                 tags |-> {}, cves |-> {}]
  BY DEF ReadRow, NoRecord
<1>2. /\ k \in Keys /\ k \in Selected(base, query)
      /\ db.ioc[k] # None
      /\ db.ioc[k] \in IocRow
      /\ db.ioc[k].first <= base.ioc[k].first
      /\ base.ioc[k].last <= db.ioc[k].last
      /\ base.ioc[k].threat # None => db.ioc[k].threat = base.ioc[k].threat
  BY <1>1, NextId
<1>3. rec'.key = k /\ rec'.row = db.ioc[k]
  BY <1>1
<1>4. rec' = [key |-> rec'.key, row |-> rec'.row, seen |-> rec'.seen,
              tags |-> rec'.tags, cves |-> rec'.cves]
  BY <1>1
<1>5. SearchType'
  BY <1>1, <1>2, <1>3, <1>4 DEF SearchInv, SearchType, DraftType
<1>6. TablesOK'
  BY <1>1, ReaderFrame
<1>7. DraftOK'
  <2>1. RowOK(rec', base, query)
    BY <1>2, <1>3 DEF RowOK
  <2>2. RowOld(rec', db)
    BY <1>2, <1>3 DEF RowOld, IocRow, Times
  <2> QED BY <1>1, <1>3, <2>1, <2>2 DEF DraftOK
<1>8. PageOK' /\ PageExact'
  BY <1>1 DEF SearchInv, PageOK, PageExact, ReadRow
<1> QED BY <1>1, <1>5, <1>6, <1>7, <1>8 DEF SearchInv

(* The sightings read cover the row read before them.                      *)
LEMMA ReadSourcesKeeps ==
    ASSUME SearchInv, ReadSources
    PROVE  SearchInv'
<1> DEFINE k == rec.key
<1>1. /\ pc = "sources" /\ pc' = "tags"
      /\ UNCHANGED <<db, clock, query, todo, out, base>>
      /\ rec' = [rec EXCEPT !.seen = db.seen[rec.key]]
  BY DEF ReadSources
<1>2. /\ k \in Keys /\ rec.row \in IocRow
      /\ rec = [key |-> rec.key, row |-> rec.row, seen |-> rec.seen,
                tags |-> rec.tags, cves |-> rec.cves]
      /\ todo # <<>> /\ k = Head(todo) /\ RowOK(rec, base, query)
      /\ RowOld(rec, db)
  BY <1>1 DEF SearchInv, SearchType, DraftType, DraftOK
<1>3. rec' = [key |-> k, row |-> rec.row, seen |-> db.seen[k],
              tags |-> rec.tags, cves |-> rec.cves]
  BY <1>1, <1>2
<1>4. rec'.key = k /\ rec'.row = rec.row /\ rec'.seen = db.seen[k]
  BY <1>3
<1>5. db.seen[k] \in [Sources -> OrNone(Sighting)]
  BY <1>2 DEF SearchInv, SearchType, Tables
<1>6. SearchType'
  <2>1. rec' = [key |-> rec'.key, row |-> rec'.row, seen |-> rec'.seen,
                tags |-> rec'.tags, cves |-> rec'.cves]
    BY <1>3
  <2>2. DraftType'
    BY <1>1, <1>2, <1>4, <1>5, <2>1 DEF DraftType
  <2> QED BY <1>1, <2>2 DEF SearchInv, SearchType
<1>7. TablesOK'
  BY <1>1, ReaderFrame
<1>8. SeenOK(rec', base)
  <2>1. /\ db.ioc[k] # None
        /\ db.ioc[k].first <= rec.row.first
        /\ rec.row.last <= db.ioc[k].last
    BY <1>2 DEF RowOld
  <2>2. /\ \E s \in Sources : db.seen[k][s] # None
                              /\ db.seen[k][s].first = db.ioc[k].first
        /\ \E s \in Sources : db.seen[k][s] # None
                              /\ db.seen[k][s].last = db.ioc[k].last
    BY <1>2, <2>1 DEF SearchInv, TablesOK, Coherent, Aggregated
  <2>3. db.ioc[k].last \in Nat /\ rec.row.last \in Nat
    BY <1>2, <2>1 DEF SearchInv, SearchType, Tables, OrNone, IocRow, Times
  <2>4. \A s \in Sources : base.seen[k][s] # None => db.seen[k][s] # None
    BY <1>2 DEF SearchInv, TablesOK, Extends
  <2> QED BY <1>4, <2>1, <2>2, <2>3, <2>4 DEF SeenOK
<1>9. DraftOK'
  <2>1. RowOK(rec', base, query)
    BY <1>2, <1>4 DEF RowOK
  <2> QED BY <1>1, <1>2, <1>4, <1>8, <2>1 DEF DraftOK
<1>10. PageOK' /\ PageExact'
  BY <1>1 DEF SearchInv, PageOK, PageExact
<1> QED BY <1>1, <1>6, <1>7, <1>9, <1>10 DEF SearchInv

LEMMA ReadTagsKeeps ==
    ASSUME SearchInv, ReadTags
    PROVE  SearchInv'
<1> DEFINE k == rec.key
<1>1. /\ pc = "tags" /\ pc' = "cves"
      /\ UNCHANGED <<db, clock, query, todo, out, base>>
      /\ rec' = [rec EXCEPT !.tags = db.tag[rec.key]]
  BY DEF ReadTags
<1>2. /\ k \in Keys /\ rec.row \in IocRow
      /\ rec.seen \in [Sources -> OrNone(Sighting)]
      /\ rec = [key |-> rec.key, row |-> rec.row, seen |-> rec.seen,
                tags |-> rec.tags, cves |-> rec.cves]
      /\ todo # <<>> /\ k = Head(todo) /\ RowOK(rec, base, query)
      /\ SeenOK(rec, base)
  BY <1>1 DEF SearchInv, SearchType, DraftType, DraftOK
<1>3. rec' = [key |-> k, row |-> rec.row, seen |-> rec.seen,
              tags |-> db.tag[k], cves |-> rec.cves]
  BY <1>1, <1>2
<1>4. /\ rec'.key = k /\ rec'.row = rec.row /\ rec'.seen = rec.seen
      /\ rec'.tags = db.tag[k]
  BY <1>3
<1>5. db.tag[k] \in SUBSET Tags /\ base.tag[k] \subseteq db.tag[k]
  BY <1>2 DEF SearchInv, SearchType, TablesOK, Tables, Extends
<1>6. SearchType'
  <2>1. rec' = [key |-> rec'.key, row |-> rec'.row, seen |-> rec'.seen,
                tags |-> rec'.tags, cves |-> rec'.cves]
    BY <1>3
  <2>2. DraftType'
    BY <1>1, <1>2, <1>4, <1>5, <2>1 DEF DraftType
  <2> QED BY <1>1, <2>2 DEF SearchInv, SearchType
<1>7. TablesOK'
  BY <1>1, ReaderFrame
<1>8. DraftOK'
  <2>1. RowOK(rec', base, query)
    BY <1>2, <1>4 DEF RowOK
  <2>2. SeenOK(rec', base)
    BY <1>2, <1>4 DEF SeenOK
  <2>3. TagsOK(rec', base)
    BY <1>4, <1>5 DEF TagsOK
  <2> QED BY <1>1, <1>2, <1>4, <2>1, <2>2, <2>3 DEF DraftOK
<1>9. PageOK' /\ PageExact'
  BY <1>1 DEF SearchInv, PageOK, PageExact
<1> QED BY <1>1, <1>6, <1>7, <1>8, <1>9 DEF SearchInv
(* The record is complete, and moves from the ids to the answer.           *)
LEMMA ReadCvesKeeps ==
    ASSUME SearchInv, ReadCves
    PROVE  SearchInv'
<1> DEFINE k == rec.key
           r == [rec EXCEPT !.cves = LinkedTo(db, rec.key)]
           S == Selected(base, query)
           n == Len(out)
           m == Len(todo)
<1>1. /\ pc = "cves" /\ pc' = "row"
      /\ UNCHANGED <<db, clock, query, base>>
      /\ out' = Append(out, r) /\ todo' = Tail(todo)
  BY DEF ReadCves
<1>2. /\ k \in Keys /\ rec.row \in IocRow
      /\ rec.seen \in [Sources -> OrNone(Sighting)] /\ rec.tags \in SUBSET Tags
      /\ rec = [key |-> rec.key, row |-> rec.row, seen |-> rec.seen,
                tags |-> rec.tags, cves |-> rec.cves]
      /\ todo # <<>> /\ k = Head(todo) /\ RowOK(rec, base, query)
      /\ SeenOK(rec, base) /\ TagsOK(rec, base)
  BY <1>1 DEF SearchInv, SearchType, DraftType, DraftOK
<1>3. r = [key |-> k, row |-> rec.row, seen |-> rec.seen,
           tags |-> rec.tags, cves |-> LinkedTo(db, k)]
  BY <1>2
<1> HIDE DEF r
<1>4. /\ r.key = k /\ r.row = rec.row /\ r.seen = rec.seen
      /\ r.tags = rec.tags /\ r.cves = LinkedTo(db, k)
  BY <1>3
<1>5. LinkedTo(base, k) \subseteq LinkedTo(db, k) /\ LinkedTo(db, k) \subseteq Cves
  BY <1>2 DEF SearchInv, TablesOK, Extends, LinkedTo
<1>6. r \in Record
  BY <1>2, <1>3, <1>5 DEF Record
<1>7. RecordOK(r, base, query)
  <2>1. RowOK(r, base, query)
    BY <1>2, <1>4 DEF RowOK
  <2>2. SeenOK(r, base)
    BY <1>2, <1>4 DEF SeenOK
  <2>3. TagsOK(r, base)
    BY <1>2, <1>4 DEF TagsOK
  <2>4. CvesOK(r, base)
    BY <1>4, <1>5 DEF CvesOK
  <2> QED BY <2>1, <2>2, <2>3, <2>4 DEF RecordOK
<1>8. /\ out' \in Seq(Record) /\ n \in Nat /\ Len(out') = n + 1
      /\ \A i \in 1 .. n : out'[i] = out[i]
      /\ out'[n + 1] = r
  <2>1. out \in Seq(Record)
    BY DEF SearchInv, SearchType
  <2> QED BY <1>1, <1>6, <2>1, AppendProperties, LenProperties
<1>9. /\ todo' \in Seq(S) /\ m \in Nat \ {0} /\ Len(todo') = m - 1
      /\ \A i \in 1 .. m - 1 : todo'[i] = todo[i + 1]
      /\ k = todo[1]
  <2>1. todo \in Seq(S)
    BY DEF SearchInv, SearchType
  <2> HIDE DEF S
  <2>2. m \in Nat \ {0}
    BY <1>2, <2>1, EmptySeq
  <2>3. k = todo[1]
    BY <1>2, <2>1, <2>2
  <2>4. /\ Tail(todo) \in Seq(S) /\ Len(Tail(todo)) = m - 1
        /\ \A i \in 1 .. Len(Tail(todo)) : Tail(todo)[i] = todo[i + 1]
    BY <1>2, <2>1, HeadTailProperties
  <2> HIDE DEF k, m
  <2> QED BY <1>1, <2>2, <2>3, <2>4
<1>10. SearchType'
  <2>1. DraftType'
    BY <1>1 DEF DraftType
  <2> QED BY <1>1, <1>8, <1>9, <2>1 DEF SearchInv, SearchType
<1>11. TablesOK'
  BY <1>1, ReaderFrame
<1>12. (\A i \in 1 .. Len(out) : RecordOK(out[i], base, query))'
  <2> SUFFICES ASSUME NEW i \in 1 .. Len(out')
               PROVE  RecordOK(out'[i], base, query)
    BY <1>1
  <2>1. CASE i = n + 1
    BY <1>7, <1>8, <2>1
  <2>2. CASE i # n + 1
    <3>1. i \in 1 .. n
      BY <1>8, <2>2
    <3> QED BY <1>8, <3>1 DEF SearchInv
  <2> QED BY <2>1, <2>2
<1>13. PageOK'
  <2>1. PICK s \in Orderings(base, query.order, S) :
           InPage(SqlPage(query, s), out, todo)
    BY <1>1 DEF SearchInv, PageOK
  <2> DEFINE p == SqlPage(query, s)
  <2>2. InPage(p, out', todo')
    <3> HIDE DEF p
    <3>1. /\ Len(p) = n + m
          /\ \A i \in 1 .. n : out[i].key = p[i]
          /\ \A i \in 1 .. m : todo[i] = p[n + i]
      BY <2>1 DEF p, InPage
    <3> HIDE DEF n, m
    <3>2. Len(p) = Len(out') + Len(todo')
      BY <1>8, <1>9, <3>1
    <3>3. ASSUME NEW i \in 1 .. Len(out')
          PROVE  out'[i].key = p[i]
      <4>1. CASE i = n + 1
        <5>1. 1 \in 1 .. m
          BY <1>9
        <5>2. todo[1] = p[n + 1]
          BY <3>1, <5>1
        <5> QED BY <1>4, <1>8, <1>9, <4>1, <5>2
      <4>2. CASE i # n + 1
        <5>1. i \in 1 .. n
          BY <1>8, <4>2
        <5> QED BY <1>8, <3>1, <5>1
      <4> QED BY <4>1, <4>2
    <3>4. ASSUME NEW i \in 1 .. Len(todo')
          PROVE  todo'[i] = p[Len(out') + i]
      <4>1. i \in 1 .. m - 1 /\ i + 1 \in 1 .. m /\ n + (i + 1) = Len(out') + i
        BY <1>8, <1>9
      <4> QED BY <1>9, <3>1, <4>1
    <3> QED BY <3>2, <3>3, <3>4 DEF InPage
  <2> QED BY <1>1, <2>1, <2>2 DEF PageOK
<1>14. DraftOK' /\ PageExact'
  BY <1>1 DEF DraftOK, PageExact
<1> QED BY <1>10, <1>11, <1>12, <1>13, <1>14 DEF SearchInv

(* The answer is the page itself, or one cut out of what is left of it.    *)
LEMMA AnswerKeeps ==
    ASSUME SearchInv, Answer
    PROVE  SearchInv'
<1> DEFINE S      == Selected(base, query)
           all    == S \cap query.values
           offset == Or(query.offset, 0)
           limit  == query.limit
           order  == query.order
           picked == PostFilter(out, query.values)
<1>1. /\ pc = "row" /\ todo = <<>> /\ pc' = "done"
      /\ UNCHANGED <<db, clock, query, todo, rec, base>>
      /\ out' = IF query.post THEN Window(picked, offset, limit) ELSE out
  BY DEF Answer
<1>2. /\ out \in Seq(Record) /\ Len(todo) = 0 /\ Len(out) \in Nat
      /\ offset \in Nat /\ limit \in OrNone(Nat) /\ query \in SearchQuery
      /\ query.post \in BOOLEAN
  <2>1. out \in Seq(Record) /\ query \in SearchQuery
    BY DEF SearchInv, SearchType
  <2> QED BY <1>1, <2>1, LenProperties, EmptySeq
          DEF SearchQuery, OrNone, Or
<1>3. PICK s \in Orderings(base, order, S) : InPage(SqlPage(query, s), out, todo)
  BY <1>1 DEF SearchInv, PageOK
<1> HIDE DEF offset, limit, order, picked
<1>4. IsFiniteSet(S) /\ S \subseteq Keys
  BY SelectedFinite DEF SearchInv, SearchType, TablesOK
<1>5. \A i \in 1 .. Len(out) : out[i].key \in S
  BY DEF SearchInv, RecordOK, RowOK
<1> HIDE DEF S
<1>6. s \in Seq(S) /\ SqlPage(query, s) \in Seq(S)
  BY <1>2, <1>3, <1>4, OrderingsAre, PageType
(* All ids are hydrated: the keys of the records are the page of ids.      *)
<1>7. KeysOf(out) = SqlPage(query, s)
  <2> DEFINE p == SqlPage(query, s)
             ks == KeysOf(out)
  <2>1. /\ Len(p) = Len(out)
        /\ \A i \in 1 .. Len(out) : out[i].key = p[i]
    BY <1>2, <1>3 DEF InPage
  <2>2. /\ ks \in Seq(S) /\ Len(ks) = Len(out)
        /\ \A i \in 1 .. Len(out) : ks[i] = out[i].key
    BY <1>2, <1>5, KeysSeq
  <2>3. p \in Seq(S)
    BY <1>6
  <2> HIDE DEF p, ks
  <2>4. \A i \in 1 .. Len(ks) : ks[i] = p[i]
    BY <2>1, <2>2
  <2>5. ks = p
    BY <2>1, <2>2, <2>3, <2>4, SeqEqual
  <2> QED BY <2>5 DEF p, ks
<1>8. /\ picked \in Seq(Record)
      /\ \A x \in 1 .. Len(picked) : \E i \in 1 .. Len(out) : picked[x] = out[i]
  <2>1. /\ PostFilter(out, query.values) \in Seq(Record)
        /\ Picked(PostFilter(out, query.values), Len(out), out, query.values)
    BY <1>2, PostFilterPicks
  <2> QED BY <2>1 DEF picked, Picked
<1>9. /\ out' \in Seq(Record)
      /\ \A x \in 1 .. Len(out') : \E i \in 1 .. Len(out) : out'[x] = out[i]
  <2>1. CASE query.post
    <3> DEFINE w == Window(picked, offset, limit)
    <3>1. /\ w \in Seq(Record)
          /\ \A x \in 1 .. Len(w) : \E i \in 1 .. Len(picked) : w[x] = picked[i]
      <4>1. picked \in Seq(Record) /\ offset \in Nat /\ limit \in OrNone(Nat)
        BY <1>2, <1>8
      <4>2. w \in Seq(Record)
        BY <4>1, WindowType
      <4>3. \A x \in 1 .. Len(w) : \E i \in 1 .. Len(picked) : w[x] = picked[i]
        BY <4>1, WindowType
      <4> QED BY <4>2, <4>3
    <3> HIDE DEF w
    <3>2. out' = w
      BY <1>1, <2>1 DEF w
    <3> QED BY <1>8, <3>1, <3>2
  <2>2. CASE ~query.post
    BY <1>1, <1>2, <2>2
  <2> QED BY <2>1, <2>2
<1>10. PageExact'
  <2>1. SUFFICES ASSUME limit # None \/ query.post
                 PROVE  \E u \in Orderings(base, order, all) :
                           KeysOf(out') = Window(u, offset, limit)
    BY <1>1 DEF PageExact, KeysOf, S, offset, limit, order
  <2>2. CASE query.post
    <3>1. SqlPage(query, s) = s
      BY <2>2 DEF SqlPage
    <3>2. KeysOf(out) \in Orderings(base, order, S)
      BY <1>3, <1>7, <3>1
    <3>3. KeysOf(picked) \in Orderings(base, order, all)
      BY <1>2, <1>4, <3>2, PostFilterOrders DEF picked
    <3>4. \A x \in 1 .. Len(picked) : picked[x].key \in S
      BY <1>5, <1>8
    <3>5. KeysOf(Window(picked, offset, limit))
             = Window(KeysOf(picked), offset, limit)
      BY <1>2, <1>8, <3>4, WindowKeys
    <3> QED BY <1>1, <2>2, <3>3, <3>5
  <2>3. CASE ~query.post
    <3>1. all = S
      BY <1>2, <2>3 DEF S, Selected, SearchQuery
    <3>2. SqlPage(query, s) = Window(s, offset, limit)
      BY <2>1, <2>3 DEF SqlPage, offset, limit
    <3> QED BY <1>1, <1>3, <1>7, <2>3, <3>1, <3>2
  <2> QED BY <2>2, <2>3
<1>11. SearchType'
  BY <1>1, <1>9 DEF SearchInv, SearchType, DraftType
<1>12. TablesOK'
  BY <1>1, ReaderFrame
<1>13. (\A i \in 1 .. Len(out) : RecordOK(out[i], base, query))'
  BY <1>1, <1>9 DEF SearchInv
<1>14. DraftOK' /\ PageOK'
  BY <1>1 DEF DraftOK, PageOK
<1> QED BY <1>10, <1>11, <1>12, <1>13, <1>14 DEF SearchInv

(* A writer leaves the search alone, and the row in hand no wider than the *)
(* row in the tables.                                                      *)
LEMMA WriteKeeps ==
    ASSUME SearchInv, Write
    PROVE  SearchInv'
<1>1. /\ UNCHANGED <<pc, query, todo, rec, out, base>>
      /\ Store!Next
  BY DEF Write, reader
<1>2. /\ db' \in Tables /\ clock' \in Nat
      /\ Extends(db, db')
      /\ Coherent(db')
      /\ IsFiniteSet(Rows(db'))
  BY <1>1, StoreStep DEF SearchInv, SearchType, TablesOK
<1>3. SearchType'
  BY <1>1, <1>2 DEF SearchInv, SearchType, DraftType
<1>4. TablesOK'
  <2>1. Extends(base, db')
    BY <1>2, ExtendsTransitive DEF SearchInv, SearchType, TablesOK
  <2> QED BY <1>1, <1>2, <2>1 DEF SearchInv, TablesOK
<1>5. pc = "sources" => RowOld(rec, db')
  <2> SUFFICES ASSUME pc = "sources" PROVE RowOld(rec, db')
    OBVIOUS
  <2>1. RowOld(rec, db) /\ rec.key \in Keys /\ rec.row \in IocRow
    BY DEF SearchInv, SearchType, DraftType, DraftOK
  <2>2. /\ db'.ioc[rec.key] # None
        /\ db'.ioc[rec.key].first <= db.ioc[rec.key].first
        /\ db.ioc[rec.key].last <= db'.ioc[rec.key].last
    BY <1>2, <2>1 DEF Extends, RowOld
  <2>3. db.ioc[rec.key] \in IocRow /\ db'.ioc[rec.key] \in IocRow
    BY <1>2, <2>1, <2>2 DEF SearchInv, SearchType, Tables, OrNone, RowOld
  <2> QED BY <2>1, <2>2, <2>3 DEF RowOld, IocRow, Times
<1>6. DraftOK'
  BY <1>1, <1>5 DEF SearchInv, DraftOK
<1>7. PageOK' /\ PageExact'
  BY <1>1 DEF SearchInv, PageOK, PageExact
<1> QED BY <1>1, <1>3, <1>4, <1>6, <1>7 DEF SearchInv

(* A search that fails leaves no records and nothing to hydrate.           *)
LEMMA FailKeeps ==
    ASSUME SearchInv, Fail
    PROVE  SearchInv'
<1>1. /\ pc' = "failed" /\ todo' = <<>> /\ out' = <<>>
      /\ UNCHANGED <<db, clock, query, base>>
  BY DEF Fail
<1>2. todo' \in Seq(Selected(base, query)) /\ out' \in Seq(Record) /\ Len(out') = 0
  BY <1>1, EmptySeq
<1>3. SearchType'
  BY <1>1, <1>2 DEF SearchInv, SearchType, DraftType
<1>4. TablesOK'
  BY <1>1, ReaderFrame
<1>5. (\A i \in 1 .. Len(out) : RecordOK(out[i], base, query))'
  BY <1>2
<1>6. DraftOK' /\ PageOK' /\ PageExact'
  BY <1>1 DEF DraftOK, PageOK, PageExact
<1> QED BY <1>3, <1>4, <1>5, <1>6 DEF SearchInv

LEMMA SearchStep ==
    ASSUME SearchInv, [Next]_vars
    PROVE  SearchInv'
<1>1. CASE \E q \in Queries : SelectIds(q)
  BY <1>1, SelectIdsKeeps
<1>2. CASE ReadRow
  BY <1>2, ReadRowKeeps
<1>3. CASE ReadSources
  BY <1>3, ReadSourcesKeeps
<1>4. CASE ReadTags
  BY <1>4, ReadTagsKeeps
<1>5. CASE ReadCves
  BY <1>5, ReadCvesKeeps
<1>6. CASE Answer
  BY <1>6, AnswerKeeps
<1>7. CASE Fail
  BY <1>7, FailKeeps
<1>8. CASE Write
  BY <1>8, WriteKeeps
<1>9. CASE UNCHANGED vars
  BY <1>9 DEF vars, reader, SearchInv, SearchType, DraftType, TablesOK,
              DraftOK, PageOK, PageExact
<1> QED BY <1>1, <1>2, <1>3, <1>4, <1>5, <1>6, <1>7, <1>8, <1>9
    DEF Next, Read

(* What holds of each element of the answer holds of its records.          *)
LEMMA RangeOut ==
    ASSUME SearchInv, NEW r \in ToSet(out)
    PROVE  \E i \in 1 .. Len(out) : r = out[i]
<1>1. DOMAIN out = 1 .. Len(out)
  BY LenProperties DEF SearchInv, SearchType
<1> QED BY <1>1 DEF ToSet
-----------------------------------------------------------------------------
(* SearchInv holds in every state: whatever the writers commit between the *)
(* SELECTs of a search, the records read so far and the ids still to read  *)
(* make up one page of what was selected.                                  *)
THEOREM SearchInductive == Spec => []SearchInv
<1>1. Init => SearchInv
  BY SearchInit
<1>2. SearchInv /\ [Next]_vars => SearchInv'
  BY SearchStep
<1> QED BY <1>1, <1>2, PTL DEF Spec

(* No record contradicts itself on when its indicator was seen, although   *)
(* hydrate() reads the row and the sightings in two statements: the row is *)
(* read first, and what the tables hold only widens.                       *)
THEOREM AlwaysCovered == Spec => []RecordsCovered
<1>1. SearchInv => RecordsCovered
  <2> SUFFICES ASSUME SearchInv, NEW i \in 1 .. Len(out)
               PROVE  SeenOK(out[i], base)
    BY RangeOut DEF SeenOK, RecordsCovered
  <2> QED BY DEF SearchInv, RecordOK
<1> QED BY <1>1, SearchInductive, PTL

(* A returned record still passes the filters it was selected by, as far   *)
(* as they are on values that writers only widen or keep.                  *)
THEOREM AlwaysMatches == Spec => []StillMatches
<1>1. SearchInv => StillMatches
  <2> SUFFICES ASSUME SearchInv, NEW i \in 1 .. Len(out)
               PROVE  LET r == out[i] IN
                      /\ \E n \in query.first : r.row.first <= n
                      /\ \E n \in query.last : n <= r.row.last
                      /\ Admits(query.threats, {r.row.threat})
                      /\ query.fts = None \/ r.row.threat = query.fts
                      /\ Admits(query.sources, {s \in Sources : r.seen[s] # None})
                      /\ Admits(query.tags, r.tags)
                      /\ Admits(query.cves, r.cves)
    BY RangeOut DEF StillMatches
  <2> DEFINE r == out[i]
             k == r.key
             b == base.ioc[k]
  <2>1. RecordOK(r, base, query)
    BY DEF SearchInv
  <2> HIDE DEF r
  <2>2. /\ k \in query.types /\ b # None
        /\ b.first \in query.first /\ b.last \in query.last
        /\ Admits(query.threats, {b.threat})
        /\ Admits(query.sources, SeenBy(base, k))
        /\ Admits(query.tags, base.tag[k])
        /\ Admits(query.cves, LinkedTo(base, k))
        /\ query.fts = None \/ <<k, query.fts>> \in base.fts
    BY <2>1 DEF RecordOK, RowOK, Selected
  <2>3. /\ r.row.first <= b.first /\ b.last <= r.row.last
        /\ b.threat # None => r.row.threat = b.threat
    BY <2>1 DEF RecordOK, RowOK
  <2>4. /\ query.types \subseteq Keys /\ query.threats \subseteq Labels
        /\ query.fts \in OrNone(Labels)
    BY DEF SearchInv, SearchType, SearchQuery
  <2>5. Admits(query.threats, {r.row.threat})
    BY <2>2, <2>3, <2>4, NoneAssumption DEF Admits
  <2>6. query.fts = None \/ r.row.threat = query.fts
    <3>1. query.fts # None => b.threat = query.fts
      BY <2>2, <2>4 DEF SearchInv, TablesOK, Coherent, Indexed
    <3> QED BY <2>3, <3>1
  <2>7. Admits(query.sources, {s \in Sources : r.seen[s] # None})
    <3>1. SeenBy(base, k) \subseteq {s \in Sources : r.seen[s] # None}
      BY <2>1 DEF RecordOK, SeenOK, SeenBy
    <3> QED BY <2>2, <3>1 DEF Admits
  <2>8. Admits(query.tags, r.tags) /\ Admits(query.cves, r.cves)
    BY <2>1, <2>2 DEF RecordOK, TagsOK, CvesOK, Admits
  <2> QED BY <2>2, <2>3, <2>5, <2>6, <2>7, <2>8 DEF r
<1> QED BY <1>1, SearchInductive, PTL

(* An answer is a full page of all that matched when the ids were          *)
(* selected, in the order asked for, whether the value matcher runs in SQL *)
(* or, as post_filter_records(), on the hydrated records.                  *)
THEOREM AlwaysExact == Spec => []PageExact
<1>1. SearchInv => PageExact
  BY DEF SearchInv
<1> QED BY <1>1, SearchInductive, PTL
=============================================================================
