--------------------------- MODULE IocTablesProofs ---------------------------
(***************************************************************************)
(* What the statements of IocTables preserve, for every value of the       *)
(* constants: each maps tables to tables, keeps them coherent and loses    *)
(* nothing they held.                                                      *)
(***************************************************************************)
EXTENDS IocTables, SequenceTheorems, FiniteSetTheorems, WellFoundedInduction, TLAPS
-----------------------------------------------------------------------------
LEMMA EmptyType == EmptyTables \in Tables
BY DEF EmptyTables, Tables, OrNone

LEMMA EmptyOK == Coherent(EmptyTables)
BY DEF EmptyTables, Coherent, Aggregated, Indexed, Linked

LEMMA ExtendsReflexive ==
    ASSUME NEW t \in Tables
    PROVE  Extends(t, t)
<1>1. ASSUME NEW k \in Keys, t.ioc[k] # None
      PROVE  t.ioc[k].first \in Nat /\ t.ioc[k].last \in Nat
  BY <1>1 DEF Tables, OrNone, IocRow, Times
<1>2. ASSUME NEW k \in Keys, NEW s \in Sources, t.seen[k][s] # None
      PROVE  t.seen[k][s].first \in Nat /\ t.seen[k][s].last \in Nat
  BY <1>2 DEF Tables, OrNone, Sighting, Times
<1> QED BY <1>1, <1>2 DEF Extends

LEMMA ExtendsTransitive ==
    ASSUME NEW t \in Tables, NEW u \in Tables, NEW w \in Tables,
           Extends(t, u), Extends(u, w)
    PROVE  Extends(t, w)
<1>1. ASSUME NEW x \in Tables, NEW k \in Keys, x.ioc[k] # None
      PROVE  x.ioc[k].first \in Nat /\ x.ioc[k].last \in Nat
  BY <1>1 DEF Tables, OrNone, IocRow, Times
<1>2. ASSUME NEW x \in Tables, NEW k \in Keys, NEW s \in Sources,
             x.seen[k][s] # None
      PROVE  x.seen[k][s].first \in Nat /\ x.seen[k][s].last \in Nat
  BY <1>2 DEF Tables, OrNone, Sighting, Times
<1>3. ASSUME NEW k \in Keys, t.ioc[k] # None
      PROVE  /\ w.ioc[k] # None
             /\ w.ioc[k].first <= t.ioc[k].first
             /\ t.ioc[k].last <= w.ioc[k].last
             /\ t.ioc[k].threat # None => w.ioc[k].threat = t.ioc[k].threat
  <2>1. u.ioc[k] # None /\ w.ioc[k] # None
    BY <1>3 DEF Extends
  <2>2. QED BY <1>3, <2>1, <1>1 DEF Extends
<1>4. ASSUME NEW k \in Keys, NEW s \in Sources, t.seen[k][s] # None
      PROVE  /\ w.seen[k][s] # None
             /\ w.seen[k][s].first <= t.seen[k][s].first
             /\ t.seen[k][s].last <= w.seen[k][s].last
  <2>1. u.seen[k][s] # None /\ w.seen[k][s] # None
    BY <1>4 DEF Extends
  <2>2. QED BY <1>4, <2>1, <1>2 DEF Extends
<1>5. ASSUME NEW k \in Keys
      PROVE  /\ t.tag[k] \subseteq w.tag[k]
             /\ \A v \in Cves : t.link[k][v] # None => w.link[k][v] # None
  BY DEF Extends
<1>6. ASSUME NEW v \in Cves, t.cve[v] # None
      PROVE  /\ w.cve[v] # None
             /\ t.cve[v].date # None => w.cve[v].date # None
  BY <1>6 DEF Extends
<1> QED BY <1>3, <1>4, <1>5, <1>6 DEF Extends
-----------------------------------------------------------------------------
(* The pieces of an upsert.                                                *)

LEMMA RawParts ==
    ASSUME NEW raw \in RawIoc, NEW dflt \in Pct, NEW now \in Nat,
           ~Rejected(raw, dflt)
    PROVE  /\ Canon[raw.value] \in Keys
           /\ Or(raw.first, now) \in Nat
           /\ Or(raw.last, now) \in Nat
           /\ Or(raw.conf, dflt) \in Pct
<1>1. Canon[raw.value] \in Keys
  BY CanonAssumption DEF RawIoc, Rejected, Malformed
<1>2. Or(raw.first, now) \in Nat /\ Or(raw.last, now) \in Nat
  <2>1. raw.first \in OrNone(Nat) /\ raw.last \in OrNone(Nat)
    BY DEF RawIoc, Times
  <2> QED BY <2>1 DEF Or, OrNone
<1>3. Or(raw.conf, dflt) \in Nat
  <2>1. raw.conf \in OrNone(Nat)
    BY ConfAssumption DEF RawIoc, OrNone
  <2> QED BY <2>1 DEF Or, OrNone, Pct
<1>4. Or(raw.conf, dflt) \in Pct
  BY <1>3 DEF Rejected, Pct
<1> QED BY <1>1, <1>2, <1>4

LEMMA MergedSightingType ==
    ASSUME NEW old \in OrNone(Sighting), NEW first \in Nat, NEW last \in Nat,
           NEW conf \in Pct,
           NEW new, new = MergedSighting(old, first, last, conf)
    PROVE  /\ new \in Sighting
           /\ new # None
           /\ new.first <= first /\ last <= new.last
           /\ old # None => new.first <= old.first /\ old.last <= new.last
           /\ \/ new.first = first
              \/ old # None /\ new.first = old.first
           /\ \/ new.last = last
              \/ old # None /\ new.last = old.last
<1>1. CASE old = None
  <2>1. new = [first |-> first, last |-> last, conf |-> conf]
    BY <1>1 DEF MergedSighting
  <2>2. new \in Sighting
    BY <2>1 DEF Sighting, Times
  <2> QED BY <1>1, <2>1, <2>2, NoneAssumption
<1>2. CASE old # None
  <2>1. new = [first |-> Earlier(old.first, first),
               last |-> Later(old.last, last), conf |-> conf]
    BY <1>2 DEF MergedSighting
  <2>2. old.first \in Nat /\ old.last \in Nat
    BY <1>2 DEF OrNone, Sighting, Times
  <2>3. /\ new.first = Earlier(old.first, first)
        /\ new.last = Later(old.last, last)
    BY <2>1
  <2>4. new \in Sighting
    BY <2>1, <2>2 DEF Sighting, Times, Earlier, Later
  <2> QED BY <1>2, <2>2, <2>3, <2>4, NoneAssumption DEF Earlier, Later
<1> QED BY <1>1, <1>2

LEMMA ConfsType ==
    ASSUME NEW seen \in [Sources -> OrNone(Sighting)]
    PROVE  ConfsOf(seen) \in [Sources -> OrNone(Pct)]
BY DEF ConfsOf, OrNone, Sighting

LEMMA MergedRowType ==
    ASSUME NEW old \in OrNone(IocRow), NEW first \in Nat, NEW last \in Nat,
           NEW threat \in OrNone(Labels),
           NEW seen \in [Sources -> OrNone(Sighting)],
           NEW new, new = MergedRow(old, first, last, threat, seen)
    PROVE  /\ new \in IocRow
           /\ new # None
           /\ new.first <= first /\ last <= new.last
           /\ old # None => new.first <= old.first /\ old.last <= new.last
           /\ \/ new.first = first
              \/ old # None /\ new.first = old.first
           /\ \/ new.last = last
              \/ old # None /\ new.last = old.last
           /\ new.conf = Agg(ConfsOf(seen))
           /\ old # None /\ old.threat # None => new.threat = old.threat
<1>0. Agg(ConfsOf(seen)) \in Pct
  BY ConfsType, AggAssumption
<1>1. CASE old = None
  <2>1. new = [first |-> first, last |-> last, conf |-> Agg(ConfsOf(seen)),
               threat |-> threat, age |-> 0]
    BY <1>1 DEF MergedRow
  <2>2. new \in IocRow
    BY <1>0, <2>1 DEF IocRow, Times
  <2>3. /\ new.first = first /\ new.last = last
        /\ new.conf = Agg(ConfsOf(seen))
    BY <2>1
  <2> QED BY <1>1, <2>2, <2>3, NoneAssumption
<1>2. CASE old # None
  <2>1. new = [first |-> Earlier(old.first, first),
               last |-> Later(old.last, last), conf |-> Agg(ConfsOf(seen)),
               threat |-> Or(old.threat, threat), age |-> old.age]
    BY <1>2 DEF MergedRow
  <2>2. /\ old.first \in Nat /\ old.last \in Nat /\ old.age \in Nat
        /\ old.threat \in OrNone(Labels)
    BY <1>2 DEF OrNone, IocRow, Times
  <2>3. /\ new.first = Earlier(old.first, first)
        /\ new.last = Later(old.last, last)
        /\ new.conf = Agg(ConfsOf(seen))
        /\ new.threat = Or(old.threat, threat)
    BY <2>1
  <2>4. /\ Earlier(old.first, first) \in Nat /\ Later(old.last, last) \in Nat
        /\ Or(old.threat, threat) \in OrNone(Labels)
    BY <2>2 DEF Earlier, Later, Or
  <2>5. new \in IocRow
    BY <1>0, <2>1, <2>2, <2>4 DEF IocRow, Times
  <2> QED BY <1>2, <2>2, <2>3, <2>5, NoneAssumption DEF Earlier, Later, Or
<1> QED BY <1>1, <1>2

LEMMA StubsType ==
    ASSUME NEW cve \in [Cves -> OrNone(CveRow)], NEW ids
    PROVE  /\ WithStubs(cve, ids) \in [Cves -> OrNone(CveRow)]
           /\ \A v \in Cves : /\ cve[v] # None => WithStubs(cve, ids)[v] = cve[v]
                              /\ v \in ids => WithStubs(cve, ids)[v] # None
<1> DEFINE stub == [kev |-> FALSE, date |-> None]
<1>1. stub \in CveRow /\ stub # None
  <2>1. stub \in CveRow
    BY DEF CveRow, OrNone
  <2> HIDE DEF stub
  <2> QED BY <2>1, NoneAssumption
<1> HIDE DEF stub
<1>2. WithStubs(cve, ids) = [v \in Cves |-> IF v \in ids THEN Or(cve[v], stub)
                                                         ELSE cve[v]]
  BY DEF WithStubs, stub
<1>3. \A v \in Cves : cve[v] \in OrNone(CveRow)
  OBVIOUS
<1> QED BY <1>1, <1>2, <1>3 DEF Or, OrNone
-----------------------------------------------------------------------------
(* upsert_in_tx() keeps the tables coherent and loses nothing.             *)

LEMMA UpsertKeeps ==
    ASSUME NEW t \in Tables, NEW raw \in RawIoc, NEW s \in Sources,
           NEW dflt \in Pct, NEW now \in Nat, ~Rejected(raw, dflt),
           NEW u, u = UpsertInTx(t, raw, s, dflt, now)
    PROVE  /\ u \in Tables
           /\ Extends(t, u)
           /\ Coherent(t) => Coherent(u)
<1> DEFINE k     == Canon[raw.value]
           first == Or(raw.first, now)
           last  == Or(raw.last, now)
           sight == MergedSighting(t.seen[k][s], first, last, Or(raw.conf, dflt))
           seen  == [t.seen[k] EXCEPT ![s] = sight]
           row   == MergedRow(t.ioc[k], first, last, raw.threat, seen)
           link  == [v \in Cves |-> IF v \in raw.cves
                                    THEN Or(t.link[k][v], DefaultRel)
                                    ELSE t.link[k][v]]
<1>1. /\ k \in Keys /\ first \in Nat /\ last \in Nat
      /\ Or(raw.conf, dflt) \in Pct
  BY RawParts
<1>2. /\ raw.threat \in OrNone(Labels)
      /\ raw.tags \in SUBSET Tags
      /\ raw.cves \in SUBSET Cves
  BY DEF RawIoc
<1>3. /\ t.ioc \in [Keys -> OrNone(IocRow)]
      /\ t.seen \in [Keys -> [Sources -> OrNone(Sighting)]]
      /\ t.tag \in [Keys -> SUBSET Tags]
      /\ t.cve \in [Cves -> OrNone(CveRow)]
      /\ t.link \in [Keys -> [Cves -> OrNone(Rels)]]
      /\ t.fts \in SUBSET (Keys \X OrNone(Labels))
  BY DEF Tables
<1>4. u = [ioc  |-> [t.ioc EXCEPT ![k] = row],
           seen |-> [t.seen EXCEPT ![k] = seen],
           tag  |-> [t.tag EXCEPT ![k] = t.tag[k] \cup raw.tags],
           cve  |-> WithStubs(t.cve, raw.cves),
           link |-> [t.link EXCEPT ![k] = link],
           fts  |-> Reindexed(t.fts, k, t.ioc[k], row)]
  BY DEF UpsertInTx
<1>5. /\ u.ioc = [t.ioc EXCEPT ![k] = row]
      /\ u.seen = [t.seen EXCEPT ![k] = seen]
      /\ u.tag = [t.tag EXCEPT ![k] = t.tag[k] \cup raw.tags]
      /\ u.cve = WithStubs(t.cve, raw.cves)
      /\ u.link = [t.link EXCEPT ![k] = link]
      /\ u.fts = Reindexed(t.fts, k, t.ioc[k], row)
  BY <1>4
<1>6. t.seen[k][s] \in OrNone(Sighting)
  BY <1>1, <1>3
<1>7. /\ sight \in Sighting
      /\ sight # None
      /\ sight.first <= first /\ last <= sight.last
      /\ t.seen[k][s] # None => /\ sight.first <= t.seen[k][s].first
                                /\ t.seen[k][s].last <= sight.last
      /\ \/ sight.first = first
         \/ t.seen[k][s] # None /\ sight.first = t.seen[k][s].first
      /\ \/ sight.last = last
         \/ t.seen[k][s] # None /\ sight.last = t.seen[k][s].last
  <2> HIDE DEF k, first, last
  <2>1. PICK new : new = sight
    OBVIOUS
  <2> QED BY <1>1, <1>6, <2>1, MergedSightingType
<1>8. seen \in [Sources -> OrNone(Sighting)]
  <2> HIDE DEF sight
  <2> QED BY <1>1, <1>3, <1>7 DEF OrNone
<1>9. /\ row \in IocRow
      /\ row # None
      /\ row.first <= first /\ last <= row.last
      /\ t.ioc[k] # None => /\ row.first <= t.ioc[k].first
                            /\ t.ioc[k].last <= row.last
      /\ \/ row.first = first
         \/ t.ioc[k] # None /\ row.first = t.ioc[k].first
      /\ \/ row.last = last
         \/ t.ioc[k] # None /\ row.last = t.ioc[k].last
      /\ row.conf = Agg(ConfsOf(seen))
      /\ t.ioc[k] # None /\ t.ioc[k].threat # None => row.threat = t.ioc[k].threat
  <2> HIDE DEF k, first, last, seen
  <2>1. PICK new : new = row
    OBVIOUS
  <2>2. t.ioc[k] \in OrNone(IocRow)
    BY <1>1, <1>3
  <2> QED BY <1>1, <1>2, <1>8, <2>1, <2>2, MergedRowType
<1>10. link \in [Cves -> OrNone(Rels)]
  BY <1>1, <1>3, RelAssumption DEF Or, OrNone
<1>11. \A v \in Cves : t.link[k][v] # None => link[v] # None
  BY <1>1, <1>3 DEF Or
<1>12. \A v \in Cves : link[v] # None => v \in raw.cves \/ t.link[k][v] # None
  OBVIOUS
<1> HIDE DEF k, first, last, sight, row, link
<1>13. u \in Tables
  <2>1. Reindexed(t.fts, k, t.ioc[k], row) \in SUBSET (Keys \X OrNone(Labels))
    BY <1>1, <1>3, <1>9 DEF Reindexed, IocRow
  <2>2. WithStubs(t.cve, raw.cves) \in [Cves -> OrNone(CveRow)]
    BY <1>3, StubsType
  <2> HIDE DEF seen
  <2> QED BY <1>1, <1>2, <1>3, <1>4, <1>8, <1>9, <1>10, <2>1, <2>2
          DEF Tables, OrNone
<1>14. Extends(t, u)
  <2>0. /\ \A j \in Keys : j # k => /\ u.ioc[j] = t.ioc[j]
                                    /\ u.seen[j] = t.seen[j]
                                    /\ u.tag[j] = t.tag[j]
                                    /\ u.link[j] = t.link[j]
        /\ u.ioc[k] = row
        /\ u.tag[k] = t.tag[k] \cup raw.tags
        /\ u.link[k] = link
        /\ u.seen[k][s] = sight
        /\ \A x \in Sources : x # s => u.seen[k][x] = t.seen[k][x]
    BY <1>1, <1>3, <1>5
  <2>1. \A v \in Cves : t.cve[v] # None => u.cve[v] = t.cve[v]
    <3>1. t.cve \in [Cves -> OrNone(CveRow)]
      BY <1>3
    <3>2. \A v \in Cves : t.cve[v] # None =>
                           WithStubs(t.cve, raw.cves)[v] = t.cve[v]
      BY <3>1, StubsType
    <3>3. u.cve = WithStubs(t.cve, raw.cves)
      BY <1>5
    <3> QED BY <3>2, <3>3
  <2>2. Extends(t, t)
    BY ExtendsReflexive
  <2> QED BY <1>7, <1>9, <1>11, <2>0, <2>1, <2>2 DEF Extends
<1>15. ASSUME Coherent(t) PROVE Aggregated(u)
  <2>1. ASSUME NEW j \in Keys, j # k
        PROVE  u.ioc[j] = t.ioc[j] /\ u.seen[j] = t.seen[j]
    BY <1>3, <1>5, <2>1
  <2>2. u.ioc[k] = row /\ u.seen[k] = seen
    BY <1>1, <1>3, <1>5
  <2>3. seen[s] = sight /\ \A x \in Sources : x # s => seen[x] = t.seen[k][x]
    BY <1>1, <1>3
  <2> HIDE DEF seen
  <2>4. sight.first \in Nat /\ sight.last \in Nat /\ row.first \in Nat /\ row.last \in Nat
    BY <1>7, <1>9 DEF Sighting, IocRow, Times
  <2>5. CASE t.ioc[k] = None
    <3>1. \A x \in Sources : t.seen[k][x] = None
      BY <1>1, <1>15, <2>5 DEF Coherent, Aggregated
    <3>2. row.first = sight.first /\ row.last = sight.last
      BY <1>7, <1>9, <2>5, <3>1
    <3> QED BY <1>7, <1>9, <1>15, <2>1, <2>2, <2>3, <2>4, <3>1, <3>2
            DEF Coherent, Aggregated
  <2>6. CASE t.ioc[k] # None
    <3>1. /\ t.ioc[k].first \in Nat /\ t.ioc[k].last \in Nat
          /\ \A x \in Sources : t.seen[k][x] # None =>
                /\ t.seen[k][x].first \in Nat /\ t.seen[k][x].last \in Nat
                /\ t.ioc[k].first <= t.seen[k][x].first
                /\ t.seen[k][x].last <= t.ioc[k].last
      BY <1>1, <1>3, <1>15, <2>6
         DEF Coherent, Aggregated, OrNone, IocRow, Sighting, Times
    <3>2. \E x \in Sources : seen[x] # None /\ seen[x].first = row.first
      <4>1. CASE row.first = first
        BY <1>1, <1>7, <1>9, <2>3, <2>4, <2>6, <3>1, <4>1
      <4>2. CASE row.first = t.ioc[k].first
        <5>1. PICK x \in Sources : t.seen[k][x] # None
                                   /\ t.seen[k][x].first = t.ioc[k].first
          BY <1>1, <1>15, <2>6 DEF Coherent, Aggregated
        <5>2. CASE x = s
          BY <1>1, <1>7, <1>9, <2>3, <2>4, <3>1, <4>2, <5>1, <5>2
        <5> QED BY <2>3, <4>2, <5>1, <5>2
      <4> QED BY <1>9, <4>1, <4>2
    <3>3. \E x \in Sources : seen[x] # None /\ seen[x].last = row.last
      <4>1. CASE row.last = last
        BY <1>1, <1>7, <1>9, <2>3, <2>4, <2>6, <3>1, <4>1
      <4>2. CASE row.last = t.ioc[k].last
        <5>1. PICK x \in Sources : t.seen[k][x] # None
                                   /\ t.seen[k][x].last = t.ioc[k].last
          BY <1>1, <1>15, <2>6 DEF Coherent, Aggregated
        <5>2. CASE x = s
          BY <1>1, <1>7, <1>9, <2>3, <2>4, <3>1, <4>2, <5>1, <5>2
        <5> QED BY <2>3, <4>2, <5>1, <5>2
      <4> QED BY <1>9, <4>1, <4>2
    <3>4. \A x \in Sources : seen[x] # None => /\ row.first <= seen[x].first
                                               /\ seen[x].last <= row.last
      BY <1>1, <1>7, <1>9, <2>3, <2>4, <2>6, <3>1
    <3> QED BY <1>9, <1>15, <2>1, <2>2, <3>2, <3>3, <3>4
            DEF Coherent, Aggregated
  <2> QED BY <2>5, <2>6
<1>16. ASSUME Coherent(t) PROVE Indexed(u)
  <2>1. /\ \A j \in Keys : j # k => u.ioc[j] = t.ioc[j]
        /\ u.ioc[k] = row
    BY <1>3, <1>1, <1>5
  <2>2. ASSUME NEW j \in Keys, NEW l \in OrNone(Labels)
        PROVE  <<j, l>> \in u.fts <=> u.ioc[j] # None /\ u.ioc[j].threat = l
    <3>1. <<j, l>> \in t.fts <=> t.ioc[j] # None /\ t.ioc[j].threat = l
      BY <1>16 DEF Coherent, Indexed
    <3> QED BY <1>5, <1>9, <2>1, <3>1 DEF Reindexed
  <2> QED BY <2>2 DEF Indexed
<1>17. ASSUME Coherent(t) PROVE Linked(u)
  <2>1. /\ \A j \in Keys : j # k => /\ u.ioc[j] = t.ioc[j]
                                    /\ u.tag[j] = t.tag[j]
                                    /\ u.link[j] = t.link[j]
        /\ u.ioc[k] = row
        /\ u.link[k] = link
    BY <1>1, <1>3, <1>5
  <2>2. \A v \in Cves : /\ t.cve[v] # None => u.cve[v] # None
                        /\ v \in raw.cves => u.cve[v] # None
    <3>1. t.cve \in [Cves -> OrNone(CveRow)]
      BY <1>3
    <3>2. \A v \in Cves :
             /\ t.cve[v] # None => WithStubs(t.cve, raw.cves)[v] = t.cve[v]
             /\ v \in raw.cves => WithStubs(t.cve, raw.cves)[v] # None
      BY <3>1, StubsType
    <3>3. u.cve = WithStubs(t.cve, raw.cves)
      BY <1>5
    <3> QED BY <3>2, <3>3
  <2> QED BY <1>1, <1>9, <1>12, <1>17, <2>1, <2>2 DEF Coherent, Linked
<1> QED BY <1>13, <1>14, <1>15, <1>16, <1>17 DEF Coherent
-----------------------------------------------------------------------------
(* link_cve(), upsert_cve() and the updates of apply_decay() do, too.      *)

LEMMA LinkCveKeeps ==
    ASSUME NEW t \in Tables, NEW k \in Keys, NEW v \in Cves, NEW rel \in Rels,
           t.ioc[k] # None,
           NEW u, u = LinkCveIn(t, k, v, rel)
    PROVE  /\ u \in Tables
           /\ Extends(t, u)
           /\ Coherent(t) => Coherent(u)
<1>1. /\ t.cve \in [Cves -> OrNone(CveRow)]
      /\ t.link \in [Keys -> [Cves -> OrNone(Rels)]]
  BY DEF Tables
<1>2. u = [t EXCEPT !.cve = WithStubs(t.cve, {v}),
                    !.link = [t.link EXCEPT ![k] = [t.link[k] EXCEPT ![v] = rel]]]
  BY <1>1 DEF LinkCveIn, Tables
<1>3. /\ u.ioc = t.ioc /\ u.seen = t.seen /\ u.tag = t.tag /\ u.fts = t.fts
      /\ u.cve = WithStubs(t.cve, {v})
      /\ u.link = [t.link EXCEPT ![k] = [t.link[k] EXCEPT ![v] = rel]]
  BY <1>2 DEF Tables
<1>4. /\ u.cve \in [Cves -> OrNone(CveRow)]
      /\ \A x \in Cves : t.cve[x] # None => u.cve[x] = t.cve[x]
      /\ u.cve[v] # None
  BY <1>1, <1>3, StubsType
<1>5. u.link \in [Keys -> [Cves -> OrNone(Rels)]]
  BY <1>1, <1>3 DEF OrNone
<1>6. /\ u.link[k][v] = rel /\ rel # None
      /\ \A j \in Keys, x \in Cves :
            j # k \/ x # v => u.link[j][x] = t.link[j][x]
  BY <1>1, <1>3, NoneAssumption
<1>7. u \in Tables
  BY <1>2, <1>3, <1>4, <1>5 DEF Tables
<1>8. Extends(t, u)
  BY <1>3, <1>4, <1>6, ExtendsReflexive DEF Extends
<1>9. Coherent(t) => Coherent(u)
  <2>1. Aggregated(t) => Aggregated(u)
    BY <1>3 DEF Aggregated
  <2>2. Indexed(t) => Indexed(u)
    <3>1. u.ioc = t.ioc /\ u.fts = t.fts
      BY <1>3
    <3> QED BY <3>1 DEF Indexed
  <2>3. Linked(t) => Linked(u)
    <3>1. u.ioc = t.ioc /\ u.tag = t.tag
      BY <1>3
    <3> QED BY <3>1, <1>4, <1>6 DEF Linked
  <2> QED BY <2>1, <2>2, <2>3 DEF Coherent
<1> QED BY <1>7, <1>8, <1>9

LEMMA UpsertCveKeeps ==
    ASSUME NEW t \in Tables, NEW v \in Cves, NEW date \in OrNone(Dates),
           NEW kev \in BOOLEAN,
           NEW u, u = UpsertCveIn(t, v, date, kev)
    PROVE  /\ u \in Tables
           /\ Extends(t, u)
           /\ Coherent(t) => Coherent(u)
<1> DEFINE kept == IF t.cve[v] = None THEN None ELSE t.cve[v].date
           new  == [kev |-> kev, date |-> Or(date, kept)]
<1>1. t.cve \in [Cves -> OrNone(CveRow)]
  BY DEF Tables
<1>2. kept \in OrNone(Dates)
  BY <1>1 DEF OrNone, CveRow
<1>3. /\ new \in CveRow
      /\ kept # None => new.date # None
  <2> HIDE DEF kept
  <2> QED BY <1>2 DEF CveRow, Or
<1>4. /\ u.ioc = t.ioc /\ u.seen = t.seen /\ u.tag = t.tag /\ u.fts = t.fts
      /\ u.link = t.link
      /\ u.cve = [t.cve EXCEPT ![v] = new]
      /\ u = [t EXCEPT !.cve = [t.cve EXCEPT ![v] = new]]
  BY <1>1 DEF UpsertCveIn, Tables
<1>5. new # None /\ (t.cve[v] # None /\ t.cve[v].date # None => new.date # None)
  <2>1. None \notin CveRow
    BY NoneAssumption
  <2>2. t.cve[v] # None => kept = t.cve[v].date
    OBVIOUS
  <2> HIDE DEF new, kept
  <2> QED BY <1>3, <2>1, <2>2
<1> HIDE DEF new, kept
<1>6. u \in Tables
  BY <1>1, <1>3, <1>4 DEF Tables, OrNone
<1>7. \A x \in Cves : t.cve[x] # None =>
          /\ u.cve[x] # None
          /\ t.cve[x].date # None => u.cve[x].date # None
  BY <1>1, <1>4, <1>5
<1>8. Extends(t, u)
  <2>1. /\ u.ioc = t.ioc /\ u.seen = t.seen /\ u.tag = t.tag
        /\ u.link = t.link
    BY <1>4
  <2>2. Extends(t, t)
    BY ExtendsReflexive
  <2> QED BY <1>7, <2>1, <2>2 DEF Extends
<1>9. Coherent(t) => Coherent(u)
  <2>1. Aggregated(t) => Aggregated(u)
    BY <1>4 DEF Aggregated
  <2>2. Indexed(t) => Indexed(u)
    <3>1. u.ioc = t.ioc /\ u.fts = t.fts
      BY <1>4
    <3> QED BY <3>1 DEF Indexed
  <2>3. Linked(t) => Linked(u)
    <3>1. u.ioc = t.ioc /\ u.tag = t.tag /\ u.link = t.link
      BY <1>4
    <3>2. ASSUME NEW x \in Cves, t.cve[x] # None
          PROVE  u.cve[x] # None
      BY <1>7, <3>2
    <3> QED BY <3>1, <3>2 DEF Linked
  <2> QED BY <2>1, <2>2, <2>3 DEF Coherent
<1> QED BY <1>6, <1>8, <1>9

LEMMA RescoredKeeps ==
    ASSUME NEW t \in Tables, NEW plan \in [Keys -> OrNone(Times)],
           NEW now \in Nat,
           NEW u, u = Rescored(t, plan, now)
    PROVE  /\ u \in Tables
           /\ Extends(t, u)
           /\ Coherent(t) => Coherent(u)
<1> DEFINE ioc == [k \in Keys |->
                      IF plan[k] = None \/ t.ioc[k] = None
                      THEN t.ioc[k]
                      ELSE [t.ioc[k] EXCEPT !.age = ScoredAge(plan[k], now)]]
<1>1. t.ioc \in [Keys -> OrNone(IocRow)]
  BY DEF Tables
<1>2. /\ u = [t EXCEPT !.ioc = ioc]
      /\ u.ioc = ioc /\ u.seen = t.seen /\ u.tag = t.tag /\ u.fts = t.fts
      /\ u.link = t.link /\ u.cve = t.cve
  BY DEF Rescored, Tables
<1>3. ASSUME NEW k \in Keys
      PROVE  /\ ioc[k] \in OrNone(IocRow)
             /\ ioc[k] = None <=> t.ioc[k] = None
             /\ t.ioc[k] # None => /\ ioc[k].first = t.ioc[k].first
                                   /\ ioc[k].last = t.ioc[k].last
                                   /\ ioc[k].conf = t.ioc[k].conf
                                   /\ ioc[k].threat = t.ioc[k].threat
  <2>1. CASE plan[k] = None \/ t.ioc[k] = None
    BY <1>1, <2>1
  <2>2. CASE plan[k] # None /\ t.ioc[k] # None
    <3> DEFINE age == ScoredAge(plan[k], now)
    <3>1. age \in Nat
      BY <2>2 DEF ScoredAge, Later, OrNone, Times
    <3>2. ioc[k] = [t.ioc[k] EXCEPT !.age = age]
      BY <2>2
    <3>3. t.ioc[k] \in IocRow
      BY <1>1, <2>2 DEF OrNone
    <3> HIDE DEF age, ioc
    <3>4. ioc[k] \in IocRow
      BY <3>1, <3>2, <3>3 DEF IocRow
    <3>5. None \notin IocRow
      BY NoneAssumption
    <3>6. /\ ioc[k].first = t.ioc[k].first /\ ioc[k].last = t.ioc[k].last
          /\ ioc[k].conf = t.ioc[k].conf /\ ioc[k].threat = t.ioc[k].threat
      BY <3>2, <3>3 DEF IocRow
    <3> QED BY <2>2, <3>4, <3>5, <3>6 DEF OrNone
  <2> QED BY <2>1, <2>2
<1>4. ioc \in [Keys -> OrNone(IocRow)]
  BY <1>3
<1> HIDE DEF ioc
<1>5. u \in Tables
  BY <1>2, <1>4 DEF Tables
<1>6. Extends(t, u)
  BY <1>2, <1>3, ExtendsReflexive DEF Extends
<1>7. Coherent(t) => Coherent(u)
  <2>1. Aggregated(t) => Aggregated(u)
    BY <1>2, <1>3 DEF Aggregated
  <2>2. Indexed(t) => Indexed(u)
    <3>1. u.fts = t.fts
      BY <1>2
    <3>2. ASSUME NEW k \in Keys, NEW l
          PROVE  u.ioc[k] # None /\ u.ioc[k].threat = l
                 <=> t.ioc[k] # None /\ t.ioc[k].threat = l
      BY <1>2, <1>3
    <3> QED BY <3>1, <3>2 DEF Indexed
  <2>3. Linked(t) => Linked(u)
    BY <1>2, <1>3 DEF Linked
  <2> QED BY <2>1, <2>2, <2>3 DEF Coherent
<1> QED BY <1>5, <1>6, <1>7
-----------------------------------------------------------------------------
(* An upsert touches one row, and leaves it there.                         *)
LEMMA UpsertAdds ==
    ASSUME NEW t \in Tables, NEW raw \in RawIoc, NEW s \in Sources,
           NEW dflt \in Pct, NEW now \in Nat, ~Rejected(raw, dflt),
           NEW u, u = UpsertInTx(t, raw, s, dflt, now)
    PROVE  /\ Canon[raw.value] \in Keys
           /\ u.ioc[Canon[raw.value]] # None
           /\ \A k \in Keys : k # Canon[raw.value] => u.ioc[k] = t.ioc[k]
<1> DEFINE k     == Canon[raw.value]
           first == Or(raw.first, now)
           last  == Or(raw.last, now)
           conf  == Or(raw.conf, dflt)
           new   == MergedSighting(t.seen[k][s], first, last, conf)
           seen  == [t.seen[k] EXCEPT ![s] = new]
           row   == MergedRow(t.ioc[k], first, last, raw.threat, seen)
<1>1. /\ k \in Keys /\ first \in Nat /\ last \in Nat
      /\ conf \in Pct
  BY RawParts
<1>2. /\ t.ioc \in [Keys -> OrNone(IocRow)]
      /\ t.seen[k] \in [Sources -> OrNone(Sighting)]
      /\ t.ioc[k] \in OrNone(IocRow)
      /\ raw.threat \in OrNone(Labels)
  BY <1>1 DEF Tables, RawIoc
<1>3. u.ioc = [t.ioc EXCEPT ![k] = row]
  BY DEF UpsertInTx
<1> HIDE DEF k, first, last, conf
<1>4. seen \in [Sources -> OrNone(Sighting)]
  <2>1. t.seen[k][s] \in OrNone(Sighting)
    BY <1>2
  <2> HIDE DEF new
  <2>2. new \in Sighting
    BY <1>1, <2>1, MergedSightingType DEF new
  <2> QED BY <1>2, <2>2 DEF OrNone
<1> HIDE DEF seen
<1>5. row # None
  BY <1>1, <1>2, <1>4, MergedRowType
<1> HIDE DEF row
<1>6. u.ioc[k] # None /\ \A j \in Keys : j # k => u.ioc[j] = t.ioc[j]
  BY <1>1, <1>2, <1>3, <1>5
<1> QED BY <1>1, <1>6 DEF k

(* The rows of the tables.                                                 *)
Rows(t) == {k \in Keys : t.ioc[k] # None}

LEMMA UpsertRows ==
    ASSUME NEW t \in Tables, NEW raw \in RawIoc, NEW s \in Sources,
           NEW dflt \in Pct, NEW now \in Nat, ~Rejected(raw, dflt),
           NEW u, u = UpsertInTx(t, raw, s, dflt, now), IsFiniteSet(Rows(t))
    PROVE  IsFiniteSet(Rows(u))
<1> DEFINE k == Canon[raw.value]
<1>1. /\ k \in Keys /\ u.ioc[k] # None
      /\ \A j \in Keys : j # k => u.ioc[j] = t.ioc[j]
  BY UpsertAdds
<1>2. Rows(u) = Rows(t) \cup {k}
  BY <1>1 DEF Rows
<1> QED BY <1>2, FS_AddElement
-----------------------------------------------------------------------------
(* Whole batches.                                                          *)

(* Induction along an interval: what holds of 0, and of n + 1 if of n,     *)
(* holds up to m.                                                          *)
LEMMA IntervalInduction ==
    ASSUME NEW m \in Nat, NEW T, 0 \in T,
           \A n \in 0 .. m - 1 : n \in T => n + 1 \in T
    PROVE  0 .. m \subseteq T
<1> DEFINE R == OpToRel(<, Nat)
           B == {i \in 0 .. m : i \notin T}
<1> SUFFICES ASSUME B # {} PROVE FALSE
  OBVIOUS
<1>1. PICK x \in B : \A y \in B : <<y, x>> \notin R
  <2>1. IsWellFoundedOn(R, Nat)
    BY NatLessThanWellFounded
  <2>2. B \subseteq Nat
    OBVIOUS
  <2> HIDE DEF R, B
  <2> QED BY <2>1, <2>2, WFMin
<1>2. x # 0 /\ x \in 0 .. m /\ x \notin T
  OBVIOUS
<1>3. <<x - 1, x>> \in R
  BY <1>2 DEF OpToRel
<1>4. x - 1 \notin B
  BY <1>1, <1>3
<1> QED BY <1>2, <1>4

(* f gives the tables after each of the first n indicators of a batch.     *)
Run(f, n, t, b, s, dflt, nows) ==
    f = [i \in 0 .. n |-> IF i = 0 THEN t
                          ELSE UpsertInTx(f[i - 1], b[i], s, dflt, nows[i])]

LEMMA RunExists ==
    ASSUME NEW n \in Nat, NEW t, NEW b, NEW s, NEW dflt, NEW nows
    PROVE  \E f : Run(f, n, t, b, s, dflt, nows)
<1> DEFINE T == {j \in Nat : \E f : Run(f, j, t, b, s, dflt, nows)}
<1>1. 0 \in T
  <2>1. Run([i \in 0 .. 0 |-> t], 0, t, b, s, dflt, nows)
    BY DEF Run
  <2> QED BY <2>1
<1>2. ASSUME NEW j \in 0 .. n - 1, j \in T
      PROVE  j + 1 \in T
  <2>1. PICK f : Run(f, j, t, b, s, dflt, nows)
    BY <1>2
  <2> DEFINE next == UpsertInTx(f[j], b[j + 1], s, dflt, nows[j + 1])
             g    == [i \in 0 .. j + 1 |-> IF i = j + 1 THEN next ELSE f[i]]
  <2>2. ASSUME NEW i \in 0 .. j + 1
        PROVE  g[i] = IF i = 0 THEN t
                      ELSE UpsertInTx(g[i - 1], b[i], s, dflt, nows[i])
    <3>1. CASE i = j + 1
      BY <1>2, <3>1
    <3>2. CASE i # j + 1
      BY <1>2, <2>1, <3>2 DEF Run
    <3> QED BY <3>1, <3>2
  <2>3. Run(g, j + 1, t, b, s, dflt, nows)
    BY <2>2 DEF Run
  <2> QED BY <2>3
<1> HIDE DEF T
<1>3. n \in T
  BY <1>1, <1>2, IntervalInduction
<1> QED BY <1>3 DEF T

(* The tables after n indicators depend on these n alone.                  *)
LEMMA RunUnique ==
    ASSUME NEW n \in Nat, NEW m \in Nat, n <= m,
           NEW t, NEW b, NEW c, NEW s, NEW dflt, NEW nows, NEW ows,
           \A i \in 1 .. n : b[i] = c[i] /\ nows[i] = ows[i],
           NEW f, Run(f, n, t, b, s, dflt, nows),
           NEW g, Run(g, m, t, c, s, dflt, ows)
    PROVE  f[n] = g[n]
<1> DEFINE T == {i \in 0 .. n : f[i] = g[i]}
<1>1. 0 \in T
  BY DEF Run
<1>2. ASSUME NEW j \in 0 .. n - 1, j \in T
      PROVE  j + 1 \in T
  <2>1. f[j + 1] = UpsertInTx(f[j], b[j + 1], s, dflt, nows[j + 1])
    BY DEF Run
  <2>2. g[j + 1] = UpsertInTx(g[j], c[j + 1], s, dflt, ows[j + 1])
    BY DEF Run
  <2> QED BY <1>2, <2>1, <2>2
<1> HIDE DEF T
<1>3. n \in T
  BY <1>1, <1>2, IntervalInduction
<1> QED BY <1>3 DEF T

(* Applied() is what its recursive definition says.                        *)
LEMMA AppliedRun ==
    ASSUME NEW t, NEW b, Len(b) \in Nat, NEW s, NEW dflt, NEW nows
    PROVE  \E f : /\ Run(f, Len(b), t, b, s, dflt, nows)
                  /\ Applied(t, b, s, dflt, nows) = f[Len(b)]
<1> DEFINE f == CHOOSE f : f = [i \in 0 .. Len(b) |->
                         IF i = 0 THEN t
                         ELSE UpsertInTx(f[i - 1], b[i], s, dflt, nows[i])]
<1>1. Applied(t, b, s, dflt, nows) = f[Len(b)]
  BY DEF Applied
<1>2. Run(f, Len(b), t, b, s, dflt, nows)
  BY RunExists DEF Run
<1> HIDE DEF f
<1> QED BY <1>1, <1>2

LEMMA AppliedEmpty ==
    ASSUME NEW t, NEW b, Len(b) = 0, NEW s, NEW dflt, NEW nows
    PROVE  Applied(t, b, s, dflt, nows) = t
<1>1. PICK f : Run(f, 0, t, b, s, dflt, nows) /\ Applied(t, b, s, dflt, nows) = f[0]
  BY AppliedRun
<1> QED BY <1>1 DEF Run

(* One more indicator is one more upsert.                                  *)
LEMMA AppliedNext ==
    ASSUME NEW S, NEW b \in Seq(S), NEW n \in Nat, n < Len(b),
           NEW t, NEW s, NEW dflt, NEW nows, NEW ows,
           \A i \in 1 .. n : nows[i] = ows[i]
    PROVE  Applied(t, SubSeq(b, 1, n + 1), s, dflt, ows)
              = UpsertInTx(Applied(t, SubSeq(b, 1, n), s, dflt, nows),
                           b[n + 1], s, dflt, ows[n + 1])
<1> DEFINE c == SubSeq(b, 1, n)
           d == SubSeq(b, 1, n + 1)
<1>1. /\ Len(c) = n /\ Len(d) = n + 1
      /\ \A i \in 1 .. n : c[i] = b[i]
      /\ \A i \in 1 .. n + 1 : d[i] = b[i]
  <2>1. Len(b) \in Nat /\ \A i \in 1 .. n + 1 : b[i] \in S
    BY LenProperties, ElementOfSeq
  <2> QED BY <2>1, SubSeqProperties
<1> HIDE DEF c, d
<1>2. PICK f : /\ Run(f, n, t, c, s, dflt, nows)
               /\ Applied(t, c, s, dflt, nows) = f[n]
  BY <1>1, AppliedRun
<1>3. PICK g : /\ Run(g, n + 1, t, d, s, dflt, ows)
               /\ Applied(t, d, s, dflt, ows) = g[n + 1]
  BY <1>1, AppliedRun
<1>4. g[n] = f[n]
  BY <1>1, <1>2, <1>3, RunUnique
<1>5. g[n + 1] = UpsertInTx(g[n], d[n + 1], s, dflt, ows[n + 1])
  BY <1>3 DEF Run
<1> QED BY <1>1, <1>2, <1>3, <1>4, <1>5 DEF c, d

LEMMA AppliedFirst ==
    ASSUME NEW S, NEW b \in Seq(S), b # <<>>,
           NEW t, NEW s, NEW dflt, NEW nows
    PROVE  Applied(t, SubSeq(b, 1, 1), s, dflt, nows)
              = UpsertInTx(t, b[1], s, dflt, nows[1])
<1>1. 0 < Len(b)
  <2>1. Len(b) \in Nat /\ Len(b) # 0
    BY LenProperties, EmptySeq
  <2> QED BY <2>1
<1>2. Applied(t, SubSeq(b, 1, 0), s, dflt, nows) = t
  <2> DEFINE e == SubSeq(b, 1, 0)
  <2>1. Len(e) = 0
    BY SubSeqEmpty
  <2> HIDE DEF e
  <2>2. Applied(t, e, s, dflt, nows) = t
    BY <2>1, AppliedEmpty
  <2> QED BY <2>2 DEF e
<1>3. Applied(t, SubSeq(b, 1, 0 + 1), s, dflt, nows)
         = UpsertInTx(Applied(t, SubSeq(b, 1, 0), s, dflt, nows),
                      b[0 + 1], s, dflt, nows[0 + 1])
  BY <1>1, AppliedNext
<1> QED BY <1>2, <1>3

(* A batch of acceptable indicators keeps what one upsert keeps.           *)
LEMMA AppliedKeeps ==
    ASSUME NEW t \in Tables, NEW b \in Seq(RawIocs), NEW s \in Sources,
           NEW dflt \in Pct, NEW nows \in [1 .. Len(b) -> Nat],
           \A i \in 1 .. Len(b) : ~Rejected(b[i], dflt),
           NEW u, u = Applied(t, b, s, dflt, nows)
    PROVE  /\ u \in Tables
           /\ Extends(t, u)
           /\ Coherent(t) => Coherent(u)
           /\ IsFiniteSet(Rows(t)) => IsFiniteSet(Rows(u))
<1>1. PICK f : Run(f, Len(b), t, b, s, dflt, nows) /\ u = f[Len(b)]
  BY AppliedRun
<1> DEFINE T == {i \in 0 .. Len(b) : /\ f[i] \in Tables
                                     /\ Extends(t, f[i])
                                     /\ Coherent(t) => Coherent(f[i])
                                     /\ IsFiniteSet(Rows(t)) => IsFiniteSet(Rows(f[i]))}
<1>2. 0 \in T
  BY <1>1, ExtendsReflexive DEF Run
<1>3. ASSUME NEW n \in 0 .. Len(b) - 1, n \in T
      PROVE  n + 1 \in T
  <2>1. f[n + 1] = UpsertInTx(f[n], b[n + 1], s, dflt, nows[n + 1])
    BY <1>1 DEF Run
  <2>2. /\ b[n + 1] \in RawIoc /\ nows[n + 1] \in Nat
        /\ ~Rejected(b[n + 1], dflt)
    <3>1. Len(b) \in Nat /\ n + 1 \in 1 .. Len(b)
      BY LenProperties
    <3>2. b[n + 1] \in RawIocs
      BY <3>1, ElementOfSeq
    <3> QED BY <3>1, <3>2, RawAssumption
  <2>3. /\ f[n] \in Tables /\ Extends(t, f[n]) /\ (Coherent(t) => Coherent(f[n]))
        /\ IsFiniteSet(Rows(t)) => IsFiniteSet(Rows(f[n]))
    BY <1>3
  <2>4. /\ f[n + 1] \in Tables /\ Extends(f[n], f[n + 1])
        /\ Coherent(f[n]) => Coherent(f[n + 1])
        /\ IsFiniteSet(Rows(f[n])) => IsFiniteSet(Rows(f[n + 1]))
    BY <2>1, <2>2, <2>3, UpsertKeeps, UpsertRows
  <2>5. Extends(t, f[n + 1])
    BY <2>3, <2>4, ExtendsTransitive
  <2> QED BY <2>3, <2>4, <2>5
<1> DEFINE m == Len(b)
<1>4. m \in Nat
  BY LenProperties
<1>5. \A n \in 0 .. m - 1 : n \in T => n + 1 \in T
  BY <1>3
<1> HIDE DEF T, m
<1>6. 0 .. m \subseteq T
  BY <1>2, <1>4, <1>5, IntervalInduction
<1>7. m \in T
  BY <1>4, <1>6
<1> QED BY <1>1, <1>7 DEF T, m
-----------------------------------------------------------------------------
(* There is a latest last_seen, 0 if there is no row.                      *)
HasLatest(t) ==
    \E n \in {0} \cup ({LastSeen(t)[k] : k \in Keys} \ {None}) :
        \A k \in Keys : LastSeen(t)[k] # None => LastSeen(t)[k] <= n


LEMMA EmptyLatest == HasLatest(EmptyTables)
BY DEF HasLatest, LastSeen, EmptyTables

(* It remains when the rows that change only become later ...              *)
LEMMA UpsertLatest ==
    ASSUME NEW t \in Tables, NEW raw \in RawIoc, NEW s \in Sources,
           NEW dflt \in Pct, NEW now \in Nat, ~Rejected(raw, dflt),
           NEW u, u = UpsertInTx(t, raw, s, dflt, now), HasLatest(t)
    PROVE  HasLatest(u)
<1> DEFINE k == Canon[raw.value]
<1>1. /\ u \in Tables /\ Extends(t, u)
      /\ k \in Keys /\ u.ioc[k] # None
      /\ \A j \in Keys : j # k => u.ioc[j] = t.ioc[j]
  BY UpsertKeeps, UpsertAdds
<1> HIDE DEF k
<1>2. \A w \in Tables, j \in Keys :
          /\ w.ioc[j] # None => w.ioc[j].last \in Nat
          /\ LastSeen(w)[j] = IF w.ioc[j] = None THEN None ELSE w.ioc[j].last
          /\ w.ioc[j] # None => w.ioc[j].last # None
  <2>1. ASSUME NEW w \in Tables, NEW j \in Keys, w.ioc[j] # None
        PROVE  w.ioc[j].last \in Nat
    BY <2>1 DEF Tables, OrNone, IocRow, Times
  <2>2. ASSUME NEW w \in Tables, NEW j \in Keys
        PROVE  LastSeen(w)[j] = IF w.ioc[j] = None THEN None ELSE w.ioc[j].last
    BY DEF LastSeen
  <2> QED BY <2>1, <2>2, NoneAssumption
<1>3. PICK n \in {0} \cup ({LastSeen(t)[j] : j \in Keys} \ {None}) :
          \A j \in Keys : LastSeen(t)[j] # None => LastSeen(t)[j] <= n
  BY DEF HasLatest
<1>4. /\ n \in Nat
      /\ n = 0 \/ \E j \in Keys : t.ioc[j] # None /\ t.ioc[j].last = n
      /\ \A j \in Keys : t.ioc[j] # None => t.ioc[j].last <= n
  BY <1>2, <1>3
<1> DEFINE last == u.ioc[k].last
           m    == IF n <= last THEN last ELSE n
<1>5. last \in Nat /\ (t.ioc[k] # None => t.ioc[k].last <= last)
  BY <1>1, <1>2 DEF Extends
<1>6. \A j \in Keys : u.ioc[j] # None => u.ioc[j].last <= m
  BY <1>1, <1>2, <1>4, <1>5
<1>7. m = 0 \/ \E j \in Keys : u.ioc[j] # None /\ u.ioc[j].last = m
  BY <1>1, <1>4, <1>5
<1> HIDE DEF m, last
<1>8. m \in {0} \cup ({LastSeen(u)[j] : j \in Keys} \ {None})
  BY <1>1, <1>2, <1>7
<1>9. \A j \in Keys : LastSeen(u)[j] # None => LastSeen(u)[j] <= m
  BY <1>1, <1>2, <1>6
<1> QED BY <1>8, <1>9 DEF HasLatest

(* ... or none changes its last_seen.                                      *)
LEMMA SameLatest ==
    ASSUME NEW t, NEW u, LastSeen(u) = LastSeen(t), HasLatest(t)
    PROVE  HasLatest(u)
BY DEF HasLatest

LEMMA RescoredLatest ==
    ASSUME NEW t \in Tables, NEW plan \in [Keys -> OrNone(Times)],
           NEW now \in Nat
    PROVE  LastSeen(Rescored(t, plan, now)) = LastSeen(t)
<1> DEFINE u == Rescored(t, plan, now)
<1>1. ASSUME NEW k \in Keys
      PROVE  LastSeen(u)[k] = LastSeen(t)[k]
  <2>1. u.ioc[k] = IF plan[k] = None \/ t.ioc[k] = None
                   THEN t.ioc[k]
                   ELSE [t.ioc[k] EXCEPT !.age = ScoredAge(plan[k], now)]
    BY DEF Rescored, Tables
  <2>2. t.ioc[k] \in OrNone(IocRow)
    BY DEF Tables
  <2>3. u \in Tables /\ Extends(t, u)
    BY RescoredKeeps
  <2> HIDE DEF u
  <2> QED BY <2>1, <2>2, <2>3 DEF LastSeen, Extends, OrNone, IocRow
<1> HIDE DEF u
<1>2. LastSeen(u) = LastSeen(t)
  BY <1>1 DEF LastSeen
<1> QED BY <1>2 DEF u

LEMMA LinkCveLatest ==
    ASSUME NEW t \in Tables, NEW k, NEW v, NEW rel
    PROVE  LastSeen(LinkCveIn(t, k, v, rel)) = LastSeen(t)
BY DEF LastSeen, LinkCveIn, Tables

LEMMA UpsertCveLatest ==
    ASSUME NEW t \in Tables, NEW v, NEW date, NEW kev
    PROVE  LastSeen(UpsertCveIn(t, v, date, kev)) = LastSeen(t)
BY DEF LastSeen, UpsertCveIn, Tables
=============================================================================
